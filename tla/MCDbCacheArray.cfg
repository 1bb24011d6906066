SPECIFICATION Spec
CONSTANTS
    w1 = w1  w2 = w2  r1 = r1  a = a  b = b
    Writers = {w1, w2}
    Readers = {r1}
    ReadLocked = {r1}
    Readonly = {}
    MaxKey = 1
    Values = {a}
    NoValue = NoValue
    NoThread = NoThread
    Ops = {"push_back", "pop_back"}
    Outcomes = {"commit"}
    MaxNest = 1
INVARIANTS BackPresent
