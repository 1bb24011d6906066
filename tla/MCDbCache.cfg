SPECIFICATION FairSpec
CONSTANTS
    w1 = w1  w2 = w2  r1 = r1  a = a  b = b
    Writers = {w1, w2}
    Readers = {r1}
    ReadLocked = {r1}
    Readonly = {}
    MaxKey = 0
    Values = {a, b}
    NoValue = NoValue
    NoThread = NoThread
    Ops = {"set", "erase"}
    Outcomes = {"commit", "abort"}
    MaxNest = 2
INVARIANTS TypeOK CacheCoherent IsolationAsserts
PROPERTIES ImplementsStore TransactionEnds
