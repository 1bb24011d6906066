------------------------------ MODULE TxStore ------------------------------
(***************************************************************************)
(* What a container of the database promises to its users, with no cache,  *)
(* no isolation flag and no locks: nested write transactions of one thread *)
(* at a time over a committed map, and readers for whom the committed map  *)
(* stands still while they are in a region under m_read_lock.              *)
(***************************************************************************)
EXTENDS Naturals, Sequences

CONSTANTS
    Threads,   \* the threads of the daemon
    Keys,      \* the keys of one container
    Values,    \* the values stored in it
    NoValue    \* a key that is not in the container

VARIABLES
    com,       \* the committed content
    txs,       \* the working copies of each thread's transactions, outermost first
    regions,   \* the threads inside a read region
    got        \* what the last finished get of a thread returned

vars == <<com, txs, regions, got>>

Content == [Keys -> Values \cup {NoValue}]
NoRead  == [key |-> NoValue, value |-> NoValue]

TypeOK ==
    /\ com \in Content
    /\ txs \in [Threads -> Seq(Content)]
    /\ regions \subseteq Threads
    /\ got \in [Threads -> [key : Keys \cup {NoValue}, value : Values \cup {NoValue}]]

Init ==
    /\ com = [k \in Keys |-> NoValue]
    /\ txs = [t \in Threads |-> <<>>]
    /\ regions = {}
    /\ got = [t \in Threads |-> NoRead]

View(t) == IF txs[t] = <<>> THEN com ELSE txs[t][Len(txs[t])]

Begin(t) ==
    /\ \A u \in Threads \ {t} : txs[u] = <<>>
    /\ txs' = [txs EXCEPT ![t] = Append(@, View(t))]
    /\ UNCHANGED <<com, regions, got>>

Write(t) ==
    /\ txs[t] # <<>>
    /\ \E k \in Keys, v \in Values \cup {NoValue} :
          txs' = [txs EXCEPT ![t][Len(txs[t])][k] = v]
    /\ UNCHANGED <<com, regions, got>>

(* A nested transaction is folded into the one around it; the outermost    *)
(* one becomes the committed content, which no reader may be looking at.   *)
Commit(t) ==
    /\ txs[t] # <<>> /\ regions = {}
    /\ IF Len(txs[t]) = 1
         THEN com' = View(t) /\ txs' = [txs EXCEPT ![t] = <<>>]
         ELSE /\ txs' = [txs EXCEPT ![t] = Append(SubSeq(@, 1, Len(@) - 2), View(t))]
              /\ UNCHANGED com
    /\ got' = [got EXCEPT ![t] = NoRead]
    /\ UNCHANGED regions

Abort(t) ==
    /\ txs[t] # <<>>
    /\ txs' = [txs EXCEPT ![t] = SubSeq(@, 1, Len(@) - 1)]
    /\ got' = [got EXCEPT ![t] = NoRead]
    /\ UNCHANGED <<com, regions>>

Enter(t) ==
    /\ t \notin regions
    /\ regions' = regions \cup {t}
    /\ UNCHANGED <<com, txs, got>>

Exit(t) ==
    /\ t \in regions
    /\ regions' = regions \ {t}
    /\ got' = [got EXCEPT ![t] = NoRead]
    /\ UNCHANGED <<com, txs>>

Get(t) ==
    /\ t \in regions \/ txs[t] # <<>>
    /\ \E k \in Keys : got' = [got EXCEPT ![t] = [key |-> k, value |-> View(t)[k]]]
    /\ UNCHANGED <<com, txs, regions>>

Next == \E t \in Threads :
    Begin(t) \/ Write(t) \/ Commit(t) \/ Abort(t) \/ Enter(t) \/ Exit(t) \/ Get(t)

Spec == Init /\ [][Next]_vars
=============================================================================
