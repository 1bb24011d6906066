--------------------------- MODULE DbCache_proofs ---------------------------
(***************************************************************************)
(* Proofs about DbCache for any writers, readers, keys and values and any  *)
(* nesting of transactions.                                                *)
(***************************************************************************)
EXTENDS DbCache, FiniteSetTheorems, SequenceTheorems, TLAPS

(* How many LMDB transactions a writer has open.                           *)
Depth(t) == IF pc[t] = "begun" THEN tx_stack[t] + 1
            ELSE IF pc[t] = "finished" THEN tx_stack[t] - 1 ELSE tx_stack[t]

(* The points of a writer inside a write transaction, and those at which   *)
(* it has m_rwlock.                                                        *)
Inside    == {"tx", "put", "erased", "missed", "fetched", "ending", "locked", "finished"}
Exclusive == {"ending", "locked", "finished", "unlocking"}

(* The locks a writer has follow from where it is and from its stack of    *)
(* transactions.  It is the isolated thread as long as the stack is not    *)
(* empty, which is longer than it has m_write_exclusive_lock.              *)
WriterInv(t) ==
    /\ snap[t] = <<>> /\ pc[t] # "region"
    /\ pc[t] = "idle" => tx_stack[t] = 0
    /\ pc[t] \in Inside => tx_stack[t] > 0
    /\ write_lock = t <=> Depth(t) > 0
    /\ write_lock = t => Len(work) = Depth(t)
    /\ isolated = t <=> tx_stack[t] > 0
    /\ stack_lock = t <=> pc[t] = "finished"
    /\ exclusive = t <=> pc[t] \in Exclusive
    /\ pc[t] \in {"ending", "locked", "finished"} /\ outcome[t] = "abort" => tx_stack[t] = 1

ReaderInv(t) == pc[t] \in {"idle", "region", "missed", "fetched"} /\ tx_stack[t] = 0

LockInv ==
    /\ {write_lock, isolated, stack_lock, exclusive} \subseteq Writers \cup {NoThread}
    /\ write_lock = NoThread => work = <<>>

(* A call that has begun has a key.                                        *)
ArgInv == \A t \in Threads : pc[t] \in {"put", "erased", "missed", "fetched"} => arg[t] \in Keys

IInv ==
    /\ TypeOK /\ ArgInv
    /\ \A t \in Writers : WriterInv(t)
    /\ \A t \in Readers : ReaderInv(t)
    /\ LockInv

-----------------------------------------------------------------------------
(* Lemmas on contents and sequences of them *)

(* The number of keys of a container is a number.                          *)
LEMMA CountType ==
    ASSUME NEW c PROVE Count(c) \in Nat
<1> DEFINE S == {k \in Keys : c[k] # NoValue}
<1>1. IsFiniteSet(Keys)
  BY DbAssumption, FS_Interval DEF Keys
<1>2. IsFiniteSet(S)
  BY <1>1, FS_Subset
<1>3. Cardinality(S) \in Nat
  BY <1>2, FS_CardinalityType
<1>. QED BY <1>3 DEF Count

(* A content with another value at one key is a content.                   *)
LEMMA UpdateType ==
    ASSUME NEW c \in Content, NEW k, NEW v \in Values \cup {NoValue}
    PROVE  [c EXCEPT ![k] = v] \in Content
BY DEF Content

(* What holds of a stack of elements of S.                                 *)
Stack(S, s) ==
    /\ Len(s) \in Nat /\ (s = <<>> <=> Len(s) = 0)
    /\ s # <<>> => /\ Top(s) \in S
                   /\ Pop(s) \in Seq(S) /\ Len(Pop(s)) = Len(s) - 1
    /\ Len(s) > 1 => Len(Pop(Pop(s))) = Len(s) - 2 /\ Pop(Pop(s)) \in Seq(S)
    /\ \A c \in S : /\ Append(s, c) \in Seq(S)
                    /\ Len(Append(s, c)) = Len(s) + 1
                    /\ Top(Append(s, c)) = c

(* The topmost of some elements is one of them; one can be taken off and   *)
(* one can be put on top.                                                  *)
LEMMA StackOf ==
    ASSUME NEW S, NEW s \in Seq(S) PROVE Stack(S, s)
<1>1. Len(s) \in Nat /\ (s = <<>> <=> Len(s) = 0)
  OBVIOUS
<1>2. ASSUME NEW r \in Seq(S), r # <<>>
      PROVE  Top(r) \in S /\ Pop(r) \in Seq(S) /\ Len(Pop(r)) = Len(r) - 1
  <2>1. Len(r) \in Nat /\ Len(r) # 0
    BY <1>2
  <2>2. r[Len(r)] \in S
    BY <2>1
  <2>3. SubSeq(r, 1, Len(r) - 1) \in Seq(S) /\ Len(SubSeq(r, 1, Len(r) - 1)) = Len(r) - 1
    <3> DEFINE n == Len(r) - 1
    <3>1. 1 \in Int /\ n \in Nat /\ n \in Int /\ \A i \in 1 .. n : r[i] \in S
      BY <2>1
    <3> HIDE DEF n
    <3>2. SubSeq(r, 1, n) \in Seq(S)
      BY <3>1, SubSeqProperties, Zenon
    <3>3. Len(SubSeq(r, 1, n)) = IF 1 <= n THEN n - 1 + 1 ELSE 0
      BY <3>1, SubSeqProperties
    <3>4. Len(SubSeq(r, 1, n)) = n
      BY <3>1, <3>3
    <3>. QED BY <3>2, <3>4 DEF n
  <2>. QED BY <2>2, <2>3 DEF Top, Pop
<1>3. ASSUME Len(s) > 1
      PROVE  Len(Pop(Pop(s))) = Len(s) - 2 /\ Pop(Pop(s)) \in Seq(S)
  <2>1. s # <<>> /\ Pop(s) \in Seq(S) /\ Len(Pop(s)) = Len(s) - 1
    BY <1>1, <1>2, <1>3
  <2>2. Pop(s) # <<>>
    BY <2>1, <1>1, <1>3
  <2>. QED BY <2>1, <2>2, <1>1, <1>2
<1>4. ASSUME NEW c \in S
      PROVE  /\ Append(s, c) \in Seq(S) /\ Len(Append(s, c)) = Len(s) + 1
             /\ Top(Append(s, c)) = c
  BY DEF Top
<1>. QED BY <1>1, <1>2, <1>3, <1>4 DEF Stack

(* In particular of some contents.                                         *)
LEMMA StackType ==
    ASSUME NEW s \in Seq(Content)
    PROVE  /\ Len(s) \in Nat /\ (s = <<>> <=> Len(s) = 0)
           /\ s # <<>> => /\ Top(s) \in Content
                          /\ Pop(s) \in Seq(Content) /\ Len(Pop(s)) = Len(s) - 1
           /\ Len(s) > 1 => Len(Pop(Pop(s))) = Len(s) - 2 /\ Pop(Pop(s)) \in Seq(Content)
           /\ \A c \in Content : /\ Append(s, c) \in Seq(Content)
                                 /\ Len(Append(s, c)) = Len(s) + 1
                                 /\ Top(Append(s, c)) = c
<1>1. Stack(Content, s)
  BY StackOf, Zenon
<1>. QED BY <1>1, Zenon DEF Stack

(* Writing one key changes the topmost content and nothing else.           *)
LEMMA UpdateTop ==
    ASSUME work \in Seq(Content), work # <<>>, NEW k, NEW v \in Values \cup {NoValue},
           Update(k, v)
    PROVE  /\ work' \in Seq(Content) /\ Len(work') = Len(work)
           /\ Top(work') = [Top(work) EXCEPT ![k] = v]
<1> DEFINE c == [work[Len(work)] EXCEPT ![k] = v]
<1>1. Len(work) \in 1 .. Len(work) /\ work[Len(work)] \in Content
  OBVIOUS
<1>2. c \in Content
  BY <1>1, UpdateType
<1>3. work' = [work EXCEPT ![Len(work)] = c]
  BY DEF Update
<1> HIDE DEF c
<1>4. work' \in Seq(Content) /\ Len(work') = Len(work) /\ work'[Len(work)] = c
  BY <1>1, <1>2, <1>3
<1>. QED BY <1>4 DEF Top, c

(* What a thread sees of the container is a content.                       *)
LEMMA ViewType ==
    ASSUME IInv, NEW t \in Threads PROVE View(t) \in Content
<1>1. CASE write_lock = t
  <2>1. t \in Writers
    BY <1>1, DbAssumption DEF IInv, LockInv, Threads
  <2>2. work # <<>>
    <3>1. Len(work) = Depth(t) /\ Depth(t) > 0
      BY <1>1, <2>1 DEF IInv, WriterInv
    <3>. QED BY <3>1, StackType DEF IInv, TypeOK
  <2>. QED BY <1>1, <2>2, StackType DEF IInv, TypeOK, View
<1>2. CASE write_lock # t
  BY <1>2, StackType DEF IInv, TypeOK, View
<1>. QED BY <1>1, <1>2
-----------------------------------------------------------------------------
(* The invariant *)

(* Nothing is open and nobody has a lock at the start.                     *)
LEMMA Initially == Init => IInv
<1> SUFFICES ASSUME Init PROVE IInv
  OBVIOUS
<1>1. TypeOK
  <2>1. Empty \in Content
    BY DEF Empty, Content
  <2>2. NoRead \in [key : Keys \cup {NoValue}, value : Values \cup {NoValue}]
    BY DEF NoRead
  <2>3. <<>> \in Seq(Content)
    OBVIOUS
  <2>4. com \in Content /\ work \in Seq(Content) /\ cache \in Content
            /\ snap \in [Threads -> Seq(Content)]
    BY <2>1, <2>3 DEF Init
  <2>5. got \in [Threads -> [key : Keys \cup {NoValue}, value : Values \cup {NoValue}]]
    BY <2>2 DEF Init
  <2>6. /\ pc \in [Threads -> Points] /\ arg \in [Threads -> Keys \cup {NoValue}]
        /\ val \in [Threads -> Values \cup {NoValue}]
        /\ outcome \in [Threads -> {"commit", "abort"}]
    BY DEF Init, Points
  <2>. QED BY <2>4, <2>5, <2>6 DEF Init, TypeOK
<1>2. \A t \in Writers : WriterInv(t)
  BY DbAssumption DEF Init, WriterInv, Depth, Inside, Exclusive, Threads
<1>3. \A t \in Readers : ReaderInv(t)
  BY DEF Init, ReaderInv, Threads
<1>. QED BY <1>1, <1>2, <1>3 DEF IInv, ArgInv, LockInv, Init

(* A transaction begins: no other thread has m_write_exclusive_lock.       *)
LEMMA BackendBeginStep ==
    ASSUME IInv, NEW t \in Writers, BackendBegin(t) PROVE IInv'
<1> USE DEF BackendBegin, Goto, lockVars, cacheVars
<1>1. TypeOK'
  <2>1. View(t) \in Content
    BY ViewType DEF Threads
  <2>2. work' \in Seq(Content)
    BY <2>1, StackType DEF IInv, TypeOK
  <2>. QED BY <2>2 DEF IInv, TypeOK, Points, Threads
<1>2. Len(work) = Depth(t) /\ Len(work') = Len(work) + 1
  <2>1. Len(work') = Len(work) + 1
    BY ViewType, StackType DEF IInv, TypeOK, Threads
  <2>2. Depth(t) = tx_stack[t] /\ tx_stack[t] \in Nat
    BY DEF Depth, IInv, TypeOK, Threads
  <2>3. CASE write_lock = t
    BY <2>1, <2>3 DEF IInv, WriterInv
  <2>4. CASE write_lock = NoThread
    BY <2>1, <2>2, <2>4, DbAssumption DEF IInv, WriterInv, LockInv, Threads
  <2>. QED BY <2>1, <2>3, <2>4
<1>3. WriterInv(t)'
  BY <1>2 DEF IInv, WriterInv, Depth, Inside, Exclusive, TypeOK, Threads
<1>4. ASSUME NEW u \in Writers, u # t PROVE WriterInv(u)'
  BY <1>4, DbAssumption DEF IInv, WriterInv, Depth, TypeOK, Threads
<1>5. \A u \in Readers : ReaderInv(u)'
  BY DbAssumption DEF IInv, ReaderInv, TypeOK, Threads
<1>6. LockInv'
  BY DbAssumption DEF IInv, LockInv, Threads
<1>7. ArgInv'
  BY DEF IInv, ArgInv, TypeOK, Threads
<1>. QED BY <1>1, <1>3, <1>4, <1>5, <1>6, <1>7 DEF IInv

(* While a writer is between m_backend->begin_transaction and its place on *)
(* the stack, and m_transactions_stack_lock is free, no one else has       *)
(* anything on the stack: a writer that has given up the write lock and    *)
(* has not left isolation holds the stack lock.                            *)
LEMMA NobodyElse ==
    ASSUME IInv, NEW t \in Writers, pc[t] = "begun", stack_lock = NoThread,
           NEW u \in Writers, u # t
    PROVE  tx_stack[u] = 0
<1>1. write_lock = t
  BY DEF IInv, WriterInv, Depth, TypeOK, Threads
<1>2. ~(Depth(u) > 0) /\ pc[u] # "finished"
  BY <1>1, DbAssumption DEF IInv, WriterInv, Threads
<1>. QED BY <1>2 DEF IInv, Depth, TypeOK, Threads

(* set_isolation_mode finds nobody isolated, so that one writer is.        *)
LEMMA BeginTransactionStep ==
    ASSUME IInv, NEW t \in Writers, BeginTransaction(t) PROVE IInv'
<1> USE DEF BeginTransaction, Goto, dbVars, cacheVars
<1>1. TypeOK'
  BY DEF IInv, TypeOK, Points, Threads
<1>2. WriterInv(t)'
  BY DbAssumption DEF IInv, WriterInv, Depth, Inside, Exclusive, TypeOK, Threads
<1>3. ASSUME NEW u \in Writers, u # t PROVE WriterInv(u)'
  <2>1. tx_stack[u] = 0
    BY <1>3, NobodyElse
  <2>2. pc'[u] = pc[u] /\ tx_stack'[u] = tx_stack[u]
    BY <1>3 DEF IInv, TypeOK, Threads
  <2>3. isolated' # u
    BY <1>3, <2>1 DEF IInv, WriterInv
  <2>. QED BY <2>1, <2>2, <2>3 DEF IInv, WriterInv, Depth
<1>4. \A u \in Readers : ReaderInv(u)'
  BY DbAssumption DEF IInv, ReaderInv, TypeOK, Threads
<1>5. LockInv'
  BY DEF IInv, LockInv
<1>6. ArgInv'
  BY DEF IInv, ArgInv, TypeOK, Threads
<1>. QED BY <1>1, <1>2, <1>3, <1>4, <1>5, <1>6 DEF IInv

(* A transaction ends: m_rwlock, the backend, the isolation flag, m_rwlock.*)
LEMMA EndTransactionStep ==
    ASSUME IInv, NEW t \in Writers, EndTransaction(t) PROVE IInv'
<1> USE DEF EndTransaction, Goto, dbVars, cacheVars
<1>1. TypeOK'
  BY DbAssumption DEF IInv, TypeOK, Points, Threads
<1>2. WriterInv(t)'
  BY DbAssumption DEF IInv, WriterInv, Depth, Inside, Exclusive, TypeOK, Threads
<1>3. ASSUME NEW u \in Writers, u # t PROVE WriterInv(u)'
  BY <1>3, DbAssumption DEF IInv, WriterInv, Depth, TypeOK, Threads
<1>4. \A u \in Readers : ReaderInv(u)'
  BY DbAssumption DEF IInv, ReaderInv, TypeOK, Threads
<1>5. LockInv'
  BY DEF IInv, LockInv
<1>6. ArgInv'
  BY DEF IInv, ArgInv, TypeOK, Threads
<1>. QED BY <1>1, <1>2, <1>3, <1>4, <1>5, <1>6 DEF IInv

(* m_rwlock.lock() returns: the writer only moves on.                      *)
LEMMA ReadersGoneStep ==
    ASSUME IInv, NEW t \in Writers, ReadersGone(t) PROVE IInv'
<1> USE DEF ReadersGone, Goto, dbVars, lockVars, cacheVars
<1>1. TypeOK'
  BY DEF IInv, TypeOK, Points, Threads
<1>2. \A u \in Writers : WriterInv(u)'
  BY DbAssumption DEF IInv, WriterInv, Depth, Inside, Exclusive, TypeOK, Threads
<1>3. \A u \in Readers : ReaderInv(u)'
  BY DbAssumption DEF IInv, ReaderInv, TypeOK, Threads
<1>4. LockInv'
  BY DEF IInv, LockInv
<1>5. ArgInv'
  BY DEF IInv, ArgInv, TypeOK, Threads
<1>. QED BY <1>1, <1>2, <1>3, <1>4, <1>5 DEF IInv

(* How the LMDB transactions change when one of them ends.                 *)
LEMMA BackendEndWork ==
    ASSUME IInv, NEW t \in Writers, BackendEnd(t)
    PROVE  /\ write_lock = t /\ Len(work) = tx_stack[t] /\ tx_stack[t] \in Nat \ {0}
           /\ com' \in Content /\ work' \in Seq(Content) /\ Len(work') = Len(work) - 1
           /\ outcome[t] = "abort" => Len(work) = 1
           /\ Len(work) > 1 => Top(work') = Top(work)
<1>1. write_lock = t /\ Len(work) = tx_stack[t] /\ tx_stack[t] \in Nat \ {0}
  BY DEF BackendEnd, IInv, WriterInv, Depth, Inside, TypeOK, Threads
<1>2. outcome[t] = "abort" => Len(work) = 1
  BY <1>1 DEF BackendEnd, IInv, WriterInv
<1>3. outcome[t] \in {"commit", "abort"} /\ work \in Seq(Content) /\ work # <<>>
  BY <1>1, StackType DEF IInv, TypeOK, Threads
<1>4. com \in Content /\ Len(work) \in Nat
  BY <1>3, StackType DEF IInv, TypeOK
<1>5. CASE Len(work) = 1
  <2>1. work' = Pop(work) /\ com' \in {com, Top(work)}
    BY <1>5 DEF BackendEnd
  <2>2. Pop(work) \in Seq(Content) /\ Len(Pop(work)) = Len(work) - 1 /\ Top(work) \in Content
    BY <1>3, StackType
  <2>3. com' \in Content
    BY <1>4, <2>1, <2>2
  <2>4. work' \in Seq(Content) /\ Len(work') = Len(work) - 1
    BY <2>1, <2>2
  <2>5. ~(Len(work) > 1)
    BY <1>5
  <2>. QED BY <1>1, <1>2, <2>3, <2>4, <2>5
<1>6. CASE Len(work) > 1
  <2>0. Len(work) # 1
    BY <1>4, <1>6, SMTT(30)
  <2>1. outcome[t] = "commit"
    BY <1>2, <1>3, <2>0, Zenon
  <2>2. work' = Append(Pop(Pop(work)), Top(work)) /\ com' = com
    BY <1>6, <2>0, <2>1, Zenon DEF BackendEnd
  <2>3. Pop(Pop(work)) \in Seq(Content) /\ Len(Pop(Pop(work))) = Len(work) - 2
            /\ Top(work) \in Content
    BY <1>3, <1>6, StackType
  <2>4. work' \in Seq(Content) /\ Len(work') = Len(work) - 2 + 1 /\ Top(work') = Top(work)
    BY <2>2, <2>3, StackType
  <2>5. Len(work') = Len(work) - 1
    BY <1>4, <2>4
  <2>. QED BY <1>1, <1>2, <1>4, <2>2, <2>4, <2>5
<1>7. Len(work) = 1 \/ Len(work) > 1
  BY <1>1, <1>4
<1>. QED BY <1>5, <1>6, <1>7

(* The backend ends: the write lock may go, the stack lock is taken.       *)
LEMMA BackendEndStep ==
    ASSUME IInv, NEW t \in Writers, BackendEnd(t) PROVE IInv'
<1> USE DEF BackendEnd, Goto, cacheVars
<1>1. /\ write_lock = t /\ Len(work) = tx_stack[t] /\ tx_stack[t] \in Nat \ {0}
      /\ com' \in Content /\ work' \in Seq(Content) /\ Len(work') = Len(work) - 1
  BY BackendEndWork
<1>2. TypeOK'
  <2>1. NoRead \in [key : Keys \cup {NoValue}, value : Values \cup {NoValue}]
    BY DEF NoRead
  <2>2. got' \in [Threads -> [key : Keys \cup {NoValue}, value : Values \cup {NoValue}]]
    BY <2>1 DEF IInv, TypeOK
  <2>. QED BY <1>1, <2>2 DEF IInv, TypeOK, Points, Threads
<1>3. WriterInv(t)'
  BY <1>1, DbAssumption DEF IInv, WriterInv, Depth, Inside, Exclusive, TypeOK, Threads
<1>4. ASSUME NEW u \in Writers, u # t PROVE WriterInv(u)'
  BY <1>1, <1>4, DbAssumption DEF IInv, WriterInv, Depth, TypeOK, Threads
<1>5. \A u \in Readers : ReaderInv(u)'
  BY DbAssumption DEF IInv, ReaderInv, TypeOK, Threads
<1>6. LockInv'
  <2>1. write_lock' = NoThread => work' = <<>>
    BY <1>1, StackType, DbAssumption DEF Threads
  <2>. QED BY <2>1 DEF IInv, LockInv
<1>7. ArgInv'
  BY DEF IInv, ArgInv, TypeOK, Threads
<1>. QED BY <1>2, <1>3, <1>4, <1>5, <1>6, <1>7 DEF IInv

(* The stack is popped and isolation ends with its last transaction.       *)
LEMMA SwitchIsolationOffStep ==
    ASSUME IInv, NEW t \in Writers, SwitchIsolationOff(t) PROVE IInv'
<1> USE DEF SwitchIsolationOff, Goto, dbVars
<1>1. tx_stack[t] \in Nat \ {0} /\ isolated = t
  BY DEF IInv, WriterInv, Inside, TypeOK, Threads
<1>2. TypeOK'
  <2>1. Empty \in Content
    BY DEF Empty, Content
  <2>. QED BY <1>1, <2>1 DEF IInv, TypeOK, Points, Threads
<1>3. WriterInv(t)'
  BY <1>1, DbAssumption DEF IInv, WriterInv, Depth, Inside, Exclusive, TypeOK, Threads
<1>4. ASSUME NEW u \in Writers, u # t PROVE WriterInv(u)'
  BY <1>1, <1>4, DbAssumption DEF IInv, WriterInv, Depth, TypeOK, Threads
<1>5. \A u \in Readers : ReaderInv(u)'
  BY DbAssumption DEF IInv, ReaderInv, TypeOK, Threads
<1>6. LockInv'
  BY DEF IInv, LockInv
<1>7. ArgInv'
  BY DEF IInv, ArgInv, TypeOK, Threads
<1>. QED BY <1>2, <1>3, <1>4, <1>5, <1>6, <1>7 DEF IInv

(* m_rwlock is given up by the thread that has it.                         *)
LEMMA UnlockRwStep ==
    ASSUME IInv, NEW t \in Writers, UnlockRw(t) PROVE IInv'
<1> USE DEF UnlockRw, Goto, dbVars, cacheVars
<1>1. TypeOK'
  BY DEF IInv, TypeOK, Points, Threads
<1>2. WriterInv(t)'
  BY DbAssumption DEF IInv, WriterInv, Depth, Inside, Exclusive, TypeOK, Threads
<1>3. ASSUME NEW u \in Writers, u # t PROVE WriterInv(u)'
  BY <1>3, DbAssumption DEF IInv, WriterInv, Depth, Exclusive, TypeOK, Threads
<1>4. \A u \in Readers : ReaderInv(u)'
  BY DbAssumption DEF IInv, ReaderInv, TypeOK, Threads
<1>5. LockInv'
  BY DEF IInv, LockInv
<1>6. ArgInv'
  BY DEF IInv, ArgInv, TypeOK, Threads
<1>. QED BY <1>1, <1>2, <1>3, <1>4, <1>5, <1>6 DEF IInv

(* The points between the calls of a transaction and inside them.          *)
Calls == {"tx", "put", "erased", "missed", "fetched"}

(* A step inside a read region or between the calls of a transaction       *)
(* leaves locks, stacks and the number of LMDB transactions alone.         *)
LEMMA QuietStep ==
    ASSUME IInv, TypeOK', NEW t \in Threads, NEW p,
           pc' = [pc EXCEPT ![t] = p],
           t \in Writers => pc[t] \in Calls /\ p \in Calls,
           t \in Readers => p \in {"idle", "region", "missed", "fetched"},
           UNCHANGED <<write_lock, tx_stack, stack_lock, exclusive, isolated, outcome>>,
           Len(work') = Len(work),
           \A u \in Writers : snap'[u] = snap[u],
           p \in {"put", "erased", "missed", "fetched"} => arg'[t] \in Keys,
           \A u \in Threads \ {t} : arg'[u] = arg[u]
    PROVE  IInv'
<1>1. ASSUME NEW u \in Writers PROVE WriterInv(u)'
  <2>1. pc'[u] = pc[u] \/ (pc[u] \in Calls /\ pc'[u] \in Calls)
    BY <1>1 DEF IInv, TypeOK, Threads
  <2>2. WriterInv(u) /\ snap'[u] = snap[u] /\ pc[u] \in Points
    BY <1>1 DEF IInv, TypeOK, Threads
  <2>. QED BY <2>1, <2>2 DEF WriterInv, Depth, Inside, Exclusive, Calls
<1>2. ASSUME NEW u \in Readers PROVE ReaderInv(u)'
  BY <1>2 DEF IInv, ReaderInv, TypeOK, Threads
<1>3. LockInv'
  <2>1. write_lock' = NoThread => work' = <<>>
    <3>1. work \in Seq(Content) /\ work' \in Seq(Content)
      BY DEF IInv, TypeOK
    <3>. QED BY <3>1, StackType DEF IInv, LockInv
  <2>. QED BY <2>1 DEF IInv, LockInv
<1>4. ArgInv'
  BY DEF IInv, ArgInv, TypeOK
<1>. QED BY <1>1, <1>2, <1>3, <1>4 DEF IInv

(* A writer between begin_transaction and the end of its transaction has   *)
(* m_write_exclusive_lock and an LMDB transaction.                         *)
LEMMA WriterHasWork ==
    ASSUME IInv, NEW t \in Writers, pc[t] \in Inside \ {"finished"}
    PROVE  /\ write_lock = t /\ isolated = t /\ work \in Seq(Content) /\ work # <<>>
           /\ Len(work) = tx_stack[t] /\ View(t) = Top(work)
<1>1. write_lock = t /\ isolated = t /\ Len(work) = tx_stack[t] /\ tx_stack[t] > 0
  BY DEF IInv, WriterInv, Depth, Inside, TypeOK, Threads
<1>2. work \in Seq(Content) /\ work # <<>>
  BY <1>1, StackType DEF IInv, TypeOK
<1>. QED BY <1>1, <1>2 DEF View

(* set and push_back write into the topmost transaction.                   *)
LEMMA PutStep ==
    ASSUME IInv, NEW t \in Writers, Put(t) PROVE IInv'
<1>1. PICK k \in Keys, v \in Values :
          Update(k, v) /\ arg' = [arg EXCEPT ![t] = k] /\ val' = [val EXCEPT ![t] = v]
  BY DEF Put
<1>2. work \in Seq(Content) /\ work # <<>>
  BY WriterHasWork DEF Put, Inside
<1>3. work' \in Seq(Content) /\ Len(work') = Len(work)
  BY <1>1, <1>2, UpdateTop
<1>4. TypeOK'
  BY <1>1, <1>3 DEF Put, Goto, IInv, TypeOK, Points, lockVars, Threads
<1>5. arg'[t] \in Keys /\ \A u \in Threads \ {t} : arg'[u] = arg[u]
  BY <1>1 DEF IInv, TypeOK, Threads
<1>. QED BY <1>3, <1>4, <1>5, QuietStep, DbAssumption DEF Put, Goto, Calls, lockVars, Threads

(* erase and pop_back write into the topmost transaction.                  *)
LEMMA EraseStep ==
    ASSUME IInv, NEW t \in Writers, Erase(t) PROVE IInv'
<1>1. PICK k \in Keys : Update(k, NoValue) /\ arg' = [arg EXCEPT ![t] = k]
  BY DEF Erase
<1>2. work \in Seq(Content) /\ work # <<>>
  BY WriterHasWork DEF Erase, Inside
<1>3. work' \in Seq(Content) /\ Len(work') = Len(work)
  BY <1>1, <1>2, UpdateTop
<1>4. TypeOK'
  BY <1>1, <1>3 DEF Erase, Goto, IInv, TypeOK, Points, lockVars, cacheVars, Threads
<1>5. arg'[t] \in Keys /\ \A u \in Threads \ {t} : arg'[u] = arg[u]
  BY <1>1 DEF IInv, TypeOK, Threads
<1>. QED BY <1>3, <1>4, <1>5, QuietStep, DbAssumption DEF Erase, Goto, Calls, lockVars, Threads

(* cache_base::set leaves a cache.                                         *)
LEMMA CacheSetType ==
    ASSUME TypeOK, NEW t \in Threads, CacheSet(t) PROVE cache' \in Content
<1> DEFINE filled == [cache EXCEPT ![arg[t]] = val[t]]
<1>1. filled \in Content
  BY UpdateType DEF TypeOK
<1>2. \A k \in Keys : [filled EXCEPT ![k] = NoValue] \in Content
  BY <1>1, UpdateType
<1> HIDE DEF filled
<1>3. cache' = cache \/ cache' = filled \/ \E k \in Keys : cache' = [filled EXCEPT ![k] = NoValue]
  BY DEF CacheSet, filled
<1>. QED BY <1>1, <1>2, <1>3, ZenonT(30) DEF TypeOK

(* The written entry goes into the cache.                                  *)
LEMMA PutInCacheStep ==
    ASSUME IInv, NEW t \in Threads, PutInCache(t) PROVE IInv'
<1>1. t \in Writers
  BY DEF PutInCache, IInv, ReaderInv, Threads
<1>2. cache' \in Content
  BY CacheSetType DEF PutInCache, IInv
<1>3. TypeOK'
  BY <1>2 DEF PutInCache, Goto, Forget, IInv, TypeOK, Points, lockVars, dbVars
<1>4. \A u \in Threads \ {t} : arg'[u] = arg[u]
  BY DEF PutInCache, Forget, IInv, TypeOK
<1>. QED BY <1>1, <1>3, <1>4, QuietStep, DbAssumption DEF PutInCache, Goto, Calls, lockVars, dbVars

(* The erased entry leaves the cache.                                      *)
LEMMA EraseFromCacheStep ==
    ASSUME IInv, NEW t \in Threads, EraseFromCache(t) PROVE IInv'
<1>1. t \in Writers
  BY DEF EraseFromCache, IInv, ReaderInv, Threads
<1>2. cache' \in Content
  BY UpdateType DEF EraseFromCache, IInv, TypeOK
<1>3. TypeOK'
  BY <1>2 DEF EraseFromCache, Goto, Forget, IInv, TypeOK, Points, lockVars, dbVars
<1>4. \A u \in Threads \ {t} : arg'[u] = arg[u]
  BY DEF EraseFromCache, Forget, IInv, TypeOK
<1>. QED BY <1>1, <1>3, <1>4, QuietStep, DbAssumption DEF EraseFromCache, Goto, Calls, lockVars, dbVars

(* A reader enters m_rwlock and may open a snapshot.                       *)
LEMMA EnterRegionStep ==
    ASSUME IInv, NEW t \in Threads, EnterRegion(t) PROVE IInv'
<1>1. <<com>> \in Seq(Content) /\ <<>> \in Seq(Content)
  BY DEF IInv, TypeOK
<1>2. snap' \in [Threads -> Seq(Content)]
  BY <1>1 DEF EnterRegion, IInv, TypeOK
<1>3. TypeOK'
  BY <1>2 DEF EnterRegion, Goto, IInv, TypeOK, Points, cacheVars
<1>4. t \notin Writers
  BY DbAssumption DEF EnterRegion
<1>5. \A u \in Writers : snap'[u] = snap[u]
  BY <1>4 DEF EnterRegion, IInv, TypeOK, Threads
<1>. QED BY <1>3, <1>4, <1>5, QuietStep DEF EnterRegion, Goto

(* A reader leaves m_rwlock and its snapshot.                              *)
LEMMA LeaveRegionStep ==
    ASSUME IInv, NEW t \in Threads, LeaveRegion(t) PROVE IInv'
<1>1. <<>> \in Seq(Content) /\ NoRead \in [key : Keys \cup {NoValue}, value : Values \cup {NoValue}]
  BY DEF NoRead
<1>2. snap' \in [Threads -> Seq(Content)] /\ shared' \subseteq Readers
         /\ got' \in [Threads -> [key : Keys \cup {NoValue}, value : Values \cup {NoValue}]]
  BY <1>1 DEF LeaveRegion, IInv, TypeOK
<1>3. TypeOK'
  BY <1>2 DEF LeaveRegion, Goto, IInv, TypeOK, Points, cacheVars
<1>4. t \notin Writers
  BY DEF LeaveRegion, IInv, WriterInv
<1>5. \A u \in Writers : snap'[u] = snap[u]
  BY <1>4 DEF LeaveRegion, IInv, TypeOK, Threads
<1>. QED BY <1>3, <1>4, <1>5, QuietStep DEF LeaveRegion, Goto

(* The point and the types after a get has returned.                       *)
LEMMA ReturnsType ==
    ASSUME TypeOK, NEW t \in Threads, NEW k \in Keys \cup {NoValue},
           NEW v \in Values \cup {NoValue}, Returns(t, k, v)
    PROVE  /\ pc' = [pc EXCEPT ![t] = Home(t)] /\ pc' \in [Threads -> Points]
           /\ arg' \in [Threads -> Keys \cup {NoValue}]
           /\ \A u \in Threads \ {t} : arg'[u] = arg[u]
           /\ val' \in [Threads -> Values \cup {NoValue}]
           /\ got' \in [Threads -> [key : Keys \cup {NoValue}, value : Values \cup {NoValue}]]
<1>1. [key |-> k, value |-> v] \in [key : Keys \cup {NoValue}, value : Values \cup {NoValue}]
  OBVIOUS
<1>2. Home(t) \in Points
  BY DEF Home, Points
<1>. QED BY <1>1, <1>2 DEF Returns, Forget, Goto, TypeOK

(* Every thread that is inside a call or may make one.                     *)
LEMMA CallPoints ==
    ASSUME IInv, NEW t \in Threads, pc[t] \in {"region", "tx", "missed", "fetched"}
    PROVE  /\ t \in Writers => pc[t] \in Calls /\ Home(t) \in Calls
           /\ t \in Readers => Home(t) \in {"idle", "region", "missed", "fetched"}
BY DbAssumption DEF IInv, WriterInv, Calls, Home

(* A get asks the cache.                                                   *)
LEMMA GetFromCacheStep ==
    ASSUME IInv, NEW t \in Threads, GetFromCache(t) PROVE IInv'
<1>1. PICK k \in Keys :
          \/ Returns(t, k, cache[k])
          \/ arg' = [arg EXCEPT ![t] = k] /\ Goto(t, "missed") /\ UNCHANGED <<val, got>>
  BY DEF GetFromCache
<1>2. cache[k] \in Values \cup {NoValue}
  BY DEF IInv, TypeOK, Content
<1>3. PICK p : /\ pc' = [pc EXCEPT ![t] = p]
               /\ p = Home(t) \/ (p = "missed" /\ arg' = [arg EXCEPT ![t] = k])
  BY <1>1 DEF Returns, Goto
<1>4. TypeOK' /\ \A u \in Threads \ {t} : arg'[u] = arg[u]
  <2>1. CASE Returns(t, k, cache[k])
    BY <1>2, <2>1, ReturnsType DEF GetFromCache, IInv, TypeOK, lockVars, dbVars, cacheVars
  <2>2. CASE arg' = [arg EXCEPT ![t] = k] /\ Goto(t, "missed") /\ UNCHANGED <<val, got>>
    BY <2>2 DEF GetFromCache, IInv, TypeOK, lockVars, dbVars, cacheVars, Goto, Points
  <2>. QED BY <1>1, <2>1, <2>2
<1>5. /\ t \in Writers => pc[t] \in Calls /\ p \in Calls
      /\ t \in Readers => p \in {"idle", "region", "missed", "fetched"}
  BY <1>3, CallPoints DEF GetFromCache, Calls
<1>6. p \in {"put", "erased", "missed", "fetched"} => arg'[t] \in Keys
  BY <1>3 DEF Home, IInv, TypeOK
<1>. QED BY <1>3, <1>4, <1>5, <1>6, QuietStep DEF GetFromCache, lockVars, dbVars

(* A get asks the database.                                                *)
LEMMA GetFromDbStep ==
    ASSUME IInv, NEW t \in Threads, GetFromDb(t) PROVE IInv'
<1> DEFINE v == View(t)[arg[t]]
<1>1. \/ Returns(t, arg[t], v)
      \/ val' = [val EXCEPT ![t] = v] /\ Goto(t, "fetched") /\ UNCHANGED <<arg, got>>
  BY DEF GetFromDb
<1>2. arg[t] \in Keys /\ v \in Values \cup {NoValue}
  <2>1. arg[t] \in Keys
    BY DEF IInv, ArgInv, GetFromDb
  <2>2. View(t) \in Content
    BY ViewType
  <2>. QED BY <2>1, <2>2 DEF Content
<1> HIDE DEF v
<1>3. PICK p : /\ pc' = [pc EXCEPT ![t] = p]
               /\ p = Home(t) \/ (p = "fetched" /\ arg' = arg)
  BY <1>1 DEF Returns, Goto
<1>4. TypeOK' /\ \A u \in Threads \ {t} : arg'[u] = arg[u]
  <2>1. CASE Returns(t, arg[t], v)
    BY <1>2, <2>1, ReturnsType DEF GetFromDb, IInv, TypeOK, lockVars, dbVars, cacheVars
  <2>2. CASE val' = [val EXCEPT ![t] = v] /\ Goto(t, "fetched") /\ UNCHANGED <<arg, got>>
    BY <1>2, <2>2 DEF GetFromDb, IInv, TypeOK, lockVars, dbVars, cacheVars, Goto, Points
  <2>. QED BY <1>1, <2>1, <2>2
<1>5. /\ t \in Writers => pc[t] \in Calls /\ p \in Calls
      /\ t \in Readers => p \in {"idle", "region", "missed", "fetched"}
  BY <1>3, CallPoints DEF GetFromDb, Calls
<1>6. p \in {"put", "erased", "missed", "fetched"} => arg'[t] \in Keys
  BY <1>2, <1>3 DEF Home
<1>. QED BY <1>3, <1>4, <1>5, <1>6, QuietStep DEF GetFromDb, lockVars, dbVars

(* A get fills the cache and returns.                                      *)
LEMMA FillCacheStep ==
    ASSUME IInv, NEW t \in Threads, FillCache(t) PROVE IInv'
<1>1. cache' \in Content
  BY CacheSetType DEF FillCache, IInv
<1>2. arg[t] \in Keys \cup {NoValue} /\ val[t] \in Values \cup {NoValue}
  BY DEF IInv, TypeOK
<1>3. /\ pc' = [pc EXCEPT ![t] = Home(t)] /\ pc' \in [Threads -> Points]
      /\ arg' \in [Threads -> Keys \cup {NoValue}]
      /\ \A u \in Threads \ {t} : arg'[u] = arg[u]
      /\ val' \in [Threads -> Values \cup {NoValue}]
      /\ got' \in [Threads -> [key : Keys \cup {NoValue}, value : Values \cup {NoValue}]]
  BY <1>2, ReturnsType DEF FillCache, IInv
<1>4. TypeOK'
  BY <1>1, <1>3 DEF FillCache, IInv, TypeOK, lockVars, dbVars
<1>5. /\ t \in Writers => pc[t] \in Calls /\ Home(t) \in Calls
      /\ t \in Readers => Home(t) \in {"idle", "region", "missed", "fetched"}
      /\ Home(t) \notin {"put", "erased", "missed", "fetched"}
  BY CallPoints DEF FillCache, Home
<1>. QED BY <1>3, <1>4, <1>5, QuietStep DEF FillCache, lockVars, dbVars

(* size() refreshes the cached size.                                       *)
LEMMA CallSizeStep ==
    ASSUME IInv, NEW t \in Threads, CallSize(t) PROVE IInv'
<1>1. SizeSeen(t) \in Nat
  BY CountType DEF SizeSeen, IInv, TypeOK
<1>2. TypeOK'
  BY <1>1 DEF CallSize, IInv, TypeOK, lockVars, dbVars, callVars
<1>3. pc' = [pc EXCEPT ![t] = pc[t]]
  BY DEF CallSize, callVars, IInv, TypeOK
<1>4. /\ t \in Writers => pc[t] \in Calls
      /\ t \in Readers => pc[t] \in {"idle", "region", "missed", "fetched"}
  BY CallPoints DEF CallSize, IInv, ReaderInv
<1>. QED BY <1>2, <1>3, <1>4, QuietStep DEF CallSize, lockVars, dbVars, callVars

(* reset_db_cache empties the cache.                                       *)
LEMMA ClearCacheStep ==
    ASSUME IInv, NEW t \in Threads, ClearCache(t) PROVE IInv'
<1>1. Empty \in Content
  BY DEF Empty, Content
<1>2. TypeOK'
  BY <1>1 DEF ClearCache, IInv, TypeOK, lockVars, dbVars, callVars
<1>3. pc' = [pc EXCEPT ![t] = pc[t]]
  BY DEF ClearCache, callVars, IInv, TypeOK
<1>4. t \notin Writers /\ pc[t] = "idle"
  BY DbAssumption DEF ClearCache
<1>. QED BY <1>2, <1>3, <1>4, QuietStep DEF ClearCache, lockVars, dbVars, callVars

(* Every step of every thread preserves the invariant.                     *)
LEMMA Inductive == IInv /\ [Next]_vars => IInv'
<1> SUFFICES ASSUME IInv, [Next]_vars PROVE IInv'
  OBVIOUS
<1>1. CASE UNCHANGED vars
  BY <1>1 DEF vars, dbVars, lockVars, cacheVars, callVars, IInv, TypeOK, ArgInv, WriterInv,
              ReaderInv, LockInv, Depth, Inside, Exclusive
<1>2. ASSUME NEW t \in Threads, Transaction(t) PROVE IInv'
  BY <1>2, BackendBeginStep, BeginTransactionStep, EndTransactionStep, ReadersGoneStep,
     BackendEndStep, SwitchIsolationOffStep, UnlockRwStep, PutStep, EraseStep
     DEF Transaction, Ending
<1>3. ASSUME NEW t \in Threads, Call(t) PROVE IInv'
  BY <1>3, GetFromDbStep, FillCacheStep, PutInCacheStep, EraseFromCacheStep DEF Call
<1>4. ASSUME NEW t \in Threads,
             EnterRegion(t) \/ LeaveRegion(t) \/ GetFromCache(t) \/ CallSize(t) \/ ClearCache(t)
      PROVE  IInv'
  BY <1>4, EnterRegionStep, LeaveRegionStep, GetFromCacheStep, CallSizeStep, ClearCacheStep
<1>. QED BY <1>1, <1>2, <1>3, <1>4 DEF Next

(* The locks of every thread are those its place in the code says.         *)
THEOREM Invariance == Spec => []IInv
BY Initially, Inductive, PTL DEF Spec

(* Type correctness.                                                       *)
THEOREM TypeCorrect == Spec => []TypeOK
<1>1. IInv => TypeOK
  BY DEF IInv
<1>. QED BY <1>1, Invariance, PTL

(* The assertions of isolation_lock never fire, however many threads write *)
(* and however deep their transactions nest.                               *)
THEOREM IsolationHolds == Spec => []IsolationAsserts
<1>1. IInv => IsolationAsserts
  <2> SUFFICES ASSUME IInv, NEW t \in Writers
      PROVE /\ pc[t] = "begun" /\ stack_lock = NoThread /\ tx_stack[t] = 0 => isolated = NoThread
            /\ pc[t] \in {"tx", "put", "erased", "ending", "locked", "finished"} => isolated = t
    BY DEF IsolationAsserts
  <2>1. pc[t] \in {"tx", "put", "erased", "ending", "locked", "finished"} => isolated = t
    BY DEF IInv, WriterInv, Inside
  <2>2. ASSUME pc[t] = "begun", stack_lock = NoThread, tx_stack[t] = 0
        PROVE  isolated = NoThread
    <3>1. \A u \in Writers : tx_stack[u] = 0
      BY <2>2, NobodyElse
    <3>2. \A u \in Writers : isolated # u
      BY <3>1 DEF IInv, WriterInv
    <3>. QED BY <3>2 DEF IInv, LockInv
  <2>. QED BY <2>1, <2>2
<1>. QED BY <1>1, Invariance, PTL

-----------------------------------------------------------------------------
(***************************************************************************)
(* The cache, when every reader holds m_read_lock.  Readers come and go    *)
(* under m_rwlock, and m_rwlock is exclusive when the committed content    *)
(* changes, so a value on its way from the database into the cache is the  *)
(* one its reader still sees.                                              *)
(***************************************************************************)

(* No reader is inside while a writer has m_rwlock for itself.             *)
SharedInv ==
    /\ shared = {t \in Readers : pc[t] # "idle"}
    /\ \A w \in Writers : pc[w] \in {"locked", "finished", "unlocking"} => shared = {}

(* The snapshot of a read-only transaction is the committed content.       *)
SnapInv ==
    \A t \in Readers : snap[t] \in {<<>>, <<com>>} /\ (pc[t] = "idle" => snap[t] = <<>>)

(* What a thread carries from one critical section of a call to the next   *)
(* is still what it would read.                                            *)
CarryInv ==
    \A t \in Threads :
        /\ pc[t] \in {"put", "fetched"} => val[t] = View(t)[arg[t]]
        /\ pc[t] = "erased" => View(t)[arg[t]] = NoValue

(* A first transaction starts from the committed content.                  *)
BegunInv ==
    \A t \in Writers : pc[t] = "begun" /\ tx_stack[t] = 0 => Top(work) = com

CInv ==
    /\ IInv /\ SharedInv /\ SnapInv /\ CarryInv /\ BegunInv /\ CacheCoherent

(* A step of one thread.                                                   *)
Step(t) ==
    \/ Transaction(t) \/ Call(t)
    \/ EnterRegion(t) \/ LeaveRegion(t) \/ GetFromCache(t) \/ CallSize(t) \/ ClearCache(t)

(* A step of a thread leaves the call of every other thread alone.         *)
LEMMA OthersStand ==
    ASSUME IInv, NEW t \in Threads, Step(t), NEW u \in Threads, u # t
    PROVE  /\ pc'[u] = pc[u] /\ arg'[u] = arg[u] /\ val'[u] = val[u] /\ got'[u] = got[u]
           /\ outcome'[u] = outcome[u] /\ tx_stack'[u] = tx_stack[u] /\ snap'[u] = snap[u]
<1> USE DEF dbVars, lockVars, callVars, Goto, Forget, Returns, IInv, TypeOK
<1>1. CASE Transaction(t)
  BY <1>1 DEF Transaction, Ending, BackendBegin, BeginTransaction, EndTransaction, ReadersGone,
              BackendEnd, SwitchIsolationOff, UnlockRw, Put, Erase
<1>2. CASE Call(t)
  BY <1>2 DEF Call, GetFromDb, FillCache, PutInCache, EraseFromCache
<1>3. CASE EnterRegion(t) \/ LeaveRegion(t) \/ CallSize(t) \/ ClearCache(t)
  BY <1>3 DEF EnterRegion, LeaveRegion, CallSize, ClearCache
<1>4. CASE GetFromCache(t)
  BY <1>4 DEF GetFromCache
<1>. QED BY <1>1, <1>2, <1>3, <1>4 DEF Step

(* The database changes only in the hands of the owner of                  *)
(* m_write_exclusive_lock or of a writer that takes it while it is free,   *)
(* and the committed content only while m_rwlock is exclusive.             *)
LEMMA DatabaseChanges ==
    ASSUME IInv, NEW t \in Threads, Step(t)
    PROVE  /\ UNCHANGED <<work, write_lock>> \/ (t \in Writers /\ write_lock \in {NoThread, t})
           /\ UNCHANGED com \/ (t \in Writers /\ BackendEnd(t))
<1> USE DEF dbVars
<1>1. CASE Transaction(t)
  <2>1. CASE BackendEnd(t)
    BY <1>1, <2>1, BackendEndWork DEF Transaction
  <2>2. CASE Put(t) \/ Erase(t)
    BY <1>1, <2>2, WriterHasWork DEF Transaction, Put, Erase, Inside
  <2>3. CASE BackendBegin(t) \/ BeginTransaction(t) \/ EndTransaction(t) \/ ReadersGone(t)
               \/ SwitchIsolationOff(t) \/ UnlockRw(t)
    BY <1>1, <2>3 DEF Transaction, BackendBegin, BeginTransaction, EndTransaction, ReadersGone,
                      SwitchIsolationOff, UnlockRw
  <2>. QED BY <1>1, <2>1, <2>2, <2>3 DEF Transaction, Ending
<1>2. CASE Call(t)
  BY <1>2 DEF Call, GetFromDb, FillCache, PutInCache, EraseFromCache
<1>3. CASE EnterRegion(t) \/ LeaveRegion(t) \/ CallSize(t) \/ ClearCache(t) \/ GetFromCache(t)
  BY <1>3 DEF EnterRegion, LeaveRegion, CallSize, ClearCache, GetFromCache
<1>. QED BY <1>1, <1>2, <1>3 DEF Step

(* A writer has m_rwlock for itself only when no reader is inside.         *)
LEMMA SharedStep ==
    ASSUME Readers \subseteq ReadLocked, CInv, IInv', NEW t \in Threads, Step(t)
    PROVE  SharedInv'
<1> USE DEF dbVars, lockVars, callVars, Goto, Returns
<1> DEFINE Alone == {"locked", "finished", "unlocking"}
<1>1. \A u \in Threads : u # t => pc'[u] = pc[u]
  BY OthersStand DEF CInv
<1>2. CASE Transaction(t)
  <2>1. t \in Writers /\ t \notin Readers
    BY <1>2, DbAssumption DEF Transaction
  <2>2. shared' = shared /\ (pc'[t] \in Alone => pc[t] \in Alone \/ shared = {})
    BY <1>2, <2>1 DEF Transaction, Ending, BackendBegin, BeginTransaction, EndTransaction,
                      ReadersGone, BackendEnd, SwitchIsolationOff, UnlockRw, Put, Erase,
                      CInv, IInv, TypeOK, Threads
  <2>3. {u \in Readers : pc'[u] # "idle"} = {u \in Readers : pc[u] # "idle"}
    BY <1>1, <2>1 DEF Threads
  <2>. QED BY <1>1, <2>1, <2>2, <2>3 DEF CInv, SharedInv, Threads
<1>3. CASE Call(t) \/ CallSize(t) \/ ClearCache(t) \/ GetFromCache(t)
  <2>1. shared' = shared /\ (t \in Readers => (pc'[t] = "idle" <=> pc[t] = "idle"))
    BY <1>3, DbAssumption, SMTT(30)
       DEF Call, GetFromDb, FillCache, PutInCache, EraseFromCache, CallSize, ClearCache,
           GetFromCache, Home, CInv, IInv, TypeOK, ReaderInv
  <2>2. t \in Writers => pc'[t] \notin Alone
    <3>1. CASE GetFromDb(t) \/ FillCache(t) \/ GetFromCache(t)
      <4>1. pc'[t] \in {Home(t), "missed", "fetched"}
        BY <3>1 DEF GetFromDb, FillCache, GetFromCache, CInv, IInv, TypeOK
      <4>. QED BY <4>1 DEF Home
    <3>2. CASE PutInCache(t) \/ EraseFromCache(t)
      BY <3>2 DEF PutInCache, EraseFromCache, CInv, IInv, TypeOK
    <3>3. CASE CallSize(t) \/ ClearCache(t)
      BY <3>3, DbAssumption DEF CallSize, ClearCache
    <3>. QED BY <1>3, <3>1, <3>2, <3>3 DEF Call
  <2>3. {u \in Readers : pc'[u] # "idle"} = {u \in Readers : pc[u] # "idle"}
    BY <1>1, <2>1 DEF Threads
  <2>. QED BY <1>1, <2>1, <2>2, <2>3 DEF CInv, SharedInv, Threads
<1>4. CASE EnterRegion(t)
  <2>1. /\ t \in Readers /\ t \notin Writers /\ exclusive = NoThread
        /\ shared' = shared \cup {t} /\ pc'[t] = "region"
    BY <1>4, DbAssumption DEF EnterRegion, CInv, IInv, TypeOK
  <2>2. \A w \in Writers : pc[w] \notin Alone
    BY <2>1, DbAssumption DEF CInv, IInv, WriterInv, Exclusive, Threads
  <2>3. {u \in Readers : pc'[u] # "idle"} = {u \in Readers : pc[u] # "idle"} \cup {t}
    BY <1>1, <2>1 DEF Threads
  <2>. QED BY <1>1, <2>1, <2>2, <2>3 DEF CInv, SharedInv, Threads
<1>5. CASE LeaveRegion(t)
  <2>1. t \notin Writers /\ shared' = shared \ {t} /\ pc'[t] = "idle"
    BY <1>5 DEF LeaveRegion, CInv, IInv, TypeOK, WriterInv
  <2>2. {u \in Readers : pc'[u] # "idle"} = {u \in Readers : pc[u] # "idle"} \ {t}
    BY <1>1, <2>1 DEF Threads
  <2>. QED BY <1>1, <2>1, <2>2 DEF CInv, SharedInv, Threads
<1>. QED BY <1>2, <1>3, <1>4, <1>5 DEF Step

(* When the backend ends a transaction every reader is outside.            *)
LEMMA NoReaderInside ==
    ASSUME CInv, NEW t \in Writers, BackendEnd(t), NEW u \in Readers PROVE pc[u] = "idle"
BY DEF CInv, SharedInv, BackendEnd

(* A snapshot outlives no commit: no reader is inside at one.              *)
LEMMA SnapStep ==
    ASSUME CInv, IInv', NEW t \in Threads, Step(t) PROVE SnapInv'
<1> SUFFICES ASSUME NEW u \in Readers
             PROVE  /\ snap'[u] \in {<<>>, <<com'>>}
                    /\ pc'[u] = "idle" => snap'[u] = <<>>
  BY DEF SnapInv
<1>0. u \in Threads /\ snap[u] \in {<<>>, <<com>>} /\ (pc[u] = "idle" => snap[u] = <<>>)
  BY DEF CInv, SnapInv, Threads
<1>1. CASE com' # com
  <2>1. t \in Writers /\ BackendEnd(t)
    BY <1>1, DatabaseChanges DEF CInv
  <2>2. pc[u] = "idle" /\ t # u
    BY <2>1, NoReaderInside, DbAssumption
  <2>. QED BY <1>0, <2>2, OthersStand DEF CInv
<1>2. CASE com' = com /\ u # t
  BY <1>0, <1>2, OthersStand DEF CInv
<1>3. CASE com' = com /\ u = t
  <2>1. CASE EnterRegion(t)
    BY <1>3, <2>1 DEF EnterRegion, Goto, CInv, IInv, TypeOK
  <2>2. CASE LeaveRegion(t)
    BY <1>3, <2>2 DEF LeaveRegion, CInv, IInv, TypeOK
  <2>3. CASE Call(t) \/ CallSize(t) \/ ClearCache(t) \/ GetFromCache(t)
    <3>1. snap' = snap /\ (pc'[t] = "idle" => pc[t] = "idle")
      BY <1>3, <2>3, DbAssumption
         DEF Call, GetFromDb, FillCache, PutInCache, EraseFromCache, CallSize, ClearCache,
             GetFromCache, Home, CInv, IInv, TypeOK, dbVars, callVars, Goto, Returns
    <3>. QED BY <1>0, <1>3, <3>1
  <2>4. ~Transaction(t)
    BY <1>3, DbAssumption DEF Transaction
  <2>. QED BY <2>1, <2>2, <2>3, <2>4 DEF Step
<1>. QED BY <1>1, <1>2, <1>3

(* A reader sees the committed content.                                    *)
LEMMA ReaderView ==
    ASSUME IInv, SnapInv, NEW t \in Readers PROVE View(t) = com
<1>1. write_lock # t
  BY DbAssumption DEF IInv, LockInv, Threads
<1>2. snap[t] # <<>> => Top(snap[t]) = com
  BY DEF SnapInv, Top
<1>. QED BY <1>1, <1>2 DEF View

(* What a thread inside a call or between calls sees does not change by a  *)
(* step of another thread.                                                 *)
LEMMA ViewStands ==
    ASSUME CInv, IInv', SnapInv', NEW t \in Threads, Step(t), NEW u \in Threads, u # t,
           u \in Writers => pc[u] \in Inside \ {"finished"},
           u \in Readers => pc[u] # "idle"
    PROVE  View(u)' = View(u)
<1>1. CASE u \in Writers
  <2>1. write_lock = u /\ View(u) = Top(work)
    BY <1>1, WriterHasWork DEF CInv
  <2>2. UNCHANGED <<work, write_lock>>
    BY <1>1, <2>1, DatabaseChanges, DbAssumption DEF CInv, Threads
  <2>. QED BY <2>1, <2>2 DEF View
<1>2. CASE u \in Readers
  <2>1. com' = com
    BY <1>2, DatabaseChanges, NoReaderInside DEF CInv
  <2>2. View(u) = com
    BY <1>2, ReaderView DEF CInv
  <2>3. View(u)' = com'
    <3>1. write_lock' # u
      BY <1>2, DbAssumption DEF IInv, LockInv, Threads
    <3>2. snap'[u] # <<>> => Top(snap'[u]) = com'
      BY <1>2 DEF SnapInv, Top
    <3>. QED BY <3>1, <3>2 DEF View
  <2>. QED BY <2>1, <2>2, <2>3
<1>. QED BY <1>1, <1>2 DEF Threads

(* The writer's own update is what it then carries to the cache.           *)
LEMMA OwnUpdate ==
    ASSUME IInv, NEW t \in Writers, pc[t] = "tx", NEW k \in Keys, NEW v \in Values \cup {NoValue},
           Update(k, v), write_lock' = write_lock
    PROVE  View(t)' = [View(t) EXCEPT ![k] = v] /\ View(t) \in Content
<1>1. write_lock = t /\ work \in Seq(Content) /\ work # <<>> /\ View(t) = Top(work)
  BY WriterHasWork DEF Inside
<1>2. Top(work') = [Top(work) EXCEPT ![k] = v]
  BY <1>1, UpdateTop
<1>3. View(t)' = Top(work')
  BY <1>1 DEF View
<1>. QED BY <1>1, <1>2, <1>3, ViewType DEF Threads

(* What a call carries stays what its thread sees.                         *)
LEMMA CarryStep ==
    ASSUME CInv, IInv', SnapInv', NEW t \in Threads, Step(t) PROVE CarryInv'
<1> DEFINE Carried(u) == /\ pc[u] \in {"put", "fetched"} => val[u] = View(u)[arg[u]]
                         /\ pc[u] = "erased" => View(u)[arg[u]] = NoValue
<1>1. ASSUME NEW u \in Threads, u # t PROVE Carried(u)'
  <2>1. pc'[u] = pc[u] /\ arg'[u] = arg[u] /\ val'[u] = val[u]
    BY <1>1, OthersStand DEF CInv
  <2>2. CASE pc[u] \in {"put", "fetched", "erased"}
    <3>1. /\ u \in Writers => pc[u] \in Inside \ {"finished"}
          /\ u \in Readers => pc[u] # "idle"
      BY <2>2 DEF Inside
    <3>2. View(u)' = View(u)
      BY <1>1, <3>1, ViewStands
    <3>3. Carried(u)
      BY DEF CInv, CarryInv
    <3>. QED BY <2>1, <3>2, <3>3
  <2>3. CASE pc[u] \notin {"put", "fetched", "erased"}
    BY <2>1, <2>3
  <2>. QED BY <2>2, <2>3
<1>2. Carried(t)'
  <2>1. CASE Transaction(t) /\ Put(t)
    <3>1. t \in Writers
      BY <2>1 DEF Transaction
    <3>2. PICK k \in Keys, v \in Values :
              Update(k, v) /\ arg' = [arg EXCEPT ![t] = k] /\ val' = [val EXCEPT ![t] = v]
      BY <2>1 DEF Put
    <3>3. View(t)' = [View(t) EXCEPT ![k] = v] /\ View(t) \in Content
      BY <2>1, <3>1, <3>2, OwnUpdate DEF Put, CInv
    <3>4. View(t)'[k] = v
      BY <3>3 DEF Content
    <3>5. arg'[t] = k /\ val'[t] = v /\ pc'[t] = "put"
      BY <2>1, <3>2 DEF Put, Goto, CInv, IInv, TypeOK
    <3>. QED BY <3>4, <3>5
  <2>2. CASE Transaction(t) /\ Erase(t)
    <3>1. t \in Writers
      BY <2>2 DEF Transaction
    <3>2. PICK k \in Keys : Update(k, NoValue) /\ arg' = [arg EXCEPT ![t] = k]
      BY <2>2 DEF Erase
    <3>3. View(t)' = [View(t) EXCEPT ![k] = NoValue] /\ View(t) \in Content
      BY <2>2, <3>1, <3>2, OwnUpdate DEF Erase, CInv
    <3>4. View(t)'[k] = NoValue
      BY <3>3 DEF Content
    <3>5. arg'[t] = k /\ pc'[t] = "erased"
      BY <2>2, <3>2 DEF Erase, Goto, CInv, IInv, TypeOK
    <3>. QED BY <3>4, <3>5
  <2>3. CASE GetFromDb(t)
    <3>1. View(t)' = View(t)
      BY <2>3 DEF GetFromDb, View, dbVars
    <3>2. \/ pc'[t] = Home(t)
          \/ pc'[t] = "fetched" /\ arg' = arg /\ val'[t] = View(t)[arg[t]]
      BY <2>3 DEF GetFromDb, Returns, Goto, CInv, IInv, TypeOK
    <3>. QED BY <3>1, <3>2 DEF Home
  <2>4. CASE ~Put(t) /\ ~Erase(t) /\ ~GetFromDb(t)
    <3>1. pc'[t] \notin {"put", "fetched", "erased"}
      <4>1. CASE Transaction(t)
        BY <2>4, <4>1 DEF Transaction, Ending, BackendBegin, BeginTransaction, EndTransaction,
              ReadersGone, BackendEnd, SwitchIsolationOff, UnlockRw, Goto, CInv, IInv, TypeOK
      <4>2. CASE FillCache(t) \/ GetFromCache(t)
        <5>1. pc'[t] \in {Home(t), "missed"}
          BY <4>2 DEF FillCache, GetFromCache, Returns, Goto, CInv, IInv, TypeOK
        <5>. QED BY <5>1 DEF Home
      <4>3. CASE PutInCache(t) \/ EraseFromCache(t) \/ EnterRegion(t) \/ LeaveRegion(t)
        BY <4>3 DEF PutInCache, EraseFromCache, EnterRegion, LeaveRegion, Goto, CInv, IInv, TypeOK
      <4>4. CASE CallSize(t) \/ ClearCache(t)
        BY <4>4 DEF CallSize, ClearCache, callVars
      <4>. QED BY <2>4, <4>1, <4>2, <4>3, <4>4 DEF Step, Call
    <3>. QED BY <3>1
  <2>5. (Put(t) \/ Erase(t)) /\ t \notin Writers => GetFromDb(t) \/ (~Put(t) /\ ~Erase(t))
    BY DEF Put, Erase, CInv, IInv, ReaderInv, Threads
  <2>. QED BY <2>1, <2>2, <2>3, <2>4, <2>5 DEF Transaction
<1>. QED BY <1>1, <1>2 DEF CarryInv

(* m_backend->begin_transaction copies the committed content.              *)
LEMMA BegunStep ==
    ASSUME CInv, IInv', NEW t \in Threads, Step(t) PROVE BegunInv'
<1>1. ASSUME NEW u \in Writers, u # t, pc'[u] = "begun", tx_stack'[u] = 0
      PROVE  Top(work') = com'
  <2>1. pc[u] = "begun" /\ tx_stack[u] = 0
    BY <1>1, OthersStand DEF CInv, Threads
  <2>2. write_lock = u
    BY <2>1 DEF CInv, IInv, WriterInv, Depth
  <2>3. work' = work
    BY <1>1, <2>2, DatabaseChanges, DbAssumption DEF CInv, Threads
  <2>4. com' = com
    BY <1>1, <2>2, DatabaseChanges, BackendEndWork DEF CInv
  <2>. QED BY <2>1, <2>3, <2>4 DEF CInv, BegunInv
<1>2. ASSUME t \in Writers, pc'[t] = "begun", tx_stack'[t] = 0 PROVE Top(work') = com'
  <2>1. BackendBegin(t)
    <3>1. CASE Transaction(t)
      BY <1>2, <3>1 DEF Transaction, Ending, BeginTransaction, EndTransaction, ReadersGone,
            BackendEnd, SwitchIsolationOff, UnlockRw, Put, Erase, Goto, CInv, IInv, TypeOK
    <3>2. CASE Call(t) \/ EnterRegion(t) \/ LeaveRegion(t) \/ GetFromCache(t)
      <4>1. pc'[t] \in {Home(t), "missed", "fetched", "tx", "idle", "region"}
        BY <3>2 DEF Call, GetFromDb, FillCache, PutInCache, EraseFromCache, EnterRegion,
                    LeaveRegion, GetFromCache, Returns, Goto, CInv, IInv, TypeOK
      <4>. QED BY <1>2, <4>1 DEF Home
    <3>3. CASE CallSize(t) \/ ClearCache(t)
      BY <1>2, <3>3 DEF CallSize, ClearCache, callVars
    <3>. QED BY <3>1, <3>2, <3>3 DEF Step
  <2>2. tx_stack[t] = 0 /\ com' = com /\ work' = Append(work, View(t))
    BY <1>2, <2>1 DEF BackendBegin, lockVars
  <2>3. write_lock # t /\ snap[t] = <<>>
    BY <1>2, <2>1, <2>2 DEF BackendBegin, CInv, IInv, WriterInv, Depth
  <2>4. View(t) = com
    BY <2>3 DEF View
  <2>5. work \in Seq(Content) /\ com \in Content
    BY DEF CInv, IInv, TypeOK
  <2>. QED BY <2>2, <2>4, <2>5, StackType
<1>. QED BY <1>1, <1>2 DEF BegunInv

(* Coherence survives a step that changes neither the truth nor the cache  *)
(* (it may drop entries) and leaves the excepted entries excepted.         *)
LEMMA KeepsCoherent ==
    ASSUME CInv, Truth' = Truth,
           \A k \in Keys : cache'[k] \in {NoValue, cache[k]},
           \A u \in Writers :
              /\ pc[u] \in {"put", "erased"} => pc'[u] = pc[u] /\ arg'[u] = arg[u]
              /\ pc[u] = "finished" /\ outcome[u] = "abort"
                    => pc'[u] = pc[u] /\ outcome'[u] = outcome[u]
    PROVE  CacheCoherent'
<1> SUFFICES ASSUME NEW k \in Keys
             PROVE  \/ cache'[k] \in {NoValue, Truth'[k]}
                    \/ \E u \in Writers : pc'[u] \in {"put", "erased"} /\ arg'[u] = k
                    \/ \E u \in Writers : pc'[u] = "finished" /\ outcome'[u] = "abort"
  BY DEF CacheCoherent
<1>1. \/ cache[k] \in {NoValue, Truth[k]}
      \/ \E u \in Writers : pc[u] \in {"put", "erased"} /\ arg[u] = k
      \/ \E u \in Writers : pc[u] = "finished" /\ outcome[u] = "abort"
  BY DEF CInv, CacheCoherent
<1>. QED BY <1>1

(* The truth changes only with the database or the isolated thread.        *)
LEMMA TruthStands ==
    ASSUME IInv, UNCHANGED <<com, work, write_lock, isolated>>,
           \A u \in Writers : snap'[u] = snap[u]
    PROVE  Truth' = Truth
<1>1. isolated \in Writers \/ isolated \notin Threads
  BY DbAssumption DEF IInv, LockInv
<1>. QED BY <1>1 DEF Truth, View

(* A writer that is isolated without m_write_exclusive_lock sees the       *)
(* committed content.                                                      *)
LEMMA TruthIsCommitted ==
    ASSUME IInv, isolated = NoThread \/ write_lock # isolated PROVE Truth = com
<1>1. CASE isolated \notin Threads
  BY <1>1 DEF Truth
<1>2. CASE isolated \in Threads
  <2>1. isolated \in Writers
    BY <1>2, DbAssumption DEF IInv, LockInv
  <2>2. snap[isolated] = <<>> /\ write_lock # isolated
    BY <1>2, <2>1, DbAssumption DEF IInv, WriterInv
  <2>. QED BY <1>2, <2>2 DEF Truth, View
<1>. QED BY <1>1, <1>2

(* ... and the truth is what the writer inside its transaction sees.       *)
LEMMA TruthIsWriters ==
    ASSUME IInv, NEW t \in Writers, pc[t] \in Inside \ {"finished"} PROVE Truth = View(t)
BY WriterHasWork DEF Truth, Threads

(* Only its own key can have a new value after cache_base::set.            *)
LEMMA CacheSetResult ==
    ASSUME TypeOK, NEW t \in Threads, arg[t] \in Keys, CacheSet(t)
    PROVE  \/ ~isolated_access(t) /\ cache' = cache
           \/ /\ isolated_access(t)
              /\ cache'[arg[t]] \in {NoValue, val[t]}
              /\ \A k \in Keys : k # arg[t] => cache'[k] \in {NoValue, cache[k]}
<1> DEFINE filled == [cache EXCEPT ![arg[t]] = val[t]]
<1>1. /\ filled[arg[t]] = val[t] /\ \A k \in Keys : k # arg[t] => filled[k] = cache[k]
      /\ filled \in Content
  BY UpdateType DEF TypeOK, Content
<1> HIDE DEF filled
<1>2. ASSUME NEW j \in Keys, NEW k \in Keys
      PROVE  [filled EXCEPT ![j] = NoValue][k] \in {NoValue, filled[k]}
  BY <1>1 DEF Content
<1>3. \/ ~isolated_access(t) /\ cache' = cache
      \/ /\ isolated_access(t)
         /\ cache' = filled \/ \E j \in Keys : cache' = [filled EXCEPT ![j] = NoValue]
  BY DEF CacheSet, filled
<1>4. CASE isolated_access(t) /\ (cache' = filled \/ \E j \in Keys : cache' = [filled EXCEPT ![j] = NoValue])
  <2>1. \A k \in Keys : cache'[k] \in {NoValue, filled[k]}
    BY <1>2, <1>4
  <2>. QED BY <1>1, <1>4, <2>1
<1>. QED BY <1>3, <1>4

(* The writer at "put", "erased" or "finished" is the isolated one.        *)
LEMMA ExceptedIsIsolated ==
    ASSUME IInv, NEW u \in Writers, pc[u] \in {"put", "erased", "finished"}
    PROVE  isolated = u
BY DEF IInv, WriterInv, Inside

(* An entry that is neither being written nor lost is the truth.           *)
LEMMA CoherentAt ==
    ASSUME CInv, NEW k \in Keys,
           isolated \in Writers => /\ pc[isolated] # "finished"
                                   /\ pc[isolated] \in {"put", "erased"} => arg[isolated] # k
    PROVE  cache[k] \in {NoValue, Truth[k]}
<1>1. \/ cache[k] \in {NoValue, Truth[k]}
      \/ \E u \in Writers : pc[u] \in {"put", "erased"} /\ arg[u] = k
      \/ \E u \in Writers : pc[u] = "finished" /\ outcome[u] = "abort"
  BY DEF CInv, CacheCoherent
<1>. QED BY <1>1, ExceptedIsIsolated DEF CInv

(* Steps that change neither the cache nor a transaction.                  *)
LEMMA CoherentQuiet ==
    ASSUME CInv, NEW t \in Threads, Step(t), UNCHANGED <<com, work, write_lock, isolated, cache>>,
           t \in Writers => snap' = snap /\ pc[t] \notin {"put", "erased"}
                              /\ (pc[t] = "finished" => outcome[t] = "commit")
    PROVE  CacheCoherent'
<1>1. ASSUME NEW u \in Writers
      PROVE  /\ snap'[u] = snap[u]
             /\ pc[u] \in {"put", "erased"} => pc'[u] = pc[u] /\ arg'[u] = arg[u]
             /\ pc[u] = "finished" /\ outcome[u] = "abort"
                    => pc'[u] = pc[u] /\ outcome'[u] = outcome[u]
  <2>1. CASE u = t
    BY <2>1
  <2>2. CASE u # t
    BY <2>2, OthersStand DEF CInv, Threads
  <2>. QED BY <2>1, <2>2
<1>2. Truth' = Truth
  BY <1>1, TruthStands DEF CInv
<1>. QED BY <1>1, <1>2, KeepsCoherent

(* A transaction begins: the truth becomes the equal working copy.         *)
LEMMA BeginTruth ==
    ASSUME CInv, NEW t \in Writers, BackendBegin(t) \/ BeginTransaction(t)
    PROVE  Truth' = Truth
<1>1. com' = com /\ snap' = snap
  BY DEF BackendBegin, BeginTransaction, dbVars
<1>2. work \in Seq(Content) /\ View(t) \in Content /\ t \in Threads /\ snap[t] = <<>>
  BY ViewType DEF CInv, IInv, TypeOK, WriterInv, Threads
<1>3. Truth' = Truth
  <2>1. CASE BackendBegin(t) /\ write_lock = t
    <3>1. isolated = t
      BY <2>1 DEF BackendBegin, CInv, IInv, WriterInv, Depth
    <3>2. Top(work') = View(t)
      BY <2>1, <1>2, StackType DEF BackendBegin
    <3>3. isolated' = t /\ write_lock' = t
      BY <2>1, <3>1 DEF BackendBegin, lockVars
    <3>. QED BY <1>2, <3>1, <3>2, <3>3 DEF Truth, View
  <2>2. CASE BackendBegin(t) /\ write_lock # t
    <3>1. write_lock = NoThread /\ isolated # t
      BY <2>2 DEF BackendBegin, CInv, IInv, WriterInv, Depth
    <3>2. isolated = NoThread \/ write_lock # isolated
      BY <3>1
    <3>3. Truth = com
      BY <3>2, TruthIsCommitted DEF CInv
    <3>4. isolated' = isolated /\ write_lock' = t
      BY <2>2 DEF BackendBegin, lockVars
    <3>5. isolated \in Threads => snap[isolated] = <<>>
      BY DbAssumption DEF CInv, IInv, LockInv, WriterInv
    <3>6. Truth' = com'
      BY <1>1, <3>1, <3>4, <3>5 DEF Truth, View
    <3>. QED BY <1>1, <3>3, <3>6
  <2>3. CASE BeginTransaction(t) /\ tx_stack[t] = 0
    <3>1. pc[t] = "begun" /\ stack_lock = NoThread
      BY <2>3 DEF BeginTransaction
    <3>2. \A u \in Writers : tx_stack[u] = 0
      BY <2>3, <3>1, NobodyElse DEF CInv
    <3>3. isolated = NoThread
      BY <3>2 DEF CInv, IInv, LockInv, WriterInv
    <3>4. Truth = com
      BY <3>3, TruthIsCommitted DEF CInv
    <3>5. write_lock = t
      BY <2>3, <3>1 DEF CInv, IInv, WriterInv, Depth
    <3>6. isolated' = t /\ write_lock' = t /\ work' = work
      BY <2>3, <3>5 DEF BeginTransaction, dbVars
    <3>7. Truth' = Top(work)
      BY <1>2, <3>6 DEF Truth, View
    <3>. QED BY <2>3, <3>1, <3>4, <3>7 DEF CInv, BegunInv
  <2>4. CASE BeginTransaction(t) /\ tx_stack[t] # 0
    <3>1. UNCHANGED <<com, work, write_lock, isolated, snap>>
      BY <2>4 DEF BeginTransaction, dbVars
    <3>. QED BY <3>1, TruthStands DEF CInv
  <2>. QED BY <2>1, <2>2, <2>3, <2>4
<1>. QED BY <1>3

(* So the cache stays coherent.                                            *)
LEMMA CoherentBegin ==
    ASSUME CInv, NEW t \in Writers, Step(t), BackendBegin(t) \/ BeginTransaction(t)
    PROVE  CacheCoherent'
<1>1. ASSUME NEW u \in Writers
      PROVE  /\ pc[u] \in {"put", "erased"} => pc'[u] = pc[u] /\ arg'[u] = arg[u]
             /\ pc[u] = "finished" /\ outcome[u] = "abort"
                    => pc'[u] = pc[u] /\ outcome'[u] = outcome[u]
  <2>1. CASE u = t
    BY <2>1 DEF BackendBegin, BeginTransaction
  <2>2. CASE u # t
    BY <2>2, OthersStand DEF CInv, Threads
  <2>. QED BY <2>1, <2>2
<1>2. cache' = cache
  BY DEF BackendBegin, BeginTransaction, cacheVars
<1>3. Truth' = Truth
  BY BeginTruth
<1>. QED BY <1>1, <1>2, <1>3, KeepsCoherent

(* A commit makes the truth the committed content.                         *)
LEMMA CommitTruth ==
    ASSUME CInv, NEW t \in Writers, BackendEnd(t), outcome[t] = "commit" PROVE Truth' = Truth
<1>1. /\ Len(work) = tx_stack[t] /\ tx_stack[t] \in Nat \ {0}
      /\ Len(work) > 1 => Top(work') = Top(work)
  BY BackendEndWork DEF CInv
<1>2. Truth = Top(work) /\ isolated = t /\ snap[t] = <<>>
  BY WriterHasWork, TruthIsWriters DEF BackendEnd, Inside, CInv, IInv, WriterInv
<1>3. isolated' = t /\ snap' = snap
  BY <1>2 DEF BackendEnd
<1>4. Truth' = Top(work)
  <2>1. CASE Len(work) = 1
    <3>1. write_lock' = NoThread /\ com' = Top(work)
      BY <2>1 DEF BackendEnd
    <3>. QED BY <1>2, <1>3, <3>1, DbAssumption DEF Truth, View, Threads
  <2>2. CASE Len(work) # 1
    <3>1. Len(work) > 1
      BY <1>1, <2>2
    <3>2. write_lock' = t
      BY <2>2 DEF BackendEnd
    <3>. QED BY <1>1, <1>3, <3>1, <3>2 DEF Truth, View, Threads
  <2>. QED BY <2>1, <2>2
<1>. QED BY <1>2, <1>4

(* A commit keeps the cache coherent; an abort is excepted.                *)
LEMMA CoherentBackendEnd ==
    ASSUME CInv, NEW t \in Writers, Step(t), BackendEnd(t) PROVE CacheCoherent'
<1>1. CASE outcome[t] = "abort"
  <2>1. pc'[t] = "finished" /\ outcome'[t] = "abort"
    BY <1>1 DEF BackendEnd, Goto, CInv, IInv, TypeOK, Threads
  <2>. QED BY <2>1 DEF CacheCoherent
<1>2. CASE outcome[t] = "commit"
  <2>1. ASSUME NEW u \in Writers
        PROVE  /\ pc[u] \in {"put", "erased"} => pc'[u] = pc[u] /\ arg'[u] = arg[u]
               /\ pc[u] = "finished" /\ outcome[u] = "abort"
                      => pc'[u] = pc[u] /\ outcome'[u] = outcome[u]
    <3>1. CASE u = t
      BY <1>2, <3>1 DEF BackendEnd
    <3>2. CASE u # t
      BY <3>2, OthersStand DEF CInv, Threads
    <3>. QED BY <3>1, <3>2
  <2>2. cache' = cache
    BY DEF BackendEnd, cacheVars
  <2>3. Truth' = Truth
    BY <1>2, CommitTruth
  <2>. QED BY <2>1, <2>2, <2>3, KeepsCoherent
<1>. QED BY <1>1, <1>2 DEF CInv, IInv, TypeOK, Threads

(* Isolation ends: the committed content is the truth.                     *)
LEMMA SwitchOffTruth ==
    ASSUME CInv, NEW t \in Writers, SwitchIsolationOff(t), tx_stack[t] = 1 PROVE Truth' = Truth
<1>1. isolated' = NoThread /\ com' = com
  BY DEF SwitchIsolationOff, dbVars
<1>2. isolated = t /\ write_lock # t
  BY DEF SwitchIsolationOff, CInv, IInv, WriterInv, Inside, Depth
<1>3. Truth = com
  BY <1>2, TruthIsCommitted DEF CInv
<1>4. Truth' = com'
  BY <1>1, DbAssumption DEF Truth
<1>. QED BY <1>1, <1>3, <1>4

(* An aborted transaction takes the cache with it.                         *)
LEMMA CoherentSwitchOff ==
    ASSUME CInv, NEW t \in Writers, Step(t), SwitchIsolationOff(t) PROVE CacheCoherent'
<1>1. CASE tx_stack[t] = 1 /\ outcome[t] = "abort"
  <2>1. cache' = Empty
    BY <1>1 DEF SwitchIsolationOff
  <2>. QED BY <2>1 DEF CacheCoherent, Empty
<1>2. CASE tx_stack[t] = 1 /\ outcome[t] # "abort"
  <2>1. ASSUME NEW u \in Writers
        PROVE  /\ pc[u] \in {"put", "erased"} => pc'[u] = pc[u] /\ arg'[u] = arg[u]
               /\ pc[u] = "finished" /\ outcome[u] = "abort"
                      => pc'[u] = pc[u] /\ outcome'[u] = outcome[u]
    <3>1. CASE u = t
      BY <1>2, <3>1 DEF SwitchIsolationOff
    <3>2. CASE u # t
      BY <3>2, OthersStand DEF CInv, Threads
    <3>. QED BY <3>1, <3>2
  <2>2. cache' = cache
    BY <1>2 DEF SwitchIsolationOff
  <2>3. Truth' = Truth
    BY <1>2, SwitchOffTruth
  <2>. QED BY <2>1, <2>2, <2>3, KeepsCoherent
<1>3. CASE tx_stack[t] # 1
  <2>1. outcome[t] = "commit" /\ pc[t] = "finished"
    BY <1>3 DEF SwitchIsolationOff, CInv, IInv, WriterInv, TypeOK, Threads
  <2>2. UNCHANGED <<com, work, write_lock, isolated, cache, snap>>
    BY <1>3 DEF SwitchIsolationOff, dbVars
  <2>. QED BY <2>1, <2>2, CoherentQuiet DEF Threads
<1>. QED BY <1>1, <1>2, <1>3

(* A write changes the truth at the key that is then excepted.             *)
LEMMA CoherentUpdate ==
    ASSUME CInv, NEW t \in Writers, Put(t) \/ Erase(t) PROVE CacheCoherent'
<1>1. PICK k \in Keys, v \in Values \cup {NoValue} : Update(k, v) /\ arg' = [arg EXCEPT ![t] = k]
  BY DEF Put, Erase
<1>2. /\ pc[t] = "tx" /\ write_lock' = write_lock /\ isolated' = isolated /\ cache' = cache
      /\ pc'[t] \in {"put", "erased"} /\ arg'[t] = k
  BY <1>1 DEF Put, Erase, Goto, lockVars, cacheVars, CInv, IInv, TypeOK, Threads
<1>3. View(t)' = [View(t) EXCEPT ![k] = v] /\ View(t) \in Content
  BY <1>1, <1>2, OwnUpdate DEF CInv
<1>4. isolated = t /\ Truth = View(t) /\ Truth' = View(t)'
  BY <1>2, WriterHasWork DEF Inside, CInv, Truth, Threads
<1>5. ASSUME NEW j \in Keys, j # k PROVE cache'[j] \in {NoValue, Truth'[j]}
  <2>1. cache[j] \in {NoValue, Truth[j]}
    BY <1>2, <1>4, CoherentAt
  <2>2. Truth'[j] = Truth[j]
    BY <1>3, <1>4, <1>5 DEF Content
  <2>. QED BY <1>2, <2>1, <2>2
<1>. QED BY <1>2, <1>5 DEF CacheCoherent

(* What goes into the cache is what the thread that may use it still sees, *)
(* and that is the truth.                                                  *)
LEMMA CoherentFill ==
    ASSUME CInv, NEW t \in Threads, Step(t), PutInCache(t) \/ FillCache(t) PROVE CacheCoherent'
<1>1. UNCHANGED <<com, work, write_lock, isolated, snap>> /\ CacheSet(t)
  BY DEF PutInCache, FillCache, dbVars, lockVars
<1>2. Truth' = Truth
  BY <1>1, TruthStands DEF CInv
<1>3. /\ t \in Writers => isolated = t
      /\ arg[t] \in Keys /\ val[t] = View(t)[arg[t]] /\ pc[t] \in {"put", "fetched"}
  <2>1. pc[t] \in {"put", "fetched"}
    BY DEF PutInCache, FillCache
  <2>2. t \in Writers => isolated = t
    BY <2>1, WriterHasWork DEF Inside, CInv
  <2>. QED BY <2>1, <2>2 DEF CInv, IInv, ArgInv, CarryInv
<1>4. CASE ~isolated_access(t) /\ cache' = cache
  <2>1. t \notin Writers
    BY <1>3, <1>4 DEF isolated_access
  <2>. QED BY <1>1, <1>4, <2>1, CoherentQuiet
<1>5. CASE /\ isolated_access(t)
           /\ cache'[arg[t]] \in {NoValue, val[t]}
           /\ \A k \in Keys : k # arg[t] => cache'[k] \in {NoValue, cache[k]}
  <2>1. Truth = View(t)
    <3>1. CASE t \in Writers
      BY <1>3, <3>1, TruthIsWriters DEF Inside, CInv
    <3>2. CASE t \in Readers
      <4>1. isolated = NoThread
        BY <1>5, <3>2, DbAssumption DEF isolated_access, CInv, IInv, LockInv, Threads
      <4>. QED BY <3>2, <4>1, TruthIsCommitted, ReaderView DEF CInv
    <3>. QED BY <3>1, <3>2 DEF Threads
  <2>2. isolated \in Writers => isolated = t
    BY <1>3, <1>5, DbAssumption DEF isolated_access, Threads
  <2>3. ASSUME NEW k \in Keys, k # arg[t] PROVE cache'[k] \in {NoValue, Truth'[k]}
    <3>1. cache[k] \in {NoValue, Truth[k]}
      BY <1>3, <2>2, <2>3, CoherentAt
    <3>. QED BY <1>2, <1>5, <2>3, <3>1
  <2>4. cache'[arg[t]] \in {NoValue, Truth'[arg[t]]}
    BY <1>2, <1>3, <1>5, <2>1
  <2>. QED BY <2>3, <2>4 DEF CacheCoherent
<1>. QED BY <1>1, <1>3, <1>4, <1>5, CacheSetResult DEF CInv, IInv

(* After erase_from_cache the key is no exception any more.                *)
LEMMA CoherentErase ==
    ASSUME CInv, NEW t \in Threads, EraseFromCache(t) PROVE CacheCoherent'
<1>1. UNCHANGED <<com, work, write_lock, isolated, snap>>
  BY DEF EraseFromCache, dbVars, lockVars
<1>2. Truth' = Truth
  BY <1>1, TruthStands DEF CInv
<1>3. t \in Writers
  BY DEF EraseFromCache, CInv, IInv, ReaderInv, Threads
<1>4. isolated = t /\ pc[t] = "erased"
  BY <1>3, ExceptedIsIsolated DEF EraseFromCache, CInv
<1>5. cache'[arg[t]] = NoValue \/ arg[t] \notin Keys
  BY DEF EraseFromCache, CInv, IInv, TypeOK, Content
<1>6. \A k \in Keys : k # arg[t] => cache'[k] = cache[k]
  BY DEF EraseFromCache, CInv, IInv, TypeOK, Content
<1>7. \A k \in Keys : k # arg[t] => cache[k] \in {NoValue, Truth[k]}
  BY <1>4, CoherentAt
<1>. QED BY <1>2, <1>5, <1>6, <1>7 DEF CacheCoherent

(* Every step of a thread keeps the cache coherent.                        *)
LEMMA CoherentStep ==
    ASSUME CInv, NEW t \in Threads, Step(t) PROVE CacheCoherent'
<1> USE DEF dbVars, lockVars, cacheVars
<1>1. CASE Transaction(t)
  <2>1. t \in Writers
    BY <1>1 DEF Transaction
  <2>2. CASE EndTransaction(t) \/ ReadersGone(t) \/ UnlockRw(t)
    <3>1. UNCHANGED <<com, work, write_lock, isolated, cache, snap>>
             /\ pc[t] \notin {"put", "erased", "finished"}
      BY <2>2 DEF EndTransaction, ReadersGone, UnlockRw
    <3>. QED BY <3>1, CoherentQuiet
  <2>. QED BY <1>1, <2>1, <2>2, CoherentBegin, CoherentBackendEnd, CoherentSwitchOff,
              CoherentUpdate DEF Transaction, Ending
<1>2. CASE GetFromDb(t) \/ GetFromCache(t) \/ CallSize(t)
  <2>1. UNCHANGED <<com, work, write_lock, isolated, cache, snap>>
           /\ pc[t] \notin {"put", "erased", "finished"}
    BY <1>2 DEF GetFromDb, GetFromCache, CallSize
  <2>. QED BY <2>1, CoherentQuiet
<1>3. CASE EnterRegion(t) \/ LeaveRegion(t)
  <2>1. UNCHANGED <<com, work, write_lock, isolated, cache>> /\ t \notin Writers
    BY <1>3, DbAssumption DEF EnterRegion, LeaveRegion, CInv, IInv, WriterInv
  <2>. QED BY <2>1, CoherentQuiet
<1>4. CASE ClearCache(t)
  BY <1>4 DEF ClearCache, CacheCoherent, Empty
<1>. QED BY <1>1, <1>2, <1>3, <1>4, CoherentFill, CoherentErase DEF Step, Call

(* If every reader holds m_read_lock, the invariant on the cache holds.    *)
LEMMA CInductive ==
    ASSUME Readers \subseteq ReadLocked, CInv, [Next]_vars PROVE CInv'
<1>1. IInv'
  BY Inductive DEF CInv
<1>2. CASE UNCHANGED vars
  BY <1>1, <1>2 DEF CInv, vars, dbVars, lockVars, cacheVars, callVars, SharedInv, SnapInv, CarryInv,
              BegunInv, CacheCoherent, Truth, View
<1>3. CASE Next
  <2>1. PICK t \in Threads : Step(t)
    BY <1>3 DEF Next, Step
  <2>2. SharedInv' /\ SnapInv'
    BY <1>1, <2>1, SharedStep, SnapStep
  <2>3. CarryInv' /\ BegunInv' /\ CacheCoherent'
    BY <1>1, <2>1, <2>2, CarryStep, BegunStep, CoherentStep
  <2>. QED BY <1>1, <2>2, <2>3 DEF CInv
<1>. QED BY <1>2, <1>3

(* An empty cache agrees with an empty database.                           *)
LEMMA CInitially == Init => CInv
<1> SUFFICES ASSUME Init PROVE CInv
  OBVIOUS
<1>1. IInv
  BY Initially
<1>2. SharedInv /\ SnapInv /\ CarryInv /\ BegunInv
  BY DEF Init, SharedInv, SnapInv, CarryInv, BegunInv, Threads
<1>3. CacheCoherent
  BY DEF Init, CacheCoherent, Empty
<1>. QED BY <1>1, <1>2, <1>3 DEF CInv

(* What threads carry between critical sections stays true, if all readers *)
(* hold m_read_lock.                                                       *)
THEOREM CacheInvariance ==
    ASSUME Readers \subseteq ReadLocked PROVE Spec => []CInv
<1>1. CInv /\ [Next]_vars => CInv'
  BY CInductive
<1>. QED BY <1>1, CInitially, PTL DEF Spec

(* The cache never holds anything but what the database would return.      *)
THEOREM CacheIsCoherent ==
    ASSUME Readers \subseteq ReadLocked PROVE Spec => []CacheCoherent
<1>1. CInv => CacheCoherent
  BY DEF CInv
<1>. QED BY <1>1, CacheInvariance, PTL

-----------------------------------------------------------------------------
(***************************************************************************)
(* The cached size, when every transaction commits.  A container that is   *)
(* used as an array has its elements at 0 .. n - 1, in the committed       *)
(* content and in every nested transaction, and the cached size, as long   *)
(* as it is valid, is the number of them.                                  *)
(***************************************************************************)
Array(c) == \E n \in 0 .. MaxKey + 1 : \A k \in Keys : c[k] # NoValue <=> k < n
Arrays   == {c \in Content : Array(c)}

Committing == \A t \in Threads : outcome[t] = "commit"

SizeInv ==
    /\ Committing
    /\ com \in Arrays /\ work \in Seq(Arrays)
    /\ size_valid /\ (\A t \in Writers : pc[t] # "erased") => size_cache = Count(Truth)

(* The keys of an array are those below its size.                          *)
LEMMA ArrayCount ==
    ASSUME NEW c, Array(c)
    PROVE  Count(c) \in 0 .. MaxKey + 1 /\ \A k \in Keys : c[k] # NoValue <=> k < Count(c)
<1>1. MaxKey \in Nat
  BY DbAssumption
<1>2. PICK n \in 0 .. MaxKey + 1 : \A k \in Keys : c[k] # NoValue <=> k < n
  BY DEF Array
<1>3. n \in Nat /\ n <= MaxKey + 1
  BY <1>1, <1>2
<1>4. {k \in Keys : c[k] # NoValue} = 0 .. n - 1
  BY <1>1, <1>2, <1>3 DEF Keys
<1>5. Cardinality(0 .. n - 1) = n
  <2>1. CASE n = 0
    <3>1. 0 .. n - 1 = {}
      BY <2>1
    <3>. QED BY <2>1, <3>1, FS_EmptySet
  <2>2. CASE n # 0
    <3>1. 0 \in Int /\ n - 1 \in Int /\ 0 <= n - 1
      BY <1>3, <2>2
    <3> DEFINE m == n - 1
    <3> HIDE DEF m
    <3>2. Cardinality(0 .. m) = IF 0 > m THEN 0 ELSE m - 0 + 1
      BY <3>1, FS_Interval DEF m
    <3>. QED BY <1>3, <3>1, <3>2 DEF m
  <2>. QED BY <2>1, <2>2
<1>6. Count(c) = n
  BY <1>4, <1>5 DEF Count
<1>. QED BY <1>2, <1>6

(* push_back and pop_back leave an array.                                  *)
LEMMA ArrayUpdate ==
    ASSUME NEW c \in Arrays, NEW k \in Keys, NEW v \in Values \cup {NoValue},
           \/ k = Count(c) /\ v # NoValue
           \/ k = Count(c) - 1 /\ v = NoValue
    PROVE  [c EXCEPT ![k] = v] \in Arrays
<1> DEFINE N == Count(c)
           d == [c EXCEPT ![k] = v]
<1>1. MaxKey \in Nat /\ k \in Nat /\ k <= MaxKey
  BY DbAssumption DEF Keys
<1>2. c \in Content /\ Array(c)
  BY DEF Arrays
<1>3. N \in 0 .. MaxKey + 1 /\ \A j \in Keys : c[j] # NoValue <=> j < N
  BY <1>2, ArrayCount
<1>4. d \in Content
  BY <1>2, UpdateType
<1>5. \A j \in Keys : d[j] = IF j = k THEN v ELSE c[j]
  BY <1>2 DEF Content
<1>6. (k = N /\ v # NoValue) \/ (k = N - 1 /\ v = NoValue)
  OBVIOUS
<1> HIDE DEF N, d
<1>7. Array(d)
  <2>1. CASE k = N /\ v # NoValue
    <3>1. N + 1 \in 0 .. MaxKey + 1
      BY <1>1, <2>1
    <3>2. \A j \in Keys : d[j] # NoValue <=> j < N + 1
      BY <1>1, <1>3, <1>5, <2>1 DEF Keys
    <3>. QED BY <3>1, <3>2 DEF Array
  <2>2. CASE k = N - 1 /\ v = NoValue
    <3>1. N - 1 \in 0 .. MaxKey + 1
      BY <1>1, <1>3, <2>2
    <3>2. \A j \in Keys : d[j] # NoValue <=> j < N - 1
      BY <1>1, <1>3, <1>5, <2>2 DEF Keys
    <3>. QED BY <3>1, <3>2 DEF Array
  <2>. QED BY <1>6, <2>1, <2>2
<1>. QED BY <1>4, <1>7 DEF Arrays, d

(* What a thread sees is an array.                                         *)
LEMMA ViewIsArray ==
    ASSUME CInv, SizeInv, NEW t \in Threads PROVE View(t) \in Arrays
<1>1. CASE t \in Readers
  BY <1>1, ReaderView DEF CInv, SizeInv
<1>2. CASE t \in Writers
  <2>1. snap[t] = <<>>
    BY <1>2 DEF CInv, IInv, WriterInv
  <2>2. CASE write_lock = t
    <3>1. Len(work) = Depth(t) /\ Depth(t) > 0
      BY <1>2, <2>2 DEF CInv, IInv, WriterInv
    <3>2. work # <<>>
      BY <3>1, StackType DEF CInv, IInv, TypeOK
    <3>3. Stack(Arrays, work)
      BY StackOf, Zenon DEF SizeInv
    <3>. QED BY <2>2, <3>2, <3>3 DEF Stack, View
  <2>3. CASE write_lock # t
    BY <2>1, <2>3 DEF View, SizeInv
  <2>. QED BY <2>2, <2>3
<1>. QED BY <1>1, <1>2 DEF Threads

(* The size a thread sees is that of the content it sees, outside of its   *)
(* own erase.                                                              *)
LEMMA SizeIsCount ==
    ASSUME CInv, SizeInv, NEW t \in Threads, pc[t] \in {"region", "tx"}
    PROVE  SizeSeen(t) = Count(View(t))
<1>1. CASE isolated_access(t) /\ size_valid
  <2>1. SizeSeen(t) = size_cache
    BY <1>1 DEF SizeSeen
  <2>2. CASE t \in Writers
    <3>1. pc[t] = "tx"
      BY <2>2 DEF CInv, IInv, WriterInv
    <3>2. isolated = t /\ Truth = View(t)
      BY <2>2, <3>1, WriterHasWork, TruthIsWriters DEF CInv, Inside
    <3>3. \A u \in Writers : pc[u] # "erased"
      BY <3>1, <3>2, ExceptedIsIsolated DEF CInv
    <3>. QED BY <1>1, <2>1, <3>2, <3>3 DEF SizeInv
  <2>3. CASE t \in Readers
    <3>1. isolated = NoThread
      BY <1>1, <2>3, DbAssumption DEF isolated_access, CInv, IInv, LockInv, Threads
    <3>2. Truth = View(t)
      BY <2>3, <3>1, TruthIsCommitted, ReaderView DEF CInv
    <3>3. \A u \in Writers : pc[u] # "erased"
      BY <3>1, ExceptedIsIsolated, DbAssumption DEF CInv, Threads
    <3>. QED BY <1>1, <2>1, <3>2, <3>3 DEF SizeInv
  <2>. QED BY <2>2, <2>3 DEF Threads
<1>2. CASE ~(isolated_access(t) /\ size_valid)
  BY <1>2 DEF SizeSeen
<1>. QED BY <1>1, <1>2

(* Only a write moves the truth, if all transactions commit.               *)
LEMMA TruthMoves ==
    ASSUME CInv, Committing, NEW t \in Threads, Step(t), ~Put(t), ~Erase(t) PROVE Truth' = Truth
<1>1. CASE Transaction(t)
  <2>1. t \in Writers /\ outcome[t] = "commit"
    BY <1>1 DEF Transaction, Committing
  <2>2. CASE BackendBegin(t) \/ BeginTransaction(t)
    BY <2>1, <2>2, BeginTruth
  <2>3. CASE BackendEnd(t)
    BY <2>1, <2>3, CommitTruth
  <2>4. CASE SwitchIsolationOff(t) /\ tx_stack[t] = 1
    BY <2>1, <2>4, SwitchOffTruth
  <2>5. CASE SwitchIsolationOff(t) /\ tx_stack[t] # 1
    <3>1. UNCHANGED <<com, work, write_lock, isolated, snap>>
      BY <2>5 DEF SwitchIsolationOff, dbVars
    <3>. QED BY <3>1, TruthStands DEF CInv
  <2>6. CASE EndTransaction(t) \/ ReadersGone(t) \/ UnlockRw(t)
    <3>1. UNCHANGED <<com, work, write_lock, isolated, snap>>
      BY <2>6 DEF EndTransaction, ReadersGone, UnlockRw, dbVars, lockVars
    <3>. QED BY <3>1, TruthStands DEF CInv
  <2>. QED BY <1>1, <2>2, <2>3, <2>4, <2>5, <2>6 DEF Transaction, Ending
<1>2. CASE Call(t) \/ GetFromCache(t) \/ CallSize(t) \/ ClearCache(t)
  <2>1. UNCHANGED <<com, work, write_lock, isolated, snap>>
    BY <1>2 DEF Call, GetFromDb, FillCache, PutInCache, EraseFromCache, GetFromCache, CallSize,
                ClearCache, dbVars, lockVars
  <2>. QED BY <2>1, TruthStands DEF CInv
<1>3. CASE EnterRegion(t) \/ LeaveRegion(t)
  <2>1. UNCHANGED <<com, work, write_lock, isolated>> /\ t \notin Writers
    BY <1>3, DbAssumption DEF EnterRegion, LeaveRegion, CInv, IInv, WriterInv
  <2>2. \A u \in Writers : snap'[u] = snap[u]
    BY <2>1, OthersStand DEF CInv, Threads
  <2>. QED BY <2>1, <2>2, TruthStands DEF CInv
<1>. QED BY <1>1, <1>2, <1>3 DEF Step

(* No transaction is about to abort.                                       *)
LEMMA CommittingStep ==
    ASSUME Outcomes \subseteq {"commit"}, IInv, Committing, NEW t \in Threads, Step(t)
    PROVE  Committing'
<1>1. ASSUME NEW u \in Threads, u # t PROVE outcome'[u] = "commit"
  BY <1>1, OthersStand DEF Committing
<1>2. outcome'[t] = "commit"
  <2>1. CASE EndTransaction(t) \/ UnlockRw(t)
    BY <2>1 DEF EndTransaction, UnlockRw, IInv, TypeOK
  <2>2. CASE ~EndTransaction(t) /\ ~UnlockRw(t)
    <3>1. outcome' = outcome
      BY <2>2 DEF Step, Transaction, Ending, BackendBegin, BeginTransaction, ReadersGone, BackendEnd,
                  SwitchIsolationOff, Put, Erase, Call, GetFromDb, FillCache, PutInCache,
                  EraseFromCache, EnterRegion, LeaveRegion, GetFromCache, CallSize, ClearCache,
                  callVars
    <3>. QED BY <3>1 DEF Committing
  <2>. QED BY <2>1, <2>2
<1>. QED BY <1>1, <1>2 DEF Committing

(* A write by push_back or pop_back.                                       *)
LEMMA ArrayWrite ==
    ASSUME Ops \subseteq {"push_back", "pop_back"}, CInv, SizeInv, NEW t \in Writers,
           Put(t) \/ Erase(t)
    PROVE  com' \in Arrays /\ work' \in Seq(Arrays)
<1>1. pc[t] = "tx" /\ com' = com
  BY DEF Put, Erase
<1>2. /\ View(t) = Top(work) /\ work # <<>> /\ work \in Seq(Arrays)
      /\ SizeSeen(t) = Count(Top(work)) /\ Top(work) \in Arrays
  BY <1>1, WriterHasWork, SizeIsCount, ViewIsArray DEF Inside, CInv, SizeInv, Threads
<1>3. PICK k \in Keys, v \in Values \cup {NoValue} :
          /\ Update(k, v)
          /\ \/ k = Count(Top(work)) /\ v # NoValue
             \/ k = Count(Top(work)) - 1 /\ v = NoValue
  <2>1. CASE Put(t)
    BY <1>2, <2>1, DbAssumption DEF Put
  <2>2. CASE Erase(t)
    BY <1>2, <2>2 DEF Erase
  <2>. QED BY <2>1, <2>2
<1> DEFINE d == [Top(work) EXCEPT ![k] = v]
<1>4. d \in Arrays
  BY <1>2, <1>3, ArrayUpdate
<1>5. work' = [work EXCEPT ![Len(work)] = d]
  BY <1>3 DEF Update, Top
<1> HIDE DEF d
<1>6. work' \in Seq(Arrays)
  BY <1>2, <1>4, <1>5
<1>. QED BY <1>1, <1>6 DEF SizeInv

(* Every content there is stays an array.                                  *)
LEMMA ArraysStep ==
    ASSUME Ops \subseteq {"push_back", "pop_back"}, CInv, SizeInv, NEW t \in Threads, Step(t)
    PROVE  com' \in Arrays /\ work' \in Seq(Arrays)
<1>1. com \in Arrays /\ work \in Seq(Arrays) /\ Stack(Arrays, work)
  BY StackOf, Zenon DEF SizeInv
<1>2. CASE Transaction(t)
  <2>1. t \in Writers
    BY <1>2 DEF Transaction
  <2>2. CASE BackendBegin(t)
    <3>1. work' = Append(work, View(t)) /\ com' = com /\ View(t) \in Arrays
      BY <2>2, ViewIsArray DEF BackendBegin
    <3>. QED BY <1>1, <3>1
  <2>3. CASE BackendEnd(t)
    <3>1. Len(work) = tx_stack[t] /\ tx_stack[t] \in Nat \ {0}
      BY <2>1, <2>3, BackendEndWork DEF CInv
    <3>2. work # <<>>
      BY <1>1, <3>1 DEF Stack
    <3>3. com' \in {com, Top(work)}
      BY <2>3 DEF BackendEnd
    <3>4. Top(work) \in Arrays /\ Pop(work) \in Seq(Arrays)
      BY <1>1, <3>2, Zenon DEF Stack
    <3>5. CASE Len(work) > 1 /\ outcome[t] = "commit"
      <4>1. work' = Append(Pop(Pop(work)), Top(work))
        BY <2>3, <3>5 DEF BackendEnd
      <4>2. Pop(Pop(work)) \in Seq(Arrays)
        BY <1>1, <3>5, Zenon DEF Stack
      <4>3. work' \in Seq(Arrays)
        BY <3>4, <4>1, <4>2
      <4>. QED BY <1>1, <3>3, <3>4, <4>3
    <3>6. CASE ~(Len(work) > 1 /\ outcome[t] = "commit")
      <4>1. work' = Pop(work)
        BY <2>3, <3>6, Zenon DEF BackendEnd
      <4>. QED BY <1>1, <3>3, <3>4, <4>1
    <3>. QED BY <3>5, <3>6
  <2>4. CASE ~BackendBegin(t) /\ ~BackendEnd(t) /\ ~Put(t) /\ ~Erase(t)
    <3>1. com' = com /\ work' = work
      BY <1>2, <2>4 DEF Transaction, Ending, BeginTransaction, EndTransaction, ReadersGone,
                        SwitchIsolationOff, UnlockRw, dbVars
    <3>. QED BY <1>1, <3>1
  <2>. QED BY <2>1, <2>2, <2>3, <2>4, ArrayWrite
<1>3. CASE ~Transaction(t)
  <2>1. com' = com /\ work' = work
    BY <1>3 DEF Step, Call, GetFromDb, FillCache, PutInCache, EraseFromCache, EnterRegion,
                LeaveRegion, GetFromCache, CallSize, ClearCache, dbVars
  <2>. QED BY <1>1, <2>1
<1>. QED BY <1>2, <1>3

(* What the thread that may use the cached size sees is the truth.         *)
LEMMA AccessIsTruth ==
    ASSUME CInv, NEW t \in Threads, pc[t] \in {"region", "tx"}, isolated_access(t)
    PROVE  Truth = View(t)
<1>1. CASE t \in Writers
  <2>1. pc[t] = "tx"
    BY <1>1 DEF CInv, IInv, WriterInv
  <2>. QED BY <1>1, <2>1, TruthIsWriters DEF CInv, Inside
<1>2. CASE t \in Readers
  <2>1. isolated = NoThread
    BY <1>2, DbAssumption DEF isolated_access, CInv, IInv, LockInv, Threads
  <2>. QED BY <1>2, <2>1, TruthIsCommitted, ReaderView DEF CInv
<1>. QED BY <1>1, <1>2 DEF Threads

(* The cached size is dropped by a write, and after an erase at the latest *)
(* when the thread returns from it; size() refreshes it with the truth.    *)
LEMMA SizeStep ==
    ASSUME CInv, SizeInv, NEW t \in Threads, Step(t)
    PROVE  size_valid' /\ (\A u \in Writers : pc'[u] # "erased") => size_cache' = Count(Truth')
<1> SUFFICES ASSUME size_valid', \A u \in Writers : pc'[u] # "erased"
             PROVE  size_cache' = Count(Truth')
  OBVIOUS
<1>1. ~Put(t) /\ ~EraseFromCache(t)
  BY DEF Put, EraseFromCache
<1>2. ~Erase(t)
  <2>1. SUFFICES ASSUME Erase(t) PROVE FALSE
    OBVIOUS
  <2>2. pc[t] = "tx" /\ pc'[t] = "erased"
    BY <2>1 DEF Erase, Goto, CInv, IInv, TypeOK
  <2>3. t \in Writers
    BY <2>2 DEF CInv, IInv, ReaderInv, Threads
  <2>. QED BY <2>2, <2>3
<1>3. Truth' = Truth
  BY <1>1, <1>2, TruthMoves DEF SizeInv
<1>4. CASE CallSize(t)
  <2>1. size_cache' = SizeSeen(t) /\ pc[t] \in {"region", "tx"} /\ isolated_access(t)
    BY <1>4 DEF CallSize
  <2>. QED BY <1>3, <2>1, SizeIsCount, AccessIsTruth
<1>5. CASE ~CallSize(t)
  <2>1. size_cache' = size_cache /\ size_valid' = size_valid /\ pc[t] # "erased"
    BY <1>1, <1>2, <1>5
       DEF Step, Transaction, Ending, BackendBegin, BeginTransaction, EndTransaction, ReadersGone,
           BackendEnd, SwitchIsolationOff, UnlockRw, Call, GetFromDb, FillCache, PutInCache,
           EnterRegion, LeaveRegion, GetFromCache, ClearCache, cacheVars
  <2>2. \A u \in Writers : pc[u] # "erased"
    BY <2>1, OthersStand DEF CInv, Threads
  <2>. QED BY <1>3, <2>1, <2>2 DEF SizeInv
<1>. QED BY <1>4, <1>5

(* An empty container is an array.                                         *)
LEMMA SizeInitially == Init => SizeInv
<1> SUFFICES ASSUME Init PROVE SizeInv
  OBVIOUS
<1>1. Empty \in Content /\ 0 \in 0 .. MaxKey + 1 /\ \A k \in Keys : ~(k < 0) /\ Empty[k] = NoValue
  BY DbAssumption DEF Empty, Content, Keys
<1>2. Empty \in Arrays
  BY <1>1 DEF Arrays, Array
<1>. QED BY <1>2 DEF Init, SizeInv, Committing, Threads

(* If all readers hold m_read_lock, all transactions commit and writers    *)
(* only push and pop, the container is an array and its cached size is     *)
(* true.                                                                   *)
THEOREM SizeInvariance ==
    ASSUME Readers \subseteq ReadLocked, Outcomes \subseteq {"commit"},
           Ops \subseteq {"push_back", "pop_back"}
    PROVE  Spec => [](CInv /\ SizeInv)
<1>1. Init => CInv /\ SizeInv
  BY CInitially, SizeInitially
<1>2. ASSUME CInv, SizeInv, [Next]_vars PROVE CInv' /\ SizeInv'
  <2>1. CInv'
    BY <1>2, CInductive
  <2>2. CASE UNCHANGED vars
    <3>1. Truth' = Truth
      BY <2>2 DEF vars, dbVars, lockVars, Truth, View
    <3>. QED BY <1>2, <2>1, <2>2, <3>1 DEF vars, dbVars, cacheVars, callVars, SizeInv, Committing
  <2>3. CASE Next
    <3>1. PICK t \in Threads : Step(t)
      BY <2>3 DEF Next, Step
    <3>2. Committing'
      BY <1>2, <3>1, CommittingStep DEF CInv, SizeInv
    <3>3. com' \in Arrays /\ work' \in Seq(Arrays)
      BY <1>2, <3>1, ArraysStep
    <3>4. size_valid' /\ (\A u \in Writers : pc'[u] # "erased") => size_cache' = Count(Truth')
      BY <1>2, <3>1, SizeStep
    <3>. QED BY <2>1, <3>2, <3>3, <3>4 DEF SizeInv
  <2>. QED BY <1>2, <2>1, <2>2, <2>3
<1>. QED BY <1>1, <1>2, PTL DEF Spec

(* back() of a container used as an array finds its element, whichever of  *)
(* the cached and the real size it uses, as long as no transaction aborts. *)
THEOREM BackIsPresent ==
    ASSUME Readers \subseteq ReadLocked, Outcomes \subseteq {"commit"},
           Ops \subseteq {"push_back", "pop_back"}
    PROVE  Spec => []BackPresent
<1>1. ASSUME CInv, SizeInv PROVE BackPresent
  <2> SUFFICES ASSUME NEW t \in Threads, pc[t] \in {"region", "tx"}, SizeSeen(t) > 0
               PROVE  SizeSeen(t) - 1 \in Keys /\ View(t)[SizeSeen(t) - 1] # NoValue
    BY DEF BackPresent
  <2>1. SizeSeen(t) = Count(View(t)) /\ Array(View(t))
    BY <1>1, SizeIsCount, ViewIsArray DEF Arrays
  <2>2. /\ SizeSeen(t) \in 0 .. MaxKey + 1
        /\ \A k \in Keys : View(t)[k] # NoValue <=> k < SizeSeen(t)
    BY <2>1, ArrayCount
  <2>. QED BY <2>2, DbAssumption DEF Keys
<1>. QED BY <1>1, SizeInvariance, PTL

-----------------------------------------------------------------------------
(***************************************************************************)
(* The cached container implements TxStore.                                *)
(***************************************************************************)

(* The components of TxStore's state, as the INSTANCE maps them.           *)
Txs     == [t \in Threads |-> IF write_lock = t THEN work ELSE <<>>]
Regions == {t \in ReadLocked : pc[t] # "idle"}
Gots    == [t \in Threads |-> IF t \in Writers \cup ReadLocked THEN got[t] ELSE NoRead]

(* What TxStore says a thread sees is what it sees here.                   *)
LEMMA StoreView ==
    ASSUME CInv, NEW t \in Threads
    PROVE  /\ Store!View(t) = View(t) /\ Txs[t] = (IF write_lock = t THEN work ELSE <<>>)
           /\ write_lock = t => work # <<>> /\ work \in Seq(Content)
<1>1. ASSUME write_lock = t PROVE work # <<>> /\ work \in Seq(Content)
  <2>1. t \in Writers
    BY <1>1, DbAssumption DEF CInv, IInv, LockInv, Threads
  <2>2. Len(work) = Depth(t) /\ Depth(t) > 0
    BY <1>1, <2>1 DEF CInv, IInv, WriterInv
  <2>. QED BY <2>2, StackType DEF CInv, IInv, TypeOK
<1>2. Txs[t] = (IF write_lock = t THEN work ELSE <<>>)
  BY DEF Txs
<1>3. Store!View(t) = IF Txs[t] = <<>> THEN com ELSE Top(Txs[t])
  BY DEF Store!View, Txs, Top
<1>4. CASE write_lock = t
  BY <1>1, <1>2, <1>3, <1>4 DEF View
<1>5. CASE write_lock # t
  <2>1. View(t) = com
    <3>1. CASE t \in Writers
      BY <1>5, <3>1 DEF CInv, IInv, WriterInv, View
    <3>2. CASE t \in Readers
      BY <3>2, ReaderView DEF CInv
    <3>. QED BY <3>1, <3>2 DEF Threads
  <2>. QED BY <1>2, <1>3, <1>5, <2>1
<1>. QED BY <1>1, <1>2, <1>4, <1>5

(* A step that changes no component of TxStore's state is a stutter of it. *)
LEMMA StoreStutters ==
    ASSUME com' = com, Txs' = Txs, Regions' = Regions, Gots' = Gots
    PROVE  UNCHANGED Store!vars
BY DEF Store!vars, Txs, Regions, Gots

(* The transactions of everyone stand still if LMDB's do.                  *)
LEMMA TxsStand ==
    ASSUME UNCHANGED <<work, write_lock>> PROVE Txs' = Txs
BY DEF Txs

(* A thread that moves without entering or leaving a region.               *)
LEMMA RegionsStand ==
    ASSUME CInv, NEW t \in Threads, Step(t),
           t \in Readers => (pc'[t] = "idle" <=> pc[t] = "idle")
    PROVE  Regions' = Regions
<1>1. \A u \in ReadLocked : pc'[u] = "idle" <=> pc[u] = "idle"
  BY OthersStand, DbAssumption DEF CInv, Threads
<1>. QED BY <1>1 DEF Regions

(* TxStore's got is the one here when all readers hold m_read_lock.        *)
LEMMA GotsAreGot ==
    ASSUME Readers \subseteq ReadLocked, IInv, IInv' PROVE Gots = got /\ Gots' = got'
BY DEF Gots, IInv, TypeOK, Threads

(* The first n contents of a stack of them.                                *)
LEMMA Prefix ==
    ASSUME NEW s \in Seq(Content), NEW n \in Nat, n <= Len(s)
    PROVE  /\ SubSeq(s, 1, n) \in Seq(Content) /\ Len(SubSeq(s, 1, n)) = n
           /\ \A i \in 1 .. n : SubSeq(s, 1, n)[i] = s[i]
<1>1. 1 \in Int /\ n \in Int /\ \A i \in 1 .. n : s[i] \in Content
  OBVIOUS
<1>2. SubSeq(s, 1, n) \in Seq(Content)
  BY <1>1, SubSeqProperties, Zenon
<1>3. /\ Len(SubSeq(s, 1, n)) = IF 1 <= n THEN n - 1 + 1 ELSE 0
      /\ \A i \in 1 .. n - 1 + 1 : SubSeq(s, 1, n)[i] = s[1 + i - 1]
  BY <1>1, SubSeqProperties
<1>4. Len(SubSeq(s, 1, n)) = n
  BY <1>3
<1>5. ASSUME NEW i \in 1 .. n PROVE SubSeq(s, 1, n)[i] = s[i]
  <2>1. i \in 1 .. n - 1 + 1 /\ 1 + i - 1 = i
    OBVIOUS
  <2>. QED BY <1>3, <2>1
<1>. QED BY <1>2, <1>4, <1>5

(* Two contents taken off, at once or one by one.                          *)
LEMMA PopPop ==
    ASSUME NEW s \in Seq(Content), Len(s) > 1
    PROVE  Pop(Pop(s)) = SubSeq(s, 1, Len(s) - 2)
<1> DEFINE n == Len(s) - 1
           m == Len(s) - 2
           p == SubSeq(s, 1, n)
<1>1. n \in Nat /\ m \in Nat /\ m = n - 1 /\ n <= Len(s) /\ m <= Len(s) /\ m <= n
  OBVIOUS
<1> HIDE DEF n, m
<1>2. p \in Seq(Content) /\ Len(p) = n /\ \A i \in 1 .. n : p[i] = s[i]
  BY <1>1, Prefix
<1> HIDE DEF p
<1>3. /\ SubSeq(p, 1, m) \in Seq(Content) /\ Len(SubSeq(p, 1, m)) = m
      /\ \A i \in 1 .. m : SubSeq(p, 1, m)[i] = p[i]
  BY <1>1, <1>2, Prefix
<1>4. /\ SubSeq(s, 1, m) \in Seq(Content) /\ Len(SubSeq(s, 1, m)) = m
      /\ \A i \in 1 .. m : SubSeq(s, 1, m)[i] = s[i]
  BY <1>1, Prefix
<1>5. \A i \in 1 .. m : SubSeq(p, 1, m)[i] = SubSeq(s, 1, m)[i]
  <2>1. \A i \in 1 .. m : i \in 1 .. n
    BY <1>1
  <2>. QED BY <1>2, <1>3, <1>4, <2>1
<1>6. SubSeq(p, 1, m) = SubSeq(s, 1, m)
  BY <1>3, <1>4, <1>5, SeqEqual, Zenon
<1>7. Pop(s) = p /\ Pop(p) = SubSeq(p, 1, m)
  BY <1>1, <1>2 DEF Pop, p, n
<1>. QED BY <1>6, <1>7 DEF m

(* m_backend->begin_transaction is the begin of TxStore.                   *)
LEMMA StoreBegin ==
    ASSUME Readers \subseteq ReadLocked, CInv, IInv', NEW t \in Writers, Step(t), BackendBegin(t)
    PROVE  Store!Begin(t)
<1>1. t \in Threads /\ write_lock \in {NoThread, t} /\ t # NoThread
  BY DbAssumption DEF BackendBegin, Threads
<1>2. Regions' = Regions /\ Gots' = Gots /\ com' = com
  BY <1>1, RegionsStand, GotsAreGot, DbAssumption DEF CInv, BackendBegin
<1>3. \A u \in Threads \ {t} : Txs[u] = <<>> /\ Txs'[u] = <<>>
  BY <1>1, DbAssumption DEF Txs, BackendBegin, Threads
<1>4. Txs[t] = work
  BY <1>1 DEF Txs, CInv, IInv, LockInv
<1>5. Txs'[t] = Append(work, View(t))
  BY <1>1 DEF Txs, BackendBegin
<1>6. Txs' = [Txs EXCEPT ![t] = Append(Txs[t], Store!View(t))]
  <2>1. Store!View(t) = View(t)
    BY <1>1, StoreView
  <2>. QED BY <1>1, <1>3, <1>4, <1>5, <2>1 DEF Txs
<1>. QED BY <1>2, <1>3, <1>6 DEF Store!Begin, Txs, Regions, Gots

(* The database part of set and erase is the write of TxStore.             *)
LEMMA StoreWrite ==
    ASSUME Readers \subseteq ReadLocked, CInv, IInv', NEW t \in Writers, Step(t), Put(t) \/ Erase(t)
    PROVE  Store!Write(t)
<1>1. PICK k \in Keys, v \in Values \cup {NoValue} : Update(k, v)
  BY DEF Put, Erase
<1>2. t \in Threads /\ pc[t] = "tx" /\ write_lock' = write_lock /\ com' = com /\ got' = got
  BY DEF Put, Erase, Threads
<1>3. write_lock = t /\ work # <<>>
  BY <1>2, WriterHasWork DEF CInv, Inside
<1>4. Regions' = Regions /\ Gots' = Gots
  BY <1>2, RegionsStand, GotsAreGot, DbAssumption DEF CInv
<1>5. Txs[t] = work /\ Txs'[t] = work' /\ \A u \in Threads \ {t} : Txs'[u] = Txs[u]
  BY <1>2, <1>3 DEF Txs
<1>6. Txs' = [Txs EXCEPT ![t] = work']
  BY <1>5 DEF Txs
<1>7. work' = [work EXCEPT ![Len(work)][k] = v]
  BY <1>1 DEF Update
<1>8. Txs' = [Txs EXCEPT ![t][Len(Txs[t])][k] = v]
  BY <1>5, <1>6, <1>7
<1>. QED BY <1>2, <1>3, <1>4, <1>5, <1>8 DEF Store!Write, Txs, Regions, Gots

(* m_backend->commit_transaction and abort_transaction are those of TxStore.*)
LEMMA StoreEnd ==
    ASSUME Readers \subseteq ReadLocked, CInv, IInv', NEW t \in Writers, Step(t), BackendEnd(t)
    PROVE  Store!Commit(t) \/ Store!Abort(t)
<1>1. t \in Threads /\ t # NoThread /\ outcome[t] \in {"commit", "abort"}
  BY DbAssumption DEF Threads, CInv, IInv, TypeOK
<1>2. Regions = {} /\ Regions' = {}
  <2>1. Regions = {}
    BY NoReaderInside, DbAssumption DEF Regions
  <2>2. Regions' = Regions
    BY <1>1, RegionsStand, DbAssumption
  <2>. QED BY <2>1, <2>2
<1>3. Gots' = [Gots EXCEPT ![t] = NoRead]
  BY GotsAreGot DEF CInv, BackendEnd
<1>4. /\ write_lock = t /\ Len(work) \in Nat \ {0} /\ work \in Seq(Content) /\ work # <<>>
      /\ outcome[t] = "abort" => Len(work) = 1
  BY <1>1, BackendEndWork, StoreView DEF CInv
<1>5. Txs[t] = work /\ \A u \in Threads \ {t} : Txs[u] = <<>> /\ Txs'[u] = <<>>
  BY <1>1, <1>4, DbAssumption DEF Txs, BackendEnd, Threads
<1>6. Store!View(t) = Top(work)
  BY <1>1, <1>4, StoreView DEF View
<1>7. ASSUME Len(work) = 1 PROVE Txs' = [Txs EXCEPT ![t] = <<>>]
  <2>1. write_lock' = NoThread
    BY <1>7 DEF BackendEnd
  <2>2. Txs'[t] = <<>>
    BY <1>1, <2>1 DEF Txs
  <2>. QED BY <1>1, <1>5, <2>2 DEF Txs
<1>8. CASE Len(work) = 1 /\ outcome[t] = "commit"
  <2>1. com' = Top(work)
    BY <1>8 DEF BackendEnd
  <2>2. /\ Txs[t] # <<>> /\ Regions = {} /\ Len(Txs[t]) = 1
        /\ com' = Store!View(t) /\ Txs' = [Txs EXCEPT ![t] = <<>>]
        /\ Gots' = [Gots EXCEPT ![t] = NoRead] /\ Regions' = Regions
    BY <1>2, <1>3, <1>4, <1>5, <1>6, <1>7, <1>8, <2>1
  <2>3. Store!Commit(t)
    BY <2>2 DEF Store!Commit, Txs, Regions, Gots, Store!NoRead, NoRead
  <2>. QED BY <2>3
<1>9. CASE Len(work) # 1
  <2>1. outcome[t] = "commit" /\ Len(work) > 1
    BY <1>1, <1>4, <1>9
  <2>2. work' = Append(Pop(Pop(work)), Top(work)) /\ com' = com /\ write_lock' = t
    BY <1>9, <2>1 DEF BackendEnd
  <2>3. work' = Append(SubSeq(work, 1, Len(work) - 2), Top(work))
    BY <1>4, <2>1, <2>2, PopPop
  <2>4. Txs'[t] = work'
    BY <1>1, <2>2 DEF Txs
  <2>5. Txs' = [Txs EXCEPT ![t] = Append(SubSeq(Txs[t], 1, Len(Txs[t]) - 2), Store!View(t))]
    BY <1>1, <1>5, <1>6, <2>3, <2>4 DEF Txs
  <2>6. /\ Txs[t] # <<>> /\ Regions = {} /\ Len(Txs[t]) # 1 /\ com' = com
        /\ Gots' = [Gots EXCEPT ![t] = NoRead] /\ Regions' = Regions
    BY <1>2, <1>3, <1>4, <1>5, <1>9, <2>2
  <2>7. Store!Commit(t)
    BY <2>5, <2>6 DEF Store!Commit, Txs, Regions, Gots, Store!NoRead, NoRead
  <2>. QED BY <2>7
<1>10. CASE Len(work) = 1 /\ outcome[t] = "abort"
  <2>1. com' = com
    BY <1>10 DEF BackendEnd
  <2>2. SubSeq(work, 1, Len(work) - 1) = <<>>
    BY <1>10, SubSeqEmpty
  <2>3. Txs' = [Txs EXCEPT ![t] = SubSeq(Txs[t], 1, Len(Txs[t]) - 1)]
    BY <1>5, <1>7, <1>10, <2>2
  <2>4. Txs[t] # <<>> /\ Gots' = [Gots EXCEPT ![t] = NoRead] /\ Regions' = Regions
    BY <1>2, <1>3, <1>4, <1>5
  <2>5. Store!Abort(t)
    BY <2>1, <2>3, <2>4 DEF Store!Abort, Txs, Regions, Gots, Store!NoRead, NoRead
  <2>. QED BY <2>5
<1>. QED BY <1>1, <1>8, <1>9, <1>10

(* Entering and leaving m_rwlock are those of TxStore.                     *)
LEMMA StoreRegion ==
    ASSUME Readers \subseteq ReadLocked, CInv, IInv', NEW t \in Threads, Step(t),
           EnterRegion(t) \/ LeaveRegion(t)
    PROVE  Store!Enter(t) \/ Store!Exit(t)
<1>1. com' = com /\ Txs' = Txs
  BY TxsStand DEF EnterRegion, LeaveRegion
<1>2. t \in ReadLocked
  BY DEF EnterRegion, LeaveRegion, CInv, IInv, WriterInv, Threads
<1>3. \A u \in ReadLocked : u # t => pc'[u] = pc[u]
  BY OthersStand, DbAssumption DEF CInv, Threads
<1>4. CASE EnterRegion(t)
  <2>1. pc[t] = "idle" /\ pc'[t] = "region"
    BY <1>4 DEF EnterRegion, Goto, CInv, IInv, TypeOK
  <2>2. t \notin Regions /\ Regions' = Regions \cup {t}
    BY <1>2, <1>3, <2>1 DEF Regions
  <2>3. Gots' = Gots
    BY <1>4, GotsAreGot DEF CInv, EnterRegion
  <2>4. Store!Enter(t)
    BY <1>1, <2>2, <2>3 DEF Store!Enter, Txs, Regions, Gots
  <2>. QED BY <2>4
<1>5. CASE LeaveRegion(t)
  <2>1. pc[t] = "region" /\ pc'[t] = "idle"
    BY <1>5 DEF LeaveRegion, Goto, CInv, IInv, TypeOK
  <2>2. t \in Regions /\ Regions' = Regions \ {t}
    BY <1>2, <1>3, <2>1 DEF Regions
  <2>3. Gots' = [Gots EXCEPT ![t] = NoRead]
    BY <1>5, GotsAreGot DEF CInv, LeaveRegion
  <2>4. Store!Exit(t)
    BY <1>1, <2>2, <2>3 DEF Store!Exit, Txs, Regions, Gots, Store!NoRead, NoRead
  <2>. QED BY <2>4
<1>. QED BY <1>4, <1>5

(* A get that returns what its thread sees is a get of TxStore.            *)
LEMMA StoreGet ==
    ASSUME Readers \subseteq ReadLocked, CInv, IInv', NEW t \in Threads, Step(t),
           pc[t] \in {"region", "tx", "missed", "fetched"}, UNCHANGED dbVars,
           NEW k \in Keys, Returns(t, k, View(t)[k])
    PROVE  Store!Get(t)
<1>1. com' = com /\ Txs' = Txs
  BY TxsStand DEF dbVars
<1>2. pc'[t] # "idle" /\ pc[t] # "idle"
  BY DEF Returns, Goto, Home, CInv, IInv, TypeOK
<1>3. Regions' = Regions
  BY <1>2, RegionsStand
<1>4. t \in Regions \/ Txs[t] # <<>>
  <2>1. CASE t \in Writers
    <3>1. pc[t] \in Inside \ {"finished"}
      BY <2>1 DEF Inside, CInv, IInv, WriterInv
    <3>. QED BY <2>1, <3>1, WriterHasWork DEF CInv, Txs
  <2>2. CASE t \in Readers
    BY <1>2, <2>2 DEF Regions
  <2>. QED BY <2>1, <2>2 DEF Threads
<1>5. Gots' = [Gots EXCEPT ![t] = [key |-> k, value |-> Store!View(t)[k]]]
  BY GotsAreGot, StoreView DEF CInv, Returns
<1>. QED BY <1>1, <1>3, <1>4, <1>5 DEF Store!Get, Txs, Regions, Gots

(* A hit in the cache returns what the thread would read.                  *)
LEMMA HitIsView ==
    ASSUME CInv, NEW t \in Threads, pc[t] \in {"region", "tx"}, isolated_access(t),
           NEW k \in Keys, cache[k] # NoValue
    PROVE  cache[k] = View(t)[k]
<1>1. CASE t \in Writers
  <2>1. pc[t] = "tx"
    BY <1>1 DEF CInv, IInv, WriterInv
  <2>2. isolated = t /\ Truth = View(t)
    BY <1>1, <2>1, WriterHasWork, TruthIsWriters DEF CInv, Inside
  <2>. QED BY <2>1, <2>2, CoherentAt
<1>2. CASE t \in Readers
  <2>1. isolated = NoThread
    BY <1>2, DbAssumption DEF isolated_access, CInv, IInv, LockInv, Threads
  <2>2. Truth = View(t)
    BY <1>2, <2>1, TruthIsCommitted, ReaderView DEF CInv
  <2>3. isolated \notin Writers
    BY <2>1, DbAssumption DEF Threads
  <2>. QED BY <2>2, <2>3, CoherentAt
<1>. QED BY <1>1, <1>2 DEF Threads

(* Every step is a step of TxStore or changes nothing of its state.        *)
LEMMA StoreStep ==
    ASSUME Readers \subseteq ReadLocked, CInv, IInv', NEW t \in Threads, Step(t)
    PROVE  Store!Next \/ UNCHANGED Store!vars
<1> USE DEF dbVars, lockVars, cacheVars, callVars
<1>1. ASSUME UNCHANGED <<com, work, write_lock, got>>,
             t \in Readers => (pc'[t] = "idle" <=> pc[t] = "idle")
      PROVE  UNCHANGED Store!vars
  BY <1>1, TxsStand, RegionsStand, GotsAreGot, StoreStutters DEF CInv
<1>2. CASE Transaction(t)
  <2>1. t \in Writers
    BY <1>2 DEF Transaction
  <2>2. CASE BeginTransaction(t) \/ EndTransaction(t) \/ ReadersGone(t) \/ SwitchIsolationOff(t)
               \/ UnlockRw(t)
    BY <1>1, <2>1, <2>2, DbAssumption
       DEF BeginTransaction, EndTransaction, ReadersGone, SwitchIsolationOff, UnlockRw
  <2>. QED BY <1>2, <2>1, <2>2, StoreBegin, StoreWrite, StoreEnd DEF Transaction, Ending, Store!Next
<1>3. CASE GetFromDb(t)
  <2>1. arg[t] \in Keys /\ pc[t] = "missed"
    BY <1>3 DEF GetFromDb, CInv, IInv, ArgInv
  <2>2. CASE Returns(t, arg[t], View(t)[arg[t]])
    <3>1. Store!Get(t)
      BY <1>3, <2>1, <2>2, StoreGet DEF GetFromDb
    <3>. QED BY <3>1 DEF Store!Next
  <2>3. CASE Goto(t, "fetched") /\ UNCHANGED <<arg, got>>
    <3>1. pc'[t] = "fetched"
      BY <2>3 DEF Goto, CInv, IInv, TypeOK
    <3>. QED BY <1>1, <1>3, <2>1, <2>3, <3>1 DEF GetFromDb
  <2>. QED BY <1>3, <2>2, <2>3 DEF GetFromDb
<1>4. CASE FillCache(t)
  <2>1. arg[t] \in Keys /\ pc[t] = "fetched" /\ val[t] = View(t)[arg[t]]
    BY <1>4 DEF FillCache, CInv, IInv, ArgInv, CarryInv
  <2>2. Returns(t, arg[t], View(t)[arg[t]]) /\ UNCHANGED dbVars
    BY <1>4, <2>1 DEF FillCache
  <2>3. Store!Get(t)
    BY <2>1, <2>2, StoreGet
  <2>. QED BY <2>3 DEF Store!Next
<1>5. CASE GetFromCache(t)
  <2>1. UNCHANGED dbVars /\ pc[t] \in {"region", "tx"}
    BY <1>5 DEF GetFromCache
  <2>2. PICK k \in Keys :
          \/ isolated_access(t) /\ cache[k] # NoValue /\ Returns(t, k, cache[k])
          \/ Goto(t, "missed") /\ UNCHANGED <<val, got>>
    BY <1>5 DEF GetFromCache
  <2>3. CASE isolated_access(t) /\ cache[k] # NoValue /\ Returns(t, k, cache[k])
    <3>1. Returns(t, k, View(t)[k])
      BY <2>1, <2>3, HitIsView
    <3>2. Store!Get(t)
      BY <2>1, <3>1, StoreGet
    <3>. QED BY <3>2 DEF Store!Next
  <2>4. CASE Goto(t, "missed") /\ UNCHANGED <<val, got>>
    <3>1. pc'[t] = "missed"
      BY <2>4 DEF Goto, CInv, IInv, TypeOK
    <3>. QED BY <1>1, <2>1, <2>4, <3>1
  <2>. QED BY <2>2, <2>3, <2>4
<1>6. CASE PutInCache(t) \/ EraseFromCache(t)
  <2>1. t \notin Readers
    BY <1>6 DEF PutInCache, EraseFromCache, CInv, IInv, ReaderInv
  <2>. QED BY <1>1, <1>6, <2>1 DEF PutInCache, EraseFromCache
<1>7. CASE CallSize(t) \/ ClearCache(t)
  BY <1>1, <1>7 DEF CallSize, ClearCache
<1>8. CASE EnterRegion(t) \/ LeaveRegion(t)
  BY <1>8, StoreRegion DEF Store!Next
<1>. QED BY <1>2, <1>3, <1>4, <1>5, <1>6, <1>7, <1>8 DEF Step, Call

(* The empty container is the empty store.                                 *)
LEMMA StoreInitially == Init => Store!Init
<1> SUFFICES ASSUME Init PROVE Store!Init
  OBVIOUS
<1>1. com = [k \in Keys |-> NoValue] /\ Regions = {}
  BY DbAssumption DEF Init, Empty, Regions, Threads
<1>2. Txs = [t \in Threads |-> <<>>]
  BY DEF Init, Txs
<1>3. Gots = [t \in Threads |-> NoRead]
  BY DEF Init, Gots
<1>. QED BY <1>1, <1>2, <1>3 DEF Store!Init, Txs, Regions, Gots, Store!NoRead, NoRead

(* Refinement: with every reader under m_read_lock, the caches, locks and  *)
(* isolation flag of the accessors implement the plain transactional       *)
(* store, for any number of threads, keys and values and any nesting.      *)
THEOREM CacheImplementsStore ==
    ASSUME Readers \subseteq ReadLocked PROVE Spec => ImplementsStore
<1>1. CInv /\ CInv' /\ [Next]_vars => [Store!Next]_(Store!vars)
  <2> SUFFICES ASSUME CInv, CInv', [Next]_vars PROVE Store!Next \/ UNCHANGED Store!vars
    OBVIOUS
  <2>1. CASE UNCHANGED vars
    <3>1. com' = com /\ Txs' = Txs /\ Regions' = Regions /\ Gots' = Gots
      BY <2>1 DEF vars, dbVars, lockVars, cacheVars, callVars, Txs, Regions, Gots
    <3>. QED BY <3>1, StoreStutters
  <2>2. CASE Next
    <3>1. PICK t \in Threads : Step(t)
      BY <2>2 DEF Next, Step
    <3>. QED BY <3>1, StoreStep DEF CInv
  <2>. QED BY <2>1, <2>2
<1>. QED BY <1>1, StoreInitially, CacheInvariance, PTL DEF Spec, ImplementsStore, Store!Spec
=============================================================================
