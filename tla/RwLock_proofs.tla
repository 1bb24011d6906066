--------------------------- MODULE RwLock_proofs ---------------------------
(***************************************************************************)
(* Proofs about RwLock for any set of threads and any nesting.             *)
(***************************************************************************)
EXTENDS RwLock, FiniteSetTheorems, SequenceTheorems, TLAPS

(* How many exclusive regions a stack of regions holds.                    *)
NumX(h) == Cardinality({i \in 1 .. Len(h) : h[i] = "X"})

(* The program points between exclusive_lock.lock() and the return from    *)
(* lock(), or the release inside lock_shared().                            *)
InsideExclusive == {"locking", "waiting", "woken", "entering"}

(* How many times a thread has locked exclusive_lock and not released it,  *)
(* which it never does when it was refused.                                *)
Kept(t)  == NumX(held[t]) + refused[t]
Taken(t) == IF pc[t] \in InsideExclusive THEN Kept(t) + 1 ELSE Kept(t)

(* per_thread_data counts the regions of its thread, and the call in which *)
(* it is waiting; the outermost region of a writer is an exclusive one.    *)
ThreadInv(t) ==
    /\ pc[t] \in {"waiting", "woken"} => recursion_count[t] = Len(held[t]) + 1
    /\ pc[t] \notin {"waiting", "woken"} => recursion_count[t] = Len(held[t])
    /\ is_writer[t] => recursion_count[t] # 0 /\ (held[t] # <<>> => held[t][1] = "X")
    /\ ~is_writer[t] => \A i \in 1 .. Len(held[t]) : held[t][i] = "S"
    /\ pc[t] \in {"waiting", "woken"} => is_writer[t]
    /\ pc[t] \in {"lock_shared", "entering"} => held[t] = <<>>

(* exclusive_lock is owned by the one thread that has taken it, as often   *)
(* as depth says.                                                          *)
OwnerInv ==
    /\ exclusive_lock = NoThread => depth = 0
    /\ exclusive_lock # NoThread => depth = Taken(exclusive_lock) /\ depth > 0
    /\ \A t \in Threads : Taken(t) # 0 => exclusive_lock = t

(* A thread is inside an exclusive region only when no reader is inside.   *)
NoReadersInside == \A t \in Threads : Owns(t, "X") => readers_count = 0

IInv ==
    /\ TypeOK
    /\ \A t \in Threads : ThreadInv(t)
    /\ OwnerInv
    /\ ReadersCounted
    /\ NoReadersInside

-----------------------------------------------------------------------------
(* Lemmas on stacks of regions *)

(* A stack holds a natural number of exclusive regions, none when empty,   *)
(* and none exactly when no entry is "X".                                  *)
LEMMA NumXType ==
    ASSUME NEW h \in Seq({"S", "X"})
    PROVE  /\ NumX(h) \in Nat
           /\ (NumX(h) = 0) <=> (\A i \in 1 .. Len(h) : h[i] # "X")
<1> DEFINE D == {i \in 1 .. Len(h) : h[i] = "X"}
<1>1. IsFiniteSet(1 .. Len(h))
  BY FS_Interval
<1>2. IsFiniteSet(D)
  BY <1>1, FS_Subset
<1>3. Cardinality(D) \in Nat
  BY <1>2, FS_CardinalityType
<1>4. Cardinality(D) = 0 <=> D = {}
  BY <1>2, FS_EmptySet
<1> QED
  BY <1>3, <1>4 DEF NumX

(* Entering a region adds one exclusive region if its mode is "X".         *)
LEMMA NumXAppend ==
    ASSUME NEW h \in Seq({"S", "X"}), NEW m \in {"S", "X"}
    PROVE  NumX(Append(h, m)) = NumX(h) + (IF m = "X" THEN 1 ELSE 0)
<1> DEFINE D == {i \in 1 .. Len(h) : h[i] = "X"}
           g == Append(h, m)
           E == {i \in 1 .. Len(g) : g[i] = "X"}
<1>1. IsFiniteSet(D)
  BY FS_Interval, FS_Subset
<1>2. Len(g) = Len(h) + 1 /\ Len(h) \in Nat /\ g[Len(h) + 1] = m
  OBVIOUS
<1>3. \A i \in 1 .. Len(h) : g[i] = h[i]
  OBVIOUS
<1>4. CASE m = "X"
  <2>1. E = D \cup {Len(h) + 1}
    BY <1>2, <1>3, <1>4
  <2>2. Len(h) + 1 \notin D
    BY <1>2
  <2>3. Cardinality(E) = Cardinality(D) + 1
    BY <1>1, <2>1, <2>2, FS_AddElement
  <2> QED
    BY <2>3, <1>4 DEF NumX
<1>5. CASE m = "S"
  <2>1. E = D
    BY <1>2, <1>3, <1>5
  <2>2. Cardinality(D) \in Nat
    BY <1>1, FS_CardinalityType
  <2>3. Cardinality(E) = Cardinality(D)
    BY <2>1
  <2> HIDE DEF D, E
  <2>4. Cardinality(E) = Cardinality(D) + 0
    BY <2>2, <2>3
  <2> QED
    BY <2>4, <1>5 DEF NumX, D, E
<1> QED
  BY <1>4, <1>5

(* A non-empty sequence without its last element.                          *)
LEMMA FrontProperties ==
    ASSUME NEW T, NEW h \in Seq(T), h # <<>>
    PROVE  /\ SubSeq(h, 1, Len(h) - 1) \in Seq(T)
           /\ Len(SubSeq(h, 1, Len(h) - 1)) = Len(h) - 1
           /\ \A i \in 1 .. Len(h) - 1 : SubSeq(h, 1, Len(h) - 1)[i] = h[i]
<1> DEFINE n == Len(h) - 1
<1>1. 1 \in Int /\ n \in Nat /\ n \in Int
  OBVIOUS
<1>2. \A i \in 1 .. n : h[i] \in T
  OBVIOUS
<1>3. \A i \in 1 .. n : SubSeq(h, 1, n)[i] = h[i]
  OBVIOUS
<1> HIDE DEF n
<1>4. SubSeq(h, 1, n) \in Seq(T)
  BY <1>1, <1>2, SubSeqProperties, Zenon
<1>5. Len(SubSeq(h, 1, n)) = n
  <2>1. Len(SubSeq(h, 1, n)) = IF 1 <= n THEN n - 1 + 1 ELSE 0
    BY <1>1, <1>2, SubSeqProperties
  <2> QED
    BY <1>1, <2>1
<1> QED
  BY <1>3, <1>4, <1>5 DEF n

(* Leaving the innermost region removes one if its mode was "X".           *)
LEMMA NumXFront ==
    ASSUME NEW h \in Seq({"S", "X"}), h # <<>>
    PROVE  /\ SubSeq(h, 1, Len(h) - 1) \in Seq({"S", "X"})
           /\ Len(SubSeq(h, 1, Len(h) - 1)) = Len(h) - 1
           /\ \A i \in 1 .. Len(h) - 1 : SubSeq(h, 1, Len(h) - 1)[i] = h[i]
           /\ NumX(SubSeq(h, 1, Len(h) - 1)) = NumX(h) - (IF h[Len(h)] = "X" THEN 1 ELSE 0)
<1> DEFINE D == {i \in 1 .. Len(h) : h[i] = "X"}
           g == SubSeq(h, 1, Len(h) - 1)
           E == {i \in 1 .. Len(g) : g[i] = "X"}
<1>1. IsFiniteSet(D)
  BY FS_Interval, FS_Subset
<1>2. Len(h) \in Nat \ {0}
  OBVIOUS
<1>3. g \in Seq({"S", "X"}) /\ Len(g) = Len(h) - 1 /\ \A i \in 1 .. Len(h) - 1 : g[i] = h[i]
  BY <1>2, FrontProperties
<1>4. E = D \ {Len(h)}
  <2> HIDE DEF g
  <2> QED
    BY <1>2, <1>3
<1>5. Cardinality(D) \in Nat
  BY <1>1, FS_CardinalityType
<1>6. Cardinality(E) = Cardinality(D) - (IF h[Len(h)] = "X" THEN 1 ELSE 0)
  <2>1. CASE h[Len(h)] = "X"
    <3>1. Len(h) \in D
      BY <1>2, <2>1
    <3> HIDE DEF D, E
    <3>2. Cardinality(D \ {Len(h)}) = Cardinality(D) - 1
      BY <1>1, <3>1, FS_RemoveElement
    <3> QED
      BY <3>2, <2>1, <1>4
  <2>2. CASE h[Len(h)] # "X"
    <3>1. E = D
      BY <1>4, <2>2
    <3> HIDE DEF D, E
    <3> QED
      BY <3>1, <2>2, <1>5
  <2> QED
    BY <2>1, <2>2
<1> QED
  BY <1>3, <1>6 DEF NumX

-----------------------------------------------------------------------------
(* Lemmas on the counters *)

(* The number of times a thread has taken exclusive_lock is a natural.     *)
LEMMA TakenType ==
    ASSUME TypeOK, NEW t \in Threads
    PROVE  Taken(t) \in Nat /\ NumX(held[t]) \in Nat /\ refused[t] \in Nat
BY NumXType DEF TypeOK, Taken, Kept

(* OwnerInv survives a step in which nobody takes or drops exclusive_lock. *)
LEMMA OwnerSame ==
    ASSUME TypeOK, OwnerInv, UNCHANGED <<exclusive_lock, depth>>,
           \A u \in Threads : Taken(u)' = Taken(u)
    PROVE  OwnerInv'
BY DEF OwnerInv, TypeOK

(* OwnerInv survives exclusive_lock.lock().                                *)
LEMMA OwnerTake ==
    ASSUME TypeOK, OwnerInv, NEW t \in Threads, TakeExclusive(t),
           Taken(t)' = Taken(t) + 1,
           \A u \in Threads \ {t} : Taken(u)' = Taken(u)
    PROVE  OwnerInv'
<1>1. \A u \in Threads : Taken(u) \in Nat
  BY TakenType
<1>2. exclusive_lock' = t /\ t # NoThread /\ depth' = depth + 1
  BY RwThreadsAssumption DEF TakeExclusive
<1>3. depth = Taken(t)
  BY <1>1, RwThreadsAssumption DEF OwnerInv, TakeExclusive
<1>4. \A u \in Threads \ {t} : Taken(u) = 0
  BY <1>1, RwThreadsAssumption DEF OwnerInv, TakeExclusive
<1>5. depth' = Taken(t)' /\ depth' > 0
  BY <1>1, <1>2, <1>3
<1>6. \A u \in Threads : Taken(u)' # 0 => exclusive_lock' = u
  BY <1>2, <1>4
<1> QED
  BY <1>2, <1>5, <1>6 DEF OwnerInv

(* OwnerInv survives exclusive_lock.unlock().                              *)
LEMMA OwnerDrop ==
    ASSUME TypeOK, OwnerInv, NEW t \in Threads, DropExclusive,
           Taken(t) # 0, Taken(t)' = Taken(t) - 1,
           \A u \in Threads \ {t} : Taken(u)' = Taken(u)
    PROVE  OwnerInv' /\ exclusive_lock = t /\ depth \in Nat \ {0}
<1>1. \A u \in Threads : Taken(u) \in Nat
  BY TakenType
<1>2. exclusive_lock = t /\ t # NoThread /\ depth = Taken(t) /\ depth > 0
  BY RwThreadsAssumption DEF OwnerInv
<1>3. \A u \in Threads \ {t} : Taken(u)' = 0
  BY <1>1, <1>2 DEF OwnerInv
<1>4. depth' = depth - 1 /\ exclusive_lock' = IF depth = 1 THEN NoThread ELSE t
  BY <1>2 DEF DropExclusive
<1>5. CASE depth = 1
  BY <1>1, <1>2, <1>3, <1>4, <1>5 DEF OwnerInv
<1>6. CASE depth # 1
  BY <1>1, <1>2, <1>3, <1>4, <1>6 DEF OwnerInv
<1> QED
  BY <1>1, <1>2, <1>5, <1>6

(* The threads that entered as readers.                                    *)
InsideReaders == {u \in Threads : recursion_count[u] # 0 /\ ~is_writer[u]}

(* There are finitely many of them: Threads is finite.                     *)
LEMMA ReadersFinite == IsFiniteSet(InsideReaders) /\ Cardinality(InsideReaders) \in Nat
<1>1. InsideReaders \subseteq Threads
  BY DEF InsideReaders
<1>2. IsFiniteSet(InsideReaders)
  BY <1>1, RwThreadsAssumption, FS_Subset
<1> QED
  BY <1>2, FS_CardinalityType

(* A thread in a region is a reader, or its outermost region is exclusive. *)
LEMMA ReaderOrWriter ==
    ASSUME TypeOK, NEW t \in Threads, ThreadInv(t), held[t] # <<>>
    PROVE  t \in InsideReaders \/ Owns(t, "X")
<1>1. Len(held[t]) \in Nat \ {0}
  BY DEF TypeOK
<1>2. recursion_count[t] # 0
  BY <1>1 DEF ThreadInv
<1>3. CASE is_writer[t]
  BY <1>1, <1>3 DEF ThreadInv, Owns
<1>4. CASE ~is_writer[t]
  BY <1>2, <1>4 DEF InsideReaders
<1> QED
  BY <1>3, <1>4

(* A thread owns the exclusive mode iff its stack counts an "X".           *)
LEMMA OwnsIsTaken ==
    ASSUME TypeOK, NEW t \in Threads, Owns(t, "X")
    PROVE  NumX(held[t]) # 0 /\ Taken(t) # 0
<1>1. held[t] \in Seq({"S", "X"})
  BY DEF TypeOK
<1>2. NumX(held[t]) \in Nat /\ NumX(held[t]) # 0
  BY <1>1, NumXType DEF Owns
<1> QED
  BY <1>2, TakenType DEF Taken, Kept

(* Mutual exclusion follows from the inductive invariant.                  *)
LEMMA InvImpliesMutualExclusion == IInv => MutualExclusion
<1> SUFFICES ASSUME IInv, NEW t \in Threads, NEW u \in Threads, t # u, Owns(t, "X"),
                    held[u] # <<>>
             PROVE  FALSE
  BY DEF MutualExclusion
<1>1. exclusive_lock = t /\ readers_count = 0
  BY OwnsIsTaken DEF IInv, OwnerInv, NoReadersInside
<1>2. ~Owns(u, "X")
  BY <1>1, OwnsIsTaken DEF IInv, OwnerInv
<1>3. u \in InsideReaders
  BY <1>2, ReaderOrWriter DEF IInv
<1>4. Cardinality(InsideReaders) = 0
  BY <1>1 DEF IInv, ReadersCounted, InsideReaders
<1> QED
  BY <1>3, <1>4, ReadersFinite, FS_EmptySet

-----------------------------------------------------------------------------
(* The inductive invariant *)

(* It holds in the initial state.                                          *)
LEMMA InitInv == Init => IInv
<1> SUFFICES ASSUME Init PROVE IInv
  OBVIOUS
<1>1. TypeOK
  BY DEF Init, TypeOK, Points
<1>2. \A t \in Threads : ThreadInv(t)
  BY DEF Init, ThreadInv
<1>3. \A t \in Threads : held[t] = <<>> /\ pc[t] = "idle"
  BY DEF Init
<1>4. \A t \in Threads : Taken(t) = 0
  <2> TAKE t \in Threads
  <2>1. NumX(held[t]) = 0 /\ refused[t] = 0
    <3>1. held[t] \in Seq({"S", "X"}) /\ held[t] = <<>> /\ refused[t] = 0
      BY <1>1, <1>3 DEF Init, TypeOK
    <3>2. \A i \in 1 .. Len(held[t]) : held[t][i] # "X"
      BY <3>1
    <3> QED
      BY <3>1, <3>2, NumXType, Zenon
  <2> QED
    BY <1>3, <2>1 DEF Taken, Kept, InsideExclusive
<1>5. OwnerInv
  BY <1>4 DEF Init, OwnerInv
<1>6. ReadersCounted
  <2>1. {t \in Threads : recursion_count[t] # 0 /\ ~is_writer[t]} = {}
    BY DEF Init
  <2> QED
    BY <2>1, FS_EmptySet DEF Init, ReadersCounted
<1>7. NoReadersInside
  BY DEF Init, NoReadersInside
<1> QED
  BY <1>1, <1>2, <1>5, <1>6, <1>7 DEF IInv

(* A step that only moves threads between program points, none of them     *)
(* into or out of InsideExclusive, keeps it.                               *)
LEMMA MovePc ==
    ASSUME IInv, pc' \in [Threads -> Points],
           UNCHANGED <<exclusive_lock, depth, readers_count, recursion_count, is_writer, held,
                       refused>>,
           \A u \in Threads :
               /\ (pc'[u] \in InsideExclusive) <=> (pc[u] \in InsideExclusive)
               /\ (pc'[u] \in {"waiting", "woken"}) <=> (pc[u] \in {"waiting", "woken"})
               /\ pc'[u] \in {"lock_shared", "entering"} => held[u] = <<>>
    PROVE  IInv'
<1>1. TypeOK'
  BY DEF IInv, TypeOK
<1>2. \A u \in Threads : ThreadInv(u)'
  BY DEF IInv, ThreadInv
<1>3. OwnerInv'
  <2>1. \A u \in Threads : Taken(u)' = Taken(u)
    BY DEF Taken, Kept
  <2> QED
    BY <2>1, OwnerSame DEF IInv
<1>4. ReadersCounted'
  BY DEF IInv, ReadersCounted
<1>5. NoReadersInside'
  BY DEF IInv, NoReadersInside, Owns
<1> QED
  BY <1>1, <1>2, <1>3, <1>4, <1>5 DEF IInv

(* exclusive_lock.lock() inside lock() and lock_shared() keeps it.         *)
LEMMA TakeStep ==
    ASSUME IInv, NEW t \in Threads, LockExclusive(t) \/ SharedExclusive(t)
    PROVE  IInv'
<1>1. /\ TakeExclusive(t)
      /\ UNCHANGED <<readers_count, recursion_count, is_writer, held, refused>>
      /\ \/ pc[t] = "lock" /\ pc' = [pc EXCEPT ![t] = "locking"]
         \/ pc[t] = "lock_shared" /\ pc' = [pc EXCEPT ![t] = "entering"]
  BY DEF LockExclusive, SharedExclusive, Goto
<1>2. TypeOK
  BY DEF IInv
<1>3. TypeOK'
  <2>1. pc' \in [Threads -> Points]
    BY <1>1, <1>2 DEF TypeOK, Points
  <2>2. exclusive_lock' \in Threads \cup {NoThread} /\ depth' \in Nat
    BY <1>1, <1>2 DEF TypeOK, TakeExclusive
  <2> QED
    BY <1>1, <1>2, <2>1, <2>2 DEF TypeOK
<1>4. \A u \in Threads : ThreadInv(u)'
  BY <1>1, <1>2 DEF IInv, ThreadInv, TypeOK
<1>5. OwnerInv'
  <2>1. Taken(t)' = Taken(t) + 1
    BY <1>1, <1>2 DEF Taken, Kept, TypeOK, InsideExclusive
  <2>2. \A u \in Threads \ {t} : Taken(u)' = Taken(u)
    BY <1>1, <1>2 DEF Taken, Kept, TypeOK
  <2> QED
    BY <1>1, <1>2, <2>1, <2>2, OwnerTake DEF IInv
<1>6. ReadersCounted'
  BY <1>1 DEF IInv, ReadersCounted
<1>7. NoReadersInside'
  BY <1>1 DEF IInv, NoReadersInside, Owns
<1> QED
  BY <1>3, <1>4, <1>5, <1>6, <1>7 DEF IInv

(* lock() that finds no reader inside returns: the thread enters.          *)
LEMMA EnterExclusive ==
    ASSUME IInv, NEW t \in Threads, readers_count = 0,
           Enter(t, "X"), Goto(t, "idle"),
           UNCHANGED <<exclusive_lock, depth, readers_count, refused>>,
           \/ /\ pc[t] = "locking"
              /\ recursion_count[t] = 0 \/ is_writer[t]
              /\ is_writer' = [is_writer EXCEPT ![t] = TRUE]
              /\ recursion_count' = [recursion_count EXCEPT ![t] = @ + 1]
           \/ pc[t] = "woken" /\ UNCHANGED <<recursion_count, is_writer>>
    PROVE  IInv'
<1>1. TypeOK /\ held[t] \in Seq({"S", "X"}) /\ Len(held[t]) \in Nat
  BY DEF IInv, TypeOK
<1>2. /\ held' = [held EXCEPT ![t] = Append(held[t], "X")]
      /\ held'[t] = Append(held[t], "X")
      /\ \A u \in Threads \ {t} : held'[u] = held[u]
  BY <1>1 DEF Enter, TypeOK
<1>3. /\ pc' = [pc EXCEPT ![t] = "idle"]
      /\ pc'[t] = "idle"
      /\ \A u \in Threads \ {t} : pc'[u] = pc[u]
  BY <1>1 DEF Goto, TypeOK
<1>4. TypeOK'
  <2>1. Append(held[t], "X") \in Seq({"S", "X"})
    BY <1>1, AppendProperties
  <2>2. held' \in [Threads -> Seq({"S", "X"})]
    BY <1>1, <1>2, <2>1 DEF TypeOK
  <2>3. pc' \in [Threads -> Points]
    BY <1>1, <1>3 DEF TypeOK, Points
  <2>6. recursion_count[t] + 1 \in Nat
    BY <1>1 DEF TypeOK
  <2>4. recursion_count' \in [Threads -> Nat]
    BY <1>1, <2>6, Zenon DEF TypeOK
  <2>5. is_writer' \in [Threads -> BOOLEAN]
    BY <1>1, Zenon DEF TypeOK
  <2> QED
    BY <1>1, <2>2, <2>3, <2>4, <2>5 DEF TypeOK
<1>5. \A u \in Threads \ {t} : is_writer'[u] = is_writer[u] /\ recursion_count'[u] = recursion_count[u]
  BY <1>1 DEF TypeOK
<1>6. is_writer'[t] /\ recursion_count'[t] = Len(held[t]) + 1
  <2>1. ThreadInv(t)
    BY DEF IInv
  <2>2. CASE pc[t] = "locking"
    BY <1>1, <2>1, <2>2 DEF TypeOK, ThreadInv
  <2>3. CASE pc[t] = "woken"
    BY <1>1, <2>1, <2>3 DEF TypeOK, ThreadInv
  <2> QED
    BY <2>2, <2>3
<1>7. \A u \in Threads : ThreadInv(u)'
  <2>1. ThreadInv(t)'
    <3>1. held'[t] # <<>> /\ held'[t][1] = "X" /\ Len(held'[t]) = Len(held[t]) + 1
      <4>1. held[t] # <<>> => held[t][1] = "X"
        BY <1>1 DEF IInv, ThreadInv, TypeOK
      <4> QED
        BY <1>1, <1>2, <4>1
    <3> QED
      BY <1>1, <1>3, <1>6, <3>1 DEF ThreadInv
  <2>2. ASSUME NEW u \in Threads \ {t} PROVE ThreadInv(u)'
    BY <1>2, <1>3, <1>5 DEF IInv, ThreadInv
  <2> QED
    BY <2>1, <2>2
<1>8. OwnerInv'
  <2>1. NumX(held'[t]) = NumX(held[t]) + 1
    BY <1>1, <1>2, NumXAppend
  <2>2. Taken(t)' = Taken(t)
    BY <1>1, <1>3, <2>1, TakenType DEF Taken, Kept, InsideExclusive
  <2>3. \A u \in Threads \ {t} : Taken(u)' = Taken(u)
    BY <1>2, <1>3 DEF Taken, Kept
  <2> QED
    BY <1>1, <2>2, <2>3, OwnerSame DEF IInv
<1>9. ReadersCounted'
  <2>1. t \notin InsideReaders
    BY <1>1 DEF InsideReaders, IInv, ThreadInv
  <2>2. InsideReaders' = InsideReaders
    BY <1>5, <1>6, <2>1 DEF InsideReaders
  <2> QED
    BY <2>2 DEF IInv, ReadersCounted, InsideReaders
<1>10. NoReadersInside'
  BY DEF NoReadersInside
<1> QED
  BY <1>4, <1>7, <1>8, <1>9, <1>10 DEF IInv

(* lock() that finds readers inside waits in cv.wait.                      *)
LEMMA LockWaits ==
    ASSUME IInv, NEW t \in Threads, pc[t] = "locking",
           recursion_count[t] = 0 \/ is_writer[t],
           is_writer' = [is_writer EXCEPT ![t] = TRUE],
           recursion_count' = [recursion_count EXCEPT ![t] = @ + 1],
           Goto(t, "waiting"),
           UNCHANGED <<exclusive_lock, depth, readers_count, held, refused>>
    PROVE  IInv'
<1>1. TypeOK /\ held[t] \in Seq({"S", "X"}) /\ Len(held[t]) \in Nat
  BY DEF IInv, TypeOK
<1>2. /\ pc' = [pc EXCEPT ![t] = "waiting"]
      /\ pc'[t] = "waiting"
      /\ \A u \in Threads \ {t} : pc'[u] = pc[u]
  BY <1>1 DEF Goto, TypeOK
<1>3. /\ is_writer'[t] /\ recursion_count'[t] = Len(held[t]) + 1
      /\ \A u \in Threads \ {t} : is_writer'[u] = is_writer[u] /\ recursion_count'[u] = recursion_count[u]
  BY <1>1 DEF TypeOK, IInv, ThreadInv
<1>4. TypeOK'
  BY <1>1, <1>2 DEF TypeOK, Points
<1>5. \A u \in Threads : ThreadInv(u)'
  <2>1. ThreadInv(t)'
    <3>1. held[t] # <<>> => held[t][1] = "X"
      BY <1>1 DEF IInv, ThreadInv, TypeOK
    <3> QED
      BY <1>1, <1>2, <1>3, <3>1 DEF ThreadInv
  <2>2. ASSUME NEW u \in Threads \ {t} PROVE ThreadInv(u)'
    BY <1>2, <1>3 DEF IInv, ThreadInv
  <2> QED
    BY <2>1, <2>2
<1>6. OwnerInv'
  <2>1. \A u \in Threads : Taken(u)' = Taken(u)
    BY <1>2 DEF Taken, Kept, InsideExclusive
  <2> QED
    BY <1>1, <2>1, OwnerSame DEF IInv
<1>7. ReadersCounted'
  <2>1. t \notin InsideReaders
    BY <1>1 DEF InsideReaders, IInv, ThreadInv
  <2>2. InsideReaders' = InsideReaders
    BY <1>3, <2>1 DEF InsideReaders
  <2> QED
    BY <2>2 DEF IInv, ReadersCounted, InsideReaders
<1>8. NoReadersInside'
  BY DEF IInv, NoReadersInside, Owns
<1> QED
  BY <1>4, <1>5, <1>6, <1>7, <1>8 DEF IInv

(* unlock() leaves an exclusive region and gives one level of the lock up. *)
LEMMA UnlockStep ==
    ASSUME IInv, NEW t \in Threads, Unlock(t)
    PROVE  IInv'
<1> DEFINE rest == SubSeq(held[t], 1, Len(held[t]) - 1)
<1>1. TypeOK /\ held[t] \in Seq({"S", "X"}) /\ held[t] # <<>> /\ Len(held[t]) \in Nat \ {0}
  BY DEF IInv, TypeOK, Unlock
<1>2. /\ rest \in Seq({"S", "X"}) /\ Len(rest) = Len(held[t]) - 1
      /\ \A i \in 1 .. Len(held[t]) - 1 : rest[i] = held[t][i]
      /\ NumX(rest) = NumX(held[t]) - 1
  BY <1>1, NumXFront DEF Unlock, Innermost
<1>3. /\ held' = [held EXCEPT ![t] = rest]
      /\ held'[t] = rest
      /\ \A u \in Threads \ {t} : held'[u] = held[u]
  BY <1>1 DEF Unlock, Leave, TypeOK
<1> HIDE DEF rest
<1>4. pc[t] = "idle" /\ UNCHANGED <<pc, readers_count, refused>> /\ DropExclusive
  BY DEF Unlock
<1>5. recursion_count[t] = Len(held[t]) /\ is_writer[t]
  <2>1. recursion_count[t] = Len(held[t])
    BY <1>4 DEF IInv, ThreadInv
  <2>2. held[t][Len(held[t])] = "X"
    BY DEF Unlock, Innermost
  <2> QED
    BY <1>1, <2>1, <2>2 DEF IInv, ThreadInv
<1>6. /\ recursion_count'[t] = Len(held[t]) - 1
      /\ recursion_count' \in [Threads -> Nat]
      /\ \A u \in Threads \ {t} : is_writer'[u] = is_writer[u] /\ recursion_count'[u] = recursion_count[u]
  BY <1>1, <1>5 DEF Unlock, TypeOK
<1>13. /\ is_writer'[t] <=> (Len(held[t]) # 1)
       /\ is_writer' \in [Threads -> BOOLEAN]
  BY <1>1, <1>5, Zenon DEF Unlock, TypeOK
<1>7. /\ Taken(t) # 0 /\ Taken(t)' = Taken(t) - 1
      /\ \A u \in Threads \ {t} : Taken(u)' = Taken(u)
  <2>1. Taken(t) = NumX(held[t]) + refused[t] /\ Taken(t)' = NumX(rest) + refused[t]
    BY <1>3, <1>4 DEF Taken, Kept, InsideExclusive
  <2>2. Owns(t, "X")
    BY <1>1 DEF Owns, Unlock, Innermost
  <2>3. Taken(t) # 0
    BY <1>1, <2>2, OwnsIsTaken
  <2>4. ASSUME NEW u \in Threads \ {t} PROVE Taken(u)' = Taken(u)
    BY <1>3, <1>4 DEF Taken, Kept
  <2>5. NumX(held[t]) \in Nat /\ refused[t] \in Nat
    BY <1>1, TakenType
  <2>6. Taken(t)' = Taken(t) - 1
    BY <1>2, <2>1, <2>5
  <2> QED
    BY <2>3, <2>4, <2>6
<1>8. OwnerInv' /\ exclusive_lock = t /\ depth \in Nat \ {0}
  BY <1>1, <1>4, <1>7, OwnerDrop DEF IInv
<1>9. TypeOK'
  <2>1. held' \in [Threads -> Seq({"S", "X"})]
    BY <1>1, <1>2, <1>3 DEF TypeOK
  <2>2. depth' \in Nat /\ exclusive_lock' \in Threads \cup {NoThread}
    BY <1>4, <1>8 DEF DropExclusive
  <2> QED
    BY <1>1, <1>4, <1>6, <1>13, <2>1, <2>2 DEF TypeOK
<1>10. \A u \in Threads : ThreadInv(u)'
  <2>1. ThreadInv(t)'
    <3>1. held[t][1] = "X"
      BY <1>1, <1>5 DEF IInv, ThreadInv
    <3>2. Len(held[t]) # 1 => recursion_count'[t] # 0 /\ held'[t][1] = "X"
      <4> SUFFICES ASSUME Len(held[t]) # 1
                   PROVE  recursion_count'[t] # 0 /\ held'[t][1] = "X"
        OBVIOUS
      <4>1. 1 \in 1 .. Len(held[t]) - 1 /\ Len(held[t]) - 1 # 0
        <5>1. \A n \in Nat \ {0} : n # 1 => 1 \in 1 .. n - 1 /\ n - 1 # 0
          OBVIOUS
        <5> QED
          BY <1>1, <5>1, Zenon
      <4>2. rest[1] = "X"
        BY <1>2, <4>1, <3>1, Zenon
      <4> QED
        BY <1>3, <1>6, <4>1, <4>2
    <3>3. Len(held[t]) = 1 => Len(held'[t]) = 0
      BY <1>1, <1>2, <1>3
    <3>4. /\ is_writer'[t] => recursion_count'[t] # 0 /\ held'[t][1] = "X"
          /\ ~is_writer'[t] => Len(held'[t]) = 0
      BY <1>13, <3>2, <3>3, Zenon
    <3> QED
      BY <1>1, <1>2, <1>3, <1>4, <1>6, <3>4 DEF ThreadInv
  <2>2. ASSUME NEW u \in Threads \ {t} PROVE ThreadInv(u)'
    BY <1>3, <1>4, <1>6 DEF IInv, ThreadInv
  <2> QED
    BY <2>1, <2>2
<1>11. ReadersCounted'
  <2>1. t \notin InsideReaders
    BY <1>5 DEF InsideReaders
  <2>3. Len(held[t]) = 1 => recursion_count'[t] = 0
    BY <1>6
  <2>4. t \notin InsideReaders'
    BY <1>13, <2>3, Zenon DEF InsideReaders
  <2>2. InsideReaders' = InsideReaders
    BY <1>6, <2>1, <2>4 DEF InsideReaders
  <2> QED
    BY <1>4, <2>2 DEF IInv, ReadersCounted, InsideReaders
<1>12. NoReadersInside'
  <2>1. Owns(t, "X")
    BY <1>1 DEF Owns, Unlock, Innermost
  <2> QED
    BY <1>4, <2>1 DEF IInv, NoReadersInside
<1> QED
  BY <1>8, <1>9, <1>10, <1>11, <1>12 DEF IInv

(* A shared region inside another region is only counted.                  *)
LEMMA SharedAgainStep ==
    ASSUME IInv, NEW t \in Threads, LockSharedAgain(t)
    PROVE  IInv'
<1>1. TypeOK /\ held[t] \in Seq({"S", "X"}) /\ held[t] # <<>> /\ Len(held[t]) \in Nat \ {0}
  BY DEF IInv, TypeOK, LockSharedAgain
<1>2. /\ held' = [held EXCEPT ![t] = Append(held[t], "S")]
      /\ held'[t] = Append(held[t], "S")
      /\ \A u \in Threads \ {t} : held'[u] = held[u]
  BY <1>1 DEF LockSharedAgain, Enter, TypeOK
<1>3. pc[t] = "idle" /\ UNCHANGED <<pc, exclusive_lock, depth, readers_count, is_writer, refused>>
  BY DEF LockSharedAgain
<1>4. recursion_count[t] = Len(held[t])
  BY <1>3 DEF IInv, ThreadInv
<1>5. /\ recursion_count'[t] = Len(held[t]) + 1
      /\ recursion_count' \in [Threads -> Nat]
      /\ \A u \in Threads \ {t} : recursion_count'[u] = recursion_count[u]
  BY <1>1, <1>4 DEF LockSharedAgain, TypeOK
<1>6. Append(held[t], "S") \in Seq({"S", "X"})
  BY <1>1, AppendProperties
<1>7. TypeOK'
  <2>1. held' \in [Threads -> Seq({"S", "X"})]
    BY <1>1, <1>2, <1>6 DEF TypeOK
  <2> QED
    BY <1>1, <1>3, <1>5, <2>1 DEF TypeOK
<1>8. \A u \in Threads : ThreadInv(u)'
  <2>1. ThreadInv(t)'
    <3>1. /\ Len(held'[t]) = Len(held[t]) + 1
          /\ \A i \in 1 .. Len(held[t]) : held'[t][i] = held[t][i]
          /\ held'[t][Len(held[t]) + 1] = "S"
      BY <1>1, <1>2
    <3>2. is_writer[t] => held'[t][1] = "X"
      BY <1>1, <3>1 DEF IInv, ThreadInv
    <3>3. ~is_writer[t] => \A i \in 1 .. Len(held'[t]) : held'[t][i] = "S"
      BY <1>1, <3>1 DEF IInv, ThreadInv
    <3> QED
      BY <1>1, <1>3, <1>5, <3>1, <3>2, <3>3 DEF ThreadInv
  <2>2. ASSUME NEW u \in Threads \ {t} PROVE ThreadInv(u)'
    BY <1>2, <1>3, <1>5 DEF IInv, ThreadInv
  <2> QED
    BY <2>1, <2>2
<1>9. NumX(held'[t]) = NumX(held[t])
  <2>1. NumX(held'[t]) = NumX(held[t]) + 0 /\ NumX(held[t]) \in Nat
    BY <1>1, <1>2, NumXAppend, TakenType
  <2> QED
    BY <2>1
<1>10. OwnerInv'
  <2>1. \A u \in Threads : Taken(u)' = Taken(u)
    BY <1>2, <1>3, <1>9 DEF Taken, Kept
  <2> QED
    BY <1>1, <1>3, <2>1, OwnerSame DEF IInv
<1>11. ReadersCounted'
  <2>1. InsideReaders' = InsideReaders
    BY <1>1, <1>3, <1>4, <1>5 DEF InsideReaders
  <2> QED
    BY <1>3, <2>1 DEF IInv, ReadersCounted, InsideReaders
<1>12. NoReadersInside'
  <2>1. \A u \in Threads : Owns(u, "X")' => Owns(u, "X")
    BY <1>1, <1>2 DEF Owns
  <2> QED
    BY <1>3, <2>1 DEF IInv, NoReadersInside
<1> QED
  BY <1>7, <1>8, <1>10, <1>11, <1>12 DEF IInv

(* The end of lock_shared(): a new reader is counted and exclusive_lock    *)
(* released.                                                               *)
LEMMA SharedEnterStep ==
    ASSUME IInv, NEW t \in Threads, SharedEnter(t)
    PROVE  IInv'
<1>1. TypeOK /\ pc[t] = "entering" /\ held[t] = <<>> /\ recursion_count[t] = 0 /\ ~is_writer[t]
  BY DEF IInv, ThreadInv, SharedEnter
<1>2. /\ held' = [held EXCEPT ![t] = <<"S">>]
      /\ held'[t] = <<"S">>
      /\ \A u \in Threads \ {t} : held'[u] = held[u]
  BY <1>1 DEF SharedEnter, Enter, TypeOK
<1>3. /\ pc' = [pc EXCEPT ![t] = "idle"]
      /\ pc'[t] = "idle"
      /\ \A u \in Threads \ {t} : pc'[u] = pc[u]
  BY <1>1 DEF SharedEnter, Goto, TypeOK
<1>4. readers_count' = readers_count + 1 /\ DropExclusive /\ UNCHANGED <<is_writer, refused>>
  BY DEF SharedEnter
<1>5. /\ recursion_count'[t] = 1
      /\ recursion_count' \in [Threads -> Nat]
      /\ \A u \in Threads \ {t} : recursion_count'[u] = recursion_count[u]
  BY <1>1 DEF SharedEnter, TypeOK
<1>6. NumX(held[t]) = 0 /\ NumX(held'[t]) = 0
  <2>1. held[t] \in Seq({"S", "X"}) /\ held'[t] \in Seq({"S", "X"})
    BY <1>1, <1>2 DEF TypeOK
  <2>2. \A i \in 1 .. Len(held[t]) : held[t][i] # "X"
    BY <1>1
  <2>3. \A i \in 1 .. Len(held'[t]) : held'[t][i] # "X"
    BY <1>2
  <2> QED
    BY <2>1, <2>2, <2>3, NumXType, Zenon
<1>7. /\ Taken(t) # 0 /\ Taken(t)' = Taken(t) - 1
      /\ \A u \in Threads \ {t} : Taken(u)' = Taken(u)
  BY <1>1, <1>2, <1>3, <1>4, <1>6, TakenType DEF Taken, Kept, InsideExclusive
<1>8. OwnerInv' /\ exclusive_lock = t /\ depth \in Nat \ {0}
  BY <1>1, <1>4, <1>7, OwnerDrop DEF IInv
<1>9. TypeOK'
  <2>1. depth' \in Nat /\ exclusive_lock' \in Threads \cup {NoThread}
    BY <1>4, <1>8 DEF DropExclusive
  <2>2. held' \in [Threads -> Seq({"S", "X"})]
    BY <1>1, <1>2 DEF TypeOK
  <2>3. pc' \in [Threads -> Points]
    BY <1>1, <1>3 DEF TypeOK, Points
  <2> QED
    BY <1>1, <1>4, <1>5, <2>1, <2>2, <2>3 DEF TypeOK
<1>10. \A u \in Threads : ThreadInv(u)'
  <2>1. ThreadInv(t)'
    BY <1>1, <1>2, <1>3, <1>4, <1>5 DEF ThreadInv
  <2>2. ASSUME NEW u \in Threads \ {t} PROVE ThreadInv(u)'
    BY <1>2, <1>3, <1>4, <1>5 DEF IInv, ThreadInv
  <2> QED
    BY <2>1, <2>2
<1>11. ReadersCounted'
  <2>1. t \notin InsideReaders
    BY <1>1 DEF InsideReaders
  <2>2. InsideReaders' = InsideReaders \cup {t}
    BY <1>1, <1>4, <1>5 DEF InsideReaders
  <2>3. Cardinality(InsideReaders \cup {t}) = Cardinality(InsideReaders) + 1
    BY <2>1, ReadersFinite, FS_AddElement
  <2> QED
    BY <1>4, <2>2, <2>3 DEF IInv, ReadersCounted, InsideReaders
<1>12. NoReadersInside'
  <2>1. ASSUME NEW u \in Threads, Owns(u, "X")' PROVE FALSE
    <3>1. u # t
      BY <1>2, <2>1 DEF Owns
    <3>2. Owns(u, "X")
      BY <1>2, <2>1, <3>1 DEF Owns
    <3>3. exclusive_lock = u
      BY <1>1, <3>2, OwnsIsTaken DEF IInv, OwnerInv
    <3> QED
      BY <1>8, <3>1, <3>3
  <2> QED
    BY <2>1 DEF NoReadersInside
<1> QED
  BY <1>8, <1>9, <1>10, <1>11, <1>12 DEF IInv

(* Leaving a nested shared region.                                         *)
LEMMA UnlockSharedAgainStep ==
    ASSUME IInv, NEW t \in Threads, UnlockSharedAgain(t)
    PROVE  IInv'
<1> DEFINE rest == SubSeq(held[t], 1, Len(held[t]) - 1)
<1>1. TypeOK /\ held[t] \in Seq({"S", "X"}) /\ held[t] # <<>> /\ Len(held[t]) \in Nat \ {0}
  BY DEF IInv, TypeOK, UnlockSharedAgain
<1>2. pc[t] = "idle" /\ UNCHANGED <<pc, exclusive_lock, depth, readers_count, is_writer, refused>>
  BY DEF UnlockSharedAgain
<1>3. recursion_count[t] = Len(held[t]) /\ Len(held[t]) > 1 /\ held[t][Len(held[t])] = "S"
  BY <1>2 DEF IInv, ThreadInv, UnlockSharedAgain, Innermost
<1>4. /\ rest \in Seq({"S", "X"}) /\ Len(rest) = Len(held[t]) - 1
      /\ \A i \in 1 .. Len(held[t]) - 1 : rest[i] = held[t][i]
      /\ NumX(rest) = NumX(held[t]) - 0
  BY <1>1, <1>3, NumXFront
<1>5. /\ held' = [held EXCEPT ![t] = rest]
      /\ held'[t] = rest
      /\ \A u \in Threads \ {t} : held'[u] = held[u]
  BY <1>1 DEF UnlockSharedAgain, Leave, TypeOK
<1> HIDE DEF rest
<1>6. /\ recursion_count'[t] = Len(held[t]) - 1
      /\ recursion_count' \in [Threads -> Nat]
      /\ \A u \in Threads \ {t} : recursion_count'[u] = recursion_count[u]
  BY <1>1, <1>3 DEF UnlockSharedAgain, TypeOK
<1>7. TypeOK'
  <2>1. held' \in [Threads -> Seq({"S", "X"})]
    BY <1>1, <1>4, <1>5 DEF TypeOK
  <2> QED
    BY <1>1, <1>2, <1>6, <2>1 DEF TypeOK
<1>8. \A u \in Threads : ThreadInv(u)'
  <2>1. ThreadInv(t)'
    <3>1. 1 \in 1 .. Len(held[t]) - 1
      BY <1>1, <1>3
    <3>2. rest[1] = held[t][1]
      BY <1>4, <3>1, Zenon
    <3>3. is_writer[t] => held[t][1] = "X"
      BY <1>1 DEF IInv, ThreadInv
    <3>4. ~is_writer[t] => \A i \in 1 .. Len(rest) : rest[i] = "S"
      BY <1>1, <1>4 DEF IInv, ThreadInv
    <3>5. recursion_count'[t] # 0
      BY <1>3, <1>6
    <3> QED
      BY <1>2, <1>4, <1>5, <1>6, <3>2, <3>3, <3>4, <3>5 DEF ThreadInv
  <2>2. ASSUME NEW u \in Threads \ {t} PROVE ThreadInv(u)'
    BY <1>2, <1>5, <1>6 DEF IInv, ThreadInv
  <2> QED
    BY <2>1, <2>2
<1>9. OwnerInv'
  <2>1. NumX(rest) = NumX(held[t])
    BY <1>1, <1>4, TakenType
  <2>2. \A u \in Threads : Taken(u)' = Taken(u)
    BY <1>2, <1>5, <2>1 DEF Taken, Kept
  <2> QED
    BY <1>1, <1>2, <2>2, OwnerSame DEF IInv
<1>10. ReadersCounted'
  <2>1. InsideReaders' = InsideReaders
    BY <1>1, <1>2, <1>3, <1>6 DEF InsideReaders
  <2> QED
    BY <1>2, <2>1 DEF IInv, ReadersCounted, InsideReaders
<1>11. NoReadersInside'
  <2>1. \A u \in Threads : Owns(u, "X")' => Owns(u, "X")
    BY <1>1, <1>4, <1>5 DEF Owns
  <2> QED
    BY <1>2, <2>1 DEF IInv, NoReadersInside
<1> QED
  BY <1>7, <1>8, <1>9, <1>10, <1>11 DEF IInv

(* Leaving the last shared region of a reader: it is no longer counted.    *)
LEMMA UnlockSharedStep ==
    ASSUME IInv, NEW t \in Threads, UnlockShared(t)
    PROVE  IInv'
<1>1. TypeOK /\ held[t] \in Seq({"S", "X"}) /\ held[t] # <<>> /\ Len(held[t]) \in Nat \ {0}
  BY DEF IInv, TypeOK, UnlockShared
<1>2. /\ pc[t] = "idle" /\ UNCHANGED <<exclusive_lock, depth, is_writer, refused>>
      /\ recursion_count[t] = 1 /\ readers_count' = readers_count - 1
  BY DEF UnlockShared
<1>3. Len(held[t]) = 1 /\ held[t][1] = "S"
  BY <1>2 DEF IInv, ThreadInv, UnlockShared, Innermost
<1>4. ~is_writer[t]
  BY <1>1, <1>3 DEF IInv, ThreadInv
<1>5. SubSeq(held[t], 1, Len(held[t]) - 1) = <<>>
  <2>1. /\ SubSeq(held[t], 1, Len(held[t]) - 1) \in Seq({"S", "X"})
        /\ Len(SubSeq(held[t], 1, Len(held[t]) - 1)) = Len(held[t]) - 1
    BY <1>1, FrontProperties
  <2> QED
    BY <1>3, <2>1
<1>6. /\ held' = [held EXCEPT ![t] = <<>>]
      /\ held'[t] = <<>>
      /\ \A u \in Threads \ {t} : held'[u] = held[u]
  BY <1>1, <1>5 DEF UnlockShared, Leave, TypeOK
<1>7. /\ pc' = [pc EXCEPT ![t] = "leaving"]
      /\ pc'[t] = "leaving"
      /\ \A u \in Threads \ {t} : pc'[u] = pc[u]
  BY <1>1 DEF UnlockShared, Goto, TypeOK
<1>8. /\ recursion_count'[t] = 0
      /\ recursion_count' \in [Threads -> Nat]
      /\ \A u \in Threads \ {t} : recursion_count'[u] = recursion_count[u]
  BY <1>1 DEF UnlockShared, TypeOK
<1>9. ReadersCounted' /\ readers_count' \in Nat
  <2>1. t \in InsideReaders
    BY <1>2, <1>4 DEF InsideReaders
  <2>2. InsideReaders' = InsideReaders \ {t}
    BY <1>2, <1>4, <1>8 DEF InsideReaders
  <2>3. /\ Cardinality(InsideReaders \ {t}) = Cardinality(InsideReaders) - 1
        /\ IsFiniteSet(InsideReaders \ {t})
    BY <2>1, ReadersFinite, FS_RemoveElement
  <2>4. Cardinality(InsideReaders \ {t}) \in Nat
    BY <2>3, FS_CardinalityType
  <2>5. readers_count' = Cardinality(InsideReaders \ {t})
    BY <1>2, <2>3 DEF IInv, ReadersCounted, InsideReaders
  <2> QED
    BY <2>2, <2>4, <2>5 DEF ReadersCounted, InsideReaders
<1>10. TypeOK'
  <2>1. held' \in [Threads -> Seq({"S", "X"})]
    BY <1>1, <1>6 DEF TypeOK
  <2>2. pc' \in [Threads -> Points]
    BY <1>1, <1>7 DEF TypeOK, Points
  <2> QED
    BY <1>1, <1>2, <1>8, <1>9, <2>1, <2>2 DEF TypeOK
<1>11. \A u \in Threads : ThreadInv(u)'
  <2>1. ThreadInv(t)'
    BY <1>2, <1>4, <1>6, <1>7, <1>8 DEF ThreadInv
  <2>2. ASSUME NEW u \in Threads \ {t} PROVE ThreadInv(u)'
    BY <1>2, <1>6, <1>7, <1>8 DEF IInv, ThreadInv
  <2> QED
    BY <2>1, <2>2
<1>12. OwnerInv'
  <2>3. <<>> \in Seq({"S", "X"}) /\ \A i \in 1 .. Len(<<>>) : <<>>[i] # "X"
    OBVIOUS
  <2>4. \A i \in 1 .. Len(held[t]) : held[t][i] # "X"
    BY <1>3
  <2>1. NumX(held[t]) = 0 /\ NumX(<<>>) = 0
    BY <1>1, <2>3, <2>4, NumXType, Zenon
  <2>2. \A u \in Threads : Taken(u)' = Taken(u)
    BY <1>2, <1>6, <1>7, <2>1 DEF Taken, Kept, InsideExclusive
  <2> QED
    BY <1>1, <1>2, <2>2, OwnerSame DEF IInv
<1>13. NoReadersInside'
  <2>1. ASSUME NEW u \in Threads, Owns(u, "X")' PROVE FALSE
    <3>1. u # t
      BY <1>6, <2>1 DEF Owns
    <3>2. Owns(u, "X")
      BY <1>6, <2>1, <3>1 DEF Owns
    <3>3. readers_count = 0
      BY <3>2 DEF IInv, NoReadersInside
    <3> QED
      BY <1>2, <1>9, <3>3
  <2> QED
    BY <2>1 DEF NoReadersInside
<1> QED
  BY <1>9, <1>10, <1>11, <1>12, <1>13 DEF IInv

(* lock() that throws keeps what it has taken of exclusive_lock.           *)
LEMMA RefusedStep ==
    ASSUME IInv, NEW t \in Threads, LockRefused(t)
    PROVE  IInv' /\ refused' = [refused EXCEPT ![t] = refused[t] + 1]
<1>1. /\ TypeOK /\ pc[t] = "locking" /\ ~is_writer[t]
      /\ pc' = [pc EXCEPT ![t] = "idle"]
      /\ refused' = [refused EXCEPT ![t] = refused[t] + 1]
      /\ UNCHANGED <<exclusive_lock, depth, readers_count, recursion_count, is_writer, held>>
  BY DEF IInv, LockRefused, Refuse, Goto
<1>2. TypeOK'
  BY <1>1 DEF TypeOK, Points
<1>3. \A u \in Threads : ThreadInv(u)'
  BY <1>1 DEF IInv, ThreadInv, TypeOK
<1>4. OwnerInv'
  <2>1. \A u \in Threads : Taken(u)' = Taken(u)
    <3>1. ASSUME NEW u \in Threads \ {t} PROVE Taken(u)' = Taken(u)
      BY <1>1 DEF Taken, Kept, TypeOK
    <3>2. pc'[t] = "idle" /\ refused'[t] = refused[t] + 1
      BY <1>1 DEF TypeOK
    <3>3. NumX(held[t]) \in Nat /\ refused[t] \in Nat
      BY <1>1, TakenType
    <3>4. Taken(t) = NumX(held[t]) + refused[t] + 1
      BY <1>1 DEF Taken, Kept, InsideExclusive
    <3>5. Taken(t)' = NumX(held[t]) + (refused[t] + 1)
      BY <1>1, <3>2 DEF Taken, Kept, InsideExclusive
    <3> QED
      BY <3>1, <3>3, <3>4, <3>5
  <2> QED
    BY <1>1, <2>1, OwnerSame DEF IInv
<1>5. ReadersCounted' /\ NoReadersInside'
  BY <1>1 DEF IInv, ReadersCounted, NoReadersInside, Owns
<1> QED
  BY <1>1, <1>2, <1>3, <1>4, <1>5 DEF IInv

(* Every step of the mutex keeps the inductive invariant.                  *)
LEMMA NextInv == IInv /\ [Next]_vars => IInv'
<1> SUFFICES ASSUME IInv, [Next]_vars PROVE IInv'
  OBVIOUS
<1>1. TypeOK
  BY DEF IInv
<1>2. CASE UNCHANGED vars
  BY <1>1, <1>2, MovePc DEF vars, TypeOK, IInv, ThreadInv
<1>3. ASSUME NEW t \in Threads, CallLock(t) PROVE IInv'
  BY <1>1, <1>3, MovePc DEF CallLock, Goto, TypeOK, Points, InsideExclusive, IInv, ThreadInv
<1>4. ASSUME NEW t \in Threads, CallLockShared(t) PROVE IInv'
  BY <1>1, <1>4, MovePc DEF CallLockShared, Goto, TypeOK, Points, InsideExclusive, IInv, ThreadInv
<1>5. ASSUME NEW t \in Threads, LockSharedAgain(t) PROVE IInv'
  BY <1>5, SharedAgainStep
<1>6. ASSUME NEW t \in Threads, SpuriousWakeup(t) PROVE IInv'
  BY <1>1, <1>6, MovePc DEF SpuriousWakeup, Goto, TypeOK, Points, InsideExclusive, IInv, ThreadInv
<1>7. ASSUME NEW t \in Threads, LockExclusive(t) \/ SharedExclusive(t) PROVE IInv'
  BY <1>7, TakeStep
<1>8. ASSUME NEW t \in Threads, LockRefused(t) PROVE IInv'
  BY <1>8, RefusedStep
<1>9. ASSUME NEW t \in Threads, LockCheck(t) PROVE IInv'
  BY <1>9, EnterExclusive, LockWaits DEF LockCheck
<1>10. ASSUME NEW t \in Threads, LockWoken(t) PROVE IInv'
  <2>1. CASE readers_count = 0
    BY <1>10, <2>1, EnterExclusive DEF LockWoken
  <2>2. CASE readers_count # 0
    BY <1>1, <1>10, <2>2, MovePc
       DEF LockWoken, Goto, TypeOK, Points, InsideExclusive, IInv, ThreadInv
  <2> QED
    BY <2>1, <2>2
<1>11. ASSUME NEW t \in Threads, SharedEnter(t) PROVE IInv'
  BY <1>11, SharedEnterStep
<1>12. ASSUME NEW t \in Threads, UnlockSharedTest(t) PROVE IInv'
  BY <1>1, <1>12, MovePc
     DEF UnlockSharedTest, Goto, TypeOK, Points, InsideExclusive, IInv, ThreadInv
<1>13. ASSUME NEW t \in Threads, NotifyAll(t) PROVE IInv'
  BY <1>1, <1>13, MovePc DEF NotifyAll, TypeOK, Points, InsideExclusive, IInv, ThreadInv
<1>14. ASSUME NEW t \in Threads, Release(t) PROVE IInv'
  BY <1>14, UnlockStep, UnlockSharedStep, UnlockSharedAgainStep DEF Release
<1> QED
  BY <1>2, <1>3, <1>4, <1>5, <1>6, <1>7, <1>8, <1>9, <1>10, <1>11, <1>12, <1>13, <1>14
     DEF Next, Inside

(* The inductive invariant holds in every reachable state.                 *)
THEOREM Invariance == Spec => []IInv
BY InitInv, NextInv, PTL DEF Spec

(* The counters of shared_recursive_mutex keep their types: neither the    *)
(* unsigned readers_count nor a recursion_count goes below zero.           *)
THEOREM TypeCorrect == Spec => []TypeOK
<1>1. IInv => TypeOK
  BY DEF IInv
<1> QED
  BY <1>1, Invariance, PTL

(* shared_recursive_mutex excludes: while a thread is between lock() and   *)
(* unlock() no other thread is in any region, for any number of threads,   *)
(* any nesting, and also when threads break the rule against upgrading.    *)
THEOREM Exclusion == Spec => []MutualExclusion
BY InvImpliesMutualExclusion, Invariance, PTL

(* readers_count counts exactly the threads that entered as readers.       *)
THEOREM ReadersExact == Spec => []ReadersCounted
<1>1. IInv => ReadersCounted
  BY DEF IInv
<1> QED
  BY <1>1, Invariance, PTL

-----------------------------------------------------------------------------
(* Wake-ups and refused upgrades *)

(* No wake-up is lost: readers_count reaches zero only in unlock_shared(), *)
(* whose thread then notifies, and a writer goes to sleep only when it has *)
(* seen a reader inside.                                                   *)
THEOREM WakeupsNotLost == Spec => []NoLostWakeup
<1> DEFINE Awake == \E u \in Threads : pc[u] \in {"leaving", "notifying"}
           Asleep == \E u \in Threads : pc[u] = "waiting"
<1>1. Init => NoLostWakeup
  BY DEF Init, NoLostWakeup
<1>2. IInv /\ NoLostWakeup /\ [Next]_vars => NoLostWakeup'
  <2> SUFFICES ASSUME IInv, NoLostWakeup, [Next]_vars, Asleep', readers_count' = 0
               PROVE  Awake'
    BY DEF NoLostWakeup
  <2>1. pc \in [Threads -> Points] /\ readers_count \in Nat
    BY DEF IInv, TypeOK
  <2>2. CASE UNCHANGED vars
    BY <2>2 DEF vars, NoLostWakeup
  <2>3. ASSUME NEW t \in Threads, CallLock(t) PROVE Awake'
    BY <2>1, <2>3 DEF CallLock, Goto, NoLostWakeup
  <2>4. ASSUME NEW t \in Threads, CallLockShared(t) PROVE Awake'
    BY <2>1, <2>4 DEF CallLockShared, Goto, NoLostWakeup
  <2>5. ASSUME NEW t \in Threads, LockSharedAgain(t) PROVE Awake'
    BY <2>5 DEF LockSharedAgain, NoLostWakeup
  <2>6. ASSUME NEW t \in Threads, SpuriousWakeup(t) PROVE Awake'
    BY <2>1, <2>6 DEF SpuriousWakeup, Goto, NoLostWakeup
  <2>7. ASSUME NEW t \in Threads, LockExclusive(t) \/ SharedExclusive(t) PROVE Awake'
    BY <2>1, <2>7 DEF LockExclusive, SharedExclusive, Goto, NoLostWakeup
  <2>8. ASSUME NEW t \in Threads, LockRefused(t) PROVE Awake'
    BY <2>1, <2>8 DEF LockRefused, Refuse, Goto, NoLostWakeup
  <2>9. ASSUME NEW t \in Threads, LockCheck(t) PROVE Awake'
    BY <2>1, <2>9 DEF LockCheck, Goto, NoLostWakeup
  <2>10. ASSUME NEW t \in Threads, LockWoken(t) PROVE Awake'
    BY <2>1, <2>10 DEF LockWoken, Goto, NoLostWakeup
  <2>11. ASSUME NEW t \in Threads, SharedEnter(t) PROVE FALSE
    BY <2>1, <2>11 DEF SharedEnter
  <2>12. ASSUME NEW t \in Threads, UnlockSharedTest(t) PROVE Awake'
    BY <2>1, <2>12 DEF UnlockSharedTest, Goto, NoLostWakeup
  <2>13. ASSUME NEW t \in Threads, NotifyAll(t) PROVE FALSE
    BY <2>1, <2>13 DEF NotifyAll
  <2>14. ASSUME NEW t \in Threads, Unlock(t) \/ UnlockSharedAgain(t) PROVE Awake'
    BY <2>14 DEF Unlock, UnlockSharedAgain, NoLostWakeup
  <2>15. ASSUME NEW t \in Threads, UnlockShared(t) PROVE Awake'
    BY <2>1, <2>15 DEF UnlockShared, Goto
  <2> QED
    BY <2>2, <2>3, <2>4, <2>5, <2>6, <2>7, <2>8, <2>9, <2>10, <2>11, <2>12, <2>13, <2>14, <2>15
       DEF Next, Inside, Release
<1> QED
  BY <1>1, <1>2, Invariance, PTL DEF Spec

(* The deadlock the comment of the class warns of: after one refused       *)
(* upgrade exclusive_lock stays with the thread that was refused, although *)
(* it leaves its regions and enters others, and no other thread ever       *)
(* enters a region of the mutex.                                           *)
THEOREM UpgradeBlocks == Spec => RefusedUpgradeBlocks
<1> DEFINE Blocks == \A t \in Threads : refused[t] > 0 =>
                        /\ exclusive_lock' = t
                        /\ \A u \in Threads \ {t} : held[u] = <<>> => held'[u] = <<>>
<1>1. IInv /\ [Next]_vars => [Blocks]_vars
  <2> SUFFICES ASSUME IInv, Next, NEW v \in Threads, refused[v] > 0
               PROVE  exclusive_lock' = v
                        /\ \A u \in Threads \ {v} : held[u] = <<>> => held'[u] = <<>>
    BY DEF Blocks
  <2>1. TypeOK /\ IInv'
    BY NextInv DEF IInv
  <2>2. refused'[v] > 0
    <3>1. UNCHANGED refused \/ \E t \in Threads : LockRefused(t)
      <4>1. PICK t \in Threads : \/ CallLock(t) \/ CallLockShared(t) \/ LockSharedAgain(t)
                                 \/ SpuriousWakeup(t) \/ Inside(t) \/ Release(t)
        BY DEF Next
      <4>2. CASE CallLock(t) \/ CallLockShared(t) \/ LockSharedAgain(t) \/ SpuriousWakeup(t)
        BY <4>2 DEF CallLock, CallLockShared, LockSharedAgain, SpuriousWakeup
      <4>3. CASE Inside(t)
        BY <4>3 DEF Inside, LockExclusive, LockCheck, LockWoken, SharedExclusive, SharedEnter,
                    UnlockSharedTest, NotifyAll
      <4>4. CASE Release(t)
        BY <4>4 DEF Release, Unlock, UnlockShared, UnlockSharedAgain
      <4> QED
        BY <4>1, <4>2, <4>3, <4>4
    <3>2. ASSUME NEW t \in Threads, LockRefused(t) PROVE refused'[v] > 0
      <4>1. refused' = [refused EXCEPT ![t] = refused[t] + 1]
        BY <3>2, RefusedStep
      <4>2. refused \in [Threads -> Nat]
        BY <2>1 DEF TypeOK
      <4> QED
        BY <4>1, <4>2
    <3> QED
      BY <3>1, <3>2
  <2>3. exclusive_lock = v
    BY <2>1, TakenType DEF Taken, Kept, IInv, OwnerInv
  <2>4. exclusive_lock' = v
    <3>1. Taken(v)' # 0
      <4>1. refused'[v] \in Nat /\ NumX(held'[v]) \in Nat
        BY <2>1, NumXType DEF IInv, TypeOK
      <4> QED
        BY <2>2, <4>1 DEF Taken, Kept
    <3> QED
      BY <2>1, <3>1 DEF IInv, OwnerInv
  <2>5. ASSUME NEW u \in Threads \ {v}, held[u] = <<>> PROVE held'[u] = <<>>
    <3>1. pc[u] \notin {"locking", "woken", "entering"}
      <4>1. pc[u] \in InsideExclusive => Taken(u) # 0
        BY <2>1, TakenType DEF Taken, Kept
      <4> QED
        BY <2>3, <4>1 DEF IInv, OwnerInv, InsideExclusive
    <3>2. PICK t \in Threads : \/ CallLock(t) \/ CallLockShared(t) \/ LockSharedAgain(t)
                               \/ SpuriousWakeup(t) \/ Inside(t) \/ Release(t)
      BY DEF Next
    <3>3. CASE held' = held
      BY <3>3, <2>5
    <3>4. CASE LockSharedAgain(t)
      BY <2>1, <2>5, <3>4 DEF LockSharedAgain, Enter, TypeOK
    <3>5. CASE Release(t)
      <4>1. held[t] # <<>> /\ Leave(t)
        BY <3>5 DEF Release, Unlock, UnlockShared, UnlockSharedAgain
      <4> QED
        BY <2>1, <2>5, <4>1 DEF Leave, TypeOK
    <3>6. CASE LockCheck(t) \/ LockWoken(t) \/ SharedEnter(t)
      BY <2>1, <2>5, <3>1, <3>6 DEF LockCheck, LockWoken, SharedEnter, Enter, TypeOK
    <3> QED
      BY <3>2, <3>3, <3>4, <3>5, <3>6
         DEF CallLock, CallLockShared, SpuriousWakeup, Inside, LockExclusive, LockRefused, Refuse,
             SharedExclusive, UnlockSharedTest, NotifyAll
  <2> QED
    BY <2>4, <2>5
<1> QED
  BY <1>1, Invariance, PTL DEF Spec, RefusedUpgradeBlocks
=============================================================================
