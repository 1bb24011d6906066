------------------------------- MODULE RwLock -------------------------------
(***************************************************************************)
(* epee::shared_recursive_mutex (contrib/epee/include/readwrite_lock.h):   *)
(* the read-write lock behind blockchain_storage::m_rw_lock.  Readers take *)
(* it through m_read_lock, a database writer takes it exclusively while it *)
(* commits or aborts (see DbCache).                                        *)
(*                                                                         *)
(* Every step under cv_mutex is one action; cv.wait gives cv_mutex up, so  *)
(* a waiting thread is its own program point.  Locks are used through      *)
(* scoped regions, so a thread releases what it took last (held).          *)
(***************************************************************************)
EXTENDS Naturals, Sequences, FiniteSets

CONSTANTS
    Threads,        \* the threads of the daemon
    Upgraders,      \* those that break the rule "no lock() while holding shared"
    MaxNesting,     \* bound: how deep a thread nests its regions
    MaxRefused,     \* bound: how often a thread is refused the exclusive mode
    NoThread        \* the owner of a free mutex

ASSUME RwThreadsAssumption ==
    /\ IsFiniteSet(Threads)
    /\ Upgraders \subseteq Threads
    /\ MaxNesting \in Nat \ {0} /\ MaxRefused \in Nat
    /\ NoThread \notin Threads

VARIABLES
    pc,              \* where each thread is inside the mutex's code
    exclusive_lock,  \* owner of the recursive mutex exclusive_lock
    depth,           \* how many times its owner has locked it
    readers_count,   \* the atomic counter of shared owners
    recursion_count, \* per_thread_data: recursion_count
    is_writer,       \* per_thread_data: is_writer_thread
    held,            \* the regions a thread is in, innermost last ("S" or "X")
    refused          \* history: how often lock() has thrown in each thread

vars == <<pc, exclusive_lock, depth, readers_count, recursion_count, is_writer, held, refused>>

Points == {"idle", "lock", "locking", "waiting", "woken",
           "lock_shared", "entering", "leaving", "notifying"}

TypeOK ==
    /\ pc \in [Threads -> Points]
    /\ exclusive_lock \in Threads \cup {NoThread}
    /\ depth \in Nat
    /\ readers_count \in Nat
    /\ recursion_count \in [Threads -> Nat]
    /\ is_writer \in [Threads -> BOOLEAN]
    /\ held \in [Threads -> Seq({"S", "X"})]
    /\ refused \in [Threads -> Nat]

Init ==
    /\ pc = [t \in Threads |-> "idle"]
    /\ exclusive_lock = NoThread
    /\ depth = 0
    /\ readers_count = 0
    /\ recursion_count = [t \in Threads |-> 0]
    /\ is_writer = [t \in Threads |-> FALSE]
    /\ held = [t \in Threads |-> <<>>]
    /\ refused = [t \in Threads |-> 0]

Goto(t, point) == pc' = [pc EXCEPT ![t] = point]
Enter(t, mode) == held' = [held EXCEPT ![t] = Append(@, mode)]
Leave(t)       == held' = [held EXCEPT ![t] = SubSeq(@, 1, Len(@) - 1)]
Innermost(t)   == held[t][Len(held[t])]

(* exclusive_lock.lock() and .unlock(): a recursive mutex.                 *)
TakeExclusive(t) ==
    /\ exclusive_lock \in {NoThread, t}
    /\ exclusive_lock' = t
    /\ depth' = depth + 1

DropExclusive ==
    /\ depth' = depth - 1
    /\ exclusive_lock' = IF depth = 1 THEN NoThread ELSE exclusive_lock

-----------------------------------------------------------------------------
(* lock() *)

(* A thread calls lock().  Only an upgrader does so while it is a reader.  *)
CallLock(t) ==
    /\ pc[t] = "idle"
    /\ Len(held[t]) < MaxNesting
    /\ held[t] = <<>> \/ is_writer[t] \/ (t \in Upgraders /\ refused[t] < MaxRefused)
    /\ Goto(t, "lock")
    /\ UNCHANGED <<exclusive_lock, depth, readers_count, recursion_count, is_writer, held, refused>>

LockExclusive(t) ==
    /\ pc[t] = "lock"
    /\ TakeExclusive(t)
    /\ Goto(t, "locking")
    /\ UNCHANGED <<readers_count, recursion_count, is_writer, held, refused>>

Refuse(t) ==
    /\ pc[t] = "locking"
    /\ recursion_count[t] # 0 /\ ~is_writer[t]
    /\ refused' = [refused EXCEPT ![t] = @ + 1]
    /\ Goto(t, "idle")
    /\ UNCHANGED <<readers_count, recursion_count, is_writer, held>>

(* Mutant: the way out by the exception releases exclusive_lock.           *)
LockRefused_unlocks(t) == Refuse(t) /\ DropExclusive

(* A reader is refused with an exception, and exclusive_lock stays taken:  *)
(* nothing on that path unlocks it.  The thread leaves its shared regions  *)
(* as the exception unwinds them, or goes on where it is caught, and may   *)
(* use the mutex again.                                                    *)
LockRefused(t) == Refuse(t) /\ UNCHANGED <<exclusive_lock, depth>>

(* Mutant: the predicate of cv.wait is not evaluated.                      *)
LockCheck_no_wait(t) ==
    /\ pc[t] = "locking"
    /\ recursion_count[t] = 0 \/ is_writer[t]
    /\ is_writer' = [is_writer EXCEPT ![t] = TRUE]
    /\ recursion_count' = [recursion_count EXCEPT ![t] = @ + 1]
    /\ Enter(t, "X")
    /\ Goto(t, "idle")
    /\ UNCHANGED <<exclusive_lock, depth, readers_count, refused>>

LockCheck(t) ==
    /\ pc[t] = "locking"
    /\ recursion_count[t] = 0 \/ is_writer[t]
    /\ is_writer' = [is_writer EXCEPT ![t] = TRUE]
    /\ recursion_count' = [recursion_count EXCEPT ![t] = @ + 1]
    /\ \/ /\ readers_count = 0
          /\ Enter(t, "X")
          /\ Goto(t, "idle")
       \/ /\ readers_count # 0
          /\ Goto(t, "waiting")
          /\ UNCHANGED held
    /\ UNCHANGED <<exclusive_lock, depth, readers_count, refused>>

(* The predicate of cv.wait is evaluated again after every wake-up.        *)
LockWoken(t) ==
    /\ pc[t] = "woken"
    /\ \/ /\ readers_count = 0
          /\ Enter(t, "X")
          /\ Goto(t, "idle")
       \/ /\ readers_count # 0
          /\ Goto(t, "waiting")
          /\ UNCHANGED held
    /\ UNCHANGED <<exclusive_lock, depth, readers_count, recursion_count, is_writer, refused>>

(* A condition variable may wake up without a notification.                *)
SpuriousWakeup(t) ==
    /\ pc[t] = "waiting"
    /\ Goto(t, "woken")
    /\ UNCHANGED <<exclusive_lock, depth, readers_count, recursion_count, is_writer, held, refused>>

(* unlock() *)
Unlock(t) ==
    /\ pc[t] = "idle"
    /\ held[t] # <<>> /\ Innermost(t) = "X"
    /\ Leave(t)
    /\ recursion_count' = [recursion_count EXCEPT ![t] = @ - 1]
    /\ is_writer' = [is_writer EXCEPT ![t] = recursion_count[t] # 1]
    /\ DropExclusive
    /\ UNCHANGED <<pc, readers_count, refused>>

-----------------------------------------------------------------------------
(* lock_shared() *)

(* Mutant: every shared region counts its thread again.                    *)
LockSharedAgain_counts(t) ==
    /\ pc[t] = "idle"
    /\ held[t] # <<>> /\ Len(held[t]) < MaxNesting
    /\ recursion_count' = [recursion_count EXCEPT ![t] = @ + 1]
    /\ readers_count' = readers_count + 1
    /\ Enter(t, "S")
    /\ UNCHANGED <<pc, exclusive_lock, depth, is_writer, refused>>

(* A thread that already owns the mutex in either mode only counts.        *)
LockSharedAgain(t) ==
    /\ pc[t] = "idle"
    /\ held[t] # <<>> /\ Len(held[t]) < MaxNesting
    /\ recursion_count[t] # 0
    /\ recursion_count' = [recursion_count EXCEPT ![t] = @ + 1]
    /\ Enter(t, "S")
    /\ UNCHANGED <<pc, exclusive_lock, depth, readers_count, is_writer, refused>>

CallLockShared(t) ==
    /\ pc[t] = "idle"
    /\ held[t] = <<>>
    /\ recursion_count[t] = 0
    /\ Goto(t, "lock_shared")
    /\ UNCHANGED <<exclusive_lock, depth, readers_count, recursion_count, is_writer, held, refused>>

SharedExclusive(t) ==
    /\ pc[t] = "lock_shared"
    /\ TakeExclusive(t)
    /\ Goto(t, "entering")
    /\ UNCHANGED <<readers_count, recursion_count, is_writer, held, refused>>

SharedEnter(t) ==
    /\ pc[t] = "entering"
    /\ readers_count' = readers_count + 1
    /\ recursion_count' = [recursion_count EXCEPT ![t] = @ + 1]
    /\ DropExclusive
    /\ Enter(t, "S")
    /\ Goto(t, "idle")
    /\ UNCHANGED <<is_writer, refused>>

(* Mutant: every unlock_shared() takes one reader away.                    *)
UnlockSharedAgain_counts(t) ==
    /\ pc[t] = "idle"
    /\ held[t] # <<>> /\ Innermost(t) = "S"
    /\ recursion_count[t] > 1
    /\ recursion_count' = [recursion_count EXCEPT ![t] = @ - 1]
    /\ readers_count' = readers_count - 1
    /\ Leave(t)
    /\ UNCHANGED <<pc, exclusive_lock, depth, is_writer, refused>>

(* unlock_shared() *)
UnlockSharedAgain(t) ==
    /\ pc[t] = "idle"
    /\ held[t] # <<>> /\ Innermost(t) = "S"
    /\ recursion_count[t] > 1
    /\ recursion_count' = [recursion_count EXCEPT ![t] = @ - 1]
    /\ Leave(t)
    /\ UNCHANGED <<pc, exclusive_lock, depth, readers_count, is_writer, refused>>

UnlockShared(t) ==
    /\ pc[t] = "idle"
    /\ held[t] # <<>> /\ Innermost(t) = "S"
    /\ recursion_count[t] = 1
    /\ recursion_count' = [recursion_count EXCEPT ![t] = 0]
    /\ readers_count' = readers_count - 1
    /\ Leave(t)
    /\ Goto(t, "leaving")
    /\ UNCHANGED <<exclusive_lock, depth, is_writer, refused>>

(* Mutant: the last reader does not notify.                                *)
UnlockSharedTest_silent(t) ==
    /\ pc[t] = "leaving"
    /\ Goto(t, "idle")
    /\ UNCHANGED <<exclusive_lock, depth, readers_count, recursion_count, is_writer, held, refused>>

(* readers_count is read again, outside cv_mutex.                          *)
UnlockSharedTest(t) ==
    /\ pc[t] = "leaving"
    /\ Goto(t, IF readers_count = 0 THEN "notifying" ELSE "idle")
    /\ UNCHANGED <<exclusive_lock, depth, readers_count, recursion_count, is_writer, held, refused>>

NotifyAll(t) ==
    /\ pc[t] = "notifying"
    /\ pc' = [u \in Threads |-> CASE u = t -> "idle"
                                  [] pc[u] = "waiting" -> "woken"
                                  [] OTHER -> pc[u]]
    /\ UNCHANGED <<exclusive_lock, depth, readers_count, recursion_count, is_writer, held, refused>>

-----------------------------------------------------------------------------
(* The steps inside the mutex's code, which a scheduled thread completes.  *)
Inside(t) ==
    \/ LockExclusive(t) \/ LockRefused(t) \/ LockCheck(t) \/ LockWoken(t)
    \/ SharedExclusive(t) \/ SharedEnter(t)
    \/ UnlockSharedTest(t) \/ NotifyAll(t)

Release(t) == Unlock(t) \/ UnlockShared(t) \/ UnlockSharedAgain(t)

Next == \E t \in Threads :
    \/ CallLock(t) \/ CallLockShared(t) \/ LockSharedAgain(t)
    \/ SpuriousWakeup(t) \/ Inside(t) \/ Release(t)

Spec == Init /\ [][Next]_vars

(* Scheduled threads finish what they do inside the mutex, and a region is *)
(* a finite piece of code: its outermost unlock is reached however often   *)
(* it is re-entered meanwhile.  No fairness between threads that compete   *)
(* for exclusive_lock: std::recursive_mutex promises none.                 *)
FairSpec ==
    /\ Spec
    /\ \A t \in Threads : WF_vars(LockRefused(t) \/ LockCheck(t) \/ LockWoken(t)
                                     \/ SharedEnter(t) \/ UnlockSharedTest(t) \/ NotifyAll(t))
    /\ \A t \in Threads : WF_vars(Release(t))
    /\ \A t \in Threads : SF_vars(UnlockShared(t))

-----------------------------------------------------------------------------
(* Properties *)

Owns(t, mode) == \E i \in 1 .. Len(held[t]) : held[t][i] = mode

(* While a thread is inside lock() .. unlock() no other thread is in any   *)
(* region of the mutex, shared or exclusive.                               *)
MutualExclusion ==
    \A t, u \in Threads : t # u /\ Owns(t, "X") => held[u] = <<>>

(* readers_count counts exactly the threads that entered as readers, in    *)
(* spite of recursion and of a writer that also enters shared regions, so  *)
(* unlock_shared() never takes the unsigned counter below zero.            *)
ReadersCounted ==
    readers_count = Cardinality({t \in Threads : recursion_count[t] # 0 /\ ~is_writer[t]})

(* A writer that sleeps in cv.wait although the last reader has gone has a *)
(* notification on its way: the test of readers_count outside cv_mutex and *)
(* the late notify_all lose no wake-up.                                    *)
NoLostWakeup ==
    (\E t \in Threads : pc[t] = "waiting") /\ readers_count = 0
        => \E u \in Threads : pc[u] \in {"leaving", "notifying"}

(* A writer that got hold of exclusive_lock gets in: it keeps new readers  *)
(* out and those inside leave, unless one of them breaks the rule and asks *)
(* for the exclusive mode.                                                 *)
Upgrading(u) ==
    recursion_count[u] # 0 /\ ~is_writer[u] /\ pc[u] \in {"lock", "locking"}

WriterGetsIn ==
    \A t \in Threads :
        pc[t] \in {"locking", "waiting", "woken"}
            ~> \/ pc[t] = "idle" /\ Owns(t, "X")
               \/ \E u \in Threads : Upgrading(u)

(* The comment of the class: an owner of the shared mode that asks for the *)
(* exclusive one makes a deadlock.  Once it has been refused, whatever it  *)
(* goes on to do, exclusive_lock is never free again and no other thread   *)
(* gets into the mutex.                                                    *)
RefusedUpgradeBlocks ==
    [][ \A t \in Threads : refused[t] > 0 =>
            /\ exclusive_lock' = t
            /\ \A u \in Threads \ {t} : held[u] = <<>> => held'[u] = <<>> ]_vars
=============================================================================
