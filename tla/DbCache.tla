------------------------------ MODULE DbCache ------------------------------
(***************************************************************************)
(* One cached container of the database and the transactions around it:    *)
(*   - basic_db_accessor, cached_key_value_accessor and array_accessor     *)
(*     (src/common/db_abstract_accessor.h),                                *)
(*   - isolation_lock and cache_with_write_isolation                       *)
(*     (contrib/epee/include/cache_helper.h),                              *)
(*   - lmdb_db_backend (src/common/db_backend_lmdb.cpp).                   *)
(*                                                                         *)
(* A get is three critical sections (cache, database, cache), ending a     *)
(* transaction is four (m_rwlock, backend, isolation flag, m_rwlock): the  *)
(* threads interleave between them.  The exclusive mode of m_rwlock first  *)
(* keeps new readers out and then waits for those inside (see RwLock).     *)
(* The nested regions of the program all commit, so only the outermost     *)
(* transaction aborts here.                                                *)
(***************************************************************************)
EXTENDS Integers, Sequences, FiniteSets

CONSTANTS
    Writers,      \* threads that open write transactions
    Readers,      \* threads that read outside of one
    ReadLocked,   \* the readers that hold m_read_lock while they read
    Readonly,     \* the readers that open a read-only transaction
    MaxKey,       \* bound: the keys are 0 .. MaxKey
    Values,       \* the values stored
    NoValue,      \* a key that is not there
    NoThread,     \* the owner of a free lock
    Ops,          \* what writers do: "set", "erase", "push_back", "pop_back"
    Outcomes,     \* how an outermost transaction ends: "commit", "abort"
    MaxNest       \* bound: how deep transactions nest

Threads == Writers \cup Readers
Keys    == 0 .. MaxKey

ASSUME DbAssumption ==
    /\ MaxKey \in Nat /\ MaxNest \in Nat \ {0}
    /\ Writers \cap Readers = {}
    /\ ReadLocked \subseteq Readers /\ Readonly \subseteq Readers
    /\ NoThread \notin Threads
    /\ NoValue \notin Values \cup Keys
    /\ Outcomes \subseteq {"commit", "abort"}
    /\ Ops \subseteq {"set", "erase", "push_back", "pop_back"}

VARIABLES
    com,         \* the committed content of the container
    work,        \* LMDB's nested write transactions, outermost first
    write_lock,  \* owner of m_write_exclusive_lock (recursive, Len(work) deep)
    snap,        \* the snapshot of a reader's read-only transaction, if any
    tx_stack,    \* m_transactions_stack: how many write transactions of a thread
    stack_lock,  \* owner of m_transactions_stack_lock
    shared,      \* the readers inside m_rwlock
    exclusive,   \* the thread that has closed m_rwlock to new readers
    isolated,    \* isolation_lock::m_current_writer_thread
    cache,       \* m_cache: NoValue where it has no entry
    size_cache,  \* basic_key_value_accessor::size_cache
    size_valid,  \* and size_cache_valid
    pc, arg, val, \* the program point, the key and the value of a thread's call
    outcome,     \* how the thread is ending its transaction
    got          \* what the thread's last finished get returned

dbVars    == <<com, work, write_lock, snap>>
lockVars  == <<tx_stack, stack_lock, shared, exclusive, isolated>>
cacheVars == <<cache, size_cache, size_valid>>
callVars  == <<pc, arg, val, outcome, got>>
vars      == <<dbVars, lockVars, cacheVars, callVars>>

Content == [Keys -> Values \cup {NoValue}]
NoRead  == [key |-> NoValue, value |-> NoValue]
Empty   == [k \in Keys |-> NoValue]

Points == {"idle", "begun", "tx", "put", "erased", "region", "missed", "fetched",
           "ending", "locked", "finished", "unlocking"}

TypeOK ==
    /\ com \in Content /\ work \in Seq(Content) /\ cache \in Content
    /\ write_lock \in Threads \cup {NoThread}
    /\ snap \in [Threads -> Seq(Content)]
    /\ tx_stack \in [Threads -> Nat]
    /\ stack_lock \in Threads \cup {NoThread}
    /\ shared \subseteq Readers
    /\ exclusive \in Threads \cup {NoThread}
    /\ isolated \in Threads \cup {NoThread}
    /\ size_cache \in Nat /\ size_valid \in BOOLEAN
    /\ pc \in [Threads -> Points]
    /\ arg \in [Threads -> Keys \cup {NoValue}]
    /\ val \in [Threads -> Values \cup {NoValue}]
    /\ outcome \in [Threads -> {"commit", "abort"}]
    /\ got \in [Threads -> [key : Keys \cup {NoValue}, value : Values \cup {NoValue}]]

Init ==
    /\ com = Empty /\ work = <<>> /\ write_lock = NoThread
    /\ snap = [t \in Threads |-> <<>>]
    /\ tx_stack = [t \in Threads |-> 0]
    /\ stack_lock = NoThread
    /\ shared = {} /\ exclusive = NoThread /\ isolated = NoThread
    /\ cache = Empty /\ size_cache = 0 /\ size_valid = FALSE
    /\ pc = [t \in Threads |-> "idle"]
    /\ arg = [t \in Threads |-> NoValue]
    /\ val = [t \in Threads |-> NoValue]
    /\ outcome = [t \in Threads |-> "commit"]
    /\ got = [t \in Threads |-> NoRead]

Goto(t, point) == pc' = [pc EXCEPT ![t] = point]
Forget(t)      == arg' = [arg EXCEPT ![t] = NoValue] /\ val' = [val EXCEPT ![t] = NoValue]
Top(s)         == s[Len(s)]
Pop(s)         == SubSeq(s, 1, Len(s) - 1)
Count(content) == Cardinality({k \in Keys : content[k] # NoValue})

(* get_current_tx: a thread reads through its own transaction, or through  *)
(* one that lmdb_db_backend::get opens for that single read.               *)
View(t) == IF write_lock = t THEN Top(work)
           ELSE IF snap[t] # <<>> THEN Top(snap[t]) ELSE com

(* isolated_access: may this thread use the caches now?                    *)
isolated_access(t) == isolated \in {NoThread, t}

-----------------------------------------------------------------------------
(* Transactions *)

(* m_backend->begin_transaction: takes m_write_exclusive_lock, then opens  *)
(* an LMDB transaction inside the one the thread already has.              *)
BackendBegin(t) ==
    /\ pc[t] \in {"idle", "tx"}
    /\ write_lock \in {NoThread, t}
    /\ Len(work) < MaxNest
    /\ write_lock' = t
    /\ work' = Append(work, View(t))
    /\ Goto(t, "begun")
    /\ UNCHANGED <<com, snap, lockVars, cacheVars, arg, val, outcome, got>>

(* Mutants: the transaction is not pushed on the stack; the stack lock is  *)
(* not taken.                                                              *)
BeginTransaction_not_pushed(t) ==
    /\ pc[t] = "begun"
    /\ stack_lock = NoThread
    /\ isolated' = t
    /\ Goto(t, "tx")
    /\ UNCHANGED <<dbVars, tx_stack, stack_lock, shared, exclusive, cacheVars, arg, val, outcome, got>>
BeginTransaction_unlocked(t) ==
    /\ pc[t] = "begun"
    /\ tx_stack' = [tx_stack EXCEPT ![t] = @ + 1]
    /\ isolated' = IF tx_stack[t] = 0 THEN t ELSE isolated
    /\ Goto(t, "tx")
    /\ UNCHANGED <<dbVars, stack_lock, shared, exclusive, cacheVars, arg, val, outcome, got>>

(* The rest of begin_transaction, under m_transactions_stack_lock:         *)
(* set_isolation_mode if this is the thread's first write transaction.     *)
BeginTransaction(t) ==
    /\ pc[t] = "begun"
    /\ stack_lock = NoThread
    /\ tx_stack' = [tx_stack EXCEPT ![t] = @ + 1]
    /\ isolated' = IF tx_stack[t] = 0 THEN t ELSE isolated
    /\ Goto(t, "tx")
    /\ UNCHANGED <<dbVars, stack_lock, shared, exclusive, cacheVars, arg, val, outcome, got>>

(* Mutant: new readers are not kept out.                                   *)
EndTransaction_open(t) ==
    /\ pc[t] = "tx"
    /\ \E o \in Outcomes :
          /\ tx_stack[t] > 1 => o = "commit"
          /\ outcome' = [outcome EXCEPT ![t] = o]
    /\ Goto(t, "ending")
    /\ UNCHANGED <<dbVars, lockVars, cacheVars, arg, val, got>>

(* commit_transaction and abort_transaction call m_rwlock.lock(): from now *)
(* on no new reader gets in.                                               *)
EndTransaction(t) ==
    /\ pc[t] = "tx"
    /\ exclusive = NoThread
    /\ exclusive' = t
    /\ \E o \in Outcomes :
          /\ tx_stack[t] > 1 => o = "commit"
          /\ outcome' = [outcome EXCEPT ![t] = o]
    /\ Goto(t, "ending")
    /\ UNCHANGED <<dbVars, tx_stack, stack_lock, shared, isolated, cacheVars, arg, val, got>>

(* Mutant: the readers inside are not waited for.                          *)
ReadersGone_no_wait(t) ==
    /\ pc[t] = "ending"
    /\ Goto(t, "locked")
    /\ UNCHANGED <<dbVars, lockVars, cacheVars, arg, val, outcome, got>>

(* lock() returns when the readers inside have left.                       *)
ReadersGone(t) ==
    /\ pc[t] = "ending"
    /\ shared = {}
    /\ Goto(t, "locked")
    /\ UNCHANGED <<dbVars, lockVars, cacheVars, arg, val, outcome, got>>

(* m_backend->commit_transaction / abort_transaction, the first statement  *)
(* under m_transactions_stack_lock.  It gives m_write_exclusive_lock up    *)
(* while the caches are still isolated.                                    *)
BackendEnd(t) ==
    /\ pc[t] = "locked"
    /\ stack_lock = NoThread
    /\ stack_lock' = t
    /\ com' = IF outcome[t] = "commit" /\ Len(work) = 1 THEN Top(work) ELSE com
    /\ work' = IF outcome[t] = "commit" /\ Len(work) > 1
                 THEN Append(Pop(Pop(work)), Top(work)) ELSE Pop(work)
    /\ write_lock' = IF Len(work) = 1 THEN NoThread ELSE t
    /\ got' = [got EXCEPT ![t] = NoRead]
    /\ Goto(t, "finished")
    /\ UNCHANGED <<snap, tx_stack, shared, exclusive, isolated, cacheVars, arg, val, outcome>>

(* Mutant: an abort leaves the cache as it is.                             *)
SwitchIsolationOff_keeps_cache(t) ==
    /\ pc[t] = "finished"
    /\ stack_lock' = NoThread
    /\ tx_stack' = [tx_stack EXCEPT ![t] = @ - 1]
    /\ isolated' = IF tx_stack[t] = 1 THEN NoThread ELSE isolated
    /\ Goto(t, "unlocking")
    /\ UNCHANGED <<dbVars, shared, exclusive, cacheVars, arg, val, outcome, got>>

(* Then the stack is popped and, after the last write transaction, the     *)
(* containers are told: on_write_transaction_abort clears the cache (not   *)
(* the cached size), and both switch the isolation off.                    *)
SwitchIsolationOff(t) ==
    /\ pc[t] = "finished"
    /\ stack_lock' = NoThread
    /\ tx_stack' = [tx_stack EXCEPT ![t] = @ - 1]
    /\ isolated' = IF tx_stack[t] = 1 THEN NoThread ELSE isolated
    /\ cache' = IF tx_stack[t] = 1 /\ outcome[t] = "abort" THEN Empty ELSE cache
    /\ Goto(t, "unlocking")
    /\ UNCHANGED <<dbVars, shared, exclusive, size_cache, size_valid, arg, val, outcome, got>>

UnlockRw(t) ==
    /\ pc[t] = "unlocking"
    /\ exclusive' = NoThread
    /\ Goto(t, IF tx_stack[t] = 0 THEN "idle" ELSE "tx")
    /\ outcome' = [outcome EXCEPT ![t] = "commit"]
    /\ UNCHANGED <<dbVars, tx_stack, stack_lock, shared, isolated, cacheVars, arg, val, got>>

-----------------------------------------------------------------------------
(* Writing *)

(* size(), one critical section of the isolation lock.                     *)
SizeSeen(t) == IF isolated_access(t) /\ size_valid THEN size_cache ELSE Count(View(t))

Update(k, v) == work' = [work EXCEPT ![Len(work)][k] = v]

(* set(k, v) and, at k = size(), push_back(v): the database first.         *)
Put(t) ==
    /\ pc[t] = "tx"
    /\ \E k \in Keys, v \in Values :
          /\ \/ "set" \in Ops
             \/ "push_back" \in Ops /\ k = SizeSeen(t)
          /\ Update(k, v)
          /\ arg' = [arg EXCEPT ![t] = k]
          /\ val' = [val EXCEPT ![t] = v]
    /\ size_valid' = FALSE
    /\ Goto(t, "put")
    /\ UNCHANGED <<com, write_lock, snap, lockVars, cache, size_cache, outcome, got>>

(* cache_base::set puts the entry in and trims the list of recently used   *)
(* keys, which may drop any entry, the new one too.                        *)
CacheSet(t) ==
    \/ ~isolated_access(t) /\ UNCHANGED cache
    \/ /\ isolated_access(t)
       /\ LET filled == [cache EXCEPT ![arg[t]] = val[t]]
          IN  \/ cache' = filled
              \/ \E k \in Keys : cache' = [filled EXCEPT ![k] = NoValue]

PutInCache(t) ==
    /\ pc[t] = "put"
    /\ CacheSet(t)
    /\ Forget(t)
    /\ Goto(t, "tx")
    /\ UNCHANGED <<dbVars, lockVars, size_cache, size_valid, outcome, got>>

(* erase(k) and, at k = size() - 1, pop_back().                            *)
Erase(t) ==
    /\ pc[t] = "tx"
    /\ \E k \in Keys :
          /\ \/ "erase" \in Ops
             \/ "pop_back" \in Ops /\ k = SizeSeen(t) - 1
          /\ Update(k, NoValue)
          /\ arg' = [arg EXCEPT ![t] = k]
    /\ Goto(t, "erased")
    /\ UNCHANGED <<com, write_lock, snap, lockVars, cacheVars, val, outcome, got>>

(* Mutant: the cached size survives an erase.                              *)
EraseFromCache_keeps_size(t) ==
    /\ pc[t] = "erased"
    /\ cache' = [cache EXCEPT ![arg[t]] = NoValue]
    /\ Forget(t)
    /\ Goto(t, "tx")
    /\ UNCHANGED <<dbVars, lockVars, size_cache, size_valid, outcome, got>>

EraseFromCache(t) ==
    /\ pc[t] = "erased"
    /\ size_valid' = FALSE
    /\ cache' = [cache EXCEPT ![arg[t]] = NoValue]
    /\ Forget(t)
    /\ Goto(t, "tx")
    /\ UNCHANGED <<dbVars, lockVars, size_cache, outcome, got>>

-----------------------------------------------------------------------------
(* Reading *)

EnterRegion(t) ==
    /\ t \in Readers /\ pc[t] = "idle"
    /\ t \in ReadLocked => exclusive = NoThread
    /\ shared' = IF t \in ReadLocked THEN shared \cup {t} ELSE shared
    /\ snap' = [snap EXCEPT ![t] = IF t \in Readonly THEN <<com>> ELSE <<>>]
    /\ Goto(t, "region")
    /\ UNCHANGED <<com, work, write_lock, tx_stack, stack_lock, exclusive, isolated, cacheVars,
                   arg, val, outcome, got>>

(* The end of a read-only transaction pops the stack of transactions, too. *)
LeaveRegion(t) ==
    /\ pc[t] = "region"
    /\ t \in Readonly => stack_lock = NoThread
    /\ shared' = shared \ {t}
    /\ snap' = [snap EXCEPT ![t] = <<>>]
    /\ Goto(t, "idle")
    /\ got' = [got EXCEPT ![t] = NoRead]
    /\ UNCHANGED <<com, work, write_lock, tx_stack, stack_lock, exclusive, isolated, cacheVars,
                   arg, val, outcome>>

Home(t) == IF t \in Writers THEN "tx" ELSE "region"

(* A get returns the value v of the key k to its caller.                   *)
Returns(t, k, v) ==
    /\ got' = [got EXCEPT ![t] = [key |-> k, value |-> v]]
    /\ Forget(t)
    /\ Goto(t, Home(t))

(* get(k): the cache is asked first.                                       *)
GetFromCache(t) ==
    /\ pc[t] \in {"region", "tx"}
    /\ \E k \in Keys :
          \/ /\ isolated_access(t) /\ cache[k] # NoValue
             /\ Returns(t, k, cache[k])
          \/ /\ ~isolated_access(t) \/ cache[k] = NoValue
             /\ arg' = [arg EXCEPT ![t] = k]
             /\ Goto(t, "missed")
             /\ UNCHANGED <<val, got>>
    /\ UNCHANGED <<dbVars, lockVars, cacheVars, outcome>>

(* On a miss the database is read, in whatever state it is by now.         *)
GetFromDb(t) ==
    /\ pc[t] = "missed"
    /\ LET v == View(t)[arg[t]]
       IN  \/ /\ v = NoValue
              /\ Returns(t, arg[t], v)
           \/ /\ v # NoValue
              /\ val' = [val EXCEPT ![t] = v]
              /\ Goto(t, "fetched")
              /\ UNCHANGED <<arg, got>>
    /\ UNCHANGED <<dbVars, lockVars, cacheVars, outcome>>

(* What was read is put into the cache, if the thread may use it by then.  *)
FillCache(t) ==
    /\ pc[t] = "fetched"
    /\ CacheSet(t)
    /\ Returns(t, arg[t], val[t])
    /\ UNCHANGED <<dbVars, lockVars, size_cache, size_valid, outcome>>

(* size() called by a reader or a writer: refreshes the cached size.       *)
CallSize(t) ==
    /\ pc[t] \in {"region", "tx"}
    /\ isolated_access(t)
    /\ size_cache' = SizeSeen(t)
    /\ size_valid' = TRUE
    /\ UNCHANGED <<dbVars, lockVars, cache, callVars>>

(* reset_db_cache, the console command clear_cache.                        *)
ClearCache(t) ==
    /\ t \in Readers /\ pc[t] = "idle"
    /\ isolated_access(t)
    /\ cache' = Empty
    /\ UNCHANGED <<dbVars, lockVars, size_cache, size_valid, callVars>>

-----------------------------------------------------------------------------
Ending(t) == ReadersGone(t) \/ BackendEnd(t) \/ SwitchIsolationOff(t) \/ UnlockRw(t)
Call(t)   == GetFromDb(t) \/ FillCache(t) \/ PutInCache(t) \/ EraseFromCache(t)

Transaction(t) == t \in Writers /\
    (BackendBegin(t) \/ BeginTransaction(t) \/ EndTransaction(t) \/ Ending(t)
       \/ Put(t) \/ Erase(t))

Next == \E t \in Threads :
    \/ Transaction(t) \/ Call(t)
    \/ EnterRegion(t) \/ LeaveRegion(t) \/ GetFromCache(t) \/ CallSize(t) \/ ClearCache(t)

Spec == Init /\ [][Next]_vars

(* A scheduled thread finishes its call; a read region is a finite piece   *)
(* of code, so its end is reached however many calls are made inside.      *)
FairSpec ==
    /\ Spec
    /\ \A t \in Writers : WF_vars(Ending(t)) /\ WF_vars(BeginTransaction(t))
    /\ \A t \in Threads : WF_vars(Call(t))
    /\ \A t \in Readers : SF_vars(LeaveRegion(t))

-----------------------------------------------------------------------------
(* Properties *)

(* The content a cache entry must agree with: that of the isolated writer, *)
(* and the committed one when there is none.                               *)
Truth == IF isolated \in Threads THEN View(isolated) ELSE com

(* m_cache holds nothing but what the database would return, in spite of   *)
(* gets that read the database before a commit and fill the cache after    *)
(* it, and of aborts.  The entry being written or erased is excepted.      *)
CacheCoherent ==
    \A k \in Keys :
        \/ cache[k] \in {NoValue, Truth[k]}
        \/ \E t \in Writers : pc[t] \in {"put", "erased"} /\ arg[t] = k
        \/ \E t \in Writers : pc[t] = "finished" /\ outcome[t] = "abort"

(* The assertions of isolation_lock never fire: nobody is isolated when a  *)
(* writer calls set_isolation_mode although the previous one has given up  *)
(* m_write_exclusive_lock before it left isolation; and the writer is the  *)
(* isolated thread whenever it erases or leaves isolation.                 *)
IsolationAsserts ==
    \A t \in Writers :
        /\ pc[t] = "begun" /\ stack_lock = NoThread /\ tx_stack[t] = 0 => isolated = NoThread
        /\ pc[t] \in {"tx", "put", "erased", "ending", "locked", "finished"} => isolated = t

(* The assertion of array_accessor::back(): the element at size() - 1 is   *)
(* there, for whoever asks, whichever of the cached and the real size is   *)
(* used.                                                                   *)
BackPresent ==
    \A t \in Threads :
        pc[t] \in {"region", "tx"} /\ SizeSeen(t) > 0
            => SizeSeen(t) - 1 \in Keys /\ View(t)[SizeSeen(t) - 1] # NoValue

(* A transaction that is being ended does end: the writer waits only for   *)
(* readers that leave and for the short sections of the stack lock.        *)
TransactionEnds ==
    \A t \in Writers : pc[t] = "ending" ~> pc[t] = "unlocking"

(* The cached container behaves as the plain transactional store, for all  *)
(* gets of writers and of readers under m_read_lock, for whom (the comment *)
(* on m_rw_lock) the state of the core does not change in between.         *)
Store == INSTANCE TxStore WITH
    txs     <- [t \in Threads |-> IF write_lock = t THEN work ELSE <<>>],
    regions <- {t \in ReadLocked : pc[t] # "idle"},
    got     <- [t \in Threads |-> IF t \in Writers \cup ReadLocked THEN got[t] ELSE NoRead]

ImplementsStore == Store!Spec
=============================================================================
