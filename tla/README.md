# Virie, modelled in TLA+

Virie is a CryptoNote node (proof of work and proof of stake) with a wallet. The
daemon keeps a block chain and a pool of transactions in two LMDB databases, talks
to peers, and serves wallets and miners. This project models the parts that decide
which chain a node is on, how it learns of it from its peers, how a wallet follows it, and
what keeps their state in one piece when blocks, transactions, readers, operators, crashes
and clocks interleave.

Paths below are relative to the repository; line numbers refer to the modelled
commit and are listed definition by definition in `PROJECT.json` under `map`.

## The system

| Component | State | Operations | What makes it correct |
|---|---|---|---|
| Blockchain storage (`src/currency_core/blockchain_storage.cpp`) | in the database: blocks and their index, transactions, spent keys, outputs by amount, multisig outputs, aliases; in memory: alternative blocks, the transactions and key images they hold, invalid blocks, caches of difficulty and median time | `add_new_block` with the switch of chains, `truncate_blockchain`, `prune_aged_alt_blocks`, `clear_altblocks`, many readers | indexes agree with the blocks; no key image spent twice; only a better chain takes over; what is in memory agrees with itself although it is never rolled back |
| Checkpoints (`checkpoints.cpp`) | heights with a required block | three predicates | history below a passed checkpoint is final |
| Transaction pool (`tx_pool.cpp`) | a database of its own: transactions, key images, black list, cancelled offers; in memory: taken transactions, aliases | add, take, remove stuck, purge, block template | a transaction is where a block or an alternative block can find it; counters of key images are exact; a template makes a good block |
| Core (`currency_core.cpp`) | the lock of incoming transactions | `handle_incoming_tx`, idle handler | nothing known is admitted again |
| Database accessors (`src/common/db_abstract_accessor.h`), cache (`contrib/epee/include/cache_helper.h`), LMDB backend (`src/common/db_backend_lmdb.cpp`) | transactions of each thread, the thread that isolates the caches, cached entries and sizes | begin, commit, abort, get, set, erase, size, push and pop | what a get returns is what the database holds; readers under the read lock see one state |
| Read-write lock (`contrib/epee/include/readwrite_lock.h`) | owner and depth, counter of readers, data of each thread | lock and unlock in two modes | exclusion, no lost wake-up |
| Synchronisation protocol (`src/currency_protocol/currency_protocol_handler.inl`) with the connections of `src/p2p/net_node.inl` | for each connection its state, needed and requested objects, heights, callbacks; ids of blocks in work; failures and blocked addresses | sync data, new blocks, chain requests and entries, requests and answers for objects, timed sync | a node gets every block its peers have, whatever is late or lost; no connection waits for ever; a block is relayed once |
| Wallet (`src/wallet/wallet2.cpp`) | its copy of the chain's ids, transfers, key images, waiting transactions, history, a cache of free transfers, a file | refresh, detach, scan of the pool, transfer, store and load | its books say what the chain says after any split, failure or restart |
| Miners, RPC | templates; answers | a block found; answers for wallets | in `TxPool` and `Wallet`, as far as these need them |
| Difficulty, formats, offers service, clients | | | see "Not modelled" |

How they interact: a peer or a miner hands a block to the core, which calls
`add_new_block`. It opens a write transaction of the chain's database, takes the
pool's lock, and every step of it reads and writes containers through the cached
accessors. Each change of the pool is a committed transaction of the *pool's*
database. When the chain's transaction is committed or aborted the writer takes the
read-write lock exclusively, so that readers under `m_read_lock` never see the
state change under them. Other threads add transactions, prune alternative blocks,
remove stuck transactions, answer requests. Peers are handled by one strand for each
connection, all of which hand blocks and transactions to the same core. A wallet is
another process or thread: it asks the daemon again and again, and the daemon's chain may
change between any two of its calls.

What is hard here: the chain's database is transactional, the pool's is
transactional separately, and the alternative chains are not transactional at all,
so every early return of the switch must put three stores right; the caches are
shared between a writer and readers with different views; a switch depends on the
clock and on checkpoints, which may have changed when it is half done. An incoming
transaction is handled in four steps with other threads in between. What one connection
asks for another one may bring, and an answer may belong to a chain the peer has left. A wallet
undoes its books by several independent rules, after blocks it may have read only in
part. The hazards
are listed with their lines in `PROJECT.json`.

## Modules

* `RwLock` models `shared_recursive_mutex`. One action per critical section; a
  thread asleep in `cv.wait` is at a program point of its own, a notification or a
  spurious wake-up moves it on. `held` is the stack of regions a thread is in, as the
  scoped guards of the code nest them. `Upgraders` are threads that break the rule
  stated in the class's comment: they are refused with an exception, which leaves `exclusive_lock` taken. The
  thread leaves its shared regions as the exception unwinds them and may use the mutex again, `MaxRefused` times in
  all; `refused` counts this.
* `RwLock_proofs` proves about it, see below.
* `TxStore` is the abstract specification of a container: nested write transactions
  of one thread at a time over a committed map, and readers for whom the committed map
  stands still. No caches, no isolation, no locks.
* `DbCache` models one cached container with the code around it: the backend's
  write lock and nested LMDB transactions (`work`), the stack of transactions
  (`tx_stack`), the isolation flag, the cache, the cached size, and the read-write
  lock (here as the two steps that matter: closed to new readers, empty of readers).
  A `get` is three actions (`GetFromCache`, `GetFromDb`, `FillCache`), the end of a
  transaction is five (`EndTransaction`, `ReadersGone`, `BackendEnd`,
  `SwitchIsolationOff`, `UnlockRw`). `ImplementsStore` is the refinement of `TxStore`.
* `Blockchain` models `add_new_block` and everything it calls that changes state,
  the other operations on alternative blocks, and the part of the pool and of the
  core they share. `db` is the writer's view of the database, `saved` the committed
  one; `pool`, `taken`, `bare`, `alt`, `alt_txs`, `alt_ki`, `invalid` are outside the
  transaction, as in the code. `bare` are the transactions of the pool whose signatures
  were cleared: in the checkpoint zone `handle_block_to_main_chain` clears them before it
  stores a transaction, so what is popped or put back returns without them, and neither an
  alternative block nor a block outside the zone can use it until it arrives again.
  Outputs are locked by height or by time, as `is_tx_spendtime_unlocked` reads the number;
  only the main path asks. One block popped, connected or pushed back is one
  action; within one block the pool's changes are made in one step (nobody else
  reads them in between but `add_new_tx`, which sees `taken`). `phase` is where the
  call is. A block is an element of a tree of constants, so what depends on the block
  and its ancestors alone (weight, proofs, coinbase, median time) is a constant, and what
  depends on the node's state (clock, pool, spent keys, checkpoints passed, alternative blocks
  known) is computed as the code does, in its order.
  `blind` is a history variable, see *Observations*.
  `stale` is what `m_db_blocks.size()` goes on returning after an aborted transaction, see *The size an abort leaves behind*.
* `Blockchain_proofs` and `BlockchainAlt_proofs` prove about it, see below.
* `TxPool` models the pool with all its containers, the thread of incoming transactions (`LookUp`,
  `Admit`, `CheckInputs`, `Insert`: the places where `add_tx` gives its locks up), the thread of
  blocks and the miner. A transaction is what the rules tell apart. `handle_block_to_main_chain` is the path of a
  block through the pool with its early returns: transactions are taken one after the other, a bad one is put back
  and listed as black, and a refused block gives back what it has taken, the last one first. A `Switch` replaces one block by two;
  when it fails the chain is as before and the pool is not. `fill_block_template` is the code's loop as a recursive function;
  transactions with equal fees come in any order, which `std::sort` leaves open. The loops over the transactions of a block
  are recursive functions too. `raced` is a history variable, see *Observations*.
  The alternative blocks are left to `Blockchain`: here, which transactions they need is any set.
* `TxPool_proofs` proves about it, see below.
* `Sync` models a node with several connections. `outgoing` and `incoming` are the messages of a
  connection in order, handlers of different connections interleave, and the two handlers that pass
  blocks to the storage one by one (`handle_response_get_objects`, `handle_notify_new_block`) do so in steps (`work`).
  The storage is what `Blockchain` makes of it: stored and invalid blocks and the top, with one simplification: a block on an alternative
  chain whose inputs or reward are wrong is refused at once, while the code keeps it until a switch to its chain fails, and then remembers it and what
  follows it as invalid. On the main chain a block that fails is remembered or not, as its inputs were the reason or not. The peers run the same
  code, of which only the serving side is modelled; they may be on chains that this node rejects, they grow and switch.
* `Sync_proofs` proves about it, see below.
* `Wallet` models a wallet and a daemon that moves. Each call to the daemon is a step of its own; a
  block is read transaction by transaction, and a failing call for output indexes leaves it read in part (`torn` remembers which, and
  `reread` also the blocks that were read from the start again afterwards). The history is the vector of the code: its entries are kept by transaction and
  height, in order, each as the outputs it counts as received. What the wallet asks with is `ShortHistory`, whose ids have gaps, so that an answer may begin with blocks
  the wallet has. A crash while the file is written leaves one with keys and no whole books, which loads without history (`Idle`), or one without its keys, which `load` refuses
  (`wallet2.cpp:1865`): the wallet is `lost`.
* `Wallet_proofs` proves about it, see below; `InductionLemmas` is what the proofs about alternative blocks, `TxPool`, `Sync` and `Wallet` rest on.
* `MC...` modules give the constants for TLC. The operators whose names have the form
  `X_reason` are deliberately wrong versions of `X`; no specification uses them, and
  `PROJECT.json` says which property notices each.

## Runs

| Run | Shows |
|---|---|
| `rwlock` | three threads, nesting of two, one upgrader that is refused up to twice and goes on: exclusion, exact counter, no lost wake-up, the effect of a refused upgrade (2793 states); with fairness, a writer that owns `exclusive_lock` gets in unless a reader tries to upgrade |
| `db_cache` | two writers (nesting of two, commit and abort), one reader under the read lock, one key, two values: the cache is coherent, the assertions of `isolation_lock` hold, the refinement of `TxStore` (in which a reader's view stands still), transactions end |
| `db_array` | two writers push and pop through the cached size and commit: `back()` finds its element |
| `db_abort` (violated) | the same with aborts: the cached size survives the abort |
| `chain` | the tree of nine blocks drawn in `MCBlockchain`, with truncation, pruning and stuck transactions: the safety properties of the chain and of the alternative blocks, also under the size that a failed switch has left behind (35447 states) |
| `chain_faults` | nine blocks on three branches and a checkpoint on one of them, with a heavier block below it, crashes, exceptions after any number of transactions, a clock that moves both ways, purge and clear, outputs locked by time, transactions that lose their signatures in the zone; the size left behind is too large or too small (75422 states) |
| `chain_converge` | four blocks, no faults: a node that is offered everything ends up on the heaviest valid chain (271 states) |
| `chain_stuck` (violated) | the same with a checkpoint on the heavier chain: the node stays where it is for ever; the first attempt leaves a size that is too large behind, and `back()` throws from then on |
| `sync` | a node and two peers: one on the best chain that grows; the other on a branch, behind, or on a chain this node refuses, for its rules, its proof or a transaction, or for a checkpoint it does not know (174138 states) |
| `pool` | four transactions that conflict in key images and in an alias, refer to each other, expire, cancel an offer, or are signed wrongly, with and without a checkpoint; three blocks, by the network, by a switch or by the miner |
| `pool_soft` (violated) | a transaction of a block is refused by the pool's rule on fees |
| `wallet` | a tree of seven blocks with four outputs of the wallet, one of them spent in two ways; two faults (321959 states) |

The violated runs state what a comment or an assertion of the code says; the
findings in `PROJECT.json` quote it.

Properties of `Blockchain`: `ChainConsistent` (the indexes are exactly those of the
blocks, in every intermediate state), `AltTxsCounted`, `AltKeyImagesExact`,
`AltTxsAvailable` (the in-memory structures after every way out),
`NoBetterAlt` and `OnlyToBetter` (the rule of the heaviest chain), `InvalidOnlyIfBroken`
(nothing is condemned for what the pool or the clock was at the moment), `AddedIsStored`,
`NoReadmission`, `CheckpointFinality`, `Converges`.

They do not all hold under all events, and the configurations say so: not
`AltTxsAvailable` and `AltKeyImagesExact` after `purge_transactions` (the operator takes away what
alternative blocks need, and an image is given back by looking at the transaction) or after an exception, not `AddedIsStored` when the
clock moves or a transaction refers to an output of its own block (see the observations) or where there is a checkpoint (`chain_stuck`), not `NoBetterAlt` after an exception in a switch (the block that
caused the switch stays among the alternative ones), not `InvalidOnlyIfBroken` when an output is locked by time (a block that comes a moment
too early is remembered as invalid) or where there are checkpoints (a branch may lose its signatures in one zone and be asked for them outside it).

Properties of `TxPool`: `KeyImagesCounted` (no image is held for a transaction that is gone and none is free
whose transaction is there; in the checkpoint zone, where conflicting transactions are let in, only the first half holds; the images of `raced` transactions are left out),
`TemplateSound`, `Blamed` (a transaction does not spoil one block of ours after the other), `NoTxLost`.

Properties of `Sync`: `NoStuckConnection`, `AllObtained` (in step means that the blocks are there), `RelayedOnce`,
and `InStep`: good peers that stop moving are caught up with and their connections end in `state_normal`.

Properties of `Wallet`: `KeyImagesIndexed` (which is also the assertion of `detach_blockchain`), `BooksMatchChain`,
`SelectionSound`, and `CatchesUp`: the wallet's copy becomes the daemon's chain, unless the wallet's file is lost. `BooksMatchChain` says of the history that each transaction of the copied chain
has one entry that counts all it brought, and that further ones exist only where its block was read again after a failing call, and count nothing as received: an amount is never counted twice,
but such an entry of a spend is wrong by its change (see *Observations*).

### The size an abort leaves behind

`size()` of a container is cached, and an aborted transaction restores the container and not the cached number (`db_abort`). A switch that fails, or a block on
the main path that throws, has called `m_db_blocks.size()` inside its transaction (`validate_blockchain_prev_links`, `blockchain_storage.cpp:867`, 883, and the exception's way out, 4611), so
the node goes on with the size of the aborted chain. `Blockchain` keeps it in `stale` until it is right again, which takes a restart. What follows is modelled
as the code does it:

* too large: `back()` and `operator[]` throw (`db_abstract_accessor.h:1073`). No new block is looked at any more (`BackThrows`), and truncation pops nothing;
* too small: the main chain seems to end early (`Seen`). Blocks are compared with, and checked on top of, an older block, against indexes that have the newer blocks, too. A block that follows the
  older one and passes is written over the committed one that followed it (`MainOverwrites`); one that does not pass may be remembered as invalid; a better alternative chain makes a switch begin in the wrong place (`AltSwitchAstray`),
  truncation pops the wrong blocks (`TruncateAstray`). The first block of an alternative chain may be refused because two sizes differ (`SizesDiffer`).

Where the chain has been written to, or a switch begun, with such a size, the model ends: `phase` is `"astray"`, and nothing is said of what the node does with a chain
whose blocks and indexes disagree. The properties say how far the code keeps its promises: `ChainConsistent` until the node is astray, `OnlyToBetter` and `CheckpointFinality` except for
that step, and only when the size was too small, `InvalidOnlyIfBroken` while the size is not too small. `NoBetterAlt` needs no exception: the older block is never heavier than the top, so an alternative
block is preferred to what is seen sooner than to the top, not later. These exceptions are the consequences of the finding `db_abort`, and TLC
reaches each of them in `chain` and `chain_faults`: in the shortest way astray there, an exception while the second block is popped leaves the size of the chain without it, and a lighter block is written over
the one that was popped.

### Bounds

* `RwLock`: three threads are a writer, a reader and a third that is either; nesting
  of two shows recursion in both modes. Two refusals show that a refused thread may come again; the lock is taken for good by the first. The theorems cover every other number.
* `DbCache`: one key suffices for coherence, since no step relates two keys but the
  eviction, which is modelled as dropping any key; two values tell old from new; two
  writers are needed because a writer may begin while the last one is leaving
  isolation. `db_array` has two keys, so that a wrong size makes a hole.
* `Blockchain`: two branches that overtake each other, an equal weight decided by proof, a
  double spend across branches, a reference across blocks, a block that only the
  main path refuses. Switches of up to three blocks against two, both ways; at most one incoming
  transaction is being looked up at a time, as `m_incoming_tx_lock` demands.
  That an alternative block is pruned `blind`ly takes a deeper
  tree than this one; the theorem is for any tree, and is how the case was found.
  `AltLivetime`, `Window` and the time limits are as small as makes both answers occur;
  heights and times share one number line that `MaxBlockNumber` divides, as in the code. In
  `chain` an output is locked up to the very height at which it is spent, in `chain_faults` up to
  a time the clock reaches or does not reach.
* `TxPool`: `MaxEvents` incoming transactions and clean-ups (three), `MaxBlocks` blocks (three, so that a switch of one
  against two happens after a block), `MaxForeign` transactions in a block of the network (one; the miner's blocks have more). The
  block size makes the template overflow. That a raced transaction's image stays counted takes more blocks than the run has; the theorem is for
  any number, and it is how the case was found.
* `Sync`: two peers, because what is hard is that one brings what the other was asked for. Six ids in a chain
  entry and four blocks in a request, so that both a second request and a second entry are needed. A timed sync comes only when nothing
  else is on its way, and connections to a peer that has come to its last block hold: both only bound the number of messages. A connection fails at most
  `FailsBeforeBlock` times before its address is blocked.
* `Wallet`: answers of three blocks on chains of up to four, so that a refresh takes several pulls; a daemon that goes to a
  heavier and shorter chain; `SolidSize` one, so that the ids a wallet asks with have gaps; `MaxFaults` (two) failing calls, lost answers, stores and crashes together,
  which is enough for a block that is read in part and then again, and for a file that is older than the wallet. In the code an answer has up to 4000 blocks
  (`src/currency_core/currency_config.h:199`), so that only a very deep split could give an answer of known blocks alone, after which the refresh would end early; the bounds keep away from that, too.

### Fairness

* `RwLock`: a scheduled thread finishes the code inside the mutex; regions are
  finite code, so a reader leaves. Nothing is assumed between threads that compete for
  `exclusive_lock`.
* `DbCache`: the same for the calls and the ends of transactions; a region under
  the read lock is finite.
* `Blockchain`: a call of `add_new_block` goes on; the network keeps offering blocks and
  transactions the node does not have (peers exchange their chains on every timed sync
  and send the transactions with the blocks). Offers are strongly fair because a block
  is acceptable only in some states and peers repeat themselves.
* `Sync`: weak fairness of the handlers and callbacks of a connection (its strand runs them one after the
  other), of connecting, of the peer's answers and of timed syncs (`idle_worker` repeats both). Nothing is assumed of the peers' own chains.
* `Wallet`: a refresh is strongly fair, because the idle handler of `wallet_rpc_server` (`src/wallet/wallet_rpc_server.cpp:61`)
  refreshes the wallet every two seconds, between other requests; the steps of a refresh and the sending of a transaction go
  on. Faults are bounded, and so is the number of times the daemon can move to a heavier chain.

Deadlock is not checked in `rwlock`: after a refused upgrade everyone may wait, which is
what `RefusedUpgradeBlocks` is about. Nor is it in the runs of `TxPool`, whose bounds let everything stop, and of `Wallet`, where an
index beyond the end of `m_transfers` (undefined behaviour) ends the process. In the other runs TLC also checks that no
state is stuck.

## Proofs

`RwLock_proofs`, for any finite set of threads, any set of upgraders among them and any
nesting. The assumptions are `RwThreadsAssumption`: the threads are finitely many and
`NoThread` is not one.

The inductive invariant `IInv` has four parts besides the types. `ThreadInv` says for one
thread how its counter, its writer flag and its stack of regions fit the program
point it is at. `OwnerInv` says that `exclusive_lock` belongs to the one thread that has
taken it, `depth` times, where `Taken` counts what the stack and the program point
say was taken. `ReadersCounted` is the cardinality of the readers. `NoReadersInside`
says that a thread in an exclusive region implies `readers_count = 0`. Exclusion alone is not inductive: it needs the
owner, because a second writer is kept out by `exclusive_lock` and a reader by the
counter, and it needs `ThreadInv`, because a writer may be inside shared regions
without being counted.

* `Invariance`: `Spec => []IInv`; one lemma per kind of step (`TakeStep`,
  `EnterExclusive`, `LockWaits`, `UnlockStep`, `SharedEnterStep`, ...), so that the proof of the
  step follows the actions.
* `TypeCorrect`, `Exclusion`, `ReadersExact`: consequences.
* `WakeupsNotLost`: `NoLostWakeup` is inductive relative to `IInv`.
* `UpgradeBlocks`: the action property, from `IInv`: a thread that has been refused
  owns `exclusive_lock` once more than it will ever release (`Taken` counts the refusals), whatever it does afterwards, and every way into the mutex goes through it.

`DbCache_proofs`, for any threads, keys `0 .. MaxKey`, values and nesting, every subset of operations and
outcomes. The assumption is `DbAssumption` (writers and readers are disjoint, the null values are not
among what they stand for); the results on the cache also assume `Readers \subseteq ReadLocked`, which is stated in each of them:
without it they are false (see `tx_pool.h` under *Observations*).

The inductive invariant `IInv` says for each point of a writer which locks it has: the write lock as long as LMDB
has a transaction of it (`Depth`), the isolation as long as its stack is not empty, which is longer, and the stack
lock exactly in between. That last part is what makes `set_isolation_mode` safe: a writer that
has given up the write lock and is still isolated holds `m_transactions_stack_lock`, for which the next writer waits
(`NobodyElse`). `IsolationAsserts` is not inductive without it.

* `Invariance`, `TypeCorrect`, `IsolationHolds`, with one lemma per action.
* `CacheInvariance`: `CInv` adds that a writer has `m_rwlock` for itself only when no reader is inside (`SharedInv`),
  that a snapshot is the committed content (`SnapInv`), that what a call carries from one critical section to the next is still
  what its thread sees (`CarryInv`) and that a first transaction starts from the committed content
  (`BegunInv`). `CacheIsCoherent` follows: a stale fill would need a commit between the read and the fill, and a
  commit waits for the readers.
* `SizeInvariance`, `BackIsPresent`: back() finds its element. They assume in addition that every transaction commits and that writers only push
  and pop, as `db_array` does; with aborts the property is false, which `db_abort` shows. `SizeInv` says that the committed content and
  the content of every nested transaction are arrays (`0 .. n - 1` and nothing else), that a snapshot is one, and that a cached size that is valid is
  the number of elements its user would count, except between the erasure of the last element and the update of the size. A count is a cardinality, so the proof rests on that of an interval.
* `CacheImplementsStore`: `Spec => ImplementsStore`, by one lemma per action of `TxStore` (`StoreBegin`, `StoreWrite`, `StoreEnd`,
  `StoreRegion`, `StoreGet`); the steps of locks, isolation and cache are stutters, and a hit in the cache is a get
  because the cache is coherent (`HitIsView`).

`Blockchain_proofs`, for every tree of blocks (finite or not), every assignment of transactions,
key images, references, unlock times, weights and proofs, every function of checkpoints and every
choice of events. The assumptions: `PathAssumption` (the path of a block ends with it, and every
prefix of a path is a path), `BlockAssumption` (types, weights grow along a path, a genesis
block without transactions), `EnvironmentAssumption`, `CheckpointAssumption` (a checkpoint at
height 0 names the genesis block). TLC evaluates all of them in every run.

The inductive invariant `IInv` is `Sound \/ Stray`. `Stray` is a node that has written, or begun a switch, under a size left behind by an abort: of
it only the types and the counters of the alternative blocks are said. `Sound` has these parts besides the types:

* `Good(db)` and `Good(saved)`: `Consistent` indexes, `Linked` (block number `i` of the chain is at
  depth `i` of the tree and the chain is its path), `Checkpointed`. `Linked` is needed for
  checkpoints: two chains with the same block at a checkpoint agree below it.
* `AltInv`: `AltTxsCounted`, and that the alternative blocks are finitely many, without which a cardinality
  says nothing.
* `PhaseInv`: what `add_new_block` knows where it is. In a switch, that the block that caused it is
  preferred to the *committed* top and above its checkpoints (`TakesOver`), that `chain` ends with it, and
  that the first `at` blocks of `chain` are in the main chain; before the commit, that
  the writer's top extends or takes over from the committed one; otherwise that both views are the same. Of `stale` it says that it is wrong, positive, and
  there only between two calls or before a block is checked on the main path, which is why no switch and no truncation that is under way ever sees it.
  `OnlyToBetter` is not inductive without it, because the decision and the commit are many steps apart.
* `TakenInv`: what the writer's chain has and the committed one has not is in `taken`. `LookupInv`: a
  transaction that was nowhere when it was looked up is in neither chain and not in the pool. `NoReadmission`
  follows from these two, and neither is inductive without the other.

One lemma per group of actions shows that `IInv` is kept (`MainStep`, `AltStep`, `ConnectStep`, `PushStep`, `EndStep`,
`TruncateStep`, `PoolStep`, `EnvironmentStep`), and `AstrayStep` that the only ways out of `Sound` take a wrong size, resting on lemmas about the storage (`PushGood`, `PopGood`), the counters
(`AddAltKeeps`, `EraseAltKeeps`) and the alternative chain (`AltChainFacts`).

* `Invariance`, `TypeCorrect`, `ChainAlwaysConsistent`, `AltTxsExact`: the invariants; the third until the node is astray.
* `BetterOnly`, `NeverReadmitted`, `CheckpointFinal`: the action properties; the last one by `CheckpointFixesPrefix`
  (a chain above a checkpoint is determined up to it) and `TakeoverPassesCheckpoints` (a chain
  that takes over reaches every checkpoint the committed one has passed).

`BlockchainAlt_proofs` is about the alternative chains, for the same trees and constants. What holds only under some events
is stated with those events excluded, no more: `NothingLost` (no `purge_transactions` and no exception takes
transactions from the pool for good), for `NoBetterAlt` only the exception, and `PlainRules` for what is remembered as
invalid. Moving clocks, checkpoints, crashes, pruning, `clear_altblocks`, truncation and stuck transactions are
allowed by the first three theorems. `SwitchRules`, for the last one: no checkpoints, clocks that agree on whether a stake block is
early, no transaction that refers to an output of its own block. Each of its parts is a case in which a disconnected block is refused.

* `AltTxsAlwaysAvailable`: `AvailInv` adds that what the writer's chain stores and the committed one does not is
  in the blocks connected so far, because every way out of a switch leaves the uncommitted chain and must put back
  exactly those transactions.
* `AltKeyImagesAreExact`: with the former. An image is removed by looking up the transaction that spends it, so the
  list is exact as long as every erased block's transactions can be found by whoever erases it: the writer looks at its own
  chain, `prune_aged_alt_blocks` at the committed one. The difference is `blind`.
* `NoAltIsBetter`: under a size that is too small an alternative block is compared with an ancestor of the committed top, which is not heavier (`SeenIsLighter`), so what is
  kept is not preferred to the top either; what is preferred to the ancestor leads the node astray. `PreferredInv` says that only the block that caused a switch is preferred to the *committed* top, and only while
  the switch is under way. When a switch commits, the disconnected blocks are alternative ones and must not be preferred to the new
  top: they are ancestors of a top to which the new one was preferred (`ChainWeights`, `ChainNotPreferred`, `PreferredTransitive`). That they are
  such ancestors is `ShapeInv`, which says where the writer's chain, the popped blocks and the alternative chain are in the tree at
  each step of a switch. When a switch fails, all of the rest of its chain goes, so the block that caused it goes too.
* `OnlyBrokenAreInvalid`: under `PlainRules` (no checkpoints, no block or output whose time is not reached, every transaction has a
  key image) a block refused on the main path breaks a rule of its own (`RefusedBreaks`, `WrongInputsBreak`), which everything above it
  inherits (`BrokenInherited`). Under a size that is too small it need not, so the invariant is given up there and, since only a restart mends the size and empties the list, is not needed afterwards. A transaction can be missing from the pool at that moment only if
  the chain has it already, and then its key images are spent twice; a transaction with multisig inputs only has none, hence the
  condition on key images. `ShapeInv` identifies the block that is connected next as the successor of the writer's top (`NextOnTop`).
* `AddedAlwaysStored`: a switch pushes the disconnected blocks back as alternative ones, and one that is refused would undo it. None is
  (`OldAccepted`), which needs to be known of five things at that moment. `RulesInv`: the block has obeyed the rules that depend on it alone since it was
  accepted. `ShapeInv` and `PushedInv`: the alternative blocks below it are exactly the disconnected ones pushed so far, unless they have been pruned, and then the
  chain of the switch has been, too, and the call stops. `OldTxsInv`: its transactions are in the pool, or the new chain has them above the
  split. `MemoryInv`: no block that is or was an alternative one, and whose name is in `m_altblocks_keyimages`, is an ancestor of it or
  the block itself; the parent of
  such a block is not the committed top and not preferred to it (`Behind`), and stays so because tops only get better, hence the main path never takes
  it. The rest is that the block reported is the one committed (`DoneInv`).

`Sync_proofs`, for any set of peers, any tree of blocks with any weights and faults, and any limits of the messages. The
assumptions are `PathAssumption` and `NetworkAssumption` (types; what this node starts with is valid).

The invariant speaks of one connection at a time: `Local(p)` says that a connection has one request or one answer to
it under way (`OneAtATime`), and only while it synchronises (`OnlySynchronizing`), that what is
requested is in a request, in an answer or in hand (`RequestsOpen`), and that every id of the last chain entry is
known, needed, requested or in hand (`EntryCovered`). A step of `p` keeps `Local(p)` (one lemma per handler) and leaves every
other connection as it is (`FrameStep`); the storage is shared, but forgets no block (`StorageGrows`), which is all that `Local` needs of
it. Thus any interleaving of connections keeps `Connections`.

* `TypeCorrect`, `EntriesObtained`: `AllObtained` follows from `EntryCovered` in the one step that ends a synchronisation.
* `NoneStuck`: `Moving(p)` says what a synchronising connection waits for, `Heights(p)` that no height it has
  been told is beyond the peer's chain. The end of a synchronisation compares a height from a chain entry with one from an answer
  (`currency_protocol_handler.inl:668`); the theorem assumes `NeverShorter`: a peer does not move to a shorter chain. Without it the property is false (TLC finds
  a behaviour of 27 states): see *Observations*.
* `RelayedAtMostOnce`: a block may be relayed before it is stored, so `RelayedOnce` needs that the handlers of new blocks
  are apart (`HandlersApart`: `m_blocks_id_que` names each one's block) and that a block relayed early has its parent stored, so that the same
  handler stores it (`RelayedKnown`).

`Wallet_proofs`, for any transactions and outputs, any tree of blocks whose chains obey `LedgerAssumption` (what
the daemon's rules enforce: a transaction is on a chain once and spends earlier outputs that no other spends; the keys of an output are its own),
any size of the answers and any number of faults.

The invariant `WalletInv` says of the wallet *and of its file*, since a crash goes back to the file, that its books are true
(`Books`): the copy of the chain is a path of the tree (`OnTree`), every transfer, spend and entry of the history is from a transaction that was
read, on the copied chain, in the block under way, or in a block that was read in part
(`TransfersTrue`, `SpendsTrue`, `HistoryTrue`), and, blocks read in part aside, everything the chain has for the wallet is there (`OutputsFound`, `SpendsFound`,
`HistoryFound`), and that the first of the entries of a transaction counts all it brought and the others nothing, which exist only for blocks that were read again (`Told`); transfers are in the order of their blocks (`Ordered`), which is what lets `detach_blockchain` cut them off at one index, and
`Indexed` is `KeyImagesIndexed`. `PulledOn` says that the blocks of an answer continue each other, `SelectedFree` that what is selected
is not spent. `BooksMatchChain` is the case with no block under way. The proof has one lemma per action; the two large ones are the reading of a transaction
(`TxRead`, a relation between the books before and after) and `detach_blockchain` (`Detached`).

* `Invariant`, `TypeCorrect`, `KeyImagesTrue`, `BooksTrue`: the invariants; `SelectionsSound`: the action property.

`TxPool_proofs`, for any transactions, key images, aliases, offers, checkpoint and number of blocks. The assumption is `TxAssumption`
(the constants' types; a transaction's fields are given for every transaction).

The inductive invariant `PoolInv` says that the counters of key images are exact except for images of `raced` transactions, and outside the zone
of checkpoints at most one (`Sound`), that a counted transaction, which is one that did not come with a block, is not on the chain unless it raced
(`Apart`), and that the transaction `add_tx` has in hand is not counted yet and, once it is admitted, finds its images free (`InHand`).
`KeyImagesCounted` is not inductive without these: `do_insert_transaction` overwrites an entry without
looking at it, so the counter is right only if what it overwrites was not counted; and a disconnected
block puts its transactions back over what the pool has.

What makes the interleaving harmless is one relation, `Shrinks`: blocks, failed switches, roll-backs and clean-ups only remove counted
transactions and put back uncounted ones, so no image that `add_tx` has found free is taken while its locks are given
up. It is proved for each loop by induction over its steps (`PurgeTopFacts`, `TakeEachFacts`, ...) and then for each action.

* `Invariance`, `TypeCorrect`, `KeyImagesExact`: the invariants.

`InductionLemmas` has what these rest on: induction over a set of numbers, and that a
recursive function over `0 .. N` exists and satisfies its equation. The library's induction theorems have an operator as
parameter, which the provers cannot instantiate; stated with a set, in the form of a least element, induction is within their reach. `SelectIn` of `Sync` and
`ReadOutputs` of `Wallet` and the loops of `TxPool` are recursive functions for that reason.

Only model-checked: all liveness (`WriterGetsIn`, `TransactionEnds`, `Converges`, `InStep`, `CatchesUp`), which is
out of the prover's reach; of `TxPool`, `TemplateSound` and `Blamed`, whose sums of fees and sizes are folds over sequences,
and `NoTxLost`.

## Observations

Met while modelling; no comment or assertion of the code is contradicted by a run, so they are not among the findings.

* A clock that is set back during a switch makes a disconnected block be refused as an alternative one; the switch is rolled back and
  reported as done (`blockchain_storage.cpp:885`).
* `prune_aged_alt_blocks` (`blockchain_storage.cpp:3900`) holds the read lock and the lock of the alternative chains, so it runs while `add_new_block` is
  busy with a block that is not committed. A transaction which that block has taken from the pool is then neither in the pool nor in the
  database a reader sees, and `purge_altblock_keyimages_from_big_heap` (`blockchain_storage.cpp:1307`) does not
  find its key image: the name of a pruned block stays in `m_altblocks_keyimages`, where it is taken for a spending on the same branch if the
  block comes again. `blind` remembers these blocks, and `AltKeyImagesExact` leaves them out; the proof attempt met the case.
* During a switch deeper than the lifetime of alternative blocks, `prune_aged_alt_blocks` erases blocks of the chain the writer holds iterators to. Disconnected
  blocks that are pruned while their successors are pushed are always accompanied by one of these, so the call has no defined
  outcome then (`SwitchPushRefused` and `SwitchDone` ask for `Alive`).
* The main path accepts a block in which one transaction refers to an output of another one of the same block (`blockchain_storage.cpp:4315`); the
  alternative path does not. A switch that disconnects such a block is rolled back when the block is refused as an alternative one, and reported as done.
* The pool's cached containers are read without the read-write lock (`tx_pool.h:171`), so that a `get` that overlaps a commit can
  leave an old value in the cache. `DbCache` has the reader for it (`ReadLocked` without it): `CacheCoherent` fails then.
* `request_missing_objects` ends with an assertion on heights (`currency_protocol_handler.inl:668`) that fails when the peer
  moves to a shorter and heavier chain between its two answers; the connection stays in `state_synchronizing`, and `process_payload_sync_data` ignores
  sync data in that state.
* The fee rule of the pool applies to transactions put back from a rejected block too, with the minimum fee (`blockchain_storage.cpp:4320`); `NoTxLost` says for which transactions this is harmless.
* `fill_block_template` takes cancellations of offers that come after the best position without counting their fees, and those after
  the break without any check (`tx_pool.cpp:1196`). A template with one that pays a fee, or whose inputs are not there, makes a block that is
  refused; in the second case the transaction is listed as black then, which is what `Blamed` says. `TemplateSound` speaks of the others.
* `add_new_tx` looks for a transaction in the pool and then in the chain (`currency_core.cpp:332`), and `add_tx` gives the locks up between its
  steps. A transaction that is looked up after a switch has popped it, and inserted after a block has taken it again, is in the pool and in the chain. When that block is
  disconnected, `do_insert_transaction` (`tx_pool.cpp:234`) overwrites the entry with one that came with a block, and its
  images stay counted until `purge_transactions`. `raced` remembers these transactions, and `KeyImagesCounted` leaves their images out; the attempt
  to prove it without was how the case was met.
* The names of aliases in the pool are a set and not counted; `purge_transactions` does not empty it (`tx_pool.cpp:896`), so a name
  stays taken until the node is restarted.
* A wallet that reads a block in part, because a call fails, and finds the daemon on another chain afterwards keeps what it has read:
  an output marked as spent at a height that the other chain fills with another block, or a transfer of a transaction that is gone. `BooksMatchChain` excludes
  these blocks by `torn`.
* A split shortens `m_transfers` and leaves the indices in `m_found_free_amounts`, in `selected_indicies` of waiting transactions and in
  `m_money_expirations`; the first and the last are used without a test of the bound (`wallet2.cpp:3577`, `wallet2.cpp:1528`). `SelectBeyond` is that step. Multisig transfers are
  not undone at all.
* A watch-only wallet does not know the key images of its transfers, and `detach_blockchain` throws on them (`wallet2.cpp:1603`).
* A block whose reading fails at a later transaction (`wallet2.cpp:263`) is read again from its start, and `handle_money_spent2` appends a second entry for a spend of an earlier one
  (`wallet2.cpp:963`). Its outputs are known by then and are skipped (`wallet2.cpp:316`), so the change is not subtracted from its amount, and its recipients are gone with `m_unconfirmed_txs`. An
  income is entered again only if the transaction has attachments this wallet can decrypt, with the amount zero. `BooksMatchChain` states what is left: one entry counts everything, the others count
  nothing as received.
* The wallet's file is emptied before it is written, and it holds the keys as well (`wallet2.cpp:1694`). A crash after the keys are written costs the history, which is read again from the daemon; one before that
  leaves a file that `load` refuses (`wallet2.cpp:1865`), and the money is lost with the keys unless there is a copy or the seed. `CrashInStore` has both outcomes.
* Nothing resets the cached size of a container after an abort through `basic_db_accessor`: not `reset_db_cache` either, which is called when the links of the chain are found wrong ("EPIC FAIL workaround"); see *The size
  an abort leaves behind*.
* The graphical client refreshes its wallet only when the daemon's height changes
  (`src/gui/qt-daemon/application/daemon_backend.cpp:1307`): a switch to a chain of the same length is noticed with the next block. `CatchesUp`
  is about the server.

## Not modelled

* Cryptography, serialisation, difficulty and reward formulas: constants of a block or a transaction. What they compute is arithmetic over inputs
  far larger than a model checker can enumerate, and the cache of the next difficulty only matters with it.
* Within `Blockchain`: global output indexes, multisig outputs, aliases, the pruning of
  ring signatures at start-up, events. `validate_alt_block_input` is reduced to which transaction an input
  refers to and which key image it spends.
* A failing `mdb_txn_commit`, aborts of nested transactions (no region of the program
  that is nested aborts).
* The use of an iterator that another thread has invalidated (undefined behaviour in
  the switch): the model lets the call stop there, and the process crash.
* Of the protocol: the relay of transactions, the check of the time difference, peers that send malformed messages; of the
  node: white and gray lists, back pings, the choice of peers, which change which connections there are and not what happens on them.
* Of the wallet: contracts, multisig and cold signing, watch-only wallets, minting, offers and the repeated relay of waiting
  transactions (which changes nothing in the wallet or its daemon).
* The offers service, stratum sessions, the search for nonces, formatting, logging, statistics, user interfaces.

## What could follow

1. *Proofs*: `NoTxLost`, `TemplateSound` and `Blamed` of `TxPool`.
2. *Output indexes* as an algorithm: global indexes of an alternative chain against a reference definition.
3. *Failing commit* in `DbCache`; *peer list*.
