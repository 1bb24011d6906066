----------------------------- MODULE Blockchain -----------------------------
(***************************************************************************)
(* currency::blockchain_storage (src/currency_core/blockchain_storage.cpp) *)
(* with what it uses of the pool (tx_pool.cpp) and of the checkpoints      *)
(* (checkpoints.cpp): how a node adds blocks to its main chain, keeps      *)
(* alternative ones and switches to a better alternative chain.            *)
(*                                                                         *)
(* add_new_block runs in a database transaction: db is the writer's view,  *)
(* saved the committed one, which is all that other threads see.  The pool *)
(* lives in a database of its own, every change of which is committed at   *)
(* once, and the alternative chains live in memory; neither is undone when *)
(* the transaction is aborted.  Nor is the cached size of m_db_blocks: see *)
(* AbortTransaction.                                                       *)
(*                                                                         *)
(* A block is an element of a tree fixed by the constants, so whatever     *)
(* depends on a block and its ancestors alone is a constant: its weight,   *)
(* its proof of work or stake, its miner transaction, its median time.     *)
(***************************************************************************)
EXTENDS Integers, Sequences, FiniteSets, Functions

CONSTANTS
    Block,          \* the blocks the network may hand to this node
    Path,           \* Path[b]: the ids from the genesis block to b
    Weight,         \* cumulative_diff_adjusted of b
    Pos,            \* the proof-of-stake blocks
    Proof,          \* the hash that orders equal weights (stake hash or PoW hash)
    Time,           \* timestamp
    WellFormed,     \* blocks that pass the checks made on both paths
    RewardOk,       \* blocks that pass validate_miner_transaction (main path only)
    Tx,             \* transactions
    TxsOf,          \* TxsOf[b]: tx_hashes
    KeyImage,       \* key images
    KeysOf,         \* KeysOf[t]: the key images t spends
    StakeOf,        \* StakeOf[b]: the key image the coinbase of b spends, if any
    Needs,          \* Needs[t]: transactions whose outputs t refers to
    UnlockTime,     \* UnlockTime[t]: when the outputs of t may be spent, as a height or a time
    MaxBlockNumber, \* CURRENCY_MAX_BLOCK_NUMBER, where the times begin
    Checkpoints,    \* function from some heights to the block required there
    Clocks,         \* values of the machine's clock
    FutureLimit,    \* CURRENCY_BLOCK_FUTURE_TIME_LIMIT
    PosFutureLimit, \* CURRENCY_POS_BLOCK_FUTURE_TIME_LIMIT
    LockedDelta,    \* CURRENCY_LOCKED_TX_ALLOWED_DELTA_SECONDS
    LockedBlocks,   \* CURRENCY_LOCKED_TX_ALLOWED_DELTA_BLOCKS
    Window,         \* BLOCKCHAIN_TIMESTAMP_CHECK_WINDOW
    AltLivetime,    \* CURRENCY_ALT_BLOCK_LIVETIME_COUNT
    Events,         \* which of the node's other threads and mishaps are in the run
    NoBlock         \* no block

ASSUME PathAssumption ==
    /\ \A b \in Block : Path[b] \in Seq(Block) /\ Path[b] # <<>> /\ Path[b][Len(Path[b])] = b
    /\ \A b \in Block : \A i \in 1 .. Len(Path[b]) : Path[Path[b][i]] = SubSeq(Path[b], 1, i)
    /\ NoBlock \notin Block

ASSUME BlockAssumption ==
    /\ Weight \in [Block -> Nat] /\ Proof \in [Block -> Nat] /\ Time \in [Block -> Nat]
    /\ TxsOf \in [Block -> Seq(Tx)] /\ StakeOf \in [Block -> SUBSET KeyImage]
    /\ \A b \in Block : \A i, j \in 1 .. Len(TxsOf[b]) : TxsOf[b][i] = TxsOf[b][j] => i = j
    /\ KeysOf \in [Tx -> SUBSET KeyImage] /\ Needs \in [Tx -> SUBSET Tx] /\ UnlockTime \in [Tx -> Nat]
    /\ Pos \subseteq Block /\ WellFormed \subseteq Block /\ RewardOk \subseteq Block
    /\ \E g \in Block : Len(Path[g]) = 1
    /\ \A g \in Block : Len(Path[g]) = 1 => TxsOf[g] = <<>> /\ StakeOf[g] = {}
    /\ \A b \in Block : Len(Path[b]) > 1 => Weight[b] > Weight[Path[b][Len(Path[b]) - 1]]

ASSUME EnvironmentAssumption ==
    /\ Clocks \subseteq Nat /\ Clocks # {}
    /\ {FutureLimit, PosFutureLimit, MaxBlockNumber, LockedDelta, LockedBlocks, Window, AltLivetime}
          \subseteq Nat
    /\ Events \subseteq {"crash", "exception", "purge", "stuck", "prune", "clear", "truncate"}

VARIABLES
    db,         \* blocks, spent keys and transactions, as the writer sees them
    saved,      \* the same as last committed
    stale,      \* what m_db_blocks.size() goes on returning after an abort; Absent if it is right
    alt,        \* m_alternative_chains
    alt_txs,    \* m_alternative_chains_txs
    alt_ki,     \* m_altblocks_keyimages
    invalid,    \* m_invalid_blocks
    blind,      \* history: aged blocks erased while a transaction of theirs was not to be found
    pool,       \* transactions of the pool
    taken,      \* m_taken_txs
    bare,       \* transactions of the pool that have lost their signatures
    clock,      \* the machine's clock
    phase,      \* where add_new_block is
    cur,        \* the block it adds
    chain,      \* alt_chain of the switch
    at,         \* how many blocks of it are connected
    old,        \* disconnected_chain (what is left of it to push back)
    added,      \* bvc.m_added_to_main_chain of the last call: its block or NoBlock
    rx          \* the transaction add_new_tx has looked up in the pool, if any;
                \* known (for NoReadmission only): the chain had it at that time

chainvars == <<db, saved, stale>>
altvars   == <<alt, alt_txs, alt_ki, invalid, blind>>
poolvars  == <<pool, taken, bare>>
callvars  == <<phase, cur, chain, at, old, added>>
vars      == <<chainvars, altvars, poolvars, clock, callvars, rx>>

Absent  == -1
Genesis == CHOOSE g \in Block : Len(Path[g]) = 1

ASSUME CheckpointAssumption ==
    /\ DOMAIN Checkpoints \subseteq Nat
    /\ 0 \in DOMAIN Checkpoints => Checkpoints[0] = Genesis

Height(b) == Len(Path[b]) - 1
Prev(b)   == Path[b][Len(Path[b]) - 1]
TxsIn(b)  == Range(TxsOf[b])
KeysIn(b) == StakeOf[b] \cup UNION {KeysOf[t] : t \in TxsIn(b)}
TxsInAll(S) == UNION {TxsIn(b) : b \in S}

Phases == {"idle", "main", "popping", "connecting", "pushing", "commit", "finalize",
           "truncating", "astray"}
Storage == [blocks : Seq(Block), spent : [KeyImage -> Int], txs : [Tx -> Int]]

TypeOK ==
    /\ db \in Storage /\ saved \in Storage
    /\ stale \in Nat \cup {Absent}
    /\ alt \subseteq Block /\ invalid \subseteq Block /\ blind \subseteq Block
    /\ alt_txs \in [Tx -> Nat] /\ alt_ki \in [KeyImage -> SUBSET Block]
    /\ pool \subseteq Tx /\ taken \subseteq Tx /\ bare \subseteq pool
    /\ clock \in Clocks
    /\ phase \in Phases
    /\ cur \in Block \cup {NoBlock} /\ added \in Block \cup {NoBlock}
    /\ chain \in Seq(Block) /\ at \in Nat /\ old \in Seq(Block)
    /\ rx \subseteq [tx : Tx, known : BOOLEAN]

Top(d)       == d.blocks[Len(d.blocks)]
TopHeight(d) == Len(d.blocks) - 1
MainBlocks(d) == Range(d.blocks)

(* The main chain as who adds a block sees it when size() is too small:    *)
(* its blocks end early, while its indexes have all of them.               *)
Short == stale # Absent /\ stale < Len(saved.blocks)
Seen  == IF stale = Absent THEN db ELSE [db EXCEPT !.blocks = SubSeq(db.blocks, 1, stale)]

EmptyDb == [blocks |-> <<Genesis>>,
            spent  |-> [k \in KeyImage |-> Absent],
            txs    |-> [t \in Tx |-> Absent]]

Init ==
    /\ db = EmptyDb /\ saved = EmptyDb /\ stale = Absent
    /\ alt = {} /\ invalid = {} /\ blind = {}
    /\ alt_txs = [t \in Tx |-> 0] /\ alt_ki = [k \in KeyImage |-> {}]
    /\ pool = {} /\ taken = {} /\ bare = {}
    /\ clock \in Clocks
    /\ phase = "idle" /\ cur = NoBlock /\ added = NoBlock
    /\ chain = <<>> /\ at = 0 /\ old = <<>>
    /\ rx = {}

-----------------------------------------------------------------------------
(* Checkpoints *)

is_in_checkpoint_zone(h) == h = 0 \/ \E c \in DOMAIN Checkpoints : h <= c

(* Mutant: passed checkpoints are not looked at.                           *)
is_height_passed_zone_never(h, top) == FALSE

(* lower_bound: the first checkpoint at or above h has been passed.        *)
is_height_passed_zone(h, top) ==
    h <= top /\ \E c \in DOMAIN Checkpoints :
                   h <= c /\ c <= top /\ \A e \in DOMAIN Checkpoints : h <= e => c <= e

check_block(h, b) == h \in DOMAIN Checkpoints => Checkpoints[h] = b

CheckpointOk(h, b) == is_in_checkpoint_zone(h) => check_block(h, b)

-----------------------------------------------------------------------------
(* Timestamps.  That a block is not older than the median of its           *)
(* ancestors is part of WellFormed; what is left is the machine's clock.   *)

PosTimeOk(b) == b \in Pos => Time[b] <= clock + PosFutureLimit

check_block_timestamp(b) == Height(b) >= Window => PosTimeOk(b)

check_block_timestamp_main(b) ==
    /\ Time[b] <= clock + FutureLimit
    /\ PosTimeOk(b)
    /\ check_block_timestamp(b)

-----------------------------------------------------------------------------
(* The main chain *)

(* add_transaction_input_visitor, for all inputs of a block                *)
Spend(spent, b, h) == [k \in KeyImage |-> IF k \in KeysIn(b) THEN h ELSE spent[k]]

(* add_transaction_from_block, for all transactions of a block             *)
Store(txs, b, h) == [t \in Tx |-> IF t \in TxsIn(b) THEN h ELSE txs[t]]

push_block(d, b) ==
    LET h == Len(d.blocks) IN
    [blocks |-> Append(d.blocks, b), spent |-> Spend(d.spent, b, h), txs |-> Store(d.txs, b, h)]

(* Mutant: the key images of a popped block stay spent.                    *)
purge_keyimages_not(spent, b) == spent

purge_keyimages(spent, b) ==
    [k \in KeyImage |-> IF k \in KeysIn(b) THEN Absent ELSE spent[k]]

purge_transactions_from_blockchain(txs, b) ==
    [t \in Tx |-> IF t \in TxsIn(b) THEN Absent ELSE txs[t]]

(* pop_block_from_blockchain: purge the block's data, pop_back.            *)
pop_block(d) ==
    [blocks |-> SubSeq(d.blocks, 1, Len(d.blocks) - 1),
     spent  |-> purge_keyimages(d.spent, Top(d)),
     txs    |-> purge_transactions_from_blockchain(d.txs, Top(d))]

(* The i-th transaction of b, once the coinbase and the transactions       *)
(* before it have been added.                                              *)
Earlier(b, i)    == {TxsOf[b][j] : j \in 1 .. i - 1}
take_tx(b, i)    == TxsOf[b][i] \in pool \ Earlier(b, i)
SpentBefore(d, b, i) ==
    {k \in KeyImage : d.spent[k] # Absent}
        \cup StakeOf[b] \cup UNION {KeysOf[t] : t \in Earlier(b, i)}
KnownBefore(d, b, i) == {t \in Tx : d.txs[t] # Absent} \cup Earlier(b, i)

(* In the checkpoint zone the signatures are cleared first and not asked   *)
(* for; elsewhere one that was cleared before is missing.                  *)
SignaturesOk(d, t) == is_in_checkpoint_zone(Len(d.blocks)) \/ t \notin bare

LockedByHeight(t, size) == UnlockTime[t] < MaxBlockNumber /\ UnlockTime[t] > size - 1 + LockedBlocks

is_tx_spendtime_unlocked(t, size) ==
    /\ ~LockedByHeight(t, size)
    /\ UnlockTime[t] >= MaxBlockNumber => UnlockTime[t] <= clock + LockedDelta

check_tx_inputs(d, b, i) ==
    /\ SignaturesOk(d, TxsOf[b][i])
    /\ KeysOf[TxsOf[b][i]] \cap SpentBefore(d, b, i) = {}
    /\ Needs[TxsOf[b][i]] \subseteq KnownBefore(d, b, i)
    /\ \A t \in Needs[TxsOf[b][i]] : is_tx_spendtime_unlocked(t, Len(d.blocks))

add_transaction_from_block(d, b, i) == TxsOf[b][i] \notin KnownBefore(d, b, i)

TxOk(d, b, i) ==
    take_tx(b, i) /\ check_tx_inputs(d, b, i) /\ add_transaction_from_block(d, b, i)

(* Proof of work or stake, height of the coinbase and its unlock time      *)
prevalidate_miner_transaction(b) == b \in WellFormed
validate_miner_transaction(b)    == b \in RewardOk
validate_pos_block(d, b)         == \A k \in StakeOf[b] : d.spent[k] = Absent

HeaderOk(d, b) ==
    /\ Height(b) > 0 /\ Prev(b) = Top(d)
    /\ check_block_timestamp_main(b)
    /\ CheckpointOk(Len(d.blocks), b)
    /\ validate_pos_block(d, b)
    /\ prevalidate_miner_transaction(b)

handle_block_to_main_chain(d, b) ==
    /\ HeaderOk(d, b)
    /\ \A i \in 1 .. Len(TxsOf[b]) : TxOk(d, b, i)
    /\ validate_miner_transaction(b)
    /\ b \notin MainBlocks(d)

(* The transactions before the i-th have been added and the i-th taken     *)
(* from the pool.                                                          *)
Reached(d, b, i) == HeaderOk(d, b) /\ (\A j \in 1 .. i - 1 : TxOk(d, b, j)) /\ take_tx(b, i)

(* Mutant: a block whose transaction is not in the pool is invalid, too.   *)
HasWrongInputs_or_missing(d, b) ==
    HeaderOk(d, b) /\ \E i \in 1 .. Len(TxsOf[b]) : ~TxOk(d, b, i)

(* add_block_as_invalid is reached when the first transaction that fails   *)
(* is one of the pool with wrong inputs.                                   *)
HasWrongInputs(d, b) ==
    \E i \in 1 .. Len(TxsOf[b]) : Reached(d, b, i) /\ ~check_tx_inputs(d, b, i)

(* What of b is stored, or has been taken to be stored, without signatures.*)
Cleared(b) == IF is_in_checkpoint_zone(Height(b)) THEN TxsIn(b) ELSE {}
TakenAndCleared(d, b) ==
    Cleared(b) \cap {TxsOf[b][i] : i \in {j \in 1 .. Len(TxsOf[b]) : Reached(d, b, j)}}

-----------------------------------------------------------------------------
(* Alternative chains *)

(* build_alt_subchain: the ancestors of b that are alternative blocks.     *)
FirstAlt(b) ==
    CHOOSE i \in 1 .. Len(Path[b]) :
        /\ \A j \in i .. Len(Path[b]) - 1 : Path[b][j] \in alt
        /\ i > 1 => Path[b][i - 1] \notin alt

build_alt_subchain(b) == SubSeq(Path[b], FirstAlt(b), Len(Path[b]) - 1)

split_height(b) == FirstAlt(b) - 1

ConnectedToMain(b) ==
    /\ split_height(b) \in 1 .. Len(Seen.blocks)
    /\ Seen.blocks[split_height(b)] = Path[b][FirstAlt(b) - 1]

is_orphan(b) == build_alt_subchain(b) = <<>> /\ Prev(b) \notin MainBlocks(db)

(* The pool's copy goes before the chain's; either must have signatures.   *)
get_transaction_from_pool_or_db(t, min_height) ==
    IF t \in pool THEN t \notin bare
    ELSE db.txs[t] >= min_height /\ ~is_in_checkpoint_zone(db.txs[t])

AltKeyOk(b, k) ==
    /\ db.spent[k] = Absent \/ db.spent[k] >= split_height(b)
    /\ alt_ki[k] \cap (Range(build_alt_subchain(b)) \cup {b}) = {}

AltSourceOk(b, t) ==
    \/ t \in TxsInAll(Range(build_alt_subchain(b)))
    \/ db.txs[t] \in 0 .. split_height(b) - 1

validate_alt_block_txs(b) ==
    /\ \A k \in KeysIn(b) : AltKeyOk(b, k)
    /\ \A i \in 1 .. Len(TxsOf[b]) :
         /\ get_transaction_from_pool_or_db(TxsOf[b][i], split_height(b))
         /\ KeysOf[TxsOf[b][i]] \cap
               (StakeOf[b] \cup UNION {KeysOf[t] : t \in Earlier(b, i)}) = {}
         /\ \A t \in Needs[TxsOf[b][i]] : AltSourceOk(b, t)

(* handle_alternative_block returns true with m_added_to_altchain.         *)
handle_alternative_block(b) ==
    /\ Height(b) > 0
    /\ ~is_height_passed_zone(Height(b), TopHeight(Seen))
    /\ ~is_orphan(b) /\ ConnectedToMain(b)
    /\ check_block_timestamp(b)
    /\ CheckpointOk(Height(b), b)
    /\ prevalidate_miner_transaction(b)
    /\ validate_alt_block_txs(b)
    /\ b \notin alt

AltOrphaned(b) == ~is_height_passed_zone(Height(b), TopHeight(Seen)) /\ is_orphan(b)

(* Mutant: the counters of all other transactions are lost.                *)
add_alt_block_overwrites(b) ==
    /\ alt' = alt \cup {b}
    /\ alt_ki' = [k \in KeyImage |-> IF k \in KeysIn(b) THEN alt_ki[k] \cup {b} ELSE alt_ki[k]]
    /\ alt_txs' = [t \in TxsIn(b) |-> 1]

(* append_altblock_keyimages_to_big_heap and add_alt_block_txs_hashs       *)
add_alt_block(b) ==
    /\ alt' = alt \cup {b}
    /\ alt_ki' = [k \in KeyImage |-> IF k \in KeysIn(b) THEN alt_ki[k] \cup {b} ELSE alt_ki[k]]
    /\ alt_txs' = [t \in Tx |-> IF t \in TxsIn(b) THEN alt_txs[t] + 1 ELSE alt_txs[t]]

(* Mutant: the key image of the coinbase is forgotten.                     *)
Purgeable_txs_only(b, found) == UNION {KeysOf[t] : t \in TxsIn(b) \cap found}

(* do_erase_altblock for the blocks of S.  The key images of a transaction *)
(* that is neither in the pool nor in the chain cannot be looked up any    *)
(* more and stay behind.                                                   *)
Purgeable(b, found) == StakeOf[b] \cup UNION {KeysOf[t] : t \in TxsIn(b) \cap found}
Lower(n, by)        == IF n > by THEN n - by ELSE 0

(* Mutant: purge_alt_block_txs_hashs is not called.                        *)
do_erase_altblocks_keeps_txs(S, found) ==
    /\ alt' = alt \ S
    /\ alt_ki' = [k \in KeyImage |-> alt_ki[k] \ {b \in S : k \in Purgeable(b, found)}]
    /\ UNCHANGED alt_txs

do_erase_altblocks(S, found) ==
    /\ alt' = alt \ S
    /\ alt_ki' = [k \in KeyImage |-> alt_ki[k] \ {b \in S : k \in Purgeable(b, found)}]
    /\ alt_txs' = [t \in Tx |-> Lower(alt_txs[t], Cardinality({b \in S : t \in TxsIn(b)}))]

clear_altblocks_and_indexes ==
    /\ alt' = {}
    /\ alt_ki' = [k \in KeyImage |-> {}]
    /\ alt_txs' = [t \in Tx |-> 0]
    /\ blind' = {}

Stored(d) == {t \in Tx : d.txs[t] # Absent}

(* The alternative block c takes over from the top block b.                *)
is_reorganize_required(b, c) ==
    \/ Weight[b] < Weight[c]
    \/ Weight[b] = Weight[c] /\ b \in Pos /\ Proof[b] < Proof[c]

-----------------------------------------------------------------------------
(* add_new_block *)

have_block(b) == b \in MainBlocks(db) \cup alt \cup invalid

Return(b) ==
    /\ phase' = "idle" /\ cur' = NoBlock /\ added' = b
    /\ chain' = <<>> /\ at' = 0 /\ old' = <<>>

Goto(p) == phase' = p

(* The destructor of an uncommitted transaction_region.  The storage is    *)
(* restored, size_cache is not.  Whoever fails after blocks were pushed or *)
(* popped has called size() since (validate_blockchain_prev_links), so it  *)
(* is that of the aborted chain, until m_db_blocks is written again.       *)
AbortTransaction ==
    /\ db' = saved /\ UNCHANGED saved
    /\ stale' = IF Len(db.blocks) = Len(saved.blocks) THEN stale ELSE Len(db.blocks)

(* A block that is new, unless m_db_blocks.back() throws: see BackThrows.  *)
IsNew(b) ==
    phase = "idle" /\ ~have_block(b) /\ Height(b) > 0 /\ stale <= Len(db.blocks)

AddToMain(b) ==
    /\ IsNew(b) /\ Prev(b) = Top(Seen)
    /\ Goto("main") /\ cur' = b /\ added' = NoBlock
    /\ UNCHANGED <<chainvars, altvars, poolvars, clock, chain, at, old, rx>>

(* Mutant: take_tx does not call set_taken.                                *)
MainAccepted_not_taken ==
    /\ phase = "main"
    /\ stale = Absent /\ handle_block_to_main_chain(db, cur)
    /\ db' = push_block(db, cur)
    /\ pool' = pool \ TxsIn(cur) /\ bare' = bare \ TxsIn(cur)
    /\ Goto("commit")
    /\ UNCHANGED <<saved, stale, altvars, taken, clock, cur, chain, at, old, added, rx>>

MainAccepted ==
    /\ phase = "main"
    /\ stale = Absent /\ handle_block_to_main_chain(db, cur)
    /\ db' = push_block(db, cur)
    /\ pool' = pool \ TxsIn(cur) /\ bare' = bare \ TxsIn(cur)
    /\ taken' = taken \cup TxsIn(cur)
    /\ Goto("commit")
    /\ UNCHANGED <<saved, stale, altvars, clock, cur, chain, at, old, added, rx>>

(* push_back writes where size() says, and this is committed: the block    *)
(* that was there is gone from m_db_blocks, but from nothing else, and the *)
(* blocks above it stay.  The node is astray: what it does with such a     *)
(* chain is not modelled any more.                                         *)
MainOverwrites ==
    /\ phase = "main"
    /\ stale # Absent /\ handle_block_to_main_chain(Seen, cur)
    /\ db' = [blocks |-> [db.blocks EXCEPT ![stale + 1] = cur],
              spent  |-> Spend(db.spent, cur, stale), txs |-> Store(db.txs, cur, stale)]
    /\ saved' = db'
    /\ pool' = pool \ TxsIn(cur) /\ bare' = bare \ TxsIn(cur)
    /\ taken' = taken \cup TxsIn(cur)
    /\ Goto("astray") /\ added' = cur
    /\ UNCHANGED <<stale, altvars, clock, cur, chain, at, old, rx>>

(* The transactions taken so far are put back (purge_block_data).          *)
MainRefused ==
    /\ phase = "main"
    /\ ~handle_block_to_main_chain(Seen, cur)
    /\ invalid' = IF HasWrongInputs(Seen, cur) THEN invalid \cup {cur} ELSE invalid
    /\ bare' = bare \cup TakenAndCleared(Seen, cur)
    /\ taken' = {}
    /\ AbortTransaction
    /\ Return(NoBlock)
    /\ UNCHANGED <<alt, alt_txs, alt_ki, blind, pool, clock, rx>>

(* m_db_blocks.back() throws: the size is greater than the number of       *)
(* blocks, and no new block is even looked at.                             *)
BackThrows(b) ==
    /\ phase = "idle" /\ ~have_block(b) /\ stale > Len(db.blocks)
    /\ taken' = {}
    /\ Return(NoBlock)
    /\ UNCHANGED <<chainvars, altvars, pool, bare, clock, rx>>

IsAlternative(b) == IsNew(b) /\ Prev(b) # Top(Seen)

(* The sizes of m_db_blocks and m_db_per_block_gindex_incs are compared    *)
(* for the first block of an alternative chain.  That of the latter may be *)
(* right, or have been read in the transaction that was aborted, too.      *)
SizesDiffer(b) == stale # Absent /\ build_alt_subchain(b) = <<>>

AltRefused(b) ==
    /\ IsAlternative(b)
    /\ ~handle_alternative_block(b) \/ SizesDiffer(b)
    /\ taken' = IF AltOrphaned(b) THEN taken ELSE {}
    /\ Return(NoBlock)
    /\ UNCHANGED <<chainvars, altvars, pool, bare, clock, rx>>

(* Mutant: a better block is kept as an alternative one.                   *)
AltKept_even_if_better(b) ==
    /\ IsAlternative(b)
    /\ handle_alternative_block(b)
    /\ add_alt_block(b)
    /\ Return(NoBlock)
    /\ UNCHANGED <<chainvars, invalid, blind, poolvars, clock, rx>>

AltKept(b) ==
    /\ IsAlternative(b)
    /\ handle_alternative_block(b)
    /\ ~is_reorganize_required(Top(Seen), b)
    /\ add_alt_block(b)
    /\ Return(NoBlock)
    /\ UNCHANGED <<chainvars, invalid, blind, poolvars, clock, rx>>

(* Mutant: the weights are not compared.                                   *)
AltSwitch_always(b) ==
    /\ IsAlternative(b) /\ stale = Absent
    /\ handle_alternative_block(b)
    /\ add_alt_block(b)
    /\ Goto("popping") /\ cur' = b /\ added' = NoBlock
    /\ chain' = Append(build_alt_subchain(b), b) /\ at' = 0 /\ old' = <<>>
    /\ UNCHANGED <<chainvars, invalid, blind, poolvars, clock, rx>>

AltSwitch(b) ==
    /\ IsAlternative(b) /\ stale = Absent
    /\ handle_alternative_block(b)
    /\ is_reorganize_required(Top(db), b)
    /\ add_alt_block(b)
    /\ Goto("popping") /\ cur' = b /\ added' = NoBlock
    /\ chain' = Append(build_alt_subchain(b), b) /\ at' = 0 /\ old' = <<>>
    /\ UNCHANGED <<chainvars, invalid, blind, poolvars, clock, rx>>

(* A switch that begins with a size that is too small pops or overwrites   *)
(* blocks in the middle of the chain: that is not modelled any more.       *)
AltSwitchAstray(b) ==
    /\ IsAlternative(b) /\ stale # Absent
    /\ handle_alternative_block(b)
    /\ is_reorganize_required(Top(Seen), b)
    /\ add_alt_block(b)
    /\ Goto("astray") /\ cur' = b /\ added' = NoBlock
    /\ UNCHANGED <<chainvars, invalid, blind, poolvars, clock, chain, at, old, rx>>

-----------------------------------------------------------------------------
(* switch_to_alternative_blockchain *)

SplitHeight == Height(chain[1])

SwitchPop ==
    /\ phase = "popping"
    /\ Len(db.blocks) > SplitHeight
    /\ old' = <<Top(db)>> \o old
    /\ pool' = pool \cup TxsIn(Top(db))
    /\ bare' = (bare \ TxsIn(Top(db))) \cup Cleared(Top(db))
    /\ db' = pop_block(db)
    /\ UNCHANGED <<saved, stale, altvars, taken, clock, phase, cur, chain, at, added, rx>>

SwitchPopped ==
    /\ phase = "popping"
    /\ Len(db.blocks) <= SplitHeight
    /\ Goto("connecting")
    /\ UNCHANGED <<chainvars, altvars, poolvars, clock, cur, chain, at, old, added, rx>>

(* alt_chain holds iterators into m_alternative_chains, whose lock is not  *)
(* held: an entry another thread has erased cannot be used.                *)
Alive(S) == S \subseteq alt

ToConnect == {chain[i] : i \in at + 1 .. Len(chain)}
Connected == {chain[i] : i \in 1 .. at}

SwitchConnect ==
    /\ phase = "connecting" /\ at < Len(chain) /\ Alive({chain[at + 1]})
    /\ handle_block_to_main_chain(db, chain[at + 1])
    /\ db' = push_block(db, chain[at + 1])
    /\ pool' = pool \ TxsIn(chain[at + 1]) /\ bare' = bare \ TxsIn(chain[at + 1])
    /\ taken' = taken \cup TxsIn(chain[at + 1])
    /\ at' = at + 1
    /\ UNCHANGED <<saved, stale, altvars, clock, phase, cur, chain, old, added, rx>>

(* The transactions of the connected blocks S go back into the pool, after *)
(* those of the blocks B, which were taken in vain.                        *)
rollback_blockchain_switching(S, B) ==
    /\ pool' = pool \cup TxsInAll(S)
    /\ bare' = ((bare \cup B) \ TxsInAll(S)) \cup UNION {Cleared(b) : b \in S}

(* The rest of the chain is declared invalid.  There is no                 *)
(* on_finalize_db_transaction on this way out.                             *)
SwitchRefused ==
    /\ phase = "connecting" /\ at < Len(chain) /\ Alive(ToConnect)
    /\ ~handle_block_to_main_chain(db, chain[at + 1])
    /\ rollback_blockchain_switching(Connected, TakenAndCleared(db, chain[at + 1]))
    /\ do_erase_altblocks(ToConnect, pool' \cup Stored(db))
    /\ invalid' = invalid \cup ToConnect
    /\ AbortTransaction
    /\ Return(NoBlock)
    /\ UNCHANGED <<blind, taken, clock, rx>>

SwitchConnected ==
    /\ phase = "connecting" /\ at = Len(chain)
    /\ Goto("pushing")
    /\ UNCHANGED <<chainvars, altvars, poolvars, clock, cur, chain, at, old, added, rx>>

(* The disconnected blocks become alternative ones, lowest first.          *)
SwitchPush ==
    /\ phase = "pushing" /\ old # <<>>
    /\ handle_alternative_block(Head(old))
    /\ add_alt_block(Head(old))
    /\ old' = Tail(old)
    /\ UNCHANGED <<chainvars, invalid, blind, poolvars, clock, phase, cur, chain, at, added, rx>>

(* One whose predecessor has been pruned meanwhile is an orphan, which is  *)
(* no error: it is forgotten.                                              *)
SwitchPushOrphaned ==
    /\ phase = "pushing" /\ old # <<>>
    /\ AltOrphaned(Head(old))
    /\ old' = Tail(old)
    /\ UNCHANGED <<chainvars, altvars, poolvars, clock, phase, cur, chain, at, added, rx>>

(* One of them is refused: the switch is rolled back, and yet reported as  *)
(* successful, because the function does not return false here.            *)
SwitchPushRefused ==
    /\ phase = "pushing" /\ old # <<>> /\ Alive(Range(chain))
    /\ ~handle_alternative_block(Head(old)) /\ ~AltOrphaned(Head(old))
    /\ rollback_blockchain_switching(Range(chain), {})
    /\ do_erase_altblocks(Range(chain), pool' \cup Stored(db))
    /\ AbortTransaction
    /\ Return(cur)
    /\ UNCHANGED <<invalid, blind, taken, clock, rx>>

SwitchDone ==
    /\ phase = "pushing" /\ old = <<>> /\ Alive(Range(chain))
    /\ do_erase_altblocks(Range(chain), pool \cup Stored(db))
    /\ Goto("commit")
    /\ UNCHANGED <<chainvars, invalid, blind, poolvars, clock, cur, chain, at, old, added, rx>>

-----------------------------------------------------------------------------
(* The end of add_new_block: tr.commit(), then on_finalize_db_transaction. *)

(* Mutant: the transaction is left to its destructor.                      *)
Commit_missing ==
    /\ phase = "commit"
    /\ AbortTransaction
    /\ Goto("finalize")
    /\ UNCHANGED <<altvars, poolvars, clock, cur, chain, at, old, added, rx>>

Commit ==
    /\ phase = "commit"
    /\ saved' = db
    /\ Goto("finalize")
    /\ UNCHANGED <<db, stale, altvars, poolvars, clock, cur, chain, at, old, added, rx>>

Finalize ==
    /\ phase = "finalize"
    /\ taken' = {}
    /\ Return(cur)
    /\ UNCHANGED <<chainvars, altvars, pool, bare, clock, rx>>

(* An exception while blocks are popped or connected, after n transactions *)
(* of the next block have been taken from the pool: nothing puts them back.*)
Exception(n) ==
    /\ "exception" \in Events
    /\ \/ phase = "main" /\ n <= Len(TxsOf[cur]) /\ pool' = pool \ Earlier(cur, n + 1)
       \/ phase = "popping" /\ n = 0 /\ UNCHANGED pool
       \/ /\ phase = "connecting" /\ at < Len(chain)
          /\ n <= Len(TxsOf[chain[at + 1]])
          /\ pool' = pool \ Earlier(chain[at + 1], n + 1)
    /\ bare' = bare \cap pool'
    /\ taken' = {}
    /\ AbortTransaction
    /\ Return(NoBlock)
    /\ UNCHANGED <<altvars, clock, rx>>

-----------------------------------------------------------------------------
(* truncate_blockchain: the console's command, in a transaction of its     *)
(* own; the blocks' transactions do not go back to the pool.               *)

TruncateBegin(h) ==
    /\ "truncate" \in Events /\ phase = "idle" /\ stale = Absent
    /\ h \in 1 .. Len(db.blocks)
    /\ Goto("truncating") /\ at' = h
    /\ UNCHANGED <<chainvars, altvars, poolvars, clock, cur, chain, old, added, rx>>

TruncatePop ==
    /\ phase = "truncating" /\ Len(db.blocks) > at
    /\ db' = pop_block(db)
    /\ UNCHANGED <<saved, stale, altvars, poolvars, clock, callvars, rx>>

TruncateEnd ==
    /\ phase = "truncating" /\ Len(db.blocks) <= at
    /\ clear_altblocks_and_indexes
    /\ saved' = db
    /\ Return(NoBlock)
    /\ UNCHANGED <<db, stale, invalid, poolvars, clock, rx>>

(* To a height not below the size that is seen: no block is popped.        *)
TruncateNothing ==
    /\ "truncate" \in Events /\ phase = "idle" /\ stale # Absent
    /\ clear_altblocks_and_indexes
    /\ Return(NoBlock)
    /\ UNCHANGED <<chainvars, invalid, poolvars, clock, rx>>

(* To a lower one: blocks are popped from the middle, and committed.  (If  *)
(* the size is too large, operator[] throws and nothing is changed.)       *)
TruncateAstray ==
    /\ "truncate" \in Events /\ phase = "idle" /\ Short /\ stale > 1
    /\ Goto("astray")
    /\ UNCHANGED <<chainvars, altvars, poolvars, clock, cur, chain, at, old, added, rx>>

-----------------------------------------------------------------------------
(* Other threads *)

(* core::add_new_tx, under m_incoming_tx_lock: first the pool is asked ... *)
AddTxLookup(t) ==
    /\ rx = {}
    /\ t \notin pool \cup taken
    /\ rx' = {[tx |-> t, known |-> saved.txs[t] # Absent]}
    /\ UNCHANGED <<chainvars, altvars, poolvars, clock, callvars>>

(* ... then the chain, and the transaction goes into the pool.  What comes *)
(* with a block (kept_by_block) goes in whatever its inputs are.           *)
AddTxInsert(r) ==
    /\ r \in rx
    /\ IF saved.txs[r.tx] = Absent
       THEN pool' = pool \cup {r.tx} /\ bare' = bare \ {r.tx}
       ELSE UNCHANGED <<pool, bare>>
    /\ rx' = {}
    /\ UNCHANGED <<chainvars, altvars, taken, clock, callvars>>

(* Mutant: transactions of alternative blocks are removed, too.            *)
RemoveStuck_any(S) ==
    /\ "stuck" \in Events
    /\ phase \in {"idle", "truncating"}
    /\ S # {} /\ S \subseteq pool
    /\ pool' = pool \ S /\ bare' = bare \ S
    /\ UNCHANGED <<chainvars, altvars, taken, clock, callvars, rx>>

(* tx_memory_pool::remove_stuck_transactions: old or expired ones go, if   *)
(* the lock that add_new_block holds can be had.                           *)
RemoveStuck(S) ==
    /\ "stuck" \in Events
    /\ phase \in {"idle", "truncating"}
    /\ S # {} /\ \A t \in S : t \in pool /\ alt_txs[t] = 0
    /\ pool' = pool \ S /\ bare' = bare \ S
    /\ UNCHANGED <<chainvars, altvars, taken, clock, callvars, rx>>

(* tx_memory_pool::purge_transactions, a remote procedure call.            *)
PurgeTransactions ==
    /\ "purge" \in Events
    /\ pool # {}
    /\ pool' = {} /\ bare' = {}
    /\ UNCHANGED <<chainvars, altvars, taken, clock, callvars, rx>>

(* get_current_blockchain_size() for other threads: the cache is not used  *)
(* while a transaction is under way.                                       *)
CommittedSize == IF phase = "idle" /\ stale # Absent THEN stale ELSE Len(saved.blocks)

Aged == {b \in alt : CommittedSize > Height(b) /\ CommittedSize - Height(b) > AltLivetime}

(* prune_aged_alt_blocks, from core::on_idle.  It sees the committed chain *)
(* only: what an uncommitted block has taken from the pool is nowhere.     *)
PruneAgedAltBlocks ==
    /\ "prune" \in Events
    /\ Aged # {}
    /\ do_erase_altblocks(Aged, pool \cup Stored(saved))
    /\ blind' = blind \cup {b \in Aged : ~(TxsIn(b) \subseteq pool \cup Stored(saved))}
    /\ UNCHANGED <<chainvars, invalid, poolvars, clock, callvars, rx>>

(* clear_altblocks, the console's command                                  *)
ClearAltBlocks ==
    /\ "clear" \in Events
    /\ alt # {}
    /\ clear_altblocks_and_indexes
    /\ UNCHANGED <<chainvars, invalid, poolvars, clock, callvars, rx>>

SetClock(c) ==
    /\ clock # c
    /\ clock' = c
    /\ UNCHANGED <<chainvars, altvars, poolvars, callvars, rx>>

(* The process dies and starts again: what is in memory is gone.           *)
Crash ==
    /\ "crash" \in Events /\ phase # "astray"
    /\ db' = saved /\ stale' = Absent
    /\ clear_altblocks_and_indexes
    /\ invalid' = {}
    /\ taken' = {}
    /\ rx' = {}
    /\ Return(NoBlock)
    /\ UNCHANGED <<saved, pool, bare, clock>>

-----------------------------------------------------------------------------
AddNewBlock ==
    \/ \E b \in Block : AddToMain(b) \/ AltRefused(b) \/ AltKept(b) \/ AltSwitch(b)
                           \/ AltSwitchAstray(b) \/ BackThrows(b)
    \/ MainAccepted \/ MainRefused \/ MainOverwrites
    \/ SwitchPop \/ SwitchPopped \/ SwitchConnect \/ SwitchRefused \/ SwitchConnected
    \/ SwitchPush \/ SwitchPushOrphaned \/ SwitchPushRefused \/ SwitchDone
    \/ Commit \/ Finalize
    \/ \E n \in 0 .. Cardinality(Tx) : Exception(n)

Truncate ==
    \/ \E h \in 1 .. Len(db.blocks) : TruncateBegin(h)
    \/ TruncatePop \/ TruncateEnd \/ TruncateNothing \/ TruncateAstray

Environment ==
    \/ \E t \in Tx : AddTxLookup(t)
    \/ \E r \in rx : AddTxInsert(r)
    \/ \E S \in SUBSET Tx : RemoveStuck(S)
    \/ PurgeTransactions \/ PruneAgedAltBlocks \/ ClearAltBlocks
    \/ \E c \in Clocks : SetClock(c)
    \/ Crash

(* Nothing more is said of a node that is astray.                          *)
Astray == phase = "astray" /\ UNCHANGED vars

Next == AddNewBlock \/ Truncate \/ Environment \/ Astray

Spec == Init /\ [][Next]_vars

(* add_new_block goes on once it has begun, and the network keeps offering *)
(* what the node does not have: peers announce their chains again on every *)
(* timed sync, and transactions come before the blocks that need them.     *)
Offer(b) == AddToMain(b) \/ AltKept(b) \/ AltSwitch(b)

FairSpec ==
    /\ Spec
    /\ WF_vars(phase # "idle" /\ AddNewBlock)
    /\ \A b \in Block : SF_vars(Offer(b))
    /\ \A t \in Tx : SF_vars(AddTxLookup(t))
    /\ WF_vars(\E r \in rx : AddTxInsert(r))

-----------------------------------------------------------------------------
(* Properties *)

(* The chain's indexes say exactly what its blocks say: the blocks are     *)
(* linked, m_db_spent_keys and m_db_transactions hold the key images and   *)
(* the transactions of the block at the recorded height and no others.     *)
Consistent(d) ==
    /\ d.blocks # <<>> /\ d.blocks[1] = Genesis
    /\ \A i \in 2 .. Len(d.blocks) : Len(Path[d.blocks[i]]) > 1 /\ Prev(d.blocks[i]) = d.blocks[i - 1]
    /\ \A k \in KeyImage, i \in 1 .. Len(d.blocks) :
         k \in KeysIn(d.blocks[i]) <=> d.spent[k] = i - 1
    /\ \A t \in Tx, i \in 1 .. Len(d.blocks) :
         t \in TxsIn(d.blocks[i]) <=> d.txs[t] = i - 1
    /\ \A k \in KeyImage : d.spent[k] = Absent \/ d.spent[k] + 1 \in 1 .. Len(d.blocks)
    /\ \A t \in Tx : d.txs[t] = Absent \/ d.txs[t] + 1 \in 1 .. Len(d.blocks)

(* At every step of a switch, and in what is committed, no key image is    *)
(* spent twice and no transaction stored twice, until a block is written   *)
(* or a switch begun with a size that an abort has left behind.            *)
ChainConsistent == phase # "astray" => Consistent(db) /\ Consistent(saved)

(* m_alternative_chains_txs counts the alternative blocks a transaction is *)
(* in: a lower count would let remove_stuck_transactions take it away.     *)
AltTxsCounted ==
    \A t \in Tx : alt_txs[t] = Cardinality({b \in alt : t \in TxsIn(b)})

(* m_altblocks_keyimages names a block exactly while it is an alternative  *)
(* one, unless it was erased blindly.  A name left behind makes the block  *)
(* unacceptable for ever.                                                  *)
AltKeyImagesExact ==
    \A k \in KeyImage : alt_ki[k] \ blind = {b \in alt : k \in KeysIn(b)} \ blind

(* remove_stuck_transactions: "never remove transactions which related to  *)
(* alt blocks".  Whenever no switch is under way, every transaction of an  *)
(* alternative block is in the pool or in the chain.                       *)
AltTxsAvailable ==
    phase = "idle" => TxsInAll(alt) \subseteq pool \cup Stored(saved)

(* No alternative block the node keeps should have been switched to.       *)
NoBetterAlt ==
    phase = "idle" => \A b \in alt : ~is_reorganize_required(Top(saved), b)

(* The committed chain is only ever extended by one block, exchanged for   *)
(* one that is_reorganize_required prefers, or truncated, but for the      *)
(* write with too small a size after which the node is astray.             *)
OnlyToBetter ==
    [][ saved'.blocks # saved.blocks =>
          \/ Height(Top(saved')) > 0 /\ Prev(Top(saved')) = Top(saved)
          \/ is_reorganize_required(Top(saved), Top(saved'))
          \/ phase = "truncating" \/ (Short /\ phase' = "astray") ]_vars

(* Once the chain has passed a checkpoint, the blocks up to it stay, and   *)
(* the one at the checkpoint is the required one, as long as the node is   *)
(* not astray.                                                             *)
CheckpointFinality ==
    [][ \A c \in DOMAIN Checkpoints :
          TopHeight(saved) >= c /\ phase # "truncating" /\ phase' # "astray" =>
             /\ saved.blocks[c + 1] = Checkpoints[c]
             /\ TopHeight(saved') >= c
             /\ SubSeq(saved'.blocks, 1, c + 1) = SubSeq(saved.blocks, 1, c + 1) ]_vars

(* Blocks of a chain that cannot become the main chain: one of their       *)
(* ancestors or they themselves break a rule that no clock and no pool has *)
(* a part in.                                                              *)
AncestorTxs(b, i) == UNION {TxsIn(Path[b][j]) : j \in 1 .. i - 1}
BreaksRule(b) ==
    \E i \in 2 .. Len(Path[b]) :
        LET c == Path[b][i] IN
        \/ c \notin WellFormed \cap RewardOk
        \/ ~CheckpointOk(i - 1, c)
        \/ KeysIn(c) \cap UNION {KeysIn(Path[b][j]) : j \in 1 .. i - 1} # {}
        \/ \E m \in 1 .. Len(TxsOf[c]) :
             \/ KeysOf[TxsOf[c][m]] \cap
                  (StakeOf[c] \cup UNION {KeysOf[t] : t \in Earlier(c, m)}) # {}
             \/ ~(Needs[TxsOf[c][m]] \subseteq AncestorTxs(b, i) \cup Earlier(c, m))
             \/ \E t \in Needs[TxsOf[c][m]] : LockedByHeight(t, i - 1)

(* A block is remembered as invalid only if it is: the node would refuse   *)
(* it, and every chain that contains it, until it is restarted.  While     *)
(* size() is too small a good block may be checked on top of a block that  *)
(* is not the top, against key images spent above it, and is condemned.    *)
InvalidOnlyIfBroken == ~Short => \A b \in invalid : BreaksRule(b)

(* "REORGANIZE SUCCESS!": a block reported as added to the main chain is   *)
(* in the committed main chain.                                            *)
AddedIsStored ==
    [][ added' # NoBlock /\ added' # added => added' \in MainBlocks(saved') ]_vars

(* A transaction that is neither in the pool nor in the chain when it      *)
(* arrives is let into the pool only if no block of the writer's chain has *)
(* it by then, committed or not: take_tx leaves it in m_taken_txs until    *)
(* after the commit.                                                       *)
NoReadmission ==
    [][ \A r \in rx : rx' = {} /\ ~r.known /\ r.tx \in pool' \ pool
                        => db.txs[r.tx] = Absent ]_vars

(* "can't do return false here, because of the risc to get stuck in PANIC  *)
(* mode when nor of new chain nor altchain can be inserted into main       *)
(* chain": a node that is offered all blocks again and again ends up with  *)
(* the one that is heaviest among those that break no rule.                *)
Valid == {b \in Block : ~BreaksRule(b)}
Converges == <>[](\A b \in Valid : Weight[b] <= Weight[Top(saved)])
=============================================================================
