------------------------ MODULE BlockchainAlt_proofs ------------------------
(***************************************************************************)
(* Theorems about the alternative chains of Blockchain: that their         *)
(* transactions can be had, that their key images are kept exactly, that   *)
(* none of them is better than the main chain, that only blocks which      *)
(* break a rule are remembered as invalid, and that a block reported as    *)
(* added to the main chain is there.  Each holds as long as those of the   *)
(* Events that break it do not happen, which its statement names.          *)
(***************************************************************************)
EXTENDS Blockchain_proofs, InductionLemmas

(* Neither purge_transactions nor an exception takes transactions from the *)
(* pool for good.                                                          *)
NothingLost == "purge" \notin Events /\ "exception" \notin Events

Switching == phase \in {"popping", "connecting", "pushing"}

(* The steps after which the node is not astray.                           *)
Adds ==
    \/ \E b \in Block : AddToMain(b) \/ AltRefused(b) \/ AltKept(b) \/ AltSwitch(b)
                           \/ BackThrows(b)
    \/ MainAccepted \/ MainRefused
    \/ SwitchPop \/ SwitchPopped \/ SwitchConnect \/ SwitchRefused \/ SwitchConnected
    \/ SwitchPush \/ SwitchPushOrphaned \/ SwitchPushRefused \/ SwitchDone
    \/ Commit \/ Finalize
    \/ \E n \in 0 .. Cardinality(Tx) : Exception(n)

Truncates ==
    \/ \E h \in 1 .. Len(db.blocks) : TruncateBegin(h)
    \/ TruncatePop \/ TruncateEnd \/ TruncateNothing

SoundNext == Adds \/ Truncates \/ Environment \/ UNCHANGED vars

(* The transactions of the alternative blocks are in the pool or in the    *)
(* writer's chain, and of those only the connected blocks' are not         *)
(* committed.                                                              *)
AvailInv ==
    /\ phase # "truncating" => TxsInAll(alt) \subseteq pool \cup Stored(db)
    /\ Switching => Stored(db) \subseteq Stored(saved) \cup TxsInAll(Connected)

-----------------------------------------------------------------------------
(* Steps of a node that is not astray *)

(* A step of a node that is not astray leads it astray or is one of these. *)
LEMMA SoundSteps ==
    ASSUME Sound, [Next]_vars, ~GoesAstray
    PROVE  SoundNext
<1>1. ~Astray
  BY DEF Sound, PhaseInv, Astray
<1>2. AddNewBlock => Adds
  BY DEF AddNewBlock, Adds, GoesAstray
<1>3. Truncate => Truncates
  BY DEF Truncate, Truncates, GoesAstray
<1> QED
  BY <1>1, <1>2, <1>3 DEF Next, SoundNext

(* Who is not astray after a step was not astray before it.                *)
LEMMA NotAstray ==
    ASSUME IInv, [Next]_vars, Sound'
    PROVE  Sound /\ SoundNext
<1>1. ~Stray'
  BY DEF Sound, Stray, PhaseInv
<1>2. Sound
  BY <1>1, StrayStays DEF IInv
<1>3. ~GoesAstray
  BY <1>1, <1>2, AstrayStep
<1> QED
  BY <1>2, <1>3, SoundSteps

(* The blocks that are seen are the first of the writer's chain.           *)
LEMMA SeenFacts ==
    ASSUME Sound, stale <= Len(db.blocks)
    PROVE  /\ Len(Seen.blocks) \in 1 .. Len(db.blocks)
           /\ \A i \in 1 .. Len(Seen.blocks) : Seen.blocks[i] = db.blocks[i]
           /\ Seen.spent = db.spent /\ Seen.txs = db.txs
<1>1. db.blocks \in Seq(Block) /\ Len(db.blocks) \in Nat \ {0} /\ db \in Storage
  BY GoodFacts DEF Sound, Good
<1>2. CASE stale = Absent
  BY <1>1, <1>2 DEF Seen
<1>3. CASE stale # Absent
  <2>1. stale \in 1 .. Len(db.blocks)
    BY <1>1, <1>3 DEF Sound, TypeOK, PhaseInv
  <2>2. Seen.blocks = SubSeq(db.blocks, 1, stale) /\ Seen.spent = db.spent /\ Seen.txs = db.txs
    BY <1>1, <1>3 DEF Seen, Storage
  <2> QED
    BY <1>1, <2>1, <2>2
<1> QED
  BY <1>2, <1>3

-----------------------------------------------------------------------------
(* The transactions of alternative blocks *)

(* What push_block and pop_block do to m_db_transactions.                  *)
LEMMA PushStored ==
    ASSUME NEW d, Good(d), NEW b \in Block
    PROVE  Stored(push_block(d, b)) = Stored(d) \cup TxsIn(b)
<1>1. \A t \in Tx : push_block(d, b).txs[t] = IF t \in TxsIn(b) THEN Len(d.blocks) ELSE d.txs[t]
  BY PushFacts
<1>2. TxsIn(b) \subseteq Tx /\ Len(d.blocks) # Absent
  BY BlockFacts, GoodFacts DEF Absent
<1> QED
  BY <1>1, <1>2 DEF Stored

LEMMA PopStored ==
    ASSUME NEW d, Good(d), Len(d.blocks) > 1
    PROVE  Stored(pop_block(d)) = Stored(d) \ TxsIn(Top(d))
<1>1. \A t \in Tx : pop_block(d).txs[t] = IF t \in TxsIn(Top(d)) THEN Absent ELSE d.txs[t]
  BY PopFacts
<1> QED
  BY <1>1 DEF Stored

(* validate_alt_block_txs has seen every transaction of the block.         *)
LEMMA AltTxsSeen ==
    ASSUME NEW b \in Block, handle_alternative_block(b)
    PROVE  TxsIn(b) \subseteq pool \cup Stored(db)
<1> SUFFICES ASSUME NEW t \in TxsIn(b), t \notin pool
             PROVE  t \in Stored(db)
  OBVIOUS
<1>1. PICK i \in 1 .. Len(TxsOf[b]) : t = TxsOf[b][i]
  BY BlockFacts
<1>2. get_transaction_from_pool_or_db(t, split_height(b)) /\ split_height(b) >= 1
  BY <1>1 DEF handle_alternative_block, validate_alt_block_txs, ConnectedToMain
<1>3. db.txs[t] >= split_height(b) /\ split_height(b) \in 1 .. Len(Seen.blocks)
  BY <1>2 DEF get_transaction_from_pool_or_db, handle_alternative_block, ConnectedToMain
<1>4. db.txs[t] # Absent
  BY <1>3 DEF Absent
<1> QED
  BY <1>4, BlockFacts DEF Stored

(* Where a switch begins and ends.                                         *)
LEMMA AvailWhenIdle ==
    ASSUME Sound, db' = saved, saved' = saved, phase' = "idle",
           TxsInAll(alt') \subseteq pool' \cup Stored(saved)
    PROVE  AvailInv'
BY DEF AvailInv, Switching, Stored

(* An action that only lets the pool grow.                                 *)
LEMMA AvailUnchanged ==
    ASSUME AvailInv, UNCHANGED <<db, saved, phase, chain, at>>,
           alt' \subseteq alt, phase # "truncating" => TxsInAll(alt') \cap pool \subseteq pool'
    PROVE  AvailInv'
<1>1. TxsInAll(alt') \subseteq TxsInAll(alt)
  BY DEF TxsInAll
<1>2. TxsInAll(Connected)' = TxsInAll(Connected) /\ Stored(db)' = Stored(db) /\ Stored(saved)' = Stored(saved)
  BY DEF TxsInAll, Connected, Stored
<1> QED
  BY <1>1, <1>2 DEF AvailInv, Switching

(* remove_stuck_transactions spares what alternative blocks need.          *)
LEMMA StuckIsNotAlt ==
    ASSUME AltInv, NEW t \in Tx, alt_txs[t] = 0
    PROVE  t \notin TxsInAll(alt)
<1>1. Cardinality({b \in alt : t \in TxsIn(b)}) = 0
  BY DEF AltInv, AltTxsCounted
<1>2. IsFiniteSet({b \in alt : t \in TxsIn(b)})
  BY FS_Subset DEF AltInv
<1>3. {b \in alt : t \in TxsIn(b)} = {}
  BY <1>1, <1>2, FS_EmptySet
<1> QED
  BY <1>3 DEF TxsInAll

(* add_new_block up to the switch.                                         *)
LEMMA AvailBegin ==
    ASSUME Sound, AvailInv,
           \/ \E b \in Block : AddToMain(b) \/ AltRefused(b) \/ AltKept(b) \/ AltSwitch(b)
                                  \/ BackThrows(b)
           \/ MainAccepted \/ MainRefused
    PROVE  AvailInv'
<1>1. TypeOK /\ Good(db) /\ Good(saved) /\ PhaseInv
  BY DEF Sound
<1>2. ASSUME NEW b \in Block, AddToMain(b) \/ AltRefused(b) \/ BackThrows(b)
      PROVE  AvailInv'
  <2>1. /\ UNCHANGED <<db, saved, alt, pool>>
        /\ phase = "idle" /\ phase' \in {"idle", "main"}
    BY <1>2 DEF AddToMain, AltRefused, BackThrows, IsAlternative, IsNew, Goto, Return, chainvars,
                altvars, poolvars
  <2> QED
    BY <2>1 DEF AvailInv, Switching, Stored
<1>3. ASSUME NEW b \in Block, AltKept(b) \/ AltSwitch(b)
      PROVE  AvailInv'
  <2>1. /\ UNCHANGED <<db, saved, pool>> /\ alt' = alt \cup {b}
        /\ phase = "idle" /\ phase' \in {"idle", "popping"} /\ handle_alternative_block(b)
    BY <1>3 DEF AltKept, AltSwitch, IsAlternative, IsNew, add_alt_block, Goto, Return, chainvars,
                poolvars
  <2>2. TxsIn(b) \subseteq pool \cup Stored(db)
    BY <2>1, AltTxsSeen
  <2>3. TxsInAll(alt') \subseteq pool' \cup Stored(db)
    BY <2>1, <2>2 DEF AvailInv, TxsInAll
  <2>4. db = saved /\ Stored(db)' = Stored(db) /\ Stored(saved)' = Stored(db)
    BY <1>1, <2>1 DEF PhaseInv, Stored
  <2> QED
    BY <2>1, <2>3, <2>4 DEF AvailInv
<1>4. CASE MainAccepted
  <2>1. cur \in Block
    BY <1>1, <1>4 DEF MainAccepted, PhaseInv
  <2>2. Stored(db)' = Stored(db) \cup TxsIn(cur)
    BY <1>1, <1>4, <2>1, PushStored DEF MainAccepted, Stored
  <2>3. pool' = pool \ TxsIn(cur) /\ alt' = alt /\ phase = "main" /\ phase' = "commit"
    BY <1>4 DEF MainAccepted, altvars, Goto
  <2> QED
    BY <2>2, <2>3 DEF AvailInv, Switching
<1>5. CASE MainRefused
  <2>1. /\ db' = saved /\ saved' = saved /\ alt' = alt /\ pool' = pool
        /\ phase = "main" /\ phase' = "idle" /\ db = saved
    BY <1>1, <1>5 DEF MainRefused, AbortTransaction, Return, PhaseInv
  <2> QED
    BY <2>1, AvailWhenIdle DEF AvailInv
<1> QED
  BY <1>2, <1>3, <1>4, <1>5

(* What the roll-back returns to the pool covers what the abort removes    *)
(* from the chain.                                                         *)
LEMMA AvailRollback ==
    ASSUME Sound, AvailInv, Switching, db' = saved, saved' = saved, phase' = "idle",
           alt' \subseteq alt, pool' = pool \cup TxsInAll(Connected)
    PROVE  AvailInv'
<1>1. TxsInAll(alt') \subseteq TxsInAll(alt)
  BY DEF TxsInAll
<1>2. TxsInAll(alt) \subseteq pool \cup Stored(saved) \cup TxsInAll(Connected)
  BY DEF AvailInv, Switching
<1> QED
  BY <1>1, <1>2, AvailWhenIdle

(* The switch.                                                             *)
LEMMA AvailSwitch ==
    ASSUME Sound, AvailInv,
           \/ SwitchPop \/ SwitchPopped \/ SwitchConnect \/ SwitchRefused \/ SwitchConnected
           \/ SwitchPush \/ SwitchPushOrphaned \/ SwitchPushRefused \/ SwitchDone
    PROVE  AvailInv'
<1>1. TypeOK /\ Good(db) /\ Good(saved) /\ PhaseInv
  BY DEF Sound
<1>2. Switching
  BY DEF Switching, SwitchPop, SwitchPopped, SwitchConnect, SwitchRefused, SwitchConnected,
         SwitchPush, SwitchPushOrphaned, SwitchPushRefused, SwitchDone
<1>3. SwitchInv /\ phase # "truncating"
  BY <1>1, <1>2 DEF PhaseInv, Switching
<1>4. /\ chain \in Seq(Block) /\ Len(chain) \in Nat \ {0} /\ at \in Nat /\ at <= Len(chain)
      /\ chain[1] \in Block /\ old \in Seq(Block)
  BY <1>1, <1>3 DEF TypeOK, SwitchInv
<1>5. CASE SwitchPop
  <2>1. Len(db.blocks) > 1
    <3>1. Len(db.blocks) \in Nat /\ Height(chain[1]) \in Int
      BY <1>1, <1>4, GoodFacts, PathFacts DEF Height
    <3> QED
      BY <1>3, <1>5, <3>1 DEF SwitchPop, SplitHeight, SwitchInv
  <2>2. Stored(db)' = Stored(db) \ TxsIn(Top(db))
    BY <1>1, <1>5, <2>1, PopStored DEF SwitchPop, Stored
  <2>3. /\ pool' = pool \cup TxsIn(Top(db)) /\ alt' = alt
        /\ Stored(saved)' = Stored(saved) /\ TxsInAll(Connected)' = TxsInAll(Connected)
    BY <1>5 DEF SwitchPop, altvars, Stored, TxsInAll, Connected
  <2> QED
    BY <1>2, <1>3, <2>2, <2>3 DEF AvailInv
<1>6. CASE SwitchConnect
  <2> DEFINE b == chain[at + 1]
  <2>1. at < Len(chain) /\ b \in Block
    BY <1>4, <1>6 DEF SwitchConnect
  <2>2. Stored(db)' = Stored(db) \cup TxsIn(b)
    BY <1>1, <1>6, <2>1, PushStored DEF SwitchConnect, Stored
  <2>3. pool' = pool \ TxsIn(b) /\ alt' = alt /\ Stored(saved)' = Stored(saved)
    BY <1>6 DEF SwitchConnect, altvars, Stored
  <2>4. TxsInAll(Connected)' = TxsInAll(Connected) \cup TxsIn(b)
    <3>1. at' = at + 1 /\ chain' = chain
      BY <1>6 DEF SwitchConnect
    <3>2. Connected' = Connected \cup {b}
      BY <1>4, <3>1 DEF Connected
    <3> QED
      BY <3>2 DEF TxsInAll
  <2> HIDE DEF b
  <2> QED
    BY <1>2, <1>3, <2>2, <2>3, <2>4 DEF AvailInv
<1>7. CASE SwitchPopped \/ SwitchConnected \/ SwitchPushOrphaned
  <2>1. /\ UNCHANGED <<db, saved, pool, alt, chain, at>> /\ Switching'
    BY <1>7 DEF SwitchPopped, SwitchConnected, SwitchPushOrphaned, Switching, Goto,
                chainvars, poolvars, altvars
  <2>2. /\ Stored(db)' = Stored(db) /\ Stored(saved)' = Stored(saved)
        /\ TxsInAll(Connected)' = TxsInAll(Connected)
    BY <2>1 DEF Stored, TxsInAll, Connected
  <2> QED
    BY <1>2, <1>3, <2>1, <2>2 DEF AvailInv
<1>8. CASE SwitchRefused
  <2>1. /\ db' = saved /\ saved' = saved /\ phase' = "idle" /\ alt' \subseteq alt
        /\ pool' = pool \cup TxsInAll(Connected)
    BY <1>8 DEF SwitchRefused, AbortTransaction, Return, do_erase_altblocks,
                rollback_blockchain_switching
  <2> QED
    BY <1>2, <2>1, AvailRollback
<1>9. CASE SwitchPush
  <2>1. Head(old) \in Block
    BY <1>4, <1>9 DEF SwitchPush
  <2>2. TxsIn(Head(old)) \subseteq pool \cup Stored(db)
    BY <1>9, <2>1, AltTxsSeen DEF SwitchPush
  <2>3. /\ UNCHANGED <<db, saved, pool, chain, at, phase>> /\ alt' = alt \cup {Head(old)}
    BY <1>9 DEF SwitchPush, chainvars, poolvars, add_alt_block
  <2>4. TxsInAll(alt') \subseteq pool \cup Stored(db)
    BY <1>3, <2>2, <2>3 DEF AvailInv, TxsInAll
  <2>5. /\ Stored(db)' = Stored(db) /\ Stored(saved)' = Stored(saved)
        /\ TxsInAll(Connected)' = TxsInAll(Connected)
    BY <2>3 DEF Stored, TxsInAll, Connected
  <2> QED
    BY <1>2, <2>3, <2>4, <2>5 DEF AvailInv
<1>10. CASE SwitchPushRefused
  <2>1. Range(chain) = Connected
    <3>1. at = Len(chain)
      BY <1>1, <1>10 DEF SwitchPushRefused, PhaseInv
    <3> QED
      BY <1>4, <3>1 DEF Connected, Range
  <2>2. /\ db' = saved /\ saved' = saved /\ phase' = "idle" /\ alt' \subseteq alt
        /\ pool' = pool \cup TxsInAll(Connected)
    BY <1>10, <2>1 DEF SwitchPushRefused, AbortTransaction, Return, do_erase_altblocks,
                rollback_blockchain_switching
  <2> QED
    BY <1>2, <2>2, AvailRollback
<1>11. CASE SwitchDone
  <2>1. /\ UNCHANGED <<db, saved, pool>> /\ alt' \subseteq alt /\ phase' = "commit"
    BY <1>11 DEF SwitchDone, do_erase_altblocks, Goto, chainvars, poolvars
  <2>2. TxsInAll(alt') \subseteq TxsInAll(alt)
    BY <2>1 DEF TxsInAll
  <2>3. Stored(db)' = Stored(db)
    BY <2>1 DEF Stored
  <2> QED
    BY <1>3, <2>1, <2>2, <2>3 DEF AvailInv, Switching
<1> QED
  BY <1>5, <1>6, <1>7, <1>8, <1>9, <1>10, <1>11

(* The commit, truncate_blockchain and the other threads.                  *)
LEMMA AvailOthers ==
    ASSUME Sound, AvailInv, NothingLost, Commit \/ Finalize \/ Truncates \/ Environment
    PROVE  AvailInv'
<1>1. TypeOK /\ Good(db) /\ Good(saved) /\ AltInv /\ PhaseInv
  BY DEF Sound
<1>2. CASE Commit
  <2>1. /\ UNCHANGED <<db, alt, pool>> /\ phase = "commit" /\ phase' = "finalize"
    BY <1>2 DEF Commit, Goto, altvars, poolvars
  <2> QED
    BY <2>1 DEF AvailInv, Switching, Stored
<1>3. CASE Finalize
  <2>1. /\ UNCHANGED <<db, saved, alt, pool>> /\ phase = "finalize" /\ phase' = "idle" /\ db = saved
    BY <1>1, <1>3 DEF Finalize, Return, chainvars, altvars, PhaseInv
  <2> QED
    BY <2>1, AvailWhenIdle DEF AvailInv
<1>4. CASE Truncates
  <2>1. ASSUME NEW h \in 1 .. Len(db.blocks), TruncateBegin(h)
        PROVE  AvailInv'
    BY <2>1 DEF TruncateBegin, Goto, AvailInv, Switching
  <2>2. CASE TruncatePop
    BY <2>2 DEF TruncatePop, callvars, AvailInv, Switching
  <2>3. CASE TruncateEnd \/ TruncateNothing
    BY <2>3 DEF TruncateEnd, TruncateNothing, clear_altblocks_and_indexes, Return, AvailInv, Switching,
                TxsInAll
  <2> QED
    BY <1>4, <2>1, <2>2, <2>3 DEF Truncates
<1>5. ASSUME NEW t \in Tx, AddTxLookup(t)
      PROVE  AvailInv'
  BY <1>5, AvailUnchanged DEF AddTxLookup, chainvars, callvars, altvars, poolvars
<1>6. ASSUME NEW r \in rx, AddTxInsert(r)
      PROVE  AvailInv'
  <2>1. pool \subseteq pool'
    BY <1>6 DEF AddTxInsert
  <2> QED
    BY <1>6, <2>1, AvailUnchanged DEF AddTxInsert, chainvars, callvars, altvars
<1>7. ASSUME NEW S \in SUBSET Tx, RemoveStuck(S)
      PROVE  AvailInv'
  <2>1. pool' = pool \ S /\ \A t \in S : alt_txs[t] = 0
    BY <1>7 DEF RemoveStuck
  <2>2. TxsInAll(alt) \cap pool \subseteq pool'
    BY <1>1, <2>1, StuckIsNotAlt
  <2>3. UNCHANGED <<db, saved, phase, chain, at, alt>>
    BY <1>7 DEF RemoveStuck, chainvars, callvars, altvars
  <2> QED
    BY <2>2, <2>3, AvailUnchanged
<1>8. CASE PruneAgedAltBlocks
  BY <1>8, AvailUnchanged DEF PruneAgedAltBlocks, do_erase_altblocks, chainvars, poolvars, callvars
<1>9. CASE ClearAltBlocks
  BY <1>9, AvailUnchanged DEF ClearAltBlocks, clear_altblocks_and_indexes, chainvars, poolvars, callvars
<1>10. ASSUME NEW c \in Clocks, SetClock(c)
       PROVE  AvailInv'
  BY <1>10, AvailUnchanged DEF SetClock, chainvars, callvars, altvars, poolvars
<1>11. CASE Crash
  BY <1>11, AvailWhenIdle DEF Crash, clear_altblocks_and_indexes, Return, TxsInAll
<1>12. ~PurgeTransactions
  BY DEF NothingLost, PurgeTransactions
<1> QED
  BY <1>2, <1>3, <1>4, <1>5, <1>6, <1>7, <1>8, <1>9, <1>10, <1>11, <1>12 DEF Environment

(* AvailInv is kept by every step.                                         *)
LEMMA AvailStep ==
    ASSUME NothingLost, Sound, AvailInv, SoundNext
    PROVE  AvailInv'
<1>1. ASSUME NEW n \in 0 .. Cardinality(Tx), Exception(n)
      PROVE  FALSE
  BY <1>1 DEF NothingLost, Exception
<1>2. CASE UNCHANGED vars
  BY <1>2, AvailUnchanged DEF vars, chainvars, callvars, altvars, poolvars
<1> QED
  BY <1>1, <1>2, AvailBegin, AvailSwitch, AvailOthers DEF SoundNext, Adds

LEMMA AvailInitially == Init => AvailInv
BY DEF Init, AvailInv, Switching, TxsInAll

LEMMA AvailInvariance ==
    ASSUME NothingLost
    PROVE  Spec => [](IInv /\ (Sound => AvailInv))
<1>1. Init => IInv /\ (Sound => AvailInv)
  BY InitSound, AvailInitially DEF IInv
<1>2. IInv /\ (Sound => AvailInv) /\ [Next]_vars => (IInv /\ (Sound => AvailInv))'
  BY NextIInv, NotAstray, AvailStep
<1> QED
  BY <1>1, <1>2, PTL DEF Spec

(* "never remove transactions which related to alt blocks": whatever       *)
(* switches fail, are rolled back or interrupted by a crash, the           *)
(* transactions of every alternative block are in the pool or in the       *)
(* committed chain when add_new_block is not at work.                      *)
THEOREM AltTxsAlwaysAvailable ==
    ASSUME NothingLost
    PROVE  Spec => []AltTxsAvailable
<1>1. IInv /\ (Sound => AvailInv) => AltTxsAvailable
  BY DEF IInv, Sound, Stray, PhaseInv, AvailInv, AltTxsAvailable
<1> QED
  BY <1>1, AvailInvariance, PTL

-----------------------------------------------------------------------------
(* The key images of alternative blocks *)

(* append_altblock_keyimages_to_big_heap                                   *)
LEMMA AddExact ==
    ASSUME TypeOK, AltKeyImagesExact, NEW b \in Block, add_alt_block(b), blind' = blind
    PROVE  AltKeyImagesExact'
<1> SUFFICES ASSUME NEW k \in KeyImage
             PROVE  alt_ki'[k] \ blind' = {a \in alt' : k \in KeysIn(a)} \ blind'
  BY DEF AltKeyImagesExact
<1>1. /\ alt' = alt \cup {b}
      /\ alt_ki'[k] = IF k \in KeysIn(b) THEN alt_ki[k] \cup {b} ELSE alt_ki[k]
  BY DEF add_alt_block
<1>2. alt_ki[k] \ blind = {a \in alt : k \in KeysIn(a)} \ blind
  BY DEF AltKeyImagesExact
<1> QED
  BY <1>1, <1>2

(* purge_altblock_keyimages_from_big_heap: a block is erased blindly if a  *)
(* transaction of its cannot be found.                                     *)
LEMMA EraseExact ==
    ASSUME TypeOK, AltKeyImagesExact, NEW S \in SUBSET alt, NEW F, do_erase_altblocks(S, F),
           blind' = blind \cup {b \in S : ~(TxsIn(b) \subseteq F)}
    PROVE  AltKeyImagesExact'
<1> SUFFICES ASSUME NEW k \in KeyImage
             PROVE  alt_ki'[k] \ blind' = {a \in alt' : k \in KeysIn(a)} \ blind'
  BY DEF AltKeyImagesExact
<1>1. /\ alt' = alt \ S
      /\ alt_ki'[k] = alt_ki[k] \ {b \in S : k \in Purgeable(b, F)}
  BY DEF do_erase_altblocks
<1>2. alt_ki[k] \ blind = {a \in alt : k \in KeysIn(a)} \ blind
  BY DEF AltKeyImagesExact
<1>3. ASSUME NEW b \in S, b \notin blind'
      PROVE  k \in Purgeable(b, F) <=> k \in KeysIn(b)
  <2>1. TxsIn(b) \cap F = TxsIn(b)
    BY <1>3
  <2> QED
    BY <2>1 DEF Purgeable, KeysIn
<1> QED
  BY <1>1, <1>2, <1>3

(* In a switch all of them can be found.                                   *)
LEMMA EraseAllExact ==
    ASSUME TypeOK, AltKeyImagesExact, NEW S \in SUBSET alt, NEW F, do_erase_altblocks(S, F),
           TxsInAll(S) \subseteq F, blind' = blind
    PROVE  AltKeyImagesExact'
<1>1. {b \in S : ~(TxsIn(b) \subseteq F)} = {}
  BY DEF TxsInAll
<1> QED
  BY <1>1, EraseExact

LEMMA ClearExact ==
    ASSUME clear_altblocks_and_indexes
    PROVE  AltKeyImagesExact'
BY DEF clear_altblocks_and_indexes, AltKeyImagesExact

LEMMA SameExact ==
    ASSUME AltKeyImagesExact, UNCHANGED <<alt, alt_ki, blind>>
    PROVE  AltKeyImagesExact'
BY DEF AltKeyImagesExact

LEMMA ExactStep ==
    ASSUME Sound, AvailInv, AltKeyImagesExact, [Next]_vars
    PROVE  AltKeyImagesExact'
<1>1. TypeOK /\ Good(db) /\ Good(saved) /\ PhaseInv
  BY DEF Sound
<1>2. ASSUME NEW b \in Block, AltKept(b) \/ AltSwitch(b) \/ AltSwitchAstray(b)
      PROVE  AltKeyImagesExact'
  BY <1>1, <1>2, AddExact DEF AltKept, AltSwitch, AltSwitchAstray
<1>3. ASSUME NEW S \in SUBSET alt, phase # "truncating"
      PROVE  TxsInAll(S) \subseteq pool \cup Stored(db)
  BY <1>3 DEF AvailInv, TxsInAll
<1>4. CASE SwitchRefused
  <2>1. /\ pool \subseteq pool' /\ ToConnect \in SUBSET alt /\ phase = "connecting"
        /\ do_erase_altblocks(ToConnect, pool' \cup Stored(db)) /\ blind' = blind
    BY <1>4 DEF SwitchRefused, rollback_blockchain_switching, Alive
  <2>2. TxsInAll(ToConnect) \subseteq pool' \cup Stored(db)
    BY <1>3, <2>1
  <2> QED
    BY <1>1, <2>1, <2>2, EraseAllExact
<1>5. CASE SwitchPush
  <2>1. Head(old) \in Block
    BY <1>1, <1>5 DEF SwitchPush, TypeOK
  <2> QED
    BY <1>1, <1>5, <2>1, AddExact DEF SwitchPush
<1>6. CASE SwitchPushRefused
  <2>1. /\ pool \subseteq pool' /\ Range(chain) \in SUBSET alt /\ phase = "pushing"
        /\ do_erase_altblocks(Range(chain), pool' \cup Stored(db)) /\ blind' = blind
    BY <1>6 DEF SwitchPushRefused, rollback_blockchain_switching, Alive
  <2>2. TxsInAll(Range(chain)) \subseteq pool' \cup Stored(db)
    BY <1>3, <2>1
  <2> QED
    BY <1>1, <2>1, <2>2, EraseAllExact
<1>7. CASE SwitchDone
  <2>1. /\ Range(chain) \in SUBSET alt /\ phase = "pushing"
        /\ do_erase_altblocks(Range(chain), pool \cup Stored(db)) /\ blind' = blind
    BY <1>7 DEF SwitchDone, Alive
  <2>2. TxsInAll(Range(chain)) \subseteq pool \cup Stored(db)
    BY <1>3, <2>1
  <2> QED
    BY <1>1, <2>1, <2>2, EraseAllExact
<1>8. CASE PruneAgedAltBlocks
  <2>1. Aged \in SUBSET alt
    BY DEF Aged
  <2> QED
    BY <1>1, <1>8, <2>1, EraseExact DEF PruneAgedAltBlocks
<1>9. CASE TruncateEnd \/ TruncateNothing \/ ClearAltBlocks \/ Crash
  BY <1>9, ClearExact DEF TruncateEnd, TruncateNothing, ClearAltBlocks, Crash
<1>10. CASE UNCHANGED <<alt, alt_ki, blind>>
  BY <1>10, SameExact
<1>11. ASSUME AddNewBlock PROVE AltKeyImagesExact'
  <2>1. ASSUME NEW b \in Block, AddToMain(b) \/ AltRefused(b) \/ BackThrows(b)
        PROVE  UNCHANGED <<alt, alt_ki, blind>>
    BY <2>1 DEF AddToMain, AltRefused, BackThrows, altvars
  <2>2. ASSUME MainAccepted \/ MainRefused \/ MainOverwrites \/ SwitchPop \/ SwitchPopped \/ SwitchConnect
               \/ SwitchConnected \/ SwitchPushOrphaned \/ Commit \/ Finalize
        PROVE  UNCHANGED <<alt, alt_ki, blind>>
    BY <2>2 DEF MainAccepted, MainRefused, MainOverwrites, SwitchPop, SwitchPopped, SwitchConnect,
               SwitchConnected, SwitchPushOrphaned, Commit, Finalize, altvars
  <2>3. ASSUME NEW n \in 0 .. Cardinality(Tx), Exception(n)
        PROVE  UNCHANGED <<alt, alt_ki, blind>>
    BY <2>3 DEF Exception, altvars
  <2> QED
    BY <1>2, <1>4, <1>5, <1>6, <1>7, <1>10, <1>11, <2>1, <2>2, <2>3 DEF AddNewBlock
<1>12. ASSUME Truncate \/ Environment PROVE AltKeyImagesExact'
  <2>1. ASSUME NEW h \in 1 .. Len(db.blocks), TruncateBegin(h)
        PROVE  UNCHANGED <<alt, alt_ki, blind>>
    BY <2>1 DEF TruncateBegin, altvars
  <2>2. ASSUME TruncatePop \/ TruncateAstray \/ PurgeTransactions
        PROVE  UNCHANGED <<alt, alt_ki, blind>>
    BY <2>2 DEF TruncatePop, TruncateAstray, PurgeTransactions, altvars
  <2>3. ASSUME NEW t \in Tx, AddTxLookup(t)
        PROVE  UNCHANGED <<alt, alt_ki, blind>>
    BY <2>3 DEF AddTxLookup, altvars
  <2>4. ASSUME NEW r \in rx, AddTxInsert(r)
        PROVE  UNCHANGED <<alt, alt_ki, blind>>
    BY <2>4 DEF AddTxInsert, altvars
  <2>5. ASSUME NEW S \in SUBSET Tx, RemoveStuck(S)
        PROVE  UNCHANGED <<alt, alt_ki, blind>>
    BY <2>5 DEF RemoveStuck, altvars
  <2>6. ASSUME NEW c \in Clocks, SetClock(c)
        PROVE  UNCHANGED <<alt, alt_ki, blind>>
    BY <2>6 DEF SetClock, altvars
  <2> QED
    BY <1>8, <1>9, <1>10, <1>12, <2>1, <2>2, <2>3, <2>4, <2>5, <2>6 DEF Truncate, Environment
<1>13. ASSUME UNCHANGED vars \/ Astray PROVE UNCHANGED <<alt, alt_ki, blind>>
  BY <1>13 DEF Astray, vars, altvars
<1> QED
  BY <1>10, <1>11, <1>12, <1>13 DEF Next

(* Of a node that is astray the other threads still prune and clear.       *)
LEMMA ExactWhenStray ==
    ASSUME Stray, AltKeyImagesExact, [Next]_vars
    PROVE  AltKeyImagesExact'
<1>1. UNCHANGED vars \/ SideStep
  BY StrayStays
<1>2. CASE UNCHANGED vars
  BY <1>2, SameExact DEF vars, altvars
<1>3. CASE PruneAgedAltBlocks
  <2>1. Aged \in SUBSET alt
    BY DEF Aged
  <2> QED
    BY <1>3, <2>1, EraseExact DEF PruneAgedAltBlocks, Stray
<1>4. CASE ClearAltBlocks
  BY <1>4, ClearExact DEF ClearAltBlocks
<1>5. ASSUME SideStep, ~PruneAgedAltBlocks, ~ClearAltBlocks
      PROVE  UNCHANGED <<alt, alt_ki, blind>>
  BY <1>5 DEF SideStep, AddTxLookup, AddTxInsert, RemoveStuck, PurgeTransactions, SetClock, altvars
<1> QED
  BY <1>1, <1>2, <1>3, <1>4, <1>5, SameExact

(* purge_altblock_keyimages_from_big_heap finds the transactions of every  *)
(* block that a switch erases, so that m_altblocks_keyimages names exactly *)
(* the alternative blocks, those aside that prune_aged_alt_blocks erased   *)
(* while another thread's uncommitted block had their transactions.        *)
THEOREM AltKeyImagesAreExact ==
    ASSUME NothingLost
    PROVE  Spec => []AltKeyImagesExact
<1>1. Init => AltKeyImagesExact
  BY DEF Init, AltKeyImagesExact
<1>2. IInv /\ (Sound => AvailInv) /\ AltKeyImagesExact /\ [Next]_vars => AltKeyImagesExact'
  BY ExactStep, ExactWhenStray DEF IInv
<1> QED
  BY <1>1, <1>2, AvailInvariance, PTL DEF Spec

-----------------------------------------------------------------------------
(* The shape of a switch: chain is the end of the path to the block that   *)
(* caused it, the blocks below it are on both chains, and old is the end   *)
(* of the committed chain.                                                 *)
SwitchPath ==
    /\ SplitHeight \in 1 .. Len(db.blocks) /\ SplitHeight <= Len(saved.blocks)
    /\ Len(chain) = Len(Path[cur]) - SplitHeight
    /\ \A i \in 1 .. Len(chain) : chain[i] = Path[cur][SplitHeight + i]
    /\ \A i \in 1 .. SplitHeight : db.blocks[i] = saved.blocks[i] /\ db.blocks[i] = Path[cur][i]

OldIsSuffix ==
    /\ Len(old) <= Len(saved.blocks) - SplitHeight
    /\ \A i \in 1 .. Len(old) : old[i] = saved.blocks[Len(saved.blocks) - Len(old) + i]

PoppedInv ==
    IF phase = "popping"
    THEN /\ Len(db.blocks) = Len(saved.blocks) - Len(old)
         /\ \A i \in 1 .. Len(db.blocks) : db.blocks[i] = saved.blocks[i]
    ELSE Len(db.blocks) = SplitHeight + at

ShapeInv == Switching => SwitchPath /\ OldIsSuffix /\ PoppedInv

(* What build_alt_subchain returns, with the block itself.                 *)
LEMMA AltChainIsPath ==
    ASSUME NEW b \in Block, ConnectedToMain(b)
    PROVE  LET c == Append(build_alt_subchain(b), b)  s == split_height(b) IN
           /\ s \in Nat \ {0} /\ Len(c) = Len(Path[b]) - s
           /\ \A i \in 1 .. Len(c) : c[i] = Path[b][s + i]
           /\ Height(c[1]) = s
<1> DEFINE n == Len(Path[b])
           f == FirstAlt(b)
           u == build_alt_subchain(b)
           c == Append(u, b)
           s == split_height(b)
<1>1. n \in Nat \ {0} /\ Path[b] \in Seq(Block) /\ Path[b][n] = b
  BY PathFacts
<1>2. f \in 1 .. n
  BY FirstAltFacts
<1>3. s = f - 1
  BY DEF split_height
<1>4. f >= 2
  BY <1>1, <1>2 DEF ConnectedToMain, split_height
<1>5. u = SubSeq(Path[b], f, n - 1)
  BY DEF build_alt_subchain
<1>6. u \in Seq(Block) /\ Len(u) = n - f /\ \A i \in 1 .. n - f : u[i] = Path[b][f + i - 1]
  BY <1>1, <1>2, <1>5
<1> HIDE DEF u
<1>7. Len(c) = n - f + 1 /\ c[n - f + 1] = b /\ \A i \in 1 .. n - f : c[i] = u[i]
  BY <1>6
<1>8. ASSUME NEW i \in 1 .. Len(c)
      PROVE  c[i] = Path[b][s + i]
  <2>1. CASE i = n - f + 1
    BY <1>1, <1>2, <1>3, <1>7, <2>1
  <2>2. CASE i \in 1 .. n - f
    <3>1. s + i = f + i - 1
      BY <1>2, <1>3
    <3> QED
      BY <1>6, <1>7, <2>2, <3>1
  <2> QED
    BY <1>1, <1>2, <1>7, <2>1, <2>2
<1>9. 1 \in 1 .. Len(c) /\ f \in 1 .. n /\ s + 1 = f
  BY <1>1, <1>2, <1>3, <1>7
<1>10. c[1] = Path[b][f]
  BY <1>8, <1>9
<1>11. Len(Path[c[1]]) = f
  BY <1>2, <1>10, PathFacts
<1>12. Height(c[1]) = s
  BY <1>2, <1>3, <1>11 DEF Height
<1> HIDE DEF c, n, f, s
<1> QED
  BY <1>1, <1>2, <1>3, <1>4, <1>7, <1>8, <1>12 DEF c, n, f, s, u

(* A switch begins with both chains the same.                              *)
LEMMA ShapeBegins ==
    ASSUME Sound, NEW b \in Block, AltSwitch(b)
    PROVE  ShapeInv'
<1> DEFINE s == split_height(b)
<1>1. TypeOK /\ Good(db) /\ Good(saved) /\ db = saved /\ Seen = db
  BY DEF Sound, PhaseInv, AltSwitch, IsAlternative, IsNew, Seen
<1>2. /\ chain' = Append(build_alt_subchain(b), b) /\ cur' = b /\ at' = 0 /\ old' = <<>>
      /\ phase' = "popping" /\ db' = db /\ saved' = saved /\ ConnectedToMain(b)
  BY DEF AltSwitch, Goto, chainvars, handle_alternative_block
<1>3. /\ s \in Nat \ {0} /\ Len(chain') = Len(Path[b]) - s
      /\ \A i \in 1 .. Len(chain') : chain'[i] = Path[b][s + i]
      /\ Height(chain'[1]) = s
  BY <1>2, AltChainIsPath
<1>4. s \in 1 .. Len(db.blocks) /\ db.blocks[s] = Path[b][s]
  BY <1>1, <1>2, <1>3 DEF ConnectedToMain, split_height
<1>5. s \in 1 .. Len(Path[b])
  <2>1. FirstAlt(b) \in 1 .. Len(Path[b]) /\ s = FirstAlt(b) - 1
    BY FirstAltFacts DEF split_height
  <2> QED
    BY <1>3, <2>1
<1>6. SplitHeight' = s
  BY <1>3 DEF SplitHeight
<1> HIDE DEF s
<1>7. \A i \in 1 .. s : db.blocks[i] = Path[b][i]
  <2>1. \A i \in 1 .. s : Path[db.blocks[s]][i] = db.blocks[i]
    BY <1>1, <1>4 DEF Good, Linked
  <2>2. \A i \in 1 .. s : Path[Path[b][s]][i] = Path[b][i]
    BY <1>5, PathFacts
  <2> QED
    BY <1>4, <2>1, <2>2
<1>8. Len(db.blocks) \in Nat
  BY <1>1, GoodFacts
<1>9. SwitchPath'
  BY <1>1, <1>2, <1>3, <1>4, <1>6, <1>7 DEF SwitchPath
<1>10. OldIsSuffix' /\ PoppedInv'
  BY <1>1, <1>2, <1>4, <1>6, <1>8 DEF OldIsSuffix, PoppedInv
<1> QED
  BY <1>9, <1>10 DEF ShapeInv

(* A block is popped.                                                      *)
LEMMA ShapePop ==
    ASSUME Sound, ShapeInv, SwitchPop
    PROVE  ShapeInv'
<1> DEFINE n == Len(db.blocks)
           m == Len(saved.blocks)
           k == Len(old)
           s == SplitHeight
<1>1. TypeOK /\ Good(db) /\ Good(saved)
  BY DEF Sound
<1>2. SwitchPath /\ OldIsSuffix /\ PoppedInv /\ phase = "popping"
  BY DEF ShapeInv, Switching, SwitchPop
<1>3. n \in Nat \ {0} /\ m \in Nat \ {0} /\ old \in Seq(Block) /\ k \in Nat /\ Top(db) \in Block
  BY <1>1, GoodFacts DEF TypeOK
<1>4. /\ n > s /\ s \in 1 .. n /\ n = m - k
      /\ \A i \in 1 .. n : db.blocks[i] = saved.blocks[i]
  BY <1>2 DEF SwitchPop, SwitchPath, PoppedInv
<1>5. /\ UNCHANGED <<saved, chain, cur, phase, at>> /\ db' = pop_block(db) /\ old' = <<Top(db)>> \o old
  BY DEF SwitchPop
<1>6. s \in Nat \ {0} /\ n > 1 /\ SplitHeight' = s
  BY <1>3, <1>4, <1>5 DEF SplitHeight
<1>7. Len(db'.blocks) = n - 1 /\ \A i \in 1 .. n - 1 : db'.blocks[i] = db.blocks[i]
  BY <1>1, <1>5, <1>6, PopFacts
<1>8. Len(old') = k + 1 /\ old'[1] = Top(db) /\ \A i \in 1 .. k : old'[i + 1] = old[i]
  BY <1>3, <1>5
<1>9. Top(db) = saved.blocks[n]
  BY <1>3, <1>4 DEF Top
<1>10. OldIsSuffix'
  <2>1. \A i \in 1 .. k : old[i] = saved.blocks[m - k + i]
    BY <1>2 DEF OldIsSuffix
  <2>2. ASSUME NEW i \in 1 .. k + 1
        PROVE  old'[i] = saved.blocks[m - (k + 1) + i]
    <3>1. CASE i = 1
      <4>1. m - (k + 1) + 1 = n
        BY <1>3, <1>4
      <4> QED
        BY <1>8, <1>9, <3>1, <4>1
    <3>2. CASE i # 1
      <4>1. i - 1 \in 1 .. k /\ (i - 1) + 1 = i /\ m - (k + 1) + i = m - k + (i - 1)
        BY <1>3, <3>2
      <4>2. old'[i] = old[i - 1]
        BY <1>8, <4>1
      <4> QED
        BY <2>1, <4>1, <4>2
    <3> QED
      BY <3>1, <3>2
  <2>3. k + 1 <= m - s
    BY <1>3, <1>4, <1>6
  <2> HIDE DEF n, m, k, s
  <2> QED
    BY <1>5, <1>6, <1>8, <2>2, <2>3 DEF OldIsSuffix, m
<1>11. SwitchPath'
  <2>1. SwitchPath
    BY <1>2
  <2>2. s \in 1 .. n - 1 /\ \A i \in 1 .. s : i \in 1 .. n - 1
    BY <1>3, <1>4, <1>6
  <2> HIDE DEF n, m, k
  <2> QED
    BY <1>5, <1>6, <1>7, <2>1, <2>2 DEF SwitchPath
<1>12. PoppedInv'
  <2>1. n - 1 = m - (k + 1) /\ \A i \in 1 .. n - 1 : i \in 1 .. n
    BY <1>3, <1>4
  <2> HIDE DEF n, k, s
  <2> QED
    BY <1>2, <1>4, <1>5, <1>7, <1>8, <2>1 DEF PoppedInv
<1> QED
  BY <1>10, <1>11, <1>12 DEF ShapeInv

(* The rest of the switch.                                                 *)
LEMMA ShapeSwitch ==
    ASSUME Sound, ShapeInv,
           SwitchPopped \/ SwitchConnect \/ SwitchConnected \/ SwitchPush \/ SwitchPushOrphaned
    PROVE  ShapeInv'
<1> DEFINE n == Len(db.blocks)
           s == SplitHeight
<1>1. TypeOK /\ Good(db) /\ Good(saved) /\ PhaseInv
  BY DEF Sound
<1>2. SwitchPath /\ OldIsSuffix /\ PoppedInv /\ Switching
  BY DEF ShapeInv, Switching, SwitchPopped, SwitchConnect, SwitchConnected, SwitchPush,
         SwitchPushOrphaned
<1>3. /\ n \in Nat \ {0} /\ Len(saved.blocks) \in Nat \ {0} /\ old \in Seq(Block)
      /\ s \in 1 .. n /\ s \in Nat /\ at \in Nat /\ at <= Len(chain) /\ chain \in Seq(Block)
  BY <1>1, <1>2, GoodFacts DEF TypeOK, SwitchPath, PhaseInv, SwitchInv, Switching
<1>4. UNCHANGED <<saved, chain, cur>> /\ SplitHeight' = s
  BY DEF SwitchPopped, SwitchConnect, SwitchConnected, SwitchPush, SwitchPushOrphaned, chainvars,
         SplitHeight
<1>5. CASE SwitchPopped \/ SwitchConnected
  <2>1. UNCHANGED <<db, old, at>> /\ phase' # "popping"
    BY <1>5 DEF SwitchPopped, SwitchConnected, Goto, chainvars
  <2>2. n = s + at
    <3>1. CASE SwitchPopped
      <4>1. at = 0 /\ n <= s
        BY <1>1, <3>1 DEF SwitchPopped, PhaseInv
      <4> QED
        BY <1>3, <4>1
    <3>2. CASE SwitchConnected
      BY <1>2, <3>2 DEF SwitchConnected, PoppedInv
    <3> QED
      BY <1>5, <3>1, <3>2
  <2> HIDE DEF n, s
  <2>3. SwitchPath'
    BY <1>2, <1>4, <2>1 DEF SwitchPath, s
  <2>4. OldIsSuffix'
    BY <1>2, <1>4, <2>1 DEF OldIsSuffix, s
  <2>5. PoppedInv'
    BY <1>4, <2>1, <2>2 DEF PoppedInv, n
  <2> QED
    BY <2>3, <2>4, <2>5 DEF ShapeInv
<1>6. CASE SwitchConnect
  <2>1. UNCHANGED old /\ phase' # "popping" /\ phase # "popping" /\ at' = at + 1 /\ at < Len(chain)
    BY <1>6 DEF SwitchConnect
  <2>2. chain[at + 1] \in Block /\ db' = push_block(db, chain[at + 1])
    BY <1>3, <1>6, <2>1 DEF SwitchConnect
  <2>3. Len(db'.blocks) = n + 1 /\ \A i \in 1 .. n : db'.blocks[i] = db.blocks[i]
    BY <1>1, <2>2, PushFacts
  <2>4. n = s + at
    BY <1>2, <2>1 DEF PoppedInv
  <2>5. s \in 1 .. n + 1 /\ n + 1 = s + (at + 1) /\ \A i \in 1 .. s : i \in 1 .. n
    BY <1>3, <2>4
  <2> HIDE DEF n, s
  <2>6. SwitchPath'
    BY <1>2, <1>4, <2>3, <2>5 DEF SwitchPath, s
  <2>7. OldIsSuffix'
    BY <1>2, <1>4, <2>1 DEF OldIsSuffix, s
  <2>8. PoppedInv'
    BY <1>4, <2>1, <2>3, <2>5 DEF PoppedInv
  <2> QED
    BY <2>6, <2>7, <2>8 DEF ShapeInv
<1>7. CASE SwitchPush \/ SwitchPushOrphaned
  <2>1. UNCHANGED <<db, at, phase>> /\ phase = "pushing" /\ old' = Tail(old) /\ old # <<>>
    BY <1>7 DEF SwitchPush, SwitchPushOrphaned, chainvars
  <2>2. Len(old') = Len(old) - 1 /\ \A i \in 1 .. Len(old) - 1 : old'[i] = old[i + 1]
    BY <1>3, <2>1
  <2> HIDE DEF n, s
  <2>3. SwitchPath'
    BY <1>2, <1>4, <2>1 DEF SwitchPath, s
  <2>4. OldIsSuffix'
    <3> DEFINE m == Len(saved.blocks)
               k == Len(old)
    <3>1. k \in Nat /\ k >= 1 /\ k <= m - s
      BY <1>2, <1>3, <2>1 DEF OldIsSuffix, s
    <3>2. \A i \in 1 .. k : old[i] = saved.blocks[m - k + i]
      BY <1>2 DEF OldIsSuffix
    <3>3. ASSUME NEW i \in 1 .. k - 1
          PROVE  old'[i] = saved.blocks[m - (k - 1) + i]
      <4>1. old'[i] = old[i + 1]
        BY <2>2
      <4>2. m \in Nat /\ k \in Nat
        BY <1>3, <3>1
      <4> HIDE DEF m, k
      <4>3. i + 1 \in 1 .. k /\ m - k + (i + 1) = m - (k - 1) + i
        BY <4>2
      <4> QED
        BY <3>2, <4>1, <4>3
    <3>4. k - 1 <= m - s
      BY <1>3, <3>1 DEF s
    <3> HIDE DEF m, k
    <3> QED
      BY <1>4, <2>2, <3>3, <3>4 DEF OldIsSuffix, m, k
  <2>5. PoppedInv'
    BY <1>2, <1>4, <2>1 DEF PoppedInv, s
  <2> QED
    BY <2>3, <2>4, <2>5 DEF ShapeInv
<1> QED
  BY <1>5, <1>6, <1>7

(* Nothing else touches a switch but to end it.                            *)
LEMMA ShapeStep ==
    ASSUME Sound, ShapeInv, SoundNext
    PROVE  ShapeInv'
<1>1. CASE ~Switching'
  BY <1>1 DEF ShapeInv
<1>2. CASE UNCHANGED <<db, saved, phase, cur, chain, at, old>>
  BY <1>2 DEF ShapeInv, Switching, SwitchPath, SplitHeight, OldIsSuffix, PoppedInv
<1>3. ASSUME Adds PROVE ShapeInv'
  <2>1. ASSUME NEW b \in Block, AddToMain(b) \/ AltRefused(b) \/ AltKept(b) \/ BackThrows(b)
        PROVE  ~Switching'
    BY <2>1 DEF AddToMain, AltRefused, AltKept, BackThrows, Goto, Return, Switching
  <2>2. ASSUME MainAccepted \/ MainRefused \/ SwitchRefused \/ SwitchPushRefused \/ SwitchDone
               \/ Commit \/ Finalize
        PROVE  ~Switching'
    BY <2>2 DEF MainAccepted, MainRefused, SwitchRefused, SwitchPushRefused, SwitchDone,
               Commit, Finalize, Goto, Return, Switching
  <2>3. ASSUME NEW n \in 0 .. Cardinality(Tx), Exception(n)
        PROVE  ~Switching'
    BY <2>3 DEF Exception, Return, Switching
  <2> QED
    BY <1>1, <1>3, <2>1, <2>2, <2>3, ShapeBegins, ShapePop, ShapeSwitch DEF Adds
<1>4. ASSUME Truncates PROVE ~Switching'
  BY <1>4 DEF Truncates, TruncateBegin, TruncatePop, TruncateEnd, TruncateNothing, Goto, Return,
              callvars, Switching
<1>5. ASSUME Environment PROVE ShapeInv'
  <2>1. ASSUME Crash PROVE ~Switching'
    BY <2>1 DEF Crash, Return, Switching
  <2>2. ASSUME ~Crash PROVE UNCHANGED <<db, saved, phase, cur, chain, at, old>>
    BY <1>5, <2>2 DEF Environment, AddTxLookup, AddTxInsert, RemoveStuck, PurgeTransactions,
       PruneAgedAltBlocks, ClearAltBlocks, SetClock, chainvars, callvars
  <2> QED
    BY <1>1, <1>2, <2>1, <2>2
<1>6. ASSUME UNCHANGED vars PROVE UNCHANGED <<db, saved, phase, cur, chain, at, old>>
  BY <1>6 DEF vars, chainvars, callvars
<1> QED
  BY <1>1, <1>2, <1>3, <1>4, <1>5, <1>6 DEF SoundNext

LEMMA ShapeInvariance == Spec => [](IInv /\ (Sound => ShapeInv))
<1>1. Init => IInv /\ (Sound => ShapeInv)
  BY InitSound DEF IInv, Init, ShapeInv, Switching
<1>2. IInv /\ (Sound => ShapeInv) /\ [Next]_vars => (IInv /\ (Sound => ShapeInv))'
  BY NextIInv, NotAstray, ShapeStep
<1> QED
  BY <1>1, <1>2, PTL DEF Spec

-----------------------------------------------------------------------------
(* The heaviest chain *)

(* Only the block that causes a switch is preferred to the committed top,  *)
(* and only while the switch is under way.                                 *)
PreferredInv ==
    \A b \in alt : is_reorganize_required(Top(saved), b) => Switching /\ b = cur

(* The weights grow along the chain.                                       *)
LEMMA ChainWeights ==
    ASSUME NEW d, Good(d), NEW i \in 1 .. Len(d.blocks)
    PROVE  /\ d.blocks[i] \in Block
           /\ Weight[d.blocks[i]] + (Len(d.blocks) - i) <= Weight[Top(d)]
<1> DEFINE n == Len(d.blocks)
           T == {j \in Nat : j <= n - 1 => Weight[d.blocks[n - j]] + j <= Weight[Top(d)]}
<1>1. n \in Nat \ {0} /\ d.blocks \in Seq(Block) /\ Top(d) = d.blocks[n] /\ Top(d) \in Block
  BY GoodFacts DEF Top
<1>2. \A j \in 1 .. n : d.blocks[j] \in Block /\ Weight[d.blocks[j]] \in Nat
  <2>1. \A j \in 1 .. n : d.blocks[j] \in Block
    BY <1>1
  <2> QED
    BY <2>1, BlockAssumption
<1>3. \A j \in 2 .. n : Len(Path[d.blocks[j]]) > 1 /\ Prev(d.blocks[j]) = d.blocks[j - 1]
  BY DEF Good, Consistent
<1>4. \A j \in 2 .. n : Weight[d.blocks[j]] > Weight[d.blocks[j - 1]]
  <2> SUFFICES ASSUME NEW j \in 2 .. n
               PROVE  Weight[d.blocks[j]] > Weight[d.blocks[j - 1]]
    OBVIOUS
  <2>1. j \in 1 .. n
    BY <1>1
  <2> QED
    BY <1>2, <1>3, <2>1, BlockAssumption DEF Prev
<1> HIDE DEF n
<1>5. 0 \in T
  BY <1>1, <1>2
<1>6. ASSUME NEW j \in T PROVE j + 1 \in T
  <2> SUFFICES ASSUME j + 1 <= n - 1
               PROVE  Weight[d.blocks[n - (j + 1)]] + (j + 1) <= Weight[Top(d)]
    OBVIOUS
  <2>1. n - j \in 2 .. n /\ n - j \in 1 .. n /\ (n - j) - 1 = n - (j + 1) /\ n - (j + 1) \in 1 .. n
    BY <1>1
  <2>2. Weight[d.blocks[n - j]] + j <= Weight[Top(d)]
    BY <1>1
  <2>3. Weight[d.blocks[n - j]] > Weight[d.blocks[n - (j + 1)]]
    BY <1>4, <2>1
  <2>4. Weight[d.blocks[n - j]] \in Nat /\ Weight[d.blocks[n - (j + 1)]] \in Nat /\ Weight[Top(d)] \in Nat
    BY <1>1, <1>2, <2>1, BlockAssumption
  <2> QED
    BY <2>2, <2>3, <2>4
<1>7. T = Nat
  <2>1. T \in SUBSET Nat
    OBVIOUS
  <2> HIDE DEF T
  <2> QED
    BY <1>5, <1>6, <2>1, SetInduction
<1>8. i \in 1 .. n
  BY DEF n
<1>9. n - i \in Nat /\ n - i <= n - 1 /\ n - (n - i) = i
  BY <1>1, <1>8
<1>10. n - i \in T
  BY <1>7, <1>9
<1>11. Weight[d.blocks[i]] + (n - i) <= Weight[Top(d)]
  BY <1>9, <1>10
<1> QED
  BY <1>2, <1>8, <1>11 DEF n

(* No block of the chain is preferred to its top.                          *)
LEMMA ChainNotPreferred ==
    ASSUME NEW d, Good(d), NEW i \in 1 .. Len(d.blocks)
    PROVE  ~is_reorganize_required(Top(d), d.blocks[i])
<1>1. /\ d.blocks[i] \in Block /\ Top(d) \in Block /\ Len(d.blocks) \in Nat \ {0}
      /\ Weight[d.blocks[i]] + (Len(d.blocks) - i) <= Weight[Top(d)]
  BY ChainWeights, GoodFacts
<1>2. Weight[d.blocks[i]] \in Nat /\ Weight[Top(d)] \in Nat /\ Proof[Top(d)] \in Nat
  BY <1>1, BlockAssumption
<1>3. CASE i = Len(d.blocks)
  <2>1. d.blocks[i] = Top(d)
    BY <1>3 DEF Top
  <2> QED
    BY <1>2, <2>1 DEF is_reorganize_required
<1>4. CASE i # Len(d.blocks)
  <2>1. Weight[d.blocks[i]] < Weight[Top(d)]
    BY <1>1, <1>2, <1>4
  <2> QED
    BY <1>2, <2>1 DEF is_reorganize_required
<1> QED
  BY <1>3, <1>4

(* is_reorganize_required is transitive.                                   *)
LEMMA PreferredTransitive ==
    ASSUME NEW a \in Block, NEW b \in Block, NEW c \in Block,
           Weight[a] < Weight[b] \/ is_reorganize_required(a, b), is_reorganize_required(b, c)
    PROVE  is_reorganize_required(a, c)
<1>1. /\ Weight[a] \in Nat /\ Weight[b] \in Nat /\ Weight[c] \in Nat
      /\ Proof[a] \in Nat /\ Proof[b] \in Nat /\ Proof[c] \in Nat
  BY BlockAssumption
<1> QED
  BY <1>1 DEF is_reorganize_required

(* The top block that is seen is the real one or lighter.                  *)
LEMMA SeenIsLighter ==
    ASSUME Sound, phase = "idle", stale <= Len(db.blocks), NEW b \in Block,
           is_reorganize_required(Top(saved), b)
    PROVE  is_reorganize_required(Top(Seen), b)
<1> DEFINE n == Len(Seen.blocks)
           m == Len(saved.blocks)
<1>1. Good(saved) /\ db = saved
  BY DEF Sound, PhaseInv
<1>2. n \in 1 .. m /\ Top(Seen) = saved.blocks[n] /\ m \in Nat /\ Top(saved) \in Block
  <2>1. n \in 1 .. m /\ \A i \in 1 .. n : Seen.blocks[i] = saved.blocks[i]
    BY <1>1, SeenFacts
  <2>2. Top(Seen) = Seen.blocks[n]
    BY DEF Top
  <2>3. m \in Nat /\ Top(saved) \in Block
    BY <1>1, GoodFacts
  <2> HIDE DEF n, m
  <2>4. n \in 1 .. n
    BY <2>1, <2>3
  <2> QED
    BY <2>1, <2>2, <2>3, <2>4
<1> HIDE DEF n
<1>3. saved.blocks[n] \in Block /\ Weight[saved.blocks[n]] + (m - n) <= Weight[Top(saved)]
  BY <1>1, <1>2, ChainWeights
<1> HIDE DEF m
<1>4. CASE n = m
  BY <1>2, <1>4 DEF Top, m
<1>5. CASE n # m
  <2>1. Weight[saved.blocks[n]] \in Nat /\ Weight[Top(saved)] \in Nat
    BY <1>2, <1>3, BlockAssumption
  <2>2. m - n > 0
    BY <1>2, <1>5
  <2>3. Weight[Top(Seen)] < Weight[Top(saved)]
    BY <1>2, <1>3, <2>1, <2>2
  <2> QED
    BY <1>2, <1>3, <2>3, PreferredTransitive
<1> QED
  BY <1>4, <1>5

(* An action that adds no alternative block and leaves the switch alone.   *)
LEMMA PreferredSame ==
    ASSUME PreferredInv, saved' = saved, alt' \subseteq alt, cur' = cur, Switching => Switching'
    PROVE  PreferredInv'
BY DEF PreferredInv

(* One that ends the switch has erased its block.                          *)
LEMMA PreferredErased ==
    ASSUME PreferredInv, saved' = saved, alt' \subseteq alt, Switching => cur \notin alt'
    PROVE  PreferredInv'
BY DEF PreferredInv

LEMMA PreferredInSwitch ==
    ASSUME Sound, ShapeInv, PreferredInv,
           \/ SwitchPop \/ SwitchPopped \/ SwitchConnect \/ SwitchRefused \/ SwitchConnected
           \/ SwitchPush \/ SwitchPushOrphaned \/ SwitchPushRefused \/ SwitchDone
    PROVE  PreferredInv'
<1>1. TypeOK /\ Good(db) /\ Good(saved) /\ PhaseInv
  BY DEF Sound
<1>2. Switching
  BY DEF Switching, SwitchPop, SwitchPopped, SwitchConnect, SwitchRefused, SwitchConnected,
         SwitchPush, SwitchPushOrphaned, SwitchPushRefused, SwitchDone
<1>3. /\ chain \in Seq(Block) /\ Len(chain) \in Nat \ {0} /\ at \in Nat /\ chain[Len(chain)] = cur
      /\ old \in Seq(Block)
  BY <1>1, <1>2 DEF TypeOK, PhaseInv, SwitchInv, Switching
<1>4. CASE SwitchPop \/ SwitchPopped \/ SwitchConnect \/ SwitchConnected \/ SwitchPushOrphaned
  <2>1. saved' = saved /\ alt' = alt /\ cur' = cur /\ Switching'
    BY <1>4 DEF SwitchPop, SwitchPopped, SwitchConnect, SwitchConnected, SwitchPushOrphaned,
                Switching, Goto, chainvars, altvars
  <2> QED
    BY <2>1, PreferredSame
<1>5. CASE SwitchRefused
  <2>1. saved' = saved /\ alt' = alt \ ToConnect /\ at < Len(chain)
    BY <1>5 DEF SwitchRefused, AbortTransaction, do_erase_altblocks
  <2>2. cur \in ToConnect
    <3>1. Len(chain) \in at + 1 .. Len(chain)
      BY <1>3, <2>1
    <3> QED
      BY <1>3, <3>1 DEF ToConnect
  <2> QED
    BY <2>1, <2>2, PreferredErased
<1>6. CASE SwitchPushRefused \/ SwitchDone
  <2>1. saved' = saved /\ alt' = alt \ Range(chain)
    BY <1>6 DEF SwitchPushRefused, SwitchDone, AbortTransaction, do_erase_altblocks, chainvars
  <2>2. cur \in Range(chain)
    BY <1>3 DEF Range
  <2> QED
    BY <2>1, <2>2, PreferredErased
<1>7. CASE SwitchPush
  <2>1. /\ saved' = saved /\ alt' = alt \cup {Head(old)} /\ cur' = cur /\ phase' = phase
        /\ old # <<>>
    BY <1>7 DEF SwitchPush, add_alt_block, chainvars
  <2>2. ~is_reorganize_required(Top(saved), Head(old))
    <3>1. OldIsSuffix /\ SwitchPath
      BY <1>2 DEF ShapeInv
    <3>2. Len(old) \in Nat \ {0} /\ Head(old) = old[1] /\ Len(saved.blocks) \in Nat
      BY <1>1, <1>3, <2>1, GoodFacts
    <3>3. Head(old) = saved.blocks[Len(saved.blocks) - Len(old) + 1]
      BY <3>1, <3>2 DEF OldIsSuffix
    <3>4. Len(saved.blocks) - Len(old) + 1 \in 1 .. Len(saved.blocks)
      <4>1. SplitHeight \in Nat /\ Len(old) <= Len(saved.blocks) - SplitHeight
        BY <3>1 DEF OldIsSuffix, SwitchPath
      <4> QED
        BY <3>2, <4>1
    <3> QED
      BY <1>1, <3>3, <3>4, ChainNotPreferred
  <2>3. Switching'
    BY <1>2, <2>1 DEF Switching
  <2> QED
    BY <2>1, <2>2, <2>3 DEF PreferredInv
<1> QED
  BY <1>4, <1>5, <1>6, <1>7

LEMMA PreferredStep ==
    ASSUME "exception" \notin Events, Sound, ShapeInv, PreferredInv, SoundNext
    PROVE  PreferredInv'
<1>1. TypeOK /\ Good(db) /\ Good(saved) /\ PhaseInv
  BY DEF Sound
<1>2. CASE saved' = saved /\ alt' \subseteq alt /\ ~Switching
  BY <1>2, PreferredErased
<1>3. CASE saved' = saved /\ alt' \subseteq alt /\ cur' = cur /\ phase' = phase
  BY <1>3, PreferredSame DEF Switching
<1>4. CASE alt' = {}
  BY <1>4 DEF PreferredInv
<1>5. ASSUME NEW b \in Block, AltKept(b) \/ AltSwitch(b)
      PROVE  PreferredInv'
  <2>1. alt' = alt \cup {b} /\ saved' = saved /\ phase = "idle" /\ db = saved
    BY <1>1, <1>5 DEF AltKept, AltSwitch, add_alt_block, IsAlternative, IsNew, PhaseInv, chainvars
  <2>2. is_reorganize_required(Top(saved), b) => Switching' /\ cur' = b
    <3>1. CASE AltKept(b)
      <4>1. stale <= Len(db.blocks) /\ ~is_reorganize_required(Top(Seen), b)
        BY <3>1 DEF AltKept, IsAlternative, IsNew
      <4> QED
        BY <2>1, <4>1, SeenIsLighter
    <3>2. CASE AltSwitch(b)
      BY <3>2 DEF AltSwitch, Goto, Switching
    <3> QED
      BY <1>5, <3>1, <3>2
  <2>3. \A a \in alt : ~is_reorganize_required(Top(saved), a)
    BY <2>1 DEF PreferredInv, Switching
  <2> QED
    BY <2>1, <2>2, <2>3 DEF PreferredInv
<1>6. CASE Commit
  <2>1. saved' = db /\ alt' = alt /\ phase = "commit" /\ (ExtendsTop(Top(db)) \/ TakesOver(Top(db)))
    BY <1>1, <1>6 DEF Commit, PhaseInv, altvars
  <2>2. Top(db) \in Block /\ Top(saved) \in Block
    BY <1>1, GoodFacts
  <2>3. Weight[Top(saved)] < Weight[Top(db)] \/ is_reorganize_required(Top(saved), Top(db))
    <3>1. CASE ExtendsTop(Top(db))
      <4>1. Len(Path[Top(db)]) > 1 /\ Prev(Top(db)) = Top(saved)
        BY <2>2, <3>1, PathFacts DEF ExtendsTop, Height
      <4>2. Weight[Top(db)] > Weight[Top(saved)]
        BY <2>2, <4>1, BlockAssumption DEF Prev
      <4>3. Weight[Top(db)] \in Nat /\ Weight[Top(saved)] \in Nat
        BY <2>2, BlockAssumption
      <4> QED
        BY <4>2, <4>3
    <3>2. CASE TakesOver(Top(db))
      BY <3>2 DEF TakesOver
    <3> QED
      BY <2>1, <3>1, <3>2
  <2>4. ASSUME NEW b \in alt, is_reorganize_required(Top(db), b)
        PROVE  FALSE
    <3>1. b \in Block
      BY <1>1 DEF TypeOK
    <3>2. is_reorganize_required(Top(saved), b)
      BY <2>2, <2>3, <2>4, <3>1, PreferredTransitive
    <3> QED
      BY <2>1, <3>2 DEF PreferredInv, Switching
  <2> QED
    BY <2>1, <2>4 DEF PreferredInv
<1>7. ASSUME Adds PROVE PreferredInv'
  <2>1. ASSUME NEW b \in Block, AddToMain(b) \/ AltRefused(b) \/ BackThrows(b)
        PROVE  saved' = saved /\ alt' \subseteq alt /\ ~Switching
    BY <2>1 DEF AddToMain, AltRefused, BackThrows, IsAlternative, IsNew, Switching, chainvars,
                altvars
  <2>2. ASSUME MainAccepted \/ MainRefused \/ Finalize
        PROVE  saved' = saved /\ alt' \subseteq alt /\ ~Switching
    BY <2>2 DEF MainAccepted, MainRefused, Finalize, AbortTransaction, Switching, chainvars, altvars
  <2>3. ASSUME NEW n \in 0 .. Cardinality(Tx), Exception(n)
        PROVE  FALSE
    BY <2>3 DEF Exception
  <2> QED
    BY <1>2, <1>5, <1>6, <1>7, <2>1, <2>2, <2>3, PreferredInSwitch DEF Adds
<1>8. ASSUME Truncates PROVE PreferredInv'
  <2>1. ASSUME NEW h \in 1 .. Len(db.blocks), TruncateBegin(h)
        PROVE  saved' = saved /\ alt' \subseteq alt /\ ~Switching
    BY <2>1 DEF TruncateBegin, Switching, chainvars, altvars
  <2>2. ASSUME TruncatePop
        PROVE  saved' = saved /\ alt' \subseteq alt /\ ~Switching
    BY <2>2 DEF TruncatePop, Switching, altvars
  <2>3. ASSUME TruncateEnd \/ TruncateNothing
        PROVE  alt' = {}
    BY <2>3 DEF TruncateEnd, TruncateNothing, clear_altblocks_and_indexes
  <2> QED
    BY <1>2, <1>4, <1>8, <2>1, <2>2, <2>3 DEF Truncates
<1>9. ASSUME Environment PROVE PreferredInv'
  <2>1. ASSUME Crash \/ ClearAltBlocks PROVE alt' = {}
    BY <2>1 DEF Crash, ClearAltBlocks, clear_altblocks_and_indexes
  <2>2. ASSUME ~Crash, ~ClearAltBlocks
        PROVE  saved' = saved /\ alt' \subseteq alt /\ cur' = cur /\ phase' = phase
    BY <1>9, <2>2 DEF Environment, AddTxLookup, AddTxInsert, RemoveStuck, PurgeTransactions,
       PruneAgedAltBlocks, do_erase_altblocks, SetClock, chainvars, altvars, callvars
  <2> QED
    BY <1>3, <1>4, <2>1, <2>2
<1>10. ASSUME UNCHANGED vars
       PROVE  saved' = saved /\ alt' \subseteq alt /\ cur' = cur /\ phase' = phase
  BY <1>10 DEF vars, chainvars, altvars, callvars
<1> QED
  BY <1>3, <1>7, <1>8, <1>9, <1>10 DEF SoundNext

(* "REORGANIZE": whatever is popped, pruned, cleared or truncated, and     *)
(* whichever switches fail, no alternative block that the node keeps is    *)
(* preferred to its main chain when add_new_block has returned: not even   *)
(* with a wrong size left behind by a switch that failed, since the top    *)
(* that the node then compares with is never a heavier one.  Of a node     *)
(* that such a size has led astray nothing is said.                        *)
THEOREM NoAltIsBetter ==
    ASSUME "exception" \notin Events
    PROVE  Spec => []NoBetterAlt
<1>1. Init => PreferredInv
  BY DEF Init, PreferredInv
<1>2. IInv /\ (Sound => ShapeInv /\ PreferredInv) /\ [Next]_vars => (Sound => PreferredInv)'
  BY NotAstray, PreferredStep
<1>3. IInv /\ (Sound => PreferredInv) => NoBetterAlt
  BY DEF IInv, Stray, PreferredInv, Switching, NoBetterAlt
<1>4. /\ (Sound => ShapeInv) /\ (Sound => PreferredInv) => (Sound => ShapeInv /\ PreferredInv)
      /\ PreferredInv => (Sound => PreferredInv)
  OBVIOUS
<1> QED
  BY <1>1, <1>2, <1>3, <1>4, ShapeInvariance, PTL DEF Spec

-----------------------------------------------------------------------------
(* Invalid blocks *)

(* There are no checkpoints, no block and no unlock time is in the future, *)
(* and every transaction spends something.                                 *)
PlainRules ==
    /\ DOMAIN Checkpoints = {}
    /\ \A c \in Clocks, b \in Block :
         Time[b] <= c + FutureLimit /\ (b \in Pos => Time[b] <= c + PosFutureLimit)
    /\ \A c \in Clocks, t \in Tx : UnlockTime[t] >= MaxBlockNumber => UnlockTime[t] <= c + LockedDelta
    /\ \A t \in Tx : KeysOf[t] # {}

InvalidInv == bare = {} /\ InvalidOnlyIfBroken

(* Without checkpoints no signatures are cleared.                          *)
LEMMA NothingCleared ==
    ASSUME DOMAIN Checkpoints = {}, NEW b \in Block
    PROVE  Cleared(b) = {}
<1>1. Len(Path[b]) \in Nat \ {0}
  BY PathFacts
<1>2. CASE Height(b) = 0
  <2>1. TxsOf[b] = <<>>
    BY <1>1, <1>2, BlockAssumption DEF Height
  <2>2. TxsIn(b) = {}
    BY <2>1 DEF TxsIn, Range
  <2> QED
    BY <2>2 DEF Cleared
<1>3. CASE Height(b) # 0
  BY <1>3 DEF Cleared, is_in_checkpoint_zone
<1> QED
  BY <1>2, <1>3

(* A block on top of a chain has the chain for its ancestors.              *)
LEMMA OnTopFacts ==
    ASSUME NEW d, Good(d), NEW b \in Block, Height(b) > 0, Prev(b) = Top(d)
    PROVE  /\ Len(Path[b]) = Len(d.blocks) + 1 /\ Len(d.blocks) \in Nat \ {0}
           /\ \A j \in 1 .. Len(d.blocks) : Path[b][j] = d.blocks[j]
<1> DEFINE n == Len(d.blocks)
           m == Len(Path[b])
<1>1. n \in Nat \ {0} /\ Len(Path[Top(d)]) = n /\ Top(d) = d.blocks[n]
  BY GoodFacts DEF Top
<1>2. m \in Nat /\ m > 1
  BY PathFacts DEF Height
<1>3. m - 1 \in 1 .. m /\ Path[b][m - 1] = Top(d)
  BY <1>2 DEF Prev
<1>4. Len(Path[Top(d)]) = m - 1 /\ \A j \in 1 .. m - 1 : Path[Top(d)][j] = Path[b][j]
  <2>1. \A i \in 1 .. m : Len(Path[Path[b][i]]) = i /\ \A j \in 1 .. i : Path[Path[b][i]][j] = Path[b][j]
    BY PathFacts
  <2> HIDE DEF m
  <2>2. /\ Len(Path[Path[b][m - 1]]) = m - 1
        /\ \A j \in 1 .. m - 1 : Path[Path[b][m - 1]][j] = Path[b][j]
    BY <1>3, <2>1
  <2> QED
    BY <1>3, <2>2
<1>5. \A j \in 1 .. n : Path[d.blocks[n]][j] = d.blocks[j]
  BY <1>1 DEF Good, Linked
<1> HIDE DEF n, m
<1>6. m - 1 = n
  BY <1>1, <1>4
<1>7. \A j \in 1 .. n : Path[b][j] = d.blocks[j]
  BY <1>1, <1>4, <1>5, <1>6
<1>8. m = n + 1
  BY <1>1, <1>2, <1>6
<1> QED
  BY <1>1, <1>7, <1>8 DEF n, m

(* What the chain has spent and stored, its ancestors have.                *)
LEMMA AncestorFacts ==
    ASSUME NEW d, Good(d), NEW b \in Block, Height(b) > 0, Prev(b) = Top(d)
    PROVE  LET m == Len(Path[b]) IN
           /\ \A k \in KeyImage : d.spent[k] # Absent => k \in UNION {KeysIn(Path[b][j]) : j \in 1 .. m - 1}
           /\ Stored(d) = AncestorTxs(b, m)
<1> DEFINE n == Len(d.blocks)
           m == Len(Path[b])
<1>1. /\ m = n + 1 /\ n \in Nat \ {0} /\ m - 1 = n
      /\ \A j \in 1 .. n : Path[b][j] = d.blocks[j]
  BY OnTopFacts
<1>2. Consistent(d) /\ d.blocks \in Seq(Block) /\ d.spent \in [KeyImage -> Int] /\ d.txs \in [Tx -> Int]
  BY GoodFacts DEF Good
<1> HIDE DEF n, m
<1>3. ASSUME NEW k \in KeyImage, d.spent[k] # Absent
      PROVE  k \in UNION {KeysIn(Path[b][j]) : j \in 1 .. m - 1}
  <2>1. d.spent[k] + 1 \in 1 .. n
    BY <1>2, <1>3 DEF Consistent, n
  <2>2. k \in KeysIn(d.blocks[d.spent[k] + 1])
    BY <1>2, <2>1 DEF Consistent, n
  <2>3. k \in KeysIn(Path[b][d.spent[k] + 1]) /\ d.spent[k] + 1 \in 1 .. m - 1
    BY <1>1, <2>1, <2>2
  <2> QED
    BY <2>3
<1>4. ASSUME NEW t \in Stored(d)
      PROVE  t \in AncestorTxs(b, m)
  <2>1. t \in Tx /\ d.txs[t] + 1 \in 1 .. n
    BY <1>2, <1>4 DEF Consistent, n, Stored
  <2>2. t \in TxsIn(d.blocks[d.txs[t] + 1])
    BY <1>2, <2>1 DEF Consistent, n
  <2>3. t \in TxsIn(Path[b][d.txs[t] + 1]) /\ d.txs[t] + 1 \in 1 .. m - 1
    BY <1>1, <2>1, <2>2
  <2> QED
    BY <2>3 DEF AncestorTxs
<1>5. ASSUME NEW t \in AncestorTxs(b, m)
      PROVE  t \in Stored(d)
  <2>1. PICK j \in 1 .. n : t \in TxsIn(d.blocks[j])
    BY <1>1, <1>5 DEF AncestorTxs
  <2>2. d.blocks[j] \in MainBlocks(d)
    BY <2>1, GoodFacts DEF n
  <2> QED
    BY <2>1, <2>2, ChainTxsStored DEF Stored
<1> QED
  BY <1>3, <1>4, <1>5 DEF m

(* BreaksRule of an ancestor c at depth i, when K is what was spent and A  *)
(* what was stored before it.                                              *)
BreaksAt(c, i, K, A) ==
    \/ c \notin WellFormed \cap RewardOk
    \/ ~CheckpointOk(i - 1, c)
    \/ KeysIn(c) \cap K # {}
    \/ \E m \in 1 .. Len(TxsOf[c]) :
         \/ KeysOf[TxsOf[c][m]] \cap
              (StakeOf[c] \cup UNION {KeysOf[t] : t \in Earlier(c, m)}) # {}
         \/ ~(Needs[TxsOf[c][m]] \subseteq A \cup Earlier(c, m))
         \/ \E t \in Needs[TxsOf[c][m]] : LockedByHeight(t, i - 1)

LEMMA BreaksSomewhere ==
    ASSUME NEW b
    PROVE  BreaksRule(b) <=>
             \E i \in 2 .. Len(Path[b]) :
               BreaksAt(Path[b][i], i, UNION {KeysIn(Path[b][j]) : j \in 1 .. i - 1}, AncestorTxs(b, i))
BY Zenon DEF BreaksRule, BreaksAt

(* The rules that a block on top of a chain breaks by itself.              *)
LEMMA BreaksByItself ==
    ASSUME NEW b \in Block, Height(b) > 0,
           LET m == Len(Path[b]) IN
           \/ b \notin WellFormed \cap RewardOk
           \/ KeysIn(b) \cap UNION {KeysIn(Path[b][j]) : j \in 1 .. m - 1} # {}
           \/ \E i \in 1 .. Len(TxsOf[b]) :
                \/ KeysOf[TxsOf[b][i]] \cap
                     (StakeOf[b] \cup UNION {KeysOf[t] : t \in Earlier(b, i)}) # {}
                \/ ~(Needs[TxsOf[b][i]] \subseteq AncestorTxs(b, m) \cup Earlier(b, i))
                \/ \E t \in Needs[TxsOf[b][i]] : LockedByHeight(t, m - 1)
    PROVE  BreaksRule(b)
<1>1. Len(Path[b]) \in Nat /\ Len(Path[b]) > 1 /\ Path[b][Len(Path[b])] = b
  BY PathFacts DEF Height
<1> DEFINE m == Len(Path[b])
           K == UNION {KeysIn(Path[b][j]) : j \in 1 .. m - 1}
<1>2. m \in 2 .. m
  BY <1>1
<1>3. BreaksAt(b, m, K, AncestorTxs(b, m))
  BY DEF BreaksAt
<1>4. BreaksAt(Path[b][m], m, K, AncestorTxs(b, m))
  BY <1>1, <1>3
<1> QED
  BY <1>2, <1>4, BreaksSomewhere

(* add_block_as_invalid: wrong inputs are wrong for every pool and clock.  *)
LEMMA WrongInputsBreak ==
    ASSUME PlainRules, clock \in Clocks, bare = {},
           NEW d, Good(d), NEW b \in Block, Height(b) > 0, Prev(b) = Top(d),
           NEW i \in 1 .. Len(TxsOf[b]), ~check_tx_inputs(d, b, i)
    PROVE  BreaksRule(b)
<1> DEFINE m == Len(Path[b])
           t == TxsOf[b][i]
           Before == UNION {KeysIn(Path[b][j]) : j \in 1 .. m - 1}
<1>1. Len(d.blocks) = m - 1 /\ m \in Nat
  BY OnTopFacts, PathFacts
<1>2. t \in TxsIn(b) /\ t \in Tx
  BY BlockFacts
<1>3. KeysOf[t] \subseteq KeyImage /\ KeysOf[t] \subseteq KeysIn(b) /\ Needs[t] \subseteq Tx
  BY <1>2, BlockAssumption DEF KeysIn
<1>4. SignaturesOk(d, t)
  BY DEF SignaturesOk
<1>5. CASE KeysOf[t] \cap SpentBefore(d, b, i) # {}
  <2>1. PICK k \in KeysOf[t] : k \in SpentBefore(d, b, i)
    BY <1>5
  <2>2. CASE d.spent[k] # Absent
    <3>1. k \in Before
      BY <1>3, <2>2, AncestorFacts
    <3>2. KeysIn(b) \cap Before # {}
      BY <1>3, <3>1
    <3> QED
      BY <3>2, BreaksByItself
  <2>3. CASE d.spent[k] = Absent
    <3>1. k \in StakeOf[b] \cup UNION {KeysOf[u] : u \in Earlier(b, i)}
      BY <1>3, <2>1, <2>3 DEF SpentBefore
    <3>2. KeysOf[t] \cap (StakeOf[b] \cup UNION {KeysOf[u] : u \in Earlier(b, i)}) # {}
      BY <3>1
    <3> QED
      BY <3>2, BreaksByItself
  <2> QED
    BY <2>2, <2>3
<1>6. CASE ~(Needs[t] \subseteq KnownBefore(d, b, i))
  <2>1. KnownBefore(d, b, i) = AncestorTxs(b, m) \cup Earlier(b, i)
    BY AncestorFacts DEF KnownBefore, Stored
  <2>2. ~(Needs[t] \subseteq AncestorTxs(b, m) \cup Earlier(b, i))
    BY <1>6, <2>1
  <2> QED
    BY <2>2, BreaksByItself
<1>7. ASSUME NEW u \in Needs[t], ~is_tx_spendtime_unlocked(u, Len(d.blocks))
      PROVE  BreaksRule(b)
  <2>1. u \in Tx
    BY <1>3
  <2>2. UnlockTime[u] >= MaxBlockNumber => UnlockTime[u] <= clock + LockedDelta
    BY <2>1 DEF PlainRules
  <2>3. LockedByHeight(u, m - 1)
    BY <1>1, <1>7, <2>2 DEF is_tx_spendtime_unlocked
  <2> QED
    BY <2>3, BreaksByItself
<1> QED
  BY <1>4, <1>5, <1>6, <1>7 DEF check_tx_inputs

(* A block whose transactions can be had is refused only for what it is.   *)
LEMMA RefusedBreaks ==
    ASSUME PlainRules, clock \in Clocks, bare = {},
           NEW d, Good(d), NEW b \in Block, Height(b) > 0, Prev(b) = Top(d),
           TxsIn(b) \subseteq pool \cup Stored(d), ~handle_block_to_main_chain(d, b)
    PROVE  BreaksRule(b)
<1> DEFINE m == Len(Path[b])
           Before == UNION {KeysIn(Path[b][j]) : j \in 1 .. m - 1}
<1>1. /\ Len(d.blocks) = m - 1 /\ m \in Nat /\ Len(d.blocks) \in Nat \ {0}
      /\ \A j \in 1 .. m - 1 : Path[b][j] = d.blocks[j]
  BY OnTopFacts, PathFacts
<1>2. CASE b \notin WellFormed \cap RewardOk
  BY <1>2, BreaksByItself
<1>3. CASE KeysIn(b) \cap Before # {}
  BY <1>3, BreaksByItself
<1>4. ASSUME b \in WellFormed \cap RewardOk, KeysIn(b) \cap Before = {}
      PROVE  BreaksRule(b)
  <2>1. check_block_timestamp_main(b)
    BY DEF PlainRules, check_block_timestamp_main, PosTimeOk, check_block_timestamp
  <2>2. CheckpointOk(Len(d.blocks), b)
    BY <1>1 DEF PlainRules, CheckpointOk, is_in_checkpoint_zone
  <2>3. validate_pos_block(d, b)
    <3>1. StakeOf[b] \subseteq KeyImage /\ StakeOf[b] \subseteq KeysIn(b)
      BY BlockAssumption DEF KeysIn
    <3>2. \A k \in StakeOf[b] : d.spent[k] = Absent
      BY <1>4, <3>1, AncestorFacts
    <3> QED
      BY <3>2 DEF validate_pos_block
  <2>4. HeaderOk(d, b) /\ validate_miner_transaction(b)
    BY <1>4, <2>1, <2>2, <2>3 DEF HeaderOk, prevalidate_miner_transaction, validate_miner_transaction
  <2>5. b \notin MainBlocks(d)
    <3> SUFFICES ASSUME b \in MainBlocks(d) PROVE FALSE
      OBVIOUS
    <3>1. PICK j \in 1 .. Len(d.blocks) : b = d.blocks[j]
      BY GoodFacts
    <3>2. m = j
      BY <3>1 DEF Good, Linked
    <3> QED
      BY <1>1, <3>2
  <2>6. PICK i \in 1 .. Len(TxsOf[b]) : ~TxOk(d, b, i)
    BY <2>4, <2>5 DEF handle_block_to_main_chain
  <2> DEFINE t == TxsOf[b][i]
  <2>7. t \in TxsIn(b) /\ t \in Tx /\ Len(TxsOf[b]) \in Nat
    BY BlockFacts
  <2>8. t \notin Earlier(b, i)
    <3> SUFFICES ASSUME t \in Earlier(b, i) PROVE FALSE
      OBVIOUS
    <3>1. PICK j \in 1 .. i - 1 : t = TxsOf[b][j]
      BY DEF Earlier
    <3>2. j \in 1 .. Len(TxsOf[b]) /\ j # i
      BY <2>7, <3>1
    <3> QED
      BY <3>1, <3>2, BlockAssumption
  <2>9. t \notin Stored(d)
    <3> SUFFICES ASSUME t \in AncestorTxs(b, m) PROVE FALSE
      BY AncestorFacts
    <3>1. PICK j \in 1 .. m - 1 : t \in TxsIn(Path[b][j])
      BY DEF AncestorTxs
    <3>2. PICK k \in KeysOf[t] : TRUE
      BY <2>7 DEF PlainRules
    <3>3. k \in KeysIn(b) /\ k \in KeysIn(Path[b][j])
      BY <2>7, <3>1, <3>2 DEF KeysIn
    <3> QED
      BY <1>4, <3>3
  <2>10. take_tx(b, i) /\ add_transaction_from_block(d, b, i)
    BY <2>7, <2>8, <2>9 DEF take_tx, add_transaction_from_block, KnownBefore, Stored
  <2>11. ~check_tx_inputs(d, b, i)
    BY <2>6, <2>10 DEF TxOk
  <2> QED
    BY <2>11, WrongInputsBreak
<1> QED
  BY <1>2, <1>3, <1>4

(* Whatever is above a block that breaks a rule breaks it, too.            *)
LEMMA BrokenInherited ==
    ASSUME NEW b \in Block, NEW c \in Block, NEW n \in 1 .. Len(Path[c]), Path[c][n] = b, BreaksRule(b)
    PROVE  BreaksRule(c)
<1>1. Len(Path[b]) = n /\ (\A j \in 1 .. n : Path[b][j] = Path[c][j]) /\ Len(Path[c]) \in Nat
  BY PathFacts
<1>2. PICK i \in 2 .. n :
        BreaksAt(Path[b][i], i, UNION {KeysIn(Path[b][j]) : j \in 1 .. i - 1}, AncestorTxs(b, i))
  BY <1>1, BreaksSomewhere
<1>3. i \in 2 .. Len(Path[c]) /\ Path[b][i] = Path[c][i] /\ \A j \in 1 .. i - 1 : Path[b][j] = Path[c][j]
  BY <1>1
<1>4. UNION {KeysIn(Path[b][j]) : j \in 1 .. i - 1} = UNION {KeysIn(Path[c][j]) : j \in 1 .. i - 1}
  BY <1>3
<1>5. AncestorTxs(b, i) = AncestorTxs(c, i)
  BY <1>3 DEF AncestorTxs
<1>6. BreaksAt(Path[c][i], i, UNION {KeysIn(Path[c][j]) : j \in 1 .. i - 1}, AncestorTxs(c, i))
  BY <1>2, <1>3, <1>4, <1>5
<1> QED
  BY <1>3, <1>6, BreaksSomewhere

(* The next block of a switch is on top of the writer's chain.             *)
LEMMA NextOnTop ==
    ASSUME Sound, ShapeInv, phase = "connecting", at < Len(chain)
    PROVE  LET b == chain[at + 1] IN
           /\ b \in Block /\ Height(b) > 0 /\ Prev(b) = Top(db)
<1> DEFINE s == SplitHeight
           n == Len(db.blocks)
           b == chain[at + 1]
<1>1. TypeOK /\ Good(db) /\ PhaseInv
  BY DEF Sound
<1>2. SwitchPath /\ PoppedInv /\ SwitchInv
  BY <1>1 DEF ShapeInv, Switching, PhaseInv
<1>3. /\ n \in Nat \ {0} /\ s \in 1 .. n /\ at \in Nat /\ chain \in Seq(Block) /\ cur \in Block
      /\ n = s + at /\ Top(db) = db.blocks[n] /\ Len(chain) = Len(Path[cur]) - s
  BY <1>1, <1>2, GoodFacts DEF TypeOK, SwitchPath, SwitchInv, TakesOver, PoppedInv, Top
<1>4. Len(Path[cur]) \in Nat
  BY <1>3, PathFacts
<1>5. b \in Block /\ b = Path[cur][n + 1]
  <2>1. at + 1 \in 1 .. Len(chain) /\ s + (at + 1) = n + 1
    BY <1>3
  <2> QED
    BY <1>2, <1>3, <2>1 DEF SwitchPath
<1>6. Top(db) = Path[cur][n]
  <2>1. CASE at = 0
    BY <1>2, <1>3, <2>1 DEF SwitchPath
  <2>2. CASE at > 0
    <3>1. Top(db) = chain[at] /\ at \in 1 .. Len(chain)
      BY <1>2, <1>3, <2>2 DEF SwitchInv
    <3> QED
      BY <1>2, <1>3, <3>1 DEF SwitchPath
  <2> QED
    BY <1>3, <2>1, <2>2
<1> HIDE DEF n, s
<1>7. n + 1 \in 1 .. Len(Path[cur]) /\ n \in 1 .. n + 1
  BY <1>3, <1>4
<1>8. Len(Path[b]) = n + 1 /\ Path[b][n] = Path[cur][n]
  BY <1>3, <1>5, <1>7, PathFacts
<1>9. Len(Path[b]) - 1 = n
  BY <1>3, <1>8
<1> QED
  BY <1>3, <1>5, <1>6, <1>8, <1>9 DEF Height, Prev

(* What a switch refuses, and everything above it, breaks the rules.       *)
LEMMA RefusedChainBreaks ==
    ASSUME PlainRules, Sound, AvailInv, ShapeInv, bare = {}, SwitchRefused, NEW e \in ToConnect
    PROVE  BreaksRule(e)
<1> DEFINE b == chain[at + 1]
           s == SplitHeight
<1>1. TypeOK /\ Good(db) /\ PhaseInv /\ phase = "connecting" /\ at < Len(chain)
  BY DEF Sound, SwitchRefused
<1>2. b \in Block /\ Height(b) > 0 /\ Prev(b) = Top(db)
  BY <1>1, NextOnTop
<1>3. /\ SwitchPath /\ at \in Nat /\ chain \in Seq(Block) /\ cur \in Block /\ s \in Nat \ {0}
      /\ Len(Path[cur]) \in Nat /\ Len(chain) = Len(Path[cur]) - s
  <2>1. SwitchPath /\ cur \in Block /\ at \in Nat /\ chain \in Seq(Block)
    BY <1>1 DEF ShapeInv, Switching, PhaseInv, SwitchInv, TakesOver, TypeOK
  <2> QED
    BY <2>1, PathFacts DEF SwitchPath
<1>4. b \in ToConnect /\ ToConnect \subseteq alt
  <2>1. at + 1 \in at + 1 .. Len(chain)
    BY <1>1, <1>3
  <2> QED
    BY <2>1 DEF ToConnect, SwitchRefused, Alive
<1>5. TxsIn(b) \subseteq pool \cup Stored(db)
  BY <1>1, <1>4 DEF AvailInv, TxsInAll
<1>6. clock \in Clocks /\ ~handle_block_to_main_chain(db, b)
  BY <1>1 DEF TypeOK, SwitchRefused
<1>7. BreaksRule(b)
  BY <1>1, <1>2, <1>5, <1>6, RefusedBreaks
<1>8. PICK i \in at + 1 .. Len(chain) : e = chain[i]
  BY DEF ToConnect
<1>9. i \in 1 .. Len(chain) /\ at + 1 \in 1 .. Len(chain)
  BY <1>1, <1>3, <1>8
<1>10. e \in Block /\ e = Path[cur][s + i] /\ b = Path[cur][s + (at + 1)]
  BY <1>3, <1>8, <1>9 DEF SwitchPath
<1> HIDE DEF s, b
<1>11. s + i \in 1 .. Len(Path[cur]) /\ s + (at + 1) \in 1 .. s + i
  BY <1>3, <1>8, <1>9
<1>12. Len(Path[e]) = s + i /\ Path[e][s + (at + 1)] = b
  BY <1>3, <1>10, <1>11, PathFacts
<1> QED
  BY <1>2, <1>7, <1>10, <1>11, <1>12, BrokenInherited

(* Without checkpoints the signatures of no transaction are ever missing.  *)
LEMMA BareStep ==
    ASSUME DOMAIN Checkpoints = {}, Sound, bare = {}, SoundNext
    PROVE  bare' = {}
<1>1. TypeOK /\ Good(db) /\ PhaseInv
  BY DEF Sound
<1>2. CASE bare' \subseteq bare
  BY <1>2
<1>3. ASSUME NEW S \in SUBSET Block, NEW d, NEW e \in Block,
             rollback_blockchain_switching(S, {}) \/ rollback_blockchain_switching(S, TakenAndCleared(d, e))
      PROVE  bare' = {}
  <2>1. TakenAndCleared(d, e) = {} /\ \A b \in S : Cleared(b) = {}
    BY NothingCleared DEF TakenAndCleared
  <2> QED
    BY <1>3, <2>1 DEF rollback_blockchain_switching
<1>4. CASE MainRefused
  <2>1. cur \in Block
    BY <1>1, <1>4 DEF MainRefused, PhaseInv
  <2> QED
    BY <1>4, <2>1, NothingCleared DEF MainRefused, TakenAndCleared
<1>5. CASE SwitchPop
  <2>1. Top(db) \in Block
    BY <1>1, GoodFacts
  <2> QED
    BY <1>5, <2>1, NothingCleared DEF SwitchPop
<1>6. CASE SwitchRefused
  <2>1. Connected \in SUBSET Block /\ chain[at + 1] \in Block
    <3>1. SwitchInv /\ chain \in Seq(Block) /\ at \in Nat /\ at < Len(chain)
      BY <1>1, <1>6 DEF SwitchRefused, PhaseInv, TypeOK
    <3> QED
      BY <3>1 DEF Connected
  <2> QED
    BY <1>3, <1>6, <2>1 DEF SwitchRefused
<1>7. CASE SwitchPushRefused
  <2>1. Range(chain) \in SUBSET Block /\ Head(old) \in Block
    <3>1. chain \in Seq(Block) /\ old \in Seq(Block) /\ old # <<>>
      BY <1>1, <1>7 DEF SwitchPushRefused, TypeOK
    <3> QED
      BY <3>1 DEF Range
  <2> QED
    BY <1>3, <1>7, <2>1 DEF SwitchPushRefused
<1>8. ASSUME Adds PROVE bare' = {}
  <2>1. ASSUME NEW b \in Block, AddToMain(b) \/ AltRefused(b) \/ AltKept(b) \/ AltSwitch(b)
               \/ BackThrows(b)
        PROVE  bare' \subseteq bare
    BY <2>1 DEF AddToMain, AltRefused, AltKept, AltSwitch, BackThrows, poolvars
  <2>2. ASSUME MainAccepted \/ SwitchPopped \/ SwitchConnect \/ SwitchConnected \/ SwitchPush
               \/ SwitchPushOrphaned \/ SwitchDone \/ Commit \/ Finalize
        PROVE  bare' \subseteq bare
    BY <2>2 DEF MainAccepted, SwitchPopped, SwitchConnect, SwitchConnected, SwitchPush,
               SwitchPushOrphaned, SwitchDone, Commit, Finalize, poolvars
  <2>3. ASSUME NEW n \in 0 .. Cardinality(Tx), Exception(n)
        PROVE  bare' \subseteq bare
    BY <2>3 DEF Exception
  <2> QED
    BY <1>2, <1>4, <1>5, <1>6, <1>7, <1>8, <2>1, <2>2, <2>3 DEF Adds
<1>9. ASSUME Truncates PROVE bare' \subseteq bare
  BY <1>9 DEF Truncates, TruncateBegin, TruncatePop, TruncateEnd, TruncateNothing, poolvars
<1>10. ASSUME Environment PROVE bare' \subseteq bare
  BY <1>10 DEF Environment, AddTxLookup, AddTxInsert, RemoveStuck, PurgeTransactions,
     PruneAgedAltBlocks, ClearAltBlocks, SetClock, Crash, poolvars
<1>11. ASSUME UNCHANGED vars PROVE bare' \subseteq bare
  BY <1>11 DEF vars, poolvars
<1> QED
  BY <1>2, <1>8, <1>9, <1>10, <1>11 DEF SoundNext

(* Only a restart, which forgets m_invalid_blocks, makes the size right    *)
(* again.                                                                  *)
LEMMA ShortStays ==
    ASSUME Sound, SoundNext, Short, ~Crash
    PROVE  Short'
<1>1. stale # Absent /\ phase \in {"idle", "main"} /\ db = saved
  BY DEF Short, Sound, PhaseInv
<1> SUFFICES stale' = stale /\ saved' = saved
  BY DEF Short
<1>2. AbortTransaction => stale' = stale /\ saved' = saved
  BY <1>1 DEF AbortTransaction
<1>3. ASSUME Adds PROVE stale' = stale /\ saved' = saved
  <2>1. ASSUME NEW b \in Block, AddToMain(b) \/ AltRefused(b) \/ AltKept(b) \/ AltSwitch(b)
               \/ BackThrows(b)
        PROVE  stale' = stale /\ saved' = saved
    BY <2>1 DEF AddToMain, AltRefused, AltKept, AltSwitch, BackThrows, chainvars
  <2>2. ASSUME MainRefused \/ \E n \in 0 .. Cardinality(Tx) : Exception(n)
        PROVE  stale' = stale /\ saved' = saved
    BY <1>2, <2>2 DEF MainRefused, Exception
  <2>3. ~(\/ MainAccepted \/ SwitchPop \/ SwitchPopped \/ SwitchConnect \/ SwitchRefused
          \/ SwitchConnected \/ SwitchPush \/ SwitchPushOrphaned \/ SwitchPushRefused \/ SwitchDone
          \/ Commit \/ Finalize)
    BY <1>1 DEF MainAccepted, SwitchPop, SwitchPopped, SwitchConnect, SwitchRefused, SwitchConnected,
       SwitchPush, SwitchPushOrphaned, SwitchPushRefused, SwitchDone, Commit, Finalize
  <2> QED
    BY <1>3, <2>1, <2>2, <2>3 DEF Adds
<1>4. ASSUME Truncates PROVE stale' = stale /\ saved' = saved
  BY <1>1, <1>4 DEF Truncates, TruncateBegin, TruncatePop, TruncateEnd, TruncateNothing, chainvars
<1>5. ASSUME Environment PROVE stale' = stale /\ saved' = saved
  BY <1>5 DEF Environment, AddTxLookup, AddTxInsert, RemoveStuck, PurgeTransactions,
     PruneAgedAltBlocks, ClearAltBlocks, SetClock, chainvars
<1>6. ASSUME UNCHANGED vars PROVE stale' = stale /\ saved' = saved
  BY <1>6 DEF vars, chainvars
<1> QED
  BY <1>3, <1>4, <1>5, <1>6 DEF SoundNext

(* A node that is astray sees too small a size for ever.                   *)
LEMMA StrayIsShort == Spec => [](IInv /\ (Stray => Short))
<1>1. Init => IInv /\ (Stray => Short)
  BY InitSound DEF IInv, Init, Stray
<1>2. ASSUME IInv, Stray => Short, [Next]_vars, Stray'
      PROVE  Short'
  <2>1. CASE Stray
    BY <1>2, <2>1, StrayStays DEF Short, chainvars
  <2>2. CASE ~Stray
    <3>1. Sound /\ GoesAstray
      <4>1. Sound
        BY <1>2, <2>2 DEF IInv
      <4>2. ~Sound'
        BY <1>2 DEF Sound, Stray, PhaseInv
      <4> QED
        BY <1>2, <4>1, <4>2, StepKinds
    <3>2. Short /\ stale' = stale /\ Len(saved'.blocks) = Len(saved.blocks)
      BY <3>1, AstrayStep
    <3> QED
      BY <3>2 DEF Short
  <2> QED
    BY <2>1, <2>2
<1> QED
  BY <1>1, <1>2, NextIInv, PTL DEF Spec

LEMMA InvalidStep ==
    ASSUME PlainRules, Sound, AvailInv, ShapeInv, InvalidInv, SoundNext
    PROVE  InvalidInv'
<1>1. TypeOK /\ Good(db) /\ PhaseInv /\ bare = {} /\ clock \in Clocks
  BY DEF Sound, InvalidInv, TypeOK
<1>2. bare' = {}
  BY <1>1, BareStep DEF PlainRules
<1> SUFFICES ASSUME ~Short', ~Crash
             PROVE  \A b \in invalid' : BreaksRule(b)
  BY <1>2 DEF InvalidInv, InvalidOnlyIfBroken, Crash
<1>0. ~Short /\ \A b \in invalid : BreaksRule(b)
  BY ShortStays DEF InvalidInv, InvalidOnlyIfBroken
<1>3. ASSUME invalid' \subseteq invalid
      PROVE  \A b \in invalid' : BreaksRule(b)
  BY <1>0, <1>3
<1>4. CASE MainRefused
  <2>1. cur \in Block /\ Height(cur) > 0 /\ Prev(cur) = Top(db) /\ Seen = db
    BY <1>0, <1>1, <1>4 DEF MainRefused, PhaseInv, ExtendsTop, Seen
  <2>2. HasWrongInputs(db, cur) => BreaksRule(cur)
    <3> SUFFICES ASSUME HasWrongInputs(db, cur) PROVE BreaksRule(cur)
      OBVIOUS
    <3>1. PICK i \in 1 .. Len(TxsOf[cur]) : ~check_tx_inputs(db, cur, i)
      BY DEF HasWrongInputs
    <3> QED
      BY <1>1, <2>1, <3>1, WrongInputsBreak
  <2> QED
    BY <1>0, <1>4, <2>1, <2>2 DEF MainRefused
<1>5. CASE SwitchRefused
  <2>1. invalid' = invalid \cup ToConnect
    BY <1>5 DEF SwitchRefused
  <2>2. \A e \in ToConnect : BreaksRule(e)
    BY <1>1, <1>5, RefusedChainBreaks
  <2> QED
    BY <1>0, <2>1, <2>2
<1>6. ASSUME Adds PROVE \A b \in invalid' : BreaksRule(b)
  <2>1. ASSUME NEW b \in Block, AddToMain(b) \/ AltRefused(b) \/ AltKept(b) \/ AltSwitch(b)
               \/ BackThrows(b)
        PROVE  invalid' \subseteq invalid
    BY <2>1 DEF AddToMain, AltRefused, AltKept, AltSwitch, BackThrows, altvars
  <2>2. ASSUME MainAccepted \/ SwitchPop \/ SwitchPopped \/ SwitchConnect \/ SwitchConnected
               \/ SwitchPush \/ SwitchPushOrphaned \/ SwitchPushRefused \/ SwitchDone \/ Commit \/ Finalize
        PROVE  invalid' \subseteq invalid
    BY <2>2 DEF MainAccepted, SwitchPop, SwitchPopped, SwitchConnect, SwitchConnected, SwitchPush,
               SwitchPushOrphaned, SwitchPushRefused, SwitchDone, Commit, Finalize, altvars
  <2>3. ASSUME NEW n \in 0 .. Cardinality(Tx), Exception(n)
        PROVE  invalid' \subseteq invalid
    BY <2>3 DEF Exception, altvars
  <2> QED
    BY <1>3, <1>4, <1>5, <1>6, <2>1, <2>2, <2>3 DEF Adds
<1>7. ASSUME Truncates PROVE invalid' \subseteq invalid
  BY <1>7 DEF Truncates, TruncateBegin, TruncatePop, TruncateEnd, TruncateNothing, altvars
<1>8. ASSUME Environment PROVE invalid' \subseteq invalid
  BY <1>8 DEF Environment, AddTxLookup, AddTxInsert, RemoveStuck, PurgeTransactions,
     PruneAgedAltBlocks, ClearAltBlocks, SetClock, Crash, altvars
<1>9. ASSUME UNCHANGED vars PROVE invalid' \subseteq invalid
  BY <1>9 DEF vars, altvars
<1> QED
  BY <1>3, <1>6, <1>7, <1>8, <1>9 DEF SoundNext

(* add_block_as_invalid is not undone, so that a block must not be         *)
(* condemned for what the pool or the clock was at the moment: whatever    *)
(* order blocks and transactions come in, whatever is pruned, cleared or   *)
(* truncated, and wherever the process dies, every block of                *)
(* m_invalid_blocks has itself broken a rule, or an ancestor of its has.   *)
(* The one exception is what is condemned while the size that a failed     *)
(* switch has left behind is too small, until the node is restarted.       *)
THEOREM OnlyBrokenAreInvalid ==
    ASSUME PlainRules, NothingLost
    PROVE  Spec => []InvalidOnlyIfBroken
<1>1. Init => InvalidInv
  BY DEF Init, InvalidInv, InvalidOnlyIfBroken
<1>2. ASSUME IInv, Sound => AvailInv, Sound => ShapeInv, Sound => InvalidInv, [Next]_vars
      PROVE  (Sound => InvalidInv)'
  BY <1>2, NotAstray, InvalidStep
<1>3. IInv /\ (Stray => Short) /\ (Sound => InvalidInv) => InvalidOnlyIfBroken
  BY DEF IInv, InvalidInv, InvalidOnlyIfBroken
<1> QED
  BY <1>1, <1>2, <1>3, AvailInvariance, ShapeInvariance, StrayIsShort, PTL DEF Spec

-----------------------------------------------------------------------------
(* What is reported as added *)

(* There are no checkpoints, no stake block is early by one clock and not  *)
(* by another, and no transaction refers to an output of its own block,    *)
(* which only the main path accepts.                                       *)
SwitchRules ==
    /\ DOMAIN Checkpoints = {}
    /\ \A b \in Pos : \A c, d \in Clocks : Time[b] <= c + PosFutureLimit => Time[b] <= d + PosFutureLimit
    /\ \A b \in Block : \A t \in TxsIn(b) : Needs[t] \cap TxsIn(b) = {}

(* What every block of a chain has been found to obey.                     *)
OwnRulesOk(b) ==
    /\ b \in WellFormed
    /\ b \in Pos => \A c \in Clocks : Time[b] <= c + PosFutureLimit
    /\ \A i \in 1 .. Len(TxsOf[b]) :
         /\ KeysOf[TxsOf[b][i]] \cap
              (StakeOf[b] \cup UNION {KeysOf[t] : t \in Earlier(b, i)}) = {}
         /\ Needs[TxsOf[b][i]] \subseteq AncestorTxs(b, Len(Path[b])) \cup Earlier(b, i)
ObeysRules(d) == \A i \in 2 .. Len(d.blocks) : OwnRulesOk(d.blocks[i])
RulesInv == ObeysRules(db) /\ ObeysRules(saved)

(* The blocks that are alternative ones or have left a name in             *)
(* m_altblocks_keyimages.  None of them can be the next of the main chain: *)
(* the top is better than, and not, the block before it.                   *)
Remembered == alt \cup UNION {alt_ki[k] : k \in KeyImage}
Behind(b) ==
    /\ Height(b) > 0 /\ Prev(b) # Top(saved)
    /\ ~is_reorganize_required(Top(saved), Prev(b))

MemoryInv ==
    /\ \A k \in KeyImage : \A b \in alt_ki[k] : k \in KeysIn(b)
    /\ \A b \in Remembered : Behind(b)
    /\ ~Switching => Remembered \cap MainBlocks(db) = {}
    /\ Switching => \A i \in 1 .. Len(saved.blocks) : saved.blocks[i] \in Remembered =>
                       phase = "pushing" /\ i > SplitHeight /\ i <= Len(saved.blocks) - Len(old)

(* The disconnected blocks that have been pushed back are alternative ones *)
(* as long as the lowest block of the chain of the switch is one.          *)
PushedInv ==
    /\ Switching => chain[1] \notin MainBlocks(saved)
    /\ phase = "connecting" => Len(old) = Len(saved.blocks) - SplitHeight
    /\ phase = "pushing" /\ chain[1] \in alt =>
         \A i \in SplitHeight + 1 .. Len(saved.blocks) - Len(old) : saved.blocks[i] \in alt

OldTxsInv == Switching => TxsInAll(Range(old)) \subseteq pool \cup Stored(db)

DoneInv ==
    /\ phase = "commit" => cur \in MainBlocks(db)
    /\ phase = "finalize" => cur \in MainBlocks(saved)

AddedInv == bare = {} /\ RulesInv /\ MemoryInv /\ PushedInv /\ OldTxsInv /\ DoneInv

(* The subchain of alternative blocks begins after the last ancestor that  *)
(* is none.                                                                *)
LEMMA FirstAltIs ==
    ASSUME NEW b \in Block, NEW s \in Nat \ {0}, s < Len(Path[b]), Path[b][s] \notin alt,
           \A j \in s + 1 .. Len(Path[b]) - 1 : Path[b][j] \in alt
    PROVE  FirstAlt(b) = s + 1
<1> DEFINE n == Len(Path[b])
           IsFirst(i) == /\ \A j \in i .. n - 1 : Path[b][j] \in alt
                         /\ i > 1 => Path[b][i - 1] \notin alt
           f == FirstAlt(b)
<1>1. n \in Nat \ {0}
  BY PathFacts
<1>2. s + 1 \in 1 .. n /\ IsFirst(s + 1)
  BY <1>1
<1>3. f \in 1 .. n /\ IsFirst(f)
  BY <1>2 DEF FirstAlt
<1>4. ~(f <= s)
  <2>1. f <= s => s \in f .. n - 1
    BY <1>1, <1>3
  <2> QED
    BY <1>3, <2>1
<1>5. ~(f > s + 1)
  <2>1. f > s + 1 => f - 1 \in s + 1 .. n - 1 /\ f > 1
    BY <1>1, <1>3
  <2> QED
    BY <1>3, <2>1
<1> QED
  BY <1>3, <1>4, <1>5

(* Where a block or its contents are in a chain.                           *)
LEMMA PlaceFacts ==
    ASSUME NEW d, Good(d), NEW i \in 1 .. Len(d.blocks)
    PROVE  /\ d.blocks[i] \in Block /\ Len(Path[d.blocks[i]]) = i
           /\ \A j \in 1 .. i : Path[d.blocks[i]][j] = d.blocks[j]
           /\ \A k \in KeysIn(d.blocks[i]) : d.spent[k] = i - 1
           /\ \A t \in TxsIn(d.blocks[i]) : d.txs[t] = i - 1
<1>1. d.blocks[i] \in Block
  BY GoodFacts
<1>2. Len(Path[d.blocks[i]]) = i /\ \A j \in 1 .. i : Path[d.blocks[i]][j] = d.blocks[j]
  BY DEF Good, Linked
<1>3. /\ \A k \in KeysIn(d.blocks[i]) : d.spent[k] = i - 1
      /\ \A t \in TxsIn(d.blocks[i]) : d.txs[t] = i - 1
  BY <1>1, BlockFacts DEF Good, Consistent
<1> QED
  BY <1>1, <1>2, <1>3

LEMMA SpentWhere ==
    ASSUME NEW d, Good(d), NEW k \in KeyImage, d.spent[k] # Absent
    PROVE  d.spent[k] \in Int /\ d.spent[k] + 1 \in 1 .. Len(d.blocks)
           /\ k \in KeysIn(d.blocks[d.spent[k] + 1])
<1>1. d.spent[k] \in Int /\ d.spent[k] + 1 \in 1 .. Len(d.blocks)
  BY GoodFacts DEF Good, Consistent
<1> QED
  BY <1>1 DEF Good, Consistent

LEMMA StoredWhere ==
    ASSUME NEW d, Good(d), NEW t \in Tx, d.txs[t] # Absent
    PROVE  d.txs[t] \in Int /\ d.txs[t] + 1 \in 1 .. Len(d.blocks)
           /\ t \in TxsIn(d.blocks[d.txs[t] + 1])
<1>1. d.txs[t] \in Int /\ d.txs[t] + 1 \in 1 .. Len(d.blocks)
  BY GoodFacts DEF Good, Consistent
<1> QED
  BY <1>1 DEF Good, Consistent

(* The number of the next block to push back.                              *)
NextOld == Len(saved.blocks) - Len(old) + 1

LEMMA NextOldFacts ==
    ASSUME Sound, ShapeInv, Switching, old # <<>>
    PROVE  /\ NextOld \in 1 .. Len(saved.blocks) /\ NextOld > SplitHeight
           /\ NextOld - 1 \in 1 .. Len(saved.blocks)
           /\ Head(old) = saved.blocks[NextOld] /\ Head(old) \in Block
           /\ Len(Path[Head(old)]) = NextOld
           /\ \A j \in 1 .. NextOld : Path[Head(old)][j] = saved.blocks[j]
           /\ SplitHeight \in Nat \ {0} /\ SplitHeight \in 1 .. Len(db.blocks)
           /\ SplitHeight <= Len(saved.blocks)
           /\ \A j \in 1 .. SplitHeight : db.blocks[j] = saved.blocks[j]
           /\ Len(saved.blocks) \in Nat /\ Len(db.blocks) \in Nat /\ Len(old) \in Nat \ {0}
<1>1. Good(db) /\ Good(saved) /\ old \in Seq(Block) /\ SwitchPath /\ OldIsSuffix
  BY DEF Sound, TypeOK, ShapeInv
<1>2. Len(saved.blocks) \in Nat \ {0} /\ Len(db.blocks) \in Nat \ {0}
  BY <1>1, GoodFacts
<1>3. Len(old) \in Nat \ {0} /\ Head(old) = old[1]
  BY <1>1
<1>4. /\ SplitHeight \in 1 .. Len(db.blocks) /\ SplitHeight <= Len(saved.blocks)
      /\ \A j \in 1 .. SplitHeight : db.blocks[j] = saved.blocks[j]
  BY <1>1 DEF SwitchPath
<1>5. /\ Len(old) <= Len(saved.blocks) - SplitHeight
      /\ old[1] = saved.blocks[Len(saved.blocks) - Len(old) + 1]
  BY <1>1, <1>3 DEF OldIsSuffix
<1>6. NextOld \in 1 .. Len(saved.blocks) /\ NextOld > SplitHeight /\ NextOld - 1 \in 1 .. Len(saved.blocks)
  BY <1>2, <1>3, <1>4, <1>5 DEF NextOld
<1>7. Head(old) = saved.blocks[NextOld]
  BY <1>3, <1>5 DEF NextOld
<1>8. /\ saved.blocks[NextOld] \in Block /\ Len(Path[saved.blocks[NextOld]]) = NextOld
      /\ \A j \in 1 .. NextOld : Path[saved.blocks[NextOld]][j] = saved.blocks[j]
  BY <1>1, <1>6, PlaceFacts
<1>9. SplitHeight \in Nat \ {0}
  BY <1>2, <1>4
<1> QED
  BY <1>2, <1>3, <1>4, <1>6, <1>7, <1>8, <1>9

(* The alternative chain that the next block to push back is on: the       *)
(* blocks pushed back before it.                                           *)
LEMMA OldChain ==
    ASSUME Sound, ShapeInv, AddedInv, phase = "pushing", old # <<>>, chain[1] \in alt
    PROVE  LET b == Head(old)  s == SplitHeight IN
           /\ split_height(b) = s
           /\ Range(build_alt_subchain(b)) = {saved.blocks[j] : j \in s + 1 .. NextOld - 1}
           /\ ConnectedToMain(b) /\ ~is_orphan(b)
<1> DEFINE b == Head(old)
           s == SplitHeight
           n == NextOld
           u == build_alt_subchain(b)
<1>1. Switching /\ Good(db) /\ Good(saved)
  BY DEF Switching, Sound
<1>2. /\ n \in 1 .. Len(saved.blocks) /\ n > s /\ b = saved.blocks[n] /\ b \in Block
      /\ Len(Path[b]) = n /\ \A j \in 1 .. n : Path[b][j] = saved.blocks[j]
      /\ s \in Nat \ {0} /\ s \in 1 .. Len(db.blocks) /\ s <= Len(saved.blocks)
      /\ \A j \in 1 .. s : db.blocks[j] = saved.blocks[j]
      /\ Len(saved.blocks) \in Nat /\ Len(db.blocks) \in Nat /\ Len(old) \in Nat \ {0}
  BY <1>1, NextOldFacts
<1>3. Path[b] \in Seq(Block)
  BY <1>2, PathFacts
<1>4. saved.blocks[s] \notin alt
  <2>1. s \in 1 .. Len(saved.blocks) /\ ~(s > s)
    BY <1>2
  <2> QED
    BY <1>1, <2>1 DEF AddedInv, MemoryInv, Remembered
<1>5. \A j \in s + 1 .. n - 1 : saved.blocks[j] \in alt
  BY <1>2 DEF AddedInv, PushedInv, NextOld
<1> HIDE DEF b, s, n
<1>6. FirstAlt(b) = s + 1
  <2>1. s < Len(Path[b]) /\ Path[b][s] \notin alt
    BY <1>2, <1>4
  <2>2. ASSUME NEW j \in s + 1 .. Len(Path[b]) - 1 PROVE Path[b][j] \in alt
    <3>1. j \in s + 1 .. n - 1 /\ j \in 1 .. n
      BY <1>2
    <3> QED
      BY <1>2, <1>5, <3>1
  <2> QED
    BY <1>2, <2>1, <2>2, FirstAltIs
<1>7. split_height(b) = s
  BY <1>2, <1>6 DEF split_height
<1>8. u = SubSeq(Path[b], s + 1, n - 1)
  BY <1>2, <1>6 DEF build_alt_subchain
<1>9. /\ u \in Seq(Block) /\ Len(u) = n - 1 - s
      /\ \A i \in 1 .. n - 1 - s : u[i] = saved.blocks[s + i]
  <2>1. s + 1 \in Nat \ {0} /\ n - 1 \in Nat /\ n - 1 <= Len(Path[b]) /\ n - 1 >= s
    BY <1>2
  <2>2. u \in Seq(Block) /\ Len(u) = n - 1 - s /\ \A i \in 1 .. n - 1 - s : u[i] = Path[b][s + i]
    BY <1>2, <1>3, <1>8, <2>1
  <2>3. \A i \in 1 .. n - 1 - s : s + i \in 1 .. n
    BY <1>2
  <2> HIDE DEF u
  <2> QED
    BY <1>2, <2>2, <2>3
<1> HIDE DEF u
<1>10. Range(u) = {saved.blocks[j] : j \in s + 1 .. n - 1}
  <2>1. Range(u) = {u[i] : i \in 1 .. n - 1 - s}
    BY <1>9 DEF Range
  <2>2. \A i \in 1 .. n - 1 - s : s + i \in s + 1 .. n - 1
    BY <1>2
  <2>3. \A j \in s + 1 .. n - 1 : j - s \in 1 .. n - 1 - s /\ s + (j - s) = j
    BY <1>2
  <2>4. \A j \in s + 1 .. n - 1 : u[j - s] = saved.blocks[j]
    BY <1>9, <2>3
  <2> QED
    BY <1>9, <2>1, <2>2, <2>3, <2>4
<1>11. ConnectedToMain(b)
  <2>1. s + 1 - 1 = s
    BY <1>2
  <2>2. Path[b][s] = db.blocks[s]
    BY <1>2
  <2>3. Seen = db
    BY StaleFacts DEF Sound
  <2> QED
    BY <1>2, <1>6, <1>7, <2>1, <2>2, <2>3 DEF ConnectedToMain
<1>12. ~is_orphan(b)
  <2> SUFFICES ASSUME u = <<>> PROVE Prev(b) \in MainBlocks(db)
    BY DEF is_orphan, u
  <2>1. n - 1 = s
    BY <1>2, <1>9
  <2>2. Prev(b) = db.blocks[s]
    BY <1>2, <2>1 DEF Prev
  <2> QED
    BY <1>1, <1>2, <2>2, GoodFacts
<1> QED
  BY <1>7, <1>10, <1>11, <1>12 DEF b, s, n, u

(* Its key images are free for it, ...                                     *)
LEMMA OldKeysOk ==
    ASSUME Sound, ShapeInv, AddedInv, phase = "pushing", old # <<>>, chain[1] \in alt,
           NEW k \in KeysIn(Head(old))
    PROVE  AltKeyOk(Head(old), k)
<1> DEFINE b == Head(old)
           s == SplitHeight
           n == NextOld
<1>1. Switching /\ Good(db) /\ Good(saved)
  BY DEF Switching, Sound
<1>2. /\ n \in 1 .. Len(saved.blocks) /\ n > s /\ b = saved.blocks[n] /\ b \in Block
      /\ s \in Nat \ {0} /\ s \in 1 .. Len(db.blocks) /\ s <= Len(saved.blocks)
      /\ \A j \in 1 .. s : db.blocks[j] = saved.blocks[j]
      /\ Len(saved.blocks) \in Nat /\ Len(db.blocks) \in Nat /\ Len(old) \in Nat \ {0}
  BY <1>1, NextOldFacts
<1>3. /\ split_height(b) = s
      /\ Range(build_alt_subchain(b)) = {saved.blocks[j] : j \in s + 1 .. n - 1}
  BY OldChain
<1>4. n = Len(saved.blocks) - Len(old) + 1
  BY DEF NextOld
<1> HIDE DEF b, s, n
<1>5. k \in KeyImage /\ k \in KeysIn(b)
  BY <1>2, BlockFacts DEF b
<1>6. saved.spent[k] = n - 1
  BY <1>1, <1>2, <1>5, PlaceFacts
<1>7. ASSUME NEW j \in 1 .. Len(saved.blocks), j < n PROVE k \notin KeysIn(saved.blocks[j])
  <2> SUFFICES ASSUME k \in KeysIn(saved.blocks[j]) PROVE FALSE
    OBVIOUS
  <2>1. saved.spent[k] = j - 1
    BY <1>1, PlaceFacts
  <2> QED
    BY <1>2, <1>6, <1>7, <2>1
<1>8. db.spent[k] = Absent \/ db.spent[k] >= s
  <2> SUFFICES ASSUME db.spent[k] # Absent, ~(db.spent[k] >= s) PROVE FALSE
    OBVIOUS
  <2> DEFINE j == db.spent[k] + 1
  <2>1. db.spent[k] \in Int /\ j \in 1 .. Len(db.blocks) /\ k \in KeysIn(db.blocks[j])
    BY <1>1, <1>5, SpentWhere
  <2>2. j \in 1 .. s /\ j \in 1 .. Len(saved.blocks) /\ j < n
    BY <1>2, <2>1
  <2> HIDE DEF j
  <2> QED
    BY <1>2, <1>7, <2>1, <2>2
<1>9. ASSUME NEW c \in alt_ki[k] PROVE c \notin Range(build_alt_subchain(b)) \cup {b}
  <2>1. c \in Remembered /\ k \in KeysIn(c)
    BY <1>5 DEF AddedInv, MemoryInv, Remembered
  <2>2. c # b
    <3>1. ~(n <= Len(saved.blocks) - Len(old))
      BY <1>2, <1>4
    <3> QED
      BY <1>1, <1>2, <2>1, <3>1 DEF AddedInv, MemoryInv
  <2>3. ASSUME NEW j \in s + 1 .. n - 1 PROVE c # saved.blocks[j]
    <3>1. j \in 1 .. Len(saved.blocks) /\ j < n
      BY <1>2
    <3> QED
      BY <1>7, <2>1, <3>1
  <2> QED
    BY <1>3, <2>2, <2>3
<1>10. AltKeyOk(b, k)
  BY <1>3, <1>8, <1>9 DEF AltKeyOk
<1> QED
  BY <1>10 DEF b

(* ... its transactions can be had, with their signatures, ...             *)
LEMMA OldTxsFound ==
    ASSUME SwitchRules, Sound, ShapeInv, AddedInv, phase = "pushing", old # <<>>, chain[1] \in alt,
           NEW t \in TxsIn(Head(old))
    PROVE  get_transaction_from_pool_or_db(t, split_height(Head(old)))
<1> DEFINE b == Head(old)
           s == SplitHeight
           n == NextOld
<1>1. Switching /\ Good(db) /\ Good(saved) /\ old \in Seq(Block)
  BY DEF Switching, Sound, TypeOK
<1>2. /\ n \in 1 .. Len(saved.blocks) /\ n > s /\ b = saved.blocks[n] /\ b \in Block
      /\ s \in Nat \ {0} /\ s <= Len(saved.blocks)
      /\ \A j \in 1 .. s : db.blocks[j] = saved.blocks[j]
      /\ Len(saved.blocks) \in Nat /\ Len(db.blocks) \in Nat
  BY <1>1, NextOldFacts
<1>3. split_height(b) = s
  BY OldChain
<1>4. t \in Tx /\ t \in TxsIn(b)
  BY <1>2, BlockFacts
<1>5. t \in pool \cup Stored(db)
  <2>1. b \in Range(old)
    BY <1>1 DEF Range
  <2> QED
    BY <1>1, <1>4, <2>1 DEF AddedInv, OldTxsInv, TxsInAll
<1> HIDE DEF b, s, n
<1>6. CASE t \in pool
  BY <1>6 DEF get_transaction_from_pool_or_db, AddedInv
<1>7. CASE t \notin pool
  <2>1. db.txs[t] # Absent
    BY <1>5, <1>7 DEF Stored
  <2> DEFINE j == db.txs[t] + 1
  <2>2. db.txs[t] \in Int /\ j \in 1 .. Len(db.blocks) /\ t \in TxsIn(db.blocks[j])
    BY <1>1, <1>4, <2>1, StoredWhere
  <2>3. saved.txs[t] = n - 1
    BY <1>1, <1>2, <1>4, PlaceFacts
  <2>4. ~(j <= s)
    <3> SUFFICES ASSUME j <= s PROVE FALSE
      OBVIOUS
    <3>1. j \in 1 .. s /\ j \in 1 .. Len(saved.blocks)
      BY <1>2, <2>2
    <3> HIDE DEF j
    <3>2. saved.txs[t] = j - 1
      BY <1>1, <1>2, <2>2, <3>1, PlaceFacts
    <3> QED
      BY <1>2, <2>3, <3>1, <3>2
  <2>5. db.txs[t] >= s /\ db.txs[t] # 0
    BY <1>2, <2>2, <2>4
  <2>6. ~is_in_checkpoint_zone(db.txs[t])
    BY <2>5 DEF is_in_checkpoint_zone, SwitchRules
  <2> QED
    BY <1>3, <1>7, <2>5, <2>6 DEF get_transaction_from_pool_or_db, b
<1> QED
  BY <1>6, <1>7

(* ... and so can what they refer to.                                      *)
LEMMA OldSourcesOk ==
    ASSUME SwitchRules, Sound, ShapeInv, AddedInv, phase = "pushing", old # <<>>, chain[1] \in alt,
           OwnRulesOk(Head(old)),
           NEW i \in 1 .. Len(TxsOf[Head(old)]), NEW t \in Needs[TxsOf[Head(old)][i]]
    PROVE  AltSourceOk(Head(old), t)
<1> DEFINE b == Head(old)
           s == SplitHeight
           n == NextOld
<1>1. Switching /\ Good(db) /\ Good(saved)
  BY DEF Switching, Sound
<1>2. /\ n \in 1 .. Len(saved.blocks) /\ n > s /\ b = saved.blocks[n] /\ b \in Block
      /\ Len(Path[b]) = n /\ \A j \in 1 .. n : Path[b][j] = saved.blocks[j]
      /\ s \in Nat \ {0} /\ s \in 1 .. Len(db.blocks) /\ s <= Len(saved.blocks)
      /\ \A j \in 1 .. s : db.blocks[j] = saved.blocks[j]
      /\ Len(saved.blocks) \in Nat /\ Len(db.blocks) \in Nat
  BY <1>1, NextOldFacts
<1>3. /\ split_height(b) = s
      /\ Range(build_alt_subchain(b)) = {saved.blocks[j] : j \in s + 1 .. n - 1}
  BY OldChain
<1>4. TxsIn(b) = {TxsOf[b][m] : m \in 1 .. Len(TxsOf[b])} /\ Len(TxsOf[b]) \in Nat
  BY <1>2, BlockFacts
<1>5. t \notin TxsIn(b)
  BY <1>2, <1>4 DEF SwitchRules
<1>6. Earlier(b, i) \subseteq TxsIn(b)
  <2>1. \A m \in 1 .. i - 1 : m \in 1 .. Len(TxsOf[b])
    BY <1>4
  <2> QED
    BY <1>4, <2>1 DEF Earlier
<1>7. t \in AncestorTxs(b, Len(Path[b])) \cup Earlier(b, i)
  BY DEF OwnRulesOk
<1> HIDE DEF b, s, n
<1>8. t \in AncestorTxs(b, n)
  BY <1>2, <1>5, <1>6, <1>7
<1>9. PICK j \in 1 .. n - 1 : t \in TxsIn(Path[b][j])
  BY <1>8 DEF AncestorTxs
<1>10. j \in 1 .. n /\ j \in 1 .. Len(saved.blocks) /\ t \in TxsIn(saved.blocks[j])
  <2>1. j \in 1 .. n /\ j \in 1 .. Len(saved.blocks)
    BY <1>2
  <2> QED
    BY <1>2, <1>9, <2>1
<1>11. CASE j <= s
  <2>1. j \in 1 .. s /\ j \in 1 .. Len(db.blocks) /\ j - 1 \in 0 .. s - 1
    BY <1>2, <1>10, <1>11
  <2>2. t \in TxsIn(db.blocks[j])
    BY <1>2, <1>10, <2>1
  <2>3. db.txs[t] = j - 1
    BY <1>1, <2>1, <2>2, PlaceFacts
  <2> QED
    BY <1>3, <2>1, <2>3 DEF AltSourceOk, b
<1>12. CASE j > s
  <2>1. j \in s + 1 .. n - 1
    BY <1>2, <1>12
  <2>2. saved.blocks[j] \in Range(build_alt_subchain(b))
    BY <1>3, <2>1
  <2>3. t \in TxsInAll(Range(build_alt_subchain(b)))
    BY <1>10, <2>2 DEF TxsInAll
  <2> QED
    BY <2>3 DEF AltSourceOk, b
<1> QED
  BY <1>2, <1>9, <1>11, <1>12

(* A disconnected block is never refused as an alternative one.            *)
LEMMA OldAccepted ==
    ASSUME SwitchRules, Sound, ShapeInv, AddedInv, phase = "pushing", old # <<>>, chain[1] \in alt
    PROVE  handle_alternative_block(Head(old)) /\ ~AltOrphaned(Head(old))
<1> DEFINE b == Head(old)
           n == NextOld
<1>1. Switching /\ Good(db) /\ Good(saved) /\ clock \in Clocks
  BY DEF Switching, Sound, TypeOK
<1>2. /\ n \in 1 .. Len(saved.blocks) /\ n > SplitHeight /\ b = saved.blocks[n] /\ b \in Block
      /\ Len(Path[b]) = n /\ SplitHeight \in Nat \ {0} /\ Len(saved.blocks) \in Nat
      /\ Len(old) \in Nat \ {0}
  BY <1>1, NextOldFacts
<1>3. ConnectedToMain(b) /\ ~is_orphan(b)
  BY OldChain
<1>4. OwnRulesOk(b)
  <2>1. n \in 2 .. Len(saved.blocks)
    BY <1>2
  <2> QED
    BY <1>2, <2>1 DEF AddedInv, RulesInv, ObeysRules
<1>5. Height(b) > 0
  BY <1>2 DEF Height
<1>6. ~is_height_passed_zone(Height(b), TopHeight(Seen))
  BY DEF is_height_passed_zone, SwitchRules
<1>7. check_block_timestamp(b) /\ prevalidate_miner_transaction(b)
  BY <1>1, <1>4 DEF check_block_timestamp, PosTimeOk, prevalidate_miner_transaction, OwnRulesOk
<1>8. CheckpointOk(Height(b), b)
  BY <1>5 DEF CheckpointOk, is_in_checkpoint_zone, SwitchRules
<1>9. b \notin alt
  <2>1. ~(n <= Len(saved.blocks) - Len(old))
    BY <1>2 DEF NextOld
  <2> HIDE DEF n
  <2> QED
    BY <1>1, <1>2, <2>1 DEF AddedInv, MemoryInv, Remembered
<1>10. validate_alt_block_txs(b)
  <2>1. \A k \in KeysIn(b) : AltKeyOk(b, k)
    BY OldKeysOk
  <2>2. ASSUME NEW i \in 1 .. Len(TxsOf[b])
        PROVE  /\ get_transaction_from_pool_or_db(TxsOf[b][i], split_height(b))
               /\ KeysOf[TxsOf[b][i]] \cap
                     (StakeOf[b] \cup UNION {KeysOf[t] : t \in Earlier(b, i)}) = {}
               /\ \A t \in Needs[TxsOf[b][i]] : AltSourceOk(b, t)
    <3>1. TxsOf[b][i] \in TxsIn(b)
      BY <1>2, BlockFacts
    <3>2. get_transaction_from_pool_or_db(TxsOf[b][i], split_height(b))
      BY <3>1, OldTxsFound
    <3>3. \A t \in Needs[TxsOf[b][i]] : AltSourceOk(b, t)
      BY <1>4, OldSourcesOk
    <3> QED
      BY <1>4, <3>2, <3>3 DEF OwnRulesOk
  <2> QED
    BY <2>1, <2>2 DEF validate_alt_block_txs
<1> HIDE DEF b, n
<1>11. handle_alternative_block(b)
  BY <1>3, <1>5, <1>6, <1>7, <1>8, <1>9, <1>10 DEF handle_alternative_block
<1>12. ~AltOrphaned(b)
  BY <1>3 DEF AltOrphaned
<1> QED
  BY <1>11, <1>12 DEF b

(* Nothing is added to what is remembered.                                 *)
Forgets == alt' \subseteq alt /\ \A k \in KeyImage : alt_ki'[k] \subseteq alt_ki[k]

LEMMA ForgetsFacts ==
    ASSUME MemoryInv, Forgets, saved' = saved
    PROVE  /\ Remembered' \subseteq Remembered
           /\ \A k \in KeyImage : \A b \in alt_ki'[k] : k \in KeysIn(b)
           /\ \A b \in Remembered' : Behind(b)'
<1>1. Remembered' \subseteq Remembered
  BY DEF Forgets, Remembered
<1>2. \A k \in KeyImage : \A b \in alt_ki'[k] : k \in KeysIn(b)
  BY DEF Forgets, MemoryInv
<1>3. \A b \in Remembered' : Behind(b)'
  BY <1>1 DEF MemoryInv, Behind, Top
<1> QED
  BY <1>1, <1>2, <1>3

(* The call stays where it is.                                             *)
LEMMA MemoryQuiet ==
    ASSUME MemoryInv, Forgets, UNCHANGED <<db, saved, phase, chain, old>>
    PROVE  MemoryInv'
<1>1. /\ Remembered' \subseteq Remembered
      /\ \A k \in KeyImage : \A b \in alt_ki'[k] : k \in KeysIn(b)
      /\ \A b \in Remembered' : Behind(b)'
  BY ForgetsFacts
<1>2. (~Switching => Remembered \cap MainBlocks(db) = {})'
  BY <1>1 DEF MemoryInv, Switching, MainBlocks
<1>3. (Switching => \A i \in 1 .. Len(saved.blocks) : saved.blocks[i] \in Remembered =>
                       phase = "pushing" /\ i > SplitHeight /\ i <= Len(saved.blocks) - Len(old))'
  BY <1>1 DEF MemoryInv, Switching, SplitHeight
<1> QED
  BY <1>1, <1>2, <1>3 DEF MemoryInv

(* Everything is forgotten.                                                *)
LEMMA MemoryCleared ==
    ASSUME clear_altblocks_and_indexes
    PROVE  MemoryInv'
<1>1. Remembered' = {} /\ \A k \in KeyImage : alt_ki'[k] = {}
  BY DEF clear_altblocks_and_indexes, Remembered
<1> QED
  BY <1>1 DEF MemoryInv

(* The call is or comes to where it does not switch.                       *)
LEMMA MemoryOutside ==
    ASSUME MemoryInv, Forgets, saved' = saved, ~Switching', Remembered' \cap MainBlocks(db') = {}
    PROVE  MemoryInv'
<1>1. /\ Remembered' \subseteq Remembered
      /\ \A k \in KeyImage : \A b \in alt_ki'[k] : k \in KeysIn(b)
      /\ \A b \in Remembered' : Behind(b)'
  BY ForgetsFacts
<1> QED
  BY <1>1 DEF MemoryInv

(* Blocks are popped and connected.                                        *)
LEMMA MemorySwitching ==
    ASSUME MemoryInv, Forgets, saved' = saved, phase \in {"popping", "connecting"}, Switching'
    PROVE  MemoryInv'
<1>1. /\ Remembered' \subseteq Remembered
      /\ \A k \in KeyImage : \A b \in alt_ki'[k] : k \in KeysIn(b)
      /\ \A b \in Remembered' : Behind(b)'
  BY ForgetsFacts
<1>2. \A i \in 1 .. Len(saved.blocks) : saved.blocks[i] \notin Remembered
  BY DEF MemoryInv, Switching
<1>3. \A i \in 1 .. Len(saved'.blocks) : saved'.blocks[i] \notin Remembered'
  BY <1>1, <1>2
<1> QED
  BY <1>1, <1>3 DEF MemoryInv

(* What add_alt_block remembers.                                           *)
LEMMA AddRemembers ==
    ASSUME MemoryInv, TypeOK, NEW b \in Block, add_alt_block(b)
    PROVE  /\ Remembered' \subseteq Remembered \cup {b}
           /\ \A k \in KeyImage : \A c \in alt_ki'[k] : k \in KeysIn(c)
<1>1. alt' = alt \cup {b}
  BY DEF add_alt_block
<1>2. \A k \in KeyImage : alt_ki'[k] = IF k \in KeysIn(b) THEN alt_ki[k] \cup {b} ELSE alt_ki[k]
  BY DEF add_alt_block
<1>3. \A k \in KeyImage : alt_ki'[k] \subseteq alt_ki[k] \cup {b}
  BY <1>2
<1>4. Remembered' \subseteq Remembered \cup {b}
  BY <1>1, <1>3 DEF Remembered
<1>5. ASSUME NEW k \in KeyImage, NEW c \in alt_ki'[k] PROVE k \in KeysIn(c)
  <2>1. CASE c \in alt_ki[k]
    BY <2>1 DEF MemoryInv
  <2>2. CASE c \notin alt_ki[k]
    BY <1>2, <2>2
  <2> QED
    BY <2>1, <2>2
<1> QED
  BY <1>4, <1>5

(* The predecessor of an alternative block is in its chain of alternative  *)
(* blocks, or in the main chain.                                           *)
LEMMA AltParent ==
    ASSUME NEW b \in Block, Height(b) > 0, ConnectedToMain(b)
    PROVE  Prev(b) \in alt \/ \E i \in 1 .. Len(Seen.blocks) : Prev(b) = Seen.blocks[i]
<1> DEFINE n == Len(Path[b])
           f == FirstAlt(b)
<1>1. n \in Nat /\ n > 1
  BY PathFacts DEF Height
<1>2. f \in 1 .. n /\ \A j \in f .. n - 1 : Path[b][j] \in alt
  BY FirstAltFacts
<1>3. CASE f = n
  <2>1. f - 1 \in 1 .. Len(Seen.blocks) /\ Seen.blocks[f - 1] = Path[b][f - 1]
    BY DEF ConnectedToMain, split_height
  <2> HIDE DEF f, n
  <2>2. Prev(b) = Path[b][f - 1]
    BY <1>3 DEF Prev, n
  <2> QED
    BY <2>1, <2>2
<1>4. CASE f # n
  <2>1. n - 1 \in f .. n - 1
    BY <1>1, <1>2, <1>4
  <2> QED
    BY <1>2, <2>1 DEF Prev
<1> QED
  BY <1>3, <1>4

(* A block that arrives and becomes an alternative one.                    *)
LEMMA MemoryAdds ==
    ASSUME Sound, PreferredInv, MemoryInv, NEW b \in Block, AltKept(b) \/ AltSwitch(b)
    PROVE  MemoryInv'
<1>1. TypeOK /\ Good(db) /\ Good(saved) /\ phase = "idle" /\ db = saved /\ ~Switching
  BY DEF Sound, PhaseInv, AltKept, AltSwitch, IsAlternative, IsNew, Switching
<1>2. /\ add_alt_block(b) /\ handle_alternative_block(b) /\ db' = db /\ saved' = saved
      /\ ~have_block(b) /\ Height(b) > 0 /\ Prev(b) # Top(Seen) /\ stale <= Len(db.blocks)
  BY <1>1 DEF AltKept, AltSwitch, IsAlternative, IsNew, chainvars
<1>3. /\ Remembered' \subseteq Remembered \cup {b}
      /\ \A k \in KeyImage : \A c \in alt_ki'[k] : k \in KeysIn(c)
  BY <1>1, <1>2, AddRemembers
<1>4. Behind(b)
  <2> DEFINE m == Len(saved.blocks)
             n == Len(Seen.blocks)
  <2>1. m \in Nat \ {0} /\ Top(saved) = saved.blocks[m] /\ Len(Path[Top(saved)]) = m
    BY <1>1, GoodFacts DEF Top
  <2>2. n \in 1 .. m /\ (\A i \in 1 .. n : Seen.blocks[i] = saved.blocks[i]) /\ Top(Seen) = Seen.blocks[n]
    BY <1>1, <1>2, SeenFacts DEF Top
  <2>3. Prev(b) \in alt \/ \E i \in 1 .. n : Prev(b) = Seen.blocks[i]
    BY <1>2, AltParent DEF handle_alternative_block
  <2> HIDE DEF m, n
  <2>4. CASE Prev(b) \in alt
    <3>1. ~is_reorganize_required(Top(saved), Prev(b))
      BY <1>1, <2>4 DEF PreferredInv
    <3>2. Top(saved) \in MainBlocks(db)
      BY <1>1, <2>1, GoodFacts DEF m
    <3>3. Prev(b) # Top(saved)
      BY <1>1, <2>4, <3>2 DEF MemoryInv, Remembered
    <3> QED
      BY <1>2, <3>1, <3>3 DEF Behind
  <2>5. ASSUME NEW i \in 1 .. n, Prev(b) = Seen.blocks[i]
        PROVE  Behind(b)
    <3>1. i \in 1 .. m /\ Prev(b) = saved.blocks[i]
      BY <2>1, <2>2, <2>5
    <3>2. i # m
      BY <1>2, <2>1, <2>2, <2>5
    <3>3. ~is_reorganize_required(Top(saved), Prev(b)) /\ Len(Path[saved.blocks[i]]) = i
      BY <1>1, <3>1, ChainNotPreferred, PlaceFacts DEF m
    <3> QED
      BY <1>2, <2>1, <3>1, <3>2, <3>3 DEF Behind
  <2> QED
    BY <2>3, <2>4, <2>5
<1>5. \A c \in Remembered' : Behind(c)'
  BY <1>2, <1>3, <1>4 DEF MemoryInv, Behind, Top
<1>6. b \notin MainBlocks(db) /\ Remembered \cap MainBlocks(db) = {}
  BY <1>1, <1>2 DEF have_block, MemoryInv
<1>7. Remembered' \cap MainBlocks(db') = {}
  BY <1>2, <1>3, <1>6
<1>8. \A i \in 1 .. Len(saved'.blocks) : saved'.blocks[i] \notin Remembered'
  <2>1. \A i \in 1 .. Len(saved.blocks) : saved.blocks[i] \in MainBlocks(db)
    BY <1>1, GoodFacts
  <2> QED
    BY <1>1, <1>2, <1>7, <2>1
<1> QED
  BY <1>3, <1>5, <1>7, <1>8 DEF MemoryInv

(* A disconnected block becomes an alternative one.                        *)
LEMMA MemoryPush ==
    ASSUME Sound, ShapeInv, MemoryInv, SwitchPush
    PROVE  MemoryInv'
<1> DEFINE b == Head(old)
           n == NextOld
           m == Len(saved.blocks)
<1>1. TypeOK /\ Good(saved) /\ Switching /\ phase = "pushing" /\ old # <<>> /\ old \in Seq(Block)
  BY DEF Sound, TypeOK, SwitchPush, Switching
<1>2. /\ n \in 1 .. m /\ n > SplitHeight /\ n - 1 \in 1 .. m
      /\ b = saved.blocks[n] /\ b \in Block
      /\ Len(Path[b]) = n /\ \A j \in 1 .. n : Path[b][j] = saved.blocks[j]
      /\ m \in Nat /\ Len(old) \in Nat \ {0} /\ SplitHeight \in Nat \ {0}
  BY <1>1, NextOldFacts
<1>3. /\ add_alt_block(b) /\ saved' = saved /\ chain' = chain /\ phase' = phase /\ old' = Tail(old)
  BY DEF SwitchPush, chainvars
<1>4. n = m - Len(old) + 1 /\ Len(old') = Len(old) - 1
  BY <1>1, <1>3 DEF NextOld
<1> HIDE DEF b, n, m
<1>5. /\ Remembered' \subseteq Remembered \cup {b}
      /\ \A k \in KeyImage : \A c \in alt_ki'[k] : k \in KeysIn(c)
  BY <1>1, <1>2, <1>3, AddRemembers
<1>6. Behind(b)
  <2>1. Prev(b) = saved.blocks[n - 1]
    <3>1. n - 1 \in 1 .. n
      BY <1>2
    <3> QED
      BY <1>2, <3>1 DEF Prev
  <2>2. ~is_reorganize_required(Top(saved), Prev(b))
    BY <1>1, <1>2, <2>1, ChainNotPreferred DEF m
  <2>3. Len(Path[Top(saved)]) = m /\ Len(Path[saved.blocks[n - 1]]) = n - 1
    BY <1>1, <1>2, GoodFacts, PlaceFacts DEF m
  <2>4. n - 1 # m /\ Height(b) > 0
    BY <1>2 DEF Height
  <2> QED
    BY <2>1, <2>2, <2>3, <2>4 DEF Behind
<1>7. \A c \in Remembered' : Behind(c)'
  BY <1>3, <1>5, <1>6 DEF MemoryInv, Behind, Top
<1>8. ASSUME NEW i \in 1 .. m, saved.blocks[i] \in Remembered'
      PROVE  i > SplitHeight /\ i <= m - Len(old')
  <2>1. CASE saved.blocks[i] \in Remembered
    <3>1. i > SplitHeight /\ i <= m - Len(old)
      BY <1>1, <1>8, <2>1 DEF MemoryInv, m
    <3> QED
      BY <1>2, <1>4, <3>1
  <2>2. CASE saved.blocks[i] = b
    <3>1. i = n
      BY <1>1, <1>2, <2>2, PlaceFacts DEF m
    <3> QED
      BY <1>2, <1>4, <3>1
  <2> QED
    BY <1>5, <1>8, <2>1, <2>2
<1>9. Switching' /\ SplitHeight' = SplitHeight /\ Len(saved'.blocks) = m /\ phase' = "pushing"
  BY <1>1, <1>3 DEF Switching, SplitHeight, m
<1>10. \A i \in 1 .. Len(saved'.blocks) : saved'.blocks[i] \in Remembered' =>
          phase' = "pushing" /\ i > SplitHeight' /\ i <= Len(saved'.blocks) - Len(old')
  BY <1>3, <1>8, <1>9
<1> QED
  BY <1>5, <1>7, <1>9, <1>10 DEF MemoryInv

(* The next disconnected block is passed over.                             *)
LEMMA MemoryOrphaned ==
    ASSUME Sound, MemoryInv, SwitchPushOrphaned
    PROVE  MemoryInv'
<1>1. /\ Switching /\ Switching' /\ phase = "pushing" /\ old \in Seq(Block) /\ old # <<>>
      /\ UNCHANGED <<db, saved, alt, alt_ki, phase, chain>> /\ old' = Tail(old)
      /\ Len(saved.blocks) \in Nat
  BY GoodFacts DEF Sound, TypeOK, SwitchPushOrphaned, Switching, chainvars, altvars
<1>2. Len(old') = Len(old) - 1 /\ Len(old) \in Nat
  BY <1>1
<1>3. Remembered' = Remembered /\ SplitHeight' = SplitHeight
  BY <1>1 DEF Remembered, SplitHeight
<1>4. ASSUME NEW i \in 1 .. Len(saved.blocks), saved.blocks[i] \in Remembered
      PROVE  i > SplitHeight /\ i <= Len(saved.blocks) - Len(old')
  <2>1. i > SplitHeight /\ i <= Len(saved.blocks) - Len(old)
    BY <1>1, <1>4 DEF MemoryInv
  <2> QED
    BY <1>1, <1>2, <2>1
<1>5. \A b \in Remembered' : Behind(b)'
  BY <1>1, <1>3 DEF MemoryInv, Behind, Top
<1>6. \A k \in KeyImage : \A b \in alt_ki'[k] : k \in KeysIn(b)
  BY <1>1 DEF MemoryInv
<1>7. \A i \in 1 .. Len(saved'.blocks) : saved'.blocks[i] \in Remembered' =>
          phase' = "pushing" /\ i > SplitHeight' /\ i <= Len(saved'.blocks) - Len(old')
  BY <1>1, <1>3, <1>4
<1> QED
  BY <1>1, <1>5, <1>6, <1>7 DEF MemoryInv

(* After a switch the writer's chain is what both chains have, and the     *)
(* blocks of the alternative chain.                                        *)
LEMMA SwitchedChain ==
    ASSUME Sound, ShapeInv, phase = "pushing", NEW i \in 1 .. Len(db.blocks), i > SplitHeight
    PROVE  db.blocks[i] \in Range(chain)
<1> DEFINE s == SplitHeight
           n == Len(db.blocks)
<1>1. Good(db) /\ SwitchPath /\ PoppedInv /\ SwitchInv /\ at = Len(chain) /\ chain \in Seq(Block)
  BY DEF Sound, PhaseInv, TypeOK, ShapeInv, Switching
<1>2. /\ n \in Nat \ {0} /\ s \in 1 .. n /\ n = s + at /\ at \in Nat /\ Top(db) = cur
      /\ \A j \in 1 .. at : chain[j] = Path[cur][s + j]
  <2>1. n \in Nat \ {0} /\ Len(chain) \in Nat \ {0}
    BY <1>1, GoodFacts DEF SwitchInv
  <2>2. n = s + at /\ s \in 1 .. n
    BY <1>1 DEF PoppedInv, SwitchPath
  <2>3. Top(db) = cur
    BY <1>1, <2>1 DEF SwitchInv
  <2> QED
    BY <1>1, <2>1, <2>2, <2>3 DEF SwitchPath
<1>3. db.blocks[i] = Path[cur][i]
  <2>1. n \in 1 .. n /\ Top(db) = db.blocks[n]
    BY <1>2 DEF Top
  <2>2. Path[db.blocks[n]][i] = db.blocks[i]
    BY <1>1, <2>1, PlaceFacts
  <2> QED
    BY <1>2, <2>1, <2>2
<1> HIDE DEF s, n
<1>4. i \in 1 .. n /\ i > s
  BY DEF s, n
<1>5. i - s \in 1 .. at /\ s + (i - s) = i
  BY <1>2, <1>4
<1>6. db.blocks[i] = chain[i - s] /\ i - s \in 1 .. Len(chain)
  BY <1>1, <1>2, <1>3, <1>5
<1> QED
  BY <1>6 DEF Range

(* The end of a switch forgets its chain, for the writer can find every    *)
(* transaction of it.                                                      *)
LEMMA MemoryDone ==
    ASSUME Sound, ShapeInv, MemoryInv, SwitchDone
    PROVE  MemoryInv'
<1>1. /\ Good(db) /\ Good(saved) /\ SwitchPath /\ SwitchInv /\ Switching /\ TypeOK
      /\ phase = "pushing" /\ at = Len(chain) /\ chain \in Seq(Block)
  BY DEF Sound, PhaseInv, TypeOK, ShapeInv, Switching, SwitchDone
<1>2. /\ do_erase_altblocks(Range(chain), pool \cup Stored(db))
      /\ db' = db /\ saved' = saved /\ phase' = "commit" /\ ~Switching'
  BY DEF SwitchDone, Goto, chainvars, Switching
<1>3. Forgets
  BY <1>2 DEF do_erase_altblocks, Forgets
<1>4. ASSUME NEW b \in Range(chain) PROVE b \in Block /\ TxsIn(b) \subseteq Stored(db)
  <2>1. PICK j \in 1 .. Len(chain) : b = chain[j]
    BY <1>1 DEF Range
  <2>2. b \in MainBlocks(db)
    BY <1>1, <2>1 DEF SwitchInv
  <2> QED
    BY <1>1, <2>2, ChainTxsStored, GoodFacts DEF Stored
<1>5. ASSUME NEW b \in Range(chain) PROVE b \notin Remembered'
  <2>1. b \notin alt'
    BY <1>2 DEF do_erase_altblocks
  <2>2. ASSUME NEW k \in KeyImage, b \in alt_ki'[k] PROVE FALSE
    <3>1. b \in alt_ki[k] /\ k \notin Purgeable(b, pool \cup Stored(db))
      BY <1>2, <2>2 DEF do_erase_altblocks
    <3>2. k \in KeysIn(b)
      BY <3>1 DEF MemoryInv
    <3>3. TxsIn(b) \cap (pool \cup Stored(db)) = TxsIn(b)
      BY <1>4
    <3> QED
      BY <3>1, <3>2, <3>3 DEF Purgeable, KeysIn
  <2> QED
    BY <2>1, <2>2 DEF Remembered
<1>6. ASSUME NEW i \in 1 .. Len(db.blocks) PROVE db.blocks[i] \notin Remembered'
  <2>1. CASE i > SplitHeight
    BY <1>1, <1>5, <2>1, SwitchedChain
  <2>2. CASE ~(i > SplitHeight)
    <3>1. /\ i \in 1 .. SplitHeight /\ i \in 1 .. Len(saved.blocks) /\ db.blocks[i] = saved.blocks[i]
      <4>1. SplitHeight \in Nat /\ Len(saved.blocks) \in Nat /\ SplitHeight <= Len(saved.blocks)
        BY <1>1, GoodFacts DEF SwitchPath
      <4>2. i \in 1 .. SplitHeight /\ i \in 1 .. Len(saved.blocks)
        BY <2>2, <4>1
      <4> QED
        BY <1>1, <4>2 DEF SwitchPath
    <3>2. db.blocks[i] \notin Remembered
      BY <1>1, <2>2, <3>1 DEF MemoryInv
    <3> QED
      BY <1>2, <1>3, <3>2, ForgetsFacts
  <2> QED
    BY <2>1, <2>2
<1>7. Remembered' \cap MainBlocks(db') = {}
  BY <1>1, <1>2, <1>6, GoodFacts
<1> QED
  BY <1>2, <1>3, <1>7, MemoryOutside

(* What is committed is preferred to what was.                             *)
LEMMA CommitPrefers ==
    ASSUME Sound, Commit
    PROVE  /\ Top(db) \in Block /\ Top(saved) \in Block
           /\ is_reorganize_required(Top(saved), Top(db))
<1>1. Top(db) \in Block /\ Top(saved) \in Block
  BY GoodFacts DEF Sound
<1>2. CASE ExtendsTop(Top(db))
  <2>1. Len(Path[Top(db)]) > 1 /\ Prev(Top(db)) = Top(saved)
    BY <1>1, <1>2, PathFacts DEF ExtendsTop, Height
  <2>2. Weight[Top(db)] > Weight[Top(saved)]
    BY <1>1, <2>1, BlockAssumption DEF Prev
  <2>3. Weight[Top(db)] \in Nat /\ Weight[Top(saved)] \in Nat
    BY <1>1, BlockAssumption
  <2> QED
    BY <1>1, <2>2, <2>3 DEF is_reorganize_required
<1>3. CASE TakesOver(Top(db))
  BY <1>1, <1>3 DEF TakesOver
<1> QED
  BY <1>2, <1>3 DEF Sound, PhaseInv, Commit

LEMMA MemoryCommit ==
    ASSUME Sound, MemoryInv, Commit
    PROVE  MemoryInv'
<1>1. /\ saved' = db /\ db' = db /\ alt' = alt /\ alt_ki' = alt_ki /\ ~Switching /\ ~Switching'
  BY DEF Commit, Goto, Switching, altvars
<1>2. Remembered' = Remembered /\ MainBlocks(db') = MainBlocks(db)
  BY <1>1 DEF Remembered
<1>3. Remembered' \cap MainBlocks(db') = {}
  BY <1>1, <1>2 DEF MemoryInv
<1>4. ASSUME NEW b \in Remembered PROVE Behind(b)'
  <2>1. Behind(b) /\ b \in Block
    BY DEF MemoryInv, Remembered, Sound, TypeOK
  <2>2. Prev(b) \in Block
    <3>1. Len(Path[b]) - 1 \in 1 .. Len(Path[b])
      BY <2>1, PathFacts DEF Behind, Height
    <3> QED
      BY <2>1, <3>1, PathFacts DEF Prev
  <2>3. ~is_reorganize_required(Top(db), Prev(b))
    <3>1. is_reorganize_required(Top(db), Prev(b)) => is_reorganize_required(Top(saved), Prev(b))
      BY <2>2, CommitPrefers, PreferredTransitive
    <3> QED
      BY <2>1, <3>1 DEF Behind
  <2>4. Prev(b) # Top(db)
    BY <2>1, CommitPrefers DEF Behind
  <2> QED
    BY <1>1, <2>1, <2>3, <2>4 DEF Behind, Top
<1>5. \A k \in KeyImage : \A b \in alt_ki'[k] : k \in KeysIn(b)
  BY <1>1 DEF MemoryInv
<1> QED
  BY <1>1, <1>2, <1>3, <1>4, <1>5 DEF MemoryInv

(* No more blocks in the writer's chain, no switch before or after.        *)
LEMMA MemoryKept ==
    ASSUME MemoryInv, Forgets, saved' = saved, ~Switching, ~Switching',
           MainBlocks(db') \subseteq MainBlocks(db)
    PROVE  MemoryInv'
<1>1. Remembered' \subseteq Remembered /\ Remembered \cap MainBlocks(db) = {}
  BY ForgetsFacts DEF MemoryInv
<1>2. Remembered' \cap MainBlocks(db') = {}
  BY <1>1
<1> QED
  BY <1>2, MemoryOutside

LEMMA MemoryStep ==
    ASSUME SwitchRules, NothingLost, Sound, ShapeInv, PreferredInv, AddedInv, SoundNext
    PROVE  MemoryInv'
<1>1. TypeOK /\ Good(db) /\ Good(saved) /\ PhaseInv /\ MemoryInv
  BY DEF Sound, AddedInv
<1>2. ASSUME UNCHANGED altvars PROVE Forgets
  BY <1>2 DEF altvars, Forgets
<1>3. ASSUME Adds PROVE MemoryInv'
  <2>1. ASSUME NEW b \in Block, AddToMain(b) \/ AltRefused(b) \/ BackThrows(b)
        PROVE  MemoryInv'
    <3>1. UNCHANGED <<altvars, db, saved>> /\ ~Switching /\ ~Switching'
      BY <2>1 DEF AddToMain, AltRefused, BackThrows, IsAlternative, IsNew, Goto, Return, Switching,
                  chainvars
    <3>2. Forgets
      BY <1>2, <3>1
    <3> QED
      BY <1>1, <3>1, <3>2, MemoryKept
  <2>2. CASE MainAccepted
    <3>1. /\ UNCHANGED <<altvars, saved>> /\ db' = push_block(db, cur) /\ ~Switching /\ ~Switching'
          /\ cur \in Block /\ Height(cur) > 0 /\ Prev(cur) = Top(saved)
      BY <1>1, <2>2 DEF MainAccepted, Goto, Switching, PhaseInv, ExtendsTop
    <3>2. Forgets
      BY <1>2, <3>1
    <3>3. MainBlocks(db') = MainBlocks(db) \cup {cur}
      BY <1>1, <3>1, PushFacts
    <3>4. cur \notin Remembered /\ Remembered \cap MainBlocks(db) = {}
      BY <1>1, <3>1 DEF MemoryInv, Behind
    <3>5. Remembered' \cap MainBlocks(db') = {}
      BY <1>1, <3>1, <3>2, <3>3, <3>4, ForgetsFacts
    <3> QED
      BY <1>1, <3>1, <3>2, <3>5, MemoryOutside
  <2>3. CASE MainRefused
    <3>1. /\ db' = saved /\ saved' = saved /\ db = saved /\ ~Switching /\ ~Switching'
          /\ UNCHANGED <<alt, alt_ki>>
      BY <1>1, <2>3 DEF MainRefused, AbortTransaction, Return, Switching, PhaseInv
    <3>2. Forgets
      BY <3>1 DEF Forgets
    <3> QED
      BY <1>1, <3>1, <3>2, MemoryKept
  <2>4. CASE SwitchPop \/ SwitchPopped \/ SwitchConnect \/ SwitchConnected
    <3>1. UNCHANGED <<altvars, saved>> /\ phase \in {"popping", "connecting"} /\ Switching'
      BY <2>4 DEF SwitchPop, SwitchPopped, SwitchConnect, SwitchConnected, Goto, Switching, chainvars
    <3>2. Forgets
      BY <1>2, <3>1
    <3> QED
      BY <1>1, <3>1, <3>2, MemorySwitching
  <2>5. CASE SwitchRefused
    <3>1. /\ db' = saved /\ saved' = saved /\ phase = "connecting" /\ ~Switching'
          /\ \E S, found : do_erase_altblocks(S, found)
      BY <2>5 DEF SwitchRefused, AbortTransaction, Return, Switching
    <3>2. Forgets
      BY <3>1 DEF do_erase_altblocks, Forgets
    <3>3. \A i \in 1 .. Len(saved.blocks) : saved.blocks[i] \notin Remembered
      BY <1>1, <3>1 DEF MemoryInv, Switching
    <3>4. Remembered' \cap MainBlocks(db') = {}
      BY <1>1, <3>1, <3>2, <3>3, ForgetsFacts, GoodFacts
    <3> QED
      BY <1>1, <3>1, <3>2, <3>4, MemoryOutside
  <2>6. CASE SwitchPushRefused
    <3>1. phase = "pushing" /\ old # <<>> /\ ~handle_alternative_block(Head(old)) /\ chain[1] \in alt
      <4>1. chain \in Seq(Block) /\ chain # <<>>
        BY <1>1, <2>6 DEF SwitchPushRefused, TypeOK, PhaseInv, SwitchInv
      <4>2. chain[1] \in Range(chain)
        BY <4>1 DEF Range
      <4> QED
        BY <2>6, <4>2 DEF SwitchPushRefused, Alive
    <3> QED
      BY <3>1, OldAccepted
  <2>7. CASE Finalize
    <3>1. UNCHANGED <<altvars, db, saved>> /\ ~Switching /\ ~Switching'
      BY <2>7 DEF Finalize, Return, Switching, chainvars
    <3>2. Forgets
      BY <1>2, <3>1
    <3> QED
      BY <1>1, <3>1, <3>2, MemoryKept
  <2>8. ASSUME NEW n \in 0 .. Cardinality(Tx), Exception(n) PROVE FALSE
    BY <2>8 DEF Exception, NothingLost
  <2> QED
    BY <1>1, <1>3, <2>1, <2>2, <2>3, <2>4, <2>5, <2>6, <2>7, <2>8, MemoryAdds, MemoryPush,
       MemoryOrphaned, MemoryDone, MemoryCommit DEF Adds
<1>4. ASSUME Truncates PROVE MemoryInv'
  <2>1. ASSUME NEW h \in 1 .. Len(db.blocks), TruncateBegin(h)
        PROVE  UNCHANGED <<altvars, db, saved>> /\ ~Switching /\ ~Switching'
    BY <2>1 DEF TruncateBegin, Goto, Switching, chainvars
  <2>2. CASE TruncatePop
    <3>1. /\ UNCHANGED <<altvars, saved>> /\ db' = pop_block(db) /\ ~Switching /\ ~Switching'
          /\ Len(db.blocks) > at /\ at \in Nat /\ at >= 1
      BY <1>1, <2>2 DEF TruncatePop, Switching, callvars, PhaseInv, TypeOK
    <3>2. Len(db.blocks) \in Nat /\ Len(db.blocks) > 1
      BY <1>1, <3>1, GoodFacts
    <3>3. MainBlocks(db') \subseteq MainBlocks(db)
      <4>1. Good(db')
        BY <1>1, <3>1, <3>2, PopGood
      <4>2. Len(db'.blocks) = Len(db.blocks) - 1 /\ \A i \in 1 .. Len(db.blocks) - 1 : db'.blocks[i] = db.blocks[i]
        BY <1>1, <3>1, <3>2, PopFacts
      <4>3. MainBlocks(db') = {db'.blocks[i] : i \in 1 .. Len(db'.blocks)}
        BY <4>1, GoodFacts
      <4>4. MainBlocks(db) = {db.blocks[i] : i \in 1 .. Len(db.blocks)}
        BY <1>1, GoodFacts
      <4>5. \A i \in 1 .. Len(db.blocks) - 1 : i \in 1 .. Len(db.blocks)
        BY <3>2
      <4> QED
        BY <4>2, <4>3, <4>4, <4>5
    <3>4. Forgets
      BY <1>2, <3>1
    <3> QED
      BY <1>1, <3>1, <3>3, <3>4, MemoryKept
  <2>3. ASSUME TruncateEnd \/ TruncateNothing PROVE MemoryInv'
    BY <2>3, MemoryCleared DEF TruncateEnd, TruncateNothing
  <2> QED
    BY <1>1, <1>2, <1>4, <2>1, <2>2, <2>3, MemoryKept DEF Truncates
<1>5. ASSUME Environment PROVE MemoryInv'
  <2>1. CASE Crash \/ ClearAltBlocks
    BY <2>1, MemoryCleared DEF Crash, ClearAltBlocks
  <2>2. CASE PruneAgedAltBlocks
    <3>1. Forgets /\ UNCHANGED <<db, saved, phase, chain, old>>
      BY <2>2 DEF PruneAgedAltBlocks, do_erase_altblocks, Forgets, chainvars, callvars
    <3> QED
      BY <1>1, <3>1, MemoryQuiet
  <2>3. ASSUME ~Crash, ~ClearAltBlocks, ~PruneAgedAltBlocks
        PROVE  UNCHANGED <<altvars, db, saved, phase, chain, old>>
    BY <1>5, <2>3 DEF Environment, AddTxLookup, AddTxInsert, RemoveStuck, PurgeTransactions, SetClock,
       chainvars, callvars
  <2> QED
    BY <1>1, <1>2, <2>1, <2>2, <2>3, MemoryQuiet
<1>6. ASSUME UNCHANGED vars PROVE MemoryInv'
  <2>1. Forgets /\ UNCHANGED <<db, saved, phase, chain, old>>
    BY <1>2, <1>6 DEF vars, chainvars, callvars
  <2> QED
    BY <1>1, <2>1, MemoryQuiet
<1> QED
  BY <1>3, <1>4, <1>5, <1>6 DEF SoundNext

(* A block of the chain of a switch is not in the committed chain.         *)
LEMMA PushedBegins ==
    ASSUME Sound, MemoryInv, NEW b \in Block, AltSwitch(b)
    PROVE  PushedInv'
<1> DEFINE u == build_alt_subchain(b)
<1>1. Good(db) /\ db = saved /\ ~Switching
  BY DEF Sound, PhaseInv, AltSwitch, IsAlternative, IsNew, Switching
<1>2. /\ saved' = saved /\ phase' = "popping" /\ chain' = Append(u, b) /\ b \notin MainBlocks(db)
      /\ ConnectedToMain(b)
  BY DEF AltSwitch, Goto, IsAlternative, IsNew, have_block, chainvars, handle_alternative_block
<1>3. /\ FirstAlt(b) \in 1 .. Len(Path[b]) /\ Path[b] \in Seq(Block) /\ Len(Path[b]) \in Nat \ {0}
      /\ \A j \in FirstAlt(b) .. Len(Path[b]) - 1 : Path[b][j] \in alt
  BY FirstAltFacts, PathFacts
<1>4. /\ u \in Seq(Block) /\ Len(u) = Len(Path[b]) - FirstAlt(b)
      /\ \A i \in 1 .. Len(u) : u[i] = Path[b][FirstAlt(b) + i - 1]
  BY <1>3 DEF build_alt_subchain
<1>5. chain'[1] = b \/ chain'[1] \in alt
  <2>1. CASE Len(u) = 0
    BY <1>2, <1>4, <2>1
  <2>2. CASE Len(u) # 0
    <3>1. chain'[1] = u[1] /\ u[1] = Path[b][FirstAlt(b)] /\ FirstAlt(b) \in FirstAlt(b) .. Len(Path[b]) - 1
      BY <1>2, <1>3, <1>4, <2>2
    <3> QED
      BY <1>3, <3>1
  <2> QED
    BY <2>1, <2>2
<1>6. chain'[1] \notin MainBlocks(saved')
  BY <1>1, <1>2, <1>5 DEF MemoryInv, Remembered
<1> QED
  BY <1>2, <1>6 DEF PushedInv

(* Pruning takes the lowest block of the chain if it takes any that was    *)
(* disconnected.                                                           *)
LEMMA PushedPruned ==
    ASSUME Sound, ShapeInv, PushedInv, PruneAgedAltBlocks
    PROVE  PushedInv'
<1>1. UNCHANGED <<db, saved, phase, chain, old>> /\ alt' = alt \ Aged
  BY DEF PruneAgedAltBlocks, do_erase_altblocks, chainvars, callvars
<1>2. ASSUME phase = "pushing", chain[1] \in alt',
             NEW i \in SplitHeight + 1 .. Len(saved.blocks) - Len(old)
      PROVE  saved.blocks[i] \in alt'
  <2>1. SwitchPath /\ Good(saved) /\ old \in Seq(Block)
    BY <1>2 DEF ShapeInv, Switching, Sound, TypeOK
  <2>2. /\ SplitHeight \in Nat \ {0} /\ Len(saved.blocks) \in Nat /\ Len(old) \in Nat
        /\ SplitHeight <= Len(saved.blocks)
    <3>1. Len(db.blocks) \in Nat
      BY GoodFacts DEF Sound
    <3> QED
      BY <2>1, <3>1, GoodFacts DEF SwitchPath
  <2>3. saved.blocks[i] \in alt /\ chain[1] \in alt /\ chain[1] \notin Aged
    BY <1>1, <1>2 DEF PushedInv
  <2>4. i \in 1 .. Len(saved.blocks) /\ i > SplitHeight
    BY <2>2
  <2>5. Len(Path[saved.blocks[i]]) = i
    BY <2>1, <2>4, PlaceFacts
  <2>6. Height(saved.blocks[i]) = i - 1 /\ SplitHeight = Height(chain[1]) /\ AltLivetime \in Nat
    BY <2>5, EnvironmentAssumption DEF Height, SplitHeight
  <2>7. ~(Len(saved.blocks) > SplitHeight /\ Len(saved.blocks) - SplitHeight > AltLivetime)
    BY <1>2, <2>3, <2>6 DEF Aged, CommittedSize
  <2>8. ~(Len(saved.blocks) > i - 1 /\ Len(saved.blocks) - (i - 1) > AltLivetime)
    BY <2>2, <2>4, <2>6, <2>7
  <2>9. saved.blocks[i] \notin Aged
    BY <1>2, <2>6, <2>8 DEF Aged, CommittedSize
  <2> QED
    BY <1>1, <2>3, <2>9
<1> QED
  BY <1>1, <1>2 DEF PushedInv, Switching, SplitHeight

(* A block is pushed back or passed over.                                  *)
LEMMA PushedBack ==
    ASSUME SwitchRules, Sound, ShapeInv, AddedInv, SwitchPush \/ SwitchPushOrphaned
    PROVE  PushedInv'
<1>1. /\ Switching /\ phase = "pushing" /\ old \in Seq(Block) /\ old # <<>> /\ PushedInv
      /\ UNCHANGED <<saved, phase, chain>> /\ old' = Tail(old)
  BY DEF Sound, TypeOK, AddedInv, SwitchPush, SwitchPushOrphaned, Switching, chainvars
<1>2. Len(old') = Len(old) - 1
  BY <1>1
<1>3. /\ NextOld \in 1 .. Len(saved.blocks) /\ Head(old) = saved.blocks[NextOld]
      /\ SplitHeight \in Nat \ {0} /\ Len(saved.blocks) \in Nat /\ Len(old) \in Nat \ {0}
  BY <1>1, NextOldFacts
<1>4. chain[1] # Head(old)
  <2>1. Head(old) \in MainBlocks(saved)
    BY <1>3, GoodFacts DEF Sound
  <2> QED
    BY <1>1, <2>1 DEF PushedInv
<1>5. ASSUME chain[1] \in alt', NEW i \in SplitHeight + 1 .. Len(saved.blocks) - Len(old')
      PROVE  saved.blocks[i] \in alt'
  <2>1. chain[1] \in alt
    BY <1>4, <1>5 DEF SwitchPush, SwitchPushOrphaned, add_alt_block, altvars
  <2>2. ~AltOrphaned(Head(old))
    BY <1>1, <2>1, OldAccepted
  <2>3. alt' = alt \cup {Head(old)}
    BY <2>2 DEF SwitchPush, SwitchPushOrphaned, add_alt_block
  <2>4. i = NextOld \/ i \in SplitHeight + 1 .. Len(saved.blocks) - Len(old)
    BY <1>2, <1>3 DEF NextOld
  <2> QED
    BY <1>1, <1>3, <2>1, <2>3, <2>4 DEF PushedInv
<1> QED
  BY <1>1, <1>5 DEF PushedInv, Switching, SplitHeight

(* Nothing that the invariant speaks of changes but the phase.             *)
LEMMA PushedSame ==
    ASSUME PushedInv, UNCHANGED <<saved, chain, old, phase>>, alt' = alt \/ alt' = {}
    PROVE  PushedInv'
BY DEF PushedInv, Switching, SplitHeight

LEMMA PushedStep ==
    ASSUME SwitchRules, Sound, ShapeInv, AddedInv, SoundNext
    PROVE  PushedInv'
<1>1. PushedInv /\ MemoryInv /\ Good(saved)
  BY DEF AddedInv, Sound
<1>2. CASE ~Switching'
  BY <1>2 DEF PushedInv, Switching
<1>3. CASE SwitchPop
  <2>1. UNCHANGED <<saved, chain>> /\ Switching /\ phase' = "popping"
    BY <1>3 DEF SwitchPop, Switching
  <2> QED
    BY <1>1, <2>1 DEF PushedInv
<1>4. CASE SwitchPopped
  <2>1. UNCHANGED <<saved, chain, db, old>> /\ Switching /\ phase = "popping" /\ phase' = "connecting"
    BY <1>4 DEF SwitchPopped, Switching, Goto, chainvars
  <2>2. Len(old) = Len(saved.blocks) - SplitHeight
    <3>1. SwitchPath /\ OldIsSuffix /\ PoppedInv /\ old \in Seq(Block) /\ Good(db)
      BY <2>1 DEF ShapeInv, Sound, TypeOK
    <3>2. Len(db.blocks) \in Nat /\ Len(saved.blocks) \in Nat /\ Len(old) \in Nat /\ SplitHeight \in Nat
      BY <1>1, <3>1, GoodFacts DEF SwitchPath
    <3>3. Len(db.blocks) = Len(saved.blocks) - Len(old) /\ Len(db.blocks) <= SplitHeight
      BY <1>4, <2>1, <3>1 DEF PoppedInv, SwitchPopped
    <3>4. Len(old) <= Len(saved.blocks) - SplitHeight
      BY <3>1 DEF OldIsSuffix
    <3> QED
      BY <3>2, <3>3, <3>4
  <2> QED
    BY <1>1, <2>1, <2>2 DEF PushedInv, SplitHeight
<1>5. CASE SwitchConnect
  BY <1>1, <1>5, PushedSame DEF SwitchConnect, altvars
<1>6. CASE SwitchConnected
  <2>1. /\ UNCHANGED <<saved, chain, old, alt>> /\ Switching /\ phase = "connecting" /\ phase' = "pushing"
    BY <1>6 DEF SwitchConnected, Switching, Goto, chainvars, altvars
  <2>2. Len(old) = Len(saved.blocks) - SplitHeight
    BY <1>1, <2>1 DEF PushedInv
  <2>3. SplitHeight \in Nat /\ Len(saved.blocks) \in Nat
    <3>1. SwitchPath /\ Good(db)
      BY <2>1 DEF ShapeInv, Sound
    <3> QED
      BY <1>1, <3>1, GoodFacts DEF SwitchPath
  <2>4. SplitHeight + 1 .. Len(saved.blocks) - Len(old) = {}
    BY <2>2, <2>3
  <2> QED
    BY <1>1, <2>1, <2>4 DEF PushedInv, SplitHeight
<1>7. ASSUME Adds PROVE PushedInv'
  <2>1. ASSUME NEW b \in Block, AddToMain(b) \/ AltRefused(b) \/ AltKept(b) \/ BackThrows(b)
        PROVE  ~Switching'
    BY <2>1 DEF AddToMain, AltRefused, AltKept, BackThrows, Goto, Return, Switching
  <2>2. ASSUME MainAccepted \/ MainRefused \/ SwitchRefused \/ SwitchPushRefused \/ SwitchDone
               \/ Commit \/ Finalize
        PROVE  ~Switching'
    BY <2>2 DEF MainAccepted, MainRefused, SwitchRefused, SwitchPushRefused, SwitchDone,
               Commit, Finalize, Goto, Return, Switching
  <2>3. ASSUME NEW n \in 0 .. Cardinality(Tx), Exception(n)
        PROVE  ~Switching'
    BY <2>3 DEF Exception, Return, Switching
  <2> QED
    BY <1>1, <1>2, <1>3, <1>4, <1>5, <1>6, <1>7, <2>1, <2>2, <2>3, PushedBegins, PushedBack DEF Adds
<1>8. ASSUME Truncates PROVE ~Switching'
  BY <1>8 DEF Truncates, TruncateBegin, TruncatePop, TruncateEnd, TruncateNothing, Goto, Return, callvars, Switching
<1>9. ASSUME Environment PROVE PushedInv'
  <2>1. ASSUME Crash PROVE ~Switching'
    BY <2>1 DEF Crash, Return, Switching
  <2>2. ASSUME ~Crash, ~PruneAgedAltBlocks
        PROVE  UNCHANGED <<saved, chain, old, phase>> /\ (alt' = alt \/ alt' = {})
    BY <1>9, <2>2 DEF Environment, AddTxLookup, AddTxInsert, RemoveStuck, PurgeTransactions,
       ClearAltBlocks, clear_altblocks_and_indexes, SetClock, chainvars, altvars, callvars
  <2> QED
    BY <1>1, <1>2, <2>1, <2>2, PushedSame, PushedPruned
<1>10. ASSUME UNCHANGED vars PROVE UNCHANGED <<saved, chain, old, phase, alt>>
  BY <1>10 DEF vars, chainvars, callvars, altvars
<1> QED
  BY <1>1, <1>2, <1>7, <1>8, <1>9, <1>10, PushedSame DEF SoundNext

(* The transactions of disconnected blocks go to the pool and from there   *)
(* to the blocks that are connected.                                       *)
LEMMA OldTxsStep ==
    ASSUME NothingLost, Sound, ShapeInv, OldTxsInv, SoundNext
    PROVE  OldTxsInv'
<1>1. TypeOK /\ Good(db) /\ Good(saved) /\ PhaseInv
  BY DEF Sound
<1>2. CASE ~Switching'
  BY <1>2 DEF OldTxsInv
<1>3. CASE Switching /\ db' = db /\ pool \subseteq pool' /\ TxsInAll(Range(old')) \subseteq TxsInAll(Range(old))
  BY <1>3 DEF OldTxsInv, Stored
<1>4. ASSUME NEW b \in Block, AltSwitch(b) PROVE OldTxsInv'
  <2>1. Range(old') = {}
    BY <1>4 DEF AltSwitch, Range
  <2> QED
    BY <2>1 DEF OldTxsInv, TxsInAll
<1>5. CASE SwitchPop
  <2>1. /\ Switching /\ db' = pop_block(db) /\ old' = <<Top(db)>> \o old /\ pool' = pool \cup TxsIn(Top(db))
        /\ Len(db.blocks) > SplitHeight /\ old \in Seq(Block)
    BY <1>1, <1>5 DEF SwitchPop, Switching, TypeOK
  <2>2. Len(db.blocks) > 1 /\ Top(db) \in Block
    <3>1. SwitchPath
      BY <2>1 DEF ShapeInv
    <3> QED
      BY <1>1, <2>1, <3>1, GoodFacts DEF SwitchPath
  <2>3. Stored(db') = Stored(db) \ TxsIn(Top(db))
    BY <1>1, <2>1, <2>2, PopStored
  <2>4. Range(old') \subseteq Range(old) \cup {Top(db)}
    <3>1. Len(old) \in Nat /\ Len(old') = Len(old) + 1 /\ old'[1] = Top(db)
          /\ \A i \in 1 .. Len(old) : old'[i + 1] = old[i]
      BY <2>1, <2>2
    <3>2. ASSUME NEW i \in 1 .. Len(old'), i # 1 PROVE old'[i] \in Range(old)
      <4>1. i - 1 \in 1 .. Len(old) /\ (i - 1) + 1 = i
        BY <3>1, <3>2
      <4>2. old'[i] = old[i - 1]
        BY <3>1, <4>1
      <4> QED
        BY <2>1, <4>1, <4>2 DEF Range
    <3>3. old' \in Seq(Block)
      BY <2>1, <2>2
    <3>4. Range(old') = {old'[i] : i \in 1 .. Len(old')}
      BY <3>3 DEF Range
    <3> QED
      BY <3>1, <3>2, <3>4
  <2> QED
    BY <2>1, <2>3, <2>4 DEF OldTxsInv, TxsInAll
<1>6. CASE SwitchConnect
  <2>1. /\ Switching /\ old' = old /\ at < Len(chain) /\ db' = push_block(db, chain[at + 1])
        /\ pool' = pool \ TxsIn(chain[at + 1]) /\ chain \in Seq(Block) /\ at \in Nat
    BY <1>1, <1>6 DEF SwitchConnect, Switching, TypeOK
  <2>2. chain[at + 1] \in Block
    BY <2>1
  <2>3. Stored(db') = Stored(db) \cup TxsIn(chain[at + 1])
    BY <1>1, <2>1, <2>2, PushStored
  <2> QED
    BY <2>1, <2>3 DEF OldTxsInv
<1>7. CASE SwitchPopped \/ SwitchConnected
  BY <1>3, <1>7 DEF SwitchPopped, SwitchConnected, Switching, chainvars, poolvars
<1>8. CASE SwitchPush \/ SwitchPushOrphaned
  <2>1. /\ Switching /\ db' = db /\ pool' = pool /\ old' = Tail(old) /\ old \in Seq(Block) /\ old # <<>>
    BY <1>1, <1>8 DEF SwitchPush, SwitchPushOrphaned, Switching, chainvars, poolvars, TypeOK
  <2>2. Range(old') \subseteq Range(old)
    <3>1. old' \in Seq(Block) /\ Len(old') = Len(old) - 1 /\ \A i \in 1 .. Len(old) - 1 : old'[i] = old[i + 1]
      BY <2>1
    <3>2. Range(old') = {old'[i] : i \in 1 .. Len(old')}
      BY <3>1 DEF Range
    <3>3. \A i \in 1 .. Len(old') : i + 1 \in 1 .. Len(old)
      BY <2>1, <3>1
    <3> QED
      BY <3>1, <3>2, <3>3 DEF Range
  <2> QED
    BY <1>3, <2>1, <2>2 DEF TxsInAll
<1>9. ASSUME Adds PROVE OldTxsInv'
  <2>1. ASSUME NEW b \in Block, AddToMain(b) \/ AltRefused(b) \/ AltKept(b) \/ BackThrows(b)
        PROVE  ~Switching'
    BY <2>1 DEF AddToMain, AltRefused, AltKept, BackThrows, Goto, Return, Switching
  <2>2. ASSUME MainAccepted \/ MainRefused \/ SwitchRefused \/ SwitchPushRefused \/ SwitchDone
               \/ Commit \/ Finalize
        PROVE  ~Switching'
    BY <2>2 DEF MainAccepted, MainRefused, SwitchRefused, SwitchPushRefused, SwitchDone,
               Commit, Finalize, Goto, Return, Switching
  <2>3. ASSUME NEW n \in 0 .. Cardinality(Tx), Exception(n)
        PROVE  ~Switching'
    BY <2>3 DEF Exception, Return, Switching
  <2> QED
    BY <1>2, <1>4, <1>5, <1>6, <1>7, <1>8, <1>9, <2>1, <2>2, <2>3 DEF Adds
<1>10. ASSUME Truncates PROVE ~Switching'
  BY <1>10 DEF Truncates, TruncateBegin, TruncatePop, TruncateEnd, TruncateNothing, Goto, Return, callvars, Switching
<1>11. ASSUME Environment PROVE OldTxsInv'
  <2>1. ASSUME Crash PROVE ~Switching'
    BY <2>1 DEF Crash, Return, Switching
  <2>2. ASSUME NEW S \in SUBSET Tx, RemoveStuck(S) PROVE ~Switching'
    BY <2>2 DEF RemoveStuck, Switching, callvars
  <2>3. ASSUME PurgeTransactions PROVE FALSE
    BY <2>3 DEF PurgeTransactions, NothingLost
  <2>4. ASSUME NEW r \in rx, AddTxInsert(r)
        PROVE  db' = db /\ old' = old /\ pool \subseteq pool' /\ phase' = phase
    BY <2>4 DEF AddTxInsert, chainvars, callvars
  <2>5. ASSUME ~Crash, \A S \in SUBSET Tx : ~RemoveStuck(S), ~PurgeTransactions, \A r \in rx : ~AddTxInsert(r)
        PROVE  UNCHANGED <<db, old, pool, phase>>
    BY <1>11, <2>5 DEF Environment, AddTxLookup, PruneAgedAltBlocks, ClearAltBlocks, SetClock,
       chainvars, poolvars, callvars
  <2>6. CASE db' = db /\ old' = old /\ pool \subseteq pool' /\ phase' = phase
    BY <1>2, <1>3, <2>6 DEF Switching
  <2> QED
    BY <1>2, <2>1, <2>2, <2>3, <2>4, <2>5, <2>6
<1>12. ASSUME UNCHANGED vars PROVE OldTxsInv'
  <2>1. UNCHANGED <<db, old, pool, phase>>
    BY <1>12 DEF vars, chainvars, poolvars, callvars
  <2> QED
    BY <1>2, <1>3, <2>1 DEF Switching
<1> QED
  BY <1>2, <1>9, <1>10, <1>11, <1>12 DEF SoundNext

(* What the main path accepts on top of a chain obeys the rules.           *)
LEMMA AcceptedObeys ==
    ASSUME SwitchRules, clock \in Clocks, NEW d, Good(d), ObeysRules(d),
           NEW b \in Block, handle_block_to_main_chain(d, b)
    PROVE  ObeysRules(push_block(d, b))
<1> DEFINE n == Len(d.blocks)
<1>1. /\ HeaderOk(d, b) /\ Height(b) > 0 /\ Prev(b) = Top(d)
      /\ \A i \in 1 .. Len(TxsOf[b]) : check_tx_inputs(d, b, i)
  BY DEF handle_block_to_main_chain, HeaderOk, TxOk
<1>2. b \in WellFormed
  BY <1>1 DEF HeaderOk, prevalidate_miner_transaction
<1>3. b \in Pos => \A c \in Clocks : Time[b] <= c + PosFutureLimit
  BY <1>1 DEF HeaderOk, check_block_timestamp_main, PosTimeOk, SwitchRules
<1>4. ASSUME NEW i \in 1 .. Len(TxsOf[b])
      PROVE  /\ KeysOf[TxsOf[b][i]] \cap
                  (StakeOf[b] \cup UNION {KeysOf[t] : t \in Earlier(b, i)}) = {}
             /\ Needs[TxsOf[b][i]] \subseteq AncestorTxs(b, Len(Path[b])) \cup Earlier(b, i)
  <2>1. KeysOf[TxsOf[b][i]] \cap SpentBefore(d, b, i) = {}
    BY <1>1 DEF check_tx_inputs
  <2>2. Needs[TxsOf[b][i]] \subseteq KnownBefore(d, b, i)
    BY <1>1 DEF check_tx_inputs
  <2>3. KnownBefore(d, b, i) = Stored(d) \cup Earlier(b, i)
    BY DEF KnownBefore, Stored
  <2>4. Stored(d) = AncestorTxs(b, Len(Path[b]))
    BY <1>1, AncestorFacts
  <2> QED
    BY <2>1, <2>2, <2>3, <2>4 DEF SpentBefore
<1>5. OwnRulesOk(b)
  BY <1>2, <1>3, <1>4 DEF OwnRulesOk
<1>6. /\ n \in Nat \ {0} /\ Len(push_block(d, b).blocks) = n + 1
      /\ \A i \in 1 .. n : push_block(d, b).blocks[i] = d.blocks[i]
      /\ push_block(d, b).blocks[n + 1] = b
  BY PushFacts, GoodFacts
<1>7. ASSUME NEW i \in 2 .. n + 1 PROVE OwnRulesOk(push_block(d, b).blocks[i])
  <2>1. CASE i = n + 1
    BY <1>5, <1>6, <2>1
  <2>2. CASE i # n + 1
    <3>1. i \in 1 .. n /\ i \in 2 .. n
      BY <1>6, <2>2
    <3> QED
      BY <1>6, <3>1 DEF ObeysRules
  <2> QED
    BY <2>1, <2>2
<1> QED
  BY <1>6, <1>7 DEF ObeysRules

(* A block less, and the rest does.                                        *)
LEMMA PoppedObeys ==
    ASSUME NEW d, Good(d), Len(d.blocks) > 1, ObeysRules(d)
    PROVE  ObeysRules(pop_block(d))
<1>1. /\ Len(d.blocks) \in Nat /\ Len(pop_block(d).blocks) = Len(d.blocks) - 1
      /\ \A i \in 1 .. Len(d.blocks) - 1 : pop_block(d).blocks[i] = d.blocks[i]
  BY PopFacts, GoodFacts
<1>2. \A i \in 2 .. Len(d.blocks) - 1 : i \in 1 .. Len(d.blocks) - 1 /\ i \in 2 .. Len(d.blocks)
  BY <1>1
<1> QED
  BY <1>1, <1>2 DEF ObeysRules

LEMMA RulesStep ==
    ASSUME SwitchRules, Sound, ShapeInv, RulesInv, SoundNext
    PROVE  RulesInv'
<1>1. TypeOK /\ Good(db) /\ Good(saved) /\ PhaseInv /\ clock \in Clocks /\ ObeysRules(db) /\ ObeysRules(saved)
  BY DEF Sound, TypeOK, RulesInv
<1>2. CASE db' \in {db, saved} /\ saved' \in {db, saved}
  BY <1>1, <1>2 DEF RulesInv, ObeysRules
<1>3. CASE MainAccepted
  <2>1. cur \in Block /\ db' = push_block(db, cur) /\ saved' = saved /\ handle_block_to_main_chain(db, cur)
    BY <1>1, <1>3 DEF MainAccepted, PhaseInv, Seen
  <2>2. ObeysRules(push_block(db, cur))
    BY <1>1, <2>1, AcceptedObeys
  <2> QED
    BY <1>1, <2>1, <2>2 DEF RulesInv, ObeysRules
<1>4. CASE SwitchConnect
  <2>1. chain[at + 1] \in Block
    BY <1>4, NextOnTop DEF SwitchConnect
  <2>2. db' = push_block(db, chain[at + 1]) /\ saved' = saved /\ handle_block_to_main_chain(db, chain[at + 1])
    BY <1>4 DEF SwitchConnect
  <2>3. ObeysRules(push_block(db, chain[at + 1]))
    BY <1>1, <2>1, <2>2, AcceptedObeys
  <2> QED
    BY <1>1, <2>2, <2>3 DEF RulesInv, ObeysRules
<1>5. CASE SwitchPop
  <2>1. db' = pop_block(db) /\ saved' = saved /\ Len(db.blocks) > SplitHeight /\ Switching
    BY <1>5 DEF SwitchPop, Switching
  <2>2. Len(db.blocks) > 1
    <3>1. SwitchPath
      BY <2>1 DEF ShapeInv
    <3> QED
      BY <1>1, <2>1, <3>1, GoodFacts DEF SwitchPath
  <2>3. ObeysRules(pop_block(db))
    BY <1>1, <2>2, PoppedObeys
  <2> QED
    BY <1>1, <2>1, <2>3 DEF RulesInv, ObeysRules
<1>6. CASE TruncatePop
  <2>1. db' = pop_block(db) /\ saved' = saved /\ Len(db.blocks) > at /\ at \in Nat \ {0}
    BY <1>1, <1>6 DEF TruncatePop, PhaseInv, TypeOK
  <2>2. Len(db.blocks) > 1
    BY <1>1, <2>1, GoodFacts
  <2>3. ObeysRules(pop_block(db))
    BY <1>1, <2>2, PoppedObeys
  <2> QED
    BY <1>1, <2>1, <2>3 DEF RulesInv, ObeysRules
<1>7. ASSUME Adds PROVE RulesInv'
  <2>1. ASSUME NEW b \in Block, AddToMain(b) \/ AltRefused(b) \/ AltKept(b) \/ AltSwitch(b)
               \/ BackThrows(b)
        PROVE  db' = db /\ saved' = saved
    BY <2>1 DEF AddToMain, AltRefused, AltKept, AltSwitch, BackThrows, chainvars
  <2>2. ASSUME MainRefused \/ SwitchPopped \/ SwitchRefused \/ SwitchConnected \/ SwitchPush
               \/ SwitchPushOrphaned \/ SwitchPushRefused \/ SwitchDone \/ Commit \/ Finalize
        PROVE  db' \in {db, saved} /\ saved' \in {db, saved}
    BY <2>2 DEF MainRefused, SwitchPopped, SwitchRefused, SwitchConnected, SwitchPush, SwitchPushOrphaned,
               SwitchPushRefused, SwitchDone, Commit, Finalize, AbortTransaction, chainvars
  <2>3. ASSUME NEW n \in 0 .. Cardinality(Tx), Exception(n)
        PROVE  db' = saved /\ saved' = saved
    BY <2>3 DEF Exception, AbortTransaction
  <2> QED
    BY <1>2, <1>3, <1>4, <1>5, <1>7, <2>1, <2>2, <2>3 DEF Adds
<1>8. ASSUME Truncates PROVE RulesInv'
  <2>1. ASSUME \E h \in 1 .. Len(db.blocks) : TruncateBegin(h)
        PROVE  db' = db /\ saved' = saved
    BY <2>1 DEF TruncateBegin, chainvars
  <2>2. ASSUME TruncateEnd \/ TruncateNothing
        PROVE  db' = db /\ saved' \in {db, saved}
    BY <2>2 DEF TruncateEnd, TruncateNothing, chainvars
  <2> QED
    BY <1>2, <1>6, <1>8, <2>1, <2>2 DEF Truncates
<1>9. ASSUME Environment PROVE db' \in {db, saved} /\ saved' \in {db, saved}
  BY <1>9 DEF Environment, AddTxLookup, AddTxInsert, RemoveStuck, PurgeTransactions, PruneAgedAltBlocks,
     ClearAltBlocks, SetClock, Crash, chainvars
<1>10. ASSUME UNCHANGED vars PROVE db' = db /\ saved' = saved
  BY <1>10 DEF vars, chainvars
<1> QED
  BY <1>2, <1>7, <1>8, <1>9, <1>10 DEF SoundNext

(* What is about to be reported as added is where it should be.            *)
LEMMA DoneStep ==
    ASSUME Sound, DoneInv, SoundNext
    PROVE  DoneInv'
<1>1. TypeOK /\ Good(db) /\ Good(saved) /\ PhaseInv
  BY DEF Sound
<1>2. CASE phase' \notin {"commit", "finalize"}
  BY <1>2 DEF DoneInv
<1>3. CASE UNCHANGED <<db, saved, phase, cur>>
  BY <1>3 DEF DoneInv, MainBlocks
<1>4. CASE MainAccepted
  <2>1. cur \in Block /\ db' = push_block(db, cur) /\ cur' = cur /\ phase' = "commit"
    BY <1>1, <1>4 DEF MainAccepted, PhaseInv, Goto
  <2>2. cur \in MainBlocks(push_block(db, cur))
    BY <1>1, <2>1, PushFacts
  <2> QED
    BY <2>1, <2>2 DEF DoneInv, MainBlocks
<1>5. CASE SwitchDone
  <2>1. SwitchInv /\ at = Len(chain) /\ UNCHANGED <<db, cur>> /\ phase' = "commit" /\ chain \in Seq(Block)
    BY <1>1, <1>5 DEF SwitchDone, PhaseInv, Goto, chainvars, TypeOK
  <2>2. cur \in MainBlocks(db)
    <3>1. Len(chain) \in 1 .. at /\ chain[Len(chain)] = cur
      BY <2>1 DEF SwitchInv
    <3> QED
      BY <2>1, <3>1 DEF SwitchInv
  <2> QED
    BY <2>1, <2>2 DEF DoneInv, MainBlocks
<1>6. CASE Commit
  BY <1>6 DEF Commit, Goto, DoneInv, MainBlocks
<1>7. ASSUME Adds PROVE DoneInv'
  <2>1. ASSUME NEW b \in Block, AddToMain(b) \/ AltRefused(b) \/ AltKept(b) \/ AltSwitch(b)
               \/ BackThrows(b)
        PROVE  phase' \notin {"commit", "finalize"}
    BY <2>1 DEF AddToMain, AltRefused, AltKept, AltSwitch, BackThrows, Goto, Return
  <2>2. ASSUME MainRefused \/ SwitchPop \/ SwitchPopped \/ SwitchConnect \/ SwitchRefused \/ SwitchConnected
               \/ SwitchPush \/ SwitchPushOrphaned \/ SwitchPushRefused \/ Finalize
        PROVE  phase' \notin {"commit", "finalize"}
    BY <2>2 DEF MainRefused, SwitchPop, SwitchPopped, SwitchConnect, SwitchRefused, SwitchConnected, SwitchPush,
               SwitchPushOrphaned, SwitchPushRefused, Finalize, Goto, Return
  <2>3. ASSUME NEW n \in 0 .. Cardinality(Tx), Exception(n)
        PROVE  phase' \notin {"commit", "finalize"}
    BY <2>3 DEF Exception, Return
  <2> QED
    BY <1>2, <1>4, <1>5, <1>6, <1>7, <2>1, <2>2, <2>3 DEF Adds
<1>8. ASSUME Truncates PROVE phase' \notin {"commit", "finalize"}
  BY <1>8 DEF Truncates, TruncateBegin, TruncatePop, TruncateEnd, TruncateNothing, Goto, Return, callvars
<1>9. ASSUME Environment PROVE DoneInv'
  <2>1. ASSUME Crash PROVE phase' \notin {"commit", "finalize"}
    BY <2>1 DEF Crash, Return
  <2>2. ASSUME ~Crash PROVE UNCHANGED <<db, saved, phase, cur>>
    BY <1>9, <2>2 DEF Environment, AddTxLookup, AddTxInsert, RemoveStuck, PurgeTransactions, PruneAgedAltBlocks,
       ClearAltBlocks, SetClock, chainvars, callvars
  <2> QED
    BY <1>2, <1>3, <2>1, <2>2
<1>10. ASSUME UNCHANGED vars PROVE UNCHANGED <<db, saved, phase, cur>>
  BY <1>10 DEF vars, chainvars, callvars
<1> QED
  BY <1>2, <1>3, <1>7, <1>8, <1>9, <1>10 DEF SoundNext

LEMMA AddedInitially == Init => AddedInv
<1> SUFFICES ASSUME Init PROVE AddedInv
  OBVIOUS
<1>1. db = EmptyDb /\ saved = EmptyDb /\ alt = {} /\ phase = "idle" /\ bare = {}
      /\ \A k \in KeyImage : alt_ki[k] = {}
  BY DEF Init
<1>2. Len(EmptyDb.blocks) = 1
  BY DEF EmptyDb
<1>3. RulesInv
  BY <1>1, <1>2 DEF RulesInv, ObeysRules
<1>4. Remembered = {}
  BY <1>1 DEF Remembered
<1>5. MemoryInv
  BY <1>1, <1>4 DEF MemoryInv, Switching
<1> QED
  BY <1>1, <1>3, <1>5 DEF AddedInv, PushedInv, OldTxsInv, DoneInv, Switching

LEMMA AddedStep ==
    ASSUME SwitchRules, NothingLost, Sound, ShapeInv, PreferredInv, AddedInv, SoundNext
    PROVE  AddedInv'
<1>1. bare' = {}
  BY BareStep DEF AddedInv, SwitchRules
<1>2. RulesInv' /\ DoneInv'
  BY RulesStep, DoneStep DEF AddedInv
<1>3. MemoryInv' /\ PushedInv' /\ OldTxsInv'
  BY MemoryStep, PushedStep, OldTxsStep DEF AddedInv
<1> QED
  BY <1>1, <1>2, <1>3 DEF AddedInv

(* A switch never reports a rolled back chain.                             *)
LEMMA NeverPushRefused ==
    ASSUME SwitchRules, Sound, ShapeInv, AddedInv
    PROVE  ~SwitchPushRefused
<1> SUFFICES ASSUME SwitchPushRefused PROVE FALSE
  OBVIOUS
<1>1. phase = "pushing" /\ old # <<>> /\ Range(chain) \subseteq alt
  BY DEF SwitchPushRefused, Alive
<1>2. chain \in Seq(Block) /\ chain # <<>>
  BY <1>1 DEF Sound, TypeOK, PhaseInv, SwitchInv
<1>3. chain[1] \in Range(chain)
  BY <1>2 DEF Range
<1> QED
  BY <1>1, <1>3, OldAccepted DEF SwitchPushRefused

LEMMA ReportedStep ==
    ASSUME SwitchRules, NothingLost, Sound, ShapeInv, AddedInv, SoundNext,
           added' # NoBlock, added' # added
    PROVE  added' \in MainBlocks(saved')
<1>1. CASE Finalize
  BY <1>1 DEF Finalize, Return, chainvars, AddedInv, DoneInv, MainBlocks
<1>2. ASSUME Adds, ~Finalize PROVE FALSE
  <2>1. ASSUME NEW b \in Block, AddToMain(b) \/ AltRefused(b) \/ AltKept(b) \/ AltSwitch(b)
               \/ BackThrows(b)
        PROVE  added' = NoBlock
    BY <2>1 DEF AddToMain, AltRefused, AltKept, AltSwitch, BackThrows, Return
  <2>2. ASSUME MainAccepted \/ SwitchPop \/ SwitchPopped \/ SwitchConnect \/ SwitchConnected
               \/ SwitchPush \/ SwitchPushOrphaned \/ SwitchDone \/ Commit
        PROVE  added' = added
    BY <2>2 DEF MainAccepted, SwitchPop, SwitchPopped, SwitchConnect, SwitchConnected, SwitchPush,
               SwitchPushOrphaned, SwitchDone, Commit
  <2>3. ASSUME MainRefused \/ SwitchRefused
        PROVE  added' = NoBlock
    BY <2>3 DEF MainRefused, SwitchRefused, Return
  <2>4. ASSUME NEW n \in 0 .. Cardinality(Tx), Exception(n)
        PROVE  added' = NoBlock
    BY <2>4 DEF Exception, Return
  <2> QED
    BY <1>2, <2>1, <2>2, <2>3, <2>4, NeverPushRefused DEF Adds
<1>3. ASSUME Truncates PROVE FALSE
  BY <1>3 DEF Truncates, TruncateBegin, TruncatePop, TruncateEnd, TruncateNothing, callvars, Return
<1>4. ASSUME Environment PROVE FALSE
  <2>1. ASSUME Crash PROVE added' = NoBlock
    BY <2>1 DEF Crash, Return
  <2>2. ASSUME ~Crash PROVE added' = added
    BY <1>4, <2>2 DEF Environment, AddTxLookup, AddTxInsert, RemoveStuck, PurgeTransactions, PruneAgedAltBlocks,
       ClearAltBlocks, SetClock, callvars
  <2> QED
    BY <2>1, <2>2
<1>5. ASSUME UNCHANGED vars PROVE added' = added
  BY <1>5 DEF vars, callvars
<1> QED
  BY <1>1, <1>2, <1>3, <1>4, <1>5 DEF SoundNext

(* So is a block that was written over another.                            *)
LEMMA ReportedAstray ==
    ASSUME Sound, GoesAstray, added' # NoBlock, added' # added
    PROVE  added' \in MainBlocks(saved')
<1>1. MainOverwrites
  BY DEF GoesAstray, AltSwitchAstray, TruncateAstray, callvars
<1>2. Short /\ cur \in Block /\ stale \in Nat /\ Good(db) /\ db = saved
  BY <1>1 DEF MainOverwrites, Sound, TypeOK, PhaseInv
<1>3. db.blocks \in Seq(Block) /\ Len(db.blocks) \in Nat /\ stale + 1 \in 1 .. Len(db.blocks)
  BY <1>2, GoodFacts DEF Short
<1>4. saved'.blocks = [db.blocks EXCEPT ![stale + 1] = cur] /\ added' = cur
  BY <1>1 DEF MainOverwrites
<1>5. saved'.blocks[stale + 1] = cur /\ stale + 1 \in DOMAIN saved'.blocks
  BY <1>3, <1>4
<1> QED
  BY <1>4, <1>5 DEF MainBlocks, Range

(* switch_to_alternative_blockchain does not return false when one of the  *)
(* disconnected blocks is refused as an alternative one, although what it  *)
(* has done is rolled back then: the caller is told that the block was     *)
(* added to the main chain.  That never happens.  Whatever blocks compete, *)
(* whatever is pruned or cleared meanwhile, wherever the process dies:     *)
(* a block reported as added is in the committed chain.                    *)
THEOREM AddedAlwaysStored ==
    ASSUME SwitchRules, NothingLost
    PROVE  Spec => AddedIsStored
<1>1. Init => PreferredInv /\ AddedInv
  BY AddedInitially DEF Init, PreferredInv
<1>2. IInv /\ (Sound => ShapeInv) /\ (Sound => PreferredInv /\ AddedInv) /\ [Next]_vars
        => (Sound => PreferredInv /\ AddedInv)'
  BY NotAstray, PreferredStep, AddedStep DEF NothingLost
<1>3. IInv /\ (Sound => ShapeInv) /\ (Sound => PreferredInv /\ AddedInv) /\ [Next]_vars
        => [added' # NoBlock /\ added' # added => added' \in MainBlocks(saved')]_vars
  <2> SUFFICES ASSUME IInv, Sound => ShapeInv /\ AddedInv, [Next]_vars, added' # NoBlock, added' # added
               PROVE  added' \in MainBlocks(saved')
    OBVIOUS
  <2>1. CASE Sound
    BY <2>1, SoundSteps, ReportedStep, ReportedAstray
  <2>2. CASE Stray
    <3>1. UNCHANGED vars \/ SideStep
      BY <2>2, StrayStays
    <3>2. added' = added
      BY <3>1 DEF vars, SideStep, AddTxLookup, AddTxInsert, RemoveStuck, PurgeTransactions,
         PruneAgedAltBlocks, ClearAltBlocks, SetClock, callvars
    <3> QED
      BY <3>2
  <2> QED
    BY <2>1, <2>2 DEF IInv
<1> QED
  BY <1>1, <1>2, <1>3, ShapeInvariance, PTL DEF Spec, AddedIsStored
=============================================================================
