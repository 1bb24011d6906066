-------------------------- MODULE Blockchain_proofs --------------------------
(***************************************************************************)
(* Theorems about Blockchain, for every tree of blocks, every pool, every  *)
(* clock and every choice of the events.  The inductive invariant IInv is  *)
(* Sound of a node that is not astray: in addition to the properties, what *)
(* add_new_block knows in each of its phases and how long an abort leaves  *)
(* a wrong size behind (PhaseInv), that the chain is a path of the tree    *)
(* (Linked) which obeys the checkpoints, and how m_taken_txs covers the    *)
(* blocks that are not committed yet (TakenInv, LookupInv).  Of a node     *)
(* that is astray little is left (Stray).                                  *)
(***************************************************************************)
EXTENDS Blockchain, FiniteSetTheorems, SequenceTheorems, WellFoundedInduction, TLAPS

(* The chain is the path of the tree that leads to its top block.          *)
Linked(d) ==
    \A i \in 1 .. Len(d.blocks) :
        /\ Len(Path[d.blocks[i]]) = i
        /\ \A j \in 1 .. i : Path[d.blocks[i]][j] = d.blocks[j]

Checkpointed(d) == \A i \in 1 .. Len(d.blocks) : CheckpointOk(i - 1, d.blocks[i])

Good(d) == d \in Storage /\ Consistent(d) /\ Linked(d) /\ Checkpointed(d)

(* What a block may do to the committed chain.                             *)
ExtendsTop(b) == b \in Block /\ Height(b) > 0 /\ Prev(b) = Top(saved)
TakesOver(b) ==
    /\ b \in Block /\ is_reorganize_required(Top(saved), b)
    /\ ~is_height_passed_zone(Height(b), TopHeight(saved))

SwitchInv ==
    /\ TakesOver(cur)
    /\ chain # <<>> /\ chain[Len(chain)] = cur
    /\ at <= Len(chain)
    /\ Height(chain[1]) >= 1
    /\ at > 0 => Top(db) = chain[at]
    /\ \A i \in 1 .. at : chain[i] \in MainBlocks(db)

PhaseInv ==
    /\ phase # "astray"
    /\ phase \in {"idle", "main", "finalize"} => db = saved
    /\ stale # Absent => stale # Len(saved.blocks) /\ stale > 0 /\ phase \in {"idle", "main"}
    /\ phase = "main" => cur \in Block /\ (stale = Absent \/ Short) /\ (stale = Absent => ExtendsTop(cur))
    /\ phase \in {"popping", "connecting", "pushing"} => SwitchInv
    /\ phase = "popping" => at = 0
    /\ phase = "pushing" => at = Len(chain)
    /\ phase = "commit" => ExtendsTop(Top(db)) \/ TakesOver(Top(db))
    /\ phase = "truncating" => at >= 1

(* What only the writer's chain has is in m_taken_txs.                     *)
TakenInv == \A t \in Tx : db.txs[t] # Absent /\ saved.txs[t] = Absent => t \in taken

(* A transaction that is about to be inserted is nowhere.                  *)
LookupInv ==
    \A r \in rx : ~r.known =>
        saved.txs[r.tx] = Absent /\ db.txs[r.tx] = Absent /\ r.tx \notin pool

AltInv == IsFiniteSet(alt) /\ AltTxsCounted

Sound ==
    /\ TypeOK /\ Good(db) /\ Good(saved)
    /\ AltInv /\ PhaseInv /\ TakenInv /\ LookupInv

Stray == phase = "astray" /\ TypeOK /\ AltInv /\ db = saved

IInv == Sound \/ Stray

-----------------------------------------------------------------------------
(* The tree of blocks *)

(* The path to a block of the path is a prefix of it.                      *)
LEMMA PathFacts ==
    ASSUME NEW b \in Block
    PROVE  /\ Path[b] \in Seq(Block) /\ Len(Path[b]) \in Nat \ {0} /\ Path[b][Len(Path[b])] = b
           /\ \A i \in 1 .. Len(Path[b]) :
                /\ Path[b][i] \in Block /\ Len(Path[Path[b][i]]) = i
                /\ \A j \in 1 .. i : Path[Path[b][i]][j] = Path[b][j]
BY PathAssumption

(* The genesis block exists and carries no transactions.                   *)
LEMMA GenesisFacts ==
    /\ Genesis \in Block /\ Len(Path[Genesis]) = 1
    /\ TxsIn(Genesis) = {} /\ KeysIn(Genesis) = {}
<1>1. Genesis \in Block /\ Len(Path[Genesis]) = 1
  BY BlockAssumption DEF Genesis
<1>2. TxsOf[Genesis] = <<>> /\ StakeOf[Genesis] = {}
  BY <1>1, BlockAssumption
<1>3. TxsIn(Genesis) = {}
  BY <1>2 DEF TxsIn, Range
<1>4. KeysIn(Genesis) = {}
  BY <1>2, <1>3 DEF KeysIn
<1> QED
  BY <1>1, <1>3, <1>4

(* The transactions and the key images of a block.                         *)
LEMMA BlockFacts ==
    ASSUME NEW b \in Block
    PROVE  /\ TxsIn(b) \subseteq Tx /\ KeysIn(b) \subseteq KeyImage
           /\ TxsIn(b) = {TxsOf[b][i] : i \in 1 .. Len(TxsOf[b])}
           /\ Len(TxsOf[b]) \in Nat
<1>1. TxsOf[b] \in Seq(Tx)
  BY BlockAssumption
<1>2. TxsIn(b) = {TxsOf[b][i] : i \in 1 .. Len(TxsOf[b])}
  BY <1>1 DEF TxsIn, Range
<1>3. TxsIn(b) \subseteq Tx
  BY <1>1, <1>2
<1>4. KeysIn(b) \subseteq KeyImage
  BY <1>3, BlockAssumption DEF KeysIn
<1> QED
  BY <1>1, <1>2, <1>3, <1>4

-----------------------------------------------------------------------------
(* The storage *)

(* The empty storage is good.                                              *)
LEMMA EmptyGood == Good(EmptyDb)
<1>1. EmptyDb \in Storage
  BY GenesisFacts DEF EmptyDb, Storage, Absent
<1>2. EmptyDb.blocks = <<Genesis>> /\ Len(EmptyDb.blocks) = 1
  BY DEF EmptyDb
<1>3. Consistent(EmptyDb)
  BY <1>2, GenesisFacts DEF Consistent, EmptyDb, Absent
<1>4. Linked(EmptyDb)
  BY <1>2, GenesisFacts, PathFacts DEF Linked
<1>5. Checkpointed(EmptyDb)
  BY <1>2, CheckpointAssumption DEF Checkpointed, CheckpointOk, check_block
<1> QED
  BY <1>1, <1>3, <1>4, <1>5 DEF Good

(* What the fields of a good storage are.                                  *)
LEMMA GoodFacts ==
    ASSUME NEW d, Good(d)
    PROVE  /\ d.blocks \in Seq(Block) /\ Len(d.blocks) \in Nat \ {0}
           /\ d.spent \in [KeyImage -> Int] /\ d.txs \in [Tx -> Int]
           /\ d = [blocks |-> d.blocks, spent |-> d.spent, txs |-> d.txs]
           /\ Top(d) \in Block /\ Len(Path[Top(d)]) = Len(d.blocks)
           /\ MainBlocks(d) = {d.blocks[i] : i \in 1 .. Len(d.blocks)}
<1>1. /\ d.blocks \in Seq(Block) /\ d.spent \in [KeyImage -> Int] /\ d.txs \in [Tx -> Int]
      /\ d = [blocks |-> d.blocks, spent |-> d.spent, txs |-> d.txs]
  BY DEF Good, Storage
<1>2. d.blocks # <<>>
  BY DEF Good, Consistent
<1>3. Len(d.blocks) \in Nat \ {0}
  BY <1>1, <1>2
<1>4. Top(d) \in Block
  BY <1>1, <1>3 DEF Top
<1>5. Len(Path[Top(d)]) = Len(d.blocks)
  BY <1>3 DEF Good, Linked, Top
<1>6. MainBlocks(d) = {d.blocks[i] : i \in 1 .. Len(d.blocks)}
  BY <1>1, SMTT(30) DEF MainBlocks, Range
<1> QED
  BY <1>1, <1>3, <1>4, <1>5, <1>6

(* A block that handle_block_to_main_chain accepts brings nothing that the *)
(* chain has already, and all of its transactions come from the pool.      *)
LEMMA AcceptedIsNew ==
    ASSUME NEW d, NEW b \in Block, handle_block_to_main_chain(d, b)
    PROVE  /\ Height(b) > 0 /\ Prev(b) = Top(d) /\ CheckpointOk(Len(d.blocks), b)
           /\ \A k \in KeysIn(b) : d.spent[k] = Absent
           /\ \A t \in TxsIn(b) : d.txs[t] = Absent /\ t \in pool
<1>1. HeaderOk(d, b) /\ \A i \in 1 .. Len(TxsOf[b]) : TxOk(d, b, i)
  BY DEF handle_block_to_main_chain
<1>2. Height(b) > 0 /\ Prev(b) = Top(d) /\ CheckpointOk(Len(d.blocks), b)
  BY <1>1 DEF HeaderOk
<1>3. ASSUME NEW t \in TxsIn(b)
      PROVE  d.txs[t] = Absent /\ t \in pool /\ \A k \in KeysOf[t] : d.spent[k] = Absent
  <2>1. PICK i \in 1 .. Len(TxsOf[b]) : t = TxsOf[b][i]
    BY <1>3, BlockFacts
  <2>2. take_tx(b, i) /\ check_tx_inputs(d, b, i) /\ add_transaction_from_block(d, b, i)
    BY <1>1, <2>1 DEF TxOk
  <2>3. t \in pool
    BY <2>1, <2>2 DEF take_tx
  <2>4. d.txs[t] = Absent
    BY <2>1, <2>2, BlockFacts DEF add_transaction_from_block, KnownBefore
  <2>5. KeysOf[t] \subseteq KeyImage
    BY BlockFacts, BlockAssumption
  <2>6. KeysOf[t] \cap SpentBefore(d, b, i) = {}
    BY <2>1, <2>2 DEF check_tx_inputs
  <2>7. \A k \in KeysOf[t] : d.spent[k] = Absent
    BY <2>5, <2>6 DEF SpentBefore
  <2> QED
    BY <2>3, <2>4, <2>7
<1>4. \A k \in StakeOf[b] : d.spent[k] = Absent
  BY <1>1 DEF HeaderOk, validate_pos_block
<1>5. \A k \in KeysIn(b) : d.spent[k] = Absent
  BY <1>3, <1>4 DEF KeysIn
<1> QED
  BY <1>2, <1>3, <1>5

(* What push_block does.                                                   *)
LEMMA PushFacts ==
    ASSUME NEW d, Good(d), NEW b \in Block
    PROVE  LET e == push_block(d, b)  n == Len(d.blocks) IN
           /\ e \in Storage /\ Len(e.blocks) = n + 1 /\ Top(e) = b
           /\ \A i \in 1 .. n : e.blocks[i] = d.blocks[i]
           /\ e.blocks[n + 1] = b
           /\ \A k \in KeyImage : e.spent[k] = IF k \in KeysIn(b) THEN n ELSE d.spent[k]
           /\ \A t \in Tx : e.txs[t] = IF t \in TxsIn(b) THEN n ELSE d.txs[t]
           /\ MainBlocks(e) = MainBlocks(d) \cup {b}
<1> DEFINE e == push_block(d, b)
           n == Len(d.blocks)
<1>1. /\ d.blocks \in Seq(Block) /\ n \in Nat \ {0}
      /\ d.spent \in [KeyImage -> Int] /\ d.txs \in [Tx -> Int]
  BY GoodFacts
<1>2. e.blocks = Append(d.blocks, b)
  BY DEF push_block
<1>3. /\ e.blocks \in Seq(Block) /\ Len(e.blocks) = n + 1
      /\ \A i \in 1 .. n : e.blocks[i] = d.blocks[i]
      /\ e.blocks[n + 1] = b
  BY <1>1, <1>2
<1>4. /\ \A k \in KeyImage : e.spent[k] = IF k \in KeysIn(b) THEN n ELSE d.spent[k]
      /\ e.spent \in [KeyImage -> Int]
  BY <1>1 DEF push_block, Spend
<1>5. /\ \A t \in Tx : e.txs[t] = IF t \in TxsIn(b) THEN n ELSE d.txs[t]
      /\ e.txs \in [Tx -> Int]
  BY <1>1 DEF push_block, Store
<1>6. e \in Storage
  BY <1>3, <1>4, <1>5 DEF Storage, push_block
<1>7. Top(e) = b
  BY <1>1, <1>3 DEF Top
<1>8. MainBlocks(d) = {d.blocks[i] : i \in 1 .. n}
  BY GoodFacts
<1>9. MainBlocks(e) = {e.blocks[i] : i \in 1 .. n + 1}
  BY <1>3 DEF MainBlocks, Range
<1>10. MainBlocks(e) = MainBlocks(d) \cup {b}
  BY <1>1, <1>3, <1>8, <1>9, SMTT(30)
<1> HIDE DEF e, n
<1> QED
  BY <1>3, <1>4, <1>5, <1>6, <1>7, <1>10 DEF e, n

(* Adding an accepted block keeps the storage good.                        *)
LEMMA PushGood ==
    ASSUME NEW d, Good(d), NEW b \in Block, handle_block_to_main_chain(d, b)
    PROVE  Good(push_block(d, b))
<1> DEFINE e == push_block(d, b)
           n == Len(d.blocks)
<1>1. /\ n \in Nat \ {0} /\ d.blocks \in Seq(Block)
      /\ d.spent \in [KeyImage -> Int] /\ d.txs \in [Tx -> Int]
      /\ Top(d) \in Block /\ Len(Path[Top(d)]) = n
  BY GoodFacts
<1>2. /\ e \in Storage /\ Len(e.blocks) = n + 1
      /\ \A i \in 1 .. n : e.blocks[i] = d.blocks[i]
      /\ e.blocks[n + 1] = b
      /\ \A k \in KeyImage : e.spent[k] = IF k \in KeysIn(b) THEN n ELSE d.spent[k]
      /\ \A t \in Tx : e.txs[t] = IF t \in TxsIn(b) THEN n ELSE d.txs[t]
  BY PushFacts
<1>3. /\ Height(b) > 0 /\ Prev(b) = Top(d) /\ CheckpointOk(n, b)
      /\ \A k \in KeysIn(b) : d.spent[k] = Absent
      /\ \A t \in TxsIn(b) : d.txs[t] = Absent
  BY AcceptedIsNew
<1>4. Consistent(d) /\ Linked(d) /\ Checkpointed(d)
  BY DEF Good
<1>5. Top(d) = d.blocks[n]
  BY DEF Top
<1>6. /\ Len(Path[b]) = n + 1
      /\ \A j \in 1 .. n : Path[b][j] = d.blocks[j]
      /\ Path[b][n + 1] = b
  <2>1. Len(Path[b]) \in Nat \ {0} /\ Len(Path[b]) > 1
    BY <1>3, PathFacts DEF Height
  <2>2. Len(Path[Prev(b)]) = Len(Path[b]) - 1
    BY <2>1, PathFacts DEF Prev
  <2>3. Len(Path[b]) = n + 1
    BY <1>1, <1>3, <2>1, <2>2
  <2>4. \A j \in 1 .. n : Path[Top(d)][j] = Path[b][j]
    <3>1. n \in 1 .. Len(Path[b]) /\ Path[b][n] = Top(d)
      BY <1>1, <1>3, <2>3 DEF Prev
    <3> QED
      BY <3>1, PathFacts
  <2>5. \A j \in 1 .. n : Path[Top(d)][j] = d.blocks[j]
    BY <1>1, <1>4, <1>5 DEF Linked
  <2> QED
    BY <2>3, <2>4, <2>5, PathFacts
<1> HIDE DEF e, n
<1>7. Consistent(e)
  <2>1. e.blocks # <<>> /\ e.blocks[1] = Genesis
    <3>1. d.blocks[1] = Genesis
      BY <1>4 DEF Consistent
    <3> QED
      BY <1>1, <1>2, <3>1
  <2>2. \A i \in 2 .. n + 1 : Len(Path[e.blocks[i]]) > 1 /\ Prev(e.blocks[i]) = e.blocks[i - 1]
    <3>1. \A i \in 2 .. n : Len(Path[d.blocks[i]]) > 1 /\ Prev(d.blocks[i]) = d.blocks[i - 1]
      BY <1>4 DEF Consistent, n
    <3>2. Len(Path[b]) > 1 /\ Prev(b) = e.blocks[n]
      BY <1>1, <1>2, <1>3, <1>5, <1>6
    <3>3. ASSUME NEW i \in 2 .. n
          PROVE  Len(Path[e.blocks[i]]) > 1 /\ Prev(e.blocks[i]) = e.blocks[i - 1]
      <4>1. i \in 1 .. n /\ i - 1 \in 1 .. n
        BY <1>1
      <4> QED
        BY <1>2, <3>1, <4>1
    <3>4. \A i \in 2 .. n + 1 : i \in 2 .. n \/ i = n + 1
      BY <1>1
    <3> QED
      BY <1>1, <1>2, <3>2, <3>3, <3>4
  <2>3. ASSUME NEW k \in KeyImage
        PROVE  /\ \A i \in 1 .. n + 1 : k \in KeysIn(e.blocks[i]) <=> e.spent[k] = i - 1
               /\ e.spent[k] = Absent \/ e.spent[k] + 1 \in 1 .. n + 1
    <3>1. /\ \A i \in 1 .. n : k \in KeysIn(d.blocks[i]) <=> d.spent[k] = i - 1
          /\ d.spent[k] = Absent \/ d.spent[k] + 1 \in 1 .. n
      BY <1>4 DEF Consistent, n
    <3>2. /\ d.spent[k] \in Int /\ (k \in KeysIn(b) => d.spent[k] = Absent)
          /\ e.spent[k] = IF k \in KeysIn(b) THEN n ELSE d.spent[k]
      BY <1>1, <1>2, <1>3
    <3>3. ASSUME NEW i \in 1 .. n + 1
          PROVE  k \in KeysIn(e.blocks[i]) <=> e.spent[k] = i - 1
      <4>1. CASE i = n + 1
        BY <1>1, <1>2, <3>1, <3>2, <4>1 DEF Absent
      <4>2. CASE i \in 1 .. n
        <5>1. k \in KeysIn(e.blocks[i]) <=> d.spent[k] = i - 1
          BY <1>2, <3>1, <4>2
        <5> QED
          BY <1>1, <3>2, <4>2, <5>1 DEF Absent
      <4> QED
        BY <1>1, <4>1, <4>2
    <3>4. e.spent[k] = Absent \/ e.spent[k] + 1 \in 1 .. n + 1
      BY <1>1, <3>1, <3>2
    <3> QED
      BY <3>3, <3>4
  <2>4. ASSUME NEW t \in Tx
        PROVE  /\ \A i \in 1 .. n + 1 : t \in TxsIn(e.blocks[i]) <=> e.txs[t] = i - 1
               /\ e.txs[t] = Absent \/ e.txs[t] + 1 \in 1 .. n + 1
    <3>1. /\ \A i \in 1 .. n : t \in TxsIn(d.blocks[i]) <=> d.txs[t] = i - 1
          /\ d.txs[t] = Absent \/ d.txs[t] + 1 \in 1 .. n
      BY <1>4 DEF Consistent, n
    <3>2. /\ d.txs[t] \in Int /\ (t \in TxsIn(b) => d.txs[t] = Absent)
          /\ e.txs[t] = IF t \in TxsIn(b) THEN n ELSE d.txs[t]
      BY <1>1, <1>2, <1>3
    <3>3. ASSUME NEW i \in 1 .. n + 1
          PROVE  t \in TxsIn(e.blocks[i]) <=> e.txs[t] = i - 1
      <4>1. CASE i = n + 1
        BY <1>1, <1>2, <3>1, <3>2, <4>1 DEF Absent
      <4>2. CASE i \in 1 .. n
        <5>1. t \in TxsIn(e.blocks[i]) <=> d.txs[t] = i - 1
          BY <1>2, <3>1, <4>2
        <5> QED
          BY <1>1, <3>2, <4>2, <5>1 DEF Absent
      <4> QED
        BY <1>1, <4>1, <4>2
    <3>4. e.txs[t] = Absent \/ e.txs[t] + 1 \in 1 .. n + 1
      BY <1>1, <3>1, <3>2
    <3> QED
      BY <3>3, <3>4
  <2> QED
    BY <1>2, <2>1, <2>2, <2>3, <2>4 DEF Consistent
<1>8. Linked(e)
  <2>1. \A i \in 1 .. n : Len(Path[d.blocks[i]]) = i /\ \A j \in 1 .. i : Path[d.blocks[i]][j] = d.blocks[j]
    BY <1>4 DEF Linked, n
  <2>2. ASSUME NEW i \in 1 .. n
        PROVE  Len(Path[e.blocks[i]]) = i /\ \A j \in 1 .. i : Path[e.blocks[i]][j] = e.blocks[j]
    <3>1. \A j \in 1 .. i : e.blocks[j] = d.blocks[j]
      BY <1>1, <1>2
    <3> QED
      BY <1>2, <2>1, <3>1
  <2>3. Len(Path[e.blocks[n + 1]]) = n + 1 /\ \A j \in 1 .. n + 1 : Path[e.blocks[n + 1]][j] = e.blocks[j]
    BY <1>1, <1>2, <1>6
  <2>4. \A i \in 1 .. n + 1 : i \in 1 .. n \/ i = n + 1
    BY <1>1
  <2> QED
    BY <1>2, <2>2, <2>3, <2>4 DEF Linked
<1>9. Checkpointed(e)
  <2>1. \A i \in 1 .. n : CheckpointOk(i - 1, d.blocks[i])
    BY <1>4 DEF Checkpointed, n
  <2> QED
    BY <1>1, <1>2, <1>3, <2>1 DEF Checkpointed
<1> QED
  BY <1>2, <1>7, <1>8, <1>9 DEF Good, e

(* What pop_block does.                                                    *)
LEMMA PopFacts ==
    ASSUME NEW d, Good(d), Len(d.blocks) > 1
    PROVE  LET e == pop_block(d)  n == Len(d.blocks) IN
           /\ e \in Storage /\ Len(e.blocks) = n - 1
           /\ \A i \in 1 .. n - 1 : e.blocks[i] = d.blocks[i]
           /\ \A k \in KeyImage : e.spent[k] = IF k \in KeysIn(Top(d)) THEN Absent ELSE d.spent[k]
           /\ \A t \in Tx : e.txs[t] = IF t \in TxsIn(Top(d)) THEN Absent ELSE d.txs[t]
<1> DEFINE e == pop_block(d)
           n == Len(d.blocks)
<1>1. /\ d.blocks \in Seq(Block) /\ n \in Nat /\ n > 1
      /\ d.spent \in [KeyImage -> Int] /\ d.txs \in [Tx -> Int]
  BY GoodFacts
<1>2. e.blocks = SubSeq(d.blocks, 1, n - 1)
  BY DEF pop_block
<1>3. /\ e.blocks \in Seq(Block) /\ Len(e.blocks) = n - 1
      /\ \A i \in 1 .. n - 1 : e.blocks[i] = d.blocks[i]
  BY <1>1, <1>2
<1>4. /\ \A k \in KeyImage : e.spent[k] = IF k \in KeysIn(Top(d)) THEN Absent ELSE d.spent[k]
      /\ e.spent \in [KeyImage -> Int]
  BY <1>1 DEF pop_block, purge_keyimages, Absent
<1>5. /\ \A t \in Tx : e.txs[t] = IF t \in TxsIn(Top(d)) THEN Absent ELSE d.txs[t]
      /\ e.txs \in [Tx -> Int]
  BY <1>1 DEF pop_block, purge_transactions_from_blockchain, Absent
<1>6. e \in Storage
  BY <1>3, <1>4, <1>5 DEF Storage, pop_block
<1> HIDE DEF e, n
<1> QED
  BY <1>3, <1>4, <1>5, <1>6 DEF e, n

(* Taking the top block away keeps the storage good.                       *)
LEMMA PopGood ==
    ASSUME NEW d, Good(d), Len(d.blocks) > 1
    PROVE  Good(pop_block(d))
<1> DEFINE e == pop_block(d)
           n == Len(d.blocks)
<1>1. /\ n \in Nat /\ n > 1 /\ d.spent \in [KeyImage -> Int] /\ d.txs \in [Tx -> Int]
  BY GoodFacts
<1>2. /\ e \in Storage /\ Len(e.blocks) = n - 1
      /\ \A i \in 1 .. n - 1 : e.blocks[i] = d.blocks[i]
      /\ \A k \in KeyImage : e.spent[k] = IF k \in KeysIn(d.blocks[n]) THEN Absent ELSE d.spent[k]
      /\ \A t \in Tx : e.txs[t] = IF t \in TxsIn(d.blocks[n]) THEN Absent ELSE d.txs[t]
  BY PopFacts DEF Top
<1>3. Consistent(d) /\ Linked(d) /\ Checkpointed(d)
  BY DEF Good
<1> HIDE DEF e, n
<1>4. Consistent(e)
  <2>1. e.blocks # <<>> /\ e.blocks[1] = Genesis
    <3>1. d.blocks[1] = Genesis
      BY <1>3 DEF Consistent
    <3>2. Len(e.blocks) >= 1
      BY <1>1, <1>2
    <3> QED
      BY <1>1, <1>2, <3>1, <3>2
  <2>2. \A i \in 2 .. n - 1 : Len(Path[e.blocks[i]]) > 1 /\ Prev(e.blocks[i]) = e.blocks[i - 1]
    <3>1. \A i \in 2 .. n : Len(Path[d.blocks[i]]) > 1 /\ Prev(d.blocks[i]) = d.blocks[i - 1]
      BY <1>3 DEF Consistent, n
    <3> SUFFICES ASSUME NEW i \in 2 .. n - 1
                 PROVE  Len(Path[e.blocks[i]]) > 1 /\ Prev(e.blocks[i]) = e.blocks[i - 1]
      OBVIOUS
    <3>2. i \in 2 .. n /\ i \in 1 .. n - 1 /\ i - 1 \in 1 .. n - 1
      BY <1>1
    <3> QED
      BY <1>2, <3>1, <3>2
  <2>3. ASSUME NEW k \in KeyImage
        PROVE  /\ \A i \in 1 .. n - 1 : k \in KeysIn(e.blocks[i]) <=> e.spent[k] = i - 1
               /\ e.spent[k] = Absent \/ e.spent[k] + 1 \in 1 .. n - 1
    <3>1. /\ \A i \in 1 .. n : k \in KeysIn(d.blocks[i]) <=> d.spent[k] = i - 1
          /\ d.spent[k] = Absent \/ d.spent[k] + 1 \in 1 .. n
      BY <1>3 DEF Consistent, n
    <3>2. /\ d.spent[k] \in Int
          /\ e.spent[k] = IF k \in KeysIn(d.blocks[n]) THEN Absent ELSE d.spent[k]
      BY <1>1, <1>2
    <3>3. k \in KeysIn(d.blocks[n]) <=> d.spent[k] = n - 1
      BY <1>1, <3>1
    <3>4. ASSUME NEW i \in 1 .. n - 1
          PROVE  k \in KeysIn(e.blocks[i]) <=> e.spent[k] = i - 1
      <4>1. k \in KeysIn(e.blocks[i]) <=> d.spent[k] = i - 1
        BY <1>1, <1>2, <3>1
      <4> QED
        BY <1>1, <3>2, <3>3, <4>1 DEF Absent
    <3>5. e.spent[k] = Absent \/ e.spent[k] + 1 \in 1 .. n - 1
      BY <1>1, <3>1, <3>2, <3>3
    <3> QED
      BY <3>4, <3>5
  <2>4. ASSUME NEW t \in Tx
        PROVE  /\ \A i \in 1 .. n - 1 : t \in TxsIn(e.blocks[i]) <=> e.txs[t] = i - 1
               /\ e.txs[t] = Absent \/ e.txs[t] + 1 \in 1 .. n - 1
    <3>1. /\ \A i \in 1 .. n : t \in TxsIn(d.blocks[i]) <=> d.txs[t] = i - 1
          /\ d.txs[t] = Absent \/ d.txs[t] + 1 \in 1 .. n
      BY <1>3 DEF Consistent, n
    <3>2. /\ d.txs[t] \in Int
          /\ e.txs[t] = IF t \in TxsIn(d.blocks[n]) THEN Absent ELSE d.txs[t]
      BY <1>1, <1>2
    <3>3. t \in TxsIn(d.blocks[n]) <=> d.txs[t] = n - 1
      BY <1>1, <3>1
    <3>4. ASSUME NEW i \in 1 .. n - 1
          PROVE  t \in TxsIn(e.blocks[i]) <=> e.txs[t] = i - 1
      <4>1. t \in TxsIn(e.blocks[i]) <=> d.txs[t] = i - 1
        BY <1>1, <1>2, <3>1
      <4> QED
        BY <1>1, <3>2, <3>3, <4>1 DEF Absent
    <3>5. e.txs[t] = Absent \/ e.txs[t] + 1 \in 1 .. n - 1
      BY <1>1, <3>1, <3>2, <3>3
    <3> QED
      BY <3>4, <3>5
  <2> QED
    BY <1>2, <2>1, <2>2, <2>3, <2>4 DEF Consistent
<1>5. Linked(e)
  <2>1. \A i \in 1 .. n : Len(Path[d.blocks[i]]) = i /\ \A j \in 1 .. i : Path[d.blocks[i]][j] = d.blocks[j]
    BY <1>3 DEF Linked, n
  <2>2. ASSUME NEW i \in 1 .. n - 1
        PROVE  Len(Path[e.blocks[i]]) = i /\ \A j \in 1 .. i : Path[e.blocks[i]][j] = e.blocks[j]
    <3>1. i \in 1 .. n /\ e.blocks[i] = d.blocks[i]
      BY <1>1, <1>2
    <3>2. \A j \in 1 .. i : e.blocks[j] = d.blocks[j]
      BY <1>1, <1>2
    <3> QED
      BY <2>1, <3>1, <3>2
  <2> QED
    BY <1>2, <2>2 DEF Linked
<1>6. Checkpointed(e)
  <2>1. \A i \in 1 .. n : CheckpointOk(i - 1, d.blocks[i])
    BY <1>3 DEF Checkpointed, n
  <2> QED
    BY <1>1, <1>2, <2>1 DEF Checkpointed
<1> QED
  BY <1>2, <1>4, <1>5, <1>6 DEF Good, e

-----------------------------------------------------------------------------
(* Alternative blocks *)

(* A set of numbers that is not empty has a least one.                     *)
LEMMA LeastNumber ==
    ASSUME NEW S \in SUBSET Nat, S # {}
    PROVE  \E x \in S : \A y \in S : x <= y
<1> DEFINE R == OpToRel(<, Nat)
<1>0. IsWellFoundedOn(R, Nat)
  BY NatLessThanWellFounded
<1> HIDE DEF R
<1>1. PICK x \in S : \A y \in S : ~(<<y, x>> \in R)
  BY <1>0, WFMin
<1>2. \A y \in S : <<y, x>> \in R <=> y < x
  BY DEF R, OpToRel
<1>3. \A y \in S : ~(y < x)
  BY <1>1, <1>2
<1>4. x \in Nat /\ \A y \in S : y \in Nat
  OBVIOUS
<1> QED
  BY <1>3, <1>4

(* Where build_alt_subchain stops.                                         *)
LEMMA FirstAltFacts ==
    ASSUME NEW b \in Block
    PROVE  /\ FirstAlt(b) \in 1 .. Len(Path[b])
           /\ \A j \in FirstAlt(b) .. Len(Path[b]) - 1 : Path[b][j] \in alt
<1> DEFINE n == Len(Path[b])
           S == {i \in 1 .. n : \A j \in i .. n - 1 : Path[b][j] \in alt}
<1>1. n \in Nat \ {0}
  BY PathFacts
<1>2. S \in SUBSET Nat /\ n \in S
  BY <1>1
<1>3. PICK i \in S : \A y \in S : i <= y
  BY <1>2, LeastNumber
<1>4. i > 1 => Path[b][i - 1] \notin alt
  <2> SUFFICES ASSUME i > 1, Path[b][i - 1] \in alt
               PROVE  FALSE
    OBVIOUS
  <2>1. i - 1 \in 1 .. n
    BY <1>1
  <2>2. \A j \in i - 1 .. n - 1 : j = i - 1 \/ j \in i .. n - 1
    BY <1>1
  <2>3. \A j \in i .. n - 1 : Path[b][j] \in alt
    BY <1>3
  <2>4. i - 1 \in S
    BY <2>1, <2>2, <2>3
  <2>5. i <= i - 1
    BY <1>3, <2>4
  <2> QED
    BY <1>1, <2>5
<1>5. \E f \in 1 .. n : (\A j \in f .. n - 1 : Path[b][j] \in alt) /\ (f > 1 => Path[b][f - 1] \notin alt)
  BY <1>3, <1>4
<1> QED
  BY <1>5 DEF FirstAlt

(* The chain of a switch ends with its block and begins above genesis.     *)
LEMMA AltChainFacts ==
    ASSUME NEW b \in Block, ConnectedToMain(b)
    PROVE  LET c == Append(build_alt_subchain(b), b) IN
           /\ c \in Seq(Block) /\ c # <<>> /\ c[Len(c)] = b
           /\ Height(c[1]) >= 1
<1> DEFINE n == Len(Path[b])
           f == FirstAlt(b)
           s == build_alt_subchain(b)
           c == Append(s, b)
<1>1. n \in Nat \ {0} /\ Path[b] \in Seq(Block) /\ Path[b][n] = b
  BY PathFacts
<1>2. f \in 1 .. n
  BY FirstAltFacts
<1>3. f >= 2
  BY <1>1, <1>2 DEF ConnectedToMain, split_height
<1>4. s = SubSeq(Path[b], f, n - 1)
  BY DEF build_alt_subchain
<1>5. s \in Seq(Block) /\ Len(s) = n - f /\ (n > f => s[1] = Path[b][f])
  BY <1>1, <1>2, <1>4
<1> HIDE DEF s
<1>6. c \in Seq(Block) /\ c # <<>> /\ c[Len(c)] = b
  BY <1>5
<1>7. c[1] = Path[b][f]
  <2>1. CASE n > f
    BY <1>1, <1>2, <1>5, <2>1
  <2>2. CASE n = f
    BY <1>1, <1>2, <1>5, <2>2
  <2> QED
    BY <1>1, <1>2, <2>1, <2>2
<1>8. Len(Path[c[1]]) = f
  BY <1>2, <1>7, PathFacts
<1>9. Height(c[1]) >= 1
  BY <1>1, <1>2, <1>3, <1>8 DEF Height
<1> QED
  BY <1>6, <1>9 DEF s

(* Adding a block to m_alternative_chains keeps the counters right.        *)
LEMMA AddAltKeeps ==
    ASSUME TypeOK, AltInv, NEW b \in Block, b \notin alt, add_alt_block(b)
    PROVE  /\ alt' \subseteq Block /\ alt_ki' \in [KeyImage -> SUBSET Block]
           /\ alt_txs' \in [Tx -> Nat] /\ AltInv'
<1>1. alt' = alt \cup {b} /\ alt' \subseteq Block
  BY DEF TypeOK, add_alt_block
<1>2. alt_ki' \in [KeyImage -> SUBSET Block]
  BY DEF TypeOK, add_alt_block
<1>3. alt_txs' \in [Tx -> Nat]
  BY DEF TypeOK, add_alt_block
<1>4. IsFiniteSet(alt) /\ IsFiniteSet(alt')
  BY <1>1, FS_AddElement DEF AltInv
<1>5. ASSUME NEW t \in Tx
      PROVE  alt_txs'[t] = Cardinality({a \in alt' : t \in TxsIn(a)})
  <2> DEFINE A == {a \in alt : t \in TxsIn(a)}
             B == {a \in alt' : t \in TxsIn(a)}
  <2>1. IsFiniteSet(A) /\ b \notin A
    BY <1>4, FS_Subset
  <2>2. alt_txs[t] = Cardinality(A)
    BY DEF AltInv, AltTxsCounted
  <2>3. alt_txs'[t] = IF t \in TxsIn(b) THEN alt_txs[t] + 1 ELSE alt_txs[t]
    BY DEF add_alt_block
  <2>4. CASE t \in TxsIn(b)
    <3>1. B = A \cup {b}
      BY <1>1, <2>4
    <3>2. Cardinality(A \cup {b}) = Cardinality(A) + 1
      BY <2>1, FS_AddElement
    <3> QED
      BY <2>2, <2>3, <2>4, <3>1, <3>2
  <2>5. CASE t \notin TxsIn(b)
    <3>1. B = A
      BY <1>1, <2>5
    <3> QED
      BY <2>2, <2>3, <2>5, <3>1
  <2> QED
    BY <2>4, <2>5
<1> QED
  BY <1>1, <1>2, <1>3, <1>4, <1>5 DEF AltInv, AltTxsCounted

(* So does erasing some of them.                                           *)
LEMMA EraseAltKeeps ==
    ASSUME TypeOK, AltInv, NEW S \in SUBSET alt, NEW F, do_erase_altblocks(S, F)
    PROVE  /\ alt' \subseteq Block /\ alt_ki' \in [KeyImage -> SUBSET Block]
           /\ alt_txs' \in [Tx -> Nat] /\ AltInv'
<1>1. alt' = alt \ S /\ alt' \subseteq Block
  BY DEF TypeOK, do_erase_altblocks
<1>2. alt_ki' \in [KeyImage -> SUBSET Block]
  BY DEF TypeOK, do_erase_altblocks
<1>3. IsFiniteSet(alt) /\ IsFiniteSet(alt')
  BY <1>1, FS_Subset DEF AltInv
<1>4. ASSUME NEW t \in Tx
      PROVE  alt_txs'[t] \in Nat /\ alt_txs'[t] = Cardinality({a \in alt' : t \in TxsIn(a)})
  <2> DEFINE A == {a \in alt : t \in TxsIn(a)}
             E == {a \in S : t \in TxsIn(a)}
             B == {a \in alt' : t \in TxsIn(a)}
  <2>1. IsFiniteSet(A) /\ IsFiniteSet(E) /\ E \subseteq A /\ B = A \ E
    BY <1>1, <1>3, FS_Subset
  <2>2. alt_txs[t] = Cardinality(A)
    BY DEF AltInv, AltTxsCounted
  <2>3. alt_txs'[t] = Lower(alt_txs[t], Cardinality(E))
    BY DEF do_erase_altblocks
  <2>4. Cardinality(A) \in Nat /\ Cardinality(E) \in Nat /\ Cardinality(E) <= Cardinality(A)
    BY <2>1, FS_Subset, FS_CardinalityType
  <2>5. A \cap E = E
    BY <2>1
  <2> HIDE DEF A, E, B
  <2>6. Cardinality(B) = Cardinality(A) - Cardinality(E)
    <3>1. Cardinality(A \ E) = Cardinality(A) - Cardinality(A \cap E)
      BY <2>1, FS_Difference
    <3> QED
      BY <2>1, <2>5, <3>1, Zenon
  <2>7. Lower(Cardinality(A), Cardinality(E)) = Cardinality(A) - Cardinality(E)
    BY <2>4 DEF Lower
  <2> QED
    BY <2>2, <2>3, <2>4, <2>6, <2>7 DEF B
<1>5. alt_txs' \in [Tx -> Nat]
  BY <1>4 DEF do_erase_altblocks
<1> QED
  BY <1>1, <1>2, <1>3, <1>4, <1>5 DEF AltInv, AltTxsCounted

(* And erasing all of them.                                                *)
LEMMA ClearAltKeeps ==
    ASSUME clear_altblocks_and_indexes
    PROVE  /\ alt' \subseteq Block /\ alt_ki' \in [KeyImage -> SUBSET Block]
           /\ alt_txs' \in [Tx -> Nat] /\ AltInv'
<1>1. alt' = {} /\ \A t \in Tx : {a \in alt' : t \in TxsIn(a)} = {}
  BY DEF clear_altblocks_and_indexes
<1>2. \A t \in Tx : alt_txs'[t] = 0
  BY DEF clear_altblocks_and_indexes
<1>3. AltInv'
  BY <1>1, <1>2, FS_EmptySet DEF AltInv, AltTxsCounted
<1> QED
  BY <1>1, <1>3 DEF clear_altblocks_and_indexes

-----------------------------------------------------------------------------
(* What the actions have in common *)

(* A transaction of a block of the chain is in m_db_transactions.          *)
LEMMA ChainTxsStored ==
    ASSUME NEW d, Good(d), NEW b \in MainBlocks(d), NEW t \in TxsIn(b)
    PROVE  b \in Block /\ t \in Tx /\ d.txs[t] # Absent
<1>1. d.blocks \in Seq(Block) /\ MainBlocks(d) = {d.blocks[i] : i \in 1 .. Len(d.blocks)}
  BY GoodFacts
<1>2. PICK i \in 1 .. Len(d.blocks) : b = d.blocks[i]
  BY <1>1
<1>3. b \in Block /\ t \in Tx
  BY <1>1, <1>2, BlockFacts
<1>4. d.txs[t] = i - 1
  BY <1>2, <1>3 DEF Good, Consistent
<1> QED
  BY <1>1, <1>3, <1>4 DEF Absent

(* An action that leaves the chain and add_new_block alone.                *)
LEMMA SameCall ==
    ASSUME Sound, UNCHANGED <<chainvars, callvars>>
    PROVE  Good(db') /\ Good(saved') /\ PhaseInv'
<1>1. UNCHANGED <<db, saved, stale, phase, cur, chain, at, old, added>>
  BY DEF chainvars, callvars
<1>2. Good(db') /\ Good(saved')
  BY <1>1 DEF Sound
<1>3. PhaseInv'
  BY <1>1 DEF Sound, PhaseInv, SwitchInv, ExtendsTop, TakesOver, Short
<1> QED
  BY <1>2, <1>3

(* An action that leaves m_alternative_chains alone.                       *)
LEMMA SameAlt ==
    ASSUME AltInv, UNCHANGED <<alt, alt_txs>>
    PROVE  AltInv'
BY DEF AltInv, AltTxsCounted

(* A wrong size is too small while a block is added, and there is none     *)
(* from the first pushed or popped block on.                               *)
LEMMA StaleFacts ==
    ASSUME PhaseInv
    PROVE  /\ phase \notin {"idle", "main"} => stale = Absent
           /\ stale = Absent => Seen = db
BY DEF PhaseInv, Seen

(* An action that leaves the chain and the pool alone.                     *)
LEMMA SameChainAndPool ==
    ASSUME Sound, UNCHANGED <<chainvars, poolvars, rx>>
    PROVE  Good(db') /\ Good(saved') /\ TakenInv' /\ LookupInv'
<1>1. UNCHANGED <<db, saved, pool, taken, bare, rx>>
  BY DEF chainvars, poolvars
<1>2. Good(db') /\ Good(saved')
  BY <1>1 DEF Sound
<1> QED
  BY <1>1, <1>2 DEF Sound, TakenInv, LookupInv

(* add_new_block returns, and its transaction is aborted or empty.         *)
LEMMA BackToIdle ==
    ASSUME Sound, NEW b \in Block \cup {NoBlock}, AbortTransaction, Return(b)
    PROVE  /\ Good(db') /\ Good(saved') /\ PhaseInv' /\ TakenInv'
           /\ db' = saved /\ saved' = saved
           /\ stale' \in Nat \cup {Absent}
           /\ phase' \in Phases /\ cur' \in Block \cup {NoBlock} /\ added' \in Block \cup {NoBlock}
           /\ chain' \in Seq(Block) /\ at' \in Nat /\ old' \in Seq(Block)
<1>1. db' = saved /\ saved' = saved
  BY DEF AbortTransaction
<1>2. Good(db') /\ Good(saved')
  BY <1>1 DEF Sound
<1>3. Len(db.blocks) \in Nat \ {0} /\ stale \in Nat \cup {Absent}
  BY GoodFacts DEF Sound, TypeOK
<1>4. /\ stale' \in Nat \cup {Absent}
      /\ stale' # Absent => stale' # Len(saved.blocks) /\ stale' > 0
  BY <1>3 DEF AbortTransaction, Sound, PhaseInv
<1>5. PhaseInv'
  BY <1>1, <1>4 DEF Return, PhaseInv
<1>6. TakenInv'
  BY <1>1 DEF TakenInv
<1> QED
  BY <1>1, <1>2, <1>4, <1>5, <1>6 DEF Return, Phases

(* A block is connected: its transactions go from the pool to the chain.   *)
LEMMA PushKeeps ==
    ASSUME Sound, NEW b \in Block, handle_block_to_main_chain(db, b),
           db' = push_block(db, b), saved' = saved, rx' = rx,
           pool' = pool \ TxsIn(b), bare' = bare \ TxsIn(b), taken' = taken \cup TxsIn(b)
    PROVE  /\ Good(db') /\ Good(saved') /\ TakenInv' /\ LookupInv'
           /\ pool' \subseteq Tx /\ taken' \subseteq Tx /\ bare' \subseteq pool'
<1>1. TypeOK /\ Good(db) /\ Good(saved) /\ TakenInv /\ LookupInv
  BY DEF Sound
<1>2. Good(db') /\ Good(saved')
  BY <1>1, PushGood
<1>3. \A t \in Tx : t \notin TxsIn(b) => db'.txs[t] = db.txs[t]
  BY <1>1, PushFacts
<1>4. TakenInv'
  BY <1>1, <1>3 DEF TakenInv
<1>5. LookupInv'
  <2> SUFFICES ASSUME NEW r \in rx, ~r.known
               PROVE  saved.txs[r.tx] = Absent /\ db'.txs[r.tx] = Absent /\ r.tx \notin pool'
    BY DEF LookupInv
  <2>1. r.tx \in Tx /\ saved.txs[r.tx] = Absent /\ db.txs[r.tx] = Absent /\ r.tx \notin pool
    BY <1>1 DEF TypeOK, LookupInv
  <2>2. r.tx \notin TxsIn(b)
    BY <2>1, AcceptedIsNew
  <2> QED
    BY <1>3, <2>1, <2>2
<1>6. TxsIn(b) \subseteq Tx
  BY BlockFacts
<1>7. pool' \subseteq Tx /\ taken' \subseteq Tx /\ bare' \subseteq pool'
  BY <1>1, <1>6 DEF TypeOK
<1> QED
  BY <1>2, <1>4, <1>5, <1>7

(* The top block is taken away.                                            *)
LEMMA PopKeeps ==
    ASSUME Sound, Len(db.blocks) > 1, db' = pop_block(db), saved' = saved, taken' = taken
    PROVE  /\ Good(db') /\ Good(saved') /\ TakenInv'
           /\ \A t \in Tx : db.txs[t] = Absent => db'.txs[t] = Absent
<1>1. Good(db) /\ Good(saved) /\ TakenInv
  BY DEF Sound
<1>2. Good(db') /\ Good(saved')
  BY <1>1, PopGood
<1>3. \A t \in Tx : db'.txs[t] = Absent \/ db'.txs[t] = db.txs[t]
  BY <1>1, PopFacts
<1>4. TakenInv'
  BY <1>1, <1>3 DEF TakenInv
<1> QED
  BY <1>2, <1>3, <1>4

(* LookupInv when the transaction is aborted: the pool gains only what the *)
(* writer's chain has, or nothing.                                         *)
LEMMA LookupAfterAbort ==
    ASSUME Sound, db' = saved, saved' = saved, rx' = rx,
           NEW S, pool' \subseteq pool \cup S,
           \A t \in S : t \in Tx => db.txs[t] # Absent
    PROVE  LookupInv'
<1> SUFFICES ASSUME NEW r \in rx, ~r.known
             PROVE  saved.txs[r.tx] = Absent /\ r.tx \notin pool'
  BY DEF LookupInv
<1>1. r.tx \in Tx /\ saved.txs[r.tx] = Absent /\ db.txs[r.tx] = Absent /\ r.tx \notin pool
  BY DEF Sound, TypeOK, LookupInv
<1> QED
  BY <1>1

(* The same when the pool gains nothing.                                   *)
LEMMA LookupPoolShrinks ==
    ASSUME Sound, db' = saved, saved' = saved, rx' = rx, pool' \subseteq pool
    PROVE  LookupInv'
<1> SUFFICES ASSUME NEW r \in rx, ~r.known
             PROVE  saved.txs[r.tx] = Absent /\ r.tx \notin pool'
  BY DEF LookupInv
<1> QED
  BY DEF Sound, LookupInv

(* What is put back without signatures has been taken from the pool.       *)
LEMMA TakenFromPool ==
    ASSUME NEW d, NEW b
    PROVE  TakenAndCleared(d, b) \subseteq pool
BY DEF TakenAndCleared, Reached, take_tx

(* What rollback_blockchain_switching returns to the pool.                 *)
LEMMA RollbackFacts ==
    ASSUME Sound, NEW S, S \subseteq MainBlocks(db), NEW B, B \subseteq pool,
           rollback_blockchain_switching(S, B)
    PROVE  /\ pool' \subseteq Tx /\ bare' \subseteq pool' /\ pool' = pool \cup TxsInAll(S)
           /\ \A t \in TxsInAll(S) : t \in Tx => db.txs[t] # Absent
<1>1. Good(db) /\ pool \subseteq Tx /\ bare \subseteq pool
  BY DEF Sound, TypeOK
<1>2. \A t \in TxsInAll(S) : t \in Tx /\ db.txs[t] # Absent
  BY <1>1, ChainTxsStored DEF TxsInAll
<1>3. pool' = pool \cup TxsInAll(S)
  BY DEF rollback_blockchain_switching
<1>4. UNION {Cleared(b) : b \in S} \subseteq TxsInAll(S)
  BY DEF Cleared, TxsInAll
<1>5. bare' \subseteq pool'
  BY <1>1, <1>3, <1>4 DEF rollback_blockchain_switching
<1> QED
  BY <1>1, <1>2, <1>3, <1>5

-----------------------------------------------------------------------------
(* The actions of add_new_block *)

(* The initial state.                                                      *)
LEMMA InitSound == Init => Sound
<1> SUFFICES ASSUME Init PROVE Sound
  OBVIOUS
<1>1. Good(db) /\ Good(saved)
  BY EmptyGood DEF Init
<1>2. TypeOK
  BY <1>1 DEF Init, TypeOK, Good, Phases
<1>3. AltInv
  <2>1. \A t \in Tx : {b \in alt : t \in TxsIn(b)} = {}
    BY DEF Init
  <2> QED
    BY <2>1, FS_EmptySet DEF Init, AltInv, AltTxsCounted
<1>4. PhaseInv /\ TakenInv /\ LookupInv
  BY DEF Init, PhaseInv, TakenInv, LookupInv
<1> QED
  BY <1>1, <1>2, <1>3, <1>4 DEF Sound

(* add_new_block for a block on top of the chain.                          *)
LEMMA MainStep ==
    ASSUME Sound, (\E b \in Block : AddToMain(b)) \/ MainAccepted \/ MainRefused
    PROVE  Sound'
<1>1. TypeOK /\ Good(db) /\ Good(saved) /\ AltInv /\ PhaseInv
  BY DEF Sound
<1>2. ASSUME NEW b \in Block, AddToMain(b)
      PROVE  Sound'
  <2>1. Good(db') /\ Good(saved') /\ TakenInv' /\ LookupInv'
    BY <1>2, SameChainAndPool DEF AddToMain
  <2>2. AltInv'
    BY <1>1, <1>2, SameAlt DEF AddToMain, altvars
  <2>3. TypeOK'
    BY <1>1, <1>2, <2>1 DEF TypeOK, AddToMain, Goto, Phases, chainvars, altvars, poolvars
  <2>4. phase = "idle" /\ db = saved /\ Height(b) > 0 /\ Prev(b) = Top(Seen) /\ stale <= Len(db.blocks)
    BY <1>1, <1>2 DEF PhaseInv, AddToMain, IsNew
  <2>5. stale = Absent => ExtendsTop(b)
    BY <1>1, <2>4, StaleFacts DEF ExtendsTop
  <2>6. stale = Absent \/ Short
    <3>1. stale \in Nat \cup {Absent} /\ Len(db.blocks) \in Nat
      BY <1>1, GoodFacts DEF TypeOK
    <3> QED
      BY <1>1, <2>4, <3>1 DEF PhaseInv, Short
  <2>7. PhaseInv'
    BY <1>1, <1>2, <2>4, <2>5, <2>6 DEF PhaseInv, ExtendsTop, Short, AddToMain, Goto, chainvars
  <2> QED
    BY <2>1, <2>2, <2>3, <2>7 DEF Sound
<1>3. CASE MainAccepted
  <2>1. phase = "main" /\ ExtendsTop(cur)
    BY <1>1, <1>3 DEF MainAccepted, PhaseInv
  <2>2. cur \in Block
    BY <2>1 DEF ExtendsTop
  <2>3. /\ Good(db') /\ Good(saved') /\ TakenInv' /\ LookupInv'
        /\ pool' \subseteq Tx /\ taken' \subseteq Tx /\ bare' \subseteq pool'
    BY <1>3, <2>2, PushKeeps DEF MainAccepted
  <2>4. AltInv'
    BY <1>1, <1>3, SameAlt DEF MainAccepted, altvars
  <2>5. TypeOK'
    BY <1>1, <1>3, <2>3 DEF TypeOK, Good, MainAccepted, Goto, Phases, altvars
  <2>6. Top(db') = cur
    BY <1>1, <1>3, <2>2, PushFacts DEF MainAccepted
  <2>7. PhaseInv'
    BY <1>3, <2>1, <2>6 DEF PhaseInv, ExtendsTop, MainAccepted, Goto
  <2> QED
    BY <2>3, <2>4, <2>5, <2>7 DEF Sound
<1>4. CASE MainRefused
  <2>1. /\ Good(db') /\ Good(saved') /\ PhaseInv' /\ TakenInv' /\ stale' \in Nat \cup {Absent}
        /\ db' = saved /\ saved' = saved
        /\ phase' \in Phases /\ cur' \in Block \cup {NoBlock} /\ added' \in Block \cup {NoBlock}
        /\ chain' \in Seq(Block) /\ at' \in Nat /\ old' \in Seq(Block)
    BY <1>4, BackToIdle DEF MainRefused
  <2>2. AltInv'
    BY <1>1, <1>4, SameAlt DEF MainRefused
  <2>3. LookupInv'
    BY <1>4, <2>1, LookupPoolShrinks DEF MainRefused
  <2>4. cur \in Block
    BY <1>1, <1>4 DEF MainRefused, PhaseInv
  <2>5. bare' \subseteq pool'
    BY <1>1, <1>4, TakenFromPool DEF MainRefused, TypeOK
  <2>6. TypeOK'
    BY <1>1, <1>4, <2>1, <2>4, <2>5 DEF TypeOK, Good, MainRefused
  <2> QED
    BY <2>1, <2>2, <2>3, <2>6 DEF Sound
<1> QED
  BY <1>2, <1>3, <1>4

(* add_new_block for any other block.                                      *)
LEMMA AltStep ==
    ASSUME Sound, NEW b \in Block, AltRefused(b) \/ AltKept(b) \/ AltSwitch(b) \/ BackThrows(b)
    PROVE  Sound'
<1>1. TypeOK /\ Good(db) /\ Good(saved) /\ AltInv /\ PhaseInv
  BY DEF Sound
<1>2. phase = "idle" /\ db = saved
  BY <1>1 DEF AltRefused, AltKept, AltSwitch, BackThrows, IsAlternative, IsNew, PhaseInv
<1>3. UNCHANGED <<db, saved, stale, pool, bare, rx>>
  BY DEF AltRefused, AltKept, AltSwitch, BackThrows, chainvars, poolvars
<1>4. AbortTransaction
  BY <1>2, <1>3 DEF AbortTransaction
<1>5. LookupInv'
  BY <1>2, <1>3, LookupPoolShrinks
<1>6. CASE AltRefused(b) \/ BackThrows(b)
  <2>1. /\ Good(db') /\ Good(saved') /\ PhaseInv' /\ TakenInv' /\ stale' \in Nat \cup {Absent}
        /\ phase' \in Phases /\ cur' \in Block \cup {NoBlock} /\ added' \in Block \cup {NoBlock}
        /\ chain' \in Seq(Block) /\ at' \in Nat /\ old' \in Seq(Block)
    BY <1>4, <1>6, BackToIdle DEF AltRefused, BackThrows
  <2>2. AltInv'
    BY <1>1, <1>6, SameAlt DEF AltRefused, BackThrows, altvars
  <2>3. TypeOK'
    BY <1>1, <1>3, <1>6, <2>1 DEF TypeOK, AltRefused, BackThrows, altvars
  <2> QED
    BY <1>5, <2>1, <2>2, <2>3 DEF Sound
<1>7. CASE AltKept(b)
  <2>1. /\ Good(db') /\ Good(saved') /\ PhaseInv' /\ TakenInv' /\ stale' \in Nat \cup {Absent}
        /\ phase' \in Phases /\ cur' \in Block \cup {NoBlock} /\ added' \in Block \cup {NoBlock}
        /\ chain' \in Seq(Block) /\ at' \in Nat /\ old' \in Seq(Block)
    BY <1>4, <1>7, BackToIdle DEF AltKept
  <2>2. /\ alt' \subseteq Block /\ alt_ki' \in [KeyImage -> SUBSET Block]
        /\ alt_txs' \in [Tx -> Nat] /\ AltInv'
    BY <1>1, <1>7, AddAltKeeps DEF AltKept, handle_alternative_block
  <2>3. TypeOK'
    BY <1>1, <1>3, <1>7, <2>1, <2>2 DEF TypeOK, AltKept, poolvars
  <2> QED
    BY <1>5, <2>1, <2>2, <2>3 DEF Sound
<1>8. CASE AltSwitch(b)
  <2>1. Good(db') /\ Good(saved') /\ TakenInv'
    BY <1>8, SameChainAndPool DEF AltSwitch
  <2>2. /\ alt' \subseteq Block /\ alt_ki' \in [KeyImage -> SUBSET Block]
        /\ alt_txs' \in [Tx -> Nat] /\ AltInv'
    BY <1>1, <1>8, AddAltKeeps DEF AltSwitch, handle_alternative_block
  <2>3. chain' = Append(build_alt_subchain(b), b) /\ cur' = b /\ at' = 0 /\ phase' = "popping"
    BY <1>8 DEF AltSwitch, Goto
  <2>4. /\ chain' \in Seq(Block) /\ chain' # <<>> /\ chain'[Len(chain')] = b
        /\ Height(chain'[1]) >= 1
    BY <1>8, <2>3, AltChainFacts DEF AltSwitch, handle_alternative_block
  <2>5. TypeOK'
    BY <1>1, <1>3, <1>8, <2>1, <2>2, <2>3, <2>4 DEF TypeOK, AltSwitch, Goto, Phases, poolvars
  <2>6. TakesOver(b)
    BY <1>1, <1>2, <1>8, StaleFacts DEF TakesOver, AltSwitch, handle_alternative_block
  <2>7. TakesOver(cur)'
    BY <1>3, <2>3, <2>6 DEF TakesOver
  <2>8. SwitchInv'
    BY <2>3, <2>4, <2>7 DEF SwitchInv
  <2>9. PhaseInv'
    BY <1>3, <1>8, <2>3, <2>8 DEF PhaseInv, AltSwitch
  <2> QED
    BY <1>5, <2>1, <2>2, <2>5, <2>9 DEF Sound
<1> QED
  BY <1>6, <1>7, <1>8

(* switch_to_alternative_blockchain, blocks popped and connected.          *)
LEMMA ConnectStep ==
    ASSUME Sound, SwitchPop \/ SwitchPopped \/ SwitchConnect \/ SwitchRefused \/ SwitchConnected
    PROVE  Sound'
<1>1. TypeOK /\ Good(db) /\ Good(saved) /\ AltInv /\ PhaseInv /\ TakenInv /\ LookupInv
  BY DEF Sound
<1>2. phase \in {"popping", "connecting"} /\ SwitchInv /\ stale = Absent
  BY <1>1, StaleFacts DEF SwitchPop, SwitchPopped, SwitchConnect, SwitchRefused, SwitchConnected, PhaseInv
<1>3. /\ chain \in Seq(Block) /\ Len(chain) \in Nat \ {0} /\ at \in Nat /\ at <= Len(chain)
      /\ cur \in Block /\ chain[1] \in Block
  BY <1>1, <1>2 DEF TypeOK, SwitchInv, TakesOver
<1>4. CASE SwitchPop
  <2>1. at = 0 /\ phase = "popping"
    BY <1>1, <1>4 DEF SwitchPop, PhaseInv
  <2>2. Len(db.blocks) > 1
    <3>1. Len(db.blocks) \in Nat /\ Height(chain[1]) \in Int
      BY <1>1, <1>3, GoodFacts, PathFacts DEF Height
    <3> QED
      BY <1>2, <1>4, <3>1 DEF SwitchPop, SplitHeight, SwitchInv
  <2>3. /\ Good(db') /\ Good(saved') /\ TakenInv'
        /\ \A t \in Tx : db.txs[t] = Absent => db'.txs[t] = Absent
    BY <1>4, <2>2, PopKeeps DEF SwitchPop
  <2>4. Top(db) \in Block /\ Top(db) \in MainBlocks(db)
    BY <1>1, GoodFacts DEF Top
  <2>5. \A t \in TxsIn(Top(db)) : t \in Tx /\ db.txs[t] # Absent
    BY <1>1, <2>4, ChainTxsStored
  <2>6. LookupInv'
    <3> SUFFICES ASSUME NEW r \in rx, ~r.known
                 PROVE  saved'.txs[r.tx] = Absent /\ db'.txs[r.tx] = Absent /\ r.tx \notin pool'
      BY <1>4 DEF SwitchPop, LookupInv
    <3>1. r.tx \in Tx /\ saved.txs[r.tx] = Absent /\ db.txs[r.tx] = Absent /\ r.tx \notin pool
      BY <1>1 DEF TypeOK, LookupInv
    <3> QED
      BY <1>4, <2>3, <2>5, <3>1 DEF SwitchPop
  <2>7. AltInv'
    BY <1>1, <1>4, SameAlt DEF SwitchPop, altvars
  <2>8. pool' \subseteq Tx /\ bare' \subseteq pool'
    BY <1>1, <1>4, <2>5 DEF SwitchPop, TypeOK, Cleared
  <2>9. old' \in Seq(Block)
    <3>1. <<Top(db)>> \in Seq(Block) /\ old \in Seq(Block)
      BY <1>1, <2>4 DEF TypeOK
    <3> QED
      BY <1>4, <3>1 DEF SwitchPop
  <2>10. TypeOK'
    BY <1>1, <1>4, <2>3, <2>8, <2>9 DEF TypeOK, Good, SwitchPop, altvars
  <2>11. SwitchInv'
    BY <1>2, <1>4, <2>1 DEF SwitchInv, TakesOver, SwitchPop
  <2>12. PhaseInv'
    BY <1>2, <1>4, <2>1, <2>11 DEF PhaseInv, SwitchPop
  <2> QED
    BY <2>3, <2>6, <2>7, <2>10, <2>12 DEF Sound
<1>5. CASE SwitchPopped
  <2>1. Good(db') /\ Good(saved') /\ TakenInv' /\ LookupInv'
    BY <1>5, SameChainAndPool DEF SwitchPopped
  <2>2. AltInv'
    BY <1>1, <1>5, SameAlt DEF SwitchPopped, altvars
  <2>3. TypeOK'
    BY <1>1, <1>5, <2>1 DEF TypeOK, SwitchPopped, Goto, Phases, chainvars, altvars, poolvars
  <2>4. SwitchInv'
    BY <1>2, <1>5 DEF SwitchInv, TakesOver, SwitchPopped, chainvars
  <2>5. PhaseInv'
    BY <1>2, <1>5, <2>4 DEF PhaseInv, SwitchPopped, Goto, chainvars
  <2> QED
    BY <2>1, <2>2, <2>3, <2>5 DEF Sound
<1>6. CASE SwitchConnect
  <2> DEFINE b == chain[at + 1]
  <2>1. at < Len(chain) /\ b \in Block /\ phase = "connecting"
    BY <1>3, <1>6 DEF SwitchConnect
  <2>2. /\ Good(db') /\ Good(saved') /\ TakenInv' /\ LookupInv'
        /\ pool' \subseteq Tx /\ taken' \subseteq Tx /\ bare' \subseteq pool'
    BY <1>6, <2>1, PushKeeps DEF SwitchConnect
  <2>3. AltInv'
    BY <1>1, <1>6, SameAlt DEF SwitchConnect, altvars
  <2>4. TypeOK'
    BY <1>1, <1>6, <2>2 DEF TypeOK, Good, SwitchConnect, altvars
  <2>5. Top(db') = b /\ MainBlocks(db') = MainBlocks(db) \cup {b}
    BY <1>1, <1>6, <2>1, PushFacts DEF SwitchConnect
  <2>6. TakesOver(cur)'
    BY <1>2, <1>6 DEF SwitchInv, TakesOver, SwitchConnect
  <2>7. \A i \in 1 .. at + 1 : chain[i] \in MainBlocks(db')
    <3>1. \A i \in 1 .. at + 1 : i \in 1 .. at \/ i = at + 1
      BY <1>3
    <3> QED
      BY <1>2, <2>5, <3>1 DEF SwitchInv
  <2>8. SwitchInv'
    BY <1>2, <1>3, <1>6, <2>1, <2>5, <2>6, <2>7 DEF SwitchInv, SwitchConnect
  <2>9. PhaseInv'
    BY <1>2, <1>6, <2>1, <2>8 DEF PhaseInv, SwitchConnect
  <2> QED
    BY <2>2, <2>3, <2>4, <2>9 DEF Sound
<1>7. CASE SwitchRefused
  <2>1. /\ Good(db') /\ Good(saved') /\ PhaseInv' /\ TakenInv' /\ stale' \in Nat \cup {Absent}
        /\ db' = saved /\ saved' = saved
        /\ phase' \in Phases /\ cur' \in Block \cup {NoBlock} /\ added' \in Block \cup {NoBlock}
        /\ chain' \in Seq(Block) /\ at' \in Nat /\ old' \in Seq(Block)
    BY <1>7, BackToIdle DEF SwitchRefused
  <2>2. Connected \subseteq MainBlocks(db)
    BY <1>2 DEF Connected, SwitchInv
  <2>3. /\ pool' \subseteq Tx /\ bare' \subseteq pool' /\ pool' = pool \cup TxsInAll(Connected)
        /\ \A t \in TxsInAll(Connected) : t \in Tx => db.txs[t] # Absent
    BY <1>7, <2>2, RollbackFacts, TakenFromPool DEF SwitchRefused
  <2>4. LookupInv'
    BY <1>7, <2>1, <2>3, LookupAfterAbort DEF SwitchRefused
  <2>5. ToConnect \in SUBSET alt
    BY <1>7 DEF SwitchRefused, Alive
  <2>6. /\ alt' \subseteq Block /\ alt_ki' \in [KeyImage -> SUBSET Block]
        /\ alt_txs' \in [Tx -> Nat] /\ AltInv'
    BY <1>1, <1>7, <2>5, EraseAltKeeps DEF SwitchRefused
  <2>7. TypeOK'
    BY <1>1, <1>7, <2>1, <2>3, <2>5, <2>6 DEF TypeOK, Good, SwitchRefused
  <2> QED
    BY <2>1, <2>4, <2>6, <2>7 DEF Sound
<1>8. CASE SwitchConnected
  <2>1. Good(db') /\ Good(saved') /\ TakenInv' /\ LookupInv'
    BY <1>8, SameChainAndPool DEF SwitchConnected
  <2>2. AltInv'
    BY <1>1, <1>8, SameAlt DEF SwitchConnected, altvars
  <2>3. TypeOK'
    BY <1>1, <1>8, <2>1 DEF TypeOK, SwitchConnected, Goto, Phases, chainvars, altvars, poolvars
  <2>4. SwitchInv'
    BY <1>2, <1>8 DEF SwitchInv, TakesOver, SwitchConnected, chainvars
  <2>5. PhaseInv'
    BY <1>2, <1>8, <2>4 DEF PhaseInv, SwitchConnected, Goto, chainvars
  <2> QED
    BY <2>1, <2>2, <2>3, <2>5 DEF Sound
<1> QED
  BY <1>4, <1>5, <1>6, <1>7, <1>8

(* switch_to_alternative_blockchain, disconnected blocks become            *)
(* alternative ones.                                                       *)
LEMMA PushStep ==
    ASSUME Sound, SwitchPush \/ SwitchPushOrphaned \/ SwitchPushRefused \/ SwitchDone
    PROVE  Sound'
<1>1. TypeOK /\ Good(db) /\ Good(saved) /\ AltInv /\ PhaseInv /\ TakenInv /\ LookupInv
  BY DEF Sound
<1>2. phase = "pushing" /\ SwitchInv /\ at = Len(chain) /\ stale = Absent
  BY <1>1, StaleFacts DEF SwitchPush, SwitchPushOrphaned, SwitchPushRefused, SwitchDone, PhaseInv
<1>3. /\ chain \in Seq(Block) /\ Len(chain) \in Nat \ {0}
      /\ cur \in Block /\ old \in Seq(Block)
  BY <1>1, <1>2 DEF TypeOK, SwitchInv, TakesOver
<1>4. Range(chain) = {chain[i] : i \in 1 .. Len(chain)}
  BY <1>3 DEF Range
<1>5. CASE SwitchPush
  <2>1. Head(old) \in Block /\ Tail(old) \in Seq(Block)
    BY <1>3, <1>5 DEF SwitchPush
  <2>2. Good(db') /\ Good(saved') /\ TakenInv' /\ LookupInv'
    BY <1>5, SameChainAndPool DEF SwitchPush
  <2>3. /\ alt' \subseteq Block /\ alt_ki' \in [KeyImage -> SUBSET Block]
        /\ alt_txs' \in [Tx -> Nat] /\ AltInv'
    BY <1>1, <1>5, <2>1, AddAltKeeps DEF SwitchPush, handle_alternative_block
  <2>4. TypeOK'
    BY <1>1, <1>5, <2>1, <2>2, <2>3 DEF TypeOK, SwitchPush, chainvars, poolvars
  <2>5. SwitchInv'
    BY <1>2, <1>5 DEF SwitchInv, TakesOver, SwitchPush, chainvars
  <2>6. PhaseInv'
    BY <1>2, <1>5, <2>5 DEF PhaseInv, SwitchPush, chainvars
  <2> QED
    BY <2>2, <2>3, <2>4, <2>6 DEF Sound
<1>6. CASE SwitchPushOrphaned
  <2>1. Tail(old) \in Seq(Block)
    BY <1>3, <1>6 DEF SwitchPushOrphaned
  <2>2. Good(db') /\ Good(saved') /\ TakenInv' /\ LookupInv'
    BY <1>6, SameChainAndPool DEF SwitchPushOrphaned
  <2>3. AltInv'
    BY <1>1, <1>6, SameAlt DEF SwitchPushOrphaned, altvars
  <2>4. TypeOK'
    BY <1>1, <1>6, <2>1, <2>2 DEF TypeOK, SwitchPushOrphaned, chainvars, altvars, poolvars
  <2>5. SwitchInv'
    BY <1>2, <1>6 DEF SwitchInv, TakesOver, SwitchPushOrphaned, chainvars
  <2>6. PhaseInv'
    BY <1>2, <1>6, <2>5 DEF PhaseInv, SwitchPushOrphaned, chainvars
  <2> QED
    BY <2>2, <2>3, <2>4, <2>6 DEF Sound
<1>7. CASE SwitchPushRefused
  <2>1. /\ Good(db') /\ Good(saved') /\ PhaseInv' /\ TakenInv' /\ stale' \in Nat \cup {Absent}
        /\ db' = saved /\ saved' = saved
        /\ phase' \in Phases /\ cur' \in Block \cup {NoBlock} /\ added' \in Block \cup {NoBlock}
        /\ chain' \in Seq(Block) /\ at' \in Nat /\ old' \in Seq(Block)
    BY <1>3, <1>7, BackToIdle DEF SwitchPushRefused
  <2>2. Range(chain) \subseteq MainBlocks(db)
    BY <1>2, <1>4 DEF SwitchInv
  <2>3. /\ pool' \subseteq Tx /\ bare' \subseteq pool' /\ pool' = pool \cup TxsInAll(Range(chain))
        /\ \A t \in TxsInAll(Range(chain)) : t \in Tx => db.txs[t] # Absent
    BY <1>7, <2>2, RollbackFacts DEF SwitchPushRefused
  <2>4. LookupInv'
    BY <1>7, <2>1, <2>3, LookupAfterAbort DEF SwitchPushRefused
  <2>5. Range(chain) \in SUBSET alt
    BY <1>7 DEF SwitchPushRefused, Alive
  <2>6. /\ alt' \subseteq Block /\ alt_ki' \in [KeyImage -> SUBSET Block]
        /\ alt_txs' \in [Tx -> Nat] /\ AltInv'
    BY <1>1, <1>7, <2>5, EraseAltKeeps DEF SwitchPushRefused
  <2>7. TypeOK'
    BY <1>1, <1>7, <2>1, <2>3, <2>6 DEF TypeOK, Good, SwitchPushRefused
  <2> QED
    BY <2>1, <2>4, <2>6, <2>7 DEF Sound
<1>8. CASE SwitchDone
  <2>1. Good(db') /\ Good(saved') /\ TakenInv' /\ LookupInv'
    BY <1>8, SameChainAndPool DEF SwitchDone
  <2>2. Range(chain) \in SUBSET alt
    BY <1>8 DEF SwitchDone, Alive
  <2>3. /\ alt' \subseteq Block /\ alt_ki' \in [KeyImage -> SUBSET Block]
        /\ alt_txs' \in [Tx -> Nat] /\ AltInv'
    BY <1>1, <1>8, <2>2, EraseAltKeeps DEF SwitchDone
  <2>4. TypeOK'
    BY <1>1, <1>8, <2>1, <2>3 DEF TypeOK, SwitchDone, Goto, Phases, chainvars, poolvars
  <2>5. TakesOver(Top(db))
    BY <1>2, <1>3 DEF SwitchInv
  <2>6. PhaseInv'
    BY <1>2, <1>8, <2>5 DEF PhaseInv, ExtendsTop, TakesOver, SwitchDone, Goto, chainvars
  <2> QED
    BY <2>1, <2>3, <2>4, <2>6 DEF Sound
<1> QED
  BY <1>5, <1>6, <1>7, <1>8

(* The end of add_new_block.                                               *)
LEMMA EndStep ==
    ASSUME Sound, Commit \/ Finalize \/ \E n \in 0 .. Cardinality(Tx) : Exception(n)
    PROVE  Sound'
<1>1. TypeOK /\ Good(db) /\ Good(saved) /\ AltInv /\ PhaseInv /\ TakenInv /\ LookupInv
  BY DEF Sound
<1>2. CASE Commit
  <2>1. db' = db /\ saved' = db
    BY <1>2 DEF Commit
  <2>2. Good(db') /\ Good(saved')
    BY <1>1, <2>1
  <2>3. AltInv'
    BY <1>1, <1>2, SameAlt DEF Commit, altvars
  <2>4. TakenInv' /\ LookupInv'
    BY <1>1, <1>2, <2>1 DEF TakenInv, LookupInv, Commit, poolvars
  <2>5. TypeOK'
    BY <1>1, <1>2 DEF TypeOK, Commit, Goto, Phases, altvars, poolvars
  <2>6. PhaseInv'
    BY <1>1, <1>2, <2>1, StaleFacts DEF PhaseInv, Commit, Goto
  <2> QED
    BY <2>2, <2>3, <2>4, <2>5, <2>6 DEF Sound
<1>3. CASE Finalize
  <2>1. AbortTransaction
    BY <1>1, <1>3 DEF AbortTransaction, Finalize, PhaseInv, chainvars
  <2>2. cur \in Block \cup {NoBlock}
    BY <1>1 DEF TypeOK
  <2>3. /\ Good(db') /\ Good(saved') /\ PhaseInv' /\ TakenInv' /\ stale' \in Nat \cup {Absent}
        /\ db' = saved /\ saved' = saved
        /\ phase' \in Phases /\ cur' \in Block \cup {NoBlock} /\ added' \in Block \cup {NoBlock}
        /\ chain' \in Seq(Block) /\ at' \in Nat /\ old' \in Seq(Block)
    BY <1>3, <2>1, <2>2, BackToIdle DEF Finalize
  <2>4. LookupInv'
    BY <1>3, <2>3, LookupPoolShrinks DEF Finalize
  <2>5. AltInv'
    BY <1>1, <1>3, SameAlt DEF Finalize, altvars
  <2>6. TypeOK'
    BY <1>1, <1>3, <2>3 DEF TypeOK, Good, Finalize, altvars
  <2> QED
    BY <2>3, <2>4, <2>5, <2>6 DEF Sound
<1>4. ASSUME NEW n \in 0 .. Cardinality(Tx), Exception(n)
      PROVE  Sound'
  <2>1. pool' \subseteq pool /\ bare' \subseteq pool'
    BY <1>4 DEF Exception
  <2>2. /\ Good(db') /\ Good(saved') /\ PhaseInv' /\ TakenInv' /\ stale' \in Nat \cup {Absent}
        /\ db' = saved /\ saved' = saved
        /\ phase' \in Phases /\ cur' \in Block \cup {NoBlock} /\ added' \in Block \cup {NoBlock}
        /\ chain' \in Seq(Block) /\ at' \in Nat /\ old' \in Seq(Block)
    BY <1>4, BackToIdle DEF Exception
  <2>3. LookupInv'
    BY <1>4, <2>1, <2>2, LookupPoolShrinks DEF Exception
  <2>4. AltInv'
    BY <1>1, <1>4, SameAlt DEF Exception, altvars
  <2>5. TypeOK'
    BY <1>1, <1>4, <2>1, <2>2 DEF TypeOK, Good, Exception, altvars
  <2> QED
    BY <2>2, <2>3, <2>4, <2>5 DEF Sound
<1> QED
  BY <1>2, <1>3, <1>4

(* truncate_blockchain                                                     *)
LEMMA TruncateStep ==
    ASSUME Sound,
           \/ \E h \in 1 .. Len(db.blocks) : TruncateBegin(h)
           \/ TruncatePop \/ TruncateEnd \/ TruncateNothing
    PROVE  Sound'
<1>1. TypeOK /\ Good(db) /\ Good(saved) /\ AltInv /\ PhaseInv /\ TakenInv /\ LookupInv
  BY DEF Sound
<1>2. ASSUME NEW h \in 1 .. Len(db.blocks), TruncateBegin(h)
      PROVE  Sound'
  <2>1. Good(db') /\ Good(saved') /\ TakenInv' /\ LookupInv'
    BY <1>2, SameChainAndPool DEF TruncateBegin
  <2>2. AltInv'
    BY <1>1, <1>2, SameAlt DEF TruncateBegin, altvars
  <2>3. at' \in Nat /\ at' >= 1
    BY <1>2 DEF TruncateBegin
  <2>4. TypeOK'
    BY <1>1, <1>2, <2>1, <2>3 DEF TypeOK, TruncateBegin, Goto, Phases, chainvars, altvars, poolvars
  <2>5. PhaseInv'
    BY <1>2, <2>3 DEF PhaseInv, TruncateBegin, Goto, chainvars
  <2> QED
    BY <2>1, <2>2, <2>4, <2>5 DEF Sound
<1>3. CASE TruncatePop
  <2>1. phase = "truncating" /\ at >= 1 /\ at \in Nat
    BY <1>1, <1>3 DEF TruncatePop, PhaseInv, TypeOK
  <2>2. Len(db.blocks) > 1
    BY <1>1, <1>3, <2>1, GoodFacts DEF TruncatePop
  <2>3. /\ Good(db') /\ Good(saved') /\ TakenInv'
        /\ \A t \in Tx : db.txs[t] = Absent => db'.txs[t] = Absent
    BY <1>3, <2>2, PopKeeps DEF TruncatePop, poolvars
  <2>4. LookupInv'
    BY <1>1, <1>3, <2>3 DEF LookupInv, TypeOK, TruncatePop, poolvars
  <2>5. AltInv'
    BY <1>1, <1>3, SameAlt DEF TruncatePop, altvars
  <2>6. TypeOK'
    BY <1>1, <1>3, <2>3 DEF TypeOK, Good, TruncatePop, altvars, poolvars, callvars
  <2>7. PhaseInv'
    BY <1>1, <1>3, <2>1, StaleFacts DEF PhaseInv, TruncatePop, callvars
  <2> QED
    BY <2>3, <2>4, <2>5, <2>6, <2>7 DEF Sound
<1>4. CASE TruncateEnd
  <2>1. db' = db /\ saved' = db
    BY <1>4 DEF TruncateEnd
  <2>2. Good(db') /\ Good(saved')
    BY <1>1, <2>1
  <2>3. /\ alt' \subseteq Block /\ alt_ki' \in [KeyImage -> SUBSET Block]
        /\ alt_txs' \in [Tx -> Nat] /\ AltInv'
    BY <1>4, ClearAltKeeps DEF TruncateEnd
  <2>4. TakenInv' /\ LookupInv'
    BY <1>1, <1>4, <2>1 DEF TakenInv, LookupInv, TruncateEnd, poolvars
  <2>5. TypeOK'
    BY <1>1, <1>4, <2>3 DEF TypeOK, TruncateEnd, Return, Phases, poolvars, clear_altblocks_and_indexes
  <2>6. PhaseInv'
    BY <1>1, <1>4, <2>1, StaleFacts DEF PhaseInv, TruncateEnd, Return
  <2> QED
    BY <2>2, <2>3, <2>4, <2>5, <2>6 DEF Sound
<1>5. CASE TruncateNothing
  <2>1. AbortTransaction
    BY <1>1, <1>5 DEF AbortTransaction, TruncateNothing, PhaseInv, chainvars
  <2>2. /\ Good(db') /\ Good(saved') /\ PhaseInv' /\ TakenInv' /\ stale' \in Nat \cup {Absent}
        /\ db' = saved /\ saved' = saved
        /\ phase' \in Phases /\ cur' \in Block \cup {NoBlock} /\ added' \in Block \cup {NoBlock}
        /\ chain' \in Seq(Block) /\ at' \in Nat /\ old' \in Seq(Block)
    BY <1>5, <2>1, BackToIdle DEF TruncateNothing
  <2>3. LookupInv'
    BY <1>5, <2>2, LookupPoolShrinks DEF TruncateNothing, poolvars
  <2>4. /\ alt' \subseteq Block /\ alt_ki' \in [KeyImage -> SUBSET Block]
        /\ alt_txs' \in [Tx -> Nat] /\ AltInv'
    BY <1>5, ClearAltKeeps DEF TruncateNothing
  <2>5. TypeOK'
    BY <1>1, <1>5, <2>2, <2>4 DEF TypeOK, Good, TruncateNothing, poolvars, clear_altblocks_and_indexes
  <2> QED
    BY <2>2, <2>3, <2>4, <2>5 DEF Sound
<1> QED
  BY <1>2, <1>3, <1>4, <1>5

(* What the other threads do to the pool and to the alternative chains.    *)
SideStep ==
    \/ \E t \in Tx : AddTxLookup(t)
    \/ \E r \in rx : AddTxInsert(r)
    \/ \E S \in SUBSET Tx : RemoveStuck(S)
    \/ PurgeTransactions \/ PruneAgedAltBlocks \/ ClearAltBlocks
    \/ \E c \in Clocks : SetClock(c)

(* It keeps the types and the counters, and leaves the chain alone.        *)
LEMMA SideStepKeeps ==
    ASSUME TypeOK, AltInv, SideStep
    PROVE  TypeOK' /\ AltInv' /\ taken' = taken /\ UNCHANGED <<chainvars, callvars>>
<1>1. UNCHANGED <<chainvars, callvars, taken>>
  BY DEF SideStep, AddTxLookup, AddTxInsert, RemoveStuck, PurgeTransactions, PruneAgedAltBlocks,
         ClearAltBlocks, SetClock, poolvars
<1>2. /\ pool' \subseteq Tx /\ bare' \subseteq pool' /\ rx' \subseteq [tx : Tx, known : BOOLEAN]
      /\ clock' \in Clocks
  <2>1. /\ pool \subseteq Tx /\ bare \subseteq pool /\ rx \subseteq [tx : Tx, known : BOOLEAN]
        /\ clock \in Clocks
    BY DEF TypeOK
  <2>2. ASSUME NEW t \in Tx, AddTxLookup(t)
        PROVE  /\ pool' = pool /\ bare' = bare /\ clock' = clock
               /\ rx' \subseteq [tx : Tx, known : BOOLEAN]
    BY <2>2 DEF AddTxLookup, poolvars
  <2>3. ASSUME NEW r \in rx, AddTxInsert(r)
        PROVE  pool' \subseteq Tx /\ bare' \subseteq pool' /\ rx' = {} /\ clock' = clock
    BY <2>1, <2>3 DEF AddTxInsert
  <2>4. ASSUME NEW S \in SUBSET Tx, RemoveStuck(S)
        PROVE  pool' \subseteq Tx /\ bare' \subseteq pool' /\ rx' = rx /\ clock' = clock
    BY <2>1, <2>4 DEF RemoveStuck
  <2>5. CASE PurgeTransactions
    BY <2>1, <2>5 DEF PurgeTransactions
  <2>6. CASE PruneAgedAltBlocks \/ ClearAltBlocks
    BY <2>1, <2>6 DEF PruneAgedAltBlocks, ClearAltBlocks, poolvars
  <2>7. ASSUME NEW c \in Clocks, SetClock(c)
        PROVE  pool' = pool /\ bare' = bare /\ rx' = rx /\ clock' \in Clocks
    BY <2>7 DEF SetClock, poolvars
  <2> QED
    BY <2>1, <2>2, <2>3, <2>4, <2>5, <2>6, <2>7 DEF SideStep
<1>3. /\ alt' \subseteq Block /\ alt_ki' \in [KeyImage -> SUBSET Block] /\ alt_txs' \in [Tx -> Nat]
      /\ AltInv' /\ invalid' \subseteq Block /\ blind' \subseteq Block
  <2>1. /\ alt \subseteq Block /\ alt_ki \in [KeyImage -> SUBSET Block] /\ alt_txs \in [Tx -> Nat]
        /\ invalid \subseteq Block /\ blind \subseteq Block
    BY DEF TypeOK
  <2>2. CASE PruneAgedAltBlocks
    <3>1. Aged \in SUBSET alt
      BY DEF Aged
    <3> QED
      BY <2>1, <2>2, <3>1, EraseAltKeeps DEF PruneAgedAltBlocks
  <2>3. CASE ClearAltBlocks
    BY <2>1, <2>3, ClearAltKeeps DEF ClearAltBlocks, clear_altblocks_and_indexes
  <2>4. CASE UNCHANGED altvars
    BY <2>1, <2>4, SameAlt DEF altvars
  <2> QED
    BY <2>2, <2>3, <2>4 DEF SideStep, AddTxLookup, AddTxInsert, RemoveStuck, PurgeTransactions, SetClock
<1>4. TypeOK'
  BY <1>1, <1>2, <1>3 DEF TypeOK, chainvars, callvars
<1> QED
  BY <1>1, <1>3, <1>4

(* The other threads' actions and the end of the process.                  *)
LEMMA EnvironmentStep ==
    ASSUME Sound, SideStep \/ Crash
    PROVE  Sound'
<1>1. TypeOK /\ Good(db) /\ Good(saved) /\ AltInv /\ PhaseInv /\ TakenInv /\ LookupInv
  BY DEF Sound
<1>2. CASE SideStep
  <2>1. TypeOK' /\ AltInv' /\ taken' = taken /\ UNCHANGED <<chainvars, callvars>>
    BY <1>1, <1>2, SideStepKeeps
  <2>2. db' = db /\ saved' = saved
    BY <2>1 DEF chainvars
  <2>3. Good(db') /\ Good(saved') /\ PhaseInv'
    BY <2>1, SameCall
  <2>4. TakenInv'
    BY <1>1, <2>1, <2>2 DEF TakenInv
  <2>5. ASSUME NEW t \in Tx, AddTxLookup(t)
        PROVE  LookupInv'
    <3>1. rx' = {[tx |-> t, known |-> saved.txs[t] # Absent]} /\ t \notin pool' /\ t \notin taken
      BY <2>5 DEF AddTxLookup, poolvars
    <3>2. saved.txs[t] = Absent => db.txs[t] = Absent
      BY <1>1, <3>1 DEF TakenInv
    <3>3. ASSUME NEW r \in rx', ~r.known
          PROVE  saved.txs[r.tx] = Absent /\ r.tx = t
      <4>1. r = [tx |-> t, known |-> saved.txs[t] # Absent]
        BY <3>1
      <4>2. r.tx = t /\ r.known = (saved.txs[t] # Absent)
        BY <4>1, Zenon
      <4> QED
        BY <3>3, <4>2, Zenon
    <3> QED
      BY <2>2, <3>1, <3>2, <3>3 DEF LookupInv
  <2>6. ASSUME NEW r \in rx, AddTxInsert(r)
        PROVE  LookupInv'
    BY <2>6 DEF AddTxInsert, LookupInv
  <2>7. ASSUME pool' \subseteq pool, rx' = rx
        PROVE  LookupInv'
    <3>1. \A r \in rx : ~r.known =>
             saved.txs[r.tx] = Absent /\ db.txs[r.tx] = Absent /\ r.tx \notin pool
      BY <1>1 DEF LookupInv
    <3>2. \A r \in rx : ~r.known =>
             saved'.txs[r.tx] = Absent /\ db'.txs[r.tx] = Absent /\ r.tx \notin pool'
      BY <2>2, <2>7, <3>1
    <3> QED
      BY <2>7, <3>2 DEF LookupInv
  <2>8. LookupInv'
    <3>1. \/ \E t \in Tx : AddTxLookup(t)
          \/ \E r \in rx : AddTxInsert(r)
          \/ pool' \subseteq pool /\ rx' = rx
      BY <1>2 DEF SideStep, RemoveStuck, PurgeTransactions, PruneAgedAltBlocks, ClearAltBlocks,
         SetClock, poolvars
    <3> QED
      BY <2>5, <2>6, <2>7, <3>1
  <2> QED
    BY <2>1, <2>3, <2>4, <2>8 DEF Sound
<1>3. CASE Crash
  <2>1. db' = saved /\ saved' = saved /\ stale' = Absent
    BY <1>3 DEF Crash
  <2>2. Good(db') /\ Good(saved') /\ TakenInv'
    BY <1>1, <2>1 DEF TakenInv
  <2>3. PhaseInv' /\ LookupInv'
    BY <1>3, <2>1 DEF Crash, Return, PhaseInv, LookupInv
  <2>4. /\ alt' \subseteq Block /\ alt_ki' \in [KeyImage -> SUBSET Block]
        /\ alt_txs' \in [Tx -> Nat] /\ AltInv'
    BY <1>3, ClearAltKeeps DEF Crash
  <2>5. TypeOK'
    BY <1>1, <1>3, <2>1, <2>2, <2>4
    DEF TypeOK, Good, Crash, Return, Phases, clear_altblocks_and_indexes
  <2> QED
    BY <2>2, <2>3, <2>4, <2>5 DEF Sound
<1> QED
  BY <1>2, <1>3

-----------------------------------------------------------------------------
(* A size left behind by an abort *)

(* The steps with which a node goes astray: all of them begin with a size  *)
(* that is too small.                                                      *)
GoesAstray == MainOverwrites \/ (\E b \in Block : AltSwitchAstray(b)) \/ TruncateAstray

(* Only a block written over another changes what is stored.               *)
LEMMA AstrayStep ==
    ASSUME Sound, GoesAstray
    PROVE  Stray' /\ Short /\ UNCHANGED stale /\ Len(saved'.blocks) = Len(saved.blocks)
<1>1. TypeOK /\ Good(db) /\ Good(saved) /\ AltInv /\ PhaseInv
  BY DEF Sound
<1>2. /\ db.blocks \in Seq(Block) /\ Len(db.blocks) \in Nat /\ stale \in Nat \cup {Absent}
      /\ db.spent \in [KeyImage -> Int] /\ db.txs \in [Tx -> Int]
  BY <1>1, GoodFacts DEF TypeOK
<1>3. CASE MainOverwrites
  <2>1. phase = "main" /\ cur \in Block /\ db = saved /\ stale \in Nat /\ stale < Len(db.blocks) /\ Short
    BY <1>1, <1>2, <1>3 DEF MainOverwrites, PhaseInv, Short
  <2> DEFINE bs == [db.blocks EXCEPT ![stale + 1] = cur]
  <2>2. bs \in Seq(Block) /\ Len(bs) = Len(db.blocks)
    BY <1>2, <2>1
  <2>3. Spend(db.spent, cur, stale) \in [KeyImage -> Int] /\ Store(db.txs, cur, stale) \in [Tx -> Int]
    BY <1>2, <2>1 DEF Spend, Store
  <2>4. /\ db' = [blocks |-> bs, spent |-> Spend(db.spent, cur, stale), txs |-> Store(db.txs, cur, stale)]
        /\ saved' = db' /\ stale' = stale
    BY <1>3 DEF MainOverwrites
  <2> HIDE DEF bs
  <2>5. db' \in Storage /\ saved' \in Storage /\ Len(saved'.blocks) = Len(saved.blocks)
    BY <2>1, <2>2, <2>3, <2>4 DEF Storage
  <2>6. AltInv'
    BY <1>1, <1>3, SameAlt DEF MainOverwrites, altvars
  <2>7. TxsIn(cur) \subseteq Tx
    BY <2>1, BlockFacts
  <2>8. TypeOK'
    BY <1>1, <1>3, <2>1, <2>4, <2>5, <2>7 DEF TypeOK, MainOverwrites, Goto, Phases, altvars
  <2> QED
    BY <1>3, <2>1, <2>4, <2>5, <2>6, <2>8 DEF Stray, MainOverwrites, Goto
<1>4. ASSUME NEW b \in Block, AltSwitchAstray(b)
      PROVE  Stray' /\ Short /\ UNCHANGED stale /\ Len(saved'.blocks) = Len(saved.blocks)
  <2>1. /\ phase = "idle" /\ db = saved /\ stale # Absent /\ stale <= Len(db.blocks)
        /\ db' = db /\ saved' = saved /\ stale' = stale
    BY <1>1, <1>4 DEF AltSwitchAstray, IsAlternative, IsNew, PhaseInv, chainvars
  <2>2. Short
    BY <1>1, <1>2, <2>1 DEF Short, PhaseInv
  <2>3. /\ alt' \subseteq Block /\ alt_ki' \in [KeyImage -> SUBSET Block]
        /\ alt_txs' \in [Tx -> Nat] /\ AltInv'
    BY <1>1, <1>4, AddAltKeeps DEF AltSwitchAstray, handle_alternative_block
  <2>4. TypeOK'
    BY <1>1, <1>4, <2>1, <2>3 DEF TypeOK, AltSwitchAstray, Goto, Phases, poolvars
  <2> QED
    BY <1>4, <2>1, <2>2, <2>3, <2>4 DEF Stray, AltSwitchAstray, Goto
<1>5. CASE TruncateAstray
  <2>1. phase = "idle" /\ Short /\ db = saved /\ UNCHANGED <<chainvars, altvars>>
    BY <1>1, <1>5 DEF TruncateAstray, PhaseInv
  <2>2. AltInv'
    BY <1>1, <2>1, SameAlt DEF altvars
  <2>3. TypeOK'
    BY <1>1, <1>5 DEF TypeOK, TruncateAstray, Goto, Phases, chainvars, altvars, poolvars
  <2> QED
    BY <1>5, <2>1, <2>2, <2>3 DEF Stray, TruncateAstray, Goto, chainvars
<1> QED
  BY <1>3, <1>4, <1>5 DEF GoesAstray

-----------------------------------------------------------------------------
(* Every step of a node is one of a node whose indexes are right, or the   *)
(* one with which it goes astray.                                          *)
LEMMA StepKinds ==
    ASSUME Sound, [Next]_vars
    PROVE  Sound' \/ GoesAstray
<1>1. CASE AddNewBlock
  BY <1>1, MainStep, AltStep, ConnectStep, PushStep, EndStep DEF AddNewBlock, GoesAstray
<1>2. CASE Truncate
  BY <1>2, TruncateStep DEF Truncate, GoesAstray
<1>3. CASE Environment
  BY <1>3, EnvironmentStep DEF Environment, SideStep
<1>4. CASE UNCHANGED vars
  <2>1. UNCHANGED <<chainvars, altvars, poolvars, clock, callvars, rx>>
    BY <1>4 DEF vars
  <2>2. Good(db') /\ Good(saved') /\ PhaseInv'
    BY <2>1, SameCall
  <2>3. TakenInv' /\ LookupInv'
    BY <2>1, SameChainAndPool
  <2>4. AltInv'
    BY <2>1, SameAlt DEF Sound, altvars
  <2>5. TypeOK'
    BY <2>1 DEF Sound, TypeOK, chainvars, altvars, poolvars, callvars
  <2> QED
    BY <2>2, <2>3, <2>4, <2>5 DEF Sound
<1> QED
  BY <1>1, <1>2, <1>3, <1>4 DEF Next, Astray

(* A node that is astray stays so, and stores nothing more.                *)
LEMMA StrayStays ==
    ASSUME Stray, [Next]_vars
    PROVE  /\ Stray' /\ UNCHANGED <<chainvars, invalid>>
           /\ UNCHANGED vars \/ SideStep
<1>1. TypeOK /\ AltInv /\ phase = "astray" /\ db = saved
  BY DEF Stray
<1>2. UNCHANGED vars \/ SideStep
  BY <1>1 DEF Next, AddNewBlock, Truncate, Environment, Astray, SideStep,
     AddToMain, AltRefused, AltKept, AltSwitch, AltSwitchAstray, BackThrows, IsAlternative, IsNew,
     MainAccepted, MainRefused, MainOverwrites, SwitchPop, SwitchPopped, SwitchConnect,
     SwitchRefused, SwitchConnected, SwitchPush, SwitchPushOrphaned, SwitchPushRefused, SwitchDone,
     Commit, Finalize, Exception, TruncateBegin, TruncatePop, TruncateEnd, TruncateNothing,
     TruncateAstray, Crash
<1>3. CASE UNCHANGED vars
  <2>1. TypeOK' /\ AltInv'
    BY <1>1, <1>3 DEF vars, TypeOK, AltInv, AltTxsCounted, chainvars, altvars, poolvars, callvars
  <2> QED
    BY <1>1, <1>3, <2>1 DEF Stray, vars, chainvars, altvars, callvars
<1>4. CASE SideStep
  <2>1. TypeOK' /\ AltInv' /\ UNCHANGED <<chainvars, callvars>>
    BY <1>1, <1>4, SideStepKeeps
  <2>2. invalid' = invalid
    BY <1>4 DEF SideStep, AddTxLookup, AddTxInsert, RemoveStuck, PurgeTransactions,
       PruneAgedAltBlocks, ClearAltBlocks, SetClock, altvars
  <2> QED
    BY <1>1, <1>4, <2>1, <2>2 DEF Stray, chainvars, callvars
<1> QED
  BY <1>2, <1>3, <1>4

(* IInv is kept by every step.                                             *)
LEMMA NextIInv == IInv /\ [Next]_vars => IInv'
BY StepKinds, AstrayStep, StrayStays DEF IInv

(* In every reachable state, whatever blocks and transactions the network  *)
(* offers and whatever goes wrong meanwhile, the chain and its indexes are *)
(* right, aborted transactions and the sizes they leave behind included,   *)
(* or the node has gone astray.                                            *)
THEOREM Invariance == Spec => []IInv
<1>1. Init => IInv
  BY InitSound DEF IInv
<1>2. IInv /\ [Next]_vars => IInv'
  BY NextIInv
<1> QED
  BY <1>1, <1>2, PTL DEF Spec

(* Every variable of the node keeps its type.                              *)
THEOREM TypeCorrect == Spec => []TypeOK
<1>1. IInv => TypeOK
  BY DEF IInv, Sound, Stray
<1> QED
  BY <1>1, Invariance, PTL

(* handle_block_to_main_chain and pop_block_from_blockchain keep the       *)
(* indexes exact at every step of a switch, and an abort restores them: no *)
(* key image is spent twice and no transaction stored twice, until         *)
(* m_db_blocks is written with the size of a chain that was aborted.       *)
THEOREM ChainAlwaysConsistent == Spec => []ChainConsistent
<1>1. IInv => ChainConsistent
  BY DEF IInv, Sound, Stray, Good, ChainConsistent
<1> QED
  BY <1>1, Invariance, PTL

(* m_alternative_chains_txs counts exactly the alternative blocks of each  *)
(* transaction, although its blocks are erased by several threads.         *)
THEOREM AltTxsExact == Spec => []AltTxsCounted
<1>1. IInv => AltTxsCounted
  BY DEF IInv, Sound, Stray, AltInv
<1> QED
  BY <1>1, Invariance, PTL

(* Only a commit changes what the other threads see of the chain.          *)
LEMMA SavedChanges ==
    ASSUME [Next]_vars
    PROVE  saved' = saved \/ Commit \/ TruncateEnd \/ MainOverwrites
<1>1. ASSUME AddNewBlock PROVE saved' = saved \/ Commit \/ MainOverwrites
  BY <1>1 DEF AddNewBlock, AddToMain, AltRefused, AltKept, AltSwitch, AltSwitchAstray, BackThrows,
     MainAccepted, MainRefused, SwitchPop, SwitchPopped, SwitchConnect, SwitchRefused,
     SwitchConnected, SwitchPush, SwitchPushOrphaned, SwitchPushRefused, SwitchDone, Finalize,
     Exception, AbortTransaction, chainvars
<1>2. ASSUME Truncate PROVE saved' = saved \/ TruncateEnd
  BY <1>2 DEF Truncate, TruncateBegin, TruncatePop, TruncateNothing, TruncateAstray, chainvars
<1>3. ASSUME Environment PROVE saved' = saved
  BY <1>3 DEF Environment, AddTxLookup, AddTxInsert, RemoveStuck, PurgeTransactions,
     PruneAgedAltBlocks, ClearAltBlocks, SetClock, Crash, chainvars
<1>4. ASSUME UNCHANGED vars PROVE saved' = saved
  BY <1>4 DEF vars, chainvars
<1> QED
  BY <1>1, <1>2, <1>3, <1>4 DEF Next, Astray

(* The committed chain is only extended by one block, exchanged for one    *)
(* that is_reorganize_required prefers, or truncated: a switch that fails  *)
(* at any of its steps leaves it alone.  The one exception is the write    *)
(* with which a node goes astray, and it takes a size that an abort has    *)
(* left too small.                                                         *)
THEOREM BetterOnly == Spec => OnlyToBetter
<1>1. ASSUME IInv, [Next]_vars
      PROVE  saved'.blocks # saved.blocks =>
               \/ Height(Top(saved')) > 0 /\ Prev(Top(saved')) = Top(saved)
               \/ is_reorganize_required(Top(saved), Top(saved'))
               \/ phase = "truncating" \/ (Short /\ phase' = "astray")
  <2>1. CASE saved' = saved
    BY <2>1
  <2>2. CASE Stray
    <3>1. saved' = saved
      BY <1>1, <2>2, StrayStays DEF chainvars
    <3> QED
      BY <3>1
  <2>3. CASE Sound /\ Commit
    <3>1. saved' = db /\ (ExtendsTop(Top(db)) \/ TakesOver(Top(db)))
      BY <2>3 DEF Commit, Sound, PhaseInv
    <3> QED
      BY <3>1 DEF ExtendsTop, TakesOver
  <2>4. CASE TruncateEnd
    BY <2>4 DEF TruncateEnd
  <2>5. CASE Sound /\ MainOverwrites
    BY <2>5, AstrayStep DEF GoesAstray, Stray
  <2> QED
    BY <1>1, <2>1, <2>2, <2>3, <2>4, <2>5, SavedChanges DEF IInv
<1> QED
  BY <1>1, Invariance, PTL DEF Spec, OnlyToBetter

(* add_new_tx asks the pool before it asks the chain, and yet never puts   *)
(* into the pool what a block has meanwhile taken from it: m_taken_txs     *)
(* outlives the commit.                                                    *)
THEOREM NeverReadmitted == Spec => NoReadmission
<1>1. ASSUME IInv, [Next]_vars
      PROVE  \A r \in rx : rx' = {} /\ ~r.known /\ r.tx \in pool' \ pool => db.txs[r.tx] = Absent
  <2>1. CASE Sound
    BY <2>1 DEF Sound, LookupInv
  <2>2. CASE Stray
    <3>1. db = saved /\ (UNCHANGED vars \/ SideStep)
      BY <1>1, <2>2, StrayStays DEF Stray
    <3>2. ASSUME NEW r \in rx, AddTxInsert(r)
          PROVE  \A q \in rx : rx' = {} /\ q.tx \in pool' \ pool => db.txs[q.tx] = Absent
      BY <3>1, <3>2 DEF AddTxInsert
    <3>3. CASE pool' \subseteq pool
      BY <3>3
    <3> QED
      BY <3>1, <3>2, <3>3 DEF SideStep, AddTxLookup, RemoveStuck, PurgeTransactions,
         PruneAgedAltBlocks, ClearAltBlocks, SetClock, vars, poolvars
  <2> QED
    BY <1>1, <2>1, <2>2 DEF IInv
<1> QED
  BY <1>1, Invariance, PTL DEF Spec, NoReadmission

(* A chain that is high enough has the required block at a checkpoint, and *)
(* with it the path that leads there.                                      *)
LEMMA CheckpointFixesPrefix ==
    ASSUME NEW d, Good(d), NEW c \in DOMAIN Checkpoints, TopHeight(d) >= c
    PROVE  /\ c + 1 \in 1 .. Len(d.blocks) /\ d.blocks[c + 1] = Checkpoints[c]
           /\ \A j \in 1 .. c + 1 : d.blocks[j] = Path[Checkpoints[c]][j]
<1>1. c \in Nat /\ Len(d.blocks) \in Nat
  BY CheckpointAssumption, GoodFacts
<1>2. c + 1 \in 1 .. Len(d.blocks)
  BY <1>1 DEF TopHeight
<1>3. CheckpointOk(c, d.blocks[c + 1])
  <2>1. CheckpointOk((c + 1) - 1, d.blocks[c + 1])
    BY <1>2 DEF Good, Checkpointed
  <2>2. (c + 1) - 1 = c
    BY <1>1
  <2> QED
    BY <2>1, <2>2
<1>4. is_in_checkpoint_zone(c)
  BY <1>1 DEF is_in_checkpoint_zone
<1>5. d.blocks[c + 1] = Checkpoints[c]
  BY <1>3, <1>4 DEF CheckpointOk, check_block
<1>6. \A j \in 1 .. c + 1 : Path[d.blocks[c + 1]][j] = d.blocks[j]
  BY <1>2 DEF Good, Linked
<1> QED
  BY <1>2, <1>5, <1>6

(* A chain that takes over reaches every checkpoint that the committed one *)
(* has passed.                                                             *)
LEMMA TakeoverPassesCheckpoints ==
    ASSUME Good(db), Good(saved), ExtendsTop(Top(db)) \/ TakesOver(Top(db)),
           NEW c \in DOMAIN Checkpoints, TopHeight(saved) >= c
    PROVE  TopHeight(db) >= c
<1> DEFINE h == TopHeight(db)
<1>1. /\ c \in Nat /\ Len(db.blocks) \in Nat \ {0} /\ Len(saved.blocks) \in Nat \ {0}
      /\ Top(db) \in Block /\ Len(Path[Top(db)]) = Len(db.blocks)
      /\ Len(Path[Top(saved)]) = Len(saved.blocks)
  BY CheckpointAssumption, GoodFacts
<1>2. h = Height(Top(db)) /\ h \in Nat
  BY <1>1 DEF TopHeight, Height
<1>3. CASE ExtendsTop(Top(db))
  <2>1. Len(Path[Prev(Top(db))]) = Len(Path[Top(db)]) - 1
    <3>1. Len(Path[Top(db)]) - 1 \in 1 .. Len(Path[Top(db)])
      BY <1>1, <1>3 DEF ExtendsTop, Height
    <3> QED
      BY <1>1, <3>1, PathFacts DEF Prev
  <2> QED
    BY <1>1, <1>3, <2>1 DEF ExtendsTop, TopHeight
<1>4. CASE TakesOver(Top(db))
  <2> SUFFICES ASSUME h < c PROVE FALSE
    BY <1>1, <1>2
  <2> DEFINE S == {e \in DOMAIN Checkpoints : h <= e}
  <2>1. S \in SUBSET Nat /\ c \in S
    BY <1>1, <1>2, CheckpointAssumption
  <2>2. PICK m \in S : \A e \in S : m <= e
    BY <2>1, LeastNumber
  <2>3. m <= TopHeight(saved) /\ h <= TopHeight(saved)
    <3>1. m <= c /\ m \in Nat /\ TopHeight(saved) \in Int
      BY <1>1, <2>1, <2>2 DEF TopHeight
    <3> HIDE DEF h, S
    <3> QED
      BY <1>1, <1>2, <3>1
  <2>4. \A e \in DOMAIN Checkpoints : h <= e => m <= e
    BY <2>2
  <2>5. is_height_passed_zone(h, TopHeight(saved))
    BY <2>2, <2>3, <2>4 DEF is_height_passed_zone
  <2> QED
    BY <1>2, <1>4, <2>5 DEF TakesOver
<1> QED
  BY <1>3, <1>4

(* Two chains that agree up to a checkpoint.                               *)
LEMMA SamePrefix ==
    ASSUME NEW d, Good(d), NEW e, Good(e), NEW c \in DOMAIN Checkpoints,
           TopHeight(d) >= c, TopHeight(e) >= c
    PROVE  SubSeq(d.blocks, 1, c + 1) = SubSeq(e.blocks, 1, c + 1)
<1> DEFINE n == c + 1
           s == SubSeq(d.blocks, 1, n)
           t == SubSeq(e.blocks, 1, n)
<1>1. c \in Nat /\ n \in Int /\ n >= 1
  BY CheckpointAssumption
<1>2. /\ n \in 1 .. Len(d.blocks) /\ n \in 1 .. Len(e.blocks)
      /\ \A j \in 1 .. n : d.blocks[j] = e.blocks[j]
  BY CheckpointFixesPrefix
<1>3. d.blocks \in Seq(Block) /\ e.blocks \in Seq(Block)
  BY GoodFacts
<1>4. \A j \in 1 .. n : d.blocks[j] \in Block /\ e.blocks[j] \in Block
  BY <1>1, <1>2, <1>3
<1> HIDE DEF n
<1>5. s \in Seq(Block) /\ Len(s) = n /\ \A i \in 1 .. n : s[i] = d.blocks[i]
  BY <1>1, <1>2, <1>3, <1>4
<1>6. t \in Seq(Block) /\ Len(t) = n /\ \A i \in 1 .. n : t[i] = e.blocks[i]
  BY <1>1, <1>2, <1>3, <1>4
<1> HIDE DEF s, t
<1>7. Len(s) = Len(t) /\ \A i \in 1 .. Len(s) : s[i] = t[i]
  BY <1>2, <1>5, <1>6
<1>8. s = t
  BY <1>5, <1>6, <1>7, SeqEqual
<1> QED
  BY <1>8 DEF s, t, n

(* The blocks up to a checkpoint that the committed chain has passed are   *)
(* those that lead to the required block, and no add_new_block, however it *)
(* ends, replaces one of them, unless the node goes astray.                *)
THEOREM CheckpointFinal == Spec => CheckpointFinality
<1>1. ASSUME IInv, [Next]_vars
      PROVE  \A c \in DOMAIN Checkpoints :
               TopHeight(saved) >= c /\ phase # "truncating" /\ phase' # "astray" =>
                 /\ saved.blocks[c + 1] = Checkpoints[c]
                 /\ TopHeight(saved') >= c
                 /\ SubSeq(saved'.blocks, 1, c + 1) = SubSeq(saved.blocks, 1, c + 1)
  <2> SUFFICES ASSUME NEW c \in DOMAIN Checkpoints, TopHeight(saved) >= c, phase # "truncating",
                      phase' # "astray"
               PROVE  /\ saved.blocks[c + 1] = Checkpoints[c]
                      /\ TopHeight(saved') >= c
                      /\ SubSeq(saved'.blocks, 1, c + 1) = SubSeq(saved.blocks, 1, c + 1)
    OBVIOUS
  <2>1. Sound
    BY <1>1, StrayStays DEF IInv, Stray
  <2>2. Good(db) /\ Good(saved) /\ PhaseInv
    BY <2>1 DEF Sound
  <2>3. saved.blocks[c + 1] = Checkpoints[c]
    BY <2>2, CheckpointFixesPrefix
  <2>4. CASE saved' = saved
    BY <2>3, <2>4
  <2>5. CASE Commit
    <3>1. saved' = db /\ (ExtendsTop(Top(db)) \/ TakesOver(Top(db)))
      BY <2>2, <2>5 DEF Commit, PhaseInv
    <3>2. TopHeight(db) >= c
      BY <2>2, <3>1, TakeoverPassesCheckpoints
    <3>3. SubSeq(db.blocks, 1, c + 1) = SubSeq(saved.blocks, 1, c + 1)
      BY <2>2, <3>2, SamePrefix
    <3> QED
      BY <2>3, <3>1, <3>2, <3>3
  <2>6. CASE TruncateEnd
    BY <2>6 DEF TruncateEnd
  <2>7. CASE MainOverwrites
    BY <2>7 DEF MainOverwrites, Goto
  <2> QED
    BY <1>1, <2>4, <2>5, <2>6, <2>7, SavedChanges
<1> QED
  BY <1>1, Invariance, PTL DEF Spec, CheckpointFinality
=============================================================================
