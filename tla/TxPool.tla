------------------------------- MODULE TxPool -------------------------------
(***************************************************************************)
(* currency::tx_memory_pool (tx_pool.cpp) with the chain above it and the  *)
(* miner beside it: what the pool's containers say of the transactions in  *)
(* it, which transactions a block template takes from it, and what becomes *)
(* of the block that is made of the template.                              *)
(*                                                                         *)
(* Three threads take part: the one that handles incoming transactions     *)
(* (m_incoming_tx_lock lets in one at a time; it releases the locks of the *)
(* chain and of the pool between its steps), the one that handles blocks   *)
(* (it keeps m_read_lock, so the chain does not move under a reader), and  *)
(* the miner.  The pool has a database of its own, which is not undone     *)
(* when a block or a switch is.                                            *)
(*                                                                         *)
(* A transaction is what the rules tell apart: its key images, the         *)
(* transaction whose outputs it spends, whether its signatures are good,   *)
(* fee and size, the alias it registers, the offers it cancels, its        *)
(* multisig inputs and outputs and when it expires.  Blockchain models the *)
(* switch in detail; here a switch replaces the top block by two others.   *)
(***************************************************************************)
EXTENDS Integers, Sequences, FiniteSets, SequencesExt

CONSTANTS
    Tx,           \* transactions
    NoTx,         \* no transaction, no alias
    Images,       \* Images[t]: key images
    Source,       \* Source[t]: the transaction whose outputs t refers to, or NoTx
    Signed,       \* transactions with good signatures
    Fee, Size,
    Alias,        \* Alias[t]: the alias that t registers or updates, or NoTx
    Updates,      \* transactions that update an alias, signed by its owner
    Cancels,      \* Cancels[t]: the offers that t cancels (at most one)
    Granted,      \* cancellations the offers service agrees with
    Contracts,    \* transactions that finalize a contract
    MsIns, MsOuts,\* multisig outputs spent and made
    Expiry,       \* Expiry[t]: the size of the chain from which on t is expired
    MinFee,       \* get_tx_minimum_fee
    FreeSize,     \* CURRENCY_FREE_TX_MAX_BLOB_SIZE
    MaxAliases,   \* MAX_ALIAS_PER_BLOCK
    MaxBlockSize, \* twice the median
    Reward,       \* Reward[s]: get_block_reward for a block of size s
    Checkpoints,  \* the possible heights of the top checkpoint
    MaxBlocks,    \* bound: blocks that are ever made
    MaxEvents,    \* bound: incoming transactions and clean-ups
    MaxForeign    \* bound: transactions of a block of the network

ASSUME TxAssumption ==
    /\ NoTx \notin Tx
    /\ DOMAIN Images = Tx /\ DOMAIN Alias = Tx /\ DOMAIN Cancels = Tx
    /\ Source \in [Tx -> Tx \cup {NoTx}] /\ Signed \subseteq Tx
    /\ Fee \in [Tx -> Nat] /\ Size \in [Tx -> Nat \ {0}] /\ Expiry \in [Tx -> Nat]
    /\ Updates \subseteq Tx /\ Granted \subseteq Tx /\ Contracts \subseteq Tx
    /\ \A t \in Tx : Cardinality(Cancels[t]) <= 1
    /\ Checkpoints \subseteq Nat /\ MaxBlockSize \in Nat /\ Reward \in [0 .. MaxBlockSize -> Nat]

VARIABLES
    checkpoint,\* height of the top checkpoint, 0 if there is none
    pool,      \* the pool's containers, and m_taken_txs
    chain,     \* the main chain
    zone,      \* m_is_in_checkpoint_zone
    incoming,  \* the incoming transaction that is being handled
    template,  \* the block the miner works on
    made,      \* how many blocks were made, for their ids
    events,    \* how many transactions came and clean-ups were made
    raced      \* history: transactions that add_tx has let in after a block had taken them

vars == <<checkpoint, pool, chain, zone, incoming, template, made, events, raced>>

KeyImage == UNION Range(Images)
Offer    == UNION Range(Cancels)
NoBlock  == -1                          \* null_hash
NoneUsed == [height |-> 0, id |-> NoBlock]
Details  == [kept : BOOLEAN, used : [height : Nat, id : Nat \cup {NoBlock}],
             failed : Nat \cup {NoBlock}]
Nothing  == [stage |-> "none"]
NoTemplate == [prev |-> NoBlock, txs |-> <<>>, fee |-> 0]

TypeOK ==
    /\ DOMAIN pool = {"txs", "images", "offers", "aliases", "black", "taken"}
    /\ DOMAIN pool.txs \subseteq Tx /\ \A t \in DOMAIN pool.txs : pool.txs[t] \in Details
    /\ pool.images \in [KeyImage -> Nat]
    /\ pool.offers \subseteq Offer /\ pool.aliases \subseteq Range(Alias) \ {NoTx}
    /\ pool.black \subseteq Tx /\ pool.taken \subseteq Tx
    /\ chain \in Seq([id : Nat, txs : Seq(Tx)]) /\ chain # <<>>
    /\ zone \in BOOLEAN /\ made \in Nat /\ events \in Nat
    /\ incoming.stage \in {"none", "looked", "admitted", "checked"}
    /\ template.prev \in Nat \cup {NoBlock} /\ template.txs \in Seq(Tx) /\ template.fee \in Nat

-----------------------------------------------------------------------------
(***************************************************************************)
(* The chain, as the pool asks it.                                         *)
(***************************************************************************)
TxsOf(ch) == UNION {Range(ch[i].txs) : i \in DOMAIN ch}
Spent(ch) == UNION {Images[t] : t \in TxsOf(ch)}
MsMade(ch)  == UNION {MsOuts[t] : t \in TxsOf(ch)}
MsSpent(ch) == UNION {MsIns[t] : t \in TxsOf(ch)}
Registered(ch) == {Alias[t] : t \in TxsOf(ch)} \ {NoTx}
is_tx_expired(t, ch) == Len(ch) >= Expiry[t]
TopId(ch) == ch[Len(ch)].id
HasId(ch, height, id) == height \in DOMAIN ch /\ ch[height].id = id
OnChain(ch, id) == \E i \in DOMAIN ch : ch[i].id = id

(* In the zone of checkpoints signatures are not looked at.                *)
check_tx_inputs(t, ch, z) ==
    /\ Images[t] \cap Spent(ch) = {}
    /\ Source[t] \in TxsOf(ch) \cup {NoTx}
    /\ MsIns[t] \subseteq MsMade(ch) \ MsSpent(ch)
    /\ z \/ t \in Signed

(* The highest block with an output it refers to.                          *)
MaxUsed(t, ch) ==
    LET related(u) == u = Source[t] \/ MsOuts[u] \cap MsIns[t] # {}
        h == Max({1} \cup {i \in DOMAIN ch : \E u \in Range(ch[i].txs) : related(u)})
    IN  [height |-> h, id |-> ch[h].id]

-----------------------------------------------------------------------------
(***************************************************************************)
(* The pool's containers.  d is their contents.                            *)
(***************************************************************************)
Init ==
    /\ pool = [txs |-> <<>>, images |-> [k \in KeyImage |-> 0], offers |-> {}, aliases |-> {},
               black |-> {}, taken |-> {}]
    /\ chain = <<[id |-> 0, txs |-> <<>>]>>
    /\ checkpoint \in Checkpoints /\ zone = (checkpoint > 0)
    /\ incoming = Nothing /\ template = NoTemplate
    /\ made = 0 /\ events = 0 /\ raced = {}

have_tx(d, t) == t \in DOMAIN d.txs \cup d.taken
have_tx_keyimges_as_spent(d, t) == \E k \in Images[t] : d.images[k] > 0

(* Images of transactions that came with a block are not counted.          *)
on_tx_add(d, t, kept) ==
    [d EXCEPT !.images = [k \in KeyImage |-> IF k \in Images[t] /\ ~kept THEN @[k] + 1 ELSE @[k]],
              !.aliases = @ \cup ({Alias[t]} \ {NoTx})]

(* Mutant: an image that is not counted is removed all the same.           *)
on_tx_remove_unchecked(d, t, kept) ==
    [d EXCEPT !.images = [k \in KeyImage |-> IF k \in Images[t] /\ ~kept THEN @[k] - 1 ELSE @[k]],
              !.aliases = @ \ {Alias[t]}]
(* Mutant: the images of a transaction that came with a block are removed  *)
(* although they were not counted.                                         *)
on_tx_remove_even_kept(d, t, kept) ==
    [d EXCEPT !.images = [k \in KeyImage |-> IF k \in Images[t] /\ @[k] > 0
                                             THEN @[k] - 1 ELSE @[k]],
              !.aliases = @ \ {Alias[t]}]
on_tx_remove(d, t, kept) ==
    [d EXCEPT !.images = [k \in KeyImage |-> IF k \in Images[t] /\ ~kept /\ @[k] > 0
                                             THEN @[k] - 1 ELSE @[k]],
              !.aliases = @ \ {Alias[t]}]

(* The offers of a cancellation are marked; only the first one is free.    *)
CancelAccepted(d, t, validate) ==
    Cancels[t] # {} /\ (validate => t \in Granted) /\ Cancels[t] \cap d.offers = {}
process_cancel_offer_rules(d, t, validate) ==
    IF CancelAccepted(d, t, validate) THEN [d EXCEPT !.offers = @ \cup Cancels[t]] ELSE d
unprocess_cancel_offer_rules(d, t) == [d EXCEPT !.offers = @ \ Cancels[t]]

is_valid_contract_finalization_tx(t, ch) == t \in Contracts /\ MsIns[t] \subseteq MsMade(ch)

(* "soft rule": a fee below the minimum is refused, unless ...             *)
FeeAccepted(d, t, validate, min, ch, z) ==
    \/ z \/ Fee[t] >= min
    \/ CancelAccepted(d, t, validate) /\ Size[t] <= FreeSize
    \/ ~CancelAccepted(d, t, validate) /\ is_valid_contract_finalization_tx(t, ch)

Erased(d, t) == [d EXCEPT !.txs = [u \in DOMAIN @ \ {t} |-> @[u]]]

do_insert_transaction(d, t, kept, used) ==
    on_tx_add([d EXCEPT !.txs = [u \in DOMAIN @ \cup {t} |->
                  IF u = t THEN [kept |-> kept, used |-> used, failed |-> NoBlock] ELSE @[u]]],
              t, kept)

(* add_tx for a transaction that comes from the chain: nothing but the fee *)
(* is a reason to refuse it.                                               *)
add_tx_from_core(d, t, min, ch, z) ==
    LET marked == process_cancel_offer_rules(d, t, FALSE)
        used   == IF check_tx_inputs(t, ch, z) THEN MaxUsed(t, ch) ELSE NoneUsed
    IN  IF FeeAccepted(d, t, FALSE, min, ch, z) THEN do_insert_transaction(marked, t, TRUE, used)
                                                ELSE marked

take_tx(d, t) ==
    LET kept == d.txs[t].kept IN
    [on_tx_remove(Erased(unprocess_cancel_offer_rules(d, t), t), t, kept)
        EXCEPT !.taken = @ \cup {t}]

add_transaction_to_black_list(d, t) == [d EXCEPT !.black = @ \cup {t}]
on_finalize_db_transaction(d) == [d EXCEPT !.taken = {}]

MsIds(t) == MsIns[t] \cup MsOuts[t]
check_tx_multisig_ins_and_outs(d, t, ch, againstPool) ==
    /\ MsOuts[t] \cap MsMade(ch) = {}
    /\ againstPool => \A u \in DOMAIN d.txs : MsIds(u) \cap MsIds(t) = {}

-----------------------------------------------------------------------------
(***************************************************************************)
(* Incoming transactions: core::add_new_tx and add_tx.                     *)
(***************************************************************************)
LookUp(t, kept) ==
    /\ incoming = Nothing /\ events < MaxEvents
    /\ ~have_tx(pool, t)
    /\ incoming' = [stage |-> "looked", tx |-> t, kept |-> kept, used |-> NoneUsed]
    /\ events' = events + 1
    /\ UNCHANGED <<checkpoint, pool, chain, zone, template, made, raced>>

validate_alias_info(t, kept) ==
    \/ kept \/ Alias[t] = NoTx
    \/ /\ Alias[t] \in Registered(chain) => t \in Updates
       /\ Alias[t] \notin pool.aliases

Admissible(t, kept) ==
    \/ zone
    \/ /\ kept \/ ~is_tx_expired(t, chain)
       /\ validate_alias_info(t, kept)
       /\ kept \/ ~have_tx_keyimges_as_spent(pool, t)
       /\ kept \/ check_tx_multisig_ins_and_outs(pool, t, chain, TRUE)

Admit ==
    /\ incoming.stage = "looked"
    /\ LET t == incoming.tx
           validate == ~incoming.kept
       IN  IF t \in TxsOf(chain) \/ ~Admissible(t, incoming.kept)
           THEN incoming' = Nothing /\ UNCHANGED pool
           ELSE /\ pool' = process_cancel_offer_rules(pool, t, validate)
                /\ incoming' = IF FeeAccepted(pool, t, validate, MinFee, chain, zone)
                               THEN [incoming EXCEPT !.stage = "admitted"] ELSE Nothing
    /\ UNCHANGED <<checkpoint, chain, zone, template, made, events, raced>>

CheckInputs ==
    /\ incoming.stage = "admitted"
    /\ LET t  == incoming.tx
           ok == check_tx_inputs(t, chain, zone)
       IN  incoming' = IF ok \/ incoming.kept
                       THEN [incoming EXCEPT !.stage = "checked",
                                             !.used = IF ok THEN MaxUsed(t, chain) ELSE NoneUsed]
                       ELSE Nothing
    /\ UNCHANGED <<checkpoint, pool, chain, zone, template, made, events, raced>>

Insert ==
    /\ incoming.stage = "checked"
    /\ pool' = do_insert_transaction(pool, incoming.tx, incoming.kept, incoming.used)
    /\ incoming' = Nothing
    /\ raced' = raced \cup {t \in {incoming.tx} : ~incoming.kept /\ t \in TxsOf(chain)}
    /\ UNCHANGED <<checkpoint, chain, zone, template, made, events>>

-----------------------------------------------------------------------------
(***************************************************************************)
(* Blocks.  A result is [d, ch, z, ok]: the pool, the chain and the zone   *)
(* after it, and whether the block was accepted.                           *)
(***************************************************************************)
FeesOf(txs) == FoldLeft(LAMBDA s, t : s + Fee[t], 0, txs)
SizeOf(txs) == FoldLeft(LAMBDA s, t : s + Size[t], 0, txs)

(* purge_block_data_from_blockchain: the last n transactions of the top    *)
(* block go back to the pool, the last one first.                          *)
WithTop(ch, txs) == [ch EXCEPT ![Len(ch)].txs = txs]
(* Mutant: they do not.                                                    *)
PurgeTop_drops(d, ch, z) == d
PurgeTop(d, ch, z) ==
    LET txs  == ch[Len(ch)].txs
        left(i) == WithTop(ch, SubSeq(txs, 1, Len(txs) - i))
        back[i \in 0 .. Len(txs)] ==
            IF i = 0 THEN d
            ELSE add_tx_from_core(back[i - 1], txs[Len(txs) + 1 - i], 0, left(i), z)
    IN  back[Len(txs)]

(* add_transaction_from_block.                                             *)
Appendable(t, ch) ==
    /\ ~is_tx_expired(t, SubSeq(ch, 1, Len(ch) - 1))
    /\ Alias[t] \in Registered(ch) => t \in Updates
    /\ t \notin TxsOf(ch)

(* Mutant: a transaction that spoils a block is not remembered.            *)
AddFromBlock_not_black(r, t, z) ==
    IF ~r.ok THEN r
    ELSE IF t \notin DOMAIN r.d.txs THEN [r EXCEPT !.ok = FALSE]
    ELSE LET d == take_tx(r.d, t) IN
         IF check_tx_inputs(t, r.ch, z) /\ Appendable(t, r.ch)
         THEN [r EXCEPT !.d = d, !.ch = WithTop(@, Append(@[Len(@)].txs, t))]
         ELSE [r EXCEPT !.d = add_tx_from_core(d, t, MinFee, r.ch, z), !.ok = FALSE]

AddFromBlock(r, t, z) ==
    IF ~r.ok THEN r
    ELSE IF t \notin DOMAIN r.d.txs THEN [r EXCEPT !.ok = FALSE]
    ELSE LET d == take_tx(r.d, t) IN
         IF check_tx_inputs(t, r.ch, z) /\ Appendable(t, r.ch)
         THEN [r EXCEPT !.d = d, !.ch = WithTop(@, Append(@[Len(@)].txs, t))]
         ELSE [r EXCEPT !.d = add_transaction_to_black_list(
                                  add_tx_from_core(d, t, MinFee, r.ch, z), t),
                        !.ok = FALSE]

NewAliases(ch) == Registered(ch) \ Registered(SubSeq(ch, 1, Len(ch) - 1))
MinerTxValid(b) == b.fee = FeesOf(b.txs) /\ SizeOf(b.txs) <= MaxBlockSize

handle_block_to_main_chain(d, ch, b) ==
    LET z == Len(ch) <= checkpoint
        added[i \in 0 .. Len(b.txs)] ==
            IF i = 0 THEN [d |-> d, ch |-> Append(ch, [id |-> b.id, txs |-> <<>>]), ok |-> TRUE]
                     ELSE AddFromBlock(added[i - 1], b.txs[i], z)
        r == added[Len(b.txs)]
    IN  IF r.ok /\ Cardinality(NewAliases(r.ch)) <= MaxAliases /\ MinerTxValid(b)
        THEN [d |-> r.d, ch |-> r.ch, z |-> z, ok |-> TRUE]
        ELSE [d |-> PurgeTop(r.d, r.ch, z), ch |-> ch, z |-> z, ok |-> FALSE]

add_new_block(b) ==
    LET r == handle_block_to_main_chain(pool, chain, b) IN
    /\ pool' = on_finalize_db_transaction(r.d)
    /\ chain' = r.ch /\ zone' = r.z
    /\ made' = made + 1

Block(id, txs) == [id |-> id, txs |-> txs, fee |-> FeesOf(txs)]
TxLists == UNION {Injection(1 .. n, Tx) : n \in 0 .. MaxForeign}

(* A block of the network on top of our chain.                             *)
NetworkBlock(txs) ==
    /\ made < MaxBlocks
    /\ add_new_block(Block(made + 1, txs))
    /\ UNCHANGED <<checkpoint, incoming, template, events, raced>>

(* switch_to_alternative_blockchain: the top block goes, two others come.  *)
(* A failed switch leaves the chain as it was, but not the pool, which has *)
(* the transactions of the old and of the new blocks, nor the taken ones.  *)
PopBlock(d, ch, z) == PurgeTop(d, ch, z)
Rollback(d, ch, z) ==
    LET txs == ch[Len(ch)].txs
        back[i \in 0 .. Len(txs)] ==
            IF i = 0 THEN d ELSE add_tx_from_core(back[i - 1], txs[i], 0, ch, z)
    IN  back[Len(txs)]

Switch(txs1, txs2) ==
    /\ made + 2 <= MaxBlocks /\ Len(chain) > 1
    /\ LET base   == SubSeq(chain, 1, Len(chain) - 1)
           popped == PopBlock(pool, chain, zone)
           first  == handle_block_to_main_chain(popped, base, Block(made + 1, txs1))
           second == handle_block_to_main_chain(first.d, first.ch, Block(made + 2, txs2))
       IN  \/ /\ first.ok /\ second.ok
              /\ pool' = on_finalize_db_transaction(second.d)
              /\ chain' = second.ch /\ zone' = second.z
           \/ /\ first.ok /\ ~second.ok
              /\ pool' = Rollback(second.d, first.ch, second.z)
              /\ zone' = second.z /\ UNCHANGED chain
           \/ /\ ~first.ok
              /\ pool' = first.d /\ zone' = first.z /\ UNCHANGED chain
    /\ made' = made + 2
    /\ UNCHANGED <<checkpoint, incoming, template, events, raced>>

-----------------------------------------------------------------------------
(***************************************************************************)
(* Idle work and the operator.                                             *)
(***************************************************************************)
(* Which transactions alternative blocks need (related), and which are     *)
(* more than four days old (outdated), is any set here.  One that is both  *)
(* outdated and expired is removed twice.                                  *)
RemoveEach(d, txs) ==
    LET gone == SetToSeq(txs)
        removed(e, t) == on_tx_remove(unprocess_cancel_offer_rules(Erased(e, t), t), t,
                                      pool.txs[t].kept)
        upto[i \in 0 .. Len(gone)] == IF i = 0 THEN d ELSE removed(upto[i - 1], gone[i])
    IN  upto[Len(gone)]

remove_stuck_transactions(related, outdated) ==
    LET expired == {t \in DOMAIN pool.txs : is_tx_expired(t, chain)} \ related IN
    /\ outdated \cup expired # {} /\ events < MaxEvents
    /\ pool' = RemoveEach(RemoveEach(pool, outdated), expired)
    /\ events' = events + 1
    /\ UNCHANGED <<checkpoint, chain, zone, incoming, template, made, raced>>

RemoveStuck ==
    \E related \in SUBSET DOMAIN pool.txs :
        \E outdated \in SUBSET (DOMAIN pool.txs \ related) :
            remove_stuck_transactions(related, outdated)

(* The black list stays; so do the aliases.                                *)
purge_transactions ==
    /\ DOMAIN pool.txs # {} /\ events < MaxEvents
    /\ events' = events + 1
    /\ pool' = [pool EXCEPT !.txs = <<>>, !.images = [k \in KeyImage |-> 0], !.offers = {}]
    /\ UNCHANGED <<checkpoint, chain, zone, incoming, template, made, raced>>

-----------------------------------------------------------------------------
(***************************************************************************)
(* The miner.                                                              *)
(***************************************************************************)
(* Mutant: what was checked once is not checked again if there is a block  *)
(* at the height of the one it refers to.                                  *)
is_transaction_ready_to_go_any_block(d, t, ch, z) ==
    LET td == d.txs[t] IN
    [ok |-> /\ t \notin d.black
            /\ td.used.id # NoBlock /\ td.used.height <= Len(ch)
            /\ Images[t] \cap Spent(ch) = {}, td |-> td]

(* is_transaction_ready_to_go: the inputs are not checked again as long as *)
(* the block they refer to is on the chain, nor as long as the block is on *)
(* the chain with which the check failed.  Result: [ok, td].               *)
is_transaction_ready_to_go(d, t, ch, z) ==
    LET td     == d.txs[t]
        failed == td.failed # NoBlock /\ OnChain(ch, td.failed)
        good   == check_tx_inputs(t, ch, z)
        fails  == [td EXCEPT !.failed = TopId(ch), !.used.height = 1]
        cached == td.used.id # NoBlock /\ HasId(ch, td.used.height, td.used.id)
        above  == td.used.id # NoBlock /\ td.used.height > Len(ch)
        final  == /\ Images[t] \cap Spent(ch) = {}
                  /\ check_tx_multisig_ins_and_outs(d, t, ch, FALSE)
    IN  IF t \in d.black \/ above \/ (~cached /\ failed) THEN [ok |-> FALSE, td |-> td]
        ELSE IF ~cached /\ ~good THEN [ok |-> FALSE, td |-> fails]
        ELSE [ok |-> final, td |-> td]

(* fill_block_template: transactions in the order of fee per size, equal   *)
(* ones in any order, as std::sort leaves them.  Each one is skipped if it *)
(* is expired, one alias too many, not ready or in conflict with one       *)
(* before it.  best: how many of them give most money.                     *)
DearestFirst(txs) ==
    {s \in SetToSeqs(txs) :
        \A i, j \in DOMAIN s : i < j => Fee[s[i]] * Size[s[j]] >= Fee[s[j]] * Size[s[i]]}

SkipAlias(t, s, d) ==
    /\ Alias[t] # NoTx
    /\ \/ s.aliases >= MaxAliases
       \/ /\ t \in Updates
          /\ \E u \in DOMAIN d.txs : Alias[u] # NoTx /\ u \notin Updates

Consider(s, t, d, ch, z) ==
    LET r     == is_transaction_ready_to_go(d, t, ch, z)
        size  == s.size + Size[t]
        fee   == s.fee + Fee[t]
        money == Reward[size] + fee
        at    == s.at + 1
    IN  IF s.full THEN [s EXCEPT !.at = at, !.left = Append(@, t)]
        ELSE IF is_tx_expired(t, ch) \/ SkipAlias(t, s, d)
             THEN [s EXCEPT !.at = at, !.left = Append(@, NoTx)]
        ELSE IF ~r.ok \/ s.images \cap Images[t] # {}
             THEN [s EXCEPT !.at = at, !.left = Append(@, NoTx), !.txs[t] = r.td]
        ELSE LET u == [s EXCEPT !.at = at, !.left = Append(@, t), !.images = @ \cup Images[t],
                                !.size = size, !.fee = fee]
             IN  IF size > MaxBlockSize THEN [u EXCEPT !.full = TRUE]
                 ELSE LET v == [u EXCEPT !.aliases = IF Alias[t] = NoTx THEN @ ELSE @ + 1] IN
                      IF s.money < money
                      THEN [v EXCEPT !.money = money, !.best = at,
                                     !.total = size, !.earned = fee]
                      ELSE v

fill_block_template(d, ch, z, order) ==
    LET start == [full |-> FALSE, at |-> 0, left |-> <<>>, images |-> {}, size |-> 0, fee |-> 0,
                  money |-> Reward[0], best |-> 0, total |-> 0, earned |-> 0, aliases |-> 0,
                  txs |-> d.txs]
        filled[i \in 0 .. Len(order)] ==
            IF i = 0 THEN start ELSE Consider(filled[i - 1], order[i], d, ch, z)
        s == filled[Len(order)]
        in(i)  == s.left[i] # NoTx /\ (i <= s.best \/ Cancels[s.left[i]] # {})
        picked[i \in 0 .. Len(order)] ==
            IF i = 0 THEN <<>>
            ELSE IF in(i) THEN Append(picked[i - 1], s.left[i]) ELSE picked[i - 1]
        extra  == {i \in s.best + 1 .. Len(order) : in(i)}
    IN  [picked |-> picked[Len(order)], fee |-> s.earned, txs |-> s.txs,
         size |-> s.total + FoldSet(LAMBDA i, n : n + Size[s.left[i]], 0, extra)]

create_block_template ==
    /\ template = NoTemplate
    /\ \E order \in DearestFirst(DOMAIN pool.txs) :
       LET f == fill_block_template(pool, chain, zone, order) IN
       /\ pool' = [pool EXCEPT !.txs = f.txs]
       /\ template' = IF f.size <= MaxBlockSize
                      THEN [prev |-> TopId(chain), txs |-> f.picked, fee |-> f.fee]
                      ELSE NoTemplate
    /\ UNCHANGED <<checkpoint, chain, zone, incoming, made, events, raced>>

(* handle_block_found: a block on an old top becomes an alternative one.   *)
handle_block_found ==
    /\ template # NoTemplate /\ made < MaxBlocks
    /\ \/ /\ template.prev = TopId(chain)
          /\ add_new_block([id |-> made + 1, txs |-> template.txs, fee |-> template.fee])
       \/ /\ template.prev # TopId(chain)
          /\ made' = made + 1 /\ UNCHANGED <<pool, chain, zone>>
    /\ template' = NoTemplate
    /\ UNCHANGED <<checkpoint, incoming, events, raced>>

Incoming == (\E t \in Tx, kept \in BOOLEAN : LookUp(t, kept)) \/ Admit \/ CheckInputs \/ Insert
Blocks   == \/ \E txs \in TxLists : NetworkBlock(txs)
            \/ \E txs1, txs2 \in TxLists : Switch(txs1, txs2)
Miner    == create_block_template \/ handle_block_found

Next == Incoming \/ Blocks \/ Miner \/ RemoveStuck \/ purge_transactions

Spec == Init /\ [][Next]_vars

-----------------------------------------------------------------------------
(* m_db_key_images_set counts the transactions of the pool that did not    *)
(* come with a block, whatever was overwritten, taken, put back by a       *)
(* rejected block or removed twice: no image is held for a transaction     *)
(* that is gone, and where no checkpoint lets conflicting transactions in, *)
(* none is free while its transaction is in the pool.  Images of a         *)
(* transaction that was let in after a block had taken it are left out: it *)
(* is in the pool and on the chain, and a block that is disconnected puts  *)
(* it into the pool again, as one that is not counted.                     *)
Spenders(k) == {t \in DOMAIN pool.txs : ~pool.txs[t].kept /\ k \in Images[t]}
KeyImagesCounted ==
    \A k \in KeyImage \ UNION {Images[t] : t \in raced} :
        /\ pool.images[k] <= Cardinality(Spenders(k))
        /\ checkpoint = 0 => pool.images[k] = Cardinality(Spenders(k))

(* A template made after a reorganisation takes no transaction whose       *)
(* inputs are not on the chain or are spent there, although the inputs are *)
(* not checked again, nor one that has spoiled a block, nor two that spend *)
(* the same output.  Cancellations are looked at only if the pool fits     *)
(* into a block: after the break they are taken as they are.               *)
Considered(t) == Cancels[t] = {} \/ SizeOf(SetToSeq(DOMAIN pool.txs)) <= MaxBlockSize
TemplateSound ==
    [][template' # template /\ template' # NoTemplate =>
        \A i \in DOMAIN template'.txs :
            LET t == template'.txs[i] IN Considered(t) =>
            /\ t \notin pool.black
            /\ Images[t] \cap Spent(chain) = {} /\ Source[t] \in TxsOf(chain) \cup {NoTx}
            /\ MsIns[t] \subseteq MsMade(chain)
            /\ \A j \in 1 .. i - 1 : Images[template'.txs[j]] \cap Images[t] = {}]_vars

(* When a block of our own is rejected, although its transactions are in   *)
(* the pool, one of them is on the black list then: the same transaction   *)
(* does not spoil one block after the other.                               *)
Rejected == template.prev = TopId(chain) /\ template' = NoTemplate /\ chain' = chain
Blamed ==
    [][Rejected /\ template # NoTemplate /\ Range(template.txs) \subseteq DOMAIN pool.txs
            => Range(template.txs) \cap pool'.black # {}]_vars

(* No transaction gets lost by a block, accepted or not, or by a switch,   *)
(* done or rolled back: it stays in the pool or on the chain.  The pool's  *)
(* rule on fees applies to what a rejected block gives back too, so that   *)
(* one without a fee must be free for a cancellation of its own.           *)
Free(t) == /\ Cancels[t] # {} /\ Size[t] <= FreeSize
           /\ \A u \in Tx : u # t => Cancels[u] \cap Cancels[t] = {}
Known(d, ch) == {t \in DOMAIN d.txs \cup TxsOf(ch) : Fee[t] >= MinFee \/ Free(t)}
NoTxLost == [][made' # made => Known(pool, chain) \subseteq Known(pool', chain')]_vars

(* "transaction spam protection, soft rule": a transaction that comes with *)
(* a block is not refused for the rules of the pool, or the block would be *)
(* refused with it.                                                        *)
BlockTxAdmitted ==
    [][incoming.stage = "looked" /\ incoming' = Nothing /\ incoming.kept
            => incoming.tx \in TxsOf(chain)]_vars
=============================================================================
