------------------------------- MODULE Wallet -------------------------------
(***************************************************************************)
(* tools::wallet2 (wallet2.cpp) beside a daemon whose chain it follows:    *)
(* the wallet asks for blocks and reads the transactions that concern it   *)
(* into its books (m_transfers, m_key_images, m_transfer_history), undoes  *)
(* them where the chain splits (detach_blockchain), looks into the pool of *)
(* the daemon and spends its outputs.                                      *)
(*                                                                         *)
(* A wallet does one thing at a time (the servers that own it hold a lock  *)
(* or run one thread), but the daemon moves between any two of its calls,  *)
(* and a call may fail, or fail after the daemon has done what was asked.  *)
(* The daemon is any daemon that goes from a chain to a heavier one and    *)
(* whose pool has the transactions that are sent to it or announced.       *)
(*                                                                         *)
(* An output stands for its key image too.  Of a transaction only the      *)
(* outputs of this wallet count: Outs[t] in their order, and Ins[t].       *)
(* A height is the number of blocks up to a block: 0 is never one, and     *)
(* stands in a transfer for "not spent on the chain".                      *)
(***************************************************************************)
EXTENDS Integers, Sequences, FiniteSets, FiniteSetsExt

CONSTANTS
    Out,         \* outputs of this wallet
    Tx,          \* transactions that concern it
    Outs, Ins,   \* Outs[t]: a sequence of outputs, Ins[t]: a set of them
    Own,         \* transactions this wallet may make; the others come from elsewhere
    Mined,       \* miner transactions, which are in no pool
    Attached,    \* those with attachments that this wallet's derivation decrypts
    Block, Weight,
    Path,        \* Path[b]: the blocks from the genesis block to b
    Txs,         \* Txs[b]: the transactions of block b, the miner's first
    SolidSize,   \* how many ids get_short_chain_history lists without gaps
    BatchSize,   \* COMMAND_RPC_GET_BLOCKS_FAST_MAX_COUNT
    Tries,       \* try_count
    SpendableAge,\* WALLET_DEFAULT_TX_SPENDABLE_AGE
    MaxFaults    \* bound: calls that fail, crashes and stores

ASSUME WalletAssumption ==
    /\ Outs \in [Tx -> Seq(Out)] /\ Ins \in [Tx -> SUBSET Out] /\ Own \subseteq Tx
    /\ Mined \subseteq Tx \ Own
    /\ Attached \subseteq {t \in Tx : Outs[t] # <<>> \/ Ins[t] # {}}
    /\ Weight \in [Block -> Nat] /\ Txs \in [Block -> Seq(Tx)] /\ Block # {}
    /\ SolidSize \in Nat \ {0} /\ BatchSize \in Nat \ {0, 1} /\ Tries \in Nat /\ SpendableAge \in Nat /\ MaxFaults \in Nat

ASSUME PathAssumption ==
    /\ \A b \in Block : Path[b] \in Seq(Block) /\ Path[b] # <<>> /\ Path[b][Len(Path[b])] = b
    /\ \A b \in Block : \A i \in 1 .. Len(Path[b]) : Path[Path[b][i]] = SubSeq(Path[b], 1, i)
    /\ \A b, c \in Block : Path[b][1] = Path[c][1]

(* What the daemon's rules say of the chain to b, at the k-th transaction  *)
(* of b: it is not on the chain before, and it spends outputs of earlier   *)
(* ones that no other has spent.  The keys of an output are made for it,   *)
(* and the genesis block is older than the wallet.                         *)
Before(b, k) == (UNION {Range(Txs[Path[b][i]]) : i \in 1 .. Len(Path[b]) - 1})
                    \cup {Txs[b][i] : i \in 1 .. k - 1}
ASSUME LedgerAssumption ==
    /\ \A b \in Block : \A k \in 1 .. Len(Txs[b]) :
          /\ Txs[b][k] \notin Before(b, k)
          /\ Ins[Txs[b][k]] \subseteq UNION {Range(Outs[u]) : u \in Before(b, k)}
          /\ \A u \in Before(b, k) : Ins[u] \cap Ins[Txs[b][k]] = {}
    /\ \A t, u \in Tx : t # u => Range(Outs[t]) \cap Range(Outs[u]) = {}
    /\ \A b \in Block : Range(Txs[Path[b][1]]) \cap Own = {}

VARIABLES
    tip,    \* the top block of the daemon
    dpool,  \* its pool
    made,   \* the transactions that exist
    w,      \* what the wallet keeps in its file
    free,   \* m_found_free_amounts: indices of transfers that may be spent
    step,   \* what the wallet is doing
    saved,  \* the wallet's file
    torn,   \* history: blocks that were read in part, see process_new_transaction
    reread, \* history: those, and the ones that were then read from the start again
    faults  \* how many faults there were

reading == <<torn, reread>>
vars == <<tip, dpool, made, w, free, step, saved, reading, faults>>
daemon == <<tip, dpool, made>>

Transfer == [out : Out, height : Nat, spent : BOOLEAN, spent_height : Nat]
Idle     == [at |-> "idle"]

TypeOK ==
    /\ tip \in Block /\ dpool \subseteq made /\ made \subseteq Tx
    /\ DOMAIN w = {"blockchain", "transfers", "key_images", "unconfirmed", "unconfirmed_in",
                   "history"}
    /\ w.blockchain \in Seq(Block) /\ w.transfers \in Seq(Transfer)
    /\ DOMAIN w.key_images \subseteq Out /\ Range(w.key_images) \subseteq DOMAIN w.transfers
    /\ DOMAIN w.unconfirmed \subseteq Tx /\ w.unconfirmed_in \subseteq Tx
    /\ DOMAIN w.history \subseteq Tx \X Nat /\ Range(w.history) \subseteq Seq(SUBSET Out)
    /\ free \subseteq Nat /\ torn \subseteq reread /\ reread \subseteq Block
    /\ faults \in 0 .. MaxFaults
    /\ step.at \in {"idle", "pull", "blocks", "send", "dead", "lost"}

-----------------------------------------------------------------------------
(***************************************************************************)
(* The daemon.                                                             *)
(***************************************************************************)
Genesis == Path[CHOOSE b \in Block : TRUE][1]
TxsOfChain(ch) == UNION {Range(Txs[ch[i]]) : i \in DOMAIN ch}
OnDaemon == TxsOfChain(Path[tip])

(* To a heavier chain, of any length: what it had goes back to the pool.   *)
DaemonMoves(b) ==
    /\ Weight[b] > Weight[tip] /\ TxsOfChain(Path[b]) \subseteq made
    /\ tip' = b
    /\ dpool' = (dpool \cup (OnDaemon \ Mined)) \ TxsOfChain(Path[b])
    /\ UNCHANGED <<made, w, free, step, saved, reading, faults>>

(* A transaction of someone else comes to the pool.                        *)
DaemonTx(t) ==
    /\ t \in Tx \ (Own \cup Mined) /\ t \notin dpool \cup OnDaemon
    /\ dpool' = dpool \cup {t}
    /\ UNCHANGED <<tip, made, w, free, step, saved, reading, faults>>

Valid(t) ==
    /\ Ins[t] \subseteq UNION {Range(Outs[u]) : u \in OnDaemon}
    /\ \A u \in dpool \cup OnDaemon : u # t => Ins[u] \cap Ins[t] = {}

Fault == faults < MaxFaults /\ faults' = faults + 1

-----------------------------------------------------------------------------
(***************************************************************************)
(* The books.  x is what the wallet keeps.                                 *)
(***************************************************************************)
Cleared == [blockchain |-> <<>>, transfers |-> <<>>, key_images |-> <<>>, unconfirmed |-> <<>>,
            unconfirmed_in |-> {}, history |-> <<>>]

Without(f, S) == [k \in DOMAIN f \ S |-> f[k]]
With(f, k, v) == [j \in DOMAIN f \cup {k} |-> IF j = k THEN v ELSE f[j]]
Found(x, t) == {x.key_images[o] : o \in Ins[t] \cap DOMAIN x.key_images}

process_unconfirmed(x, t) == [x EXCEPT !.unconfirmed = Without(@, {t})]

(* Inputs: the key images are looked up.                                   *)
ReadInputs(x, t, height) ==
    [x EXCEPT !.transfers = [i \in DOMAIN @ |->
        IF i \in Found(x, t) THEN [@[i] EXCEPT !.spent = TRUE, !.spent_height = height]
                             ELSE @[i]]]

(* Outputs: one whose key image has been seen is skipped.                  *)
(* Mutant: none is skipped.                                                *)
ReadOutput_again(x, o, height) ==
    [x EXCEPT !.transfers = Append(@, [out |-> o, height |-> height, spent |-> FALSE,
                                       spent_height |-> 0]),
              !.key_images = With(@, o, Len(x.transfers) + 1)]
ReadOutput(x, o, height) ==
    IF o \in DOMAIN x.key_images THEN x
    ELSE [x EXCEPT !.transfers = Append(@, [out |-> o, height |-> height, spent |-> FALSE,
                                            spent_height |-> 0]),
                   !.key_images = With(@, o, Len(x.transfers) + 1)]

ReadOutputs(x, outs, height) ==
    LET read[i \in 0 .. Len(outs)] ==
            IF i = 0 THEN x ELSE ReadOutput(read[i - 1], outs[i], height)
    IN  read[Len(outs)]

(* The answer about the indices of the outputs comes between the inputs    *)
(* and the outputs: when it fails, the inputs have been read.  The history *)
(* is a vector; here its entries are kept by transaction and height, each  *)
(* as the outputs it counts as received, from which its amount follows.    *)
Entries(x, e) == IF e \in DOMAIN x.history THEN x.history[e] ELSE <<>>

ReadInPart(x, t, height) == ReadInputs(process_unconfirmed(x, t), t, height)
process_new_transaction(x, t, height) ==
    LET y == ReadInPart(x, t, height)
        z == ReadOutputs(y, Outs[t], height)
        e == <<t, height>>
        received == {z.transfers[i].out : i \in Len(y.transfers) + 1 .. Len(z.transfers)}
    IN  IF Found(x, t) # {} \/ received # {} \/ t \in Attached
        THEN [z EXCEPT !.history = With(@, e, Append(Entries(x, e), received))] ELSE z

(* detach_blockchain: transfers are in the order of their blocks, so those *)
(* from the first one at the height on go.  The wallet has the spend key:  *)
(* of a watch-only one the key images may not be known.                    *)
FirstAt(x, height) ==
    Min({i \in DOMAIN x.transfers : x.transfers[i].height >= height} \cup {Len(x.transfers) + 1})

(* Mutant: an output spent in the first block that goes stays spent.       *)
Unspend_above(tr, height) ==
    IF tr.spent_height > height THEN [tr EXCEPT !.spent = FALSE, !.spent_height = 0] ELSE tr
Unspend(tr, height) ==
    IF tr.spent_height >= height THEN [tr EXCEPT !.spent = FALSE, !.spent_height = 0] ELSE tr

(* Mutant: the key images of the transfers that go stay.                   *)
DetachKeyImages_stay(x, n) == x.key_images
DetachKeyImages(x, n) ==
    Without(x.key_images, {o \in DOMAIN x.key_images : x.key_images[o] > n})

detach_blockchain(x, height) ==
    LET n == FirstAt(x, height) - 1 IN
    [x EXCEPT !.transfers = [i \in 1 .. n |-> Unspend(@[i], height)],
              !.key_images = DetachKeyImages(x, n),
              !.blockchain = SubSeq(@, 1, height - 1),
              !.history = Without(@, {e \in DOMAIN @ : e[2] >= height})]

-----------------------------------------------------------------------------
(***************************************************************************)
(* refresh: blocks are pulled until a pull adds none.  A pull that throws  *)
(* is tried again; the cache of free transfers is cleared by an exception  *)
(* unless it is one of the connection, and by a refresh that ends well.    *)
(***************************************************************************)
Refresh ==
    /\ step = Idle
    /\ step' = [at |-> "pull", tries |-> Tries, fetched |-> FALSE]
    /\ UNCHANGED <<daemon, w, free, saved, reading, faults>>

TryAgain(fetched) ==
    step' = IF step.tries > 0
            THEN [at |-> "pull", tries |-> step.tries - 1, fetched |-> fetched] ELSE Idle

(* get_short_chain_history: without gaps near the top, then at distances   *)
(* that double, then the first one.                                        *)
ShortHistory(ch) ==
    {1} \cup {i \in 2 .. Len(ch) :
        LET offset == Len(ch) - i + 1 IN
        offset <= SolidSize \/ \E j \in 1 .. Len(ch) : offset = SolidSize - 1 + 2 ^ j}

(* find_blockchain_supplement: from the last of these that the daemon has, *)
(* which comes with the answer; from the first one if the wallet has none. *)
SplitPoint(ch) ==
    Max({1} \cup {i \in ShortHistory(w.blockchain) \cap DOMAIN ch \cap DOMAIN w.blockchain :
                     ch[i] = w.blockchain[i]})
pull_blocks ==
    /\ step.at = "pull"
    /\ LET ch == Path[tip]
           start == SplitPoint(ch)
       IN  step' = [at |-> "blocks", tries |-> step.tries, fetched |-> step.fetched,
                    added |-> FALSE, index |-> start, read |-> 0,
                    blocks |-> SubSeq(ch, start, Min({Len(ch), start + BatchSize - 1}))]
    /\ UNCHANGED <<daemon, w, free, saved, reading, faults>>

PullFails ==
    /\ step.at = "pull" /\ Fault
    /\ TryAgain(step.fetched)
    /\ UNCHANGED <<daemon, w, free, saved, reading>>

(* handle_pulled_blocks, one block after the other.                        *)
Pulled  == step.at = "blocks" /\ step.blocks # <<>>
Current == Head(step.blocks)
IsNew   == Pulled /\ step.index = Len(w.blockchain) + 1
NextBlock(added) ==
    step' = [step EXCEPT !.blocks = Tail(@), !.index = @ + 1, !.read = 0, !.added = @ \/ added]

KnownBlock ==
    /\ Pulled /\ step.index \in DOMAIN w.blockchain /\ w.blockchain[step.index] = Current
    /\ NextBlock(FALSE)
    /\ UNCHANGED <<daemon, w, free, saved, reading, faults>>

Height(b) == Len(Path[b])
(* Mutant: a block that differs from ours is passed over.                  *)
Split_passed_over ==
    /\ Pulled /\ step.index \in DOMAIN w.blockchain /\ w.blockchain[step.index] # Current
    /\ NextBlock(FALSE)
    /\ UNCHANGED <<daemon, w, free, saved, reading, faults>>
Split ==
    /\ Pulled /\ step.index \in DOMAIN w.blockchain /\ w.blockchain[step.index] # Current
    /\ w' = detach_blockchain(w, step.index)
    /\ torn' = {b \in torn : Height(b) < step.index}
    /\ reread' = {b \in reread : Height(b) < step.index}
    /\ UNCHANGED <<daemon, free, step, saved, faults>>

(* The next transaction of the block.  The indices of its outputs are      *)
(* asked for if there are any.                                             *)
ReadTx ==
    /\ IsNew /\ step.read < Len(Txs[Current])
    /\ LET t == Txs[Current][step.read + 1] IN
       /\ Outs[t] # <<>> => t \in OnDaemon
       /\ w' = process_new_transaction(w, t, step.index)
       /\ free' = free \cup (Len(w.transfers) + 1 .. Len(w'.transfers))
    /\ step' = [step EXCEPT !.read = @ + 1]
    /\ UNCHANGED <<daemon, saved, reading, faults>>

(* The call fails, or the daemon has left the block for another chain.     *)
ReadTxThrows ==
    /\ IsNew /\ step.read < Len(Txs[Current])
    /\ LET t == Txs[Current][step.read + 1] IN
       /\ Outs[t] # <<>>
       /\ \/ t \notin OnDaemon /\ free' = {} /\ UNCHANGED faults
          \/ Fault /\ UNCHANGED free
       /\ w' = ReadInPart(w, t, step.index)
    /\ torn' = torn \cup {Current} /\ reread' = reread \cup {Current}
    /\ TryAgain(step.fetched \/ step.added)
    /\ UNCHANGED <<daemon, saved>>

EndOfBlock ==
    /\ IsNew /\ step.read = Len(Txs[Current])
    /\ w' = [w EXCEPT !.blockchain = Append(@, Current)]
    /\ torn' = torn \ {Current}
    /\ NextBlock(TRUE)
    /\ UNCHANGED <<daemon, free, saved, reread, faults>>

(* scan_unconfirmed_outdate_tx: old are the transactions that are too old  *)
(* or expired.  What is marked as spent, but by no block and by no         *)
(* outgoing transaction that is waiting, is free again.                    *)
scan_unconfirmed_outdate_tx(x, old) ==
    LET selected == UNION {x.unconfirmed[t].selected : t \in old}
        waiting  == Without(x.unconfirmed, old)
        reserved == UNION {Ins[t] : t \in {u \in DOMAIN waiting : ~waiting[u].is_income}}
        unmark(i) == x.transfers[i].spent_height = 0
                        /\ (i \in selected \/ x.transfers[i].out \notin reserved)
    IN  [x EXCEPT !.unconfirmed = waiting,
                  !.transfers = [i \in DOMAIN @ |->
                        IF unmark(i) THEN [@[i] EXCEPT !.spent = FALSE] ELSE @[i]]]

EndOfPull ==
    /\ step.at = "blocks" /\ step.blocks = <<>>
    /\ \/ /\ step.added
          /\ step' = [at |-> "pull", tries |-> step.tries, fetched |-> TRUE]
          /\ UNCHANGED <<w, free>>
       \/ /\ ~step.added /\ step.fetched
          /\ \E old \in SUBSET DOMAIN w.unconfirmed : w' = scan_unconfirmed_outdate_tx(w, old)
          /\ free' = {} /\ step' = Idle
       \/ /\ ~step.added /\ ~step.fetched
          /\ step' = Idle /\ UNCHANGED <<w, free>>
    /\ UNCHANGED <<daemon, saved, reading, faults>>

-----------------------------------------------------------------------------
(***************************************************************************)
(* scan_tx_pool: a transaction that was seen before is not looked at again *)
(* and one that waits already is not marked again.  One that spends and    *)
(* has attachments for this wallet counts as income, unless it is expired. *)
(***************************************************************************)
scan_tx_pool ==
    /\ step = Idle
    /\ \E expired \in SUBSET dpool :
       LET incoming == {t \in dpool \ expired :
                            (Outs[t] # <<>> /\ Found(w, t) = {}) \/ t \in Attached}
           outgoing == {t \in dpool \ incoming : Found(w, t) # {}}
           new == (incoming \cup outgoing) \ (w.unconfirmed_in \cup DOMAIN w.unconfirmed)
           Spends(t) == IF t \in outgoing THEN Found(w, t) ELSE {}
           info(t) == [is_income |-> t \in incoming, selected |-> Spends(t)]
           marked == UNION {Spends(t) : t \in new}
       IN  w' = [w EXCEPT
                !.unconfirmed_in = (@ \cap dpool) \cup incoming \cup outgoing,
                !.unconfirmed = [t \in DOMAIN @ \cup new |-> IF t \in new THEN info(t) ELSE @[t]],
                !.transfers = [i \in DOMAIN @ |->
                    IF i \in marked THEN [@[i] EXCEPT !.spent = TRUE] ELSE @[i]]]
    /\ UNCHANGED <<daemon, free, step, saved, reading, faults>>

-----------------------------------------------------------------------------
(***************************************************************************)
(* transfer: transfers are taken from the cache, filled if it is empty,    *)
(* and looked at once more; they are marked and the transaction is sent.   *)
(***************************************************************************)
(* Mutant: what is in the cache is taken to be ready.                      *)
is_transfer_ready_to_go_cached(tr) == TRUE
is_transfer_ready_to_go(tr) ==
    ~tr.spent /\ tr.height - 1 + SpendableAge <= Len(w.blockchain)

prepare_free_transfers_cache ==
    IF free = {} THEN {i \in DOMAIN w.transfers : ~w.transfers[i].spent} ELSE free

Marked(x, S, spent) ==
    [x EXCEPT !.transfers = [i \in DOMAIN @ |->
        IF i \in S THEN [@[i] EXCEPT !.spent = spent] ELSE @[i]]]

SelectTransfers(t) ==
    /\ step = Idle /\ t \in Own \ made
    /\ \E seen \in SUBSET prepare_free_transfers_cache :
        /\ seen \subseteq DOMAIN w.transfers
        /\ LET selected == {i \in seen : is_transfer_ready_to_go(w.transfers[i])} IN
           /\ {w.transfers[i].out : i \in selected} = Ins[t]
           /\ w' = Marked(w, selected, TRUE)
           /\ step' = [at |-> "send", tx |-> t, selected |-> selected]
        /\ free' = prepare_free_transfers_cache \ seen
    /\ UNCHANGED <<daemon, saved, reading, faults>>

(* An index beyond the end of m_transfers is read: undefined.              *)
SelectBeyond ==
    /\ step = Idle /\ Own \ made # {} /\ ~(free \subseteq DOMAIN w.transfers)
    /\ step' = [at |-> "dead"]
    /\ UNCHANGED <<daemon, w, free, saved, reading, faults>>

(* Not enough money is found: the cache is empty then.                     *)
SelectFails ==
    /\ step = Idle /\ free # {} /\ free \subseteq DOMAIN w.transfers
    /\ free' = {}
    /\ UNCHANGED <<daemon, w, step, saved, reading, faults>>

(* finalize_transaction: the daemon takes it, or refuses it, or takes it   *)
(* and the answer is lost, or never gets it.                               *)
Sent(t, selected) ==
    [w EXCEPT !.unconfirmed = With(@, t, [is_income |-> FALSE, selected |-> selected])]
SendTransaction ==
    /\ step.at = "send"
    /\ LET t == step.tx IN
       \/ /\ Valid(t)
          /\ made' = made \cup {t} /\ dpool' = dpool \cup {t}
          /\ \/ w' = Sent(t, step.selected) /\ UNCHANGED faults
             \/ w' = Marked(w, step.selected, FALSE) /\ Fault
       \/ /\ ~Valid(t) /\ w' = Marked(w, step.selected, FALSE)
          /\ UNCHANGED <<made, dpool, faults>>
       \/ /\ Fault /\ w' = Marked(w, step.selected, FALSE)
          /\ UNCHANGED <<made, dpool>>
    /\ step' = Idle
    /\ UNCHANGED <<tip, free, saved, reading>>

-----------------------------------------------------------------------------
(***************************************************************************)
(* The file.  It is emptied before it is written, first with the keys and  *)
(* then with the books.                                                    *)
(***************************************************************************)
store ==
    /\ step = Idle /\ Fault
    /\ saved' = [w |-> w, torn |-> torn, reread |-> reread]
    /\ UNCHANGED <<daemon, w, free, step, reading>>

NewFile == [w |-> Cleared, torn |-> {}, reread |-> {}]

(* A file with keys but without the whole of the books makes a wallet that *)
(* has no history; one without its keys cannot be loaded any more.         *)
CrashInStore ==
    /\ step = Idle /\ Fault
    /\ saved' = NewFile
    /\ w' = Cleared /\ torn' = {} /\ reread' = {} /\ free' = {}
    /\ step' \in {Idle, [at |-> "lost"]}
    /\ UNCHANGED daemon

CrashAndLoad ==
    /\ step.at # "lost" /\ Fault
    /\ w' = saved.w /\ torn' = saved.torn /\ reread' = saved.reread
    /\ free' = {} /\ step' = Idle
    /\ UNCHANGED <<daemon, saved>>

Init ==
    /\ tip = Genesis /\ dpool = {} /\ made = Tx \ Own
    /\ w = Cleared /\ free = {} /\ step = Idle
    /\ saved = NewFile /\ torn = {} /\ reread = {} /\ faults = 0

RefreshStep == pull_blocks \/ KnownBlock \/ Split \/ ReadTx \/ EndOfBlock \/ EndOfPull

Next ==
    \/ \E b \in Block : DaemonMoves(b)
    \/ \E t \in Tx : DaemonTx(t) \/ SelectTransfers(t)
    \/ Refresh \/ RefreshStep \/ PullFails \/ ReadTxThrows
    \/ scan_tx_pool \/ SelectBeyond \/ SelectFails \/ SendTransaction
    \/ store \/ CrashInStore \/ CrashAndLoad

Spec == Init /\ [][Next]_vars

(* The owner of the wallet refreshes it again and again, whatever else is  *)
(* asked of it (the idle handler of wallet_rpc_server), and what it does   *)
(* ends.  The bound on the faults lets a refresh succeed in the end.       *)
FairSpec == Spec /\ SF_vars(Refresh) /\ WF_vars(RefreshStep \/ ReadTxThrows \/ SendTransaction)

-----------------------------------------------------------------------------
(* m_key_images says where each output is, after any number of splits,     *)
(* blocks read in part and read again, and restarts: an output is in the   *)
(* books once, and detach_blockchain, which asserts that the key image of  *)
(* a transfer it drops is there, finds it.                                 *)
KeyImagesIndexed ==
    \A o \in Out :
        {i \in DOMAIN w.transfers : w.transfers[i].out = o}
            = IF o \in DOMAIN w.key_images THEN {w.key_images[o]} ELSE {}

(* Unless a block that was read in part has been left for another one, the *)
(* books say what the blocks say, as far as they were read: which outputs  *)
(* there are, in the order of their blocks, which were spent and where,    *)
(* and which transactions were ours.  In the history each of these has one *)
(* entry that counts all it brought.  It has more only if its block was    *)
(* read again from the start, and those count nothing as received: what is *)
(* brought is never counted twice, but the change of a spend is left out.  *)
BlockTxs(i) == Range(Txs[w.blockchain[i]])
Created(o) == {i \in DOMAIN w.blockchain : \E t \in BlockTxs(i) : o \in Range(Outs[t])}
SpentIn(o) == {i \in DOMAIN w.blockchain : \E t \in BlockTxs(i) : o \in Ins[t]}
BooksMatchChain ==
    (torn = {} /\ (step.at = "blocks" => step.read = 0)) =>
        /\ {w.transfers[i].out : i \in DOMAIN w.transfers} = {o \in Out : Created(o) # {}}
        /\ \A i \in DOMAIN w.transfers :
            LET tr == w.transfers[i] IN
            /\ Created(tr.out) = {tr.height}
            /\ SpentIn(tr.out) = {tr.spent_height} \ {0}
            /\ tr.spent_height # 0 => tr.spent
            /\ i > 1 => w.transfers[i - 1].height <= tr.height
        /\ DOMAIN w.history = {e \in Tx \X DOMAIN w.blockchain :
                e[1] \in BlockTxs(e[2]) /\ (Outs[e[1]] # <<>> \/ Ins[e[1]] # {})}
        /\ \A e \in DOMAIN w.history :
            /\ w.history[e] # <<>> /\ Head(w.history[e]) = Range(Outs[e[1]])
            /\ Tail(w.history[e]) # <<>> =>
                  w.blockchain[e[2]] \in reread /\ Range(Tail(w.history[e])) = {{}}

(* The wallet builds a transaction only from outputs that are on its copy  *)
(* of the chain and not spent there, whatever the cache of free transfers  *)
(* has kept through splits and refreshes that were given up.               *)
SelectionSound ==
    [][step'.at = "send" /\ step.at = "idle" /\ torn = {} =>
        \A o \in Ins[step'.tx] : Created(o) # {} /\ SpentIn(o) = {}]_vars

(* The wallet's copy of the chain ends up as the daemon's chain, once that *)
(* stays as it is, unless the wallet's file has been lost.                 *)
CatchesUp == <>[](step.at \in {"dead", "lost"} \/ w.blockchain = Path[tip])
=============================================================================
