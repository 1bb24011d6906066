-------------------------------- MODULE Sync --------------------------------
(***************************************************************************)
(* currency::t_currency_protocol_handler (currency_protocol_handler.inl)   *)
(* and the part of nodetool::node_server (p2p/net_node.inl) it works with: *)
(* how a node that is connected to several peers learns of their blocks,   *)
(* asks for the ones it lacks and decides that a connection is in step.    *)
(*                                                                         *)
(* The messages of a connection are delivered in order and handled one at  *)
(* a time, as the strand of the connection does; the handlers of different *)
(* connections interleave.  A connection that breaks loses what is under   *)
(* way in both directions, and the next one starts from a fresh context.   *)
(*                                                                         *)
(* The storage is what the handlers see of it: the blocks it keeps on the  *)
(* main and on alternative chains, the ones it remembers as invalid, and   *)
(* its top.  Blockchain models how it gets there.                          *)
(***************************************************************************)
EXTENDS Integers, Sequences, FiniteSets, Functions

CONSTANTS
    Block,           \* the blocks of the network
    Path,            \* Path[b]: the ids from the genesis block to b
    Weight,          \* cumulative difficulty of b
    Fault,           \* Fault[b]: why this node rejects b, if it does
    Peer,            \* the other nodes
    Tops,            \* the initial tops of the peers: a set of functions
    Grows,           \* pairs <<b, c>>: a peer at b may move on to c
    OwnTops,         \* the possible initial tops of this node
    RemoteCheckpoint,\* RemoteCheckpoint[b]: last_checkpoint_height a peer at b tells
    OwnCheckpoint,   \* the top checkpoint of this node
    SolidSize,       \* how many ids get_short_chain_history lists without gaps
    MaxIds,          \* BLOCKS_IDS_SYNCHRONIZING_DEFAULT_COUNT
    MaxBlocks,       \* BLOCKS_SYNCHRONIZING_DEFAULT_COUNT (and _SIZE)
    FailsBeforeBlock,\* P2P_IP_FAILS_BEFOR_BLOCK
    MaxAllowed       \* P2P_ALLOWED_BLOCKLIST_MAX_SIZE

ASSUME PathAssumption ==
    /\ \A b \in Block : Path[b] \in Seq(Block) /\ Path[b] # <<>> /\ Path[b][Len(Path[b])] = b
    /\ \A b \in Block : \A i \in 1 .. Len(Path[b]) : Path[Path[b][i]] = SubSeq(Path[b], 1, i)
    /\ \A b, c \in Block : Path[b][1] = Path[c][1]

ASSUME NetworkAssumption ==
    /\ Weight \in [Block -> Nat] /\ Fault \in [Block -> {"none", "proof", "txs", "rules", "inputs"}]
    /\ Tops \subseteq [Peer -> Block] /\ OwnTops \subseteq Block /\ Grows \subseteq Block \X Block
    /\ \A b \in OwnTops : \A i \in 1 .. Len(Path[b]) : Fault[Path[b][i]] = "none"
    /\ RemoteCheckpoint \in [Block -> Nat] /\ OwnCheckpoint \in Nat
    /\ SolidSize \in Nat \ {0} /\ MaxIds \in Nat \ {0} /\ MaxBlocks \in Nat \ {0}
    /\ FailsBeforeBlock \in Nat /\ MaxAllowed \in Nat

VARIABLES
    top,       \* the top of the main chain
    stored,    \* blocks of the main and the alternative chains
    invalid,   \* m_invalid_blocks
    ptop,      \* the top of each peer
    state,     \* m_state of each connection; "closed" when there is none
    needed,    \* m_needed_objects
    requested, \* m_requested_objects
    remote,    \* m_remote_blockchain_height
    last,      \* m_last_response_height
    callbacks, \* m_callback_request_count, and the callbacks the strand still has to run
    outgoing,  \* messages on their way to a peer
    incoming,  \* messages on their way to this node
    work,      \* what a handler that is under way still has to do
    que,       \* m_blocks_id_que
    relayed,   \* how often a block was relayed
    fails,     \* m_ip_fails_score
    blocked,   \* m_blocked_ips
    allowed,   \* m_allowed_blocked_ips
    entry      \* the ids of the last chain entry, for AllObtained only

storage == <<top, stored, invalid>>
context == <<state, needed, requested, remote, last, callbacks, entry>>
address == <<fails, blocked, allowed>>
vars == <<storage, ptop, context, outgoing, incoming, work, que, relayed, address>>

States == {"closed", "before_handshake", "synchronizing", "idle", "normal"}
Idle   == [kind |-> "none", rest |-> <<>>, count |-> 0]

Height(b)    == Len(Path[b]) - 1
Prev(b)      == Path[b][Len(Path[b]) - 1]
OnPath(b, t) == b \in Range(Path[t])
Genesis      == Path[CHOOSE b \in Block : TRUE][1]

(* SelectSeq with membership in a set as its test: the elements of s that  *)
(* are in T, in their order (as a recursive function, for the proofs).     *)
SelectIn(s, T) ==
    LET upto[i \in 0 .. Len(s)] ==
            IF i = 0 THEN <<>>
            ELSE IF s[i] \in T THEN Append(upto[i - 1], s[i]) ELSE upto[i - 1]
    IN  upto[Len(s)]

Messages ==
    [type : {"handshake"}] \cup [type : {"request_chain"}, ids : SUBSET Block]
        \cup [type : {"request_objects"}, blocks : Seq(Block)]
Answers ==
    [type : {"sync"}, top : Block, initial : BOOLEAN]
        \cup [type : {"chain_entry"}, start : Nat, ids : Seq(Block), total : Nat]
        \cup [type : {"objects"}, blocks : Seq(Block), height : Nat]
        \cup [type : {"new_block"}, block : Block]

TypeOK ==
    /\ top \in stored /\ stored \subseteq Block /\ invalid \subseteq Block
    /\ ptop \in [Peer -> Block]
    /\ state \in [Peer -> States]
    /\ needed \in [Peer -> Seq(Block)] /\ requested \in [Peer -> SUBSET Block]
    /\ remote \in [Peer -> Nat] /\ last \in [Peer -> Nat] /\ callbacks \in [Peer -> Nat]
    /\ outgoing \in [Peer -> Seq(Messages)] /\ incoming \in [Peer -> Seq(Answers)]
    /\ work \in [Peer -> [kind : {"none", "objects", "new_block"}, rest : Seq(Block), count : Nat]]
    /\ que \subseteq Block /\ relayed \in [Block -> Nat]
    /\ fails \in [Peer -> Nat] /\ blocked \subseteq Peer /\ allowed \subseteq Peer
    /\ entry \in [Peer -> SUBSET Block]

Init ==
    /\ top \in OwnTops /\ stored = Range(Path[top]) /\ invalid = {}
    /\ ptop \in Tops
    /\ state = [p \in Peer |-> "closed"]
    /\ needed = [p \in Peer |-> <<>>] /\ requested = [p \in Peer |-> {}]
    /\ remote = [p \in Peer |-> 0] /\ last = [p \in Peer |-> 0] /\ callbacks = [p \in Peer |-> 0]
    /\ outgoing = [p \in Peer |-> <<>>] /\ incoming = [p \in Peer |-> <<>>]
    /\ work = [p \in Peer |-> Idle]
    /\ que = {} /\ relayed = [b \in Block |-> 0]
    /\ fails = [p \in Peer |-> 0] /\ blocked = {} /\ allowed = {}
    /\ entry = [p \in Peer |-> {}]

-----------------------------------------------------------------------------
(***************************************************************************)
(* The storage, as far as the protocol sees it.                            *)
(***************************************************************************)
have_block(b) == b \in stored \cup invalid

(* Without gaps near the top, then at distances that double, then genesis. *)
get_short_chain_history ==
    LET size    == Len(Path[top])
        offsets == {o \in 1 .. size - 1 : \/ o <= SolidSize
                                          \/ \E j \in 1 .. size : o = SolidSize - 1 + 2 ^ j}
    IN  {Path[top][size - o + 1] : o \in offsets} \cup {Genesis}

(* What handle_incoming_tx and handle_incoming_block report. Of a block on *)
(* an alternative chain the code leaves the inputs and the reward to the   *)
(* switch to it, and keeps it until then; here a block that breaks a rule  *)
(* is refused at once on any chain, and what follows it is an orphan.      *)
Verdict(b) ==
    IF Fault[b] = "txs" THEN "refused"
    ELSE IF have_block(b) THEN "exists"
    ELSE IF Prev(b) \notin stored THEN "orphan"
    ELSE IF Fault[b] # "none" THEN "failed"
    ELSE IF Prev(b) = top \/ Weight[b] > Weight[top] THEN "main" ELSE "alt"

(* Mutant: a block that becomes the top is not stored.                     *)
handle_incoming_block_top_only(b) ==
    LET v == Verdict(b) IN
    /\ stored'  = IF v = "alt" THEN stored \cup {b} ELSE stored
    /\ top'     = IF v = "main" THEN b ELSE top
    /\ invalid' = IF v = "failed" /\ Fault[b] = "inputs" THEN invalid \cup {b} ELSE invalid
(* A block that fails is remembered only on account of a transaction's     *)
(* inputs.                                                                 *)
handle_incoming_block(b) ==
    LET v == Verdict(b) IN
    /\ stored'  = IF v \in {"main", "alt"} THEN stored \cup {b} ELSE stored
    /\ top'     = IF v = "main" THEN b ELSE top
    /\ invalid' = IF v = "failed" /\ Fault[b] = "inputs" THEN invalid \cup {b} ELSE invalid

-----------------------------------------------------------------------------
(***************************************************************************)
(* Connections and addresses.                                              *)
(***************************************************************************)
Open(p) == state[p] # "closed"

(* The connection is gone, with all that was in flight.                    *)
drop_connection(p) ==
    /\ state'     = [state EXCEPT ![p] = "closed"]
    /\ needed'    = [needed EXCEPT ![p] = <<>>]
    /\ requested' = [requested EXCEPT ![p] = {}]
    /\ remote'    = [remote EXCEPT ![p] = 0]
    /\ last'      = [last EXCEPT ![p] = 0]
    /\ callbacks' = [callbacks EXCEPT ![p] = 0]
    /\ entry'     = [entry EXCEPT ![p] = {}]
    /\ outgoing'  = [outgoing EXCEPT ![p] = <<>>]
    /\ incoming'  = [incoming EXCEPT ![p] = <<>>]

add_address_fail(p) ==
    IF fails[p] + 1 > FailsBeforeBlock
    THEN fails' = [fails EXCEPT ![p] = 0] /\ blocked' = blocked \cup {p}
    ELSE fails' = [fails EXCEPT ![p] = @ + 1] /\ blocked' = blocked

(* A blocked address is allowed again when its time is over, and a few are *)
(* let in all the same, to be served but not listened to.                  *)
is_address_allowed(p) ==
    \/ p \notin blocked /\ UNCHANGED <<blocked, allowed>>
    \/ p \in blocked /\ blocked' = blocked \ {p} /\ allowed' = allowed \ {p}
    \/ /\ p \in blocked
       /\ p \in allowed \/ Cardinality(allowed) < MaxAllowed
       /\ allowed' = allowed \cup {p} /\ UNCHANGED blocked

(* try_to_connect_and_handshake_with_new_peer.                             *)
Connect(p) ==
    /\ ~Open(p) /\ work[p] = Idle
    /\ is_address_allowed(p)
    /\ state'    = [state EXCEPT ![p] = "before_handshake"]
    /\ outgoing' = [outgoing EXCEPT ![p] = <<[type |-> "handshake"]>>]
    /\ UNCHANGED <<storage, ptop, needed, requested, remote, last, callbacks, entry, incoming,
                   work, que, relayed, fails>>

(* The connection breaks; a handler that is under way goes on (bound: the  *)
(* connection to a peer that has come to its last block holds).            *)
Settled(p) == \A c \in Block : <<ptop[p], c>> \notin Grows
Break(p) ==
    /\ Open(p) /\ ~Settled(p)
    /\ drop_connection(p)
    /\ UNCHANGED <<storage, ptop, work, que, relayed, address>>

post_notify(p, m) == outgoing' = [outgoing EXCEPT ![p] = Append(@, m)]
RequestChain == [type |-> "request_chain", ids |-> get_short_chain_history]
Received(p)  == incoming' = [incoming EXCEPT ![p] = Tail(@)]

-----------------------------------------------------------------------------
(***************************************************************************)
(* The peer: it serves what it is asked for, tells its top from time to    *)
(* time, and its chain moves on.                                           *)
(***************************************************************************)
peervars == <<storage, context, work, que, relayed, address>>
Asks(p, type) == outgoing[p] # <<>> /\ Head(outgoing[p]).type = type
Answer(p, m) ==
    /\ outgoing' = [outgoing EXCEPT ![p] = Tail(@)]
    /\ incoming' = [incoming EXCEPT ![p] = Append(@, m)]
    /\ UNCHANGED <<peervars, ptop>>

handle_handshake(p) ==
    /\ Asks(p, "handshake")
    /\ Answer(p, [type |-> "sync", top |-> ptop[p], initial |-> TRUE])

(* COMMAND_TIMED_SYNC, whichever side has asked for it (bound: only when   *)
(* nothing else is on its way to us, and not while we are synchronizing,   *)
(* when it would be ignored).                                              *)
handle_timed_sync(p) ==
    /\ Open(p)
    /\ incoming[p] = <<>> /\ state[p] # "synchronizing"
    /\ incoming' = [incoming EXCEPT
                       ![p] = <<[type |-> "sync", top |-> ptop[p], initial |-> FALSE]>>]
    /\ UNCHANGED <<peervars, ptop, outgoing>>

(* From the highest block of the request on the peer's main chain on.      *)
find_blockchain_supplement(t, ids) ==
    CHOOSE i \in 1 .. Len(Path[t]) :
        Path[t][i] \in ids /\ \A j \in i + 1 .. Len(Path[t]) : Path[t][j] \notin ids
ChainEntry(t, ids) ==
    LET start == find_blockchain_supplement(t, ids)
        end   == IF start + MaxIds - 1 < Len(Path[t]) THEN start + MaxIds - 1 ELSE Len(Path[t])
    IN  [type |-> "chain_entry", start |-> start - 1, ids |-> SubSeq(Path[t], start, end),
         total |-> Len(Path[t])]
handle_request_chain(p) ==
    /\ Asks(p, "request_chain")
    /\ Answer(p, ChainEntry(ptop[p], Head(outgoing[p]).ids))

(* A peer that lacks some of the blocks drops the connection; one that     *)
(* lacks all of them answers without blocks.                               *)
handle_request_get_objects(p) ==
    /\ Asks(p, "request_objects")
    /\ LET blocks == Head(outgoing[p]).blocks
           found  == SelectIn(blocks, Range(Path[ptop[p]]))
       IN  IF found # <<>> /\ found # blocks
           THEN /\ drop_connection(p)
                /\ UNCHANGED <<storage, ptop, work, que, relayed, address>>
           ELSE Answer(p, [type |-> "objects", blocks |-> found,
                           height |-> Len(Path[ptop[p]])])

(* The peer's own chain grows or is replaced.  It relays its new top to    *)
(* those it has shaken hands with, but not what it got by synchronizing.   *)
PeerMoves(p) ==
    /\ \E c \in Block :
        /\ <<ptop[p], c>> \in Grows
        /\ ptop' = [ptop EXCEPT ![p] = c]
        /\ \/ UNCHANGED incoming
           \/ /\ Open(p) /\ ~Asks(p, "handshake")
              /\ incoming' = [incoming EXCEPT
                                 ![p] = Append(@, [type |-> "new_block", block |-> c])]
    /\ UNCHANGED <<peervars, outgoing>>

-----------------------------------------------------------------------------
(***************************************************************************)
(* This node's handlers.                                                   *)
(***************************************************************************)
Gets(p, type) ==
    /\ work[p] = Idle /\ incoming[p] # <<>> /\ Head(incoming[p]).type = type
    /\ type = "sync" \/ p \notin blocked

(* Blocks and answers of a blocked address are not looked at.              *)
address_blocked(p) ==
    /\ p \in blocked
    /\ work[p] = Idle /\ incoming[p] # <<>> /\ Head(incoming[p]).type # "sync"
    /\ Received(p)
    /\ UNCHANGED <<storage, ptop, context, outgoing, work, que, relayed, address>>

(* The peer has a checkpoint above our chain that we do not know.          *)
CheckpointAhead(m) ==
    OwnCheckpoint < RemoteCheckpoint[m.top] /\ Len(Path[top]) < RemoteCheckpoint[m.top]

(* Mutant: a connection that was set aside stays so.                       *)
SyncDataIgnored_idle_too(p, m) ==
    \/ state[p] = "before_handshake" /\ ~m.initial
    \/ state[p] \in {"synchronizing", "idle"}
SyncDataIgnored(p, m) ==
    \/ state[p] = "before_handshake" /\ ~m.initial
    \/ state[p] = "synchronizing"
SyncDataKnown(m) == m.top \in que \/ have_block(m.top)

(* When it returns false the connection is dropped, except by the handler  *)
(* of the answer to our own timed sync.                                    *)
process_payload_sync_data(p) ==
    /\ Gets(p, "sync")
    /\ LET m == Head(incoming[p]) IN
       \/ /\ SyncDataIgnored(p, m)
          /\ Received(p) /\ UNCHANGED <<context, outgoing>>
       \/ /\ ~SyncDataIgnored(p, m) /\ SyncDataKnown(m)
          /\ state' = [state EXCEPT ![p] = "normal"]
          /\ Received(p)
          /\ UNCHANGED <<needed, requested, remote, last, callbacks, entry, outgoing>>
       \/ /\ ~SyncDataIgnored(p, m) /\ ~SyncDataKnown(m) /\ CheckpointAhead(m)
          /\ \/ drop_connection(p)
             \/ ~m.initial /\ Received(p) /\ UNCHANGED <<context, outgoing>>
       \/ /\ ~SyncDataIgnored(p, m) /\ ~SyncDataKnown(m) /\ ~CheckpointAhead(m)
          /\ state'     = [state EXCEPT ![p] = "synchronizing"]
          /\ remote'    = [remote EXCEPT ![p] = Len(Path[m.top])]
          /\ callbacks' = [callbacks EXCEPT ![p] = @ + 1]
          /\ Received(p)
          /\ UNCHANGED <<needed, requested, last, entry, outgoing>>
    /\ UNCHANGED <<storage, ptop, work, que, relayed, address>>

(* Mutant: the callback does not ask for the chain.                        *)
on_callback_silent(p) ==
    /\ work[p] = Idle /\ callbacks[p] > 0
    /\ callbacks' = [callbacks EXCEPT ![p] = @ - 1]
    /\ UNCHANGED <<storage, ptop, state, needed, requested, remote, last, entry, incoming,
                   outgoing, work, que, relayed, address>>

on_callback(p) ==
    /\ work[p] = Idle /\ callbacks[p] > 0
    /\ callbacks' = [callbacks EXCEPT ![p] = @ - 1]
    /\ IF state[p] = "synchronizing" THEN post_notify(p, RequestChain) ELSE UNCHANGED outgoing
    /\ UNCHANGED <<storage, ptop, state, needed, requested, remote, last, entry, incoming,
                   work, que, relayed, address>>

(* handle_notify_new_block up to the block itself: the id is entered in    *)
(* m_blocks_id_que, and a block that extends our chain and has a proper    *)
(* proof is relayed at once.                                               *)
(* Mutant: ids of blocks that are being handled are not looked at.         *)
NewBlockIgnored_not_queued(p, b) == state[p] # "normal" \/ have_block(b)
NewBlockIgnored(p, b) == state[p] # "normal" \/ b \in que \/ have_block(b)

handle_notify_new_block(p) ==
    /\ Gets(p, "new_block")
    /\ LET b == Head(incoming[p]).block IN
       \/ /\ NewBlockIgnored(p, b)
          /\ Received(p) /\ UNCHANGED <<context, outgoing, work, que, relayed>>
       \/ /\ ~NewBlockIgnored(p, b) /\ Prev(b) = top /\ Fault[b] = "proof"
          /\ drop_connection(p) /\ UNCHANGED <<work, que, relayed>>
       \/ /\ ~NewBlockIgnored(p, b) /\ ~(Prev(b) = top /\ Fault[b] = "proof")
          /\ que' = que \cup {b}
          /\ LET pre == IF Prev(b) = top THEN 1 ELSE 0 IN
             /\ relayed' = [relayed EXCEPT ![b] = @ + pre]
             /\ work' = [work EXCEPT ![p] = [kind |-> "new_block", rest |-> <<b>>, count |-> pre]]
          /\ Received(p) /\ UNCHANGED <<context, outgoing>>
    /\ UNCHANGED <<storage, ptop, address>>

(* The rest of it: the block goes to the storage.                          *)
NearTop(b) == Height(top) < Height(b) + 2
NewBlockHandled(p) ==
    /\ work[p].kind = "new_block"
    /\ LET b == work[p].rest[1]
           v == Verdict(b)
       IN  /\ handle_incoming_block(b)
           /\ que' = que \ {b}
           /\ relayed' = IF (v = "main" \/ (v = "alt" /\ NearTop(b))) /\ work[p].count = 0
                         THEN [relayed EXCEPT ![b] = @ + 1] ELSE relayed
           /\ \/ /\ v \in {"refused", "failed"}
                 /\ drop_connection(p)
              \/ /\ v = "orphan" /\ Open(p)
                 /\ state' = [state EXCEPT ![p] = "synchronizing"]
                 /\ post_notify(p, RequestChain)
                 /\ UNCHANGED <<needed, requested, remote, last, callbacks, entry, incoming>>
              \/ /\ v \in {"main", "alt", "exists"} \/ (v = "orphan" /\ ~Open(p))
                 /\ UNCHANGED <<context, outgoing, incoming>>
    /\ work' = [work EXCEPT ![p] = Idle]
    /\ UNCHANGED <<ptop, address>>

(* Mutant: the object after the last one of a batch is forgotten.          *)
request_missing_objects_skips(p, nd, check, rm, ls, rq) ==
    LET n == IF Len(nd) < MaxBlocks THEN Len(nd) ELSE MaxBlocks IN
    /\ needed'    = [needed EXCEPT ![p] = SubSeq(nd, n + 2, Len(nd))]
    /\ requested' = [requested EXCEPT ![p] = rq \cup Range(SubSeq(nd, 1, n))]
    /\ IF nd = <<>> THEN state' = [state EXCEPT ![p] = "normal"] /\ UNCHANGED outgoing
                    ELSE /\ post_notify(p, [type |-> "request_objects",
                                            blocks |-> SubSeq(nd, 1, n)])
                         /\ UNCHANGED state

(* request_missing_objects: of the objects still needed, the next ones are *)
(* requested, up to MaxBlocks; when none is left, more ids are asked for   *)
(* or the connection is in step.  check: skip blocks we have by now.       *)
request_missing_objects(p, nd, check, rm, ls, rq) ==
    LET wanted    == Block \ IF check THEN stored \cup invalid ELSE {}
        before(k) == Cardinality({j \in 1 .. k - 1 : nd[j] \in wanted})
        n         == Cardinality({k \in 1 .. Len(nd) : before(k) < MaxBlocks})
        batch     == SubSeq(nd, 1, n)
    IN  \/ /\ nd # <<>>
           /\ needed'    = [needed EXCEPT ![p] = SubSeq(nd, n + 1, Len(nd))]
           /\ requested' = [requested EXCEPT ![p] = rq \cup (Range(batch) \cap wanted)]
           /\ post_notify(p, [type |-> "request_objects", blocks |-> SelectIn(batch, wanted)])
           /\ UNCHANGED state
        \/ /\ nd = <<>> /\ ls < rm - 1
           /\ needed' = [needed EXCEPT ![p] = nd] /\ requested' = [requested EXCEPT ![p] = rq]
           /\ post_notify(p, RequestChain)
           /\ UNCHANGED state
        \/ /\ nd = <<>> /\ ls >= rm - 1
           /\ needed' = [needed EXCEPT ![p] = nd] /\ requested' = [requested EXCEPT ![p] = rq]
           /\ state' = IF ls = rm - 1 /\ rq = {} THEN [state EXCEPT ![p] = "normal"] ELSE state
           /\ UNCHANGED outgoing

(* The peers run the same code, so that an entry is never empty, starts    *)
(* with a block of the request, and its blocks can be parsed.              *)
handle_response_chain_entry(p) ==
    /\ Gets(p, "chain_entry")
    /\ LET m  == Head(incoming[p])
           ls == m.start + Len(m.ids) - 1
           lacking == SelectIn(m.ids, Block \ (stored \cup invalid))
       IN  /\ have_block(m.ids[1])
           /\ remote' = [remote EXCEPT ![p] = m.total]
           /\ last'   = [last EXCEPT ![p] = ls]
           /\ entry'  = [entry EXCEPT ![p] = Range(m.ids)]
           /\ request_missing_objects(p, needed[p] \o lacking, FALSE, m.total, ls, requested[p])
           /\ Received(p) /\ UNCHANGED callbacks
    /\ UNCHANGED <<storage, ptop, work, que, relayed, address>>

(* handle_response_get_objects, the first loop: are these the blocks that  *)
(* were requested?  A connection that comes late with them is set aside.   *)
SetAside(p) ==
    /\ state'     = [state EXCEPT ![p] = "idle"]
    /\ needed'    = [needed EXCEPT ![p] = <<>>]
    /\ requested' = [requested EXCEPT ![p] = {}]

Late(blocks)      == Len(blocks) >= 2 /\ have_block(blocks[2])
Wrong(p, m)       == last[p] > m.height \/ (m.blocks # <<>> /\ m.blocks[1] \notin requested[p])
Incomplete(p, bs) == Range(bs) # requested[p]

handle_response_get_objects(p) ==
    /\ Gets(p, "objects")
    /\ LET m == Head(incoming[p]) IN
       \/ /\ Wrong(p, m) \/ (~Late(m.blocks) /\ Incomplete(p, m.blocks))
          /\ drop_connection(p) /\ UNCHANGED work
       \/ /\ ~Wrong(p, m) /\ Late(m.blocks)
          /\ SetAside(p)
          /\ remote' = [remote EXCEPT ![p] = m.height]
          /\ Received(p) /\ UNCHANGED <<last, callbacks, entry, outgoing, work>>
       \/ /\ ~Wrong(p, m) /\ ~Late(m.blocks) /\ ~Incomplete(p, m.blocks)
          /\ remote'    = [remote EXCEPT ![p] = m.height]
          /\ requested' = [requested EXCEPT ![p] = {}]
          /\ work' = [work EXCEPT ![p] = [kind |-> "objects", rest |-> m.blocks, count |-> 0]]
          /\ Received(p) /\ UNCHANGED <<state, needed, last, callbacks, entry, outgoing>>
    /\ UNCHANGED <<storage, ptop, que, relayed, address>>

(* The second loop: one block after the other goes to the storage.         *)
ObjectHandled(p) ==
    /\ work[p].kind = "objects" /\ work[p].rest # <<>>
    /\ LET b == Head(work[p].rest)
           v == Verdict(b)
           again == v = "exists" /\ work[p].count > 2
       IN  /\ handle_incoming_block(b)
           /\ \/ /\ v = "refused"
                 /\ drop_connection(p)
                 /\ work' = [work EXCEPT ![p] = Idle] /\ UNCHANGED <<fails, blocked>>
              \/ /\ v \in {"failed", "orphan"}
                 /\ add_address_fail(p)
                 /\ IF p \in allowed THEN UNCHANGED <<context, outgoing, incoming>>
                                     ELSE drop_connection(p)
                 /\ work' = [work EXCEPT ![p] = Idle]
              \/ /\ again
                 /\ IF Open(p) THEN SetAside(p) ELSE UNCHANGED <<state, needed, requested>>
                 /\ work' = [work EXCEPT ![p] = Idle]
                 /\ UNCHANGED <<remote, last, callbacks, entry, outgoing, incoming, fails, blocked>>
              \/ /\ v \in {"main", "alt", "exists"} /\ ~again
                 /\ work' = [work EXCEPT ![p].rest = Tail(@), ![p].count = @ + 1]
                 /\ UNCHANGED <<context, outgoing, incoming, fails, blocked>>
    /\ UNCHANGED <<ptop, que, relayed, allowed>>

(* ... and then more is requested.                                         *)
ObjectsDone(p) ==
    /\ work[p].kind = "objects" /\ work[p].rest = <<>>
    /\ work' = [work EXCEPT ![p] = Idle]
    /\ \/ ~Open(p) /\ UNCHANGED <<state, needed, requested, outgoing>>
       \/ Open(p) /\ request_missing_objects(p, needed[p], TRUE, remote[p], last[p], requested[p])
    /\ UNCHANGED <<storage, ptop, remote, last, callbacks, entry, incoming, que, relayed,
                   address>>

(* One message after the other, and callbacks in between.                  *)
Receives(p) ==
    \/ process_payload_sync_data(p) \/ address_blocked(p) \/ handle_notify_new_block(p)
    \/ handle_response_chain_entry(p) \/ handle_response_get_objects(p)
Continues(p) == NewBlockHandled(p) \/ ObjectHandled(p) \/ ObjectsDone(p)
Serves(p) == handle_handshake(p) \/ handle_request_chain(p) \/ handle_request_get_objects(p)

Next ==
    \/ \E p \in Peer :
        \/ Connect(p) \/ Break(p)
        \/ Serves(p) \/ handle_timed_sync(p) \/ PeerMoves(p)
        \/ Receives(p) \/ on_callback(p) \/ Continues(p)

Spec == Init /\ [][Next]_vars

(* The threads of the node and the peers that are connected keep running,  *)
(* idle_worker makes connections and timed syncs again and again.          *)
FairSpec ==
    /\ Spec
    /\ \A p \in Peer : /\ WF_vars(Connect(p) \/ Serves(p)) /\ WF_vars(handle_timed_sync(p))
                       /\ WF_vars(Receives(p) \/ Continues(p)) /\ WF_vars(on_callback(p))

-----------------------------------------------------------------------------
(* A connection that is synchronizing has something under way that will    *)
(* move it: no answer, late or out of turn, leaves it waiting for ever.    *)
NoStuckConnection ==
    \A p \in Peer \ blocked : state[p] = "synchronizing" =>
        outgoing[p] # <<>> \/ callbacks[p] > 0 \/ work[p] # Idle
            \/ \E i \in DOMAIN incoming[p] : incoming[p][i].type \in {"chain_entry", "objects"}

(* When request_missing_objects declares a connection in step, the node    *)
(* has every block of the last chain entry of the peer, whatever was       *)
(* skipped, requested in batches or delivered by other connections.        *)
AllObtained ==
    [][\A p \in Peer : state[p] = "synchronizing" /\ state'[p] = "normal"
            => \A b \in entry'[p] : b \in stored' \cup invalid']_vars

(* However many peers announce a good block at the same time, in whatever  *)
(* order its announcements and its parent come, it is relayed at most once.*)
RelayedOnce == \A b \in Block : Fault[b] = "none" => relayed[b] <= 1

(* Good peers that stop moving are caught up with, and the connections to  *)
(* them stay in state_normal, which is what on_idle looks for.             *)
Good(p) == /\ \A b \in Range(Path[ptop[p]]) : Fault[b] = "none"
           /\ RemoteCheckpoint[ptop[p]] <= OwnCheckpoint
InStep == <>[](\A p \in Peer : Good(p) /\ Settled(p) =>
                    Weight[top] >= Weight[ptop[p]] /\ state[p] = "normal")
=============================================================================
