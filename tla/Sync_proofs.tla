----------------------------- MODULE Sync_proofs -----------------------------
(***************************************************************************)
(* Proofs of the properties of Sync, for any tree of blocks and any number *)
(* of peers.                                                               *)
(*                                                                         *)
(*   types        every step keeps TypeOK (TypeCorrect);                   *)
(*   connections  Local(p) says what may be under way on one connection:   *)
(*                one request or one answer to it at a time, requests only *)
(*                while it synchronises, and every id of its last chain    *)
(*                entry known, needed, requested or in hand.  A step of p  *)
(*                keeps Local(p) and leaves other connections alone, so    *)
(*                Connections is inductive; it gives EntriesObtained;      *)
(*   progress     Moving(p) and Heights(p) add why a synchronising         *)
(*                connection has something to wait for (NoneStuck);        *)
(*   relays       HandlersApart and RelayedKnown are about the handlers of *)
(*                new blocks on different connections (RelayedAtMostOnce). *)
(***************************************************************************)
EXTENDS Sync, InductionLemmas, SequenceTheorems, FiniteSetTheorems, TLAPS

(* The range of a sequence with one more element.                          *)
LEMMA AppendRange ==
    ASSUME NEW S, NEW s \in Seq(S), NEW e
    PROVE  Range(Append(s, e)) = Range(s) \cup {e}
  <1>1. Len(s) \in Nat /\ DOMAIN s = 1 .. Len(s)
    OBVIOUS
  <1>2. /\ DOMAIN Append(s, e) = 1 .. Len(s) + 1
        /\ \A i \in 1 .. Len(s) : Append(s, e)[i] = s[i]
        /\ Append(s, e)[Len(s) + 1] = e
    OBVIOUS
  <1>3. 1 .. Len(s) + 1 = (1 .. Len(s)) \cup {Len(s) + 1}
    BY <1>1
  <1> QED
    BY <1>1, <1>2, <1>3, ZenonT(30) DEF Range

(* What SelectIn returns: the elements of s that are in T.                 *)
LEMMA SelectInFacts ==
    ASSUME NEW S, NEW s \in Seq(S), NEW T
    PROVE  /\ SelectIn(s, T) \in Seq(S)
           /\ Range(SelectIn(s, T)) = Range(s) \cap T
  <1> DEFINE N == Len(s)
             Body(f) == [i \in 0 .. N |->
                            IF i = 0 THEN <<>>
                            ELSE IF s[i] \in T THEN Append(f[i - 1], s[i]) ELSE f[i - 1]]
             upto == CHOOSE f : f = Body(f)
             st == [x \in Nat \X Seq(S) |->
                       IF x[1] \in 1 .. N /\ s[x[1]] \in T THEN Append(x[2], s[x[1]]) ELSE x[2]]
  <1>1. N \in Nat /\ <<>> \in Seq(S)
    OBVIOUS
  <1>2. st \in [Nat \X Seq(S) -> Seq(S)]
    OBVIOUS
  <1>3. PICK g \in [0 .. N -> Seq(S)] : Unfolds(g, N, <<>>, st)
    <2> HIDE DEF st, N
    <2> QED BY <1>1, <1>2, RecursionExists
  <1>4. \A i \in 1 .. N : g[i] = IF s[i] \in T THEN Append(g[i - 1], s[i]) ELSE g[i - 1]
    <2> SUFFICES ASSUME NEW i \in 1 .. N
                 PROVE  g[i] = IF s[i] \in T THEN Append(g[i - 1], s[i]) ELSE g[i - 1]
      OBVIOUS
    <2>1. i \in Nat /\ i - 1 \in 0 .. N /\ g[i - 1] \in Seq(S)
      BY <1>1, SMTT(30)
    <2>2. <<i, g[i - 1]>> \in Nat \X Seq(S)
      BY <2>1
    <2>3. st[<<i, g[i - 1]>>] = IF s[i] \in T THEN Append(g[i - 1], s[i]) ELSE g[i - 1]
      BY <2>2
    <2> QED
      BY <2>3, <1>3 DEF Unfolds
  <1>5. g = Body(g)
    <2>1. ASSUME NEW i \in 0 .. N PROVE g[i] = Body(g)[i]
      <3>1. Body(g)[i] = IF i = 0 THEN <<>>
                         ELSE IF s[i] \in T THEN Append(g[i - 1], s[i]) ELSE g[i - 1]
        OBVIOUS
      <3>2. i = 0 \/ i \in 1 .. N
        BY <1>1
      <3> HIDE DEF Body
      <3> QED BY <3>1, <3>2, <1>3, <1>4 DEF Unfolds
    <2>2. g = [i \in 0 .. N |-> g[i]]
      OBVIOUS
    <2>3. Body(g) = [i \in 0 .. N |-> Body(g)[i]]
      BY Zenon
    <2> HIDE DEF Body
    <2> QED BY <2>1, <2>2, <2>3, Zenon
  <1>6. upto = Body(upto)
    BY <1>5
  <1>7. SelectIn(s, T) = upto[N]
    BY DEF SelectIn
  <1> DEFINE Q == {i \in 0 .. N : /\ upto[i] \in Seq(S)
                                  /\ Range(upto[i]) = {s[j] : j \in 1 .. i} \cap T}
  <1>8. /\ upto[0] = <<>>
        /\ \A i \in 1 .. N :
              upto[i] = IF s[i] \in T THEN Append(upto[i - 1], s[i]) ELSE upto[i - 1]
    <2> HIDE DEF upto
    <2>1. \A i \in 0 .. N : upto[i] = Body(upto)[i]
      BY <1>6
    <2>2. \A f : \A i \in 0 .. N : Body(f)[i] =
              IF i = 0 THEN <<>> ELSE IF s[i] \in T THEN Append(f[i - 1], s[i]) ELSE f[i - 1]
      OBVIOUS
    <2> HIDE DEF Body
    <2> QED BY <2>1, <2>2, <1>1
  <1> HIDE DEF upto
  <1>9. 0 \in Q
    <2>1. Range(<<>>) = {} /\ {s[j] : j \in 1 .. 0} = {}
      BY DEF Range
    <2>2. 0 \in 0 .. N /\ upto[0] \in Seq(S)
      BY <1>8, <1>1
    <2> QED
      BY <1>8, <2>1, <2>2, Zenon
  <1>10. ASSUME NEW i \in 0 .. N - 1, i \in Q PROVE i + 1 \in Q
    <2>1. i + 1 \in 1 .. N /\ i + 1 \in 0 .. N /\ (i + 1) - 1 = i /\ s[i + 1] \in S
      OBVIOUS
    <2>2. {s[j] : j \in 1 .. i + 1} = {s[j] : j \in 1 .. i} \cup {s[i + 1]}
      OBVIOUS
    <2>3. upto[i] \in Seq(S) /\ Range(upto[i]) = {s[j] : j \in 1 .. i} \cap T
      BY <1>10
    <2>4. CASE s[i + 1] \in T
      <3>1. upto[i + 1] = Append(upto[i], s[i + 1])
        BY <2>4, <2>1, <1>8
      <3>2. Range(Append(upto[i], s[i + 1])) = Range(upto[i]) \cup {s[i + 1]}
        BY <2>1, <2>3, AppendRange
      <3>3. upto[i + 1] \in Seq(S)
        BY <3>1, <2>1, <2>3
      <3>4. Range(upto[i + 1]) = {s[j] : j \in 1 .. i + 1} \cap T
        BY <3>1, <3>2, <2>2, <2>3, <2>4
      <3> QED
        BY <3>3, <3>4, <2>1
    <2>5. CASE s[i + 1] \notin T
      <3>1. upto[i + 1] = upto[i]
        BY <2>5, <2>1, <1>8
      <3> QED
        BY <3>1, <2>1, <2>2, <2>3, <2>5
    <2> QED
      BY <2>4, <2>5
  <1>11. 0 .. N \subseteq Q
    <2> HIDE DEF Q, N
    <2> QED BY <1>1, <1>9, <1>10, BoundedInduction
  <1>12. N \in Q
    <2> HIDE DEF Q
    <2> QED BY <1>1, <1>11
  <1>13. Range(s) = {s[j] : j \in 1 .. N}
    BY DEF Range
  <1> QED
    BY <1>7, <1>12, <1>13

(* The number of elements of an interval with some property is at most     *)
(* their number.                                                           *)
LEMMA CountBound ==
    ASSUME NEW n \in Nat, NEW K \in SUBSET (1 .. n)
    PROVE  Cardinality(K) \in 0 .. n
  <1>1. IsFiniteSet(1 .. n) /\ Cardinality(1 .. n) = n
    BY FS_Interval
  <1>2. IsFiniteSet(K) /\ Cardinality(K) <= n
    BY <1>1, FS_Subset
  <1>3. Cardinality(K) \in Nat
    BY <1>2, FS_CardinalityType
  <1> QED
    BY <1>2, <1>3

(* A sequence cut in two keeps its elements.                               *)
LEMMA SplitFacts ==
    ASSUME NEW S, NEW s \in Seq(S), NEW n \in 0 .. Len(s)
    PROVE  /\ SubSeq(s, 1, n) \in Seq(S) /\ SubSeq(s, n + 1, Len(s)) \in Seq(S)
           /\ Range(s) = Range(SubSeq(s, 1, n)) \cup Range(SubSeq(s, n + 1, Len(s)))
  <1>1. Len(s) \in Nat
    OBVIOUS
  <1>2. SubSeq(s, 1, n) \in Seq(S) /\ SubSeq(s, n + 1, Len(s)) \in Seq(S)
    BY <1>1, SubSeqProperties
  <1>3. SubSeq(s, 1, n) \o SubSeq(s, n + 1, Len(s)) = SubSeq(s, 1, Len(s))
    <2>1. 1 \in 1 .. Len(s) + 1 /\ n \in 1 - 1 .. Len(s) /\ Len(s) \in n .. Len(s)
      BY <1>1
    <2> QED
      BY <2>1, ConcatAdjacentSubSeq, Zenon
  <1>4. SubSeq(s, 1, Len(s)) = s
    BY SubSeqFull
  <1> QED
    <2> DEFINE a == SubSeq(s, 1, n)
               b == SubSeq(s, n + 1, Len(s))
    <2>1. a \in Seq(S) /\ b \in Seq(S) /\ a \o b = s
      BY <1>2, <1>3, <1>4
    <2> HIDE DEF a, b
    <2>2. Range(s) = Range(a) \cup Range(b)
      BY <2>1, RangeConcatenation, ZenonT(30)
    <2> QED
      BY <1>2, <2>2 DEF a, b

(* Paths start at the genesis block.                                       *)
LEMMA PathFacts ==
    ASSUME NEW b \in Block
    PROVE  /\ Path[b] \in Seq(Block) /\ Len(Path[b]) \in Nat /\ Len(Path[b]) >= 1
           /\ Path[b][1] = Genesis /\ Genesis \in Block
           /\ \A i \in 1 .. Len(Path[b]) : Path[b][i] \in Block
  <1>1. Path[b] \in Seq(Block) /\ Path[b] # <<>>
    BY PathAssumption
  <1>2. Len(Path[b]) \in Nat /\ Len(Path[b]) >= 1
    BY <1>1
  <1>3. (CHOOSE c \in Block : TRUE) \in Block
    OBVIOUS
  <1>4. Path[b][1] = Genesis
    BY <1>3, PathAssumption DEF Genesis
  <1> QED
    BY <1>1, <1>2, <1>4

(* get_short_chain_history lists blocks, the genesis block among them.     *)
LEMMA HistoryFacts ==
    ASSUME top \in Block
    PROVE  /\ RequestChain \in Messages /\ RequestChain.type = "request_chain"
           /\ Genesis \in RequestChain.ids
  <1>1. \A o \in 1 .. Len(Path[top]) - 1 : Path[top][Len(Path[top]) - o + 1] \in Block
    <2> SUFFICES ASSUME NEW o \in 1 .. Len(Path[top]) - 1
                 PROVE  Path[top][Len(Path[top]) - o + 1] \in Block
      OBVIOUS
    <2>1. Len(Path[top]) \in Nat /\ \A i \in 1 .. Len(Path[top]) : Path[top][i] \in Block
      BY PathFacts
    <2>2. Len(Path[top]) - o + 1 \in 1 .. Len(Path[top])
      BY <2>1
    <2> QED
      BY <2>1, <2>2
  <1>2. get_short_chain_history \in SUBSET Block
    BY <1>1, PathFacts DEF get_short_chain_history
  <1>3. Genesis \in get_short_chain_history
    BY DEF get_short_chain_history
  <1> QED
    BY <1>2, <1>3 DEF RequestChain, Messages

(* A request that lists the genesis block is answered from a block that    *)
(* both chains have, by at least one id and not beyond the top.            *)
LEMMA ChainEntryFacts ==
    ASSUME NEW t \in Block, NEW ids \in SUBSET Block, Genesis \in ids
    PROVE  LET m == ChainEntry(t, ids)
           IN  /\ m \in Answers /\ m.type = "chain_entry" /\ m.ids # <<>>
               /\ m.start + Len(m.ids) <= m.total /\ m.total = Len(Path[t])
  <1> DEFINE N == Len(Path[t])
             Meets(i) == Path[t][i] \in ids /\ \A j \in i + 1 .. N : Path[t][j] \notin ids
             D == {k \in Nat : k < N /\ Path[t][N - k] \in ids}
             start == find_blockchain_supplement(t, ids)
             end == IF start + MaxIds - 1 < N THEN start + MaxIds - 1 ELSE N
  <1>1. N \in Nat /\ N >= 1 /\ Path[t][1] \in ids /\ Path[t] \in Seq(Block)
    BY PathFacts
  <1> HIDE DEF N
  <1>2. N - 1 \in D
    BY <1>1
  <1>3. PICK k \in D : \A j \in D : k <= j
    <2>1. D \in SUBSET Nat /\ D # {}
      BY <1>2
    <2> HIDE DEF D
    <2> QED BY <2>1, LeastElement
  <1>4. N - k \in 1 .. N /\ Path[t][N - k] \in ids
    BY <1>1
  <1>5. ASSUME NEW j \in (N - k) + 1 .. N PROVE Path[t][j] \notin ids
    <2>1. N - j \in Nat /\ N - j < N /\ N - j < k /\ N - (N - j) = j
      BY <1>1
    <2> QED
      BY <2>1, <1>3
  <1>6. start \in 1 .. N
    <2>1. \E i \in 1 .. N : Meets(i)
      BY <1>4, <1>5
    <2>2. start = CHOOSE i \in 1 .. N : Meets(i)
      BY DEF find_blockchain_supplement, N
    <2> HIDE DEF Meets, start
    <2> QED BY <2>1, <2>2
  <1> HIDE DEF start
  <1>7. MaxIds \in Nat \ {0}
    BY NetworkAssumption
  <1>8. end \in start .. N
    BY <1>1, <1>6, <1>7
  <1> HIDE DEF end
  <1> DEFINE e == SubSeq(Path[t], start, end)
  <1>9. e \in Seq(Block) /\ Len(e) = end - start + 1
    BY <1>1, <1>6, <1>8, SubSeqProperties, PathFacts DEF N
  <1>10. ChainEntry(t, ids) = [type |-> "chain_entry", start |-> start - 1, ids |-> e,
                               total |-> N]
    BY DEF ChainEntry, start, end, N
  <1> HIDE DEF e
  <1>11. e # <<>> /\ start - 1 \in Nat /\ (start - 1) + Len(e) <= N
    BY <1>6, <1>8, <1>9, <1>1
  <1>12. [type |-> "chain_entry", start |-> start - 1, ids |-> e, total |-> N] \in Answers
    BY <1>9, <1>11, <1>1 DEF Answers
  <1> QED
    BY <1>10, <1>11, <1>12 DEF N

-----------------------------------------------------------------------------
(***************************************************************************)
(* The inductive invariant, part by part, for one connection.              *)
(***************************************************************************)
Answered(p, i) == incoming[p][i].type \in {"chain_entry", "objects"}
Storing(p)     == work[p].kind = "objects"
Arrives(p)     == \E i \in DOMAIN incoming[p] : incoming[p][i].type = "objects"

(* Messages are what get_short_chain_history and the peers' handlers make. *)
WellFormed(p) ==
    /\ \A i \in DOMAIN outgoing[p] :
          outgoing[p][i].type = "request_chain" => Genesis \in outgoing[p][i].ids
    /\ \A i \in DOMAIN incoming[p] : incoming[p][i].type = "chain_entry" =>
          /\ incoming[p][i].ids # <<>>
          /\ incoming[p][i].start + Len(incoming[p][i].ids) <= incoming[p][i].total
    /\ work[p].kind = "new_block" => Len(work[p].rest) = 1

(* A closed connection has nothing in flight and a fresh context.          *)
ClosedClean(p) ==
    ~Open(p) => /\ outgoing[p] = <<>> /\ incoming[p] = <<>> /\ callbacks[p] = 0
                /\ needed[p] = <<>> /\ requested[p] = {} /\ last[p] = 0 /\ entry[p] = {}

(* The synchronisation of a connection is in one place at a time: with the *)
(* callback, in a request, in an answer or in the handler of the objects.  *)
OneAtATime(p) ==
    /\ Len(outgoing[p]) <= 1 /\ callbacks[p] <= 1
    /\ \A i, j \in DOMAIN incoming[p] : Answered(p, i) /\ Answered(p, j) => i = j
    /\ callbacks[p] > 0 => outgoing[p] = <<>> /\ ~Storing(p)
    /\ Storing(p) => outgoing[p] = <<>>
    /\ \A i \in DOMAIN incoming[p] : Answered(p, i) =>
          outgoing[p] = <<>> /\ callbacks[p] = 0 /\ ~Storing(p)

(* ... and only while it is synchronizing.                                 *)
OnlySynchronizing(p) ==
    /\ callbacks[p] > 0 => state[p] = "synchronizing"
    /\ \A i \in DOMAIN incoming[p] : Answered(p, i) => state[p] = "synchronizing"
    /\ Storing(p) => state[p] \in {"synchronizing", "closed"}
    /\ work[p].kind = "new_block" => state[p] \in {"normal", "closed"}
    /\ outgoing[p] # <<>> =>
          state[p] = IF Asks(p, "handshake") THEN "before_handshake" ELSE "synchronizing"
    /\ Asks(p, "handshake") =>
          \A i \in DOMAIN incoming[p] : incoming[p][i].type = "sync" => ~incoming[p][i].initial

(* Objects are requested only as long as the request or its answer is.     *)
RequestsOpen(p) ==
    p \notin blocked /\ requested[p] # {} => Asks(p, "request_objects") \/ Arrives(p)

(* NoStuckConnection for this connection.                                  *)
Moving(p) ==
    p \notin blocked /\ state[p] = "synchronizing" =>
        outgoing[p] # <<>> \/ callbacks[p] > 0 \/ work[p] # Idle
            \/ \E i \in DOMAIN incoming[p] : Answered(p, i)

(* The heights that end a synchronisation, with peers whose chain never    *)
(* gets shorter: what is known of a peer's chain is not above its top.     *)
Heights(p) ==
    /\ last[p] < Len(Path[ptop[p]])
    /\ \A i \in DOMAIN incoming[p] :
          /\ incoming[p][i].type = "chain_entry" => incoming[p][i].total <= Len(Path[ptop[p]])
          /\ incoming[p][i].type = "objects" => last[p] < incoming[p][i].height
    /\ Storing(p) /\ Open(p) => last[p] < remote[p]

(* Between a chain entry and the last objects, every id of the entry is    *)
(* known, needed, requested or in the hands of the handler.                *)
InHand(p) == IF Storing(p) THEN Range(work[p].rest) ELSE {}
EntryCovered(p) ==
    Storing(p) \/ Asks(p, "request_objects") \/ Arrives(p)
        => entry[p] \subseteq (stored \cup invalid) \cup Range(needed[p])
                                \cup requested[p] \cup InHand(p)

(* A block that a handler works on is in m_blocks_id_que, and no other     *)
(* handler works on it.                                                    *)
HandlersApart ==
    /\ \A p \in Peer : work[p].kind = "new_block" =>
          work[p].rest[1] \in que /\ work[p].count \in {0, 1}
    /\ \A p, q \in Peer : work[p].kind = "new_block" /\ work[q].kind = "new_block"
                            /\ work[p].rest[1] = work[q].rest[1] => p = q
    /\ \A p \in Peer : work[p].kind = "new_block" /\ work[p].count = 1 =>
          Prev(work[p].rest[1]) \in stored
    /\ \A b \in invalid : Fault[b] # "none"

(* A good block that was relayed is stored, or its handler knows of it.    *)
RelayedKnown ==
    \A b \in Block : Fault[b] = "none" /\ relayed[b] > 0 =>
        /\ relayed[b] = 1
        /\ \/ b \in stored
           \/ \E p \in Peer : work[p].kind = "new_block" /\ work[p].rest[1] = b
                              /\ work[p].count = 1

-----------------------------------------------------------------------------
(***************************************************************************)
(* Type correctness.                                                       *)
(***************************************************************************)
(* A function changed at one point keeps its type.                         *)
LEMMA ExceptType ==
    ASSUME NEW A, NEW B, NEW f \in [A -> B], NEW a \in A, NEW v \in B
    PROVE  [f EXCEPT ![a] = v] \in [A -> B]
  OBVIOUS

(* The first element of a queue and the rest of it.                        *)
LEMMA QueueFacts ==
    ASSUME NEW S, NEW s \in Seq(S), s # <<>>
    PROVE  /\ Head(s) \in S /\ Head(s) = s[1] /\ 1 \in DOMAIN s
           /\ Tail(s) \in Seq(S) /\ Len(Tail(s)) = Len(s) - 1
           /\ \A i \in DOMAIN Tail(s) : i + 1 \in DOMAIN s /\ Tail(s)[i] = s[i + 1]
  OBVIOUS

(* What a message holds, by its type.                                      *)
LEMMA MessageFacts ==
    /\ \A m \in Messages : /\ m.type = "request_chain" => m.ids \in SUBSET Block
                           /\ m.type = "request_objects" => m.blocks \in Seq(Block)
                           /\ m.type \in {"handshake", "request_chain", "request_objects"}
    /\ \A m \in Answers :
          /\ m.type = "sync" => m.top \in Block /\ m.initial \in BOOLEAN
          /\ m.type = "chain_entry" => m.start \in Nat /\ m.ids \in Seq(Block) /\ m.total \in Nat
          /\ m.type = "objects" => m.blocks \in Seq(Block) /\ m.height \in Nat
          /\ m.type = "new_block" => m.block \in Block
          /\ m.type \in {"sync", "chain_entry", "objects", "new_block"}
  <1>1. \A m \in Messages : /\ m.type = "request_chain" => m.ids \in SUBSET Block
                            /\ m.type = "request_objects" => m.blocks \in Seq(Block)
                            /\ m.type \in {"handshake", "request_chain", "request_objects"}
    BY DEF Messages
  <1>2. \A m \in Answers :
          /\ m.type = "sync" => m.top \in Block /\ m.initial \in BOOLEAN
          /\ m.type = "chain_entry" => m.start \in Nat /\ m.ids \in Seq(Block) /\ m.total \in Nat
          /\ m.type = "objects" => m.blocks \in Seq(Block) /\ m.height \in Nat
          /\ m.type = "new_block" => m.block \in Block
          /\ m.type \in {"sync", "chain_entry", "objects", "new_block"}
    BY DEF Answers
  <1> QED
    BY <1>1, <1>2

(* The storage takes blocks only, and it forgets none.                     *)
LEMMA StorageFacts ==
    ASSUME TypeOK, NEW b \in Block, handle_incoming_block(b)
    PROVE  /\ top' \in stored' /\ stored' \subseteq Block /\ invalid' \subseteq Block
           /\ stored \subseteq stored' /\ invalid \subseteq invalid'
           /\ stored' \subseteq stored \cup {b}
           /\ invalid' # invalid => Fault[b] # "none" /\ invalid' = invalid \cup {b}
           /\ Verdict(b) \in {"main", "alt"} => b \in stored'
           /\ Verdict(b) = "exists" => b \in stored \cup invalid
  BY DEF TypeOK, handle_incoming_block, Verdict, have_block

(* The parts of TypeOK that a handler may change for its connection.       *)
ContextOK ==
    /\ state \in [Peer -> States]
    /\ needed \in [Peer -> Seq(Block)] /\ requested \in [Peer -> SUBSET Block]
    /\ remote \in [Peer -> Nat] /\ last \in [Peer -> Nat] /\ callbacks \in [Peer -> Nat]
    /\ outgoing \in [Peer -> Seq(Messages)] /\ incoming \in [Peer -> Seq(Answers)]
    /\ entry \in [Peer -> SUBSET Block]
Works == [kind : {"none", "objects", "new_block"}, rest : Seq(Block), count : Nat]

(* A dropped connection has a fresh context, and it is the only one that   *)
(* changes.                                                                *)
LEMMA DropType ==
    ASSUME ContextOK, NEW p \in Peer, drop_connection(p)
    PROVE  ContextOK'
  BY DEF ContextOK, drop_connection, States

(* SetAside keeps the lists of objects typed.                              *)
LEMMA SetAsideType ==
    ASSUME TypeOK, NEW p \in Peer, SetAside(p)
    PROVE  needed' \in [Peer -> Seq(Block)] /\ requested' \in [Peer -> SUBSET Block]
  <1>1. <<>> \in Seq(Block) /\ {} \in SUBSET Block
    OBVIOUS
  <1>2. needed \in [Peer -> Seq(Block)] /\ requested \in [Peer -> SUBSET Block]
    BY DEF TypeOK
  <1> QED
    BY <1>1, <1>2, ExceptType, Zenon DEF SetAside

(* What request_missing_objects does: the objects still needed are split   *)
(* into what is requested, what stays needed and what is known already; or *)
(* there are none, and ids are asked for or the connection is in step.     *)
RequestsObjects(p, nd, check, rq, rest, got, req) ==
    /\ nd # <<>>
    /\ Range(nd) \subseteq Range(rest) \cup got \cup IF check THEN stored \cup invalid ELSE {}
    /\ needed' = [needed EXCEPT ![p] = rest] /\ requested' = [requested EXCEPT ![p] = rq \cup got]
    /\ post_notify(p, [type |-> "request_objects", blocks |-> req])
    /\ state' = state
RequestsIds(p, nd, rm, ls, rq) ==
    /\ nd = <<>> /\ ls < rm - 1
    /\ needed' = [needed EXCEPT ![p] = nd] /\ requested' = [requested EXCEPT ![p] = rq]
    /\ post_notify(p, RequestChain) /\ state' = state
RequestsNothing(p, nd, rm, ls, rq) ==
    /\ nd = <<>> /\ ls >= rm - 1
    /\ needed' = [needed EXCEPT ![p] = nd] /\ requested' = [requested EXCEPT ![p] = rq]
    /\ outgoing' = outgoing
    /\ state' = IF ls = rm - 1 /\ rq = {} THEN [state EXCEPT ![p] = "normal"] ELSE state

(* request_missing_objects does one of three things: it asks for objects,  *)
(* it asks for ids, or it asks for nothing.                                *)
LEMMA RequestFacts ==
    ASSUME NEW p \in Peer, NEW nd \in Seq(Block), NEW check \in BOOLEAN, NEW rm, NEW ls, NEW rq,
           request_missing_objects(p, nd, check, rm, ls, rq)
    PROVE  \/ \E rest, req \in Seq(Block), got \in SUBSET Block :
                RequestsObjects(p, nd, check, rq, rest, got, req)
           \/ RequestsIds(p, nd, rm, ls, rq)
           \/ RequestsNothing(p, nd, rm, ls, rq)
  <1> DEFINE known     == IF check THEN stored \cup invalid ELSE {}
             wanted    == Block \ known
             before(k) == Cardinality({j \in 1 .. k - 1 : nd[j] \in wanted})
             n         == Cardinality({k \in 1 .. Len(nd) : before(k) < MaxBlocks})
             batch     == SubSeq(nd, 1, n)
             rest      == SubSeq(nd, n + 1, Len(nd))
             req       == SelectIn(batch, wanted)
             got       == Range(batch) \cap wanted
  <1>1. n \in 0 .. Len(nd)
    <2> HIDE DEF before
    <2>1. {k \in 1 .. Len(nd) : before(k) < MaxBlocks} \in SUBSET (1 .. Len(nd))
      OBVIOUS
    <2> QED
      BY <2>1, CountBound
  <1>2. \/ /\ nd # <<>>
           /\ needed' = [needed EXCEPT ![p] = rest] /\ requested' = [requested EXCEPT ![p] = rq \cup got]
           /\ post_notify(p, [type |-> "request_objects", blocks |-> req])
           /\ state' = state
        \/ RequestsIds(p, nd, rm, ls, rq)
        \/ RequestsNothing(p, nd, rm, ls, rq)
    BY Zenon DEF request_missing_objects, RequestsIds, RequestsNothing
  <1> HIDE DEF n
  <1>3. batch \in Seq(Block) /\ rest \in Seq(Block) /\ Range(nd) = Range(batch) \cup Range(rest)
    BY <1>1, SplitFacts
  <1> HIDE DEF known, batch, rest
  <1>4. req \in Seq(Block)
    BY <1>3, SelectInFacts
  <1>5. got \in SUBSET Block
    OBVIOUS
  <1>6. Range(nd) \subseteq Range(rest) \cup got \cup known
    <2>1. Range(batch) \subseteq Block
      BY <1>3, RangeOfSeq
    <2> QED
      BY <1>3, <2>1
  <1> HIDE DEF got, req
  <1>7. ASSUME nd # <<>>, needed' = [needed EXCEPT ![p] = rest],
               requested' = [requested EXCEPT ![p] = rq \cup got],
               post_notify(p, [type |-> "request_objects", blocks |-> req]), state' = state
        PROVE  RequestsObjects(p, nd, check, rq, rest, got, req)
    BY <1>6, <1>7 DEF RequestsObjects, known
  <1> QED
    BY <1>2, <1>3, <1>4, <1>5, <1>7

(* request_missing_objects keeps what it changes typed.                    *)
LEMMA RequestType ==
    ASSUME TypeOK, NEW p \in Peer, NEW nd \in Seq(Block), NEW check \in BOOLEAN, NEW rm,
           NEW ls, NEW rq \in SUBSET Block,
           request_missing_objects(p, nd, check, rm, ls, rq)
    PROVE  /\ needed' \in [Peer -> Seq(Block)] /\ requested' \in [Peer -> SUBSET Block]
           /\ state' \in [Peer -> States] /\ outgoing' \in [Peer -> Seq(Messages)]
  <1>1. \A m \in Messages : post_notify(p, m) => outgoing' \in [Peer -> Seq(Messages)]
    BY DEF TypeOK, post_notify
  <1>2. outgoing \in [Peer -> Seq(Messages)]
    BY DEF TypeOK
  <1>3. \A d \in Seq(Block) : needed' = [needed EXCEPT ![p] = d] => needed' \in [Peer -> Seq(Block)]
    BY DEF TypeOK
  <1>4. \A d \in SUBSET Block : requested' = [requested EXCEPT ![p] = d]
                                  => requested' \in [Peer -> SUBSET Block]
    BY DEF TypeOK
  <1>5. [state EXCEPT ![p] = "normal"] \in [Peer -> States] /\ state \in [Peer -> States]
    BY DEF TypeOK, States
  <1>6. RequestChain \in Messages
    BY HistoryFacts DEF TypeOK
  <1>7. CASE \E rest, req \in Seq(Block), got \in SUBSET Block :
                RequestsObjects(p, nd, check, rq, rest, got, req)
    <2>1. PICK rest \in Seq(Block), req \in Seq(Block), got \in SUBSET Block :
                RequestsObjects(p, nd, check, rq, rest, got, req)
      BY <1>7
    <2>2. [type |-> "request_objects", blocks |-> req] \in Messages /\ rq \cup got \in SUBSET Block
      BY DEF Messages
    <2> QED
      BY <2>1, <2>2, <1>1, <1>3, <1>4, <1>5, Zenon DEF RequestsObjects
  <1>8. CASE RequestsIds(p, nd, rm, ls, rq)
    BY <1>8, <1>1, <1>3, <1>4, <1>5, <1>6, Zenon DEF RequestsIds
  <1>9. CASE RequestsNothing(p, nd, rm, ls, rq)
    BY <1>9, <1>2, <1>3, <1>4, <1>5, Zenon DEF RequestsNothing
  <1> QED
    BY <1>7, <1>8, <1>9, RequestFacts

(* Every step keeps the types, with what the messages are known to hold.   *)
LEMMA TypeStep ==
    ASSUME TypeOK, NEW p \in Peer, WellFormed(p),
           \/ Connect(p) \/ Break(p) \/ Serves(p) \/ handle_timed_sync(p) \/ PeerMoves(p)
           \/ Receives(p) \/ on_callback(p) \/ Continues(p)
    PROVE  TypeOK'
  <1> USE DEF storage, context, address, peervars
  <1>a. ContextOK
    BY DEF TypeOK, ContextOK
  <1>b. /\ incoming[p] \in Seq(Answers) /\ outgoing[p] \in Seq(Messages) /\ work[p] \in Works
        /\ ptop[p] \in Block /\ Path[ptop[p]] \in Seq(Block) /\ top \in Block
    BY PathFacts DEF TypeOK, Works
  <1>c. incoming[p] # <<>> => /\ Head(incoming[p]) \in Answers /\ Head(incoming[p]) = incoming[p][1]
                              /\ Tail(incoming[p]) \in Seq(Answers) /\ 1 \in DOMAIN incoming[p]
    BY <1>b, QueueFacts
  <1>d. outgoing[p] # <<>> => /\ Head(outgoing[p]) \in Messages /\ Head(outgoing[p]) = outgoing[p][1]
                              /\ Tail(outgoing[p]) \in Seq(Messages) /\ 1 \in DOMAIN outgoing[p]
    BY <1>b, QueueFacts
  <1>e. ASSUME NEW m \in Answers, outgoing[p] # <<>>, Answer(p, m) PROVE TypeOK'
    <2>1. Append(incoming[p], m) \in Seq(Answers)
      BY <1>b
    <2> QED
      BY <1>e, <1>d, <2>1 DEF TypeOK, Answer
  <1>f. ASSUME drop_connection(p), UNCHANGED <<storage, ptop, work, que, relayed, address>>
        PROVE  TypeOK'
    BY <1>a, <1>f, DropType DEF TypeOK, ContextOK
  <1>1. CASE Connect(p)
    <2>1. <<[type |-> "handshake"]>> \in Seq(Messages)
      BY DEF Messages
    <2> QED
      BY <1>1, <2>1 DEF TypeOK, Connect, is_address_allowed, States
  <1>2. CASE Break(p)
    BY <1>2, <1>f DEF Break
  <1>3. CASE handle_handshake(p)
    BY <1>3, <1>e, <1>b DEF handle_handshake, Asks, Answers
  <1>4. CASE handle_request_chain(p)
    <2>1. ChainEntry(ptop[p], Head(outgoing[p]).ids) \in Answers
      BY <1>4, <1>b, <1>d, ChainEntryFacts, MessageFacts
      DEF handle_request_chain, Asks, WellFormed
    <2> QED
      BY <1>4, <1>e, <2>1 DEF handle_request_chain, Asks
  <1>5. CASE handle_request_get_objects(p)
    <2> DEFINE blocks == Head(outgoing[p]).blocks
               found  == SelectIn(blocks, Range(Path[ptop[p]]))
    <2>1. blocks \in Seq(Block)
      BY <1>5, <1>d, MessageFacts DEF handle_request_get_objects, Asks
    <2>2. found \in Seq(Block)
      BY <2>1, SelectInFacts
    <2> HIDE DEF found
    <2>3. Len(Path[ptop[p]]) \in Nat
      BY <1>b
    <2>4. [type |-> "objects", blocks |-> found, height |-> Len(Path[ptop[p]])] \in Answers
      BY <2>2, <2>3 DEF Answers
    <2> QED
      BY <1>5, <1>e, <1>f, <2>4 DEF handle_request_get_objects, Asks, found
  <1>6. CASE handle_timed_sync(p)
    <2>1. <<[type |-> "sync", top |-> ptop[p], initial |-> FALSE]>> \in Seq(Answers)
      BY <1>b DEF Answers
    <2> QED
      BY <1>6, <2>1 DEF TypeOK, handle_timed_sync
  <1>7. CASE PeerMoves(p)
    <2>1. PICK c \in Block : /\ ptop' = [ptop EXCEPT ![p] = c]
                             /\ \/ UNCHANGED incoming
                                \/ incoming' = [incoming EXCEPT
                                      ![p] = Append(@, [type |-> "new_block", block |-> c])]
      BY <1>7 DEF PeerMoves
    <2>2. Append(incoming[p], [type |-> "new_block", block |-> c]) \in Seq(Answers)
      BY <1>b DEF Answers
    <2> QED
      <3>1. ptop' \in [Peer -> Block] /\ incoming' \in [Peer -> Seq(Answers)]
        BY <2>1, <2>2, ZenonT(30) DEF TypeOK
      <3> QED
        BY <1>7, <3>1 DEF TypeOK, PeerMoves
  <1>8. CASE process_payload_sync_data(p)
    <2> DEFINE m == Head(incoming[p])
    <2>1. incoming[p] # <<>> /\ m.top \in Block /\ UNCHANGED <<storage, ptop, work, que, relayed, address>>
      BY <1>8, <1>c, MessageFacts DEF process_payload_sync_data, Gets
    <2>2. Len(Path[m.top]) \in Nat
      BY <2>1, PathFacts
    <2>3. Received(p) => incoming' \in [Peer -> Seq(Answers)]
      BY <2>1, <1>c DEF Received, TypeOK
    <2>4. CASE drop_connection(p)
      BY <2>4, <2>1, <1>f
    <2>5. CASE Received(p) /\ UNCHANGED <<context, outgoing>>
      BY <2>5, <2>1, <2>3 DEF TypeOK
    <2>6. CASE /\ state' = [state EXCEPT ![p] = "normal"]
               /\ Received(p)
               /\ UNCHANGED <<needed, requested, remote, last, callbacks, entry, outgoing>>
      BY <2>6, <2>1, <2>3 DEF TypeOK, States
    <2>7. CASE /\ state'     = [state EXCEPT ![p] = "synchronizing"]
               /\ remote'    = [remote EXCEPT ![p] = Len(Path[m.top])]
               /\ callbacks' = [callbacks EXCEPT ![p] = @ + 1]
               /\ Received(p)
               /\ UNCHANGED <<needed, requested, last, entry, outgoing>>
      <3>1. state' \in [Peer -> States]
        BY <2>7 DEF TypeOK, States
      <3>2. remote' \in [Peer -> Nat] /\ callbacks' \in [Peer -> Nat]
        BY <2>7, <2>2, SMTT(30) DEF TypeOK
      <3> QED
        BY <2>7, <2>1, <2>3, <3>1, <3>2 DEF TypeOK
    <2> QED
      BY <1>8, <2>4, <2>5, <2>6, <2>7 DEF process_payload_sync_data
  <1>9. CASE address_blocked(p)
    BY <1>9, <1>c DEF TypeOK, address_blocked, Received
  <1>10. CASE handle_notify_new_block(p)
    <2> DEFINE b == Head(incoming[p]).block
    <2>1. incoming[p] # <<>> /\ b \in Block /\ UNCHANGED <<storage, ptop, address>>
      BY <1>10, <1>c, MessageFacts DEF handle_notify_new_block, Gets
    <2>2. Received(p) => incoming' \in [Peer -> Seq(Answers)]
      BY <2>1, <1>c DEF Received, TypeOK
    <2>3. CASE drop_connection(p) /\ UNCHANGED <<work, que, relayed>>
      BY <2>3, <2>1, <1>f
    <2>4. CASE Received(p) /\ UNCHANGED <<context, outgoing, work, que, relayed>>
      BY <2>4, <2>1, <2>2 DEF TypeOK
    <2>5. CASE /\ que' = que \cup {b}
               /\ LET pre == IF Prev(b) = top THEN 1 ELSE 0 IN
                  /\ relayed' = [relayed EXCEPT ![b] = @ + pre]
                  /\ work' = [work EXCEPT ![p] = [kind |-> "new_block", rest |-> <<b>>, count |-> pre]]
               /\ Received(p) /\ UNCHANGED <<context, outgoing>>
      <3> DEFINE pre == IF Prev(b) = top THEN 1 ELSE 0
      <3>1. pre \in Nat /\ <<b>> \in Seq(Block)
        BY <2>1
      <3> HIDE DEF pre
      <3>2. [kind |-> "new_block", rest |-> <<b>>, count |-> pre] \in Works
        BY <3>1 DEF Works
      <3>3. /\ relayed' = [relayed EXCEPT ![b] = @ + pre]
            /\ work' = [work EXCEPT ![p] = [kind |-> "new_block", rest |-> <<b>>, count |-> pre]]
        BY <2>5 DEF pre
      <3>4. relayed' \in [Block -> Nat]
        <4> HIDE DEF b
        <4>1. relayed \in [Block -> Nat] /\ relayed[b] + pre \in Nat
          BY <2>1, <3>1, SMTT(30) DEF TypeOK
        <4> QED
          BY <4>1, <2>1, <3>3, ExceptType
      <3>5. work' \in [Peer -> Works]
        BY <3>2, <3>3 DEF TypeOK, Works
      <3>6. que' \subseteq Block
        BY <2>5, <2>1 DEF TypeOK
      <3> QED
        BY <2>5, <2>1, <2>2, <3>4, <3>5, <3>6 DEF TypeOK, Works
    <2> QED
      BY <1>10, <2>3, <2>4, <2>5 DEF handle_notify_new_block
  <1>11. CASE handle_response_chain_entry(p)
    <2> DEFINE m  == Head(incoming[p])
               ls == m.start + Len(m.ids) - 1
               lacking == SelectIn(m.ids, Block \ (stored \cup invalid))
               nd == needed[p] \o lacking
    <2>1. /\ incoming[p] # <<>> /\ m.start \in Nat /\ m.ids \in Seq(Block) /\ m.total \in Nat
          /\ m.ids # <<>>
      BY <1>11, <1>c, MessageFacts DEF handle_response_chain_entry, Gets, WellFormed
    <2>2. lacking \in Seq(Block)
      BY <2>1, SelectInFacts
    <2>3. nd \in Seq(Block)
      <3> HIDE DEF lacking
      <3> QED BY <2>2 DEF TypeOK
    <2>4. ls \in Nat /\ Range(m.ids) \in SUBSET Block
      BY <2>1, RangeOfSeq
    <2>5. request_missing_objects(p, nd, FALSE, m.total, ls, requested[p])
      BY <1>11 DEF handle_response_chain_entry
    <2>6. /\ UNCHANGED <<storage, ptop, work, que, relayed, address, callbacks>>
          /\ remote' = [remote EXCEPT ![p] = m.total]
          /\ last'   = [last EXCEPT ![p] = ls]
          /\ entry'  = [entry EXCEPT ![p] = Range(m.ids)]
          /\ incoming' = [incoming EXCEPT ![p] = Tail(@)]
      BY <1>11 DEF handle_response_chain_entry, Received
    <2> HIDE DEF nd, ls, m
    <2>7. requested[p] \in SUBSET Block
      BY DEF TypeOK
    <2>8. /\ needed' \in [Peer -> Seq(Block)] /\ requested' \in [Peer -> SUBSET Block]
          /\ state' \in [Peer -> States] /\ outgoing' \in [Peer -> Seq(Messages)]
      BY <2>3, <2>5, <2>7, RequestType
    <2> QED
      BY <2>1, <2>4, <2>6, <2>8, <1>c DEF TypeOK
  <1>12. CASE handle_response_get_objects(p)
    <2> DEFINE m == Head(incoming[p])
    <2>1. /\ incoming[p] # <<>> /\ m.blocks \in Seq(Block) /\ m.height \in Nat
          /\ UNCHANGED <<storage, ptop, que, relayed, address>>
      BY <1>12, <1>c, MessageFacts DEF handle_response_get_objects, Gets
    <2>2. Received(p) => incoming' \in [Peer -> Seq(Answers)]
      BY <2>1, <1>c DEF Received, TypeOK
    <2>3. CASE drop_connection(p) /\ UNCHANGED work
      BY <2>3, <2>1, <1>f
    <2>4. CASE /\ SetAside(p)
               /\ remote' = [remote EXCEPT ![p] = m.height]
               /\ Received(p) /\ UNCHANGED <<last, callbacks, entry, outgoing, work>>
      <3>1. state' \in [Peer -> States]
        BY <2>4 DEF TypeOK, SetAside, States
      <3>2. needed' \in [Peer -> Seq(Block)] /\ requested' \in [Peer -> SUBSET Block]
        BY <2>4, SetAsideType
      <3>3. remote' \in [Peer -> Nat]
        BY <2>4, <2>1 DEF TypeOK
      <3> QED
        BY <2>4, <2>1, <2>2, <3>1, <3>2, <3>3 DEF TypeOK
    <2>5. CASE /\ remote'    = [remote EXCEPT ![p] = m.height]
               /\ requested' = [requested EXCEPT ![p] = {}]
               /\ work' = [work EXCEPT ![p] = [kind |-> "objects", rest |-> m.blocks, count |-> 0]]
               /\ Received(p) /\ UNCHANGED <<state, needed, last, callbacks, entry, outgoing>>
      BY <2>5, <2>1, <2>2 DEF TypeOK
    <2> QED
      BY <1>12, <2>3, <2>4, <2>5 DEF handle_response_get_objects
  <1>13. CASE on_callback(p)
    <2>1. Append(outgoing[p], RequestChain) \in Seq(Messages)
      BY <1>b, HistoryFacts
    <2>2. callbacks[p] \in Nat /\ callbacks[p] > 0
      BY <1>13 DEF on_callback, TypeOK
    <2> QED
      <3>1. callbacks' \in [Peer -> Nat]
        BY <1>13, <2>2 DEF TypeOK, on_callback
      <3>2. outgoing' \in [Peer -> Seq(Messages)]
        BY <1>13, <2>1 DEF TypeOK, on_callback, post_notify
      <3> QED
        BY <1>13, <3>1, <3>2 DEF TypeOK, on_callback
  <1>14. CASE NewBlockHandled(p)
    <2> DEFINE b == work[p].rest[1]
    <2>1. b \in Block
      BY <1>14, <1>b DEF NewBlockHandled, WellFormed, Works
    <2>2. handle_incoming_block(b) /\ UNCHANGED <<ptop, address>>
      BY <1>14 DEF NewBlockHandled
    <2>3. top' \in stored' /\ stored' \subseteq Block /\ invalid' \subseteq Block
      BY <2>1, <2>2, StorageFacts
    <2>4. que' \subseteq Block /\ relayed' \in [Block -> Nat]
          /\ work' \in [Peer -> Works]
      <3>1. que' \subseteq Block
        BY <1>14 DEF NewBlockHandled, TypeOK
      <3>2. relayed' = [relayed EXCEPT ![b] = @ + 1] \/ relayed' = relayed
        BY <1>14, Zenon DEF NewBlockHandled
      <3>3. relayed' \in [Block -> Nat]
        <4> HIDE DEF b
        <4>1. relayed \in [Block -> Nat] /\ relayed[b] + 1 \in Nat
          BY <2>1 DEF TypeOK
        <4> QED
          BY <4>1, <2>1, <3>2, ExceptType
      <3>4. Idle \in Works
        BY DEF Works, Idle
      <3>5. work' \in [Peer -> Works]
        BY <1>14, <3>4 DEF NewBlockHandled, TypeOK, Works
      <3> QED
        BY <3>1, <3>3, <3>5
    <2>5. ContextOK'
      <3>1. CASE drop_connection(p)
        BY <3>1, <1>a, DropType
      <3>2. CASE /\ state' = [state EXCEPT ![p] = "synchronizing"]
                 /\ post_notify(p, RequestChain)
                 /\ UNCHANGED <<needed, requested, remote, last, callbacks, entry, incoming>>
        <4>1. Append(outgoing[p], RequestChain) \in Seq(Messages)
          BY <1>b, HistoryFacts
        <4> QED
          BY <3>2, <4>1, <1>a DEF ContextOK, post_notify, States
      <3>3. CASE UNCHANGED <<context, outgoing, incoming>>
        BY <3>3, <1>a DEF ContextOK
      <3> QED
        BY <1>14, <3>1, <3>2, <3>3 DEF NewBlockHandled
    <2> QED
      BY <2>2, <2>3, <2>4, <2>5 DEF TypeOK, ContextOK, Works
  <1>15. CASE ObjectHandled(p)
    <2> DEFINE b == Head(work[p].rest)
    <2>1. b \in Block /\ Tail(work[p].rest) \in Seq(Block) /\ work[p].count \in Nat
      BY <1>15, <1>b DEF ObjectHandled, Works
    <2>2. handle_incoming_block(b) /\ UNCHANGED <<ptop, que, relayed, allowed>>
      BY <1>15 DEF ObjectHandled
    <2>3. top' \in stored' /\ stored' \subseteq Block /\ invalid' \subseteq Block
      BY <2>1, <2>2, StorageFacts
    <2>4. work' \in [Peer -> Works]
      <3>1. \/ work' = [work EXCEPT ![p] = Idle]
            \/ work' = [work EXCEPT ![p].rest = Tail(@), ![p].count = @ + 1]
        BY <1>15 DEF ObjectHandled
      <3>2. Idle \in Works
        BY DEF Works, Idle
      <3>3. \A w \in Works : [work EXCEPT ![p] = w] \in [Peer -> Works]
        BY DEF TypeOK, Works
      <3>4. [work[p] EXCEPT !.rest = Tail(@), !.count = @ + 1] \in Works
        <4> DEFINE w == work[p]
        <4> HIDE DEF w
        <4>1. w \in Works /\ Tail(w.rest) \in Seq(Block) /\ w.count + 1 \in Nat
          BY <2>1, <1>b DEF w
        <4>2. [w EXCEPT !.rest = Tail(@), !.count = @ + 1] \in Works
          BY <4>1 DEF Works
        <4> QED
          BY <4>2 DEF w
      <3>5. [work EXCEPT ![p].rest = Tail(@), ![p].count = @ + 1]
              = [work EXCEPT ![p] = [work[p] EXCEPT !.rest = Tail(@), !.count = @ + 1]]
        BY DEF TypeOK
      <3> QED
        BY <3>1, <3>2, <3>3, <3>4, <3>5, Zenon
    <2>5. fails' \in [Peer -> Nat] /\ blocked' \subseteq Peer
      <3>1. add_address_fail(p) \/ UNCHANGED <<fails, blocked>>
        BY <1>15, Zenon DEF ObjectHandled
      <3> QED
        <4>1. fails \in [Peer -> Nat] /\ 0 \in Nat /\ fails[p] + 1 \in Nat /\ blocked \subseteq Peer
          BY DEF TypeOK
        <4> QED
          BY <3>1, <4>1, ExceptType DEF add_address_fail
    <2>6. ContextOK'
      <3>1. CASE drop_connection(p)
        BY <3>1, <1>a, DropType
      <3>2. CASE UNCHANGED <<context, outgoing, incoming>>
        BY <3>2, <1>a DEF ContextOK
      <3>3. CASE /\ IF Open(p) THEN SetAside(p) ELSE UNCHANGED <<state, needed, requested>>
                 /\ UNCHANGED <<remote, last, callbacks, entry, outgoing, incoming>>
        <4>1. CASE Open(p)
          <5>1. state' \in [Peer -> States]
            BY <3>3, <4>1, <1>a DEF ContextOK, SetAside, States
          <5>2. needed' \in [Peer -> Seq(Block)] /\ requested' \in [Peer -> SUBSET Block]
            BY <3>3, <4>1, SetAsideType
          <5> QED
            BY <5>1, <5>2, <3>3, <1>a DEF ContextOK
        <4>2. CASE ~Open(p)
          BY <4>2, <3>3, <1>a DEF ContextOK
        <4> QED
          BY <4>1, <4>2
      <3> QED
        BY <1>15, <3>1, <3>2, <3>3 DEF ObjectHandled
    <2> QED
      BY <2>2, <2>3, <2>4, <2>5, <2>6 DEF TypeOK, ContextOK, Works
  <1>16. CASE ObjectsDone(p)
    <2>1. needed[p] \in Seq(Block) /\ requested[p] \in SUBSET Block
      BY DEF TypeOK
    <2>2. /\ needed' \in [Peer -> Seq(Block)] /\ requested' \in [Peer -> SUBSET Block]
          /\ state' \in [Peer -> States] /\ outgoing' \in [Peer -> Seq(Messages)]
      <3>1. CASE UNCHANGED <<state, needed, requested, outgoing>>
        BY <3>1 DEF TypeOK
      <3>2. CASE request_missing_objects(p, needed[p], TRUE, remote[p], last[p], requested[p])
        BY <3>2, <2>1, RequestType
      <3> QED
        BY <1>16, <3>1, <3>2 DEF ObjectsDone
    <2>3. /\ UNCHANGED <<storage, ptop, remote, last, callbacks, entry, incoming, que, relayed, address>>
          /\ work' = [work EXCEPT ![p] = Idle]
      BY <1>16 DEF ObjectsDone
    <2> QED
      <3>1. Idle \in Works
        BY DEF Works, Idle
      <3>2. work' \in [Peer -> Works]
        BY <2>3, <3>1 DEF TypeOK, Works
      <3> QED
        BY <2>2, <2>3, <3>2 DEF TypeOK, Works
  <1> QED
    BY <1>1, <1>2, <1>3, <1>4, <1>5, <1>6, <1>7, <1>8, <1>9, <1>10, <1>11, <1>12, <1>13,
       <1>14, <1>15, <1>16 DEF Serves, Receives, Continues

-----------------------------------------------------------------------------
(***************************************************************************)
(* One connection at a time: a step of one leaves the others alone.        *)
(***************************************************************************)
Local(p) ==
    /\ WellFormed(p) /\ ClosedClean(p) /\ OneAtATime(p) /\ OnlySynchronizing(p)
    /\ RequestsOpen(p) /\ EntryCovered(p)

SameConnection(q) ==
    /\ ptop'[q] = ptop[q] /\ state'[q] = state[q] /\ needed'[q] = needed[q]
    /\ requested'[q] = requested[q] /\ remote'[q] = remote[q] /\ last'[q] = last[q]
    /\ callbacks'[q] = callbacks[q] /\ entry'[q] = entry[q] /\ outgoing'[q] = outgoing[q]
    /\ incoming'[q] = incoming[q] /\ work'[q] = work[q] /\ (q \in blocked' <=> q \in blocked)
OthersSame(p) == \A q \in Peer \ {p} : SameConnection(q)
StorageGrows == stored \subseteq stored' /\ invalid \subseteq invalid'

(* What is said of a connection stays true while the connection is left    *)
(* alone and the storage only gains blocks.                                *)
LEMMA SameLocal ==
    ASSUME NEW q \in Peer, Local(q), SameConnection(q), StorageGrows
    PROVE  Local(q)'
  <1> USE DEF SameConnection
  <1>1. WellFormed(q)' /\ ClosedClean(q)'
    BY DEF Local, WellFormed, ClosedClean, Open
  <1>2. OneAtATime(q)' /\ OnlySynchronizing(q)' /\ RequestsOpen(q)'
    BY DEF Local, OneAtATime, OnlySynchronizing, RequestsOpen, Answered, Storing, Asks, Arrives
  <1>3. EntryCovered(q)'
    BY DEF Local, EntryCovered, InHand, Storing, Asks, Arrives, StorageGrows
  <1> QED
    BY <1>1, <1>2, <1>3 DEF Local

(* A connection that is left alone moves on as before.                     *)
LEMMA SameMoving ==
    ASSUME NEW q \in Peer, Moving(q), Heights(q), SameConnection(q)
    PROVE  Moving(q)' /\ Heights(q)'
  BY DEF SameConnection, Moving, Heights, Answered, Storing, Open

(* A step of one connection leaves the other connections as they are, and  *)
(* the storage forgets no block.                                           *)
LEMMA FrameStep ==
    ASSUME TypeOK, NEW p \in Peer, WellFormed(p),
           \/ Connect(p) \/ Break(p) \/ Serves(p) \/ handle_timed_sync(p) \/ PeerMoves(p)
           \/ Receives(p) \/ on_callback(p) \/ Continues(p)
    PROVE  OthersSame(p) /\ StorageGrows
  <1> USE DEF storage, context, address, peervars
  <1>a. /\ ptop = [q \in Peer |-> ptop[q]] /\ state = [q \in Peer |-> state[q]]
        /\ needed = [q \in Peer |-> needed[q]] /\ requested = [q \in Peer |-> requested[q]]
        /\ remote = [q \in Peer |-> remote[q]] /\ last = [q \in Peer |-> last[q]]
        /\ callbacks = [q \in Peer |-> callbacks[q]] /\ entry = [q \in Peer |-> entry[q]]
        /\ outgoing = [q \in Peer |-> outgoing[q]] /\ incoming = [q \in Peer |-> incoming[q]]
        /\ work = [q \in Peer |-> work[q]]
    BY DEF TypeOK
  <1>b. ASSUME drop_connection(p)
        PROVE  \A q \in Peer \ {p} :
                 /\ state'[q] = state[q] /\ needed'[q] = needed[q]
                 /\ requested'[q] = requested[q] /\ remote'[q] = remote[q] /\ last'[q] = last[q]
                 /\ callbacks'[q] = callbacks[q] /\ entry'[q] = entry[q]
                 /\ outgoing'[q] = outgoing[q] /\ incoming'[q] = incoming[q]
    BY <1>b, <1>a DEF drop_connection
  <1>c. ASSUME NEW nd, NEW check, NEW rm, NEW ls, NEW rq,
               request_missing_objects(p, nd, check, rm, ls, rq)
        PROVE  \A q \in Peer \ {p} : /\ state'[q] = state[q] /\ needed'[q] = needed[q]
                                     /\ requested'[q] = requested[q] /\ outgoing'[q] = outgoing[q]
    <2>1. \E d, r, m : /\ needed' = [needed EXCEPT ![p] = d] /\ requested' = [requested EXCEPT ![p] = r]
                       /\ outgoing' = [outgoing EXCEPT ![p] = m] \/ outgoing' = outgoing
                       /\ state' = [state EXCEPT ![p] = "normal"] \/ state' = state
      BY <1>c, Zenon DEF request_missing_objects, post_notify
    <2> QED
      BY <2>1, <1>a
  <1>1. CASE Connect(p)
    BY <1>1, <1>a DEF Connect, is_address_allowed, OthersSame, SameConnection, StorageGrows
  <1>2. CASE Break(p)
    BY <1>2, <1>b DEF Break, OthersSame, SameConnection, StorageGrows
  <1>3. CASE handle_handshake(p)
    BY <1>3, <1>a DEF handle_handshake, Answer, OthersSame, SameConnection, StorageGrows
  <1>4. CASE handle_request_chain(p)
    <2>1. PICK m : Answer(p, m)
      BY <1>4 DEF handle_request_chain
    <2> QED
      BY <2>1, <1>a DEF Answer, OthersSame, SameConnection, StorageGrows
  <1>5. CASE handle_request_get_objects(p)
    <2>1. CASE drop_connection(p) /\ UNCHANGED <<storage, ptop, work, que, relayed, address>>
      BY <2>1, <1>b DEF OthersSame, SameConnection, StorageGrows
    <2>2. CASE \E m : Answer(p, m)
      <3>1. PICK m : Answer(p, m)
        BY <2>2
      <3> QED
        BY <3>1, <1>a DEF Answer, OthersSame, SameConnection, StorageGrows
    <2> QED
      BY <1>5, <2>1, <2>2, Zenon DEF handle_request_get_objects
  <1>6. CASE handle_timed_sync(p)
    BY <1>6, <1>a DEF handle_timed_sync, OthersSame, SameConnection, StorageGrows
  <1>7. CASE PeerMoves(p)
    BY <1>7, <1>a DEF PeerMoves, OthersSame, SameConnection, StorageGrows
  <1>8. CASE process_payload_sync_data(p)
    <2>1. UNCHANGED <<storage, ptop, work, que, relayed, address>>
      BY <1>8 DEF process_payload_sync_data
    <2>2. CASE drop_connection(p)
      BY <2>1, <2>2, <1>b DEF OthersSame, SameConnection, StorageGrows
    <2>3. CASE ~drop_connection(p)
      <3>1. /\ \E x : state' = [state EXCEPT ![p] = x] \/ state' = state
            /\ \E x : remote' = [remote EXCEPT ![p] = x] \/ remote' = remote
            /\ \E x : callbacks' = [callbacks EXCEPT ![p] = x] \/ callbacks' = callbacks
            /\ incoming' = [incoming EXCEPT ![p] = Tail(@)]
            /\ UNCHANGED <<needed, requested, last, entry, outgoing>>
        BY <1>8, <2>3, Zenon DEF process_payload_sync_data, Received
      <3> QED
        BY <2>1, <3>1, <1>a DEF OthersSame, SameConnection, StorageGrows
    <2> QED
      BY <2>2, <2>3
  <1>9. CASE address_blocked(p)
    BY <1>9, <1>a DEF address_blocked, Received, OthersSame, SameConnection, StorageGrows
  <1>10. CASE handle_notify_new_block(p)
    <2>1. UNCHANGED <<storage, ptop, address>>
      BY <1>10 DEF handle_notify_new_block
    <2>2. CASE drop_connection(p) /\ UNCHANGED work
      BY <2>1, <2>2, <1>b DEF OthersSame, SameConnection, StorageGrows
    <2>3. CASE /\ \E x : work' = [work EXCEPT ![p] = x] \/ work' = work
               /\ Received(p) /\ UNCHANGED <<context, outgoing>>
      BY <2>1, <2>3, <1>a DEF Received, OthersSame, SameConnection, StorageGrows
    <2> QED
      BY <1>10, <2>2, <2>3, Zenon DEF handle_notify_new_block
  <1>11. CASE handle_response_chain_entry(p)
    <2>1. /\ UNCHANGED <<storage, ptop, work, que, relayed, address, callbacks>>
          /\ \E x : remote' = [remote EXCEPT ![p] = x]
          /\ \E x : last' = [last EXCEPT ![p] = x]
          /\ \E x : entry' = [entry EXCEPT ![p] = x]
          /\ incoming' = [incoming EXCEPT ![p] = Tail(@)]
      BY <1>11, Zenon DEF handle_response_chain_entry, Received
    <2>2. \A q \in Peer \ {p} : /\ state'[q] = state[q] /\ needed'[q] = needed[q]
                                /\ requested'[q] = requested[q] /\ outgoing'[q] = outgoing[q]
      BY <1>11, <1>c, Zenon DEF handle_response_chain_entry
    <2> QED
      BY <2>1, <2>2, <1>a DEF OthersSame, SameConnection, StorageGrows
  <1>12. CASE handle_response_get_objects(p)
    <2>1. UNCHANGED <<storage, ptop, que, relayed, address>>
      BY <1>12 DEF handle_response_get_objects
    <2>2. CASE drop_connection(p) /\ UNCHANGED work
      BY <2>1, <2>2, <1>b DEF OthersSame, SameConnection, StorageGrows
    <2>3. CASE /\ \E x : work' = [work EXCEPT ![p] = x] \/ work' = work
               /\ \E x : state' = [state EXCEPT ![p] = x] \/ state' = state
               /\ \E x : needed' = [needed EXCEPT ![p] = x] \/ needed' = needed
               /\ \E x : requested' = [requested EXCEPT ![p] = x]
               /\ \E x : remote' = [remote EXCEPT ![p] = x]
               /\ Received(p) /\ UNCHANGED <<last, callbacks, entry, outgoing>>
      BY <2>1, <2>3, <1>a DEF Received, OthersSame, SameConnection, StorageGrows
    <2> QED
      BY <1>12, <2>2, <2>3, Zenon DEF handle_response_get_objects, SetAside
  <1>13. CASE on_callback(p)
    BY <1>13, <1>a DEF on_callback, post_notify, OthersSame, SameConnection, StorageGrows
  <1>14. CASE NewBlockHandled(p)
    <2>1. /\ handle_incoming_block(work[p].rest[1]) /\ UNCHANGED <<ptop, address>>
          /\ work' = [work EXCEPT ![p] = Idle]
      BY <1>14 DEF NewBlockHandled
    <2>2. StorageGrows
      BY <2>1 DEF handle_incoming_block, StorageGrows
    <2>3. CASE drop_connection(p)
      BY <2>1, <2>2, <2>3, <1>a, <1>b DEF OthersSame, SameConnection
    <2>4. CASE /\ \E x : state' = [state EXCEPT ![p] = x] \/ state' = state
               /\ \E x : outgoing' = [outgoing EXCEPT ![p] = x] \/ outgoing' = outgoing
               /\ UNCHANGED <<needed, requested, remote, last, callbacks, entry, incoming>>
      BY <2>1, <2>2, <2>4, <1>a DEF OthersSame, SameConnection
    <2> QED
      BY <1>14, <2>3, <2>4, Zenon DEF NewBlockHandled, post_notify
  <1>15. CASE ObjectHandled(p)
    <2>1. /\ handle_incoming_block(Head(work[p].rest)) /\ UNCHANGED <<ptop, que, relayed, allowed>>
          /\ add_address_fail(p) \/ UNCHANGED blocked
      BY <1>15, Zenon DEF ObjectHandled
    <2>2. StorageGrows
      BY <2>1 DEF handle_incoming_block, StorageGrows
    <2>3. \A q \in Peer \ {p} : q \in blocked' <=> q \in blocked
      BY <2>1 DEF add_address_fail
    <2>4. \A q \in Peer \ {p} : work'[q] = work[q]
      <3>1. \/ work' = [work EXCEPT ![p] = Idle]
            \/ work' = [work EXCEPT ![p].rest = Tail(@), ![p].count = @ + 1]
        BY <1>15 DEF ObjectHandled
      <3> QED
        BY <3>1, <1>a
    <2>5. CASE drop_connection(p)
      BY <2>1, <2>2, <2>3, <2>4, <2>5, <1>b DEF OthersSame, SameConnection
    <2>6. CASE /\ \E x : state' = [state EXCEPT ![p] = x] \/ state' = state
               /\ \E x : needed' = [needed EXCEPT ![p] = x] \/ needed' = needed
               /\ \E x : requested' = [requested EXCEPT ![p] = x] \/ requested' = requested
               /\ UNCHANGED <<remote, last, callbacks, entry, outgoing, incoming>>
      BY <2>1, <2>2, <2>3, <2>4, <2>6, <1>a DEF OthersSame, SameConnection
    <2> QED
      BY <1>15, <2>5, <2>6, Zenon DEF ObjectHandled, SetAside
  <1>16. CASE ObjectsDone(p)
    <2>1. \A q \in Peer \ {p} : /\ state'[q] = state[q] /\ needed'[q] = needed[q]
                                /\ requested'[q] = requested[q] /\ outgoing'[q] = outgoing[q]
      BY <1>16, <1>c, Zenon DEF ObjectsDone
    <2> QED
      BY <1>16, <2>1, <1>a DEF ObjectsDone, OthersSame, SameConnection, StorageGrows
  <1> QED
    BY <1>1, <1>2, <1>3, <1>4, <1>5, <1>6, <1>7, <1>8, <1>9, <1>10, <1>11, <1>12, <1>13,
       <1>14, <1>15, <1>16 DEF Serves, Receives, Continues

-----------------------------------------------------------------------------
(***************************************************************************)
(* The connection of the step.                                             *)
(***************************************************************************)
(* Where the messages are after the first one was taken.                   *)
LEMMA ReceivedFacts ==
    ASSUME TypeOK, NEW p \in Peer, incoming[p] # <<>>, Received(p)
    PROVE  /\ 1 \in DOMAIN incoming[p] /\ Head(incoming[p]) = incoming[p][1]
           /\ Head(incoming[p]) \in Answers
           /\ \A i \in DOMAIN incoming'[p] :
                i + 1 \in DOMAIN incoming[p] /\ i + 1 # 1 /\ incoming'[p][i] = incoming[p][i + 1]
           /\ \A i \in DOMAIN incoming[p] : i # 1 =>
                i - 1 \in DOMAIN incoming'[p] /\ incoming'[p][i - 1] = incoming[p][i]
  <1> DEFINE s == incoming[p]
             t == incoming'[p]
  <1>1. s \in Seq(Answers) /\ s # <<>> /\ t = Tail(s)
    BY DEF TypeOK, Received
  <1> HIDE DEF s, t
  <1>2. /\ 1 \in DOMAIN s /\ Head(s) = s[1] /\ Head(s) \in Answers
        /\ \A i \in DOMAIN t : i + 1 \in DOMAIN s /\ i + 1 # 1 /\ t[i] = s[i + 1]
        /\ \A i \in DOMAIN s : i # 1 => i - 1 \in DOMAIN t /\ t[i - 1] = s[i]
    BY <1>1
  <1> QED
    BY <1>2 DEF s, t

(* ... and after one was added.                                            *)
LEMMA AppendedFacts ==
    ASSUME TypeOK, NEW p \in Peer, NEW m \in Answers,
           incoming' = [incoming EXCEPT ![p] = Append(@, m)]
    PROVE  /\ \A i \in DOMAIN incoming'[p] :
                \/ i \in DOMAIN incoming[p] /\ incoming'[p][i] = incoming[p][i]
                \/ i = Len(incoming[p]) + 1 /\ incoming'[p][i] = m
           /\ \A i \in DOMAIN incoming[p] :
                i \in DOMAIN incoming'[p] /\ incoming'[p][i] = incoming[p][i]
           /\ Len(incoming[p]) + 1 \in DOMAIN incoming'[p]
           /\ incoming'[p][Len(incoming[p]) + 1] = m
  <1> DEFINE s == incoming[p]
             t == incoming'[p]
  <1>1. s \in Seq(Answers) /\ t = Append(s, m)
    BY DEF TypeOK
  <1> HIDE DEF s, t
  <1>2. /\ \A i \in DOMAIN t : \/ i \in DOMAIN s /\ t[i] = s[i]
                               \/ i = Len(s) + 1 /\ t[i] = m
        /\ \A i \in DOMAIN s : i \in DOMAIN t /\ t[i] = s[i]
        /\ Len(s) + 1 \in DOMAIN t /\ t[Len(s) + 1] = m
    BY <1>1
  <1> QED
    BY <1>2 DEF s, t

(* One request at a time: what a queue of one or no message holds next.    *)
LEMMA PostFacts ==
    ASSUME TypeOK, NEW p \in Peer, outgoing[p] = <<>>, NEW m, post_notify(p, m)
    PROVE  /\ outgoing'[p] = <<m>> /\ Len(outgoing'[p]) = 1 /\ Head(outgoing'[p]) = m
           /\ DOMAIN outgoing'[p] = {1} /\ outgoing'[p][1] = m /\ outgoing'[p] # <<>>
  <1>1. outgoing'[p] = Append(<<>>, m)
    BY DEF TypeOK, post_notify
  <1>2. outgoing'[p] = <<m>>
    BY <1>1
  <1> QED
    BY <1>2

(* A peer that answers takes the only message of the connection.           *)
LEMMA ServedFacts ==
    ASSUME TypeOK, NEW p \in Peer, OneAtATime(p), outgoing[p] # <<>>, NEW m, Answer(p, m)
    PROVE  outgoing'[p] = <<>> /\ outgoing[p][1] = Head(outgoing[p]) /\ 1 \in DOMAIN outgoing[p]
           /\ Head(outgoing[p]) \in Messages
  <1> DEFINE s == outgoing[p]
  <1>1. s \in Seq(Messages) /\ s # <<>> /\ Len(s) <= 1 /\ outgoing'[p] = Tail(s)
    BY DEF TypeOK, OneAtATime, Answer
  <1> HIDE DEF s
  <1>2. Tail(s) = <<>> /\ s[1] = Head(s) /\ 1 \in DOMAIN s /\ Head(s) \in Messages
    BY <1>1
  <1> QED
    BY <1>1, <1>2 DEF s

(* After a drop only the handler may still be at work.                     *)
LEMMA DropLocal ==
    ASSUME TypeOK, NEW p \in Peer, drop_connection(p),
           work'[p].kind = "new_block" => Len(work'[p].rest) = 1
    PROVE  Local(p)' /\ state'[p] = "closed" /\ last'[p] = 0 /\ incoming'[p] = <<>>
  <1>1. /\ state'[p] = "closed" /\ needed'[p] = <<>> /\ requested'[p] = {} /\ last'[p] = 0
        /\ callbacks'[p] = 0 /\ entry'[p] = {} /\ outgoing'[p] = <<>> /\ incoming'[p] = <<>>
    BY DEF TypeOK, drop_connection
  <1>2. DOMAIN outgoing'[p] = {} /\ DOMAIN incoming'[p] = {} /\ Len(outgoing'[p]) = 0
    BY <1>1
  <1>3. WellFormed(p)' /\ ClosedClean(p)' /\ OneAtATime(p)'
    BY <1>1, <1>2 DEF WellFormed, ClosedClean, OneAtATime
  <1>4. OnlySynchronizing(p)' /\ RequestsOpen(p)' /\ EntryCovered(p)'
    BY <1>1, <1>2 DEF OnlySynchronizing, RequestsOpen, EntryCovered, Asks
  <1> QED
    BY <1>1, <1>3, <1>4 DEF Local

(* A connection that opens has nothing but its handshake under way.        *)
LEMMA ConnectLocal ==
    ASSUME TypeOK, NEW p \in Peer, Local(p), Connect(p)
    PROVE  Local(p)'
  <1> USE DEF storage
  <1>1. /\ outgoing'[p] = <<[type |-> "handshake"]>> /\ incoming'[p] = <<>>
        /\ state'[p] = "before_handshake" /\ callbacks'[p] = 0 /\ requested'[p] = {}
        /\ entry'[p] = {} /\ work'[p] = Idle
    BY DEF Local, ClosedClean, Connect, TypeOK
  <1>2. /\ DOMAIN outgoing'[p] = {1} /\ outgoing'[p][1].type = "handshake" /\ DOMAIN incoming'[p] = {}
        /\ Len(outgoing'[p]) = 1 /\ Head(outgoing'[p]).type = "handshake"
        /\ work'[p].kind = "none" /\ outgoing'[p] # <<>>
    BY <1>1 DEF Idle
  <1>3. WellFormed(p)' /\ ClosedClean(p)' /\ OneAtATime(p)'
    BY <1>1, <1>2 DEF WellFormed, ClosedClean, OneAtATime, Open, Storing
  <1>4. OnlySynchronizing(p)' /\ RequestsOpen(p)' /\ EntryCovered(p)'
    BY <1>1, <1>2 DEF OnlySynchronizing, RequestsOpen, EntryCovered, Asks, Storing
  <1> QED
    BY <1>3, <1>4 DEF Local

(* The handshake is answered with the data of the peer, still the initial  *)
(* ones.                                                                   *)
LEMMA HandshakeLocal ==
    ASSUME TypeOK, NEW p \in Peer, Local(p), handle_handshake(p)
    PROVE  Local(p)'
  <1> USE DEF peervars, storage, context, address
  <1> DEFINE m == [type |-> "sync", top |-> ptop[p], initial |-> TRUE]
  <1>1. Answer(p, m) /\ Asks(p, "handshake") /\ m \in Answers /\ m.type = "sync"
    BY DEF handle_handshake, Answers, TypeOK
  <1> HIDE DEF m
  <1>2. outgoing'[p] = <<>> /\ DOMAIN outgoing'[p] = {} /\ Len(outgoing'[p]) = 0
    BY <1>1, ServedFacts DEF Asks, Local
  <1>3. /\ \A i \in DOMAIN incoming'[p] :
              \/ i \in DOMAIN incoming[p] /\ incoming'[p][i] = incoming[p][i]
              \/ i = Len(incoming[p]) + 1 /\ incoming'[p][i] = m
        /\ \A i \in DOMAIN incoming[p] :
              i \in DOMAIN incoming'[p] /\ incoming'[p][i] = incoming[p][i]
    BY <1>1, AppendedFacts DEF Answer
  <1>4. UNCHANGED <<stored, invalid, state, needed, requested, last, callbacks, entry, work, blocked>>
    BY <1>1 DEF Answer
  <1>5. state[p] = "before_handshake"
    BY <1>1 DEF Local, OnlySynchronizing, Asks
  <1>6. WellFormed(p)' /\ ClosedClean(p)'
    BY <1>1, <1>2, <1>3, <1>4, <1>5 DEF Local, WellFormed, ClosedClean, Open
  <1>7. OneAtATime(p)'
    BY <1>1, <1>2, <1>3, <1>4, <1>5 DEF Local, OneAtATime, OnlySynchronizing, Answered, Storing
  <1>8. OnlySynchronizing(p)'
    BY <1>1, <1>2, <1>3, <1>4, <1>5 DEF Local, OnlySynchronizing, Answered, Storing, Asks
  <1>9. RequestsOpen(p)'
    BY <1>1, <1>3, <1>4 DEF Local, RequestsOpen, Asks, Arrives
  <1>10. EntryCovered(p)'
    BY <1>1, <1>2, <1>3, <1>4 DEF Local, EntryCovered, Asks, Arrives, Storing, InHand
  <1> QED
    BY <1>6, <1>7, <1>8, <1>9, <1>10 DEF Local

(* A request for ids is answered with a chain entry.                       *)
LEMMA RequestChainLocal ==
    ASSUME TypeOK, NEW p \in Peer, Local(p), handle_request_chain(p)
    PROVE  Local(p)'
  <1> USE DEF peervars, storage, context, address
  <1> DEFINE m == ChainEntry(ptop[p], Head(outgoing[p]).ids)
  <1>1. Answer(p, m) /\ Asks(p, "request_chain")
    BY DEF handle_request_chain
  <1>2. /\ outgoing'[p] = <<>> /\ outgoing[p][1] = Head(outgoing[p]) /\ 1 \in DOMAIN outgoing[p]
        /\ Head(outgoing[p]) \in Messages /\ DOMAIN outgoing'[p] = {} /\ Len(outgoing'[p]) = 0
    BY <1>1, ServedFacts DEF Asks, Local
  <1>3. /\ m \in Answers /\ m.type = "chain_entry" /\ m.ids # <<>>
        /\ m.start + Len(m.ids) <= m.total
    <2>1. ptop[p] \in Block /\ Head(outgoing[p]).ids \in SUBSET Block
      BY <1>1, <1>2, MessageFacts DEF TypeOK, Asks
    <2>2. Genesis \in Head(outgoing[p]).ids
      BY <1>1, <1>2 DEF Local, WellFormed, Asks
    <2> QED
      BY <2>1, <2>2, ChainEntryFacts
  <1> HIDE DEF m
  <1>4. /\ \A i \in DOMAIN incoming'[p] :
              \/ i \in DOMAIN incoming[p] /\ incoming'[p][i] = incoming[p][i]
              \/ i = Len(incoming[p]) + 1 /\ incoming'[p][i] = m
        /\ \A i \in DOMAIN incoming[p] :
              i \in DOMAIN incoming'[p] /\ incoming'[p][i] = incoming[p][i]
    BY <1>1, <1>3, AppendedFacts DEF Answer
  <1>5. UNCHANGED <<stored, invalid, state, needed, requested, last, callbacks, entry, work, blocked>>
    BY <1>1 DEF Answer
  <1>6. /\ state[p] = "synchronizing" /\ callbacks[p] = 0 /\ ~Storing(p)
        /\ \A i \in DOMAIN incoming[p] : ~Answered(p, i)
    BY <1>1 DEF Local, OnlySynchronizing, OneAtATime, Asks, TypeOK
  <1>7. WellFormed(p)' /\ ClosedClean(p)'
    BY <1>1, <1>2, <1>3, <1>4, <1>5, <1>6 DEF Local, WellFormed, ClosedClean, Open
  <1>8. OneAtATime(p)'
    BY <1>2, <1>3, <1>4, <1>5, <1>6 DEF OneAtATime, Answered, Storing
  <1>9. OnlySynchronizing(p)'
    BY <1>1, <1>2, <1>3, <1>4, <1>5, <1>6 DEF Local, OnlySynchronizing, Answered, Storing, Asks
  <1>10. RequestsOpen(p)' /\ EntryCovered(p)'
    <2>1. ~Arrives(p) /\ ~Arrives(p)' /\ ~Storing(p)'
      BY <1>3, <1>4, <1>5, <1>6 DEF Arrives, Answered, Storing
    <2>2. ~Asks(p, "request_objects") /\ ~Asks(p, "request_objects")'
      BY <1>1, <1>2 DEF Asks
    <2> QED
      BY <2>1, <2>2, <1>5 DEF Local, RequestsOpen, EntryCovered
  <1> QED
    BY <1>7, <1>8, <1>9, <1>10 DEF Local

(* A request for objects is answered with the objects asked for: what was  *)
(* in the request is in the answer.                                        *)
LEMMA GetObjectsServedLocal ==
    ASSUME TypeOK, NEW p \in Peer, Local(p), handle_request_get_objects(p)
    PROVE  Local(p)'
  <1> USE DEF peervars, storage, context, address
  <1>1. CASE drop_connection(p) /\ UNCHANGED <<storage, ptop, work, que, relayed, address>>
    BY <1>1, DropLocal DEF Local, WellFormed
  <1>2. CASE \E m : /\ Answer(p, m)
                    /\ m = [type |-> "objects",
                            blocks |-> SelectIn(Head(outgoing[p]).blocks, Range(Path[ptop[p]])),
                            height |-> Len(Path[ptop[p]])]
    <2>1. PICK m : /\ Answer(p, m)
                   /\ m = [type |-> "objects",
                           blocks |-> SelectIn(Head(outgoing[p]).blocks, Range(Path[ptop[p]])),
                           height |-> Len(Path[ptop[p]])]
      BY <1>2
    <2>2. Asks(p, "request_objects")
      BY DEF handle_request_get_objects
    <2>3. /\ outgoing'[p] = <<>> /\ Head(outgoing[p]) \in Messages
          /\ DOMAIN outgoing'[p] = {} /\ Len(outgoing'[p]) = 0
      BY <2>1, <2>2, ServedFacts DEF Asks, Local
    <2>4. m \in Answers /\ m.type = "objects"
      <3>1. Head(outgoing[p]).blocks \in Seq(Block) /\ ptop[p] \in Block
        BY <2>2, <2>3, MessageFacts DEF Asks, TypeOK
      <3>2. SelectIn(Head(outgoing[p]).blocks, Range(Path[ptop[p]])) \in Seq(Block)
        BY <3>1, SelectInFacts
      <3>3. Len(Path[ptop[p]]) \in Nat
        BY <3>1, PathFacts
      <3> QED
        BY <2>1, <3>2, <3>3 DEF Answers
    <2>5. /\ \A i \in DOMAIN incoming'[p] :
                \/ i \in DOMAIN incoming[p] /\ incoming'[p][i] = incoming[p][i]
                \/ i = Len(incoming[p]) + 1 /\ incoming'[p][i] = m
          /\ \A i \in DOMAIN incoming[p] :
                i \in DOMAIN incoming'[p] /\ incoming'[p][i] = incoming[p][i]
          /\ Len(incoming[p]) + 1 \in DOMAIN incoming'[p]
          /\ incoming'[p][Len(incoming[p]) + 1] = m
      <3>1. incoming' = [incoming EXCEPT ![p] = Append(@, m)]
        BY <2>1 DEF Answer
      <3> QED
        BY <2>4, <3>1, AppendedFacts
    <2>6. UNCHANGED <<stored, invalid, state, needed, requested, last, callbacks, entry, work, blocked>>
      BY <2>1 DEF Answer
    <2>7. /\ state[p] = "synchronizing" /\ callbacks[p] = 0 /\ ~Storing(p)
          /\ \A i \in DOMAIN incoming[p] : ~Answered(p, i)
      BY <2>2 DEF Local, OnlySynchronizing, OneAtATime, Asks, TypeOK
    <2>8. WellFormed(p)' /\ ClosedClean(p)'
      BY <2>3, <2>4, <2>5, <2>6, <2>7 DEF Local, WellFormed, ClosedClean, Open
    <2>9. OneAtATime(p)'
      BY <2>3, <2>4, <2>5, <2>6, <2>7 DEF OneAtATime, Answered, Storing
    <2>10. OnlySynchronizing(p)'
      BY <2>3, <2>4, <2>5, <2>6, <2>7 DEF Local, OnlySynchronizing, Answered, Storing, Asks
    <2>11. RequestsOpen(p)'
      BY <2>4, <2>5 DEF RequestsOpen, Arrives
    <2>12. EntryCovered(p)'
      BY <2>2, <2>6, <2>7 DEF Local, EntryCovered, InHand, Storing
    <2> QED
      BY <2>8, <2>9, <2>10, <2>11, <2>12 DEF Local
  <1> QED
    BY <1>1, <1>2, Zenon DEF handle_request_get_objects

(* A message that is neither an id list nor objects comes in.              *)
LEMMA NoticeLocal ==
    ASSUME TypeOK, NEW p \in Peer, Local(p), Open(p), NEW m \in Answers,
           m.type \in {"sync", "new_block"}, m.type = "sync" => ~m.initial,
           incoming' = [incoming EXCEPT ![p] = Append(@, m)],
           UNCHANGED <<stored, invalid, state, needed, requested, last, callbacks, entry, outgoing,
                       work, blocked>>
    PROVE  Local(p)'
  <1>1. /\ \A i \in DOMAIN incoming'[p] :
              \/ i \in DOMAIN incoming[p] /\ incoming'[p][i] = incoming[p][i]
              \/ i = Len(incoming[p]) + 1 /\ incoming'[p][i] = m
        /\ \A i \in DOMAIN incoming[p] :
              i \in DOMAIN incoming'[p] /\ incoming'[p][i] = incoming[p][i]
    BY AppendedFacts
  <1>2. WellFormed(p)' /\ ClosedClean(p)'
    BY <1>1 DEF Local, WellFormed, ClosedClean, Open
  <1>3. OneAtATime(p)'
    BY <1>1 DEF Local, OneAtATime, Answered, Storing
  <1>4. OnlySynchronizing(p)'
    BY <1>1 DEF Local, OnlySynchronizing, Answered, Storing, Asks
  <1>5. RequestsOpen(p)'
    BY <1>1 DEF Local, RequestsOpen, Asks, Arrives
  <1>6. EntryCovered(p)'
    BY <1>1 DEF Local, EntryCovered, Asks, Arrives, Storing, InHand
  <1> QED
    BY <1>2, <1>3, <1>4, <1>5, <1>6 DEF Local

(* A timed sync only adds a notice.                                        *)
LEMMA TimedSyncLocal ==
    ASSUME TypeOK, NEW p \in Peer, Local(p), handle_timed_sync(p)
    PROVE  Local(p)'
  <1> USE DEF peervars, storage, context, address
  <1> DEFINE m == [type |-> "sync", top |-> ptop[p], initial |-> FALSE]
  <1>1. m \in Answers /\ m.type = "sync" /\ ~m.initial
    BY DEF Answers, TypeOK
  <1> HIDE DEF m
  <1>2. Append(<<>>, m) = <<m>>
    OBVIOUS
  <1>3. incoming' = [incoming EXCEPT ![p] = Append(@, m)]
    BY <1>2 DEF handle_timed_sync, m
  <1>4. /\ Open(p)
        /\ UNCHANGED <<stored, invalid, state, needed, requested, last, callbacks, entry, outgoing,
                       work, blocked>>
    BY DEF handle_timed_sync
  <1> QED
    BY <1>1, <1>3, <1>4, NoticeLocal

(* A peer that moves to another top only adds a notice of its block.       *)
LEMMA PeerMovesLocal ==
    ASSUME TypeOK, NEW p \in Peer, Local(p), PeerMoves(p)
    PROVE  Local(p)'
  <1> USE DEF peervars, storage, context, address
  <1>1. UNCHANGED <<stored, invalid, state, needed, requested, remote, last, callbacks, entry,
                    outgoing, work, blocked>>
    BY DEF PeerMoves
  <1>2. CASE UNCHANGED incoming
    <2>1. WellFormed(p)' /\ ClosedClean(p)' /\ OneAtATime(p)'
      BY <1>1, <1>2 DEF Local, WellFormed, ClosedClean, Open, OneAtATime, Answered, Storing
    <2>2. OnlySynchronizing(p)' /\ RequestsOpen(p)' /\ EntryCovered(p)'
      BY <1>1, <1>2 DEF Local, OnlySynchronizing, Answered, Storing, Asks, RequestsOpen, Arrives,
                        EntryCovered, InHand
    <2> QED
      BY <2>1, <2>2 DEF Local
  <1>3. CASE Open(p) /\ \E c \in Block : incoming' = [incoming EXCEPT
                            ![p] = Append(@, [type |-> "new_block", block |-> c])]
    <2>1. PICK c \in Block : incoming' = [incoming EXCEPT
                            ![p] = Append(@, [type |-> "new_block", block |-> c])]
      BY <1>3
    <2> DEFINE m == [type |-> "new_block", block |-> c]
    <2>2. m \in Answers /\ m.type = "new_block"
      BY DEF Answers
    <2> HIDE DEF m
    <2>3. incoming' = [incoming EXCEPT ![p] = Append(@, m)]
      BY <2>1 DEF m
    <2> QED
      BY <1>1, <1>3, <2>2, <2>3, NoticeLocal
  <1> QED
    BY <1>2, <1>3 DEF PeerMoves

(* A message is taken that is no answer, or the address is blocked, and    *)
(* nothing else happens.                                                   *)
LEMMA TakenLocal ==
    ASSUME TypeOK, NEW p \in Peer, Local(p), incoming[p] # <<>>, Received(p),
           p \in blocked \/ Head(incoming[p]).type \in {"sync", "new_block"},
           UNCHANGED <<stored, invalid, state, needed, requested, last, callbacks, entry, outgoing,
                       work, blocked>>
    PROVE  Local(p)'
  <1>1. /\ 1 \in DOMAIN incoming[p] /\ Head(incoming[p]) = incoming[p][1]
        /\ \A i \in DOMAIN incoming'[p] :
             i + 1 \in DOMAIN incoming[p] /\ i + 1 # 1 /\ incoming'[p][i] = incoming[p][i + 1]
        /\ \A i \in DOMAIN incoming[p] : i # 1 =>
             i - 1 \in DOMAIN incoming'[p] /\ incoming'[p][i - 1] = incoming[p][i]
    BY ReceivedFacts
  <1>2. incoming[p] \in Seq(Answers) /\ incoming'[p] \in Seq(Answers)
    BY QueueFacts DEF TypeOK, Received
  <1>3. \A i \in DOMAIN incoming'[p] : i \in Nat
    BY <1>2
  <1>4. WellFormed(p)'
    BY <1>1 DEF Local, WellFormed
  <1>5. ClosedClean(p)'
    BY DEF Local, ClosedClean, Open
  <1>6. OneAtATime(p)'
    <2>1. ASSUME NEW i \in DOMAIN incoming'[p], NEW j \in DOMAIN incoming'[p],
                 Answered(p, i)', Answered(p, j)'
          PROVE  i = j
      <3>1. Answered(p, i + 1) /\ Answered(p, j + 1)
        BY <1>1, <2>1 DEF Answered
      <3>2. i + 1 = j + 1
        BY <1>1, <3>1 DEF Local, OneAtATime
      <3> QED
        BY <3>2, <1>3
    <2>2. \A i \in DOMAIN incoming'[p] : Answered(p, i)' => Answered(p, i + 1)
      BY <1>1 DEF Answered
    <2> QED
      BY <1>1, <2>1, <2>2 DEF Local, OneAtATime, Storing
  <1>7. OnlySynchronizing(p)'
    BY <1>1 DEF Local, OnlySynchronizing, Answered, Storing, Asks
  <1>8. RequestsOpen(p)'
    BY <1>1 DEF Local, RequestsOpen, Asks, Arrives
  <1>9. EntryCovered(p)'
    BY <1>1 DEF Local, EntryCovered, Asks, Arrives, Storing, InHand
  <1> QED
    BY <1>4, <1>5, <1>6, <1>7, <1>8, <1>9 DEF Local

(* The data of a peer are ignored, end the connection, or begin a          *)
(* synchronisation of a connection that has none.                          *)
LEMMA SyncDataLocal ==
    ASSUME TypeOK, NEW p \in Peer, Local(p), process_payload_sync_data(p)
    PROVE  Local(p)'
  <1> USE DEF storage, context, address
  <1> DEFINE m == Head(incoming[p])
  <1>1. /\ incoming[p] # <<>> /\ m.type = "sync" /\ work[p] = Idle
        /\ UNCHANGED <<storage, ptop, work, que, relayed, address>>
    BY DEF process_payload_sync_data, Gets
  <1>2. CASE drop_connection(p)
    BY <1>1, <1>2, DropLocal DEF Local, WellFormed
  <1>3. CASE Received(p) /\ UNCHANGED <<context, outgoing>>
    BY <1>1, <1>3, TakenLocal
  <1>4. CASE /\ ~SyncDataIgnored(p, m) /\ Received(p)
             /\ \/ state'[p] = "normal" /\ callbacks'[p] = 0
                \/ state'[p] = "synchronizing" /\ callbacks'[p] = 1
             /\ UNCHANGED <<needed, requested, last, entry, outgoing>>
    <2>1. /\ 1 \in DOMAIN incoming[p] /\ m = incoming[p][1] /\ m \in Answers
          /\ \A i \in DOMAIN incoming'[p] :
               i + 1 \in DOMAIN incoming[p] /\ i + 1 # 1 /\ incoming'[p][i] = incoming[p][i + 1]
      BY <1>1, <1>4, ReceivedFacts
    <2>2. ~Storing(p) /\ work[p].kind = "none"
      BY <1>1 DEF Storing, Idle
    <2>3. Open(p) /\ state[p] # "synchronizing" /\ (state[p] = "before_handshake" => m.initial)
      BY <1>1, <1>4 DEF Local, ClosedClean, Open, SyncDataIgnored
    <2>4. /\ outgoing[p] = <<>> /\ callbacks[p] = 0
          /\ \A i \in DOMAIN incoming[p] : ~Answered(p, i)
      BY <1>1, <2>1, <2>3 DEF Local, OnlySynchronizing, TypeOK
    <2>5. DOMAIN outgoing'[p] = {} /\ Len(outgoing'[p]) = 0 /\ outgoing'[p] = <<>>
      BY <1>4, <2>4
    <2>6. \A i \in DOMAIN incoming'[p] : ~Answered(p, i)'
      BY <2>1, <2>4 DEF Answered
    <2>7. /\ ~Asks(p, "request_objects") /\ ~Arrives(p) /\ ~Asks(p, "request_objects")'
          /\ ~Arrives(p)' /\ ~Storing(p)' /\ ~Asks(p, "handshake")' /\ work'[p].kind = "none"
      BY <1>1, <2>2, <2>4, <2>5, <2>6 DEF Asks, Arrives, Answered, Storing
    <2>8. WellFormed(p)' /\ ClosedClean(p)'
      BY <1>1, <1>4, <2>1, <2>2, <2>5 DEF Local, WellFormed, ClosedClean, Open
    <2>9. OneAtATime(p)' /\ OnlySynchronizing(p)'
      BY <1>4, <2>5, <2>6, <2>7 DEF OneAtATime, OnlySynchronizing
    <2>10. RequestsOpen(p)' /\ EntryCovered(p)'
      BY <1>1, <1>4, <2>7 DEF Local, RequestsOpen, EntryCovered
    <2> QED
      BY <2>8, <2>9, <2>10 DEF Local
  <1>5. CASE /\ ~SyncDataIgnored(p, m)
             /\ state' = [state EXCEPT ![p] = "normal"]
             /\ Received(p)
             /\ UNCHANGED <<needed, requested, remote, last, callbacks, entry, outgoing>>
    <2>1. state'[p] = "normal" /\ callbacks'[p] = 0
      BY <1>1, <1>5 DEF TypeOK, SyncDataIgnored, Local, OnlySynchronizing
    <2> QED
      BY <2>1, <1>4, <1>5
  <1>6. CASE /\ ~SyncDataIgnored(p, m)
             /\ state'     = [state EXCEPT ![p] = "synchronizing"]
             /\ callbacks' = [callbacks EXCEPT ![p] = @ + 1]
             /\ Received(p)
             /\ UNCHANGED <<needed, requested, last, entry, outgoing>>
    <2>1. callbacks[p] = 0
      BY <1>6 DEF TypeOK, SyncDataIgnored, Local, OnlySynchronizing
    <2>2. state'[p] = "synchronizing" /\ callbacks'[p] = 1
      BY <2>1, <1>6 DEF TypeOK
    <2> QED
      BY <2>2, <1>4, <1>6
  <1> QED
    BY <1>2, <1>3, <1>5, <1>6, Zenon DEF process_payload_sync_data

(* A new block is ignored, or its handler begins on a connection in step.  *)
LEMMA NotifyNewBlockLocal ==
    ASSUME TypeOK, NEW p \in Peer, Local(p), handle_notify_new_block(p)
    PROVE  Local(p)'
  <1> USE DEF storage, context, address
  <1> DEFINE b == Head(incoming[p]).block
  <1>1. /\ incoming[p] # <<>> /\ Head(incoming[p]).type = "new_block" /\ work[p] = Idle
        /\ UNCHANGED <<storage, ptop, address>>
    BY DEF handle_notify_new_block, Gets
  <1>2. CASE drop_connection(p) /\ UNCHANGED <<work, que, relayed>>
    BY <1>1, <1>2, DropLocal DEF Local, WellFormed
  <1>3. CASE Received(p) /\ UNCHANGED <<context, outgoing, work, que, relayed>>
    BY <1>1, <1>3, TakenLocal
  <1>4. CASE /\ ~NewBlockIgnored(p, b)
             /\ \E pre : work' = [work EXCEPT ![p] =
                                     [kind |-> "new_block", rest |-> <<b>>, count |-> pre]]
             /\ Received(p) /\ UNCHANGED <<context, outgoing>>
    <2>1. /\ \A i \in DOMAIN incoming'[p] :
               i + 1 \in DOMAIN incoming[p] /\ i + 1 # 1 /\ incoming'[p][i] = incoming[p][i + 1]
      BY <1>1, <1>4, ReceivedFacts
    <2>2. state[p] = "normal" /\ ~Storing(p)
      BY <1>1, <1>4 DEF NewBlockIgnored, Storing, Idle
    <2>3. work'[p].kind = "new_block" /\ Len(work'[p].rest) = 1
      BY <1>4 DEF TypeOK
    <2>4. /\ outgoing[p] = <<>> /\ callbacks[p] = 0
          /\ \A i \in DOMAIN incoming[p] : ~Answered(p, i)
      BY <2>2 DEF Local, OnlySynchronizing, TypeOK
    <2>5. DOMAIN outgoing'[p] = {} /\ Len(outgoing'[p]) = 0 /\ outgoing'[p] = <<>>
      BY <1>4, <2>4
    <2>6. \A i \in DOMAIN incoming'[p] : ~Answered(p, i)'
      BY <2>1, <2>4 DEF Answered
    <2>7. /\ ~Asks(p, "request_objects") /\ ~Arrives(p) /\ ~Asks(p, "request_objects")'
          /\ ~Arrives(p)' /\ ~Storing(p)' /\ ~Asks(p, "handshake")'
      BY <2>2, <2>3, <2>4, <2>5, <2>6 DEF Asks, Arrives, Answered, Storing
    <2>8. WellFormed(p)' /\ ClosedClean(p)'
      BY <1>1, <1>4, <2>1, <2>2, <2>3, <2>5 DEF Local, WellFormed, ClosedClean, Open
    <2>9. OneAtATime(p)' /\ OnlySynchronizing(p)'
      BY <1>4, <2>2, <2>3, <2>4, <2>5, <2>6, <2>7 DEF OneAtATime, OnlySynchronizing
    <2>10. RequestsOpen(p)' /\ EntryCovered(p)'
      BY <1>1, <1>4, <2>7 DEF Local, RequestsOpen, EntryCovered
    <2> QED
      BY <2>8, <2>9, <2>10 DEF Local
  <1> QED
    BY <1>2, <1>3, <1>4, Zenon DEF handle_notify_new_block

(* A callback asks for ids on a connection with nothing under way.         *)
LEMMA CallbackLocal ==
    ASSUME TypeOK, NEW p \in Peer, Local(p), on_callback(p)
    PROVE  Local(p)'
  <1> USE DEF storage, address
  <1>1. /\ callbacks[p] = 1 /\ state[p] = "synchronizing" /\ outgoing[p] = <<>> /\ work[p] = Idle
        /\ \A i \in DOMAIN incoming[p] : ~Answered(p, i)
    BY DEF on_callback, TypeOK, Local, OneAtATime, OnlySynchronizing
  <1>2. /\ post_notify(p, RequestChain) /\ callbacks'[p] = 0
        /\ UNCHANGED <<stored, invalid, state, needed, requested, last, entry, incoming, work, blocked>>
    BY <1>1 DEF on_callback, TypeOK
  <1>3. RequestChain.type = "request_chain" /\ Genesis \in RequestChain.ids
    BY HistoryFacts DEF TypeOK
  <1>4. /\ outgoing'[p] = <<RequestChain>> /\ Len(outgoing'[p]) = 1
        /\ Head(outgoing'[p]) = RequestChain
        /\ DOMAIN outgoing'[p] = {1} /\ outgoing'[p][1] = RequestChain /\ outgoing'[p] # <<>>
    BY <1>1, <1>2, PostFacts
  <1>5. work[p].kind = "none"
    BY <1>1 DEF Idle
  <1>6. /\ ~Asks(p, "request_objects") /\ ~Arrives(p) /\ ~Asks(p, "request_objects")'
        /\ ~Arrives(p)' /\ ~Storing(p)' /\ ~Asks(p, "handshake")'
    BY <1>1, <1>2, <1>3, <1>4, <1>5 DEF Asks, Arrives, Answered, Storing
  <1>7. WellFormed(p)' /\ ClosedClean(p)'
    BY <1>1, <1>2, <1>3, <1>4, <1>5 DEF Local, WellFormed, ClosedClean, Open
  <1>8. OneAtATime(p)' /\ OnlySynchronizing(p)'
    BY <1>1, <1>2, <1>4, <1>5, <1>6 DEF OneAtATime, OnlySynchronizing, Answered
  <1>9. RequestsOpen(p)' /\ EntryCovered(p)'
    BY <1>2, <1>6 DEF Local, RequestsOpen, EntryCovered
  <1> QED
    BY <1>7, <1>8, <1>9 DEF Local

(* request_missing_objects, called when the synchronisation is in the      *)
(* hands of the handler alone and nothing is requested any more, passes it *)
(* on or ends it.                                                          *)
LEMMA RequestLocal ==
    ASSUME TypeOK, NEW p \in Peer, Local(p), NEW nd \in Seq(Block), NEW check \in BOOLEAN,
           NEW rm, NEW ls, NEW rq, p \notin blocked => rq = {},
           request_missing_objects(p, nd, check, rm, ls, rq),
           state[p] = "synchronizing", outgoing[p] = <<>>, callbacks'[p] = 0, work'[p] = Idle,
           StorageGrows, blocked' = blocked,
           \A i \in DOMAIN incoming'[p] : ~Answered(p, i)',
           entry'[p] \subseteq (stored \cup invalid) \cup Range(nd) \cup rq
    PROVE  Local(p)'
  <1>1. work'[p].kind = "none"
    BY DEF Idle
  <1>2. ~Arrives(p)' /\ ~Storing(p)' /\ InHand(p)' = {}
    BY <1>1 DEF Arrives, Answered, Storing, InHand
  <1>3. CASE \E rest, req \in Seq(Block), got \in SUBSET Block :
                RequestsObjects(p, nd, check, rq, rest, got, req)
    <2>1. PICK rest \in Seq(Block), req \in Seq(Block), got \in SUBSET Block :
                RequestsObjects(p, nd, check, rq, rest, got, req)
      BY <1>3
    <2> DEFINE m == [type |-> "request_objects", blocks |-> req]
    <2>2. /\ post_notify(p, m) /\ m.type = "request_objects" /\ state'[p] = "synchronizing"
          /\ needed'[p] = rest /\ requested'[p] = rq \cup got
      BY <2>1 DEF RequestsObjects, TypeOK
    <2> HIDE DEF m
    <2>3. /\ outgoing'[p] = <<m>> /\ Len(outgoing'[p]) = 1 /\ Head(outgoing'[p]) = m
          /\ DOMAIN outgoing'[p] = {1} /\ outgoing'[p][1] = m /\ outgoing'[p] # <<>>
      BY <2>2, PostFacts
    <2>4. Asks(p, "request_objects")' /\ ~Asks(p, "handshake")'
      BY <2>2, <2>3 DEF Asks
    <2>5. WellFormed(p)' /\ ClosedClean(p)'
      BY <1>1, <2>2, <2>3 DEF WellFormed, ClosedClean, Open, Answered
    <2>6. OneAtATime(p)' /\ OnlySynchronizing(p)'
      BY <1>1, <1>2, <2>2, <2>3, <2>4 DEF OneAtATime, OnlySynchronizing
    <2>7. RequestsOpen(p)'
      BY <2>4 DEF RequestsOpen
    <2>8. EntryCovered(p)'
      <3>1. Range(nd) \subseteq Range(rest) \cup got \cup (stored \cup invalid)
        BY <2>1 DEF RequestsObjects
      <3>2. entry'[p] \subseteq (stored' \cup invalid') \cup Range(rest) \cup (rq \cup got)
        BY <3>1 DEF StorageGrows
      <3> QED
        BY <2>2, <3>2 DEF EntryCovered
    <2> QED
      BY <2>5, <2>6, <2>7, <2>8 DEF Local
  <1>4. CASE RequestsIds(p, nd, rm, ls, rq)
    <2>1. /\ post_notify(p, RequestChain) /\ state'[p] = "synchronizing" /\ requested'[p] = rq
      BY <1>4 DEF RequestsIds, TypeOK
    <2>2. RequestChain.type = "request_chain" /\ Genesis \in RequestChain.ids
      BY HistoryFacts DEF TypeOK
    <2>3. /\ outgoing'[p] = <<RequestChain>> /\ Len(outgoing'[p]) = 1
          /\ Head(outgoing'[p]) = RequestChain
          /\ DOMAIN outgoing'[p] = {1} /\ outgoing'[p][1] = RequestChain /\ outgoing'[p] # <<>>
      BY <2>1, PostFacts
    <2>4. ~Asks(p, "request_objects")' /\ ~Asks(p, "handshake")'
      BY <2>2, <2>3 DEF Asks
    <2>5. WellFormed(p)' /\ ClosedClean(p)'
      BY <1>1, <2>1, <2>2, <2>3 DEF WellFormed, ClosedClean, Open, Answered
    <2>6. OneAtATime(p)' /\ OnlySynchronizing(p)'
      BY <1>1, <1>2, <2>1, <2>3, <2>4 DEF OneAtATime, OnlySynchronizing
    <2>7. RequestsOpen(p)' /\ EntryCovered(p)'
      BY <1>2, <2>1, <2>4 DEF RequestsOpen, EntryCovered
    <2> QED
      BY <2>5, <2>6, <2>7 DEF Local
  <1>5. CASE RequestsNothing(p, nd, rm, ls, rq)
    <2>1. /\ outgoing'[p] = <<>> /\ state'[p] \in {"synchronizing", "normal"} /\ requested'[p] = rq
      BY <1>5 DEF RequestsNothing, TypeOK
    <2>2. DOMAIN outgoing'[p] = {} /\ Len(outgoing'[p]) = 0
      BY <2>1
    <2>3. ~Asks(p, "request_objects")' /\ ~Asks(p, "handshake")'
      BY <2>1 DEF Asks
    <2>4. WellFormed(p)' /\ ClosedClean(p)'
      BY <1>1, <2>1, <2>2 DEF WellFormed, ClosedClean, Open, Answered
    <2>5. OneAtATime(p)' /\ OnlySynchronizing(p)'
      BY <1>1, <1>2, <2>1, <2>2, <2>3 DEF OneAtATime, OnlySynchronizing
    <2>6. RequestsOpen(p)' /\ EntryCovered(p)'
      BY <1>2, <2>1, <2>3 DEF RequestsOpen, EntryCovered
    <2> QED
      BY <2>4, <2>5, <2>6 DEF Local
  <1> QED
    BY <1>3, <1>4, <1>5, RequestFacts

(* What is known when an answer is at the head of the queue.               *)
LEMMA AnswerFacts ==
    ASSUME TypeOK, NEW p \in Peer, Local(p), incoming[p] # <<>>, Received(p),
           Head(incoming[p]).type \in {"chain_entry", "objects"}
    PROVE  /\ state[p] = "synchronizing" /\ outgoing[p] = <<>> /\ callbacks[p] = 0
           /\ \A i \in DOMAIN incoming'[p] : ~Answered(p, i)'
           /\ Head(incoming[p]).type = "chain_entry" =>
                ~Arrives(p) /\ (p \notin blocked => requested[p] = {})
           /\ Head(incoming[p]).type = "objects" => Arrives(p)
  <1>1. /\ 1 \in DOMAIN incoming[p] /\ Head(incoming[p]) = incoming[p][1]
        /\ \A i \in DOMAIN incoming'[p] :
             i + 1 \in DOMAIN incoming[p] /\ i + 1 # 1 /\ incoming'[p][i] = incoming[p][i + 1]
    BY ReceivedFacts
  <1>2. Answered(p, 1)
    BY <1>1 DEF Answered
  <1>3. state[p] = "synchronizing" /\ outgoing[p] = <<>> /\ callbacks[p] = 0
    BY <1>1, <1>2 DEF Local, OneAtATime, OnlySynchronizing
  <1>4. \A i \in DOMAIN incoming[p] : Answered(p, i) => i = 1
    BY <1>1, <1>2 DEF Local, OneAtATime
  <1>5. \A i \in DOMAIN incoming'[p] : ~Answered(p, i)'
    BY <1>1, <1>4 DEF Answered
  <1>6. Head(incoming[p]).type = "chain_entry" => ~Arrives(p)
    BY <1>1, <1>4 DEF Arrives, Answered
  <1>7. Head(incoming[p]).type = "chain_entry" => (p \notin blocked => requested[p] = {})
    BY <1>3, <1>6 DEF Local, RequestsOpen, Asks
  <1>8. Head(incoming[p]).type = "objects" => Arrives(p)
    BY <1>1 DEF Arrives
  <1> QED
    BY <1>3, <1>5, <1>6, <1>7, <1>8

(* A chain entry: every id of it is known or lacking.                      *)
LEMMA EntryIds ==
    ASSUME NEW ids \in Seq(Block), NEW nd \in Seq(Block)
    PROVE  LET lacking == SelectIn(ids, Block \ (stored \cup invalid))
           IN  /\ nd \o lacking \in Seq(Block)
               /\ Range(ids) \subseteq (stored \cup invalid) \cup Range(nd \o lacking)
  <1> DEFINE lacking == SelectIn(ids, Block \ (stored \cup invalid))
  <1>1. /\ lacking \in Seq(Block)
        /\ Range(lacking) = Range(ids) \cap (Block \ (stored \cup invalid))
    BY SelectInFacts
  <1> HIDE DEF lacking
  <1>2. Range(ids) \subseteq Block
    BY RangeOfSeq
  <1>3. nd \o lacking \in Seq(Block) /\ Range(nd \o lacking) = Range(nd) \cup Range(lacking)
    BY <1>1, RangeConcatenation
  <1>4. nd \o lacking \in Seq(Block) /\ Range(ids) \subseteq (stored \cup invalid) \cup Range(nd \o lacking)
    BY <1>1, <1>2, <1>3
  <1> QED
    BY <1>4 DEF lacking

(* A chain entry ends the connection, or becomes the list of ids to        *)
(* obtain, every one of which is needed or known.                          *)
LEMMA ChainEntryLocal ==
    ASSUME TypeOK, NEW p \in Peer, Local(p), handle_response_chain_entry(p)
    PROVE  Local(p)'
  <1> USE DEF storage, address
  <1> DEFINE m  == Head(incoming[p])
             ls == m.start + Len(m.ids) - 1
             nd == needed[p] \o SelectIn(m.ids, Block \ (stored \cup invalid))
  <1>1. /\ incoming[p] # <<>> /\ m.type = "chain_entry" /\ work[p] = Idle /\ Received(p)
        /\ request_missing_objects(p, nd, FALSE, m.total, ls, requested[p])
        /\ entry' = [entry EXCEPT ![p] = Range(m.ids)]
        /\ UNCHANGED <<stored, invalid, callbacks, work, blocked>>
    BY DEF handle_response_chain_entry, Gets
  <1>2. /\ state[p] = "synchronizing" /\ outgoing[p] = <<>> /\ callbacks[p] = 0
        /\ \A i \in DOMAIN incoming'[p] : ~Answered(p, i)'
        /\ p \notin blocked => requested[p] = {}
    BY <1>1, AnswerFacts
  <1>3. m.ids \in Seq(Block)
    BY <1>1, ReceivedFacts, MessageFacts
  <1>4. nd \in Seq(Block) /\ Range(m.ids) \subseteq (stored \cup invalid) \cup Range(nd)
    BY <1>3, EntryIds DEF TypeOK
  <1>5. entry'[p] = Range(m.ids)
    BY <1>1 DEF TypeOK
  <1> HIDE DEF nd, ls, m
  <1>6. StorageGrows
    BY <1>1 DEF StorageGrows
  <1>7. callbacks'[p] = 0 /\ work'[p] = Idle /\ blocked' = blocked
    BY <1>1, <1>2
  <1>8. entry'[p] \subseteq (stored \cup invalid) \cup Range(nd) \cup requested[p]
    BY <1>4, <1>5
  <1> QED
    BY <1>1, <1>2, <1>4, <1>6, <1>7, <1>8, RequestLocal

(* An answer with objects is set aside with its connection, ends it, or    *)
(* becomes work: what was requested is in hand.                            *)
LEMMA ObjectsLocal ==
    ASSUME TypeOK, NEW p \in Peer, Local(p), handle_response_get_objects(p)
    PROVE  Local(p)'
  <1> USE DEF storage, address
  <1> DEFINE m == Head(incoming[p])
  <1>1. /\ incoming[p] # <<>> /\ m.type = "objects" /\ work[p] = Idle
        /\ UNCHANGED <<stored, invalid, blocked>>
    BY DEF handle_response_get_objects, Gets
  <1>2. CASE drop_connection(p) /\ UNCHANGED work
    BY <1>2, DropLocal DEF Local, WellFormed
  <1>3. CASE /\ Received(p) /\ UNCHANGED <<last, callbacks, entry, outgoing>>
             /\ requested' = [requested EXCEPT ![p] = {}]
             /\ \/ /\ state' = [state EXCEPT ![p] = "idle"]
                   /\ UNCHANGED work
                \/ /\ Range(m.blocks) = requested[p] /\ UNCHANGED <<state, needed>>
                   /\ work' = [work EXCEPT ![p] =
                                  [kind |-> "objects", rest |-> m.blocks, count |-> 0]]
    <2>1. /\ state[p] = "synchronizing" /\ outgoing[p] = <<>> /\ callbacks[p] = 0
          /\ \A i \in DOMAIN incoming'[p] : ~Answered(p, i)'
          /\ Arrives(p)
      BY <1>1, <1>3, AnswerFacts
    <2>2. /\ outgoing'[p] = <<>> /\ DOMAIN outgoing'[p] = {} /\ Len(outgoing'[p]) = 0
          /\ callbacks'[p] = 0 /\ requested'[p] = {} /\ entry'[p] = entry[p]
      BY <1>3, <2>1 DEF TypeOK
    <2>3. /\ ~Asks(p, "request_objects")' /\ ~Arrives(p)' /\ ~Asks(p, "handshake")'
      BY <2>1, <2>2 DEF Asks, Arrives, Answered
    <2>4. \/ state'[p] = "idle" /\ work'[p].kind = "none"
          \/ /\ state'[p] = "synchronizing" /\ work'[p].kind = "objects"
             /\ work'[p].rest = m.blocks /\ Range(m.blocks) = requested[p]
             /\ needed'[p] = needed[p]
      BY <1>1, <1>3, <2>1 DEF TypeOK, Idle
    <2>5. WellFormed(p)' /\ ClosedClean(p)'
      BY <2>1, <2>2, <2>4 DEF WellFormed, ClosedClean, Open, Answered
    <2>6. OneAtATime(p)' /\ OnlySynchronizing(p)'
      BY <2>1, <2>2, <2>3, <2>4 DEF OneAtATime, OnlySynchronizing, Storing
    <2>7. RequestsOpen(p)'
      BY <2>2 DEF RequestsOpen
    <2>8. EntryCovered(p)'
      <3>1. entry[p] \subseteq (stored \cup invalid) \cup Range(needed[p]) \cup requested[p]
        BY <1>1, <2>1 DEF Local, EntryCovered, InHand, Storing, Idle
      <3>2. ASSUME Storing(p)' PROVE /\ InHand(p)' = requested[p] /\ needed'[p] = needed[p]
        BY <2>4, <3>2 DEF InHand, Storing
      <3> QED
        BY <1>1, <2>2, <2>3, <3>1, <3>2 DEF EntryCovered
    <2> QED
      BY <2>5, <2>6, <2>7, <2>8 DEF Local
  <1>4. CASE /\ SetAside(p)
             /\ Received(p) /\ UNCHANGED <<last, callbacks, entry, outgoing, work>>
    BY <1>3, <1>4 DEF SetAside
  <1>5. CASE /\ ~Incomplete(p, m.blocks)
             /\ requested' = [requested EXCEPT ![p] = {}]
             /\ work' = [work EXCEPT ![p] = [kind |-> "objects", rest |-> m.blocks, count |-> 0]]
             /\ Received(p) /\ UNCHANGED <<state, needed, last, callbacks, entry, outgoing>>
    BY <1>3, <1>5 DEF Incomplete
  <1> QED
    BY <1>2, <1>4, <1>5, Zenon DEF handle_response_get_objects

(* The handler ends without a word about the connection.                   *)
LEMMA EndsLocal ==
    ASSUME TypeOK, NEW p \in Peer, Local(p), work'[p] = Idle, StorageGrows,
           UNCHANGED <<last, callbacks, entry, outgoing, incoming>>,
           \/ UNCHANGED <<state, needed, requested>>
           \/ Storing(p) /\ Open(p) /\ SetAside(p),
           p \in blocked => p \in blocked'
    PROVE  Local(p)'
  <1>1. work'[p].kind = "none" /\ ~Storing(p)'
    BY DEF Idle, Storing
  <1>2. CASE UNCHANGED <<state, needed, requested>>
    <2>1. WellFormed(p)' /\ ClosedClean(p)'
      BY <1>1, <1>2 DEF Local, WellFormed, ClosedClean, Open
    <2>2. OneAtATime(p)' /\ OnlySynchronizing(p)'
      BY <1>1, <1>2 DEF Local, OneAtATime, OnlySynchronizing, Answered, Asks, Storing
    <2>3. RequestsOpen(p)'
      BY <1>2 DEF Local, RequestsOpen, Asks, Arrives
    <2>4. EntryCovered(p)'
      <3>1. CASE Storing(p)
        <4>1. ~Asks(p, "request_objects")' /\ ~Arrives(p)'
          BY <3>1 DEF Local, OneAtATime, Asks, Arrives, Answered
        <4> QED
          BY <4>1, <1>1 DEF EntryCovered
      <3>2. CASE ~Storing(p)
        BY <1>1, <1>2, <3>2 DEF Local, EntryCovered, Asks, Arrives, InHand, StorageGrows
      <3> QED
        BY <3>1, <3>2
    <2> QED
      BY <2>1, <2>2, <2>3, <2>4 DEF Local
  <1>3. CASE Storing(p) /\ Open(p) /\ SetAside(p)
    <2>1. /\ outgoing[p] = <<>> /\ callbacks[p] = 0 /\ \A i \in DOMAIN incoming[p] : ~Answered(p, i)
      BY <1>3 DEF Local, OneAtATime, TypeOK
    <2>2. /\ outgoing'[p] = <<>> /\ DOMAIN outgoing'[p] = {} /\ Len(outgoing'[p]) = 0
          /\ callbacks'[p] = 0 /\ \A i \in DOMAIN incoming'[p] : ~Answered(p, i)'
      BY <2>1 DEF Answered
    <2>3. state'[p] = "idle" /\ requested'[p] = {}
      BY <1>3 DEF SetAside, TypeOK
    <2>4. ~Asks(p, "request_objects")' /\ ~Arrives(p)' /\ ~Asks(p, "handshake")'
      BY <2>2 DEF Asks, Arrives, Answered
    <2>5. WellFormed(p)' /\ ClosedClean(p)'
      BY <1>1, <2>2, <2>3 DEF WellFormed, ClosedClean, Open, Answered
    <2>6. OneAtATime(p)' /\ OnlySynchronizing(p)'
      BY <1>1, <2>2, <2>3, <2>4 DEF OneAtATime, OnlySynchronizing
    <2>7. RequestsOpen(p)' /\ EntryCovered(p)'
      BY <1>1, <2>3, <2>4 DEF RequestsOpen, EntryCovered
    <2> QED
      BY <2>5, <2>6, <2>7 DEF Local
  <1> QED
    BY <1>2, <1>3

(* The handler of a new block ends by closing the connection, by asking    *)
(* for a chain, or with nothing more to do.                                *)
LEMMA NewBlockHandledLocal ==
    ASSUME TypeOK, NEW p \in Peer, Local(p), NewBlockHandled(p)
    PROVE  Local(p)'
  <1> USE DEF storage, context, address
  <1>1. /\ work'[p] = Idle /\ blocked' = blocked /\ work[p].kind = "new_block"
        /\ handle_incoming_block(work[p].rest[1])
    BY DEF NewBlockHandled, TypeOK
  <1>2. StorageGrows
    BY <1>1 DEF handle_incoming_block, StorageGrows
  <1>3. CASE drop_connection(p)
    BY <1>1, <1>3, DropLocal DEF Idle
  <1>4. CASE /\ Open(p)
             /\ state' = [state EXCEPT ![p] = "synchronizing"]
             /\ post_notify(p, RequestChain)
             /\ UNCHANGED <<needed, requested, remote, last, callbacks, entry, incoming>>
    <2>1. state[p] = "normal"
      BY <1>1, <1>4 DEF Local, OnlySynchronizing, Open
    <2>2. /\ outgoing[p] = <<>> /\ callbacks[p] = 0 /\ \A i \in DOMAIN incoming[p] : ~Answered(p, i)
      BY <2>1 DEF Local, OnlySynchronizing, TypeOK
    <2>3. state'[p] = "synchronizing" /\ work'[p].kind = "none" /\ callbacks'[p] = 0
      BY <1>1, <1>4, <2>2 DEF TypeOK, Idle
    <2>4. RequestChain.type = "request_chain" /\ Genesis \in RequestChain.ids
      BY HistoryFacts DEF TypeOK
    <2>5. /\ outgoing'[p] = <<RequestChain>> /\ Len(outgoing'[p]) = 1
          /\ Head(outgoing'[p]) = RequestChain
          /\ DOMAIN outgoing'[p] = {1} /\ outgoing'[p][1] = RequestChain /\ outgoing'[p] # <<>>
      BY <1>4, <2>2, PostFacts
    <2>6. \A i \in DOMAIN incoming'[p] : ~Answered(p, i)'
      BY <1>4, <2>2 DEF Answered
    <2>7. /\ ~Asks(p, "request_objects") /\ ~Arrives(p) /\ ~Asks(p, "request_objects")'
          /\ ~Arrives(p)' /\ ~Storing(p)' /\ ~Asks(p, "handshake")'
      BY <2>2, <2>3, <2>4, <2>5, <2>6 DEF Asks, Arrives, Answered, Storing
    <2>8. WellFormed(p)' /\ ClosedClean(p)'
      BY <1>4, <2>3, <2>4, <2>5 DEF Local, WellFormed, ClosedClean, Open
    <2>9. OneAtATime(p)' /\ OnlySynchronizing(p)'
      BY <2>3, <2>5, <2>6, <2>7 DEF OneAtATime, OnlySynchronizing
    <2>10. RequestsOpen(p)' /\ EntryCovered(p)'
      BY <1>1, <1>4, <2>7 DEF Local, RequestsOpen, EntryCovered
    <2> QED
      BY <2>8, <2>9, <2>10 DEF Local
  <1>5. CASE UNCHANGED <<context, outgoing, incoming>>
    BY <1>1, <1>2, <1>5, EndsLocal
  <1> QED
    BY <1>3, <1>4, <1>5, Zenon DEF NewBlockHandled

(* One object is stored, or it fails (and may be remembered as invalid) or *)
(* is refused, and the connection is dropped.                              *)
LEMMA ObjectHandledLocal ==
    ASSUME TypeOK, NEW p \in Peer, Local(p), ObjectHandled(p)
    PROVE  Local(p)'
  <1> USE DEF storage, context, address
  <1> DEFINE b == Head(work[p].rest)
  <1>1. /\ Storing(p) /\ work[p].rest # <<>> /\ handle_incoming_block(b)
        /\ add_address_fail(p) \/ UNCHANGED blocked
    BY Zenon DEF ObjectHandled, Storing
  <1>2. StorageGrows
    BY <1>1 DEF handle_incoming_block, StorageGrows
  <1>3. p \in blocked => p \in blocked'
    BY <1>1 DEF add_address_fail
  <1>4. /\ work[p].rest \in Seq(Block) /\ b \in Block /\ Range(work[p].rest) = Range(Tail(work[p].rest)) \cup {b}
        /\ Tail(work[p].rest) \in Seq(Block)
    <2> DEFINE s == work[p].rest
    <2>1. s \in Seq(Block) /\ s # <<>>
      BY <1>1 DEF TypeOK
    <2> HIDE DEF s
    <2>2. Head(s) \in Block /\ Tail(s) \in Seq(Block) /\ <<Head(s)>> \in Seq(Block)
      BY <2>1
    <2>3. s = <<Head(s)>> \o Tail(s)
      BY <2>1
    <2>4. Range(s) = Range(<<Head(s)>>) \cup Range(Tail(s))
      BY <2>2, <2>3, RangeConcatenation, ZenonT(30)
    <2>5. Range(<<Head(s)>>) = {Head(s)}
      BY DEF Range
    <2> QED
      BY <2>1, <2>2, <2>4, <2>5 DEF s
  <1>5. CASE drop_connection(p) /\ work' = [work EXCEPT ![p] = Idle]
    <2>1. work'[p].kind = "none"
      BY <1>5 DEF TypeOK, Idle
    <2> QED
      BY <2>1, <1>5, DropLocal
  <1>6. CASE /\ work' = [work EXCEPT ![p] = Idle]
             /\ UNCHANGED <<last, callbacks, entry, outgoing, incoming>>
             /\ \/ UNCHANGED <<state, needed, requested>>
                \/ Open(p) /\ SetAside(p)
    <2>1. work'[p] = Idle
      BY <1>6 DEF TypeOK
    <2> QED
      BY <2>1, <1>1, <1>2, <1>3, <1>6, EndsLocal
  <1>7. CASE /\ Verdict(b) \in {"main", "alt", "exists"}
             /\ work' = [work EXCEPT ![p].rest = Tail(@), ![p].count = @ + 1]
             /\ UNCHANGED <<context, outgoing, incoming, fails, blocked>>
    <2>1. work'[p].kind = "objects" /\ work'[p].rest = Tail(work[p].rest)
      BY <1>1, <1>7 DEF TypeOK, Storing
    <2>2. WellFormed(p)' /\ ClosedClean(p)'
      BY <1>7, <2>1 DEF Local, WellFormed, ClosedClean, Open
    <2>3. OneAtATime(p)' /\ OnlySynchronizing(p)'
      BY <1>1, <1>7, <2>1 DEF Local, OneAtATime, OnlySynchronizing, Answered, Asks, Storing
    <2>4. RequestsOpen(p)'
      BY <1>7 DEF Local, RequestsOpen, Asks, Arrives
    <2>5. EntryCovered(p)'
      <3>1. b \in stored' \cup invalid'
        BY <1>1, <1>2, <1>4, <1>7, StorageFacts DEF StorageGrows
      <3>2. entry[p] \subseteq (stored \cup invalid) \cup Range(needed[p]) \cup requested[p]
                                 \cup Range(work[p].rest)
        BY <1>1 DEF Local, EntryCovered, InHand
      <3>3. entry[p] \subseteq (stored' \cup invalid') \cup Range(needed[p]) \cup requested[p]
                                 \cup Range(Tail(work[p].rest))
        BY <3>1, <3>2, <1>2, <1>4 DEF StorageGrows
      <3> QED
        BY <1>7, <2>1, <3>3 DEF EntryCovered, InHand, Storing
    <2> QED
      BY <2>2, <2>3, <2>4, <2>5 DEF Local
  <1> QED
    BY <1>5, <1>6, <1>7, Zenon DEF ObjectHandled

(* When the objects in hand are handled nothing else is under way, nothing *)
(* is requested, and the rest of the entry is known or needed.             *)
LEMMA ObjectsDoneFacts ==
    ASSUME TypeOK, NEW p \in Peer, Local(p), ObjectsDone(p), Open(p)
    PROVE  /\ state[p] = "synchronizing" /\ outgoing[p] = <<>> /\ callbacks[p] = 0
           /\ \A i \in DOMAIN incoming'[p] : ~Answered(p, i)'
           /\ p \notin blocked => requested[p] = {}
           /\ entry[p] \subseteq (stored \cup invalid) \cup Range(needed[p]) \cup requested[p]
           /\ work'[p] = Idle
           /\ request_missing_objects(p, needed[p], TRUE, remote[p], last[p], requested[p])
           /\ UNCHANGED <<stored, invalid, ptop, remote, last, callbacks, entry, incoming, blocked>>
  <1> USE DEF storage, address
  <1>1. /\ Storing(p) /\ work[p].rest = <<>> /\ work'[p] = Idle
        /\ request_missing_objects(p, needed[p], TRUE, remote[p], last[p], requested[p])
        /\ UNCHANGED <<stored, invalid, ptop, remote, last, callbacks, entry, incoming, blocked>>
    BY DEF ObjectsDone, Storing, TypeOK
  <1>2. /\ state[p] = "synchronizing" /\ outgoing[p] = <<>> /\ callbacks[p] = 0
        /\ \A i \in DOMAIN incoming[p] : ~Answered(p, i)
    BY <1>1 DEF Local, OneAtATime, OnlySynchronizing, TypeOK, Open
  <1>3. ~Asks(p, "request_objects") /\ ~Arrives(p)
    BY <1>2 DEF Asks, Arrives, Answered
  <1>4. p \notin blocked => requested[p] = {}
    BY <1>3 DEF Local, RequestsOpen
  <1>5. InHand(p) = {}
    BY <1>1 DEF InHand, Range
  <1>6. entry[p] \subseteq (stored \cup invalid) \cup Range(needed[p]) \cup requested[p]
    BY <1>1, <1>5 DEF Local, EntryCovered
  <1>7. \A i \in DOMAIN incoming'[p] : ~Answered(p, i)'
    BY <1>1, <1>2 DEF Answered
  <1> QED
    BY <1>1, <1>2, <1>4, <1>6, <1>7

(* The end of an answer asks for what is still needed.                     *)
LEMMA ObjectsDoneLocal ==
    ASSUME TypeOK, NEW p \in Peer, Local(p), ObjectsDone(p)
    PROVE  Local(p)'
  <1> USE DEF storage, address
  <1>1. CASE Open(p)
    <2>1. needed[p] \in Seq(Block) /\ TRUE \in BOOLEAN
      BY DEF TypeOK
    <2>2. StorageGrows /\ callbacks'[p] = 0 /\ entry'[p] = entry[p] /\ blocked' = blocked
      BY <1>1, ObjectsDoneFacts DEF StorageGrows
    <2>3. /\ state[p] = "synchronizing" /\ outgoing[p] = <<>>
          /\ \A i \in DOMAIN incoming'[p] : ~Answered(p, i)'
          /\ p \notin blocked => requested[p] = {}
          /\ entry[p] \subseteq (stored \cup invalid) \cup Range(needed[p]) \cup requested[p]
          /\ work'[p] = Idle
          /\ request_missing_objects(p, needed[p], TRUE, remote[p], last[p], requested[p])
      BY <1>1, ObjectsDoneFacts
    <2> QED
      BY <2>1, <2>2, <2>3, RequestLocal
  <1>2. CASE ~Open(p)
    <2>1. /\ work'[p] = Idle /\ blocked' = blocked /\ StorageGrows
          /\ UNCHANGED <<state, needed, requested, outgoing, last, callbacks, entry, incoming>>
      BY <1>2 DEF ObjectsDone, TypeOK, StorageGrows
    <2> QED
      BY <2>1, EndsLocal
  <1> QED
    BY <1>1, <1>2

-----------------------------------------------------------------------------
(***************************************************************************)
(* The theorems.                                                           *)
(***************************************************************************)
Step(p) ==
    \/ Connect(p) \/ Break(p) \/ Serves(p) \/ handle_timed_sync(p) \/ PeerMoves(p)
    \/ Receives(p) \/ on_callback(p) \/ Continues(p)

(* Every step of a connection keeps what is said of it.                    *)
LEMMA LocalStep ==
    ASSUME TypeOK, NEW p \in Peer, Local(p), Step(p)
    PROVE  Local(p)'
  <1>1. CASE Connect(p)
    BY <1>1, ConnectLocal
  <1>2. CASE Break(p)
    BY <1>2, DropLocal DEF Break, Local, WellFormed
  <1>3. CASE Serves(p)
    BY <1>3, HandshakeLocal, RequestChainLocal, GetObjectsServedLocal DEF Serves
  <1>4. CASE handle_timed_sync(p)
    BY <1>4, TimedSyncLocal
  <1>5. CASE PeerMoves(p)
    BY <1>5, PeerMovesLocal
  <1>6. CASE address_blocked(p)
    BY <1>6, TakenLocal DEF address_blocked, storage, context, address
  <1>7. CASE process_payload_sync_data(p) \/ handle_notify_new_block(p)
    BY <1>7, SyncDataLocal, NotifyNewBlockLocal
  <1>8. CASE handle_response_chain_entry(p) \/ handle_response_get_objects(p)
    BY <1>8, ChainEntryLocal, ObjectsLocal
  <1>9. CASE on_callback(p)
    BY <1>9, CallbackLocal
  <1>10. CASE Continues(p)
    BY <1>10, NewBlockHandledLocal, ObjectHandledLocal, ObjectsDoneLocal DEF Continues
  <1> QED
    BY <1>1, <1>2, <1>3, <1>4, <1>5, <1>6, <1>7, <1>8, <1>9, <1>10 DEF Step, Receives

(* The inductive invariant of the connections.                             *)
Connections == TypeOK /\ \A p \in Peer : Local(p)

(* Closed connections are as the invariant says.                           *)
LEMMA ConnectionsInit ==
    ASSUME Init PROVE Connections
  <1>1. top \in Block /\ Path[top] \in Seq(Block) /\ Len(Path[top]) \in Nat /\ Path[top] # <<>>
        /\ Path[top][Len(Path[top])] = top
    BY NetworkAssumption, PathAssumption DEF Init
  <1>2. top \in Range(Path[top]) /\ Range(Path[top]) \subseteq Block
    BY <1>1, RangeOfSeq DEF Range
  <1>3. Idle \in Works
    BY DEF Idle, Works
  <1>4. TypeOK
    <2>1. ptop \in [Peer -> Block]
      BY NetworkAssumption DEF Init
    <2>2. work \in [Peer -> Works]
      BY <1>3 DEF Init
    <2>3. /\ state \in [Peer -> States] /\ needed \in [Peer -> Seq(Block)]
          /\ requested \in [Peer -> SUBSET Block] /\ entry \in [Peer -> SUBSET Block]
          /\ outgoing \in [Peer -> Seq(Messages)] /\ incoming \in [Peer -> Seq(Answers)]
      BY DEF Init, States
    <2>4. /\ remote \in [Peer -> Nat] /\ last \in [Peer -> Nat] /\ callbacks \in [Peer -> Nat]
          /\ relayed \in [Block -> Nat] /\ fails \in [Peer -> Nat]
      BY DEF Init
    <2> QED
      BY <1>2, <2>1, <2>2, <2>3, <2>4 DEF Init, TypeOK, Works
  <1>5. ASSUME NEW p \in Peer PROVE Local(p)
    <2>1. /\ state[p] = "closed" /\ needed[p] = <<>> /\ requested[p] = {} /\ last[p] = 0
          /\ callbacks[p] = 0 /\ entry[p] = {} /\ outgoing[p] = <<>> /\ incoming[p] = <<>>
          /\ work[p] = Idle
      BY DEF Init
    <2>2. /\ DOMAIN outgoing[p] = {} /\ DOMAIN incoming[p] = {} /\ Len(outgoing[p]) = 0
          /\ work[p].kind = "none"
      BY <2>1 DEF Idle
    <2>3. WellFormed(p) /\ ClosedClean(p) /\ OneAtATime(p)
      BY <2>1, <2>2 DEF WellFormed, ClosedClean, OneAtATime, Storing
    <2>4. OnlySynchronizing(p) /\ RequestsOpen(p) /\ EntryCovered(p)
      BY <2>1, <2>2 DEF OnlySynchronizing, RequestsOpen, EntryCovered, Asks, Storing
    <2> QED
      BY <2>3, <2>4 DEF Local
  <1> QED
    BY <1>4, <1>5 DEF Connections

(* Every step keeps the invariant of all connections.                      *)
LEMMA ConnectionsStep ==
    ASSUME Connections, [Next]_vars PROVE Connections'
  <1>1. CASE \E p \in Peer : Step(p)
    <2>1. PICK p \in Peer : Step(p)
      BY <1>1
    <2>2. TypeOK /\ WellFormed(p) /\ Local(p)
      BY DEF Connections, Local
    <2>3. TypeOK'
      BY <2>1, <2>2, TypeStep DEF Step
    <2>4. OthersSame(p) /\ StorageGrows
      BY <2>1, <2>2, FrameStep DEF Step
    <2>5. Local(p)'
      BY <2>1, <2>2, LocalStep
    <2>6. ASSUME NEW q \in Peer, q # p PROVE Local(q)'
      BY <2>4, <2>6, SameLocal DEF OthersSame, Connections
    <2> QED
      BY <2>3, <2>5, <2>6 DEF Connections
  <1>2. CASE UNCHANGED vars
    <2>1. TypeOK'
      BY <1>2 DEF Connections, TypeOK, vars, storage, context, address
    <2>2. ASSUME NEW q \in Peer PROVE Local(q)'
      <3>1. SameConnection(q) /\ StorageGrows
        BY <1>2 DEF vars, storage, context, address, SameConnection, StorageGrows
      <3> QED
        BY <3>1, SameLocal DEF Connections
    <2> QED
      BY <2>1, <2>2 DEF Connections
  <1> QED
    BY <1>1, <1>2 DEF Next, Step

(* Types and the invariant of each connection hold throughout, for any     *)
(* number of peers.                                                        *)
LEMMA ConnectionsInvariant == Spec => []Connections
  <1>1. Init => Connections
    BY ConnectionsInit
  <1>2. Connections /\ [Next]_vars => Connections'
    BY ConnectionsStep
  <1> QED
    BY <1>1, <1>2, PTL DEF Spec

(* Every variable keeps its type, whatever the peers do: in particular an  *)
(* entry always has a first id, and the highest common block that          *)
(* find_blockchain_supplement looks for always exists.                     *)
THEOREM TypeCorrect == Spec => []TypeOK
  <1>1. Connections => TypeOK
    BY DEF Connections
  <1> QED
    BY <1>1, ConnectionsInvariant, PTL

(* request_missing_objects is the only one that ends a synchronisation,    *)
(* and then nothing of the entry is missing.                               *)
LEMMA NothingMissing ==
    ASSUME NEW p \in Peer, NEW nd \in Seq(Block), NEW check \in BOOLEAN, NEW rm, NEW ls, NEW rq,
           TypeOK, request_missing_objects(p, nd, check, rm, ls, rq),
           state[p] = "synchronizing", state'[p] = "normal"
    PROVE  nd = <<>> /\ rq = {} /\ Range(nd) = {}
  <1>1. CASE \E rest, req \in Seq(Block), got \in SUBSET Block :
                RequestsObjects(p, nd, check, rq, rest, got, req)
    BY <1>1 DEF RequestsObjects
  <1>2. CASE RequestsIds(p, nd, rm, ls, rq)
    BY <1>2 DEF RequestsIds
  <1>3. CASE RequestsNothing(p, nd, rm, ls, rq)
    BY <1>3 DEF RequestsNothing, Range
  <1> QED
    BY <1>1, <1>2, <1>3, RequestFacts

(* The step that ends a synchronisation as normal leaves no id of the last *)
(* entry that the storage does not know.                                   *)
LEMMA InStepComplete ==
    ASSUME TypeOK, NEW p \in Peer, Local(p), Step(p),
           state[p] = "synchronizing", state'[p] = "normal"
    PROVE  entry'[p] \subseteq stored' \cup invalid'
  <1> USE DEF storage, context, address, peervars
  <1>a. ~drop_connection(p) /\ state' # state
    BY DEF drop_connection, TypeOK
  <1>1. CASE Connect(p) \/ Break(p) \/ Serves(p) \/ handle_timed_sync(p) \/ PeerMoves(p)
    <2>1. CASE Connect(p)
      BY <2>1 DEF Connect, Open
    <2>2. CASE ~Connect(p)
      BY <1>1, <2>2, <1>a, Zenon DEF Break, Serves, handle_handshake, handle_request_chain,
         handle_request_get_objects, handle_timed_sync, PeerMoves, Answer
    <2> QED
      BY <2>1, <2>2
  <1>2. CASE on_callback(p) \/ address_blocked(p) \/ handle_notify_new_block(p)
    BY <1>2, <1>a, Zenon DEF on_callback, address_blocked, handle_notify_new_block
  <1>3. CASE process_payload_sync_data(p)
    <2>1. \A m : SyncDataIgnored(p, m)
      BY DEF SyncDataIgnored
    <2> QED
      BY <1>3, <2>1, <1>a, Zenon DEF process_payload_sync_data
  <1>4. CASE handle_response_get_objects(p) \/ NewBlockHandled(p) \/ ObjectHandled(p)
    <2>1. \/ state' = [state EXCEPT ![p] = "idle"] \/ state' = [state EXCEPT ![p] = "synchronizing"]
      BY <1>4, <1>a, Zenon DEF handle_response_get_objects, NewBlockHandled, ObjectHandled, SetAside
    <2> QED
      BY <2>1 DEF TypeOK
  <1>5. CASE handle_response_chain_entry(p)
    <2> DEFINE m  == Head(incoming[p])
               ls == m.start + Len(m.ids) - 1
               nd == needed[p] \o SelectIn(m.ids, Block \ (stored \cup invalid))
    <2>1. /\ incoming[p] # <<>> /\ m.type = "chain_entry" /\ Received(p)
          /\ request_missing_objects(p, nd, FALSE, m.total, ls, requested[p])
          /\ entry' = [entry EXCEPT ![p] = Range(m.ids)]
          /\ UNCHANGED <<stored, invalid>>
      BY <1>5 DEF handle_response_chain_entry, Gets
    <2>2. m.ids \in Seq(Block)
      BY <2>1, ReceivedFacts, MessageFacts
    <2>3. nd \in Seq(Block) /\ Range(m.ids) \subseteq (stored \cup invalid) \cup Range(nd)
      BY <2>2, EntryIds DEF TypeOK
    <2>4. entry'[p] = Range(m.ids)
      BY <2>1 DEF TypeOK
    <2> HIDE DEF nd, ls, m
    <2>5. Range(nd) = {}
      BY <2>1, <2>3, NothingMissing
    <2> QED
      BY <2>1, <2>3, <2>4, <2>5
  <1>6. CASE ObjectsDone(p)
    <2>1. Open(p) /\ needed[p] \in Seq(Block)
      BY DEF Open, TypeOK
    <2>2. /\ entry[p] \subseteq (stored \cup invalid) \cup Range(needed[p]) \cup requested[p]
          /\ request_missing_objects(p, needed[p], TRUE, remote[p], last[p], requested[p])
          /\ UNCHANGED <<stored, invalid, entry>>
      BY <1>6, <2>1, ObjectsDoneFacts
    <2>3. Range(needed[p]) = {} /\ requested[p] = {}
      BY <2>1, <2>2, NothingMissing
    <2> QED
      BY <2>2, <2>3
  <1> QED
    BY <1>1, <1>2, <1>3, <1>4, <1>5, <1>6 DEF Step, Receives, Continues

(* AllObtained: when request_missing_objects declares a connection in      *)
(* step, every block of the peer's last chain entry is stored or known as  *)
(* invalid, for any number of peers and any batch size.                    *)
THEOREM EntriesObtained == Spec => AllObtained
  <1> DEFINE A == \A p \in Peer : state[p] = "synchronizing" /\ state'[p] = "normal"
                    => \A b \in entry'[p] : b \in stored' \cup invalid'
  <1>1. ASSUME Connections, Next PROVE A
    <2>1. PICK r \in Peer : Step(r)
      BY <1>1 DEF Next, Step
    <2>2. TypeOK /\ Local(r) /\ WellFormed(r)
      BY <1>1 DEF Connections, Local
    <2>3. OthersSame(r)
      BY <2>1, <2>2, FrameStep DEF Step
    <2>4. ASSUME NEW p \in Peer, state[p] = "synchronizing", state'[p] = "normal"
          PROVE  \A b \in entry'[p] : b \in stored' \cup invalid'
      <3>1. p = r
        BY <2>3, <2>4 DEF OthersSame, SameConnection
      <3> QED
        BY <3>1, <2>1, <2>2, <2>4, InStepComplete
    <2> QED
      BY <2>4
  <1>2. Connections /\ [Next]_vars => [A]_vars
    BY <1>1
  <1> QED
    BY <1>2, ConnectionsInvariant, PTL DEF Spec, AllObtained

-----------------------------------------------------------------------------
(***************************************************************************)
(* No connection is left waiting.  The end of a synchronisation compares   *)
(* the height of the last id with the length of the peer's chain (lines    *)
(* 666 and 701 of the handler); for that to be sound the chain of a peer   *)
(* must not get shorter between a chain entry and the last objects.        *)
(***************************************************************************)
NeverShorter == \A b, c \in Block : <<b, c>> \in Grows => Len(Path[b]) <= Len(Path[c])

(* A dropped connection has nothing to wait for.                           *)
LEMMA DropMoving ==
    ASSUME TypeOK, TypeOK', NEW p \in Peer, drop_connection(p)
    PROVE  Moving(p)' /\ Heights(p)'
  <1>1. state'[p] = "closed" /\ last'[p] = 0 /\ incoming'[p] = <<>>
    BY DEF TypeOK, drop_connection
  <1>2. DOMAIN incoming'[p] = {}
    BY <1>1
  <1>3. ptop'[p] \in Block
    BY DEF TypeOK
  <1>4. Len(Path[ptop'[p]]) \in Nat /\ Len(Path[ptop'[p]]) >= 1
    BY <1>3, PathFacts
  <1> QED
    BY <1>1, <1>2, <1>4 DEF Moving, Heights, Open

(* A message is taken that is no answer.                                   *)
LEMMA TakenMoving ==
    ASSUME TypeOK, NEW p \in Peer, Moving(p), Heights(p), incoming[p] # <<>>, Received(p),
           p \in blocked \/ Head(incoming[p]).type \in {"sync", "new_block"},
           UNCHANGED <<ptop, state, last, remote, callbacks, outgoing, work, blocked>>
    PROVE  Moving(p)' /\ Heights(p)'
  <1>1. /\ 1 \in DOMAIN incoming[p] /\ Head(incoming[p]) = incoming[p][1]
        /\ \A i \in DOMAIN incoming'[p] :
             i + 1 \in DOMAIN incoming[p] /\ i + 1 # 1 /\ incoming'[p][i] = incoming[p][i + 1]
        /\ \A i \in DOMAIN incoming[p] : i # 1 =>
             i - 1 \in DOMAIN incoming'[p] /\ incoming'[p][i - 1] = incoming[p][i]
    BY ReceivedFacts
  <1>2. Heights(p)'
    BY <1>1 DEF Heights, Storing, Open
  <1>3. Moving(p)'
    BY <1>1 DEF Moving, Answered
  <1> QED
    BY <1>2, <1>3

(* request_missing_objects, with heights that agree, asks for more or ends *)
(* the synchronisation.                                                    *)
LEMMA RequestMoving ==
    ASSUME TypeOK, NEW p \in Peer, NEW nd \in Seq(Block), NEW check \in BOOLEAN,
           NEW rm \in Nat, NEW ls \in Nat, NEW rq, p \notin blocked => rq = {}, ls < rm,
           request_missing_objects(p, nd, check, rm, ls, rq),
           outgoing[p] = <<>>, blocked' = blocked
    PROVE  Moving(p)'
  <1>1. CASE \E rest, req \in Seq(Block), got \in SUBSET Block :
                RequestsObjects(p, nd, check, rq, rest, got, req)
    <2>1. \E m : post_notify(p, m)
      BY <1>1 DEF RequestsObjects
    <2> QED
      BY <2>1, PostFacts DEF Moving
  <1>2. CASE RequestsIds(p, nd, rm, ls, rq)
    <2>1. post_notify(p, RequestChain)
      BY <1>2 DEF RequestsIds
    <2> QED
      BY <2>1, PostFacts DEF Moving
  <1>3. CASE RequestsNothing(p, nd, rm, ls, rq)
    <2>1. ls = rm - 1
      BY <1>3 DEF RequestsNothing
    <2>2. p \notin blocked => state'[p] = "normal"
      BY <1>3, <2>1 DEF RequestsNothing, TypeOK
    <2> QED
      BY <2>2 DEF Moving
  <1> QED
    BY <1>1, <1>2, <1>3, RequestFacts

(* The peer's answers.                                                     *)
LEMMA AnswerMoving ==
    ASSUME TypeOK, NEW p \in Peer, Heights(p), Moving(p), NEW m \in Answers,
           incoming' = [incoming EXCEPT ![p] = Append(@, m)],
           UNCHANGED <<state, last, remote, callbacks, work, blocked>>,
           ptop'[p] \in Block, Len(Path[ptop[p]]) <= Len(Path[ptop'[p]]),
           m.type = "chain_entry" => m.total <= Len(Path[ptop'[p]]),
           m.type = "objects" => last[p] < m.height,
           \/ state[p] # "synchronizing"
           \/ m.type \in {"chain_entry", "objects"}
           \/ UNCHANGED outgoing
    PROVE  Moving(p)' /\ Heights(p)'
  <1>1. /\ \A i \in DOMAIN incoming'[p] :
              \/ i \in DOMAIN incoming[p] /\ incoming'[p][i] = incoming[p][i]
              \/ i = Len(incoming[p]) + 1 /\ incoming'[p][i] = m
        /\ \A i \in DOMAIN incoming[p] :
              i \in DOMAIN incoming'[p] /\ incoming'[p][i] = incoming[p][i]
        /\ Len(incoming[p]) + 1 \in DOMAIN incoming'[p]
        /\ incoming'[p][Len(incoming[p]) + 1] = m
    BY AppendedFacts
  <1>2. /\ Len(Path[ptop[p]]) \in Nat /\ Len(Path[ptop'[p]]) \in Nat /\ last[p] \in Nat
    BY PathFacts DEF TypeOK
  <1>3. \A i \in DOMAIN incoming[p] : incoming[p][i].type = "chain_entry" => incoming[p][i].total \in Nat
    <2>1. incoming[p] \in Seq(Answers)
      BY DEF TypeOK
    <2>2. \A i \in DOMAIN incoming[p] : incoming[p][i] \in Answers
      BY <2>1
    <2> QED
      BY <2>2, MessageFacts
  <1>4. Heights(p)'
    <2>1. last'[p] < Len(Path[ptop'[p]])
      BY <1>2 DEF Heights
    <2>2. ASSUME NEW i \in DOMAIN incoming'[p]
          PROVE  /\ incoming'[p][i].type = "chain_entry" => incoming'[p][i].total <= Len(Path[ptop'[p]])
                 /\ incoming'[p][i].type = "objects" => last'[p] < incoming'[p][i].height
      <3>1. CASE i \in DOMAIN incoming[p] /\ incoming'[p][i] = incoming[p][i]
        BY <3>1, <1>2, <1>3, SMTT(30) DEF Heights
      <3>2. CASE incoming'[p][i] = m
        BY <3>2
      <3> QED
        BY <3>1, <3>2, <1>1
    <2>3. Storing(p)' /\ Open(p)' => last'[p] < remote'[p]
      BY DEF Heights, Storing, Open
    <2> QED
      BY <2>1, <2>2, <2>3 DEF Heights
  <1>5. Moving(p)'
    <2>1. CASE state[p] # "synchronizing"
      BY <2>1 DEF Moving
    <2>2. CASE m.type \in {"chain_entry", "objects"}
      BY <2>2, <1>1 DEF Moving, Answered
    <2>3. CASE UNCHANGED outgoing
      BY <2>3, <1>1 DEF Moving, Answered
    <2> QED
      BY <2>1, <2>2, <2>3
  <1> QED
    BY <1>4, <1>5

(* A peer that answers or tells its data keeps the connection moving, and  *)
(* tells no height below the ones known.                                   *)
LEMMA ServesMoving ==
    ASSUME TypeOK, TypeOK', NEW p \in Peer, Local(p), Heights(p), Moving(p),
           Serves(p) \/ handle_timed_sync(p)
    PROVE  Moving(p)' /\ Heights(p)'
  <1> USE DEF peervars, storage, context, address
  <1>a. /\ ptop[p] \in Block /\ Len(Path[ptop[p]]) \in Nat /\ last[p] < Len(Path[ptop[p]])
    BY PathFacts DEF TypeOK, Heights
  <1>b. ASSUME NEW m, Answer(p, m)
        PROVE  /\ incoming' = [incoming EXCEPT ![p] = Append(@, m)] /\ ptop' = ptop
               /\ UNCHANGED <<state, last, remote, callbacks, work, blocked>>
    BY <1>b DEF Answer
  <1>1. CASE handle_handshake(p)
    <2> DEFINE m == [type |-> "sync", top |-> ptop[p], initial |-> TRUE]
    <2>1. Answer(p, m) /\ Asks(p, "handshake") /\ m \in Answers /\ m.type = "sync"
      BY <1>1, <1>a DEF handle_handshake, Answers
    <2> HIDE DEF m
    <2>2. state[p] = "before_handshake"
      BY <2>1 DEF Local, OnlySynchronizing, Asks
    <2> QED
      BY <2>1, <2>2, <1>a, <1>b, AnswerMoving
  <1>2. CASE handle_request_chain(p)
    <2> DEFINE m == ChainEntry(ptop[p], Head(outgoing[p]).ids)
    <2>1. Answer(p, m) /\ Asks(p, "request_chain")
      BY <1>2 DEF handle_request_chain
    <2>2. m \in Answers /\ m.type = "chain_entry" /\ m.total = Len(Path[ptop[p]])
      <3>1. /\ outgoing[p][1] = Head(outgoing[p]) /\ 1 \in DOMAIN outgoing[p]
            /\ Head(outgoing[p]) \in Messages
        BY <2>1, ServedFacts DEF Asks, Local
      <3>2. Head(outgoing[p]).ids \in SUBSET Block
        BY <2>1, <3>1, MessageFacts DEF Asks
      <3>3. Genesis \in Head(outgoing[p]).ids
        BY <2>1, <3>1 DEF Local, WellFormed, Asks
      <3> QED
        BY <1>a, <3>2, <3>3, ChainEntryFacts
    <2> HIDE DEF m
    <2> QED
      BY <2>1, <2>2, <1>a, <1>b, AnswerMoving
  <1>3. CASE handle_request_get_objects(p)
    <2>1. CASE drop_connection(p)
      BY <2>1, DropMoving
    <2>2. CASE \E bs : Answer(p, [type |-> "objects", blocks |-> bs, height |-> Len(Path[ptop[p]])])
      <3>1. PICK bs : Answer(p, [type |-> "objects", blocks |-> bs, height |-> Len(Path[ptop[p]])])
        BY <2>2
      <3> DEFINE m == [type |-> "objects", blocks |-> bs, height |-> Len(Path[ptop[p]])]
      <3>2. m.type = "objects" /\ m.height = Len(Path[ptop[p]])
        OBVIOUS
      <3>3. incoming'[p] = Append(incoming[p], m) /\ incoming'[p] \in Seq(Answers)
            /\ incoming[p] \in Seq(Answers)
        BY <3>1 DEF Answer, TypeOK
      <3>4. m \in Answers
        <4> HIDE DEF m
        <4>1. /\ Len(incoming[p]) + 1 \in 1 .. Len(incoming'[p])
              /\ incoming'[p][Len(incoming[p]) + 1] = m
          BY <3>3
        <4> QED
          BY <4>1, <3>3
      <3>5. Answer(p, m)
        BY <3>1
      <3> HIDE DEF m
      <3> QED
        BY <3>2, <3>4, <3>5, <1>a, <1>b, AnswerMoving
    <2> QED
      BY <1>3, <2>1, <2>2, Zenon DEF handle_request_get_objects
  <1>4. CASE handle_timed_sync(p)
    <2> DEFINE m == [type |-> "sync", top |-> ptop[p], initial |-> FALSE]
    <2>1. m \in Answers /\ m.type = "sync"
      BY <1>a DEF Answers
    <2> HIDE DEF m
    <2>2. Append(<<>>, m) = <<m>>
      OBVIOUS
    <2>3. /\ incoming' = [incoming EXCEPT ![p] = Append(@, m)] /\ ptop' = ptop
          /\ UNCHANGED <<state, last, remote, callbacks, work, blocked, outgoing>>
      BY <1>4, <2>2 DEF handle_timed_sync, m
    <2>4. /\ incoming' = [incoming EXCEPT ![p] = Append(@, m)] /\ UNCHANGED outgoing
          /\ UNCHANGED <<state, last, remote, callbacks, work, blocked>>
      BY <2>3
    <2>5. ptop'[p] \in Block /\ Len(Path[ptop[p]]) <= Len(Path[ptop'[p]])
      BY <2>3, <1>a
    <2>6. /\ m.type = "chain_entry" => m.total <= Len(Path[ptop'[p]])
          /\ m.type = "objects" => last[p] < m.height
      BY <2>1
    <2> QED
      BY <2>1, <2>4, <2>5, <2>6, AnswerMoving
  <1> QED
    BY <1>1, <1>2, <1>3, <1>4 DEF Serves

(* A connection is made, breaks, or its peer's chain moves on.             *)
LEMMA LinkMoving ==
    ASSUME TypeOK, TypeOK', NeverShorter, NEW p \in Peer, Local(p), Heights(p), Moving(p),
           Connect(p) \/ Break(p) \/ PeerMoves(p)
    PROVE  Moving(p)' /\ Heights(p)'
  <1> USE DEF storage, context, address, peervars
  <1>1. CASE Connect(p)
    <2>1. /\ state'[p] = "before_handshake" /\ UNCHANGED <<ptop, incoming, last, remote, work>>
          /\ work[p].kind = "none"
      BY <1>1 DEF Connect, TypeOK, Idle
    <2> QED
      BY <2>1 DEF Moving, Heights, Storing
  <1>2. CASE Break(p)
    BY <1>2, DropMoving DEF Break
  <1>3. CASE PeerMoves(p)
    <2>1. PICK c \in Block :
             /\ <<ptop[p], c>> \in Grows
             /\ ptop' = [ptop EXCEPT ![p] = c]
             /\ \/ UNCHANGED incoming
                \/ incoming' = [incoming EXCEPT
                                   ![p] = Append(@, [type |-> "new_block", block |-> c])]
      BY <1>3, Zenon DEF PeerMoves
    <2>2. UNCHANGED <<state, last, remote, callbacks, work, blocked>> /\ UNCHANGED outgoing
      BY <1>3 DEF PeerMoves
    <2>3. ptop[p] \in Block /\ ptop'[p] = c
      BY <2>1 DEF TypeOK
    <2>4. /\ ptop'[p] \in Block /\ Len(Path[ptop[p]]) <= Len(Path[ptop'[p]])
          /\ Len(Path[ptop[p]]) \in Nat /\ Len(Path[ptop'[p]]) \in Nat
      BY <2>1, <2>3, PathFacts DEF NeverShorter
    <2>5. CASE UNCHANGED incoming
      <3>1. \A i \in DOMAIN incoming[p] :
               incoming[p][i].type = "chain_entry" => incoming[p][i].total \in Nat
        <4>1. incoming[p] \in Seq(Answers)
          BY DEF TypeOK
        <4>2. \A i \in DOMAIN incoming[p] : incoming[p][i] \in Answers
          BY <4>1
        <4> QED
          BY <4>2, MessageFacts
      <3>2. last[p] \in Nat
        BY DEF TypeOK
      <3>3. Heights(p)'
        <4>1. last'[p] < Len(Path[ptop'[p]])
          BY <2>2, <2>4, <3>2 DEF Heights
        <4>2. \A i \in DOMAIN incoming'[p] : incoming'[p][i].type = "chain_entry" =>
                 incoming'[p][i].total <= Len(Path[ptop'[p]])
          <5> SUFFICES ASSUME NEW i \in DOMAIN incoming'[p], incoming'[p][i].type = "chain_entry"
                       PROVE  incoming'[p][i].total <= Len(Path[ptop'[p]])
            OBVIOUS
          <5>1. /\ i \in DOMAIN incoming[p] /\ incoming'[p][i] = incoming[p][i]
                /\ incoming[p][i].type = "chain_entry"
            BY <2>5
          <5>2. incoming[p][i].total \in Nat /\ incoming[p][i].total <= Len(Path[ptop[p]])
            BY <3>1, <5>1 DEF Heights
          <5> QED
            BY <2>4, <5>1, <5>2
        <4>3. \A i \in DOMAIN incoming'[p] : incoming'[p][i].type = "objects" =>
                 last'[p] < incoming'[p][i].height
          BY <2>2, <2>5 DEF Heights
        <4>4. Storing(p)' /\ Open(p)' => last'[p] < remote'[p]
          BY <2>2 DEF Heights, Storing, Open
        <4> QED
          BY <4>1, <4>2, <4>3, <4>4 DEF Heights
      <3> QED
        BY <2>2, <2>5, <3>3 DEF Moving, Answered
    <2>6. CASE incoming' = [incoming EXCEPT
                               ![p] = Append(@, [type |-> "new_block", block |-> c])]
      <3> DEFINE m == [type |-> "new_block", block |-> c]
      <3>1. m \in Answers /\ m.type = "new_block"
        BY <2>1 DEF Answers
      <3>2. incoming' = [incoming EXCEPT ![p] = Append(@, m)]
        BY <2>6
      <3> HIDE DEF m
      <3>3. /\ m.type = "chain_entry" => m.total <= Len(Path[ptop'[p]])
            /\ m.type = "objects" => last[p] < m.height
        BY <3>1
      <3> QED
        BY <2>2, <2>4, <3>1, <3>2, <3>3, AnswerMoving
    <2> QED
      BY <2>1, <2>5, <2>6
  <1> QED
    BY <1>1, <1>2, <1>3

(* A message that is no answer, or one of a blocked address, is received.  *)
LEMMA NewsMoving ==
    ASSUME TypeOK, TypeOK', NEW p \in Peer, Local(p), Heights(p), Moving(p),
           \/ address_blocked(p) \/ process_payload_sync_data(p) \/ handle_notify_new_block(p)
    PROVE  Moving(p)' /\ Heights(p)'
  <1> USE DEF storage, context, address
  <1>1. CASE address_blocked(p)
    <2>1. /\ incoming[p] # <<>> /\ Received(p) /\ p \in blocked
          /\ UNCHANGED <<ptop, state, last, remote, callbacks, outgoing, work, blocked>>
      BY <1>1 DEF address_blocked
    <2> QED
      BY <2>1, TakenMoving
  <1>a. ASSUME incoming[p] # <<>>, Head(incoming[p]).type \in {"sync", "new_block"}, Received(p),
               work'[p].kind # "objects", UNCHANGED <<ptop, last>>
        PROVE  Heights(p)'
    <2>1. \A i \in DOMAIN incoming'[p] :
             i + 1 \in DOMAIN incoming[p] /\ i + 1 # 1 /\ incoming'[p][i] = incoming[p][i + 1]
      BY <1>a, ReceivedFacts
    <2> QED
      BY <1>a, <2>1 DEF Heights, Storing
  <1>2. CASE process_payload_sync_data(p)
    <2> DEFINE m == Head(incoming[p])
    <2>1. /\ incoming[p] # <<>> /\ m.type = "sync" /\ work[p] = Idle /\ work[p].kind = "none"
          /\ UNCHANGED <<ptop, work, blocked>>
      BY <1>2 DEF process_payload_sync_data, Gets, Idle
    <2>2. CASE drop_connection(p)
      BY <2>2, DropMoving
    <2>3. CASE Received(p) /\ UNCHANGED <<context, outgoing>>
      BY <2>1, <2>3, TakenMoving
    <2>4. CASE /\ state' = [state EXCEPT ![p] = "normal"]
               /\ Received(p)
               /\ UNCHANGED <<needed, requested, remote, last, callbacks, entry, outgoing>>
      <3>1. state'[p] = "normal"
        BY <2>4 DEF TypeOK
      <3>2. Heights(p)'
        BY <1>a, <2>1, <2>4
      <3> QED
        BY <3>1, <3>2 DEF Moving
    <2>5. CASE /\ callbacks' = [callbacks EXCEPT ![p] = @ + 1]
               /\ Received(p)
               /\ UNCHANGED <<needed, requested, last, entry, outgoing>>
      <3>1. callbacks'[p] > 0
        BY <2>5, SMTT(30) DEF TypeOK
      <3>2. Heights(p)'
        BY <1>a, <2>1, <2>5
      <3> QED
        BY <3>1, <3>2 DEF Moving
    <2> QED
      BY <1>2, <2>2, <2>3, <2>4, <2>5, Zenon DEF process_payload_sync_data
  <1>3. CASE handle_notify_new_block(p)
    <2> DEFINE b == Head(incoming[p]).block
    <2>1. /\ incoming[p] # <<>> /\ Head(incoming[p]).type = "new_block"
          /\ UNCHANGED <<ptop, blocked>>
      BY <1>3 DEF handle_notify_new_block, Gets
    <2>2. CASE drop_connection(p)
      BY <2>2, DropMoving
    <2>3. CASE Received(p) /\ UNCHANGED <<context, outgoing, work>>
      BY <2>1, <2>3, TakenMoving
    <2>4. CASE /\ \E pre : work' = [work EXCEPT ![p] =
                                     [kind |-> "new_block", rest |-> <<b>>, count |-> pre]]
               /\ Received(p) /\ UNCHANGED <<context, outgoing>>
      <3>1. work'[p].kind = "new_block"
        BY <2>4 DEF TypeOK
      <3>2. work'[p] # Idle
        BY <3>1 DEF Idle
      <3>3. Heights(p)'
        BY <1>a, <2>1, <2>4, <3>1
      <3> QED
        BY <3>2, <3>3 DEF Moving
    <2> QED
      BY <1>3, <2>2, <2>3, <2>4, Zenon DEF handle_notify_new_block
  <1> QED
    BY <1>1, <1>2, <1>3

(* An answer is received: more is requested, the objects go to the         *)
(* storage, or the connection is no longer synchronizing.                  *)
LEMMA ReplyMoving ==
    ASSUME TypeOK, TypeOK', NEW p \in Peer, Local(p), Heights(p), Moving(p),
           handle_response_chain_entry(p) \/ handle_response_get_objects(p)
    PROVE  Moving(p)' /\ Heights(p)'
  <1> USE DEF storage, context, address
  <1> DEFINE m == Head(incoming[p])
  <1>a. ASSUME incoming[p] # <<>>
        PROVE  /\ 1 \in DOMAIN incoming[p] /\ m = incoming[p][1] /\ m \in Answers
               /\ incoming[p] \in Seq(Answers)
    BY <1>a, QueueFacts DEF TypeOK
  <1>b. last[p] \in Nat /\ ptop[p] \in Block /\ Len(Path[ptop[p]]) \in Nat
    BY PathFacts DEF TypeOK
  <1>1. CASE handle_response_chain_entry(p)
    <2> DEFINE ls == m.start + Len(m.ids) - 1
               lacking == SelectIn(m.ids, Block \ (stored \cup invalid))
    <2>1. /\ incoming[p] # <<>> /\ m.type = "chain_entry" /\ work[p] = Idle
          /\ last' = [last EXCEPT ![p] = ls]
          /\ request_missing_objects(p, needed[p] \o lacking, FALSE, m.total, ls, requested[p])
          /\ Received(p) /\ UNCHANGED <<ptop, work, blocked>>
      BY <1>1 DEF handle_response_chain_entry, Gets
    <2>2. m.ids \in Seq(Block) /\ m.start \in Nat /\ m.total \in Nat
      BY <1>a, <2>1, MessageFacts
    <2>3. m.ids # <<>> /\ m.start + Len(m.ids) <= m.total /\ m.total <= Len(Path[ptop[p]])
      BY <1>a, <2>1 DEF Local, WellFormed, Heights
    <2>4. ls \in Nat /\ ls < m.total /\ ls < Len(Path[ptop[p]])
      <3> HIDE DEF m
      <3>1. Len(m.ids) \in Nat /\ Len(m.ids) >= 1
        BY <2>2, <2>3
      <3> DEFINE n == Len(m.ids)
                 t == m.total
                 h == Len(Path[ptop[p]])
      <3>2. n \in Nat /\ n >= 1 /\ m.start \in Nat /\ t \in Nat /\ h \in Nat
        BY <3>1, <2>2, <1>b
      <3>3. m.start + n <= t /\ t <= h
        BY <2>3
      <3> HIDE DEF n, t, h
      <3>4. m.start + n - 1 \in Nat /\ m.start + n - 1 < t /\ m.start + n - 1 < h
        BY <3>2, <3>3
      <3> QED
        BY <3>4 DEF n, t, h
    <2>5. /\ outgoing[p] = <<>> /\ \A i \in DOMAIN incoming'[p] : ~Answered(p, i)'
          /\ p \notin blocked => requested[p] = {}
      BY <2>1, AnswerFacts
    <2>6. needed[p] \o lacking \in Seq(Block)
      <3>1. lacking \in Seq(Block)
        BY <2>2, SelectInFacts
      <3> HIDE DEF lacking
      <3> QED
        BY <3>1 DEF TypeOK
    <2>7. Moving(p)'
      <3> DEFINE nd == needed[p] \o lacking
      <3>1. nd \in Seq(Block) /\ request_missing_objects(p, nd, FALSE, m.total, ls, requested[p])
        BY <2>1, <2>6
      <3>2. ls \in Nat /\ m.total \in Nat /\ FALSE \in BOOLEAN /\ blocked' = blocked /\ ls < m.total
        BY <2>1, <2>2, <2>4
      <3> HIDE DEF nd, ls, m
      <3> QED
        BY <2>5, <3>1, <3>2, RequestMoving
    <2>8. Heights(p)'
      <3>1. last'[p] = ls /\ ptop'[p] = ptop[p] /\ work'[p].kind = "none"
        BY <2>1 DEF TypeOK, Idle
      <3>2. last'[p] < Len(Path[ptop'[p]]) /\ ~Storing(p)'
        BY <3>1, <2>4 DEF Storing
      <3> QED
        BY <2>5, <3>2 DEF Heights, Answered
    <2> QED
      BY <2>7, <2>8
  <1>2. CASE handle_response_get_objects(p)
    <2>1. /\ incoming[p] # <<>> /\ m.type = "objects" /\ work[p] = Idle /\ work[p].kind = "none"
          /\ UNCHANGED <<ptop, blocked>>
      BY <1>2 DEF handle_response_get_objects, Gets, Idle
    <2>2. CASE drop_connection(p)
      BY <2>2, DropMoving
    <2>3. last[p] < m.height
      BY <1>a, <2>1 DEF Heights
    <2>4. CASE /\ SetAside(p) /\ Received(p)
               /\ UNCHANGED <<last, callbacks, entry, outgoing, work>>
      <3>1. state'[p] = "idle" /\ ~Storing(p)' /\ last'[p] = last[p] /\ ptop'[p] = ptop[p]
        BY <2>1, <2>4 DEF SetAside, TypeOK, Storing
      <3>2. \A i \in DOMAIN incoming'[p] : ~Answered(p, i)'
        BY <2>1, <2>4, AnswerFacts
      <3> QED
        BY <3>1, <3>2 DEF Moving, Heights, Answered
    <2>5. CASE /\ remote' = [remote EXCEPT ![p] = m.height]
               /\ work' = [work EXCEPT ![p] = [kind |-> "objects", rest |-> m.blocks, count |-> 0]]
               /\ Received(p) /\ UNCHANGED <<state, needed, last, callbacks, entry, outgoing>>
      <3>1. work'[p].kind = "objects" /\ remote'[p] = m.height /\ last'[p] = last[p] /\ ptop'[p] = ptop[p]
        BY <2>1, <2>5 DEF TypeOK
      <3>2. \A i \in DOMAIN incoming'[p] : ~Answered(p, i)'
        BY <2>1, <2>5, AnswerFacts
      <3>3. work'[p] # Idle
        BY <3>1 DEF Idle
      <3>4. last'[p] < remote'[p]
        BY <3>1, <2>3
      <3>5. Heights(p)'
        BY <3>1, <3>2, <3>4 DEF Heights, Answered
      <3> QED
        BY <3>3, <3>5 DEF Moving
    <2> QED
      BY <1>2, <2>2, <2>4, <2>5, Zenon DEF handle_response_get_objects
  <1> QED
    BY <1>1, <1>2

(* A callback, and what the handlers that are under way still do.          *)
LEMMA WorkMoving ==
    ASSUME TypeOK, TypeOK', allowed \subseteq blocked, NEW p \in Peer, Local(p), Heights(p),
           Moving(p), on_callback(p) \/ Continues(p)
    PROVE  Moving(p)' /\ Heights(p)'
  <1> USE DEF storage, context, address
  <1>a. ASSUME UNCHANGED <<ptop, last, incoming>>,
               work'[p].kind # "objects"
        PROVE  Heights(p)'
    BY <1>a DEF Heights, Storing
  <1>1. CASE on_callback(p)
    <2>1. /\ callbacks[p] > 0 /\ state[p] = "synchronizing" /\ outgoing[p] = <<>>
          /\ work[p].kind = "none"
      BY <1>1 DEF on_callback, Local, OneAtATime, OnlySynchronizing, Idle
    <2>2. post_notify(p, RequestChain) /\ UNCHANGED <<ptop, last, incoming, work>>
      BY <1>1, <2>1 DEF on_callback
    <2>3. outgoing'[p] # <<>>
      BY <2>1, <2>2, PostFacts
    <2>4. work'[p].kind # "objects" /\ UNCHANGED <<ptop, last, incoming>>
      BY <2>1, <2>2
    <2>5. Heights(p)'
      BY <1>a, <2>4
    <2> QED
      BY <2>3, <2>5 DEF Moving
  <1>2. CASE NewBlockHandled(p)
    <2>1. /\ work'[p].kind = "none" /\ UNCHANGED <<ptop, blocked>> /\ work[p].kind = "new_block"
      BY <1>2 DEF NewBlockHandled, TypeOK, Idle
    <2>2. CASE drop_connection(p)
      BY <2>2, DropMoving
    <2>3. state[p] \in {"normal", "closed"}
      BY <2>1 DEF Local, OnlySynchronizing
    <2>4. CASE /\ Open(p) /\ post_notify(p, RequestChain)
               /\ UNCHANGED <<needed, requested, remote, last, callbacks, entry, incoming>>
      <3>1. outgoing[p] = <<>>
        BY <2>3, <2>4 DEF Local, OnlySynchronizing, Open
      <3>2. outgoing'[p] # <<>>
        BY <3>1, <2>4, PostFacts
      <3>3. work'[p].kind # "objects" /\ UNCHANGED <<ptop, last, incoming>>
        BY <2>1, <2>4
      <3>4. Heights(p)'
        BY <1>a, <3>3
      <3> QED
        BY <3>2, <3>4 DEF Moving
    <2>5. CASE UNCHANGED <<context, outgoing, incoming>>
      <3>1. work'[p].kind # "objects" /\ UNCHANGED <<ptop, last, incoming>>
        BY <2>1, <2>5
      <3>2. Heights(p)'
        BY <1>a, <3>1
      <3>3. state'[p] # "synchronizing"
        BY <2>3, <2>5
      <3> QED
        BY <3>2, <3>3 DEF Moving
    <2> QED
      BY <1>2, <2>2, <2>4, <2>5, Zenon DEF NewBlockHandled
  <1>3. CASE ObjectHandled(p)
    <2> DEFINE b == Head(work[p].rest)
    <2>1. Storing(p) /\ UNCHANGED ptop
      BY <1>3 DEF ObjectHandled, Storing
    <2>2. CASE drop_connection(p)
      BY <2>2, DropMoving
    <2>3. CASE /\ add_address_fail(p) /\ p \in allowed /\ UNCHANGED <<context, outgoing, incoming>>
               /\ work' = [work EXCEPT ![p] = Idle]
      <3>1. work'[p].kind = "none" /\ p \in blocked'
        BY <2>3, SMTT(30) DEF TypeOK, Idle, add_address_fail
      <3>2. Heights(p)'
        BY <1>a, <2>1, <2>3, <3>1
      <3> QED
        BY <3>1, <3>2 DEF Moving
    <2>4. CASE /\ IF Open(p) THEN SetAside(p) ELSE UNCHANGED <<state, needed, requested>>
               /\ work' = [work EXCEPT ![p] = Idle]
               /\ UNCHANGED <<remote, last, callbacks, entry, outgoing, incoming, fails, blocked>>
      <3>1. work'[p].kind = "none" /\ state'[p] # "synchronizing"
        BY <2>4, SMTT(30) DEF TypeOK, Idle, SetAside, Open
      <3>2. Heights(p)'
        BY <1>a, <2>1, <2>4, <3>1
      <3> QED
        BY <3>1, <3>2 DEF Moving
    <2>5. CASE /\ work' = [work EXCEPT ![p].rest = Tail(@), ![p].count = @ + 1]
               /\ UNCHANGED <<context, outgoing, incoming, fails, blocked>>
      <3>1. work'[p].kind = "objects"
        BY <2>1, <2>5 DEF TypeOK, Storing
      <3>2. work'[p] # Idle
        BY <3>1 DEF Idle
      <3>3. Heights(p)'
        BY <2>1, <2>5 DEF Heights, Storing, Open
      <3> QED
        BY <3>2, <3>3 DEF Moving
    <2> QED
      BY <1>3, <2>2, <2>3, <2>4, <2>5, Zenon DEF ObjectHandled
  <1>4. CASE ObjectsDone(p)
    <2>1. /\ work'[p].kind = "none" /\ UNCHANGED <<ptop, last, incoming, blocked>> /\ Storing(p)
      BY <1>4 DEF ObjectsDone, TypeOK, Idle, Storing
    <2>2. Heights(p)'
      BY <1>a, <2>1
    <2>3. CASE Open(p)
      <3>1. /\ needed[p] \in Seq(Block) /\ TRUE \in BOOLEAN /\ remote[p] \in Nat /\ last[p] \in Nat
        BY DEF TypeOK
      <3>2. last[p] < remote[p]
        BY <2>1, <2>3 DEF Heights
      <3>3. /\ outgoing[p] = <<>>
            /\ p \notin blocked => requested[p] = {}
        BY <1>4, <2>3, ObjectsDoneFacts
      <3>4. request_missing_objects(p, needed[p], TRUE, remote[p], last[p], requested[p])
        BY <1>4, <2>3, ObjectsDoneFacts
      <3>5. Moving(p)'
        BY <3>1, <3>2, <3>3, <3>4, <2>1, RequestMoving
      <3> QED
        BY <2>2, <3>5
    <2>4. CASE ~Open(p)
      <3>1. state'[p] # "synchronizing"
        BY <1>4, <2>4 DEF ObjectsDone, Open
      <3> QED
        BY <2>2, <3>1 DEF Moving
    <2> QED
      BY <2>3, <2>4
  <1> QED
    BY <1>1, <1>2, <1>3, <1>4 DEF Continues

(* An address that is let in all the same is a blocked one.                *)
LEMMA AllowedStep ==
    ASSUME allowed \subseteq blocked, NEW p \in Peer, Step(p)
    PROVE  allowed' \subseteq blocked'
  <1> USE DEF storage, context, address, peervars
  <1>1. CASE Connect(p)
    <2>1. is_address_allowed(p)
      BY <1>1 DEF Connect
    <2> QED
      BY <2>1 DEF is_address_allowed
  <1>2. CASE Break(p)
    BY <1>2 DEF Break
  <1>3. CASE Serves(p) \/ handle_timed_sync(p) \/ PeerMoves(p)
    <2>1. CASE handle_handshake(p) \/ handle_request_chain(p)
      BY <2>1 DEF handle_handshake, handle_request_chain, Answer
    <2>2. CASE handle_request_get_objects(p)
      <3>1. UNCHANGED address \/ \E m : Answer(p, m)
        BY <2>2, Zenon DEF handle_request_get_objects
      <3> QED
        BY <3>1 DEF Answer
    <2>3. CASE handle_timed_sync(p) \/ PeerMoves(p)
      BY <2>3 DEF handle_timed_sync, PeerMoves
    <2> QED
      BY <1>3, <2>1, <2>2, <2>3 DEF Serves
  <1>4. CASE Receives(p) \/ on_callback(p)
    <2>1. CASE address_blocked(p) \/ process_payload_sync_data(p) \/ handle_notify_new_block(p)
      BY <2>1 DEF address_blocked, process_payload_sync_data, handle_notify_new_block
    <2>2. CASE handle_response_chain_entry(p) \/ handle_response_get_objects(p) \/ on_callback(p)
      BY <2>2 DEF handle_response_chain_entry, handle_response_get_objects, on_callback
    <2> QED
      BY <1>4, <2>1, <2>2 DEF Receives
  <1>5. CASE Continues(p)
    <2>1. CASE NewBlockHandled(p) \/ ObjectsDone(p)
      BY <2>1 DEF NewBlockHandled, ObjectsDone
    <2>2. CASE ObjectHandled(p)
      <3>1. UNCHANGED allowed /\ (add_address_fail(p) \/ UNCHANGED blocked)
        BY <2>2, Zenon DEF ObjectHandled
      <3> QED
        BY <3>1 DEF add_address_fail
    <2> QED
      BY <1>5, <2>1, <2>2 DEF Continues
  <1> QED
    BY <1>1, <1>2, <1>3, <1>4, <1>5 DEF Step

(* The inductive invariant of progress.                                    *)
Progress ==
    /\ Connections /\ allowed \subseteq blocked
    /\ \A p \in Peer : Moving(p) /\ Heights(p)

(* A step of one connection leaves it, and every other one, moving.        *)
LEMMA ProgressStep ==
    ASSUME NeverShorter, Progress, [Next]_vars PROVE Progress'
  <1>1. Connections /\ Connections' /\ TypeOK /\ TypeOK'
    BY ConnectionsStep DEF Progress, Connections
  <1>2. CASE \E p \in Peer : Step(p)
    <2>1. PICK p \in Peer : Step(p)
      BY <1>2
    <2>2. WellFormed(p) /\ Local(p) /\ Moving(p) /\ Heights(p) /\ allowed \subseteq blocked
      BY <1>1 DEF Progress, Connections, Local
    <2>3. allowed' \subseteq blocked'
      BY <2>1, <2>2, AllowedStep
    <2>4. OthersSame(p)
      BY <1>1, <2>1, <2>2, FrameStep DEF Step
    <2>5. Moving(p)' /\ Heights(p)'
      BY <1>1, <2>1, <2>2, LinkMoving, ServesMoving, NewsMoving, ReplyMoving, WorkMoving, Zenon
         DEF Step, Receives
    <2>6. ASSUME NEW q \in Peer, q # p PROVE Moving(q)' /\ Heights(q)'
      BY <2>4, <2>6, SameMoving DEF OthersSame, Progress
    <2> QED
      BY <1>1, <2>3, <2>5, <2>6 DEF Progress
  <1>3. CASE UNCHANGED vars
    <2>1. UNCHANGED <<allowed, blocked>>
      BY <1>3 DEF vars, address
    <2>2. ASSUME NEW q \in Peer PROVE Moving(q)' /\ Heights(q)'
      <3>1. SameConnection(q)
        BY <1>3 DEF vars, storage, context, address, SameConnection
      <3> QED
        BY <3>1, SameMoving DEF Progress
    <2> QED
      BY <1>1, <2>1, <2>2 DEF Progress
  <1> QED
    BY <1>2, <1>3 DEF Next, Step

(* No connection is left waiting: with peers whose chains do not get       *)
(* shorter, a connection in state_synchronizing always has a request, an   *)
(* answer, a callback or a handler under way, whatever is skipped, comes   *)
(* late, is set aside or is dropped in between.                            *)
THEOREM NoneStuck ==
    ASSUME NeverShorter PROVE Spec => []NoStuckConnection
  <1>1. Init => Progress
    <2> SUFFICES ASSUME Init PROVE Progress
      OBVIOUS
    <2>1. Connections /\ TypeOK
      BY ConnectionsInit DEF Connections
    <2>2. ASSUME NEW p \in Peer PROVE Moving(p) /\ Heights(p)
      <3>1. /\ state[p] = "closed" /\ last[p] = 0 /\ incoming[p] = <<>> /\ ptop[p] \in Block
        BY <2>1 DEF Init, TypeOK
      <3>2. DOMAIN incoming[p] = {}
        BY <3>1
      <3>3. Len(Path[ptop[p]]) \in Nat /\ Len(Path[ptop[p]]) >= 1
        BY <3>1, PathFacts
      <3> QED
        BY <3>1, <3>2, <3>3 DEF Moving, Heights, Open
    <2> QED
      BY <2>1, <2>2 DEF Progress, Init
  <1>2. Progress /\ [Next]_vars => Progress'
    BY ProgressStep
  <1>3. Progress => NoStuckConnection
    BY DEF Progress, Moving, NoStuckConnection, Answered
  <1> QED
    BY <1>1, <1>2, <1>3, PTL DEF Spec

-----------------------------------------------------------------------------
(***************************************************************************)
(* A good block is relayed once.  handle_notify_new_block relays a block   *)
(* before the storage has seen it, NewBlockHandled after; m_blocks_id_que  *)
(* keeps the handlers of different connections apart, and the argument     *)
(* needs that a block relayed early finds its parent stored, so that it is *)
(* stored by the same handler.                                             *)
(***************************************************************************)
NewBlock(p) == work[p].kind = "new_block"
Relays == Connections /\ HandlersApart /\ RelayedKnown

(* Steps in which no handler of a new block begins or ends.                *)
QuietStep ==
    /\ stored \subseteq stored' /\ que' = que /\ relayed' = relayed
    /\ \A b \in invalid' : Fault[b] # "none"
    /\ \A p \in Peer : NewBlock(p) \/ NewBlock(p)' => work'[p] = work[p]

(* Steps in which no handler of a new block begins or ends keep the        *)
(* handlers apart.                                                         *)
LEMMA QuietRelays ==
    ASSUME HandlersApart, RelayedKnown, QuietStep
    PROVE  HandlersApart' /\ RelayedKnown'
  <1>1. \A p \in Peer : NewBlock(p)' => NewBlock(p) /\ work'[p] = work[p]
    BY DEF QuietStep, NewBlock
  <1>2. HandlersApart'
    <2>1. \A p \in Peer : work'[p].kind = "new_block" =>
             work'[p].rest[1] \in que' /\ work'[p].count \in {0, 1}
      BY <1>1 DEF QuietStep, HandlersApart, NewBlock
    <2>2. \A p, q \in Peer : work'[p].kind = "new_block" /\ work'[q].kind = "new_block"
                               /\ work'[p].rest[1] = work'[q].rest[1] => p = q
      BY <1>1 DEF HandlersApart, NewBlock
    <2>3. \A p \in Peer : work'[p].kind = "new_block" /\ work'[p].count = 1 =>
             Prev(work'[p].rest[1]) \in stored'
      BY <1>1 DEF QuietStep, HandlersApart, NewBlock
    <2> QED
      BY <2>1, <2>2, <2>3 DEF HandlersApart, QuietStep, Prev
  <1>3. RelayedKnown'
    <2> SUFFICES ASSUME NEW b \in Block, Fault[b] = "none", relayed'[b] > 0
                 PROVE  /\ relayed'[b] = 1
                        /\ \/ b \in stored'
                           \/ \E p \in Peer : work'[p].kind = "new_block" /\ work'[p].rest[1] = b
                                              /\ work'[p].count = 1
      BY DEF RelayedKnown
    <2>1. relayed[b] > 0 /\ relayed'[b] = relayed[b]
      BY DEF QuietStep
    <2>2. /\ relayed[b] = 1
          /\ \/ b \in stored
             \/ \E p \in Peer : work[p].kind = "new_block" /\ work[p].rest[1] = b /\ work[p].count = 1
      BY <2>1 DEF RelayedKnown
    <2>3. CASE b \in stored
      BY <2>1, <2>2, <2>3 DEF QuietStep
    <2>4. CASE b \notin stored
      <3>1. PICK p \in Peer : work[p].kind = "new_block" /\ work[p].rest[1] = b /\ work[p].count = 1
        BY <2>2, <2>4
      <3>2. work'[p] = work[p]
        BY <3>1 DEF QuietStep, NewBlock
      <3> QED
        BY <2>1, <2>2, <3>1, <3>2
    <2> QED
      BY <2>3, <2>4
  <1> QED
    BY <1>2, <1>3

(* A handler of a new block begins.                                        *)
LEMMA BeginRelays ==
    ASSUME Relays, NEW p \in Peer, NEW b \in Block, NEW pre \in {0, 1},
           work[p] = Idle, b \notin que, b \notin stored \cup invalid,
           pre = 1 => Prev(b) \in stored,
           que' = que \cup {b}, relayed' = [relayed EXCEPT ![b] = @ + pre],
           work' = [work EXCEPT ![p] = [kind |-> "new_block", rest |-> <<b>>, count |-> pre]],
           UNCHANGED <<stored, invalid>>
    PROVE  HandlersApart' /\ RelayedKnown'
  <1>1. TypeOK /\ HandlersApart /\ RelayedKnown
    BY DEF Relays, Connections
  <1>2. /\ work'[p].kind = "new_block" /\ work'[p].rest[1] = b /\ work'[p].count = pre
        /\ work[p].kind = "none"
        /\ \A q \in Peer \ {p} : work'[q] = work[q]
    BY <1>1 DEF TypeOK, Idle
  <1>3. \A q \in Peer : work[q].kind = "new_block" => work[q].rest[1] # b
    BY <1>1 DEF HandlersApart
  <1>4. HandlersApart'
    <2>1. \A q \in Peer : work'[q].kind = "new_block" =>
             work'[q].rest[1] \in que' /\ work'[q].count \in {0, 1}
      BY <1>1, <1>2 DEF HandlersApart
    <2>2. \A q, r \in Peer : work'[q].kind = "new_block" /\ work'[r].kind = "new_block"
                               /\ work'[q].rest[1] = work'[r].rest[1] => q = r
      BY <1>1, <1>2, <1>3 DEF HandlersApart
    <2>3. \A q \in Peer : work'[q].kind = "new_block" /\ work'[q].count = 1 =>
             Prev(work'[q].rest[1]) \in stored'
      <3> SUFFICES ASSUME NEW q \in Peer, work'[q].kind = "new_block", work'[q].count = 1
                   PROVE  Prev(work'[q].rest[1]) \in stored'
        OBVIOUS
      <3>1. CASE q = p
        BY <1>2, <3>1 DEF Prev
      <3>2. CASE q # p
        BY <1>1, <1>2, <3>2 DEF HandlersApart
      <3> QED
        BY <3>1, <3>2
    <2>4. \A c \in invalid' : Fault[c] # "none"
      BY <1>1 DEF HandlersApart
    <2> QED
      BY <2>1, <2>2, <2>3, <2>4 DEF HandlersApart, Prev
  <1>5. RelayedKnown'
    <2> SUFFICES ASSUME NEW c \in Block, Fault[c] = "none", relayed'[c] > 0
                 PROVE  /\ relayed'[c] = 1
                        /\ \/ c \in stored'
                           \/ \E q \in Peer : work'[q].kind = "new_block" /\ work'[q].rest[1] = c
                                              /\ work'[q].count = 1
      BY DEF RelayedKnown
    <2>1. CASE c = b
      <3>1. relayed[b] \in Nat /\ ~(relayed[b] > 0)
        BY <1>1, <1>3, <2>1 DEF RelayedKnown, TypeOK
      <3>2. relayed'[b] = pre
        BY <1>1, <3>1 DEF TypeOK
      <3>3. pre = 1
        BY <3>2, <2>1
      <3> QED
        BY <3>2, <3>3, <2>1, <1>2
    <2>2. CASE c # b
      <3>1. relayed'[c] = relayed[c]
        BY <1>1, <2>2 DEF TypeOK
      <3>2. /\ relayed[c] = 1
            /\ \/ c \in stored
               \/ \E q \in Peer : work[q].kind = "new_block" /\ work[q].rest[1] = c /\ work[q].count = 1
        BY <1>1, <3>1 DEF RelayedKnown
      <3>3. CASE c \in stored
        BY <3>1, <3>2, <3>3
      <3>4. CASE c \notin stored
        <4>1. PICK q \in Peer : work[q].kind = "new_block" /\ work[q].rest[1] = c /\ work[q].count = 1
          BY <3>2, <3>4
        <4>2. q # p
          BY <4>1, <1>2
        <4> QED
          BY <1>2, <3>1, <3>2, <4>1, <4>2
      <3> QED
        BY <3>3, <3>4
    <2> QED
      BY <2>1, <2>2
  <1> QED
    BY <1>4, <1>5

(* ... and ends.                                                           *)
LEMMA EndRelays ==
    ASSUME Relays, NEW p \in Peer, NewBlockHandled(p)
    PROVE  HandlersApart' /\ RelayedKnown'
  <1> DEFINE b == work[p].rest[1]
             v == Verdict(b)
  <1>1. TypeOK /\ HandlersApart /\ RelayedKnown /\ WellFormed(p)
    BY DEF Relays, Connections, Local
  <1>2. /\ NewBlock(p) /\ handle_incoming_block(b) /\ que' = que \ {b}
        /\ relayed' = IF (v = "main" \/ (v = "alt" /\ NearTop(b))) /\ work[p].count = 0
                      THEN [relayed EXCEPT ![b] = @ + 1] ELSE relayed
        /\ work' = [work EXCEPT ![p] = Idle]
    BY DEF NewBlockHandled, NewBlock
  <1>3. /\ work'[p].kind = "none" /\ \A q \in Peer \ {p} : work'[q] = work[q]
    BY <1>1, <1>2 DEF TypeOK, Idle
  <1>4. b \in Block
    <2>1. work[p].rest \in Seq(Block) /\ Len(work[p].rest) = 1
      BY <1>1, <1>2 DEF TypeOK, WellFormed, NewBlock
    <2> QED
      BY <2>1
  <1>5. /\ stored \subseteq stored'
        /\ invalid' # invalid => Fault[b] # "none" /\ invalid' = invalid \cup {b}
        /\ v \in {"main", "alt"} => b \in stored'
    BY <1>1, <1>2, <1>4, StorageFacts
  <1>6. \A q \in Peer : q # p /\ work[q].kind = "new_block" => work[q].rest[1] # b
    BY <1>1, <1>2 DEF HandlersApart, NewBlock
  <1>7. HandlersApart'
    <2>1. \A q \in Peer : work'[q].kind = "new_block" =>
             work'[q].rest[1] \in que' /\ work'[q].count \in {0, 1}
      BY <1>1, <1>2, <1>3, <1>6 DEF HandlersApart
    <2>2. \A q, r \in Peer : work'[q].kind = "new_block" /\ work'[r].kind = "new_block"
                               /\ work'[q].rest[1] = work'[r].rest[1] => q = r
      BY <1>1, <1>3 DEF HandlersApart
    <2>3. \A q \in Peer : work'[q].kind = "new_block" /\ work'[q].count = 1 =>
             Prev(work'[q].rest[1]) \in stored'
      BY <1>1, <1>3, <1>5 DEF HandlersApart
    <2>4. \A c \in invalid' : Fault[c] # "none"
      BY <1>1, <1>5 DEF HandlersApart
    <2> QED
      BY <2>1, <2>2, <2>3, <2>4 DEF HandlersApart, Prev
  <1>8. ASSUME NEW c \in Block, c # b, Fault[c] = "none", relayed'[c] > 0
        PROVE  /\ relayed'[c] = 1
               /\ \/ c \in stored'
                  \/ \E q \in Peer : work'[q].kind = "new_block" /\ work'[q].rest[1] = c
                                     /\ work'[q].count = 1
    <2>1. relayed'[c] = relayed[c]
      BY <1>1, <1>2, <1>8 DEF TypeOK
    <2>2. /\ relayed[c] = 1
          /\ \/ c \in stored
             \/ \E q \in Peer : work[q].kind = "new_block" /\ work[q].rest[1] = c /\ work[q].count = 1
      BY <1>1, <1>8, <2>1 DEF RelayedKnown
    <2>3. CASE c \in stored
      BY <1>5, <2>1, <2>2, <2>3
    <2>4. CASE c \notin stored
      <3>1. PICK q \in Peer : work[q].kind = "new_block" /\ work[q].rest[1] = c /\ work[q].count = 1
        BY <2>2, <2>4
      <3>2. q # p
        BY <3>1, <1>8
      <3> QED
        BY <1>3, <2>1, <2>2, <3>1, <3>2
    <2> QED
      BY <2>3, <2>4
  <1>9. ASSUME Fault[b] = "none", relayed'[b] > 0
        PROVE  relayed'[b] = 1 /\ b \in stored'
    <2>1. \A c \in invalid : Fault[c] # "none"
      BY <1>1 DEF HandlersApart
    <2>2. v \in {"exists", "orphan", "main", "alt"} /\ (v = "exists" => b \in stored)
      <3> HIDE DEF b
      <3> QED
        BY <2>1, <1>9, Zenon DEF Verdict, have_block
    <2>3. v \in {"orphan", "main", "alt"} => b \notin stored
      <3> HIDE DEF b
      <3> QED
        BY <1>9 DEF Verdict, have_block
    <2>4. v = "orphan" => Prev(b) \notin stored
      <3> HIDE DEF b
      <3> QED
        BY <1>9 DEF Verdict, Prev
    <2> HIDE DEF v
    <2>5. relayed[b] \in Nat
      BY <1>1, <1>4 DEF TypeOK
    <2>6. relayed[b] > 0 /\ b \notin stored => work[p].count = 1 /\ relayed[b] = 1
      <3> SUFFICES ASSUME relayed[b] > 0, b \notin stored PROVE work[p].count = 1 /\ relayed[b] = 1
        OBVIOUS
      <3>1. /\ relayed[b] = 1
            /\ \E q \in Peer : work[q].kind = "new_block" /\ work[q].rest[1] = b /\ work[q].count = 1
        BY <1>1, <1>4, <1>9 DEF RelayedKnown
      <3> QED
        BY <3>1, <1>6
    <2>7. work[p].count = 1 => Prev(b) \in stored
      BY <1>1, <1>2 DEF HandlersApart, NewBlock
    <2>8. CASE v = "exists"
      <3>1. relayed'[b] = relayed[b]
        BY <1>2, <2>8
      <3> QED
        BY <1>1, <1>4, <1>5, <1>9, <2>2, <2>8, <3>1 DEF RelayedKnown
    <2>9. CASE v = "orphan"
      <3>1. relayed'[b] = relayed[b]
        BY <1>2, <2>9
      <3> QED
        BY <3>1, <1>9, <2>3, <2>4, <2>6, <2>7, <2>9
    <2>10. CASE v \in {"main", "alt"}
      <3>1. CASE relayed' = relayed
        BY <3>1, <1>5, <1>9, <2>3, <2>6, <2>10
      <3>2. CASE work[p].count = 0 /\ relayed' = [relayed EXCEPT ![b] = @ + 1]
        <4>1. ~(relayed[b] > 0)
          BY <3>2, <2>3, <2>6, <2>10
        <4>2. relayed[b] = 0
          BY <4>1, <2>5
        <4>3. relayed'[b] = 1
          BY <1>1, <1>4, <3>2, <4>2 DEF TypeOK
        <4> QED
          BY <4>3, <1>5, <2>10
      <3> QED
        BY <3>1, <3>2, <1>2
    <2> QED
      BY <2>2, <2>8, <2>9, <2>10
  <1>10. RelayedKnown'
    BY <1>4, <1>8, <1>9 DEF RelayedKnown
  <1> QED
    BY <1>7, <1>10

Untouched == UNCHANGED <<stored, invalid, work, que, relayed>>

(* So do steps that leave the storage, the handlers and the list of blocks *)
(* in hand alone.                                                          *)
LEMMA UntouchedRelays ==
    ASSUME HandlersApart, RelayedKnown, Untouched
    PROVE  HandlersApart' /\ RelayedKnown'
  <1>1. QuietStep
    BY DEF QuietStep, Untouched, HandlersApart
  <1> QED
    BY <1>1, QuietRelays

(* A handler under way that is none of a new block.                        *)
LEMMA OtherRelays ==
    ASSUME HandlersApart, RelayedKnown, NEW p \in Peer, OthersSame(p), que' = que,
           relayed' = relayed, stored \subseteq stored', \A b \in invalid' : Fault[b] # "none",
           ~NewBlock(p), ~NewBlock(p)'
    PROVE  HandlersApart' /\ RelayedKnown'
  <1>1. \A q \in Peer : NewBlock(q) \/ NewBlock(q)' => work'[q] = work[q]
    BY DEF OthersSame, SameConnection
  <1>2. QuietStep
    BY <1>1 DEF QuietStep
  <1> QED
    BY <1>2, QuietRelays

(* Every step begins or ends a handler of a new block, or does neither.    *)
LEMMA RelaysStep ==
    ASSUME Relays, [Next]_vars PROVE Relays'
  <1> USE DEF storage, context, address, peervars
  <1>1. TypeOK /\ Connections /\ HandlersApart /\ RelayedKnown /\ Connections'
    BY ConnectionsStep DEF Relays, Connections
  <1>a. \A b \in invalid : Fault[b] # "none"
    BY <1>1 DEF HandlersApart
  <1> SUFFICES HandlersApart' /\ RelayedKnown'
    BY <1>1 DEF Relays
  <1>2. CASE \E p \in Peer : Step(p)
    <2>1. PICK p \in Peer : Step(p)
      BY <1>2
    <2>2. WellFormed(p) /\ OthersSame(p)
      BY <1>1, <2>1, FrameStep DEF Step, Connections, Local
    <2>3. CASE Untouched
      BY <1>1, <2>3, UntouchedRelays
    <2>4. CASE Connect(p) \/ Break(p)
      <3>1. Untouched
        BY <2>4 DEF Connect, Break, Untouched
      <3> QED
        BY <2>3, <3>1
    <2>5. CASE Serves(p) \/ handle_timed_sync(p) \/ PeerMoves(p)
      <3>1. CASE handle_handshake(p) \/ handle_request_chain(p)
        BY <2>3, <3>1 DEF handle_handshake, handle_request_chain, Answer, Untouched
      <3>2. CASE handle_request_get_objects(p)
        <4>1. UNCHANGED <<storage, ptop, work, que, relayed, address>> \/ \E m : Answer(p, m)
          BY <3>2, Zenon DEF handle_request_get_objects
        <4>2. Untouched
          BY <4>1 DEF Answer, Untouched
        <4> QED
          BY <2>3, <4>2
      <3>3. CASE handle_timed_sync(p) \/ PeerMoves(p)
        <4>1. Untouched
          BY <3>3 DEF handle_timed_sync, PeerMoves, Untouched
        <4> QED
          BY <2>3, <4>1
      <3> QED
        BY <2>5, <3>1, <3>2, <3>3 DEF Serves
    <2>6. CASE \/ address_blocked(p) \/ process_payload_sync_data(p) \/ on_callback(p)
               \/ handle_response_chain_entry(p)
      <3>1. CASE address_blocked(p) \/ on_callback(p)
        <4>1. Untouched
          BY <3>1 DEF address_blocked, on_callback, Untouched
        <4> QED
          BY <2>3, <4>1
      <3>2. CASE process_payload_sync_data(p)
        <4>1. Untouched
          BY <3>2 DEF process_payload_sync_data, Untouched
        <4> QED
          BY <2>3, <4>1
      <3>3. CASE handle_response_chain_entry(p)
        <4>1. Untouched
          BY <3>3 DEF handle_response_chain_entry, Untouched
        <4> QED
          BY <2>3, <4>1
      <3> QED
        BY <2>6, <3>1, <3>2, <3>3
    <2>7. CASE handle_response_get_objects(p)
      <3>1. /\ work[p] = Idle /\ UNCHANGED <<storage, que, relayed>>
            /\ \/ UNCHANGED work
               \/ \E bs : work' = [work EXCEPT ![p] = [kind |-> "objects", rest |-> bs, count |-> 0]]
        BY <2>7, Zenon DEF handle_response_get_objects, Gets
      <3>2. ~NewBlock(p) /\ ~NewBlock(p)'
        BY <1>1, <3>1 DEF NewBlock, Idle, TypeOK
      <3>3. stored \subseteq stored' /\ que' = que /\ relayed' = relayed /\ invalid' = invalid
        BY <3>1
      <3>4. \A b \in invalid' : Fault[b] # "none"
        BY <1>a, <3>3
      <3> QED
        BY <1>1, <2>2, <3>2, <3>3, <3>4, OtherRelays
    <2>8. CASE ObjectHandled(p)
      <3> DEFINE b == Head(work[p].rest)
      <3>1. /\ work[p].kind = "objects" /\ work[p].rest # <<>> /\ handle_incoming_block(b)
            /\ UNCHANGED <<que, relayed>>
            /\ \/ work' = [work EXCEPT ![p] = Idle]
               \/ work' = [work EXCEPT ![p].rest = Tail(@), ![p].count = @ + 1]
        BY <2>8, Zenon DEF ObjectHandled
      <3>2. b \in Block
        <4>1. work[p].rest \in Seq(Block)
          BY <1>1 DEF TypeOK
        <4> QED
          BY <3>1, <4>1
      <3>3. /\ stored \subseteq stored'
            /\ invalid' # invalid => Fault[b] # "none" /\ invalid' = invalid \cup {b}
        BY <1>1, <3>1, <3>2, StorageFacts
      <3>4. \A c \in invalid' : Fault[c] # "none"
        BY <1>a, <3>3
      <3>5. ~NewBlock(p) /\ ~NewBlock(p)'
        <4>1. CASE work' = [work EXCEPT ![p] = Idle]
          BY <1>1, <3>1, <4>1 DEF NewBlock, Idle, TypeOK
        <4>2. CASE work' = [work EXCEPT ![p].rest = Tail(@), ![p].count = @ + 1]
          <5>1. work'[p].kind = "objects"
            BY <1>1, <3>1, <4>2 DEF TypeOK
          <5> QED
            BY <5>1, <3>1 DEF NewBlock
        <4> QED
          BY <3>1, <4>1, <4>2
      <3> QED
        BY <1>1, <2>2, <3>1, <3>3, <3>4, <3>5, OtherRelays
    <2>9. CASE ObjectsDone(p)
      <3>1. /\ work[p].kind = "objects" /\ UNCHANGED <<storage, que, relayed>>
            /\ work' = [work EXCEPT ![p] = Idle]
        BY <2>9 DEF ObjectsDone
      <3>2. ~NewBlock(p) /\ ~NewBlock(p)'
        BY <1>1, <3>1 DEF NewBlock, Idle, TypeOK
      <3>3. stored \subseteq stored' /\ que' = que /\ relayed' = relayed /\ invalid' = invalid
        BY <3>1
      <3>4. \A b \in invalid' : Fault[b] # "none"
        BY <1>a, <3>3
      <3> QED
        BY <1>1, <2>2, <3>2, <3>3, <3>4, OtherRelays
    <2>10. CASE NewBlockHandled(p)
      BY <2>10, EndRelays
    <2>11. CASE handle_notify_new_block(p)
      <3> DEFINE b == Head(incoming[p]).block
                 pre == IF Prev(b) = top THEN 1 ELSE 0
      <3>1. \/ UNCHANGED <<work, que, relayed>>
            \/ /\ ~NewBlockIgnored(p, b) /\ que' = que \cup {b}
               /\ relayed' = [relayed EXCEPT ![b] = @ + pre]
               /\ work' = [work EXCEPT ![p] = [kind |-> "new_block", rest |-> <<b>>, count |-> pre]]
        BY <2>11, Zenon DEF handle_notify_new_block
      <3>2. work[p] = Idle /\ incoming[p] # <<>> /\ Head(incoming[p]).type = "new_block"
            /\ UNCHANGED <<stored, invalid>>
        BY <2>11 DEF handle_notify_new_block, Gets
      <3>3. b \in Block
        <4>1. Head(incoming[p]) \in Answers
          BY <1>1, <3>2, QueueFacts DEF TypeOK
        <4> QED
          BY <3>2, <4>1, MessageFacts
      <3>4. pre \in {0, 1} /\ (pre = 1 => Prev(b) \in stored)
        BY <1>1 DEF TypeOK
      <3>5. ~NewBlockIgnored(p, b) => b \notin que /\ b \notin stored \cup invalid
        BY DEF NewBlockIgnored, have_block
      <3>6. CASE UNCHANGED <<work, que, relayed>>
        <4>1. Untouched
          BY <3>2, <3>6 DEF Untouched
        <4> QED
          BY <2>3, <4>1
      <3>7. CASE /\ ~NewBlockIgnored(p, b) /\ que' = que \cup {b}
                 /\ relayed' = [relayed EXCEPT ![b] = @ + pre]
                 /\ work' = [work EXCEPT ![p] = [kind |-> "new_block", rest |-> <<b>>, count |-> pre]]
        <4> HIDE DEF b, pre
        <4> QED
          BY <3>2, <3>3, <3>4, <3>5, <3>7, BeginRelays
      <3> QED
        BY <3>1, <3>6, <3>7
    <2> QED
      BY <2>1, <2>3, <2>4, <2>5, <2>6, <2>7, <2>8, <2>9, <2>10, <2>11, Zenon
         DEF Step, Receives, Continues
  <1>3. CASE UNCHANGED vars
    <2>1. Untouched
      BY <1>3 DEF vars, Untouched
    <2> QED
      BY <1>1, <2>1, UntouchedRelays
  <1> QED
    BY <1>2, <1>3 DEF Next, Step

(* However many peers announce a good block, and in whatever order the     *)
(* announcements, the objects and the blocks before it come, the node      *)
(* relays it at most once.                                                 *)
THEOREM RelayedAtMostOnce == Spec => []RelayedOnce
  <1>1. Init => Relays
    <2> SUFFICES ASSUME Init PROVE Relays
      OBVIOUS
    <2>1. \A p \in Peer : work[p].kind = "none"
      BY DEF Init, Idle
    <2>2. HandlersApart
      BY <2>1 DEF Init, HandlersApart
    <2>3. RelayedKnown
      BY DEF Init, RelayedKnown
    <2> QED
      BY <2>2, <2>3, ConnectionsInit DEF Relays
  <1>2. Relays /\ [Next]_vars => Relays'
    BY RelaysStep
  <1>3. Relays => RelayedOnce
    <2> SUFFICES ASSUME Relays, NEW b \in Block, Fault[b] = "none" PROVE relayed[b] <= 1
      BY DEF RelayedOnce
    <2>1. relayed[b] \in Nat
      BY DEF Relays, Connections, TypeOK
    <2>2. relayed[b] > 0 => relayed[b] = 1
      BY DEF Relays, RelayedKnown
    <2> QED
      BY <2>1, <2>2
  <1> QED
    BY <1>1, <1>2, <1>3, PTL DEF Spec
=============================================================================
