--------------------------- MODULE Wallet_proofs ---------------------------
(***************************************************************************)
(* Proofs of the properties of Wallet.                                     *)
(***************************************************************************)
EXTENDS Wallet, InductionLemmas, TLAPS

(***************************************************************************)
(* The inductive invariant.  Its parts speak of what the wallet keeps (x), *)
(* of the blocks that were read in part (tn) and of the transactions of    *)
(* the block under way that were read (part), so that they can be said of  *)
(* the wallet and of its file alike.                                       *)
(***************************************************************************)
Counts(t) == Outs[t] # <<>> \/ Ins[t] # {}

(* The books have read t at the height h, all of it or perhaps in part.    *)
Done(x, part, t, h) ==
    \/ h \in DOMAIN x.blockchain /\ t \in Range(Txs[x.blockchain[h]])
    \/ h = Len(x.blockchain) + 1 /\ t \in part
Touched(x, tn, part, t, h) ==
    Done(x, part, t, h) \/ \E b \in tn : Len(Path[b]) = h /\ t \in Range(Txs[b])

(* The copy of the chain is one, and the blocks read in part follow it.    *)
OnTree(x) == \A i \in DOMAIN x.blockchain : Path[x.blockchain[i]] = SubSeq(x.blockchain, 1, i)
Follows(x, b) ==
    /\ Len(Path[b]) <= Len(x.blockchain) + 1
    /\ \A i \in 1 .. Len(Path[b]) - 1 : x.blockchain[i] = Path[b][i]
TornFollow(x, tn) == \A b \in tn : Follows(x, b)

(* KeyImagesIndexed, from both sides.                                      *)
Indexed(x) ==
    /\ \A o \in DOMAIN x.key_images :
          x.key_images[o] \in DOMAIN x.transfers /\ x.transfers[x.key_images[o]].out = o
    /\ \A i \in DOMAIN x.transfers :
          x.transfers[i].out \in DOMAIN x.key_images /\ x.key_images[x.transfers[i].out] = i

(* Transfers are in the order of their blocks, as detach_blockchain needs. *)
Ordered(x) ==
    /\ \A i \in DOMAIN x.transfers : x.transfers[i].height \in 1 .. Len(x.blockchain) + 1
    /\ \A i, j \in DOMAIN x.transfers : i <= j => x.transfers[i].height <= x.transfers[j].height

(* What is in the books comes from a block that was read ...               *)
TransfersTrue(x) ==
    \A i \in DOMAIN x.transfers : \E t \in Tx :
        x.transfers[i].out \in Range(Outs[t]) /\ <<t, x.transfers[i].height>> \in DOMAIN x.history
HistoryTrue(x, tn, part) ==
    \A t \in Tx, h \in Nat : <<t, h>> \in DOMAIN x.history => Counts(t) /\ Touched(x, tn, part, t, h)
SpendsTrue(x, tn, part) ==
    \A i \in DOMAIN x.transfers : x.transfers[i].spent_height # 0 =>
        /\ x.transfers[i].spent
        /\ \E t \in Tx : /\ x.transfers[i].out \in Ins[t]
                         /\ Touched(x, tn, part, t, x.transfers[i].spent_height)

(* ... and what was read is in the books, not above its block.  A block    *)
(* read in part may have entered an output below it, and then the history  *)
(* has the transaction there.                                              *)
OutputsFound(x, part) ==
    \A t \in Tx, h \in Nat : Done(x, part, t, h) => \A o \in Range(Outs[t]) :
        o \in DOMAIN x.key_images /\ x.transfers[x.key_images[o]].height <= h
SpendsFound(x, part) ==
    \A t \in Tx, h \in Nat : Done(x, part, t, h) => \A o \in Ins[t] :
        o \in DOMAIN x.key_images => x.transfers[x.key_images[o]].spent_height = h
HistoryFound(x, tn, part) ==
    \A t \in Tx, h \in Nat : Done(x, part, t, h) /\ Counts(t) =>
        <<t, h>> \in DOMAIN x.history \/ \E b \in tn : Len(Path[b]) < h

(* What an entry of the history says.  The first counts all its transaction*)
(* brought, unless a block below that was read in part had some of it; an  *)
(* entry more counts nothing, and is there only because its block was read *)
(* again.  rr are the blocks that were; those read to their end since are  *)
(* on the copy.                                                            *)
EntryTold(x, tn, rr, e) ==
    LET q == x.history[e] IN
    /\ q # <<>>
    /\ q[1] = Range(Outs[e[1]]) \/ \E b \in tn : Len(Path[b]) < e[2]
    /\ \A o \in Range(Outs[e[1]]) :
          o \in DOMAIN x.key_images /\ x.transfers[x.key_images[o]].height <= e[2]
    /\ \A n \in 2 .. Len(q) : q[n] = {}
    /\ Len(q) > 1 => \E b \in rr : Len(Path[b]) = e[2] /\ e[1] \in Range(Txs[b])
Told(x, tn, rr) ==
    /\ tn \subseteq rr
    /\ \A b \in rr \ tn : Len(Path[b]) \in DOMAIN x.blockchain /\ x.blockchain[Len(Path[b])] = b
    /\ \A e \in DOMAIN x.history : EntryTold(x, tn, rr, e)

Books(x, tn, part) ==
    /\ OnTree(x) /\ TornFollow(x, tn) /\ Indexed(x) /\ Ordered(x)
    /\ TransfersTrue(x) /\ HistoryTrue(x, tn, part) /\ SpendsTrue(x, tn, part)
    /\ OutputsFound(x, part) /\ SpendsFound(x, part) /\ HistoryFound(x, tn, part)

(* s is what the wallet is doing.  The blocks that were pulled lead on     *)
(* from the wallet's copy; a block of them is read only if it is new.      *)
PartOf(s) ==
    IF s.at = "blocks" /\ s.blocks # <<>> THEN {Txs[Head(s.blocks)][i] : i \in 1 .. s.read} ELSE {}
On(bs, n, ch) ==
    \A i \in 1 .. Len(bs) :
        /\ Len(Path[bs[i]]) = n + i - 1
        /\ \A j \in 1 .. i - 1 : Path[bs[i]][n + j - 1] = bs[j]
        /\ \A j \in 1 .. n - 1 : j \in DOMAIN ch /\ ch[j] = Path[bs[i]][j]
PulledOn(x, s) ==
    s.at = "blocks" =>
        /\ s.index >= 1 /\ On(s.blocks, s.index, x.blockchain)
        /\ s.read > 0 => /\ s.blocks # <<>> /\ s.index = Len(x.blockchain) + 1
                         /\ s.read <= Len(Txs[Head(s.blocks)])

(* The transfers a transaction is made of are not spent on the chain.      *)
SelectedFree(x, s) ==
    s.at = "send" => \A i \in s.selected \cap DOMAIN x.transfers : x.transfers[i].spent_height = 0

Kept(x, tn, s) == Books(x, tn, PartOf(s)) /\ PulledOn(x, s) /\ SelectedFree(x, s)

-----------------------------------------------------------------------------
(***************************************************************************)
(* Types.                                                                  *)
(***************************************************************************)
Maps(S, R) == UNION {[D -> R] : D \in SUBSET S}
Histories == Maps(Tx \X Nat, Seq(SUBSET Out))
Waiting == [is_income : BOOLEAN, selected : SUBSET Nat]
Book == [blockchain : Seq(Block), transfers : Seq(Transfer), key_images : Maps(Out, Nat),
         unconfirmed : Maps(Tx, Waiting), unconfirmed_in : SUBSET Tx,
         history : Histories]

(* A map.                                                                  *)
LEMMA MapFacts ==
    ASSUME NEW S, NEW R, NEW f \in Maps(S, R)
    PROVE  DOMAIN f \subseteq S /\ (\A k \in DOMAIN f : f[k] \in R) /\ f \in [DOMAIN f -> R]
  BY DEF Maps

(* A map with an entry more.                                               *)
LEMMA WithFacts ==
    ASSUME NEW S, NEW R, NEW f \in Maps(S, R), NEW k \in S, NEW v \in R
    PROVE  /\ With(f, k, v) \in Maps(S, R) /\ DOMAIN With(f, k, v) = DOMAIN f \cup {k}
           /\ With(f, k, v)[k] = v
           /\ \A j \in DOMAIN f : j # k => With(f, k, v)[j] = f[j]
  <1>1. DOMAIN f \subseteq S /\ \A j \in DOMAIN f : f[j] \in R
    BY MapFacts
  <1>2. With(f, k, v) \in [DOMAIN f \cup {k} -> R] /\ DOMAIN f \cup {k} \in SUBSET S
    BY <1>1 DEF With
  <1>3. With(f, k, v) \in Maps(S, R)
    BY <1>2 DEF Maps
  <1> QED
    BY <1>1, <1>3 DEF With

(* The same for m_key_images.                                              *)
LEMMA IndexFacts ==
    ASSUME NEW f \in Maps(Out, Nat), NEW k \in Out, NEW v \in Nat
    PROVE  /\ With(f, k, v) \in Maps(Out, Nat) /\ DOMAIN With(f, k, v) = DOMAIN f \cup {k}
           /\ With(f, k, v)[k] = v
           /\ \A j \in DOMAIN f : j # k => With(f, k, v)[j] = f[j]
  <1>1. DOMAIN f \subseteq Out /\ \A j \in DOMAIN f : f[j] \in Nat
    BY MapFacts
  <1>2. With(f, k, v) \in [DOMAIN f \cup {k} -> Nat] /\ DOMAIN f \cup {k} \in SUBSET Out
    BY <1>1 DEF With
  <1>3. With(f, k, v) \in Maps(Out, Nat)
    BY <1>2 DEF Maps
  <1> QED
    BY <1>1, <1>3 DEF With

(* A map with entries less.                                                *)
LEMMA WithoutFacts ==
    ASSUME NEW S, NEW R, NEW f \in Maps(S, R), NEW T
    PROVE  /\ Without(f, T) \in Maps(S, R) /\ DOMAIN Without(f, T) = DOMAIN f \ T
           /\ \A j \in DOMAIN f \ T : Without(f, T)[j] = f[j]
  <1>1. DOMAIN f \subseteq S /\ \A j \in DOMAIN f : f[j] \in R
    BY MapFacts
  <1>2. Without(f, T) \in [DOMAIN f \ T -> R] /\ DOMAIN f \ T \in SUBSET S
    BY <1>1 DEF Without
  <1>3. Without(f, T) \in Maps(S, R)
    BY <1>2 DEF Maps
  <1> QED
    BY <1>1, <1>3 DEF Without

(* The same for m_key_images.                                              *)
LEMMA IndexWithout ==
    ASSUME NEW f \in Maps(Out, Nat), NEW T
    PROVE  /\ Without(f, T) \in Maps(Out, Nat) /\ DOMAIN Without(f, T) = DOMAIN f \ T
           /\ \A j \in DOMAIN f \ T : Without(f, T)[j] = f[j]
  <1>1. DOMAIN f \subseteq Out /\ \A j \in DOMAIN f : f[j] \in Nat
    BY MapFacts
  <1>2. Without(f, T) \in [DOMAIN f \ T -> Nat] /\ DOMAIN f \ T \in SUBSET Out
    BY <1>1 DEF Without
  <1>3. Without(f, T) \in Maps(Out, Nat)
    BY <1>2 DEF Maps
  <1> QED
    BY <1>1, <1>3 DEF Without

(* The same for m_transfer_history.                                        *)
LEMMA HistoryWith ==
    ASSUME NEW f \in Histories, NEW k \in Tx \X Nat, NEW v \in Seq(SUBSET Out)
    PROVE  /\ With(f, k, v) \in Histories /\ DOMAIN With(f, k, v) = DOMAIN f \cup {k}
           /\ With(f, k, v)[k] = v
           /\ \A j \in DOMAIN f : j # k => With(f, k, v)[j] = f[j]
  <1>1. DOMAIN f \subseteq Tx \X Nat /\ \A j \in DOMAIN f : f[j] \in Seq(SUBSET Out)
    BY MapFacts, Zenon DEF Histories
  <1>2. /\ With(f, k, v) \in [DOMAIN f \cup {k} -> Seq(SUBSET Out)]
        /\ DOMAIN f \cup {k} \in SUBSET (Tx \X Nat)
    BY <1>1 DEF With
  <1>3. With(f, k, v) \in Histories
    BY <1>2 DEF Maps, Histories
  <1> QED
    BY <1>1, <1>3 DEF With

(* And with entries less.                                                  *)
LEMMA HistoryWithout ==
    ASSUME NEW f \in Histories, NEW T
    PROVE  /\ Without(f, T) \in Histories /\ DOMAIN Without(f, T) = DOMAIN f \ T
           /\ \A j \in DOMAIN f \ T : Without(f, T)[j] = f[j]
  <1>1. DOMAIN f \subseteq Tx \X Nat /\ \A j \in DOMAIN f : f[j] \in Seq(SUBSET Out)
    BY MapFacts, Zenon DEF Histories
  <1>2. /\ Without(f, T) \in [DOMAIN f \ T -> Seq(SUBSET Out)]
        /\ DOMAIN f \ T \in SUBSET (Tx \X Nat)
    BY <1>1 DEF Without
  <1>3. Without(f, T) \in Histories
    BY <1>2 DEF Maps, Histories
  <1> QED
    BY <1>1, <1>3 DEF Without

(* The fields of the books.                                                *)
LEMMA BookFacts ==
    ASSUME NEW x \in Book
    PROVE  /\ x.blockchain \in Seq(Block) /\ x.transfers \in Seq(Transfer)
           /\ x.key_images \in Maps(Out, Nat) /\ x.unconfirmed \in Maps(Tx, Waiting)
           /\ x.unconfirmed_in \in SUBSET Tx /\ x.history \in Histories
           /\ DOMAIN x.history \subseteq Tx \X Nat
           /\ \A e \in DOMAIN x.history : x.history[e] \in Seq(SUBSET Out)
           /\ Len(x.blockchain) \in Nat /\ DOMAIN x.blockchain = 1 .. Len(x.blockchain)
           /\ Len(x.transfers) \in Nat /\ DOMAIN x.transfers = 1 .. Len(x.transfers)
           /\ \A i \in DOMAIN x.transfers :
                 /\ x.transfers[i] \in Transfer /\ x.transfers[i].out \in Out
                 /\ x.transfers[i].height \in Nat /\ x.transfers[i].spent \in BOOLEAN
                 /\ x.transfers[i].spent_height \in Nat
           /\ DOMAIN x.key_images \subseteq Out
           /\ \A o \in DOMAIN x.key_images : x.key_images[o] \in Nat
  <1>1. /\ x.blockchain \in Seq(Block) /\ x.transfers \in Seq(Transfer)
        /\ x.key_images \in Maps(Out, Nat) /\ x.unconfirmed \in Maps(Tx, Waiting)
        /\ x.unconfirmed_in \in SUBSET Tx /\ x.history \in Histories
    BY DEF Book
  <1>2. /\ DOMAIN x.key_images \subseteq Out
        /\ \A o \in DOMAIN x.key_images : x.key_images[o] \in Nat
    BY <1>1, MapFacts
  <1>3. /\ Len(x.blockchain) \in Nat /\ DOMAIN x.blockchain = 1 .. Len(x.blockchain)
        /\ Len(x.transfers) \in Nat /\ DOMAIN x.transfers = 1 .. Len(x.transfers)
    BY <1>1
  <1>4. \A i \in DOMAIN x.transfers : x.transfers[i] \in Transfer
    BY <1>1
  <1>5. \A r \in Transfer : r.out \in Out /\ r.height \in Nat /\ r.spent \in BOOLEAN /\ r.spent_height \in Nat
    BY DEF Transfer
  <1>6. /\ DOMAIN x.history \subseteq Tx \X Nat
        /\ \A e \in DOMAIN x.history : x.history[e] \in Seq(SUBSET Out)
    BY <1>1, MapFacts, Zenon DEF Histories
  <1> QED
    BY <1>1, <1>2, <1>3, <1>4, <1>5, <1>6

(* The transactions and paths of blocks.                                   *)
LEMMA ConstantFacts ==
    /\ \A b \in Block : /\ Path[b] \in Seq(Block) /\ Len(Path[b]) \in Nat /\ Len(Path[b]) >= 1
                        /\ DOMAIN Path[b] = 1 .. Len(Path[b]) /\ Path[b][Len(Path[b])] = b
                        /\ \A i \in 1 .. Len(Path[b]) : Path[b][i] \in Block
                        /\ Txs[b] \in Seq(Tx) /\ Len(Txs[b]) \in Nat
                        /\ DOMAIN Txs[b] = 1 .. Len(Txs[b])
                        /\ \A i \in 1 .. Len(Txs[b]) : Txs[b][i] \in Tx
                        /\ Range(Txs[b]) \subseteq Tx
    /\ \A t \in Tx : /\ Outs[t] \in Seq(Out) /\ Ins[t] \subseteq Out /\ Range(Outs[t]) \subseteq Out
                     /\ Outs[t] # <<>> <=> Range(Outs[t]) # {}
  <1>1. ASSUME NEW b \in Block
        PROVE  /\ Path[b] \in Seq(Block) /\ Len(Path[b]) \in Nat /\ Len(Path[b]) >= 1
               /\ DOMAIN Path[b] = 1 .. Len(Path[b]) /\ Path[b][Len(Path[b])] = b
               /\ \A i \in 1 .. Len(Path[b]) : Path[b][i] \in Block
    BY PathAssumption
  <1>2. ASSUME NEW b \in Block
        PROVE  /\ Txs[b] \in Seq(Tx) /\ Len(Txs[b]) \in Nat /\ DOMAIN Txs[b] = 1 .. Len(Txs[b])
               /\ \A i \in 1 .. Len(Txs[b]) : Txs[b][i] \in Tx
    BY WalletAssumption
  <1>3. ASSUME NEW b \in Block PROVE Range(Txs[b]) \subseteq Tx
    BY <1>2 DEF Range
  <1>4. ASSUME NEW t \in Tx PROVE Outs[t] \in Seq(Out) /\ Ins[t] \subseteq Out
    BY WalletAssumption
  <1>5. ASSUME NEW t \in Tx
        PROVE  Range(Outs[t]) \subseteq Out /\ (Outs[t] # <<>> <=> Range(Outs[t]) # {})
    <2>1. DOMAIN Outs[t] = 1 .. Len(Outs[t]) /\ Len(Outs[t]) \in Nat
      BY <1>4
    <2>2. Outs[t] # <<>> <=> Len(Outs[t]) >= 1
      BY <1>4
    <2>3. \A i \in 1 .. Len(Outs[t]) : Outs[t][i] \in Out
      BY <1>4
    <2>4. Len(Outs[t]) >= 1 => Outs[t][1] \in Range(Outs[t])
      BY <2>1 DEF Range
    <2>5. Len(Outs[t]) = 0 => Range(Outs[t]) = {}
      BY <2>1 DEF Range
    <2>6. Range(Outs[t]) \subseteq Out
      BY <2>1, <2>3 DEF Range
    <2> QED
      BY <2>1, <2>2, <2>4, <2>5, <2>6
  <1> QED
    BY <1>1, <1>2, <1>3, <1>4, <1>5

-----------------------------------------------------------------------------
(***************************************************************************)
(* What the operators on the books do, field by field.                     *)
(***************************************************************************)
(* The fields other than the transfers are the same.                       *)
SameOthers(x, y) ==
    /\ y.blockchain = x.blockchain /\ y.key_images = x.key_images
    /\ y.unconfirmed_in = x.unconfirmed_in /\ y.history = x.history

(* y is x with the spends of t, a transaction at the height h, entered.    *)
SpendsRead(x, y, t, h) ==
    /\ y \in Book /\ SameOthers(x, y) /\ Len(y.transfers) = Len(x.transfers)
    /\ \A i \in DOMAIN x.transfers :
          /\ y.transfers[i].out = x.transfers[i].out
          /\ y.transfers[i].height = x.transfers[i].height
          /\ i \in Found(x, t) => y.transfers[i].spent /\ y.transfers[i].spent_height = h
          /\ i \notin Found(x, t) => y.transfers[i] = x.transfers[i]

(* The books with other transfers.                                         *)
LEMMA OtherTransfers ==
    ASSUME NEW x \in Book, NEW s \in Seq(Transfer)
    PROVE  LET y == [x EXCEPT !.transfers = s] IN
           y \in Book /\ SameOthers(x, y) /\ y.transfers = s /\ y.unconfirmed = x.unconfirmed
  BY DEF Book, SameOthers

(* The books with other waiting transactions.                              *)
LEMMA OtherWaiting ==
    ASSUME NEW x \in Book, NEW u \in Maps(Tx, Waiting)
    PROVE  LET y == [x EXCEPT !.unconfirmed = u] IN
           y \in Book /\ SameOthers(x, y) /\ y.transfers = x.transfers /\ y.unconfirmed = u
  BY DEF Book, SameOthers

(* A transfer with one field changed, or both that a block changes.        *)
LEMMA TransferFacts ==
    ASSUME NEW r \in Transfer
    PROVE  /\ \A s \in BOOLEAN : LET q == [r EXCEPT !.spent = s] IN
                q \in Transfer /\ q.out = r.out /\ q.height = r.height /\ q.spent = s
                   /\ q.spent_height = r.spent_height
           /\ \A s \in BOOLEAN, h \in Nat :
                LET q == [r EXCEPT !.spent = s, !.spent_height = h] IN
                q \in Transfer /\ q.out = r.out /\ q.height = r.height /\ q.spent = s
                   /\ q.spent_height = h
  BY DEF Transfer

(* ReadInPart enters the spends of the transaction and nothing else.       *)
LEMMA ReadInPartFacts ==
    ASSUME NEW x \in Book, NEW t \in Tx, NEW h \in Nat
    PROVE  SpendsRead(x, ReadInPart(x, t, h), t, h)
  <1> DEFINE u == process_unconfirmed(x, t)
  <1>1. /\ u \in Book /\ SameOthers(x, u) /\ u.transfers = x.transfers
    <2>1. Without(x.unconfirmed, {t}) \in Maps(Tx, Waiting)
      BY BookFacts, WithoutFacts
    <2> QED
      BY <2>1, OtherWaiting DEF process_unconfirmed
  <1>2. Found(u, t) = Found(x, t)
    BY <1>1 DEF Found, SameOthers
  <1> DEFINE s == [i \in DOMAIN u.transfers |->
                     IF i \in Found(u, t)
                     THEN [u.transfers[i] EXCEPT !.spent = TRUE, !.spent_height = h]
                     ELSE u.transfers[i]]
  <1>3. /\ Len(x.transfers) \in Nat /\ DOMAIN x.transfers = 1 .. Len(x.transfers)
        /\ \A i \in DOMAIN x.transfers : x.transfers[i] \in Transfer
    BY BookFacts
  <1>4. ASSUME NEW i \in DOMAIN x.transfers
        PROVE  /\ s[i] \in Transfer
               /\ s[i].out = x.transfers[i].out /\ s[i].height = x.transfers[i].height
               /\ i \in Found(x, t) => s[i].spent /\ s[i].spent_height = h
               /\ i \notin Found(x, t) => s[i] = x.transfers[i]
    <2>1. CASE i \in Found(x, t)
      <3>1. s[i] = [x.transfers[i] EXCEPT !.spent = TRUE, !.spent_height = h]
        BY <2>1, <1>1, <1>2
      <3>2. x.transfers[i] \in Transfer
        BY <1>3
      <3> HIDE DEF s
      <3> QED
        BY <2>1, <3>1, <3>2 DEF Transfer
    <2>2. CASE i \notin Found(x, t)
      <3>1. s[i] = x.transfers[i]
        BY <2>2, <1>1, <1>2
      <3> QED
        BY <2>2, <3>1, <1>3
    <2> QED
      BY <2>1, <2>2
  <1>5. s \in Seq(Transfer) /\ Len(s) = Len(x.transfers)
    <2>1. \A i \in DOMAIN u.transfers : s[i] \in Transfer
      BY <1>1, <1>4
    <2>2. s \in [DOMAIN u.transfers -> Transfer]
      BY <2>1
    <2>3. s \in [1 .. Len(x.transfers) -> Transfer]
      BY <2>2, <1>1, <1>3
    <2> HIDE DEF s
    <2> QED
      BY <2>3, <1>3
  <1>6. ReadInPart(x, t, h) = [u EXCEPT !.transfers = s]
    BY DEF ReadInPart, ReadInputs
  <1> HIDE DEF u, s
  <1>7. /\ ReadInPart(x, t, h) \in Book /\ SameOthers(u, ReadInPart(x, t, h))
        /\ ReadInPart(x, t, h).transfers = s
    BY <1>1, <1>5, <1>6, OtherTransfers
  <1>8. SameOthers(x, ReadInPart(x, t, h))
    BY <1>1, <1>7 DEF SameOthers
  <1> QED
    BY <1>4, <1>5, <1>7, <1>8 DEF SpendsRead

(* z is y with the outputs of outs entered that y does not have.           *)
Entered(y, z, S, h) ==
    /\ z \in Book /\ Indexed(z)
    /\ z.blockchain = y.blockchain /\ z.unconfirmed_in = y.unconfirmed_in
    /\ z.history = y.history
    /\ Len(z.transfers) >= Len(y.transfers)
    /\ \A i \in DOMAIN y.transfers : z.transfers[i] = y.transfers[i]
    /\ \A i \in DOMAIN z.transfers : i > Len(y.transfers) =>
          /\ z.transfers[i].out \in S \ DOMAIN y.key_images
          /\ z.transfers[i].height = h /\ z.transfers[i].spent = FALSE
          /\ z.transfers[i].spent_height = 0
    /\ DOMAIN z.key_images = DOMAIN y.key_images \cup S

(* One output.                                                             *)
LEMMA ReadOutputFacts ==
    ASSUME NEW x \in Book, NEW o \in Out, NEW h \in Nat
    PROVE  /\ ReadOutput(x, o, h) \in Book
           /\ Indexed(x) => Entered(x, ReadOutput(x, o, h), {o}, h)
  <1>0. /\ x.transfers \in Seq(Transfer) /\ Len(x.transfers) \in Nat
        /\ DOMAIN x.transfers = 1 .. Len(x.transfers)
        /\ x.key_images \in Maps(Out, Nat) /\ DOMAIN x.key_images \subseteq Out
    BY BookFacts
  <1>1. CASE o \in DOMAIN x.key_images
    <2>1. ReadOutput(x, o, h) = x
      BY <1>1 DEF ReadOutput
    <2>2. DOMAIN x.key_images = DOMAIN x.key_images \cup {o}
      BY <1>1
    <2>3. Indexed(x) => Entered(x, x, {o}, h)
      BY <1>0, <2>2 DEF Entered
    <2> QED
      BY <2>1, <2>3
  <1>2. CASE o \notin DOMAIN x.key_images
    <2> DEFINE n == Len(x.transfers)
               r == [out |-> o, height |-> h, spent |-> FALSE, spent_height |-> 0]
               s == Append(x.transfers, r)
               k == With(x.key_images, o, n + 1)
               z == ReadOutput(x, o, h)
    <2>1. r \in Transfer /\ r.out = o /\ r.height = h /\ r.spent = FALSE /\ r.spent_height = 0
      BY DEF Transfer
    <2>2. z = [x EXCEPT !.transfers = s, !.key_images = k]
      BY <1>2 DEF ReadOutput
    <2> HIDE DEF r
    <2>3. /\ s \in Seq(Transfer) /\ Len(s) = n + 1 /\ DOMAIN s = 1 .. n + 1 /\ s[n + 1] = r
          /\ \A i \in 1 .. n : s[i] = x.transfers[i]
      BY <1>0, <2>1
    <2>4. /\ k \in Maps(Out, Nat) /\ DOMAIN k = DOMAIN x.key_images \cup {o} /\ k[o] = n + 1
          /\ \A j \in DOMAIN x.key_images : j # o => k[j] = x.key_images[j]
      <3>1. n + 1 \in Nat
        BY <1>0
      <3>2. PICK m \in Nat : m = n + 1
        BY <3>1
      <3>3. k = With(x.key_images, o, m)
        BY <3>2
      <3> HIDE DEF k, n, s, z
      <3>4. /\ With(x.key_images, o, m) \in Maps(Out, Nat)
            /\ DOMAIN With(x.key_images, o, m) = DOMAIN x.key_images \cup {o}
            /\ With(x.key_images, o, m)[o] = m
            /\ \A j \in DOMAIN x.key_images : j # o => With(x.key_images, o, m)[j] = x.key_images[j]
        BY <1>0, IndexFacts, ZenonT(30)
      <3> QED
        BY <3>2, <3>3, <3>4
    <2> HIDE DEF s, k, z
    <2>5. /\ z \in Book /\ z.transfers = s /\ z.key_images = k
          /\ z.blockchain = x.blockchain /\ z.unconfirmed_in = x.unconfirmed_in
          /\ z.history = x.history
      BY <2>2, <2>3, <2>4 DEF Book
    <2>6. ASSUME Indexed(x) PROVE Indexed(z)
      <3>1. ASSUME NEW j \in DOMAIN k PROVE k[j] \in 1 .. n + 1 /\ s[k[j]].out = j
        <4>1. CASE j = o
          BY <4>1, <2>1, <2>3, <2>4, <1>0
        <4>2. CASE j # o
          <5>1. j \in DOMAIN x.key_images /\ k[j] = x.key_images[j]
            BY <4>2, <2>4
          <5>2. x.key_images[j] \in 1 .. n /\ x.transfers[x.key_images[j]].out = j
            BY <5>1, <1>0, <2>6 DEF Indexed
          <5> QED
            BY <5>1, <5>2, <2>3, <1>0
        <4> QED
          BY <4>1, <4>2
      <3>2. ASSUME NEW i \in 1 .. n + 1 PROVE s[i].out \in DOMAIN k /\ k[s[i].out] = i
        <4>1. CASE i = n + 1
          BY <4>1, <2>1, <2>3, <2>4
        <4>2. CASE i # n + 1
          <5>1. i \in 1 .. n /\ s[i] = x.transfers[i]
            BY <4>2, <2>3, <1>0
          <5>2. x.transfers[i].out \in DOMAIN x.key_images /\ x.key_images[x.transfers[i].out] = i
            BY <5>1, <1>0, <2>6 DEF Indexed
          <5>3. x.transfers[i].out # o
            BY <5>2, <1>2
          <5> QED
            BY <5>1, <5>2, <5>3, <2>4
        <4> QED
          BY <4>1, <4>2
      <3> QED
        BY <3>1, <3>2, <2>3, <2>5 DEF Indexed
    <2>7. ASSUME NEW i \in DOMAIN s, i > n
          PROVE  /\ s[i].out \in {o} \ DOMAIN x.key_images /\ s[i].height = h
                 /\ s[i].spent = FALSE /\ s[i].spent_height = 0
      <3>1. i = n + 1
        BY <2>7, <2>3, <1>0
      <3> QED
        BY <3>1, <2>1, <2>3, <1>2
    <2>8. Len(s) >= n
      BY <2>3, <1>0
    <2>9. DOMAIN x.transfers = 1 .. n /\ DOMAIN s = 1 .. n + 1
      BY <1>0, <2>3
    <2>10. ASSUME Indexed(x) PROVE Entered(x, z, {o}, h)
      <3>1. Indexed(z)
        BY <2>6, <2>10
      <3> QED
        BY <2>3, <2>4, <2>5, <2>7, <2>8, <2>9, <3>1 DEF Entered
    <2> QED
      BY <2>5, <2>10 DEF z
  <1> QED
    BY <1>1, <1>2

(* Outputs of one set and then those of another.                           *)
LEMMA EnteredTwice ==
    ASSUME NEW x \in Book, NEW y, NEW z, NEW S, NEW T, NEW h \in Nat,
           Entered(x, y, S, h), Entered(y, z, T, h)
    PROVE  Entered(x, z, S \cup T, h)
  <1>1. y \in Book /\ z \in Book /\ Indexed(z)
    BY DEF Entered
  <1>2. /\ Len(x.transfers) \in Nat /\ DOMAIN x.transfers = 1 .. Len(x.transfers)
        /\ Len(y.transfers) \in Nat /\ DOMAIN y.transfers = 1 .. Len(y.transfers)
        /\ Len(z.transfers) \in Nat /\ DOMAIN z.transfers = 1 .. Len(z.transfers)
    BY <1>1, BookFacts
  <1>3. Len(z.transfers) >= Len(y.transfers) /\ Len(y.transfers) >= Len(x.transfers)
    BY DEF Entered
  <1>4. /\ z.blockchain = x.blockchain /\ z.unconfirmed_in = x.unconfirmed_in
        /\ z.history = x.history
        /\ DOMAIN y.key_images = DOMAIN x.key_images \cup S
        /\ DOMAIN z.key_images = DOMAIN x.key_images \cup (S \cup T)
    BY DEF Entered
  <1>5. ASSUME NEW i \in DOMAIN x.transfers PROVE z.transfers[i] = x.transfers[i]
    <2>1. i \in DOMAIN y.transfers
      BY <1>2, <1>3
    <2> QED
      BY <2>1 DEF Entered
  <1>6. ASSUME NEW i \in DOMAIN z.transfers, i > Len(x.transfers)
        PROVE  /\ z.transfers[i].out \in (S \cup T) \ DOMAIN x.key_images
               /\ z.transfers[i].height = h /\ z.transfers[i].spent = FALSE
               /\ z.transfers[i].spent_height = 0
    <2>1. CASE i > Len(y.transfers)
      BY <2>1, <1>4 DEF Entered
    <2>2. CASE ~(i > Len(y.transfers))
      <3>1. i \in DOMAIN y.transfers
        BY <2>2, <1>2
      <3>2. z.transfers[i] = y.transfers[i]
        BY <3>1 DEF Entered
      <3>3. /\ y.transfers[i].out \in S \ DOMAIN x.key_images
            /\ y.transfers[i].height = h /\ y.transfers[i].spent = FALSE
            /\ y.transfers[i].spent_height = 0
        BY <3>1, <1>6 DEF Entered
      <3> QED
        BY <3>2, <3>3
    <2> QED
      BY <2>1, <2>2
  <1>7. Len(z.transfers) >= Len(x.transfers)
    BY <1>2, <1>3
  <1> QED
    BY <1>1, <1>4, <1>5, <1>6, <1>7 DEF Entered

(* The outputs of a transaction.                                           *)
LEMMA ReadOutputsFacts ==
    ASSUME NEW x \in Book, NEW outs \in Seq(Out), NEW h \in Nat, Indexed(x)
    PROVE  Entered(x, ReadOutputs(x, outs, h), Range(outs), h)
  <1> DEFINE N == Len(outs)
             Body(f) == [i \in 0 .. N |->
                            IF i = 0 THEN x ELSE ReadOutput(f[i - 1], outs[i], h)]
             read == CHOOSE f : f = Body(f)
             st == [e \in Nat \X Book |->
                       IF e[1] \in 1 .. N THEN ReadOutput(e[2], outs[e[1]], h) ELSE e[2]]
  <1>1. N \in Nat /\ \A i \in 1 .. N : outs[i] \in Out
    OBVIOUS
  <1>2. st \in [Nat \X Book -> Book]
    <2>1. ASSUME NEW e \in Nat \X Book
          PROVE  (IF e[1] \in 1 .. N THEN ReadOutput(e[2], outs[e[1]], h) ELSE e[2]) \in Book
      <3>1. e[2] \in Book
        OBVIOUS
      <3>2. e[1] \in 1 .. N => ReadOutput(e[2], outs[e[1]], h) \in Book
        BY <1>1, <3>1, ReadOutputFacts
      <3> QED
        BY <3>1, <3>2
    <2> QED
      BY <2>1
  <1>3. PICK g \in [0 .. N -> Book] : Unfolds(g, N, x, st)
    <2> HIDE DEF st, N
    <2> QED BY <1>1, <1>2, RecursionExists
  <1>4. \A i \in 1 .. N : g[i] = ReadOutput(g[i - 1], outs[i], h)
    <2> SUFFICES ASSUME NEW i \in 1 .. N
                 PROVE  g[i] = ReadOutput(g[i - 1], outs[i], h)
      OBVIOUS
    <2>1. i \in Nat /\ i - 1 \in 0 .. N /\ g[i - 1] \in Book
      BY <1>1
    <2>2. <<i, g[i - 1]>> \in Nat \X Book
      BY <2>1
    <2>3. st[<<i, g[i - 1]>>] = ReadOutput(g[i - 1], outs[i], h)
      BY <2>2
    <2> QED
      BY <2>3, <1>3 DEF Unfolds
  <1>5. g = Body(g)
    <2>1. ASSUME NEW i \in 0 .. N PROVE g[i] = Body(g)[i]
      <3>1. Body(g)[i] = IF i = 0 THEN x ELSE ReadOutput(g[i - 1], outs[i], h)
        OBVIOUS
      <3>2. i = 0 \/ i \in 1 .. N
        BY <1>1
      <3> HIDE DEF Body
      <3> QED BY <3>1, <3>2, <1>3, <1>4 DEF Unfolds
    <2>2. g = [i \in 0 .. N |-> g[i]]
      OBVIOUS
    <2>3. Body(g) = [i \in 0 .. N |-> Body(g)[i]]
      BY Zenon
    <2> HIDE DEF Body
    <2> QED BY <2>1, <2>2, <2>3, Zenon
  <1>6. read = Body(read)
    BY <1>5
  <1>7. ReadOutputs(x, outs, h) = read[N]
    BY DEF ReadOutputs
  <1> DEFINE Q == {i \in 0 .. N : Entered(x, read[i], {outs[j] : j \in 1 .. i}, h)}
  <1>8. read[0] = x /\ \A i \in 1 .. N : read[i] = ReadOutput(read[i - 1], outs[i], h)
    <2> HIDE DEF read
    <2>1. \A i \in 0 .. N : read[i] = Body(read)[i]
      BY <1>6
    <2>2. \A f : \A i \in 0 .. N : Body(f)[i] =
              IF i = 0 THEN x ELSE ReadOutput(f[i - 1], outs[i], h)
      OBVIOUS
    <2> HIDE DEF Body
    <2> QED BY <2>1, <2>2, <1>1
  <1> HIDE DEF read
  <1>9. 0 \in Q
    <2>1. {outs[j] : j \in 1 .. 0} = {}
      OBVIOUS
    <2>2. Len(x.transfers) \in Nat /\ DOMAIN x.transfers = 1 .. Len(x.transfers)
      BY BookFacts
    <2>3. Entered(x, x, {}, h)
      BY <2>2 DEF Entered
    <2>4. 0 \in 0 .. N
      BY <1>1
    <2> QED
      BY <1>8, <2>1, <2>3, <2>4
  <1>10. ASSUME NEW i \in 0 .. N - 1, i \in Q PROVE i + 1 \in Q
    <2>1. i + 1 \in 1 .. N /\ i + 1 \in 0 .. N /\ (i + 1) - 1 = i /\ outs[i + 1] \in Out
      OBVIOUS
    <2>2. {outs[j] : j \in 1 .. i + 1} = {outs[j] : j \in 1 .. i} \cup {outs[i + 1]}
      OBVIOUS
    <2>3. Entered(x, read[i], {outs[j] : j \in 1 .. i}, h)
      BY <1>10
    <2>4. read[i + 1] = ReadOutput(read[i], outs[i + 1], h)
      BY <2>1, <1>8
    <2>5. read[i] \in Book /\ Indexed(read[i])
      BY <2>3 DEF Entered
    <2>6. Entered(read[i], read[i + 1], {outs[i + 1]}, h)
      BY <2>1, <2>4, <2>5, ReadOutputFacts
    <2>7. Entered(x, read[i + 1], {outs[j] : j \in 1 .. i} \cup {outs[i + 1]}, h)
      BY <2>3, <2>6, EnteredTwice
    <2> QED
      BY <2>1, <2>2, <2>7
  <1>11. 0 .. N \subseteq Q
    <2> HIDE DEF Q, N
    <2> QED BY <1>1, <1>9, <1>10, BoundedInduction
  <1>12. N \in Q
    <2> HIDE DEF Q
    <2> QED BY <1>1, <1>11
  <1>13. Range(outs) = {outs[j] : j \in 1 .. N}
    BY DEF Range
  <1> QED
    BY <1>7, <1>12, <1>13

-----------------------------------------------------------------------------
(***************************************************************************)
(* The chain: what LedgerAssumption says of the transactions the books     *)
(* have read.                                                              *)
(***************************************************************************)
(* The transactions before one of a block that follows the copy.           *)
LEMMA BeforeFacts ==
    ASSUME NEW x \in Book, NEW b \in Block, Follows(x, b), NEW k \in 1 .. Len(Txs[b]) + 1, NEW u
    PROVE  u \in Before(b, k) <=> \/ \E i \in 1 .. Len(Path[b]) - 1 : u \in Range(Txs[x.blockchain[i]])
                                  \/ \E j \in 1 .. k - 1 : u = Txs[b][j]
  <1>1. \A i \in 1 .. Len(Path[b]) - 1 : x.blockchain[i] = Path[b][i]
    BY DEF Follows
  <1> DEFINE n == Len(Path[b]) - 1
  <1>2. u \in Before(b, k) <=> \/ \E i \in 1 .. n : u \in Range(Txs[Path[b][i]])
                               \/ \E j \in 1 .. k - 1 : u = Txs[b][j]
    <2> DEFINE P(i) == Range(Txs[Path[b][i]])
               T(i) == Txs[b][i]
    <2>1. Before(b, k) = (UNION {P(i) : i \in 1 .. n}) \cup {T(i) : i \in 1 .. k - 1}
      BY DEF Before
    <2> HIDE DEF P, T, n
    <2>2. u \in UNION {P(i) : i \in 1 .. n} <=> \E i \in 1 .. n : u \in P(i)
      OBVIOUS
    <2>3. u \in {T(i) : i \in 1 .. k - 1} <=> \E j \in 1 .. k - 1 : u = T(j)
      OBVIOUS
    <2>4. u \in Before(b, k) <=> (\E i \in 1 .. n : u \in P(i)) \/ \E j \in 1 .. k - 1 : u = T(j)
      BY <2>1, <2>2, <2>3
    <2> QED
      BY <2>4 DEF P, T
  <1>3. \A i \in 1 .. n : Range(Txs[Path[b][i]]) = Range(Txs[x.blockchain[i]])
    BY <1>1
  <1> HIDE DEF n
  <1>4. (\E i \in 1 .. n : u \in Range(Txs[Path[b][i]]))
            <=> \E i \in 1 .. n : u \in Range(Txs[x.blockchain[i]])
    BY <1>3
  <1> QED
    BY <1>2, <1>4 DEF n

(* A block of the copy follows the copy.                                   *)
LEMMA OnChainFollows ==
    ASSUME NEW x \in Book, OnTree(x), NEW h \in DOMAIN x.blockchain
    PROVE  /\ x.blockchain[h] \in Block /\ Len(Path[x.blockchain[h]]) = h /\ h \in 1 .. Len(x.blockchain)
           /\ Follows(x, x.blockchain[h])
  <1>1. /\ x.blockchain \in Seq(Block) /\ Len(x.blockchain) \in Nat
        /\ h \in 1 .. Len(x.blockchain)
    BY BookFacts
  <1>2. Path[x.blockchain[h]] = SubSeq(x.blockchain, 1, h)
    BY DEF OnTree
  <1>3. /\ Len(SubSeq(x.blockchain, 1, h)) = h
        /\ \A i \in 1 .. h : SubSeq(x.blockchain, 1, h)[i] = x.blockchain[i]
    BY <1>1
  <1>4. Len(Path[x.blockchain[h]]) = h
    BY <1>2, <1>3
  <1>5. \A i \in 1 .. h - 1 : x.blockchain[i] = Path[x.blockchain[h]][i]
    BY <1>1, <1>2, <1>3
  <1> QED
    BY <1>1, <1>4, <1>5 DEF Follows

(* A transaction is in one block of the chain.                             *)
LEMMA OneHeight ==
    ASSUME NEW x \in Book, OnTree(x), NEW g \in DOMAIN x.blockchain, NEW h \in DOMAIN x.blockchain,
           NEW t, t \in Range(Txs[x.blockchain[g]]), t \in Range(Txs[x.blockchain[h]])
    PROVE  g = h
  <1>1. ASSUME NEW i \in DOMAIN x.blockchain, NEW j \in DOMAIN x.blockchain, i < j,
               t \in Range(Txs[x.blockchain[i]]), t \in Range(Txs[x.blockchain[j]])
        PROVE  FALSE
    <2> DEFINE b == x.blockchain[j]
    <2>1. /\ b \in Block /\ Len(Path[b]) = j /\ j \in 1 .. Len(x.blockchain) /\ Follows(x, b)
      BY OnChainFollows
    <2>2. i \in 1 .. Len(x.blockchain) /\ Len(x.blockchain) \in Nat
      BY BookFacts
    <2>3. PICK k \in 1 .. Len(Txs[b]) : t = Txs[b][k]
      BY <1>1, <2>1, ConstantFacts DEF Range
    <2>4. k \in 1 .. Len(Txs[b]) + 1
      BY <2>1, ConstantFacts
    <2>5. i \in 1 .. Len(Path[b]) - 1
      BY <1>1, <2>1, <2>2
    <2> HIDE DEF b
    <2>6. t \in Before(b, k)
      BY <1>1, <2>1, <2>4, <2>5, BeforeFacts
    <2> QED
      BY <2>1, <2>3, <2>6, LedgerAssumption
  <1>2. g \in Nat /\ h \in Nat
    BY BookFacts
  <1>3. g < h => FALSE
    BY <1>1
  <1>4. h < g => FALSE
    BY <1>1
  <1> QED
    BY <1>2, <1>3, <1>4

(* What a transaction spends was made before it.                           *)
MadeEarlier(x, b, k, o) ==
    \E u \in Tx : /\ o \in Range(Outs[u])
                  /\ \/ \E i \in DOMAIN x.blockchain :
                            i < Len(Path[b]) /\ u \in Range(Txs[x.blockchain[i]])
                     \/ \E j \in 1 .. k - 1 : u = Txs[b][j]

(* As said.                                                                *)
LEMMA InputsEarlier ==
    ASSUME NEW x \in Book, NEW b \in Block, Follows(x, b), NEW k \in 1 .. Len(Txs[b]),
           NEW o \in Ins[Txs[b][k]]
    PROVE  MadeEarlier(x, b, k, o)
  <1>1. PICK u \in Before(b, k) : o \in Range(Outs[u])
    BY LedgerAssumption
  <1>2. k \in 1 .. Len(Txs[b]) + 1
    BY ConstantFacts
  <1>3. \/ \E i \in 1 .. Len(Path[b]) - 1 : u \in Range(Txs[x.blockchain[i]])
        \/ \E j \in 1 .. k - 1 : u = Txs[b][j]
    BY <1>2, BeforeFacts
  <1>4. /\ Len(x.blockchain) \in Nat /\ DOMAIN x.blockchain = 1 .. Len(x.blockchain)
        /\ \A i \in DOMAIN x.blockchain : x.blockchain[i] \in Block
    BY BookFacts
  <1>5. Len(Path[b]) \in Nat /\ Len(Path[b]) <= Len(x.blockchain) + 1
    BY ConstantFacts DEF Follows
  <1>6. CASE \E i \in 1 .. Len(Path[b]) - 1 : u \in Range(Txs[x.blockchain[i]])
    <2>1. PICK i \in 1 .. Len(Path[b]) - 1 : u \in Range(Txs[x.blockchain[i]])
      BY <1>6
    <2>2. i \in DOMAIN x.blockchain /\ i < Len(Path[b])
      BY <1>4, <1>5
    <2>3. u \in Tx
      BY <1>4, <2>1, <2>2, ConstantFacts
    <2> QED
      BY <1>1, <2>1, <2>2, <2>3 DEF MadeEarlier
  <1>7. CASE \E j \in 1 .. k - 1 : u = Txs[b][j]
    <2>1. PICK j \in 1 .. k - 1 : u = Txs[b][j]
      BY <1>7
    <2>2. u \in Tx
      BY <2>1, ConstantFacts
    <2> QED
      BY <1>1, <2>1, <2>2 DEF MadeEarlier
  <1> QED
    BY <1>3, <1>6, <1>7

(* The books are about to read the k-th transaction of the block b, which  *)
(* follows them: it is new, it spends what was made and what no other      *)
(* spends; and what the others spend was made as well.                     *)
AtTx(x, part, b, k) ==
    /\ Follows(x, b) /\ Len(Path[b]) = Len(x.blockchain) + 1
    /\ part = {Txs[b][i] : i \in 1 .. k - 1}
Made(x, part, o) == \E u \in Tx, g \in Nat : Done(x, part, u, g) /\ o \in Range(Outs[u])

(* What a transaction of the chain spends was made by a transaction that   *)
(* the books have read.                                                    *)
LEMMA ChainOutputsMade ==
    ASSUME NEW x \in Book, OnTree(x), NEW part, NEW h \in DOMAIN x.blockchain,
           NEW t \in Range(Txs[x.blockchain[h]]), NEW o \in Ins[t]
    PROVE  Made(x, part, o)
  <1> DEFINE b == x.blockchain[h]
  <1>1. b \in Block /\ Len(Path[b]) = h /\ h \in 1 .. Len(x.blockchain) /\ Follows(x, b)
    BY OnChainFollows
  <1>2. PICK k \in 1 .. Len(Txs[b]) : t = Txs[b][k]
    BY <1>1, ConstantFacts DEF Range
  <1> HIDE DEF b
  <1>3. PICK u \in Tx : /\ o \in Range(Outs[u])
                        /\ \/ \E i \in DOMAIN x.blockchain :
                                  i < Len(Path[b]) /\ u \in Range(Txs[x.blockchain[i]])
                           \/ \E j \in 1 .. k - 1 : u = Txs[b][j]
    <2>1. o \in Ins[Txs[b][k]]
      BY <1>2
    <2>2. MadeEarlier(x, b, k, o)
      BY <1>1, <2>1, InputsEarlier
    <2> QED
      BY <2>2 DEF MadeEarlier
  <1>4. CASE \E i \in DOMAIN x.blockchain : u \in Range(Txs[x.blockchain[i]])
    <2>1. DOMAIN x.blockchain \subseteq Nat
      BY BookFacts
    <2> QED
      BY <1>3, <1>4, <2>1 DEF Made, Done
  <1>5. CASE \E j \in 1 .. k - 1 : u = Txs[b][j]
    <2>1. u \in Range(Txs[b])
      BY <1>1, <1>2, <1>5, ConstantFacts DEF Range
    <2> QED
      BY <1>1, <1>3, <2>1 DEF Made, Done, b
  <1> QED
    BY <1>3, <1>4, <1>5

(* As said of AtTx.                                                        *)
LEMMA AtTxFacts ==
    ASSUME NEW x \in Book, OnTree(x), NEW b \in Block, NEW k \in 1 .. Len(Txs[b]), NEW part,
           AtTx(x, part, b, k)
    PROVE  /\ Txs[b][k] \in Tx /\ part \subseteq Tx
           /\ \A h \in Nat : ~Done(x, part, Txs[b][k], h)
           /\ \A u \in Tx, h \in Nat : Done(x, part, u, h) => Ins[u] \cap Ins[Txs[b][k]] = {}
           /\ \A o \in Ins[Txs[b][k]] : Made(x, part, o)
           /\ \A u \in Tx, h \in Nat : Done(x, part, u, h) => \A o \in Ins[u] : Made(x, part, o)
  <1> DEFINE t == Txs[b][k]
  <1>1. /\ Len(x.blockchain) \in Nat /\ DOMAIN x.blockchain = 1 .. Len(x.blockchain)
    BY BookFacts
  <1>2. /\ Follows(x, b) /\ Len(Path[b]) = Len(x.blockchain) + 1
        /\ part = {Txs[b][i] : i \in 1 .. k - 1}
    BY DEF AtTx
  <1>3. t \in Tx /\ part \subseteq Tx /\ Len(Txs[b]) \in Nat /\ k \in 1 .. Len(Txs[b]) + 1
    <2>1. Len(Txs[b]) \in Nat /\ \A i \in 1 .. Len(Txs[b]) : Txs[b][i] \in Tx
      BY ConstantFacts
    <2>2. \A i \in 1 .. k - 1 : i \in 1 .. Len(Txs[b])
      BY <2>1
    <2> QED
      BY <1>2, <2>1, <2>2
  <1>4. ASSUME NEW u, NEW h \in Nat, Done(x, part, u, h) PROVE u \in Before(b, k)
    <2>1. CASE h \in DOMAIN x.blockchain /\ u \in Range(Txs[x.blockchain[h]])
      <3>1. h \in 1 .. Len(Path[b]) - 1
        BY <2>1, <1>1, <1>2
      <3> QED
        BY <2>1, <3>1, <1>2, <1>3, BeforeFacts
    <2>2. CASE u \in part
      BY <2>2, <1>2, <1>3, BeforeFacts
    <2> QED
      BY <1>4, <2>1, <2>2 DEF Done
  <1>5. ASSUME NEW j \in 1 .. k, NEW o \in Ins[Txs[b][j]] PROVE Made(x, part, o)
    <2>1. j \in 1 .. Len(Txs[b])
      BY <1>3
    <2>2. PICK u \in Tx : /\ o \in Range(Outs[u])
                          /\ \/ \E i \in DOMAIN x.blockchain :
                                    i < Len(Path[b]) /\ u \in Range(Txs[x.blockchain[i]])
                             \/ \E l \in 1 .. j - 1 : u = Txs[b][l]
      <3>1. MadeEarlier(x, b, j, o)
        BY <1>2, <2>1, InputsEarlier
      <3> QED
        BY <3>1 DEF MadeEarlier
    <2>3. CASE \E i \in DOMAIN x.blockchain : u \in Range(Txs[x.blockchain[i]])
      <3>1. DOMAIN x.blockchain \subseteq Nat
        BY <1>1
      <3> QED
        BY <2>2, <2>3, <3>1 DEF Made, Done
    <2>4. CASE \E l \in 1 .. j - 1 : u = Txs[b][l]
      <3>1. u \in part
        BY <2>4, <1>2, <1>3
      <3>2. Len(x.blockchain) + 1 \in Nat
        BY <1>1
      <3> QED
        BY <2>2, <3>1, <3>2 DEF Made, Done
    <2> QED
      BY <2>2, <2>3, <2>4
  <1>6. ASSUME NEW h \in Nat PROVE ~Done(x, part, t, h)
    BY <1>4, LedgerAssumption
  <1>7. ASSUME NEW u \in Tx, NEW h \in Nat, Done(x, part, u, h) PROVE Ins[u] \cap Ins[t] = {}
    BY <1>4, <1>7, LedgerAssumption
  <1>8. ASSUME NEW u \in Tx, NEW h \in Nat, Done(x, part, u, h), NEW o \in Ins[u]
        PROVE  Made(x, part, o)
    <2>1. CASE h \in DOMAIN x.blockchain /\ u \in Range(Txs[x.blockchain[h]])
      BY <2>1, <1>8, ChainOutputsMade
    <2>2. CASE u \in part
      <3>1. PICK j \in 1 .. k - 1 : u = Txs[b][j]
        BY <2>2, <1>2
      <3>2. j \in 1 .. k
        BY <1>3
      <3> QED
        BY <3>1, <3>2, <1>5
    <2> QED
      BY <1>8, <2>1, <2>2 DEF Done
  <1>9. k \in 1 .. k
    BY <1>3
  <1>10. \A o \in Ins[t] : Made(x, part, o)
    BY <1>5, <1>9
  <1> HIDE DEF t
  <1> QED
    BY <1>3, <1>6, <1>7, <1>8, <1>10 DEF t

-----------------------------------------------------------------------------
(***************************************************************************)
(* A transaction is read.                                                  *)
(***************************************************************************)
(* The transfers that a transaction spends.                                *)
LEMMA FoundFacts ==
    ASSUME NEW x \in Book, Indexed(x), NEW t \in Tx
    PROVE  \A i : i \in Found(x, t) <=> i \in DOMAIN x.transfers /\ x.transfers[i].out \in Ins[t]
  <1>1. ASSUME NEW i, i \in Found(x, t)
        PROVE  i \in DOMAIN x.transfers /\ x.transfers[i].out \in Ins[t]
    <2>1. PICK o \in Ins[t] \cap DOMAIN x.key_images : i = x.key_images[o]
      BY <1>1 DEF Found
    <2> QED
      BY <2>1 DEF Indexed
  <1>2. ASSUME NEW i \in DOMAIN x.transfers, x.transfers[i].out \in Ins[t]
        PROVE  i \in Found(x, t)
    <2>1. /\ x.transfers[i].out \in Ins[t] \cap DOMAIN x.key_images
          /\ x.key_images[x.transfers[i].out] = i
      BY <1>2 DEF Indexed
    <2> QED
      BY <2>1 DEF Found
  <1> QED
    BY <1>1, <1>2

(* What p has that x does not have.                                        *)
Received(x, p) == {p.transfers[i].out : i \in Len(x.transfers) + 1 .. Len(p.transfers)}

(* p is x with the transaction t of the height h entered.                  *)
TxRead(x, p, t, h) ==
    /\ p \in Book /\ Indexed(p) /\ p.blockchain = x.blockchain
    /\ DOMAIN p.key_images = DOMAIN x.key_images \cup Range(Outs[t])
    /\ Len(p.transfers) >= Len(x.transfers)
    /\ \A i \in DOMAIN x.transfers :
          /\ p.transfers[i].out = x.transfers[i].out
          /\ p.transfers[i].height = x.transfers[i].height
          /\ i \in Found(x, t) => p.transfers[i].spent /\ p.transfers[i].spent_height = h
          /\ i \notin Found(x, t) => p.transfers[i] = x.transfers[i]
    /\ \A i \in DOMAIN p.transfers : i > Len(x.transfers) =>
          /\ p.transfers[i].out \in Range(Outs[t]) \ DOMAIN x.key_images
          /\ p.transfers[i].height = h /\ p.transfers[i].spent_height = 0
    /\ Received(x, p) \in SUBSET Out
    /\ p.history = IF Found(x, t) # {} \/ Received(x, p) # {} \/ t \in Attached
                   THEN With(x.history, <<t, h>>, Append(Entries(x, <<t, h>>), Received(x, p)))
                   ELSE x.history

(* The spends leave the index as it is.                                    *)
LEMMA SpendsIndexed ==
    ASSUME NEW x \in Book, Indexed(x), NEW y, NEW t, NEW h, SpendsRead(x, y, t, h)
    PROVE  Indexed(y)
  <1>1. /\ y \in Book /\ y.key_images = x.key_images /\ Len(y.transfers) = Len(x.transfers)
        /\ \A i \in DOMAIN x.transfers : y.transfers[i].out = x.transfers[i].out
    BY DEF SpendsRead, SameOthers
  <1>2. DOMAIN y.transfers = DOMAIN x.transfers
    BY <1>1, BookFacts
  <1> QED
    BY <1>1, <1>2 DEF Indexed

(* process_new_transaction does what TxRead says.                          *)
LEMMA ProcessFacts ==
    ASSUME NEW x \in Book, Indexed(x), NEW t \in Tx, NEW h \in Nat
    PROVE  TxRead(x, process_new_transaction(x, t, h), t, h)
  <1> DEFINE y == ReadInPart(x, t, h)
             z == ReadOutputs(y, Outs[t], h)
             e == <<t, h>>
             r == Received(y, z)
             q == Append(Entries(x, e), r)
             m == With(x.history, e, q)
             c == Found(x, t) # {} \/ r # {} \/ t \in Attached
             p == process_new_transaction(x, t, h)
  <1>1. SpendsRead(x, y, t, h)
    BY ReadInPartFacts
  <1>2. /\ y \in Book /\ SameOthers(x, y) /\ Len(y.transfers) = Len(x.transfers)
    BY <1>1 DEF SpendsRead
  <1>3. Indexed(y)
    BY <1>1, SpendsIndexed
  <1>4. Entered(y, z, Range(Outs[t]), h)
    BY <1>2, <1>3, ConstantFacts, ReadOutputsFacts
  <1>5. p = IF c THEN [z EXCEPT !.history = With(z.history, e, q)] ELSE z
    BY DEF process_new_transaction, Received
  <1> HIDE DEF y, z, p
  <1>6. z \in Book /\ Indexed(z) /\ z.blockchain = x.blockchain /\ z.history = x.history
    BY <1>2, <1>4 DEF Entered, SameOthers
  <1>16. r \in SUBSET Out
    <2>1. Len(y.transfers) \in Nat /\ DOMAIN z.transfers = 1 .. Len(z.transfers)
      BY <1>2, <1>6, BookFacts
    <2>2. \A i \in Len(y.transfers) + 1 .. Len(z.transfers) : i \in DOMAIN z.transfers
      BY <2>1
    <2>3. \A i \in DOMAIN z.transfers : z.transfers[i].out \in Out
      BY <1>6, BookFacts
    <2> QED
      BY <2>2, <2>3 DEF Received
  <1> HIDE DEF r
  <1>17. e \in Tx \X Nat /\ Entries(x, e) \in Seq(SUBSET Out)
    <2>1. e \in DOMAIN x.history => x.history[e] \in Seq(SUBSET Out)
      BY BookFacts
    <2>2. <<>> \in Seq(SUBSET Out)
      OBVIOUS
    <2>3. Entries(x, e) \in Seq(SUBSET Out)
      BY <2>1, <2>2, Zenon DEF Entries
    <2> QED
      BY <2>3
  <1> HIDE DEF e
  <1>18. q \in Seq(SUBSET Out)
    BY <1>16, <1>17
  <1> HIDE DEF q
  <1>19. m \in Histories
    BY <1>17, <1>18, BookFacts, HistoryWith
  <1>7. /\ p \in Book /\ p.transfers = z.transfers /\ p.key_images = z.key_images
        /\ p.blockchain = x.blockchain
        /\ p.history = IF c THEN m ELSE x.history
    <2> HIDE DEF m
    <2>1. CASE c
      <3>1. p = [z EXCEPT !.history = m]
        BY <2>1, <1>5, <1>6 DEF m
      <3> QED
        BY <2>1, <3>1, <1>6, <1>19 DEF Book
    <2>2. CASE ~c
      BY <2>2, <1>5, <1>6
    <2> HIDE DEF c
    <2> QED
      BY <2>1, <2>2
  <1>8. Indexed(p)
    BY <1>6, <1>7 DEF Indexed
  <1>9. DOMAIN y.transfers = DOMAIN x.transfers /\ y.key_images = x.key_images
    BY <1>2, BookFacts DEF SameOthers
  <1>10. /\ DOMAIN p.key_images = DOMAIN x.key_images \cup Range(Outs[t])
         /\ Len(p.transfers) >= Len(x.transfers)
    BY <1>2, <1>4, <1>7, <1>9 DEF Entered
  <1>11. ASSUME NEW i \in DOMAIN x.transfers
         PROVE  /\ p.transfers[i].out = x.transfers[i].out
                /\ p.transfers[i].height = x.transfers[i].height
                /\ i \in Found(x, t) => p.transfers[i].spent /\ p.transfers[i].spent_height = h
                /\ i \notin Found(x, t) => p.transfers[i] = x.transfers[i]
    <2>1. p.transfers[i] = y.transfers[i]
      BY <1>4, <1>7, <1>9 DEF Entered
    <2> QED
      BY <2>1, <1>1 DEF SpendsRead
  <1>12. ASSUME NEW i \in DOMAIN p.transfers, i > Len(x.transfers)
         PROVE  /\ p.transfers[i].out \in Range(Outs[t]) \ DOMAIN x.key_images
                /\ p.transfers[i].height = h /\ p.transfers[i].spent_height = 0
    BY <1>2, <1>4, <1>7, <1>9, <1>12 DEF Entered
  <1>13. Received(x, p) = r
    BY <1>2, <1>7 DEF Received, r
  <1>14. p.history = IF Found(x, t) # {} \/ Received(x, p) # {} \/ t \in Attached
                     THEN With(x.history, <<t, h>>, Append(Entries(x, <<t, h>>), Received(x, p)))
                     ELSE x.history
    BY <1>7, <1>13, Zenon DEF c, m, q, e
  <1> HIDE DEF c, m
  <1>15. TxRead(x, p, t, h)
    BY <1>7, <1>8, <1>10, <1>11, <1>12, <1>13, <1>14, <1>16 DEF TxRead
  <1> QED
    BY <1>15 DEF p

(* The entry that reading a transaction makes.                             *)
LEMMA ReadHistory ==
    ASSUME NEW x \in Book, NEW t \in Tx, NEW h \in Nat, NEW p, TxRead(x, p, t, h)
    PROVE  /\ DOMAIN p.history =
                 IF Found(x, t) # {} \/ Len(p.transfers) > Len(x.transfers) \/ t \in Attached
                 THEN DOMAIN x.history \cup {<<t, h>>} ELSE DOMAIN x.history
           /\ \A e \in DOMAIN x.history : e # <<t, h>> => p.history[e] = x.history[e]
           /\ \/ p.history = x.history
              \/ /\ <<t, h>> \in DOMAIN p.history
                 /\ p.history[<<t, h>>] = Append(Entries(x, <<t, h>>), Received(x, p))
  <1> DEFINE e == <<t, h>>
             q == Append(Entries(x, e), Received(x, p))
             c == Found(x, t) # {} \/ Received(x, p) # {} \/ t \in Attached
  <1>1. /\ p \in Book /\ Received(x, p) \in SUBSET Out
        /\ p.history = IF c THEN With(x.history, e, q) ELSE x.history
    BY DEF TxRead
  <1>2. Received(x, p) # {} <=> Len(p.transfers) > Len(x.transfers)
    <2>1. Len(p.transfers) \in Nat /\ Len(x.transfers) \in Nat
      BY <1>1, BookFacts
    <2>2. Len(p.transfers) > Len(x.transfers) <=> Len(x.transfers) + 1 .. Len(p.transfers) # {}
      <3>1. Len(p.transfers) > Len(x.transfers)
              => Len(p.transfers) \in Len(x.transfers) + 1 .. Len(p.transfers)
        BY <2>1
      <3>2. \A i \in Len(x.transfers) + 1 .. Len(p.transfers) : Len(p.transfers) > Len(x.transfers)
        BY <2>1
      <3> QED
        BY <3>1, <3>2
    <2>3. Received(x, p) # {} <=> Len(x.transfers) + 1 .. Len(p.transfers) # {}
      BY DEF Received
    <2> QED
      BY <2>2, <2>3
  <1>3. e \in Tx \X Nat
    OBVIOUS
  <1> HIDE DEF e
  <1>4. Entries(x, e) \in Seq(SUBSET Out)
    <2>1. e \in DOMAIN x.history => x.history[e] \in Seq(SUBSET Out)
      BY BookFacts
    <2>2. <<>> \in Seq(SUBSET Out)
      OBVIOUS
    <2> QED
      BY <2>1, <2>2, Zenon DEF Entries
  <1>5. q \in Seq(SUBSET Out) /\ x.history \in Histories
    BY <1>1, <1>4, BookFacts
  <1> HIDE DEF q
  <1>6. /\ DOMAIN With(x.history, e, q) = DOMAIN x.history \cup {e}
        /\ With(x.history, e, q)[e] = q
        /\ \A j \in DOMAIN x.history : j # e => With(x.history, e, q)[j] = x.history[j]
    BY <1>3, <1>5, HistoryWith, ZenonT(30)
  <1>7. CASE c
    <2>1. p.history = With(x.history, e, q)
      BY <1>1, <1>7
    <2>2. e \in DOMAIN p.history /\ p.history[e] = q
      BY <2>1, <1>6
    <2> QED
      BY <2>1, <2>2, <1>2, <1>6, <1>7 DEF e, q
  <1>8. CASE ~c
    BY <1>1, <1>2, <1>8 DEF e
  <1> QED
    BY <1>7, <1>8

(* An output that was made has been found.                                 *)
LEMMA MadeFound ==
    ASSUME NEW x, NEW part, OutputsFound(x, part), NEW o, Made(x, part, o)
    PROVE  o \in DOMAIN x.key_images
  BY DEF OutputsFound, Made

(* The books are kept by reading a transaction.                            *)
LEMMA ReadTxBooks ==
    ASSUME NEW x \in Book, NEW tn \in SUBSET Block, NEW part, Books(x, tn, part),
           NEW b \in Block, NEW k \in 1 .. Len(Txs[b]), AtTx(x, part, b, k),
           NEW p, TxRead(x, p, Txs[b][k], Len(x.blockchain) + 1)
    PROVE  Books(p, tn, part \cup {Txs[b][k]})
  <1> DEFINE t == Txs[b][k]
             h == Len(x.blockchain) + 1
             more == part \cup {t}
  <1>1. /\ OnTree(x) /\ TornFollow(x, tn) /\ Indexed(x) /\ Ordered(x)
        /\ TransfersTrue(x) /\ HistoryTrue(x, tn, part) /\ SpendsTrue(x, tn, part)
        /\ OutputsFound(x, part) /\ SpendsFound(x, part) /\ HistoryFound(x, tn, part)
    BY DEF Books
  <1>2. /\ t \in Tx /\ part \subseteq Tx /\ \A g \in Nat : ~Done(x, part, t, g)
        /\ \A u \in Tx, g \in Nat : Done(x, part, u, g) => Ins[u] \cap Ins[t] = {}
        /\ \A o \in Ins[t] : Made(x, part, o)
        /\ \A u \in Tx, g \in Nat : Done(x, part, u, g) => \A o \in Ins[u] : Made(x, part, o)
    BY <1>1, AtTxFacts
  <1>3. TxRead(x, p, t, h)
    OBVIOUS
  <1>4. h \in Nat
    BY BookFacts
  <1>5. /\ p \in Book /\ Indexed(p) /\ p.blockchain = x.blockchain
        /\ DOMAIN p.key_images = DOMAIN x.key_images \cup Range(Outs[t])
        /\ Len(p.transfers) >= Len(x.transfers)
    BY <1>3 DEF TxRead
  <1>6. /\ Len(x.transfers) \in Nat /\ DOMAIN x.transfers = 1 .. Len(x.transfers)
        /\ Len(p.transfers) \in Nat /\ DOMAIN p.transfers = 1 .. Len(p.transfers)
        /\ \A i \in DOMAIN p.transfers : p.transfers[i].out \in Out /\ p.transfers[i].height \in Nat
                                             /\ p.transfers[i].spent_height \in Nat
        /\ \A i \in DOMAIN x.transfers : x.transfers[i].height \in Nat
        /\ Len(x.blockchain) \in Nat /\ DOMAIN x.blockchain = 1 .. Len(x.blockchain)
        /\ DOMAIN p.history \subseteq Tx \X Nat
    BY <1>5, BookFacts
  <1>7. \A i \in DOMAIN p.transfers : i \in DOMAIN x.transfers \/ i > Len(x.transfers)
    BY <1>6
  <1>8. \A i \in DOMAIN x.transfers :
          /\ i \in DOMAIN p.transfers
          /\ p.transfers[i].out = x.transfers[i].out
          /\ p.transfers[i].height = x.transfers[i].height
          /\ i \in Found(x, t) => p.transfers[i].spent /\ p.transfers[i].spent_height = h
          /\ i \notin Found(x, t) => p.transfers[i] = x.transfers[i]
    BY <1>3, <1>5, <1>6 DEF TxRead
  <1>9. \A i \in DOMAIN p.transfers : i > Len(x.transfers) =>
          /\ p.transfers[i].out \in Range(Outs[t]) \ DOMAIN x.key_images
          /\ p.transfers[i].height = h /\ p.transfers[i].spent_height = 0
    BY <1>3 DEF TxRead
  <1>10. /\ DOMAIN p.history =
                IF Found(x, t) # {} \/ Len(p.transfers) > Len(x.transfers) \/ t \in Attached
                THEN DOMAIN x.history \cup {<<t, h>>} ELSE DOMAIN x.history
         /\ DOMAIN x.history \subseteq DOMAIN p.history
    <2> HIDE DEF t, h
    <2>1. DOMAIN p.history =
                IF Found(x, t) # {} \/ Len(p.transfers) > Len(x.transfers) \/ t \in Attached
                THEN DOMAIN x.history \cup {<<t, h>>} ELSE DOMAIN x.history
      BY <1>2, <1>3, <1>4, ReadHistory, ZenonT(30)
    <2> QED
      BY <2>1
  <1>11. \A i : i \in Found(x, t) <=> i \in DOMAIN x.transfers /\ x.transfers[i].out \in Ins[t]
    BY <1>1, <1>2, FoundFacts
  <1>12. \A u, g : Done(p, more, u, g) <=> Done(x, part, u, g) \/ (u = t /\ g = h)
    BY <1>5 DEF Done
  <1>13. \A o \in DOMAIN x.key_images :
             x.key_images[o] \in DOMAIN x.transfers /\ p.key_images[o] = x.key_images[o]
                /\ x.transfers[x.key_images[o]].out = o
    <2> TAKE o \in DOMAIN x.key_images
    <2>1. x.key_images[o] \in DOMAIN x.transfers /\ x.transfers[x.key_images[o]].out = o
      BY <1>1 DEF Indexed
    <2>2. x.key_images[o] \in DOMAIN p.transfers /\ p.transfers[x.key_images[o]].out = o
      BY <2>1, <1>8
    <2> QED
      BY <2>1, <2>2, <1>5 DEF Indexed
  <1> HIDE DEF t, h, more
  <1>14. OnTree(p) /\ TornFollow(p, tn)
    BY <1>1, <1>5 DEF OnTree, TornFollow, Follows
  <1>15. Ordered(p)
    <2>1. h = Len(p.blockchain) + 1 /\ Len(p.blockchain) \in Nat
      BY <1>5, <1>6 DEF h
    <2>2. \A i \in DOMAIN p.transfers : p.transfers[i].height \in 1 .. Len(p.blockchain) + 1
      <3> TAKE i \in DOMAIN p.transfers
      <3>1. CASE i \in DOMAIN x.transfers
        BY <3>1, <1>1, <1>5, <1>8 DEF Ordered
      <3>2. CASE i > Len(x.transfers)
        BY <3>2, <1>9, <2>1
      <3> QED
        BY <1>7, <3>1, <3>2
    <2>3. ASSUME NEW i \in DOMAIN p.transfers, NEW j \in DOMAIN p.transfers, i <= j
          PROVE  p.transfers[i].height <= p.transfers[j].height
      <3>1. CASE j \in DOMAIN x.transfers
        <4>1. i \in DOMAIN x.transfers
          BY <3>1, <2>3, <1>6
        <4> QED
          BY <3>1, <4>1, <2>3, <1>1, <1>8 DEF Ordered
      <3>2. CASE j > Len(x.transfers)
        <4>1. p.transfers[j].height = h
          BY <3>2, <1>9
        <4> QED
          BY <4>1, <2>1, <2>2
      <3> QED
        BY <1>7, <3>1, <3>2
    <2> QED
      BY <2>2, <2>3 DEF Ordered
  <1>16. TransfersTrue(p)
    <2> SUFFICES ASSUME NEW i \in DOMAIN p.transfers
                 PROVE  \E u \in Tx : /\ p.transfers[i].out \in Range(Outs[u])
                                      /\ <<u, p.transfers[i].height>> \in DOMAIN p.history
      BY DEF TransfersTrue
    <2>1. CASE i \in DOMAIN x.transfers
      <3>1. PICK u \in Tx : /\ x.transfers[i].out \in Range(Outs[u])
                            /\ <<u, x.transfers[i].height>> \in DOMAIN x.history
        BY <2>1, <1>1 DEF TransfersTrue
      <3> QED
        BY <2>1, <3>1, <1>8, <1>10
    <2>2. CASE i > Len(x.transfers)
      <3>1. Len(p.transfers) > Len(x.transfers)
        BY <2>2, <1>6
      <3>2. <<t, h>> \in DOMAIN p.history
        BY <3>1, <1>10
      <3> QED
        BY <2>2, <3>2, <1>2, <1>9
    <2> QED
      BY <1>7, <2>1, <2>2
  <1>17. Done(p, more, t, h)
    BY <1>12
  <1>18. HistoryTrue(p, tn, more)
    <2> SUFFICES ASSUME NEW u \in Tx, NEW g \in Nat, <<u, g>> \in DOMAIN p.history
                 PROVE  Counts(u) /\ Touched(p, tn, more, u, g)
      BY DEF HistoryTrue
    <2>1. CASE <<u, g>> \in DOMAIN x.history
      <3>1. Counts(u) /\ Touched(x, tn, part, u, g)
        BY <2>1, <1>1 DEF HistoryTrue
      <3> QED
        BY <3>1, <1>12 DEF Touched
    <2>2. CASE <<u, g>> \notin DOMAIN x.history
      <3>1. /\ u = t /\ g = h
            /\ Found(x, t) # {} \/ Len(p.transfers) > Len(x.transfers) \/ t \in Attached
        BY <2>2, <1>10
      <3>2. CASE Found(x, t) # {}
        BY <3>1, <3>2, <1>11, <1>17 DEF Counts, Touched
      <3>3. CASE Len(p.transfers) > Len(x.transfers)
        <4>1. Len(p.transfers) \in DOMAIN p.transfers
          BY <3>3, <1>6
        <4>2. Range(Outs[t]) # {}
          BY <3>3, <4>1, <1>9
        <4>3. Outs[t] # <<>>
          BY <4>2, <1>2, ConstantFacts
        <4> QED
          BY <3>1, <4>3, <1>17 DEF Counts, Touched
      <3>4. CASE t \in Attached
        BY <3>1, <3>4, <1>17, WalletAssumption DEF Counts, Touched
      <3> QED
        BY <3>1, <3>2, <3>3, <3>4
    <2> QED
      BY <2>1, <2>2
  <1>19. SpendsTrue(p, tn, more)
    <2> SUFFICES ASSUME NEW i \in DOMAIN p.transfers, p.transfers[i].spent_height # 0
                 PROVE  /\ p.transfers[i].spent
                        /\ \E u \in Tx : /\ p.transfers[i].out \in Ins[u]
                              /\ Touched(p, tn, more, u, p.transfers[i].spent_height)
      BY DEF SpendsTrue
    <2>1. i \in DOMAIN x.transfers
      BY <1>7, <1>9
    <2>2. CASE i \in Found(x, t)
      <3>1. /\ p.transfers[i].spent /\ p.transfers[i].spent_height = h
            /\ p.transfers[i].out \in Ins[t]
        BY <2>1, <2>2, <1>8, <1>11
      <3> QED
        BY <3>1, <1>2, <1>17 DEF Touched
    <2>3. CASE i \notin Found(x, t)
      <3>1. p.transfers[i] = x.transfers[i]
        BY <2>1, <2>3, <1>8
      <3>2. /\ x.transfers[i].spent
            /\ \E u \in Tx : /\ x.transfers[i].out \in Ins[u]
                             /\ Touched(x, tn, part, u, x.transfers[i].spent_height)
        BY <2>1, <3>1, <1>1 DEF SpendsTrue
      <3> QED
        BY <3>1, <3>2, <1>12 DEF Touched
    <2> QED
      BY <2>2, <2>3
  <1>20. OutputsFound(p, more)
    <2> SUFFICES ASSUME NEW u \in Tx, NEW g \in Nat, Done(p, more, u, g), NEW o \in Range(Outs[u])
                 PROVE  o \in DOMAIN p.key_images /\ p.transfers[p.key_images[o]].height <= g
      BY DEF OutputsFound
    <2>1. CASE Done(x, part, u, g)
      <3>1. o \in DOMAIN x.key_images /\ x.transfers[x.key_images[o]].height <= g
        BY <2>1, <1>1 DEF OutputsFound
      <3> QED
        BY <3>1, <1>5, <1>8, <1>13
    <2>2. CASE u = t /\ g = h
      <3>1. o \in DOMAIN p.key_images
        BY <2>2, <1>5
      <3>2. p.key_images[o] \in DOMAIN p.transfers
        BY <3>1, <1>5 DEF Indexed
      <3>3. p.transfers[p.key_images[o]].height \in 1 .. h
        BY <3>2, <1>5, <1>15 DEF Ordered, h
      <3> QED
        BY <2>2, <3>1, <3>3, <1>4
    <2> QED
      BY <2>1, <2>2, <1>12
  <1>21. SpendsFound(p, more)
    <2> SUFFICES ASSUME NEW u \in Tx, NEW g \in Nat, Done(p, more, u, g), NEW o \in Ins[u],
                        o \in DOMAIN p.key_images
                 PROVE  p.transfers[p.key_images[o]].spent_height = g
      BY DEF SpendsFound
    <2>1. CASE Done(x, part, u, g)
      <3>1. Made(x, part, o)
        BY <2>1, <1>2
      <3>2. o \in DOMAIN x.key_images
        BY <3>1, <1>1, MadeFound
      <3>3. o \notin Ins[t]
        BY <2>1, <1>2
      <3>4. x.transfers[x.key_images[o]].spent_height = g
        BY <2>1, <3>2, <1>1 DEF SpendsFound
      <3>5. p.transfers[x.key_images[o]] = x.transfers[x.key_images[o]]
        BY <3>2, <3>3, <1>8, <1>11, <1>13
      <3> QED
        BY <3>2, <3>4, <3>5, <1>13
    <2>2. CASE u = t /\ g = h
      <3>1. Made(x, part, o)
        BY <2>2, <1>2
      <3>2. o \in DOMAIN x.key_images
        BY <3>1, <1>1, MadeFound
      <3>3. p.transfers[x.key_images[o]].spent_height = h
        BY <2>2, <3>2, <1>8, <1>11, <1>13
      <3> QED
        BY <2>2, <3>2, <3>3, <1>13
    <2> QED
      BY <2>1, <2>2, <1>12
  <1>22. HistoryFound(p, tn, more)
    <2> SUFFICES ASSUME NEW u \in Tx, NEW g \in Nat, Done(p, more, u, g), Counts(u)
                 PROVE  <<u, g>> \in DOMAIN p.history \/ \E c \in tn : Len(Path[c]) < g
      BY DEF HistoryFound
    <2>1. CASE Done(x, part, u, g)
      BY <2>1, <1>1, <1>10 DEF HistoryFound
    <2>2. CASE u = t /\ g = h
      <3>1. CASE Found(x, t) # {} \/ Len(p.transfers) > Len(x.transfers)
        BY <2>2, <3>1, <1>10
      <3>2. CASE Found(x, t) = {} /\ ~(Len(p.transfers) > Len(x.transfers))
        <4>1. Ins[t] = {}
          <5> SUFFICES ASSUME NEW o \in Ins[t] PROVE FALSE
            OBVIOUS
          <5>1. o \in DOMAIN x.key_images
            BY <1>1, <1>2, MadeFound
          <5> QED
            BY <5>1, <3>2 DEF Found
        <4>2. PICK o : o \in Range(Outs[t])
          BY <4>1, <2>2, <1>2, ConstantFacts DEF Counts
        <4>3. o \in DOMAIN x.key_images
          <5>1. o \in DOMAIN p.key_images
            BY <4>2, <1>5
          <5>2. p.key_images[o] \in DOMAIN p.transfers /\ p.transfers[p.key_images[o]].out = o
            BY <5>1, <1>5 DEF Indexed
          <5>3. p.key_images[o] \in DOMAIN x.transfers
            BY <5>2, <3>2, <1>6
          <5> QED
            BY <5>2, <5>3, <1>1, <1>8 DEF Indexed
        <4> DEFINE i == x.key_images[o]
                   g2 == x.transfers[i].height
        <4>4. i \in DOMAIN x.transfers /\ x.transfers[i].out = o
          BY <4>3, <1>13
        <4>5. PICK v \in Tx : o \in Range(Outs[v]) /\ <<v, g2>> \in DOMAIN x.history
          BY <4>4, <1>1 DEF TransfersTrue
        <4>6. v = t
          BY <4>2, <4>5, <1>2, LedgerAssumption
        <4>7. g2 \in Nat /\ g2 \in 1 .. h
          BY <4>4, <1>1, <1>6 DEF Ordered, h
        <4>8. Touched(x, tn, part, t, g2)
          BY <4>5, <4>6, <4>7, <1>1 DEF HistoryTrue
        <4>9. PICK c \in tn : Len(Path[c]) = g2
          BY <4>7, <4>8, <1>2 DEF Touched
        <4>10. CASE g2 = h
          BY <4>5, <4>6, <4>10, <2>2, <1>10
        <4>11. CASE g2 < h
          BY <4>9, <4>11, <2>2
        <4> QED
          BY <4>7, <4>10, <4>11, <1>4
      <3> QED
        BY <3>1, <3>2
    <2> QED
      BY <2>1, <2>2, <1>12
  <1>23. Books(p, tn, more)
    BY <1>5, <1>14, <1>15, <1>16, <1>18, <1>19, <1>20, <1>21, <1>22 DEF Books
  <1> QED
    BY <1>23 DEF more, t

(* The books are kept when the reading of a transaction stops after its    *)
(* inputs, and its block is one that was read in part.                     *)
LEMMA ThrowBooks ==
    ASSUME NEW x \in Book, NEW tn \in SUBSET Block, NEW part, Books(x, tn, part),
           NEW b \in Block, NEW k \in 1 .. Len(Txs[b]), AtTx(x, part, b, k),
           NEW y, SpendsRead(x, y, Txs[b][k], Len(x.blockchain) + 1)
    PROVE  Books(y, tn \cup {b}, {})
  <1> DEFINE t == Txs[b][k]
             h == Len(x.blockchain) + 1
             tm == tn \cup {b}
  <1>1. /\ OnTree(x) /\ TornFollow(x, tn) /\ Indexed(x) /\ Ordered(x)
        /\ TransfersTrue(x) /\ HistoryTrue(x, tn, part) /\ SpendsTrue(x, tn, part)
        /\ OutputsFound(x, part) /\ SpendsFound(x, part) /\ HistoryFound(x, tn, part)
    BY DEF Books
  <1>2. /\ t \in Tx
        /\ \A u \in Tx, g \in Nat : Done(x, part, u, g) => Ins[u] \cap Ins[t] = {}
    BY <1>1, AtTxFacts
  <1>3. SpendsRead(x, y, t, h)
    OBVIOUS
  <1>4. /\ y \in Book /\ y.blockchain = x.blockchain /\ y.key_images = x.key_images
        /\ y.history = x.history /\ Len(y.transfers) = Len(x.transfers)
    BY <1>3 DEF SpendsRead, SameOthers
  <1>5. /\ DOMAIN y.transfers = DOMAIN x.transfers
        /\ \A i \in DOMAIN x.transfers :
              /\ y.transfers[i].out = x.transfers[i].out
              /\ y.transfers[i].height = x.transfers[i].height
              /\ i \in Found(x, t) => y.transfers[i].spent /\ y.transfers[i].spent_height = h
              /\ i \notin Found(x, t) => y.transfers[i] = x.transfers[i]
    BY <1>3, <1>4, BookFacts DEF SpendsRead
  <1>6. /\ Len(Path[b]) = h /\ Follows(x, b) /\ part = {Txs[b][i] : i \in 1 .. k - 1}
    BY DEF AtTx
  <1>7. part \subseteq Range(Txs[b]) /\ t \in Range(Txs[b])
    <2>1. Len(Txs[b]) \in Nat /\ DOMAIN Txs[b] = 1 .. Len(Txs[b])
      BY ConstantFacts
    <2>2. \A i \in 1 .. k - 1 : i \in DOMAIN Txs[b]
      BY <2>1
    <2>3. \A i \in DOMAIN Txs[b] : Txs[b][i] \in Range(Txs[b])
      BY DEF Range
    <2>4. k \in DOMAIN Txs[b]
      BY <2>1
    <2> QED
      BY <2>2, <2>3, <2>4, <1>6
  <1>8. \A i : i \in Found(x, t) <=> i \in DOMAIN x.transfers /\ x.transfers[i].out \in Ins[t]
    BY <1>1, <1>2, FoundFacts
  <1>9. Indexed(y)
    BY <1>1, <1>3, SpendsIndexed
  <1> HIDE DEF t, tm
  <1>10. \A u, g : Done(y, {}, u, g) => Done(x, part, u, g)
    BY <1>4 DEF Done
  <1>11. \A u, g : Touched(x, tn, part, u, g) => Touched(y, tm, {}, u, g)
    <2> SUFFICES ASSUME NEW u, NEW g, Touched(x, tn, part, u, g) PROVE Touched(y, tm, {}, u, g)
      OBVIOUS
    <2>1. CASE g \in DOMAIN x.blockchain /\ u \in Range(Txs[x.blockchain[g]])
      BY <2>1, <1>4 DEF Touched, Done
    <2>2. CASE g = h /\ u \in part
      BY <2>2, <1>6, <1>7 DEF Touched, tm
    <2>3. CASE \E c \in tn : Len(Path[c]) = g /\ u \in Range(Txs[c])
      BY <2>3 DEF Touched, tm
    <2> QED
      BY <2>1, <2>2, <2>3 DEF Touched, Done
  <1>12. Touched(y, tm, {}, t, h)
    BY <1>6, <1>7 DEF Touched, tm
  <1> HIDE DEF h
  <1>13. OnTree(y)
    BY <1>1, <1>4 DEF OnTree
  <1>14. TornFollow(y, tm)
    BY <1>1, <1>4, <1>6 DEF TornFollow, Follows, tm
  <1>15. Ordered(y)
    BY <1>1, <1>4, <1>5 DEF Ordered
  <1>16. TransfersTrue(y)
    BY <1>1, <1>4, <1>5 DEF TransfersTrue
  <1>17. HistoryTrue(y, tm, {})
    BY <1>1, <1>4, <1>11 DEF HistoryTrue
  <1>18. SpendsTrue(y, tm, {})
    <2> SUFFICES ASSUME NEW i \in DOMAIN x.transfers, y.transfers[i].spent_height # 0
                 PROVE  /\ y.transfers[i].spent
                        /\ \E u \in Tx : /\ y.transfers[i].out \in Ins[u]
                              /\ Touched(y, tm, {}, u, y.transfers[i].spent_height)
      BY <1>5 DEF SpendsTrue
    <2>1. CASE i \in Found(x, t)
      <3>1. /\ y.transfers[i].spent /\ y.transfers[i].spent_height = h
            /\ y.transfers[i].out \in Ins[t]
        BY <2>1, <1>5, <1>8
      <3> QED
        BY <3>1, <1>2, <1>12
    <2>2. CASE i \notin Found(x, t)
      <3>1. y.transfers[i] = x.transfers[i]
        BY <2>2, <1>5
      <3>2. /\ x.transfers[i].spent
            /\ \E u \in Tx : /\ x.transfers[i].out \in Ins[u]
                             /\ Touched(x, tn, part, u, x.transfers[i].spent_height)
        BY <3>1, <1>1 DEF SpendsTrue
      <3> QED
        BY <3>1, <3>2, <1>11
    <2> QED
      BY <2>1, <2>2
  <1>19. OutputsFound(y, {})
    <2> SUFFICES ASSUME NEW u \in Tx, NEW g \in Nat, Done(y, {}, u, g), NEW o \in Range(Outs[u])
                 PROVE  o \in DOMAIN y.key_images /\ y.transfers[y.key_images[o]].height <= g
      BY DEF OutputsFound
    <2>1. o \in DOMAIN x.key_images /\ x.transfers[x.key_images[o]].height <= g
      BY <1>1, <1>10 DEF OutputsFound
    <2>2. x.key_images[o] \in DOMAIN x.transfers
      BY <2>1, <1>1 DEF Indexed
    <2> QED
      BY <2>1, <2>2, <1>4, <1>5
  <1>20. SpendsFound(y, {})
    <2> SUFFICES ASSUME NEW u \in Tx, NEW g \in Nat, Done(y, {}, u, g), NEW o \in Ins[u],
                        o \in DOMAIN y.key_images
                 PROVE  y.transfers[y.key_images[o]].spent_height = g
      BY DEF SpendsFound
    <2>1. x.transfers[x.key_images[o]].spent_height = g
      BY <1>1, <1>4, <1>10 DEF SpendsFound
    <2>2. x.key_images[o] \in DOMAIN x.transfers /\ x.transfers[x.key_images[o]].out = o
      BY <1>1, <1>4 DEF Indexed
    <2>3. o \notin Ins[t]
      BY <1>2, <1>10
    <2>4. x.key_images[o] \notin Found(x, t)
      BY <2>2, <2>3, <1>8
    <2> QED
      BY <2>1, <2>2, <2>4, <1>4, <1>5
  <1>21. HistoryFound(y, tm, {})
    BY <1>1, <1>4, <1>10 DEF HistoryFound, tm
  <1>22. Books(y, tm, {})
    BY <1>9, <1>13, <1>14, <1>15, <1>16, <1>17, <1>18, <1>19, <1>20, <1>21 DEF Books
  <1> QED
    BY <1>22 DEF tm

-----------------------------------------------------------------------------
(***************************************************************************)
(* A block ends, the chain splits, marks are set and taken away.           *)
(***************************************************************************)
(* The books are kept when the block that was read becomes one of the copy.*)
LEMMA EndBooks ==
    ASSUME NEW x \in Book, NEW tn \in SUBSET Block, NEW part, Books(x, tn, part),
           NEW b \in Block, AtTx(x, part, b, Len(Txs[b]) + 1)
    PROVE  LET y == [x EXCEPT !.blockchain = Append(@, b)] IN
           y \in Book /\ Books(y, tn \ {b}, {})
  <1> DEFINE h == Len(x.blockchain) + 1
             c == Append(x.blockchain, b)
             y == [x EXCEPT !.blockchain = Append(@, b)]
             tm == tn \ {b}
  <1>1. /\ OnTree(x) /\ TornFollow(x, tn) /\ Indexed(x) /\ Ordered(x)
        /\ TransfersTrue(x) /\ HistoryTrue(x, tn, part) /\ SpendsTrue(x, tn, part)
        /\ OutputsFound(x, part) /\ SpendsFound(x, part) /\ HistoryFound(x, tn, part)
    BY DEF Books
  <1>2. /\ x.blockchain \in Seq(Block) /\ Len(x.blockchain) \in Nat
        /\ DOMAIN x.blockchain = 1 .. Len(x.blockchain)
    BY BookFacts
  <1>3. /\ c \in Seq(Block) /\ Len(c) = h /\ DOMAIN c = 1 .. h /\ c[h] = b
        /\ \A i \in DOMAIN x.blockchain : c[i] = x.blockchain[i]
    BY <1>2
  <1>4. /\ y \in Book /\ y.blockchain = c /\ y.transfers = x.transfers
        /\ y.key_images = x.key_images /\ y.history = x.history
    <2> HIDE DEF c
    <2>1. y = [x EXCEPT !.blockchain = c]
      BY DEF c
    <2> QED
      BY <2>1, <1>3 DEF Book
  <1>5. /\ Len(Path[b]) = h /\ Follows(x, b) /\ part = {Txs[b][i] : i \in 1 .. Len(Txs[b])}
    <2>1. Len(Txs[b]) \in Nat
      BY ConstantFacts
    <2>2. (Len(Txs[b]) + 1) - 1 = Len(Txs[b])
      BY <2>1
    <2> QED
      BY <2>2 DEF AtTx
  <1>6. part = Range(Txs[b])
    BY <1>5, ConstantFacts DEF Range
  <1> HIDE DEF y, c
  <1>7. \A u, g : Done(y, {}, u, g) <=> Done(x, part, u, g)
    <2> SUFFICES ASSUME NEW u, NEW g PROVE Done(y, {}, u, g) <=> Done(x, part, u, g)
      OBVIOUS
    <2>1. Done(y, {}, u, g) <=> g \in 1 .. h /\ u \in Range(Txs[c[g]])
      BY <1>3, <1>4 DEF Done
    <2>2. Done(x, part, u, g) <=> \/ g \in DOMAIN x.blockchain /\ u \in Range(Txs[c[g]])
                                  \/ g = h /\ u \in Range(Txs[c[g]])
      BY <1>3, <1>6 DEF Done
    <2>3. g \in 1 .. h <=> g \in DOMAIN x.blockchain \/ g = h
      BY <1>2
    <2> QED
      BY <2>1, <2>2, <2>3
  <1>8. \A u, g : Touched(x, tn, part, u, g) => Touched(y, tm, {}, u, g)
    <2> SUFFICES ASSUME NEW u, NEW g, Touched(x, tn, part, u, g) PROVE Touched(y, tm, {}, u, g)
      OBVIOUS
    <2>1. CASE Done(x, part, u, g)
      BY <2>1, <1>7 DEF Touched
    <2>2. ASSUME NEW e \in tn, Len(Path[e]) = g, u \in Range(Txs[e])
          PROVE  Touched(y, tm, {}, u, g)
      <3>1. CASE e = b
        <4>1. Done(x, part, u, g)
          BY <2>2, <3>1, <1>5, <1>6 DEF Done
        <4> QED
          BY <4>1, <1>7 DEF Touched
      <3>2. CASE e # b
        BY <2>2, <3>2 DEF Touched
      <3> QED
        BY <3>1, <3>2
    <2> QED
      BY <2>1, <2>2 DEF Touched
  <1>9. OnTree(y)
    <2> SUFFICES ASSUME NEW i \in 1 .. h PROVE Path[c[i]] = SubSeq(c, 1, i)
      BY <1>3, <1>4 DEF OnTree
    <2>1. CASE i \in DOMAIN x.blockchain
      <3>1. Path[c[i]] = SubSeq(x.blockchain, 1, i)
        BY <2>1, <1>1, <1>3 DEF OnTree
      <3>2. SubSeq(x.blockchain, 1, i) = SubSeq(c, 1, i)
        <4>1. i \in 1 .. Len(x.blockchain) /\ i \in 1 .. Len(c)
          BY <2>1, <1>2, <1>3
        <4>2. \A j \in 1 .. i : x.blockchain[j] = c[j]
          BY <4>1, <1>2, <1>3
        <4> QED
          BY <4>1, <4>2, <1>2, <1>3
      <3> QED
        BY <3>1, <3>2
    <2>2. CASE i = h
      <3>1. Path[b] \in Seq(Block) /\ Len(Path[b]) = h /\ Path[b][h] = b
        BY <1>5, ConstantFacts
      <3>2. \A j \in 1 .. h - 1 : x.blockchain[j] = Path[b][j]
        BY <1>5 DEF Follows
      <3>3. \A j \in 1 .. h : Path[b][j] = c[j]
        <4> TAKE j \in 1 .. h
        <4>1. CASE j = h
          BY <4>1, <3>1, <1>3
        <4>2. CASE j # h
          <5>1. j \in 1 .. h - 1 /\ j \in DOMAIN x.blockchain
            BY <4>2, <1>2
          <5> QED
            BY <5>1, <3>2, <1>3
        <4> QED
          BY <4>1, <4>2
      <3>4. SubSeq(c, 1, h) = c /\ Path[b] = c
        <4> HIDE DEF h
        <4>1. Path[b] = c
          BY <3>1, <3>3, <1>3
        <4>2. SubSeq(c, 1, h) = c
          BY <1>3
        <4> QED
          BY <4>1, <4>2
      <3> QED
        BY <2>2, <3>4, <1>3
    <2>3. i \in DOMAIN x.blockchain \/ i = h
      BY <1>2
    <2> QED
      BY <2>1, <2>2, <2>3
  <1>10. TornFollow(y, tm)
    <2> SUFFICES ASSUME NEW e \in tn PROVE Follows(y, e)
      BY DEF TornFollow
    <2>1. Len(Path[e]) \in Nat /\ Len(Path[e]) <= Len(x.blockchain) + 1
      BY <1>1, ConstantFacts DEF TornFollow, Follows
    <2>2. \A i \in 1 .. Len(Path[e]) - 1 : x.blockchain[i] = Path[e][i]
      BY <1>1 DEF TornFollow, Follows
    <2>3. \A i \in 1 .. Len(Path[e]) - 1 : c[i] = Path[e][i]
      <3> TAKE i \in 1 .. Len(Path[e]) - 1
      <3>1. i \in DOMAIN x.blockchain
        BY <2>1, <1>2
      <3> QED
        BY <3>1, <2>2, <1>3
    <2>4. Len(Path[e]) <= Len(c) + 1
      BY <2>1, <1>2, <1>3
    <2> QED
      BY <2>3, <2>4, <1>4 DEF Follows
  <1>11. Indexed(y)
    BY <1>1, <1>4 DEF Indexed
  <1>12. Ordered(y)
    <2>1. \A n \in 1 .. Len(x.blockchain) + 1 : n \in 1 .. Len(c) + 1
      BY <1>2, <1>3
    <2> QED
      BY <2>1, <1>1, <1>4 DEF Ordered
  <1>13. TransfersTrue(y)
    BY <1>1, <1>4 DEF TransfersTrue
  <1>14. HistoryTrue(y, tm, {})
    <2> HIDE DEF tm
    <2> QED BY <1>1, <1>4, <1>8 DEF HistoryTrue
  <1>15. SpendsTrue(y, tm, {})
    <2> HIDE DEF tm
    <2> QED BY <1>1, <1>4, <1>8 DEF SpendsTrue
  <1>16. OutputsFound(y, {})
    BY <1>1, <1>4, <1>7 DEF OutputsFound
  <1>17. SpendsFound(y, {})
    BY <1>1, <1>4, <1>7 DEF SpendsFound
  <1>18. HistoryFound(y, tm, {})
    <2> SUFFICES ASSUME NEW u \in Tx, NEW g \in Nat, Done(x, part, u, g), Counts(u)
                 PROVE  <<u, g>> \in DOMAIN x.history \/ \E e \in tm : Len(Path[e]) < g
      BY <1>4, <1>7 DEF HistoryFound
    <2>1. <<u, g>> \in DOMAIN x.history \/ \E e \in tn : Len(Path[e]) < g
      BY <1>1 DEF HistoryFound
    <2>2. g \in 1 .. h
      BY <1>2 DEF Done
    <2>3. ~(Len(Path[b]) < g)
      BY <2>2, <1>2, <1>5
    <2> QED
      BY <2>1, <2>3
  <1>19. Books(y, tm, {})
    BY <1>9, <1>10, <1>11, <1>12, <1>13, <1>14, <1>15, <1>16, <1>17, <1>18 DEF Books
  <1> QED
    BY <1>4, <1>19 DEF y

(* What goes at a height: the transfers from the first one there on.       *)
LEMMA FirstAtFacts ==
    ASSUME NEW x \in Book, Ordered(x), NEW d \in Nat
    PROVE  LET n == FirstAt(x, d) - 1 IN
           /\ n \in Nat /\ n <= Len(x.transfers)
           /\ \A i \in DOMAIN x.transfers : i <= n <=> x.transfers[i].height < d
  <1> DEFINE S == {i \in DOMAIN x.transfers : x.transfers[i].height >= d} \cup {Len(x.transfers) + 1}
             m == FirstAt(x, d)
  <1>1. /\ Len(x.transfers) \in Nat /\ DOMAIN x.transfers = 1 .. Len(x.transfers)
        /\ \A i \in DOMAIN x.transfers : x.transfers[i].height \in Nat
    BY BookFacts
  <1>2. S \in SUBSET Nat /\ S # {}
    BY <1>1
  <1>3. \E i \in S : \A j \in S : i <= j
    <2> HIDE DEF S
    <2> QED BY <1>2, LeastElement
  <1>4. m \in S /\ \A j \in S : m <= j
    <2>1. m = CHOOSE i \in S : \A j \in S : i <= j
      BY DEF FirstAt, Min
    <2> HIDE DEF S, m
    <2> QED BY <2>1, <1>3
  <1> HIDE DEF m
  <1>5. m \in 1 .. Len(x.transfers) + 1
    BY <1>1, <1>4
  <1>6. ASSUME NEW i \in DOMAIN x.transfers PROVE i <= m - 1 <=> x.transfers[i].height < d
    <2>1. CASE i <= m - 1
      <3>1. i \notin S
        BY <2>1, <1>1, <1>4, <1>5
      <3> QED
        BY <2>1, <3>1, <1>1
    <2>2. CASE ~(i <= m - 1)
      <3>1. m <= i /\ m \in DOMAIN x.transfers
        BY <2>2, <1>1, <1>5
      <3>2. x.transfers[m].height >= d
        BY <3>1, <1>1, <1>4
      <3>3. x.transfers[m].height <= x.transfers[i].height
        BY <3>1 DEF Ordered
      <3> QED
        BY <2>2, <3>1, <3>2, <3>3, <1>1
    <2> QED
      BY <2>1, <2>2
  <1> QED
    BY <1>1, <1>5, <1>6 DEF m

(* y is what detach_blockchain leaves of x at the height d.                *)
Detached(x, y, d) ==
    /\ y \in Book /\ y.blockchain = SubSeq(x.blockchain, 1, d - 1)
    /\ DOMAIN y.history = {e \in DOMAIN x.history : e[2] < d}
    /\ \A e \in DOMAIN y.history : y.history[e] = x.history[e]
    /\ DOMAIN y.transfers \subseteq DOMAIN x.transfers
    /\ \A i \in DOMAIN x.transfers : i \in DOMAIN y.transfers <=> x.transfers[i].height < d
    /\ \A i \in DOMAIN y.transfers :
          /\ y.transfers[i].out = x.transfers[i].out
          /\ y.transfers[i].height = x.transfers[i].height
          /\ x.transfers[i].spent_height < d => y.transfers[i] = x.transfers[i]
          /\ x.transfers[i].spent_height >= d => y.transfers[i].spent_height = 0
    /\ DOMAIN y.key_images
            = {o \in DOMAIN x.key_images : x.transfers[x.key_images[o]].height < d}
    /\ \A o \in DOMAIN y.key_images : y.key_images[o] = x.key_images[o]

(* detach_blockchain does what Detached says.                              *)
LEMMA DetachFacts ==
    ASSUME NEW x \in Book, Ordered(x), Indexed(x), NEW d \in 1 .. Len(x.blockchain)
    PROVE  Detached(x, detach_blockchain(x, d), d)
  <1> DEFINE n == FirstAt(x, d) - 1
             s == [i \in 1 .. n |-> Unspend(x.transfers[i], d)]
             k == DetachKeyImages(x, n)
             c == SubSeq(x.blockchain, 1, d - 1)
             hist == Without(x.history, {e \in DOMAIN x.history : e[2] >= d})
             y == detach_blockchain(x, d)
  <1>1. /\ Len(x.transfers) \in Nat /\ DOMAIN x.transfers = 1 .. Len(x.transfers)
        /\ x.blockchain \in Seq(Block) /\ Len(x.blockchain) \in Nat
        /\ x.key_images \in Maps(Out, Nat) /\ x.history \in Histories
        /\ DOMAIN x.history \subseteq Tx \X Nat
        /\ \A i \in DOMAIN x.transfers :
              x.transfers[i] \in Transfer /\ x.transfers[i].spent_height \in Nat
        /\ \A o \in DOMAIN x.key_images : x.key_images[o] \in Nat
    BY BookFacts
  <1>2. d \in Nat
    BY <1>1
  <1>3. /\ n \in Nat /\ n <= Len(x.transfers)
        /\ \A i \in DOMAIN x.transfers : i <= n <=> x.transfers[i].height < d
    BY <1>2, FirstAtFacts
  <1>4. y = [x EXCEPT !.transfers = s, !.key_images = k, !.blockchain = c, !.history = hist]
    BY DEF detach_blockchain
  <1> HIDE DEF n, y
  <1>5. \A i \in 1 .. n : i \in DOMAIN x.transfers
    BY <1>1, <1>3
  <1>6. ASSUME NEW r \in Transfer
        PROVE  /\ Unspend(r, d) \in Transfer /\ Unspend(r, d).out = r.out
               /\ Unspend(r, d).height = r.height
               /\ r.spent_height < d => Unspend(r, d) = r
               /\ r.spent_height >= d => Unspend(r, d).spent_height = 0
    <2>1. r.spent_height \in Nat
      BY DEF Transfer
    <2>2. CASE r.spent_height >= d
      <3>1. Unspend(r, d) = [r EXCEPT !.spent = FALSE, !.spent_height = 0]
        BY <2>2 DEF Unspend
      <3> DEFINE q == [r EXCEPT !.spent = FALSE, !.spent_height = 0]
      <3>2. /\ q \in Transfer /\ q.out = r.out /\ q.height = r.height /\ q.spent_height = 0
        BY DEF Transfer
      <3>3. ~(r.spent_height < d)
        BY <2>1, <2>2, <1>2
      <3> HIDE DEF q
      <3>4. Unspend(r, d) = q
        BY <3>1 DEF q
      <3> QED
        BY <3>2, <3>3, <3>4
    <2>3. CASE ~(r.spent_height >= d)
      <3>1. Unspend(r, d) = r
        BY <2>3 DEF Unspend
      <3> QED
        BY <2>3, <3>1
    <2> QED
      BY <2>2, <2>3
  <1>7. /\ s \in Seq(Transfer) /\ DOMAIN s = 1 .. n
        /\ \A i \in 1 .. n : s[i] = Unspend(x.transfers[i], d)
    <2>1. \A i \in 1 .. n : Unspend(x.transfers[i], d) \in Transfer
      BY <1>1, <1>5, <1>6
    <2>2. s \in [1 .. n -> Transfer]
      BY <2>1
    <2> QED
      BY <2>2, <1>3
  <1>8. /\ k \in Maps(Out, Nat) /\ DOMAIN k = {o \in DOMAIN x.key_images : ~(x.key_images[o] > n)}
        /\ \A o \in DOMAIN k : k[o] = x.key_images[o]
    <2> DEFINE T == {o \in DOMAIN x.key_images : x.key_images[o] > n}
    <2>1. k = Without(x.key_images, T)
      BY DEF DetachKeyImages
    <2>2. DOMAIN x.key_images \ T = {o \in DOMAIN x.key_images : ~(x.key_images[o] > n)}
      OBVIOUS
    <2> HIDE DEF T
    <2>3. /\ Without(x.key_images, T) \in Maps(Out, Nat)
          /\ DOMAIN Without(x.key_images, T) = DOMAIN x.key_images \ T
          /\ \A j \in DOMAIN x.key_images \ T : Without(x.key_images, T)[j] = x.key_images[j]
      BY <1>1, IndexWithout
    <2> HIDE DEF k
    <2> QED
      BY <2>1, <2>2, <2>3
  <1>9. /\ c \in Seq(Block) /\ hist \in Histories
        /\ DOMAIN hist = {e \in DOMAIN x.history : e[2] < d}
        /\ \A e \in DOMAIN hist : hist[e] = x.history[e]
    <2>1. c \in Seq(Block)
      BY <1>1
    <2> DEFINE T == {e \in DOMAIN x.history : e[2] >= d}
    <2>2. \A e \in DOMAIN x.history : e[2] \in Nat
      BY <1>1
    <2>3. DOMAIN x.history \ T = {e \in DOMAIN x.history : e[2] < d}
      BY <2>2, <1>2
    <2>4. hist = Without(x.history, T)
      OBVIOUS
    <2> HIDE DEF T, hist
    <2>5. /\ Without(x.history, T) \in Histories /\ DOMAIN Without(x.history, T) = DOMAIN x.history \ T
          /\ \A j \in DOMAIN x.history \ T : Without(x.history, T)[j] = x.history[j]
      BY <1>1, HistoryWithout
    <2> QED
      BY <2>1, <2>3, <2>4, <2>5
  <1> HIDE DEF s, k, c, hist
  <1>10. /\ y \in Book /\ y.transfers = s /\ y.key_images = k /\ y.blockchain = c
         /\ y.history = hist
    BY <1>4, <1>7, <1>8, <1>9 DEF Book
  <1>11. DOMAIN y.transfers \subseteq DOMAIN x.transfers
    BY <1>5, <1>7, <1>10
  <1>12. \A i \in DOMAIN x.transfers : i \in DOMAIN y.transfers <=> x.transfers[i].height < d
    BY <1>1, <1>3, <1>7, <1>10
  <1>13. ASSUME NEW i \in DOMAIN y.transfers
         PROVE  /\ y.transfers[i].out = x.transfers[i].out
                /\ y.transfers[i].height = x.transfers[i].height
                /\ x.transfers[i].spent_height < d => y.transfers[i] = x.transfers[i]
                /\ x.transfers[i].spent_height >= d => y.transfers[i].spent_height = 0
    <2>1. i \in 1 .. n /\ x.transfers[i] \in Transfer
      BY <1>1, <1>7, <1>10, <1>11
    <2>2. y.transfers[i] = Unspend(x.transfers[i], d)
      BY <2>1, <1>7, <1>10
    <2> QED
      BY <2>1, <2>2, <1>6
  <1>14. DOMAIN k = {o \in DOMAIN x.key_images : x.transfers[x.key_images[o]].height < d}
    <2>1. ASSUME NEW o \in DOMAIN x.key_images
          PROVE  ~(x.key_images[o] > n) <=> x.transfers[x.key_images[o]].height < d
      <3>1. x.key_images[o] \in DOMAIN x.transfers
        BY DEF Indexed
      <3>2. x.key_images[o] <= n <=> x.transfers[x.key_images[o]].height < d
        BY <3>1, <1>3
      <3>3. x.key_images[o] \in Nat
        BY <1>1
      <3> QED
        BY <3>2, <3>3, <1>3
    <2> QED
      BY <2>1, <1>8
  <1>15. Detached(x, y, d)
    BY <1>8, <1>9, <1>10, <1>11, <1>12, <1>13, <1>14 DEF Detached, c
  <1> QED
    BY <1>15 DEF y

(* The books are kept by a split.                                          *)
LEMMA DetachBooks ==
    ASSUME NEW x \in Book, NEW tn \in SUBSET Block, Books(x, tn, {}),
           NEW d \in 1 .. Len(x.blockchain), NEW y, Detached(x, y, d)
    PROVE  Books(y, {b \in tn : Height(b) < d}, {})
  <1> DEFINE tm == {b \in tn : Height(b) < d}
  <1>1. /\ OnTree(x) /\ TornFollow(x, tn) /\ Indexed(x) /\ Ordered(x)
        /\ TransfersTrue(x) /\ HistoryTrue(x, tn, {}) /\ SpendsTrue(x, tn, {})
        /\ OutputsFound(x, {}) /\ SpendsFound(x, {}) /\ HistoryFound(x, tn, {})
    BY DEF Books
  <1>2. /\ x.blockchain \in Seq(Block) /\ Len(x.blockchain) \in Nat
        /\ DOMAIN x.blockchain = 1 .. Len(x.blockchain) /\ DOMAIN x.history \subseteq Tx \X Nat
        /\ \A i \in DOMAIN x.transfers :
              x.transfers[i].height \in Nat /\ x.transfers[i].spent_height \in Nat
    BY BookFacts
  <1>3. /\ y \in Book /\ DOMAIN y.transfers \subseteq DOMAIN x.transfers
        /\ DOMAIN y.history = {e \in DOMAIN x.history : e[2] < d}
        /\ \A i \in DOMAIN x.transfers : i \in DOMAIN y.transfers <=> x.transfers[i].height < d
        /\ \A i \in DOMAIN y.transfers :
              /\ y.transfers[i].out = x.transfers[i].out
              /\ y.transfers[i].height = x.transfers[i].height
              /\ x.transfers[i].spent_height < d => y.transfers[i] = x.transfers[i]
              /\ x.transfers[i].spent_height >= d => y.transfers[i].spent_height = 0
        /\ DOMAIN y.key_images
              = {o \in DOMAIN x.key_images : x.transfers[x.key_images[o]].height < d}
        /\ \A o \in DOMAIN y.key_images : y.key_images[o] = x.key_images[o]
    BY DEF Detached
  <1>4. /\ Len(y.blockchain) = d - 1 /\ DOMAIN y.blockchain = 1 .. d - 1
        /\ \A i \in 1 .. d - 1 : y.blockchain[i] = x.blockchain[i]
    <2>1. y.blockchain = SubSeq(x.blockchain, 1, d - 1)
      BY DEF Detached
    <2> QED
      BY <2>1, <1>2
  <1>5. \A t \in Tx, h \in Nat : <<t, h>> \in DOMAIN y.history <=> <<t, h>> \in DOMAIN x.history /\ h < d
    BY <1>3
  <1>6. \A u, g : Done(y, {}, u, g) <=> Done(x, {}, u, g) /\ g \in 1 .. d - 1
    <2>1. \A g : g \in 1 .. d - 1 => g \in DOMAIN x.blockchain
      BY <1>2
    <2> QED
      BY <2>1, <1>4 DEF Done
  <1>7. \A u, g : Done(x, {}, u, g) => g \in 1 .. Len(x.blockchain)
    BY <1>2 DEF Done
  <1>8. \A b \in tn : b \in tm <=> Len(Path[b]) < d
    BY DEF Height
  <1> HIDE DEF tm
  <1>9. tm \subseteq tn
    BY DEF tm
  <1>10. \A u, g : Touched(x, tn, {}, u, g) /\ g < d => Touched(y, tm, {}, u, g)
    <2> SUFFICES ASSUME NEW u, NEW g, Touched(x, tn, {}, u, g), g < d
                 PROVE  Touched(y, tm, {}, u, g)
      OBVIOUS
    <2>1. CASE Done(x, {}, u, g)
      <3>1. g \in 1 .. d - 1
        BY <2>1, <1>2, <1>7
      <3> QED
        BY <2>1, <3>1, <1>6 DEF Touched
    <2>2. CASE \E b \in tn : Len(Path[b]) = g /\ u \in Range(Txs[b])
      BY <2>2, <1>8 DEF Touched
    <2> QED
      BY <2>1, <2>2 DEF Touched
  <1>11. OnTree(y)
    <2> SUFFICES ASSUME NEW i \in 1 .. d - 1
                 PROVE  Path[y.blockchain[i]] = SubSeq(y.blockchain, 1, i)
      BY <1>4 DEF OnTree
    <2>1. i \in DOMAIN x.blockchain
      BY <1>2
    <2>2. Path[y.blockchain[i]] = SubSeq(x.blockchain, 1, i)
      BY <2>1, <1>1, <1>4 DEF OnTree
    <2>3. y.blockchain \in Seq(Block)
      BY <1>3, BookFacts
    <2>4. \A j \in 1 .. i : x.blockchain[j] = y.blockchain[j]
      BY <1>4
    <2>5. SubSeq(x.blockchain, 1, i) = SubSeq(y.blockchain, 1, i)
      BY <2>1, <2>3, <2>4, <1>2, <1>4
    <2> QED
      BY <2>2, <2>5
  <1>12. TornFollow(y, tm)
    <2> SUFFICES ASSUME NEW e \in tm PROVE Follows(y, e)
      BY DEF TornFollow
    <2>1. Len(Path[e]) \in Nat /\ Len(Path[e]) < d
      BY <1>8, <1>9, ConstantFacts
    <2>2. \A i \in 1 .. Len(Path[e]) - 1 : x.blockchain[i] = Path[e][i]
      BY <1>1, <1>9 DEF TornFollow, Follows
    <2>3. \A i \in 1 .. Len(Path[e]) - 1 : y.blockchain[i] = Path[e][i]
      BY <2>1, <2>2, <1>4
    <2>4. Len(Path[e]) <= Len(y.blockchain) + 1
      BY <2>1, <1>2, <1>4
    <2> QED
      BY <2>3, <2>4 DEF Follows
  <1>13. Indexed(y)
    <2>1. ASSUME NEW o \in DOMAIN y.key_images
          PROVE  y.key_images[o] \in DOMAIN y.transfers /\ y.transfers[y.key_images[o]].out = o
      <3>1. o \in DOMAIN x.key_images /\ x.transfers[x.key_images[o]].height < d
        BY <1>3
      <3>2. x.key_images[o] \in DOMAIN x.transfers /\ x.transfers[x.key_images[o]].out = o
        BY <3>1, <1>1 DEF Indexed
      <3> QED
        BY <3>1, <3>2, <1>3
    <2>2. ASSUME NEW i \in DOMAIN y.transfers
          PROVE  /\ y.transfers[i].out \in DOMAIN y.key_images
                 /\ y.key_images[y.transfers[i].out] = i
      <3>1. i \in DOMAIN x.transfers /\ x.transfers[i].height < d
        BY <1>3
      <3>2. x.transfers[i].out \in DOMAIN x.key_images /\ x.key_images[x.transfers[i].out] = i
        BY <3>1, <1>1 DEF Indexed
      <3>3. x.transfers[i].out \in DOMAIN y.key_images
        BY <3>1, <3>2, <1>3
      <3> QED
        BY <3>2, <3>3, <1>3
    <2> QED
      BY <2>1, <2>2 DEF Indexed
  <1>14. Ordered(y)
    <2>1. ASSUME NEW i \in DOMAIN y.transfers
          PROVE  y.transfers[i].height \in 1 .. Len(y.blockchain) + 1
      <3>1. i \in DOMAIN x.transfers /\ x.transfers[i].height < d
        BY <1>3
      <3>2. x.transfers[i].height \in 1 .. Len(x.blockchain) + 1
        BY <3>1, <1>1 DEF Ordered
      <3> QED
        BY <3>1, <3>2, <1>2, <1>3, <1>4
    <2> QED
      BY <2>1, <1>1, <1>3 DEF Ordered
  <1>15. TransfersTrue(y)
    <2> SUFFICES ASSUME NEW i \in DOMAIN y.transfers
                 PROVE  \E t \in Tx : /\ y.transfers[i].out \in Range(Outs[t])
                                      /\ <<t, y.transfers[i].height>> \in DOMAIN y.history
      BY DEF TransfersTrue
    <2>1. i \in DOMAIN x.transfers /\ x.transfers[i].height < d /\ x.transfers[i].height \in Nat
      BY <1>2, <1>3
    <2>2. PICK t \in Tx : /\ x.transfers[i].out \in Range(Outs[t])
                          /\ <<t, x.transfers[i].height>> \in DOMAIN x.history
      BY <2>1, <1>1 DEF TransfersTrue
    <2> QED
      BY <2>1, <2>2, <1>3, <1>5
  <1>16. HistoryTrue(y, tm, {})
    BY <1>1, <1>5, <1>10 DEF HistoryTrue
  <1>17. SpendsTrue(y, tm, {})
    <2> SUFFICES ASSUME NEW i \in DOMAIN y.transfers, y.transfers[i].spent_height # 0
                 PROVE  /\ y.transfers[i].spent
                        /\ \E u \in Tx : /\ y.transfers[i].out \in Ins[u]
                              /\ Touched(y, tm, {}, u, y.transfers[i].spent_height)
      BY DEF SpendsTrue
    <2>1. i \in DOMAIN x.transfers /\ x.transfers[i].spent_height \in Nat
      BY <1>2, <1>3
    <2>2. x.transfers[i].spent_height < d
      BY <2>1, <1>2, <1>3
    <2>3. y.transfers[i] = x.transfers[i]
      BY <2>2, <1>3
    <2> QED
      BY <2>1, <2>2, <2>3, <1>1, <1>10 DEF SpendsTrue
  <1>18. OutputsFound(y, {})
    <2> SUFFICES ASSUME NEW u \in Tx, NEW g \in Nat, Done(y, {}, u, g), NEW o \in Range(Outs[u])
                 PROVE  o \in DOMAIN y.key_images /\ y.transfers[y.key_images[o]].height <= g
      BY DEF OutputsFound
    <2>1. Done(x, {}, u, g) /\ g < d
      BY <1>2, <1>6
    <2>2. o \in DOMAIN x.key_images /\ x.transfers[x.key_images[o]].height <= g
      BY <2>1, <1>1 DEF OutputsFound
    <2>3. x.key_images[o] \in DOMAIN x.transfers
      BY <2>2, <1>1 DEF Indexed
    <2>4. x.transfers[x.key_images[o]].height < d
      BY <2>1, <2>2, <2>3, <1>2
    <2> QED
      BY <2>2, <2>3, <2>4, <1>3
  <1>19. SpendsFound(y, {})
    <2> SUFFICES ASSUME NEW u \in Tx, NEW g \in Nat, Done(y, {}, u, g), NEW o \in Ins[u],
                        o \in DOMAIN y.key_images
                 PROVE  y.transfers[y.key_images[o]].spent_height = g
      BY DEF SpendsFound
    <2>1. Done(x, {}, u, g) /\ g < d
      BY <1>2, <1>6
    <2>2. o \in DOMAIN x.key_images /\ y.key_images[o] = x.key_images[o]
      BY <1>3
    <2>3. x.transfers[x.key_images[o]].spent_height = g
      BY <2>1, <2>2, <1>1 DEF SpendsFound
    <2>4. y.key_images[o] \in DOMAIN y.transfers
      BY <1>13 DEF Indexed
    <2> QED
      BY <2>1, <2>2, <2>3, <2>4, <1>3
  <1>20. HistoryFound(y, tm, {})
    <2> SUFFICES ASSUME NEW u \in Tx, NEW g \in Nat, Done(y, {}, u, g), Counts(u)
                 PROVE  <<u, g>> \in DOMAIN y.history \/ \E e \in tm : Len(Path[e]) < g
      BY DEF HistoryFound
    <2>1. Done(x, {}, u, g) /\ g < d
      BY <1>2, <1>6
    <2>2. <<u, g>> \in DOMAIN x.history \/ \E e \in tn : Len(Path[e]) < g
      BY <2>1, <1>1 DEF HistoryFound
    <2>3. ASSUME NEW e \in tn, Len(Path[e]) < g PROVE e \in tm
      <3>1. Len(Path[e]) \in Nat
        BY ConstantFacts
      <3> QED
        BY <3>1, <2>1, <2>3, <1>8
    <2> QED
      BY <2>1, <2>2, <2>3, <1>5
  <1>21. Books(y, tm, {})
    BY <1>11, <1>12, <1>13, <1>14, <1>15, <1>16, <1>17, <1>18, <1>19, <1>20 DEF Books
  <1> QED
    BY <1>21 DEF tm

(* y differs from x in marks of transfers that no block has spent, and in  *)
(* the transactions that wait.                                             *)
Remarked(x, y) ==
    /\ y \in Book /\ y.blockchain = x.blockchain /\ y.key_images = x.key_images
    /\ y.history = x.history /\ DOMAIN y.transfers = DOMAIN x.transfers
    /\ \A i \in DOMAIN x.transfers :
          /\ y.transfers[i].out = x.transfers[i].out
          /\ y.transfers[i].height = x.transfers[i].height
          /\ y.transfers[i].spent_height = x.transfers[i].spent_height
          /\ x.transfers[i].spent_height # 0 /\ x.transfers[i].spent => y.transfers[i].spent

(* The books are kept by such marks.                                       *)
LEMMA RemarkBooks ==
    ASSUME NEW x \in Book, NEW tn, NEW part, Books(x, tn, part), NEW y, Remarked(x, y)
    PROVE  Books(y, tn, part)
  <1>1. /\ OnTree(x) /\ TornFollow(x, tn) /\ Indexed(x) /\ Ordered(x)
        /\ TransfersTrue(x) /\ HistoryTrue(x, tn, part) /\ SpendsTrue(x, tn, part)
        /\ OutputsFound(x, part) /\ SpendsFound(x, part) /\ HistoryFound(x, tn, part)
    BY DEF Books
  <1>2. /\ y \in Book /\ y.blockchain = x.blockchain /\ y.key_images = x.key_images
        /\ y.history = x.history /\ DOMAIN y.transfers = DOMAIN x.transfers
        /\ \A i \in DOMAIN x.transfers :
              /\ y.transfers[i].out = x.transfers[i].out
              /\ y.transfers[i].height = x.transfers[i].height
              /\ y.transfers[i].spent_height = x.transfers[i].spent_height
              /\ x.transfers[i].spent_height # 0 /\ x.transfers[i].spent => y.transfers[i].spent
    BY DEF Remarked
  <1>3. \A u, g : Done(y, part, u, g) <=> Done(x, part, u, g)
    BY <1>2 DEF Done
  <1>4. \A u, g : Touched(y, tn, part, u, g) <=> Touched(x, tn, part, u, g)
    BY <1>3 DEF Touched
  <1>5. \A o \in DOMAIN x.key_images : x.key_images[o] \in DOMAIN x.transfers
    BY <1>1 DEF Indexed
  <1>6. OnTree(y) /\ TornFollow(y, tn)
    BY <1>1, <1>2 DEF OnTree, TornFollow, Follows
  <1>7. Indexed(y)
    BY <1>1, <1>2 DEF Indexed
  <1>8. Ordered(y)
    BY <1>1, <1>2 DEF Ordered
  <1>9. TransfersTrue(y)
    BY <1>1, <1>2 DEF TransfersTrue
  <1>10. HistoryTrue(y, tn, part)
    BY <1>1, <1>2, <1>4 DEF HistoryTrue
  <1>11. SpendsTrue(y, tn, part)
    BY <1>1, <1>2, <1>4 DEF SpendsTrue
  <1>12. OutputsFound(y, part)
    BY <1>1, <1>2, <1>3, <1>5 DEF OutputsFound
  <1>13. SpendsFound(y, part)
    BY <1>1, <1>2, <1>3, <1>5 DEF SpendsFound
  <1>14. HistoryFound(y, tn, part)
    BY <1>1, <1>2, <1>3 DEF HistoryFound
  <1> QED
    BY <1>6, <1>7, <1>8, <1>9, <1>10, <1>11, <1>12, <1>13, <1>14 DEF Books

(* A wallet with no history.                                               *)
LEMMA ClearedBooks == Cleared \in Book /\ Books(Cleared, {}, {})
  <1>1. Cleared \in Book
    <2>1. <<>> \in Seq(Block) /\ <<>> \in Seq(Transfer)
      OBVIOUS
    <2>2. <<>> \in Maps(Out, Nat) /\ <<>> \in Maps(Tx, Waiting) /\ <<>> \in Histories
      <3>1. ASSUME NEW R PROVE <<>> \in [{} -> R]
        OBVIOUS
      <3>2. \A S : {} \in SUBSET S
        OBVIOUS
      <3> QED
        BY <3>1, <3>2 DEF Maps, Histories
    <2> QED
      BY <2>1, <2>2 DEF Cleared, Book
  <1>2. /\ Cleared.blockchain = <<>> /\ Cleared.transfers = <<>> /\ Cleared.key_images = <<>>
        /\ Cleared.history = <<>>
    BY DEF Cleared
  <1>3. \A i : i \notin DOMAIN <<>>
    OBVIOUS
  <1>4. \A u, g : ~Done(Cleared, {}, u, g)
    BY <1>2, <1>3 DEF Done
  <1>5. OnTree(Cleared) /\ TornFollow(Cleared, {}) /\ Indexed(Cleared) /\ Ordered(Cleared)
    BY <1>2, <1>3 DEF OnTree, TornFollow, Indexed, Ordered
  <1>6. TransfersTrue(Cleared) /\ HistoryTrue(Cleared, {}, {}) /\ SpendsTrue(Cleared, {}, {})
    BY <1>2, <1>3 DEF TransfersTrue, HistoryTrue, SpendsTrue
  <1>7. OutputsFound(Cleared, {}) /\ SpendsFound(Cleared, {}) /\ HistoryFound(Cleared, {}, {})
    BY <1>4 DEF OutputsFound, SpendsFound, HistoryFound
  <1> QED
    BY <1>1, <1>5, <1>6, <1>7 DEF Books

-----------------------------------------------------------------------------
(***************************************************************************)
(* What the entries of the history say.                                    *)
(***************************************************************************)
(* Nothing is entered at first.                                            *)
LEMMA ClearedTold == Told(Cleared, {}, {})
  <1>1. Cleared.history = <<>> /\ \A e : e \notin DOMAIN <<>>
    BY DEF Cleared
  <1> QED
    BY <1>1 DEF Told

(* Marks leave the entries true.                                           *)
LEMMA RemarkTold ==
    ASSUME NEW x \in Book, NEW tn, NEW rr, NEW part, Books(x, tn, part), Told(x, tn, rr),
           NEW y, Remarked(x, y)
    PROVE  Told(y, tn, rr)
  <1>1. /\ y.blockchain = x.blockchain /\ y.key_images = x.key_images /\ y.history = x.history
        /\ \A i \in DOMAIN x.transfers : y.transfers[i].height = x.transfers[i].height
    BY DEF Remarked
  <1>2. \A o \in DOMAIN x.key_images : x.key_images[o] \in DOMAIN x.transfers
    BY DEF Books, Indexed
  <1>3. ASSUME NEW e \in DOMAIN x.history PROVE EntryTold(y, tn, rr, e)
    <2>1. EntryTold(x, tn, rr, e)
      BY DEF Told
    <2> QED
      BY <2>1, <1>1, <1>2 DEF EntryTold
  <1> QED
    BY <1>1, <1>3 DEF Told

(* A split leaves true those that stay.                                    *)
LEMMA DetachTold ==
    ASSUME NEW x \in Book, NEW tn \in SUBSET Block, NEW rr \in SUBSET Block, NEW part,
           Books(x, tn, part), Told(x, tn, rr), NEW d \in 1 .. Len(x.blockchain),
           NEW y, Detached(x, y, d)
    PROVE  Told(y, {b \in tn : Height(b) < d}, {b \in rr : Height(b) < d})
  <1> DEFINE tm == {b \in tn : Height(b) < d}
             rm == {b \in rr : Height(b) < d}
  <1>1. /\ x.blockchain \in Seq(Block) /\ Len(x.blockchain) \in Nat
        /\ DOMAIN x.blockchain = 1 .. Len(x.blockchain) /\ DOMAIN x.history \subseteq Tx \X Nat
        /\ \A i \in DOMAIN x.transfers : x.transfers[i].height \in Nat
    BY BookFacts
  <1>2. /\ DOMAIN y.blockchain = 1 .. d - 1
        /\ \A i \in 1 .. d - 1 : y.blockchain[i] = x.blockchain[i]
    <2>1. y.blockchain = SubSeq(x.blockchain, 1, d - 1)
      BY DEF Detached
    <2> QED
      BY <2>1, <1>1
  <1>3. /\ DOMAIN y.history = {e \in DOMAIN x.history : e[2] < d}
        /\ \A e \in DOMAIN y.history : y.history[e] = x.history[e]
        /\ \A i \in DOMAIN x.transfers : i \in DOMAIN y.transfers <=> x.transfers[i].height < d
        /\ \A i \in DOMAIN y.transfers : y.transfers[i].height = x.transfers[i].height
        /\ DOMAIN y.key_images
              = {o \in DOMAIN x.key_images : x.transfers[x.key_images[o]].height < d}
        /\ \A o \in DOMAIN y.key_images : y.key_images[o] = x.key_images[o]
    BY DEF Detached
  <1>4. \A b \in tn : b \in tm <=> Len(Path[b]) < d
    BY DEF Height
  <1>5. \A b \in rr : b \in rm <=> Len(Path[b]) < d
    BY DEF Height
  <1>6. tm \subseteq tn /\ rm \subseteq rr /\ tn \subseteq rr
    BY DEF Told
  <1> HIDE DEF tm, rm
  <1>7. ASSUME NEW b \in rm \ tm
        PROVE  Len(Path[b]) \in DOMAIN y.blockchain /\ y.blockchain[Len(Path[b])] = b
    <2>1. b \in rr /\ Len(Path[b]) < d
      BY <1>5, <1>6
    <2>2. b \notin tn
      BY <2>1, <1>4
    <2>3. Len(Path[b]) \in DOMAIN x.blockchain /\ x.blockchain[Len(Path[b])] = b
      BY <2>1, <2>2 DEF Told
    <2>4. Len(Path[b]) \in 1 .. d - 1
      BY <2>1, <2>3, <1>1
    <2> QED
      BY <2>3, <2>4, <1>2
  <1>8. ASSUME NEW e \in DOMAIN y.history PROVE EntryTold(y, tm, rm, e)
    <2>1. e \in DOMAIN x.history /\ e[2] < d /\ e[2] \in Nat /\ y.history[e] = x.history[e]
      BY <1>1, <1>3
    <2>2. EntryTold(x, tn, rr, e)
      BY <2>1 DEF Told
    <2> DEFINE q == x.history[e]
    <2>3. /\ q # <<>> /\ \A n \in 2 .. Len(q) : q[n] = {}
          /\ q[1] = Range(Outs[e[1]]) \/ \E b \in tn : Len(Path[b]) < e[2]
          /\ Len(q) > 1 => \E b \in rr : Len(Path[b]) = e[2] /\ e[1] \in Range(Txs[b])
      BY <2>2 DEF EntryTold
    <2>4. ASSUME NEW o \in Range(Outs[e[1]])
          PROVE  o \in DOMAIN y.key_images /\ y.transfers[y.key_images[o]].height <= e[2]
      <3>1. o \in DOMAIN x.key_images /\ x.transfers[x.key_images[o]].height <= e[2]
        BY <2>2 DEF EntryTold
      <3>2. x.key_images[o] \in DOMAIN x.transfers
        BY <3>1 DEF Books, Indexed
      <3>3. x.transfers[x.key_images[o]].height < d
        BY <3>1, <3>2, <2>1, <1>1
      <3> QED
        BY <3>1, <3>2, <3>3, <1>3
    <2>5. \A b \in tn : Len(Path[b]) < e[2] => b \in tm
      <3> TAKE b \in tn
      <3>1. Len(Path[b]) \in Nat
        BY ConstantFacts
      <3> QED
        BY <3>1, <2>1, <1>4
    <2>6. \A b \in rr : Len(Path[b]) = e[2] => b \in rm
      BY <2>1, <1>5
    <2> QED
      BY <2>1, <2>3, <2>4, <2>5, <2>6 DEF EntryTold
  <1>9. tm \subseteq rm
    BY <1>4, <1>5, <1>6
  <1>10. Told(y, tm, rm)
    BY <1>7, <1>8, <1>9 DEF Told
  <1> QED
    BY <1>10 DEF tm, rm

(* A transaction whose reading is cut short is not entered.                *)
LEMMA ThrowTold ==
    ASSUME NEW x \in Book, NEW tn, NEW rr, Indexed(x), Told(x, tn, rr), NEW b, NEW t, NEW h,
           NEW y, SpendsRead(x, y, t, h)
    PROVE  Told(y, tn \cup {b}, rr \cup {b})
  <1> DEFINE tm == tn \cup {b}
             rm == rr \cup {b}
  <1>1. /\ y.blockchain = x.blockchain /\ y.key_images = x.key_images /\ y.history = x.history
        /\ \A i \in DOMAIN x.transfers : y.transfers[i].height = x.transfers[i].height
    BY DEF SpendsRead, SameOthers
  <1>2. \A o \in DOMAIN x.key_images : x.key_images[o] \in DOMAIN x.transfers
    BY DEF Indexed
  <1>3. tn \subseteq tm /\ rr \subseteq rm /\ rm \ tm \subseteq rr \ tn /\ tm \subseteq rm
    BY DEF Told
  <1> HIDE DEF tm, rm
  <1>4. ASSUME NEW e \in DOMAIN x.history PROVE EntryTold(y, tm, rm, e)
    <2>1. EntryTold(x, tn, rr, e)
      BY DEF Told
    <2> QED
      BY <2>1, <1>1, <1>2, <1>3 DEF EntryTold
  <1>5. Told(y, tm, rm)
    BY <1>1, <1>3, <1>4 DEF Told
  <1> QED
    BY <1>5 DEF tm, rm

(* Nor does the end of a block enter one.  No block that was read in part  *)
(* and lies below an entry is the one that ends.                           *)
LEMMA EndTold ==
    ASSUME NEW x \in Book, NEW tn \in SUBSET Block, NEW rr \in SUBSET Block, NEW part, NEW b \in Block,
           Books(x, tn, part), Told(x, tn, rr), NEW k, AtTx(x, part, b, k)
    PROVE  Told([x EXCEPT !.blockchain = Append(@, b)], tn \ {b}, rr)
  <1> DEFINE y == [x EXCEPT !.blockchain = Append(@, b)]
             c == Append(x.blockchain, b)
             tm == tn \ {b}
             h == Len(x.blockchain) + 1
  <1>1. /\ x.blockchain \in Seq(Block) /\ Len(x.blockchain) \in Nat
        /\ DOMAIN x.blockchain = 1 .. Len(x.blockchain) /\ DOMAIN x.history \subseteq Tx \X Nat
    BY BookFacts
  <1>2. /\ DOMAIN c = 1 .. h /\ c[h] = b /\ \A i \in DOMAIN x.blockchain : i \in DOMAIN c /\ c[i] = x.blockchain[i]
    BY <1>1
  <1>3. /\ y.blockchain = c /\ y.key_images = x.key_images /\ y.history = x.history
        /\ y.transfers = x.transfers
    BY DEF Book
  <1>4. Len(Path[b]) = h
    BY DEF AtTx
  <1>5. ASSUME NEW e \in DOMAIN x.history PROVE e[2] \in Nat /\ e[2] <= h
    <2>1. PICK t \in Tx, g \in Nat : e = <<t, g>>
      BY <1>1
    <2>2. Touched(x, tn, part, t, g)
      BY <2>1 DEF Books, HistoryTrue
    <2>3. CASE Done(x, part, t, g)
      BY <2>1, <2>3, <1>1 DEF Done
    <2>4. CASE \E a \in tn : Len(Path[a]) = g
      BY <2>1, <2>4 DEF Books, TornFollow, Follows
    <2> QED
      BY <2>2, <2>3, <2>4 DEF Touched
  <1> HIDE DEF y, c, h
  <1>6. ASSUME NEW a \in rr \ tm
        PROVE  Len(Path[a]) \in DOMAIN y.blockchain /\ y.blockchain[Len(Path[a])] = a
    <2>1. CASE a = b
      <3>1. h \in 1 .. h
        BY <1>1 DEF h
      <3> QED
        BY <3>1, <2>1, <1>2, <1>3, <1>4
    <2>2. CASE a # b
      <3>1. Len(Path[a]) \in DOMAIN x.blockchain /\ x.blockchain[Len(Path[a])] = a
        BY <2>2 DEF Told
      <3> QED
        BY <3>1, <1>2, <1>3
    <2> QED
      BY <2>1, <2>2
  <1>7. ASSUME NEW e \in DOMAIN x.history PROVE EntryTold(y, tm, rr, e)
    <2>1. EntryTold(x, tn, rr, e)
      BY DEF Told
    <2>2. \A a \in tn : Len(Path[a]) < e[2] => a \in tm
      <3> SUFFICES ASSUME NEW a \in tn, Len(Path[a]) < e[2] PROVE a # b
        OBVIOUS
      <3>1. e[2] \in Nat /\ e[2] <= h /\ h \in Nat
        BY <1>1, <1>5 DEF h
      <3> QED
        BY <3>1, <1>4
    <2> HIDE DEF tm
    <2> QED
      BY <2>1, <2>2, <1>3 DEF EntryTold
  <1>8. tm \subseteq rr
    BY DEF Told
  <1>9. Told(y, tm, rr)
    <2> HIDE DEF tm
    <2> QED
      BY <1>3, <1>6, <1>7, <1>8 DEF Told
  <1> QED
    BY <1>9 DEF y

(* What a transaction brings is what the books do not have of it.          *)
LEMMA ReceivedFacts ==
    ASSUME NEW x \in Book, Indexed(x), NEW t, NEW h, NEW p, TxRead(x, p, t, h)
    PROVE  Received(x, p) = Range(Outs[t]) \ DOMAIN x.key_images
  <1>1. /\ p \in Book /\ Indexed(p) /\ DOMAIN p.key_images = DOMAIN x.key_images \cup Range(Outs[t])
        /\ \A i \in DOMAIN x.transfers : p.transfers[i].out = x.transfers[i].out
        /\ \A i \in DOMAIN p.transfers : i > Len(x.transfers) =>
              p.transfers[i].out \in Range(Outs[t]) \ DOMAIN x.key_images
    BY DEF TxRead
  <1>2. /\ Len(x.transfers) \in Nat /\ DOMAIN x.transfers = 1 .. Len(x.transfers)
        /\ Len(p.transfers) \in Nat /\ DOMAIN p.transfers = 1 .. Len(p.transfers)
    BY <1>1, BookFacts
  <1>3. ASSUME NEW i \in Len(x.transfers) + 1 .. Len(p.transfers)
        PROVE  p.transfers[i].out \in Range(Outs[t]) \ DOMAIN x.key_images
    <2>1. i \in DOMAIN p.transfers /\ i > Len(x.transfers)
      BY <1>2
    <2> QED
      BY <2>1, <1>1
  <1>4. ASSUME NEW o \in Range(Outs[t]) \ DOMAIN x.key_images
        PROVE  \E i \in Len(x.transfers) + 1 .. Len(p.transfers) : p.transfers[i].out = o
    <2>1. /\ p.key_images[o] \in DOMAIN p.transfers /\ p.transfers[p.key_images[o]].out = o
      BY <1>1 DEF Indexed
    <2>2. p.key_images[o] \notin DOMAIN x.transfers
      BY <2>1, <1>1 DEF Indexed
    <2>3. p.key_images[o] \in Len(x.transfers) + 1 .. Len(p.transfers)
      BY <2>1, <2>2, <1>2
    <2> QED
      BY <2>1, <2>3
  <1> QED
    BY <1>3, <1>4 DEF Received

(* The entry that a transaction gets is true, and the others stay so.      *)
LEMMA ReadTxTold ==
    ASSUME NEW x \in Book, NEW tn \in SUBSET Block, NEW rr \in SUBSET Block, NEW part,
           Books(x, tn, part), Told(x, tn, rr),
           NEW b \in Block, NEW k \in 1 .. Len(Txs[b]), AtTx(x, part, b, k),
           NEW p, TxRead(x, p, Txs[b][k], Len(x.blockchain) + 1)
    PROVE  Told(p, tn, rr)
  <1> DEFINE t == Txs[b][k]
             h == Len(x.blockchain) + 1
             e == <<t, h>>
             got == Received(x, p)
  <1>1. /\ OnTree(x) /\ Indexed(x) /\ Ordered(x) /\ TransfersTrue(x) /\ HistoryTrue(x, tn, part)
        /\ tn \subseteq rr
    BY DEF Books, Told
  <1>2. t \in Tx /\ \A g \in Nat : ~Done(x, part, t, g)
    BY <1>1, AtTxFacts
  <1>3. TxRead(x, p, t, h) /\ h \in Nat /\ Len(x.blockchain) \in Nat
    BY BookFacts
  <1> HIDE DEF t
  <1>4. /\ p \in Book /\ Indexed(p) /\ p.blockchain = x.blockchain
        /\ DOMAIN p.key_images = DOMAIN x.key_images \cup Range(Outs[t])
        /\ Len(p.transfers) >= Len(x.transfers) /\ got \in SUBSET Out
    BY <1>3 DEF TxRead
  <1>5. got = Range(Outs[t]) \ DOMAIN x.key_images
    BY <1>1, <1>3, ReceivedFacts
  <1>6. Ordered(p)
    <2>1. Books(p, tn, part \cup {Txs[b][k]})
      BY ReadTxBooks
    <2> QED
      BY <2>1 DEF Books
  <1>7. /\ DOMAIN p.history \subseteq DOMAIN x.history \cup {e}
        /\ DOMAIN x.history \subseteq DOMAIN p.history
        /\ \A f \in DOMAIN x.history : f # e => p.history[f] = x.history[f]
        /\ \/ p.history = x.history
           \/ /\ e \in DOMAIN p.history
              /\ p.history[e] = Append(Entries(x, e), got)
    <2> HIDE DEF h
    <2>1. /\ DOMAIN p.history =
                 IF Found(x, t) # {} \/ Len(p.transfers) > Len(x.transfers) \/ t \in Attached
                 THEN DOMAIN x.history \cup {<<t, h>>} ELSE DOMAIN x.history
          /\ \A f \in DOMAIN x.history : f # <<t, h>> => p.history[f] = x.history[f]
          /\ \/ p.history = x.history
             \/ /\ <<t, h>> \in DOMAIN p.history
                /\ p.history[<<t, h>>] = Append(Entries(x, <<t, h>>), Received(x, p))
      BY <1>2, <1>3, ReadHistory, ZenonT(30)
    <2> QED
      BY <2>1
  <1> HIDE DEF got
  <1>8. ASSUME NEW o \in DOMAIN x.key_images
        PROVE  o \in DOMAIN p.key_images /\ p.transfers[p.key_images[o]].height = x.transfers[x.key_images[o]].height
    <2>1. x.key_images[o] \in DOMAIN x.transfers /\ x.transfers[x.key_images[o]].out = o
      BY <1>1 DEF Indexed
    <2>2. /\ p.transfers[x.key_images[o]].out = o
          /\ p.transfers[x.key_images[o]].height = x.transfers[x.key_images[o]].height
      BY <2>1, <1>3 DEF TxRead
    <2>3. x.key_images[o] \in DOMAIN p.transfers
      BY <2>1, <1>4, BookFacts
    <2>4. p.key_images[o] = x.key_images[o]
      BY <2>2, <2>3, <1>4 DEF Indexed
    <2> QED
      BY <2>2, <2>4, <1>4
  <1>9. ASSUME NEW f \in DOMAIN x.history, p.history[f] = x.history[f]
        PROVE  EntryTold(p, tn, rr, f)
    <2>1. EntryTold(x, tn, rr, f)
      BY DEF Told
    <2> QED
      BY <2>1, <1>8, <1>9 DEF EntryTold
  <1>10. ASSUME NEW o \in Range(Outs[t])
         PROVE  o \in DOMAIN p.key_images /\ p.transfers[p.key_images[o]].height <= h
    <2>1. o \in DOMAIN p.key_images /\ p.key_images[o] \in DOMAIN p.transfers
      BY <1>4 DEF Indexed
    <2>2. p.transfers[p.key_images[o]].height \in 1 .. h
      BY <2>1, <1>4, <1>6 DEF Ordered
    <2> QED
      BY <2>1, <2>2, <1>3
  <1>11. e[1] = t /\ e[2] = h
    OBVIOUS
  <1> HIDE DEF e, h
  <1>12. ASSUME e \in DOMAIN p.history, p.history[e] = Append(Entries(x, e), got)
         PROVE  EntryTold(p, tn, rr, e)
    <2>1. CASE e \in DOMAIN x.history
      <3> DEFINE q == x.history[e]
                 r == Append(q, got)
      <3>1. q \in Seq(SUBSET Out) /\ p.history[e] = r
        BY <2>1, <1>12, BookFacts DEF Entries
      <3>2. EntryTold(x, tn, rr, e)
        BY <2>1 DEF Told
      <3>3. /\ q # <<>> /\ \A n \in 2 .. Len(q) : q[n] = {}
            /\ q[1] = Range(Outs[t]) \/ \E a \in tn : Len(Path[a]) < h
        BY <3>2, <1>11 DEF EntryTold
      <3>4. got = {}
        BY <3>2, <1>5, <1>11 DEF EntryTold
      <3>5. \E a \in rr : Len(Path[a]) = h /\ t \in Range(Txs[a])
        <4>1. Touched(x, tn, part, t, h)
          BY <2>1, <1>1, <1>2, <1>3 DEF HistoryTrue, e
        <4> QED
          BY <4>1, <1>1, <1>2, <1>3 DEF Touched
      <3> HIDE DEF q
      <3>6. /\ Len(q) \in Nat /\ Len(q) >= 1 /\ Len(r) = Len(q) + 1 /\ r # <<>>
            /\ r[Len(q) + 1] = got /\ \A n \in 1 .. Len(q) : r[n] = q[n]
        BY <3>1, <3>3, <1>4
      <3> HIDE DEF r
      <3>7. r[1] = q[1] /\ \A n \in 2 .. Len(r) : r[n] = {}
        <4>1. \A n \in 2 .. Len(r) : n \in 2 .. Len(q) \/ n = Len(q) + 1
          BY <3>6
        <4>2. \A n \in 2 .. Len(q) : r[n] = q[n]
          BY <3>6
        <4>3. 1 \in 1 .. Len(q)
          BY <3>6
        <4> QED
          BY <4>1, <4>2, <4>3, <3>3, <3>4, <3>6
      <3> QED
        BY <3>1, <3>3, <3>5, <3>6, <3>7, <1>10, <1>11 DEF EntryTold
    <2>2. CASE e \notin DOMAIN x.history
      <3>1. p.history[e] = Append(<<>>, got)
        BY <2>2, <1>12 DEF Entries
      <3> DEFINE r == Append(<<>>, got)
      <3>2. r # <<>> /\ Len(r) = 1 /\ r[1] = got
        BY <1>4
      <3>3. got = Range(Outs[t]) \/ \E a \in tn : Len(Path[a]) < h
        <4> SUFFICES ASSUME NEW o \in Range(Outs[t]), o \in DOMAIN x.key_images
                     PROVE  \E a \in tn : Len(Path[a]) < h
          BY <1>5
        <4> DEFINE i == x.key_images[o]
                   g == x.transfers[i].height
        <4>1. i \in DOMAIN x.transfers /\ x.transfers[i].out = o
          BY <1>1 DEF Indexed
        <4>2. PICK v \in Tx : o \in Range(Outs[v]) /\ <<v, g>> \in DOMAIN x.history
          BY <4>1, <1>1 DEF TransfersTrue
        <4>3. v = t
          BY <4>2, <1>2, LedgerAssumption
        <4>4. g \in 1 .. h /\ g \in Nat
          BY <4>1, <1>1, <1>3 DEF Ordered, h
        <4>5. g # h
          BY <4>2, <4>3, <2>2 DEF e
        <4>6. Touched(x, tn, part, t, g)
          BY <4>2, <4>3, <4>4, <1>1 DEF HistoryTrue
        <4>7. PICK a \in tn : Len(Path[a]) = g
          BY <4>4, <4>6, <1>2 DEF Touched
        <4> HIDE DEF g
        <4> QED
          BY <4>4, <4>5, <4>7, <1>3
      <3> HIDE DEF r
      <3>4. \A n \in 2 .. Len(r) : r[n] = {}
        BY <3>2
      <3> QED
        BY <3>1, <3>2, <3>3, <3>4, <1>10, <1>11 DEF EntryTold, r
    <2> QED
      BY <2>1, <2>2
  <1>13. ASSUME NEW f \in DOMAIN p.history PROVE EntryTold(p, tn, rr, f)
    <2>1. CASE p.history = x.history
      BY <2>1, <1>9
    <2>2. CASE e \in DOMAIN p.history /\ p.history[e] = Append(Entries(x, e), got)
      <3>1. CASE f = e
        BY <3>1, <2>2, <1>12
      <3>2. CASE f # e
        BY <3>2, <1>7, <1>9
      <3> QED
        BY <3>1, <3>2
    <2> QED
      BY <2>1, <2>2, <1>7
  <1>14. \A a \in rr \ tn : Len(Path[a]) \in DOMAIN p.blockchain /\ p.blockchain[Len(Path[a])] = a
    BY <1>4 DEF Told
  <1> QED
    BY <1>1, <1>13, <1>14 DEF Told

-----------------------------------------------------------------------------
(***************************************************************************)
(* The blocks that were pulled.                                            *)
(***************************************************************************)
(* They lead on when the first of them is on the copy.                     *)
LEMMA OnTail ==
    ASSUME NEW bs \in Seq(Block), bs # <<>>, NEW n \in Nat, n >= 1, NEW ch, On(bs, n, ch),
           NEW c2, c2[n] = Head(bs), \A j \in 1 .. n : j \in DOMAIN c2,
           \A j \in 1 .. n - 1 : c2[j] = ch[j]
    PROVE  On(Tail(bs), n + 1, c2)
  <1> DEFINE ts == Tail(bs)
  <1>1. /\ Len(bs) \in Nat /\ Len(bs) >= 1 /\ Len(ts) = Len(bs) - 1 /\ bs[1] = Head(bs)
        /\ \A i \in 1 .. Len(ts) : ts[i] = bs[i + 1]
    OBVIOUS
  <1> HIDE DEF ts
  <1> SUFFICES ASSUME NEW i \in 1 .. Len(ts)
               PROVE  /\ Len(Path[ts[i]]) = (n + 1) + i - 1
                      /\ \A j \in 1 .. i - 1 : Path[ts[i]][(n + 1) + j - 1] = ts[j]
                      /\ \A j \in 1 .. (n + 1) - 1 : j \in DOMAIN c2 /\ c2[j] = Path[ts[i]][j]
    BY DEF On, ts
  <1>2. i + 1 \in 1 .. Len(bs) /\ ts[i] = bs[i + 1]
    BY <1>1
  <1>3. /\ Len(Path[bs[i + 1]]) = n + (i + 1) - 1
        /\ \A j \in 1 .. (i + 1) - 1 : Path[bs[i + 1]][n + j - 1] = bs[j]
        /\ \A j \in 1 .. n - 1 : j \in DOMAIN ch /\ ch[j] = Path[bs[i + 1]][j]
    BY <1>2 DEF On
  <1>4. Len(Path[ts[i]]) = (n + 1) + i - 1
    BY <1>2, <1>3
  <1>5. ASSUME NEW j \in 1 .. i - 1 PROVE Path[ts[i]][(n + 1) + j - 1] = ts[j]
    <2>1. j + 1 \in 1 .. (i + 1) - 1 /\ n + (j + 1) - 1 = (n + 1) + j - 1 /\ j \in 1 .. Len(ts)
      BY <1>1
    <2>2. Path[bs[i + 1]][n + (j + 1) - 1] = bs[j + 1]
      BY <2>1, <1>3
    <2> QED
      BY <2>1, <2>2, <1>1, <1>2
  <1>6. ASSUME NEW j \in 1 .. (n + 1) - 1 PROVE j \in DOMAIN c2 /\ c2[j] = Path[ts[i]][j]
    <2>1. j \in 1 .. n
      OBVIOUS
    <2>2. CASE j = n
      <3>1. 1 \in 1 .. (i + 1) - 1 /\ n + 1 - 1 = n
        BY <1>1
      <3>2. Path[bs[i + 1]][n] = bs[1]
        BY <3>1, <1>3
      <3> QED
        BY <2>1, <2>2, <3>2, <1>1, <1>2
    <2>3. CASE j # n
      <3>1. j \in 1 .. n - 1
        BY <2>1, <2>3
      <3> QED
        BY <2>1, <3>1, <1>2, <1>3
    <2> QED
      BY <2>2, <2>3
  <1> QED
    BY <1>4, <1>5, <1>6

(* They lead on from the part of the copy below them.                      *)
LEMMA OnCut ==
    ASSUME NEW bs, NEW n \in Nat, NEW ch, On(bs, n, ch),
           NEW c2, DOMAIN c2 = 1 .. n - 1, \A j \in 1 .. n - 1 : c2[j] = ch[j]
    PROVE  On(bs, n, c2)
  BY DEF On

(* The blocks of a chain from one on that both have, or the first.         *)
LEMMA OnPull ==
    ASSUME NEW x \in Book, OnTree(x), NEW b \in Block, NEW n \in 1 .. Len(Path[b]), NEW m \in Nat,
           m <= Len(Path[b]), n = 1 \/ (n \in DOMAIN x.blockchain /\ Path[b][n] = x.blockchain[n])
    PROVE  SubSeq(Path[b], n, m) \in Seq(Block) /\ On(SubSeq(Path[b], n, m), n, x.blockchain)
  <1> DEFINE ch == Path[b]
             bs == SubSeq(ch, n, m)
  <1>1. /\ ch \in Seq(Block) /\ Len(ch) \in Nat /\ \A i \in 1 .. Len(ch) : ch[i] \in Block
    BY ConstantFacts
  <1>2. \A i \in 1 .. Len(ch) : Path[ch[i]] = SubSeq(ch, 1, i)
    BY PathAssumption
  <1>3. /\ x.blockchain \in Seq(Block) /\ Len(x.blockchain) \in Nat
        /\ DOMAIN x.blockchain = 1 .. Len(x.blockchain)
    BY BookFacts
  <1> HIDE DEF ch
  <1>4. ASSUME NEW i \in 1 .. Len(ch)
        PROVE  Len(Path[ch[i]]) = i /\ \A j \in 1 .. i : Path[ch[i]][j] = ch[j]
    BY <1>1, <1>2
  <1>5. ASSUME NEW j \in 1 .. n - 1 PROVE j \in DOMAIN x.blockchain /\ x.blockchain[j] = ch[j]
    <2>1. n \in 1 .. Len(x.blockchain) /\ ch[n] = x.blockchain[n]
      BY <1>3 DEF ch
    <2>2. j \in 1 .. Len(x.blockchain) /\ j \in 1 .. n
      BY <2>1, <1>3
    <2>3. Path[ch[n]] = SubSeq(x.blockchain, 1, n)
      BY <2>1, <1>3 DEF OnTree
    <2>4. SubSeq(x.blockchain, 1, n)[j] = x.blockchain[j]
      BY <2>1, <2>2, <1>3
    <2>5. Path[ch[n]][j] = ch[j]
      BY <2>2, <1>4 DEF ch
    <2> QED
      BY <2>2, <2>3, <2>4, <2>5, <1>3
  <1>6. /\ bs \in Seq(Block)
        /\ \A i \in 1 .. Len(bs) : n + i - 1 \in 1 .. Len(ch) /\ n + i - 1 <= m /\ bs[i] = ch[n + i - 1]
    <2>1. n \in 1 .. Len(ch) /\ m <= Len(ch)
      BY DEF ch
    <2>2. bs \in Seq(Block)
      BY <2>1, <1>1
    <2>3. Len(bs) = IF n <= m THEN m - n + 1 ELSE 0
      BY <2>1, <1>1
    <2>4. \A i \in 1 .. Len(bs) : bs[i] = ch[n + i - 1]
      BY <2>1, <2>3, <1>1
    <2> HIDE DEF bs
    <2> QED
      BY <2>1, <2>2, <2>3, <2>4, <1>1
  <1> HIDE DEF bs
  <1>7. ASSUME NEW i \in 1 .. Len(bs)
        PROVE  /\ Len(Path[bs[i]]) = n + i - 1
               /\ \A j \in 1 .. i - 1 : Path[bs[i]][n + j - 1] = bs[j]
               /\ \A j \in 1 .. n - 1 : j \in DOMAIN x.blockchain
                                          /\ x.blockchain[j] = Path[bs[i]][j]
    <2> DEFINE k == n + i - 1
    <2>1. k \in 1 .. Len(ch) /\ bs[i] = ch[k] /\ Len(bs) \in Nat
      BY <1>6
    <2>2. Len(Path[bs[i]]) = k /\ \A j \in 1 .. k : Path[bs[i]][j] = ch[j]
      BY <2>1, <1>4
    <2>3. ASSUME NEW j \in 1 .. i - 1 PROVE Path[bs[i]][n + j - 1] = bs[j]
      <3>1. n + j - 1 \in 1 .. k /\ j \in 1 .. Len(bs)
        BY <2>1
      <3>2. bs[j] = ch[n + j - 1]
        BY <3>1, <1>6
      <3> QED
        BY <3>1, <3>2, <2>2
    <2>4. ASSUME NEW j \in 1 .. n - 1
          PROVE  j \in DOMAIN x.blockchain /\ x.blockchain[j] = Path[bs[i]][j]
      <3>1. j \in 1 .. k
        BY <2>1
      <3> QED
        BY <3>1, <2>2, <1>5
    <2> QED
      BY <2>2, <2>3, <2>4
  <1>8. On(bs, n, x.blockchain)
    BY <1>7 DEF On
  <1> QED
    BY <1>6, <1>8 DEF bs, ch

-----------------------------------------------------------------------------
(***************************************************************************)
(* The invariant.                                                          *)
(***************************************************************************)
PullSteps  == [at : {"pull"}, tries : Nat, fetched : BOOLEAN]
BlockSteps == [at : {"blocks"}, tries : Nat, fetched : BOOLEAN, added : BOOLEAN, index : Nat,
               read : Nat, blocks : Seq(Block)]
SendSteps  == [at : {"send"}, tx : Tx, selected : SUBSET Nat]
Steps == {Idle, [at |-> "dead"], [at |-> "lost"]} \cup PullSteps \cup BlockSteps \cup SendSteps
Files == [w : Book, torn : SUBSET Block, reread : SUBSET Block]

(* What the types need beside TypeOK: only transactions that exist are in  *)
(* the daemon's pool or on its chain.                                      *)
DaemonTyped == tip \in Block /\ dpool \subseteq made /\ made \subseteq Tx
                  /\ Tx \ Own \subseteq made /\ OnDaemon \subseteq made
Types ==
    /\ DaemonTyped /\ w \in Book /\ free \subseteq Nat /\ step \in Steps /\ saved \in Files
    /\ torn \subseteq Block /\ reread \subseteq Block /\ faults \in 0 .. MaxFaults

WalletInv ==
    /\ Types /\ Kept(w, torn, step) /\ Books(saved.w, saved.torn, {})
    /\ Told(w, torn, reread) /\ Told(saved.w, saved.torn, saved.reread)

(* What the wallet may be doing.                                           *)
LEMMA StepFacts ==
    ASSUME NEW s \in Steps
    PROVE  /\ s.at \in {"idle", "pull", "blocks", "send", "dead", "lost"}
           /\ s = Idle => s.at = "idle"
           /\ s.at = "pull" => s \in PullSteps
           /\ s.at = "blocks" => s \in BlockSteps
           /\ s.at = "send" => s \in SendSteps
  <1>1. CASE s = Idle
    BY <1>1 DEF Idle
  <1>2. CASE s \in {[at |-> "dead"], [at |-> "lost"]}
    BY <1>2 DEF Idle
  <1>3. CASE s \in PullSteps
    <2>1. s.at = "pull"
      BY <1>3 DEF PullSteps
    <2>2. s # Idle
      BY <2>1 DEF Idle
    <2> QED
      BY <1>3, <2>1, <2>2
  <1>4. CASE s \in BlockSteps
    <2>1. s.at = "blocks"
      BY <1>4 DEF BlockSteps
    <2>2. s # Idle
      BY <2>1 DEF Idle
    <2> QED
      BY <1>4, <2>1, <2>2
  <1>5. CASE s \in SendSteps
    <2>1. s.at = "send"
      BY <1>5 DEF SendSteps
    <2>2. s # Idle
      BY <2>1 DEF Idle
    <2> QED
      BY <1>5, <2>1, <2>2
  <1> QED
    BY <1>1, <1>2, <1>3, <1>4, <1>5 DEF Steps

(* The same for steps that are named.                                      *)
LEMMA StepKinds ==
    /\ Idle \in Steps /\ Idle.at = "idle"
    /\ [at |-> "dead"] \in Steps /\ [at |-> "dead"].at = "dead"
    /\ [at |-> "lost"] \in Steps /\ [at |-> "lost"].at = "lost"
    /\ \A s \in PullSteps : s \in Steps /\ s.at = "pull"
    /\ \A s \in BlockSteps : s \in Steps /\ s.at = "blocks"
    /\ \A s \in SendSteps : s \in Steps /\ s.at = "send"
  <1>1. Idle.at = "idle" /\ [at |-> "dead"].at = "dead" /\ [at |-> "lost"].at = "lost"
    BY DEF Idle
  <1>2. /\ \A s \in PullSteps : s.at = "pull"
        /\ \A s \in BlockSteps : s.at = "blocks"
        /\ \A s \in SendSteps : s.at = "send"
    BY DEF PullSteps, BlockSteps, SendSteps
  <1>3. /\ Idle \in Steps /\ [at |-> "dead"] \in Steps /\ [at |-> "lost"] \in Steps
        /\ \A s \in PullSteps : s \in Steps
        /\ \A s \in BlockSteps : s \in Steps
        /\ \A s \in SendSteps : s \in Steps
    BY DEF Steps
  <1> QED
    BY <1>1, <1>2, <1>3

(* No block is read in part while no block is read.                        *)
LEMMA PartOfFacts ==
    ASSUME NEW s \in Steps, s.at # "blocks" \/ s.read = 0
    PROVE  PartOf(s) = {}
  <1>1. CASE s.at # "blocks"
    BY <1>1 DEF PartOf
  <1>2. CASE s.read = 0
    <2>1. 1 .. s.read = {}
      BY <1>2
    <2> QED
      BY <2>1 DEF PartOf
  <1> QED
    BY <1>1, <1>2

(* While the wallet is at rest only the books count.                       *)
LEMMA AtRest ==
    ASSUME NEW x, NEW tn, NEW s \in Steps, s.at \in {"idle", "pull", "dead", "lost"}
    PROVE  Kept(x, tn, s) <=> Books(x, tn, {})
  <1>1. PartOf(s) = {}
    BY PartOfFacts
  <1> QED
    BY <1>1 DEF Kept, PulledOn, SelectedFree

(* The block the wallet is at follows its copy.                            *)
LEMMA AtBlock ==
    ASSUME NEW x \in Book, NEW s \in BlockSteps, s.blocks # <<>>, PulledOn(x, s)
    PROVE  LET b == Head(s.blocks) IN
           /\ b \in Block /\ Len(Path[b]) = s.index /\ s.index \in Nat /\ s.index >= 1
           /\ \A j \in 1 .. s.index - 1 : j \in DOMAIN x.blockchain /\ x.blockchain[j] = Path[b][j]
           /\ s.index = Len(x.blockchain) + 1 => AtTx(x, PartOf(s), b, s.read + 1)
           /\ s.index # Len(x.blockchain) + 1 => s.read = 0
  <1> DEFINE b == Head(s.blocks)
  <1>1. /\ s.at = "blocks" /\ s.index \in Nat /\ s.read \in Nat /\ s.blocks \in Seq(Block)
    BY DEF BlockSteps
  <1>2. b \in Block /\ b = s.blocks[1] /\ 1 \in 1 .. Len(s.blocks)
    BY <1>1
  <1>3. s.index >= 1 /\ On(s.blocks, s.index, x.blockchain) /\ (s.read > 0 => s.index = Len(x.blockchain) + 1)
    BY <1>1 DEF PulledOn
  <1> HIDE DEF b
  <1>4. /\ Len(Path[b]) = s.index + 1 - 1
        /\ \A j \in 1 .. s.index - 1 : j \in DOMAIN x.blockchain /\ x.blockchain[j] = Path[b][j]
    BY <1>2, <1>3 DEF On
  <1>5. Len(Path[b]) = s.index
    BY <1>1, <1>4
  <1>6. ASSUME s.index = Len(x.blockchain) + 1 PROVE AtTx(x, PartOf(s), b, s.read + 1)
    <2>1. Len(x.blockchain) \in Nat
      BY BookFacts
    <2>2. Follows(x, b)
      BY <1>4, <1>5, <1>6, <2>1 DEF Follows
    <2>3. (s.read + 1) - 1 = s.read
      BY <1>1
    <2>4. PartOf(s) = {Txs[b][i] : i \in 1 .. s.read}
      BY <1>1 DEF PartOf, b
    <2> QED
      BY <1>5, <1>6, <2>2, <2>3, <2>4 DEF AtTx
  <1>7. s.index # Len(x.blockchain) + 1 => s.read = 0
    BY <1>1, <1>3
  <1> QED
    BY <1>1, <1>2, <1>3, <1>4, <1>5, <1>6, <1>7 DEF b

(* The initial states.                                                     *)
LEMMA InitInv == Init => WalletInv
  <1> SUFFICES ASSUME Init PROVE WalletInv
    OBVIOUS
  <1>1. /\ tip = Genesis /\ dpool = {} /\ made = Tx \ Own
        /\ w = Cleared /\ free = {} /\ step = Idle
        /\ saved = [w |-> Cleared, torn |-> {}, reread |-> {}]
        /\ torn = {} /\ reread = {} /\ faults = 0
    BY DEF Init, NewFile
  <1>2. Cleared \in Book /\ Books(Cleared, {}, {})
    BY ClearedBooks
  <1>3. PICK b \in Block : Genesis = Path[b][1]
    BY WalletAssumption DEF Genesis
  <1>4. Genesis \in Block /\ 1 \in 1 .. Len(Path[b])
    BY <1>3, ConstantFacts
  <1>5. OnDaemon \subseteq made
    <2>1. Path[Genesis] = SubSeq(Path[b], 1, 1)
      BY <1>3, <1>4, PathAssumption
    <2>2. Path[b] \in Seq(Block) /\ Len(Path[b]) \in Nat
      BY ConstantFacts
    <2>3. Len(Path[Genesis]) = 1 /\ Path[Genesis][1] = Genesis
      BY <2>1, <2>2, <1>3, <1>4
    <2>4. OnDaemon = Range(Txs[Genesis])
      <3>1. DOMAIN Path[Genesis] = {1} /\ Path[Genesis][1] = Genesis
        BY <2>3, <1>4, ConstantFacts
      <3> QED
        BY <3>1, <1>1 DEF OnDaemon, TxsOfChain
    <2>5. Range(Txs[Genesis]) \cap Own = {} /\ Range(Txs[Genesis]) \subseteq Tx
      BY <1>3, <1>4, LedgerAssumption, ConstantFacts
    <2> QED
      BY <2>4, <2>5, <1>1
  <1>6. DaemonTyped
    BY <1>1, <1>4, <1>5 DEF DaemonTyped
  <1>7. saved \in Files /\ saved.w = Cleared /\ saved.torn = {} /\ saved.reread = {}
    BY <1>1, <1>2 DEF Files
  <1>8. faults \in 0 .. MaxFaults
    BY <1>1, WalletAssumption
  <1>9. Types
    BY <1>1, <1>2, <1>6, <1>7, <1>8, StepKinds DEF Types
  <1>10. Kept(w, torn, step)
    BY <1>1, <1>2, StepKinds, AtRest
  <1> QED
    BY <1>1, <1>2, <1>7, <1>9, <1>10, ClearedTold DEF WalletInv

-----------------------------------------------------------------------------
(***************************************************************************)
(* Every action keeps the invariant.                                       *)
(***************************************************************************)
(* What the invariant says, and what it has to say after a step.           *)
LEMMA Given ==
    ASSUME WalletInv
    PROVE  /\ DaemonTyped /\ w \in Book /\ free \subseteq Nat /\ step \in Steps /\ saved \in Files
           /\ torn \subseteq Block /\ reread \subseteq Block /\ faults \in 0 .. MaxFaults
           /\ Kept(w, torn, step) /\ Books(saved.w, saved.torn, {})
           /\ Told(w, torn, reread) /\ Told(saved.w, saved.torn, saved.reread)
  BY DEF WalletInv, Types

(* What a step has to establish.                                           *)
LEMMA ToShow ==
    ASSUME DaemonTyped', w' \in Book, free' \subseteq Nat, step' \in Steps, saved' \in Files,
           torn' \subseteq Block, reread' \subseteq Block, faults' \in 0 .. MaxFaults,
           Kept(w', torn', step'), Books(saved'.w, saved'.torn, {}),
           Told(w', torn', reread'), Told(saved'.w, saved'.torn, saved'.reread)
    PROVE  WalletInv'
  BY DEF WalletInv, Types

(* The daemon as it was.                                                   *)
LEMMA SameDaemon ==
    ASSUME DaemonTyped, UNCHANGED daemon
    PROVE  DaemonTyped'
  BY DEF DaemonTyped, OnDaemon, daemon

(* A fault is counted.                                                     *)
LEMMA FaultCounted ==
    ASSUME faults \in 0 .. MaxFaults, Fault
    PROVE  faults' \in 0 .. MaxFaults
  BY WalletAssumption DEF Fault

(* The daemon moves.                                                       *)
LEMMA DaemonMovesInv ==
    ASSUME WalletInv, NEW b \in Block, DaemonMoves(b)
    PROVE  WalletInv'
  <1>1. /\ tip' = b /\ dpool' = (dpool \cup (OnDaemon \ Mined)) \ TxsOfChain(Path[b])
        /\ made' = made /\ TxsOfChain(Path[b]) \subseteq made
        /\ UNCHANGED <<w, free, step, saved, torn, reread, faults>>
    BY DEF DaemonMoves, reading
  <1>2. OnDaemon' = TxsOfChain(Path[b])
    BY <1>1 DEF OnDaemon
  <1>3. DaemonTyped'
    BY <1>1, <1>2, Given DEF DaemonTyped
  <1> QED
    BY <1>1, <1>3, Given, ToShow

(* A transaction comes to the daemon.                                      *)
LEMMA DaemonTxInv ==
    ASSUME WalletInv, NEW t \in Tx, DaemonTx(t)
    PROVE  WalletInv'
  <1>1. /\ dpool' = dpool \cup {t} /\ t \notin Own
        /\ UNCHANGED <<tip, made, w, free, step, saved, torn, reread, faults>>
    BY DEF DaemonTx, reading
  <1>2. OnDaemon' = OnDaemon
    BY <1>1 DEF OnDaemon
  <1>3. DaemonTyped'
    BY <1>1, <1>2, Given DEF DaemonTyped
  <1> QED
    BY <1>1, <1>3, Given, ToShow

(* A refresh begins.                                                       *)
LEMMA RefreshInv ==
    ASSUME WalletInv, Refresh
    PROVE  WalletInv'
  <1>1. /\ step = Idle /\ step' = [at |-> "pull", tries |-> Tries, fetched |-> FALSE]
        /\ UNCHANGED <<daemon, w, free, saved, torn, reread, faults>>
    BY DEF Refresh, reading
  <1>2. step' \in PullSteps
    BY <1>1, WalletAssumption DEF PullSteps
  <1>3. step' \in Steps /\ step'.at = "pull"
    BY <1>2, StepKinds
  <1>4. Books(w, torn, {})
    BY <1>1, Given, StepKinds, AtRest
  <1>5. Kept(w', torn', step')
    BY <1>1, <1>3, <1>4, AtRest
  <1>6. DaemonTyped'
    BY <1>1, Given, SameDaemon
  <1> QED
    BY <1>1, <1>3, <1>5, <1>6, Given, ToShow

(* TryAgain leaves the wallet at rest.                                     *)
LEMMA TryAgainRests ==
    ASSUME step \in Steps, step.at \in {"pull", "blocks"}, NEW fetched \in BOOLEAN, TryAgain(fetched)
    PROVE  step' \in Steps /\ step'.at \in {"idle", "pull"}
  <1>1. step.tries \in Nat
    BY StepFacts DEF PullSteps, BlockSteps
  <1>2. CASE step.tries > 0
    <2>1. step' = [at |-> "pull", tries |-> step.tries - 1, fetched |-> fetched]
      BY <1>2 DEF TryAgain
    <2>2. step' \in PullSteps
      BY <1>1, <1>2, <2>1 DEF PullSteps
    <2> QED
      BY <2>2, StepKinds
  <1>3. CASE ~(step.tries > 0)
    <2>1. step' = Idle
      BY <1>3 DEF TryAgain
    <2> QED
      BY <2>1, StepKinds
  <1> QED
    BY <1>2, <1>3

(* A pull that fails.                                                      *)
LEMMA PullFailsInv ==
    ASSUME WalletInv, PullFails
    PROVE  WalletInv'
  <1>1. /\ step.at = "pull" /\ Fault /\ TryAgain(step.fetched)
        /\ UNCHANGED <<daemon, w, free, saved, torn, reread>>
    BY DEF PullFails, reading
  <1>2. step.fetched \in BOOLEAN
    BY <1>1, Given, StepFacts DEF PullSteps
  <1>3. step' \in Steps /\ step'.at \in {"idle", "pull"}
    BY <1>1, <1>2, Given, TryAgainRests
  <1>4. Books(w, torn, {})
    BY <1>1, Given, AtRest
  <1>5. Kept(w', torn', step')
    BY <1>1, <1>3, <1>4, AtRest
  <1>6. DaemonTyped'
    BY <1>1, Given, SameDaemon
  <1>7. faults' \in 0 .. MaxFaults
    BY <1>1, Given, FaultCounted
  <1> QED
    BY <1>1, <1>3, <1>5, <1>6, <1>7, Given, ToShow

(* Blocks are pulled from where the chains split.                          *)
LEMMA PullInv ==
    ASSUME WalletInv, pull_blocks
    PROVE  WalletInv'
  <1> DEFINE ch == Path[tip]
             n == SplitPoint(ch)
             m == Min({Len(ch), n + BatchSize - 1})
             bs == SubSeq(ch, n, m)
             S == {1} \cup {i \in ShortHistory(w.blockchain) \cap DOMAIN ch \cap DOMAIN w.blockchain :
                              ch[i] = w.blockchain[i]}
  <1>1. /\ step.at = "pull" /\ UNCHANGED <<daemon, w, free, saved, torn, reread, faults>>
        /\ step' = [at |-> "blocks", tries |-> step.tries, fetched |-> step.fetched,
                    added |-> FALSE, index |-> n, read |-> 0, blocks |-> bs]
    BY DEF pull_blocks, reading
  <1>2. step.tries \in Nat /\ step.fetched \in BOOLEAN
    BY <1>1, Given, StepFacts DEF PullSteps
  <1>3. tip \in Block /\ w \in Book
    BY Given DEF DaemonTyped
  <1>4. Books(w, torn, {})
    BY <1>1, Given, AtRest
  <1>5. ch \in Seq(Block) /\ Len(ch) \in Nat /\ Len(ch) >= 1 /\ DOMAIN ch = 1 .. Len(ch)
    BY <1>3, ConstantFacts
  <1>6. n \in S /\ S \subseteq 1 .. Len(ch)
    <2>1. S \subseteq 1 .. Len(ch)
      BY <1>5
    <2>2. S # {}
      OBVIOUS
    <2>3. \E i \in S : \A j \in S : i >= j
      <3> DEFINE T == {k \in Nat : \A j \in S : j <= k}
      <3> HIDE DEF S
      <3>1. Len(ch) \in T
        BY <2>1, <1>5
      <3>2. PICK k \in T : \A l \in T : k <= l
        <4> HIDE DEF T
        <4>1. T \in SUBSET Nat
          BY DEF T
        <4> QED BY <3>1, <4>1, LeastElement
      <3>3. k \in S
        <4> SUFFICES ASSUME k \notin S PROVE FALSE
          OBVIOUS
        <4>1. PICK i \in S : TRUE
          BY <2>2
        <4>2. i \in 1 .. Len(ch) /\ i <= k /\ k \in Nat
          BY <2>1, <3>2
        <4>3. k - 1 \in Nat
          BY <4>2
        <4>4. \A j \in S : j <= k /\ j # k /\ j \in Nat
          BY <2>1, <3>2
        <4>5. \A j \in S : j <= k - 1
          BY <4>4, <4>2
        <4>6. k - 1 \in T
          BY <4>3, <4>5
        <4> QED
          BY <4>2, <4>6, <3>2
      <3>4. \A j \in S : k >= j
        BY <2>1, <3>2
      <3> QED
        BY <3>3, <3>4
    <2>4. n = CHOOSE i \in S : \A j \in S : i >= j
      BY DEF SplitPoint, Max
    <2> HIDE DEF S, n
    <2> QED
      BY <2>1, <2>3, <2>4
  <1>7. n \in 1 .. Len(ch) /\ (n = 1 \/ (n \in DOMAIN w.blockchain /\ ch[n] = w.blockchain[n]))
    BY <1>6
  <1> HIDE DEF n, S
  <1>8. m \in Nat /\ m <= Len(ch)
    <2> DEFINE e == n + BatchSize - 1
    <2>1. e \in Nat /\ n \in Nat
      BY <1>5, <1>7, WalletAssumption
    <2> HIDE DEF e
    <2>2. PICK k \in {Len(ch), e} : \A j \in {Len(ch), e} : k <= j
      <3>1. {Len(ch), e} \in SUBSET Nat /\ {Len(ch), e} # {}
        BY <1>5, <2>1
      <3> QED
        BY <3>1, LeastElement
    <2>3. Min({Len(ch), e}) \in {Len(ch), e} /\ \A j \in {Len(ch), e} : Min({Len(ch), e}) <= j
      BY <2>2 DEF Min
    <2> QED
      BY <2>1, <2>3, <1>5 DEF e
  <1> HIDE DEF m
  <1>9. bs \in Seq(Block) /\ On(bs, n, w.blockchain)
    BY <1>3, <1>4, <1>7, <1>8, OnPull DEF Books
  <1> HIDE DEF bs, ch
  <1>10. step' \in BlockSteps
    BY <1>1, <1>2, <1>5, <1>7, <1>9 DEF BlockSteps
  <1>11. step' \in Steps /\ step'.at = "blocks" /\ step'.read = 0 /\ step'.index = n /\ step'.blocks = bs
    BY <1>1, <1>10, StepKinds
  <1>12. PartOf(step') = {}
    BY <1>11, PartOfFacts
  <1>13. PulledOn(w', step') /\ SelectedFree(w', step')
    BY <1>1, <1>5, <1>7, <1>9, <1>11 DEF PulledOn, SelectedFree
  <1>14. Kept(w', torn', step')
    BY <1>1, <1>4, <1>12, <1>13 DEF Kept
  <1>15. DaemonTyped'
    BY <1>1, Given, SameDaemon
  <1> QED
    BY <1>1, <1>11, <1>14, <1>15, Given, ToShow

(* NextBlock: where the wallet is then.                                    *)
LEMMA NextBlockFacts ==
    ASSUME step \in Steps, Pulled, NEW a \in BOOLEAN, NextBlock(a)
    PROVE  /\ step \in BlockSteps /\ step' \in BlockSteps /\ step' \in Steps /\ step'.at = "blocks"
           /\ step'.read = 0 /\ step'.index = step.index + 1 /\ step'.blocks = Tail(step.blocks)
  <1>1. step \in BlockSteps /\ step.blocks # <<>>
    BY StepFacts DEF Pulled
  <1>2. /\ step.blocks \in Seq(Block) /\ step.index \in Nat /\ step.added \in BOOLEAN
    BY <1>1 DEF BlockSteps
  <1>3. Tail(step.blocks) \in Seq(Block) /\ step.index + 1 \in Nat /\ (step.added \/ a) \in BOOLEAN
    BY <1>1, <1>2
  <1>4. step' = [step EXCEPT !.blocks = Tail(step.blocks), !.index = step.index + 1, !.read = 0,
                             !.added = step.added \/ a]
    BY DEF NextBlock
  <1> DEFINE T == Tail(step.blocks)
             i == step.index + 1
             d == step.added \/ a
  <1>5. step' = [step EXCEPT !.blocks = T, !.index = i, !.read = 0, !.added = d]
    BY <1>4
  <1>6. T \in Seq(Block) /\ i \in Nat /\ d \in BOOLEAN
    BY <1>3
  <1> HIDE DEF T, i, d
  <1>7. step' \in BlockSteps /\ step'.read = 0 /\ step'.index = i /\ step'.blocks = T
    BY <1>1, <1>5, <1>6 DEF BlockSteps
  <1> QED
    BY <1>1, <1>7, StepKinds DEF T, i

(* A block of the copy is passed over.                                     *)
LEMMA KnownBlockInv ==
    ASSUME WalletInv, KnownBlock
    PROVE  WalletInv'
  <1>1. /\ Pulled /\ step.index \in DOMAIN w.blockchain /\ w.blockchain[step.index] = Head(step.blocks)
        /\ NextBlock(FALSE) /\ UNCHANGED <<daemon, w, free, saved, torn, reread, faults>>
    BY DEF KnownBlock, Current, reading
  <1>2. /\ step \in BlockSteps /\ step' \in BlockSteps /\ step' \in Steps /\ step'.at = "blocks"
        /\ step'.read = 0 /\ step'.index = step.index + 1 /\ step'.blocks = Tail(step.blocks)
    BY <1>1, Given, NextBlockFacts
  <1>3. step.at = "blocks" /\ step.blocks # <<>>
    BY <1>1 DEF Pulled
  <1>4. w \in Book /\ PulledOn(w, step) /\ Books(w, torn, PartOf(step))
    BY Given DEF Kept
  <1>5. /\ Len(w.blockchain) \in Nat /\ DOMAIN w.blockchain = 1 .. Len(w.blockchain)
    BY <1>4, BookFacts
  <1>6. step.index # Len(w.blockchain) + 1
    BY <1>1, <1>5
  <1>7. step.read = 0
    BY <1>2, <1>3, <1>4, <1>6, AtBlock
  <1>8. PartOf(step) = {} /\ PartOf(step') = {}
    BY <1>2, <1>7, Given, PartOfFacts
  <1>9. step.index \in Nat /\ step.index >= 1 /\ step.blocks \in Seq(Block)
          /\ On(step.blocks, step.index, w.blockchain)
    BY <1>2, <1>3, <1>4 DEF PulledOn, BlockSteps
  <1>10. \A j \in 1 .. step.index : j \in DOMAIN w.blockchain
    BY <1>1, <1>5, <1>9
  <1>11. On(Tail(step.blocks), step.index + 1, w.blockchain)
    BY <1>1, <1>3, <1>9, <1>10, OnTail
  <1>12. PulledOn(w', step') /\ SelectedFree(w', step')
    BY <1>1, <1>2, <1>9, <1>11 DEF PulledOn, SelectedFree
  <1>13. Kept(w', torn', step')
    BY <1>1, <1>4, <1>8, <1>12 DEF Kept
  <1>14. DaemonTyped'
    BY <1>1, Given, SameDaemon
  <1> QED
    BY <1>1, <1>2, <1>13, <1>14, Given, ToShow

(* The chain splits.                                                       *)
LEMMA SplitInv ==
    ASSUME WalletInv, Split
    PROVE  WalletInv'
  <1>1. /\ Pulled /\ step.index \in DOMAIN w.blockchain
        /\ w' = detach_blockchain(w, step.index) /\ torn' = {b \in torn : Height(b) < step.index}
        /\ reread' = {b \in reread : Height(b) < step.index}
        /\ UNCHANGED <<daemon, free, step, saved, faults>>
    BY DEF Split
  <1>2. step.at = "blocks" /\ step.blocks # <<>> /\ step \in BlockSteps
    BY <1>1, Given, StepFacts DEF Pulled
  <1>3. w \in Book /\ PulledOn(w, step) /\ Books(w, torn, PartOf(step)) /\ torn \in SUBSET Block
    BY Given DEF Kept
  <1>4. /\ w.blockchain \in Seq(Block) /\ Len(w.blockchain) \in Nat
        /\ DOMAIN w.blockchain = 1 .. Len(w.blockchain)
    BY <1>3, BookFacts
  <1>5. step.index # Len(w.blockchain) + 1 /\ step.index \in 1 .. Len(w.blockchain)
    BY <1>1, <1>4
  <1>6. step.read = 0
    BY <1>2, <1>3, <1>5, AtBlock
  <1>7. PartOf(step) = {}
    BY <1>6, Given, PartOfFacts
  <1>8. Ordered(w) /\ Indexed(w) /\ Books(w, torn, {})
    BY <1>3, <1>7 DEF Books
  <1>9. Detached(w, w', step.index)
    BY <1>1, <1>3, <1>5, <1>8, DetachFacts
  <1>10. Books(w', torn', {})
    BY <1>1, <1>3, <1>5, <1>8, <1>9, DetachBooks
  <1>11. w' \in Book /\ w'.blockchain = SubSeq(w.blockchain, 1, step.index - 1)
    BY <1>9 DEF Detached
  <1>12. /\ DOMAIN w'.blockchain = 1 .. step.index - 1
         /\ \A j \in 1 .. step.index - 1 : w'.blockchain[j] = w.blockchain[j]
    BY <1>4, <1>5, <1>11
  <1>13. step.index \in Nat /\ step.index >= 1 /\ On(step.blocks, step.index, w.blockchain)
    BY <1>2, <1>3, <1>5 DEF PulledOn, BlockSteps
  <1>14. On(step.blocks, step.index, w'.blockchain)
    BY <1>12, <1>13, OnCut
  <1>15. PulledOn(w', step') /\ SelectedFree(w', step')
    BY <1>1, <1>2, <1>6, <1>13, <1>14 DEF PulledOn, SelectedFree
  <1>16. Kept(w', torn', step')
    BY <1>1, <1>7, <1>10, <1>15 DEF Kept
  <1>17. DaemonTyped'
    BY <1>1, Given, SameDaemon
  <1>18. torn' \subseteq Block /\ reread' \subseteq Block
    BY <1>1, <1>3, Given
  <1>19. Told(w', torn', reread')
    BY <1>1, <1>3, <1>5, <1>9, Given, DetachTold
  <1> QED
    BY <1>1, <1>11, <1>16, <1>17, <1>18, <1>19, Given, ToShow

(* A block that is new: what the reading of it begins with.                *)
LEMMA NewBlock ==
    ASSUME WalletInv, IsNew
    PROVE  /\ step \in BlockSteps /\ step.at = "blocks" /\ step.blocks # <<>>
           /\ step.index = Len(w.blockchain) + 1 /\ step.index \in Nat /\ step.index >= 1
           /\ step.read \in Nat /\ step.blocks \in Seq(Block) /\ Current = Head(step.blocks)
           /\ w \in Book /\ torn \in SUBSET Block /\ Current \in Block /\ step \in Steps
           /\ Books(w, torn, PartOf(step)) /\ AtTx(w, PartOf(step), Current, step.read + 1)
           /\ On(step.blocks, step.index, w.blockchain)
  <1>1. step.at = "blocks" /\ step.blocks # <<>> /\ step.index = Len(w.blockchain) + 1
    BY DEF IsNew, Pulled
  <1>2. step \in BlockSteps /\ step \in Steps
    BY <1>1, Given, StepFacts
  <1>3. step.read \in Nat /\ step.blocks \in Seq(Block)
    BY <1>2 DEF BlockSteps
  <1>4. w \in Book /\ PulledOn(w, step) /\ Books(w, torn, PartOf(step)) /\ torn \in SUBSET Block
    BY Given DEF Kept
  <1>5. /\ Head(step.blocks) \in Block /\ step.index \in Nat /\ step.index >= 1
        /\ AtTx(w, PartOf(step), Head(step.blocks), step.read + 1)
    BY <1>1, <1>2, <1>4, AtBlock
  <1>6. On(step.blocks, step.index, w.blockchain)
    BY <1>1, <1>4 DEF PulledOn
  <1> QED
    BY <1>1, <1>2, <1>3, <1>4, <1>5, <1>6 DEF Current

(* A transaction of the block is read.                                     *)
LEMMA ReadTxInv ==
    ASSUME WalletInv, ReadTx
    PROVE  WalletInv'
  <1> DEFINE k == step.read + 1
             t == Txs[Current][k]
  <1>1. /\ IsNew /\ step.read < Len(Txs[Current]) /\ w' = process_new_transaction(w, t, step.index)
        /\ free' = free \cup (Len(w.transfers) + 1 .. Len(w'.transfers))
        /\ step' = [step EXCEPT !.read = @ + 1]
        /\ UNCHANGED <<daemon, saved, torn, reread, faults>>
    BY DEF ReadTx, reading
  <1>2. /\ step \in BlockSteps /\ step.at = "blocks" /\ step.blocks # <<>>
        /\ step.index = Len(w.blockchain) + 1 /\ step.index \in Nat /\ step.index >= 1
        /\ step.read \in Nat /\ step.blocks \in Seq(Block) /\ Current = Head(step.blocks)
        /\ w \in Book /\ torn \in SUBSET Block /\ Current \in Block /\ step \in Steps
        /\ Books(w, torn, PartOf(step)) /\ AtTx(w, PartOf(step), Current, k)
        /\ On(step.blocks, step.index, w.blockchain)
    BY <1>1, NewBlock
  <1>3. Len(Txs[Current]) \in Nat /\ k \in 1 .. Len(Txs[Current]) /\ t \in Tx
    <2>1. Len(Txs[Current]) \in Nat /\ \A i \in 1 .. Len(Txs[Current]) : Txs[Current][i] \in Tx
      BY <1>2, ConstantFacts
    <2>2. k \in 1 .. Len(Txs[Current])
      BY <1>1, <1>2, <2>1
    <2> QED
      BY <2>1, <2>2
  <1>4. Indexed(w)
    BY <1>2 DEF Books
  <1>5. TxRead(w, w', t, Len(w.blockchain) + 1)
    <2>1. TxRead(w, w', t, step.index)
      BY <1>1, <1>2, <1>3, <1>4, ProcessFacts
    <2> QED
      BY <2>1, <1>2
  <1>6. Books(w', torn, PartOf(step) \cup {t})
    BY <1>2, <1>3, <1>5, ReadTxBooks
  <1>15. Told(w', torn, reread)
    BY <1>2, <1>3, <1>5, Given, ReadTxTold
  <1>7. w' \in Book /\ w'.blockchain = w.blockchain
    BY <1>5 DEF TxRead
  <1>8. /\ step' \in BlockSteps /\ step'.read = k /\ step'.index = step.index
        /\ step'.blocks = step.blocks
    <2>1. step' = [step EXCEPT !.read = k] /\ k \in Nat
      BY <1>1, <1>2
    <2> HIDE DEF k
    <2> QED
      BY <2>1, <1>2 DEF BlockSteps
  <1>9. step' \in Steps /\ step'.at = "blocks"
    BY <1>8, StepKinds
  <1>10. PartOf(step') = PartOf(step) \cup {t}
    <2>1. PartOf(step) = {Txs[Current][i] : i \in 1 .. step.read}
      BY <1>2 DEF PartOf
    <2>2. PartOf(step') = {Txs[Current][i] : i \in 1 .. step.read + 1}
      BY <1>2, <1>8, <1>9 DEF PartOf
    <2>3. 1 .. step.read + 1 = (1 .. step.read) \cup {k}
      BY <1>2
    <2> QED
      BY <2>1, <2>2, <2>3
  <1>11. PulledOn(w', step') /\ SelectedFree(w', step')
    <2>1. step'.read <= Len(Txs[Head(step'.blocks)])
      BY <1>2, <1>3, <1>8
    <2> QED
      BY <2>1, <1>2, <1>7, <1>8, <1>9 DEF PulledOn, SelectedFree
  <1>12. Kept(w', torn', step')
    BY <1>1, <1>6, <1>10, <1>11 DEF Kept
  <1>13. DaemonTyped'
    BY <1>1, Given, SameDaemon
  <1>14. free' \subseteq Nat
    <2>1. Len(w.transfers) \in Nat /\ Len(w'.transfers) \in Nat
      BY <1>2, <1>7, BookFacts
    <2>2. Len(w.transfers) + 1 .. Len(w'.transfers) \subseteq Nat
      BY <2>1
    <2> QED
      BY <2>2, <1>1, Given
  <1> QED
    BY <1>1, <1>7, <1>9, <1>12, <1>13, <1>14, <1>15, Given, ToShow

(* The reading of a transaction is cut short.                              *)
LEMMA ReadTxThrowsInv ==
    ASSUME WalletInv, ReadTxThrows
    PROVE  WalletInv'
  <1> DEFINE k == step.read + 1
             t == Txs[Current][k]
  <1>1. /\ IsNew /\ step.read < Len(Txs[Current]) /\ w' = ReadInPart(w, t, step.index)
        /\ \/ t \notin OnDaemon /\ free' = {} /\ UNCHANGED faults
           \/ Fault /\ UNCHANGED free
        /\ torn' = torn \cup {Current} /\ reread' = reread \cup {Current}
        /\ TryAgain(step.fetched \/ step.added)
        /\ UNCHANGED <<daemon, saved>>
    BY DEF ReadTxThrows
  <1>2. /\ step \in BlockSteps /\ step.at = "blocks"
        /\ step.index = Len(w.blockchain) + 1 /\ step.index \in Nat
        /\ step.read \in Nat /\ w \in Book /\ torn \in SUBSET Block /\ Current \in Block
        /\ step \in Steps
        /\ Books(w, torn, PartOf(step)) /\ AtTx(w, PartOf(step), Current, k)
    BY <1>1, NewBlock
  <1>3. Len(Txs[Current]) \in Nat /\ k \in 1 .. Len(Txs[Current]) /\ t \in Tx
    <2>1. Len(Txs[Current]) \in Nat /\ \A i \in 1 .. Len(Txs[Current]) : Txs[Current][i] \in Tx
      BY <1>2, ConstantFacts
    <2>2. k \in 1 .. Len(Txs[Current])
      BY <1>1, <1>2, <2>1
    <2> QED
      BY <2>1, <2>2
  <1>4. SpendsRead(w, w', t, Len(w.blockchain) + 1)
    <2>1. SpendsRead(w, w', t, step.index)
      BY <1>1, <1>2, <1>3, ReadInPartFacts
    <2> QED
      BY <2>1, <1>2
  <1>5. Books(w', torn', {})
    BY <1>1, <1>2, <1>3, <1>4, ThrowBooks
  <1>6. w' \in Book
    BY <1>4 DEF SpendsRead
  <1>7. (step.fetched \/ step.added) \in BOOLEAN
    BY <1>2 DEF BlockSteps
  <1>8. step' \in Steps /\ step'.at \in {"idle", "pull"}
    BY <1>1, <1>2, <1>7, TryAgainRests
  <1>9. Kept(w', torn', step')
    BY <1>5, <1>8, AtRest
  <1>10. DaemonTyped'
    BY <1>1, Given, SameDaemon
  <1>11. free' \subseteq Nat /\ faults' \in 0 .. MaxFaults
    BY <1>1, Given, FaultCounted
  <1>12. torn' \subseteq Block /\ reread' \subseteq Block
    BY <1>1, <1>2, Given
  <1>13. Told(w', torn', reread')
    <2>1. Indexed(w)
      BY <1>2 DEF Books
    <2> QED
      BY <2>1, <1>1, <1>2, <1>3, <1>4, Given, ThrowTold
  <1> QED
    BY <1>1, <1>6, <1>8, <1>9, <1>10, <1>11, <1>12, <1>13, Given, ToShow

(* The block has been read.                                                *)
LEMMA EndOfBlockInv ==
    ASSUME WalletInv, EndOfBlock
    PROVE  WalletInv'
  <1>1. /\ IsNew /\ step.read = Len(Txs[Current])
        /\ w' = [w EXCEPT !.blockchain = Append(@, Current)]
        /\ torn' = torn \ {Current} /\ NextBlock(TRUE) /\ UNCHANGED <<daemon, free, saved, reread, faults>>
    BY DEF EndOfBlock
  <1>2. /\ step \in BlockSteps /\ step.at = "blocks" /\ step.blocks # <<>>
        /\ step.index = Len(w.blockchain) + 1 /\ step.index \in Nat /\ step.index >= 1
        /\ step.blocks \in Seq(Block) /\ Current = Head(step.blocks)
        /\ w \in Book /\ torn \in SUBSET Block /\ Current \in Block /\ step \in Steps
        /\ Books(w, torn, PartOf(step)) /\ AtTx(w, PartOf(step), Current, step.read + 1)
        /\ On(step.blocks, step.index, w.blockchain)
    BY <1>1, NewBlock
  <1>3. w' \in Book /\ Books(w', torn', {})
    <2>1. AtTx(w, PartOf(step), Current, Len(Txs[Current]) + 1)
      BY <1>1, <1>2
    <2> QED
      BY <2>1, <1>1, <1>2, EndBooks
  <1>4. /\ step' \in BlockSteps /\ step' \in Steps /\ step'.at = "blocks"
        /\ step'.read = 0 /\ step'.index = step.index + 1 /\ step'.blocks = Tail(step.blocks)
    BY <1>1, <1>2, NextBlockFacts DEF IsNew
  <1>5. w'.blockchain = Append(w.blockchain, Current)
    BY <1>1, <1>2 DEF Book
  <1>6. /\ w.blockchain \in Seq(Block) /\ Len(w.blockchain) \in Nat
        /\ DOMAIN w.blockchain = 1 .. Len(w.blockchain)
    BY <1>2, BookFacts
  <1>7. /\ w'.blockchain[step.index] = Head(step.blocks)
        /\ \A j \in 1 .. step.index : j \in DOMAIN w'.blockchain
        /\ \A j \in 1 .. step.index - 1 : w'.blockchain[j] = w.blockchain[j]
    BY <1>2, <1>5, <1>6
  <1>8. On(Tail(step.blocks), step.index + 1, w'.blockchain)
    BY <1>2, <1>7, OnTail
  <1>9. PulledOn(w', step') /\ SelectedFree(w', step')
    BY <1>2, <1>4, <1>8 DEF PulledOn, SelectedFree
  <1>10. PartOf(step') = {}
    BY <1>4, PartOfFacts
  <1>11. Kept(w', torn', step')
    BY <1>3, <1>9, <1>10 DEF Kept
  <1>12. DaemonTyped'
    BY <1>1, Given, SameDaemon
  <1>13. torn' \subseteq Block
    BY <1>1, <1>2
  <1>14. Told(w', torn', reread')
    BY <1>1, <1>2, Given, EndTold
  <1> QED
    BY <1>1, <1>3, <1>4, <1>11, <1>12, <1>13, <1>14, Given, ToShow

(* Marks of transfers are set, or taken from transfers that no block has   *)
(* spent.                                                                  *)
MarkedSeq(x, T, m) ==
    [i \in DOMAIN x.transfers |->
        IF i \in T THEN [x.transfers[i] EXCEPT !.spent = m] ELSE x.transfers[i]]

(* Marking changes the mark only, and takes none from a transfer that a    *)
(* block has spent.                                                        *)
LEMMA MarkFacts ==
    ASSUME NEW x \in Book, NEW T, NEW m \in BOOLEAN,
           m \/ \A i \in T \cap DOMAIN x.transfers : x.transfers[i].spent_height = 0
    PROVE  LET s == MarkedSeq(x, T, m) IN
           /\ s \in Seq(Transfer) /\ DOMAIN s = DOMAIN x.transfers
           /\ \A i \in DOMAIN x.transfers :
                 /\ s[i].out = x.transfers[i].out /\ s[i].height = x.transfers[i].height
                 /\ s[i].spent_height = x.transfers[i].spent_height
                 /\ x.transfers[i].spent_height # 0 /\ x.transfers[i].spent => s[i].spent
  <1> DEFINE s == MarkedSeq(x, T, m)
  <1>1. /\ Len(x.transfers) \in Nat /\ DOMAIN x.transfers = 1 .. Len(x.transfers)
        /\ \A i \in DOMAIN x.transfers : x.transfers[i] \in Transfer
    BY BookFacts
  <1>2. ASSUME NEW i \in DOMAIN x.transfers
        PROVE  /\ s[i] \in Transfer
               /\ s[i].out = x.transfers[i].out /\ s[i].height = x.transfers[i].height
               /\ s[i].spent_height = x.transfers[i].spent_height
               /\ x.transfers[i].spent_height # 0 /\ x.transfers[i].spent => s[i].spent
    <2>1. CASE i \in T
      <3> DEFINE q == [x.transfers[i] EXCEPT !.spent = m]
      <3>1. s[i] = q
        BY <2>1 DEF MarkedSeq
      <3>2. /\ q \in Transfer /\ q.out = x.transfers[i].out /\ q.height = x.transfers[i].height
            /\ q.spent_height = x.transfers[i].spent_height /\ q.spent = m
        BY <1>1 DEF Transfer
      <3>3. m \/ x.transfers[i].spent_height = 0
        BY <2>1
      <3> HIDE DEF q, s
      <3> QED
        BY <3>1, <3>2, <3>3
    <2>2. CASE i \notin T
      <3>1. s[i] = x.transfers[i]
        BY <2>2 DEF MarkedSeq
      <3> HIDE DEF s
      <3> QED
        BY <3>1, <1>1
    <2> QED
      BY <2>1, <2>2
  <1>3. s \in Seq(Transfer) /\ DOMAIN s = DOMAIN x.transfers
    <2>1. \A i \in DOMAIN x.transfers : s[i] \in Transfer
      BY <1>2
    <2>2. s \in [DOMAIN x.transfers -> Transfer]
      BY <2>1 DEF MarkedSeq
    <2>3. s \in [1 .. Len(x.transfers) -> Transfer]
      BY <2>2, <1>1
    <2> HIDE DEF s
    <2> QED
      BY <2>2, <2>3, <1>1
  <1> QED
    BY <1>2, <1>3

(* Such marks with other waiting transactions.                             *)
LEMMA MarkRemarks ==
    ASSUME NEW x \in Book, NEW T, NEW m \in BOOLEAN,
           m \/ \A i \in T \cap DOMAIN x.transfers : x.transfers[i].spent_height = 0,
           NEW y \in Book, y.transfers = MarkedSeq(x, T, m), y.blockchain = x.blockchain,
           y.key_images = x.key_images, y.history = x.history
    PROVE  Remarked(x, y)
  <1>1. LET s == MarkedSeq(x, T, m) IN
        /\ s \in Seq(Transfer) /\ DOMAIN s = DOMAIN x.transfers
        /\ \A i \in DOMAIN x.transfers :
              /\ s[i].out = x.transfers[i].out /\ s[i].height = x.transfers[i].height
              /\ s[i].spent_height = x.transfers[i].spent_height
              /\ x.transfers[i].spent_height # 0 /\ x.transfers[i].spent => s[i].spent
    BY MarkFacts
  <1> QED
    BY <1>1 DEF Remarked

(* Marked.                                                                 *)
LEMMA MarkedFacts ==
    ASSUME NEW x \in Book, NEW T, NEW m \in BOOLEAN,
           m \/ \A i \in T \cap DOMAIN x.transfers : x.transfers[i].spent_height = 0
    PROVE  Remarked(x, Marked(x, T, m))
  <1> DEFINE s == MarkedSeq(x, T, m)
             y == Marked(x, T, m)
  <1>1. s \in Seq(Transfer)
    BY MarkFacts
  <1>2. y = [x EXCEPT !.transfers = s]
    BY DEF Marked, MarkedSeq
  <1> HIDE DEF s, y
  <1>3. y \in Book /\ SameOthers(x, y) /\ y.transfers = s
    BY <1>1, <1>2, OtherTransfers
  <1>4. Remarked(x, y)
    BY <1>3, MarkRemarks DEF SameOthers, s
  <1> QED
    BY <1>4 DEF y

(* scan_unconfirmed_outdate_tx takes marks away.                           *)
LEMMA OutdateFacts ==
    ASSUME NEW x \in Book, NEW old
    PROVE  Remarked(x, scan_unconfirmed_outdate_tx(x, old))
  <1> DEFINE selected == UNION {x.unconfirmed[t].selected : t \in old}
             waiting  == Without(x.unconfirmed, old)
             reserved == UNION {Ins[t] : t \in {u \in DOMAIN waiting : ~waiting[u].is_income}}
             unmark(i) == x.transfers[i].spent_height = 0
                            /\ (i \in selected \/ x.transfers[i].out \notin reserved)
             T == {i \in DOMAIN x.transfers : unmark(i)}
             s == [i \in DOMAIN x.transfers |->
                     IF unmark(i) THEN [x.transfers[i] EXCEPT !.spent = FALSE] ELSE x.transfers[i]]
             y == scan_unconfirmed_outdate_tx(x, old)
  <1>1. y = [x EXCEPT !.unconfirmed = waiting, !.transfers = s]
    BY DEF scan_unconfirmed_outdate_tx
  <1>2. \A i \in T : x.transfers[i].spent_height = 0
    OBVIOUS
  <1>3. waiting \in Maps(Tx, Waiting)
    BY BookFacts, WithoutFacts
  <1> HIDE DEF selected, waiting, reserved
  <1>4. s = MarkedSeq(x, T, FALSE)
    BY DEF MarkedSeq
  <1> HIDE DEF unmark, T, s, y
  <1>5. s \in Seq(Transfer)
    BY <1>2, <1>4, MarkFacts
  <1>6. /\ y \in Book /\ y.transfers = s /\ y.blockchain = x.blockchain
        /\ y.key_images = x.key_images /\ y.history = x.history
    BY <1>1, <1>3, <1>5 DEF Book
  <1>7. Remarked(x, y)
    BY <1>2, <1>4, <1>6, MarkRemarks
  <1> QED
    BY <1>7 DEF y

(* The pulled blocks are at their end.                                     *)
LEMMA EndOfPullInv ==
    ASSUME WalletInv, EndOfPull
    PROVE  WalletInv'
  <1>1. /\ step.at = "blocks" /\ step.blocks = <<>> /\ UNCHANGED <<daemon, saved, torn, reread, faults>>
    BY DEF EndOfPull, reading
  <1>2. step \in BlockSteps /\ w \in Book /\ Books(w, torn, PartOf(step))
    BY <1>1, Given, StepFacts DEF Kept
  <1>3. Books(w, torn, {})
    <2>1. PartOf(step) = {}
      BY <1>1 DEF PartOf
    <2> QED
      BY <2>1, <1>2
  <1>4. DaemonTyped'
    BY <1>1, Given, SameDaemon
  <1>5. CASE step' = [at |-> "pull", tries |-> step.tries, fetched |-> TRUE] /\ UNCHANGED <<w, free>>
    <2>1. step' \in PullSteps
      BY <1>2, <1>5 DEF PullSteps, BlockSteps
    <2>2. step' \in Steps /\ step'.at = "pull"
      BY <2>1, StepKinds
    <2>3. Kept(w', torn', step')
      BY <2>2, <1>1, <1>3, <1>5, AtRest
    <2> QED
      BY <2>2, <2>3, <1>1, <1>4, <1>5, Given, ToShow
  <1>6. ASSUME step' = Idle, w' \in Book, Books(w', torn, {}), free' \subseteq Nat,
               Told(w', torn, reread)
        PROVE  WalletInv'
    <2>1. Kept(w', torn', step') /\ step' \in Steps
      BY <1>1, <1>6, StepKinds, AtRest
    <2> QED
      BY <2>1, <1>1, <1>4, <1>6, Given, ToShow
  <1>7. ASSUME NEW old, w' = scan_unconfirmed_outdate_tx(w, old), free' = {}, step' = Idle
        PROVE  WalletInv'
    <2>1. Remarked(w, w')
      BY <1>2, <1>7, OutdateFacts
    <2>2. Books(w', torn, {})
      BY <2>1, <1>2, <1>3, RemarkBooks
    <2>3. w' \in Book
      BY <2>1 DEF Remarked
    <2>4. Told(w', torn, reread)
      BY <2>1, <1>2, <1>3, Given, RemarkTold
    <2> QED
      BY <2>2, <2>3, <2>4, <1>6, <1>7
  <1>8. CASE step' = Idle /\ UNCHANGED <<w, free>>
    BY <1>2, <1>3, <1>6, <1>8, Given
  <1> QED
    BY <1>5, <1>7, <1>8, Zenon DEF EndOfPull

(* The pool is looked into.                                                *)
LEMMA ScanInv ==
    ASSUME WalletInv, scan_tx_pool
    PROVE  WalletInv'
  <1>1. step = Idle /\ UNCHANGED <<daemon, free, step, saved, torn, reread, faults>>
    BY DEF scan_tx_pool, reading
  <1>17. PICK expired \in SUBSET dpool :
           LET incoming == {t \in dpool \ expired :
                               (Outs[t] # <<>> /\ Found(w, t) = {}) \/ t \in Attached}
               outgoing == {t \in dpool \ incoming : Found(w, t) # {}}
               new == (incoming \cup outgoing) \ (w.unconfirmed_in \cup DOMAIN w.unconfirmed)
               Spends(t) == IF t \in outgoing THEN Found(w, t) ELSE {}
               info(t) == [is_income |-> t \in incoming, selected |-> Spends(t)]
               marked == UNION {Spends(t) : t \in new}
           IN  w' = [w EXCEPT
                !.unconfirmed_in = (@ \cap dpool) \cup incoming \cup outgoing,
                !.unconfirmed = [t \in DOMAIN @ \cup new |-> IF t \in new THEN info(t) ELSE @[t]],
                !.transfers = [i \in DOMAIN @ |->
                    IF i \in marked THEN [@[i] EXCEPT !.spent = TRUE] ELSE @[i]]]
    BY Zenon DEF scan_tx_pool
  <1> DEFINE incoming == {t \in dpool \ expired :
                               (Outs[t] # <<>> /\ Found(w, t) = {}) \/ t \in Attached}
             outgoing == {t \in dpool \ incoming : Found(w, t) # {}}
             new == (incoming \cup outgoing) \ (w.unconfirmed_in \cup DOMAIN w.unconfirmed)
             Spends(t) == IF t \in outgoing THEN Found(w, t) ELSE {}
             info(t) == [is_income |-> t \in incoming, selected |-> Spends(t)]
             marked == UNION {Spends(t) : t \in new}
             inn == (w.unconfirmed_in \cap dpool) \cup incoming \cup outgoing
             u == [t \in DOMAIN w.unconfirmed \cup new |->
                        IF t \in new THEN info(t) ELSE w.unconfirmed[t]]
             s == MarkedSeq(w, marked, TRUE)
  <1>2. w' = [w EXCEPT !.unconfirmed_in = inn, !.unconfirmed = u, !.transfers = s]
    BY <1>17 DEF MarkedSeq
  <1>3. w \in Book /\ dpool \subseteq Tx
    BY Given DEF DaemonTyped
  <1>4. /\ w.unconfirmed \in Maps(Tx, Waiting) /\ w.unconfirmed_in \subseteq Tx
    BY <1>3, BookFacts
  <1>5. DOMAIN w.unconfirmed \subseteq Tx /\ \A t \in DOMAIN w.unconfirmed : w.unconfirmed[t] \in Waiting
    BY <1>4, MapFacts
  <1>6. \A t : Found(w, t) \subseteq Nat
    BY <1>3, BookFacts DEF Found
  <1>7. \A t : info(t) \in Waiting
    BY <1>6 DEF Waiting
  <1>8. new \subseteq Tx /\ inn \in SUBSET Tx
    BY <1>3, <1>4
  <1> HIDE DEF new, info, incoming, outgoing, Spends, marked, inn
  <1>9. u \in Maps(Tx, Waiting)
    <2> DEFINE D == DOMAIN w.unconfirmed \cup new
    <2>1. D \in SUBSET Tx
      BY <1>5, <1>8
    <2>2. u \in [D -> Waiting]
      BY <1>5, <1>7
    <2> HIDE DEF D, u
    <2> QED
      BY <2>1, <2>2 DEF Maps
  <1>10. s \in Seq(Transfer)
    BY <1>3, MarkFacts
  <1> HIDE DEF u, s
  <1>11. /\ w' \in Book /\ w'.transfers = s /\ w'.blockchain = w.blockchain
         /\ w'.key_images = w.key_images /\ w'.history = w.history
    BY <1>2, <1>3, <1>8, <1>9, <1>10 DEF Book
  <1>12. Remarked(w, w')
    BY <1>3, <1>11, MarkRemarks DEF s
  <1>13. Books(w, torn, {})
    BY <1>1, Given, StepKinds, AtRest
  <1>14. Books(w', torn', {})
    BY <1>1, <1>3, <1>12, <1>13, RemarkBooks
  <1>15. Kept(w', torn', step')
    BY <1>1, <1>14, StepKinds, AtRest
  <1>16. DaemonTyped'
    BY <1>1, Given, SameDaemon
  <1>18. Told(w', torn', reread')
    BY <1>1, <1>3, <1>12, <1>13, Given, RemarkTold
  <1> QED
    BY <1>1, <1>11, <1>15, <1>16, <1>18, Given, ToShow

(* Transfers are selected: none of them is spent.                          *)
LEMMA SelectInv ==
    ASSUME WalletInv, NEW t \in Tx, SelectTransfers(t)
    PROVE  WalletInv'
  <1>1. step = Idle /\ UNCHANGED <<daemon, saved, torn, reread, faults>>
    BY DEF SelectTransfers, reading
  <1>2. PICK seen \in SUBSET prepare_free_transfers_cache :
          /\ seen \subseteq DOMAIN w.transfers
          /\ LET selected == {i \in seen : is_transfer_ready_to_go(w.transfers[i])} IN
             /\ {w.transfers[i].out : i \in selected} = Ins[t]
             /\ w' = Marked(w, selected, TRUE)
             /\ step' = [at |-> "send", tx |-> t, selected |-> selected]
          /\ free' = prepare_free_transfers_cache \ seen
    BY Zenon DEF SelectTransfers
  <1> DEFINE selected == {i \in seen : is_transfer_ready_to_go(w.transfers[i])}
  <1>3. /\ seen \subseteq DOMAIN w.transfers /\ w' = Marked(w, selected, TRUE)
        /\ step' = [at |-> "send", tx |-> t, selected |-> selected]
        /\ free' = prepare_free_transfers_cache \ seen
    BY <1>2
  <1>4. \A i \in selected : i \in DOMAIN w.transfers /\ ~w.transfers[i].spent
    BY <1>3 DEF is_transfer_ready_to_go
  <1> HIDE DEF selected
  <1>5. w \in Book /\ DOMAIN w.transfers \subseteq Nat
    BY Given, BookFacts
  <1>6. Books(w, torn, {})
    BY <1>1, Given, StepKinds, AtRest
  <1>7. Remarked(w, w')
    BY <1>3, <1>5, MarkedFacts
  <1>8. w' \in Book /\ Books(w', torn', {})
    BY <1>1, <1>5, <1>6, <1>7, RemarkBooks DEF Remarked
  <1>9. \A i \in selected : w'.transfers[i].spent_height = 0
    BY <1>4, <1>6, <1>7 DEF Books, SpendsTrue, Remarked
  <1>10. step' \in SendSteps /\ step'.selected = selected
    BY <1>3, <1>4, <1>5 DEF SendSteps
  <1>11. step' \in Steps /\ step'.at = "send"
    BY <1>10, StepKinds
  <1>12. PartOf(step') = {}
    BY <1>11, PartOfFacts
  <1>13. Kept(w', torn', step')
    BY <1>8, <1>9, <1>10, <1>11, <1>12 DEF Kept, PulledOn, SelectedFree
  <1>14. free' \subseteq Nat
    BY <1>3, <1>5, Given DEF prepare_free_transfers_cache
  <1>15. DaemonTyped'
    BY <1>1, Given, SameDaemon
  <1>16. Told(w', torn', reread')
    BY <1>1, <1>5, <1>6, <1>7, Given, RemarkTold
  <1> QED
    BY <1>1, <1>8, <1>11, <1>13, <1>14, <1>15, <1>16, Given, ToShow

(* The cache leads beyond the transfers.                                   *)
LEMMA SelectBeyondInv ==
    ASSUME WalletInv, SelectBeyond
    PROVE  WalletInv'
  <1>1. step = Idle /\ step' = [at |-> "dead"] /\ UNCHANGED <<daemon, w, free, saved, torn, reread, faults>>
    BY DEF SelectBeyond, reading
  <1>2. Books(w, torn, {})
    BY <1>1, Given, StepKinds, AtRest
  <1>3. Kept(w', torn', step') /\ step' \in Steps
    BY <1>1, <1>2, StepKinds, AtRest
  <1>4. DaemonTyped'
    BY <1>1, Given, SameDaemon
  <1> QED
    BY <1>1, <1>3, <1>4, Given, ToShow

(* Not enough was found.                                                   *)
LEMMA SelectFailsInv ==
    ASSUME WalletInv, SelectFails
    PROVE  WalletInv'
  <1>1. free' = {} /\ UNCHANGED <<daemon, w, step, saved, torn, reread, faults>>
    BY DEF SelectFails, reading
  <1>2. DaemonTyped'
    BY <1>1, Given, SameDaemon
  <1> QED
    BY <1>1, <1>2, Given, ToShow

(* The transaction is sent, or the transfers are given back.               *)
LEMMA SendInv ==
    ASSUME WalletInv, SendTransaction
    PROVE  WalletInv'
  <1>1. step.at = "send" /\ step' = Idle /\ UNCHANGED <<tip, free, saved, torn, reread>>
    BY DEF SendTransaction, reading
  <1>2. step \in SendSteps /\ step \in Steps
    BY <1>1, Given, StepFacts
  <1>3. step.tx \in Tx /\ step.selected \subseteq Nat
    BY <1>2 DEF SendSteps
  <1>4. w \in Book /\ SelectedFree(w, step) /\ Books(w, torn, PartOf(step))
    BY Given DEF Kept
  <1>5. Books(w, torn, {})
    <2>1. PartOf(step) = {}
      BY <1>1, <1>2, PartOfFacts
    <2> QED
      BY <2>1, <1>4
  <1>6. /\ \/ made' = made \cup {step.tx} /\ dpool' = dpool \cup {step.tx}
           \/ UNCHANGED <<made, dpool>>
        /\ w' = Sent(step.tx, step.selected) \/ w' = Marked(w, step.selected, FALSE)
        /\ UNCHANGED faults \/ Fault
    BY DEF SendTransaction
  <1>7. OnDaemon' = OnDaemon
    BY <1>1 DEF OnDaemon
  <1>8. DaemonTyped'
    BY <1>1, <1>3, <1>6, <1>7, Given DEF DaemonTyped
  <1>9. Remarked(w, w')
    <2>1. CASE w' = Sent(step.tx, step.selected)
      <3> DEFINE e == [is_income |-> FALSE, selected |-> step.selected]
                 u == With(w.unconfirmed, step.tx, e)
      <3>1. e \in Waiting
        BY <1>3 DEF Waiting
      <3>2. w.unconfirmed \in Maps(Tx, Waiting)
        BY <1>4, BookFacts
      <3>3. w' = [w EXCEPT !.unconfirmed = u]
        BY <2>1 DEF Sent
      <3> HIDE DEF e
      <3>4. u \in Maps(Tx, Waiting)
        BY <3>1, <3>2, <1>3, WithFacts
      <3> HIDE DEF u
      <3>5. w' \in Book /\ SameOthers(w, w') /\ w'.transfers = w.transfers
        BY <3>3, <3>4, <1>4, OtherWaiting
      <3> QED
        BY <3>5 DEF Remarked, SameOthers
    <2>2. CASE w' = Marked(w, step.selected, FALSE)
      <3>1. \A i \in step.selected \cap DOMAIN w.transfers : w.transfers[i].spent_height = 0
        BY <1>1, <1>4 DEF SelectedFree
      <3> QED
        BY <2>2, <3>1, <1>4, MarkedFacts
    <2> QED
      BY <2>1, <2>2, <1>6
  <1>10. w' \in Book /\ Books(w', torn', {})
    BY <1>1, <1>4, <1>5, <1>9, RemarkBooks DEF Remarked
  <1>11. Kept(w', torn', step') /\ step' \in Steps
    BY <1>1, <1>10, StepKinds, AtRest
  <1>12. faults' \in 0 .. MaxFaults
    BY <1>6, Given, FaultCounted
  <1>13. Told(w', torn', reread')
    BY <1>1, <1>4, <1>5, <1>9, Given, RemarkTold
  <1> QED
    BY <1>1, <1>8, <1>10, <1>11, <1>12, <1>13, Given, ToShow

(* The file is written.                                                    *)
LEMMA StoreInv ==
    ASSUME WalletInv, store
    PROVE  WalletInv'
  <1>1. /\ step = Idle /\ Fault /\ saved' = [w |-> w, torn |-> torn, reread |-> reread]
        /\ UNCHANGED <<daemon, w, free, step, torn, reread>>
    BY DEF store, reading
  <1>2. Books(w, torn, {})
    BY <1>1, Given, StepKinds, AtRest
  <1>3. saved' \in Files /\ saved'.w = w /\ saved'.torn = torn /\ saved'.reread = reread
    BY <1>1, Given DEF Files
  <1>4. Books(saved'.w, saved'.torn, {}) /\ Told(saved'.w, saved'.torn, saved'.reread)
    BY <1>2, <1>3, Given
  <1>5. DaemonTyped'
    BY <1>1, Given, SameDaemon
  <1>6. faults' \in 0 .. MaxFaults
    BY <1>1, Given, FaultCounted
  <1> QED
    BY <1>1, <1>3, <1>4, <1>5, <1>6, Given, ToShow

(* A crash while the file is written.                                      *)
LEMMA CrashInStoreInv ==
    ASSUME WalletInv, CrashInStore
    PROVE  WalletInv'
  <1>1. /\ step = Idle /\ Fault /\ saved' = [w |-> Cleared, torn |-> {}, reread |-> {}]
        /\ w' = Cleared /\ torn' = {} /\ reread' = {} /\ free' = {} /\ UNCHANGED daemon
        /\ step' \in {Idle, [at |-> "lost"]}
    BY DEF CrashInStore, NewFile
  <1>2. Cleared \in Book /\ Books(Cleared, {}, {})
    BY ClearedBooks
  <1>3. saved' \in Files /\ saved'.w = Cleared /\ saved'.torn = {} /\ saved'.reread = {}
    BY <1>1, <1>2 DEF Files
  <1>4. /\ Books(saved'.w, saved'.torn, {}) /\ Told(saved'.w, saved'.torn, saved'.reread)
        /\ Told(w', torn', reread')
    BY <1>1, <1>2, <1>3, ClearedTold
  <1>8. step' \in Steps /\ step'.at \in {"idle", "lost"}
    BY <1>1, StepKinds
  <1>5. Kept(w', torn', step')
    BY <1>1, <1>2, <1>8, AtRest
  <1>6. DaemonTyped'
    BY <1>1, Given, SameDaemon
  <1>7. faults' \in 0 .. MaxFaults
    BY <1>1, Given, FaultCounted
  <1> QED
    BY <1>1, <1>2, <1>3, <1>4, <1>5, <1>6, <1>7, <1>8, ToShow

(* A crash at any time.                                                    *)
LEMMA CrashAndLoadInv ==
    ASSUME WalletInv, CrashAndLoad
    PROVE  WalletInv'
  <1>1. /\ Fault /\ w' = saved.w /\ torn' = saved.torn /\ reread' = saved.reread
        /\ free' = {} /\ step' = Idle /\ UNCHANGED <<daemon, saved>>
    BY DEF CrashAndLoad
  <1>2. saved.w \in Book /\ saved.torn \subseteq Block /\ saved.reread \subseteq Block
    BY Given DEF Files
  <1>3. Kept(w', torn', step') /\ step' \in Steps
    BY <1>1, Given, StepKinds, AtRest
  <1>4. DaemonTyped'
    BY <1>1, Given, SameDaemon
  <1>5. faults' \in 0 .. MaxFaults
    BY <1>1, Given, FaultCounted
  <1> QED
    BY <1>1, <1>2, <1>3, <1>4, <1>5, Given, ToShow

(* A step of the specification.                                            *)
LEMMA StepInv == WalletInv /\ [Next]_vars => WalletInv'
  <1> SUFFICES ASSUME WalletInv, [Next]_vars PROVE WalletInv'
    OBVIOUS
  <1>1. CASE UNCHANGED vars
    <2>1. UNCHANGED <<daemon, w, free, step, saved, torn, reread, faults>>
      BY <1>1 DEF vars, daemon, reading
    <2>2. DaemonTyped'
      BY <2>1, Given, SameDaemon
    <2> QED
      BY <2>1, <2>2, Given, ToShow
  <1>2. ASSUME NEW b \in Block, DaemonMoves(b) PROVE WalletInv'
    BY <1>2, DaemonMovesInv
  <1>3. ASSUME NEW t \in Tx, DaemonTx(t) PROVE WalletInv'
    BY <1>3, DaemonTxInv
  <1>4. ASSUME NEW t \in Tx, SelectTransfers(t) PROVE WalletInv'
    BY <1>4, SelectInv
  <1>5. CASE RefreshStep
    <2>1. CASE pull_blocks
      BY <2>1, PullInv
    <2>2. CASE KnownBlock
      BY <2>2, KnownBlockInv
    <2>3. CASE Split
      BY <2>3, SplitInv
    <2>4. CASE ReadTx
      BY <2>4, ReadTxInv
    <2>5. CASE EndOfBlock
      BY <2>5, EndOfBlockInv
    <2>6. CASE EndOfPull
      BY <2>6, EndOfPullInv
    <2> QED
      BY <1>5, <2>1, <2>2, <2>3, <2>4, <2>5, <2>6 DEF RefreshStep
  <1>6. CASE Refresh
    BY <1>6, RefreshInv
  <1>7. CASE PullFails
    BY <1>7, PullFailsInv
  <1>8. CASE ReadTxThrows
    BY <1>8, ReadTxThrowsInv
  <1>9. CASE scan_tx_pool
    BY <1>9, ScanInv
  <1>10. CASE SelectBeyond
    BY <1>10, SelectBeyondInv
  <1>11. CASE SelectFails
    BY <1>11, SelectFailsInv
  <1>12. CASE SendTransaction
    BY <1>12, SendInv
  <1>13. CASE store
    BY <1>13, StoreInv
  <1>14. CASE CrashInStore
    BY <1>14, CrashInStoreInv
  <1>15. CASE CrashAndLoad
    BY <1>15, CrashAndLoadInv
  <1> QED
    BY <1>1, <1>2, <1>3, <1>4, <1>5, <1>6, <1>7, <1>8, <1>9, <1>10, <1>11, <1>12, <1>13, <1>14,
       <1>15, Zenon DEF Next

(* The invariant of Wallet, for every tree of blocks and any number of     *)
(* faults.                                                                 *)
THEOREM Invariant == Spec => []WalletInv
  BY InitInv, StepInv, PTL DEF Spec

-----------------------------------------------------------------------------
(***************************************************************************)
(* What follows from it.                                                   *)
(***************************************************************************)
(* TypeOK of Wallet holds in every state: the wallet's books keep their    *)
(* shape through splits, blocks read in part and restarts.                 *)
THEOREM TypeCorrect == Spec => []TypeOK
  <1>1. WalletInv => TypeOK
    <2> SUFFICES ASSUME WalletInv PROVE TypeOK
      OBVIOUS
    <2>1. /\ tip \in Block /\ dpool \subseteq made /\ made \subseteq Tx
      BY Given DEF DaemonTyped
    <2>2. w \in Book /\ Indexed(w)
      BY Given DEF Kept, Books
    <2>3. DOMAIN w = {"blockchain", "transfers", "key_images", "unconfirmed", "unconfirmed_in",
                      "history"}
      BY <2>2 DEF Book
    <2>4. /\ w.blockchain \in Seq(Block) /\ w.transfers \in Seq(Transfer)
          /\ DOMAIN w.key_images \subseteq Out /\ w.unconfirmed_in \subseteq Tx
          /\ DOMAIN w.history \subseteq Tx \X Nat /\ w.unconfirmed \in Maps(Tx, Waiting)
          /\ \A e \in DOMAIN w.history : w.history[e] \in Seq(SUBSET Out)
      BY <2>2, BookFacts
    <2>5. Range(w.key_images) \subseteq DOMAIN w.transfers
      BY <2>2 DEF Indexed, Range
    <2>6. DOMAIN w.unconfirmed \subseteq Tx
      BY <2>4, MapFacts
    <2>7. step.at \in {"idle", "pull", "blocks", "send", "dead", "lost"}
      BY Given, StepFacts
    <2>8. Range(w.history) \subseteq Seq(SUBSET Out)
      BY <2>4 DEF Range
    <2>9. torn \subseteq reread
      BY Given DEF Told
    <2> QED
      BY <2>1, <2>3, <2>4, <2>5, <2>6, <2>7, <2>8, <2>9, Given DEF TypeOK
  <1> QED
    BY <1>1, Invariant, PTL

(* KeyImagesIndexed holds in every state: m_key_images leads to the        *)
(* transfer of each output of the books, and to no other.                  *)
THEOREM KeyImagesTrue == Spec => []KeyImagesIndexed
  <1>1. WalletInv => KeyImagesIndexed
    <2> SUFFICES ASSUME WalletInv, NEW o \in Out
                 PROVE  {i \in DOMAIN w.transfers : w.transfers[i].out = o}
                           = IF o \in DOMAIN w.key_images THEN {w.key_images[o]} ELSE {}
      BY DEF KeyImagesIndexed
    <2>1. Indexed(w)
      BY Given DEF Kept, Books
    <2>2. CASE o \in DOMAIN w.key_images
      BY <2>1, <2>2 DEF Indexed
    <2>3. CASE o \notin DOMAIN w.key_images
      BY <2>1, <2>3 DEF Indexed
    <2> QED
      BY <2>2, <2>3
  <1> QED
    BY <1>1, Invariant, PTL

(* The books say what the chain says when nothing was read in part.        *)
LEMMA BooksTell ==
    ASSUME WalletInv, torn = {}, step.at = "blocks" => step.read = 0
    PROVE  /\ {w.transfers[i].out : i \in DOMAIN w.transfers} = {o \in Out : Created(o) # {}}
           /\ \A i \in DOMAIN w.transfers :
                 /\ Created(w.transfers[i].out) = {w.transfers[i].height}
                 /\ SpentIn(w.transfers[i].out) = {w.transfers[i].spent_height} \ {0}
                 /\ w.transfers[i].spent_height # 0 => w.transfers[i].spent
                 /\ i > 1 => w.transfers[i - 1].height <= w.transfers[i].height
           /\ DOMAIN w.history = {e \in Tx \X DOMAIN w.blockchain :
                 e[1] \in BlockTxs(e[2]) /\ (Outs[e[1]] # <<>> \/ Ins[e[1]] # {})}
  <1>1. PartOf(step) = {}
    BY Given, PartOfFacts
  <1>2. w \in Book /\ Books(w, {}, {})
    BY <1>1, Given DEF Kept
  <1>3. /\ OnTree(w) /\ Indexed(w) /\ Ordered(w)
        /\ TransfersTrue(w) /\ HistoryTrue(w, {}, {}) /\ SpendsTrue(w, {}, {})
        /\ OutputsFound(w, {}) /\ SpendsFound(w, {}) /\ HistoryFound(w, {}, {})
    BY <1>2 DEF Books
  <1>4. /\ DOMAIN w.blockchain = 1 .. Len(w.blockchain) /\ Len(w.blockchain) \in Nat
        /\ \A h \in DOMAIN w.blockchain : w.blockchain[h] \in Block
        /\ DOMAIN w.transfers = 1 .. Len(w.transfers) /\ Len(w.transfers) \in Nat
        /\ \A i \in DOMAIN w.transfers : w.transfers[i].out \in Out /\ w.transfers[i].height \in Nat
                                            /\ w.transfers[i].spent_height \in Nat
        /\ DOMAIN w.history \subseteq Tx \X Nat
    BY <1>2, BookFacts
  <1>5. \A h \in DOMAIN w.blockchain : BlockTxs(h) \subseteq Tx /\ h \in Nat
    BY <1>4, ConstantFacts DEF BlockTxs
  <1>6. \A t, h : Done(w, {}, t, h) <=> h \in DOMAIN w.blockchain /\ t \in BlockTxs(h)
    BY DEF Done, BlockTxs
  <1>7. \A t, h : Touched(w, {}, {}, t, h) <=> Done(w, {}, t, h)
    BY DEF Touched
  <1>8. ASSUME NEW i \in DOMAIN w.transfers
        PROVE  Created(w.transfers[i].out) = {w.transfers[i].height}
    <2> DEFINE o == w.transfers[i].out
               h == w.transfers[i].height
    <2>1. PICK t \in Tx : o \in Range(Outs[t]) /\ <<t, h>> \in DOMAIN w.history
      BY <1>3 DEF TransfersTrue
    <2>2. h \in DOMAIN w.blockchain /\ t \in BlockTxs(h)
      BY <2>1, <1>3, <1>4, <1>6, <1>7 DEF HistoryTrue
    <2>3. ASSUME NEW g \in DOMAIN w.blockchain, NEW u \in BlockTxs(g), o \in Range(Outs[u])
          PROVE  g = h
      <3>1. u = t
        BY <2>1, <2>3, <1>5, LedgerAssumption
      <3> QED
        BY <2>2, <2>3, <3>1, <1>2, <1>3, OneHeight DEF BlockTxs
    <2> HIDE DEF o, h
    <2>4. Created(o) = {h}
      BY <2>1, <2>2, <2>3 DEF Created
    <2> QED
      BY <2>4 DEF o, h
  <1>9. ASSUME NEW i \in DOMAIN w.transfers
        PROVE  SpentIn(w.transfers[i].out) = {w.transfers[i].spent_height} \ {0}
    <2> DEFINE o == w.transfers[i].out
               h == w.transfers[i].spent_height
    <2>1. o \in DOMAIN w.key_images /\ w.key_images[o] = i
      BY <1>3 DEF Indexed
    <2>2. ASSUME NEW g \in DOMAIN w.blockchain, NEW u \in BlockTxs(g), o \in Ins[u]
          PROVE  g = h /\ g # 0
      <3>1. u \in Tx /\ g \in Nat /\ Done(w, {}, u, g)
        BY <1>5, <1>6
      <3> QED
        BY <2>1, <2>2, <3>1, <1>3, <1>4 DEF SpendsFound
    <2>3. ASSUME h # 0 PROVE \E u : h \in DOMAIN w.blockchain /\ u \in BlockTxs(h) /\ o \in Ins[u]
      BY <2>3, <1>3, <1>6, <1>7 DEF SpendsTrue
    <2> HIDE DEF o, h
    <2>4. SpentIn(o) = {h} \ {0}
      <3>1. \A g \in SpentIn(o) : g = h /\ g # 0
        BY <2>2 DEF SpentIn
      <3>2. h # 0 => h \in SpentIn(o)
        BY <2>3 DEF SpentIn
      <3> QED
        BY <3>1, <3>2
    <2> QED
      BY <2>4 DEF o, h
  <1>10. {w.transfers[i].out : i \in DOMAIN w.transfers} = {o \in Out : Created(o) # {}}
    <2>1. ASSUME NEW i \in DOMAIN w.transfers
          PROVE  w.transfers[i].out \in {o \in Out : Created(o) # {}}
      BY <1>4, <1>8
    <2>2. ASSUME NEW o \in Out, Created(o) # {}
          PROVE  \E i \in DOMAIN w.transfers : w.transfers[i].out = o
      <3>1. PICK g \in DOMAIN w.blockchain : \E u \in BlockTxs(g) : o \in Range(Outs[u])
        BY <2>2 DEF Created
      <3>2. PICK u \in BlockTxs(g) : o \in Range(Outs[u])
        BY <3>1
      <3>3. u \in Tx /\ g \in Nat /\ Done(w, {}, u, g)
        BY <1>5, <1>6
      <3>4. o \in DOMAIN w.key_images
        BY <3>2, <3>3, <1>3 DEF OutputsFound
      <3> QED
        BY <3>4, <1>3 DEF Indexed
    <2> QED
      BY <2>1, <2>2
  <1>11. ASSUME NEW i \in DOMAIN w.transfers
         PROVE  /\ w.transfers[i].spent_height # 0 => w.transfers[i].spent
                /\ i > 1 => w.transfers[i - 1].height <= w.transfers[i].height
    <2>1. i > 1 => i - 1 \in DOMAIN w.transfers /\ i - 1 <= i
      BY <1>4
    <2> QED
      BY <2>1, <1>3 DEF SpendsTrue, Ordered
  <1>12. DOMAIN w.history = {e \in Tx \X DOMAIN w.blockchain :
                        e[1] \in BlockTxs(e[2]) /\ (Outs[e[1]] # <<>> \/ Ins[e[1]] # {})}
    <2>1. ASSUME NEW t \in Tx, NEW h \in Nat
          PROVE  <<t, h>> \in DOMAIN w.history <=> /\ h \in DOMAIN w.blockchain
                                            /\ t \in BlockTxs(h) /\ Counts(t)
      <3>1. <<t, h>> \in DOMAIN w.history => h \in DOMAIN w.blockchain /\ t \in BlockTxs(h) /\ Counts(t)
        BY <1>3, <1>6, <1>7 DEF HistoryTrue
      <3>2. h \in DOMAIN w.blockchain /\ t \in BlockTxs(h) /\ Counts(t) => <<t, h>> \in DOMAIN w.history
        BY <1>3, <1>6 DEF HistoryFound
      <3> QED
        BY <3>1, <3>2
    <2>2. ASSUME NEW e \in Tx \X Nat
          PROVE  e \in DOMAIN w.history <=> /\ e[2] \in DOMAIN w.blockchain
                                     /\ e[1] \in BlockTxs(e[2]) /\ Counts(e[1])
      <3>1. PICK t \in Tx, h \in Nat : e = <<t, h>>
        OBVIOUS
      <3>2. e[1] = t /\ e[2] = h
        BY <3>1
      <3> QED
        BY <3>1, <3>2, <2>1
    <2>3. DOMAIN w.blockchain \subseteq Nat
      BY <1>4
    <2> QED
      BY <2>2, <2>3, <1>4 DEF Counts
  <1> QED
    BY <1>8, <1>9, <1>10, <1>11, <1>12

(* What the history tells when nothing was read in part: what a transaction*)
(* brought is counted once, and an entry more counts nothing and is of a   *)
(* block that was read again.                                              *)
LEMMA EntriesTell ==
    ASSUME WalletInv, torn = {}, NEW e \in DOMAIN w.history
    PROVE  /\ w.history[e] # <<>> /\ Head(w.history[e]) = Range(Outs[e[1]])
           /\ Tail(w.history[e]) # <<>> =>
                 w.blockchain[e[2]] \in reread /\ Range(Tail(w.history[e])) = {{}}
  <1> DEFINE q == w.history[e]
  <1>1. EntryTold(w, {}, reread, e)
    BY Given DEF Told
  <1>2. q \in Seq(SUBSET Out) /\ q # <<>>
    BY <1>1, Given, BookFacts DEF EntryTold
  <1>3. q[1] = Range(Outs[e[1]])
    BY <1>1 DEF EntryTold
  <1>4. /\ \A n \in 2 .. Len(q) : q[n] = {}
        /\ Len(q) > 1 => \E b \in reread : Len(Path[b]) = e[2]
    BY <1>1 DEF EntryTold
  <1> HIDE DEF q
  <1>5. ASSUME Tail(q) # <<>> PROVE w.blockchain[e[2]] \in reread /\ Range(Tail(q)) = {{}}
    <2>1. /\ Len(q) \in Nat /\ Len(q) > 1 /\ Len(Tail(q)) = Len(q) - 1
          /\ DOMAIN Tail(q) = 1 .. Len(q) - 1
          /\ \A n \in 1 .. Len(q) - 1 : Tail(q)[n] = q[n + 1]
      BY <1>2, <1>5
    <2>2. PICK b \in reread : Len(Path[b]) = e[2]
      BY <2>1, <1>4
    <2>3. w.blockchain[e[2]] = b
      BY <2>2, Given DEF Told
    <2>4. \A n \in 1 .. Len(q) - 1 : Tail(q)[n] = {}
      <3> TAKE n \in 1 .. Len(q) - 1
      <3>1. n + 1 \in 2 .. Len(q)
        BY <2>1
      <3> QED
        BY <3>1, <2>1, <1>4
    <2>5. 1 \in 1 .. Len(q) - 1
      BY <2>1
    <2>6. Range(Tail(q)) = {Tail(q)[n] : n \in 1 .. Len(q) - 1}
      BY <2>1 DEF Range
    <2>7. Range(Tail(q)) = {{}}
      <3> DEFINE r == Tail(q)
      <3> HIDE DEF r
      <3>1. \A n \in 1 .. Len(q) - 1 : r[n] = {}
        BY <2>4 DEF r
      <3>2. {r[n] : n \in 1 .. Len(q) - 1} = {{}}
        BY <3>1, <2>5
      <3> QED
        BY <3>2, <2>6 DEF r
    <2> QED
      BY <2>2, <2>3, <2>7
  <1>6. Head(q) = q[1]
    BY <1>2
  <1> QED
    BY <1>2, <1>3, <1>5, <1>6 DEF q

(* BooksMatchChain holds in every state: unless a block that was read in   *)
(* part has been left, transfers and their spends are those of the blocks  *)
(* of the copy, whatever was read, undone and read again; the history has  *)
(* their transactions, each with one entry that counts what it brought, and*)
(* with entries of nothing only where its block was read again.            *)
THEOREM BooksTrue == Spec => []BooksMatchChain
  <1>1. WalletInv => BooksMatchChain
    <2> SUFFICES ASSUME WalletInv, torn = {}, step.at = "blocks" => step.read = 0
                 PROVE  BooksMatchChain
      BY DEF BooksMatchChain
    <2> QED
      BY BooksTell, EntriesTell DEF BooksMatchChain
  <1> QED
    BY <1>1, Invariant, PTL

(* What a transaction is made of is on the copy of the chain and not spent *)
(* there.                                                                  *)
LEMMA SelectedSound ==
    ASSUME WalletInv, NEW t \in Tx, SelectTransfers(t), torn = {}
    PROVE  \A o \in Ins[step'.tx] : Created(o) # {} /\ SpentIn(o) = {}
  <1>1. step = Idle
    BY DEF SelectTransfers
  <1>2. PICK seen \in SUBSET prepare_free_transfers_cache :
          /\ seen \subseteq DOMAIN w.transfers
          /\ LET selected == {i \in seen : is_transfer_ready_to_go(w.transfers[i])} IN
             /\ {w.transfers[i].out : i \in selected} = Ins[t]
             /\ w' = Marked(w, selected, TRUE)
             /\ step' = [at |-> "send", tx |-> t, selected |-> selected]
          /\ free' = prepare_free_transfers_cache \ seen
    BY Zenon DEF SelectTransfers
  <1>3. step'.tx = t
    BY <1>2
  <1>4. ASSUME NEW o \in Ins[t]
        PROVE  \E i \in DOMAIN w.transfers : w.transfers[i].out = o /\ ~w.transfers[i].spent
    <2>1. PICK i \in seen : is_transfer_ready_to_go(w.transfers[i]) /\ w.transfers[i].out = o
      BY <1>2
    <2> QED
      BY <2>1, <1>2 DEF is_transfer_ready_to_go
  <1>5. step.at # "blocks"
    BY <1>1, StepKinds
  <1>6. \A i \in DOMAIN w.transfers :
            /\ Created(w.transfers[i].out) = {w.transfers[i].height}
            /\ SpentIn(w.transfers[i].out) = {w.transfers[i].spent_height} \ {0}
            /\ w.transfers[i].spent_height # 0 => w.transfers[i].spent
    BY <1>5, BooksTell
  <1> SUFFICES ASSUME NEW o \in Ins[t] PROVE Created(o) # {} /\ SpentIn(o) = {}
    BY <1>3
  <1>7. PICK i \in DOMAIN w.transfers : w.transfers[i].out = o /\ ~w.transfers[i].spent
    BY <1>4
  <1>8. /\ Created(o) = {w.transfers[i].height}
        /\ SpentIn(o) = {w.transfers[i].spent_height} \ {0}
        /\ w.transfers[i].spent_height = 0
    BY <1>6, <1>7
  <1> QED
    BY <1>8

(* SelectionSound holds of every behaviour: whatever the cache of free     *)
(* transfers has kept, a transaction is made from unspent outputs only.    *)
THEOREM SelectionsSound == Spec => SelectionSound
  <1> DEFINE Sound == step'.at = "send" /\ step.at = "idle" /\ torn = {} =>
                        \A o \in Ins[step'.tx] : Created(o) # {} /\ SpentIn(o) = {}
  <1>1. WalletInv /\ [Next]_vars => [Sound]_vars
    <2> SUFFICES ASSUME WalletInv, Next, step'.at = "send", step.at = "idle", torn = {}
                 PROVE  \A o \in Ins[step'.tx] : Created(o) # {} /\ SpentIn(o) = {}
      OBVIOUS
    <2>1. ASSUME NEW t \in Tx, SelectTransfers(t)
          PROVE  \A o \in Ins[step'.tx] : Created(o) # {} /\ SpentIn(o) = {}
      BY <2>1, SelectedSound
    <2>2. ASSUME NEW b \in Block, DaemonMoves(b) PROVE FALSE
      BY <2>2 DEF DaemonMoves
    <2>3. ASSUME NEW t \in Tx, DaemonTx(t) PROVE FALSE
      BY <2>3 DEF DaemonTx
    <2>4. CASE RefreshStep \/ PullFails \/ ReadTxThrows \/ SendTransaction
      <3>1. step.at \in {"pull", "blocks", "send"}
        BY <2>4 DEF RefreshStep, PullFails, ReadTxThrows, SendTransaction, pull_blocks, KnownBlock,
                    Split, ReadTx, EndOfBlock, EndOfPull, IsNew, Pulled
      <3> QED
        BY <3>1
    <2>5. CASE Refresh
      BY <2>5 DEF Refresh
    <2>6. CASE scan_tx_pool \/ SelectFails \/ store
      BY <2>6 DEF scan_tx_pool, SelectFails, store
    <2>9. CASE CrashInStore
      BY <2>9, StepKinds DEF CrashInStore
    <2>7. CASE SelectBeyond
      BY <2>7 DEF SelectBeyond
    <2>8. CASE CrashAndLoad
      BY <2>8, StepKinds DEF CrashAndLoad
    <2> QED
      BY <2>1, <2>2, <2>3, <2>4, <2>5, <2>6, <2>7, <2>8, <2>9, Zenon DEF Next
  <1>2. Spec => [][Sound]_vars
    BY <1>1, Invariant, PTL DEF Spec
  <1> QED
    BY <1>2 DEF SelectionSound
=============================================================================
