--------------------------- MODULE TxPool_proofs ---------------------------
(***************************************************************************)
(* Proofs of the invariants of TxPool, for any transactions, any blocks    *)
(* and any checkpoints.                                                    *)
(***************************************************************************)
EXTENDS TxPool, InductionLemmas, FiniteSetTheorems, SequenceTheorems, TLAPS

Maps(S, R) == UNION {[T -> R] : T \in SUBSET S}

Used     == [height : Nat, id : Nat \cup {NoBlock}]
Contents == [txs : Maps(Tx, Details), images : [KeyImage -> Nat], offers : SUBSET Offer,
             aliases : SUBSET (Range(Alias) \ {NoTx}), black : SUBSET Tx, taken : SUBSET Tx]
Blocked  == [id : Nat, txs : Seq(Tx)]
Chain    == Seq(Blocked) \ {<<>>}
Handled  == [stage : {"looked", "admitted", "checked"}, tx : Tx, kept : BOOLEAN, used : Used]

(* A pool with finitely many transactions.                                 *)
Pool(d) == d \in Contents /\ IsFiniteSet(DOMAIN d.txs)

Types ==
    /\ checkpoint \in Nat /\ Pool(pool) /\ chain \in Chain /\ zone \in BOOLEAN
    /\ incoming \in {Nothing} \cup Handled
    /\ template \in [prev : Nat \cup {NoBlock}, txs : Seq(Tx), fee : Nat]
    /\ made \in Nat /\ events \in Nat /\ raced \in SUBSET Tx

(* The transactions whose key images are counted, and those among them     *)
(* that spend k.                                                           *)
Counted(d)     == {t \in DOMAIN d.txs : ~d.txs[t].kept}
Spending(d, k) == {t \in DOMAIN d.txs : ~d.txs[t].kept /\ k \in Images[t]}

(* What KeyImagesCounted says of k; when the counters are exact, no two    *)
(* transactions of the pool spend the same.                                *)
Exact(d, k, exact) ==
    /\ d.images[k] <= Cardinality(Spending(d, k))
    /\ exact => d.images[k] = Cardinality(Spending(d, k)) /\ d.images[k] <= 1

(* The images X are those of transactions that were let in after a block   *)
(* had taken them.  Any other transaction that is counted is not on the    *)
(* chain.                                                                  *)
Sound(d, X, exact) == Pool(d) /\ \A k \in KeyImage \ X : Exact(d, k, exact)
Apart(d, ch, X)    == \A t \in TxsOf(ch) \cap Counted(d) : Images[t] \subseteq X

RacedImages == UNION {Images[t] : t \in raced}
NoZone      == checkpoint = 0

(* The incoming transaction is not counted yet, and once it is admitted    *)
(* its images are free.                                                    *)
InHand ==
    incoming # Nothing =>
        /\ incoming.tx \notin Counted(pool)
        /\ incoming.stage # "looked" /\ ~incoming.kept /\ NoZone
               => \A k \in Images[incoming.tx] : pool.images[k] = 0

PoolInv ==
    /\ Types /\ Sound(pool, RacedImages, NoZone) /\ Apart(pool, chain, RacedImages)
    /\ NoZone => ~zone
    /\ InHand

-----------------------------------------------------------------------------
(***************************************************************************)
(* The constants and the containers.                                       *)
(***************************************************************************)
(* The images, the alias and the offers of a transaction.                  *)
LEMMA TxFacts ==
    ASSUME NEW t \in Tx
    PROVE  /\ Images[t] \subseteq KeyImage /\ Cancels[t] \subseteq Offer /\ Alias[t] \in Range(Alias)
           /\ Fee[t] \in Nat /\ Size[t] \in Nat
  BY TxAssumption DEF KeyImage, Offer, Range

(* What a pool has.                                                        *)
LEMMA PoolFacts ==
    ASSUME NEW d, Pool(d)
    PROVE  /\ d.txs \in Maps(Tx, Details) /\ d.images \in [KeyImage -> Nat]
           /\ d.offers \subseteq Offer /\ d.aliases \subseteq Range(Alias) \ {NoTx}
           /\ d.black \subseteq Tx /\ d.taken \subseteq Tx
           /\ DOMAIN d.txs \subseteq Tx /\ \A t \in DOMAIN d.txs : d.txs[t] \in Details
           /\ IsFiniteSet(DOMAIN d.txs)
           /\ \A t \in DOMAIN d.txs : d.txs[t].kept \in BOOLEAN
  BY DEF Pool, Contents, Maps, Details

(* The spenders of an image are finitely many.                             *)
LEMMA SpendingFacts ==
    ASSUME NEW d, Pool(d), NEW k
    PROVE  /\ IsFiniteSet(Spending(d, k)) /\ Cardinality(Spending(d, k)) \in Nat
           /\ Spending(d, k) \subseteq Counted(d)
  <1>1. Spending(d, k) \subseteq DOMAIN d.txs
    BY DEF Spending
  <1> QED
    BY <1>1, PoolFacts, FS_Subset, FS_CardinalityType DEF Spending, Counted

(* A set of at most one element.                                           *)
LEMMA AtMostOne ==
    ASSUME NEW S, IsFiniteSet(S), Cardinality(S) <= 1, NEW x \in S
    PROVE  S = {x} /\ Cardinality(S) = 1
  <1>1. Cardinality(S) \in Nat /\ IsFiniteSet(S \ {x})
    BY FS_CardinalityType, FS_RemoveElement
  <1>2. Cardinality(S \ {x}) = Cardinality(S) - 1 /\ Cardinality(S \ {x}) \in Nat
    BY FS_RemoveElement, <1>1, FS_CardinalityType
  <1>3. Cardinality(S \ {x}) = 0
    BY <1>1, <1>2
  <1>4. S \ {x} = {}
    BY <1>1, <1>3, FS_EmptySet
  <1> QED
    BY <1>1, <1>2, <1>3, <1>4

(* A map without one of its entries, and one with an entry set.            *)
LEMMA MapsFacts ==
    ASSUME NEW f \in Maps(Tx, Details), NEW t \in Tx, NEW v \in Details
    PROVE  LET g == [u \in DOMAIN f \ {t} |-> f[u]]
               h == [u \in DOMAIN f \cup {t} |-> IF u = t THEN v ELSE f[u]]
           IN  /\ g \in Maps(Tx, Details) /\ h \in Maps(Tx, Details)
               /\ DOMAIN g = DOMAIN f \ {t} /\ DOMAIN h = DOMAIN f \cup {t}
               /\ \A u \in DOMAIN f \ {t} : g[u] = f[u] /\ h[u] = f[u]
               /\ h[t] = v
  <1> DEFINE g == [u \in DOMAIN f \ {t} |-> f[u]]
             h == [u \in DOMAIN f \cup {t} |-> IF u = t THEN v ELSE f[u]]
  <1>1. DOMAIN f \subseteq Tx /\ \A u \in DOMAIN f : f[u] \in Details
    BY DEF Maps
  <1>2. g \in [DOMAIN f \ {t} -> Details] /\ h \in [DOMAIN f \cup {t} -> Details]
    BY <1>1
  <1>3. DOMAIN f \ {t} \in SUBSET Tx /\ DOMAIN f \cup {t} \in SUBSET Tx
    BY <1>1
  <1>4. g \in Maps(Tx, Details) /\ h \in Maps(Tx, Details)
    BY <1>2, <1>3, Zenon DEF Maps
  <1> QED
    BY <1>4

(* The empty map.                                                          *)
LEMMA EmptyMap == <<>> \in Maps(Tx, Details) /\ DOMAIN <<>> = {}
  <1>1. <<>> \in Seq(Details) /\ Len(<<>>) = 0
    BY EmptySeq
  <1>2. <<>> \in [1 .. 0 -> Details] /\ DOMAIN <<>> = 1 .. 0
    BY <1>1, LenProperties
  <1>3. 1 .. 0 = {} /\ {} \in SUBSET Tx
    OBVIOUS
  <1>4. <<>> \in [{} -> Details]
    BY <1>2, <1>3, Zenon
  <1>5. <<>> \in Maps(Tx, Details)
    BY <1>3, <1>4, Zenon DEF Maps
  <1> QED
    BY <1>2, <1>3, <1>5

(* Erasing a transaction.                                                  *)
LEMMA ErasedFacts ==
    ASSUME NEW d, Pool(d), NEW t \in Tx
    PROVE  LET e == Erased(d, t) IN
           /\ Pool(e) /\ DOMAIN e.txs = DOMAIN d.txs \ {t}
           /\ \A u \in DOMAIN e.txs : e.txs[u] = d.txs[u]
           /\ e.images = d.images /\ e.aliases = d.aliases /\ e.offers = d.offers
           /\ e.black = d.black /\ e.taken = d.taken
  <1> DEFINE g == [u \in DOMAIN d.txs \ {t} |-> d.txs[u]]
             e == [d EXCEPT !.txs = g]
  <1>1. e = Erased(d, t)
    BY DEF Erased
  <1>2. Details # {}
    <2>1. [kept |-> TRUE, used |-> [height |-> 0, id |-> NoBlock], failed |-> NoBlock] \in Details
      BY DEF Details, NoBlock
    <2> QED
      BY <2>1
  <1>3. g \in Maps(Tx, Details) /\ DOMAIN g = DOMAIN d.txs \ {t}
        /\ \A u \in DOMAIN g : g[u] = d.txs[u]
    BY <1>2, PoolFacts, MapsFacts
  <1>4. IsFiniteSet(DOMAIN g)
    BY <1>3, PoolFacts, FS_Subset
  <1> HIDE DEF g
  <1>5. e \in Contents /\ e.txs = g /\ e.images = d.images /\ e.aliases = d.aliases
        /\ e.offers = d.offers /\ e.black = d.black /\ e.taken = d.taken
    BY <1>3 DEF Pool, Contents
  <1> HIDE DEF e
  <1> QED
    BY <1>1, <1>3, <1>4, <1>5 DEF Pool

(* d with other counters im and aliases a.                                 *)
Recounted(d, im, a) == [d EXCEPT !.images = im, !.aliases = a]

(* A pool with other counters and aliases.                                 *)
LEMMA OtherImages ==
    ASSUME NEW d, Pool(d), NEW im \in [KeyImage -> Nat],
           NEW a \in SUBSET (Range(Alias) \ {NoTx})
    PROVE  LET e == Recounted(d, im, a) IN
           /\ Pool(e) /\ e.txs = d.txs /\ e.images = im /\ e.black = d.black /\ e.taken = d.taken
  BY DEF Pool, Contents, Recounted
(* As before.                                                              *)
LEMMA OtherOffers ==
    ASSUME NEW d, Pool(d), NEW o \in SUBSET Offer
    PROVE  LET e == [d EXCEPT !.offers = o] IN
           /\ Pool(e) /\ e.txs = d.txs /\ e.images = d.images /\ e.aliases = d.aliases
           /\ e.black = d.black /\ e.taken = d.taken
  BY DEF Pool, Contents
(* As before.                                                              *)
LEMMA OtherBlack ==
    ASSUME NEW d, Pool(d), NEW b \in SUBSET Tx
    PROVE  LET e == [d EXCEPT !.black = b] IN
           Pool(e) /\ e.txs = d.txs /\ e.images = d.images
  BY DEF Pool, Contents
(* As before.                                                              *)
LEMMA OtherTaken ==
    ASSUME NEW d, Pool(d), NEW tk \in SUBSET Tx
    PROVE  LET e == [d EXCEPT !.taken = tk] IN
           Pool(e) /\ e.txs = d.txs /\ e.images = d.images
  BY DEF Pool, Contents

(* What is counted depends on the transactions alone.                      *)
LEMMA SameTxs ==
    ASSUME NEW d, NEW e, NEW X, NEW exact, Sound(d, X, exact), Pool(e), DOMAIN e.txs = DOMAIN d.txs,
           \A t \in DOMAIN d.txs : e.txs[t].kept = d.txs[t].kept, e.images = d.images
    PROVE  Sound(e, X, exact) /\ Counted(e) = Counted(d)
  <1>1. \A k : Spending(e, k) = Spending(d, k)
    BY DEF Spending
  <1> QED
    BY <1>1 DEF Sound, Exact, Counted

(* A pool with fewer counted transactions and lower counters.              *)
Shrinks(d, e, X, exact) ==
    /\ Sound(e, X, exact) /\ Counted(e) \subseteq Counted(d)
    /\ \A k \in KeyImage : e.images[k] <= d.images[k]

(* It may shrink again.                                                    *)
LEMMA ShrinksTwice ==
    ASSUME NEW d, Pool(d), NEW e, NEW f, NEW X, NEW exact,
           Shrinks(d, e, X, exact), Shrinks(e, f, X, exact)
    PROVE  Shrinks(d, f, X, exact)
  <1>1. \A k \in KeyImage : d.images[k] \in Nat /\ e.images[k] \in Nat /\ f.images[k] \in Nat
    BY PoolFacts DEF Shrinks, Sound
  <1> QED
    BY <1>1 DEF Shrinks

(* What is apart stays apart when the pool shrinks, for a smaller chain.   *)
LEMMA ApartKept ==
    ASSUME NEW d, NEW e, NEW X, NEW exact, NEW c1, NEW c2, Shrinks(d, e, X, exact), Apart(d, c1, X),
           TxsOf(c2) \subseteq TxsOf(c1)
    PROVE  Apart(e, c2, X)
  BY DEF Shrinks, Apart

(* d without t: its images are uncounted if they were counted.             *)
Removed(d, t, kept) ==
    on_tx_remove(Erased(unprocess_cancel_offer_rules(d, t), t), t, kept)

(* What is left, and what its counters are.                                *)
LEMMA RemovedFacts ==
    ASSUME NEW d, Pool(d), NEW t \in Tx, NEW kept \in BOOLEAN
    PROVE  LET e == Removed(d, t, kept) IN
           /\ Pool(e) /\ DOMAIN e.txs = DOMAIN d.txs \ {t}
           /\ \A u \in DOMAIN e.txs : e.txs[u] = d.txs[u]
           /\ \A k \in KeyImage : /\ e.images[k] \in Nat /\ e.images[k] <= d.images[k]
                                  /\ e.images[k] = IF k \in Images[t] /\ ~kept /\ d.images[k] > 0
                                                   THEN d.images[k] - 1 ELSE d.images[k]
           /\ e.black = d.black /\ e.taken = d.taken
  <1> DEFINE c  == unprocess_cancel_offer_rules(d, t)
             x  == Erased(c, t)
             im == [k \in KeyImage |-> IF k \in Images[t] /\ ~kept /\ d.images[k] > 0
                                       THEN d.images[k] - 1 ELSE d.images[k]]
             a  == d.aliases \ {Alias[t]}
             e  == Removed(d, t, kept)
  <1>1. /\ Pool(c) /\ c.txs = d.txs /\ c.images = d.images /\ c.aliases = d.aliases
        /\ c.black = d.black /\ c.taken = d.taken
    <2>1. d.offers \ Cancels[t] \in SUBSET Offer
      BY PoolFacts
    <2> QED
      BY <2>1, OtherOffers DEF unprocess_cancel_offer_rules
  <1> HIDE DEF c
  <1>2. /\ Pool(x) /\ DOMAIN x.txs = DOMAIN d.txs \ {t} /\ \A u \in DOMAIN x.txs : x.txs[u] = d.txs[u]
        /\ x.images = d.images /\ x.aliases = d.aliases /\ x.black = d.black /\ x.taken = d.taken
    BY <1>1, ErasedFacts
  <1>3. e = on_tx_remove(x, t, kept)
    BY DEF Removed, c
  <1> HIDE DEF x, e
  <1>4. \A k \in KeyImage : d.images[k] \in Nat
    BY PoolFacts
  <1>5. im \in [KeyImage -> Nat] /\ \A k \in KeyImage : im[k] <= d.images[k]
    BY <1>4
  <1>6. a \in SUBSET (Range(Alias) \ {NoTx})
    BY PoolFacts
  <1>7. e = [x EXCEPT !.images = im, !.aliases = a]
    BY <1>2, <1>3 DEF on_tx_remove
  <1>8. \A k \in KeyImage : im[k] = IF k \in Images[t] /\ ~kept /\ d.images[k] > 0
                                    THEN d.images[k] - 1 ELSE d.images[k]
    OBVIOUS
  <1> HIDE DEF im, a
  <1>9. Pool(e) /\ e.txs = x.txs /\ e.images = im /\ e.black = x.black /\ e.taken = x.taken
    <2>1. Pool(x) /\ im \in [KeyImage -> Nat] /\ a \in SUBSET (Range(Alias) \ {NoTx})
      BY <1>2, <1>5, <1>6
    <2> DEFINE f == Recounted(x, im, a)
    <2>2. Pool(f) /\ f.txs = x.txs /\ f.images = im /\ f.black = x.black /\ f.taken = x.taken
      BY <2>1, OtherImages
    <2>3. e = f
      BY <1>7, Zenon DEF Recounted
    <2> HIDE DEF f
    <2> QED
      BY <2>2, <2>3
  <1>10. \A k \in KeyImage : im[k] \in Nat
    BY <1>5
  <1> QED
    BY <1>2, <1>5, <1>8, <1>9, <1>10 DEF e

(* The count stays right, as long as what is removed uncounted was not     *)
(* counted, and what is removed for the second time leaves nothing to      *)
(* count.                                                                  *)
LEMMA RemovedExact ==
    ASSUME NEW d, Pool(d), NEW t \in Tx, NEW kept \in BOOLEAN, NEW k \in KeyImage, NEW exact,
           Exact(d, k, exact), t \in DOMAIN d.txs => d.txs[t].kept = kept,
           exact /\ ~kept /\ k \in Images[t] /\ t \notin DOMAIN d.txs => d.images[k] = 0
    PROVE  Exact(Removed(d, t, kept), k, exact)
  <1> DEFINE e == Removed(d, t, kept)
             S == Spending(d, k)
  <1>1. /\ DOMAIN e.txs = DOMAIN d.txs \ {t} /\ \A u \in DOMAIN e.txs : e.txs[u] = d.txs[u]
        /\ e.images[k] \in Nat /\ d.images[k] \in Nat
        /\ e.images[k] = IF k \in Images[t] /\ ~kept /\ d.images[k] > 0
                         THEN d.images[k] - 1 ELSE d.images[k]
    BY RemovedFacts, PoolFacts
  <1> HIDE DEF e
  <1>2. Spending(e, k) = S \ {t}
    BY <1>1 DEF Spending
  <1>3. t \in S <=> t \in DOMAIN d.txs /\ ~kept /\ k \in Images[t]
    BY DEF Spending
  <1> HIDE DEF S
  <1>4. IsFiniteSet(S) /\ Cardinality(S) \in Nat
    BY SpendingFacts DEF S
  <1>5. /\ d.images[k] <= Cardinality(S)
        /\ exact => d.images[k] = Cardinality(S) /\ d.images[k] <= 1
    BY DEF Exact, S
  <1>6. CASE t \in S
    <2>1. Cardinality(S \ {t}) = Cardinality(S) - 1 /\ Cardinality(S) >= 1
      <3>1. Cardinality(S \ {t}) = Cardinality(S) - 1 /\ IsFiniteSet(S \ {t})
        BY <1>4, <1>6, FS_RemoveElement
      <3>2. Cardinality(S \ {t}) \in Nat
        BY <3>1, FS_CardinalityType
      <3> QED
        BY <3>1, <3>2, <1>4
    <2> QED
      BY <2>1, <1>1, <1>2, <1>3, <1>4, <1>5, <1>6 DEF Exact, e
  <1>7. CASE t \notin S
    <2>1. S \ {t} = S
      BY <1>7
    <2>2. exact => e.images[k] = d.images[k]
      BY <1>1, <1>3, <1>7
    <2>3. e.images[k] <= d.images[k]
      BY <1>1
    <2> QED
      BY <2>1, <2>2, <2>3, <1>1, <1>2, <1>4, <1>5 DEF Exact, e
  <1> QED
    BY <1>6, <1>7

(* take_tx.                                                                *)
LEMMA TakenFacts ==
    ASSUME NEW d, NEW X, NEW exact, Sound(d, X, exact), NEW t \in DOMAIN d.txs
    PROVE  LET e == take_tx(d, t) IN
           /\ Shrinks(d, e, X, exact) /\ t \notin DOMAIN e.txs /\ t \in Tx
  <1> DEFINE kept == d.txs[t].kept
             r == Removed(d, t, kept)
             e == take_tx(d, t)
  <1>1. t \in Tx /\ kept \in BOOLEAN /\ Pool(d)
    BY PoolFacts DEF Sound
  <1>2. e = [r EXCEPT !.taken = @ \cup {t}]
    BY DEF take_tx, Removed
  <1>3. /\ Pool(r) /\ DOMAIN r.txs = DOMAIN d.txs \ {t}
        /\ \A u \in DOMAIN r.txs : r.txs[u] = d.txs[u]
        /\ \A k \in KeyImage : r.images[k] <= d.images[k]
    BY <1>1, RemovedFacts
  <1>4. \A k \in KeyImage \ X : Exact(r, k, exact)
    BY <1>1, RemovedExact DEF Sound
  <1> HIDE DEF r, e
  <1>5. Pool(e) /\ e.txs = r.txs /\ e.images = r.images
    <2>1. r.taken \cup {t} \in SUBSET Tx
      BY <1>1, <1>3, PoolFacts
    <2> QED
      BY <1>2, <1>3, <2>1, OtherTaken
  <1>7. Sound(r, X, exact)
    BY <1>3, <1>4 DEF Sound
  <1>8. Sound(e, X, exact) /\ Counted(e) = Counted(r)
    BY <1>5, <1>7, SameTxs
  <1>9. Counted(r) \subseteq Counted(d)
    BY <1>3 DEF Counted
  <1> QED
    BY <1>1, <1>3, <1>5, <1>8, <1>9 DEF Shrinks, e

(* The blocks of a chain.                                                  *)
LEMMA ChainFacts ==
    ASSUME NEW ch \in Chain
    PROVE  /\ Len(ch) \in Nat /\ Len(ch) >= 1 /\ DOMAIN ch = 1 .. Len(ch)
           /\ \A i \in 1 .. Len(ch) : /\ ch[i] \in Blocked /\ ch[i].id \in Nat
                                      /\ ch[i].txs \in Seq(Tx) /\ Range(ch[i].txs) \subseteq TxsOf(ch)
           /\ TxsOf(ch) \subseteq Tx
  <1>1. Len(ch) \in Nat /\ Len(ch) >= 1 /\ DOMAIN ch = 1 .. Len(ch)
    BY DEF Chain
  <1>2. \A i \in 1 .. Len(ch) : ch[i] \in Blocked
    BY DEF Chain
  <1>3. \A i \in 1 .. Len(ch) : ch[i].id \in Nat /\ ch[i].txs \in Seq(Tx)
    BY <1>2 DEF Blocked
  <1>4. \A i \in 1 .. Len(ch) : Range(ch[i].txs) \subseteq TxsOf(ch)
    BY <1>1 DEF TxsOf
  <1>5. \A s \in Seq(Tx) : Range(s) \subseteq Tx
    BY DEF Range
  <1>6. TxsOf(ch) \subseteq Tx
    BY <1>1, <1>3, <1>5 DEF TxsOf
  <1> QED
    BY <1>1, <1>2, <1>3, <1>4, <1>6

(* The block a transaction refers to.                                      *)
LEMMA UsedTyped ==
    ASSUME NEW t \in Tx, NEW ch \in Chain
    PROVE  MaxUsed(t, ch) \in Used /\ NoneUsed \in Used
  <1> DEFINE related(u) == u = Source[t] \/ MsOuts[u] \cap MsIns[t] # {}
             T == {1} \cup {i \in DOMAIN ch : \E u \in Range(ch[i].txs) : related(u)}
             h == Max(T)
  <1>1. Len(ch) \in Nat /\ Len(ch) >= 1 /\ DOMAIN ch = 1 .. Len(ch)
    BY ChainFacts
  <1>2. T \in SUBSET (0 .. Len(ch)) /\ T # {} /\ T \subseteq 1 .. Len(ch)
    BY <1>1
  <1> HIDE DEF T
  <1>3. \E n \in T : \A m \in T : n >= m
    BY <1>1, <1>2, GreatestElement
  <1>4. h \in T
    BY <1>3, Zenon DEF Max
  <1>5. h \in 1 .. Len(ch)
    BY <1>2, <1>4
  <1> HIDE DEF h
  <1>6. h \in Nat /\ ch[h].id \in Nat
    BY <1>5, ChainFacts
  <1>7. MaxUsed(t, ch) = [height |-> h, id |-> ch[h].id]
    BY Zenon DEF MaxUsed, h, T
  <1> QED
    BY <1>6, <1>7 DEF Used, NoneUsed

Inserted(d, e, t, kept) ==
    /\ Pool(e) /\ DOMAIN e.txs = DOMAIN d.txs \cup {t} /\ e.txs[t].kept = kept
    /\ \A u \in DOMAIN d.txs \ {t} : e.txs[u] = d.txs[u]
    /\ \A k \in KeyImage : /\ d.images[k] \in Nat
                           /\ e.images[k] = IF k \in Images[t] /\ ~kept
                                            THEN d.images[k] + 1 ELSE d.images[k]

(* A transaction comes: its images are counted if it did not come with a   *)
(* block.                                                                  *)
LEMMA InsertedFacts ==
    ASSUME NEW d, Pool(d), NEW t \in Tx, NEW kept \in BOOLEAN, NEW used \in Used
    PROVE  Inserted(d, do_insert_transaction(d, t, kept, used), t, kept)
  <1> DEFINE v  == [kept |-> kept, used |-> used, failed |-> NoBlock]
             h  == [u \in DOMAIN d.txs \cup {t} |-> IF u = t THEN v ELSE d.txs[u]]
             x  == [d EXCEPT !.txs = h]
             im == [k \in KeyImage |-> IF k \in Images[t] /\ ~kept
                                       THEN d.images[k] + 1 ELSE d.images[k]]
             a  == d.aliases \cup ({Alias[t]} \ {NoTx})
             e  == do_insert_transaction(d, t, kept, used)
  <1>1. v \in Details /\ v.kept = kept
    BY DEF Details, Used
  <1> HIDE DEF v
  <1>2. /\ h \in Maps(Tx, Details) /\ DOMAIN h = DOMAIN d.txs \cup {t} /\ h[t] = v
        /\ \A u \in DOMAIN d.txs \ {t} : h[u] = d.txs[u]
    <2>1. DOMAIN d.txs \cup {t} \in SUBSET Tx /\ \A u \in DOMAIN d.txs : d.txs[u] \in Details
      BY PoolFacts
    <2>2. h \in Maps(Tx, Details)
      <3>1. h \in [DOMAIN d.txs \cup {t} -> Details]
        BY <1>1, <2>1
      <3> QED
        BY <2>1, <3>1, Zenon DEF Maps
    <2>3. DOMAIN h = DOMAIN d.txs \cup {t} /\ h[t] = v
      OBVIOUS
    <2> QED
      BY <2>2, <2>3
  <1>3. IsFiniteSet(DOMAIN h)
    <2>1. IsFiniteSet(DOMAIN d.txs)
      BY PoolFacts
    <2>2. IsFiniteSet(DOMAIN d.txs \cup {t})
      BY <2>1, FS_AddElement
    <2> QED
      BY <1>2, <2>2, Zenon
  <1>4. e = on_tx_add(x, t, kept)
    BY Zenon DEF do_insert_transaction, v
  <1> HIDE DEF h
  <1>5. /\ Pool(x) /\ x.txs = h /\ x.images = d.images /\ x.aliases = d.aliases
        /\ x.black = d.black /\ x.taken = d.taken
    BY <1>2, <1>3 DEF Pool, Contents
  <1> HIDE DEF x, e
  <1>6. \A k \in KeyImage : d.images[k] \in Nat
    BY PoolFacts
  <1>7. im \in [KeyImage -> Nat]
    BY <1>6
  <1>8. a \in SUBSET (Range(Alias) \ {NoTx})
    BY PoolFacts, TxFacts
  <1>9. e = [x EXCEPT !.images = im, !.aliases = a]
    BY <1>4, <1>5 DEF on_tx_add
  <1>10. \A k \in KeyImage : im[k] = IF k \in Images[t] /\ ~kept
                                     THEN d.images[k] + 1 ELSE d.images[k]
    OBVIOUS
  <1> HIDE DEF im, a
  <1> DEFINE f == Recounted(x, im, a)
  <1>11. Pool(f) /\ f.txs = x.txs /\ f.images = im /\ f.black = x.black /\ f.taken = x.taken
    BY <1>5, <1>7, <1>8, OtherImages
  <1>12. e = f
    BY <1>9, Zenon DEF Recounted
  <1> HIDE DEF f
  <1> QED
    BY <1>1, <1>2, <1>5, <1>6, <1>10, <1>11, <1>12 DEF e, Inserted

(* A transaction that was not counted is put back by a block.              *)
LEMMA PutBackFacts ==
    ASSUME NEW d, NEW X, NEW exact, Sound(d, X, exact), NEW t \in Tx, NEW used \in Used,
           t \in Counted(d) => Images[t] \subseteq X
    PROVE  Shrinks(d, do_insert_transaction(d, t, TRUE, used), X, exact)
  <1> DEFINE e == do_insert_transaction(d, t, TRUE, used)
  <1>1. Pool(d) /\ TRUE \in BOOLEAN
    BY DEF Sound
  <1>2. /\ Pool(e) /\ DOMAIN e.txs = DOMAIN d.txs \cup {t} /\ e.txs[t].kept
        /\ \A u \in DOMAIN d.txs \ {t} : e.txs[u] = d.txs[u]
        /\ \A k \in KeyImage : e.images[k] = d.images[k] /\ d.images[k] \in Nat
    <2>1. Inserted(d, e, t, TRUE)
      BY <1>1, InsertedFacts, Zenon
    <2> HIDE DEF e
    <2> QED
      BY <2>1 DEF Inserted
  <1> HIDE DEF e
  <1>3. Counted(e) \subseteq Counted(d)
    BY <1>2 DEF Counted
  <1>4. ASSUME NEW k \in KeyImage \ X PROVE Exact(e, k, exact)
    <2>1. Spending(e, k) = Spending(d, k)
      BY <1>2 DEF Spending, Counted
    <2> QED
      BY <1>2, <2>1 DEF Exact, Sound
  <1>5. \A k \in KeyImage : e.images[k] <= d.images[k]
    BY <1>2
  <1> QED
    BY <1>2, <1>3, <1>4, <1>5 DEF Shrinks, Sound, e

(* What changes the offers, the black list or the taken transactions only. *)
LEMMA SameSound ==
    ASSUME NEW d, NEW e, NEW X, NEW exact, Sound(d, X, exact), Pool(e), e.txs = d.txs,
           e.images = d.images
    PROVE  Shrinks(d, e, X, exact) /\ Counted(e) = Counted(d)
  <1>1. \A k \in KeyImage : d.images[k] \in Nat /\ e.images[k] <= d.images[k]
    BY PoolFacts DEF Sound
  <1>2. Sound(e, X, exact) /\ Counted(e) = Counted(d)
    BY SameTxs
  <1> QED
    BY <1>1, <1>2 DEF Shrinks

(* The marks of a cancellation.                                            *)
LEMMA MarkedFacts ==
    ASSUME NEW d, Pool(d), NEW t \in Tx, NEW validate
    PROVE  LET e == process_cancel_offer_rules(d, t, validate) IN
           Pool(e) /\ e.txs = d.txs /\ e.images = d.images
  <1>1. d.offers \cup Cancels[t] \in SUBSET Offer
    BY PoolFacts, TxFacts
  <1> QED
    BY <1>1, OtherOffers DEF process_cancel_offer_rules

(* add_tx_from_core.                                                       *)
LEMMA FromCoreFacts ==
    ASSUME NEW d, NEW X, NEW exact, Sound(d, X, exact), NEW t \in Tx, NEW min, NEW ch \in Chain,
           NEW z, t \in Counted(d) => Images[t] \subseteq X
    PROVE  Shrinks(d, add_tx_from_core(d, t, min, ch, z), X, exact)
  <1> DEFINE m == process_cancel_offer_rules(d, t, FALSE)
             used == IF check_tx_inputs(t, ch, z) THEN MaxUsed(t, ch) ELSE NoneUsed
             e == do_insert_transaction(m, t, TRUE, used)
  <1>0. Pool(d)
    BY DEF Sound
  <1>1. Shrinks(d, m, X, exact) /\ Counted(m) = Counted(d) /\ Sound(m, X, exact)
    <2>1. Pool(m) /\ m.txs = d.txs /\ m.images = d.images
      BY <1>0, MarkedFacts
    <2> HIDE DEF m
    <2> QED
      BY <2>1, SameSound DEF Shrinks
  <1>2. used \in Used
    BY UsedTyped
  <1>3. add_tx_from_core(d, t, min, ch, z) \in {e, m}
    BY Zenon DEF add_tx_from_core
  <1> HIDE DEF m, used
  <1>4. Shrinks(m, e, X, exact)
    BY <1>1, <1>2, PutBackFacts
  <1> HIDE DEF e
  <1>5. Shrinks(d, e, X, exact)
    BY <1>0, <1>1, <1>4, ShrinksTwice
  <1> QED
    BY <1>1, <1>3, <1>5

-----------------------------------------------------------------------------
(***************************************************************************)
(* Blocks.                                                                 *)
(***************************************************************************)
(* The pools that d may have become.                                       *)
Below(d, X, exact) == {e \in Contents : Shrinks(d, e, X, exact)}

(* A pool is below itself, and what it becomes is below it.                *)
LEMMA BelowFacts ==
    ASSUME NEW d, NEW X, NEW exact, Sound(d, X, exact)
    PROVE  /\ d \in Below(d, X, exact)
           /\ \A e \in Below(d, X, exact) : /\ Sound(e, X, exact) /\ Shrinks(d, e, X, exact)
                                            /\ Counted(e) \subseteq Counted(d)
           /\ \A e : Shrinks(d, e, X, exact) => e \in Below(d, X, exact)
           /\ \A e \in Below(d, X, exact) : \A f :
                  Shrinks(e, f, X, exact) => f \in Below(d, X, exact)
  <1>1. Pool(d) /\ \A k \in KeyImage : d.images[k] \in Nat /\ d.images[k] <= d.images[k]
    BY PoolFacts DEF Sound
  <1>2. Shrinks(d, d, X, exact)
    BY <1>1 DEF Shrinks
  <1>3. \A e : Shrinks(d, e, X, exact) => e \in Below(d, X, exact)
    BY DEF Below, Shrinks, Sound, Pool
  <1>4. ASSUME NEW e \in Below(d, X, exact), NEW f, Shrinks(e, f, X, exact)
        PROVE  f \in Below(d, X, exact)
    <2>1. Shrinks(d, e, X, exact)
      BY DEF Below
    <2>2. Shrinks(d, f, X, exact)
      BY <1>1, <1>4, <2>1, ShrinksTwice
    <2> QED
      BY <2>2, <1>3
  <1>5. \A e \in Below(d, X, exact) : /\ Sound(e, X, exact) /\ Shrinks(d, e, X, exact)
                                      /\ Counted(e) \subseteq Counted(d)
    BY DEF Below, Shrinks
  <1> QED
    BY <1>2, <1>3, <1>4, <1>5

(* The top block with other transactions.                                  *)
LEMMA WithTopFacts ==
    ASSUME NEW ch \in Chain, NEW s \in Seq(Tx)
    PROVE  /\ WithTop(ch, s) \in Chain /\ Len(WithTop(ch, s)) = Len(ch)
           /\ WithTop(ch, s)[Len(ch)].txs = s
           /\ \A i \in 1 .. Len(ch) - 1 : WithTop(ch, s)[i] = ch[i]
           /\ TxsOf(WithTop(ch, s)) \subseteq TxsOf(ch) \cup Range(s)
  <1> DEFINE n == Len(ch)
             b == [ch[n] EXCEPT !.txs = s]
             c == WithTop(ch, s)
  <1>1. n \in Nat /\ n >= 1 /\ DOMAIN ch = 1 .. n /\ ch[n] \in Blocked /\ n \in 1 .. n
    BY ChainFacts
  <1>2. c = [ch EXCEPT ![n] = b]
    BY DEF WithTop
  <1>3. b \in Blocked /\ b.txs = s
    BY <1>1 DEF Blocked
  <1> HIDE DEF b, c
  <1>4. ch \in Seq(Blocked) /\ ch # <<>>
    BY DEF Chain
  <1>5. c \in Seq(Blocked) /\ Len(c) = n /\ c[n] = b /\ \A i \in 1 .. n - 1 : c[i] = ch[i]
    <2>1. /\ [ch EXCEPT ![n] = b] \in Seq(Blocked) /\ Len([ch EXCEPT ![n] = b]) = Len(ch)
          /\ \A j \in 1 .. Len(ch) : [ch EXCEPT ![n] = b][j] = IF j = n THEN b ELSE ch[j]
      BY <1>1, <1>3, <1>4, ExceptSeq
    <2>2. /\ c \in Seq(Blocked) /\ Len(c) = n
          /\ \A j \in 1 .. n : c[j] = IF j = n THEN b ELSE ch[j]
      BY <1>2, <2>1, Zenon
    <2> HIDE DEF n
    <2> QED
      BY <1>1, <2>2
  <1>6. c \in Chain
    BY <1>1, <1>5 DEF Chain
  <1>7. TxsOf(c) \subseteq TxsOf(ch) \cup Range(s)
    <2>1. DOMAIN c = 1 .. n /\ \A i \in 1 .. n : i = n \/ i \in 1 .. n - 1
      <3>1. DOMAIN c = 1 .. Len(c)
        BY <1>5, LenProperties
      <3>2. DOMAIN c = 1 .. n
        BY <1>5, <3>1, Zenon
      <3> HIDE DEF n
      <3>3. \A i \in 1 .. n : i = n \/ i \in 1 .. n - 1
        BY <1>1
      <3> QED
        BY <3>2, <3>3
    <2> QED
      BY <2>1, <1>1, <1>3, <1>5 DEF TxsOf
  <1> QED
    BY <1>3, <1>5, <1>6, <1>7 DEF c

(* The transactions of the top block go back to the pool.                  *)
LEMMA PurgeTopFacts ==
    ASSUME NEW d, NEW X, NEW exact, Sound(d, X, exact), NEW ch \in Chain, NEW z, Apart(d, ch, X)
    PROVE  Shrinks(d, PurgeTop(d, ch, z), X, exact)
  <1> DEFINE txs == ch[Len(ch)].txs
             N == Len(txs)
             S == Below(d, X, exact)
             left(i) == WithTop(ch, SubSeq(txs, 1, N - i))
             Step(i, e) == add_tx_from_core(e, txs[N + 1 - i], 0, left(i), z)
             Body(f) == [i \in 0 .. N |-> IF i = 0 THEN d ELSE Step(i, f[i - 1])]
             back == CHOOSE f : f = Body(f)
             st == [p \in Nat \X S |-> IF p[1] \in 1 .. N THEN Step(p[1], p[2]) ELSE p[2]]
  <1>1. N \in Nat /\ txs \in Seq(Tx) /\ d \in S
    BY ChainFacts, BelowFacts
  <1>2. ASSUME NEW i \in 1 .. N, NEW e \in S PROVE Step(i, e) \in S
    <2> DEFINE t == txs[N + 1 - i]
    <2>1. N + 1 - i \in 1 .. N /\ t \in Tx /\ t \in TxsOf(ch)
      <3>1. N + 1 - i \in 1 .. N
        BY <1>1
      <3>2. t \in Tx /\ t \in Range(txs)
        BY <1>1, <3>1 DEF Range
      <3> HIDE DEF t, txs
      <3>3. Range(txs) \subseteq TxsOf(ch)
        BY ChainFacts DEF txs
      <3> QED
        BY <3>1, <3>2, <3>3
    <2>2. left(i) \in Chain
      <3>1. SubSeq(txs, 1, N - i) \in Seq(Tx)
        BY <1>1
      <3> QED
        BY <3>1, WithTopFacts
    <2> HIDE DEF left, t
    <2>3. Sound(e, X, exact) /\ Counted(e) \subseteq Counted(d)
      BY BelowFacts
    <2>4. t \in Counted(e) => Images[t] \subseteq X
      BY <2>1, <2>3 DEF Apart
    <2>5. Shrinks(e, add_tx_from_core(e, t, 0, left(i), z), X, exact)
      BY <2>1, <2>2, <2>3, <2>4, FromCoreFacts
    <2> HIDE DEF S
    <2> QED
      BY <2>5, BelowFacts DEF S, t
  <1> HIDE DEF Step, S, txs
  <1>3. st \in [Nat \X S -> S] /\ \A i \in 1 .. N, e \in S : st[<<i, e>>] = Step(i, e)
    BY <1>1, <1>2
  <1> HIDE DEF st
  <1>4. PICK g \in [0 .. N -> S] : Unfolds(g, N, d, st)
    BY <1>1, <1>3, RecursionExists
  <1>5. \A f : Body(f)[0] = d /\ \A i \in 1 .. N : Body(f)[i] = Step(i, f[i - 1])
    BY <1>1
  <1>6. \A f : Body(f) = [i \in 0 .. N |-> Body(f)[i]]
    BY Zenon
  <1> HIDE DEF Body
  <1>7. g = Body(g)
    <2>1. \A i \in 1 .. N : g[i - 1] \in S
      BY <1>1
    <2>2. \A i \in 1 .. N : Body(g)[i] = st[<<i, g[i - 1]>>]
      BY <2>1, <1>3, <1>5
    <2>3. \A i \in 0 .. N : i = 0 \/ i \in 1 .. N
      BY <1>1
    <2>4. \A i \in 0 .. N : g[i] = Body(g)[i]
      BY <2>2, <2>3, <1>4, <1>5 DEF Unfolds
    <2>5. g = [i \in 0 .. N |-> g[i]]
      OBVIOUS
    <2> QED
      BY <2>4, <2>5, <1>6, Zenon
  <1>8. back = Body(back) /\ PurgeTop(d, ch, z) = back[N]
    <2>1. back = Body(back)
      BY <1>7
    <2>2. PurgeTop(d, ch, z) = back[N]
      BY Zenon DEF PurgeTop, Body, Step, txs
    <2> QED
      BY <2>1, <2>2
  <1> HIDE DEF back
  <1>9. back[N] \in S
    <2>1. back[0] = d /\ \A i \in 1 .. N : back[i - 1] \in S => back[i] = st[<<i, back[i - 1]>>]
      BY <1>3, <1>5, <1>8
    <2> HIDE DEF N
    <2>2. \A i \in 0 .. N : back[i] \in S
      BY <2>1, <1>1, <1>3, RecursionIn, ZenonT(30)
    <2> QED
      BY <2>2, <1>1
  <1> QED
    BY <1>8, <1>9 DEF S, Below

(* The results of adding transactions of a block: the pool is below d, and *)
(* apart from the chain.                                                   *)
Accepting(d, X, exact) ==
    {r \in [d : Contents, ch : Chain, ok : BOOLEAN] :
        Shrinks(d, r.d, X, exact) /\ Apart(r.d, r.ch, X)}

(* add_transaction_from_block.                                             *)
LEMMA AddFromBlockFacts ==
    ASSUME NEW d, NEW X, NEW exact, Sound(d, X, exact), NEW r \in Accepting(d, X, exact),
           NEW t \in Tx, NEW z
    PROVE  AddFromBlock(r, t, z) \in Accepting(d, X, exact)
  <1> DEFINE R == AddFromBlock(r, t, z)
             s == r.ch[Len(r.ch)].txs
             taken == take_tx(r.d, t)
             c == WithTop(r.ch, Append(s, t))
             e == add_tx_from_core(taken, t, MinFee, r.ch, z)
             f == add_transaction_to_black_list(e, t)
  <1>1. /\ r \in [d : Contents, ch : Chain, ok : BOOLEAN] /\ Shrinks(d, r.d, X, exact)
        /\ Apart(r.d, r.ch, X) /\ Sound(r.d, X, exact) /\ Pool(d)
    BY DEF Accepting, Shrinks, Sound
  <1>2. CASE ~r.ok
    BY <1>2, Zenon DEF AddFromBlock
  <1>3. CASE r.ok /\ t \notin DOMAIN r.d.txs
    <2>1. R = [r EXCEPT !.ok = FALSE]
      BY <1>3, Zenon DEF AddFromBlock
    <2> HIDE DEF R
    <2>2. R \in [d : Contents, ch : Chain, ok : BOOLEAN] /\ R.d = r.d /\ R.ch = r.ch
      BY <2>1, <1>1
    <2> QED
      BY <1>1, <2>2 DEF Accepting, R
  <1>4. CASE r.ok /\ t \in DOMAIN r.d.txs
    <2>1. Shrinks(r.d, taken, X, exact) /\ t \notin DOMAIN taken.txs /\ t \notin Counted(taken)
      BY <1>1, <1>4, TakenFacts DEF Counted
    <2>2. Shrinks(d, taken, X, exact) /\ Sound(taken, X, exact) /\ taken \in Contents
          /\ Counted(taken) \subseteq Counted(r.d)
      BY <1>1, <2>1, ShrinksTwice DEF Shrinks, Sound, Pool
    <2> HIDE DEF taken
    <2>3. CASE check_tx_inputs(t, r.ch, z) /\ Appendable(t, r.ch)
      <3>1. R = [r EXCEPT !.d = taken, !.ch = c]
        BY <1>4, <2>3, Zenon DEF AddFromBlock, taken
      <3>2. s \in Seq(Tx) /\ Range(s) \subseteq TxsOf(r.ch)
        BY <1>1, ChainFacts
      <3> HIDE DEF s, R
      <3>3. Append(s, t) \in Seq(Tx) /\ Range(Append(s, t)) \subseteq Range(s) \cup {t}
        <4>1. Append(s, t) \in Seq(Tx) /\ Len(Append(s, t)) = Len(s) + 1
              /\ \A i \in 1 .. Len(s) : Append(s, t)[i] = s[i]
              /\ Append(s, t)[Len(s) + 1] = t
          BY <3>2, AppendProperties
        <4>2. Len(s) \in Nat
          BY <3>2
        <4>3. \A i \in 1 .. Len(s) + 1 : i = Len(s) + 1 \/ i \in 1 .. Len(s)
          BY <4>2
        <4> QED
          BY <3>2, <4>1, <4>3 DEF Range
      <3>4. c \in Chain /\ TxsOf(c) \subseteq TxsOf(r.ch) \cup {t}
        BY <1>1, <3>2, <3>3, WithTopFacts
      <3>5. Apart(taken, c, X)
        BY <1>1, <2>1, <2>2, <3>4 DEF Apart
      <3> HIDE DEF c
      <3>6. R \in [d : Contents, ch : Chain, ok : BOOLEAN] /\ R.d = taken /\ R.ch = c
        BY <3>1, <1>1, <2>2, <3>4
      <3> QED
        BY <2>2, <3>5, <3>6 DEF Accepting, R
    <2>4. CASE ~(check_tx_inputs(t, r.ch, z) /\ Appendable(t, r.ch))
      <3>1. R = [r EXCEPT !.d = f, !.ok = FALSE]
        BY <1>4, <2>4, Zenon DEF AddFromBlock, taken
      <3> HIDE DEF R
      <3>2. Shrinks(taken, e, X, exact)
        BY <1>1, <2>1, <2>2, FromCoreFacts
      <3> HIDE DEF e
      <3>3. Sound(e, X, exact) /\ Pool(e)
        BY <3>2 DEF Shrinks, Sound
      <3>4. Shrinks(e, f, X, exact)
        <4>1. e.black \cup {t} \in SUBSET Tx
          BY <3>3, PoolFacts
        <4>2. Pool(f) /\ f.txs = e.txs /\ f.images = e.images
          BY <3>3, <4>1, OtherBlack DEF add_transaction_to_black_list
        <4> HIDE DEF f
        <4> QED
          BY <3>3, <4>2, SameSound
      <3> HIDE DEF f
      <3>5. Pool(r.d) /\ Pool(taken)
        BY <1>1, <2>2 DEF Sound
      <3>6. Shrinks(taken, f, X, exact)
        BY <3>2, <3>4, <3>5, ShrinksTwice
      <3>7. Shrinks(r.d, f, X, exact)
        BY <2>1, <3>5, <3>6, ShrinksTwice
      <3>8. Shrinks(d, f, X, exact)
        BY <1>1, <3>7, ShrinksTwice
      <3>9. Apart(f, r.ch, X)
        BY <1>1, <3>7, ApartKept
      <3>10. f \in Contents
        BY <3>8 DEF Shrinks, Sound, Pool
      <3>11. R \in [d : Contents, ch : Chain, ok : BOOLEAN] /\ R.d = f /\ R.ch = r.ch
        BY <3>1, <1>1, <3>10
      <3> QED
        BY <3>8, <3>9, <3>11 DEF Accepting, R
    <2> QED
      BY <2>3, <2>4
  <1> QED
    BY <1>1, <1>2, <1>3, <1>4

(* A new block on a chain, before it has transactions.                     *)
LEMMA OnTopFacts ==
    ASSUME NEW ch \in Chain, NEW id \in Nat
    PROVE  LET c == Append(ch, [id |-> id, txs |-> <<>>]) IN
           c \in Chain /\ TxsOf(c) \subseteq TxsOf(ch)
  <1> DEFINE b == [id |-> id, txs |-> <<>>]
             c == Append(ch, b)
             n == Len(ch)
  <1>1. b \in Blocked /\ b.txs = <<>>
    <2>1. <<>> \in Seq(Tx)
      OBVIOUS
    <2> QED
      BY <2>1 DEF Blocked
  <1>2. ch \in Seq(Blocked) /\ n \in Nat /\ DOMAIN ch = 1 .. n
    BY ChainFacts DEF Chain
  <1> HIDE DEF b
  <1>3. /\ c \in Seq(Blocked) /\ Len(c) = n + 1 /\ \A i \in 1 .. n : c[i] = ch[i]
        /\ c[n + 1] = b
    BY <1>1, <1>2, AppendProperties
  <1> HIDE DEF c
  <1>4. c \in Chain /\ DOMAIN c = 1 .. n + 1
    BY <1>2, <1>3 DEF Chain
  <1>5. Range(b.txs) = {}
    BY <1>1 DEF Range
  <1>6. \A i \in 1 .. n + 1 : i = n + 1 \/ i \in 1 .. n
    BY <1>2
  <1> HIDE DEF n
  <1>7. TxsOf(c) \subseteq TxsOf(ch)
    BY <1>2, <1>3, <1>4, <1>5, <1>6 DEF TxsOf
  <1> QED
    BY <1>4, <1>7 DEF c, b

(* What a block leaves: the pool is below d, and apart from the chain.     *)
Handling(d, X, exact, ch, res) ==
    /\ Shrinks(d, res.d, X, exact) /\ res.ch \in Chain /\ Apart(res.d, res.ch, X)
    /\ res.z \in BOOLEAN /\ (NoZone => ~res.z) /\ res.ok \in BOOLEAN
    /\ ~res.ok => res.ch = ch

(* handle_block_to_main_chain.                                             *)
LEMMA HandleFacts ==
    ASSUME NEW d, NEW X, NEW exact, Sound(d, X, exact), NEW ch \in Chain, Apart(d, ch, X),
           NEW b, b.id \in Nat, b.txs \in Seq(Tx)
    PROVE  Handling(d, X, exact, ch, handle_block_to_main_chain(d, ch, b))
  <1> DEFINE N == Len(b.txs)
             S == Accepting(d, X, exact)
             z == Len(ch) <= checkpoint
             v == [d |-> d, ch |-> Append(ch, [id |-> b.id, txs |-> <<>>]), ok |-> TRUE]
             Step(i, e) == AddFromBlock(e, b.txs[i], z)
             Body(f) == [i \in 0 .. N |-> IF i = 0 THEN v ELSE Step(i, f[i - 1])]
             added == CHOOSE f : f = Body(f)
             st == [p \in Nat \X S |-> IF p[1] \in 1 .. N THEN Step(p[1], p[2]) ELSE p[2]]
             r == added[N]
             res == handle_block_to_main_chain(d, ch, b)
  <1>1. N \in Nat /\ v \in S /\ Pool(d)
    <2> DEFINE c == Append(ch, [id |-> b.id, txs |-> <<>>])
    <2>1. c \in Chain /\ TxsOf(c) \subseteq TxsOf(ch)
      BY OnTopFacts
    <2> HIDE DEF c
    <2>2. Shrinks(d, d, X, exact) /\ d \in Contents
      BY BelowFacts DEF Below
    <2>3. Apart(d, c, X)
      BY <2>1 DEF Apart
    <2>4. [d |-> d, ch |-> c, ok |-> TRUE] \in S
      BY <2>1, <2>2, <2>3 DEF Accepting
    <2> QED
      BY <2>4 DEF c, Sound
  <1>2. ASSUME NEW i \in 1 .. N, NEW e \in S PROVE Step(i, e) \in S
    <2>1. b.txs[i] \in Tx
      BY <1>1
    <2> QED
      BY <2>1, AddFromBlockFacts
  <1> HIDE DEF Step, S, v
  <1>3. st \in [Nat \X S -> S] /\ \A i \in 1 .. N, e \in S : st[<<i, e>>] = Step(i, e)
    BY <1>1, <1>2
  <1> HIDE DEF st
  <1>4. PICK g \in [0 .. N -> S] : Unfolds(g, N, v, st)
    BY <1>1, <1>3, RecursionExists
  <1>5. \A f : Body(f)[0] = v /\ \A i \in 1 .. N : Body(f)[i] = Step(i, f[i - 1])
    BY <1>1
  <1>6. \A f : Body(f) = [i \in 0 .. N |-> Body(f)[i]]
    BY Zenon
  <1> HIDE DEF Body
  <1>7. g = Body(g)
    <2>1. \A i \in 1 .. N : g[i - 1] \in S
      BY <1>1
    <2>2. \A i \in 1 .. N : Body(g)[i] = st[<<i, g[i - 1]>>]
      BY <2>1, <1>3, <1>5
    <2>3. \A i \in 0 .. N : i = 0 \/ i \in 1 .. N
      BY <1>1
    <2>4. \A i \in 0 .. N : g[i] = Body(g)[i]
      BY <2>2, <2>3, <1>4, <1>5 DEF Unfolds
    <2>5. g = [i \in 0 .. N |-> g[i]]
      OBVIOUS
    <2> QED
      BY <2>4, <2>5, <1>6, Zenon
  <1>8. added = Body(added)
    BY <1>7
  <1>9. res = IF r.ok /\ Cardinality(NewAliases(r.ch)) <= MaxAliases /\ MinerTxValid(b)
              THEN [d |-> r.d, ch |-> r.ch, z |-> z, ok |-> TRUE]
              ELSE [d |-> PurgeTop(r.d, r.ch, z), ch |-> ch, z |-> z, ok |-> FALSE]
    BY Zenon DEF handle_block_to_main_chain, Body, Step, v
  <1> HIDE DEF added
  <1>10. added[N] \in S
    <2>1. added[0] = v /\ \A i \in 1 .. N : added[i - 1] \in S => added[i] = st[<<i, added[i - 1]>>]
      BY <1>3, <1>5, <1>8
    <2> HIDE DEF N
    <2>2. \A i \in 0 .. N : added[i] \in S
      BY <2>1, <1>1, <1>3, RecursionIn, ZenonT(30)
    <2> QED
      BY <2>2, <1>1
  <1>11. z \in BOOLEAN /\ (NoZone => ~z)
    BY ChainFacts DEF NoZone
  <1> HIDE DEF r, res, z
  <1>12. Shrinks(d, r.d, X, exact) /\ r.ch \in Chain /\ Apart(r.d, r.ch, X) /\ Sound(r.d, X, exact)
    BY <1>10 DEF S, Accepting, Shrinks, r
  <1>13. CASE r.ok /\ Cardinality(NewAliases(r.ch)) <= MaxAliases /\ MinerTxValid(b)
    <2>1. res.d = r.d /\ res.ch = r.ch /\ res.z = z /\ res.ok = TRUE
      BY <1>9, <1>13
    <2> QED
      BY <2>1, <1>12, <1>11 DEF Handling, res
  <1>14. CASE ~(r.ok /\ Cardinality(NewAliases(r.ch)) <= MaxAliases /\ MinerTxValid(b))
    <2> DEFINE e == PurgeTop(r.d, r.ch, z)
    <2>1. res.d = e /\ res.ch = ch /\ res.z = z /\ res.ok = FALSE
      BY <1>9, <1>14
    <2>2. Shrinks(r.d, e, X, exact)
      BY <1>12, PurgeTopFacts
    <2> HIDE DEF e
    <2>3. Shrinks(d, e, X, exact)
      BY <1>1, <1>12, <2>2, ShrinksTwice
    <2>4. Apart(e, ch, X)
      BY <2>3, ApartKept
    <2> QED
      BY <2>1, <2>3, <2>4, <1>11 DEF Handling, res
  <1> QED
    BY <1>13, <1>14

(* The transactions of a block that is undone go back to the pool.         *)
LEMMA RollbackFacts ==
    ASSUME NEW d, NEW X, NEW exact, Sound(d, X, exact), NEW ch \in Chain, NEW z, Apart(d, ch, X)
    PROVE  Shrinks(d, Rollback(d, ch, z), X, exact)
  <1> DEFINE txs == ch[Len(ch)].txs
             N == Len(txs)
             S == Below(d, X, exact)
             Step(i, e) == add_tx_from_core(e, txs[i], 0, ch, z)
             Body(f) == [i \in 0 .. N |-> IF i = 0 THEN d ELSE Step(i, f[i - 1])]
             back == CHOOSE f : f = Body(f)
             st == [p \in Nat \X S |-> IF p[1] \in 1 .. N THEN Step(p[1], p[2]) ELSE p[2]]
  <1>1. N \in Nat /\ txs \in Seq(Tx) /\ d \in S
    BY ChainFacts, BelowFacts
  <1>2. ASSUME NEW i \in 1 .. N, NEW e \in S PROVE Step(i, e) \in S
    <2> DEFINE t == txs[i]
    <2>1. t \in Tx /\ t \in TxsOf(ch)
      <3>1. t \in Tx /\ t \in Range(txs)
        BY <1>1 DEF Range
      <3> HIDE DEF t, txs
      <3>2. Range(txs) \subseteq TxsOf(ch)
        BY ChainFacts DEF txs
      <3> QED
        BY <3>1, <3>2
    <2> HIDE DEF t
    <2>2. Sound(e, X, exact) /\ Counted(e) \subseteq Counted(d)
      BY BelowFacts
    <2>3. t \in Counted(e) => Images[t] \subseteq X
      BY <2>1, <2>2 DEF Apart
    <2>4. Shrinks(e, add_tx_from_core(e, t, 0, ch, z), X, exact)
      BY <2>1, <2>2, <2>3, FromCoreFacts
    <2> HIDE DEF S
    <2> QED
      BY <2>4, BelowFacts DEF S, t
  <1> HIDE DEF Step, S, txs
  <1>3. st \in [Nat \X S -> S] /\ \A i \in 1 .. N, e \in S : st[<<i, e>>] = Step(i, e)
    BY <1>1, <1>2
  <1> HIDE DEF st
  <1>4. PICK g \in [0 .. N -> S] : Unfolds(g, N, d, st)
    BY <1>1, <1>3, RecursionExists
  <1>5. \A f : Body(f)[0] = d /\ \A i \in 1 .. N : Body(f)[i] = Step(i, f[i - 1])
    BY <1>1
  <1>6. \A f : Body(f) = [i \in 0 .. N |-> Body(f)[i]]
    BY Zenon
  <1> HIDE DEF Body
  <1>7. g = Body(g)
    <2>1. \A i \in 1 .. N : g[i - 1] \in S
      BY <1>1
    <2>2. \A i \in 1 .. N : Body(g)[i] = st[<<i, g[i - 1]>>]
      BY <2>1, <1>3, <1>5
    <2>3. \A i \in 0 .. N : i = 0 \/ i \in 1 .. N
      BY <1>1
    <2>4. \A i \in 0 .. N : g[i] = Body(g)[i]
      BY <2>2, <2>3, <1>4, <1>5 DEF Unfolds
    <2>5. g = [i \in 0 .. N |-> g[i]]
      OBVIOUS
    <2> QED
      BY <2>4, <2>5, <1>6, Zenon
  <1>8. back = Body(back) /\ Rollback(d, ch, z) = back[N]
    <2>1. back = Body(back)
      BY <1>7
    <2>2. Rollback(d, ch, z) = back[N]
      BY Zenon DEF Rollback, Body, Step, txs
    <2> QED
      BY <2>1, <2>2
  <1> HIDE DEF back
  <1>9. back[N] \in S
    <2>1. back[0] = d /\ \A i \in 1 .. N : back[i - 1] \in S => back[i] = st[<<i, back[i - 1]>>]
      BY <1>3, <1>5, <1>8
    <2> HIDE DEF N
    <2>2. \A i \in 0 .. N : back[i] \in S
      BY <2>1, <1>1, <1>3, RecursionIn, ZenonT(30)
    <2> QED
      BY <2>2, <1>1
  <1> QED
    BY <1>8, <1>9 DEF S, Below

(* The end of a database transaction forgets the taken transactions.       *)
LEMMA FinalizedFacts ==
    ASSUME NEW d, NEW X, NEW exact, Sound(d, X, exact)
    PROVE  Shrinks(d, on_finalize_db_transaction(d), X, exact)
  <1> DEFINE e == on_finalize_db_transaction(d)
  <1>1. Pool(d) /\ {} \in SUBSET Tx
    BY DEF Sound
  <1>2. Pool(e) /\ e.txs = d.txs /\ e.images = d.images
    BY <1>1, OtherTaken DEF on_finalize_db_transaction
  <1> HIDE DEF e
  <1> QED
    BY <1>2, SameSound DEF e

-----------------------------------------------------------------------------
(***************************************************************************)
(* Removing stuck transactions.                                            *)
(***************************************************************************)
(* A finite set as a sequence.                                             *)
LEMMA SetToSeqFacts ==
    ASSUME NEW S, IsFiniteSet(S)
    PROVE  Cardinality(S) \in Nat /\ SetToSeq(S) \in [1 .. Cardinality(S) -> S]
  <1> DEFINE n == Cardinality(S)
  <1>1. n \in Nat /\ ExistsBijection(1 .. n, S)
    BY FS_CardinalityType
  <1>2. \E f \in [1 .. n -> S] : IsInjective(f)
    BY <1>1 DEF ExistsBijection, Bijection, Injection
  <1>3. SetToSeq(S) \in [1 .. n -> S]
    BY <1>2, Zenon DEF SetToSeq
  <1> QED
    BY <1>1, <1>3

(* The pools that have lost some of the transactions of the pool.          *)
Trimmed(X, exact) ==
    {e \in Contents : /\ Shrinks(pool, e, X, exact) /\ DOMAIN e.txs \subseteq DOMAIN pool.txs
                      /\ \A u \in DOMAIN e.txs : e.txs[u] = pool.txs[u]}

(* One more is removed, perhaps for the second time.                       *)
LEMMA TrimmedFacts ==
    ASSUME NEW X, NEW exact, Sound(pool, X, exact), NEW e \in Trimmed(X, exact),
           NEW t \in DOMAIN pool.txs
    PROVE  on_tx_remove(unprocess_cancel_offer_rules(Erased(e, t), t), t, pool.txs[t].kept)
               \in Trimmed(X, exact)
  <1> DEFINE kept == pool.txs[t].kept
             r == Removed(e, t, kept)
  <1>1. /\ Pool(pool) /\ t \in Tx /\ kept \in BOOLEAN
        /\ Shrinks(pool, e, X, exact) /\ Sound(e, X, exact) /\ Pool(e)
        /\ DOMAIN e.txs \subseteq DOMAIN pool.txs /\ \A u \in DOMAIN e.txs : e.txs[u] = pool.txs[u]
    BY PoolFacts DEF Trimmed, Shrinks, Sound
  <1>2. unprocess_cancel_offer_rules(Erased(e, t), t) = Erased(unprocess_cancel_offer_rules(e, t), t)
    BY <1>1 DEF Pool, Contents, Erased, unprocess_cancel_offer_rules
  <1>3. on_tx_remove(unprocess_cancel_offer_rules(Erased(e, t), t), t, kept) = r
    BY <1>2, Zenon DEF Removed
  <1>4. /\ Pool(r) /\ DOMAIN r.txs = DOMAIN e.txs \ {t} /\ \A u \in DOMAIN r.txs : r.txs[u] = e.txs[u]
        /\ \A k \in KeyImage : r.images[k] <= e.images[k]
    BY <1>1, RemovedFacts
  <1>5. ASSUME NEW k \in KeyImage \ X PROVE Exact(r, k, exact)
    <2>1. Exact(e, k, exact) /\ Exact(pool, k, exact)
      BY <1>1 DEF Sound
    <2>2. t \in DOMAIN e.txs => e.txs[t].kept = kept
      BY <1>1
    <2>3. ASSUME exact, ~kept, k \in Images[t], t \notin DOMAIN e.txs PROVE e.images[k] = 0
      <3>1. t \in Spending(pool, k) /\ Spending(e, k) \subseteq Spending(pool, k) \ {t}
        BY <1>1, <2>3 DEF Spending
      <3>2. Cardinality(Spending(pool, k)) <= 1 /\ IsFiniteSet(Spending(pool, k))
        BY <1>1, <2>1, <2>3, SpendingFacts DEF Exact
      <3>3. Spending(pool, k) = {t}
        BY <3>1, <3>2, AtMostOne
      <3>4. Spending(e, k) = {}
        BY <3>1, <3>3
      <3>5. Cardinality(Spending(e, k)) = 0
        BY <3>4, FS_EmptySet
      <3> QED
        BY <3>5, <2>1, <2>3 DEF Exact
    <2> HIDE DEF r, kept
    <2> QED
      BY <1>1, <2>1, <2>2, <2>3, RemovedExact DEF r
  <1> HIDE DEF r
  <1>6. Sound(r, X, exact) /\ Counted(r) \subseteq Counted(e)
    BY <1>4, <1>5 DEF Sound, Counted
  <1>7. Shrinks(e, r, X, exact)
    BY <1>4, <1>6 DEF Shrinks
  <1>8. Shrinks(pool, r, X, exact) /\ r \in Contents
    BY <1>1, <1>4, <1>7, ShrinksTwice DEF Pool
  <1>9. DOMAIN r.txs \subseteq DOMAIN pool.txs /\ \A u \in DOMAIN r.txs : r.txs[u] = pool.txs[u]
    BY <1>1, <1>4
  <1>10. r \in Trimmed(X, exact)
    BY <1>8, <1>9 DEF Trimmed
  <1> QED
    BY <1>3, <1>10

(* remove_stuck_transactions removes the transactions of a set.            *)
LEMMA RemoveEachFacts ==
    ASSUME NEW X, NEW exact, Sound(pool, X, exact), NEW d \in Trimmed(X, exact),
           NEW txs \in SUBSET DOMAIN pool.txs
    PROVE  RemoveEach(d, txs) \in Trimmed(X, exact)
  <1> DEFINE gone == SetToSeq(txs)
             N == Len(gone)
             S == Trimmed(X, exact)
             Step(i, e) == on_tx_remove(unprocess_cancel_offer_rules(Erased(e, gone[i]), gone[i]),
                                        gone[i], pool.txs[gone[i]].kept)
             Body(f) == [i \in 0 .. N |-> IF i = 0 THEN d ELSE Step(i, f[i - 1])]
             upto == CHOOSE f : f = Body(f)
             st == [p \in Nat \X S |-> IF p[1] \in 1 .. N THEN Step(p[1], p[2]) ELSE p[2]]
  <1>1. N \in Nat /\ gone \in Seq(txs)
    <2>1. IsFiniteSet(txs)
      <3>1. IsFiniteSet(DOMAIN pool.txs)
        BY PoolFacts DEF Sound
      <3> QED
        BY <3>1, FS_Subset
    <2>2. Cardinality(txs) \in Nat /\ gone \in [1 .. Cardinality(txs) -> txs]
      BY <2>1, SetToSeqFacts
    <2> HIDE DEF gone
    <2>3. gone \in Seq(txs)
      BY <2>2
    <2> QED
      BY <2>3
  <1>2. ASSUME NEW i \in 1 .. N, NEW e \in S PROVE Step(i, e) \in S
    <2>1. gone[i] \in DOMAIN pool.txs
      BY <1>1
    <2> QED
      BY <2>1, TrimmedFacts
  <1> HIDE DEF Step, S, gone
  <1>3. st \in [Nat \X S -> S] /\ \A i \in 1 .. N, e \in S : st[<<i, e>>] = Step(i, e)
    BY <1>1, <1>2
  <1> HIDE DEF st
  <1>4. PICK g \in [0 .. N -> S] : Unfolds(g, N, d, st)
    <2>1. d \in S
      BY DEF S
    <2> QED
      BY <2>1, <1>1, <1>3, RecursionExists
  <1>5. \A f : Body(f)[0] = d /\ \A i \in 1 .. N : Body(f)[i] = Step(i, f[i - 1])
    BY <1>1
  <1>6. \A f : Body(f) = [i \in 0 .. N |-> Body(f)[i]]
    BY Zenon
  <1> HIDE DEF Body
  <1>7. g = Body(g)
    <2>1. \A i \in 1 .. N : g[i - 1] \in S
      BY <1>1
    <2>2. \A i \in 1 .. N : Body(g)[i] = st[<<i, g[i - 1]>>]
      BY <2>1, <1>3, <1>5
    <2>3. \A i \in 0 .. N : i = 0 \/ i \in 1 .. N
      BY <1>1
    <2>4. \A i \in 0 .. N : g[i] = Body(g)[i]
      BY <2>2, <2>3, <1>4, <1>5 DEF Unfolds
    <2>5. g = [i \in 0 .. N |-> g[i]]
      OBVIOUS
    <2> QED
      BY <2>4, <2>5, <1>6, Zenon
  <1>8. upto = Body(upto) /\ RemoveEach(d, txs) = upto[N]
    <2>1. upto = Body(upto)
      BY <1>7
    <2>2. RemoveEach(d, txs) = upto[N]
      BY Zenon DEF RemoveEach, Body, Step, gone
    <2> QED
      BY <2>1, <2>2
  <1> HIDE DEF upto
  <1>9. upto[N] \in S
    <2>1. upto[0] = d /\ \A i \in 1 .. N : upto[i - 1] \in S => upto[i] = st[<<i, upto[i - 1]>>]
      BY <1>3, <1>5, <1>8
    <2>2. d \in S
      BY DEF S
    <2> HIDE DEF N
    <2>3. \A i \in 0 .. N : upto[i] \in S
      BY <2>1, <2>2, <1>1, <1>3, RecursionIn, ZenonT(30)
    <2> QED
      BY <2>3, <1>1
  <1> QED
    BY <1>8, <1>9 DEF S

-----------------------------------------------------------------------------
(***************************************************************************)
(* The block template.                                                     *)
(***************************************************************************)
(* Looking at a transaction leaves it kept or not.                         *)
LEMMA ReadyFacts ==
    ASSUME NEW d, Pool(d), NEW t \in DOMAIN d.txs, NEW ch \in Chain, NEW z
    PROVE  LET td == is_transaction_ready_to_go(d, t, ch, z).td IN
           td \in Details /\ td.kept = d.txs[t].kept
  <1> DEFINE td    == d.txs[t]
             u     == [td.used EXCEPT !.height = 1]
             fails == [td EXCEPT !.failed = TopId(ch), !.used.height = 1]
             res   == is_transaction_ready_to_go(d, t, ch, z).td
  <1>1. td \in Details
    BY PoolFacts
  <1>2. res = td \/ res = fails
    BY Zenon DEF is_transaction_ready_to_go
  <1> HIDE DEF td, res
  <1>3. TopId(ch) \in Nat
    BY ChainFacts DEF TopId
  <1>4. td.used \in [height : Nat, id : Nat \cup {NoBlock}]
    BY <1>1 DEF Details
  <1>5. u \in [height : Nat, id : Nat \cup {NoBlock}]
    BY <1>4
  <1>6. fails = [td EXCEPT !.failed = TopId(ch), !.used = u]
    BY <1>1 DEF Details
  <1> HIDE DEF u, fails
  <1>7. fails \in Details /\ fails.kept = td.kept
    BY <1>1, <1>3, <1>5, <1>6 DEF Details
  <1> QED
    BY <1>1, <1>2, <1>7 DEF td, res

(* A template that is being filled.                                        *)
Filling(d) ==
    {s \in [full : BOOLEAN, at : Nat, left : Seq(Tx \cup {NoTx}), images : SUBSET KeyImage,
            size : Nat, fee : Nat, money : Nat, best : Nat, total : Nat, earned : Nat,
            aliases : Nat, txs : Maps(Tx, Details)] :
        /\ Len(s.left) = s.at /\ DOMAIN s.txs = DOMAIN d.txs
        /\ \A t \in DOMAIN d.txs : s.txs[t].kept = d.txs[t].kept}


(* One transaction is looked at.                                           *)
LEMMA ConsiderFacts ==
    ASSUME NEW d, Pool(d), NEW s \in Filling(d), NEW t \in DOMAIN d.txs, NEW ch \in Chain, NEW z
    PROVE  /\ Consider(s, t, d, ch, z) \in Filling(d)
           /\ Consider(s, t, d, ch, z).at = s.at + 1
  <1> DEFINE T == [full : BOOLEAN, at : Nat, left : Seq(Tx \cup {NoTx}), images : SUBSET KeyImage,
                   size : Nat, fee : Nat, money : Nat, best : Nat, total : Nat, earned : Nat,
                   aliases : Nat, txs : Maps(Tx, Details)]
             td   == is_transaction_ready_to_go(d, t, ch, z).td
             ok   == is_transaction_ready_to_go(d, t, ch, z).ok
             size == s.size + Size[t]
             fee  == s.fee + Fee[t]
             money == Reward[size] + fee
             at   == s.at + 1
             yes  == Append(s.left, t)
             no   == Append(s.left, NoTx)
             im   == s.images \cup Images[t]
             g    == [s.txs EXCEPT ![t] = td]
             c    == Consider(s, t, d, ch, z)
             skipped == is_tx_expired(t, ch) \/ SkipAlias(t, s, d)
             n    == IF Alias[t] = NoTx THEN s.aliases ELSE s.aliases + 1
             full == [s EXCEPT !.at = at, !.left = yes]
             skip == [s EXCEPT !.at = at, !.left = no]
             bad  == [s EXCEPT !.at = at, !.left = no, !.txs = g]
             u    == [s EXCEPT !.at = at, !.left = yes, !.images = im, !.size = size, !.fee = fee]
             over == [u EXCEPT !.full = TRUE]
             v    == [u EXCEPT !.aliases = n]
             top  == [v EXCEPT !.money = money, !.best = at, !.total = size, !.earned = fee]
  <1>1. /\ s \in T /\ Len(s.left) = s.at /\ DOMAIN s.txs = DOMAIN d.txs
        /\ \A x \in DOMAIN d.txs : s.txs[x].kept = d.txs[x].kept
        /\ t \in Tx /\ d.txs \in Maps(Tx, Details)
    BY PoolFacts DEF Filling
  <1>2. td \in Details /\ td.kept = d.txs[t].kept
    BY ReadyFacts
  <1>3. u.aliases = s.aliases
    BY <1>1
  <1>4. c \in {full, skip, bad, over} \/ (~(size > MaxBlockSize) /\ c \in {v, top})
    <2> DEFINE refused == ~ok \/ s.images \cap Images[t] # {}
               bad0 == [s EXCEPT !.at = at, !.left = no, !.txs[t] = td]
               v0   == [u EXCEPT !.aliases = IF Alias[t] = NoTx THEN @ ELSE @ + 1]
               top0 == [v0 EXCEPT !.money = money, !.best = at, !.total = size, !.earned = fee]
    <2>1. bad0 = bad
      BY <1>1
    <2>2. v0 = v /\ top0 = top
      BY <1>1
    <2>3. c = IF s.full THEN full ELSE IF skipped THEN skip ELSE IF refused THEN bad0
              ELSE IF size > MaxBlockSize THEN over ELSE IF s.money < money THEN top0 ELSE v0
      BY Zenon DEF Consider
    <2> HIDE DEF c, full, skip, bad, over, v, top, skipped, refused, size, money, bad0, v0, top0
    <2> QED
      BY <2>1, <2>2, <2>3
  <1>5. /\ yes \in Seq(Tx \cup {NoTx}) /\ Len(yes) = at /\ no \in Seq(Tx \cup {NoTx}) /\ Len(no) = at
        /\ at \in Nat
    <2>1. s.left \in Seq(Tx \cup {NoTx}) /\ s.at \in Nat
      BY <1>1
    <2> QED
      BY <2>1, <1>1, AppendProperties
  <1>6. im \in SUBSET KeyImage /\ size \in Nat /\ fee \in Nat
    <2>1. s.images \subseteq KeyImage /\ s.size \in Nat /\ s.fee \in Nat
      BY <1>1
    <2>2. Images[t] \subseteq KeyImage /\ Size[t] \in Nat /\ Fee[t] \in Nat
      BY <1>1, TxFacts
    <2> QED
      BY <2>1, <2>2
  <1>7. ~(size > MaxBlockSize) => money \in Nat
    BY <1>6, TxAssumption
  <1>8. n \in Nat
    BY <1>1
  <1>9. g \in Maps(Tx, Details) /\ DOMAIN g = DOMAIN d.txs /\ \A x \in DOMAIN d.txs : g[x].kept = d.txs[x].kept
    <2>1. DOMAIN s.txs \in SUBSET Tx /\ s.txs \in [DOMAIN s.txs -> Details]
      BY <1>1 DEF Maps
    <2>2. g \in [DOMAIN s.txs -> Details] /\ \A x \in DOMAIN s.txs : g[x].kept = d.txs[x].kept
      BY <1>1, <1>2, <2>1
    <2>3. DOMAIN g = DOMAIN s.txs
      OBVIOUS
    <2>4. g \in Maps(Tx, Details)
      BY <2>1, <2>2, Zenon DEF Maps
    <2> QED
      BY <1>1, <2>2, <2>3, <2>4
  <1> HIDE DEF td, ok, size, fee, money, at, yes, no, im, g, c, n
  <1>10. full \in T /\ full.left = yes /\ full.at = at /\ full.txs = s.txs
    BY <1>1, <1>5
  <1>11. skip \in T /\ skip.left = no /\ skip.at = at /\ skip.txs = s.txs
    BY <1>1, <1>5
  <1>12. bad \in T /\ bad.left = no /\ bad.at = at /\ bad.txs = g
    BY <1>1, <1>5, <1>9
  <1>13. u \in T /\ u.left = yes /\ u.at = at /\ u.txs = s.txs
    BY <1>1, <1>5, <1>6
  <1> HIDE DEF full, skip, bad, u
  <1>14. over \in T /\ over.left = yes /\ over.at = at /\ over.txs = s.txs
    BY <1>13
  <1>15. v \in T /\ v.left = yes /\ v.at = at /\ v.txs = s.txs
    BY <1>13, <1>8
  <1> HIDE DEF over, v
  <1>16. ~(size > MaxBlockSize) => top \in T /\ top.left = yes /\ top.at = at /\ top.txs = s.txs
    BY <1>5, <1>6, <1>7, <1>15
  <1> HIDE DEF top
  <1>17. /\ c \in T /\ c.at = at /\ c.left \in {yes, no} /\ c.txs \in {s.txs, g}
    BY <1>4, <1>10, <1>11, <1>12, <1>14, <1>15, <1>16
  <1> HIDE DEF T
  <1>18. Len(c.left) = c.at /\ DOMAIN c.txs = DOMAIN d.txs
         /\ \A x \in DOMAIN d.txs : c.txs[x].kept = d.txs[x].kept
    BY <1>1, <1>5, <1>9, <1>17
  <1> QED
    BY <1>17, <1>18 DEF Filling, T, c, at

(* The filled template: the transactions of the pool are the same, kept or *)
(* not, and those picked are transactions.                                 *)
LEMMA FilledFacts ==
    ASSUME NEW d, Pool(d), NEW ch \in Chain, NEW z, NEW order \in Seq(DOMAIN d.txs)
    PROVE  LET f == fill_block_template(d, ch, z, order) IN
           /\ f.txs \in Maps(Tx, Details) /\ DOMAIN f.txs = DOMAIN d.txs
           /\ \A t \in DOMAIN d.txs : f.txs[t].kept = d.txs[t].kept
           /\ f.picked \in Seq(Tx) /\ f.fee \in Nat
  <1> DEFINE N == Len(order)
             S == Filling(d)
             start == [full |-> FALSE, at |-> 0, left |-> <<>>, images |-> {}, size |-> 0, fee |-> 0,
                       money |-> Reward[0], best |-> 0, total |-> 0, earned |-> 0, aliases |-> 0,
                       txs |-> d.txs]
             Step(i, e) == Consider(e, order[i], d, ch, z)
             Body(f) == [i \in 0 .. N |-> IF i = 0 THEN start ELSE Step(i, f[i - 1])]
             filled == CHOOSE f : f = Body(f)
             st == [p \in Nat \X S |-> IF p[1] \in 1 .. N THEN Step(p[1], p[2]) ELSE p[2]]
             s == filled[N]
             in(i) == s.left[i] # NoTx /\ (i <= s.best \/ Cancels[s.left[i]] # {})
             Pick(i, e) == IF in(i) THEN Append(e, s.left[i]) ELSE e
             Choice(f) == [i \in 0 .. N |-> IF i = 0 THEN <<>> ELSE Pick(i, f[i - 1])]
             picked == CHOOSE f : f = Choice(f)
             pt == [p \in Nat \X Seq(Tx) |-> IF p[1] \in 1 .. N THEN Pick(p[1], p[2]) ELSE p[2]]
             result == fill_block_template(d, ch, z, order)
  <1>1. N \in Nat /\ \A i \in 1 .. N : order[i] \in DOMAIN d.txs
    OBVIOUS
  <1>2. start \in S
    <2>1. d.txs \in Maps(Tx, Details)
      BY PoolFacts
    <2>2. Reward[0] \in Nat
      BY TxAssumption
    <2>3. <<>> \in Seq(Tx \cup {NoTx}) /\ Len(<<>>) = 0
      OBVIOUS
    <2> QED
      BY <2>1, <2>2, <2>3 DEF Filling
  <1>3. ASSUME NEW i \in 1 .. N, NEW e \in S PROVE Step(i, e) \in S /\ Step(i, e).at = e.at + 1
    BY <1>1, ConsiderFacts
  <1>4. start.at = 0
    OBVIOUS
  <1>5. \A e \in S : /\ e.at \in Nat /\ Len(e.left) = e.at /\ e.left \in Seq(Tx \cup {NoTx})
                     /\ e.txs \in Maps(Tx, Details) /\ DOMAIN e.txs = DOMAIN d.txs
                     /\ \A t \in DOMAIN d.txs : e.txs[t].kept = d.txs[t].kept
                     /\ e.earned \in Nat
    BY DEF Filling
  <1>6. result.picked = picked[N] /\ result.fee = s.earned /\ result.txs = s.txs
    <2>1. \E n : result = [picked |-> picked[N], fee |-> s.earned, txs |-> s.txs, size |-> n]
      BY Zenon DEF fill_block_template
    <2> HIDE DEF result, picked, s
    <2> QED
      BY <2>1
  <1> HIDE DEF Step, S, start, result
  <1>7. st \in [Nat \X S -> S] /\ \A i \in 1 .. N, e \in S : st[<<i, e>>] = Step(i, e)
    BY <1>1, <1>3
  <1> HIDE DEF st
  <1>8. PICK g \in [0 .. N -> S] : Unfolds(g, N, start, st)
    BY <1>1, <1>2, <1>7, RecursionExists
  <1>9. \A f : Body(f)[0] = start /\ \A i \in 1 .. N : Body(f)[i] = Step(i, f[i - 1])
    BY <1>1
  <1>10. \A f : Body(f) = [i \in 0 .. N |-> Body(f)[i]]
    BY Zenon
  <1> HIDE DEF Body
  <1>11. g = Body(g)
    <2>1. \A i \in 1 .. N : g[i - 1] \in S
      BY <1>1
    <2>2. \A i \in 1 .. N : Body(g)[i] = st[<<i, g[i - 1]>>]
      BY <2>1, <1>7, <1>9
    <2>3. \A i \in 0 .. N : i = 0 \/ i \in 1 .. N
      BY <1>1
    <2>4. \A i \in 0 .. N : g[i] = Body(g)[i]
      BY <2>2, <2>3, <1>8, <1>9 DEF Unfolds
    <2>5. g = [i \in 0 .. N |-> g[i]]
      OBVIOUS
    <2> QED
      BY <2>4, <2>5, <1>10, Zenon
  <1>12. filled = Body(filled)
    BY <1>11
  <1> HIDE DEF filled, in, Pick, Choice, pt
  <1>13. filled[0] = start /\ \A i \in 1 .. N : filled[i] = Step(i, filled[i - 1])
    BY <1>9, <1>12
  <1>14. \A i \in 0 .. N : filled[i] \in S
    <2>1. \A i \in 1 .. N : filled[i - 1] \in S => filled[i] = st[<<i, filled[i - 1]>>]
      BY <1>13, <1>7
    <2> HIDE DEF N
    <2> QED
      BY <2>1, <1>1, <1>2, <1>7, <1>13, RecursionIn, ZenonT(30)
  <1>15. s.at = N
    <2> DEFINE T == {i \in 0 .. N : filled[i].at = i}
    <2>1. 0 \in T
      BY <1>1, <1>4, <1>13
    <2>2. ASSUME NEW n \in 0 .. N - 1, n \in T PROVE n + 1 \in T
      <3>1. n + 1 \in 1 .. N /\ n + 1 \in 0 .. N /\ (n + 1) - 1 = n /\ n \in 0 .. N
        BY <1>1
      <3>2. filled[n + 1] = Step(n + 1, filled[n])
        BY <3>1, <1>13
      <3>3. filled[n] \in S
        BY <3>1, <1>14
      <3>4. filled[n + 1].at = filled[n].at + 1
        BY <3>1, <3>2, <3>3, <1>3
      <3> QED
        BY <2>2, <3>1, <3>4
    <2>3. 0 .. N \subseteq T
      <3> HIDE DEF T, N
      <3> QED
        BY <2>1, <2>2, <1>1, BoundedInduction
    <2>4. N \in 0 .. N
      BY <1>1
    <2> QED
      BY <2>3, <2>4
  <1>16. s \in S
    BY <1>1, <1>14
  <1> HIDE DEF s
  <1>17. \A i \in 1 .. N : s.left[i] \in Tx \cup {NoTx}
    BY <1>1, <1>5, <1>15, <1>16
  <1>18. ASSUME NEW i \in 1 .. N, NEW e \in Seq(Tx) PROVE Pick(i, e) \in Seq(Tx)
    <2>1. in(i) => s.left[i] \in Tx
      BY <1>17 DEF in
    <2>2. in(i) => Append(e, s.left[i]) \in Seq(Tx)
      BY <2>1, AppendProperties
    <2> QED
      BY <2>2 DEF Pick
  <1>19. pt \in [Nat \X Seq(Tx) -> Seq(Tx)] /\ \A i \in 1 .. N, e \in Seq(Tx) : pt[<<i, e>>] = Pick(i, e)
    BY <1>1, <1>18 DEF pt
  <1>20. PICK p \in [0 .. N -> Seq(Tx)] : Unfolds(p, N, <<>>, pt)
    <2>1. <<>> \in Seq(Tx)
      OBVIOUS
    <2> QED
      BY <2>1, <1>1, <1>19, RecursionExists
  <1>21. \A f : Choice(f)[0] = <<>> /\ \A i \in 1 .. N : Choice(f)[i] = Pick(i, f[i - 1])
    BY <1>1 DEF Choice
  <1>22. \A f : Choice(f) = [i \in 0 .. N |-> Choice(f)[i]]
    BY Zenon DEF Choice
  <1>23. p = Choice(p)
    <2>1. \A i \in 1 .. N : p[i - 1] \in Seq(Tx)
      BY <1>1
    <2>2. \A i \in 1 .. N : Choice(p)[i] = pt[<<i, p[i - 1]>>]
      BY <2>1, <1>19, <1>21
    <2>3. \A i \in 0 .. N : i = 0 \/ i \in 1 .. N
      BY <1>1
    <2>4. \A i \in 0 .. N : p[i] = Choice(p)[i]
      BY <2>2, <2>3, <1>20, <1>21 DEF Unfolds
    <2>5. p = [i \in 0 .. N |-> p[i]]
      OBVIOUS
    <2> QED
      BY <2>4, <2>5, <1>22, Zenon
  <1>24. picked = Choice(picked)
    BY <1>23
  <1> HIDE DEF picked
  <1>25. picked[N] \in Seq(Tx)
    <2>1. picked[0] = <<>>
          /\ \A i \in 1 .. N : picked[i - 1] \in Seq(Tx) => picked[i] = pt[<<i, picked[i - 1]>>]
      BY <1>19, <1>21, <1>24
    <2>2. <<>> \in Seq(Tx)
      OBVIOUS
    <2> HIDE DEF N
    <2>3. \A i \in 0 .. N : picked[i] \in Seq(Tx)
      BY <2>1, <2>2, <1>1, <1>19, RecursionIn, ZenonT(30)
    <2> QED
      BY <2>3, <1>1
  <1> QED
    BY <1>5, <1>6, <1>16, <1>25 DEF result

-----------------------------------------------------------------------------
(***************************************************************************)
(* The steps.                                                              *)
(***************************************************************************)
(* A step that takes transactions from the pool or puts back what a block  *)
(* had taken.                                                              *)
LEMMA ShrinkStep ==
    ASSUME PoolInv, Shrinks(pool, pool', RacedImages, NoZone), Apart(pool', chain', RacedImages),
           UNCHANGED <<checkpoint, incoming, raced>>
    PROVE  /\ Sound(pool', RacedImages', NoZone') /\ Apart(pool', chain', RacedImages') /\ InHand'
           /\ Pool(pool')
  <1>1. RacedImages' = RacedImages /\ NoZone' = NoZone
    BY DEF RacedImages, NoZone
  <1>2. Sound(pool', RacedImages, NoZone) /\ Pool(pool') /\ Pool(pool)
        /\ Counted(pool') \subseteq Counted(pool)
        /\ \A k \in KeyImage : pool'.images[k] <= pool.images[k]
    BY DEF Shrinks, Sound, PoolInv
  <1>3. \A k \in KeyImage : pool'.images[k] \in Nat /\ pool.images[k] \in Nat
    BY <1>2, PoolFacts
  <1>4. InHand'
    <2> SUFFICES ASSUME incoming # Nothing
                 PROVE  /\ incoming.tx \notin Counted(pool')
                        /\ incoming.stage # "looked" /\ ~incoming.kept /\ NoZone
                               => \A k \in Images[incoming.tx] : pool'.images[k] = 0
      BY <1>1 DEF InHand
    <2>1. /\ incoming.tx \notin Counted(pool)
          /\ incoming.stage # "looked" /\ ~incoming.kept /\ NoZone
                 => \A k \in Images[incoming.tx] : pool.images[k] = 0
      BY DEF PoolInv, InHand
    <2>2. incoming.tx \in Tx
      BY DEF PoolInv, Types, Handled
    <2>3. Images[incoming.tx] \subseteq KeyImage
      BY <2>2, TxFacts
    <2> QED
      BY <2>1, <2>3, <1>2, <1>3
  <1> QED
    BY <1>1, <1>2, <1>4

(* A list of transactions of a block of the network.                       *)
LEMMA ListFacts ==
    ASSUME NEW txs \in TxLists
    PROVE  txs \in Seq(Tx)
  <1>1. PICK n \in 0 .. MaxForeign : txs \in Injection(1 .. n, Tx)
    BY DEF TxLists
  <1>2. n \in Nat /\ txs \in [1 .. n -> Tx]
    BY <1>1 DEF Injection
  <1> QED
    BY <1>2

(* A block on the top of the chain.                                        *)
LEMMA NewBlockStep ==
    ASSUME PoolInv, NEW b, b.id \in Nat, b.txs \in Seq(Tx), add_new_block(b),
           UNCHANGED <<checkpoint, incoming, raced>>
    PROVE  /\ Shrinks(pool, pool', RacedImages, NoZone) /\ Apart(pool', chain', RacedImages)
           /\ chain' \in Chain /\ zone' \in BOOLEAN /\ (NoZone => ~zone') /\ made' \in Nat
  <1> DEFINE X == RacedImages
             e == NoZone
             r == handle_block_to_main_chain(pool, chain, b)
             f == on_finalize_db_transaction(r.d)
  <1>1. /\ Sound(pool, X, e) /\ Apart(pool, chain, X) /\ chain \in Chain /\ made \in Nat
        /\ checkpoint \in Nat /\ Pool(pool)
    BY DEF PoolInv, Types
  <1>2. pool' = f /\ chain' = r.ch /\ zone' = r.z /\ made' = made + 1
    BY DEF add_new_block
  <1>3. Handling(pool, X, e, chain, r)
    BY <1>1, HandleFacts
  <1> HIDE DEF r
  <1>4. /\ Shrinks(pool, r.d, X, e) /\ r.ch \in Chain /\ Apart(r.d, r.ch, X)
        /\ r.z \in BOOLEAN /\ (NoZone => ~r.z) /\ Sound(r.d, X, e) /\ Pool(r.d)
    BY <1>3 DEF Handling, Shrinks, Sound
  <1>5. Shrinks(r.d, f, X, e)
    BY <1>4, FinalizedFacts
  <1> HIDE DEF f
  <1>6. Shrinks(pool, f, X, e) /\ Apart(f, r.ch, X)
    BY <1>1, <1>4, <1>5, ShrinksTwice, ApartKept
  <1> QED
    BY <1>1, <1>2, <1>4, <1>6

(* The chain without its top.                                              *)
LEMMA BaseFacts ==
    ASSUME NEW ch \in Chain, Len(ch) > 1
    PROVE  LET base == SubSeq(ch, 1, Len(ch) - 1) IN
           base \in Chain /\ TxsOf(base) \subseteq TxsOf(ch)
  <1> DEFINE n == Len(ch)
             base == SubSeq(ch, 1, n - 1)
  <1>1. n \in Nat /\ n > 1 /\ DOMAIN ch = 1 .. n /\ \A i \in 1 .. n : ch[i] \in Blocked
    BY ChainFacts
  <1>2. 1 \in Int /\ n - 1 \in Int /\ \A i \in 1 .. n - 1 : ch[i] \in Blocked
    BY <1>1
  <1>3. /\ base \in Seq(Blocked) /\ Len(base) = IF 1 <= n - 1 THEN n - 1 - 1 + 1 ELSE 0
        /\ \A i \in 1 .. n - 1 - 1 + 1 : base[i] = ch[1 + i - 1]
    BY <1>2, SubSeqProperties
  <1> HIDE DEF n, base
  <1>4. Len(base) = n - 1 /\ \A i \in 1 .. n - 1 : base[i] = ch[i]
    BY <1>1, <1>3
  <1>5. base \in Chain /\ DOMAIN base = 1 .. n - 1
    BY <1>1, <1>3, <1>4 DEF Chain
  <1>6. TxsOf(base) \subseteq TxsOf(ch)
    BY <1>1, <1>4, <1>5 DEF TxsOf
  <1> QED
    BY <1>5, <1>6 DEF n, base

(* A switch, done or rolled back.                                          *)
LEMMA SwitchStep ==
    ASSUME PoolInv, NEW txs1 \in TxLists, NEW txs2 \in TxLists, Switch(txs1, txs2)
    PROVE  /\ Shrinks(pool, pool', RacedImages, NoZone) /\ Apart(pool', chain', RacedImages)
           /\ chain' \in Chain /\ zone' \in BOOLEAN /\ (NoZone => ~zone') /\ made' \in Nat
  <1> DEFINE X == RacedImages
             e == NoZone
             b1 == Block(made + 1, txs1)
             b2 == Block(made + 2, txs2)
             base   == SubSeq(chain, 1, Len(chain) - 1)
             popped == PopBlock(pool, chain, zone)
             first  == handle_block_to_main_chain(popped, base, b1)
             second == handle_block_to_main_chain(first.d, first.ch, b2)
             f      == on_finalize_db_transaction(second.d)
             back   == Rollback(second.d, first.ch, second.z)
  <1>1. /\ Sound(pool, X, e) /\ Apart(pool, chain, X) /\ chain \in Chain /\ made \in Nat
        /\ checkpoint \in Nat /\ Pool(pool)
    BY DEF PoolInv, Types
  <1>2. /\ Len(chain) > 1 /\ made' = made + 2
        /\ \/ pool' = f /\ chain' = second.ch /\ zone' = second.z
           \/ pool' = back /\ chain' = chain /\ zone' = second.z
           \/ pool' = first.d /\ chain' = chain /\ zone' = first.z
    BY Zenon DEF Switch
  <1>3. base \in Chain /\ TxsOf(base) \subseteq TxsOf(chain)
    BY <1>1, <1>2, BaseFacts
  <1>4. b1.id \in Nat /\ b1.txs \in Seq(Tx) /\ b2.id \in Nat /\ b2.txs \in Seq(Tx)
    BY <1>1, ListFacts DEF Block
  <1>5. Shrinks(pool, popped, X, e)
    BY <1>1, PurgeTopFacts DEF PopBlock
  <1> HIDE DEF base, popped, b1, b2
  <1>6. Apart(popped, base, X) /\ Sound(popped, X, e) /\ Pool(popped)
    BY <1>1, <1>3, <1>5, ApartKept DEF Shrinks, Sound
  <1>7. Handling(popped, X, e, base, first)
    BY <1>3, <1>4, <1>6, HandleFacts
  <1> HIDE DEF first
  <1>8. /\ Shrinks(popped, first.d, X, e) /\ first.ch \in Chain /\ Apart(first.d, first.ch, X)
        /\ first.z \in BOOLEAN /\ (NoZone => ~first.z) /\ Sound(first.d, X, e) /\ Pool(first.d)
    BY <1>7 DEF Handling, Shrinks, Sound
  <1>9. Handling(first.d, X, e, first.ch, second)
    BY <1>4, <1>8, HandleFacts
  <1> HIDE DEF second
  <1>10. /\ Shrinks(first.d, second.d, X, e) /\ second.ch \in Chain /\ Apart(second.d, second.ch, X)
         /\ second.z \in BOOLEAN /\ (NoZone => ~second.z) /\ Sound(second.d, X, e) /\ Pool(second.d)
    BY <1>9 DEF Handling, Shrinks, Sound
  <1>11. Shrinks(second.d, f, X, e)
    BY <1>10, FinalizedFacts
  <1>12. Shrinks(second.d, back, X, e)
    <2>1. Apart(second.d, first.ch, X)
      BY <1>8, <1>10, ApartKept
    <2> QED
      BY <2>1, <1>8, <1>10, RollbackFacts
  <1> HIDE DEF f, back
  <1>13. Shrinks(pool, first.d, X, e)
    BY <1>1, <1>5, <1>8, ShrinksTwice
  <1>14. Shrinks(pool, second.d, X, e)
    BY <1>1, <1>10, <1>13, ShrinksTwice
  <1>15. Shrinks(pool, f, X, e) /\ Shrinks(pool, back, X, e)
    BY <1>1, <1>11, <1>12, <1>14, ShrinksTwice
  <1>16. Apart(f, second.ch, X)
    BY <1>10, <1>11, ApartKept
  <1>17. Apart(back, chain, X) /\ Apart(first.d, chain, X)
    BY <1>1, <1>13, <1>15, ApartKept
  <1> QED
    BY <1>1, <1>2, <1>8, <1>10, <1>13, <1>15, <1>16, <1>17

(* A transaction that add_tx lets in.                                      *)
LEMMA InsertStep ==
    ASSUME PoolInv, Insert
    PROVE  /\ Sound(pool', RacedImages', NoZone') /\ Apart(pool', chain', RacedImages')
  <1> DEFINE X == RacedImages
             t == incoming.tx
             kept == incoming.kept
             e == do_insert_transaction(pool, t, kept, incoming.used)
             Y == RacedImages'
  <1>1. /\ Sound(pool, X, NoZone) /\ Apart(pool, chain, X) /\ Pool(pool) /\ raced \in SUBSET Tx
        /\ incoming \in Handled
    <2>1. incoming # Nothing
      BY DEF Insert, Nothing
    <2> QED
      BY <2>1 DEF PoolInv, Types
  <1>2. t \in Tx /\ kept \in BOOLEAN /\ incoming.used \in Used /\ t \notin Counted(pool)
        /\ (~kept /\ NoZone => \A k \in Images[t] : pool.images[k] = 0)
    <2>1. incoming # Nothing /\ incoming.stage # "looked"
      BY DEF Insert, Nothing
    <2> QED
      BY <1>1, <2>1 DEF PoolInv, InHand, Handled
  <1>3. /\ pool' = e /\ chain' = chain /\ NoZone' = NoZone
        /\ raced' = raced \cup {u \in {t} : ~kept /\ u \in TxsOf(chain)}
    BY DEF Insert, NoZone
  <1>4. Inserted(pool, e, t, kept)
    BY <1>1, <1>2, InsertedFacts
  <1> HIDE DEF e
  <1>5. /\ Pool(e) /\ DOMAIN e.txs = DOMAIN pool.txs \cup {t} /\ e.txs[t].kept = kept
        /\ \A u \in DOMAIN pool.txs \ {t} : e.txs[u] = pool.txs[u]
        /\ \A k \in KeyImage : /\ pool.images[k] \in Nat
                               /\ e.images[k] = IF k \in Images[t] /\ ~kept
                                                THEN pool.images[k] + 1 ELSE pool.images[k]
    BY <1>4 DEF Inserted
  <1>6. X \subseteq Y /\ (~kept /\ t \in TxsOf(chain) => Images[t] \subseteq Y)
    BY <1>3 DEF RacedImages
  <1> HIDE DEF X, t, kept
  <1>7. ASSUME NEW k \in KeyImage \ Y PROVE Exact(e, k, NoZone)
    <2>1. Exact(pool, k, NoZone) /\ IsFiniteSet(Spending(pool, k)) /\ Cardinality(Spending(pool, k)) \in Nat
      BY <1>1, <1>6, SpendingFacts DEF Sound
    <2>2. t \notin Spending(pool, k)
      BY <1>2, SpendingFacts, <1>1
    <2>3. CASE k \in Images[t] /\ ~kept
      <3>1. Spending(e, k) = Spending(pool, k) \cup {t}
        BY <2>3, <1>5 DEF Spending
      <3>2. Cardinality(Spending(e, k)) = Cardinality(Spending(pool, k)) + 1
        BY <2>1, <2>2, <3>1, FS_AddElement
      <3>3. e.images[k] = pool.images[k] + 1 /\ pool.images[k] \in Nat /\ (NoZone => pool.images[k] = 0)
        BY <1>2, <1>5, <2>3
      <3> QED
        BY <2>1, <3>2, <3>3 DEF Exact
    <2>4. CASE ~(k \in Images[t] /\ ~kept)
      <3>1. Spending(e, k) = Spending(pool, k)
        BY <2>2, <2>4, <1>5 DEF Spending
      <3>2. e.images[k] = pool.images[k]
        BY <2>4, <1>5
      <3> QED
        BY <2>1, <3>1, <3>2 DEF Exact
    <2> QED
      BY <2>3, <2>4
  <1>8. Sound(e, Y, NoZone)
    BY <1>5, <1>7 DEF Sound
  <1>9. Apart(e, chain, Y)
    <2> SUFFICES ASSUME NEW u \in TxsOf(chain) \cap Counted(e) PROVE Images[u] \subseteq Y
      BY DEF Apart
    <2>1. CASE u = t
      <3>1. ~kept
        BY <1>5, <2>1 DEF Counted
      <3> QED
        BY <1>6, <2>1, <3>1
    <2>2. CASE u # t
      <3>1. u \in Counted(pool)
        BY <1>5, <2>2 DEF Counted
      <3> QED
        BY <1>1, <1>6, <3>1 DEF Apart
    <2> QED
      BY <2>1, <2>2
  <1> QED
    BY <1>3, <1>8, <1>9

(* The invariant, when the pool and the chain stay: only what is in hand   *)
(* changes.                                                                *)
LEMMA HandStep ==
    ASSUME PoolInv, UNCHANGED <<checkpoint, pool, chain, zone, template, made, raced>>,
           events' \in Nat, incoming' \in {Nothing} \cup Handled, InHand'
    PROVE  PoolInv'
  <1>1. RacedImages' = RacedImages /\ NoZone' = NoZone
    BY DEF RacedImages, NoZone
  <1>2. Types'
    BY DEF PoolInv, Types
  <1> QED
    BY <1>1, <1>2 DEF PoolInv

(* add_new_tx: a transaction that is looked up is not in the pool.         *)
LEMMA LookUpStep ==
    ASSUME PoolInv, NEW t \in Tx, NEW kept \in BOOLEAN, LookUp(t, kept)
    PROVE  PoolInv'
  <1> DEFINE x == [stage |-> "looked", tx |-> t, kept |-> kept, used |-> NoneUsed]
  <1>1. incoming' = x /\ x.stage = "looked" /\ x.tx = t
    BY DEF LookUp
  <1>2. x \in Handled
    <2>1. NoneUsed \in Used
      BY DEF NoneUsed, Used, NoBlock
    <2> QED
      BY <2>1 DEF Handled
  <1> HIDE DEF x
  <1>3. t \notin Counted(pool)
    BY DEF LookUp, have_tx, Counted
  <1>4. InHand'
    <2>1. Counted(pool') = Counted(pool)
      BY DEF LookUp
    <2> QED
      BY <1>1, <1>3, <2>1 DEF InHand
  <1>5. events' \in Nat
    BY DEF PoolInv, Types, LookUp
  <1> QED
    BY <1>1, <1>2, <1>4, <1>5, HandStep DEF LookUp

(* add_tx: the images of a transaction that is let in are free.            *)
LEMMA AdmitStep ==
    ASSUME PoolInv, Admit
    PROVE  PoolInv'
  <1> DEFINE t == incoming.tx
             m == process_cancel_offer_rules(pool, t, ~incoming.kept)
             x == [incoming EXCEPT !.stage = "admitted"]
  <1>1. /\ Sound(pool, RacedImages, NoZone) /\ Pool(pool) /\ incoming \in Handled
        /\ Apart(pool, chain, RacedImages)
    <2>1. incoming # Nothing
      BY DEF Admit, Nothing
    <2> QED
      BY <2>1 DEF PoolInv, Types
  <1>2. UNCHANGED <<checkpoint, chain, zone, template, made, events, raced>>
    BY DEF Admit
  <1>3. CASE incoming' = Nothing /\ pool' = pool
    <2>1. InHand'
      BY <1>3 DEF InHand
    <2> QED
      BY <1>2, <1>3, <2>1, HandStep DEF PoolInv, Types
  <1>4. CASE /\ Admissible(t, incoming.kept) /\ pool' = m
             /\ incoming' = x \/ incoming' = Nothing
    <2>1. t \in Tx /\ Pool(m) /\ m.txs = pool.txs /\ m.images = pool.images
      <3>1. t \in Tx
        BY <1>1 DEF Handled
      <3> QED
        BY <3>1, <1>1, MarkedFacts
    <2> HIDE DEF m
    <2>2. RacedImages' = RacedImages /\ NoZone' = NoZone
      BY <1>2 DEF RacedImages, NoZone
    <2>3. Sound(m, RacedImages, NoZone) /\ Counted(m) = Counted(pool)
      BY <1>1, <2>1, SameSound DEF Shrinks
    <2>4. Apart(m, chain, RacedImages)
      BY <1>1, <2>3 DEF Apart
    <2>5. x \in Handled /\ x.tx = t /\ x.kept = incoming.kept
      BY <1>1 DEF Handled
    <2>6. t \notin Counted(pool)
      BY DEF PoolInv, InHand, Admit, Nothing
    <2>7. ASSUME ~incoming.kept, NoZone PROVE \A k \in Images[t] : pool.images[k] = 0
      <3>1. ~zone
        BY <2>7 DEF PoolInv
      <3>2. ~have_tx_keyimges_as_spent(pool, t)
        BY <1>4, <2>7, <3>1 DEF Admissible
      <3>3. \A k \in Images[t] : pool.images[k] \in Nat
        BY <1>1, <2>1, PoolFacts, TxFacts
      <3> QED
        BY <3>2, <3>3 DEF have_tx_keyimges_as_spent
    <2> HIDE DEF x, t
    <2>8. InHand'
      <3>1. CASE incoming' = Nothing
        BY <3>1 DEF InHand
      <3>2. CASE incoming' = x
        BY <3>2, <1>4, <2>1, <2>2, <2>3, <2>5, <2>6, <2>7 DEF InHand
      <3> QED
        BY <1>4, <3>1, <3>2
    <2>9. Types'
      BY <1>1, <1>2, <1>4, <2>1, <2>5 DEF PoolInv, Types
    <2> QED
      BY <1>2, <1>4, <2>2, <2>3, <2>4, <2>8, <2>9 DEF PoolInv
  <1> QED
    BY <1>3, <1>4, Zenon DEF Admit

(* add_tx, without the locks: its inputs are checked.                      *)
LEMMA CheckStep ==
    ASSUME PoolInv, CheckInputs
    PROVE  PoolInv'
  <1> DEFINE ok == check_tx_inputs(incoming.tx, chain, zone)
             used == IF ok THEN MaxUsed(incoming.tx, chain) ELSE NoneUsed
             x == [incoming EXCEPT !.stage = "checked", !.used = used]
  <1>1. incoming \in Handled /\ chain \in Chain /\ incoming # Nothing /\ incoming.stage = "admitted"
    BY DEF PoolInv, Types, CheckInputs, Nothing
  <1>2. used \in Used
    <2>1. incoming.tx \in Tx
      BY <1>1 DEF Handled
    <2> QED
      BY <1>1, <2>1, UsedTyped
  <1>3. incoming' = x \/ incoming' = Nothing
    BY Zenon DEF CheckInputs
  <1> HIDE DEF used
  <1>4. x \in Handled /\ x.tx = incoming.tx /\ x.kept = incoming.kept
    BY <1>1, <1>2 DEF Handled
  <1> HIDE DEF x
  <1>5. UNCHANGED <<checkpoint, pool, chain, zone, template, made, events, raced>>
    BY DEF CheckInputs
  <1>6. InHand'
    <2>1. /\ incoming.tx \notin Counted(pool)
          /\ ~incoming.kept /\ NoZone => \A k \in Images[incoming.tx] : pool.images[k] = 0
      BY <1>1 DEF PoolInv, InHand
    <2>2. Counted(pool') = Counted(pool) /\ NoZone' = NoZone
      BY <1>5 DEF NoZone
    <2>3. CASE incoming' = Nothing
      BY <2>3 DEF InHand
    <2>4. CASE incoming' = x
      BY <1>4, <1>5, <2>1, <2>2, <2>4 DEF InHand
    <2> QED
      BY <1>3, <2>3, <2>4
  <1>7. events' \in Nat
    BY <1>5 DEF PoolInv, Types
  <1> QED
    BY <1>3, <1>4, <1>5, <1>6, <1>7, HandStep

(* The invariant after a step that takes or puts back transactions.        *)
LEMMA ShrinkInv ==
    ASSUME PoolInv, Shrinks(pool, pool', RacedImages, NoZone), Apart(pool', chain', RacedImages),
           UNCHANGED <<checkpoint, incoming, raced>>,
           chain' \in Chain, zone' \in BOOLEAN, NoZone => ~zone', made' \in Nat, events' \in Nat,
           template' \in [prev : Nat \cup {NoBlock}, txs : Seq(Tx), fee : Nat]
    PROVE  PoolInv'
  <1>1. /\ Sound(pool', RacedImages', NoZone') /\ Apart(pool', chain', RacedImages') /\ InHand'
        /\ Pool(pool')
    BY ShrinkStep
  <1>2. NoZone' = NoZone
    BY DEF NoZone
  <1>3. Types'
    BY <1>1 DEF PoolInv, Types
  <1> QED
    BY <1>1, <1>2, <1>3 DEF PoolInv

(* remove_stuck_transactions.                                              *)
LEMMA RemoveStuckStep ==
    ASSUME PoolInv, RemoveStuck
    PROVE  PoolInv'
  <1> DEFINE X == RacedImages
             e == NoZone
  <1>1. PICK related \in SUBSET DOMAIN pool.txs, outdated \in SUBSET DOMAIN pool.txs :
            remove_stuck_transactions(related, outdated)
    BY DEF RemoveStuck
  <1> DEFINE expired == {t \in DOMAIN pool.txs : is_tx_expired(t, chain)} \ related
             once == RemoveEach(pool, outdated)
             twice == RemoveEach(once, expired)
  <1>2. pool' = twice /\ events' = events + 1
        /\ UNCHANGED <<checkpoint, chain, zone, incoming, template, made, raced>>
    BY <1>1 DEF remove_stuck_transactions
  <1>3. Sound(pool, X, e) /\ Pool(pool)
    BY DEF PoolInv, Types
  <1>4. pool \in Trimmed(X, e)
    <2>1. Shrinks(pool, pool, X, e) /\ pool \in Contents
      BY <1>3, BelowFacts DEF Below
    <2> QED
      BY <2>1 DEF Trimmed
  <1>5. once \in Trimmed(X, e)
    BY <1>3, <1>4, RemoveEachFacts
  <1> HIDE DEF once
  <1>6. twice \in Trimmed(X, e)
    <2>1. expired \in SUBSET DOMAIN pool.txs
      OBVIOUS
    <2> HIDE DEF expired
    <2> QED
      BY <2>1, <1>3, <1>5, RemoveEachFacts
  <1> HIDE DEF twice
  <1>7. Shrinks(pool, pool', X, e)
    BY <1>2, <1>6 DEF Trimmed
  <1>8. Apart(pool', chain', X)
    <2>1. Apart(pool, chain, X)
      BY DEF PoolInv
    <2> QED
      BY <2>1, <1>2, <1>7, ApartKept
  <1> QED
    BY <1>2, <1>7, <1>8, ShrinkInv DEF PoolInv, Types

(* purge_transactions.                                                     *)
LEMMA PurgeStep ==
    ASSUME PoolInv, purge_transactions
    PROVE  PoolInv'
  <1> DEFINE none == [k \in KeyImage |-> 0]
             d == [pool EXCEPT !.txs = <<>>, !.images = none, !.offers = {}]
  <1>1. /\ pool' = d /\ events' = events + 1
        /\ UNCHANGED <<checkpoint, chain, zone, incoming, template, made, raced>>
    BY DEF purge_transactions
  <1>2. Pool(pool)
    BY DEF PoolInv, Types
  <1>3. <<>> \in Maps(Tx, Details) /\ DOMAIN <<>> = {}
    BY EmptyMap
  <1>4. none \in [KeyImage -> Nat] /\ \A k \in KeyImage : none[k] = 0
    OBVIOUS
  <1> HIDE DEF none
  <1>5. d \in Contents /\ d.txs = <<>> /\ d.images = none
    BY <1>2, <1>3, <1>4 DEF Pool, Contents
  <1> HIDE DEF d
  <1>6. Pool(d) /\ Counted(d) = {} /\ \A k : Spending(d, k) = {}
    BY <1>3, <1>5, FS_EmptySet DEF Pool, Counted, Spending
  <1>7. \A k \in KeyImage : Exact(d, k, NoZone)
    <2>1. Cardinality({}) = 0
      BY FS_EmptySet
    <2>2. \A k \in KeyImage : Spending(d, k) = {} /\ d.images[k] = 0
      BY <1>4, <1>5, <1>6
    <2>3. \A k \in KeyImage : Cardinality(Spending(d, k)) = 0
      BY <2>1, <2>2, Zenon
    <2> QED
      BY <2>2, <2>3 DEF Exact
  <1>8. \A k \in KeyImage : d.images[k] <= pool.images[k]
    BY <1>2, <1>4, <1>5, PoolFacts
  <1>9. Shrinks(pool, pool', RacedImages, NoZone)
    BY <1>1, <1>6, <1>7, <1>8 DEF Shrinks, Sound
  <1>10. Apart(pool', chain', RacedImages)
    BY <1>1, <1>6 DEF Apart
  <1> QED
    BY <1>1, <1>9, <1>10, ShrinkInv DEF PoolInv, Types

(* create_block_template: what was seen of the transactions is noted.      *)
LEMMA TemplateStep ==
    ASSUME PoolInv, create_block_template
    PROVE  PoolInv'
  <1>1. PICK order \in DearestFirst(DOMAIN pool.txs) :
            LET f == fill_block_template(pool, chain, zone, order) IN
            /\ pool' = [pool EXCEPT !.txs = f.txs]
            /\ template' = IF f.size <= MaxBlockSize
                           THEN [prev |-> TopId(chain), txs |-> f.picked, fee |-> f.fee]
                           ELSE NoTemplate
    BY DEF create_block_template
  <1> DEFINE f == fill_block_template(pool, chain, zone, order)
             d == [pool EXCEPT !.txs = f.txs]
  <1>2. /\ pool' = d
        /\ \/ template' = [prev |-> TopId(chain), txs |-> f.picked, fee |-> f.fee]
           \/ template' = NoTemplate
        /\ UNCHANGED <<checkpoint, chain, zone, incoming, made, events, raced>>
    BY <1>1 DEF create_block_template
  <1>3. Pool(pool) /\ chain \in Chain /\ Sound(pool, RacedImages, NoZone)
        /\ Apart(pool, chain, RacedImages)
    BY DEF PoolInv, Types
  <1>4. order \in Seq(DOMAIN pool.txs)
    <2>1. IsFiniteSet(DOMAIN pool.txs)
      BY <1>3, PoolFacts
    <2>2. Cardinality(DOMAIN pool.txs) \in Nat
      BY <2>1, FS_CardinalityType
    <2>3. order \in [1 .. Cardinality(DOMAIN pool.txs) -> DOMAIN pool.txs]
      BY DEF DearestFirst, SetToSeqs
    <2> QED
      BY <2>2, <2>3
  <1>5. /\ f.txs \in Maps(Tx, Details) /\ DOMAIN f.txs = DOMAIN pool.txs
        /\ \A t \in DOMAIN pool.txs : f.txs[t].kept = pool.txs[t].kept
        /\ f.picked \in Seq(Tx) /\ f.fee \in Nat
    BY <1>3, <1>4, FilledFacts
  <1> HIDE DEF f
  <1>6. Pool(d) /\ d.txs = f.txs /\ d.images = pool.images
    BY <1>3, <1>5 DEF Pool, Contents
  <1> HIDE DEF d
  <1>7. Sound(d, RacedImages, NoZone) /\ Counted(d) = Counted(pool)
    BY <1>3, <1>5, <1>6, SameTxs
  <1>8. \A k \in KeyImage : d.images[k] <= pool.images[k]
    BY <1>3, <1>6, PoolFacts
  <1>9. Shrinks(pool, pool', RacedImages, NoZone)
    BY <1>2, <1>7, <1>8 DEF Shrinks
  <1>10. Apart(pool', chain', RacedImages)
    BY <1>2, <1>3, <1>9, ApartKept
  <1>11. template' \in [prev : Nat \cup {NoBlock}, txs : Seq(Tx), fee : Nat]
    <2>1. TopId(chain) \in Nat
      BY <1>3, ChainFacts DEF TopId
    <2>2. NoTemplate \in [prev : Nat \cup {NoBlock}, txs : Seq(Tx), fee : Nat]
      BY DEF NoTemplate
    <2> QED
      BY <2>1, <2>2, <1>2, <1>5
  <1> QED
    BY <1>2, <1>9, <1>10, <1>11, ShrinkInv DEF PoolInv, Types

(* handle_block_found.                                                     *)
LEMMA FoundStep ==
    ASSUME PoolInv, handle_block_found
    PROVE  PoolInv'
  <1> DEFINE b == [id |-> made + 1, txs |-> template.txs, fee |-> template.fee]
  <1>1. /\ template' = NoTemplate /\ UNCHANGED <<checkpoint, incoming, events, raced>>
        /\ \/ add_new_block(b)
           \/ made' = made + 1 /\ UNCHANGED <<pool, chain, zone>>
    BY DEF handle_block_found
  <1>2. NoTemplate \in [prev : Nat \cup {NoBlock}, txs : Seq(Tx), fee : Nat]
    BY DEF NoTemplate
  <1>3. CASE add_new_block(b)
    <2>1. b.id \in Nat /\ b.txs \in Seq(Tx)
      BY DEF PoolInv, Types
    <2> HIDE DEF b
    <2>2. /\ Shrinks(pool, pool', RacedImages, NoZone) /\ Apart(pool', chain', RacedImages)
          /\ chain' \in Chain /\ zone' \in BOOLEAN /\ (NoZone => ~zone') /\ made' \in Nat
      BY <1>1, <1>3, <2>1, NewBlockStep
    <2>3. events' \in Nat
      BY <1>1 DEF PoolInv, Types
    <2> QED
      BY <1>1, <1>2, <2>2, <2>3, ShrinkInv
  <1>4. CASE made' = made + 1 /\ UNCHANGED <<pool, chain, zone>>
    <2>1. RacedImages' = RacedImages /\ NoZone' = NoZone
      BY <1>1 DEF RacedImages, NoZone
    <2>2. InHand'
      <3>1. Counted(pool') = Counted(pool)
        BY <1>4
      <3> QED
        BY <1>1, <1>4, <2>1, <3>1 DEF PoolInv, InHand
    <2>3. Types'
      BY <1>1, <1>2, <1>4 DEF PoolInv, Types
    <2> QED
      BY <1>4, <2>1, <2>2, <2>3 DEF PoolInv
  <1> QED
    BY <1>1, <1>3, <1>4

(* Every step keeps the invariant.                                         *)
LEMMA InvStep ==
    ASSUME PoolInv, [Next]_vars
    PROVE  PoolInv'
  <1>1. ASSUME NEW t \in Tx, NEW kept \in BOOLEAN, LookUp(t, kept) PROVE PoolInv'
    BY <1>1, LookUpStep
  <1>2. CASE Admit
    BY <1>2, AdmitStep
  <1>3. CASE CheckInputs
    BY <1>3, CheckStep
  <1>4. CASE Insert
    <2>1. Sound(pool', RacedImages', NoZone') /\ Apart(pool', chain', RacedImages')
      BY <1>4, InsertStep
    <2>2. incoming' = Nothing /\ UNCHANGED <<checkpoint, chain, zone, template, made, events>>
          /\ raced' = raced \cup {t \in {incoming.tx} : ~incoming.kept /\ t \in TxsOf(chain)}
      BY <1>4 DEF Insert
    <2>3. InHand' /\ NoZone' = NoZone
      BY <2>2 DEF InHand, NoZone
    <2>4. raced' \in SUBSET Tx
      <3>1. TxsOf(chain) \subseteq Tx /\ raced \in SUBSET Tx
        BY ChainFacts DEF PoolInv, Types
      <3> QED
        BY <2>2, <3>1
    <2>5. Pool(pool')
      BY <2>1 DEF Sound
    <2>6. Types'
      BY <2>2, <2>4, <2>5 DEF PoolInv, Types
    <2> QED
      BY <2>1, <2>2, <2>3, <2>6 DEF PoolInv
  <1>5. ASSUME NEW txs \in TxLists, NetworkBlock(txs) PROVE PoolInv'
    <2>1. made + 1 \in Nat /\ txs \in Seq(Tx)
      BY ListFacts DEF PoolInv, Types
    <2>2. Block(made + 1, txs).id \in Nat /\ Block(made + 1, txs).txs \in Seq(Tx)
      BY <2>1 DEF Block
    <2>3. add_new_block(Block(made + 1, txs))
          /\ UNCHANGED <<checkpoint, incoming, template, events, raced>>
      BY <1>5 DEF NetworkBlock
    <2>4. /\ Shrinks(pool, pool', RacedImages, NoZone) /\ Apart(pool', chain', RacedImages)
          /\ chain' \in Chain /\ zone' \in BOOLEAN /\ (NoZone => ~zone') /\ made' \in Nat
      BY <2>2, <2>3, NewBlockStep
    <2> QED
      BY <2>3, <2>4, ShrinkInv DEF PoolInv, Types
  <1>6. ASSUME NEW txs1 \in TxLists, NEW txs2 \in TxLists, Switch(txs1, txs2) PROVE PoolInv'
    <2>1. /\ Shrinks(pool, pool', RacedImages, NoZone) /\ Apart(pool', chain', RacedImages)
          /\ chain' \in Chain /\ zone' \in BOOLEAN /\ (NoZone => ~zone') /\ made' \in Nat
      BY <1>6, SwitchStep
    <2>2. UNCHANGED <<checkpoint, incoming, template, events, raced>>
      BY <1>6 DEF Switch
    <2> QED
      BY <2>1, <2>2, ShrinkInv DEF PoolInv, Types
  <1>7. CASE create_block_template
    BY <1>7, TemplateStep
  <1>8. CASE handle_block_found
    BY <1>8, FoundStep
  <1>9. CASE RemoveStuck
    BY <1>9, RemoveStuckStep
  <1>10. CASE purge_transactions
    BY <1>10, PurgeStep
  <1>11. CASE UNCHANGED vars
    <2>1. UNCHANGED <<checkpoint, pool, chain, zone, incoming, template, made, events, raced>>
      BY <1>11 DEF vars
    <2>2. Counted(pool') = Counted(pool) /\ NoZone' = NoZone
      BY <2>1 DEF NoZone
    <2>3. InHand' /\ events' \in Nat /\ incoming' \in {Nothing} \cup Handled
      BY <2>1, <2>2 DEF PoolInv, InHand, Types
    <2> QED
      BY <2>1, <2>3, HandStep
  <1> QED
    BY <1>1, <1>2, <1>3, <1>4, <1>5, <1>6, <1>7, <1>8, <1>9, <1>10, <1>11
    DEF Next, Incoming, Blocks, Miner

(* The invariant holds in the beginning: the pool is empty.                *)
LEMMA InvInit ==
    ASSUME Init
    PROVE  PoolInv
  <1> DEFINE none == [k \in KeyImage |-> 0]
             genesis == [id |-> 0, txs |-> <<>>]
  <1>1. <<>> \in Maps(Tx, Details) /\ DOMAIN <<>> = {}
    BY EmptyMap
  <1>2. none \in [KeyImage -> Nat] /\ \A k \in KeyImage : none[k] = 0
    OBVIOUS
  <1> HIDE DEF none
  <1>3. pool = [txs |-> <<>>, images |-> none, offers |-> {}, aliases |-> {}, black |-> {},
                taken |-> {}]
    BY DEF Init, none
  <1>4. pool \in Contents /\ pool.txs = <<>> /\ pool.images = none
    BY <1>1, <1>2, <1>3 DEF Contents
  <1>5. Pool(pool) /\ Counted(pool) = {} /\ \A k : Spending(pool, k) = {}
    BY <1>1, <1>4, FS_EmptySet DEF Pool, Counted, Spending
  <1>6. \A k \in KeyImage : Exact(pool, k, NoZone)
    <2>1. Cardinality({}) = 0
      BY FS_EmptySet
    <2>2. \A k \in KeyImage : Spending(pool, k) = {} /\ pool.images[k] = 0
      BY <1>2, <1>4, <1>5
    <2>3. \A k \in KeyImage : Cardinality(Spending(pool, k)) = 0
      BY <2>1, <2>2, Zenon
    <2> QED
      BY <2>2, <2>3 DEF Exact
  <1>7. Sound(pool, RacedImages, NoZone) /\ Apart(pool, chain, RacedImages)
    BY <1>5, <1>6 DEF Sound, Apart
  <1>8. chain \in Chain
    <2>1. genesis \in Blocked
      <3>1. <<>> \in Seq(Tx)
        OBVIOUS
      <3> QED
        BY <3>1 DEF Blocked
    <2>2. chain = <<genesis>>
      BY DEF Init
    <2> HIDE DEF genesis
    <2> QED
      BY <2>1, <2>2 DEF Chain
  <1>9. checkpoint \in Nat /\ zone \in BOOLEAN /\ (NoZone => ~zone)
    <2>1. checkpoint \in Nat /\ zone = (checkpoint > 0)
      BY TxAssumption DEF Init
    <2>2. zone \in BOOLEAN
      BY <2>1
    <2>3. zone <=> checkpoint > 0
      BY <2>1, Zenon
    <2> QED
      BY <2>1, <2>2, <2>3 DEF NoZone
  <1>10. template \in [prev : Nat \cup {NoBlock}, txs : Seq(Tx), fee : Nat]
    BY DEF Init, NoTemplate
  <1>11. incoming = Nothing /\ made = 0 /\ events = 0 /\ raced = {}
    BY DEF Init
  <1>12. InHand
    BY <1>11 DEF InHand
  <1>13. Types
    BY <1>5, <1>8, <1>9, <1>10, <1>11 DEF Types
  <1> QED
    BY <1>7, <1>9, <1>12, <1>13 DEF PoolInv

-----------------------------------------------------------------------------
(* In every state of every behaviour the counters of key images are right, *)
(* what is counted is not on the chain unless add_tx raced with a block,   *)
(* and a transaction that add_tx has admitted finds its images free.       *)
THEOREM Invariance == Spec => []PoolInv
  <1>1. Init => PoolInv
    BY InvInit
  <1>2. PoolInv /\ [Next]_vars => PoolInv'
    BY InvStep
  <1> QED
    BY <1>1, <1>2, PTL DEF Spec

(* The containers of the pool, the chain and the template are what the     *)
(* code takes them for.                                                    *)
THEOREM TypeCorrect == Spec => []TypeOK
  <1>1. PoolInv => TypeOK
    <2> SUFFICES ASSUME PoolInv PROVE TypeOK
      OBVIOUS
    <2>1. Types
      BY DEF PoolInv
    <2>2. /\ DOMAIN pool = {"txs", "images", "offers", "aliases", "black", "taken"}
          /\ DOMAIN pool.txs \subseteq Tx /\ \A t \in DOMAIN pool.txs : pool.txs[t] \in Details
          /\ pool.images \in [KeyImage -> Nat]
          /\ pool.offers \subseteq Offer /\ pool.aliases \subseteq Range(Alias) \ {NoTx}
          /\ pool.black \subseteq Tx /\ pool.taken \subseteq Tx
      <3>1. Pool(pool)
        BY <2>1 DEF Types
      <3>2. DOMAIN pool = {"txs", "images", "offers", "aliases", "black", "taken"}
        BY <3>1 DEF Pool, Contents
      <3> QED
        BY <3>1, <3>2, PoolFacts
    <2>3. chain \in Seq([id : Nat, txs : Seq(Tx)]) /\ chain # <<>>
      BY <2>1 DEF Types, Chain, Blocked
    <2>4. incoming.stage \in {"none", "looked", "admitted", "checked"}
      BY <2>1 DEF Types, Nothing, Handled
    <2>5. template.prev \in Nat \cup {NoBlock} /\ template.txs \in Seq(Tx) /\ template.fee \in Nat
      BY <2>1 DEF Types
    <2>6. zone \in BOOLEAN /\ made \in Nat /\ events \in Nat
      BY <2>1 DEF Types
    <2> QED
      BY <2>2, <2>3, <2>4, <2>5, <2>6 DEF TypeOK
  <1> QED
    BY <1>1, Invariance, PTL

(* m_db_key_images_set holds no image of a transaction that is gone, and   *)
(* outside the zone of checkpoints it holds every image that it has to,    *)
(* whatever blocks, switches, clean-ups and templates come between the     *)
(* steps of add_tx; the images of transactions that add_tx has let in      *)
(* after a block had taken them are left out.                              *)
THEOREM KeyImagesExact == Spec => []KeyImagesCounted
  <1>1. PoolInv => KeyImagesCounted
    <2> SUFFICES ASSUME PoolInv, NEW k \in KeyImage \ UNION {Images[t] : t \in raced}
                 PROVE  /\ pool.images[k] <= Cardinality(Spenders(k))
                        /\ checkpoint = 0 => pool.images[k] = Cardinality(Spenders(k))
      BY DEF KeyImagesCounted
    <2>1. Exact(pool, k, NoZone)
      BY DEF PoolInv, Sound, RacedImages
    <2>2. Spending(pool, k) = Spenders(k)
      BY DEF Spending, Spenders
    <2> QED
      BY <2>1, <2>2 DEF Exact, NoZone
  <1> QED
    BY <1>1, Invariance, PTL
=============================================================================
