---------------------------- MODULE MCBlockchain ----------------------------
(***************************************************************************)
(* A tree of blocks for Blockchain (weights in parentheses, ' marks PoS):  *)
(*                                                                         *)
(*   g(0) -- m1(2) -- m2'(4) -- c3(6)                                      *)
(*     |       |------ b2'(4)                                              *)
(*     |------ a1(1) -- a2(3) -- a3(5)                                     *)
(*                        |----- x3(7)                                     *)
(*                                                                         *)
(* t1 (in m1) and t2 (in a1) spend the same key image; t3 (in a2 and c3)   *)
(* refers to an output of t2, so that c3 breaks the rules where it is; x3  *)
(* claims a wrong reward, which only the main path notices; m2 and b2 have *)
(* the same weight and are ordered by their stake hashes.                  *)
(***************************************************************************)
EXTENDS Blockchain, TLC

g == "g"   m1 == "m1"   m2 == "m2"   b2 == "b2"   c3 == "c3"
a1 == "a1" a2 == "a2"   a3 == "a3"   x3 == "x3"

MCBlock == {g, m1, m2, b2, c3, a1, a2, a3, x3}
MCPath == g  :> <<g>> @@ m1 :> <<g, m1>> @@ m2 :> <<g, m1, m2>> @@ b2 :> <<g, m1, b2>>
       @@ c3 :> <<g, m1, m2, c3>>
       @@ a1 :> <<g, a1>> @@ a2 :> <<g, a1, a2>> @@ a3 :> <<g, a1, a2, a3>>
       @@ x3 :> <<g, a1, a2, x3>>
MCWeight == g :> 0 @@ m1 :> 2 @@ m2 :> 4 @@ b2 :> 4 @@ c3 :> 6
         @@ a1 :> 1 @@ a2 :> 3 @@ a3 :> 5 @@ x3 :> 7
MCPos   == {m2, b2}
MCProof == [b \in MCBlock |-> IF b = b2 THEN 2 ELSE 1]
MCTime  == [b \in MCBlock |-> 10 + Len(MCPath[b])]
MCRewardOk == MCBlock \ {x3}

MCTx == {"t1", "t2", "t3"}
MCTxsOf == [b \in MCBlock |->
    CASE b = m1 -> <<"t1">> [] b = a1 -> <<"t2">> [] b \in {a2, c3} -> <<"t3">> [] OTHER -> <<>>]
MCKeyImage == {"k1", "k2", "ks"}
MCKeysOf   == [t \in MCTx |-> IF t = "t3" THEN {"k2"} ELSE {"k1"}]
MCStakeOf  == [b \in MCBlock |-> IF b \in MCPos THEN {"ks"} ELSE {}]
(* t2 may be spent from a2 on, or only at the later time.                  *)
LockedUntilA2   == [t \in MCTx |-> IF t = "t2" THEN 2 ELSE 0]
LockedUntilTime == [t \in MCTx |-> IF t = "t2" THEN 14 ELSE 0]
MCNeeds    == [t \in MCTx |-> IF t = "t3" THEN {"t2"} ELSE {}]

(* For the run with faults and a checkpoint at a3:                         *)
(*                                                                         *)
(*   g(0) -- m1(2) -- m2(4)                                                *)
(*     |       |----- n2'(8)                                               *)
(*     |---- a1(1) -- a2(5) -- a3(7) -- a4(9) -- a5(11)                    *)
(*                                                                         *)
(* n2 is heavier than a3, so that only the checkpoint keeps it out.  Up to *)
(* a3 what is popped loses its signatures, as t1 of n2 does, and the block *)
(* cannot become an alternative one.  t3 of a5 refers to t2 of a4, which   *)
(* is locked up to a time.                                                 *)
n2 == "n2" a4 == "a4" a5 == "a5"
ZoneBlock   == {g, m1, m2, n2, a1, a2, a3, a4, a5}
ZonePath    == Restrict(MCPath, {g, m1, m2, a1, a2, a3})
                  @@ n2 :> <<g, m1, n2>> @@ a4 :> <<g, a1, a2, a3, a4>>
                  @@ a5 :> <<g, a1, a2, a3, a4, a5>>
ZoneWeight  == g :> 0 @@ m1 :> 2 @@ m2 :> 4 @@ n2 :> 8 @@ a1 :> 1 @@ a2 :> 5 @@ a3 :> 7 @@ a4 :> 9
                  @@ a5 :> 11
ZonePos     == {n2}
ZoneProof   == [b \in ZoneBlock |-> 1]
ZoneTime    == [b \in ZoneBlock |-> 10 + Len(ZonePath[b])]
ZoneTxsOf   == [b \in ZoneBlock |->
    CASE b = n2 -> <<"t1">> [] b = a4 -> <<"t2">> [] b = a5 -> <<"t3">> [] OTHER -> <<>>]
ZoneStakeOf == [b \in ZoneBlock |-> IF b \in ZonePos THEN {"ks"} ELSE {}]

(* Two blocks against one, for the runs about convergence.                 *)
TinyBlock   == {g, m1, a1, a2}
TinyPath    == Restrict(MCPath, TinyBlock)
TinyWeight  == Restrict(MCWeight, TinyBlock)
TinyProof   == Restrict(MCProof, TinyBlock)
TinyTime    == Restrict(MCTime, TinyBlock)
TinyTxsOf   == Restrict(MCTxsOf, TinyBlock)
TinyStakeOf == Restrict(MCStakeOf, TinyBlock)

NoCheckpoints  == [h \in {} |-> g]
CheckpointAtA2 == 2 :> a2
CheckpointAtA3 == 3 :> a3
=============================================================================
