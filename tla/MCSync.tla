------------------------------- MODULE MCSync -------------------------------
(***************************************************************************)
(* A tree for Sync (weights in parentheses):                               *)
(*                                                                         *)
(*   g(0) -- m1(2) -- r2(4) -- r3(6)    r2: inputs of a transaction are    *)
(*     |       |----- t2(4)             wrong; t2: one is refused at once; *)
(*     |       |----- x2(4)             x2: no proof of work               *)
(*     |                                                                   *)
(*     |---- a1(1) -- a2(3) -- a3(5) -- a4(7) -- a5(9) -- a6(11)           *)
(*             |----- y2(4)                                                *)
(***************************************************************************)
EXTENDS Sync, TLC

g == "g"   m1 == "m1" r2 == "r2" r3 == "r3" t2 == "t2" x2 == "x2" y2 == "y2"
a1 == "a1" a2 == "a2" a3 == "a3" a4 == "a4" a5 == "a5" a6 == "a6"

MCBlock == {g, m1, r2, r3, t2, x2, y2, a1, a2, a3, a4, a5, a6}
MCPath == g :> <<g>> @@ m1 :> <<g, m1>>
       @@ r2 :> <<g, m1, r2>> @@ r3 :> <<g, m1, r2, r3>>
       @@ t2 :> <<g, m1, t2>> @@ x2 :> <<g, m1, x2>> @@ y2 :> <<g, a1, y2>>
       @@ a1 :> <<g, a1>> @@ a2 :> <<g, a1, a2>> @@ a3 :> <<g, a1, a2, a3>>
       @@ a4 :> <<g, a1, a2, a3, a4>> @@ a5 :> <<g, a1, a2, a3, a4, a5>>
       @@ a6 :> <<g, a1, a2, a3, a4, a5, a6>>
MCWeight == g :> 0 @@ m1 :> 2 @@ a1 :> 1 @@ a2 :> 3 @@ a3 :> 5 @@ a4 :> 7 @@ a5 :> 9 @@ a6 :> 11
         @@ [b \in {r2, t2, x2, y2} |-> 4] @@ r3 :> 6
MCFault == [b \in MCBlock |-> CASE b = r2 -> "inputs" [] b = t2 -> "txs" [] b = x2 -> "proof"
                                [] OTHER -> "none"]

(* p follows the best chain; q does too, or is on a lighter branch first,  *)
(* or goes where this node does not follow.                                *)
MCTops  == {"p" :> a5 @@ "q" :> b : b \in {y2, m1}}
MCGrows == {<<a5, a6>>, <<y2, a6>>, <<m1, r2>>, <<r2, r3>>, <<m1, t2>>, <<m1, x2>>}

MCCheckpoint == [b \in MCBlock |-> IF b \in {t2, r3} THEN 3 ELSE 0]
=============================================================================
