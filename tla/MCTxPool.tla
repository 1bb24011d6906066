------------------------------ MODULE MCTxPool ------------------------------
(***************************************************************************)
(* Four transactions for TxPool.  a makes the outputs that e spends; c and *)
(* e spend the same key; a and b register the same alias, and b has a      *)
(* wrong signature; e cancels an offer free of charge; c is large, and     *)
(* expires when there are three blocks.  A block holds c, or two others.   *)
(***************************************************************************)
EXTENDS TxPool

a == "a" b == "b" c == "c" e == "e"
MCTx == {a, b, c, e}
MCImages == a :> {"k1"} @@ b :> {"k3"} @@ c :> {"k2"} @@ e :> {"k2"}
MCSource == [t \in MCTx |-> IF t = e THEN a ELSE "none"]
MCFee    == a :> 3 @@ b :> 2 @@ c :> 2 @@ e :> 0
MCSize   == [t \in MCTx |-> IF t = c THEN 2 ELSE 1]
MCAlias  == [t \in MCTx |-> IF t \in {a, b} THEN "n" ELSE "none"]
MCCancels == [t \in MCTx |-> IF t = e THEN {"o"} ELSE {}]
MCMsIns  == [t \in MCTx |-> IF t = e THEN {"m"} ELSE {}]
MCMsOuts == [t \in MCTx |-> IF t = a THEN {"m"} ELSE {}]
MCExpiry == [t \in MCTx |-> IF t = c THEN 3 ELSE 9]
MCReward == [s \in 0 .. 2 |-> 10 - s \div 2]
=============================================================================
