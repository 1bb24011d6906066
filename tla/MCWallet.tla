------------------------------ MODULE MCWallet ------------------------------
(***************************************************************************)
(* A tree of blocks for Wallet (weights in parentheses, and what of the    *)
(* wallet's is in them):                                                   *)
(*                                                                         *)
(*   g(0) -- a1(1) pay -- a2(4) buy                                        *)
(*     |---- b1(1) pay -- b2(3) mint, buy -- b3(5)                         *)
(*                 |----- d2(6)                                            *)
(*                                                                         *)
(* pay brings p and q; mint, the miner transaction of a block staked with  *)
(* q, spends it and brings m; the wallet may spend p with buy, whose       *)
(* change is c, or with gift.  The chain of d2 is heavier than the one of  *)
(* b3 and shorter.                                                         *)
(***************************************************************************)
EXTENDS Wallet, TLC

MCTx    == {"pay", "mint", "buy", "gift"}
MCOuts  == "pay" :> <<"p", "q">> @@ "mint" :> <<"m">> @@ "buy" :> <<"c">> @@ "gift" :> <<>>
MCIns   == "pay" :> {} @@ "mint" :> {"q"} @@ "buy" :> {"p"} @@ "gift" :> {"p"}
MCBlock == {"g", "a1", "a2", "d2", "b1", "b2", "b3"}
MCPath == "g" :> <<"g">> @@ "a1" :> <<"g", "a1">> @@ "a2" :> <<"g", "a1", "a2">>
       @@ "d2" :> <<"g", "b1", "d2">> @@ "b1" :> <<"g", "b1">> @@ "b2" :> <<"g", "b1", "b2">>
       @@ "b3" :> <<"g", "b1", "b2", "b3">>
MCWeight == "g" :> 0 @@ "a1" :> 1 @@ "a2" :> 4 @@ "d2" :> 6 @@ "b1" :> 1 @@ "b2" :> 3 @@ "b3" :> 5
MCTxs    == "g" :> <<>> @@ "a1" :> <<"pay">> @@ "a2" :> <<"buy">> @@ "d2" :> <<>>
                @@ "b1" :> <<"pay">> @@ "b2" :> <<"mint", "buy">> @@ "b3" :> <<>>
=============================================================================
