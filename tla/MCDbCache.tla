----------------------------- MODULE MCDbCache -----------------------------
(* DbCache for TLC: the threads and values of its configurations.          *)
EXTENDS DbCache, TLC

CONSTANTS w1, w2, r1, a, b
=============================================================================
