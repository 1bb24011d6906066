------------------------------ MODULE MCRwLock ------------------------------
(* RwLock for TLC: three threads, one of which may try to upgrade.         *)
EXTENDS RwLock, TLC

CONSTANTS t1, t2, t3

MCThreads   == {t1, t2, t3}
MCUpgraders == {t3}
=============================================================================
