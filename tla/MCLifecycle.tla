---------------------------- MODULE MCLifecycle ----------------------------
(* Small instances of Lifecycle for TLC. *)
EXTENDS Lifecycle

CONSTANTS t1, t2, f1, f2, i1, i2

TwoThreads == {t1, t2}
TwoFlushers == {f1, f2}
TwoInfos == {i1, i2}
=============================================================================
