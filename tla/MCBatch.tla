------------------------------ MODULE MCBatch ------------------------------
(* Small instances of Batch for TLC. *)
EXTENDS BatchClaims, TLC

CONSTANTS t1, t2, f1, f2, f3

OneThread == {t1}
TwoThreads == {t1, t2}
TwoFiles == {f1, f2}
TracedFiles == Files \ {f3}

Symmetry == Permutations(Threads) \cup Permutations(Fds)
=============================================================================
