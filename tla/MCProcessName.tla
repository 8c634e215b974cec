--------------------------- MODULE MCProcessName ---------------------------
(* Small instances of ProcessName for TLC. *)
EXTENDS ProcessName, TLC

CONSTANTS t1, t2, t3, p1, p2, p3

ThreeThreads == {t1, t2, t3}
ThreeAddrs == {p1, p2, p3}

Symmetry == Permutations(Threads) \cup Permutations(Addrs)
=============================================================================
