------------------------------ MODULE MCBblog ------------------------------
(* Small instances of Bblog for TLC. *)
EXTENDS BblogClaims, TLC

CONSTANTS t1, t2, t3, b1, b2, b3, b4, b5

OneThread == {t1}
TwoThreads == {t1, t2}
ThreeThreads == {t1, t2, t3}
OneAddr == {b1}
ThreeAddrs == {b1, b2, b3}
FiveAddrs == {b1, b2, b3, b4, b5}

Symmetry == Permutations(Threads) \cup Permutations(Addrs)
=============================================================================
