------------------------- MODULE MCThreadSafeQueue -------------------------
(* Small instances of ThreadSafeQueue for TLC: see the .cfg files.         *)
EXTENDS ThreadSafeQueue, TLC

CONSTANTS p1, p2, c1, c2, k1, r1

TwoItems == {1, 2}
ThreeItems == {1, 2, 3}
=============================================================================
