----------------------------- MODULE MC_PathIndex -----------------------------
EXTENDS PathIndex, TLC

CONSTANTS p1, p2, p3

\* p1 and p2 collide, so one probes past the other; p3 starts elsewhere.
CollidingHash == p1 :> 0 @@ p2 :> 0 @@ p3 :> 1
=============================================================================
