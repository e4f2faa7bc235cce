-------------------------- MODULE MC_LocationCache --------------------------
(***************************************************************************)
(* Model-checking instances of LocationCache.  cache_hash is the string    *)
(* hash (h * 31 + c) % CACHE_SIZE; over a few paths it is either          *)
(* injective or, as for "file70.txt" and "file108.txt" (both 111 with      *)
(* CACHE_SIZE 1000), sends two paths to one slot.                          *)
(***************************************************************************)
EXTENDS LocationCache, TLC

CONSTANTS p1, p2, p3

\* Three paths in three distinct slots of a three-slot array.
DistinctHash == (p1 :> 0) @@ (p2 :> 1) @@ (p3 :> 2)

\* p1 and p2 collide in slot 0, like "file70.txt" and "file108.txt".
CollidingHash == (p1 :> 0) @@ (p2 :> 0) @@ (p3 :> 1)

ServerSymmetry == Permutations(Servers)
=============================================================================
