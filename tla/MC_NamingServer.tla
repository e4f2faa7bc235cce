--------------------------- MODULE MC_NamingServer ---------------------------
(***************************************************************************)
(* Model-checking instances of NamingServer: storage servers reporting     *)
(* directories d and e, and CREATEs of d/x and d/y.                        *)
(***************************************************************************)
EXTENDS NamingServer, TLC

CONSTANTS s1, s2, s3, d, e, x, y

\* s3 restarts with a copy of e; the registry has room for two servers.
Reported == [s \in Servers |-> IF s = s1 THEN {d} ELSE {e}]

\* x and y stand for d/x and d/y.
Creations == {<<d, x>>, <<d, y>>} \cap (Paths \X Paths)

\* cache_hash puts d, e, d/x and d/y in distinct slots.
DistinctHash == [p \in Paths |-> CASE p = d -> 0 [] p = e -> 1
                                    [] p = x -> 2 [] p = y -> 3]

\* d and e collide, as "file70.txt" and "file108.txt" do.
CollidingHash == [p \in Paths |-> CASE p = d -> 0 [] p = e -> 0
                                     [] p = x -> 1 [] p = y -> 2]

\* `call' only records the last cache operation for LocationCache's
\* refinement; no action reads it, so states differing in it alone are one.
StateView == <<hash, prev, next, head, tail, size, registry, cached_server,
               ssFiles, worker, ssConn, ssAck>>
=============================================================================
