-------------------------- MODULE MC_AsyncCompletion --------------------------
EXTENDS AsyncCompletion, TLC

CONSTANTS c1, c2, f1, f2

\* Each client works on a file of its own.
OwnFiles == c1 :> {f1} @@ c2 :> {f2}

\* Neither name occurs inside the other.
DistinctNames == {<<f1, f1>>, <<f2, f2>>}
=============================================================================
