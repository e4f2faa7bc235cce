------------------------------ MODULE MC_Backup ------------------------------
(***************************************************************************)
(* A storage server backing up directory r, holding file f and            *)
(* subdirectory s with file g, and the single file h.                     *)
(***************************************************************************)
EXTENDS Backup

CONSTANTS r, s, f, g, h

TreeFiles == r :> {f} @@ s :> {g}

\* f fills one buffer exactly and h is empty: both end with an empty FILE_DATA.
Sizes == f :> 2 @@ g :> 1 @@ h :> 0
=============================================================================
