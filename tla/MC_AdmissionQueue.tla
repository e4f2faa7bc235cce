--------------------------- MODULE MC_AdmissionQueue ---------------------------
(* Safety-only instance of AdmissionQueue: one worker, so that a second    *)
(* client arrives while the only worker is busy; clients are symmetric.    *)
EXTENDS AdmissionQueue, TLC

ClientSymmetry == Permutations(Clients)
=============================================================================
