--------------------------- MODULE MCSyncPipeline ---------------------------
(* An instance of SyncPipeline for TLC. *)
EXTENDS SyncPipeline, TLC

CONSTANTS r1, r2

Symmetry == Permutations(Run)
=============================================================================
