--------------------------- MODULE MCEventDispatch ---------------------------
(* An instance of EventDispatch for TLC: a plain event between two encrypted *)
(* ones, two handlers and two devices.                                       *)
EXTENDS EventDispatch, TLC

CONSTANTS h1, h2, d1, d2

Symmetry == Permutations({h1, h2}) \cup Permutations({d1, d2})
=============================================================================
