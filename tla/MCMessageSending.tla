-------------------------- MODULE MCMessageSending --------------------------
(* An instance of MessageSending for TLC. *)
EXTENDS MessageSending, TLC

CONSTANTS c1, c2, u1, u2

Symmetry == Permutations(Call) \cup Permutations(User)
=============================================================================
