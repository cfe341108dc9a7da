----------------------------- MODULE MCRoomStore -----------------------------
(* An instance of RoomStore for TLC: two users of the service and a member  *)
(* that is none of them.                                                    *)
EXTENDS RoomStore, TLC

CONSTANTS r1, u1, u2, bob

Symmetry == Permutations({u1, u2})
=============================================================================
