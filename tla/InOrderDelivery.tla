-------------------------- MODULE InOrderDelivery --------------------------
(***************************************************************************)
(* What a device is promised about the key changes of the transactions     *)
(* 1, 2, ...: each transaction's changes arrive before the transaction is  *)
(* acknowledged, perhaps several times, and never after the changes of a   *)
(* later one.                                                              *)
(***************************************************************************)
EXTENDS Naturals, Sequences

VARIABLES log,    \* the transactions whose changes arrived, in order
          acked   \* how many transactions were acknowledged

vars == <<log, acked>>

Init == log = <<>> /\ acked = 0

(* The changes of the transaction on its way arrive, or arrive again. *)
Arrive == log' = Append(log, acked + 1) /\ UNCHANGED acked

Acknowledge == /\ log # <<>> /\ log[Len(log)] = acked + 1
               /\ acked' = acked + 1
               /\ UNCHANGED log

Next == Arrive \/ Acknowledge

Spec == Init /\ [][Next]_vars
=============================================================================
