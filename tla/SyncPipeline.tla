---------------------------- MODULE SyncPipeline ----------------------------
(***************************************************************************)
(* The way of a room key, end to end: a homeserver sends transactions one  *)
(* after the other, handle_transaction puts the key changes of each into   *)
(* the channel of a device and then dispatches its events, and the sync    *)
(* loops that come and go give the changes to the OlmMachine.              *)
(*                                                                         *)
(* Composes the handler with DeviceLoop, for a device whose keys every     *)
(* transaction counts.  A change is named after its transaction and the    *)
(* attempt at it: TransactionLog gives a transaction one attempt at a      *)
(* time, and another one only if the request was dropped.                  *)
(***************************************************************************)
EXTENDS Naturals, Sequences

CONSTANTS Run,       \* calls of Device::run
          Capacity,  \* of the channel
          None,      \* no token, no change
          MaxTxn,    \* bound: transactions 1..MaxTxn
          MaxTry     \* bound: attempts at a transaction

Change == (1..MaxTxn) \X (1..MaxTry)

ASSUME BoundsAssumption == MaxTxn \in Nat /\ MaxTry \in Nat \ {0}
ASSUME DeviceAssumption == /\ Capacity \in Nat \ {0}
                           /\ None \notin Run /\ None \notin Change

VARIABLES pc, token, cancelled, slot, sender, queue, hand, accepted, synced, crowded,
          at,      \* where handle_transaction awaits
          try,     \* the attempt at the transaction on its way
          acked    \* transactions that were answered with 200

Device == INSTANCE DeviceLoop

deviceVars == <<pc, token, cancelled, slot, sender, queue, hand, accepted, synced, crowded>>
vars == <<deviceVars, at, try, acked>>

txn == acked + 1

Init == Device!Init /\ at = "idle" /\ try = 1 /\ acked = 0

-----------------------------------------------------------------------------
(* extract_sync_tasks, for the one device: the change awaits room. *)
Begin == /\ at = "idle" /\ txn <= MaxTxn
         /\ Device!Send(<<txn, try>>)
         /\ at' = "sending"
         /\ UNCHANGED <<try, acked>>

(* A mutant of Enqueued: the handler does not wait for room. *)
EnqueuedOrNot == /\ at = "sending"
                 /\ Device!Accept(<<txn, try>>) \/ UNCHANGED deviceVars
                 /\ at' = "events"
                 /\ UNCHANGED <<try, acked>>

(* There was room: the events are dispatched. *)
Enqueued == /\ at = "sending"
            /\ Device!Accept(<<txn, try>>)
            /\ at' = "events"
            /\ UNCHANGED <<try, acked>>

(* All events are handled, whichever of them were readable. *)
Acknowledge == /\ at = "events"
               /\ at' = "idle" /\ try' = 1 /\ acked' = acked + 1
               /\ UNCHANGED deviceVars

(* A to-device or a room event is malformed, or the device cannot be made:  *)
(* 500, which the log repeats to every retry.                               *)
Refuse == /\ at \in {"idle", "events"} /\ txn <= MaxTxn
          /\ at' = "refused"
          /\ UNCHANGED <<deviceVars, try, acked>>

(* The connection closes; the homeserver tries again. *)
Drop == /\ try < MaxTry
        /\ \/ at = "sending" /\ Device!Abandon(<<txn, try>>)
           \/ at = "events" /\ UNCHANGED deviceVars
        /\ at' = "idle" /\ try' = try + 1
        /\ UNCHANGED acked

(* The device's own steps. *)
Loops == /\ \/ \E r \in Run : Device!Prepare(r) \/ Device!Loop(r)
            \/ Device!Stop
         /\ UNCHANGED <<at, try, acked>>

Next == Begin \/ Enqueued \/ Acknowledge \/ Refuse \/ Drop \/ Loops

Spec == Init /\ [][Next]_vars

-----------------------------------------------------------------------------
TypeOK == /\ Device!TypeOK
          /\ at \in {"idle", "sending", "events", "refused"}
          /\ try \in 1 .. MaxTry
          /\ acked \in 0 .. MaxTxn
          /\ at # "idle" => txn <= MaxTxn

(* The channel takes the changes of the transactions in order and before    *)
(* they are acknowledged, whatever is dropped and however loops are stopped *)
(* and started (handle_transaction, send_sync_changes).                     *)
Delivery == INSTANCE InOrderDelivery WITH
                log <- [i \in DOMAIN accepted |-> accepted[i][1]]

DeliveredInOrder == Delivery!Spec

(* While the events of a transaction are dispatched, the keys of this one   *)
(* and of all before it are in the OlmMachine, or among the last changes    *)
(* that fit into the channel and the hand of the loop: older keys are never *)
(* missing, but the latest may be (extract_sync_tasks enqueues, nobody      *)
(* waits for the loop).                                                     *)
Synced(t)  == \E i \in DOMAIN synced : synced[i][1] = t
Latest(t)  == \E i \in DOMAIN accepted : i + Capacity >= Len(accepted) /\ accepted[i][1] = t

OnlyLatestKeysAreMissing ==
    at = "events" => \A t \in 1 .. txn : Synced(t) \/ Latest(t)
=============================================================================
