---------------------------- MODULE OnceResponse ----------------------------
(***************************************************************************)
(* What the appservice promises the homeserver about one transaction id:   *)
(* the transaction gets one outcome, every response to it carries that     *)
(* outcome, and nothing is done on its behalf once the outcome is known.   *)
(* TransactionLog implements this specification.                           *)
(***************************************************************************)

CONSTANTS Txn,      \* transaction ids
          Status,   \* HTTP statuses an outcome can be
          Pending   \* the outcome of a transaction nobody has finished

VARIABLES outcome,  \* [Txn -> Status \cup {Pending}]
          answers,  \* [Txn -> SUBSET Status]: the statuses answered so far
          effects   \* [Txn -> what it has done]; starts anyhow

vars == <<outcome, answers, effects>>

Init == /\ outcome = [t \in Txn |-> Pending]
        /\ answers = [t \in Txn |-> {}]

(* An attempt at t does some of its work: only while t has no outcome. *)
Work(t) == /\ outcome[t] = Pending
           /\ \A u \in Txn \ {t} : effects'[u] = effects[u]
           /\ UNCHANGED <<outcome, answers>>

(* An attempt at t ends, and its status is the first answer to t. *)
Decide(t, s) == /\ outcome[t] = Pending
                /\ outcome' = [outcome EXCEPT ![t] = s]
                /\ answers' = [answers EXCEPT ![t] = @ \cup {s}]
                /\ UNCHANGED effects

(* A retry of t is answered from the log. *)
Repeat(t) == /\ outcome[t] # Pending
             /\ answers' = [answers EXCEPT ![t] = @ \cup {outcome[t]}]
             /\ UNCHANGED <<outcome, effects>>

Next == \E t \in Txn : Work(t) \/ Repeat(t) \/ \E s \in Status : Decide(t, s)

Spec == Init /\ [][Next]_vars
=============================================================================
