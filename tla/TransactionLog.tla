--------------------------- MODULE TransactionLog ---------------------------
(***************************************************************************)
(* PUT /_matrix/app/v1/transactions/{txn_id}: the authorisation layer, the *)
(* TransactionLog (a OnceCell per transaction id) and the body of          *)
(* handle_transaction that one connection runs under the cell's permit.    *)
(*                                                                         *)
(* A connection carries one request at a time.  Its task may be dropped at *)
(* any await (the homeserver hung up or timed out); the OnceCell then gives *)
(* the permit back and the next request for the id starts from scratch.    *)
(***************************************************************************)
EXTENDS Naturals

CONSTANTS Txn,       \* transaction ids
          Conn,      \* connections to the HTTP listener
          Device,    \* (user, device) pairs of device_one_time_keys_count
          Counted,   \* [Txn -> SUBSET Device]: the pairs a transaction counts keys for
          Events,    \* [Txn -> Nat]: how many timeline events it carries
          MaxDrops,  \* bound: attempts dropped per transaction
          NoConn     \* nobody

ASSUME CountedAssumption == Counted \in [Txn -> SUBSET Device]
ASSUME EventsAssumption == Events \in [Txn -> Nat]
ASSUME NoConnAssumption == NoConn \notin Conn
ASSUME MaxDropsAssumption == MaxDrops \in Nat

VARIABLES pc,         \* [Conn -> where the request's task awaits]
          txn,        \* [Conn -> the transaction id of its request]
          todo,       \* [Conn -> the counted devices extract_sync_tasks has left]
          nextEvent,  \* [Conn -> index of the event the loop over events is at]
          cell,       \* [Txn -> entry of TransactionLog.inner]
          permit,     \* [Txn -> connection that holds the OnceCell's permit]
          answers,    \* [Txn -> statuses answered so far]
          enqueued,   \* [Txn -> [Device -> times its changes were enqueued]]
          begun,      \* [Txn -> [event -> times its handlers were started]]
          handled,    \* [Txn -> [event -> times its handlers ran to the end]]
          dropped     \* [Txn -> attempts dropped while they held the permit]

connVars == <<pc, txn, todo, nextEvent>>
logVars  == <<cell, permit, answers>>
workVars == <<enqueued, begun, handled>>
vars     == <<connVars, logVars, workVars, dropped>>

Status  == {"OK", "INTERNAL_SERVER_ERROR"}
Absent  == "absent"   \* no entry for the id in the map
Empty   == "empty"    \* a OnceCell without a value

Index(t) == 1..Events[t]

Init == /\ pc = [c \in Conn |-> "idle"]
        /\ txn \in [Conn -> Txn]
        /\ todo = [c \in Conn |-> {}]
        /\ nextEvent = [c \in Conn |-> 1]
        /\ cell = [t \in Txn |-> Absent]
        /\ permit = [t \in Txn |-> NoConn]
        /\ answers = [t \in Txn |-> {}]
        /\ enqueued = [t \in Txn |-> [d \in Device |-> 0]]
        /\ begun = [t \in Txn |-> [e \in Index(t) |-> 0]]
        /\ handled = [t \in Txn |-> [e \in Index(t) |-> 0]]
        /\ dropped = [t \in Txn |-> 0]

GoTo(c, label) == pc' = [pc EXCEPT ![c] = label]

(* The request's future ends and its locals are gone. *)
Leave(c) == /\ GoTo(c, "idle")
            /\ todo' = [todo EXCEPT ![c] = {}]
            /\ nextEvent' = [nextEvent EXCEPT ![c] = 1]

(* The holder of a permit: the only task that runs the body for its id. *)
Runs(c) == pc[c] \in {"running", "handling"}

-----------------------------------------------------------------------------
(* The HTTP layer. *)

(* A request for t reaches the authorize layer. *)
Request(c, t) == /\ pc[c] = "idle"
                 /\ txn' = [txn EXCEPT ![c] = t]
                 /\ GoTo(c, "authorize")
                 /\ UNCHANGED <<todo, nextEvent, logVars, workVars, dropped>>

(* The bearer token is the hs_token: handle_transaction is called. *)
Authorize(c) == /\ pc[c] = "authorize"
                /\ GoTo(c, "lookup")
                /\ UNCHANGED <<txn, todo, nextEvent, logVars, workVars, dropped>>

(* The bearer token is another one, or the body is no transaction: an error *)
(* is answered and nothing else is touched.                                 *)
Refuse(c) == /\ pc[c] = "authorize"
             /\ GoTo(c, "idle")
             /\ UNCHANGED <<txn, todo, nextEvent, logVars, workVars, dropped>>

-----------------------------------------------------------------------------
(* TransactionLog::lock_while. *)

(* Under the map's mutex: find the id's cell or insert an empty one. *)
Lookup(c) == /\ pc[c] = "lookup"
             /\ cell' = [cell EXCEPT ![txn[c]] = IF @ = Absent THEN Empty ELSE @]
             /\ GoTo(c, "waiting")
             /\ UNCHANGED <<txn, todo, nextEvent, permit, answers, workVars, dropped>>

(* get_or_init finds a value: it is the answer. *)
Repeat(c) == /\ pc[c] = "waiting"
             /\ cell[txn[c]] \in Status
             /\ answers' = [answers EXCEPT ![txn[c]] = @ \cup {cell[txn[c]]}]
             /\ GoTo(c, "idle")
             /\ UNCHANGED <<txn, todo, nextEvent, cell, permit, workVars, dropped>>

(* A mutant of Acquire: the cell is created per request, so nobody waits. *)
AcquireUnlocked(c) ==
    /\ pc[c] = "waiting"
    /\ cell[txn[c]] = Empty
    /\ permit' = [permit EXCEPT ![txn[c]] = c]
    /\ todo' = [todo EXCEPT ![c] = Counted[txn[c]]]
    /\ nextEvent' = [nextEvent EXCEPT ![c] = 1]
    /\ GoTo(c, "running")
    /\ UNCHANGED <<txn, cell, answers, workVars, dropped>>

(* get_or_init takes the permit of an empty cell and starts the body, whose *)
(* first await is in extract_sync_tasks.                                    *)
Acquire(c) == /\ pc[c] = "waiting"
              /\ cell[txn[c]] = Empty
              /\ permit[txn[c]] = NoConn
              /\ permit' = [permit EXCEPT ![txn[c]] = c]
              /\ todo' = [todo EXCEPT ![c] = Counted[txn[c]]]
              /\ nextEvent' = [nextEvent EXCEPT ![c] = 1]
              /\ GoTo(c, "running")
              /\ UNCHANGED <<txn, cell, answers, workVars, dropped>>

(* A mutant of Finish: a failed attempt leaves the cell to the next one. *)
FinishForgettingErrors(c, status) ==
    /\ cell' = [cell EXCEPT ![txn[c]] = IF status = "OK" THEN status ELSE @]
    /\ permit' = [permit EXCEPT ![txn[c]] = NoConn]
    /\ answers' = [answers EXCEPT ![txn[c]] = @ \cup {status}]
    /\ Leave(c)
    /\ UNCHANGED <<txn, workVars, dropped>>

(* A mutant of Finish: an error on the way is logged and answered with 200. *)
FinishAlwaysOK(c, status) ==
    /\ cell' = [cell EXCEPT ![txn[c]] = "OK"]
    /\ permit' = [permit EXCEPT ![txn[c]] = NoConn]
    /\ answers' = [answers EXCEPT ![txn[c]] = @ \cup {"OK"}]
    /\ Leave(c)
    /\ UNCHANGED <<txn, workVars, dropped>>

(* The body returned: its status becomes the cell's value, for good, and   *)
(* the answer to this request.                                             *)
Finish(c, status) ==
    /\ cell' = [cell EXCEPT ![txn[c]] = status]
    /\ permit' = [permit EXCEPT ![txn[c]] = NoConn]
    /\ answers' = [answers EXCEPT ![txn[c]] = @ \cup {status}]
    /\ Leave(c)
    /\ UNCHANGED <<txn, workVars, dropped>>

-----------------------------------------------------------------------------
(* ApplicationServiceInner::handle_transaction, run under the permit. *)

(* extract_sync_tasks: one turn of the loop over the counted devices, whose *)
(* order is that of a HashMap built anew for each attempt.                  *)
Enqueue(c, d) ==
    /\ pc[c] = "running"
    /\ d \in todo[c]
    /\ todo' = [todo EXCEPT ![c] = @ \ {d}]
    /\ enqueued' = [enqueued EXCEPT ![txn[c]][d] = @ + 1]
    /\ UNCHANGED <<pc, txn, nextEvent, logVars, begun, handled, dropped>>

(* ... returns an error: a to-device event without readable addressee, even *)
(* if no keys are counted, a device that cannot be created, a channel       *)
(* without receiver.  What is enqueued stays enqueued.                      *)
FailSync(c) == /\ pc[c] = "running"
               /\ todo[c] # {} \/ (Counted[txn[c]] = {} /\ nextEvent[c] = 1)
               /\ Finish(c, "INTERNAL_SERVER_ERROR")

(* A mutant of BeginEvent: events are dispatched while keys are still on    *)
(* their way.                                                               *)
BeginEventEarly(c) ==
    /\ pc[c] = "running"
    /\ nextEvent[c] \in Index(txn[c])
    /\ begun' = [begun EXCEPT ![txn[c]][nextEvent[c]] = @ + 1]
    /\ GoTo(c, "handling")
    /\ UNCHANGED <<txn, todo, nextEvent, logVars, enqueued, handled, dropped>>

(* handle_event: the handlers of the next event are started. *)
BeginEvent(c) ==
    /\ pc[c] = "running"
    /\ todo[c] = {}
    /\ nextEvent[c] \in Index(txn[c])
    /\ begun' = [begun EXCEPT ![txn[c]][nextEvent[c]] = @ + 1]
    /\ GoTo(c, "handling")
    /\ UNCHANGED <<txn, todo, nextEvent, logVars, enqueued, handled, dropped>>

(* ... and have all returned; their own errors are only logged. *)
EndEvent(c) ==
    /\ pc[c] = "handling"
    /\ handled' = [handled EXCEPT ![txn[c]][nextEvent[c]] = @ + 1]
    /\ nextEvent' = [nextEvent EXCEPT ![c] = @ + 1]
    /\ GoTo(c, "running")
    /\ UNCHANGED <<txn, todo, logVars, enqueued, begun, dropped>>

(* handle_event returns an error before any handler runs: the event has no  *)
(* readable type, room or sender.                                           *)
FailEvent(c) == /\ pc[c] = "running"
                /\ todo[c] = {}
                /\ nextEvent[c] \in Index(txn[c])
                /\ Finish(c, "INTERNAL_SERVER_ERROR")

(* Every device and every event is done. *)
Complete(c) == /\ pc[c] = "running"
               /\ todo[c] = {}
               /\ nextEvent[c] \notin Index(txn[c])
               /\ Finish(c, "OK")

-----------------------------------------------------------------------------
(* A mutant of Drop: the permit stays with the task that is gone. *)
DropKeepingPermit(c) ==
    /\ pc[c] # "idle"
    /\ Runs(c) => dropped[txn[c]] < MaxDrops
    /\ dropped' = [dropped EXCEPT ![txn[c]] = IF Runs(c) THEN @ + 1 ELSE @]
    /\ Leave(c)
    /\ UNCHANGED <<txn, logVars, workVars>>

(* The connection closes and the server drops the request's future, wherever *)
(* it awaits; a permit it holds is released.  MaxDrops bounds the drops that *)
(* cost an attempt.                                                          *)
Drop(c) ==
    /\ pc[c] # "idle"
    /\ Runs(c) => dropped[txn[c]] < MaxDrops
    /\ permit' = [permit EXCEPT ![txn[c]] = IF Runs(c) THEN NoConn ELSE @]
    /\ dropped' = [dropped EXCEPT ![txn[c]] = IF Runs(c) THEN @ + 1 ELSE @]
    /\ Leave(c)
    /\ UNCHANGED <<txn, cell, answers, workVars>>

-----------------------------------------------------------------------------
Work(c) == \/ \E d \in Device : Enqueue(c, d)
           \/ FailSync(c)
           \/ BeginEvent(c)
           \/ EndEvent(c)
           \/ FailEvent(c)
           \/ Complete(c)

Serve(c) == \/ Authorize(c)
            \/ Refuse(c)
            \/ Lookup(c)
            \/ Repeat(c)
            \/ Acquire(c)
            \/ Work(c)

Next == \E c \in Conn : \/ \E t \in Txn : Request(c, t)
                        \/ Serve(c)
                        \/ Drop(c)

Spec == Init /\ [][Next]_vars

(* The runtime polls every task that is ready, and what the body awaits     *)
(* (a homeserver response, an event handler, room in a channel) comes.      *)
FairSpec == Spec /\ \A c \in Conn : WF_vars(Serve(c))

-----------------------------------------------------------------------------
TypeOK ==
    /\ pc \in [Conn -> {"idle", "authorize", "lookup", "waiting", "running", "handling"}]
    /\ txn \in [Conn -> Txn]
    /\ todo \in [Conn -> SUBSET Device]
    /\ nextEvent \in [Conn -> Nat \ {0}]
    /\ cell \in [Txn -> {Absent, Empty} \cup Status]
    /\ permit \in [Txn -> Conn \cup {NoConn}]
    /\ answers \in [Txn -> SUBSET Status]
    /\ enqueued \in [Txn -> [Device -> Nat]]
    /\ DOMAIN begun = Txn /\ \A t \in Txn : begun[t] \in [Index(t) -> Nat]
    /\ DOMAIN handled = Txn /\ \A t \in Txn : handled[t] \in [Index(t) -> Nat]
    /\ dropped \in [Txn -> 0..MaxDrops]
    /\ \A c \in Conn : /\ pc[c] = "running" => nextEvent[c] <= Events[txn[c]] + 1
                       /\ pc[c] = "handling" => nextEvent[c] \in Index(txn[c])

(* Two requests with the same id never run the body at the same time, not   *)
(* even when a retry arrives before the server noticed that the first       *)
(* connection is gone (lock_while, get_or_init).                            *)
OneAttemptAtATime ==
    \A c1, c2 \in Conn : Runs(c1) /\ Runs(c2) /\ txn[c1] = txn[c2] => c1 = c2

(* A 200 acknowledges the whole transaction: the changes of every counted   *)
(* device were enqueued and the handlers of every event ran to their end,   *)
(* whatever attempts were dropped on the way (handle_transaction).          *)
AcknowledgedMeansDone ==
    \A t \in Txn : "OK" \in answers[t] =>
        /\ \A d \in Counted[t] : enqueued[t][d] >= 1
        /\ \A e \in Index(t) : handled[t][e] >= 1

(* The to-device messages of a transaction (room keys) are enqueued before  *)
(* any of its events is dispatched, and its events are dispatched in order, *)
(* each after the one before it was handled (handle_transaction).           *)
KeysBeforeEventsInOrder ==
    \A t \in Txn : \A e \in Index(t) : begun[t][e] >= 1 =>
        /\ \A d \in Counted[t] : enqueued[t][d] >= 1
        /\ \A f \in 1..(e - 1) : handled[t][f] >= 1

(* A retry repeats work only after a dropped connection: nothing of a       *)
(* transaction is done more often than one time plus the attempts that were *)
(* dropped, however many requests carry its id (lock_while).                *)
RepeatsOnlyAfterDrops ==
    \A t \in Txn :
        /\ \A d \in Device : enqueued[t][d] <= 1 + dropped[t]
        /\ \A e \in Index(t) : begun[t][e] <= 1 + dropped[t]

(* The transaction log implements OnceResponse: one outcome per id, the     *)
(* same answer to every retry, and no work once the outcome is known.  A    *)
(* 500 is an outcome too, so a failed transaction is never tried again.     *)
Once == INSTANCE OnceResponse
          WITH Pending <- Empty,
               outcome <- [t \in Txn |-> IF cell[t] \in Status THEN cell[t] ELSE Empty],
               effects <- [t \in Txn |-> <<enqueued[t], begun[t], handled[t]>>]
OnceResponseSpec == Once!Spec

(* Every request is answered or dropped: a request that waits for the      *)
(* permit is not stranded when the attempt it waits for is dropped.         *)
EveryRequestEnds == \A c \in Conn : pc[c] # "idle" ~> pc[c] = "idle"
=============================================================================
