------------------------ MODULE TransactionLogProofs ------------------------
(***************************************************************************)
(* Proofs about TransactionLog, for any number of connections,             *)
(* transactions, devices and events.                                       *)
(***************************************************************************)
EXTENDS TransactionLog, TLAPS

(* A connection runs the body exactly if it holds the permit of the id it   *)
(* serves, and only an empty cell has its permit given away.                *)
PermitInv ==
    /\ \A c \in Conn : Runs(c) <=> permit[txn[c]] = c
    /\ \A t \in Txn : permit[t] # NoConn => txn[permit[t]] = t /\ cell[t] = Empty

(* What the body has behind it is done. *)
ProgressInv ==
    \A c \in Conn : Runs(c) =>
        /\ \A d \in Counted[txn[c]] \ todo[c] : enqueued[txn[c]][d] >= 1
        /\ nextEvent[c] > 1 \/ pc[c] = "handling" => todo[c] = {}
        /\ \A e \in Index(txn[c]) : e < nextEvent[c] => handled[txn[c]][e] >= 1

Done(t) == /\ \A d \in Counted[t] : enqueued[t][d] >= 1
           /\ \A e \in Index(t) : handled[t][e] >= 1

(* Nothing is answered but the cell's value, and OK is said of what is done. *)
OutcomeInv == \A t \in Txn : /\ answers[t] \subseteq {cell[t]}
                             /\ cell[t] = "OK" => Done(t)

(* The attempt at t that is under way, or the last one, did d, or began e. *)
EnqueuedNow(t, d) == \/ cell[t] \in Status
                     \/ permit[t] # NoConn /\ d \notin todo[permit[t]]
BegunNow(t, e) == \/ cell[t] \in Status
                  \/ /\ permit[t] # NoConn
                     /\ \/ e < nextEvent[permit[t]]
                        \/ pc[permit[t]] = "handling" /\ e = nextEvent[permit[t]]

(* Each piece of work was done at most once per dropped attempt, and once   *)
(* more if the attempt under way or the last one did it.                    *)
RepeatInv ==
    \A t \in Txn :
        /\ \A d \in Device : /\ enqueued[t][d] <= dropped[t] + 1
                             /\ ~EnqueuedNow(t, d) => enqueued[t][d] <= dropped[t]
        /\ \A e \in Index(t) : /\ begun[t][e] <= dropped[t] + 1
                               /\ ~BegunNow(t, e) => begun[t][e] <= dropped[t]

IInv == /\ TypeOK
        /\ PermitInv
        /\ ProgressInv
        /\ OutcomeInv
        /\ KeysBeforeEventsInOrder
        /\ RepeatInv

-----------------------------------------------------------------------------
(* Every step keeps the types. *)
LEMMA TypeStep == TypeOK /\ [Next]_vars => TypeOK'
<1> SUFFICES ASSUME TypeOK, [Next]_vars PROVE TypeOK'
  OBVIOUS
<1> USE CountedAssumption, EventsAssumption, NoConnAssumption, MaxDropsAssumption
    DEF TypeOK, Status, Absent, Empty, Index, Runs
<1>1. CASE UNCHANGED vars
  BY <1>1 DEF vars, connVars, logVars, workVars
<1>2. ASSUME NEW c \in Conn, NEW t \in Txn, Request(c, t) PROVE TypeOK'
  BY <1>2 DEF Request, GoTo, logVars, workVars
<1>3. ASSUME NEW c \in Conn, Authorize(c) \/ Refuse(c) PROVE TypeOK'
  BY <1>3 DEF Authorize, Refuse, GoTo, logVars, workVars
<1>4. ASSUME NEW c \in Conn, Lookup(c) \/ Repeat(c) \/ Acquire(c) PROVE TypeOK'
  <2>1. CASE Lookup(c)
    BY <2>1 DEF Lookup, GoTo, workVars
  <2>2. CASE Repeat(c)
    BY <2>2 DEF Repeat, GoTo, workVars
  <2>3. CASE Acquire(c)
    BY <2>3 DEF Acquire, GoTo, workVars
  <2> QED
    BY <1>4, <2>1, <2>2, <2>3
<1>5. ASSUME NEW c \in Conn, NEW s \in Status, Finish(c, s) PROVE TypeOK'
  BY <1>5 DEF Finish, Leave, GoTo, workVars
<1>6. ASSUME NEW c \in Conn, NEW d \in Device, Enqueue(c, d) PROVE TypeOK'
  BY <1>6 DEF Enqueue, logVars
<1>7. ASSUME NEW c \in Conn, BeginEvent(c) PROVE TypeOK'
  BY <1>7 DEF BeginEvent, GoTo, logVars
<1>8. ASSUME NEW c \in Conn, EndEvent(c) PROVE TypeOK'
  BY <1>8 DEF EndEvent, GoTo, logVars
<1>9. ASSUME NEW c \in Conn, Drop(c) PROVE TypeOK'
  BY <1>9 DEF Drop, Leave, GoTo, workVars
<1>10. QED
  BY <1>1, <1>2, <1>3, <1>4, <1>5, <1>6, <1>7, <1>8, <1>9
     DEF Next, Serve, Work, FailSync, FailEvent, Complete

(* Every step keeps the permits. *)
LEMMA PermitStep == TypeOK /\ PermitInv /\ [Next]_vars => PermitInv'
<1> SUFFICES ASSUME TypeOK, PermitInv, [Next]_vars PROVE PermitInv'
  OBVIOUS
<1>0. /\ pc \in [Conn -> {"idle", "authorize", "lookup", "waiting", "running", "handling"}]
      /\ txn \in [Conn -> Txn]
      /\ cell \in [Txn -> {Absent, Empty} \cup Status]
      /\ permit \in [Txn -> Conn \cup {NoConn}]
  BY DEF TypeOK, Index
<1> USE <1>0, CountedAssumption, EventsAssumption, NoConnAssumption, MaxDropsAssumption
    DEF PermitInv, Status, Absent, Empty, Index, Runs
<1>1. CASE UNCHANGED vars
  BY <1>1 DEF vars, connVars, logVars, workVars
<1>2. ASSUME NEW c \in Conn, NEW t \in Txn, Request(c, t) PROVE PermitInv'
  BY <1>2 DEF Request, GoTo, logVars, workVars
<1>3. ASSUME NEW c \in Conn, Authorize(c) PROVE PermitInv'
  BY <1>3 DEF Authorize, GoTo, logVars, workVars
<1>4. ASSUME NEW c \in Conn, Refuse(c) PROVE PermitInv'
  BY <1>4 DEF Refuse, GoTo, logVars, workVars
<1>5. ASSUME NEW c \in Conn, Lookup(c) PROVE PermitInv'
  BY <1>5 DEF Lookup, GoTo, workVars
<1>6. ASSUME NEW c \in Conn, Repeat(c) PROVE PermitInv'
  BY <1>6 DEF Repeat, GoTo, workVars
<1>7. ASSUME NEW c \in Conn, Acquire(c) PROVE PermitInv'
  BY <1>7 DEF Acquire, GoTo, workVars
<1>8. ASSUME NEW c \in Conn, NEW d \in Device, Enqueue(c, d) PROVE PermitInv'
  BY <1>8 DEF Enqueue, logVars
<1>9. ASSUME NEW c \in Conn, BeginEvent(c) PROVE PermitInv'
  BY <1>9 DEF BeginEvent, GoTo, logVars
<1>10. ASSUME NEW c \in Conn, EndEvent(c) PROVE PermitInv'
  BY <1>10 DEF EndEvent, GoTo, logVars
<1>11. ASSUME NEW c \in Conn, FailSync(c) PROVE PermitInv'
  BY <1>11 DEF FailSync, Finish, Leave, GoTo, workVars
<1>12. ASSUME NEW c \in Conn, FailEvent(c) PROVE PermitInv'
  BY <1>12 DEF FailEvent, Finish, Leave, GoTo, workVars
<1>13. ASSUME NEW c \in Conn, Complete(c) PROVE PermitInv'
  BY <1>13 DEF Complete, Finish, Leave, GoTo, workVars
<1>14. ASSUME NEW c \in Conn, Drop(c) PROVE PermitInv'
  BY <1>14 DEF Drop, Leave, GoTo, workVars
<1>15. QED
  BY <1>1, <1>2, <1>3, <1>4, <1>5, <1>6, <1>7, <1>8, <1>9,
     <1>10, <1>11, <1>12, <1>13, <1>14
     DEF Next, Serve, Work

(* Every step keeps what is known of the bodies under way. *)
LEMMA ProgressStep == TypeOK /\ PermitInv /\ ProgressInv /\ [Next]_vars => ProgressInv'
<1> SUFFICES ASSUME TypeOK, PermitInv, ProgressInv, [Next]_vars PROVE ProgressInv'
  OBVIOUS
<1>0. /\ pc \in [Conn -> {"idle", "authorize", "lookup", "waiting", "running", "handling"}]
      /\ txn \in [Conn -> Txn]
      /\ todo \in [Conn -> SUBSET Device]
      /\ nextEvent \in [Conn -> Nat \ {0}]
      /\ permit \in [Txn -> Conn \cup {NoConn}]
      /\ enqueued \in [Txn -> [Device -> Nat]]
      /\ DOMAIN handled = Txn /\ \A t \in Txn : handled[t] \in [1..Events[t] -> Nat]
      /\ \A c \in Conn : /\ pc[c] = "running" => nextEvent[c] <= Events[txn[c]] + 1
                         /\ pc[c] = "handling" => nextEvent[c] \in 1..Events[txn[c]]
  BY DEF TypeOK, Index
<1> USE <1>0, CountedAssumption, EventsAssumption, NoConnAssumption, MaxDropsAssumption
    DEF PermitInv, ProgressInv, Status, Absent, Empty, Index, Runs
<1>1. CASE UNCHANGED vars
  BY <1>1 DEF vars, connVars, logVars, workVars
<1>2. ASSUME NEW c \in Conn, NEW t \in Txn, Request(c, t) PROVE ProgressInv'
  BY <1>2 DEF Request, GoTo, logVars, workVars
<1>3. ASSUME NEW c \in Conn, Authorize(c) PROVE ProgressInv'
  BY <1>3 DEF Authorize, GoTo, logVars, workVars
<1>4. ASSUME NEW c \in Conn, Refuse(c) PROVE ProgressInv'
  BY <1>4 DEF Refuse, GoTo, logVars, workVars
<1>5. ASSUME NEW c \in Conn, Lookup(c) PROVE ProgressInv'
  BY <1>5 DEF Lookup, GoTo, workVars
<1>6. ASSUME NEW c \in Conn, Repeat(c) PROVE ProgressInv'
  BY <1>6 DEF Repeat, GoTo, workVars
<1>7. ASSUME NEW c \in Conn, Acquire(c) PROVE ProgressInv'
  BY <1>7 DEF Acquire, GoTo, workVars
<1>8. ASSUME NEW c \in Conn, NEW d \in Device, Enqueue(c, d) PROVE ProgressInv'
  BY <1>8 DEF Enqueue, logVars
<1>9. ASSUME NEW c \in Conn, BeginEvent(c) PROVE ProgressInv'
  BY <1>9 DEF BeginEvent, GoTo, logVars
<1>10. ASSUME NEW c \in Conn, EndEvent(c) PROVE ProgressInv'
  BY <1>10 DEF EndEvent, GoTo, logVars
<1>11. ASSUME NEW c \in Conn, FailSync(c) PROVE ProgressInv'
  BY <1>11 DEF FailSync, Finish, Leave, GoTo, workVars
<1>12. ASSUME NEW c \in Conn, FailEvent(c) PROVE ProgressInv'
  BY <1>12 DEF FailEvent, Finish, Leave, GoTo, workVars
<1>13. ASSUME NEW c \in Conn, Complete(c) PROVE ProgressInv'
  BY <1>13 DEF Complete, Finish, Leave, GoTo, workVars
<1>14. ASSUME NEW c \in Conn, Drop(c) PROVE ProgressInv'
  BY <1>14 DEF Drop, Leave, GoTo, workVars
<1>15. QED
  BY <1>1, <1>2, <1>3, <1>4, <1>5, <1>6, <1>7, <1>8, <1>9,
     <1>10, <1>11, <1>12, <1>13, <1>14
     DEF Next, Serve, Work

(* Nobody has an answer to a transaction while its body runs. *)
LEMMA Unanswered ==
    ASSUME TypeOK, PermitInv, OutcomeInv, NEW c \in Conn, Runs(c)
    PROVE  cell[txn[c]] = Empty /\ answers[txn[c]] = {}
<1>1. txn[c] \in Txn
  BY DEF TypeOK
<1>2. cell[txn[c]] = Empty
  BY <1>1, NoConnAssumption DEF PermitInv
<1>3. answers[txn[c]] \subseteq {Empty}
  BY <1>1, <1>2 DEF OutcomeInv
<1>4. answers[txn[c]] \subseteq {"OK", "INTERNAL_SERVER_ERROR"}
  BY <1>1 DEF TypeOK, Status
<1> QED
  BY <1>2, <1>3, <1>4 DEF Empty

(* Every step keeps the outcomes true. *)
LEMMA OutcomeStep == TypeOK /\ PermitInv /\ ProgressInv /\ OutcomeInv /\ [Next]_vars => OutcomeInv'
<1> SUFFICES ASSUME TypeOK, PermitInv, ProgressInv, OutcomeInv, [Next]_vars PROVE OutcomeInv'
  OBVIOUS
<1>0. /\ pc \in [Conn -> {"idle", "authorize", "lookup", "waiting", "running", "handling"}]
      /\ txn \in [Conn -> Txn]
      /\ todo \in [Conn -> SUBSET Device]
      /\ nextEvent \in [Conn -> Nat \ {0}]
      /\ cell \in [Txn -> {Absent, Empty} \cup Status]
      /\ permit \in [Txn -> Conn \cup {NoConn}]
      /\ answers \in [Txn -> SUBSET Status]
      /\ enqueued \in [Txn -> [Device -> Nat]]
      /\ DOMAIN handled = Txn /\ \A t \in Txn : handled[t] \in [1..Events[t] -> Nat]
      /\ \A c \in Conn : /\ pc[c] = "running" => nextEvent[c] <= Events[txn[c]] + 1
                         /\ pc[c] = "handling" => nextEvent[c] \in 1..Events[txn[c]]
  BY DEF TypeOK, Index
<1> USE <1>0, CountedAssumption, EventsAssumption, NoConnAssumption, MaxDropsAssumption
    DEF PermitInv, ProgressInv, OutcomeInv, Done, Status, Absent, Empty, Index, Runs
<1>1. CASE UNCHANGED vars
  BY <1>1 DEF vars, connVars, logVars, workVars
<1>2. ASSUME NEW c \in Conn, NEW t \in Txn, Request(c, t) PROVE OutcomeInv'
  BY <1>2 DEF Request, GoTo, logVars, workVars
<1>3. ASSUME NEW c \in Conn, Authorize(c) PROVE OutcomeInv'
  BY <1>3 DEF Authorize, GoTo, logVars, workVars
<1>4. ASSUME NEW c \in Conn, Refuse(c) PROVE OutcomeInv'
  BY <1>4 DEF Refuse, GoTo, logVars, workVars
<1>5. ASSUME NEW c \in Conn, Lookup(c) PROVE OutcomeInv'
  BY <1>5 DEF Lookup, GoTo, workVars
<1>6. ASSUME NEW c \in Conn, Repeat(c) PROVE OutcomeInv'
  BY <1>6 DEF Repeat, GoTo, workVars
<1>7. ASSUME NEW c \in Conn, Acquire(c) PROVE OutcomeInv'
  BY <1>7 DEF Acquire, GoTo, workVars
<1>8. ASSUME NEW c \in Conn, NEW d \in Device, Enqueue(c, d) PROVE OutcomeInv'
  BY <1>8 DEF Enqueue, logVars
<1>9. ASSUME NEW c \in Conn, BeginEvent(c) PROVE OutcomeInv'
  BY <1>9 DEF BeginEvent, GoTo, logVars
<1>10. ASSUME NEW c \in Conn, EndEvent(c) PROVE OutcomeInv'
  BY <1>10 DEF EndEvent, GoTo, logVars
<1>11. ASSUME NEW c \in Conn, FailSync(c) PROVE OutcomeInv'
  <2>1. Runs(c)
    BY <1>11 DEF FailSync
  <2>2. answers[txn[c]] = {}
    BY <2>1, Unanswered
  <2>3. cell' = [cell EXCEPT ![txn[c]] = "INTERNAL_SERVER_ERROR"]
        /\ answers' = [answers EXCEPT ![txn[c]] = {"INTERNAL_SERVER_ERROR"}]
        /\ UNCHANGED <<enqueued, handled>>
    BY <1>11, <2>2 DEF FailSync, Finish, workVars
  <2> QED
    BY <2>3
<1>12. ASSUME NEW c \in Conn, FailEvent(c) PROVE OutcomeInv'
  <2>1. Runs(c)
    BY <1>12 DEF FailEvent
  <2>2. answers[txn[c]] = {}
    BY <2>1, Unanswered
  <2>3. cell' = [cell EXCEPT ![txn[c]] = "INTERNAL_SERVER_ERROR"]
        /\ answers' = [answers EXCEPT ![txn[c]] = {"INTERNAL_SERVER_ERROR"}]
        /\ UNCHANGED <<enqueued, handled>>
    BY <1>12, <2>2 DEF FailEvent, Finish, workVars
  <2> QED
    BY <2>3
<1>13. ASSUME NEW c \in Conn, Complete(c) PROVE OutcomeInv'
  <2>1. Runs(c)
    BY <1>13 DEF Complete
  <2>2. answers[txn[c]] = {}
    BY <2>1, Unanswered
  <2>3. cell' = [cell EXCEPT ![txn[c]] = "OK"]
        /\ answers' = [answers EXCEPT ![txn[c]] = {"OK"}]
        /\ UNCHANGED <<enqueued, handled>>
    BY <1>13, <2>2 DEF Complete, Finish, workVars
  <2>4. Done(txn[c])
    <3>1. pc[c] = "running" /\ todo[c] = {} /\ nextEvent[c] \notin 1..Events[txn[c]]
      BY <1>13 DEF Complete
    <3>2. nextEvent[c] \in Nat \ {0} /\ Events[txn[c]] \in Nat
      OBVIOUS
    <3>3. nextEvent[c] <= Events[txn[c]] + 1
      BY <3>1
    <3>4. nextEvent[c] = Events[txn[c]] + 1
      BY <3>1, <3>2, <3>3
    <3>5. \A d \in Counted[txn[c]] : enqueued[txn[c]][d] >= 1
      BY <3>1
    <3>6. \A e \in Index(txn[c]) : e < nextEvent[c] => handled[txn[c]][e] >= 1
      BY <3>1
    <3> QED
      BY <3>2, <3>4, <3>5, <3>6
  <2> QED
    BY <2>3, <2>4
<1>14. ASSUME NEW c \in Conn, Drop(c) PROVE OutcomeInv'
  BY <1>14 DEF Drop, Leave, GoTo, workVars
<1>15. QED
  BY <1>1, <1>2, <1>3, <1>4, <1>5, <1>6, <1>7, <1>8, <1>9,
     <1>10, <1>11, <1>12, <1>13, <1>14
     DEF Next, Serve, Work

(* Every step keeps the order of keys and events. *)
LEMMA OrderStep == TypeOK /\ ProgressInv /\ KeysBeforeEventsInOrder /\ [Next]_vars => KeysBeforeEventsInOrder'
<1> SUFFICES ASSUME TypeOK, ProgressInv, KeysBeforeEventsInOrder, [Next]_vars PROVE KeysBeforeEventsInOrder'
  OBVIOUS
<1>0. /\ pc \in [Conn -> {"idle", "authorize", "lookup", "waiting", "running", "handling"}]
      /\ txn \in [Conn -> Txn]
      /\ todo \in [Conn -> SUBSET Device]
      /\ nextEvent \in [Conn -> Nat \ {0}]
      /\ enqueued \in [Txn -> [Device -> Nat]]
      /\ DOMAIN begun = Txn /\ \A t \in Txn : begun[t] \in [1..Events[t] -> Nat]
      /\ DOMAIN handled = Txn /\ \A t \in Txn : handled[t] \in [1..Events[t] -> Nat]
      /\ \A c \in Conn : /\ pc[c] = "running" => nextEvent[c] <= Events[txn[c]] + 1
                         /\ pc[c] = "handling" => nextEvent[c] \in 1..Events[txn[c]]
  BY DEF TypeOK, Index
<1> USE <1>0, CountedAssumption, EventsAssumption, NoConnAssumption, MaxDropsAssumption
    DEF ProgressInv, KeysBeforeEventsInOrder, Status, Absent, Empty, Index, Runs
<1>1. CASE UNCHANGED vars
  BY <1>1 DEF vars, connVars, logVars, workVars
<1>2. ASSUME NEW c \in Conn, NEW t \in Txn, Request(c, t) PROVE KeysBeforeEventsInOrder'
  BY <1>2 DEF Request, GoTo, logVars, workVars
<1>3. ASSUME NEW c \in Conn, Authorize(c) PROVE KeysBeforeEventsInOrder'
  BY <1>3 DEF Authorize, GoTo, logVars, workVars
<1>4. ASSUME NEW c \in Conn, Refuse(c) PROVE KeysBeforeEventsInOrder'
  BY <1>4 DEF Refuse, GoTo, logVars, workVars
<1>5. ASSUME NEW c \in Conn, Lookup(c) PROVE KeysBeforeEventsInOrder'
  BY <1>5 DEF Lookup, GoTo, workVars
<1>6. ASSUME NEW c \in Conn, Repeat(c) PROVE KeysBeforeEventsInOrder'
  BY <1>6 DEF Repeat, GoTo, workVars
<1>7. ASSUME NEW c \in Conn, Acquire(c) PROVE KeysBeforeEventsInOrder'
  BY <1>7 DEF Acquire, GoTo, workVars
<1>8. ASSUME NEW c \in Conn, NEW d \in Device, Enqueue(c, d) PROVE KeysBeforeEventsInOrder'
  BY <1>8 DEF Enqueue, logVars
<1>9. ASSUME NEW c \in Conn, BeginEvent(c) PROVE KeysBeforeEventsInOrder'
  <2>1. /\ pc[c] = "running" /\ todo[c] = {} /\ nextEvent[c] \in Index(txn[c])
        /\ begun' = [begun EXCEPT ![txn[c]][nextEvent[c]] = @ + 1]
        /\ UNCHANGED <<enqueued, handled>>
    BY <1>9 DEF BeginEvent
  <2>2. \A d \in Counted[txn[c]] : enqueued[txn[c]][d] >= 1
    BY <2>1
  <2>4. \A f \in 1..(nextEvent[c] - 1) : handled[txn[c]][f] >= 1
    <3>1. nextEvent[c] \in Nat /\ Events[txn[c]] \in Nat
      OBVIOUS
    <3>2. \A f \in 1..Events[txn[c]] : f < nextEvent[c] => handled[txn[c]][f] >= 1
      BY <2>1
    <3> QED
      BY <2>1, <3>1, <3>2
  <2>3. \A t \in Txn : \A e \in Index(t) :
            begun'[t][e] = begun[t][e] \/ (t = txn[c] /\ e = nextEvent[c])
    <3> TAKE t \in Txn
    <3>1. CASE t # txn[c]
      BY <2>1, <3>1
    <3>2. CASE t = txn[c]
      <4>1. begun'[t] = [begun[t] EXCEPT ![nextEvent[c]] = @ + 1]
        BY <2>1, <3>2
      <4> QED
        BY <3>2, <4>1
    <3> QED
      BY <3>1, <3>2
  <2> QED
    BY <2>1, <2>2, <2>3, <2>4
<1>10. ASSUME NEW c \in Conn, EndEvent(c) PROVE KeysBeforeEventsInOrder'
  BY <1>10 DEF EndEvent, GoTo, logVars
<1>11. ASSUME NEW c \in Conn, FailSync(c) PROVE KeysBeforeEventsInOrder'
  BY <1>11 DEF FailSync, Finish, Leave, GoTo, workVars
<1>12. ASSUME NEW c \in Conn, FailEvent(c) PROVE KeysBeforeEventsInOrder'
  BY <1>12 DEF FailEvent, Finish, Leave, GoTo, workVars
<1>13. ASSUME NEW c \in Conn, Complete(c) PROVE KeysBeforeEventsInOrder'
  BY <1>13 DEF Complete, Finish, Leave, GoTo, workVars
<1>14. ASSUME NEW c \in Conn, Drop(c) PROVE KeysBeforeEventsInOrder'
  BY <1>14 DEF Drop, Leave, GoTo, workVars
<1>15. QED
  BY <1>1, <1>2, <1>3, <1>4, <1>5, <1>6, <1>7, <1>8, <1>9,
     <1>10, <1>11, <1>12, <1>13, <1>14
     DEF Next, Serve, Work

(* Every step keeps the count of repetitions. *)
LEMMA RepeatStep == TypeOK /\ PermitInv /\ RepeatInv /\ [Next]_vars => RepeatInv'
<1> SUFFICES ASSUME TypeOK, PermitInv, RepeatInv, [Next]_vars PROVE RepeatInv'
  OBVIOUS
<1>0. /\ pc \in [Conn -> {"idle", "authorize", "lookup", "waiting", "running", "handling"}]
      /\ txn \in [Conn -> Txn]
      /\ todo \in [Conn -> SUBSET Device]
      /\ nextEvent \in [Conn -> Nat \ {0}]
      /\ cell \in [Txn -> {Absent, Empty} \cup Status]
      /\ permit \in [Txn -> Conn \cup {NoConn}]
      /\ enqueued \in [Txn -> [Device -> Nat]]
      /\ DOMAIN begun = Txn /\ \A t \in Txn : begun[t] \in [1..Events[t] -> Nat]
      /\ dropped \in [Txn -> 0..MaxDrops]
      /\ \A c \in Conn : /\ pc[c] = "running" => nextEvent[c] <= Events[txn[c]] + 1
                         /\ pc[c] = "handling" => nextEvent[c] \in 1..Events[txn[c]]
  BY DEF TypeOK, Index
<1> USE <1>0, CountedAssumption, EventsAssumption, NoConnAssumption, MaxDropsAssumption
    DEF PermitInv, RepeatInv, EnqueuedNow, BegunNow, Status, Absent, Empty, Index, Runs
<1>1. CASE UNCHANGED vars
  BY <1>1 DEF vars, connVars, logVars, workVars
<1>2. ASSUME NEW c \in Conn, NEW t \in Txn, Request(c, t) PROVE RepeatInv'
  BY <1>2 DEF Request, GoTo, logVars, workVars
<1>3. ASSUME NEW c \in Conn, Authorize(c) PROVE RepeatInv'
  BY <1>3 DEF Authorize, GoTo, logVars, workVars
<1>4. ASSUME NEW c \in Conn, Refuse(c) PROVE RepeatInv'
  BY <1>4 DEF Refuse, GoTo, logVars, workVars
<1>5. ASSUME NEW c \in Conn, Lookup(c) PROVE RepeatInv'
  BY <1>5 DEF Lookup, GoTo, workVars
<1>6. ASSUME NEW c \in Conn, Repeat(c) PROVE RepeatInv'
  BY <1>6 DEF Repeat, GoTo, workVars
<1>7. ASSUME NEW c \in Conn, Acquire(c) PROVE RepeatInv'
  BY <1>7 DEF Acquire, GoTo, workVars
<1>8. ASSUME NEW c \in Conn, NEW d \in Device, Enqueue(c, d) PROVE RepeatInv'
  BY <1>8 DEF Enqueue, logVars
<1>9. ASSUME NEW c \in Conn, BeginEvent(c) PROVE RepeatInv'
  BY <1>9 DEF BeginEvent, GoTo, logVars
<1>10. ASSUME NEW c \in Conn, EndEvent(c) PROVE RepeatInv'
  BY <1>10 DEF EndEvent, GoTo, logVars
<1>11. ASSUME NEW c \in Conn, FailSync(c) PROVE RepeatInv'
  BY <1>11 DEF FailSync, Finish, Leave, GoTo, workVars
<1>12. ASSUME NEW c \in Conn, FailEvent(c) PROVE RepeatInv'
  BY <1>12 DEF FailEvent, Finish, Leave, GoTo, workVars
<1>13. ASSUME NEW c \in Conn, Complete(c) PROVE RepeatInv'
  BY <1>13 DEF Complete, Finish, Leave, GoTo, workVars
<1>14. ASSUME NEW c \in Conn, Drop(c) PROVE RepeatInv'
  <2>1. UNCHANGED <<txn, cell, enqueued, begun>>
    BY <1>14 DEF Drop, workVars
  <2>2. CASE Runs(c)
    <3>1. /\ permit' = [permit EXCEPT ![txn[c]] = NoConn]
          /\ dropped' = [dropped EXCEPT ![txn[c]] = @ + 1]
      BY <1>14, <2>2 DEF Drop
    <3>2. \A t \in Txn : t # txn[c] /\ permit[t] # NoConn =>
            /\ permit[t] \in Conn \ {c}
            /\ UNCHANGED <<pc[permit[t]], todo[permit[t]], nextEvent[permit[t]]>>
      BY <1>14 DEF Drop, Leave, GoTo
    <3> QED
      BY <2>1, <3>1, <3>2
  <2>3. CASE ~Runs(c)
    <3>1. UNCHANGED <<permit, dropped>>
      BY <1>14, <2>3 DEF Drop
    <3>2. \A t \in Txn : permit[t] # NoConn =>
            /\ permit[t] \in Conn \ {c}
            /\ UNCHANGED <<pc[permit[t]], todo[permit[t]], nextEvent[permit[t]]>>
      BY <1>14, <2>3 DEF Drop, Leave, GoTo
    <3> QED
      BY <2>1, <3>1, <3>2
  <2> QED
    BY <2>2, <2>3
<1>15. QED
  BY <1>1, <1>2, <1>3, <1>4, <1>5, <1>6, <1>7, <1>8, <1>9,
     <1>10, <1>11, <1>12, <1>13, <1>14
     DEF Next, Serve, Work

-----------------------------------------------------------------------------
(* The inductive invariant. *)
THEOREM Invariance == Spec => []IInv
<1>1. Init => IInv
  <2> SUFFICES ASSUME Init PROVE IInv
    OBVIOUS
  <2> USE CountedAssumption, EventsAssumption, NoConnAssumption, MaxDropsAssumption
      DEF Init, Status, Absent, Empty, Index, Runs
  <2>1. TypeOK
    BY DEF TypeOK
  <2>2. PermitInv /\ ProgressInv
    BY DEF PermitInv, ProgressInv
  <2>3. OutcomeInv /\ KeysBeforeEventsInOrder
    BY DEF OutcomeInv, KeysBeforeEventsInOrder
  <2>4. RepeatInv
    <3> SUFFICES ASSUME NEW t \in Txn
                 PROVE  /\ \A d \in Device : /\ enqueued[t][d] <= dropped[t] + 1
                                             /\ enqueued[t][d] <= dropped[t]
                        /\ \A e \in Index(t) : /\ begun[t][e] <= dropped[t] + 1
                                               /\ begun[t][e] <= dropped[t]
      BY DEF RepeatInv
    <3>1. dropped[t] = 0
      OBVIOUS
    <3>2. \A d \in Device : enqueued[t][d] = 0
      OBVIOUS
    <3>3. \A e \in Index(t) : begun[t][e] = 0
      OBVIOUS
    <3> QED
      BY <3>1, <3>2, <3>3
  <2> QED
    BY <2>1, <2>2, <2>3, <2>4 DEF IInv
<1>2. IInv /\ [Next]_vars => IInv'
  BY TypeStep, PermitStep, ProgressStep, OutcomeStep, OrderStep, RepeatStep DEF IInv
<1>3. QED
  BY <1>1, <1>2, PTL DEF Spec

(* Every variable keeps its type, and no body runs past the last event of   *)
(* its transaction (handle_transaction).                                    *)
THEOREM TypeCorrect == Spec => []TypeOK
<1>1. IInv => TypeOK
  BY DEF IInv
<1> QED
  BY <1>1, Invariance, PTL

(* Two requests with the same id never run the body at the same time        *)
(* (lock_while).                                                            *)
THEOREM MutualExclusion == Spec => []OneAttemptAtATime
<1>1. IInv => OneAttemptAtATime
  BY DEF IInv, TypeOK, PermitInv, OneAttemptAtATime
<1> QED
  BY <1>1, Invariance, PTL

(* A 200 means that every counted device got its changes and every event    *)
(* was handled (handle_transaction).                                        *)
THEOREM Acknowledgement == Spec => []AcknowledgedMeansDone
<1>1. IInv => AcknowledgedMeansDone
  BY DEF IInv, TypeOK, OutcomeInv, Done, AcknowledgedMeansDone, Status
<1> QED
  BY <1>1, Invariance, PTL

(* Keys are enqueued before events are dispatched, and events are           *)
(* dispatched in order, whatever attempts are dropped (handle_transaction). *)
THEOREM Ordering == Spec => []KeysBeforeEventsInOrder
<1>1. IInv => KeysBeforeEventsInOrder
  BY DEF IInv
<1> QED
  BY <1>1, Invariance, PTL

(* Nothing is done more often than one time plus the attempts that were     *)
(* dropped (lock_while).                                                    *)
THEOREM Repetition == Spec => []RepeatsOnlyAfterDrops
<1>1. IInv => RepeatsOnlyAfterDrops
  <2> SUFFICES ASSUME IInv PROVE RepeatsOnlyAfterDrops
    OBVIOUS
  <2> SUFFICES ASSUME NEW t \in Txn
               PROVE  /\ \A d \in Device : enqueued[t][d] <= 1 + dropped[t]
                      /\ \A e \in Index(t) : begun[t][e] <= 1 + dropped[t]
    BY DEF RepeatsOnlyAfterDrops
  <2>1. dropped[t] \in Nat
    BY MaxDropsAssumption DEF IInv, TypeOK
  <2>2. /\ \A d \in Device : enqueued[t][d] <= dropped[t] + 1
        /\ \A e \in Index(t) : begun[t][e] <= dropped[t] + 1
    BY DEF IInv, RepeatInv
  <2>3. 1 + dropped[t] = dropped[t] + 1
    BY <2>1
  <2> QED
    BY <2>2, <2>3
<1> QED
  BY <1>1, Invariance, PTL

-----------------------------------------------------------------------------
(* The transaction log implements OnceResponse: the cell is the outcome, a  *)
(* step of the body is Work, its end is Decide, a hit in the log is Repeat. *)
THEOREM Refinement == Spec => OnceResponseSpec
<1>1. Init => Once!Init
  BY DEF Init, Once!Init, Status, Absent, Empty
<1>2. IInv /\ [Next]_vars => [Once!Next]_(Once!vars)
  <2> DEFINE out == [t \in Txn |-> IF cell[t] \in Status THEN cell[t] ELSE Empty]
             eff == [t \in Txn |-> <<enqueued[t], begun[t], handled[t]>>]
  <2> SUFFICES ASSUME IInv, [Next]_vars PROVE [Once!Next]_(Once!vars)
    OBVIOUS
  <2>0. /\ pc \in [Conn -> {"idle", "authorize", "lookup", "waiting", "running", "handling"}]
        /\ txn \in [Conn -> Txn]
        /\ cell \in [Txn -> {Absent, Empty} \cup Status]
        /\ answers \in [Txn -> SUBSET Status]
        /\ \A c \in Conn : Runs(c) => cell[txn[c]] = Empty
    BY NoConnAssumption DEF IInv, TypeOK, PermitInv
  <2> USE <2>0 DEF Status, Absent, Empty, Runs
  <2>1. ASSUME UNCHANGED <<cell, answers, workVars>> PROVE UNCHANGED Once!vars
    BY <2>1 DEF Once!vars, workVars
  <2>2. CASE UNCHANGED vars
    BY <2>1, <2>2 DEF vars, logVars
  <2>3. ASSUME NEW c \in Conn, \/ \E t \in Txn : Request(c, t)
                               \/ Authorize(c) \/ Refuse(c) \/ Acquire(c) \/ Drop(c)
        PROVE  UNCHANGED Once!vars
    BY <2>1, <2>3 DEF Request, Authorize, Refuse, Acquire, Drop, logVars
  <2>4. ASSUME NEW c \in Conn, Lookup(c) PROVE UNCHANGED Once!vars
    <3>1. /\ cell' = [cell EXCEPT ![txn[c]] = IF @ = Absent THEN Empty ELSE @]
          /\ UNCHANGED <<answers, workVars>>
      BY <2>4 DEF Lookup
    <3>2. UNCHANGED out
      BY <3>1
    <3> QED
      BY <3>1, <3>2 DEF Once!vars, workVars
  <2>5. ASSUME NEW c \in Conn, Repeat(c) PROVE Once!Repeat(txn[c])
    BY <2>5 DEF Repeat, Once!Repeat, workVars
  <2>6. ASSUME NEW c \in Conn, NEW s \in Status, Runs(c), Finish(c, s)
        PROVE  Once!Decide(txn[c], s)
    <3>1. /\ cell' = [cell EXCEPT ![txn[c]] = s]
          /\ answers' = [answers EXCEPT ![txn[c]] = @ \cup {s}]
          /\ UNCHANGED eff
      BY <2>6 DEF Finish, workVars
    <3>2. out' = [out EXCEPT ![txn[c]] = s]
      BY <3>1
    <3>3. out[txn[c]] = Empty
      BY <2>6
    <3> QED
      BY <3>1, <3>2, <3>3 DEF Once!Decide
  <2>7. ASSUME NEW c \in Conn,
               (\E d \in Device : Enqueue(c, d)) \/ BeginEvent(c) \/ EndEvent(c)
        PROVE  Once!Work(txn[c])
    <3>1. Runs(c) /\ UNCHANGED <<cell, answers>>
      BY <2>7 DEF Enqueue, BeginEvent, EndEvent, logVars
    <3>2. \A u \in Txn \ {txn[c]} :
              enqueued'[u] = enqueued[u] /\ begun'[u] = begun[u] /\ handled'[u] = handled[u]
      <4>1. DOMAIN begun = Txn /\ DOMAIN handled = Txn /\ enqueued \in [Txn -> [Device -> Nat]]
        BY DEF IInv, TypeOK
      <4>2. ASSUME NEW d \in Device, Enqueue(c, d)
            PROVE  \A u \in Txn \ {txn[c]} : enqueued'[u] = enqueued[u]
        BY <4>1, <4>2 DEF Enqueue
      <4>3. ASSUME BeginEvent(c)
            PROVE  \A u \in Txn \ {txn[c]} : begun'[u] = begun[u]
        BY <4>1, <4>3 DEF BeginEvent
      <4>4. ASSUME EndEvent(c)
            PROVE  \A u \in Txn \ {txn[c]} : handled'[u] = handled[u]
        BY <4>1, <4>4 DEF EndEvent
      <4> QED
        BY <2>7, <4>2, <4>3, <4>4 DEF Enqueue, BeginEvent, EndEvent
    <3> QED
      BY <3>1, <3>2 DEF Once!Work
  <2>8. ASSUME NEW c \in Conn, FailSync(c) \/ FailEvent(c) \/ Complete(c)
        PROVE  \E s \in Status : Once!Decide(txn[c], s)
    BY <2>6, <2>8 DEF FailSync, FailEvent, Complete
  <2>9. ASSUME NEW c \in Conn,
               \/ Repeat(c) \/ FailSync(c) \/ FailEvent(c) \/ Complete(c)
               \/ (\E d \in Device : Enqueue(c, d)) \/ BeginEvent(c) \/ EndEvent(c)
        PROVE  Once!Next
    <3>1. txn[c] \in Txn
      OBVIOUS
    <3>2. CASE Repeat(c)
      BY <2>5, <3>1, <3>2 DEF Once!Next
    <3>3. CASE FailSync(c) \/ FailEvent(c) \/ Complete(c)
      BY <2>8, <3>1, <3>3 DEF Once!Next
    <3>4. CASE (\E d \in Device : Enqueue(c, d)) \/ BeginEvent(c) \/ EndEvent(c)
      <4>1. Once!Work(txn[c])
        BY <2>7, <3>4
      <4>2. \E t \in Txn : Once!Work(t)
        BY <3>1, <4>1 DEF Once!Work
      <4> QED
        BY <4>2, Zenon DEF Once!Next
    <3> QED
      BY <2>9, <3>2, <3>3, <3>4
  <2> QED
    BY <2>2, <2>3, <2>4, <2>9 DEF Next, Serve, Work
<1>3. QED
  BY <1>1, <1>2, Invariance, PTL DEF Spec, OnceResponseSpec, Once!Spec
=============================================================================
