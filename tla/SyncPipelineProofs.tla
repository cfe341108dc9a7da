------------------------- MODULE SyncPipelineProofs -------------------------
(***************************************************************************)
(* Proofs about SyncPipeline, for any capacity, any number of runs,        *)
(* transactions and attempts.  The pipeline implements DeviceLoop, so the  *)
(* theorems of DeviceLoopProofs hold in it.                                *)
(***************************************************************************)
EXTENDS SyncPipeline, SequenceTheorems, TLAPS

DeviceThm == INSTANCE DeviceLoopProofs

-----------------------------------------------------------------------------
(* Every step of the pipeline is one of the device, or none. *)
LEMMA Initially == Init => Device!Init
  BY DEF Init, Device!Init

(* Bounds of the handler's own variables. *)
HandlerTypeOK == /\ at \in {"idle", "sending", "events", "refused"}
                 /\ try \in 1 .. MaxTry
                 /\ acked \in 0 .. MaxTxn
                 /\ at # "idle" => txn <= MaxTxn

(* They hold at the start *)
LEMMA HandlerTypeInit == Init => HandlerTypeOK
  BY BoundsAssumption DEF Init, HandlerTypeOK

(* and after every step. *)
LEMMA HandlerTypeStep == ASSUME HandlerTypeOK, [Next]_vars PROVE HandlerTypeOK'
<1> USE BoundsAssumption DEF HandlerTypeOK, txn
<1>1. CASE Begin
  BY <1>1 DEF Begin
<1>2. CASE Enqueued
  BY <1>2 DEF Enqueued
<1>3. CASE Acknowledge
  BY <1>3 DEF Acknowledge
<1>4. CASE Refuse
  BY <1>4 DEF Refuse
<1>5. CASE Drop
  BY <1>5 DEF Drop
<1>6. CASE Loops
  BY <1>6 DEF Loops
<1>7. CASE UNCHANGED vars
  BY <1>7 DEF vars
<1> QED
  BY <1>1, <1>2, <1>3, <1>4, <1>5, <1>6, <1>7 DEF Next

(* A change that is on its way is one of the device's. *)
LEMMA OnItsWay == ASSUME HandlerTypeOK, txn <= MaxTxn PROVE <<txn, try>> \in Change
  BY BoundsAssumption DEF HandlerTypeOK, txn, Change

(* Each step of the handler is a step of the channel, or leaves it alone. *)
LEMMA DeviceStep == ASSUME HandlerTypeOK, [Next]_vars PROVE [Device!Next]_(Device!vars)
<1> DEFINE x == <<txn, try>>
<1>1. CASE Begin
  <2>1. x \in Change /\ Device!Send(x)
    BY <1>1, OnItsWay DEF Begin
  <2> QED
    BY <2>1 DEF Device!Next
<1>2. CASE Enqueued
  <2>1. x \in Change /\ Device!Accept(x)
    BY <1>2, OnItsWay DEF Enqueued, HandlerTypeOK
  <2> QED
    BY <2>1 DEF Device!Next
<1>3. CASE UNCHANGED deviceVars
  BY <1>3 DEF deviceVars, Device!vars, Device!channelVars
<1>4. CASE Drop /\ Device!Abandon(x)
  <2>1. x \in Change
    BY <1>4, OnItsWay DEF Drop, HandlerTypeOK
  <2> QED
    BY <1>4, <2>1 DEF Device!Next
<1>5. CASE Loops
  BY <1>5 DEF Loops, Device!Next
<1> QED
  BY <1>1, <1>2, <1>3, <1>4, <1>5 DEF Next, Acknowledge, Refuse, Drop, vars

(* In the pipeline a device behaves as DeviceLoop says (send_sync_changes,  *)
(* run and stop are called by nobody else).                                 *)
THEOREM ImplementsDeviceLoop == Spec => Device!Spec
<1> QED
  BY Initially, HandlerTypeInit, HandlerTypeStep, DeviceStep, PTL DEF Spec, Device!Spec

(* DeviceLoopProofs speaks of the same steps. *)
LEMMA SameInit == Device!Init => DeviceThm!Init
  BY DEF Device!Init, DeviceThm!Init

(* The instance of the proofs has the steps of the instance of the module. *)
LEMMA SameStep == [Device!Next]_(Device!vars) => [DeviceThm!Next]_(DeviceThm!vars)
<1> USE DEF Device!Step, DeviceThm!Step, Device!channelVars, DeviceThm!channelVars
<1>1. ASSUME NEW r \in Run, Device!Prepare(r) PROVE DeviceThm!Prepare(r)
  <2>1. CASE Device!Begin(r)
    BY <2>1 DEF Device!Begin, DeviceThm!Begin, DeviceThm!Prepare
  <2>2. CASE Device!FailToPrepare(r)
    BY <2>2 DEF Device!FailToPrepare, DeviceThm!FailToPrepare, DeviceThm!Prepare
  <2>3. CASE Device!SetToken(r)
    BY <2>3 DEF Device!SetToken, DeviceThm!SetToken, DeviceThm!Prepare,
                Device!Alive, DeviceThm!Alive, Device!Loops, DeviceThm!Loops
  <2>4. CASE Device!TakeReceiver(r)
    BY <2>4 DEF Device!TakeReceiver, DeviceThm!TakeReceiver, DeviceThm!Prepare
  <2>5. CASE Device!Refuse(r)
    BY <2>5 DEF Device!Refuse, DeviceThm!Refuse, DeviceThm!Prepare
  <2> QED
    BY <1>1, <2>1, <2>2, <2>3, <2>4, <2>5 DEF Device!Prepare
<1>2. ASSUME NEW r \in Run, Device!Loop(r) PROVE DeviceThm!Loop(r)
  <2>1. CASE Device!SeeCancel(r)
    BY <2>1 DEF Device!SeeCancel, DeviceThm!SeeCancel, DeviceThm!Loop
  <2>2. CASE Device!Poll(r)
    BY <2>2 DEF Device!Poll, DeviceThm!Poll, DeviceThm!Loop
  <2>3. CASE Device!Receive(r)
    BY <2>3 DEF Device!Receive, DeviceThm!Receive, DeviceThm!Loop
  <2>4. CASE Device!Synced(r)
    BY <2>4 DEF Device!Synced, DeviceThm!Synced, DeviceThm!Loop
  <2>5. CASE Device!Tick(r)
    BY <2>5 DEF Device!Tick, DeviceThm!Tick, DeviceThm!Loop
  <2>6. CASE Device!Ticked(r)
    BY <2>6 DEF Device!Ticked, DeviceThm!Ticked, DeviceThm!Loop
  <2>7. CASE Device!Sleep(r)
    BY <2>7 DEF Device!Sleep, DeviceThm!Sleep, DeviceThm!Loop
  <2>8. CASE Device!ReturnReceiver(r)
    BY <2>8 DEF Device!ReturnReceiver, DeviceThm!ReturnReceiver, DeviceThm!Loop
  <2> QED
    BY <1>2, <2>1, <2>2, <2>3, <2>4, <2>5, <2>6, <2>7, <2>8 DEF Device!Loop
<1>3. ASSUME NEW x \in Change, Device!Send(x) \/ Device!Accept(x) \/ Device!Abandon(x)
      PROVE  DeviceThm!Send(x) \/ DeviceThm!Accept(x) \/ DeviceThm!Abandon(x)
  BY <1>3 DEF Device!Send, DeviceThm!Send, Device!Accept, DeviceThm!Accept,
              Device!Abandon, DeviceThm!Abandon
<1>4. Device!Stop => DeviceThm!Stop
  BY DEF Device!Stop, DeviceThm!Stop
<1>5. UNCHANGED Device!vars => UNCHANGED DeviceThm!vars
  BY DEF Device!vars, DeviceThm!vars
<1> QED
  BY <1>1, <1>2, <1>3, <1>4, <1>5 DEF Device!Next, DeviceThm!Next

(* What DeviceLoopProofs shows of every device. *)
LEMMA DeviceIsProved ==
    Spec => [](DeviceThm!TypeOK /\ DeviceThm!HandInv /\ DeviceThm!NoLossNoReorder)
<1>1. Spec => DeviceThm!Spec
  BY ImplementsDeviceLoop, SameInit, SameStep, PTL DEF Device!Spec, DeviceThm!Spec
<1>2. DeviceThm!Spec => []DeviceThm!IInv
  BY DeviceThm!Invariance, DeviceAssumption
<1>3. DeviceThm!IInv => DeviceThm!TypeOK /\ DeviceThm!HandInv /\ DeviceThm!NoLossNoReorder
  BY DEF DeviceThm!IInv
<1> QED
  BY <1>1, <1>2, <1>3, PTL

-----------------------------------------------------------------------------
(* The transactions that were acknowledged, and the one whose events are    *)
(* dispatched as the last, have had their changes accepted.                 *)
Arrived(t) == \E i \in DOMAIN accepted : accepted[i][1] = t

AcceptedInOrder ==
    /\ accepted \in Seq(Change)
    /\ at = "events" => accepted # <<>> /\ accepted[Len(accepted)][1] = txn
    /\ \A t \in 1 .. acked : Arrived(t)

(* The inductive invariant of the handler. *)
IInv == HandlerTypeOK /\ AcceptedInOrder

(* Nothing is accepted at the start. *)
LEMMA OrderInit == Init => AcceptedInOrder
  BY DEF Init, Device!Init, AcceptedInOrder

(* The loops take from the channel; what it accepted stays. *)
LEMMA LoopsKeepAccepted == Loops => UNCHANGED <<accepted, at, try, acked>>
  BY DEF Loops, Device!Prepare, Device!Loop, Device!channelVars,
         Device!Begin, Device!FailToPrepare, Device!SetToken, Device!TakeReceiver, Device!Refuse,
         Device!SeeCancel, Device!Poll, Device!Receive, Device!Synced, Device!Tick, Device!Ticked,
         Device!Sleep, Device!ReturnReceiver, Device!Stop

(* Only Enqueued makes the channel accept a change: that of the transaction. *)
LEMMA AcceptedOnly ==
    ASSUME HandlerTypeOK, [Next]_vars
    PROVE  \/ accepted' = accepted
           \/ Enqueued /\ <<txn, try>> \in Change /\ accepted' = Append(accepted, <<txn, try>>)
<1>1. CASE Enqueued
  <2>1. <<txn, try>> \in Change
    BY <1>1, OnItsWay DEF Enqueued, HandlerTypeOK
  <2> QED
    BY <1>1, <2>1 DEF Enqueued, Device!Accept
<1> QED
  BY <1>1, LoopsKeepAccepted
     DEF Next, Begin, Acknowledge, Refuse, Drop, vars, deviceVars, Device!Send, Device!Abandon

(* What has arrived stays so, and a transaction's change arrives before its  *)
(* events are dispatched.                                                   *)
LEMMA OrderStep == ASSUME IInv, [Next]_vars PROVE AcceptedInOrder'
<1> USE DEF IInv, AcceptedInOrder, HandlerTypeOK, Arrived, txn
<1>1. CASE Enqueued
  <2>1. /\ <<txn, try>> \in Change /\ accepted' = Append(accepted, <<txn, try>>)
        /\ UNCHANGED acked
    BY <1>1, OnItsWay DEF Enqueued, Device!Accept
  <2>2. /\ accepted' \in Seq(Change) /\ Len(accepted') = Len(accepted) + 1
        /\ accepted'[Len(accepted) + 1] = <<txn, try>>
        /\ \A i \in DOMAIN accepted : i \in DOMAIN accepted' /\ accepted'[i] = accepted[i]
    BY <2>1, AppendProperties
  <2> QED
    BY <2>1, <2>2
<1>2. CASE Acknowledge
  <2>1. accepted' = accepted /\ at' = "idle" /\ acked' = acked + 1 /\ at = "events"
    BY <1>2 DEF Acknowledge, deviceVars
  <2>2. Arrived(txn)
    BY <2>1
  <2> QED
    BY <2>1, <2>2
<1>3. CASE Begin \/ Refuse \/ Drop
  BY <1>3 DEF Begin, Refuse, Drop, deviceVars, Device!Send, Device!Abandon
<1>4. CASE Loops
  BY <1>4, LoopsKeepAccepted
<1>5. CASE UNCHANGED vars
  BY <1>5 DEF vars, deviceVars
<1> QED
  BY <1>1, <1>2, <1>3, <1>4, <1>5 DEF Next

(* The invariant of the pipeline, by way of that of the device. *)
LEMMA Invariance == Spec => []IInv
<1>1. Init => IInv
  BY HandlerTypeInit, OrderInit DEF IInv
<1>2. IInv /\ [Next]_vars => IInv'
  BY HandlerTypeStep, OrderStep DEF IInv
<1> QED
  BY <1>1, <1>2, PTL DEF Spec

-----------------------------------------------------------------------------
(* The numbers of the accepted changes, as DeliveredInOrder has them. *)
Log(s) == [i \in DOMAIN s |-> s[i][1]]

(* The log of nothing is empty, *)
LEMMA LogOfEmpty == Log(<<>>) = <<>>
<1>1. Log(<<>>) \in Seq(Nat) /\ Len(Log(<<>>)) = 0
  BY IsASeq DEF Log
<1> QED
  BY <1>1, EmptySeq

(* and one more change is one more entry at its end. *)
LEMMA LogOfAppend ==
    ASSUME NEW s \in Seq(Change), NEW x \in Change
    PROVE  Log(Append(s, x)) = Append(Log(s), x[1])
<1> DEFINE a == Append(s, x)
<1>1. /\ a \in Seq(Change) /\ Len(a) = Len(s) + 1 /\ a[Len(s) + 1] = x
      /\ \A i \in 1 .. Len(s) : a[i] = s[i]
  BY AppendProperties
<1>2. \A y \in Change : y[1] \in 1 .. MaxTxn
  BY DEF Change
<1>3. /\ Log(s) \in Seq(1 .. MaxTxn) /\ Len(Log(s)) = Len(s)
      /\ \A i \in 1 .. Len(s) : Log(s)[i] = s[i][1]
  <2>1. \A i \in 1 .. Len(s) : s[i] \in Change
    BY ElementOfSeq
  <2>2. DOMAIN s = 1 .. Len(s) /\ Len(s) \in Nat
    BY LenProperties
  <2>3. Log(s) = [i \in 1 .. Len(s) |-> s[i][1]]
    BY <2>2 DEF Log
  <2>4. \A i \in 1 .. Len(s) : s[i][1] \in 1 .. MaxTxn
    BY <2>1, <1>2
  <2> QED
    BY <2>2, <2>3, <2>4, IsASeq
<1>4. /\ Log(a) \in Seq(1 .. MaxTxn) /\ Len(Log(a)) = Len(s) + 1
      /\ \A i \in 1 .. Len(s) + 1 : Log(a)[i] = a[i][1]
  <2>1. \A i \in 1 .. Len(a) : a[i] \in Change
    BY <1>1, ElementOfSeq
  <2>2. DOMAIN a = 1 .. Len(s) + 1 /\ Len(s) + 1 \in Nat
    BY <1>1, LenProperties
  <2>3. Log(a) = [i \in 1 .. Len(s) + 1 |-> a[i][1]]
    BY <2>2 DEF Log
  <2>4. \A i \in 1 .. Len(s) + 1 : a[i][1] \in 1 .. MaxTxn
    BY <1>1, <2>1, <1>2
  <2> QED
    BY <2>2, <2>3, <2>4, IsASeq
<1>5. /\ Append(Log(s), x[1]) \in Seq(1 .. MaxTxn)
      /\ Len(Append(Log(s), x[1])) = Len(s) + 1
      /\ \A i \in 1 .. Len(s) : Append(Log(s), x[1])[i] = s[i][1]
      /\ Append(Log(s), x[1])[Len(s) + 1] = x[1]
  BY <1>2, <1>3, AppendProperties
<1>6. \A i \in 1 .. Len(s) + 1 : Log(a)[i] = Append(Log(s), x[1])[i]
  BY <1>1, <1>4, <1>5, LenProperties
<1> HIDE DEF a
<1> QED
  BY <1>4, <1>5, <1>6, SeqEqual DEF a

(* The initial states map to the initial state. *)
LEMMA RefinementInit == Init => Delivery!Init
  BY LogOfEmpty DEF Init, Device!Init, Delivery!Init, Log

(* A change that is accepted arrives, an acknowledgement follows one that  *)
(* arrived, and all else stutters.                                         *)
LEMMA RefinementStep == ASSUME IInv, [Next]_vars PROVE [Delivery!Next]_(Delivery!vars)
<1> USE DEF IInv, HandlerTypeOK, AcceptedInOrder
<1>1. CASE Enqueued
  <2>1. /\ <<txn, try>> \in Change /\ accepted' = Append(accepted, <<txn, try>>)
        /\ UNCHANGED acked
    BY <1>1, OnItsWay DEF Enqueued, Device!Accept
  <2>2. Log(accepted') = Append(Log(accepted), txn)
    BY <2>1, LogOfAppend
  <2> QED
    BY <2>1, <2>2 DEF Log, txn, Delivery!Next, Delivery!Arrive
<1>2. CASE Acknowledge
  <2>1. at = "events" /\ acked' = acked + 1 /\ accepted' = accepted
    BY <1>2 DEF Acknowledge, deviceVars
  <2>2. accepted # <<>> /\ Len(accepted) \in DOMAIN accepted /\ DOMAIN accepted = 1 .. Len(accepted)
    BY <2>1, LenProperties, EmptySeq
  <2>3. Len(Log(accepted)) = Len(accepted) /\ Log(accepted) # <<>>
    BY <2>2, LenProperties DEF Log
  <2>4. Log(accepted)[Len(accepted)] = acked + 1
    BY <2>1, <2>2 DEF Log, txn
  <2> QED
    BY <2>1, <2>3, <2>4 DEF Log, Delivery!Next, Delivery!Acknowledge
<1>3. CASE UNCHANGED <<accepted, acked>>
  BY <1>3 DEF Delivery!vars
<1> QED
  BY <1>1, <1>2, <1>3, LoopsKeepAccepted
     DEF Next, Begin, Refuse, Drop, vars, deviceVars, Device!Send, Device!Abandon

(* A device gets the changes of the transactions in order, each before its  *)
(* transaction is acknowledged (handle_transaction, send_sync_changes).     *)
THEOREM Delivered == Spec => DeliveredInOrder
<1> QED
  BY Invariance, RefinementInit, RefinementStep, PTL DEF Spec, DeliveredInOrder, Delivery!Spec

-----------------------------------------------------------------------------
(* Every variable keeps its type and the channel its capacity, also with a  *)
(* handler that is dropped while it waits for room (handle_transaction).    *)
THEOREM TypeCorrect == Spec => []TypeOK
<1>1. DeviceThm!TypeOK /\ IInv => TypeOK
  BY DEF DeviceThm!TypeOK, Device!TypeOK, DeviceThm!Labels, Device!Labels,
         IInv, HandlerTypeOK, TypeOK
<1> QED
  BY <1>1, DeviceIsProved, Invariance, PTL

(* What is accepted is synced, or among the last Capacity + 1. *)
LEMMA SyncedOrLatest ==
    ASSUME DeviceThm!TypeOK, DeviceThm!HandInv, DeviceThm!NoLossNoReorder,
           NEW i \in DOMAIN accepted
    PROVE  (i \in DOMAIN synced /\ synced[i] = accepted[i]) \/ i + Capacity >= Len(accepted)
<1>1. /\ synced \in Seq(Change) /\ queue \in Seq(Change) /\ accepted \in Seq(Change)
      /\ Len(queue) <= Capacity
  BY DEF DeviceThm!TypeOK
<1>2. /\ Len(synced) \in Nat /\ Len(queue) \in Nat /\ i \in 1 .. Len(accepted)
      /\ DOMAIN synced = 1 .. Len(synced) /\ Capacity \in Nat
  BY <1>1, LenProperties, DeviceAssumption
<1>3. ASSUME NEW h \in Seq(Change), Len(h) <= 1, accepted = (synced \o h) \o queue
      PROVE  (i \in DOMAIN synced /\ synced[i] = accepted[i]) \/ i + Capacity >= Len(accepted)
  <2>1. /\ synced \o h \in Seq(Change) /\ Len(synced \o h) = Len(synced) + Len(h)
        /\ \A k \in 1 .. Len(synced) + Len(h) : k <= Len(synced) => (synced \o h)[k] = synced[k]
    BY <1>1, <1>3, ConcatProperties
  <2>2. /\ Len(accepted) = Len(synced) + Len(h) + Len(queue) /\ Len(h) \in Nat
        /\ i <= Len(synced) + Len(h) => accepted[i] = (synced \o h)[i]
    BY <1>1, <1>2, <1>3, <2>1, ConcatProperties, LenProperties
  <2>3. CASE i <= Len(synced)
    BY <1>2, <2>1, <2>2, <2>3
  <2>4. CASE i > Len(synced)
    BY <1>1, <1>2, <1>3, <2>2, <2>4
  <2> QED
    BY <1>2, <2>3, <2>4
<1>4. CASE \E r \in Run : pc[r] = "syncing"
  <2>1. PICK r \in Run : pc[r] = "syncing"
    BY <1>4
  <2>2. hand[r] \in Change
    BY <2>1 DEF DeviceThm!TypeOK, DeviceThm!HandInv
  <2> DEFINE h == <<hand[r]>>
  <2>3. accepted = (synced \o h) \o queue
    BY <2>1 DEF DeviceThm!NoLossNoReorder
  <2>4. h \in Seq(Change) /\ Len(h) <= 1
    BY <2>2
  <2> HIDE DEF h
  <2> QED
    BY <1>3, <2>3, <2>4
<1>5. CASE \A r \in Run : pc[r] # "syncing"
  <2>1. accepted = synced \o queue
    BY <1>5 DEF DeviceThm!NoLossNoReorder
  <2> DEFINE h == <<>>
  <2>2. synced \o h = synced /\ h \in Seq(Change) /\ Len(h) <= 1
    BY <1>1, ConcatEmptySeq
  <2> HIDE DEF h
  <2> QED
    BY <1>3, <2>1, <2>2
<1> QED
  BY <1>4, <1>5

(* While the events of a transaction are dispatched, its keys and all those *)
(* before it are in the OlmMachine or among the last that fit into the      *)
(* channel and the loop's hand (extract_sync_tasks, run).                   *)
THEOREM LatestMayBeMissing == Spec => []OnlyLatestKeysAreMissing
<1>1. DeviceThm!TypeOK /\ DeviceThm!HandInv /\ DeviceThm!NoLossNoReorder /\ IInv
         => OnlyLatestKeysAreMissing
  <2> SUFFICES ASSUME DeviceThm!TypeOK, DeviceThm!HandInv, DeviceThm!NoLossNoReorder, IInv,
                      at = "events", NEW t \in 1 .. txn
               PROVE  Synced(t) \/ Latest(t)
    BY DEF OnlyLatestKeysAreMissing
  <2>1. Arrived(t)
    <3>1. CASE t = txn
      BY <3>1, LenProperties, EmptySeq DEF IInv, AcceptedInOrder, Arrived
    <3>2. CASE t # txn
      BY <3>2 DEF IInv, AcceptedInOrder, HandlerTypeOK, txn
    <3> QED
      BY <3>1, <3>2
  <2>2. PICK i \in DOMAIN accepted : accepted[i][1] = t
    BY <2>1 DEF Arrived
  <2> QED
    BY <2>2, SyncedOrLatest DEF Synced, Latest
<1> QED
  BY <1>1, DeviceIsProved, Invariance, PTL
=============================================================================
