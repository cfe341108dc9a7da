-------------------------- MODULE DeviceLoopProofs --------------------------
(***************************************************************************)
(* Proofs about DeviceLoop, for any number of runs and changes and any     *)
(* capacity of the channel.                                                *)
(***************************************************************************)
EXTENDS DeviceLoop, SequenceTheorems, TLAPS

(* A loop holds a change exactly while it gives it to the OlmMachine. *)
HandInv == \A r \in Run : pc[r] = "syncing" <=> hand[r] # None

(* Only a call that set its token can be cancelled, only a cancelled loop   *)
(* returns, the kept token is not cancelled and belongs to a call that is   *)
(* not over; unless the device is crowded, no other token is alive.         *)
TokenInv ==
    /\ \A r \in cancelled : pc[r] \notin {"new", "preparing", "failed"}
    /\ \A r \in Run : pc[r] = "returning" => r \in cancelled
    /\ token # None => token \notin cancelled
    /\ token # None => Loops(token) \/ pc[token] \in {"armed", "refused"}
    /\ ~crowded => \A r \in Run : Alive(r) => token = r

IInv == /\ TypeOK
        /\ OneLoop
        /\ HandInv
        /\ TokenInv
        /\ NoLossNoReorder

-----------------------------------------------------------------------------

(* Every step keeps the types. *)
LEMMA TypeStep == TypeOK /\ HandInv /\ [Next]_vars => TypeOK'
<1> SUFFICES ASSUME TypeOK, HandInv, [Next]_vars PROVE TypeOK'
  OBVIOUS
<1> USE CapacityAssumption, NoneAssumption DEF TypeOK, HandInv, Labels
<1>1. CASE UNCHANGED vars
  BY <1>1 DEF vars, channelVars
<1>2. ASSUME NEW r \in Run, Begin(r) PROVE TypeOK'
  BY <1>2 DEF Begin, Step, channelVars
<1>3. ASSUME NEW r \in Run, FailToPrepare(r) PROVE TypeOK'
  BY <1>3 DEF FailToPrepare, Step, channelVars
<1>4. ASSUME NEW r \in Run, SetToken(r) PROVE TypeOK'
  BY <1>4 DEF SetToken, Step, channelVars
<1>5. ASSUME NEW r \in Run, TakeReceiver(r) PROVE TypeOK'
  BY <1>5 DEF TakeReceiver, Step, channelVars
<1>6. ASSUME NEW r \in Run, Refuse(r) PROVE TypeOK'
  BY <1>6 DEF Refuse, Step, channelVars
<1>7. ASSUME NEW r \in Run, SeeCancel(r) PROVE TypeOK'
  BY <1>7 DEF SeeCancel, Step, channelVars
<1>8. ASSUME NEW r \in Run, Poll(r) PROVE TypeOK'
  BY <1>8 DEF Poll, Step, channelVars
<1>9. ASSUME NEW r \in Run, Receive(r) PROVE TypeOK'
  BY <1>9 DEF Receive, Step
<1>10. ASSUME NEW r \in Run, Synced(r) PROVE TypeOK'
  BY <1>10 DEF Synced, Step, channelVars
<1>11. ASSUME NEW r \in Run, Tick(r) PROVE TypeOK'
  BY <1>11 DEF Tick, Step, channelVars
<1>12. ASSUME NEW r \in Run, Ticked(r) PROVE TypeOK'
  BY <1>12 DEF Ticked, Step, channelVars
<1>13. ASSUME NEW r \in Run, Sleep(r) PROVE TypeOK'
  BY <1>13 DEF Sleep, Step, channelVars
<1>14. ASSUME NEW r \in Run, ReturnReceiver(r) PROVE TypeOK'
  BY <1>14 DEF ReturnReceiver, Step, channelVars
<1>15. ASSUME NEW x \in Change, Send(x) PROVE TypeOK'
  BY <1>15 DEF Send
<1>16. ASSUME NEW x \in Change, Accept(x) PROVE TypeOK'
  BY <1>16 DEF Accept
<1>17. ASSUME NEW x \in Change, Abandon(x) PROVE TypeOK'
  BY <1>17 DEF Abandon
<1>18. CASE Stop
  BY <1>18 DEF Stop, channelVars
<1>19. QED
  BY <1>1, <1>2, <1>3, <1>4, <1>5, <1>6, <1>7, <1>8, <1>9,
     <1>10, <1>11, <1>12, <1>13, <1>14, <1>15, <1>16, <1>17, <1>18
     DEF Next, Prepare, Loop

(* Every step keeps the hands in order. *)
LEMMA HandStep == TypeOK /\ HandInv /\ [Next]_vars => HandInv'
<1> SUFFICES ASSUME TypeOK, HandInv, [Next]_vars PROVE HandInv'
  OBVIOUS
<1> USE CapacityAssumption, NoneAssumption DEF TypeOK, HandInv
<1>1. CASE UNCHANGED vars
  BY <1>1 DEF vars, channelVars
<1>2. ASSUME NEW r \in Run, Begin(r) PROVE HandInv'
  BY <1>2 DEF Begin, Step, channelVars
<1>3. ASSUME NEW r \in Run, FailToPrepare(r) PROVE HandInv'
  BY <1>3 DEF FailToPrepare, Step, channelVars
<1>4. ASSUME NEW r \in Run, SetToken(r) PROVE HandInv'
  BY <1>4 DEF SetToken, Step, channelVars
<1>5. ASSUME NEW r \in Run, TakeReceiver(r) PROVE HandInv'
  BY <1>5 DEF TakeReceiver, Step, channelVars
<1>6. ASSUME NEW r \in Run, Refuse(r) PROVE HandInv'
  BY <1>6 DEF Refuse, Step, channelVars
<1>7. ASSUME NEW r \in Run, SeeCancel(r) PROVE HandInv'
  BY <1>7 DEF SeeCancel, Step, channelVars
<1>8. ASSUME NEW r \in Run, Poll(r) PROVE HandInv'
  BY <1>8 DEF Poll, Step, channelVars
<1>9. ASSUME NEW r \in Run, Receive(r) PROVE HandInv'
  BY <1>9 DEF Receive, Step
<1>10. ASSUME NEW r \in Run, Synced(r) PROVE HandInv'
  BY <1>10 DEF Synced, Step, channelVars
<1>11. ASSUME NEW r \in Run, Tick(r) PROVE HandInv'
  BY <1>11 DEF Tick, Step, channelVars
<1>12. ASSUME NEW r \in Run, Ticked(r) PROVE HandInv'
  BY <1>12 DEF Ticked, Step, channelVars
<1>13. ASSUME NEW r \in Run, Sleep(r) PROVE HandInv'
  BY <1>13 DEF Sleep, Step, channelVars
<1>14. ASSUME NEW r \in Run, ReturnReceiver(r) PROVE HandInv'
  BY <1>14 DEF ReturnReceiver, Step, channelVars
<1>15. ASSUME NEW x \in Change, Send(x) PROVE HandInv'
  BY <1>15 DEF Send
<1>16. ASSUME NEW x \in Change, Accept(x) PROVE HandInv'
  BY <1>16 DEF Accept
<1>17. ASSUME NEW x \in Change, Abandon(x) PROVE HandInv'
  BY <1>17 DEF Abandon
<1>18. CASE Stop
  BY <1>18 DEF Stop, channelVars
<1>19. QED
  BY <1>1, <1>2, <1>3, <1>4, <1>5, <1>6, <1>7, <1>8, <1>9,
     <1>10, <1>11, <1>12, <1>13, <1>14, <1>15, <1>16, <1>17, <1>18
     DEF Next, Prepare, Loop

(* Every step keeps the receiver in one place. *)
LEMMA OneLoopStep == TypeOK /\ OneLoop /\ [Next]_vars => OneLoop'
<1> SUFFICES ASSUME TypeOK, OneLoop, [Next]_vars PROVE OneLoop'
  OBVIOUS
<1> USE CapacityAssumption, NoneAssumption DEF TypeOK, OneLoop, Loops, Labels
<1>1. CASE UNCHANGED vars
  BY <1>1 DEF vars, channelVars
<1>2. ASSUME NEW r \in Run, Begin(r) PROVE OneLoop'
  BY <1>2 DEF Begin, Step, channelVars
<1>3. ASSUME NEW r \in Run, FailToPrepare(r) PROVE OneLoop'
  BY <1>3 DEF FailToPrepare, Step, channelVars
<1>4. ASSUME NEW r \in Run, SetToken(r) PROVE OneLoop'
  BY <1>4 DEF SetToken, Step, channelVars
<1>5. ASSUME NEW r \in Run, TakeReceiver(r) PROVE OneLoop'
  BY <1>5 DEF TakeReceiver, Step, channelVars
<1>6. ASSUME NEW r \in Run, Refuse(r) PROVE OneLoop'
  BY <1>6 DEF Refuse, Step, channelVars
<1>7. ASSUME NEW r \in Run, SeeCancel(r) PROVE OneLoop'
  BY <1>7 DEF SeeCancel, Step, channelVars
<1>8. ASSUME NEW r \in Run, Poll(r) PROVE OneLoop'
  BY <1>8 DEF Poll, Step, channelVars
<1>9. ASSUME NEW r \in Run, Receive(r) PROVE OneLoop'
  BY <1>9 DEF Receive, Step
<1>10. ASSUME NEW r \in Run, Synced(r) PROVE OneLoop'
  BY <1>10 DEF Synced, Step, channelVars
<1>11. ASSUME NEW r \in Run, Tick(r) PROVE OneLoop'
  BY <1>11 DEF Tick, Step, channelVars
<1>12. ASSUME NEW r \in Run, Ticked(r) PROVE OneLoop'
  BY <1>12 DEF Ticked, Step, channelVars
<1>13. ASSUME NEW r \in Run, Sleep(r) PROVE OneLoop'
  BY <1>13 DEF Sleep, Step, channelVars
<1>14. ASSUME NEW r \in Run, ReturnReceiver(r) PROVE OneLoop'
  BY <1>14 DEF ReturnReceiver, Step, channelVars
<1>15. ASSUME NEW x \in Change, Send(x) PROVE OneLoop'
  BY <1>15 DEF Send
<1>16. ASSUME NEW x \in Change, Accept(x) PROVE OneLoop'
  BY <1>16 DEF Accept
<1>17. ASSUME NEW x \in Change, Abandon(x) PROVE OneLoop'
  BY <1>17 DEF Abandon
<1>18. CASE Stop
  BY <1>18 DEF Stop, channelVars
<1>19. QED
  BY <1>1, <1>2, <1>3, <1>4, <1>5, <1>6, <1>7, <1>8, <1>9,
     <1>10, <1>11, <1>12, <1>13, <1>14, <1>15, <1>16, <1>17, <1>18
     DEF Next, Prepare, Loop

(* Every step keeps the tokens in order. *)
LEMMA TokenStep == TypeOK /\ TokenInv /\ [Next]_vars => TokenInv'
<1> SUFFICES ASSUME TypeOK, TokenInv, [Next]_vars PROVE TokenInv'
  OBVIOUS
<1> USE CapacityAssumption, NoneAssumption DEF TypeOK, TokenInv, Loops, Alive, Labels
<1>1. CASE UNCHANGED vars
  BY <1>1 DEF vars, channelVars
<1>2. ASSUME NEW r \in Run, Begin(r) PROVE TokenInv'
  BY <1>2 DEF Begin, Step, channelVars
<1>3. ASSUME NEW r \in Run, FailToPrepare(r) PROVE TokenInv'
  BY <1>3 DEF FailToPrepare, Step, channelVars
<1>4. ASSUME NEW r \in Run, SetToken(r) PROVE TokenInv'
  BY <1>4 DEF SetToken, Step, channelVars
<1>5. ASSUME NEW r \in Run, TakeReceiver(r) PROVE TokenInv'
  BY <1>5 DEF TakeReceiver, Step, channelVars
<1>6. ASSUME NEW r \in Run, Refuse(r) PROVE TokenInv'
  BY <1>6 DEF Refuse, Step, channelVars
<1>7. ASSUME NEW r \in Run, SeeCancel(r) PROVE TokenInv'
  BY <1>7 DEF SeeCancel, Step, channelVars
<1>8. ASSUME NEW r \in Run, Poll(r) PROVE TokenInv'
  BY <1>8 DEF Poll, Step, channelVars
<1>9. ASSUME NEW r \in Run, Receive(r) PROVE TokenInv'
  BY <1>9 DEF Receive, Step
<1>10. ASSUME NEW r \in Run, Synced(r) PROVE TokenInv'
  BY <1>10 DEF Synced, Step, channelVars
<1>11. ASSUME NEW r \in Run, Tick(r) PROVE TokenInv'
  BY <1>11 DEF Tick, Step, channelVars
<1>12. ASSUME NEW r \in Run, Ticked(r) PROVE TokenInv'
  BY <1>12 DEF Ticked, Step, channelVars
<1>13. ASSUME NEW r \in Run, Sleep(r) PROVE TokenInv'
  BY <1>13 DEF Sleep, Step, channelVars
<1>14. ASSUME NEW r \in Run, ReturnReceiver(r) PROVE TokenInv'
  BY <1>14 DEF ReturnReceiver, Step, channelVars
<1>15. ASSUME NEW x \in Change, Send(x) PROVE TokenInv'
  BY <1>15 DEF Send
<1>16. ASSUME NEW x \in Change, Accept(x) PROVE TokenInv'
  BY <1>16 DEF Accept
<1>17. ASSUME NEW x \in Change, Abandon(x) PROVE TokenInv'
  BY <1>17 DEF Abandon
<1>18. CASE Stop
  BY <1>18 DEF Stop, channelVars
<1>19. QED
  BY <1>1, <1>2, <1>3, <1>4, <1>5, <1>6, <1>7, <1>8, <1>9,
     <1>10, <1>11, <1>12, <1>13, <1>14, <1>15, <1>16, <1>17, <1>18
     DEF Next, Prepare, Loop

-----------------------------------------------------------------------------
(* Moving the head of a sequence to the end of the one before it. *)
LEMMA MoveHead ==
    ASSUME NEW S, NEW s \in Seq(S), NEW q \in Seq(S), q # << >>
    PROVE  s \o q = (s \o <<Head(q)>>) \o Tail(q)
<1>1. Head(q) \in S /\ Tail(q) \in Seq(S) /\ <<Head(q)>> \in Seq(S)
  BY HeadTailProperties
<1>2. q = <<Head(q)>> \o Tail(q)
  OBVIOUS
<1>3. (s \o <<Head(q)>>) \o Tail(q) = s \o (<<Head(q)>> \o Tail(q))
  BY <1>1, ConcatAssociative
<1> QED
  BY <1>2, <1>3

(* Every step keeps the changes together: a change is accepted at the end   *)
(* of the channel, moved to a hand from its head, and from there to the end  *)
(* of what is synchronised.                                                  *)
LEMMA NoLossStep == IInv /\ [Next]_vars => NoLossNoReorder'
<1> SUFFICES ASSUME IInv, [Next]_vars PROVE NoLossNoReorder'
  OBVIOUS
<1> USE DEF NoLossNoReorder
<1>0. /\ TypeOK /\ OneLoop /\ HandInv /\ NoLossNoReorder
      /\ queue \in Seq(Change) /\ accepted \in Seq(Change) /\ synced \in Seq(Change)
      /\ pc \in [Run -> Labels]
      /\ hand \in [Run -> Change \cup {None}]
  BY DEF IInv, TypeOK
<1>a. ASSUME UNCHANGED <<accepted, synced, queue, hand>>,
             \A r \in Run : pc'[r] = "syncing" <=> pc[r] = "syncing"
      PROVE  NoLossNoReorder'
  BY <1>0, <1>a
<1>1. CASE UNCHANGED vars
  BY <1>a, <1>1 DEF vars, channelVars
<1>2. ASSUME NEW r \in Run, Begin(r) PROVE NoLossNoReorder'
  BY <1>0, <1>a, <1>2 DEF Begin, Step, channelVars
<1>3. ASSUME NEW r \in Run, FailToPrepare(r) PROVE NoLossNoReorder'
  BY <1>0, <1>a, <1>3 DEF FailToPrepare, Step, channelVars
<1>4. ASSUME NEW r \in Run, SetToken(r) PROVE NoLossNoReorder'
  BY <1>0, <1>a, <1>4 DEF SetToken, Step, channelVars
<1>5. ASSUME NEW r \in Run, TakeReceiver(r) PROVE NoLossNoReorder'
  BY <1>0, <1>a, <1>5 DEF TakeReceiver, Step, channelVars
<1>6. ASSUME NEW r \in Run, Refuse(r) PROVE NoLossNoReorder'
  BY <1>0, <1>a, <1>6 DEF Refuse, Step, channelVars
<1>7. ASSUME NEW r \in Run, SeeCancel(r) PROVE NoLossNoReorder'
  BY <1>0, <1>a, <1>7 DEF SeeCancel, Step, channelVars
<1>8. ASSUME NEW r \in Run, Poll(r) PROVE NoLossNoReorder'
  BY <1>0, <1>a, <1>8 DEF Poll, Step, channelVars
<1>9. ASSUME NEW r \in Run, Tick(r) PROVE NoLossNoReorder'
  BY <1>0, <1>a, <1>9 DEF Tick, Step, channelVars
<1>10. ASSUME NEW r \in Run, Ticked(r) PROVE NoLossNoReorder'
  BY <1>0, <1>a, <1>10 DEF Ticked, Step, channelVars
<1>11. ASSUME NEW r \in Run, Sleep(r) PROVE NoLossNoReorder'
  BY <1>0, <1>a, <1>11 DEF Sleep, Step, channelVars
<1>12. ASSUME NEW r \in Run, ReturnReceiver(r) PROVE NoLossNoReorder'
  BY <1>0, <1>a, <1>12 DEF ReturnReceiver, Step, channelVars
<1>13. ASSUME NEW x \in Change, Send(x) PROVE NoLossNoReorder'
  BY <1>0, <1>a, <1>13 DEF Send
<1>14. ASSUME NEW x \in Change, Abandon(x) PROVE NoLossNoReorder'
  BY <1>0, <1>a, <1>14 DEF Abandon
<1>15. CASE Stop
  BY <1>0, <1>a, <1>15 DEF Stop, channelVars
<1>16. ASSUME NEW x \in Change, Accept(x) PROVE NoLossNoReorder'
  <2>1. /\ queue' = Append(queue, x) /\ accepted' = Append(accepted, x)
        /\ UNCHANGED <<synced, hand, pc>>
    BY <1>16 DEF Accept
  <2>2. ASSUME NEW s \in Seq(Change), accepted = s \o queue
        PROVE  accepted' = s \o queue'
    <3>1. <<x>> \in Seq(Change)
      OBVIOUS
    <3>2. accepted' = (s \o queue) \o <<x>>
      BY <1>0, <2>1, <2>2, AppendIsConcat
    <3>3. s \o queue' = s \o (queue \o <<x>>)
      BY <1>0, <2>1, AppendIsConcat
    <3> QED
      BY <1>0, <2>2, <3>1, <3>2, <3>3, ConcatAssociative
  <2>3. ASSUME NEW r \in Run, pc[r] = "syncing"
        PROVE  accepted' = (synced \o <<hand[r]>>) \o queue'
    <3>1. <<hand[r]>> \in Seq(Change)
      BY <1>0, <2>3 DEF HandInv
    <3>2. synced \o <<hand[r]>> \in Seq(Change)
      BY <1>0, <3>1, ConcatProperties
    <3> QED
      BY <1>0, <2>2, <2>3, <3>2
  <2> QED
    BY <1>0, <2>1, <2>2, <2>3
<1>17. ASSUME NEW r \in Run, Receive(r) PROVE NoLossNoReorder'
  <2>1. /\ pc[r] = "polled" /\ pc' = [pc EXCEPT ![r] = "syncing"]
        /\ queue # << >> /\ queue' = Tail(queue)
        /\ hand' = [hand EXCEPT ![r] = Head(queue)]
        /\ UNCHANGED <<accepted, synced>>
    BY <1>17 DEF Receive, Step
  <2>2. \A q \in Run : pc[q] # "syncing"
    BY <1>0, <2>1 DEF OneLoop, Loops
  <2>3. \A q \in Run : pc'[q] = "syncing" <=> q = r
    BY <1>0, <2>1, <2>2
  <2>4. synced \o queue = (synced \o <<Head(queue)>>) \o Tail(queue)
    BY <1>0, <2>1, MoveHead
  <2>5. hand'[r] = Head(queue)
    BY <1>0, <2>1
  <2> QED
    BY <1>0, <2>1, <2>2, <2>3, <2>4, <2>5
<1>18. ASSUME NEW r \in Run, Synced(r) PROVE NoLossNoReorder'
  <2>1. /\ pc[r] = "syncing" /\ pc' = [pc EXCEPT ![r] = "select"]
        /\ synced' = Append(synced, hand[r])
        /\ UNCHANGED <<accepted, queue>>
    BY <1>18 DEF Synced, Step, channelVars
  <2>2. \A q \in Run : pc'[q] # "syncing"
    BY <1>0, <2>1 DEF OneLoop, Loops
  <2>3. synced' = synced \o <<hand[r]>>
    BY <1>0, <2>1, AppendIsConcat DEF HandInv
  <2> QED
    BY <1>0, <2>1, <2>2, <2>3
<1> QED
  BY <1>1, <1>2, <1>3, <1>4, <1>5, <1>6, <1>7, <1>8, <1>9,
     <1>10, <1>11, <1>12, <1>13, <1>14, <1>15, <1>16, <1>17, <1>18
     DEF Next, Prepare, Loop

-----------------------------------------------------------------------------
(* The inductive invariant. *)
THEOREM Invariance == Spec => []IInv
<1>1. Init => IInv
  <2> SUFFICES ASSUME Init PROVE IInv
    OBVIOUS
  <2> USE CapacityAssumption, NoneAssumption DEF Init
  <2>1. TypeOK
    <3>1. queue \in Seq(Change) /\ Len(queue) = 0 /\ 0 <= Capacity
      BY EmptySeq
    <3>2. accepted \in Seq(Change) /\ synced \in Seq(Change)
      BY EmptySeq
    <3> QED
      BY <3>1, <3>2 DEF TypeOK, Labels
  <2>2. OneLoop /\ HandInv /\ TokenInv
    BY DEF OneLoop, HandInv, TokenInv, Loops, Alive
  <2>3. NoLossNoReorder
    BY ConcatEmptySeq, EmptySeq DEF NoLossNoReorder
  <2> QED
    BY <2>1, <2>2, <2>3 DEF IInv
<1>2. IInv /\ [Next]_vars => IInv'
  BY TypeStep, HandStep, OneLoopStep, TokenStep, NoLossStep DEF IInv
<1> QED
  BY <1>1, <1>2, PTL DEF Spec

(* Every variable keeps its type, and the channel its capacity.             *)
THEOREM TypeCorrect == Spec => []TypeOK
<1>1. IInv => TypeOK
  BY DEF IInv
<1> QED
  BY <1>1, Invariance, PTL

(* At most one loop reads the channel of a device, however run and stop     *)
(* interleave, and the receiver is never lost (take_receiver,               *)
(* return_receiver).                                                        *)
THEOREM ReceiverIsUnique == Spec => []OneLoop
<1>1. IInv => OneLoop
  BY DEF IInv
<1> QED
  BY <1>1, Invariance, PTL

(* The OlmMachine is given the accepted changes, each once and in order,    *)
(* across stopped and restarted loops (send_sync_changes, run).             *)
THEOREM ChangesAreKept == Spec => []NoLossNoReorder
<1>1. IInv => NoLossNoReorder
  BY DEF IInv
<1> QED
  BY <1>1, Invariance, PTL

(* stop() reaches the loop unless run was called on a running device, and   *)
(* a token that is kept is no ended loop's (run, stop).                     *)
THEOREM StopIsEffective == Spec => []StopReachesTheLoop
<1>1. IInv => StopReachesTheLoop
  BY DEF IInv, TokenInv, StopReachesTheLoop, Alive
<1> QED
  BY <1>1, Invariance, PTL
=============================================================================
