------------------------ MODULE DeviceRegistryProofs ------------------------
(***************************************************************************)
(* Proofs about DeviceRegistry, for any number of calls, users and device  *)
(* ids.                                                                    *)
(***************************************************************************)
EXTENDS DeviceRegistry, TLAPS

(* Labels of a task that has not made a user. *)
Before == {"new", "find", "device", "make"}

(* A device comes from the task that is about to start its loop, and a      *)
(* UserInner is that of its user, and of a task that has made it.           *)
OriginInv ==
    /\ \A k \in Task : pc[k] \in {"introduce", "spawn", "spawned"} => target[k] = k
    /\ \A k \in Task : local[k] # None => Who[local[k]] = Who[k] /\ pc[local[k]] \notin Before
    /\ \A m \in Mxid : user[m] # None => Who[user[m]] = m /\ pc[user[m]] \notin Before
    /\ \A u \in Task : device[u] # None => pc[u] \notin Before

(* Of an undisturbed user without device, at most one task is looking for   *)
(* one or making one; *)
AloneInv ==
    \A j, k \in Task :
        Who[j] = Who[k] /\ Who[k] \notin disturbed /\ ~Settled(Who[k]) /\ Searches(j) /\ Searches(k)
            => j = k

(* nobody makes one when there is one, whoever is past the search has it,   *)
(* and a user that is stored without device has the task that made it at    *)
(* work on one; *)
MakerInv ==
    /\ \A k \in Task : Who[k] \notin disturbed =>
          /\ pc[k] \in {"make", "open", "store"} => ~Settled(Who[k])
          /\ pc[k] = "make" => user[Who[k]] = None
          /\ pc[k] \in {"device", "open", "store"} => user[Who[k]] # None /\ local[k] = user[Who[k]]
          /\ pc[k] \in {"introduce", "spawn", "spawned", "send", "sent"} =>
                Settled(Who[k]) /\ target[k] = device[user[Who[k]]]
    /\ \A m \in Mxid : m \notin disturbed /\ user[m] # None /\ device[user[m]] = None =>
          \E j \in Task : Who[j] = m /\ pc[j] \in {"open", "store"} /\ local[j] = j

(* and its device has its loop, or a task that will start it. *)
LoopInv ==
    /\ \A d \in Task : loop[d] # "none" /\ Who[d] \notin disturbed =>
          Settled(Who[d]) /\ device[user[Who[d]]] = d
    /\ \A m \in Mxid : m \notin disturbed /\ Settled(m) =>
          LET d == device[user[m]]
          IN  \/ loop[d] # "none"
              \/ pc[d] \in {"spawn", "introduce"}
              \/ d = Startup /\ pc[d] = "failed"

(* The startup is a task, about the bot. *)
LEMMA StartupInTask == Startup \in Task /\ Bot = Who[Startup]
  BY DEF Task, Bot

(* Every step keeps the types. *)
LEMMA TypeStep == ASSUME TypeOK, OriginInv, [Next]_vars PROVE TypeOK'
<1> USE StartupInTask, NoneAssumption, WhoAssumption, UnparsableAssumption
    DEF TypeOK, OriginInv, Labels, Task, Bot, localVars, storeVars
<1>1. ASSUME NEW k \in Task, Ensure(k) PROVE TypeOK'
  BY <1>1 DEF Ensure, Step, DisturbIf
<1>2. ASSUME NEW k \in Task, Reject(k) PROVE TypeOK'
  BY <1>2 DEF Reject, Step
<1>3. ASSUME NEW k \in Task, FindUser(k) PROVE TypeOK'
  BY <1>3 DEF FindUser, Step
<1>4. ASSUME NEW k \in Task, FindDevice(k) PROVE TypeOK'
  BY <1>4 DEF FindDevice, Step
<1>5. ASSUME NEW k \in Task, MakeUser(k) PROVE TypeOK'
  BY <1>5 DEF MakeUser, Step
<1>6. ASSUME NEW k \in Task, OpenStore(k) PROVE TypeOK'
  BY <1>6 DEF OpenStore, Step
<1>7. ASSUME NEW k \in Task, FailToOpen(k) PROVE TypeOK'
  BY <1>7 DEF FailToOpen, Step, DisturbIf
<1>8. ASSUME NEW k \in Task, StoreDevice(k) PROVE TypeOK'
  BY <1>8 DEF StoreDevice, Step, AfterStore
<1>9. ASSUME NEW k \in Task, SpawnLoop(k) PROVE TypeOK'
  BY <1>9 DEF SpawnLoop, Step
<1>10. ASSUME NEW k \in Task, ForgetUser(k) PROVE TypeOK'
  BY <1>10 DEF ForgetUser, Step
<1>11. ASSUME NEW k \in Task, RunLoop(k) PROVE TypeOK'
  BY <1>11 DEF RunLoop
<1>12. ASSUME NEW k \in Task, FailLoop(k) PROVE TypeOK'
  BY <1>12 DEF FailLoop
<1>13. ASSUME NEW k \in Task, Send(k) PROVE TypeOK'
  BY <1>13 DEF Send, Step
<1>14. ASSUME NEW k \in Task, Cancel(k) PROVE TypeOK'
  BY <1>14 DEF Cancel, DisturbIf, Searches
<1>15. CASE Start
  BY <1>15 DEF Start, Step, DisturbIf
<1>16. CASE RunBot
  BY <1>16 DEF RunBot, Step
<1>17. CASE FailStartup
  BY <1>17 DEF FailStartup, Step
<1>18. CASE UNCHANGED vars
  BY <1>18 DEF vars
<1> QED
  BY <1>1, <1>2, <1>3, <1>4, <1>5, <1>6, <1>7, <1>8, <1>9, <1>10, <1>11, <1>12, <1>13, <1>14, <1>15, <1>16, <1>17, <1>18
     DEF Next, Create

(* Users and devices stay with their makers. *)
LEMMA OriginStep == ASSUME TypeOK, OriginInv, [Next]_vars PROVE OriginInv'
<1> USE StartupInTask, NoneAssumption, WhoAssumption, UnparsableAssumption
    DEF TypeOK, OriginInv, Before, Task, Bot, localVars, storeVars
<1>1. ASSUME NEW k \in Task, Ensure(k) PROVE OriginInv'
  BY <1>1 DEF Ensure, Step, DisturbIf
<1>2. ASSUME NEW k \in Task, Reject(k) PROVE OriginInv'
  BY <1>2 DEF Reject, Step
<1>3. ASSUME NEW k \in Task, FindUser(k) PROVE OriginInv'
  BY <1>3 DEF FindUser, Step
<1>4. ASSUME NEW k \in Task, FindDevice(k) PROVE OriginInv'
  BY <1>4 DEF FindDevice, Step
<1>5. ASSUME NEW k \in Task, MakeUser(k) PROVE OriginInv'
  BY <1>5 DEF MakeUser, Step
<1>6. ASSUME NEW k \in Task, OpenStore(k) PROVE OriginInv'
  BY <1>6 DEF OpenStore, Step
<1>7. ASSUME NEW k \in Task, FailToOpen(k) PROVE OriginInv'
  BY <1>7 DEF FailToOpen, Step, DisturbIf
<1>8. ASSUME NEW k \in Task, StoreDevice(k) PROVE OriginInv'
  BY <1>8 DEF StoreDevice, Step, AfterStore
<1>9. ASSUME NEW k \in Task, SpawnLoop(k) PROVE OriginInv'
  BY <1>9 DEF SpawnLoop, Step
<1>10. ASSUME NEW k \in Task, ForgetUser(k) PROVE OriginInv'
  BY <1>10 DEF ForgetUser, Step
<1>11. ASSUME NEW k \in Task, RunLoop(k) PROVE OriginInv'
  BY <1>11 DEF RunLoop
<1>12. ASSUME NEW k \in Task, FailLoop(k) PROVE OriginInv'
  BY <1>12 DEF FailLoop
<1>13. ASSUME NEW k \in Task, Send(k) PROVE OriginInv'
  BY <1>13 DEF Send, Step
<1>14. ASSUME NEW k \in Task, Cancel(k) PROVE OriginInv'
  BY <1>14 DEF Cancel, DisturbIf, Searches
<1>15. CASE Start
  BY <1>15 DEF Start, Step, DisturbIf
<1>16. CASE RunBot
  BY <1>16 DEF RunBot, Step
<1>17. CASE FailStartup
  BY <1>17 DEF FailStartup, Step
<1>18. CASE UNCHANGED vars
  BY <1>18 DEF vars
<1> QED
  BY <1>1, <1>2, <1>3, <1>4, <1>5, <1>6, <1>7, <1>8, <1>9, <1>10, <1>11, <1>12, <1>13, <1>14, <1>15, <1>16, <1>17, <1>18
     DEF Next, Create

(* One task at a time looks for a device that is not there. *)
LEMMA AloneStep == ASSUME TypeOK, OriginInv, AloneInv, MakerInv, [Next]_vars PROVE AloneInv'
<1> USE StartupInTask, NoneAssumption, WhoAssumption, UnparsableAssumption
    DEF TypeOK, OriginInv, Before, Task, Bot, Settled, Searches, localVars, storeVars, AloneInv, MakerInv
<1>1. ASSUME NEW k \in Task, Ensure(k) PROVE AloneInv'
  <2> SUFFICES ASSUME NEW i \in Task, NEW j \in Task, Who[i] = Who[j], Who[j] \notin disturbed',
                      ~Settled(Who[j])', Searches(i)', Searches(j)'
               PROVE  i = j
    BY DEF AloneInv
  <2>1. UNCHANGED <<user, device>> /\ pc' = [pc EXCEPT ![k] = "find"] /\ Who[j] \notin disturbed
    BY <1>1 DEF Ensure, Step, DisturbIf
  <2>2. i = k \/ Searches(i)
    BY <2>1
  <2>3. j = k \/ Searches(j)
    BY <2>1
  <2>4. CASE i # k /\ j # k
    BY <2>1, <2>2, <2>3, <2>4
  <2>5. CASE i # j /\ (i = k \/ j = k)
    <3>1. ~Settled(Who[k]) /\ Who[i] = Who[k] /\ Who[j] = Who[k]
      BY <2>1, <2>5
    <3>2. \E l \in Task : Searches(l) /\ Who[l] = Who[k]
      BY <2>2, <2>3, <2>5, <3>1
    <3>3. Who[k] \in disturbed'
      BY <1>1, <3>1, <3>2, Zenon DEF Ensure, DisturbIf
    <3> QED
      BY <3>1, <3>3
  <2> QED
    BY <2>4, <2>5
<1>2. ASSUME NEW k \in Task, Reject(k) PROVE AloneInv'
  BY <1>2 DEF Reject, Step
<1>3. ASSUME NEW k \in Task, FindUser(k) PROVE AloneInv'
  BY <1>3 DEF FindUser, Step
<1>4. ASSUME NEW k \in Task, FindDevice(k) PROVE AloneInv'
  BY <1>4 DEF FindDevice, Step
<1>5. ASSUME NEW k \in Task, MakeUser(k) PROVE AloneInv'
  BY <1>5 DEF MakeUser, Step
<1>6. ASSUME NEW k \in Task, OpenStore(k) PROVE AloneInv'
  BY <1>6 DEF OpenStore, Step
<1>7. ASSUME NEW k \in Task, FailToOpen(k) PROVE AloneInv'
  <2> SUFFICES ASSUME NEW i \in Task, NEW j \in Task, Who[i] = Who[j], Who[j] \notin disturbed',
                      ~Settled(Who[j])', Searches(i)', Searches(j)'
               PROVE  i = j
    BY DEF AloneInv
  <2>1. /\ UNCHANGED <<user, device>> /\ pc' = [pc EXCEPT ![k] = "failed"]
        /\ Who[j] \notin disturbed
    BY <1>7 DEF FailToOpen, Step, DisturbIf
  <2>2. Searches(i) /\ Searches(j)
    BY <2>1
  <2> QED
    BY <2>1, <2>2
<1>8. ASSUME NEW k \in Task, StoreDevice(k) PROVE AloneInv'
  <2> SUFFICES ASSUME NEW i \in Task, NEW j \in Task, Who[i] = Who[j], Who[j] \notin disturbed',
                      ~Settled(Who[j])', Searches(i)', Searches(j)'
               PROVE  i = j
    BY DEF AloneInv
  <2>1. /\ UNCHANGED <<user, disturbed>> /\ pc' = [pc EXCEPT ![k] = AfterStore(k)]
        /\ device' = [device EXCEPT ![local[k]] = k] /\ pc[k] = "store"
    BY <1>8 DEF StoreDevice, Step
  <2>2. AfterStore(k) \in {"introduce", "spawn", "send"}
    BY DEF AfterStore
  <2>3. Searches(i) /\ Searches(j)
    BY <2>1, <2>2
  <2>4. ~Settled(Who[j])
    BY <2>1
  <2> QED
    BY <2>1, <2>3, <2>4
<1>9. ASSUME NEW k \in Task, SpawnLoop(k) PROVE AloneInv'
  BY <1>9 DEF SpawnLoop, Step
<1>10. ASSUME NEW k \in Task, ForgetUser(k) PROVE AloneInv'
  BY <1>10 DEF ForgetUser, Step
<1>11. ASSUME NEW k \in Task, RunLoop(k) PROVE AloneInv'
  BY <1>11 DEF RunLoop
<1>12. ASSUME NEW k \in Task, FailLoop(k) PROVE AloneInv'
  BY <1>12 DEF FailLoop
<1>13. ASSUME NEW k \in Task, Send(k) PROVE AloneInv'
  BY <1>13 DEF Send, Step
<1>14. ASSUME NEW k \in Task, Cancel(k) PROVE AloneInv'
  <2> SUFFICES ASSUME NEW i \in Task, NEW j \in Task, Who[i] = Who[j], Who[j] \notin disturbed',
                      ~Settled(Who[j])', Searches(i)', Searches(j)'
               PROVE  i = j
    BY DEF AloneInv
  <2>1. /\ UNCHANGED <<user, device>> /\ pc' = [pc EXCEPT ![k] = "cancelled"]
        /\ Who[j] \notin disturbed
    BY <1>14 DEF Cancel, DisturbIf
  <2>2. Searches(i) /\ Searches(j)
    BY <2>1
  <2> QED
    BY <2>1, <2>2
<1>15. CASE Start
  <2> SUFFICES ASSUME NEW i \in Task, NEW j \in Task, Who[i] = Who[j], Who[j] \notin disturbed',
                      ~Settled(Who[j])', Searches(i)', Searches(j)'
               PROVE  i = j
    BY DEF AloneInv
  <2>1. /\ UNCHANGED <<user, device>> /\ pc' = [pc EXCEPT ![Startup] = "make"]
        /\ Who[j] \notin disturbed
    BY <1>15 DEF Start, Step, DisturbIf
  <2>2. i = Startup \/ Searches(i)
    BY <2>1
  <2>3. j = Startup \/ Searches(j)
    BY <2>1
  <2>4. CASE i # Startup /\ j # Startup
    BY <2>1, <2>2, <2>3, <2>4
  <2>5. CASE i # j /\ (i = Startup \/ j = Startup)
    <3>1. Who[i] = Bot /\ Who[j] = Bot
      BY <2>5
    <3>2. \E l \in Task : Searches(l) /\ Who[l] = Bot
      BY <2>2, <2>3, <2>5, <3>1
    <3>3. Bot \in disturbed'
      BY <1>15, <3>2, Zenon DEF Start, DisturbIf
    <3> QED
      BY <3>1, <3>3
  <2> QED
    BY <2>4, <2>5
<1>16. CASE RunBot
  BY <1>16 DEF RunBot, Step
<1>17. CASE FailStartup
  BY <1>17 DEF FailStartup, Step
<1>18. CASE UNCHANGED vars
  BY <1>18 DEF vars
<1> QED
  BY <1>1, <1>2, <1>3, <1>4, <1>5, <1>6, <1>7, <1>8, <1>9, <1>10, <1>11, <1>12, <1>13, <1>14, <1>15, <1>16, <1>17, <1>18
     DEF Next, Create

(* Undisturbed tasks agree on the device. *)
LEMMA MakerStep == ASSUME TypeOK, OriginInv, AloneInv, MakerInv, [Next]_vars PROVE MakerInv'
<1> USE StartupInTask, NoneAssumption, WhoAssumption, UnparsableAssumption
    DEF TypeOK, OriginInv, Before, Task, Bot, Settled, Searches, localVars, storeVars, AloneInv, MakerInv
<1>1. ASSUME NEW k \in Task, Ensure(k) PROVE MakerInv'
  BY <1>1 DEF Ensure, Step, DisturbIf
<1>2. ASSUME NEW k \in Task, Reject(k) PROVE MakerInv'
  BY <1>2 DEF Reject, Step
<1>3. ASSUME NEW k \in Task, FindUser(k) PROVE MakerInv'
  BY <1>3 DEF FindUser, Step
<1>4. ASSUME NEW k \in Task, FindDevice(k) PROVE MakerInv'
  BY <1>4 DEF FindDevice, Step
<1>5. ASSUME NEW k \in Task, MakeUser(k) PROVE MakerInv'
  BY <1>5 DEF MakeUser, Step
<1>6. ASSUME NEW k \in Task, OpenStore(k) PROVE MakerInv'
  BY <1>6 DEF OpenStore, Step
<1>7. ASSUME NEW k \in Task, FailToOpen(k) PROVE MakerInv'
  BY <1>7 DEF FailToOpen, Step, DisturbIf
<1>8. ASSUME NEW k \in Task, StoreDevice(k) PROVE MakerInv'
  BY <1>8 DEF StoreDevice, Step, AfterStore
<1>9. ASSUME NEW k \in Task, SpawnLoop(k) PROVE MakerInv'
  BY <1>9 DEF SpawnLoop, Step
<1>10. ASSUME NEW k \in Task, ForgetUser(k) PROVE MakerInv'
  BY <1>10 DEF ForgetUser, Step
<1>11. ASSUME NEW k \in Task, RunLoop(k) PROVE MakerInv'
  BY <1>11 DEF RunLoop
<1>12. ASSUME NEW k \in Task, FailLoop(k) PROVE MakerInv'
  BY <1>12 DEF FailLoop
<1>13. ASSUME NEW k \in Task, Send(k) PROVE MakerInv'
  BY <1>13 DEF Send, Step
<1>14. ASSUME NEW k \in Task, Cancel(k) PROVE MakerInv'
  BY <1>14 DEF Cancel, DisturbIf, Searches
<1>15. CASE Start
  BY <1>15 DEF Start, Step, DisturbIf
<1>16. CASE RunBot
  BY <1>16 DEF RunBot, Step
<1>17. CASE FailStartup
  BY <1>17 DEF FailStartup, Step
<1>18. CASE UNCHANGED vars
  BY <1>18 DEF vars
<1> QED
  BY <1>1, <1>2, <1>3, <1>4, <1>5, <1>6, <1>7, <1>8, <1>9, <1>10, <1>11, <1>12, <1>13, <1>14, <1>15, <1>16, <1>17, <1>18
     DEF Next, Create

(* An undisturbed device keeps its loop. *)
LEMMA LoopStep == ASSUME TypeOK, OriginInv, AloneInv, MakerInv, LoopInv, [Next]_vars PROVE LoopInv'
<1> USE StartupInTask, NoneAssumption, WhoAssumption, UnparsableAssumption
    DEF TypeOK, OriginInv, Before, Task, Bot, Settled, Searches, localVars, storeVars, AloneInv, MakerInv, LoopInv
<1>1. ASSUME NEW k \in Task, Ensure(k) PROVE LoopInv'
  BY <1>1 DEF Ensure, Step, DisturbIf
<1>2. ASSUME NEW k \in Task, Reject(k) PROVE LoopInv'
  BY <1>2 DEF Reject, Step
<1>3. ASSUME NEW k \in Task, FindUser(k) PROVE LoopInv'
  BY <1>3 DEF FindUser, Step
<1>4. ASSUME NEW k \in Task, FindDevice(k) PROVE LoopInv'
  BY <1>4 DEF FindDevice, Step
<1>5. ASSUME NEW k \in Task, MakeUser(k) PROVE LoopInv'
  BY <1>5 DEF MakeUser, Step
<1>6. ASSUME NEW k \in Task, OpenStore(k) PROVE LoopInv'
  BY <1>6 DEF OpenStore, Step
<1>7. ASSUME NEW k \in Task, FailToOpen(k) PROVE LoopInv'
  BY <1>7 DEF FailToOpen, Step, DisturbIf
<1>8. ASSUME NEW k \in Task, StoreDevice(k) PROVE LoopInv'
  BY <1>8 DEF StoreDevice, Step, AfterStore
<1>9. ASSUME NEW k \in Task, SpawnLoop(k) PROVE LoopInv'
  BY <1>9 DEF SpawnLoop, Step
<1>10. ASSUME NEW k \in Task, ForgetUser(k) PROVE LoopInv'
  BY <1>10 DEF ForgetUser, Step
<1>11. ASSUME NEW k \in Task, RunLoop(k) PROVE LoopInv'
  BY <1>11 DEF RunLoop
<1>12. ASSUME NEW k \in Task, FailLoop(k) PROVE LoopInv'
  BY <1>12 DEF FailLoop
<1>13. ASSUME NEW k \in Task, Send(k) PROVE LoopInv'
  BY <1>13 DEF Send, Step
<1>14. ASSUME NEW k \in Task, Cancel(k) PROVE LoopInv'
  BY <1>14 DEF Cancel, DisturbIf, Searches
<1>15. CASE Start
  BY <1>15 DEF Start, Step, DisturbIf
<1>16. CASE RunBot
  BY <1>16 DEF RunBot, Step
<1>17. CASE FailStartup
  BY <1>17 DEF FailStartup, Step
<1>18. CASE UNCHANGED vars
  BY <1>18 DEF vars
<1> QED
  BY <1>1, <1>2, <1>3, <1>4, <1>5, <1>6, <1>7, <1>8, <1>9, <1>10, <1>11, <1>12, <1>13, <1>14, <1>15, <1>16, <1>17, <1>18
     DEF Next, Create

-----------------------------------------------------------------------------
(* The inductive invariant. *)
IInv == TypeOK /\ OriginInv /\ AloneInv /\ MakerInv /\ LoopInv

(* It holds at the start and after every step. *)
LEMMA Invariance == Spec => []IInv
<1>1. Init => IInv
  BY NoneAssumption, StartupInTask, WhoAssumption
     DEF Init, IInv, TypeOK, Labels, OriginInv, AloneInv, Settled, Searches, MakerInv, LoopInv
<1>2. IInv /\ [Next]_vars => IInv'
  BY TypeStep, OriginStep, AloneStep, MakerStep, LoopStep DEF IInv
<1> QED
  BY <1>1, <1>2, PTL DEF Spec

(* Every variable keeps its type, and a task that sends a change has a      *)
(* device to send it to (ensure_device).                                    *)
THEOREM TypeCorrect == Spec => []TypeOK
<1>1. IInv => TypeOK
  BY DEF IInv
<1> QED
  BY <1>1, Invariance, PTL

(* All changes for an undisturbed user go to the device the store leads to  *)
(* (ensure_device, create_user).                                            *)
THEOREM CallsAgree == Spec => []UndisturbedCallsAgree
<1>1. IInv => UndisturbedCallsAgree
  BY DEF IInv, MakerInv, Settled, UndisturbedCallsAgree
<1> QED
  BY <1>1, Invariance, PTL

(* That device has its loop, or a task that is about to start it            *)
(* (ensure_device, run).                                                    *)
THEOREM DeviceGetsItsLoop == Spec => []UndisturbedDeviceGetsItsLoop
<1>1. IInv => UndisturbedDeviceGetsItsLoop
  <2> SUFFICES ASSUME IInv, NEW k \in Task, pc[k] \in {"send", "sent"}, Who[k] \notin disturbed
               PROVE  LET d == target[k]
                      IN  \/ loop[d] # "none"
                          \/ pc[d] \in {"spawn", "introduce"}
                          \/ d = Startup /\ pc[d] = "failed"
    BY DEF UndisturbedDeviceGetsItsLoop
  <2>1. Settled(Who[k]) /\ target[k] = device[user[Who[k]]] /\ Who[k] \in Mxid
    BY WhoAssumption DEF IInv, MakerInv
  <2> QED
    BY <2>1 DEF IInv, LoopInv
<1> QED
  BY <1>1, Invariance, PTL

(* No other loop was ever spawned for an undisturbed user (create_device).  *)
THEOREM LoopIsTheOnlyOne == Spec => []UndisturbedLoopIsTheOnlyOne
<1>1. IInv => UndisturbedLoopIsTheOnlyOne
  BY DEF IInv, LoopInv, Settled, UndisturbedLoopIsTheOnlyOne
<1> QED
  BY <1>1, Invariance, PTL
=============================================================================
