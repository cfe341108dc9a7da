---------------------------- MODULE MessageProofs ----------------------------
(***************************************************************************)
(* Proofs about the messages of a room and what they are encrypted with:   *)
(* MessageSending, for any number of concurrent calls, of members and of   *)
(* membership changes; OutgoingRequests, for any requests, whichever of    *)
(* them the homeserver refuses; and Pagination, for any timeline and any   *)
(* pages of it.                                                            *)
(***************************************************************************)
EXTENDS MessageSending, OutgoingRequests, Pagination, SequenceTheorems, FiniteSetTheorems, TLAPS

(* Labels before a call has shared a group session. *)
Early == {"new", "ready", "claiming", "claimed", "sharing"}

(* Users whom a call claims a key for are known to the machine. *)
ClaimInv == \A c \in Call : pc[c] = "claiming" => todo[c] \subseteq known

(* A call that has not shared a group session has made none; one that sends *)
(* key requests sends those of the group session it shared.                 *)
SessionInv ==
    \A c \in Call :
        /\ pc[c] \in Early => /\ shared[c] = {} /\ pending[c] = {} /\ session # c
                               /\ via[c] = NoCall /\ \A b \in Call : via[b] # c
        /\ pc[c] = "sending" => /\ via[c] \in Call /\ session \in Call
                                /\ todo[c] \subseteq Recipients(via[c])

(* Whoever is stored as a member, or is in the members another call has read *)
(* and not yet used, is exposed to every call under way; so is whom the group       *)
(* session of a call that has shared it goes to.                            *)
ExposureInv ==
    \A c \in Call : Active(c) =>
        /\ members \subseteq exposed[c]
        /\ \A b \in Call : pc[b] = "sharing" => view[b] \subseteq exposed[c]
        /\ pc[c] = "sending" => Recipients(session) \subseteq exposed[c]

(* How far a call has served the members that stay: they are known, then    *)
(* claimed or in session or excused, then in the members read, and at last  *)
(* have the key or a request under way.                                     *)
Served(c) ==
    /\ Active(c) => steady[c] \subseteq members \cap known
    /\ pc[c] = "claiming" => steady[c] \subseteq olm \cup todo[c]
    /\ pc[c] \in {"claimed", "sharing"} => steady[c] \subseteq olm \cup excused[c]
    /\ pc[c] = "sharing" => steady[c] \subseteq view[c]
    /\ pc[c] = "sending" => steady[c] \subseteq holds[via[c]] \cup todo[c] \cup excused[c]
    /\ pc[c] \in {"encrypted", "sent"} /\ via[c] # NoCall =>
          steady[c] \subseteq holds[via[c]] \cup excused[c]

ReadInv == NobodyIsMarkedInVain /\ \A c \in Call : Served(c)

(* What a call does follows the kind it read, which was encrypted if the    *)
(* room was when the call was made.                                         *)
KindInv ==
    \A c \in Call :
        /\ pc[c] \in {"claiming", "claimed", "sharing", "sending", "encrypted"} => room[c] = "encrypted"
        /\ pc[c] = "new" => c \notin late
        /\ c \in late => room[c] # "plain"
        /\ pc[c] \notin {"encrypted", "sent", "failed"} => key[c] = NoCall
        /\ pc[c] = "encrypted" => key[c] # NoCall
        /\ pc[c] = "sent" =>
              \/ room[c] = "plain" /\ sent[c] = "m.room.message" /\ key[c] = NoCall
              \/ room[c] = "encrypted" /\ sent[c] = "m.room.encrypted" /\ key[c] # NoCall

-----------------------------------------------------------------------------
(* The types hold at the start. *)
LEMMA TypeInit == Init => TypeOK /\ ClaimInv
<1> SUFFICES ASSUME Init PROVE TypeOK /\ ClaimInv
  OBVIOUS
<1> QED
  BY MaxChangesAssumption, NoCallAssumption DEF Init, TypeOK, ClaimInv, Nobody

(* Every step keeps the types. *)
LEMMA TypeStep == ASSUME TypeOK, ClaimInv, [Next]_vars PROVE TypeOK'
<1> USE MaxChangesAssumption, NoCallAssumption DEF TypeOK, ClaimInv, roomVars, machineVars, callVars, historyVars
<1>1. ASSUME NEW u \in User, Join(u) PROVE TypeOK'
  BY <1>1 DEF Join
<1>2. ASSUME NEW u \in User, Leave(u) PROVE TypeOK'
  BY <1>2 DEF Leave
<1>3. ASSUME NEW u \in User, Learn(u) PROVE TypeOK'
  BY <1>3 DEF Learn
<1>4. ASSUME NEW k \in {"plain", "encrypted"}, StoreRoom(k) PROVE TypeOK'
  BY <1>4 DEF StoreRoom
<1>5. CASE StoreTracks
  BY <1>5 DEF StoreTracks
<1>6. ASSUME NEW c \in Call, StartUnknown(c) PROVE TypeOK'
  BY <1>6 DEF StartUnknown, Step
<1>7. ASSUME NEW c \in Call, Start(c) PROVE TypeOK'
  BY <1>7 DEF Start, Step
<1>8. ASSUME NEW c \in Call, FindMissing(c) PROVE TypeOK'
  BY <1>8 DEF FindMissing, Step
<1>9. ASSUME NEW c \in Call, NEW got \in SUBSET todo[c], Claim(c, got) PROVE TypeOK'
  BY <1>9 DEF Claim, Step
<1>10. ASSUME NEW c \in Call, ReadMembers(c) PROVE TypeOK'
  BY <1>10 DEF ReadMembers, Step
<1>11. ASSUME NEW c \in Call, Share(c) PROVE TypeOK'
  <2>1. PICK s \in Call : MakeRequests(c, s, view[c]) /\ session' \in {session, s}
    BY <1>11 DEF Share
  <2>2. /\ pc' = [pc EXCEPT ![c] = "sending"]
        /\ UNCHANGED <<roomVars, tracked, known, olm, shared, holds, room, view, key, sent, historyVars>>
    BY <1>11 DEF Share, Step
  <2> QED
    BY <2>1, <2>2 DEF MakeRequests
<1>12. ASSUME NEW c \in Call, NEW u \in User, Deliver(c, u) PROVE TypeOK'
  BY <1>12 DEF Deliver, Request, Took, Marked
<1>13. ASSUME NEW c \in Call, NEW u \in User, Refuse(c, u) PROVE TypeOK'
  BY <1>13 DEF Refuse, Request
<1>14. ASSUME NEW c \in Call, NEW u \in User, LoseAnswer(c, u) PROVE TypeOK'
  BY <1>14 DEF LoseAnswer, Request, Took
<1>15. ASSUME NEW c \in Call, Encrypt(c) PROVE TypeOK'
  BY <1>15 DEF Encrypt, Step
<1>16. ASSUME NEW c \in Call, Put(c) PROVE TypeOK'
  BY <1>16 DEF Put, Ready, MessageType
<1>17. ASSUME NEW c \in Call, Fail(c) PROVE TypeOK'
  BY <1>17 DEF Fail, Active
<1>18. CASE UNCHANGED vars
  BY <1>18 DEF vars
<1> QED
  BY <1>1, <1>2, <1>3, <1>4, <1>5, <1>6, <1>7, <1>8, <1>9, <1>10, <1>11, <1>12, <1>13, <1>14, <1>15, <1>16, <1>17, <1>18
     DEF Next, SendMessage, EncryptEvent

(* Known users stay known. *)
LEMMA ClaimStep == ASSUME TypeOK, ClaimInv, [Next]_vars PROVE ClaimInv'
<1> USE MaxChangesAssumption, NoCallAssumption DEF TypeOK, ClaimInv, roomVars, machineVars, callVars, historyVars
<1>1. ASSUME NEW u \in User, Join(u) PROVE ClaimInv'
  BY <1>1 DEF Join
<1>2. ASSUME NEW u \in User, Leave(u) PROVE ClaimInv'
  BY <1>2 DEF Leave
<1>3. ASSUME NEW u \in User, Learn(u) PROVE ClaimInv'
  BY <1>3 DEF Learn
<1>4. ASSUME NEW k \in {"plain", "encrypted"}, StoreRoom(k) PROVE ClaimInv'
  BY <1>4 DEF StoreRoom
<1>5. CASE StoreTracks
  BY <1>5 DEF StoreTracks
<1>6. ASSUME NEW c \in Call, StartUnknown(c) PROVE ClaimInv'
  BY <1>6 DEF StartUnknown, Step
<1>7. ASSUME NEW c \in Call, Start(c) PROVE ClaimInv'
  BY <1>7 DEF Start, Step
<1>8. ASSUME NEW c \in Call, FindMissing(c) PROVE ClaimInv'
  BY <1>8 DEF FindMissing, Step
<1>9. ASSUME NEW c \in Call, NEW got \in SUBSET todo[c], Claim(c, got) PROVE ClaimInv'
  BY <1>9 DEF Claim, Step
<1>10. ASSUME NEW c \in Call, ReadMembers(c) PROVE ClaimInv'
  BY <1>10 DEF ReadMembers, Step
<1>11. ASSUME NEW c \in Call, Share(c) PROVE ClaimInv'
  BY <1>11 DEF Share, Step, MakeRequests
<1>12. ASSUME NEW c \in Call, NEW u \in User, Deliver(c, u) PROVE ClaimInv'
  BY <1>12 DEF Deliver, Request, Took, Marked
<1>13. ASSUME NEW c \in Call, NEW u \in User, Refuse(c, u) PROVE ClaimInv'
  BY <1>13 DEF Refuse, Request
<1>14. ASSUME NEW c \in Call, NEW u \in User, LoseAnswer(c, u) PROVE ClaimInv'
  BY <1>14 DEF LoseAnswer, Request, Took
<1>15. ASSUME NEW c \in Call, Encrypt(c) PROVE ClaimInv'
  BY <1>15 DEF Encrypt, Step
<1>16. ASSUME NEW c \in Call, Put(c) PROVE ClaimInv'
  BY <1>16 DEF Put, Ready, MessageType
<1>17. ASSUME NEW c \in Call, Fail(c) PROVE ClaimInv'
  BY <1>17 DEF Fail, Active
<1>18. CASE UNCHANGED vars
  BY <1>18 DEF vars
<1> QED
  BY <1>1, <1>2, <1>3, <1>4, <1>5, <1>6, <1>7, <1>8, <1>9, <1>10, <1>11, <1>12, <1>13, <1>14, <1>15, <1>16, <1>17, <1>18
     DEF Next, SendMessage, EncryptEvent

(* Group sessions are made once, by the call they are named after. *)
LEMMA SessionStep == ASSUME TypeOK, SessionInv, [Next]_vars PROVE SessionInv'
<1> USE MaxChangesAssumption, NoCallAssumption DEF TypeOK, SessionInv, Early, Recipients, roomVars, machineVars, callVars, historyVars
<1>1. ASSUME NEW u \in User, Join(u) PROVE SessionInv'
  BY <1>1 DEF Join
<1>2. ASSUME NEW u \in User, Leave(u) PROVE SessionInv'
  BY <1>2 DEF Leave
<1>3. ASSUME NEW u \in User, Learn(u) PROVE SessionInv'
  BY <1>3 DEF Learn
<1>4. ASSUME NEW k \in {"plain", "encrypted"}, StoreRoom(k) PROVE SessionInv'
  BY <1>4 DEF StoreRoom
<1>5. CASE StoreTracks
  BY <1>5 DEF StoreTracks
<1>6. ASSUME NEW c \in Call, StartUnknown(c) PROVE SessionInv'
  BY <1>6 DEF StartUnknown, Step
<1>7. ASSUME NEW c \in Call, Start(c) PROVE SessionInv'
  BY <1>7 DEF Start, Step
<1>8. ASSUME NEW c \in Call, FindMissing(c) PROVE SessionInv'
  BY <1>8 DEF FindMissing, Step
<1>9. ASSUME NEW c \in Call, NEW got \in SUBSET todo[c], Claim(c, got) PROVE SessionInv'
  BY <1>9 DEF Claim, Step
<1>10. ASSUME NEW c \in Call, ReadMembers(c) PROVE SessionInv'
  BY <1>10 DEF ReadMembers, Step
<1>11. ASSUME NEW c \in Call, Share(c) PROVE SessionInv'
  BY <1>11 DEF Share, Step, MakeRequests
<1>12. ASSUME NEW c \in Call, NEW u \in User, Deliver(c, u) PROVE SessionInv'
  BY <1>12 DEF Deliver, Request, Took, Marked
<1>13. ASSUME NEW c \in Call, NEW u \in User, Refuse(c, u) PROVE SessionInv'
  BY <1>13 DEF Refuse, Request
<1>14. ASSUME NEW c \in Call, NEW u \in User, LoseAnswer(c, u) PROVE SessionInv'
  BY <1>14 DEF LoseAnswer, Request, Took
<1>15. ASSUME NEW c \in Call, Encrypt(c) PROVE SessionInv'
  BY <1>15 DEF Encrypt, Step
<1>16. ASSUME NEW c \in Call, Put(c) PROVE SessionInv'
  BY <1>16 DEF Put, Ready, MessageType
<1>17. ASSUME NEW c \in Call, Fail(c) PROVE SessionInv'
  BY <1>17 DEF Fail, Active
<1>18. CASE UNCHANGED vars
  BY <1>18 DEF vars
<1> QED
  BY <1>1, <1>2, <1>3, <1>4, <1>5, <1>6, <1>7, <1>8, <1>9, <1>10, <1>11, <1>12, <1>13, <1>14, <1>15, <1>16, <1>17, <1>18
     DEF Next, SendMessage, EncryptEvent

(* Who is exposed stays so. *)
LEMMA ExposureStep == ASSUME TypeOK, SessionInv, ExposureInv, [Next]_vars PROVE ExposureInv'
<1> USE MaxChangesAssumption, NoCallAssumption DEF TypeOK, SessionInv, Early, Recipients, roomVars, machineVars, callVars, historyVars, ExposureInv, Active
<1>1. ASSUME NEW u \in User, Join(u) PROVE ExposureInv'
  BY <1>1 DEF Join
<1>2. ASSUME NEW u \in User, Leave(u) PROVE ExposureInv'
  BY <1>2 DEF Leave
<1>3. ASSUME NEW u \in User, Learn(u) PROVE ExposureInv'
  BY <1>3 DEF Learn
<1>4. ASSUME NEW k \in {"plain", "encrypted"}, StoreRoom(k) PROVE ExposureInv'
  BY <1>4 DEF StoreRoom
<1>5. CASE StoreTracks
  BY <1>5 DEF StoreTracks
<1>6. ASSUME NEW c \in Call, StartUnknown(c) PROVE ExposureInv'
  BY <1>6 DEF StartUnknown, Step
<1>7. ASSUME NEW c \in Call, Start(c) PROVE ExposureInv'
  BY <1>7 DEF Start, Step
<1>8. ASSUME NEW c \in Call, FindMissing(c) PROVE ExposureInv'
  BY <1>8 DEF FindMissing, Step
<1>9. ASSUME NEW c \in Call, NEW got \in SUBSET todo[c], Claim(c, got) PROVE ExposureInv'
  BY <1>9 DEF Claim, Step
<1>10. ASSUME NEW c \in Call, ReadMembers(c) PROVE ExposureInv'
  BY <1>10 DEF ReadMembers, Step
<1>11. ASSUME NEW c \in Call, Share(c) PROVE ExposureInv'
  BY <1>11 DEF Share, Step, MakeRequests
<1>12. ASSUME NEW c \in Call, NEW u \in User, Deliver(c, u) PROVE ExposureInv'
  BY <1>12 DEF Deliver, Request, Took, Marked
<1>13. ASSUME NEW c \in Call, NEW u \in User, Refuse(c, u) PROVE ExposureInv'
  BY <1>13 DEF Refuse, Request
<1>14. ASSUME NEW c \in Call, NEW u \in User, LoseAnswer(c, u) PROVE ExposureInv'
  BY <1>14 DEF LoseAnswer, Request, Took
<1>15. ASSUME NEW c \in Call, Encrypt(c) PROVE ExposureInv'
  BY <1>15 DEF Encrypt, Step
<1>16. ASSUME NEW c \in Call, Put(c) PROVE ExposureInv'
  BY <1>16 DEF Put, Ready, MessageType
<1>17. ASSUME NEW c \in Call, Fail(c) PROVE ExposureInv'
  BY <1>17 DEF Fail, Active
<1>18. CASE UNCHANGED vars
  BY <1>18 DEF vars
<1> QED
  BY <1>1, <1>2, <1>3, <1>4, <1>5, <1>6, <1>7, <1>8, <1>9, <1>10, <1>11, <1>12, <1>13, <1>14, <1>15, <1>16, <1>17, <1>18
     DEF Next, SendMessage, EncryptEvent

(* Who is served stays so, and requests are marked that were taken. *)
LEMMA ReadStep == ASSUME TypeOK, ClaimInv, SessionInv, ReadInv, [Next]_vars PROVE ReadInv'
<1> USE MaxChangesAssumption, NoCallAssumption DEF TypeOK, SessionInv, Early, Recipients, roomVars, machineVars, callVars, historyVars, ClaimInv, ReadInv, Served, NobodyIsMarkedInVain, Active
<1>1. ASSUME NEW u \in User, Join(u) PROVE ReadInv'
  BY <1>1 DEF Join
<1>2. ASSUME NEW u \in User, Leave(u) PROVE ReadInv'
  BY <1>2 DEF Leave
<1>3. ASSUME NEW u \in User, Learn(u) PROVE ReadInv'
  BY <1>3 DEF Learn
<1>4. ASSUME NEW k \in {"plain", "encrypted"}, StoreRoom(k) PROVE ReadInv'
  BY <1>4 DEF StoreRoom
<1>5. CASE StoreTracks
  BY <1>5 DEF StoreTracks
<1>6. ASSUME NEW c \in Call, StartUnknown(c) PROVE ReadInv'
  BY <1>6 DEF StartUnknown, Step
<1>7. ASSUME NEW c \in Call, Start(c) PROVE ReadInv'
  BY <1>7 DEF Start, Step
<1>8. ASSUME NEW c \in Call, FindMissing(c) PROVE ReadInv'
  BY <1>8 DEF FindMissing, Step
<1>9. ASSUME NEW c \in Call, NEW got \in SUBSET todo[c], Claim(c, got) PROVE ReadInv'
  BY <1>9 DEF Claim, Step
<1>10. ASSUME NEW c \in Call, ReadMembers(c) PROVE ReadInv'
  BY <1>10 DEF ReadMembers, Step
<1>11. ASSUME NEW c \in Call, Share(c) PROVE ReadInv'
  BY <1>11 DEF Share, Step, MakeRequests
<1>12. ASSUME NEW c \in Call, NEW u \in User, Deliver(c, u) PROVE ReadInv'
  BY <1>12 DEF Deliver, Request, Took, Marked
<1>13. ASSUME NEW c \in Call, NEW u \in User, Refuse(c, u) PROVE ReadInv'
  BY <1>13 DEF Refuse, Request
<1>14. ASSUME NEW c \in Call, NEW u \in User, LoseAnswer(c, u) PROVE ReadInv'
  BY <1>14 DEF LoseAnswer, Request, Took
<1>15. ASSUME NEW c \in Call, Encrypt(c) PROVE ReadInv'
  BY <1>15 DEF Encrypt, Step
<1>16. ASSUME NEW c \in Call, Put(c) PROVE ReadInv'
  BY <1>16 DEF Put, Ready, MessageType
<1>17. ASSUME NEW c \in Call, Fail(c) PROVE ReadInv'
  BY <1>17 DEF Fail, Active
<1>18. CASE UNCHANGED vars
  BY <1>18 DEF vars
<1> QED
  BY <1>1, <1>2, <1>3, <1>4, <1>5, <1>6, <1>7, <1>8, <1>9, <1>10, <1>11, <1>12, <1>13, <1>14, <1>15, <1>16, <1>17, <1>18
     DEF Next, SendMessage, EncryptEvent

(* Payload, type and kind stay together. *)
LEMMA KindStep == ASSUME TypeOK, SessionInv, KindInv, [Next]_vars PROVE KindInv'
<1> USE MaxChangesAssumption, NoCallAssumption DEF TypeOK, SessionInv, Early, Recipients, roomVars, machineVars, callVars, historyVars, KindInv
<1>1. ASSUME NEW u \in User, Join(u) PROVE KindInv'
  BY <1>1 DEF Join
<1>2. ASSUME NEW u \in User, Leave(u) PROVE KindInv'
  BY <1>2 DEF Leave
<1>3. ASSUME NEW u \in User, Learn(u) PROVE KindInv'
  BY <1>3 DEF Learn
<1>4. ASSUME NEW k \in {"plain", "encrypted"}, StoreRoom(k) PROVE KindInv'
  BY <1>4 DEF StoreRoom
<1>5. CASE StoreTracks
  BY <1>5 DEF StoreTracks
<1>6. ASSUME NEW c \in Call, StartUnknown(c) PROVE KindInv'
  BY <1>6 DEF StartUnknown, Step
<1>7. ASSUME NEW c \in Call, Start(c) PROVE KindInv'
  BY <1>7 DEF Start, Step
<1>8. ASSUME NEW c \in Call, FindMissing(c) PROVE KindInv'
  BY <1>8 DEF FindMissing, Step
<1>9. ASSUME NEW c \in Call, NEW got \in SUBSET todo[c], Claim(c, got) PROVE KindInv'
  BY <1>9 DEF Claim, Step
<1>10. ASSUME NEW c \in Call, ReadMembers(c) PROVE KindInv'
  BY <1>10 DEF ReadMembers, Step
<1>11. ASSUME NEW c \in Call, Share(c) PROVE KindInv'
  BY <1>11 DEF Share, Step, MakeRequests
<1>12. ASSUME NEW c \in Call, NEW u \in User, Deliver(c, u) PROVE KindInv'
  BY <1>12 DEF Deliver, Request, Took, Marked
<1>13. ASSUME NEW c \in Call, NEW u \in User, Refuse(c, u) PROVE KindInv'
  BY <1>13 DEF Refuse, Request
<1>14. ASSUME NEW c \in Call, NEW u \in User, LoseAnswer(c, u) PROVE KindInv'
  BY <1>14 DEF LoseAnswer, Request, Took
<1>15. ASSUME NEW c \in Call, Encrypt(c) PROVE KindInv'
  BY <1>15 DEF Encrypt, Step
<1>16. ASSUME NEW c \in Call, Put(c) PROVE KindInv'
  BY <1>16 DEF Put, Ready, MessageType
<1>17. ASSUME NEW c \in Call, Fail(c) PROVE KindInv'
  BY <1>17 DEF Fail, Active
<1>18. CASE UNCHANGED vars
  BY <1>18 DEF vars
<1> QED
  BY <1>1, <1>2, <1>3, <1>4, <1>5, <1>6, <1>7, <1>8, <1>9, <1>10, <1>11, <1>12, <1>13, <1>14, <1>15, <1>16, <1>17, <1>18
     DEF Next, SendMessage, EncryptEvent

-----------------------------------------------------------------------------
(* The inductive invariant. *)
IInv == TypeOK /\ ClaimInv /\ SessionInv /\ ExposureInv /\ ReadInv /\ KindInv

(* It holds at the start and after every step. *)
LEMMA Invariance == Spec => []IInv
<1>1. Init => IInv
  <2> SUFFICES ASSUME Init PROVE IInv
    OBVIOUS
  <2>1. /\ SessionInv /\ ExposureInv /\ ReadInv /\ KindInv
    BY NoCallAssumption DEF Init, Nobody, SessionInv, Early, ExposureInv, Active, ReadInv,
       NobodyIsMarkedInVain, Served, KindInv
  <2> QED
    BY <2>1, TypeInit DEF IInv
<1>2. IInv /\ [Next]_vars => IInv'
  BY TypeStep, ClaimStep, SessionStep, ExposureStep, ReadStep, KindStep DEF IInv
<1> QED
  BY <1>1, <1>2, PTL DEF Spec

(* Every variable keeps its type; the machine knows only users it tracks    *)
(* and has sessions only with users it knows.                               *)
THEOREM TypeCorrect == Spec => []TypeOK
<1>1. IInv => TypeOK
  BY DEF IInv
<1> QED
  BY <1>1, Invariance, PTL

(* Who stays a member and is known has the key of an event before it is     *)
(* sent, whatever other calls do meanwhile (encrypt_event).                 *)
THEOREM SteadyMembersRead == Spec => []SteadyMembersCanRead
<1>1. IInv => SteadyMembersCanRead
  BY DEF IInv, ReadInv, Served, SteadyMembersCanRead
<1> QED
  BY <1>1, Invariance, PTL

(* A request that is marked as sent was taken (share_room_key).             *)
THEOREM MarkedIsTaken == Spec => []NobodyIsMarkedInVain
<1>1. IInv => NobodyIsMarkedInVain
  BY DEF IInv, ReadInv
<1> QED
  BY <1>1, Invariance, PTL

(* Payload and type agree, and nothing goes in the clear that was sent      *)
(* after the room was stored as encrypted (send_message).                   *)
THEOREM ClearBeforeUpgrade == Spec => []ClearOnlyBeforeUpgrade
<1>1. IInv => ClearOnlyBeforeUpgrade
  BY DEF IInv, KindInv, ClearOnlyBeforeUpgrade
<1> QED
  BY <1>1, Invariance, PTL

(* What OnlyStoredMembersCanRead says of one step. *)
Sealed == \A c \in Call : pc[c] # "encrypted" /\ pc'[c] = "encrypted" =>
              Recipients(key'[c]) \subseteq exposed[c]

(* An event is encrypted only for users whom the stored room had as members *)
(* during the call, or another call had read there before (share_room_key). *)
THEOREM StoredMembersOnly == Spec => OnlyStoredMembersCanRead
<1>1. ASSUME IInv, [Next]_vars PROVE Sealed
  <2> USE DEF IInv, TypeOK, Sealed
  <2>1. ASSUME NEW c \in Call, Encrypt(c) PROVE Sealed
    <3>1. Recipients(session) \subseteq exposed[c]
      BY <1>1, <2>1 DEF ExposureInv, Active, Encrypt, Step
    <3>2. key'[c] = session /\ \A b \in Call \ {c} : pc'[b] = pc[b]
      BY <1>1, <2>1 DEF Encrypt, Step
    <3> QED
      BY <3>1, <3>2
  <2>2. CASE \A c \in Call : pc[c] # "encrypted" => pc'[c] # "encrypted"
    BY <2>2
  <2> QED
    BY <1>1, <2>1, <2>2
       DEF Next, SendMessage, EncryptEvent, vars, Step, Join, Leave, Learn, StoreRoom, StoreTracks,
           StartUnknown, Start, FindMissing, Claim, ReadMembers, Share, Deliver, Request, Refuse,
           LoseAnswer, Put, Fail
<1> QED
  BY <1>1, Invariance, PTL DEF Spec, OnlyStoredMembersCanRead, Sealed

-----------------------------------------------------------------------------
(* MarkedWasTaken is inductive, given the types. *)
OutgoingInv == OutgoingTypeOK /\ MarkedWasTaken

(* Nothing is marked at the start. *)
LEMMA OutgoingStart == OutgoingInit => OutgoingInv
  BY DEF OutgoingInit, OutgoingInv, OutgoingTypeOK, MarkedWasTaken

(* Only the request at hand is marked, and only if it was taken, or refused *)
(* with an answer that passes.                                              *)
LEMMA StepMarks == ASSUME OutgoingInv, [OutgoingNext]_outgoingVars PROVE OutgoingInv'
<1> USE DEF OutgoingInv, OutgoingTypeOK, MarkedWasTaken
<1>1. CASE Tick
  BY <1>1 DEF Tick
<1>2. ASSUME NEW r \in Outgoing, Queue(r) PROVE OutgoingInv'
  BY <1>2 DEF Queue
<1>3. ASSUME NEW r \in Outgoing, Take(r) PROVE OutgoingInv'
  BY <1>3 DEF Take, Mark, Current
<1>4. ASSUME NEW r \in Outgoing, RefuseOutgoing(r) PROVE OutgoingInv'
  <2>1. CASE r \in Lenient
    BY <1>4, <2>1 DEF RefuseOutgoing, Mark, Current
  <2>2. CASE r \notin Lenient
    BY <1>4, <2>2 DEF RefuseOutgoing, Current
  <2> QED
    BY <2>1, <2>2
<1>5. ASSUME NEW r \in Outgoing, Lose(r) PROVE OutgoingInv'
  <2>1. /\ r \in batch /\ batch' = {} /\ UNCHANGED <<outbox, marked, refused>>
        /\ taken' = taken \/ taken' = (taken \cup {r}) \ Hopeless
    BY <1>5 DEF Lose, Current
  <2> QED
    BY <2>1
<1>6. CASE UNCHANGED outgoingVars
  BY <1>6 DEF outgoingVars
<1> QED
  BY <1>1, <1>2, <1>3, <1>4, <1>5, <1>6 DEF OutgoingNext, Answer

-----------------------------------------------------------------------------
(* Every variable keeps its type, what the loop goes through is still to be *)
(* sent, and nothing is both marked and to be sent (outgoing_requests).     *)
THEOREM OutgoingTypeCorrect == OutgoingSpec => []OutgoingTypeOK
<1>1. OutgoingInv => OutgoingTypeOK
  BY DEF OutgoingInv
<1> QED
  BY <1>1, OutgoingStart, StepMarks, PTL DEF OutgoingSpec

(* What the machine believes sent was taken, or its refusal passed for an   *)
(* answer (send, process_outgoing_request).                                 *)
THEOREM MarkedMeansTaken == OutgoingSpec => []MarkedWasTaken
<1>1. OutgoingInv => MarkedWasTaken
  BY DEF OutgoingInv
<1> QED
  BY <1>1, OutgoingStart, StepMarks, PTL DEF OutgoingSpec

-----------------------------------------------------------------------------
(* Pagination.                                                              *)

(* The reader goes on where the last page came to, never back past where it *)
(* began, and is through when nothing is beyond.                            *)
PlaceInv ==
    /\ origin = -1 <=> reached = -1
    /\ reached = -1 => /\ next_token = -1 /\ messages = <<>> /\ page = <<>>
                       /\ stage \in {"request", "failed"}
    /\ stage = "request" \/ (stage = "yield" /\ last = FALSE) => next_token = reached
    /\ direction = "b" => reached <= origin
    /\ stage = "done" \/ (stage = "yield" /\ last = TRUE) =>
          IF direction = "f" THEN reached >= origin ELSE reached = 0

(* What it has. *)
Got == messages \o page

(* The place it began at. *)
Began == IF direction = "f" THEN 0 ELSE origin

GotInv == reached # -1 /\ (stage # "failed" \/ streams = TRUE) =>
             InOrder(Got) /\ Range(Got) = Between(Began, reached)

ReaderInv == ReaderTypeOK /\ PlaceInv /\ GotInv

(* A page is a list of its events. *)
LEMMA ChunkIsPage ==
    ASSUME ReaderTypeOK, NEW from, NEW to, NEW chunk \in Chunks(Between(from, to))
    PROVE  chunk \in Seq(Shown) /\ InOrder(chunk) /\ Range(chunk) = Between(from, to)
<1> DEFINE S == Between(from, to)
<1>1. S \subseteq Shown
  BY DEF Between
<1>2. Cardinality(S) \in Nat
  <2>1. IsFiniteSet(1 .. MaxEvent)
    BY MaxEventAssumption, FS_Interval
  <2>2. S \subseteq 1 .. MaxEvent
    BY <1>1, ShownAssumption DEF Event
  <2> QED
    BY <2>1, <2>2, FS_Subset, FS_CardinalityType
<1> HIDE DEF S
<1>3. chunk \in [1 .. Cardinality(S) -> S] /\ InOrder(chunk) /\ Range(chunk) = S
  BY DEF Chunks, S
<1>4. chunk \in [1 .. Cardinality(S) -> Shown]
  BY <1>1, <1>3
<1>5. chunk \in Seq(Shown)
  BY <1>2, <1>4
<1> QED
  BY <1>3, <1>5 DEF S

(* A list is in order if its parts are, and nothing of the second belongs   *)
(* before something of the first.                                           *)
LEMMA AppendInOrder ==
    ASSUME NEW s \in Seq(Shown), NEW t \in Seq(Shown), InOrder(s), InOrder(t),
           \A e \in Range(s), g \in Range(t) : Earlier(e, g)
    PROVE  InOrder(s \o t) /\ Range(s \o t) = Range(s) \cup Range(t)
<1> DEFINE u == s \o t
<1>1. /\ Len(s) \in Nat /\ Len(t) \in Nat /\ DOMAIN s = 1 .. Len(s) /\ DOMAIN t = 1 .. Len(t)
      /\ DOMAIN u = 1 .. Len(s) + Len(t)
  BY ConcatProperties, LenProperties
<1>2. /\ \A i \in 1 .. Len(s) : u[i] = s[i]
      /\ \A i \in Len(s) + 1 .. Len(s) + Len(t) : u[i] = t[i - Len(s)]
  BY <1>1, ConcatProperties
<1>3. Range(u) = Range(s) \cup Range(t)
  BY RangeConcatenation
<1> HIDE DEF u
<1>4. \A i \in DOMAIN s : s[i] \in Range(s)
  BY DEF Range
<1>5. \A i \in DOMAIN t : t[i] \in Range(t)
  BY DEF Range
<1>6. ASSUME NEW i \in DOMAIN u, NEW j \in DOMAIN u, i < j PROVE Earlier(u[i], u[j])
  <2>1. CASE j \in 1 .. Len(s)
    <3>1. i \in DOMAIN s /\ j \in DOMAIN s /\ u[i] = s[i] /\ u[j] = s[j]
      BY <1>1, <1>2, <1>6, <2>1
    <3> QED
      BY <1>6, <3>1 DEF InOrder
  <2>2. CASE i \in 1 .. Len(s) /\ j \in Len(s) + 1 .. Len(s) + Len(t)
    <3>1. i \in DOMAIN s /\ j - Len(s) \in DOMAIN t /\ u[i] = s[i] /\ u[j] = t[j - Len(s)]
      BY <1>1, <1>2, <2>2
    <3> QED
      BY <1>4, <1>5, <3>1
  <2>3. CASE i \in Len(s) + 1 .. Len(s) + Len(t)
    <3>1. j \in Len(s) + 1 .. Len(s) + Len(t)
      BY <1>1, <1>6, <2>3
    <3>2. /\ i - Len(s) \in DOMAIN t /\ j - Len(s) \in DOMAIN t /\ i - Len(s) < j - Len(s)
          /\ u[i] = t[i - Len(s)] /\ u[j] = t[j - Len(s)]
      BY <1>1, <1>2, <1>6, <2>3, <3>1
    <3> QED
      BY <3>2 DEF InOrder
  <2> QED
    BY <1>1, <2>1, <2>2, <2>3
<1>7. InOrder(u)
  BY <1>6 DEF InOrder
<1> QED
  BY <1>3, <1>7 DEF u

(* What the consumer has polled and what is left of the page stay the same. *)
LEMMA YieldKeeps ==
    ASSUME NEW s \in Seq(Shown), NEW t \in Seq(Shown), t # <<>>
    PROVE  /\ Append(s, Head(t)) \in Seq(Shown) /\ Tail(t) \in Seq(Shown)
           /\ Append(s, Head(t)) \o Tail(t) = s \o t
<1>1. Head(t) \in Shown /\ Tail(t) \in Seq(Shown) /\ <<Head(t)>> \in Seq(Shown)
  BY HeadTailProperties
<1>2. Append(s, Head(t)) = s \o <<Head(t)>> /\ Append(s, Head(t)) \in Seq(Shown)
  BY <1>1, AppendIsConcat, AppendProperties
<1>3. <<Head(t)>> \o Tail(t) = t
  <2>1. Len(t) \in Nat \ {0}
    BY EmptySeq, LenProperties
  <2> QED
    BY <1>1, <2>1, ConcatProperties, HeadTailProperties, SeqEqual
<1>4. (s \o <<Head(t)>>) \o Tail(t) = s \o (<<Head(t)>> \o Tail(t))
  BY <1>1, ConcatAssociative
<1> QED
  BY <1>1, <1>2, <1>3, <1>4

(* A page is kept: at once, or to be yielded. *)
LEMMA KeepAppends ==
    ASSUME ReaderTypeOK, stage = "request", NEW chunk \in Seq(Shown), Keep(chunk), last' \in BOOLEAN
    PROVE  /\ messages' \in Seq(Shown) /\ page' \in Seq(Shown)
           /\ stage' \in {"yield", "done", "request"} /\ (stage' # "yield" => page' = <<>>)
           /\ stage' = "done" => last' = TRUE
           /\ stage' = "request" => last' = FALSE
           /\ Got' = Got \o chunk
<1>1. messages \in Seq(Shown) /\ page = <<>> /\ streams \in BOOLEAN /\ messages \o page = messages
  BY ConcatEmptySeq DEF ReaderTypeOK
<1>2. CASE streams
  BY <1>1, <1>2 DEF Keep, Got
<1>3. CASE ~streams
  <2>1. messages' = messages \o chunk /\ page' = <<>> /\ messages \o chunk \in Seq(Shown)
    BY <1>1, <1>3, ConcatProperties DEF Keep
  <2>2. Got' = Got \o chunk
    BY <1>1, <2>1, ConcatEmptySeq DEF Got
  <2>3. stage' = IF last' THEN "done" ELSE "request"
    BY <1>3 DEF Keep
  <2> QED
    BY <2>1, <2>2, <2>3
<1> QED
  BY <1>2, <1>3

(* A request starts where the last page came to, or where the reader begins. *)
LEMMA GoesOn ==
    ASSUME ReaderTypeOK, PlaceInv, stage = "request"
    PROVE  /\ From \in 0 .. timeline
           /\ reached # -1 => From = reached
           /\ reached = -1 => From = IF direction = "f" THEN 0 ELSE timeline
  BY MaxEventAssumption DEF ReaderTypeOK, PlaceInv, From, FirstPlace

(* A page brings the reader on in its direction: what it shows comes after  *)
(* what the reader has, and nothing lies between.                           *)
LEMMA PageFollows ==
    ASSUME ReaderTypeOK, NEW b \in Nat, NEW r \in Nat, NEW to \in Nat,
           IF direction = "f" THEN b <= r /\ r <= to ELSE b >= r /\ r >= to
    PROVE  /\ Between(b, to) = Between(b, r) \cup Between(r, to)
           /\ \A e \in Between(b, r), g \in Between(r, to) : Earlier(e, g)
<1>1. Shown \subseteq Int
  BY MaxEventAssumption, ShownAssumption DEF Event
<1>2. CASE direction = "f"
  <2>1. b + 1 .. to = (b + 1 .. r) \cup (r + 1 .. to)
    BY <1>2
  <2>2. \A e \in b + 1 .. r, g \in r + 1 .. to : e < g
    BY <1>2
  <2> QED
    BY <1>2, <2>1, <2>2 DEF Between, Earlier
<1>3. CASE direction # "f"
  <2>1. to + 1 .. b = (r + 1 .. b) \cup (to + 1 .. r)
    BY <1>3
  <2>2. \A e \in r + 1 .. b, g \in to + 1 .. r : e > g
    BY <1>3
  <2> QED
    BY <1>3, <2>1, <2>2 DEF Between, Earlier
<1> QED
  BY <1>2, <1>3

(* The answer to a request keeps the invariant. *)
LEMMA ReceiveStep ==
    ASSUME ReaderInv, NEW to \in 0 .. MaxEvent, Receive(to) PROVE ReaderInv'
<1> USE MaxEventAssumption
<1>1. /\ ReaderTypeOK /\ PlaceInv /\ GotInv /\ stage = "request" /\ PageEnds(to)
      /\ last' = ~Beyond(to) /\ reached' = to
      /\ next_token' = (IF Beyond(to) THEN to ELSE next_token)
      /\ origin' = (IF origin = -1 THEN timeline ELSE origin)
      /\ UNCHANGED <<timeline, direction, streams>>
  BY DEF ReaderInv, Receive
<1>2. PICK chunk \in Chunks(Between(From, to)) : Keep(chunk)
  BY DEF Receive
<1>3. chunk \in Seq(Shown) /\ InOrder(chunk) /\ Range(chunk) = Between(From, to)
  BY <1>1, ChunkIsPage
<1>4. last' \in BOOLEAN /\ (last' = FALSE <=> Beyond(to))
  BY <1>1 DEF Beyond
<1>5. /\ messages' \in Seq(Shown) /\ page' \in Seq(Shown)
      /\ stage' \in {"yield", "done", "request"} /\ (stage' # "yield" => page' = <<>>)
      /\ stage' = "done" => last' = TRUE
      /\ stage' = "request" => last' = FALSE
      /\ Got' = Got \o chunk
  BY <1>1, <1>2, <1>3, <1>4, KeepAppends
<1>6. /\ From \in 0 .. timeline
      /\ reached # -1 => From = reached
      /\ reached = -1 => From = IF direction = "f" THEN 0 ELSE timeline
  BY <1>1, GoesOn
<1>7. /\ timeline \in Nat /\ to \in Nat /\ to <= timeline /\ direction \in {"f", "b"}
      /\ IF direction = "f" THEN From <= to ELSE to <= From
      /\ Beyond(to) \/ to = IF direction = "f" THEN timeline ELSE 0
  BY <1>1, <1>6 DEF PageEnds, Beyond, ReaderTypeOK
<1>8. ReaderTypeOK'
  BY <1>1, <1>4, <1>5, <1>7 DEF ReaderTypeOK
<1>9. /\ origin' \in 0 .. timeline /\ reached' \in 0 .. timeline
      /\ direction = "b" => From <= origin'
  BY <1>1, <1>6, <1>7 DEF ReaderTypeOK, PlaceInv
<1>10. PlaceInv'
  <2>1. (origin = -1 <=> reached = -1)' /\ reached' # -1
    BY <1>7, <1>9
  <2>2. (stage = "request" \/ (stage = "yield" /\ last = FALSE) => next_token = reached)'
    BY <1>1, <1>4, <1>5
  <2>3. (direction = "b" => reached <= origin)'
    BY <1>1, <1>6, <1>7, <1>9
  <2>4. (stage = "done" \/ (stage = "yield" /\ last = TRUE) =>
           IF direction = "f" THEN reached >= origin ELSE reached = 0)'
    <3>1. last' = TRUE => ~ Beyond(to)
      BY <1>4
    <3> QED
      BY <1>1, <1>5, <1>7, <1>9, <3>1
  <2> QED
    BY <2>1, <2>2, <2>3, <2>4 DEF PlaceInv
<1>11. /\ InOrder(Got) /\ Got \in Seq(Shown)
       /\ Range(Got) = Between(IF direction = "f" THEN 0 ELSE origin', From)
  <2>1. Got \in Seq(Shown)
    BY <1>1, ConcatProperties DEF ReaderTypeOK, Got
  <2>2. CASE reached # -1
    <3>1. origin' = origin
      BY <1>1, <2>2 DEF PlaceInv
    <3> QED
      BY <1>1, <1>6, <2>1, <2>2, <3>1 DEF GotInv, Began
  <2>3. CASE reached = -1
    <3>1. messages = <<>> /\ page = <<>> /\ origin' = timeline
      BY <1>1, <2>3 DEF PlaceInv
    <3>2. Got = <<>>
      BY <3>1 DEF Got
    <3>3. InOrder(Got) /\ Range(Got) = {}
      BY <3>2 DEF InOrder, Range
    <3>4. \A n \in Nat : Between(n, n) = {}
      BY DEF Between
    <3> QED
      BY <1>6, <1>7, <2>1, <2>3, <3>1, <3>3, <3>4
  <2> QED
    BY <2>2, <2>3
<1>12. /\ Between(Began, reached)' = Range(Got) \cup Range(chunk)
       /\ \A e \in Range(Got), g \in Range(chunk) : Earlier(e, g)
  <2> DEFINE b == IF direction = "f" THEN 0 ELSE origin'
  <2>1. /\ b \in Nat /\ From \in Nat
        /\ IF direction = "f" THEN b <= From /\ From <= to ELSE b >= From /\ From >= to
    BY <1>6, <1>7, <1>9
  <2>2. Between(Began, reached)' = Between(b, to)
    BY <1>1 DEF Between, Began
  <2> HIDE DEF b
  <2>3. /\ Between(b, to) = Between(b, From) \cup Between(From, to)
        /\ \A e \in Between(b, From), g \in Between(From, to) : Earlier(e, g)
    BY <1>1, <1>7, <2>1, PageFollows
  <2> QED
    BY <1>3, <1>11, <2>2, <2>3 DEF b
<1>13. InOrder(Got \o chunk) /\ Range(Got \o chunk) = Range(Got) \cup Range(chunk)
  BY <1>3, <1>11, <1>12, AppendInOrder
<1>14. InOrder(Got)'
  BY <1>1, <1>5, <1>13 DEF InOrder, Earlier
<1>15. GotInv'
  BY <1>5, <1>12, <1>13, <1>14 DEF GotInv
<1> QED
  BY <1>8, <1>10, <1>15 DEF ReaderInv

(* Every step of a reader keeps the invariant. *)
LEMMA ReaderStep == ASSUME ReaderInv, [ReaderNext]_paginationVars PROVE ReaderInv'
<1> USE MaxEventAssumption
<1>1. ASSUME UNCHANGED <<direction, streams, readerVars>>, timeline' \in timeline .. MaxEvent
      PROVE  ReaderInv'
  <2>1. ReaderTypeOK'
    BY <1>1 DEF ReaderInv, ReaderTypeOK, readerVars
  <2>2. PlaceInv'
    BY <1>1 DEF ReaderInv, PlaceInv, readerVars
  <2>3. GotInv'
    BY <1>1 DEF ReaderInv, GotInv, Got, InOrder, Earlier, Between, Began, readerVars
  <2> QED
    BY <2>1, <2>2, <2>3 DEF ReaderInv
<1>2. ASSUME NEW to \in 0 .. MaxEvent, Receive(to) PROVE ReaderInv'
  BY <1>2, ReceiveStep
<1>3. CASE Yield
  <2>1. /\ stage = "yield" /\ page # <<>> /\ messages' = Append(messages, Head(page)) /\ page' = Tail(page)
        /\ UNCHANGED <<timeline, direction, streams, stage, next_token, last, origin, reached>>
        /\ ReaderTypeOK /\ PlaceInv /\ GotInv
    BY <1>3 DEF Yield, ReaderInv
  <2>2. messages' \in Seq(Shown) /\ page' \in Seq(Shown) /\ Got' = Got
    BY <2>1, YieldKeeps DEF ReaderTypeOK, Got
  <2>3. ReaderTypeOK'
    BY <2>1, <2>2 DEF ReaderTypeOK
  <2>4. reached # -1
    BY <2>1 DEF PlaceInv
  <2>5. PlaceInv'
    BY <2>1, <2>4 DEF PlaceInv
  <2>6. GotInv'
    BY <2>1, <2>2 DEF GotInv, InOrder, Earlier, Between, Began
  <2> QED
    BY <2>3, <2>5, <2>6 DEF ReaderInv
<1>4. CASE TurnPage
  <2>1. /\ stage = "yield" /\ page = <<>> /\ stage' = (IF last THEN "done" ELSE "request")
        /\ UNCHANGED <<timeline, direction, streams, next_token, page, last, messages, origin, reached>>
        /\ ReaderTypeOK /\ PlaceInv /\ GotInv
    BY <1>4 DEF TurnPage, ReaderInv
  <2>2. ReaderTypeOK'
    BY <2>1 DEF ReaderTypeOK
  <2>3. last \in BOOLEAN /\ reached # -1
    BY <2>1 DEF ReaderTypeOK, PlaceInv
  <2>4. (last = TRUE /\ stage' = "done") \/ (last = FALSE /\ stage' = "request")
    BY <2>1, <2>3
  <2>5. PlaceInv'
    BY <2>1, <2>3, <2>4 DEF PlaceInv
  <2>6. GotInv'
    BY <2>1 DEF GotInv, Got, InOrder, Earlier, Between, Began
  <2> QED
    BY <2>2, <2>5, <2>6 DEF ReaderInv
<1>5. CASE FailPage
  <2>1. /\ stage = "request" /\ stage' = "failed" /\ messages' = (IF streams THEN messages ELSE <<>>)
        /\ UNCHANGED <<timeline, direction, streams, next_token, page, last, origin, reached>>
        /\ ReaderTypeOK /\ PlaceInv /\ GotInv
    BY <1>5 DEF FailPage, ReaderInv
  <2>2. ReaderTypeOK'
    BY <2>1 DEF ReaderTypeOK
  <2>3. PlaceInv'
    BY <2>1 DEF PlaceInv
  <2>4. GotInv'
    <3>1. CASE streams = TRUE
      BY <2>1, <3>1 DEF GotInv, Got, InOrder, Earlier, Between, Began
    <3>2. CASE streams # TRUE
      BY <2>1, <3>2 DEF GotInv
    <3> QED
      BY <3>1, <3>2
  <2> QED
    BY <2>2, <2>3, <2>4 DEF ReaderInv
<1>6. Grow \/ UNCHANGED paginationVars =>
         UNCHANGED <<direction, streams, readerVars>> /\ timeline' \in timeline .. MaxEvent
  BY DEF Grow, paginationVars, ReaderInv, ReaderTypeOK
<1> QED
  BY <1>1, <1>2, <1>3, <1>4, <1>5, <1>6 DEF ReaderNext, Read

(* A reader that has not asked yet has nothing. *)
LEMMA ReaderStart == ReaderInit => ReaderInv
<1> SUFFICES ASSUME ReaderInit PROVE ReaderInv
  OBVIOUS
<1>1. ReaderTypeOK
  <2>1. timeline \in 0 .. MaxEvent /\ origin = -1 /\ reached = -1 /\ next_token = -1
    BY DEF ReaderInit
  <2>2. origin \in -1 .. timeline /\ reached \in -1 .. timeline /\ next_token \in -1 .. timeline
    BY <2>1, MaxEventAssumption
  <2>3. page = <<>> /\ messages = <<>> /\ page \in Seq(Shown) /\ messages \in Seq(Shown)
    BY DEF ReaderInit
  <2>4. /\ direction \in {"f", "b"} /\ streams \in BOOLEAN /\ stage = "request" /\ last \in BOOLEAN
    BY DEF ReaderInit
  <2> QED
    BY <2>1, <2>2, <2>3, <2>4 DEF ReaderTypeOK
<1>2. PlaceInv
  BY DEF ReaderInit, PlaceInv
<1>3. GotInv
  BY DEF ReaderInit, GotInv
<1> QED
  BY <1>1, <1>2, <1>3 DEF ReaderInv

(* The reader's variables keep their types, and only a page that is being   *)
(* yielded is kept (get_raw_messages, get_raw_message_stream).              *)
THEOREM ReaderTypeCorrect == ReaderSpec => []ReaderTypeOK
<1>1. ReaderInv /\ [ReaderNext]_paginationVars => ReaderInv'
  BY ReaderStep
<1>2. ReaderInv => ReaderTypeOK
  BY DEF ReaderInv
<1> QED
  BY <1>1, <1>2, ReaderStart, PTL DEF ReaderSpec

(* A reader has what the homeserver shows, each event once, in order, none  *)
(* left out; one that ends without an error has all that was there when it  *)
(* began (get_raw_messages, get_raw_message_stream).                        *)
THEOREM NothingTwiceNorMissed == ReaderSpec => []NothingTwiceNothingMissed
<1>1. ReaderInv /\ [ReaderNext]_paginationVars => ReaderInv'
  BY ReaderStep
<1>2. ReaderInv => NothingTwiceNothingMissed
  <2>1. ReaderTypeOK => streams \in BOOLEAN
    BY DEF ReaderTypeOK
  <2> QED
    BY <2>1 DEF ReaderInv, PlaceInv, GotInv, Got, Began, NothingTwiceNothingMissed
<1> QED
  BY <1>1, <1>2, ReaderStart, PTL DEF ReaderSpec
=============================================================================
