--------------------------- MODULE RoomStoreProofs ---------------------------
(***************************************************************************)
(* Theorems about RoomStore, for any rooms, members and users, and for any *)
(* number of events and of closed connections.                             *)
(***************************************************************************)
EXTENDS RoomStore, TLAPS

(* The dispatcher has changed the room and is about to update its users. *)
Updating == {"users", "read", "track"}

(* Whose OlmMachine has been told, or is being told, whom to track. *)
Ready == {"track", "done"}

(* Event e is in s, from its n-th place on. *)
After(s, n, e) == \E i \in n .. Len(s) : s[i] = e

-----------------------------------------------------------------------------
(* What the dispatcher is at: the event that its label says, whose room is  *)
(* known or not, with the members that upgrade_room_encryption cloned still *)
(* those of the room.                                                       *)
DispatcherInv ==
    /\ pc[Dispatcher] \in {"idle", "fetch", "replace"} \cup Updating
    /\ pc[Dispatcher] # "idle" => next <= Len(sent)
    /\ pc[Dispatcher] = "fetch" => /\ Event.kind = "join" /\ want[Dispatcher] = Event.room
                                   /\ Event.room \notin Known
    /\ pc[Dispatcher] = "replace" => /\ Event.kind = "encryption" /\ Event.room \in Known
                                     /\ copy = room[Event.room].members
    /\ pc[Dispatcher] \in Updating => Event.room \in Known /\ room[Event.room].encrypted
    /\ pc[Dispatcher] = "track" => want[Dispatcher] \in User

(* A sync loop fetches only rooms that are unknown, and is through with     *)
(* them when it reads what to track.                                        *)
LoopInv ==
    \A u \in User :
        /\ pc[u] \in Labels \ {"idle", "replace", "users"}
        /\ pc[u] = "fetch" => want[u] \in todo[u]
        /\ pc[u] \in {"next", "fetch"} => todo[u] \cap Known = {}
        /\ pc[u] \in {"read", "track", "done"} => todo[u] = {}
        /\ pc[u] # "track" => seen[u] = {}

(* Answers belong to the fetch under way. *)
Answers == [encrypted : {"none", "error", "yes", "no"}, members : (SUBSET Member) \cup {None}]
AnswerInv ==
    /\ want \in [Task -> Room \cup User \cup {None}] /\ got \in [Task -> Answers]
    /\ \A t \in Task : pc[t] # "fetch" => got[t] = Nothing

(* What control alone guarantees. *)
ControlInv == TypeOK /\ DispatcherInv /\ LoopInv /\ AnswerInv

-----------------------------------------------------------------------------
(* A known room has members and is encrypted or not. *)
LEMMA KnownRooms == ASSUME TypeOK, NEW r \in Known PROVE room[r] \in RoomKind
  BY DEF TypeOK, Known

(* What is put among the rooms is a room. *)
LEMMA NewRoom ==
    ASSUME NEW isEncrypted \in BOOLEAN, NEW S \in SUBSET Member
    PROVE  /\ [encrypted |-> isEncrypted, members |-> S] \in RoomKind
           /\ [encrypted |-> isEncrypted, members |-> S] # None
  BY NoneAssumption DEF RoomKind

(* The event that is dispatched is one that was sent. *)
LEMMA CurrentEvent == ASSUME TypeOK, next <= Len(sent) PROVE Event \in StateEvent
  BY DEF TypeOK, Event

(* On to the next event, or not: the counters stay in their ranges. *)
LEMMA Counted ==
    ASSUME TypeOK, acked' = acked, sent' = sent, next' <= Len(sent) + 1,
           next' = next \/ next' = next + 1
    PROVE  acked' \in 0 .. next' - 1 /\ next' \in 1 .. Len(sent') + 1
<1>1. acked \in 0 .. next - 1 /\ next \in 1 .. Len(sent) + 1 /\ Len(sent) \in Nat
  BY DEF TypeOK
<1> QED
  BY <1>1

(* What the event x says has happened. *)
Changing(x) ==
    \/ x.kind = "join" /\ joined' = [joined EXCEPT ![x.room] = @ \cup {x.member}] /\ encrypted' = encrypted
    \/ x.kind = "leave" /\ joined' = [joined EXCEPT ![x.room] = @ \ {x.member}] /\ encrypted' = encrypted
    \/ x.kind = "encryption" /\ joined' = joined /\ encrypted' = [encrypted EXCEPT ![x.room] = TRUE]

(* Who is told of the event x, and what is told no more. *)
Hearing(x) ==
    /\ IF Told(x) THEN sent' = Append(sent, x) ELSE sent' = sent /\ (x.kind # "leave" => x \in untold')
    /\ \A e \in untold \ untold' : x.kind = "leave" /\ e = Ev("join", x.room, x.member)
    /\ untold' \subseteq untold \cup {x} /\ silent' \in 0 .. MaxSilent

(* A change at the homeserver is one event more, told or not.               *)
LEMMA Changed ==
    ASSUME TypeOK, Change
    PROVE  /\ \E x \in StateEvent : Changing(x) /\ Hearing(x)
           /\ sent' \in Seq(StateEvent) /\ Len(sent) <= Len(sent')
           /\ \A i \in 1 .. Len(sent) : sent'[i] = sent[i]
           /\ untold' \subseteq StateEvent /\ silent' \in 0 .. MaxSilent
           /\ joined' \in [Room -> SUBSET Member] /\ encrypted' \in [Room -> BOOLEAN]
           /\ UNCHANGED <<deliveryVars, room, lock, pc, fetchVars, updateVars, tracked, historyVars>>
<1> USE DEF TypeOK
<1>1. \E x \in StateEvent : Changing(x) /\ Hearing(x)
  <2>1. ASSUME NEW x, Happens(x)
        PROVE  /\ IF Told(x) THEN sent' = Append(sent, x) ELSE sent' = sent
               /\ silent' \in 0 .. MaxSilent
    BY <2>1, BoundAssumption DEF Happens
  <2>2. ASSUME NEW r \in Room, NEW m \in Member \ joined[r],
               Happens(Ev("join", r, m)), Unheard(Ev("join", r, m)),
               joined' = [joined EXCEPT ![r] = @ \cup {m}], UNCHANGED encrypted
        PROVE  \E x \in StateEvent : Changing(x) /\ Hearing(x)
    <3>1. Ev("join", r, m) \in StateEvent /\ Changing(Ev("join", r, m))
      BY <2>2 DEF StateEvent, Ev, Changing
    <3>2. Hearing(Ev("join", r, m))
      BY <2>1, <2>2 DEF Hearing, Unheard
    <3> QED
      BY <3>1, <3>2
  <2>3. ASSUME NEW r \in Room, NEW m \in joined[r],
               Happens(Ev("leave", r, m)), untold' = untold \ {Ev("join", r, m)},
               joined' = [joined EXCEPT ![r] = @ \ {m}], UNCHANGED encrypted
        PROVE  \E x \in StateEvent : Changing(x) /\ Hearing(x)
    <3>1. Ev("leave", r, m) \in StateEvent /\ Changing(Ev("leave", r, m))
      BY <2>3 DEF StateEvent, Ev, Changing
    <3>2. Hearing(Ev("leave", r, m))
      BY <2>1, <2>3 DEF Hearing, Ev
    <3> QED
      BY <3>1, <3>2
  <2>4. ASSUME NEW r \in Room, Happens(Ev("encryption", r, None)), Unheard(Ev("encryption", r, None)),
               encrypted' = [encrypted EXCEPT ![r] = TRUE], UNCHANGED joined
        PROVE  \E x \in StateEvent : Changing(x) /\ Hearing(x)
    <3>1. Ev("encryption", r, None) \in StateEvent /\ Changing(Ev("encryption", r, None))
      BY <2>4 DEF StateEvent, Ev, Changing
    <3>2. Hearing(Ev("encryption", r, None))
      BY <2>1, <2>4 DEF Hearing, Unheard
    <3> QED
      BY <3>1, <3>2
  <2> QED
    BY <2>2, <2>3, <2>4 DEF Change
<1>2. UNCHANGED <<deliveryVars, room, lock, pc, fetchVars, updateVars, tracked, historyVars>>
  BY DEF Change
<1>3. joined' \in [Room -> SUBSET Member] /\ encrypted' \in [Room -> BOOLEAN]
  <2>1. PICK x \in StateEvent : Changing(x)
    BY <1>1
  <2>2. CASE x.kind = "encryption"
    BY <2>1, <2>2 DEF Changing, StateEvent
  <2>3. CASE x.kind # "encryption"
    <3>1. x.room \in Room /\ x.member \in Member
      BY <2>3 DEF StateEvent
    <3> QED
      BY <2>1, <2>3, <3>1 DEF Changing
  <2> QED
    BY <2>2, <2>3
<1>4. /\ sent' \in Seq(StateEvent) /\ Len(sent) <= Len(sent')
      /\ \A i \in 1 .. Len(sent) : sent'[i] = sent[i]
      /\ untold' \subseteq StateEvent /\ silent' \in 0 .. MaxSilent
  <2>1. PICK x \in StateEvent : Hearing(x)
    BY <1>1
  <2>2. sent' = Append(sent, x) \/ sent' = sent
    BY <2>1 DEF Hearing
  <2>3. untold' \subseteq StateEvent /\ silent' \in 0 .. MaxSilent
    BY <2>1 DEF Hearing
  <2>4. /\ sent' \in Seq(StateEvent) /\ Len(sent) <= Len(sent')
        /\ \A i \in 1 .. Len(sent) : sent'[i] = sent[i]
    <3>1. sent \in Seq(StateEvent) /\ Len(sent) \in Nat
      BY DEF TypeOK
    <3>2. CASE sent' = sent
      BY <3>1, <3>2
    <3>3. CASE sent' = Append(sent, x)
      <4>1. /\ Append(sent, x) \in Seq(StateEvent) /\ Len(Append(sent, x)) = Len(sent) + 1
            /\ \A i \in 1 .. Len(sent) : Append(sent, x)[i] = sent[i]
        BY <3>1
      <4> QED
        BY <3>1, <3>3, <4>1
    <3> QED
      BY <2>2, <3>2, <3>3
  <2> QED
    BY <2>3, <2>4
<1> QED
  BY <1>1, <1>2, <1>3, <1>4

(* Another set of members is all that changes when they do. *)
LEMMA MembersSet ==
    ASSUME TypeOK, NEW r \in Known, NEW S \in SUBSET Member, room' = [room EXCEPT ![r].members = S]
    PROVE  /\ room'[r] = [encrypted |-> room[r].encrypted, members |-> S]
           /\ room' \in [Room -> RoomKind \cup {None}] /\ Known' = Known
           /\ \A q \in Room \ {r} : room'[q] = room[q]
<1>1. r \in Room /\ room[r] \in RoomKind
  BY KnownRooms DEF Known
<1>2. room' = [room EXCEPT ![r] = [room[r] EXCEPT !.members = S]]
  OBVIOUS
<1>3. [room[r] EXCEPT !.members = S] = [encrypted |-> room[r].encrypted, members |-> S]
  BY <1>1 DEF RoomKind
<1>4. /\ [encrypted |-> room[r].encrypted, members |-> S] \in RoomKind
      /\ [encrypted |-> room[r].encrypted, members |-> S] # None
  BY <1>1, NewRoom DEF RoomKind
<1> QED
  BY <1>1, <1>2, <1>3, <1>4 DEF TypeOK, Known

(* A member who joins or leaves does not change whether the room is         *)
(* encrypted, and that decides how the dispatcher goes on.                  *)
LEMMA EventMembers ==
    ASSUME TypeOK, AddKnown \/ RemoveKnown
    PROVE  /\ Event.room \in Known' /\ room'[Event.room].encrypted = room[Event.room].encrypted
           /\ \/ pc' = [pc EXCEPT ![Dispatcher] = "users"] /\ next' = next /\ room[Event.room].encrypted
              \/ pc' = [pc EXCEPT ![Dispatcher] = "idle"] /\ next' = next + 1
<1>1. Event.room \in Known /\ room[Event.room] \in RoomKind /\ next <= Len(sent)
  BY KnownRooms DEF AddKnown, RemoveKnown, Dispatches
<1>2. PICK S \in SUBSET Member : room' = [room EXCEPT ![Event.room].members = S]
  <2>1. CASE AddKnown
    <3>1. Event.member \in Member
      BY <1>1, <2>1, CurrentEvent DEF StateEvent, AddKnown, Dispatches
    <3>2. room[Event.room].members \cup {Event.member} \in SUBSET Member
      BY <1>1, <3>1 DEF RoomKind
    <3> QED
      BY <2>1, <3>2 DEF AddKnown
  <2>2. CASE RemoveKnown
    <3>1. room[Event.room].members \ {Event.member} \in SUBSET Member
      BY <1>1 DEF RoomKind
    <3> QED
      BY <2>2, <3>1 DEF RemoveKnown
  <2> QED
    BY <2>1, <2>2
<1>3. Known' = Known /\ room'[Event.room] = [encrypted |-> room[Event.room].encrypted, members |-> S]
  BY <1>1, <1>2, MembersSet
<1> QED
  BY <1>1, <1>3 DEF AddKnown, RemoveKnown, Follow, Finish, Goto

(* get_encrypted_members returns members. *)
LEMMA MembersOnly == ASSUME TypeOK, NEW u \in User PROVE EncryptedMembers(u) \subseteq Member
  BY KnownRooms, UserAssumption DEF EncryptedMembers, RoomKind

(* The types are kept. *)
LEMMA TypeStep == ASSUME ControlInv, [Next]_vars PROVE TypeOK'
<1> USE UserAssumption, BoundAssumption, DispatcherAssumption, NoneAssumption DEF ControlInv, TypeOK,
        DispatcherInv, LoopInv, AnswerInv, Task, Known, Event, Goto, Labels, Answers, StateEvent,
        RoomKind, Updating, serverVars, deliveryVars, fetchVars, updateVars, historyVars
<1>1. CASE Change
  BY <1>1, Changed
<1>2. CASE AddKnown
  <2>1. Event.member \in Member /\ Event.room \in Room /\ room[Event.room] \in RoomKind
    BY <1>2, KnownRooms, CurrentEvent DEF AddKnown, Dispatches, Follow, Finish
  <2>2. room' \in [Room -> RoomKind \cup {None}]
    <3>1. room[Event.room].members \cup {Event.member} \in SUBSET Member
      BY <2>1
    <3> QED
      BY <1>2, <2>1, <3>1 DEF AddKnown
  <2>3. /\ next' \in {next, next + 1} /\ next' <= Len(sent) + 1 /\ pc[Dispatcher] = "idle"
        /\ pc' \in {[pc EXCEPT ![Dispatcher] = "users"], [pc EXCEPT ![Dispatcher] = "idle"]}
    BY <1>2 DEF AddKnown, Dispatches, Follow, Finish
  <2>4. UNCHANGED <<serverVars, acked, drops, lock, fetchVars, updateVars, tracked, historyVars>>
    BY <1>2 DEF AddKnown
  <2>5. acked' \in 0 .. next' - 1 /\ next' \in 1 .. Len(sent') + 1
    BY <2>3, <2>4, Counted
  <2>6. pc' \in [Task -> Labels] /\ \A q \in Task : lock' = q <=> pc'[q] \in {"next", "fetch"}
    <3>1. CASE pc' = [pc EXCEPT ![Dispatcher] = "users"]
      BY <2>3, <2>4, <3>1
    <3>2. CASE pc' = [pc EXCEPT ![Dispatcher] = "idle"]
      BY <2>3, <2>4, <3>2
    <3> QED
      BY <2>3, <3>1, <3>2
  <2> QED
    BY <2>2, <2>4, <2>5, <2>6
<1>3. CASE AddUnknown
  BY <1>3 DEF AddUnknown, Dispatches
<1>4. CASE RemoveKnown
  <2>1. Event.room \in Room /\ room[Event.room] \in RoomKind
    BY <1>4, KnownRooms, CurrentEvent DEF RemoveKnown, Dispatches, Follow, Finish
  <2>2. room' \in [Room -> RoomKind \cup {None}]
    <3>1. room[Event.room].members \ {Event.member} \in SUBSET Member
      BY <2>1
    <3> QED
      BY <1>4, <2>1, <3>1 DEF RemoveKnown
  <2>3. /\ next' \in {next, next + 1} /\ next' <= Len(sent) + 1 /\ pc[Dispatcher] = "idle"
        /\ pc' \in {[pc EXCEPT ![Dispatcher] = "users"], [pc EXCEPT ![Dispatcher] = "idle"]}
    BY <1>4 DEF RemoveKnown, Dispatches, Follow, Finish
  <2>4. UNCHANGED <<serverVars, acked, drops, lock, fetchVars, updateVars, tracked, historyVars>>
    BY <1>4 DEF RemoveKnown
  <2>5. acked' \in 0 .. next' - 1 /\ next' \in 1 .. Len(sent') + 1
    BY <2>3, <2>4, Counted
  <2>6. pc' \in [Task -> Labels] /\ \A q \in Task : lock' = q <=> pc'[q] \in {"next", "fetch"}
    <3>1. CASE pc' = [pc EXCEPT ![Dispatcher] = "users"]
      BY <2>3, <2>4, <3>1
    <3>2. CASE pc' = [pc EXCEPT ![Dispatcher] = "idle"]
      BY <2>3, <2>4, <3>2
    <3> QED
      BY <2>3, <3>1, <3>2
  <2> QED
    BY <2>2, <2>4, <2>5, <2>6
<1>5. CASE PassOver
  <2>1. /\ next' = next + 1 /\ next' <= Len(sent) + 1 /\ pc' = [pc EXCEPT ![Dispatcher] = "idle"]
        /\ pc[Dispatcher] = "idle"
    BY <1>5 DEF PassOver, Dispatches, Finish
  <2>2. UNCHANGED <<serverVars, acked, drops, room, lock, fetchVars, updateVars, tracked, historyVars>>
    BY <1>5 DEF PassOver
  <2> QED
    BY <2>1, <2>2, Counted
<1>6. CASE AlreadyEncrypted
  <2>1. /\ next' = next + 1 /\ next' <= Len(sent) + 1 /\ pc' = [pc EXCEPT ![Dispatcher] = "idle"]
        /\ pc[Dispatcher] = "idle"
    BY <1>6 DEF AlreadyEncrypted, Dispatches, Finish
  <2>2. UNCHANGED <<serverVars, acked, drops, room, lock, fetchVars, updateVars, tracked, historyVars>>
    BY <1>6 DEF AlreadyEncrypted
  <2> QED
    BY <2>1, <2>2, Counted
<1>7. CASE CloneMembers
  BY <1>7 DEF CloneMembers, Dispatches
<1>8. CASE ReplaceRoom
  BY <1>8 DEF ReplaceRoom
<1>9. CASE FindUsers
  BY <1>9 DEF FindUsers, Stored
<1>10. CASE NoUserLeft
  BY <1>10 DEF NoUserLeft, Finish
<1>11. CASE FailTrack
  BY <1>11 DEF FailTrack, Finish, ForgetSeen, ForgetFetch
<1>12. ASSUME NEW u \in User, ReadFor(u) PROVE TypeOK'
  BY <1>12, MembersOnly DEF ReadFor
<1>13. ASSUME NEW u \in User, TrackFor(u) PROVE TypeOK'
  BY <1>13 DEF TrackFor, ForgetSeen, ForgetFetch
<1>14. ASSUME NEW u \in User, MakeUser(u) PROVE TypeOK'
  <2>1. CASE pc[u] = "new" /\ Goto(u, "stored")
    BY <1>14, <2>1 DEF MakeUser
  <2>2. CASE pc[u] = "stored" /\ Goto(u, "list")
    BY <1>14, <2>2 DEF MakeUser
  <2> QED
    BY <1>14, <2>1, <2>2 DEF MakeUser
<1>15. ASSUME NEW u \in User, ListRooms(u) PROVE TypeOK'
  BY <1>15 DEF ListRooms
<1>16. ASSUME NEW u \in User, LockRooms(u) PROVE TypeOK'
  BY <1>16 DEF LockRooms
<1>17. ASSUME NEW u \in User, NextRoom(u) PROVE TypeOK'
  BY <1>17 DEF NextRoom
<1>18. ASSUME NEW u \in User, UnlockRooms(u) PROVE TypeOK'
  BY <1>18 DEF UnlockRooms
<1>19. ASSUME NEW u \in User, ReadOwn(u) PROVE TypeOK'
  BY <1>19, MembersOnly DEF ReadOwn
<1>20. ASSUME NEW u \in User, TrackOwn(u) PROVE TypeOK'
  BY <1>20 DEF TrackOwn, ForgetSeen
<1>21. ASSUME NEW u \in User, FailRun(u) PROVE TypeOK'
  BY <1>21 DEF FailRun, ForgetSeen
<1>22. ASSUME NEW t \in Task, FetchEncryption(t) PROVE TypeOK'
  BY <1>22 DEF FetchEncryption
<1>23. ASSUME NEW t \in Task, FetchMembers(t) PROVE TypeOK'
  BY <1>23 DEF FetchMembers
<1>24. ASSUME NEW t \in Task, FailFetch(t) PROVE TypeOK'
  <2>1. CASE t = Dispatcher
    <3>1. /\ next' = next + 1 /\ next' <= Len(sent) + 1 /\ missed' = missed \cup {Event.room}
          /\ pc' = [pc EXCEPT ![Dispatcher] = "idle"] /\ lock' = None /\ todo' = todo
          /\ Event.room \in Room
      BY <1>24, <2>1, CurrentEvent DEF FailFetch, ForgetFetch, Finish
    <3>2. UNCHANGED <<serverVars, acked, drops, room, updateVars, tracked, misread>>
      BY <1>24 DEF FailFetch
    <3>3. lock = Dispatcher
      BY <1>24, <2>1 DEF FailFetch
    <3>4. pc' \in [Task -> Labels] /\ \A q \in Task : lock' = q <=> pc'[q] \in {"next", "fetch"}
      BY <3>1, <3>3
    <3>5. acked' \in 0 .. next' - 1 /\ next' \in 1 .. Len(sent') + 1
      BY <3>1, <3>2, Counted
    <3> QED
      BY <3>1, <3>2, <3>4, <3>5
  <2>2. CASE t \in User
    <3>1. /\ pc' = [pc EXCEPT ![t] = "failed"] /\ lock' = None /\ todo' = [todo EXCEPT ![t] = {}]
          /\ UNCHANGED <<serverVars, deliveryVars, room, updateVars, tracked, historyVars>>
      BY <1>24, <2>2 DEF FailFetch
    <3>2. lock = t
      BY <1>24, <2>2 DEF FailFetch
    <3> QED
      BY <2>2, <3>1, <3>2
  <2> QED
    BY <2>1, <2>2
<1>25. ASSUME NEW t \in Task, Insert(t) PROVE TypeOK'
  <2>1. got[t].members \in SUBSET Member /\ want[t] \in Room
    <3>1. pc[t] = "fetch" /\ got[t].members # None
      BY <1>25 DEF Insert
    <3>2. got[t].members \in SUBSET Member
      <4>1. got[t] \in Answers
        OBVIOUS
      <4> QED
        BY <3>1, <4>1
    <3>3. CASE t = Dispatcher
      BY <3>1, <3>2, <3>3, CurrentEvent
    <3>4. CASE t \in User
      BY <3>1, <3>2, <3>4
    <3> QED
      BY <3>3, <3>4
  <2>2. room' \in [Room -> RoomKind \cup {None}] /\ misread' \subseteq Room
    <3>1. [encrypted |-> got[t].encrypted = "yes", members |-> got[t].members] \in RoomKind
      BY <2>1
    <3> QED
      BY <1>25, <2>1, <3>1 DEF Insert
  <2>3. CASE t = Dispatcher
    <3>1. /\ next' \in {next, next + 1} /\ next' <= Len(sent) + 1 /\ lock' = None /\ todo' = todo
          /\ pc' \in {[pc EXCEPT ![Dispatcher] = "users"], [pc EXCEPT ![Dispatcher] = "idle"]}
      BY <1>25, <2>3 DEF Insert, ForgetFetch, Follow, Finish
    <3>2. lock = Dispatcher
      BY <1>25, <2>3 DEF Insert
    <3>3. UNCHANGED <<serverVars, acked, drops, updateVars, tracked, missed>>
      BY <1>25 DEF Insert
    <3>4. acked' \in 0 .. next' - 1 /\ next' \in 1 .. Len(sent') + 1
      BY <3>1, <3>3, Counted
    <3>5. pc' \in [Task -> Labels] /\ \A q \in Task : lock' = q <=> pc'[q] \in {"next", "fetch"}
      <4>1. CASE pc' = [pc EXCEPT ![Dispatcher] = "users"]
        BY <3>1, <3>2, <4>1
      <4>2. CASE pc' = [pc EXCEPT ![Dispatcher] = "idle"]
        BY <3>1, <3>2, <4>2
      <4> QED
        BY <3>1, <4>1, <4>2
    <3> QED
      BY <2>2, <3>1, <3>3, <3>4, <3>5
  <2>4. CASE t \in User
    <3>1. /\ pc' = [pc EXCEPT ![t] = "next"] /\ lock' = lock /\ next' = next
          /\ todo' = [todo EXCEPT ![t] = @ \ {want[t]}]
          /\ UNCHANGED <<serverVars, acked, drops, updateVars, tracked, missed>>
      BY <1>25, <2>4 DEF Insert, Goto
    <3>2. lock = t
      BY <1>25, <2>4 DEF Insert
    <3> QED
      BY <2>2, <2>4, <3>1, <3>2
  <2> QED
    BY <2>3, <2>4
<1>26. CASE Acknowledge
  BY <1>26 DEF Acknowledge
<1>27. CASE Drop
  BY <1>27 DEF Drop, ForgetSeen, ForgetFetch
<1>28. CASE UNCHANGED vars
  BY <1>28 DEF vars
<1> QED
  BY <1>1, <1>2, <1>3, <1>4, <1>5, <1>6, <1>7, <1>8, <1>9, <1>10, <1>11, <1>12, <1>13, <1>14, <1>15,
     <1>16, <1>17, <1>18, <1>19, <1>20, <1>21, <1>22, <1>23, <1>24, <1>25, <1>26, <1>27, <1>28
     DEF Next, Dispatch, StartLoop, Fetch

(* The dispatcher stays where its label says. *)
LEMMA DispatcherStep == ASSUME ControlInv, [Next]_vars PROVE DispatcherInv'
<1> USE UserAssumption, DispatcherAssumption, NoneAssumption DEF ControlInv, TypeOK, Task, Known, Event,
        Goto, Updating, StateEvent, RoomKind, serverVars, deliveryVars, fetchVars, updateVars,
        historyVars, DispatcherInv, LoopInv, AnswerInv, Labels
<1>1. CASE Change
  BY <1>1, Changed
<1>2. CASE AddKnown
  <2>1. pc[Dispatcher] = "idle" /\ next <= Len(sent) /\ UNCHANGED sent
    BY <1>2 DEF AddKnown, Dispatches
  <2>2. Event.room \in Known' /\ room'[Event.room].encrypted = room[Event.room].encrypted
    BY <1>2, EventMembers
  <2>3. CASE pc' = [pc EXCEPT ![Dispatcher] = "users"] /\ next' = next /\ room[Event.room].encrypted
    BY <2>1, <2>2, <2>3
  <2>4. CASE pc' = [pc EXCEPT ![Dispatcher] = "idle"]
    BY <2>1, <2>4
  <2> QED
    BY <1>2, <2>3, <2>4, EventMembers
<1>3. CASE AddUnknown
  <2>1. pc'[Dispatcher] = "fetch" /\ want'[Dispatcher] = Event.room
    BY <1>3 DEF AddUnknown
  <2> QED
    BY <1>3, <2>1 DEF AddUnknown, Dispatches
<1>4. CASE RemoveKnown
  <2>1. pc[Dispatcher] = "idle" /\ next <= Len(sent) /\ UNCHANGED sent
    BY <1>4 DEF RemoveKnown, Dispatches
  <2>2. Event.room \in Known' /\ room'[Event.room].encrypted = room[Event.room].encrypted
    BY <1>4, EventMembers
  <2>3. CASE pc' = [pc EXCEPT ![Dispatcher] = "users"] /\ next' = next /\ room[Event.room].encrypted
    BY <2>1, <2>2, <2>3
  <2>4. CASE pc' = [pc EXCEPT ![Dispatcher] = "idle"]
    BY <2>1, <2>4
  <2> QED
    BY <1>4, <2>3, <2>4, EventMembers
<1>5. CASE PassOver
  BY <1>5 DEF PassOver, Dispatches, Finish
<1>6. CASE AlreadyEncrypted
  BY <1>6 DEF AlreadyEncrypted, Dispatches, Finish
<1>7. CASE CloneMembers
  BY <1>7 DEF CloneMembers, Dispatches
<1>8. CASE ReplaceRoom
  <2>1. room'[Event.room] = [encrypted |-> TRUE, members |-> copy] /\ room'[Event.room] \in RoomKind
    BY <1>8 DEF ReplaceRoom
  <2>2. pc'[Dispatcher] = "users" /\ pc[Dispatcher] = "replace" /\ UNCHANGED <<next, sent>>
    BY <1>8 DEF ReplaceRoom
  <2>3. room'[Event.room] # None
    BY <2>1, NewRoom
  <2>4. Event.room \in Room /\ Event' = Event
    BY <2>2
  <2> QED
    BY <2>1, <2>2, <2>3, <2>4
<1>9. CASE FindUsers
  BY <1>9 DEF FindUsers, Stored
<1>10. CASE NoUserLeft
  BY <1>10 DEF NoUserLeft, Finish
<1>11. CASE FailTrack
  BY <1>11 DEF FailTrack, Finish, ForgetSeen, ForgetFetch
<1>12. ASSUME NEW u \in User, ReadFor(u) PROVE DispatcherInv'
  <2>1. pc'[Dispatcher] = "track" /\ want'[Dispatcher] = u /\ pc[Dispatcher] = "read"
    BY <1>12 DEF ReadFor
  <2> QED
    BY <1>12, <2>1 DEF ReadFor
<1>13. ASSUME NEW u \in User, TrackFor(u) PROVE DispatcherInv'
  BY <1>13 DEF TrackFor, ForgetSeen, ForgetFetch
<1>14. ASSUME NEW u \in User, MakeUser(u) PROVE DispatcherInv'
  BY <1>14 DEF MakeUser
<1>15. ASSUME NEW u \in User, ListRooms(u) PROVE DispatcherInv'
  BY <1>15 DEF ListRooms
<1>16. ASSUME NEW u \in User, LockRooms(u) PROVE DispatcherInv'
  BY <1>16 DEF LockRooms
<1>17. ASSUME NEW u \in User, NextRoom(u) PROVE DispatcherInv'
  BY <1>17 DEF NextRoom
<1>18. ASSUME NEW u \in User, UnlockRooms(u) PROVE DispatcherInv'
  BY <1>18 DEF UnlockRooms
<1>19. ASSUME NEW u \in User, ReadOwn(u) PROVE DispatcherInv'
  BY <1>19 DEF ReadOwn
<1>20. ASSUME NEW u \in User, TrackOwn(u) PROVE DispatcherInv'
  BY <1>20 DEF TrackOwn, ForgetSeen
<1>21. ASSUME NEW u \in User, FailRun(u) PROVE DispatcherInv'
  BY <1>21 DEF FailRun, ForgetSeen
<1>22. ASSUME NEW t \in Task, FetchEncryption(t) PROVE DispatcherInv'
  BY <1>22 DEF FetchEncryption
<1>23. ASSUME NEW t \in Task, FetchMembers(t) PROVE DispatcherInv'
  BY <1>23 DEF FetchMembers
<1>24. ASSUME NEW t \in Task, FailFetch(t) PROVE DispatcherInv'
  BY <1>24 DEF FailFetch, ForgetFetch, Finish
<1>25. ASSUME NEW t \in Task, Insert(t) PROVE DispatcherInv'
  <2>1. /\ room' = [room EXCEPT ![want[t]] = [encrypted |-> got[t].encrypted = "yes", members |-> got[t].members]]
        /\ UNCHANGED <<serverVars, acked, drops, updateVars, tracked, missed>>
        /\ pc[t] = "fetch" /\ got[t].members # None
    BY <1>25 DEF Insert
  <2>2. CASE t = Dispatcher
    <3>1. /\ want[t] = Event.room /\ Event.room \in Room
          /\ got[t].members \in SUBSET Member
      BY <2>1, <2>2, CurrentEvent DEF Answers
    <3>2. CASE got[t].encrypted = "yes"
      <4>1. pc'[Dispatcher] = "users" /\ next' = next
        BY <1>25, <2>2, <3>2 DEF Insert, Follow
      <4>2. room'[Event.room] = [encrypted |-> TRUE, members |-> got[t].members]
        <5>1. (got[t].encrypted = "yes") = TRUE
          BY <3>2
        <5>2. room' = [room EXCEPT ![Event.room] = [encrypted |-> TRUE, members |-> got[t].members]]
          BY <2>1, <3>1, <5>1
        <5> QED
          BY <3>1, <5>2
      <4>3. [encrypted |-> TRUE, members |-> got[t].members] # None
        BY <3>1, NewRoom
      <4>4. Event' = Event /\ Event.room \in Known' /\ room'[Event.room].encrypted
        BY <2>1, <3>1, <4>1, <4>2, <4>3
      <4>5. next' <= Len(sent')
        BY <2>1, <2>2, <4>1
      <4> QED
        BY <4>1, <4>4, <4>5
    <3>3. CASE got[t].encrypted # "yes"
      BY <1>25, <2>2, <3>3 DEF Insert, Follow, Finish
    <3> QED
      BY <3>2, <3>3
  <2>3. CASE t \in User
    <3>1. pc'[Dispatcher] = pc[Dispatcher] /\ next' = next /\ want'[Dispatcher] = want[Dispatcher]
      BY <1>25, <2>3 DEF Insert, ForgetFetch
    <3>2. want[t] \notin Known /\ lock = t /\ pc[Dispatcher] # "fetch"
      BY <2>1, <2>3
    <3> QED
      BY <2>1, <3>1, <3>2
  <2> QED
    BY <2>2, <2>3
<1>26. CASE Acknowledge
  BY <1>26 DEF Acknowledge
<1>27. CASE Drop
  BY <1>27 DEF Drop, ForgetSeen, ForgetFetch
<1>28. CASE UNCHANGED vars
  BY <1>28 DEF vars
<1> QED
  BY <1>1, <1>2, <1>3, <1>4, <1>5, <1>6, <1>7, <1>8, <1>9, <1>10, <1>11, <1>12, <1>13, <1>14, <1>15,
     <1>16, <1>17, <1>18, <1>19, <1>20, <1>21, <1>22, <1>23, <1>24, <1>25, <1>26, <1>27, <1>28
     DEF Next, Dispatch, StartLoop, Fetch

(* The sync loops fetch unknown rooms only. *)
LEMMA LoopStep == ASSUME ControlInv, [Next]_vars PROVE LoopInv'
<1> USE UserAssumption, DispatcherAssumption, NoneAssumption DEF ControlInv, TypeOK, Task, Known, Event,
        Goto, Updating, StateEvent, RoomKind, serverVars, deliveryVars, fetchVars, updateVars,
        historyVars, LoopInv, DispatcherInv, Labels
<1>1. CASE Change
  BY <1>1, Changed
<1>2. CASE AddKnown
  BY <1>2 DEF AddKnown, Dispatches, Follow, Finish
<1>3. CASE AddUnknown
  BY <1>3 DEF AddUnknown, Dispatches
<1>4. CASE RemoveKnown
  <2>1. Known' = Known
    <3>1. Event.room \in Known /\ room' = [room EXCEPT ![Event.room].members = @ \ {Event.member}]
      BY <1>4 DEF RemoveKnown
    <3>2. room[Event.room].members \ {Event.member} \in SUBSET Member
      BY <3>1, KnownRooms
    <3> QED
      BY <3>1, <3>2, MembersSet
  <2>2. UNCHANGED <<todo, want, seen>> /\ \A u \in User : pc'[u] = pc[u]
    BY <1>4 DEF RemoveKnown, Follow, Finish
  <2> HIDE DEF TypeOK, Known, Labels
  <2> QED
    BY <2>1, <2>2
<1>5. CASE PassOver
  BY <1>5 DEF PassOver, Dispatches, Finish
<1>6. CASE AlreadyEncrypted
  BY <1>6 DEF AlreadyEncrypted, Dispatches, Finish
<1>7. CASE CloneMembers
  BY <1>7 DEF CloneMembers, Dispatches
<1>8. CASE ReplaceRoom
  BY <1>8 DEF ReplaceRoom
<1>9. CASE FindUsers
  BY <1>9 DEF FindUsers, Stored
<1>10. CASE NoUserLeft
  BY <1>10 DEF NoUserLeft, Finish
<1>11. CASE FailTrack
  BY <1>11 DEF FailTrack, Finish, ForgetSeen, ForgetFetch
<1>12. ASSUME NEW u \in User, ReadFor(u) PROVE LoopInv'
  BY <1>12 DEF ReadFor
<1>13. ASSUME NEW u \in User, TrackFor(u) PROVE LoopInv'
  BY <1>13 DEF TrackFor, ForgetSeen, ForgetFetch
<1>14. ASSUME NEW u \in User, MakeUser(u) PROVE LoopInv'
  BY <1>14 DEF MakeUser
<1>15. ASSUME NEW u \in User, ListRooms(u) PROVE LoopInv'
  BY <1>15 DEF ListRooms
<1>16. ASSUME NEW u \in User, LockRooms(u) PROVE LoopInv'
  BY <1>16 DEF LockRooms
<1>17. ASSUME NEW u \in User, NextRoom(u) PROVE LoopInv'
  <2>1. PICK r \in todo[u] : want' = [want EXCEPT ![u] = r]
    BY <1>17 DEF NextRoom
  <2>2. /\ pc[u] = "next" /\ pc' = [pc EXCEPT ![u] = "fetch"]
        /\ UNCHANGED <<room, todo, seen>>
    BY <1>17 DEF NextRoom
  <2>3. want'[u] \in todo'[u] /\ \A v \in User \ {u} : want'[v] = want[v] /\ pc'[v] = pc[v]
    BY <2>1, <2>2 DEF AnswerInv
  <2> QED
    BY <2>2, <2>3
<1>18. ASSUME NEW u \in User, UnlockRooms(u) PROVE LoopInv'
  BY <1>18 DEF UnlockRooms
<1>19. ASSUME NEW u \in User, ReadOwn(u) PROVE LoopInv'
  BY <1>19 DEF ReadOwn
<1>20. ASSUME NEW u \in User, TrackOwn(u) PROVE LoopInv'
  BY <1>20 DEF TrackOwn, ForgetSeen
<1>21. ASSUME NEW u \in User, FailRun(u) PROVE LoopInv'
  BY <1>21 DEF FailRun, ForgetSeen
<1>22. ASSUME NEW t \in Task, FetchEncryption(t) PROVE LoopInv'
  BY <1>22 DEF FetchEncryption
<1>23. ASSUME NEW t \in Task, FetchMembers(t) PROVE LoopInv'
  BY <1>23 DEF FetchMembers
<1>24. ASSUME NEW t \in Task, FailFetch(t) PROVE LoopInv'
  BY <1>24 DEF FailFetch, ForgetFetch, Finish
<1>25. ASSUME NEW t \in Task, Insert(t) PROVE LoopInv'
  BY <1>25 DEF Insert, ForgetFetch, Follow, Finish
<1>26. CASE Acknowledge
  BY <1>26 DEF Acknowledge
<1>27. CASE Drop
  BY <1>27 DEF Drop, ForgetSeen, ForgetFetch
<1>28. CASE UNCHANGED vars
  BY <1>28 DEF vars
<1> QED
  BY <1>1, <1>2, <1>3, <1>4, <1>5, <1>6, <1>7, <1>8, <1>9, <1>10, <1>11, <1>12, <1>13, <1>14, <1>15,
     <1>16, <1>17, <1>18, <1>19, <1>20, <1>21, <1>22, <1>23, <1>24, <1>25, <1>26, <1>27, <1>28
     DEF Next, Dispatch, StartLoop, Fetch

(* Every fetch starts without answers. *)
LEMMA AnswerStep == ASSUME ControlInv, [Next]_vars PROVE AnswerInv'
<1> USE UserAssumption, DispatcherAssumption, NoneAssumption DEF ControlInv, TypeOK, Task, Known, Event,
        Goto, Updating, StateEvent, RoomKind, serverVars, deliveryVars, fetchVars, updateVars,
        historyVars, AnswerInv, Answers, Nothing, DispatcherInv, LoopInv, Labels
<1>1. CASE Change
  <2>1. UNCHANGED <<next, room, lock, pc, todo, want, got>>
    BY <1>1, Changed
  <2> QED
    BY <2>1
<1>2. CASE AddKnown
  BY <1>2 DEF AddKnown, Dispatches, Follow, Finish
<1>3. CASE AddUnknown
  BY <1>3 DEF AddUnknown, Dispatches
<1>4. CASE RemoveKnown
  BY <1>4 DEF RemoveKnown, Dispatches, Follow, Finish
<1>5. CASE PassOver
  BY <1>5 DEF PassOver, Dispatches, Finish
<1>6. CASE AlreadyEncrypted
  BY <1>6 DEF AlreadyEncrypted, Dispatches, Finish
<1>7. CASE CloneMembers
  BY <1>7 DEF CloneMembers, Dispatches
<1>8. CASE ReplaceRoom
  BY <1>8 DEF ReplaceRoom
<1>9. CASE FindUsers
  BY <1>9 DEF FindUsers, Stored
<1>10. CASE NoUserLeft
  BY <1>10 DEF NoUserLeft, Finish
<1>11. CASE FailTrack
  BY <1>11 DEF FailTrack, Finish, ForgetSeen, ForgetFetch
<1>12. ASSUME NEW u \in User, ReadFor(u) PROVE AnswerInv'
  BY <1>12 DEF ReadFor
<1>13. ASSUME NEW u \in User, TrackFor(u) PROVE AnswerInv'
  BY <1>13 DEF TrackFor, ForgetSeen, ForgetFetch
<1>14. ASSUME NEW u \in User, MakeUser(u) PROVE AnswerInv'
  BY <1>14 DEF MakeUser
<1>15. ASSUME NEW u \in User, ListRooms(u) PROVE AnswerInv'
  BY <1>15 DEF ListRooms
<1>16. ASSUME NEW u \in User, LockRooms(u) PROVE AnswerInv'
  BY <1>16 DEF LockRooms
<1>17. ASSUME NEW u \in User, NextRoom(u) PROVE AnswerInv'
  BY <1>17 DEF NextRoom
<1>18. ASSUME NEW u \in User, UnlockRooms(u) PROVE AnswerInv'
  BY <1>18 DEF UnlockRooms
<1>19. ASSUME NEW u \in User, ReadOwn(u) PROVE AnswerInv'
  BY <1>19 DEF ReadOwn
<1>20. ASSUME NEW u \in User, TrackOwn(u) PROVE AnswerInv'
  BY <1>20 DEF TrackOwn, ForgetSeen
<1>21. ASSUME NEW u \in User, FailRun(u) PROVE AnswerInv'
  BY <1>21 DEF FailRun, ForgetSeen
<1>22. ASSUME NEW t \in Task, FetchEncryption(t) PROVE AnswerInv'
  <2>1. PICK answer \in {"error", "yes", "no"} : got' = [got EXCEPT ![t].encrypted = answer]
    BY <1>22 DEF FetchEncryption, Encryption
  <2>2. UNCHANGED <<pc, want>> /\ pc[t] = "fetch"
    BY <1>22 DEF FetchEncryption
  <2>3. got[t] \in Answers
    OBVIOUS
  <2>4. [got[t] EXCEPT !.encrypted = answer] \in Answers
    BY <2>3
  <2>5. got' = [got EXCEPT ![t] = [got[t] EXCEPT !.encrypted = answer]]
    BY <2>1
  <2> QED
    BY <2>2, <2>4, <2>5
<1>23. ASSUME NEW t \in Task, FetchMembers(t) PROVE AnswerInv'
  <2>1. joined[want[t]] \in SUBSET Member
    <3>1. want[t] \in Room
      <4>1. CASE t = Dispatcher
        BY <1>23, <4>1, CurrentEvent DEF FetchMembers
      <4>2. CASE t \in User
        BY <1>23, <4>2 DEF FetchMembers
      <4> QED
        BY <4>1, <4>2
    <3> QED
      BY <3>1
  <2>2. /\ got' = [got EXCEPT ![t].members = joined[want[t]]]
        /\ UNCHANGED <<want, pc>> /\ pc[t] = "fetch"
    BY <1>23 DEF FetchMembers
  <2>3. got'[t] = [encrypted |-> got[t].encrypted, members |-> joined[want[t]]] /\ got[t] \in Answers
    BY <2>2
  <2>4. got'[t] \in Answers
    BY <2>1, <2>3
  <2> QED
    BY <2>2, <2>4
<1>24. ASSUME NEW t \in Task, FailFetch(t) PROVE AnswerInv'
  BY <1>24 DEF FailFetch, ForgetFetch, Finish
<1>25. ASSUME NEW t \in Task, Insert(t) PROVE AnswerInv'
  BY <1>25 DEF Insert, ForgetFetch, Follow, Finish
<1>26. CASE Acknowledge
  BY <1>26 DEF Acknowledge
<1>27. CASE Drop
  BY <1>27 DEF Drop, ForgetSeen, ForgetFetch
<1>28. CASE UNCHANGED vars
  BY <1>28 DEF vars
<1> QED
  BY <1>1, <1>2, <1>3, <1>4, <1>5, <1>6, <1>7, <1>8, <1>9, <1>10, <1>11, <1>12, <1>13, <1>14, <1>15,
     <1>16, <1>17, <1>18, <1>19, <1>20, <1>21, <1>22, <1>23, <1>24, <1>25, <1>26, <1>27, <1>28
     DEF Next, Dispatch, StartLoop, Fetch

-----------------------------------------------------------------------------
(* An event that is still to come stays so when another comes after it, *)
LEMMA AfterAppend ==
    ASSUME NEW S, NEW s \in Seq(S), NEW x \in S, NEW n \in Nat \ {0}, NEW e
    PROVE  /\ After(s, n, e) => After(Append(s, x), n, e)
           /\ n <= Len(s) + 1 => After(Append(s, x), n, x)
<1>1. /\ Len(Append(s, x)) = Len(s) + 1 /\ Append(s, x)[Len(s) + 1] = x
      /\ \A i \in 1 .. Len(s) : Append(s, x)[i] = s[i]
  OBVIOUS
<1> QED
  BY <1>1 DEF After

(* when it is looked for from an earlier place, *)
LEMMA AfterEarlier ==
    ASSUME NEW S, NEW s \in Seq(S), NEW n \in Nat, NEW k \in Nat, k <= n, NEW e, After(s, n, e)
    PROVE  After(s, k, e)
  BY DEF After

(* and when another is passed over. *)
LEMMA AfterNext ==
    ASSUME NEW S, NEW s \in Seq(S), NEW n \in Nat, NEW e, s[n] # e, After(s, n, e)
    PROVE  After(s, n + 1, e)
  BY DEF After

-----------------------------------------------------------------------------
(* Whoever is in a room has joined after they last left, or untold; leaves  *)
(* that were acknowledged do not matter any more.                           *)
RejoinInv ==
    \A r \in Room : \A m \in joined[r] : \A i \in acked + 1 .. Len(sent) :
        sent[i] = Ev("leave", r, m) => \/ After(sent, i + 1, Ev("join", r, m))
                                       \/ Ev("join", r, m) \in untold

(* The first event that has not had its effect on the rooms. *)
Rest == IF pc[Dispatcher] \in {"idle", "replace"} THEN next ELSE next + 1

(* What the service does not know of a room, or will not when the answers   *)
(* it has are put in place of the room, though it is not for want of being  *)
(* told.                                                                    *)
Owed(e) ==
    /\ e \notin untold
    /\ \/ \E r \in Known : \E m \in joined[r] \ room[r].members : e = Ev("join", r, m)
       \/ \E t \in Task : /\ got[t].members # None
                          /\ \E m \in joined[want[t]] \ got[t].members : e = Ev("join", want[t], m)
       \/ \E r \in Known \ misread :
             encrypted[r] /\ ~room[r].encrypted /\ e = Ev("encryption", r, None)
       \/ \E t \in Task : /\ got[t].encrypted = "no" /\ encrypted[want[t]]
                          /\ e = Ev("encryption", want[t], None)

(* That is still to come. *)
CoverInv == \A e \in StateEvent : Owed(e) => After(sent, Rest, e)

(* Only the homeserver makes somebody join or leave, and an answer makes up *)
(* for a join nobody told of only if no leave is to be handled after it.    *)
LEMMA RejoinStep == ASSUME TypeOK, RejoinInv, [Next]_vars PROVE RejoinInv'
<1> USE DEF RejoinInv
<1>1. acked \in Nat /\ next \in Nat /\ Len(sent) \in Nat
  BY DEF TypeOK
<1>2. ASSUME UNCHANGED <<joined, sent>>, acked' \in Nat, acked <= acked',
             \A r \in Room : \A m \in Member :
                 Ev("join", r, m) \in untold /\ LeaveToCome(r, m) => Ev("join", r, m) \in untold'
      PROVE  RejoinInv'
  <2>1. SUFFICES ASSUME NEW r \in Room, NEW m \in joined'[r], NEW i \in acked' + 1 .. Len(sent'),
                        sent'[i] = Ev("leave", r, m)
                 PROVE  After(sent', i + 1, Ev("join", r, m)) \/ Ev("join", r, m) \in untold'
    BY <1>2 DEF RejoinInv
  <2>2. joined' = joined /\ sent' = sent /\ acked' \in Nat /\ acked <= acked'
    BY <1>2
  <2>3. i \in acked + 1 .. Len(sent)
    <3>1. i \in acked' + 1 .. Len(sent)
      BY <2>2
    <3>2. \A a, b, n \in Nat : a <= b => b + 1 .. n \subseteq a + 1 .. n
      OBVIOUS
    <3>3. acked' + 1 .. Len(sent) \subseteq acked + 1 .. Len(sent)
      BY <1>1, <2>2, <3>2
    <3> QED
      BY <3>1, <3>3
  <2>4. m \in joined[r] /\ joined[r] \in SUBSET Member
    BY <2>2 DEF TypeOK
  <2>5. LeaveToCome(r, m)
    BY <2>1, <2>2, <2>3 DEF LeaveToCome
  <2>6. Ev("join", r, m) \in untold => Ev("join", r, m) \in untold'
    BY <1>2, <2>4, <2>5
  <2>7. After(sent, i + 1, Ev("join", r, m)) \/ Ev("join", r, m) \in untold
    BY <2>1, <2>2, <2>3, <2>4 DEF RejoinInv
  <2> QED
    BY <2>2, <2>6, <2>7
<1>3. CASE Change
  <2>1. PICK x \in StateEvent : Changing(x) /\ Hearing(x)
    BY <1>3, Changed
  <2>2. /\ acked' = acked /\ Len(sent) <= Len(sent') /\ Len(sent') \in Nat
        /\ \A i \in 1 .. Len(sent) : sent'[i] = sent[i]
    BY <1>3, Changed DEF deliveryVars
  <2>3. SUFFICES ASSUME NEW r \in Room, NEW m \in joined'[r], NEW i \in acked + 1 .. Len(sent'),
                        sent'[i] = Ev("leave", r, m)
                 PROVE  After(sent', i + 1, Ev("join", r, m)) \/ Ev("join", r, m) \in untold'
    BY <2>2 DEF RejoinInv
  <2>4. x = Ev("leave", r, m) => m \notin joined'[r]
    BY <2>1 DEF Changing, Ev, TypeOK
  <2>5. i \in acked + 1 .. Len(sent)
    <3>1. CASE sent' = sent
      BY <3>1
    <3>2. CASE sent' = Append(sent, x)
      <4>1. Len(sent') = Len(sent) + 1 /\ sent'[Len(sent) + 1] = x
        BY <3>2 DEF TypeOK
      <4> QED
        BY <1>1, <2>3, <2>4, <4>1
    <3> QED
      BY <2>1, <3>1, <3>2 DEF Hearing
  <2>6. sent[i] = Ev("leave", r, m)
    BY <1>1, <2>2, <2>3, <2>5
  <2>7. CASE m \in joined[r] /\ Ev("join", r, m) \in untold
    BY <2>1, <2>4, <2>7 DEF Hearing, Ev, StateEvent
  <2>8. CASE m \in joined[r] /\ Ev("join", r, m) \notin untold
    <3>1. After(sent, i + 1, Ev("join", r, m))
      BY <2>5, <2>6, <2>8
    <3>2. CASE sent' = sent
      BY <3>1, <3>2
    <3>3. CASE sent' = Append(sent, x)
      BY <1>1, <2>5, <3>1, <3>3, AfterAppend DEF TypeOK
    <3> QED
      BY <2>1, <3>2, <3>3 DEF Hearing
  <2>9. CASE m \notin joined[r]
    <3>1. x = Ev("join", r, m)
      BY <2>1, <2>3, <2>9 DEF StateEvent, Changing, Ev, TypeOK
    <3>2. CASE ~Told(x)
      BY <2>1, <3>1, <3>2 DEF Hearing, Ev
    <3>3. CASE Told(x)
      <4>1. Len(sent') = Len(sent) + 1 /\ sent'[Len(sent) + 1] = x
        BY <2>1, <3>3 DEF Hearing, TypeOK
      <4> QED
        BY <1>1, <2>5, <3>1, <4>1 DEF After
    <3> QED
      BY <3>2, <3>3
  <2> QED
    BY <2>7, <2>8, <2>9
<1>4. ASSUME NEW u \in User, StartLoop(u) PROVE UNCHANGED <<joined, sent, acked, untold>>
  BY <1>4 DEF StartLoop, MakeUser, ListRooms, LockRooms, NextRoom, UnlockRooms, ReadOwn, TrackOwn,
              FailRun, serverVars, deliveryVars
<1>5. ASSUME NEW t \in Task, Fetch(t) PROVE RejoinInv'
  <2>1. UNCHANGED <<joined, sent, acked>>
    BY <1>5 DEF Fetch, FetchEncryption, FetchMembers, FailFetch, Insert, serverVars, deliveryVars
  <2>2. CASE FetchEncryption(t)
    <3>1. \A r \in Room : \A m \in Member : Ev("join", r, m) \in untold => Ev("join", r, m) \in untold'
      BY <2>2 DEF FetchEncryption, Ev
    <3> QED
      BY <1>1, <1>2, <2>1, <3>1
  <2>3. CASE FetchMembers(t)
    <3>1. untold' = {e \in untold : e.kind = "join" /\ e.room = want[t] => LeaveToCome(e.room, e.member)}
      BY <2>3 DEF FetchMembers
    <3>2. ASSUME NEW r \in Room, NEW m \in Member, Ev("join", r, m) \in untold, LeaveToCome(r, m)
          PROVE  Ev("join", r, m) \in untold'
      <4>1. Ev("join", r, m).room = r /\ Ev("join", r, m).member = m
        BY DEF Ev
      <4> QED
        BY <3>1, <3>2, <4>1
    <3> QED
      BY <1>1, <1>2, <2>1, <3>2
  <2>4. CASE FailFetch(t) \/ Insert(t)
    <3>1. UNCHANGED untold
      BY <2>4 DEF FailFetch, Insert, serverVars
    <3> QED
      BY <1>1, <1>2, <2>1, <3>1
  <2> QED
    BY <1>5, <2>2, <2>3, <2>4 DEF Fetch
<1>6. ASSUME Dispatch \/ Drop \/ UNCHANGED vars PROVE UNCHANGED <<joined, sent, acked, untold>>
  BY <1>6 DEF Dispatch, AddKnown, AddUnknown, RemoveKnown, PassOver, AlreadyEncrypted, CloneMembers,
              ReplaceRoom, FindUsers, NoUserLeft, FailTrack, ReadFor, TrackFor, Drop,
              vars, serverVars, deliveryVars
<1>7. CASE Acknowledge
  <2>1. UNCHANGED <<joined, sent, untold>> /\ acked' = next - 1 /\ acked < next - 1
    BY <1>7 DEF Acknowledge, serverVars
  <2> QED
    BY <1>1, <1>2, <2>1
<1> QED
  BY <1>1, <1>2, <1>3, <1>4, <1>5, <1>6, <1>7 DEF Next

(* Who has an answer has asked about a room. *)
LEMMA Fetched ==
    ASSUME ControlInv, NEW t \in Task, got[t].members # None \/ got[t].encrypted = "no"
    PROVE  pc[t] = "fetch" /\ want[t] \in Room
<1>1. pc[t] = "fetch"
  BY DEF ControlInv, AnswerInv, Nothing
<1>2. CASE t = Dispatcher
  BY <1>1, <1>2, CurrentEvent DEF ControlInv, DispatcherInv, StateEvent
<1>3. CASE t \in User
  BY <1>1, <1>3 DEF ControlInv, LoopInv, TypeOK
<1> QED
  BY <1>1, <1>2, <1>3 DEF Task

(* While nobody holds the lock no answers are waiting. *)
LEMMA NoAnswers == ASSUME ControlInv, lock = None PROVE \A t \in Task : got[t] = Nothing
  BY NoneAssumption DEF ControlInv, TypeOK, AnswerInv

(* Nothing more is owed when the rooms stay and answers are only dropped. *)
LEMMA OwedKept ==
    ASSUME UNCHANGED <<joined, encrypted, untold, room, misread>>, NEW e, Owed(e)',
           \A t \in Task : got'[t] = Nothing \/ (got'[t] = got[t] /\ want'[t] = want[t])
    PROVE  Owed(e)
<1>1. \A t \in Task : got'[t].members # None \/ got'[t].encrypted = "no" =>
                         got'[t] = got[t] /\ want'[t] = want[t]
  BY DEF Nothing
<1> QED
  BY <1>1 DEF Owed, Known

(* A step at which no more is owed, and after which the same events or more *)
(* are to come, keeps the invariant; *)
LEMMA CoverKept ==
    ASSUME TypeOK, TypeOK', CoverInv, sent' = sent, Rest' <= Rest,
           \A e \in StateEvent : Owed(e)' => Owed(e)
    PROVE  CoverInv'
<1>1. Rest \in Nat /\ Rest' \in Nat
  <2>1. next \in Nat
    BY DEF TypeOK
  <2>2. next' \in Nat
    BY DEF TypeOK
  <2>3. Rest = next \/ Rest = next + 1
    BY DEF Rest
  <2>4. Rest' = next' \/ Rest' = next' + 1
    BY DEF Rest
  <2>5. Rest \in Nat
    BY <2>1, <2>3
  <2>6. Rest' \in Nat
    BY <2>2, <2>4
  <2> QED
    BY <2>5, <2>6
<1>2. ASSUME NEW e \in StateEvent, Owed(e)' PROVE After(sent', Rest', e)
  <2>1. After(sent, Rest, e)
    BY <1>2 DEF CoverInv
  <2> QED
    BY <1>1, <2>1, AfterEarlier DEF TypeOK
<1> QED
  BY <1>2 DEF CoverInv

(* and so does one that passes over an event that is not owed afterwards. *)
LEMMA CoverPassed ==
    ASSUME TypeOK, CoverInv, sent' = sent, Rest = next, Rest' = next + 1,
           \A e \in StateEvent : Owed(e)' => Owed(e) /\ e # Event
    PROVE  CoverInv'
<1>1. ASSUME NEW e \in StateEvent, Owed(e)' PROVE After(sent', Rest', e)
  <2>1. After(sent, next, e) /\ sent[next] # e /\ next \in Nat
    BY <1>1 DEF CoverInv, Event, TypeOK
  <2> QED
    BY <2>1, AfterNext DEF TypeOK
<1> QED
  BY <1>1 DEF CoverInv

(* What is owed for a room that is put in place was owed for the answers. *)
LEMMA OwedInserted ==
    ASSUME ControlInv, NEW t \in Task, Insert(t), NEW e, Owed(e)'
    PROVE  Owed(e)
<1>1. /\ got[t].members # None /\ got[t].encrypted # "none"
      /\ want' = [want EXCEPT ![t] = None] /\ got' = [got EXCEPT ![t] = Nothing]
      /\ UNCHANGED <<joined, encrypted, untold>>
      /\ misread' = IF got[t].encrypted = "error" THEN misread \cup {want[t]} ELSE misread
      /\ room' = [room EXCEPT ![want[t]] = [encrypted |-> got[t].encrypted = "yes",
                                            members |-> got[t].members]]
  BY DEF Insert, ForgetFetch, serverVars
<1>2. got'[t] = Nothing /\ \A q \in Task \ {t} : got'[q] = got[q] /\ want'[q] = want[q]
  BY <1>1 DEF ControlInv, AnswerInv
<1>3. \A q \in Task : got'[q].members # None \/ got'[q].encrypted = "no" =>
                         got'[q] = got[q] /\ want'[q] = want[q]
  BY <1>2 DEF Nothing
<1>4. \A r \in Known' : \/ r \in Known /\ room'[r] = room[r]
                        \/ /\ r = want[t]
                           /\ room'[r].members = got[t].members
                           /\ room'[r].encrypted = (got[t].encrypted = "yes")
  BY <1>1 DEF ControlInv, TypeOK, Known
<1>5. got[t].encrypted \in {"error", "yes", "no"}
  BY <1>1 DEF ControlInv, AnswerInv, Answers
<1>6. ASSUME NEW r \in Known', NEW m \in joined'[r] \ room'[r].members, e = Ev("join", r, m)
      PROVE  Owed(e)
  BY <1>1, <1>4, <1>6 DEF Owed
<1>7. ASSUME NEW r \in Known' \ misread', encrypted'[r] /\ ~room'[r].encrypted,
             e = Ev("encryption", r, None)
      PROVE  Owed(e)
  BY <1>1, <1>4, <1>5, <1>7 DEF Owed
<1>8. ASSUME NEW q \in Task, got'[q].members # None, NEW m \in joined'[want'[q]] \ got'[q].members,
             e = Ev("join", want'[q], m)
      PROVE  Owed(e)
  BY <1>1, <1>3, <1>8 DEF Owed
<1>9. ASSUME NEW q \in Task, got'[q].encrypted = "no", encrypted'[want'[q]],
             e = Ev("encryption", want'[q], None)
      PROVE  Owed(e)
  BY <1>1, <1>3, <1>9 DEF Owed
<1> QED
  BY <1>6, <1>7, <1>8, <1>9 DEF Owed

(* What the homeserver says first, or does again, keeps what is owed        *)
(* covered; what the service finds out is owed no more.                     *)
LEMMA CoverStep ==
    ASSUME ControlInv, ControlInv', RejoinInv, CoverInv, [Next]_vars PROVE CoverInv'
<1> USE DispatcherAssumption DEF serverVars, deliveryVars, fetchVars, updateVars, historyVars
<1>1. TypeOK /\ TypeOK' /\ next \in Nat
  <2>1. TypeOK /\ TypeOK'
    BY DEF ControlInv
  <2>2. next \in Nat
    BY <2>1 DEF TypeOK
  <2> QED
    BY <2>1, <2>2
<1>2. ASSUME lock = None PROVE \A t \in Task : got[t] = Nothing
  BY <1>2, NoAnswers
(* Steps that leave what is owed and what is to come. *)
<1>3. ASSUME UNCHANGED <<joined, encrypted, untold, sent, room, misread, next, got, want>>,
             pc'[Dispatcher] = pc[Dispatcher]
      PROVE  CoverInv'
  <2>1. Rest' = Rest
    BY <1>3 DEF Rest
  <2> QED
    BY <1>1, <1>3, <2>1, OwedKept, CoverKept DEF TypeOK, Rest
<1>4. CASE Change
  <2>1. PICK x \in StateEvent : Changing(x) /\ Hearing(x)
    BY <1>1, <1>4, Changed
  <2>2. UNCHANGED <<next, room, lock, pc, want, got, misread>>
    BY <1>1, <1>4, Changed DEF deliveryVars, fetchVars, historyVars
  <2>3. Rest' = Rest /\ Rest \in Nat \ {0} /\ Rest <= Len(sent) + 1
    BY <1>1, <2>2 DEF Rest, ControlInv, DispatcherInv, TypeOK
  <2>4. /\ \A r \in Room : joined'[r] \subseteq joined[r] \cup {m \in {x.member} : x = Ev("join", r, m)}
        /\ \A r \in Room : encrypted'[r] => encrypted[r] \/ x = Ev("encryption", r, None)
    BY <1>1, <2>1 DEF Changing, Ev, TypeOK, StateEvent
  <2>5. Known' = Known /\ Known \subseteq Room
    BY <2>2 DEF Known
  <2>6. \A t \in Task : got[t].members # None \/ got[t].encrypted = "no" => want[t] \in Room
    BY <1>1, Fetched
  <2>7. ASSUME NEW e \in StateEvent, Owed(e)' PROVE e \notin untold
    <3>1. \/ \E r \in Room : \E m \in joined'[r] : e = Ev("join", r, m)
          \/ e.kind = "encryption"
      BY <2>2, <2>5, <2>6, <2>7 DEF Owed, Ev
    <3>2. ASSUME e \in untold PROVE FALSE
      <4>1. x.kind = "leave" /\ e = Ev("join", x.room, x.member)
        BY <2>1, <2>7, <3>2 DEF Hearing, Owed
      <4>2. x.room \in Room /\ x.member \notin joined'[x.room]
        BY <1>1, <2>1, <4>1 DEF Changing, TypeOK, StateEvent
      <4> QED
        BY <3>1, <4>1, <4>2 DEF Ev
    <3> QED
      BY <3>2
  <2>8. ASSUME NEW e \in StateEvent, Owed(e)', e # x PROVE Owed(e)
    <3>1. ASSUME NEW r \in Room, NEW m \in joined'[r], e = Ev("join", r, m)
          PROVE  m \in joined[r]
      BY <2>4, <2>8, <3>1 DEF Ev
    <3>2. ASSUME NEW r \in Room, encrypted'[r], e = Ev("encryption", r, None)
          PROVE  encrypted[r]
      BY <2>4, <2>8, <3>2
    <3> QED
      BY <2>2, <2>5, <2>6, <2>7, <2>8, <3>1, <3>2 DEF Owed
  <2>9. ASSUME NEW e \in StateEvent, Owed(e)' PROVE After(sent', Rest', e)
    <3>1. CASE e = x
      <4>1. x.kind # "leave" /\ x \notin untold'
        BY <2>9, <3>1 DEF Owed, Ev
      <4>2. sent' = Append(sent, x)
        BY <2>1, <4>1 DEF Hearing
      <4> QED
        BY <1>1, <2>3, <3>1, <4>2, AfterAppend DEF TypeOK
    <3>2. CASE e # x
      <4>1. After(sent, Rest, e)
        BY <2>8, <2>9, <3>2 DEF CoverInv
      <4>2. CASE sent' = sent
        BY <2>3, <4>1, <4>2
      <4>3. CASE sent' = Append(sent, x)
        BY <1>1, <2>3, <4>1, <4>3, AfterAppend DEF TypeOK
      <4> QED
        BY <2>1, <4>2, <4>3 DEF Hearing
    <3> QED
      BY <3>1, <3>2
  <2> QED
    BY <2>9 DEF CoverInv
<1>5. CASE AddKnown
  <2>1. /\ pc[Dispatcher] = "idle" /\ next <= Len(sent) /\ Event.kind = "join" /\ lock = None
        /\ Event.room \in Known
        /\ room' = [room EXCEPT ![Event.room].members = @ \cup {Event.member}]
        /\ UNCHANGED <<joined, encrypted, untold, sent, misread, got, want>>
    BY <1>5 DEF AddKnown, Dispatches
  <2>2. Event \in StateEvent /\ Event.member \in Member
    BY <1>1, <2>1, CurrentEvent DEF StateEvent
  <2>3. Known' = Known /\ \A r \in Known : /\ room'[r].encrypted = room[r].encrypted
                                          /\ room[r].members \subseteq room'[r].members
                                          /\ r = Event.room => Event.member \in room'[r].members
    <3>1. room[Event.room].members \cup {Event.member} \in SUBSET Member
      BY <1>1, <2>1, <2>2, KnownRooms DEF RoomKind
    <3>2. /\ Known' = Known /\ \A q \in Room \ {Event.room} : room'[q] = room[q]
          /\ room'[Event.room] = [encrypted |-> room[Event.room].encrypted, members |-> room[Event.room].members \cup {Event.member}]
      BY <1>1, <2>1, <3>1, MembersSet
    <3>3. Known \subseteq Room
      BY DEF Known
    <3> QED
      BY <3>2, <3>3
  <2>4. Rest = next /\ Rest' = next + 1
    <3>1. CASE room[Event.room].encrypted
      BY <1>5, <2>1, <3>1 DEF AddKnown, Follow, Goto, Rest, ControlInv, TypeOK, Task
    <3>2. CASE ~room[Event.room].encrypted
      BY <1>5, <2>1, <3>2 DEF AddKnown, Follow, Finish, Goto, Rest, ControlInv, TypeOK, Task
    <3> QED
      BY <3>1, <3>2
  <2>5. \A t \in Task : got[t].members = None /\ got[t].encrypted = "none"
    BY <1>2, <2>1 DEF Nothing
  <2>6. ASSUME NEW e \in StateEvent, Owed(e)' PROVE Owed(e) /\ e # Event
    BY <2>1, <2>3, <2>5, <2>6 DEF Owed, Ev
  <2> QED
    BY <1>1, <2>1, <2>4, <2>6, CoverPassed
<1>6. CASE AddUnknown
  <2>1. /\ pc[Dispatcher] = "idle" /\ Event.kind = "join" /\ lock = None /\ Event.room \notin Known
        /\ pc' = [pc EXCEPT ![Dispatcher] = "fetch"]
        /\ UNCHANGED <<joined, encrypted, untold, sent, next, room, misread, got>>
    BY <1>6 DEF AddUnknown, Dispatches, Goto
  <2>2. Rest = next /\ Rest' = next + 1
    BY <2>1 DEF Rest, ControlInv, TypeOK, Task
  <2>3. \A t \in Task : got[t] = Nothing
    BY <1>2, <2>1
  <2>4. ASSUME NEW e \in StateEvent, Owed(e)' PROVE Owed(e) /\ e # Event
    <3>1. Owed(e)
      BY <2>1, <2>3, <2>4, OwedKept
    <3>2. e.kind = "join" => e.room \in Known
      BY <2>3, <3>1 DEF Owed, Ev, Nothing
    <3> QED
      BY <2>1, <3>1, <3>2
  <2> QED
    BY <1>1, <2>1, <2>2, <2>4, CoverPassed
<1>7. CASE RemoveKnown
  <2>1. /\ pc[Dispatcher] = "idle" /\ next <= Len(sent) /\ Event.kind = "leave" /\ lock = None
        /\ Event.room \in Known
        /\ room' = [room EXCEPT ![Event.room].members = @ \ {Event.member}]
        /\ UNCHANGED <<joined, encrypted, untold, sent, misread, got, want>>
    BY <1>7 DEF RemoveKnown, Dispatches
  <2>2. Event \in StateEvent /\ Event.member \in Member /\ Event.room \in Room
    BY <1>1, <2>1, CurrentEvent DEF StateEvent
  <2>3. Known' = Known /\ \A r \in Known : /\ room'[r].encrypted = room[r].encrypted
                                          /\ \/ room'[r].members = room[r].members
                                             \/ /\ r = Event.room
                                                /\ room'[r].members = room[r].members \ {Event.member}
    <3>1. room[Event.room].members \ {Event.member} \in SUBSET Member
      BY <1>1, <2>1, <2>2, KnownRooms DEF RoomKind
    <3>2. /\ Known' = Known /\ \A q \in Room \ {Event.room} : room'[q] = room[q]
          /\ room'[Event.room] = [encrypted |-> room[Event.room].encrypted, members |-> room[Event.room].members \ {Event.member}]
      BY <1>1, <2>1, <3>1, MembersSet
    <3>3. Known \subseteq Room
      BY DEF Known
    <3> QED
      BY <3>2, <3>3
  <2>4. Rest = next /\ Rest' = next + 1
    <3>1. CASE room[Event.room].encrypted
      BY <1>7, <2>1, <3>1 DEF RemoveKnown, Follow, Goto, Rest, ControlInv, TypeOK, Task
    <3>2. CASE ~room[Event.room].encrypted
      BY <1>7, <2>1, <3>2 DEF RemoveKnown, Follow, Finish, Goto, Rest, ControlInv, TypeOK, Task
    <3> QED
      BY <3>1, <3>2
  <2>5. \A t \in Task : got[t].members = None /\ got[t].encrypted = "none"
    BY <1>2, <2>1 DEF Nothing
  <2>6. ASSUME NEW e \in StateEvent, Owed(e)' PROVE After(sent', Rest', e)
    <3>1. CASE Owed(e)
      <4>1. After(sent, next, e) /\ e # Event
        BY <2>1, <2>4, <2>5, <3>1 DEF CoverInv, Owed, Ev
      <4> QED
        BY <1>1, <2>1, <2>4, <4>1, AfterNext DEF Event, TypeOK
    <3>2. CASE ~Owed(e)
      <4>1. /\ e = Ev("join", Event.room, Event.member) /\ Event.member \in joined[Event.room]
            /\ e \notin untold
        BY <2>1, <2>3, <2>5, <2>6, <3>2 DEF Owed
      <4>2. Event = Ev("leave", Event.room, Event.member)
        BY <2>1, <2>2 DEF Ev, StateEvent
      <4>3. next \in acked + 1 .. Len(sent) /\ sent[next] = Event
        BY <1>1, <2>1 DEF Event, TypeOK
      <4>4. After(sent, next + 1, Ev("join", Event.room, Event.member))
        BY <2>2, <4>1, <4>2, <4>3 DEF RejoinInv
      <4> QED
        BY <2>1, <2>4, <4>1, <4>4
    <3> QED
      BY <3>1, <3>2
  <2> QED
    BY <2>6 DEF CoverInv
<1>8. CASE PassOver
  <2>1. /\ Event.kind = "leave" /\ Rest = next /\ Rest' = next + 1
        /\ UNCHANGED <<joined, encrypted, untold, sent, room, misread, got, want>>
    BY <1>8 DEF PassOver, Dispatches, Finish, Goto, Rest, ControlInv, TypeOK, Task
  <2>2. ASSUME NEW e \in StateEvent, Owed(e)' PROVE Owed(e) /\ e # Event
    <3>1. Owed(e)
      BY <2>1, <2>2, OwedKept
    <3> QED
      BY <2>1, <3>1 DEF Owed, Ev
  <2> QED
    BY <1>1, <2>1, <2>2, CoverPassed
<1>9. CASE AlreadyEncrypted
  <2>1. /\ Event.kind = "encryption" /\ Rest = next /\ Rest' = next + 1 /\ lock = None
        /\ Event.room \in Known => room[Event.room].encrypted
        /\ UNCHANGED <<joined, encrypted, untold, sent, room, misread, got, want>>
    BY <1>9 DEF AlreadyEncrypted, Dispatches, Finish, Goto, Rest, ControlInv, TypeOK, Task
  <2>2. ASSUME NEW e \in StateEvent, Owed(e)' PROVE Owed(e) /\ e # Event
    <3>1. Owed(e)
      BY <2>1, <2>2, OwedKept
    <3>2. \A t \in Task : got[t].members = None /\ got[t].encrypted = "none"
      BY <1>2, <2>1 DEF Nothing
    <3> QED
      BY <2>1, <3>1, <3>2 DEF Owed, Ev
  <2> QED
    BY <1>1, <2>1, <2>2, CoverPassed
<1>10. CASE ReplaceRoom
  <2>1. /\ pc[Dispatcher] = "replace" /\ lock = None
        /\ room' = [room EXCEPT ![Event.room] = [encrypted |-> TRUE, members |-> copy]]
        /\ pc' = [pc EXCEPT ![Dispatcher] = "users"]
        /\ UNCHANGED <<joined, encrypted, untold, sent, next, misread, got, want>>
    BY <1>10 DEF ReplaceRoom, Goto
  <2>2. Event.kind = "encryption" /\ Event.room \in Known /\ copy = room[Event.room].members
    BY <2>1 DEF ControlInv, DispatcherInv
  <2>3. Known' \subseteq Known
        /\ \A r \in Known : /\ room'[r].members = room[r].members
                            /\ room'[r].encrypted = room[r].encrypted \/ room'[r].encrypted
                            /\ r = Event.room => room'[r].encrypted
    BY <1>1, <2>1, <2>2 DEF TypeOK, Known
  <2>4. Rest = next /\ Rest' = next + 1
    BY <2>1 DEF Rest, ControlInv, TypeOK, Task
  <2>5. \A t \in Task : got[t].members = None /\ got[t].encrypted = "none"
    BY <1>2, <2>1 DEF Nothing
  <2>6. ASSUME NEW e \in StateEvent, Owed(e)' PROVE Owed(e) /\ e # Event
    <3>1. CASE \E r \in Known' : \E m \in joined'[r] \ room'[r].members : e = Ev("join", r, m)
      <4>1. PICK r \in Known' : \E m \in joined'[r] \ room'[r].members : e = Ev("join", r, m)
        BY <3>1
      <4>2. PICK m \in joined'[r] \ room'[r].members : e = Ev("join", r, m)
        BY <4>1
      <4>3. r \in Known /\ m \in joined[r] \ room[r].members /\ e \notin untold
        BY <2>1, <2>3, <2>6, <4>2 DEF Owed
      <4> QED
        BY <2>2, <4>2, <4>3 DEF Owed, Ev
    <3>2. CASE \E r \in Known' \ misread' :
                  encrypted'[r] /\ ~room'[r].encrypted /\ e = Ev("encryption", r, None)
      <4>1. PICK r \in Known' \ misread' :
                     encrypted'[r] /\ ~room'[r].encrypted /\ e = Ev("encryption", r, None)
        BY <3>2
      <4>2. /\ r \in Known \ misread /\ encrypted[r] /\ ~room[r].encrypted /\ r # Event.room
            /\ e \notin untold
        BY <2>1, <2>3, <2>6, <4>1 DEF Owed
      <4> QED
        BY <4>1, <4>2 DEF Owed, Ev
    <3> QED
      BY <2>1, <2>5, <2>6, <3>1, <3>2 DEF Owed
  <2> QED
    BY <1>1, <2>1, <2>4, <2>6, CoverPassed
<1>11. ASSUME NEW t \in Task, pc[t] = "fetch", got' = [got EXCEPT ![t] = got'[t]],
              UNCHANGED <<joined, encrypted, sent, next, room, pc, want, misread>>
       PROVE  /\ Rest' = Rest /\ Rest \in Nat /\ Known' = Known /\ want[t] \notin Known
              /\ \A q \in Task \ {t} : got'[q] = got[q] /\ got[q] = Nothing
  <2>1. \A q \in Task \ {t} : pc[q] # "fetch"
    BY <1>1, <1>11 DEF TypeOK
  <2>2. \A q \in Task \ {t} : got'[q] = got[q] /\ got[q] = Nothing
    BY <1>11, <2>1 DEF ControlInv, AnswerInv
  <2>3. want[t] \notin Known
    <3>1. CASE t = Dispatcher
      BY <1>11, <3>1 DEF ControlInv, DispatcherInv
    <3>2. CASE t \in User
      BY <1>11, <3>2 DEF ControlInv, LoopInv
    <3> QED
      BY <3>1, <3>2 DEF Task
  <2> QED
    BY <1>1, <1>11, <2>2, <2>3 DEF Rest, Known
<1>12. ASSUME NEW t \in Task, FetchEncryption(t) PROVE CoverInv'
  <2>1. PICK answer \in {"error"} \cup Encryption(want[t]) :
            /\ got' = [got EXCEPT ![t].encrypted = answer]
            /\ untold' = IF answer = "yes" THEN untold \ {Ev("encryption", want[t], None)} ELSE untold
    BY <1>12 DEF FetchEncryption
  <2>2. UNCHANGED <<joined, encrypted, sent, next, room, pc, want, misread>> /\ pc[t] = "fetch"
    BY <1>12 DEF FetchEncryption
  <2>3. got[t] \in Answers /\ DOMAIN got = Task
    BY DEF ControlInv, AnswerInv
  <2>4. got'[t].members = got[t].members /\ got'[t].encrypted = answer
        /\ got' = [got EXCEPT ![t] = got'[t]]
    BY <2>1, <2>3 DEF Answers
  <2>5. /\ Rest' = Rest /\ Rest \in Nat /\ Known' = Known /\ want[t] \notin Known
        /\ \A q \in Task \ {t} : got'[q] = got[q] /\ got[q] = Nothing
    BY <1>11, <2>2, <2>4
  <2>6. answer = "no" /\ encrypted[want[t]] => Ev("encryption", want[t], None) \in untold
    BY <2>1 DEF Encryption
  <2>7. ASSUME NEW e \in StateEvent, Owed(e)' PROVE Owed(e)
    <3>1. CASE \E r \in Known : \E m \in joined[r] \ room[r].members : e = Ev("join", r, m)
      BY <2>1, <2>7, <3>1 DEF Owed, Ev
    <3>2. CASE /\ got'[t].members # None
               /\ \E m \in joined[want[t]] \ got'[t].members : e = Ev("join", want[t], m)
      BY <2>1, <2>4, <2>7, <3>2 DEF Owed, Ev
    <3>3. CASE \E r \in Known \ misread :
                  encrypted[r] /\ ~room[r].encrypted /\ e = Ev("encryption", r, None)
      BY <2>1, <2>5, <2>7, <3>3 DEF Owed, Ev
    <3>4. CASE /\ got'[t].encrypted = "no" /\ encrypted[want[t]]
               /\ e = Ev("encryption", want[t], None)
      BY <2>1, <2>4, <2>6, <2>7, <3>4 DEF Owed
    <3> QED
      BY <2>2, <2>5, <2>7, <3>1, <3>2, <3>3, <3>4 DEF Owed, Nothing
  <2> QED
    BY <1>1, <2>2, <2>5, <2>7, CoverKept
<1>23. ASSUME NEW t \in Task, FetchMembers(t) PROVE CoverInv'
  <2>1. /\ got' = [got EXCEPT ![t].members = joined[want[t]]]
        /\ UNCHANGED <<joined, encrypted, sent, next, room, pc, want, misread>> /\ pc[t] = "fetch"
    BY <1>23 DEF FetchMembers
  <2>2. got[t] \in Answers /\ DOMAIN got = Task
    BY DEF ControlInv, AnswerInv
  <2>3. got'[t].members = joined[want[t]] /\ got'[t].encrypted = got[t].encrypted
        /\ got' = [got EXCEPT ![t] = got'[t]]
    BY <2>1, <2>2 DEF Answers
  <2>4. /\ Rest' = Rest /\ Rest \in Nat /\ Known' = Known /\ want[t] \notin Known
        /\ \A q \in Task \ {t} : got'[q] = got[q] /\ got[q] = Nothing
    BY <1>11, <2>1, <2>3
  <2>5. \A e \in untold \ untold' : e.kind = "join" /\ e.room = want[t]
    BY <1>23 DEF FetchMembers
  <2>6. ASSUME NEW e \in StateEvent, Owed(e)' PROVE Owed(e)
    <3>1. CASE \E r \in Known : \E m \in joined[r] \ room[r].members : e = Ev("join", r, m)
      BY <2>4, <2>5, <2>6, <3>1 DEF Owed, Ev
    <3>2. CASE \E r \in Known \ misread :
                  encrypted[r] /\ ~room[r].encrypted /\ e = Ev("encryption", r, None)
      BY <2>5, <2>6, <3>2 DEF Owed, Ev
    <3>3. CASE /\ got[t].encrypted = "no" /\ encrypted[want[t]]
               /\ e = Ev("encryption", want[t], None)
      BY <2>5, <2>6, <3>3 DEF Owed, Ev
    <3> QED
      BY <2>1, <2>3, <2>4, <2>6, <3>1, <3>2, <3>3 DEF Owed, Nothing
  <2> QED
    BY <1>1, <2>1, <2>4, <2>6, CoverKept
<1>13. ASSUME NEW t \in Task, Insert(t) PROVE CoverInv'
  <2>1. \A e \in StateEvent : Owed(e)' => Owed(e)
    BY <1>13, OwedInserted
  <2>2. sent' = sent /\ pc[t] = "fetch"
    BY <1>13 DEF Insert
  <2>3. Rest' = Rest
    <3>1. CASE t = Dispatcher /\ got[t].encrypted = "yes"
      BY <1>13, <2>2, <3>1 DEF Insert, Follow, Goto, Rest, ControlInv, TypeOK, Task
    <3>2. CASE t = Dispatcher /\ got[t].encrypted # "yes"
      BY <1>13, <2>2, <3>2 DEF Insert, Follow, Finish, Goto, Rest, ControlInv, TypeOK, Task
    <3>3. CASE t # Dispatcher
      BY <1>13, <3>3 DEF Insert, Goto, Rest, ControlInv, TypeOK, Task
    <3> QED
      BY <3>1, <3>2, <3>3
  <2> QED
    BY <1>1, <2>1, <2>2, <2>3, CoverKept DEF Rest
<1>14. ASSUME NEW t \in Task, FailFetch(t) PROVE CoverInv'
  <2>1. /\ UNCHANGED <<joined, encrypted, untold, sent, room, misread>> /\ pc[t] = "fetch"
        /\ want' = [want EXCEPT ![t] = None] /\ got' = [got EXCEPT ![t] = Nothing]
    BY <1>14 DEF FailFetch, ForgetFetch
  <2>2. \A q \in Task : got'[q] = Nothing \/ (got'[q] = got[q] /\ want'[q] = want[q])
    BY <2>1 DEF ControlInv, AnswerInv
  <2>3. Rest' = Rest
    <3>1. CASE t = Dispatcher
      BY <1>14, <2>1, <3>1 DEF FailFetch, Finish, Goto, Rest, ControlInv, TypeOK, Task
    <3>2. CASE t # Dispatcher
      BY <1>14, <3>2 DEF FailFetch, Goto, Rest, ControlInv, TypeOK, Task
    <3> QED
      BY <3>1, <3>2
  <2> QED
    BY <1>1, <2>1, <2>2, <2>3, OwedKept, CoverKept DEF Rest
<1>15. CASE FailTrack \/ \E u \in User : TrackFor(u)
  <2>1. /\ UNCHANGED <<joined, encrypted, untold, sent, room, misread>>
        /\ want' = [want EXCEPT ![Dispatcher] = None] /\ got' = [got EXCEPT ![Dispatcher] = Nothing]
    BY <1>15 DEF FailTrack, TrackFor, ForgetFetch
  <2>2. \A q \in Task : got'[q] = Nothing \/ (got'[q] = got[q] /\ want'[q] = want[q])
    BY <2>1 DEF ControlInv, AnswerInv
  <2>3. Rest' = Rest
    BY <1>15 DEF FailTrack, TrackFor, Finish, Goto, Rest, ControlInv, TypeOK, Task
  <2> QED
    BY <1>1, <2>1, <2>2, <2>3, OwedKept, CoverKept DEF Rest
<1>16. CASE CloneMembers \/ FindUsers \/ NoUserLeft
  <2>1. UNCHANGED <<joined, encrypted, untold, sent, room, misread, got, want>>
    BY <1>16 DEF CloneMembers, FindUsers, NoUserLeft
  <2>2. Rest' = Rest
    BY <1>16 DEF CloneMembers, FindUsers, NoUserLeft, Dispatches, Finish, Goto, Rest, ControlInv,
       TypeOK, Task
  <2> QED
    BY <1>1, <2>1, <2>2, OwedKept, CoverKept DEF Rest
<1>17. ASSUME NEW u \in User, ReadFor(u) PROVE CoverInv'
  <2>1. /\ UNCHANGED <<joined, encrypted, untold, sent, room, misread, got>>
        /\ want' = [want EXCEPT ![Dispatcher] = u] /\ pc[Dispatcher] = "read"
    BY <1>17 DEF ReadFor
  <2>2. \A q \in Task : got'[q] = Nothing \/ (got'[q] = got[q] /\ want'[q] = want[q])
    BY <2>1 DEF ControlInv, AnswerInv
  <2>3. Rest' = Rest
    BY <1>17 DEF ReadFor, Goto, Rest, ControlInv, TypeOK, Task
  <2> QED
    BY <1>1, <2>1, <2>2, <2>3, OwedKept, CoverKept DEF Rest
<1>18. ASSUME NEW u \in User, NextRoom(u) PROVE CoverInv'
  <2>1. /\ UNCHANGED <<joined, encrypted, untold, sent, room, misread, got>> /\ pc[u] = "next"
        /\ \A q \in Task \ {u} : want'[q] = want[q]
    BY <1>18 DEF NextRoom, ControlInv, AnswerInv
  <2>2. \A q \in Task : got'[q] = Nothing \/ (got'[q] = got[q] /\ want'[q] = want[q])
    BY <2>1 DEF ControlInv, AnswerInv
  <2>3. Rest' = Rest
    BY <1>18 DEF NextRoom, Goto, Rest, ControlInv, TypeOK, Task
  <2> QED
    BY <1>1, <2>1, <2>2, <2>3, OwedKept, CoverKept DEF Rest
<1>19. ASSUME NEW u \in User, MakeUser(u) \/ ListRooms(u) \/ LockRooms(u) \/ UnlockRooms(u)
                              \/ ReadOwn(u) \/ TrackOwn(u) \/ FailRun(u)
       PROVE  CoverInv'
  <2>1. UNCHANGED <<joined, encrypted, untold, sent, room, misread, next, got, want>>
    BY <1>19 DEF MakeUser, ListRooms, LockRooms, UnlockRooms, ReadOwn, TrackOwn, FailRun
  <2>2. pc'[Dispatcher] = pc[Dispatcher]
    BY <1>19 DEF MakeUser, ListRooms, LockRooms, UnlockRooms, ReadOwn, TrackOwn, FailRun, Goto,
                 ControlInv, TypeOK, Task
  <2> QED
    BY <1>3, <2>1, <2>2
<1>20. CASE Acknowledge
  BY <1>3, <1>20 DEF Acknowledge
<1>21. CASE Drop
  <2>1. /\ UNCHANGED <<joined, encrypted, untold, sent, room, misread>> /\ next' = acked + 1
        /\ pc' = [pc EXCEPT ![Dispatcher] = "idle"]
        /\ want' = [want EXCEPT ![Dispatcher] = None] /\ got' = [got EXCEPT ![Dispatcher] = Nothing]
    BY <1>21 DEF Drop, Goto, ForgetFetch
  <2>2. \A q \in Task : got'[q] = Nothing \/ (got'[q] = got[q] /\ want'[q] = want[q])
    BY <2>1 DEF ControlInv, AnswerInv
  <2>3. Rest' = next' /\ next' <= next
    BY <1>1, <2>1 DEF Rest, ControlInv, TypeOK, Task
  <2>4. Rest' <= Rest
    <3>1. Rest \in {next, next + 1} /\ next' \in Nat
      BY <1>1 DEF Rest, TypeOK
    <3> QED
      BY <1>1, <2>3, <3>1
  <2> QED
    BY <1>1, <2>1, <2>2, <2>4, OwedKept, CoverKept
<1>22. CASE UNCHANGED vars
  BY <1>3, <1>22 DEF vars
<1> QED
  BY <1>4, <1>5, <1>6, <1>7, <1>8, <1>9, <1>10, <1>11, <1>12, <1>13, <1>14, <1>15, <1>16, <1>17,
     <1>18, <1>19, <1>20, <1>21, <1>22, <1>23 DEF Next, Dispatch, StartLoop, Fetch

-----------------------------------------------------------------------------
(* Event e is still to be handled. *)
Coming(e) == After(sent, next, e)

(* Users that have their list of rooms. *)
Listed == {"lock", "next", "fetch", "read"} \cup Ready

(* A user with its list of rooms is in no unknown room but those on the     *)
(* list, those it is told that it has joined, and those given up.           *)
ListInv ==
    \A u \in User : pc[u] \in Listed =>
        \A r \in Room \ (Known \cup missed) :
            u \in joined[r] => r \in todo[u] \/ Coming(Ev("join", r, u))

(* So does a user that is among the members of an answer, if it is through  *)
(* with its list.                                                           *)
FetchedInv ==
    \A t \in Task : got[t].members # None /\ want[t] \notin missed =>
        \A u \in User \cap got[t].members : pc[u] \in Ready => Coming(Ev("join", want[t], u))

(* What u's OlmMachine tracks, or is about to. *)
Tracks(u) == tracked[u] \cup seen[u]

(* While the dispatcher goes through the users of a room, those who are not *)
(* left to update track all its members.                                    *)
UpdateInv ==
    /\ pc[Dispatcher] \in {"read", "track"} =>
        \A u \in User \cap room[Event.room].members :
            pc[u] \in Ready => u \in users \/ room[Event.room].members \subseteq Tracks(u)
    /\ pc[Dispatcher] = "track" /\ want[Dispatcher] \in room[Event.room].members =>
        room[Event.room].members \subseteq seen[Dispatcher]

(* Why u may not track the member m of the encrypted room r: the one or the *)
(* other joins, or the dispatcher is at work for the room.                  *)
Excused(u, r, m) == \/ Coming(Ev("join", r, m))
                    \/ Coming(Ev("join", r, u))
                    \/ pc[Dispatcher] \in Updating /\ Event = Ev("encryption", r, None)

(* Once u is ready it tracks the members of room r, or is excused. *)
TrackedIn(u, r) ==
    pc[u] \in Ready /\ room[r].encrypted /\ u \in room[r].members =>
        \A m \in room[r].members \ Tracks(u) : Excused(u, r, m)

(* So it is for all rooms but those that were given up. *)
TrackedInv == \A u \in User : \A r \in Known \ missed : TrackedIn(u, r)

(* What is to come stays so, but for the event that is passed over. *)
LEMMA ComingKept ==
    ASSUME TypeOK, TypeOK', NEW e, Coming(e),
           \/ Change
           \/ sent' = sent /\ next' <= next
           \/ sent' = sent /\ next' = next + 1 /\ e # Event
    PROVE  Coming(e)'
<1>1. next \in Nat \ {0}
  BY DEF TypeOK
<1>2. next' \in Nat
  BY DEF TypeOK
<1>3. CASE Change
  <2>1. PICK x \in StateEvent : sent' = sent \/ sent' = Append(sent, x)
    BY <1>3, Changed DEF Hearing
  <2>2. next' = next /\ sent \in Seq(StateEvent)
    BY <1>3, Changed DEF deliveryVars, TypeOK
  <2>3. After(Append(sent, x), next, e) /\ After(sent, next, e)
    BY <1>1, <2>2, AfterAppend DEF Coming
  <2> QED
    BY <2>1, <2>2, <2>3 DEF Coming
<1>4. CASE sent' = sent /\ next' <= next
  BY <1>1, <1>2, <1>4, AfterEarlier DEF Coming, TypeOK
<1>5. CASE sent' = sent /\ next' = next + 1 /\ e # Event
  BY <1>1, <1>5, AfterNext DEF Coming, TypeOK, Event
<1> QED
  BY <1>3, <1>4, <1>5

(* What the dispatcher's steps leave to the sync loops, *)
LEMMA DispatcherLeaves ==
    ASSUME TypeOK, AnswerInv, Dispatch \/ Acknowledge \/ Drop \/ Fetch(Dispatcher)
    PROVE  /\ UNCHANGED <<joined, encrypted, sent, todo>>
           /\ \A u \in User : pc'[u] = pc[u] /\ seen'[u] = seen[u]
           /\ \A u \in User : got'[u] = got[u] /\ want'[u] = want[u]
           /\ missed \subseteq missed'
<1> USE DispatcherAssumption DEF TypeOK, AnswerInv, Task, serverVars, deliveryVars, fetchVars, updateVars,
        historyVars, Goto, Finish, Follow, ForgetFetch, ForgetSeen, Dispatches
<1>1. CASE AddKnown \/ AddUnknown \/ RemoveKnown \/ PassOver \/ AlreadyEncrypted \/ CloneMembers
  BY <1>1 DEF AddKnown, AddUnknown, RemoveKnown, PassOver, AlreadyEncrypted, CloneMembers
<1>2. CASE ReplaceRoom \/ FindUsers \/ NoUserLeft \/ FailTrack \/ \E u \in User : ReadFor(u) \/ TrackFor(u)
  BY <1>2 DEF ReplaceRoom, FindUsers, NoUserLeft, FailTrack, ReadFor, TrackFor
<1>3. CASE Acknowledge \/ Drop
  BY <1>3 DEF Acknowledge, Drop
<1>4. CASE FetchEncryption(Dispatcher) \/ FetchMembers(Dispatcher)
  BY <1>4 DEF FetchEncryption, FetchMembers
<1>5. CASE FailFetch(Dispatcher)
  BY <1>5 DEF FailFetch
<1>6. CASE Insert(Dispatcher)
  BY <1>6 DEF Insert
<1> QED
  BY <1>1, <1>2, <1>3, <1>4, <1>5, <1>6 DEF Dispatch, Fetch

(* and what those of a sync loop leave to the dispatcher and to each other. *)
LEMMA LoopLeaves ==
    ASSUME TypeOK, AnswerInv, NEW u \in User, StartLoop(u) \/ Fetch(u)
    PROVE  /\ UNCHANGED <<joined, encrypted, sent, next, copy, users, missed>>
           /\ \A t \in Task \ {u} : /\ pc'[t] = pc[t] /\ seen'[t] = seen[t]
                                    /\ got'[t] = got[t] /\ want'[t] = want[t]
           /\ \A v \in User \ {u} : todo'[v] = todo[v] /\ tracked'[v] = tracked[v]
<1> USE DispatcherAssumption DEF TypeOK, AnswerInv, Task, serverVars, deliveryVars, fetchVars, updateVars,
        historyVars, Goto, ForgetFetch, ForgetSeen
<1>1. CASE MakeUser(u) \/ ListRooms(u) \/ LockRooms(u) \/ NextRoom(u)
  BY <1>1 DEF MakeUser, ListRooms, LockRooms, NextRoom
<1>2. CASE UnlockRooms(u) \/ ReadOwn(u) \/ TrackOwn(u) \/ FailRun(u)
  BY <1>2 DEF UnlockRooms, ReadOwn, TrackOwn, FailRun
<1>3. CASE FetchEncryption(u) \/ FetchMembers(u)
  BY <1>3 DEF FetchEncryption, FetchMembers
<1>4. CASE FailFetch(u)
  BY <1>4 DEF FailFetch
<1>5. CASE Insert(u)
  BY <1>5 DEF Insert
<1> QED
  BY <1>1, <1>2, <1>3, <1>4, <1>5 DEF StartLoop, Fetch

-----------------------------------------------------------------------------
(* What a step leaves of the rooms that are known. *)
Upgrading == \A r \in Known : room'[r] # None /\ (room[r].encrypted => room'[r].encrypted)

(* A known room is kept, and so is its encryption. *)
LEMMA RoomsKept == ASSUME ControlInv, [Next]_vars PROVE Upgrading /\ Known \subseteq Known'
<1>1. TypeOK
  BY DEF ControlInv
<1>2. ASSUME UNCHANGED room PROVE Upgrading
  BY <1>2 DEF Upgrading, Known
<1>3. CASE AddKnown
  <2>1. room' = [room EXCEPT ![Event.room].members = @ \cup {Event.member}] /\ Event.room \in Known
    BY <1>3 DEF AddKnown
  <2>2. room[Event.room].members \cup {Event.member} \in SUBSET Member
    BY <1>1, <1>3, KnownRooms, CurrentEvent DEF AddKnown, Dispatches, RoomKind, StateEvent
  <2>3. /\ Known' = Known /\ \A q \in Room \ {Event.room} : room'[q] = room[q]
        /\ room'[Event.room] = [encrypted |-> room[Event.room].encrypted, members |-> room[Event.room].members \cup {Event.member}]
    BY <1>1, <2>1, <2>2, MembersSet
  <2> QED
    BY <2>1, <2>3 DEF Upgrading, Known
<1>4. CASE RemoveKnown
  <2>1. room' = [room EXCEPT ![Event.room].members = @ \ {Event.member}] /\ Event.room \in Known
    BY <1>4 DEF RemoveKnown
  <2>2. room[Event.room].members \ {Event.member} \in SUBSET Member
    BY <1>1, <2>1, KnownRooms DEF RoomKind
  <2>3. /\ Known' = Known /\ \A q \in Room \ {Event.room} : room'[q] = room[q]
        /\ room'[Event.room] = [encrypted |-> room[Event.room].encrypted, members |-> room[Event.room].members \ {Event.member}]
    BY <1>1, <2>1, <2>2, MembersSet
  <2> QED
    BY <2>1, <2>3 DEF Upgrading, Known
<1>5. CASE ReplaceRoom
  <2>1. room' = [room EXCEPT ![Event.room] = [encrypted |-> TRUE, members |-> copy]]
    BY <1>5 DEF ReplaceRoom
  <2>2. [encrypted |-> TRUE, members |-> copy] # None
    BY <1>1, NewRoom DEF TypeOK
  <2> QED
    BY <1>1, <2>1, <2>2 DEF Upgrading, Known, TypeOK
<1>6. ASSUME NEW t \in Task, Insert(t) PROVE Upgrading
  <2>1. /\ room' = [room EXCEPT ![want[t]] = [encrypted |-> got[t].encrypted = "yes",
                                              members |-> got[t].members]]
        /\ pc[t] = "fetch" /\ got[t].members # None
    BY <1>6 DEF Insert
  <2>2. want[t] \notin Known
    BY <2>1 DEF ControlInv, DispatcherInv, LoopInv, Task
  <2> QED
    BY <1>1, <2>1, <2>2 DEF Upgrading, Known, TypeOK
<1>7. Upgrading
  <2>1. ASSUME NEW u \in User, StartLoop(u) PROVE UNCHANGED room
    BY <2>1 DEF StartLoop, MakeUser, ListRooms, LockRooms, NextRoom, UnlockRooms, ReadOwn, TrackOwn, FailRun
  <2>2. ASSUME NEW t \in Task, FetchEncryption(t) \/ FetchMembers(t) \/ FailFetch(t)
        PROVE  UNCHANGED room
    BY <2>2 DEF FetchEncryption, FetchMembers, FailFetch
  <2>3. CASE Change \/ Acknowledge \/ Drop \/ UNCHANGED vars
    BY <1>2, <2>3 DEF Change, Acknowledge, Drop, vars
  <2>4. CASE AddUnknown \/ PassOver \/ AlreadyEncrypted \/ CloneMembers \/ FindUsers \/ NoUserLeft
             \/ FailTrack \/ \E u \in User : ReadFor(u) \/ TrackFor(u)
    BY <1>2, <2>4 DEF AddUnknown, PassOver, AlreadyEncrypted, CloneMembers, FindUsers, NoUserLeft,
                      FailTrack, ReadFor, TrackFor
  <2> QED
    BY <1>2, <1>3, <1>4, <1>5, <1>6, <2>1, <2>2, <2>3, <2>4 DEF Next, Dispatch, Fetch
<1> QED
  BY <1>7 DEF Upgrading, Known

(* An event that says that somebody has joined is passed over when its room *)
(* is known or the service has given it up.                                 *)
LEMMA Passing ==
    ASSUME ControlInv, Dispatch \/ Acknowledge \/ Drop \/ Fetch(Dispatcher)
    PROVE  \/ next' <= next
           \/ next' = next + 1 /\ (Event.kind = "join" => Event.room \in Known' \cup missed')
<1> USE DEF ControlInv, deliveryVars, Goto, Finish, Follow, Dispatches
<1>1. next \in Nat /\ acked <= next - 1 /\ acked \in Nat
  BY DEF TypeOK
<1>2. next <= next
  BY <1>1
<1>3. Known \subseteq Known' \/ Drop \/ Acknowledge
  BY RoomsKept DEF Next, Task
<1>4. CASE AddKnown
  <2>1. (next' = next \/ next' = next + 1) /\ Event.room \in Known
    BY <1>4 DEF AddKnown
  <2> QED
    BY <1>2, <1>4, <2>1, RoomsKept DEF Next, Dispatch
<1>5. CASE RemoveKnown
  BY <1>2, <1>5 DEF RemoveKnown
<1>6. CASE PassOver \/ AlreadyEncrypted
  BY <1>6 DEF PassOver, AlreadyEncrypted
<1>7. CASE AddUnknown \/ CloneMembers \/ ReplaceRoom \/ FindUsers
           \/ \E u \in User : ReadFor(u) \/ TrackFor(u)
  BY <1>2, <1>7 DEF AddUnknown, CloneMembers, ReplaceRoom, FindUsers, ReadFor, TrackFor
<1>8. CASE NoUserLeft
  BY <1>8, RoomsKept DEF NoUserLeft, Next, Dispatch, DispatcherInv, Updating
<1>9. CASE FailTrack
  BY <1>9 DEF FailTrack
<1>10. CASE FailFetch(Dispatcher)
  BY <1>10 DEF FailFetch
<1>11. CASE Insert(Dispatcher)
  <2>1. next' = next \/ next' = next + 1
    BY <1>11 DEF Insert
  <2>2. Event.room \in Known'
    <3>1. /\ room' = [room EXCEPT ![want[Dispatcher]] =
                         [encrypted |-> got[Dispatcher].encrypted = "yes",
                          members |-> got[Dispatcher].members]]
          /\ pc[Dispatcher] = "fetch" /\ got[Dispatcher].members # None
      BY <1>11 DEF Insert
    <3>2. want[Dispatcher] = Event.room /\ Event.room \in Room
      BY <3>1, Fetched DEF DispatcherInv, Task
    <3>3. got[Dispatcher].members \in SUBSET Member
      BY <3>1 DEF AnswerInv, Answers, Task
    <3> QED
      BY <3>1, <3>2, <3>3, NewRoom DEF Known, TypeOK
  <2> QED
    BY <1>2, <2>1, <2>2
<1>12. CASE FetchEncryption(Dispatcher) \/ FetchMembers(Dispatcher) \/ Acknowledge
  BY <1>2, <1>12 DEF FetchEncryption, FetchMembers, Acknowledge
<1>13. CASE Drop
  BY <1>1, <1>13 DEF Drop
<1> QED
  BY <1>4, <1>5, <1>6, <1>7, <1>8, <1>9, <1>10, <1>11, <1>12, <1>13 DEF Dispatch, Fetch

(* What a user is not told about its rooms, it has on its list. *)
LEMMA ListStep ==
    ASSUME ControlInv, ControlInv', ListInv, [Next]_vars PROVE ListInv'
<1>1. TypeOK /\ TypeOK' /\ Known \subseteq Known' /\ Known \subseteq Room
  BY RoomsKept DEF ControlInv, Known
<1>2. CASE Dispatch \/ Acknowledge \/ Drop \/ Fetch(Dispatcher)
  <2>1. SUFFICES ASSUME NEW u \in User, pc'[u] \in Listed, NEW r \in Room \ (Known' \cup missed'),
                        u \in joined'[r], r \notin todo'[u]
                 PROVE  Coming(Ev("join", r, u))'
    BY DEF ListInv
  <2>2. /\ UNCHANGED <<joined, sent, todo>> /\ pc'[u] = pc[u] /\ missed \subseteq missed'
    BY <1>2, DispatcherLeaves DEF ControlInv
  <2>3. Coming(Ev("join", r, u))
    BY <1>1, <2>1, <2>2 DEF ListInv
  <2>4. \/ next' <= next
        \/ next' = next + 1 /\ Ev("join", r, u) # Event
    BY <1>2, <2>1, Passing DEF Ev
  <2> QED
    BY <1>1, <2>2, <2>3, <2>4, ComingKept
<1>3. CASE Change
  <2>1. PICK x \in StateEvent : Changing(x) /\ Hearing(x)
    BY <1>1, <1>3, Changed
  <2>2. UNCHANGED <<next, room, pc, todo, missed>>
    BY <1>1, <1>3, Changed DEF deliveryVars, fetchVars, historyVars
  <2>3. SUFFICES ASSUME NEW u \in User, pc[u] \in Listed, NEW r \in Room \ (Known \cup missed),
                        u \in joined'[r], r \notin todo[u]
                 PROVE  Coming(Ev("join", r, u))'
    BY <2>2 DEF ListInv, Known
  <2>4. CASE u \in joined[r]
    BY <1>1, <1>3, <2>3, <2>4, ComingKept DEF ListInv
  <2>5. CASE u \notin joined[r]
    <3>1. x = Ev("join", r, u)
      BY <1>1, <2>1, <2>3, <2>5 DEF Changing, StateEvent, TypeOK, Ev
    <3>2. sent \in Seq(StateEvent) /\ next \in Nat \ {0} /\ next <= Len(sent) + 1
      BY <1>1 DEF TypeOK
    <3>3. After(Append(sent, x), next, x)
      BY <3>2, AfterAppend
    <3>4. sent' = Append(sent, x)
      BY <2>1, <3>1 DEF Hearing, Told, Ev
    <3> QED
      BY <2>2, <3>1, <3>3, <3>4 DEF Coming
  <2> QED
    BY <2>4, <2>5
<1>4. ASSUME NEW u \in User, StartLoop(u) \/ Fetch(u) PROVE ListInv'
  <2>1. /\ UNCHANGED <<joined, sent, next, missed>>
        /\ \A v \in User \ {u} : pc'[v] = pc[v] /\ todo'[v] = todo[v]
    BY <1>4, LoopLeaves DEF ControlInv, Task
  <2>2. SUFFICES ASSUME pc'[u] \in Listed, NEW r \in Room \ (Known' \cup missed),
                        u \in joined[r], r \notin todo'[u]
                 PROVE  Coming(Ev("join", r, u))
    BY <1>1, <2>1 DEF ListInv, Coming
  <2>3. CASE ListRooms(u)
    BY <2>2, <2>3 DEF ListRooms, ControlInv, TypeOK
  <2>4. CASE LockRooms(u)
    BY <1>1, <2>2, <2>4 DEF LockRooms, ControlInv, TypeOK, ListInv, Listed
  <2>5. CASE FailFetch(u)
    BY <2>2, <2>5, DispatcherAssumption DEF FailFetch, Goto, ControlInv, TypeOK, Task, Listed, Ready
  <2>6. CASE Insert(u)
    <3>1. /\ pc[u] = "fetch" /\ todo' = [todo EXCEPT ![u] = @ \ {want[u]}]
          /\ room' = [room EXCEPT ![want[u]] = [encrypted |-> got[u].encrypted = "yes",
                                                members |-> got[u].members]]
          /\ got[u].members # None
      BY <2>6, DispatcherAssumption DEF Insert
    <3>2. want[u] \in Known'
      <4>1. got[u].members \in SUBSET Member /\ want[u] \in Room
        BY <3>1, Fetched DEF ControlInv, AnswerInv, Answers, Task
      <4>2. [encrypted |-> got[u].encrypted = "yes", members |-> got[u].members] # None
        BY <4>1, NewRoom
      <4> QED
        BY <1>1, <3>1, <4>1, <4>2 DEF Known, TypeOK
    <3>3. r \notin todo[u] /\ pc[u] \in Listed
      BY <2>2, <3>1, <3>2 DEF ControlInv, TypeOK, Listed
    <3> QED
      BY <1>1, <2>2, <3>3 DEF ListInv
  <2>7. CASE MakeUser(u) \/ NextRoom(u) \/ UnlockRooms(u) \/ ReadOwn(u) \/ TrackOwn(u) \/ FailRun(u)
             \/ FetchEncryption(u) \/ FetchMembers(u)
    <3>1. todo' = todo /\ pc[u] \in Listed
      BY <2>2, <2>7 DEF MakeUser, NextRoom, UnlockRooms, ReadOwn, TrackOwn, FailRun, FetchEncryption,
                        FetchMembers, Goto, fetchVars, ControlInv, TypeOK, Task, Listed, Ready
    <3> QED
      BY <1>1, <2>2, <3>1 DEF ListInv
  <2> QED
    BY <1>4, <2>3, <2>4, <2>5, <2>6, <2>7 DEF StartLoop, Fetch
<1>5. CASE UNCHANGED vars
  BY <1>5 DEF vars, serverVars, deliveryVars, fetchVars, historyVars, ListInv, Coming, Known
<1> QED
  BY <1>2, <1>3, <1>4, <1>5 DEF Next, Task

(* A user among the members of an answer is told about that room. *)
LEMMA FetchedStep ==
    ASSUME ControlInv, ControlInv', ListInv, FetchedInv, [Next]_vars PROVE FetchedInv'
<1> USE DispatcherAssumption DEF Task
<1>1. TypeOK /\ TypeOK' /\ AnswerInv
  BY DEF ControlInv
(* An answer with members, for a room that is listed by nobody. *)
<1>2. ASSUME NEW t \in Task, got' = [got EXCEPT ![t].members = joined[want[t]]], pc[t] = "fetch",
             UNCHANGED <<sent, next, pc, want, missed>>
      PROVE  FetchedInv'
  <2>1. got'[t].members = joined[want[t]] /\ \A q \in Task \ {t} : got'[q] = got[q]
    BY <1>1, <1>2 DEF AnswerInv, Answers
  <2>2. want[t] \in Room \ Known
    <3>1. CASE t = Dispatcher
      BY <1>1, <1>2, <3>1, CurrentEvent DEF ControlInv, DispatcherInv, StateEvent
    <3>2. CASE t \in User
      BY <1>1, <1>2, <3>2 DEF ControlInv, LoopInv, TypeOK
    <3> QED
      BY <3>1, <3>2
  <2>3. ASSUME want[t] \notin missed, NEW u \in User, u \in joined[want[t]], pc[u] \in Ready
        PROVE  Coming(Ev("join", want[t], u))
    BY <2>2, <2>3 DEF ListInv, Listed, Ready, ControlInv, LoopInv
  <2> QED
    BY <1>2, <2>1, <2>3 DEF FetchedInv, Coming
<1>3. CASE Dispatch \/ Acknowledge \/ Drop \/ Fetch(Dispatcher)
  <2>1. /\ UNCHANGED sent /\ missed \subseteq missed'
        /\ \A u \in User : pc'[u] = pc[u] /\ got'[u] = got[u] /\ want'[u] = want[u]
    BY <1>1, <1>3, DispatcherLeaves
  <2>2. ASSUME NEW t \in User, got'[t].members # None, want'[t] \notin missed',
               NEW u \in User \cap got'[t].members, pc'[u] \in Ready
        PROVE  Coming(Ev("join", want[t], u))'
    <3>1. Coming(Ev("join", want[t], u))
      BY <2>1, <2>2 DEF FetchedInv
    <3>2. want'[t] \notin Known'
      <4>1. pc[t] = "fetch"
        BY <2>1, <2>2, Fetched
      <4> QED
        BY <2>1, <4>1 DEF ControlInv, LoopInv
    <3>3. next' <= next \/ (next' = next + 1 /\ Ev("join", want[t], u) # Event)
      BY <1>3, <2>1, <2>2, <3>2, Passing DEF Ev
    <3>4. PICK w \in Room : w = want[t]
      <4>1. pc[t] = "fetch" /\ got[t].members # None
        BY <2>1, <2>2, Fetched
      <4> QED
        BY <4>1, Fetched
    <3>5. Coming(Ev("join", w, u))'
      BY <1>1, <2>1, <3>1, <3>3, <3>4, ComingKept
    <3> QED
      BY <2>1, <3>4, <3>5
  <2>3. ASSUME got'[Dispatcher].members # None PROVE FetchedInv'
    <3>1. pc'[Dispatcher] = "fetch"
      BY <2>3 DEF ControlInv, AnswerInv, Nothing
    <3>2. CASE FetchMembers(Dispatcher)
      BY <1>2, <3>2 DEF FetchMembers, serverVars, deliveryVars, historyVars
    <3>3. CASE FetchEncryption(Dispatcher)
      <4>1. got'[Dispatcher].members = got[Dispatcher].members
        BY <1>1, <3>3 DEF FetchEncryption, AnswerInv, Answers
      <4>2. UNCHANGED <<sent, next, pc, want, missed>>
        BY <3>3 DEF FetchEncryption, serverVars, deliveryVars, historyVars
      <4> QED
        BY <2>1, <4>1, <4>2 DEF FetchedInv, Coming
    <3>4. CASE AddUnknown
      BY <1>1, <2>3, <3>4 DEF AddUnknown, AnswerInv, Nothing, Dispatches
    <3>5. CASE FailFetch(Dispatcher) \/ Insert(Dispatcher) \/ Drop
      BY <1>1, <3>1, <3>5 DEF FailFetch, Insert, Drop, Finish, Follow, Goto, TypeOK
    <3>6. CASE Acknowledge \/ AddKnown \/ RemoveKnown \/ PassOver \/ AlreadyEncrypted \/ CloneMembers
      BY <1>1, <3>1, <3>6 DEF Acknowledge, AddKnown, RemoveKnown, PassOver, AlreadyEncrypted,
                              CloneMembers, Dispatches, Finish, Follow, Goto, TypeOK
    <3>7. CASE ReplaceRoom \/ FindUsers \/ NoUserLeft \/ FailTrack \/ \E u \in User : ReadFor(u) \/ TrackFor(u)
      BY <1>1, <3>1, <3>7 DEF ReplaceRoom, FindUsers, NoUserLeft, FailTrack, ReadFor, TrackFor,
                              Finish, Goto, TypeOK
    <3> QED
      BY <1>3, <3>2, <3>3, <3>4, <3>5, <3>6, <3>7 DEF Dispatch, Fetch
  <2>4. CASE got'[Dispatcher].members = None
    BY <2>2, <2>4 DEF FetchedInv
  <2> QED
    BY <2>3, <2>4
<1>4. CASE Change
  <2>1. UNCHANGED <<got, want, missed, pc>>
    BY <1>1, <1>4, Changed DEF fetchVars, historyVars
  <2> QED
    BY <1>1, <1>4, <2>1, ComingKept DEF FetchedInv
<1>5. ASSUME NEW u \in User, StartLoop(u) \/ Fetch(u) PROVE FetchedInv'
  <2>1. /\ UNCHANGED <<sent, next, missed>>
        /\ \A t \in Task \ {u} : pc'[t] = pc[t] /\ got'[t] = got[t] /\ want'[t] = want[t]
    BY <1>1, <1>5, LoopLeaves
  <2>2. CASE FetchMembers(u)
    BY <1>2, <2>2 DEF FetchMembers, serverVars, deliveryVars, historyVars
  <2>3. CASE ReadOwn(u)
    BY <1>1, <2>3, NoAnswers DEF ReadOwn, fetchVars, FetchedInv, Nothing
  <2>4. ASSUME ~FetchMembers(u), ~ReadOwn(u)
        PROVE  /\ pc'[u] \in Ready => pc[u] \in Ready
               /\ got'[u].members = None \/ (got'[u].members = got[u].members /\ want'[u] = want[u])
    <3>1. CASE NextRoom(u)
      BY <1>1, <3>1 DEF NextRoom, Goto, AnswerInv, Nothing, TypeOK, Ready
    <3>2. CASE FetchEncryption(u)
      BY <1>1, <3>2 DEF FetchEncryption, AnswerInv, Answers
    <3>3. CASE FailFetch(u) \/ Insert(u)
      BY <1>1, <3>3 DEF FailFetch, Insert, Goto, ForgetFetch, AnswerInv, Nothing, TypeOK, Ready
    <3>4. CASE MakeUser(u) \/ ListRooms(u) \/ LockRooms(u) \/ UnlockRooms(u) \/ TrackOwn(u) \/ FailRun(u)
      BY <1>1, <3>4 DEF MakeUser, ListRooms, LockRooms, UnlockRooms, TrackOwn, FailRun, Goto,
                        fetchVars, TypeOK, Ready
    <3> QED
      BY <1>5, <2>4, <3>1, <3>2, <3>3, <3>4 DEF StartLoop, Fetch
  <2>5. ASSUME ~FetchMembers(u), ~ReadOwn(u) PROVE FetchedInv'
    BY <2>1, <2>4, <2>5 DEF FetchedInv, Coming
  <2> QED
    BY <2>2, <2>3, <2>5
<1>6. CASE UNCHANGED vars
  BY <1>6 DEF vars, serverVars, deliveryVars, fetchVars, historyVars, FetchedInv, Coming
<1> QED
  BY <1>3, <1>4, <1>5, <1>6 DEF Next

(* get_encrypted_members misses nobody. *)
LEMMA EverybodyRead ==
    ASSUME NEW u, NEW r \in Known, room[r].encrypted, u \in room[r].members
    PROVE  room[r].members \subseteq EncryptedMembers(u)
  BY DEF EncryptedMembers

(* The users of a room are updated one after the other. *)
LEMMA UpdateStep ==
    ASSUME ControlInv, ControlInv', UpdateInv, [Next]_vars PROVE UpdateInv'
<1> USE DispatcherAssumption DEF Task
<1>1. TypeOK /\ TypeOK' /\ AnswerInv
  BY DEF ControlInv
<1>2. CASE Dispatch \/ Acknowledge \/ Drop \/ Fetch(Dispatcher)
  <2>1. /\ UNCHANGED sent
        /\ \A u \in User : pc'[u] = pc[u] /\ seen'[u] = seen[u]
    BY <1>1, <1>2, DispatcherLeaves
  <2>2. CASE FindUsers
    <3>1. /\ users' = Stored \cap room[Event.room].members /\ pc' = [pc EXCEPT ![Dispatcher] = "read"]
          /\ UNCHANGED <<next, room>>
      BY <2>2 DEF FindUsers, Goto, deliveryVars
    <3>2. pc'[Dispatcher] = "read" /\ Event' = Event
      BY <1>1, <2>1, <3>1 DEF TypeOK, Event
    <3> QED
      BY <2>1, <3>1, <3>2 DEF UpdateInv, Stored, Ready
  <2>3. ASSUME NEW u \in User, ReadFor(u) PROVE UpdateInv'
    <3>1. /\ pc[Dispatcher] = "read" /\ pc' = [pc EXCEPT ![Dispatcher] = "track"]
          /\ seen' = [seen EXCEPT ![Dispatcher] = EncryptedMembers(u)]
          /\ want' = [want EXCEPT ![Dispatcher] = u]
          /\ UNCHANGED <<next, room, users, tracked>>
      BY <2>3 DEF ReadFor, Goto, deliveryVars
    <3>2. want'[Dispatcher] = u /\ seen'[Dispatcher] = EncryptedMembers(u) /\ Event' = Event
      BY <1>1, <2>1, <3>1 DEF TypeOK, AnswerInv, Event
    <3>3. Event.room \in Known /\ room[Event.room].encrypted
      BY <3>1 DEF ControlInv, DispatcherInv, Updating
    <3>4. u \in room[Event.room].members => room[Event.room].members \subseteq seen'[Dispatcher]
      BY <3>2, <3>3, EverybodyRead
    <3> QED
      BY <2>1, <3>1, <3>2, <3>4 DEF UpdateInv, Tracks
  <2>4. ASSUME NEW u \in User, TrackFor(u) PROVE UpdateInv'
    <3>1. /\ pc[Dispatcher] = "track" /\ want[Dispatcher] = u
          /\ pc' = [pc EXCEPT ![Dispatcher] = "read"] /\ users' = users \ {u}
          /\ HasDevice(u) => tracked' = [tracked EXCEPT ![u] = @ \cup seen[Dispatcher]]
          /\ \A v \in User : tracked[v] \subseteq tracked'[v]
          /\ UNCHANGED <<next, room>>
      BY <1>1, <2>4 DEF TrackFor, Goto, deliveryVars, TypeOK
    <3>2. pc'[Dispatcher] = "read" /\ Event' = Event
      BY <1>1, <2>1, <3>1 DEF TypeOK, Event
    <3>3. pc[u] \in Ready /\ u \in room[Event.room].members => room[Event.room].members \subseteq tracked'[u]
      BY <1>1, <3>1 DEF UpdateInv, HasDevice, Ready, TypeOK
    <3> QED
      BY <2>1, <3>1, <3>2, <3>3 DEF UpdateInv, Tracks
  <2>5. ASSUME pc'[Dispatcher] \notin {"read", "track"} PROVE UpdateInv'
    BY <2>5 DEF UpdateInv
  <2>6. CASE FailFetch(Dispatcher) \/ Insert(Dispatcher) \/ Drop \/ FetchEncryption(Dispatcher)
             \/ FetchMembers(Dispatcher)
    BY <1>1, <2>5, <2>6 DEF FailFetch, Insert, Drop, FetchEncryption, FetchMembers, Finish, Follow,
       Goto, TypeOK
  <2>7. CASE Acknowledge \/ AddKnown \/ AddUnknown \/ RemoveKnown \/ PassOver \/ AlreadyEncrypted \/ CloneMembers
    BY <1>1, <2>5, <2>7 DEF Acknowledge, AddKnown, AddUnknown, RemoveKnown, PassOver, AlreadyEncrypted,
                            CloneMembers, Dispatches, Finish, Follow, Goto, TypeOK
  <2>8. CASE ReplaceRoom \/ NoUserLeft \/ FailTrack
    BY <1>1, <2>5, <2>8 DEF ReplaceRoom, NoUserLeft, FailTrack, Finish, Goto, TypeOK
  <2> QED
    BY <1>2, <2>2, <2>3, <2>4, <2>6, <2>7, <2>8 DEF Dispatch, Fetch
<1>3. CASE Change
  <2>1. UNCHANGED <<next, room, pc, want, users, seen, tracked>>
    BY <1>1, <1>3, Changed DEF deliveryVars, fetchVars, updateVars
  <2>2. pc[Dispatcher] \in {"read", "track"} => Event' = Event
    <3>1. pc[Dispatcher] # "idle" => next \in 1 .. Len(sent)
      BY <1>1 DEF ControlInv, DispatcherInv, TypeOK
    <3> QED
      BY <1>1, <1>3, <2>1, <3>1, Changed DEF Event
  <2> QED
    BY <2>1, <2>2 DEF UpdateInv, Tracks
<1>4. ASSUME NEW u \in User, StartLoop(u) \/ Fetch(u) PROVE UpdateInv'
  <2>1. /\ UNCHANGED <<sent, next, users>>
        /\ \A t \in Task \ {u} : pc'[t] = pc[t] /\ seen'[t] = seen[t] /\ want'[t] = want[t]
        /\ \A v \in User \ {u} : tracked'[v] = tracked[v]
    BY <1>1, <1>4, LoopLeaves
  <2>2. Event' = Event
    BY <2>1 DEF Event
  <2>3. pc[Dispatcher] \in {"read", "track"} => room'[Event.room] = room[Event.room]
    <3>1. CASE Insert(u)
      <4>1. pc[u] = "fetch" /\ got[u].members # None /\ want[u] \notin Known
        BY <3>1 DEF Insert, ControlInv, LoopInv
      <4>2. pc[Dispatcher] \in {"read", "track"} => Event.room \in Known
        BY DEF ControlInv, DispatcherInv, Updating
      <4>3. room' = [room EXCEPT ![want[u]] = [encrypted |-> got[u].encrypted = "yes",
                                               members |-> got[u].members]]
        BY <3>1 DEF Insert
      <4> QED
        BY <1>1, <4>1, <4>2, <4>3 DEF TypeOK, Known
    <3>2. CASE ~Insert(u)
      <4>1. room' = room
        BY <1>4, <3>2 DEF StartLoop, Fetch, MakeUser, ListRooms, LockRooms, NextRoom, UnlockRooms, ReadOwn,
                          TrackOwn, FailRun, FetchEncryption, FetchMembers, FailFetch
      <4> QED
        BY <4>1
    <3> QED
      BY <3>1, <3>2
  <2>4. pc'[Dispatcher] = pc[Dispatcher] /\ seen'[Dispatcher] = seen[Dispatcher]
        /\ want'[Dispatcher] = want[Dispatcher]
    BY <2>1
  <2>5. ASSUME pc[Dispatcher] \in {"read", "track"}, u \in room[Event.room].members, pc'[u] \in Ready
        PROVE  u \in users \/ room[Event.room].members \subseteq Tracks(u)'
    <3>1. CASE ReadOwn(u)
      <4>1. Event.room \in Known /\ room[Event.room].encrypted
        BY <2>5 DEF ControlInv, DispatcherInv, Updating
      <4>2. seen'[u] = EncryptedMembers(u)
        BY <1>1, <3>1 DEF ReadOwn, TypeOK
      <4> QED
        BY <2>5, <4>1, <4>2, EverybodyRead DEF Tracks
    <3>2. CASE TrackOwn(u)
      BY <1>1, <2>5, <3>2 DEF TrackOwn, ForgetSeen, UpdateInv, Tracks, Ready, TypeOK
    <3>3. CASE ~ReadOwn(u) /\ ~TrackOwn(u)
      <4>1. pc'[u] \notin Ready
        BY <1>1, <1>4, <3>3 DEF StartLoop, Fetch, MakeUser, ListRooms, LockRooms, NextRoom, UnlockRooms,
                          FailRun, FetchEncryption, FetchMembers, FailFetch, Insert, Goto, TypeOK, Ready
      <4> QED
        BY <2>5, <4>1
    <3> QED
      BY <3>1, <3>2, <3>3
  <2>6. \A v \in User \ {u} : Tracks(v)' = Tracks(v) /\ pc'[v] = pc[v]
    BY <2>1 DEF Tracks
  <2> QED
    BY <2>1, <2>2, <2>3, <2>4, <2>5, <2>6 DEF UpdateInv
<1>5. CASE UNCHANGED vars
  BY <1>5 DEF vars, serverVars, deliveryVars, fetchVars, updateVars, UpdateInv, Tracks, Event
<1> QED
  BY <1>2, <1>3, <1>4, <1>5 DEF Next

-----------------------------------------------------------------------------
(* What user u tracks of room r stays enough at a step that gives the room  *)
(* no new member and neither passes over what excuses u nor ends it.        *)
LEMMA Carried ==
    ASSUME TypeOK, TypeOK', TrackedInv, NEW u \in User, NEW r \in Known \ missed,
           pc'[u] \in Ready => pc[u] \in Ready /\ Tracks(u) \subseteq Tracks(u)',
           room'[r].encrypted => room[r].encrypted,
           room'[r].members \subseteq room[r].members,
           \/ Change
           \/ sent' = sent /\ next' <= next
           \/ sent' = sent /\ next' = next + 1 /\ (Event.kind = "join" => Event.room # r),
           pc[Dispatcher] \in Updating /\ Event = Ev("encryption", r, None) =>
               pc'[Dispatcher] \in Updating /\ Event' = Event
    PROVE  TrackedIn(u, r)'
<1>1. SUFFICES ASSUME pc'[u] \in Ready, room'[r].encrypted, u \in room'[r].members,
                      NEW m \in room'[r].members \ Tracks(u)'
               PROVE  Excused(u, r, m)'
  BY DEF TrackedIn
<1>2. Excused(u, r, m)
  BY <1>1 DEF TrackedInv, TrackedIn
<1>3. ASSUME NEW v, Coming(Ev("join", r, v)) PROVE Coming(Ev("join", r, v))'
  <2>1. \/ Change
        \/ sent' = sent /\ next' <= next
        \/ sent' = sent /\ next' = next + 1 /\ Ev("join", r, v) # Event
    BY DEF Ev
  <2> QED
    BY <1>3, <2>1, ComingKept
<1> QED
  BY <1>2, <1>3 DEF Excused

(* The dispatcher passes over an event when everybody tracks the members of *)
(* its room, or the room is given up.                                       *)
LEMMA PassedOver ==
    ASSUME TypeOK, TypeOK', TrackedInv, UNCHANGED <<sent, room>>, next' = next + 1, missed \subseteq missed',
           \A u \in User : pc'[u] = pc[u] /\ Tracks(u)' = Tracks(u),
           \A u \in User : /\ pc[u] \in Ready /\ Event.room \in Known \ missed'
                           /\ pc[Dispatcher] \in Updating \/ Event.kind = "join"
                           /\ u \in room[Event.room].members
                           => room[Event.room].members \subseteq Tracks(u)
    PROVE  TrackedInv'
<1>1. SUFFICES ASSUME NEW u \in User, NEW r \in Known \ missed' PROVE TrackedIn(u, r)'
  BY DEF TrackedInv, Known
<1>2. CASE Event.room = r /\ (pc[Dispatcher] \in Updating \/ Event.kind = "join")
  BY <1>1, <1>2 DEF TrackedIn
<1>3. CASE ~(Event.room = r /\ (pc[Dispatcher] \in Updating \/ Event.kind = "join"))
  <2>1. ~(pc[Dispatcher] \in Updating /\ Event = Ev("encryption", r, None))
    BY <1>3 DEF Ev
  <2>2. r \in Known \ missed
    BY <1>1
  <2> QED
    BY <1>3, <2>1, <2>2, Carried
<1> QED
  BY <1>2, <1>3

(* A room whose members are put into it: a user among them is told so. *)
LEMMA TrackedInserted ==
    ASSUME ControlInv, ControlInv', FetchedInv, TrackedInv, NEW t \in Task, Insert(t)
    PROVE  TrackedInv'
<1> USE DispatcherAssumption DEF Task
<1>1. TypeOK /\ TypeOK' /\ AnswerInv
  BY DEF ControlInv
<1>2. /\ pc[t] = "fetch" /\ got[t].members # None
      /\ room' = [room EXCEPT ![want[t]] = [encrypted |-> got[t].encrypted = "yes",
                                            members |-> got[t].members]]
      /\ UNCHANGED <<sent, tracked, missed, seen>>
  BY DEF Insert, serverVars, updateVars
<1>3. want[t] \in Room \ Known
  BY <1>2, Fetched DEF ControlInv, DispatcherInv, LoopInv
<1>4. /\ \A r \in Room \ {want[t]} : room'[r] = room[r]
      /\ room'[want[t]].members = got[t].members
      /\ room'[want[t]].encrypted => got[t].encrypted = "yes"
  BY <1>1, <1>2, <1>3 DEF TypeOK
<1>5. /\ \A u \in User : (pc'[u] \in Ready => pc[u] \in Ready) /\ Tracks(u)' = Tracks(u)
      /\ pc[Dispatcher] \in Updating => pc'[Dispatcher] \in Updating /\ next' = next
      /\ got[t].encrypted = "yes" => next' = next
      /\ next' = next \/ (next' = next + 1 /\ Event.room = want[t])
  <2>1. CASE t = Dispatcher
    <3>1. \/ pc' = [pc EXCEPT ![Dispatcher] = "users"] /\ next' = next
          \/ pc' = [pc EXCEPT ![Dispatcher] = "idle"] /\ next' = next + 1 /\ got[t].encrypted # "yes"
      BY <2>1 DEF Insert, Follow, Finish, Goto
    <3>2. Event.room = want[t]
      BY <1>2, <2>1 DEF ControlInv, DispatcherInv
    <3> QED
      BY <1>1, <1>2, <2>1, <3>1, <3>2 DEF TypeOK, Tracks, Updating
  <2>2. CASE t \in User
    <3>1. pc' = [pc EXCEPT ![t] = "next"] /\ next' = next
      BY <2>2 DEF Insert, Goto
    <3> QED
      BY <1>1, <1>2, <2>2, <3>1 DEF TypeOK, Tracks, Ready
  <2> QED
    BY <2>1, <2>2
<1>6. SUFFICES ASSUME NEW u \in User, NEW r \in Known' \ missed PROVE TrackedIn(u, r)'
  BY <1>2 DEF TrackedInv
<1>7. next \in Nat /\ next' \in Nat
  BY <1>1 DEF TypeOK
<1>8. CASE r = want[t]
  <2>1. SUFFICES ASSUME pc'[u] \in Ready, got[t].encrypted = "yes", u \in got[t].members
                 PROVE  Coming(Ev("join", r, u))'
    BY <1>4, <1>8 DEF TrackedIn, Excused
  <2>2. Coming(Ev("join", r, u))
    BY <1>2, <1>5, <1>6, <1>8, <2>1 DEF FetchedInv
  <2> QED
    BY <1>2, <1>5, <2>1, <2>2 DEF Coming
<1>9. CASE r # want[t]
  <2>1. r \in Known \ missed /\ room'[r] = room[r]
    BY <1>4, <1>6, <1>9 DEF Known
  <2>2. pc[Dispatcher] \in Updating => pc'[Dispatcher] \in Updating /\ Event' = Event
    BY <1>2, <1>5 DEF Event
  <2>3. next' <= next \/ (next' = next + 1 /\ Event.room # r)
    BY <1>5, <1>7, <1>9
  <2> QED
    BY <1>1, <1>2, <1>5, <2>1, <2>2, <2>3, Carried
<1> QED
  BY <1>8, <1>9

(* A user tracks the members of its encrypted rooms, or is excused. *)
LEMMA TrackedStep ==
    ASSUME ControlInv, ControlInv', FetchedInv, UpdateInv, TrackedInv, [Next]_vars PROVE TrackedInv'
<1> USE DispatcherAssumption DEF Task
<1>1. TypeOK /\ TypeOK' /\ AnswerInv
  BY DEF ControlInv
<1>2. next \in Nat /\ next' \in Nat /\ acked \in Nat /\ acked <= next - 1
  BY <1>1 DEF TypeOK
<1>3. CASE Change
  <2>1. UNCHANGED <<next, room, pc, seen, tracked, missed>>
    BY <1>1, <1>3, Changed DEF deliveryVars, updateVars, historyVars
  <2>2. pc[Dispatcher] \in Updating => Event' = Event
    <3>1. pc[Dispatcher] # "idle" => next \in 1 .. Len(sent)
      BY <1>1 DEF ControlInv, DispatcherInv, TypeOK
    <3> QED
      BY <1>1, <1>3, <2>1, <3>1, Changed DEF Event, Updating
  <2> QED
    BY <1>1, <1>3, <2>1, <2>2, Carried DEF TrackedInv, Known, Tracks
<1>4. ASSUME Dispatch \/ Acknowledge \/ Drop \/ Fetch(Dispatcher)
      PROVE  /\ UNCHANGED sent /\ missed \subseteq missed'
             /\ \A u \in User : pc'[u] = pc[u] /\ seen'[u] = seen[u]
  BY <1>1, <1>4, DispatcherLeaves
(* The rooms stay, and so does the event. *)
<1>5. CASE AddUnknown \/ CloneMembers \/ FindUsers \/ (\E u \in User : ReadFor(u) \/ TrackFor(u))
           \/ Acknowledge \/ FetchEncryption(Dispatcher) \/ FetchMembers(Dispatcher)
  <2>1. /\ UNCHANGED <<sent, next, room, missed>>
        /\ pc[Dispatcher] \in Updating => pc'[Dispatcher] \in Updating
        /\ \A u \in User : tracked[u] \subseteq tracked'[u]
    <3>1. CASE AddUnknown \/ CloneMembers \/ Acknowledge \/ FetchEncryption(Dispatcher) \/ FetchMembers(Dispatcher)
      BY <3>1 DEF AddUnknown, CloneMembers, Acknowledge, FetchEncryption, FetchMembers, Dispatches,
                  serverVars, deliveryVars, historyVars, Updating
    <3>2. CASE FindUsers
      BY <1>1, <3>2 DEF FindUsers, Goto, TypeOK, serverVars, deliveryVars, historyVars, Updating
    <3>3. ASSUME NEW u \in User, ReadFor(u) \/ TrackFor(u)
          PROVE  /\ UNCHANGED <<sent, next, room, missed>>
                 /\ pc'[Dispatcher] \in Updating
                 /\ \A v \in User : tracked[v] \subseteq tracked'[v]
      <4>1. CASE ReadFor(u)
        BY <1>1, <4>1 DEF ReadFor, Goto, TypeOK, serverVars, deliveryVars, historyVars, Updating, Task
      <4>2. CASE TrackFor(u)
        <5>1. \A v \in User : tracked[v] \subseteq tracked'[v]
          BY <1>1, <4>2 DEF TrackFor, TypeOK
        <5> QED
          BY <1>1, <4>2, <5>1 DEF TrackFor, Goto, TypeOK, serverVars, deliveryVars, historyVars, Updating, Task
      <4> QED
        BY <3>3, <4>1, <4>2
    <3> QED
      BY <1>5, <3>1, <3>2, <3>3
  <2>2. Event' = Event
    BY <2>1 DEF Event
  <2>3. \A u \in User : pc'[u] = pc[u] /\ Tracks(u) \subseteq Tracks(u)'
    BY <1>4, <1>5, <2>1 DEF Dispatch, Fetch, Tracks
  <2>4. \A u \in User : \A r \in Known \ missed : TrackedIn(u, r)'
    BY <1>1, <1>2, <2>1, <2>2, <2>3, Carried
  <2> QED
    BY <2>1, <2>4 DEF TrackedInv, Known
(* The rooms stay, the event is passed over. *)
<1>6. CASE PassOver \/ AlreadyEncrypted
  <2>1. /\ UNCHANGED <<sent, room, tracked>> /\ next' = next + 1 /\ missed' = missed
        /\ pc[Dispatcher] = "idle" /\ Event.kind # "join"
    BY <1>6 DEF PassOver, AlreadyEncrypted, Finish, Dispatches, serverVars, historyVars
  <2>2. \A u \in User : pc'[u] = pc[u] /\ Tracks(u)' = Tracks(u)
    BY <1>4, <1>6, <2>1 DEF Dispatch, Tracks
  <2> QED
    BY <1>1, <2>1, <2>2, PassedOver DEF Updating
<1>7. CASE NoUserLeft
  <2>1. /\ UNCHANGED <<sent, room, tracked>> /\ next' = next + 1 /\ missed' = missed
        /\ pc[Dispatcher] = "read" /\ users = {}
    BY <1>7 DEF NoUserLeft, Finish, serverVars, historyVars
  <2>2. \A u \in User : pc'[u] = pc[u] /\ Tracks(u)' = Tracks(u)
    BY <1>4, <1>7, <2>1 DEF Dispatch, Tracks
  <2>3. \A u \in User \cap room[Event.room].members :
            pc[u] \in Ready => room[Event.room].members \subseteq Tracks(u)
    BY <2>1 DEF UpdateInv
  <2> QED
    BY <1>1, <2>1, <2>2, <2>3, PassedOver
<1>8. CASE FailTrack \/ FailFetch(Dispatcher)
  <2>1. UNCHANGED <<sent, room, tracked>> /\ next' = next + 1 /\ missed' = missed \cup {Event.room}
    BY <1>8 DEF FailTrack, FailFetch, Finish, serverVars
  <2>2. \A u \in User : pc'[u] = pc[u] /\ Tracks(u)' = Tracks(u)
    BY <1>4, <1>8, <2>1 DEF Dispatch, Fetch, Tracks
  <2>3. missed \subseteq missed' /\ Event.room \notin Known \ missed'
    BY <2>1
  <2> QED
    BY <1>1, <2>1, <2>2, <2>3, PassedOver
(* A member joins a room or leaves it. *)
<1>9. CASE AddKnown
  <2>1. /\ room' = [room EXCEPT ![Event.room].members = @ \cup {Event.member}] /\ Event.room \in Known
        /\ UNCHANGED <<sent, tracked, missed>> /\ pc[Dispatcher] = "idle" /\ Event.kind = "join"
        /\ next <= Len(sent)
    BY <1>9 DEF AddKnown, Dispatches, serverVars, historyVars
  <2>2. \A u \in User : pc'[u] = pc[u] /\ Tracks(u)' = Tracks(u)
    BY <1>4, <1>9, <2>1 DEF Dispatch, Tracks
  <2>3. Event \in StateEvent /\ room[Event.room] \in RoomKind
    BY <1>1, <2>1, KnownRooms, CurrentEvent
  <2>4. Event = Ev("join", Event.room, Event.member) /\ Event.member \in Member
    BY <2>1, <2>3 DEF StateEvent, Ev
  <2>5. /\ Known' = Known /\ \A q \in Room \ {Event.room} : room'[q] = room[q]
        /\ room'[Event.room] = [encrypted |-> room[Event.room].encrypted,
                               members |-> room[Event.room].members \cup {Event.member}]
    <3>1. room[Event.room].members \cup {Event.member} \in SUBSET Member
      BY <2>3, <2>4 DEF RoomKind
    <3> QED
      BY <1>1, <2>1, <3>1, MembersSet
  <2>6. IF room[Event.room].encrypted THEN next' = next ELSE next' = next + 1
    BY <1>9 DEF AddKnown, Follow, Finish
  <2>7. ASSUME NEW u \in User, NEW r \in Known \ missed, r # Event.room PROVE TrackedIn(u, r)'
    <3>1. room'[r] = room[r]
      BY <2>5, <2>7 DEF Known
    <3>2. next' <= next \/ (next' = next + 1 /\ Event.room # r)
      BY <1>2, <2>6, <2>7
    <3>3. pc[Dispatcher] \notin Updating
      BY <2>1 DEF Updating
    <3> QED
      BY <1>1, <2>1, <2>2, <2>7, <3>1, <3>2, <3>3, Carried
  <2>8. ASSUME NEW u \in User, NEW r \in Known \ missed, r = Event.room PROVE TrackedIn(u, r)'
    <3>1. SUFFICES ASSUME pc[u] \in Ready, room[r].encrypted, u \in room[r].members \cup {Event.member},
                          NEW m \in (room[r].members \cup {Event.member}) \ Tracks(u)
                   PROVE  Coming(Ev("join", r, m)) \/ Coming(Ev("join", r, u))
      <4>1. ASSUME room[r].encrypted, NEW m, Coming(Ev("join", r, m)) \/ Coming(Ev("join", r, u))
            PROVE  Coming(Ev("join", r, m))' \/ Coming(Ev("join", r, u))'
        BY <2>1, <2>6, <2>8, <4>1 DEF Coming
      <4> QED
        BY <2>2, <2>5, <2>8, <4>1 DEF TrackedIn, Excused
    <3>2. CASE u = Event.member \/ m = Event.member
      BY <1>2, <2>1, <2>4, <2>8, <3>2 DEF Coming, After, Event
    <3>3. CASE u # Event.member /\ m # Event.member
      BY <2>1, <2>8, <3>1, <3>3 DEF TrackedInv, TrackedIn, Excused, Updating
    <3> QED
      BY <3>2, <3>3
  <2>9. ASSUME NEW u \in User, NEW r \in Known \ missed PROVE TrackedIn(u, r)'
    BY <2>7, <2>8, <2>9
  <2> QED
    BY <2>1, <2>5, <2>9 DEF TrackedInv
<1>10. CASE RemoveKnown
  <2>1. /\ room' = [room EXCEPT ![Event.room].members = @ \ {Event.member}] /\ Event.room \in Known
        /\ UNCHANGED <<sent, tracked, missed>> /\ pc[Dispatcher] = "idle" /\ Event.kind = "leave"
        /\ next' = next \/ next' = next + 1
    BY <1>10 DEF RemoveKnown, Dispatches, Follow, Finish, serverVars, historyVars
  <2>2. \A u \in User : pc'[u] = pc[u] /\ Tracks(u)' = Tracks(u)
    BY <1>4, <1>10, <2>1 DEF Dispatch, Tracks
  <2>3. /\ Known' = Known /\ \A q \in Room \ {Event.room} : room'[q] = room[q]
        /\ room'[Event.room] = [encrypted |-> room[Event.room].encrypted,
                               members |-> room[Event.room].members \ {Event.member}]
    <3>1. room[Event.room].members \ {Event.member} \in SUBSET Member
      BY <1>1, <2>1, KnownRooms DEF RoomKind
    <3> QED
      BY <1>1, <2>1, <3>1, MembersSet
  <2>4. ASSUME NEW u \in User, NEW r \in Known \ missed PROVE TrackedIn(u, r)'
    <3>1. room'[r].encrypted = room[r].encrypted /\ room'[r].members \subseteq room[r].members
      BY <2>3, <2>4 DEF Known
    <3>2. next' <= next \/ (next' = next + 1 /\ Event.kind # "join")
      BY <1>2, <2>1
    <3>3. pc[Dispatcher] \notin Updating
      BY <2>1 DEF Updating
    <3> QED
      BY <1>1, <2>1, <2>2, <2>4, <3>1, <3>2, <3>3, Carried
  <2> QED
    BY <2>1, <2>3, <2>4 DEF TrackedInv
(* An encrypted room is put in the place of the other. *)
<1>11. CASE ReplaceRoom
  <2>1. /\ room' = [room EXCEPT ![Event.room] = [encrypted |-> TRUE, members |-> copy]]
        /\ UNCHANGED <<sent, next, tracked, missed>> /\ pc[Dispatcher] = "replace"
        /\ pc' = [pc EXCEPT ![Dispatcher] = "users"]
    BY <1>11 DEF ReplaceRoom, Goto, serverVars, deliveryVars, historyVars
  <2>2. \A u \in User : pc'[u] = pc[u] /\ Tracks(u)' = Tracks(u)
    BY <1>4, <1>11, <2>1 DEF Dispatch, Tracks
  <2>3. Event = Ev("encryption", Event.room, None) /\ Event.room \in Known /\ Event' = Event
    BY <1>1, <2>1, CurrentEvent DEF ControlInv, DispatcherInv, StateEvent, Ev, Event
  <2>4. Known' = Known /\ \A q \in Room \ {Event.room} : room'[q] = room[q]
    <3>1. [encrypted |-> TRUE, members |-> copy] # None
      BY <1>1, NewRoom DEF TypeOK
    <3> QED
      BY <1>1, <2>1, <2>3, <3>1 DEF Known, TypeOK
  <2>5. pc'[Dispatcher] \in Updating /\ pc[Dispatcher] \notin Updating
    BY <1>1, <2>1 DEF Updating, TypeOK
  <2>6. ASSUME NEW u \in User, NEW r \in Known \ missed PROVE TrackedIn(u, r)'
    <3>1. CASE r = Event.room
      BY <2>3, <2>5, <3>1 DEF TrackedIn, Excused
    <3>2. CASE r # Event.room
      <4>1. room'[r] = room[r] /\ next' <= next
        BY <1>2, <2>1, <2>4, <2>6, <3>2 DEF Known
      <4> QED
        BY <1>1, <2>1, <2>2, <2>5, <2>6, <4>1, Carried
    <3> QED
      BY <3>1, <3>2
  <2> QED
    BY <2>1, <2>4, <2>6 DEF TrackedInv
<1>12. CASE Drop
  <2>1. /\ UNCHANGED <<sent, room, tracked>> /\ next' = acked + 1
        /\ pc[Dispatcher] \in Updating /\ Event.kind = "encryption" => Event.room \in missed'
    BY <1>12 DEF Drop, serverVars, Updating
  <2>2. \A u \in User : pc'[u] = pc[u] /\ Tracks(u)' = Tracks(u)
    BY <1>4, <1>12, <2>1 DEF Tracks
  <2>3. next' <= next
    BY <1>2, <2>1
  <2>4. ASSUME NEW u \in User, NEW r \in Known \ missed' PROVE TrackedIn(u, r)'
    <3>1. ~(pc[Dispatcher] \in Updating /\ Event = Ev("encryption", r, None))
      BY <2>1, <2>4 DEF Ev
    <3>2. r \in Known \ missed
      BY <1>4, <1>12, <2>4
    <3> QED
      BY <1>1, <2>1, <2>2, <2>3, <3>1, <3>2, Carried
  <2> QED
    BY <2>1, <2>4 DEF TrackedInv, Known
<1>13. ASSUME NEW u \in User, StartLoop(u) \/ FetchEncryption(u) \/ FetchMembers(u) \/ FailFetch(u)
       PROVE  TrackedInv'
  <2>1. /\ UNCHANGED <<sent, next, missed>>
        /\ \A t \in Task \ {u} : pc'[t] = pc[t] /\ seen'[t] = seen[t]
        /\ \A v \in User \ {u} : tracked'[v] = tracked[v]
    BY <1>1, <1>13, LoopLeaves DEF Fetch
  <2>2. UNCHANGED room
    BY <1>13 DEF StartLoop, MakeUser, ListRooms, LockRooms, NextRoom, UnlockRooms, ReadOwn, TrackOwn,
                 FailRun, FetchEncryption, FetchMembers, FailFetch
  <2>3. Event' = Event /\ pc'[Dispatcher] = pc[Dispatcher] /\ next' <= next
    BY <1>2, <2>1 DEF Event
  <2>4. SUFFICES ASSUME NEW v \in User, NEW r \in Known \ missed PROVE TrackedIn(v, r)'
    BY <2>1, <2>2 DEF TrackedInv, Known
  <2>5. CASE ReadOwn(u) /\ v = u
    <3>1. seen'[u] = EncryptedMembers(u)
      BY <1>1, <2>5 DEF ReadOwn, TypeOK
    <3> QED
      BY <2>2, <2>5, <3>1, EverybodyRead DEF TrackedIn, Tracks
  <2>6. CASE ~(ReadOwn(u) /\ v = u)
    <3>1. pc'[v] \in Ready => pc[v] \in Ready /\ Tracks(v) \subseteq Tracks(v)'
      <4>1. CASE v # u
        BY <2>1, <4>1 DEF Tracks
      <4>2. CASE TrackOwn(u) /\ v = u
        BY <1>1, <4>2 DEF TrackOwn, ForgetSeen, TypeOK, Tracks, Ready
      <4>3. CASE ~TrackOwn(u) /\ v = u
        BY <1>1, <1>13, <2>6, <4>3 DEF StartLoop, MakeUser, ListRooms, LockRooms, NextRoom, UnlockRooms,
             FailRun, FetchEncryption, FetchMembers, FailFetch, Goto, TypeOK, Ready, Tracks, updateVars
      <4> QED
        BY <4>1, <4>2, <4>3
    <3> QED
      BY <1>1, <2>1, <2>2, <2>3, <2>4, <3>1, Carried
  <2> QED
    BY <2>5, <2>6
<1>14. CASE UNCHANGED vars
  BY <1>14 DEF vars, serverVars, deliveryVars, updateVars, historyVars, TrackedInv, TrackedIn, Tracks,
               Excused, Coming, Known, Event
<1>15. ASSUME NEW t \in Task, Insert(t) PROVE TrackedInv'
  BY <1>15, TrackedInserted
<1> QED
  BY <1>3, <1>5, <1>6, <1>7, <1>8, <1>9, <1>10, <1>11, <1>12, <1>13, <1>14, <1>15
     DEF Next, Dispatch, Fetch

-----------------------------------------------------------------------------
(* The inductive invariant: the control of the tasks, what the homeserver   *)
(* has told, what the rooms and the answers owe, and what the users track.  *)
IInv == ControlInv /\ RejoinInv /\ CoverInv /\ ListInv /\ FetchedInv /\ UpdateInv /\ TrackedInv

(* At first no room is known and no user is ready. *)
LEMMA InitInv == Init => IInv
<1> SUFFICES ASSUME Init PROVE IInv
  OBVIOUS
<1> USE DispatcherAssumption, NoneAssumption DEF Task, Nothing
<1>1. Known = {} /\ (\A t \in Task : got[t] = Nothing) /\ sent = <<>> /\ Len(sent) = 0
  BY DEF Init, Known
<1>2. pc[Dispatcher] = "idle" /\ \A u \in User : pc[u] = "new"
  BY DEF Init
<1>3. TypeOK
  <2>1. sent \in Seq(StateEvent) /\ drops \in 0 .. MaxDrops /\ silent \in 0 .. MaxSilent
    BY BoundAssumption DEF Init
  <2>2. acked \in 0 .. next - 1 /\ next \in 1 .. Len(sent) + 1
    BY <1>1 DEF Init
  <2>3. pc \in [Task -> Labels] /\ \A t \in Task : lock = t <=> pc[t] \in {"next", "fetch"}
    BY DEF Init, Labels
  <2> QED
    BY <2>1, <2>2, <2>3 DEF Init, TypeOK
<1>4. DispatcherInv
  BY <1>2 DEF DispatcherInv, Updating
<1>5. LoopInv
  BY <1>2 DEF Init, LoopInv, Labels
<1>6. AnswerInv
  BY DEF Init, AnswerInv, Answers
<1>7. RejoinInv
  <2>1. acked + 1 .. Len(sent) = {}
    BY <1>1 DEF Init
  <2> QED
    BY <2>1 DEF RejoinInv
<1>8. CoverInv
  BY <1>1 DEF CoverInv, Owed
<1>9. ListInv /\ TrackedInv
  BY <1>1, <1>2 DEF ListInv, TrackedInv, Listed, Ready
<1>10. FetchedInv /\ UpdateInv
  BY <1>1, <1>2 DEF FetchedInv, UpdateInv
<1> QED
  BY <1>3, <1>4, <1>5, <1>6, <1>7, <1>8, <1>9, <1>10 DEF IInv, ControlInv

(* The inductive invariant holds throughout. *)
LEMMA Invariance == Spec => []IInv
<1>1. IInv /\ [Next]_vars => IInv'
  <2> SUFFICES ASSUME IInv, [Next]_vars PROVE IInv'
    OBVIOUS
  <2>1. ControlInv'
    BY TypeStep, DispatcherStep, LoopStep, AnswerStep DEF IInv, ControlInv
  <2> QED
    BY <2>1, RejoinStep, CoverStep, ListStep, FetchedStep, UpdateStep, TrackedStep DEF IInv, ControlInv
<1> QED
  BY <1>1, InitInv, PTL DEF Spec

(* Every variable keeps its type, and the task that holds the lock is the   *)
(* one that fetches (RoomStore.rooms).                                      *)
THEOREM TypeCorrect == Spec => []TypeOK
<1>1. IInv => TypeOK
  BY DEF IInv, ControlInv
<1> QED
  BY <1>1, Invariance, PTL

(* Whoever is in a known room is among its members, or the event is still   *)
(* to be handled, or they joined while nobody of the service was in the     *)
(* room (populate_known_rooms, upgrade_room_encryption).                    *)
THEOREM MembersAreCovered == Spec => []MembersCovered
<1>1. IInv => MembersCovered
  <2> SUFFICES ASSUME IInv, NEW r \in Known, NEW m \in joined[r] \ room[r].members,
                      Ev("join", r, m) \notin untold
               PROVE  ToCome("join", r, m)
    BY DEF MembersCovered
  <2>1. next \in Nat /\ joined[r] \subseteq Member /\ r \in Room
    BY DEF IInv, ControlInv, TypeOK, Known
  <2>2. Ev("join", r, m) \in StateEvent /\ Owed(Ev("join", r, m))
    BY <2>1 DEF StateEvent, Ev, Owed
  <2>3. After(sent, Rest, Ev("join", r, m))
    BY <2>2 DEF IInv, CoverInv
  <2> QED
    BY <2>1, <2>3 DEF After, Rest, ToCome, Ev
<1> QED
  BY <1>1, Invariance, PTL

(* An encrypted room that is taken for unencrypted has its event still to   *)
(* be handled, or was encrypted while nobody of the service was in it, or   *)
(* its request got an error status (get_encryption).                        *)
THEOREM EncryptionIsCovered == Spec => []EncryptionCovered
<1>1. IInv => EncryptionCovered
  <2> SUFFICES ASSUME IInv, NEW r \in Known \ misread, encrypted[r], ~room[r].encrypted,
                      Ev("encryption", r, None) \notin untold
               PROVE  ToCome("encryption", r, None)
    BY DEF EncryptionCovered
  <2>1. next \in Nat /\ r \in Room
    BY DEF IInv, ControlInv, TypeOK, Known
  <2>2. Ev("encryption", r, None) \in StateEvent /\ Owed(Ev("encryption", r, None))
    BY <2>1 DEF StateEvent, Ev, Owed
  <2>3. After(sent, Rest, Ev("encryption", r, None))
    BY <2>2 DEF IInv, CoverInv
  <2> QED
    BY <2>1, <2>3 DEF After, Rest, ToCome, Ev
<1> QED
  BY <1>1, Invariance, PTL

(* A user whose loop got ready tracks everybody in its encrypted rooms, or  *)
(* an event that will see to it is still to be handled, or an update was    *)
(* given up (update_tracked_users).                                         *)
THEOREM TrackedAreCovered == Spec => []TrackedCovered
<1>1. IInv => TrackedCovered
  <2> SUFFICES ASSUME IInv, NEW u \in User, pc[u] = "done", NEW r \in Known \ missed,
                      room[r].encrypted, u \in room[r].members,
                      NEW m \in room[r].members \ tracked[u]
               PROVE  ToCome("join", r, m) \/ ToCome("join", r, u) \/ ToCome("encryption", r, None)
    BY DEF TrackedCovered
  <2>1. seen[u] = {}
    BY DEF IInv, ControlInv, LoopInv
  <2>2. Excused(u, r, m)
    BY <2>1 DEF IInv, TrackedInv, TrackedIn, Tracks, Ready
  <2>3. pc[Dispatcher] \in Updating => next \in next .. Len(sent)
    BY DEF IInv, ControlInv, DispatcherInv, TypeOK, Updating
  <2> QED
    BY <2>2, <2>3 DEF Excused, Coming, After, ToCome, Ev, Event
<1> QED
  BY <1>1, Invariance, PTL

(* A known room is kept, and one that is encrypted stays so                 *)
(* (populate_known_rooms, add_room_member).                                 *)
THEOREM RoomsNeverDowngraded == Spec => NeverDowngraded
<1>1. IInv /\ [Next]_vars => [Upgrading]_vars
  BY RoomsKept DEF IInv
<1> QED
  BY <1>1, Invariance, PTL DEF Spec, NeverDowngraded, Upgrading
=============================================================================
