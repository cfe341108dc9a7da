------------------------------ MODULE RoomStore ------------------------------
(***************************************************************************)
(* The rooms the service knows, their members, whether they are encrypted, *)
(* and whose devices each user's OlmMachine tracks.  Two kinds of task     *)
(* write them: the dispatcher, which handles the events of one transaction *)
(* after the other, and the start of every sync loop, which fetches the    *)
(* rooms of its user.  The homeserver changes under both of them.          *)
(*                                                                         *)
(* A write lock of RoomStore.rooms that is held across requests is kept in *)
(* lock; a shorter one, and a read lock, is a step that needs lock free.   *)
(***************************************************************************)
EXTENDS Naturals, Sequences

CONSTANTS Room, Member,
          User,        \* the users the service is registered for, with a device each
          MaxEvents,   \* bound: events the homeserver sends
          MaxSilent,   \* bound: changes it tells nobody of
          MaxDrops,    \* bound: transactions whose connection closes
          Dispatcher, None

Task == User \cup {Dispatcher}

ASSUME UserAssumption == User \subseteq Member
ASSUME BoundAssumption == MaxEvents \in Nat /\ MaxSilent \in Nat /\ MaxDrops \in Nat
ASSUME DispatcherAssumption == Dispatcher \notin User
ASSUME NoneAssumption == /\ None \notin Task /\ \A S \in SUBSET Member : None # S
                         /\ None \notin [encrypted : BOOLEAN, members : SUBSET Member]

VARIABLES joined, encrypted, \* the homeserver: members and encryption of rooms
          sent,      \* the homeserver: the state events it tells, in order
          silent,    \* the homeserver: how many changes it told nobody of
          untold,    \* history: those of them nothing has told since
          next,      \* index in sent of the event being dispatched
          acked,     \* events of acknowledged transactions
          drops,
          room,      \* [Room -> None or RoomKind]: RoomStore.rooms
          lock,      \* the task that holds rooms.write() across requests
          pc,        \* [Task -> how far it is]
          todo,      \* [User -> rooms populate_known_rooms will fetch]
          want,      \* [Task -> the room it fetches, or the user it updates]
          got,       \* [Task -> the answers from_homeserver has]
          copy,      \* the members upgrade_room_encryption cloned
          users,     \* users whose tracking the dispatcher will update
          seen,      \* [Task -> result of get_encrypted_members]
          tracked,   \* [User -> the users its OlmMachine tracks]
          misread,   \* history: rooms whose encryption request got an error
          missed     \* history: rooms for which an update was given up

serverVars   == <<joined, encrypted, sent, silent, untold>>
deliveryVars == <<next, acked, drops>>
fetchVars    == <<todo, want, got>>
updateVars   == <<copy, users, seen>>
historyVars  == <<misread, missed>>
vars == <<serverVars, deliveryVars, room, lock, pc, fetchVars, updateVars, tracked, historyVars>>

Nothing == [encrypted |-> "none", members |-> None]

Init == /\ joined \in [Room -> SUBSET Member]
        /\ encrypted \in [Room -> BOOLEAN]
        /\ sent = <<>> /\ silent = 0 /\ untold = {}
        /\ next = 1 /\ acked = 0 /\ drops = 0
        /\ room = [r \in Room |-> None]
        /\ lock = None
        /\ pc = [t \in Task |-> IF t = Dispatcher THEN "idle" ELSE "new"]
        /\ todo = [u \in User |-> {}]
        /\ want = [t \in Task |-> None]
        /\ got = [t \in Task |-> Nothing]
        /\ copy = {} /\ users = {}
        /\ seen = [t \in Task |-> {}]
        /\ tracked = [u \in User |-> {}]
        /\ misread = {} /\ missed = {}

Ev(kind, r, m) == [kind |-> kind, room |-> r, member |-> m]

Known == {r \in Room : room[r] # None}
Event == sent[next]
Goto(t, label) == pc' = [pc EXCEPT ![t] = label]

(* Local variables are cleared when they go out of scope. *)
ForgetFetch(t) == want' = [want EXCEPT ![t] = None] /\ got' = [got EXCEPT ![t] = Nothing]
ForgetSeen(t) == seen' = [seen EXCEPT ![t] = {}]

-----------------------------------------------------------------------------
(* The homeserver: room state changes.  The registration claims users and   *)
(* no rooms, so the service is told of a change only if one of its users is *)
(* in the room, or comes or goes.                                           *)

Served(r) == joined[r] \cap User # {}
Told(e) == Served(e.room) \/ e.member \in User

Happens(e) == IF Told(e)
              THEN Len(sent) < MaxEvents /\ sent' = Append(sent, e) /\ UNCHANGED silent
              ELSE silent < MaxSilent /\ silent' = silent + 1 /\ UNCHANGED sent

Unheard(e) == untold' = IF Told(e) THEN untold ELSE untold \cup {e}

Change == /\ \/ \E r \in Room : \E m \in Member \ joined[r] :
                  /\ Happens(Ev("join", r, m)) /\ Unheard(Ev("join", r, m))
                  /\ joined' = [joined EXCEPT ![r] = @ \cup {m}]
                  /\ UNCHANGED encrypted
             \/ \E r \in Room : \E m \in joined[r] :
                  /\ Happens(Ev("leave", r, m)) /\ untold' = untold \ {Ev("join", r, m)}
                  /\ joined' = [joined EXCEPT ![r] = @ \ {m}]
                  /\ UNCHANGED encrypted
             \/ \E r \in Room :
                  /\ ~encrypted[r]
                  /\ Happens(Ev("encryption", r, None)) /\ Unheard(Ev("encryption", r, None))
                  /\ encrypted' = [encrypted EXCEPT ![r] = TRUE]
                  /\ UNCHANGED joined
          /\ UNCHANGED <<deliveryVars, room, lock, pc, fetchVars, updateVars, tracked, historyVars>>

-----------------------------------------------------------------------------
(* Dispatching one event. *)

Dispatches(kind) == pc[Dispatcher] = "idle" /\ next <= Len(sent) /\ Event.kind = kind

(* The handler returns, with or without an error: on to the next event. *)
Finish == Goto(Dispatcher, "idle") /\ next' = next + 1

(* What follows a change of r: an encrypted room has its users updated. *)
Follow(isEncrypted) == IF isEncrypted THEN Goto(Dispatcher, "users") /\ UNCHANGED next
                       ELSE Finish

(* A mutant of AddKnown: the users of the room learn nothing. *)
AddKnownQuietly == /\ Dispatches("join") /\ lock = None /\ Event.room \in Known
                   /\ room' = [room EXCEPT ![Event.room].members = @ \cup {Event.member}]
                   /\ Finish
                   /\ UNCHANGED <<serverVars, acked, drops, lock, fetchVars, updateVars, tracked, historyVars>>

(* add_room_member of a known room. *)
AddKnown == /\ Dispatches("join") /\ lock = None /\ Event.room \in Known
            /\ room' = [room EXCEPT ![Event.room].members = @ \cup {Event.member}]
            /\ Follow(room[Event.room].encrypted)
            /\ UNCHANGED <<serverVars, acked, drops, lock, fetchVars, updateVars, tracked, historyVars>>

(* add_room_member of an unknown room: create_room, under the write lock. *)
AddUnknown == /\ Dispatches("join") /\ lock = None /\ Event.room \notin Known
              /\ lock' = Dispatcher
              /\ Goto(Dispatcher, "fetch")
              /\ want' = [want EXCEPT ![Dispatcher] = Event.room]
              /\ UNCHANGED <<serverVars, deliveryVars, room, todo, got, updateVars, tracked, historyVars>>

(* remove_room_member. *)
RemoveKnown == /\ Dispatches("leave") /\ lock = None /\ Event.room \in Known
               /\ room' = [room EXCEPT ![Event.room].members = @ \ {Event.member}]
               /\ Follow(room[Event.room].encrypted)
               /\ UNCHANGED <<serverVars, acked, drops, lock, fetchVars, updateVars, tracked, historyVars>>

(* The room is unknown, or membership_change(None) does not see a member    *)
(* who left: it judges without the previous membership (external).          *)
PassOver == /\ Dispatches("leave")
            /\ Finish
            /\ UNCHANGED <<serverVars, acked, drops, room, lock, fetchVars, updateVars, tracked, historyVars>>

(* upgrade_room_encryption: nothing to do ... *)
AlreadyEncrypted == /\ Dispatches("encryption") /\ lock = None
                    /\ Event.room \in Known => room[Event.room].encrypted
                    /\ Finish
                    /\ UNCHANGED <<serverVars, acked, drops, room, lock, fetchVars, updateVars, tracked, historyVars>>

(* ... or clone the members, give the read lock back ... *)
CloneMembers == /\ Dispatches("encryption") /\ lock = None
                /\ Event.room \in Known /\ ~room[Event.room].encrypted
                /\ copy' = room[Event.room].members
                /\ Goto(Dispatcher, "replace")
                /\ UNCHANGED <<serverVars, deliveryVars, room, lock, fetchVars, users, seen, tracked, historyVars>>

(* A mutant of ReplaceRoom: the new room is announced, not entered. *)
ReplaceNothing == /\ pc[Dispatcher] = "replace" /\ lock = None
                  /\ copy' = {}
                  /\ Goto(Dispatcher, "users")
                  /\ UNCHANGED <<serverVars, deliveryVars, room, lock, fetchVars, users, seen, tracked, historyVars>>

(* ... and put an encrypted room in the place of the other. *)
ReplaceRoom == /\ pc[Dispatcher] = "replace" /\ lock = None
               /\ room' = [room EXCEPT ![Event.room] = [encrypted |-> TRUE, members |-> copy]]
               /\ copy' = {}
               /\ Goto(Dispatcher, "users")
               /\ UNCHANGED <<serverVars, deliveryVars, lock, fetchVars, users, seen, tracked, historyVars>>

-----------------------------------------------------------------------------
(* RoomStore::update_tracked_users, and the error that ends it. *)

Stored == {u \in User : pc[u] # "new"}
HasDevice(u) == pc[u] \notin {"new", "stored"}

(* get_appservice_users: the users of the service among the members. *)
FindUsers == /\ pc[Dispatcher] = "users"
             /\ users' = Stored \cap room[Event.room].members
             /\ Goto(Dispatcher, "read")
             /\ UNCHANGED <<serverVars, deliveryVars, room, lock, fetchVars, copy, seen, tracked, historyVars>>

(* get_encrypted_members: who shares an encrypted room with u. *)
EncryptedMembers(u) ==
    {u} \cup UNION {room[r].members : r \in {q \in Known : room[q].encrypted /\ u \in room[q].members}}

NoUserLeft == /\ pc[Dispatcher] = "read" /\ users = {}
              /\ Finish
              /\ UNCHANGED <<serverVars, acked, drops, room, lock, fetchVars, updateVars, tracked, historyVars>>

ReadFor(u) == /\ pc[Dispatcher] = "read" /\ u \in users /\ lock = None
              /\ seen' = [seen EXCEPT ![Dispatcher] = EncryptedMembers(u)]
              /\ want' = [want EXCEPT ![Dispatcher] = u]
              /\ Goto(Dispatcher, "track")
              /\ UNCHANGED <<serverVars, deliveryVars, room, lock, todo, got, copy, users, tracked, historyVars>>

(* User::update_tracked_users: the OlmMachine, if there is one, adds them. *)
TrackFor(u) == /\ pc[Dispatcher] = "track" /\ want[Dispatcher] = u
               /\ tracked' = IF HasDevice(u) THEN [tracked EXCEPT ![u] = @ \cup seen[Dispatcher]]
                             ELSE tracked
               /\ users' = users \ {u}
               /\ ForgetSeen(Dispatcher) /\ ForgetFetch(Dispatcher)
               /\ Goto(Dispatcher, "read")
               /\ UNCHANGED <<serverVars, deliveryVars, room, lock, todo, copy, historyVars>>

(* The crypto store fails: the error is logged, the event counts as handled. *)
FailTrack == /\ pc[Dispatcher] = "track" /\ HasDevice(want[Dispatcher])
             /\ missed' = missed \cup {Event.room}
             /\ users' = {} /\ ForgetSeen(Dispatcher) /\ ForgetFetch(Dispatcher)
             /\ Finish
             /\ UNCHANGED <<serverVars, acked, drops, room, lock, todo, copy, tracked, misread>>

-----------------------------------------------------------------------------
(* Room::from_homeserver, with the write lock held: two requests at a time. *)

(* Whoever left a room still sees whether it was encrypted by then. *)
Encryption(r) ==
    {IF encrypted[r] THEN "yes" ELSE "no"}
    \cup (IF Ev("encryption", r, None) \in untold /\ ~Served(r) THEN {"no"} ELSE {})

FetchEncryption(t) ==
    /\ pc[t] = "fetch" /\ got[t].encrypted = "none"
    /\ \E answer \in {"error"} \cup Encryption(want[t]) :
          /\ got' = [got EXCEPT ![t].encrypted = answer]
          /\ untold' = IF answer = "yes" THEN untold \ {Ev("encryption", want[t], None)} ELSE untold
    /\ UNCHANGED <<joined, encrypted, sent, silent, deliveryVars, room, lock, pc, todo, want,
                   updateVars, tracked, historyVars>>

(* A leave that may yet take m out of the members: it was told, and its     *)
(* transaction is not acknowledged.                                         *)
LeaveToCome(r, m) == \E i \in acked + 1 .. Len(sent) : sent[i] = Ev("leave", r, m)

(* The members are shown to nobody who is not in the room.  The answer      *)
(* makes up for the joins that nobody told of.                              *)
FetchMembers(t) ==
    /\ pc[t] = "fetch" /\ got[t].members = None
    /\ Served(want[t])
    /\ got' = [got EXCEPT ![t].members = joined[want[t]]]
    /\ untold' = {e \in untold : e.kind = "join" /\ e.room = want[t] => LeaveToCome(e.room, e.member)}
    /\ UNCHANGED <<joined, encrypted, sent, silent, deliveryVars, room, lock, pc, todo, want,
                   updateVars, tracked, historyVars>>

(* A mutant of FailFetch: the lock outlives the error. *)
FailFetchLocked(t) == /\ pc[t] = "fetch"
                      /\ IF t = Dispatcher THEN Finish /\ missed' = missed \cup {Event.room}
                         ELSE Goto(t, "failed") /\ UNCHANGED <<next, missed>>
                      /\ todo' = IF t = Dispatcher THEN todo ELSE [todo EXCEPT ![t] = {}]
                      /\ ForgetFetch(t)
                      /\ UNCHANGED <<serverVars, acked, drops, room, lock, updateVars, tracked, misread>>

(* No answer, or no members in it: the error ends the handler or the run. *)
FailFetch(t) == /\ pc[t] = "fetch"
                /\ lock' = None
                /\ IF t = Dispatcher THEN Finish /\ missed' = missed \cup {Event.room}
                   ELSE Goto(t, "failed") /\ UNCHANGED <<next, missed>>
                /\ todo' = IF t = Dispatcher THEN todo ELSE [todo EXCEPT ![t] = {}]
                /\ ForgetFetch(t)
                /\ UNCHANGED <<serverVars, acked, drops, room, updateVars, tracked, misread>>

(* Both answers are there.  Any error status means: not encrypted. *)
Insert(t) ==
    LET r == want[t]
        isEncrypted == got[t].encrypted = "yes"
    IN  /\ pc[t] = "fetch" /\ got[t].encrypted # "none" /\ got[t].members # None
        /\ room' = [room EXCEPT ![r] = [encrypted |-> isEncrypted, members |-> got[t].members]]
        /\ misread' = IF got[t].encrypted = "error" THEN misread \cup {r} ELSE misread
        /\ IF t = Dispatcher
           THEN lock' = None /\ Follow(isEncrypted) /\ UNCHANGED todo
           ELSE /\ Goto(t, "next")
                /\ todo' = [todo EXCEPT ![t] = @ \ {r}]
                /\ UNCHANGED <<next, lock>>
        /\ ForgetFetch(t)
        /\ UNCHANGED <<serverVars, acked, drops, updateVars, tracked, missed>>

-----------------------------------------------------------------------------
(* The start of a user's sync loop: Device::run up to its token. *)

(* The user enters the store, and then its device (ensure_device). *)
MakeUser(u) == /\ \/ pc[u] = "new" /\ Goto(u, "stored")
                  \/ pc[u] = "stored" /\ Goto(u, "list")
               /\ UNCHANGED <<serverVars, deliveryVars, room, lock, fetchVars, updateVars, tracked, historyVars>>

(* get_joined_rooms. *)
ListRooms(u) == /\ pc[u] = "list"
                /\ todo' = [todo EXCEPT ![u] = {r \in Room : u \in joined[r]}]
                /\ Goto(u, "lock")
                /\ UNCHANGED <<serverVars, deliveryVars, room, lock, want, got, updateVars, tracked, historyVars>>

(* A mutant of LockRooms: the write lock is taken for the insertions only. *)
LockNothing(u) == /\ pc[u] = "lock" /\ lock = None
                  /\ todo' = [todo EXCEPT ![u] = @ \ Known]
                  /\ Goto(u, "next")
                  /\ UNCHANGED <<serverVars, deliveryVars, room, lock, want, got, updateVars, tracked, historyVars>>

(* populate_known_rooms: from here on nobody reads or writes rooms ... *)
LockRooms(u) == /\ pc[u] = "lock" /\ lock = None
                /\ lock' = u
                /\ todo' = [todo EXCEPT ![u] = @ \ Known]
                /\ Goto(u, "next")
                /\ UNCHANGED <<serverVars, deliveryVars, room, want, got, updateVars, tracked, historyVars>>

NextRoom(u) == /\ pc[u] = "next"
               /\ \E r \in todo[u] : want' = [want EXCEPT ![u] = r]
               /\ Goto(u, "fetch")
               /\ UNCHANGED <<serverVars, deliveryVars, room, lock, todo, got, updateVars, tracked, historyVars>>

(* ... until every room is there. *)
UnlockRooms(u) == /\ pc[u] = "next" /\ todo[u] = {}
                  /\ lock' = None
                  /\ Goto(u, "read")
                  /\ UNCHANGED <<serverVars, deliveryVars, room, fetchVars, updateVars, tracked, historyVars>>

ReadOwn(u) == /\ pc[u] = "read" /\ lock = None
              /\ seen' = [seen EXCEPT ![u] = EncryptedMembers(u)]
              /\ Goto(u, "track")
              /\ UNCHANGED <<serverVars, deliveryVars, room, lock, fetchVars, copy, users, tracked, historyVars>>

TrackOwn(u) == /\ pc[u] = "track"
               /\ tracked' = [tracked EXCEPT ![u] = @ \cup seen[u]]
               /\ ForgetSeen(u)
               /\ Goto(u, "done")
               /\ UNCHANGED <<serverVars, deliveryVars, room, lock, fetchVars, copy, users, historyVars>>

(* The list of rooms cannot be had, or the crypto store fails: run returns. *)
FailRun(u) == /\ pc[u] \in {"list", "track"}
              /\ ForgetSeen(u)
              /\ Goto(u, "failed")
              /\ UNCHANGED <<serverVars, deliveryVars, room, lock, fetchVars, copy, users, tracked, historyVars>>

-----------------------------------------------------------------------------
(* Transactions: some events, acknowledged together or not at all. *)

Acknowledge == /\ pc[Dispatcher] = "idle" /\ acked < next - 1
               /\ acked' = next - 1
               /\ UNCHANGED <<serverVars, next, drops, room, lock, pc, fetchVars, updateVars, tracked, historyVars>>

(* The connection closes: the handler stops where it awaits, and all events *)
(* of the transaction come again.  A room that is marked encrypted already  *)
(* is not updated by the second delivery.                                   *)
Drop == /\ drops < MaxDrops
        /\ acked < next - 1 \/ pc[Dispatcher] # "idle"
        /\ drops' = drops + 1
        /\ next' = acked + 1
        /\ Goto(Dispatcher, "idle")
        /\ lock' = IF lock = Dispatcher THEN None ELSE lock
        /\ missed' = IF pc[Dispatcher] \in {"users", "read", "track"} /\ Event.kind = "encryption"
                     THEN missed \cup {Event.room} ELSE missed
        /\ copy' = {} /\ users' = {} /\ ForgetSeen(Dispatcher) /\ ForgetFetch(Dispatcher)
        /\ UNCHANGED <<serverVars, acked, room, todo, tracked, misread>>

-----------------------------------------------------------------------------
Dispatch == \/ AddKnown \/ AddUnknown \/ RemoveKnown \/ PassOver
            \/ AlreadyEncrypted \/ CloneMembers \/ ReplaceRoom
            \/ FindUsers \/ NoUserLeft \/ FailTrack
            \/ \E u \in User : ReadFor(u) \/ TrackFor(u)

StartLoop(u) == \/ MakeUser(u) \/ ListRooms(u) \/ LockRooms(u) \/ NextRoom(u) \/ UnlockRooms(u)
                \/ ReadOwn(u) \/ TrackOwn(u) \/ FailRun(u)

Fetch(t) == FetchEncryption(t) \/ FetchMembers(t) \/ FailFetch(t) \/ Insert(t)

Next == \/ Change \/ Dispatch \/ Acknowledge \/ Drop
        \/ \E u \in User : StartLoop(u)
        \/ \E t \in Task : Fetch(t)

Spec == Init /\ [][Next]_vars

-----------------------------------------------------------------------------
StateEvent == [kind : {"join", "leave"}, room : Room, member : Member]
              \cup [kind : {"encryption"}, room : Room, member : {None}]
RoomKind   == [encrypted : BOOLEAN, members : SUBSET Member]
Labels     == {"idle", "replace", "users", "fetch", "read", "track",
               "new", "stored", "list", "lock", "next", "done", "failed"}

TypeOK == /\ joined \in [Room -> SUBSET Member] /\ encrypted \in [Room -> BOOLEAN]
          /\ sent \in Seq(StateEvent) /\ silent \in 0 .. MaxSilent /\ untold \subseteq StateEvent
          /\ acked \in 0 .. next - 1 /\ next \in 1 .. Len(sent) + 1 /\ drops \in 0 .. MaxDrops
          /\ room \in [Room -> RoomKind \cup {None}]
          /\ lock \in Task \cup {None}
          /\ pc \in [Task -> Labels]
          /\ todo \in [User -> SUBSET Room]
          /\ copy \subseteq Member /\ users \subseteq User
          /\ tracked \in [User -> SUBSET Member] /\ seen \in [Task -> SUBSET Member]
          /\ misread \subseteq Room /\ missed \subseteq Room
          /\ \A t \in Task : lock = t <=> pc[t] \in {"next", "fetch"}

(* An event of kind k about r, and about m, is still to be handled. *)
ToCome(k, r, m) == \E i \in next .. Len(sent) : sent[i] = Ev(k, r, m)

(* Whoever is in a room the service knows is among its members there, or    *)
(* the event is still to be handled, or they joined while nobody of the     *)
(* service was in the room, after it was fetched or with a leave of theirs  *)
(* to be handled: no answer that was overtaken by events replaces what they *)
(* said (populate_known_rooms, add_room_member).                            *)
MembersCovered ==
    \A r \in Known : \A m \in joined[r] \ room[r].members :
        ToCome("join", r, m) \/ Ev("join", r, m) \in untold

(* An encrypted room the service takes for unencrypted has its encryption   *)
(* event still to be handled, or was encrypted while nobody of the service  *)
(* was in it and not fetched since, or get_encryption took an error status  *)
(* for no when it fetched the room (upgrade_room_encryption).               *)
EncryptionCovered ==
    \A r \in Known \ misread : encrypted[r] /\ ~room[r].encrypted =>
        ToCome("encryption", r, None) \/ Ev("encryption", r, None) \in untold

(* A user whose sync loop got ready tracks everybody in the encrypted rooms *)
(* it is in, unless an event that will see to it is still to be handled, or *)
(* an update for the room was given up half way (update_tracked_users).     *)
TrackedCovered ==
    \A u \in User : pc[u] = "done" =>
        \A r \in Known \ missed :
            room[r].encrypted /\ u \in room[r].members =>
                \A m \in room[r].members \ tracked[u] :
                    \/ ToCome("join", r, m)
                    \/ ToCome("join", r, u)
                    \/ ToCome("encryption", r, None)

(* A known room is not forgotten, and one that is encrypted stays so: its   *)
(* messages are not sent in the clear again (populate_known_rooms,          *)
(* add_room_member).                                                        *)
NeverDowngraded ==
    [][\A r \in Known : room'[r] # None /\ (room[r].encrypted => room'[r].encrypted)]_vars
=============================================================================
