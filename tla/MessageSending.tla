--------------------------- MODULE MessageSending ---------------------------
(***************************************************************************)
(* Device::send_message of one device into one room: concurrent calls,     *)
(* each of which decides by the stored room how to send, finds the members *)
(* without a session, shares the room key and encrypts, while members come *)
(* and go and the room is upgraded to an encrypted one.                    *)
(*                                                                         *)
(* The OlmMachine is external: the users it tracks, those whose device it  *)
(* knows (one device each), those it has a one-to-one session with, and    *)
(* the group session of the room with its key requests.  A call makes at   *)
(* most one group session, so the two share a name in Call.                *)
(***************************************************************************)
EXTENDS Naturals

CONSTANTS Call,        \* calls of send_message
          User,        \* the others who may be in the room
          MaxChanges,  \* bound: joins and leaves
          NoCall       \* no group session

ASSUME MaxChangesAssumption == MaxChanges \in Nat
ASSUME NoCallAssumption == NoCall \notin Call

VARIABLES kind, members,         \* the stored room; "none" is a room not stored
          changes,
          tracked, known, olm,   \* OlmMachine: users tracked, known, in session with
          session,               \* OlmMachine: the group session, by its maker
          shared,                \* [session -> users whose key request was marked as sent]
          pending,               \* [session -> users whose key request was not]
          holds,                 \* [session -> users whose key the homeserver took]
          pc, room, view, todo,  \* locals of the calls: place, kind(), members, users left to serve
          via,                   \* [call -> group session it shared]
          key,                   \* [call -> group session of its payload]
          sent,                  \* [call -> event type it sent to the room]
          late,                  \* history: calls made when the room was stored as encrypted
          steady,                \* history: [call -> known users who stay stored members during it]
          exposed,               \* history: [call -> stored members during it, and in what was read before]
          excused                \* history: [call -> users it got no session or no key to]

roomVars    == <<kind, members, changes>>
machineVars == <<tracked, known, olm, session, shared, pending>>
callVars    == <<room, view, todo, via, key, sent>>
historyVars == <<late, steady, exposed, excused>>
vars == <<roomVars, machineVars, holds, pc, callVars, historyVars>>

Nobody == [c \in Call |-> {}]

Init == /\ kind \in {"none", "plain", "encrypted"} /\ members \in SUBSET User /\ changes = 0
        /\ known \in SUBSET User /\ tracked = known /\ olm = {}
        /\ session = NoCall /\ shared = Nobody /\ pending = Nobody /\ holds = Nobody
        /\ pc = [c \in Call |-> "new"]
        /\ room = [c \in Call |-> "none"]
        /\ view = Nobody /\ todo = Nobody
        /\ via = [c \in Call |-> NoCall] /\ key = [c \in Call |-> NoCall]
        /\ sent = [c \in Call |-> "nothing"]
        /\ late = {} /\ steady = Nobody /\ exposed = Nobody /\ excused = Nobody

Step(c, from, to) == pc[c] = from /\ pc' = [pc EXCEPT ![c] = to]

Active(c) == pc[c] \notin {"new", "sent", "failed"}

(* Whom the group session s goes or went to. *)
Recipients(s) == shared[s] \cup pending[s]

-----------------------------------------------------------------------------
(* The room store and the machine, while calls are under way. *)

(* A user joins and the store learns of it. *)
Join(u) == /\ u \notin members /\ changes < MaxChanges
           /\ changes' = changes + 1
           /\ members' = members \cup {u}
           /\ exposed' = [c \in Call |-> IF Active(c) THEN exposed[c] \cup {u} ELSE exposed[c]]
           /\ UNCHANGED <<kind, machineVars, holds, pc, callVars, late, steady, excused>>

(* A user leaves.  The store removes them only if membership_change(None)   *)
(* sees a member who left, and it judges without the previous membership    *)
(* (RoomStore!PassOver): else they stay in the stored room.                 *)
Leave(u) == /\ u \in members /\ changes < MaxChanges
            /\ changes' = changes + 1
            /\ \/ /\ members' = members \ {u}
                  /\ steady' = [c \in Call |-> IF Active(c) THEN steady[c] \ {u} ELSE steady[c]]
               \/ UNCHANGED <<members, steady>>
            /\ UNCHANGED <<kind, machineVars, holds, pc, callVars, late, exposed, excused>>

(* The room is stored, or upgraded; it is never downgraded (RoomStore). *)
StoreRoom(k) == /\ \/ kind = "none" /\ k \in {"plain", "encrypted"}
                   \/ kind = "plain" /\ k = "encrypted"
                /\ kind' = k
                /\ UNCHANGED <<members, changes, machineVars, holds, pc, callVars, historyVars>>

(* RoomStore::update_tracked_users. *)
StoreTracks == /\ kind = "encrypted" /\ ~(members \subseteq tracked)
               /\ tracked' = tracked \cup members
               /\ UNCHANGED <<roomVars, known, olm, session, shared, pending, holds, pc, callVars, historyVars>>

(* The loop's key query for a tracked user was answered. *)
Learn(u) == /\ u \in tracked \ known
            /\ known' = known \cup {u}
            /\ UNCHANGED <<roomVars, tracked, olm, session, shared, pending, holds, pc, callVars, historyVars>>

-----------------------------------------------------------------------------
(* send_message, up to the payload of an unencrypted room. *)

StartUnknown(c) == /\ kind = "none"
                   /\ Step(c, "new", "failed")
                   /\ UNCHANGED <<roomVars, machineVars, holds, callVars, historyVars>>

(* The kind of the stored room is read once; payload and type follow it. *)
Start(c) ==
    /\ kind # "none"
    /\ Step(c, "new", "ready")
    /\ room' = [room EXCEPT ![c] = kind]
    /\ late' = IF kind = "encrypted" THEN late \cup {c} ELSE late
    /\ steady' = [steady EXCEPT ![c] = members \cap known]
    /\ exposed' = [exposed EXCEPT ![c] =
                      members \cup UNION {view[b] : b \in {b \in Call : pc[b] = "sharing"}}]
    /\ UNCHANGED <<roomVars, machineVars, holds, view, todo, via, key, sent, excused>>

-----------------------------------------------------------------------------
(* encrypt_event. *)

(* Mutants of FindMissing: nobody is taken to lack a session; *)
FindNothingMissing(c) ==
    /\ room[c] = "encrypted"
    /\ Step(c, "ready", "claiming")
    /\ tracked' = tracked \cup members
    /\ UNCHANGED <<roomVars, known, olm, session, shared, pending, holds, callVars, historyVars>>

(* keys are claimed for members whose devices the machine does not know. *)
FindUnknown(c) ==
    /\ room[c] = "encrypted"
    /\ Step(c, "ready", "claiming")
    /\ tracked' = tracked \cup members
    /\ todo' = [todo EXCEPT ![c] = members \ olm]
    /\ UNCHANGED <<roomVars, known, olm, session, shared, pending, holds, room, view, via, key, sent, historyVars>>

(* get_missing_session: the members are tracked, and those the machine      *)
(* knows but has no session with are to be claimed a one-time key for.      *)
FindMissing(c) ==
    /\ room[c] = "encrypted"
    /\ Step(c, "ready", "claiming")
    /\ tracked' = tracked \cup members
    /\ todo' = [todo EXCEPT ![c] = (members \cap known) \ olm]
    /\ UNCHANGED <<roomVars, known, olm, session, shared, pending, holds, room, view, via, key, sent, historyVars>>

(* The claim is answered: some may have no key left, or failed too often.   *)
Claim(c, got) ==
    /\ got \subseteq todo[c]
    /\ Step(c, "claiming", "claimed")
    /\ olm' = olm \cup got
    /\ excused' = [excused EXCEPT ![c] = todo[c] \ got]
    /\ todo' = [todo EXCEPT ![c] = {}]
    /\ UNCHANGED <<roomVars, tracked, known, session, shared, pending, holds, room, view, via, key, sent, late, steady, exposed>>

(* share_room_key reads the members, *)
ReadMembers(c) == /\ Step(c, "claimed", "sharing")
                  /\ view' = [view EXCEPT ![c] = members]
                  /\ UNCHANGED <<roomVars, machineVars, holds, room, todo, via, key, sent, historyVars>>

(* and the machine makes the requests for s, or is still waiting to send    *)
(* them: all members known and in session who were not sent the key.        *)
MakeRequests(c, s, users) ==
    /\ pending' = [pending EXCEPT ![s] = @ \cup ((users \cap known \cap olm) \ shared[s])]
    /\ todo' = [todo EXCEPT ![c] = pending'[s]]
    /\ via' = [via EXCEPT ![c] = s]

(* A mutant of Share: the key goes to whoever is tracked. *)
ShareWithTracked(c) ==
    /\ Step(c, "sharing", "sending")
    /\ \/ session # NoCall /\ Recipients(session) \subseteq tracked
          /\ MakeRequests(c, session, tracked) /\ UNCHANGED session
       \/ session' = c /\ MakeRequests(c, c, tracked)
    /\ UNCHANGED <<roomVars, tracked, known, olm, shared, holds, room, view, key, sent, historyVars>>

(* in the old group session if all its recipients are members, or in a new  *)
(* one, which the machine also makes when the old one has served its time.  *)
Share(c) ==
    /\ Step(c, "sharing", "sending")
    /\ \/ session # NoCall /\ Recipients(session) \subseteq view[c]
          /\ MakeRequests(c, session, view[c]) /\ UNCHANGED session
       \/ session' = c /\ MakeRequests(c, c, view[c])
    /\ UNCHANGED <<roomVars, tracked, known, olm, shared, holds, room, view, key, sent, historyVars>>

-----------------------------------------------------------------------------
(* The requests, one by one in the order the machine gave them. *)

Request(c, u) == pc[c] = "sending" /\ u \in todo[c]

Took(c, u) == holds' = [holds EXCEPT ![via[c]] = @ \cup {u}]

Marked(c, u) == /\ shared' = [shared EXCEPT ![via[c]] = @ \cup {u}]
                /\ pending' = [pending EXCEPT ![via[c]] = @ \ {u}]
                /\ todo' = [todo EXCEPT ![c] = @ \ {u}]

Deliver(c, u) == /\ Request(c, u) /\ Took(c, u) /\ Marked(c, u)
                 /\ UNCHANGED <<roomVars, tracked, known, olm, session, pc, room, view, via, key, sent, historyVars>>

(* A mutant of Refuse: the answer is marked as if it were a good one. *)
RefuseAndMark(c, u) ==
    /\ Request(c, u) /\ Marked(c, u)
    /\ excused' = [excused EXCEPT ![c] = @ \cup {u}]
    /\ UNCHANGED <<roomVars, tracked, known, olm, session, holds, pc, room, view, via, key, sent, late, steady, exposed>>

(* An error status is passed over: the next message makes the request again. *)
Refuse(c, u) == /\ Request(c, u)
                /\ todo' = [todo EXCEPT ![c] = @ \ {u}]
                /\ excused' = [excused EXCEPT ![c] = @ \cup {u}]
                /\ UNCHANGED <<roomVars, machineVars, holds, pc, room, view, via, key, sent, late, steady, exposed>>

(* The homeserver took it and the answer is lost: the call fails. *)
LoseAnswer(c, u) == /\ Request(c, u) /\ Took(c, u)
                    /\ pc' = [pc EXCEPT ![c] = "failed"]
                    /\ UNCHANGED <<roomVars, machineVars, callVars, historyVars>>

-----------------------------------------------------------------------------
(* encrypt_room_event: with the group session the machine has by now. *)
Encrypt(c) == /\ todo[c] = {}
              /\ Step(c, "sending", "encrypted")
              /\ key' = [key EXCEPT ![c] = session]
              /\ UNCHANGED <<roomVars, machineVars, holds, room, view, todo, via, sent, historyVars>>

(* RoomKind::message_type. *)
MessageType(k) == IF k = "encrypted" THEN "m.room.encrypted" ELSE "m.room.message"

Ready(c) == pc[c] = "encrypted" \/ (pc[c] = "ready" /\ room[c] = "plain")

(* A mutant of Put: the type is that of the room as it is stored now. *)
PutAsStored(c) == /\ Ready(c)
                  /\ pc' = [pc EXCEPT ![c] = "sent"]
                  /\ sent' = [sent EXCEPT ![c] = MessageType(kind)]
                  /\ UNCHANGED <<roomVars, machineVars, holds, room, view, todo, via, key, historyVars>>

(* The homeserver takes the event; the call may yet lose the answer. *)
Put(c) == /\ Ready(c)
          /\ pc' = [pc EXCEPT ![c] = "sent"]
          /\ sent' = [sent EXCEPT ![c] = MessageType(room[c])]
          /\ UNCHANGED <<roomVars, machineVars, holds, room, view, todo, via, key, historyVars>>

(* A request, the machine or its store fails. *)
Fail(c) == /\ Active(c)
           /\ pc' = [pc EXCEPT ![c] = "failed"]
           /\ UNCHANGED <<roomVars, machineVars, holds, callVars, historyVars>>

-----------------------------------------------------------------------------
EncryptEvent(c) == \/ FindMissing(c)
                   \/ \E got \in SUBSET todo[c] : Claim(c, got)
                   \/ ReadMembers(c)
                   \/ Share(c)
                   \/ \E u \in User : Deliver(c, u) \/ Refuse(c, u) \/ LoseAnswer(c, u)
                   \/ Encrypt(c)

SendMessage(c) == StartUnknown(c) \/ Start(c) \/ EncryptEvent(c) \/ Put(c) \/ Fail(c)

Next == \/ \E u \in User : Join(u) \/ Leave(u) \/ Learn(u)
        \/ \E k \in {"plain", "encrypted"} : StoreRoom(k)
        \/ StoreTracks
        \/ \E c \in Call : SendMessage(c)

Spec == Init /\ [][Next]_vars

-----------------------------------------------------------------------------
TypeOK == /\ kind \in {"none", "plain", "encrypted"}
          /\ members \subseteq User /\ changes \in 0 .. MaxChanges
          /\ tracked \subseteq User /\ known \subseteq tracked /\ olm \subseteq known
          /\ session \in Call \cup {NoCall}
          /\ shared \in [Call -> SUBSET User]
          /\ pending \in [Call -> SUBSET User]
          /\ holds \in [Call -> SUBSET User]
          /\ pc \in [Call -> {"new", "ready", "claiming", "claimed", "sharing",
                              "sending", "encrypted", "sent", "failed"}]
          /\ room \in [Call -> {"none", "plain", "encrypted"}]
          /\ view \in [Call -> SUBSET User]
          /\ todo \in [Call -> SUBSET User]
          /\ via \in [Call -> Call \cup {NoCall}]
          /\ key \in [Call -> Call \cup {NoCall}]
          /\ sent \in [Call -> {"nothing", "m.room.message", "m.room.encrypted"}]
          /\ late \subseteq Call
          /\ steady \in [Call -> SUBSET User]
          /\ exposed \in [Call -> SUBSET User]
          /\ excused \in [Call -> SUBSET User]

(* Who is a stored member and known to the machine from the moment          *)
(* send_message is called can read the encrypted event: the homeserver took *)
(* the key for them before the event, unless it had no one-time key for     *)
(* them or refused the request, whatever other calls do meanwhile           *)
(* (get_missing_session, share_room_key).  A group session that another     *)
(* call made between the sharing and the encryption is not promised to have *)
(* gone out.                                                                *)
SteadyMembersCanRead ==
    \A c \in Call : pc[c] \in {"encrypted", "sent"} /\ key[c] # NoCall /\ key[c] = via[c] =>
        steady[c] \ excused[c] \subseteq holds[key[c]]

(* An event is encrypted only for users whom the stored room had as members *)
(* at some moment of the call, or whom another call had read there before   *)
(* and not yet made its requests for: nobody who is merely tracked for      *)
(* other rooms, nor whoever was removed from the store earlier.  Who left   *)
(* and was passed over is still stored, and still gets the key              *)
(* (share_room_key: the members are read, then used).                       *)
OnlyStoredMembersCanRead ==
    [][\A c \in Call : pc[c] # "encrypted" /\ pc'[c] = "encrypted" =>
          Recipients(key'[c]) \subseteq exposed[c]]_vars

(* A key request that is marked as sent was taken by the homeserver; one    *)
(* that it refused stays to be made again (share_room_key).                 *)
NobodyIsMarkedInVain == \A c \in Call : shared[c] \subseteq holds[c]

(* Type and payload of an event agree, and it is sent in the clear only if  *)
(* the room was not stored as encrypted when the call was made, though it   *)
(* may be by now (send_message).                                            *)
ClearOnlyBeforeUpgrade ==
    \A c \in Call : pc[c] = "sent" =>
        /\ (sent[c] = "m.room.encrypted") <=> (key[c] # NoCall)
        /\ (sent[c] = "m.room.message") => (c \notin late)
=============================================================================
