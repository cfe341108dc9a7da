----------------------------- MODULE DeviceLoop -----------------------------
(***************************************************************************)
(* One DeviceInner: the bounded channel of encryption sync changes, the    *)
(* mutexes around its receiver and its cancellation token, Device::run and *)
(* Device::stop, and the sync loop that run spawns.                        *)
(*                                                                         *)
(* Every call of run makes one CancellationToken and spawns at most one    *)
(* loop, so a call, its token and its loop share a name in Run.  Steps are *)
(* what happens between two awaits.                                        *)
(***************************************************************************)
EXTENDS Naturals, Sequences, FiniteSets

CONSTANTS Run,       \* calls of Device::run
          Change,    \* OwnedEncryptionSyncChanges that transactions want to send
          Capacity,  \* of the channel: 50 in DeviceInner::new
          None       \* no token, no change

ASSUME CapacityAssumption == Capacity \in Nat \ {0}
ASSUME NoneAssumption == None \notin Run /\ None \notin Change

VARIABLES pc,         \* [Run -> how far the call and its loop are]
          token,      \* DeviceInner.token
          cancelled,  \* the tokens that are cancelled
          slot,       \* whether DeviceInner.receiver holds the receiver
          sender,     \* [Change -> how far send_sync_changes is with it]
          queue,      \* the channel: what was sent and not received
          hand,       \* [Run -> the change its loop is giving to the OlmMachine]
          accepted,   \* history: every change the channel took, in order
          synced,     \* history: every change given to the OlmMachine, in order
          crowded     \* history: whether run was called on a device that runs

channelVars == <<sender, queue, accepted>>
vars == <<pc, token, cancelled, slot, hand, synced, crowded, channelVars>>

Init == /\ pc = [r \in Run |-> "new"]
        /\ token = None
        /\ cancelled = {}
        /\ slot = TRUE
        /\ sender = [x \in Change |-> "new"]
        /\ queue = <<>>
        /\ hand = [r \in Run |-> None]
        /\ accepted = <<>>
        /\ synced = <<>>
        /\ crowded = FALSE

Step(r, from, to) == pc[r] = from /\ pc' = [pc EXCEPT ![r] = to]

(* The loop of r owns the receiver. *)
Loops(r) == pc[r] \in {"select", "polled", "syncing", "requesting", "returning"}

(* r has a token that nobody cancelled, and a loop or the prospect of one. *)
Alive(r) == (pc[r] = "armed" \/ Loops(r)) /\ r \notin cancelled

-----------------------------------------------------------------------------
(* Device::send_sync_changes, called by a transaction. *)

(* The call starts: it awaits room in the channel. *)
Send(x) == /\ sender[x] = "new"
           /\ sender' = [sender EXCEPT ![x] = "waiting"]
           /\ UNCHANGED <<pc, token, cancelled, slot, queue, hand, accepted, synced, crowded>>

(* A mutant of Accept: the channel is unbounded. *)
AcceptUnbounded(x) == /\ sender[x] = "waiting"
                      /\ sender' = [sender EXCEPT ![x] = "sent"]
                      /\ queue' = Append(queue, x)
                      /\ accepted' = Append(accepted, x)
                      /\ UNCHANGED <<pc, token, cancelled, slot, hand, synced, crowded>>

(* There is room.  The receiver lives in the slot or in a loop, so a send   *)
(* never fails for want of a receiver.                                      *)
Accept(x) == /\ sender[x] = "waiting"
             /\ Len(queue) < Capacity
             /\ sender' = [sender EXCEPT ![x] = "sent"]
             /\ queue' = Append(queue, x)
             /\ accepted' = Append(accepted, x)
             /\ UNCHANGED <<pc, token, cancelled, slot, hand, synced, crowded>>

(* The request the change came with is dropped while it waits. *)
Abandon(x) == /\ sender[x] = "waiting"
              /\ sender' = [sender EXCEPT ![x] = "dropped"]
              /\ UNCHANGED <<pc, token, cancelled, slot, queue, hand, accepted, synced, crowded>>

-----------------------------------------------------------------------------
(* Device::run, up to the loop. *)

(* The user is still there; the known rooms and the tracked users are       *)
(* brought up to date.                                                      *)
Begin(r) == /\ Step(r, "new", "preparing")
            /\ UNCHANGED <<token, cancelled, slot, hand, synced, channelVars, crowded>>

(* The user is gone, or the homeserver or the crypto store fails: the call  *)
(* returns before it made a token.                                          *)
FailToPrepare(r) == /\ \/ Step(r, "new", "failed")
                       \/ Step(r, "preparing", "failed")
                    /\ UNCHANGED <<token, cancelled, slot, hand, synced, channelVars, crowded>>

(* A mutant of SetToken: a token that is there is kept. *)
SetTokenOnce(r) ==
    /\ Step(r, "preparing", "armed")
    /\ token' = IF token = None THEN r ELSE token
    /\ crowded' = (crowded \/ \E q \in Run \ {r} : Alive(q))
    /\ UNCHANGED <<cancelled, slot, hand, synced, channelVars>>

(* A new token replaces whatever token is there. *)
SetToken(r) == /\ Step(r, "preparing", "armed")
               /\ token' = r
               /\ crowded' = (crowded \/ \E q \in Run \ {r} : Alive(q))
               /\ UNCHANGED <<cancelled, slot, hand, synced, channelVars>>

(* A mutant of TakeReceiver: the receiver is shared, not taken. *)
TakeReceiverAnyway(r) ==
    /\ Step(r, "armed", "select")
    /\ slot' = FALSE
    /\ UNCHANGED <<token, cancelled, hand, synced, channelVars, crowded>>

(* take_receiver finds the receiver, and the loop is spawned. *)
TakeReceiver(r) == /\ Step(r, "armed", "select")
                   /\ slot
                   /\ slot' = FALSE
                   /\ UNCHANGED <<token, cancelled, hand, synced, channelVars, crowded>>

(* take_receiver does not: MultipleSync is returned; the token stays. *)
Refuse(r) == /\ Step(r, "armed", "refused")
             /\ ~slot
             /\ UNCHANGED <<token, cancelled, slot, hand, synced, channelVars, crowded>>

-----------------------------------------------------------------------------
(* The loop: one biased select per turn. *)

(* First branch: the token is cancelled. *)
SeeCancel(r) == /\ Step(r, "select", "returning")
                /\ r \in cancelled
                /\ UNCHANGED <<token, cancelled, slot, hand, synced, channelVars, crowded>>

(* A mutant of Poll: the select is not biased. *)
PollUnbiased(r) == /\ Step(r, "select", "polled")
                   /\ UNCHANGED <<token, cancelled, slot, hand, synced, channelVars, crowded>>

(* First branch polled: not cancelled at this moment. *)
Poll(r) == /\ Step(r, "select", "polled")
           /\ r \notin cancelled
           /\ UNCHANGED <<token, cancelled, slot, hand, synced, channelVars, crowded>>

(* Second branch: the next change. *)
Receive(r) == /\ Step(r, "polled", "syncing")
              /\ queue # <<>>
              /\ hand' = [hand EXCEPT ![r] = Head(queue)]
              /\ queue' = Tail(queue)
              /\ UNCHANGED <<token, cancelled, slot, synced, sender, accepted, crowded>>

(* ... given to the OlmMachine; an error is logged and the change is gone. *)
Synced(r) == /\ Step(r, "syncing", "select")
             /\ synced' = Append(synced, hand[r])
             /\ hand' = [hand EXCEPT ![r] = None]
             /\ UNCHANGED <<token, cancelled, slot, channelVars, crowded>>

(* A mutant of Tick: the timers come before the channel. *)
TickFirst(r) == /\ Step(r, "polled", "requesting")
                /\ UNCHANGED <<token, cancelled, slot, hand, synced, channelVars, crowded>>

(* Third and fourth branch: a timer fired; the outgoing requests or the     *)
(* presence are on their way to the homeserver, their errors are logged.    *)
Tick(r) == /\ Step(r, "polled", "requesting")
           /\ queue = <<>>
           /\ UNCHANGED <<token, cancelled, slot, hand, synced, channelVars, crowded>>

Ticked(r) == /\ Step(r, "requesting", "select")
             /\ UNCHANGED <<token, cancelled, slot, hand, synced, channelVars, crowded>>

(* No branch is ready: sleep until one wakes the loop. *)
Sleep(r) == /\ Step(r, "polled", "select")
            /\ queue = <<>>
            /\ UNCHANGED <<token, cancelled, slot, hand, synced, channelVars, crowded>>

(* A mutant of ReturnReceiver: a fresh channel instead of the old receiver. *)
ReturnFreshReceiver(r) ==
    /\ Step(r, "returning", "ended")
    /\ slot' = TRUE
    /\ queue' = <<>>
    /\ UNCHANGED <<token, cancelled, hand, synced, sender, accepted, crowded>>

(* return_receiver: a later run finds the receiver with what is queued. *)
ReturnReceiver(r) == /\ Step(r, "returning", "ended")
                     /\ slot' = TRUE
                     /\ UNCHANGED <<token, cancelled, hand, synced, channelVars, crowded>>

-----------------------------------------------------------------------------
(* Device::stop.  Without a token it does nothing. *)
Stop == /\ token # None
        /\ cancelled' = cancelled \cup {token}
        /\ token' = None
        /\ UNCHANGED <<pc, slot, hand, synced, channelVars, crowded>>

-----------------------------------------------------------------------------
Loop(r) == \/ SeeCancel(r)
           \/ Poll(r)
           \/ Receive(r)
           \/ Synced(r)
           \/ Tick(r)
           \/ Ticked(r)
           \/ Sleep(r)
           \/ ReturnReceiver(r)

Prepare(r) == Begin(r) \/ FailToPrepare(r) \/ SetToken(r) \/ TakeReceiver(r) \/ Refuse(r)

Next == \/ \E r \in Run : Prepare(r) \/ Loop(r)
        \/ \E x \in Change : Send(x) \/ Accept(x) \/ Abandon(x)
        \/ Stop

Spec == Init /\ [][Next]_vars

(* The runtime polls a loop that is ready, the requests of a tick and the   *)
(* crypto store answer, and a run that armed its token goes on.  The channel *)
(* serves its waiting senders first come, first served.  Nobody has to call *)
(* run, stop or send.                                                       *)
FairSpec == /\ Spec
            /\ \A r \in Run : WF_vars(Loop(r)) /\ WF_vars(TakeReceiver(r) \/ Refuse(r))
            /\ \A x \in Change : SF_vars(Accept(x))

-----------------------------------------------------------------------------
Labels == {"new", "preparing", "armed", "refused", "failed", "select", "polled",
           "syncing", "requesting", "returning", "ended"}

TypeOK == /\ pc \in [Run -> Labels]
          /\ token \in Run \cup {None}
          /\ cancelled \in SUBSET Run
          /\ slot \in BOOLEAN
          /\ sender \in [Change -> {"new", "waiting", "sent", "dropped"}]
          /\ queue \in Seq(Change) /\ Len(queue) <= Capacity
          /\ hand \in [Run -> Change \cup {None}]
          /\ accepted \in Seq(Change)
          /\ synced \in Seq(Change)
          /\ crowded \in BOOLEAN

(* However run and stop interleave, at most one loop reads the channel of a *)
(* device, and the receiver is in the slot exactly when none does: it is    *)
(* neither duplicated nor lost (take_receiver, return_receiver).            *)
OneLoop == /\ \A r, q \in Run : Loops(r) /\ Loops(q) => r = q
           /\ slot <=> \A r \in Run : ~Loops(r)

(* No change that the channel took is lost, doubled or overtaken, across    *)
(* any number of stopped and restarted loops: what was accepted is what the *)
(* OlmMachine got, the change a loop holds, and what is queued.             *)
NoLossNoReorder ==
    /\ \A r \in Run : pc[r] = "syncing" => accepted = (synced \o <<hand[r]>>) \o queue
    /\ (\A r \in Run : pc[r] # "syncing") => accepted = synced \o queue

(* stop() reaches the running loop: unless run was called on a device that  *)
(* was running, the token kept in the device is that of the loop, through   *)
(* any number of stops and of restarts that overtake a stopping loop.  (A   *)
(* run on a running device replaces the token: if it is refused the loop    *)
(* can no longer be stopped.)  The token of a loop that has ended is not    *)
(* kept, but that of a refused run stays, also of one that only overtook a  *)
(* stopping loop: is_running() then answers true and nothing runs.          *)
StopReachesTheLoop ==
    /\ ~crowded => \A r \in Run : Loops(r) /\ r \notin cancelled => token = r
    /\ token # None => Loops(token) \/ pc[token] \in {"armed", "refused"}

(* A call whose token is cancelled comes to an end and gives the receiver   *)
(* back, even if stop() came before its loop started.                       *)
StoppedLoopEnds ==
    \A r \in Run : r \in cancelled ~> pc[r] \in {"ended", "refused"}

(* A change in the channel is given to the OlmMachine, unless the loop is   *)
(* stopped: the timers of the loop do not keep it waiting.                  *)
ChangesReachTheOlmMachine ==
    \A r \in Run : \A x \in Change :
        Loops(r) /\ sender[x] = "sent"
            ~> (\E i \in DOMAIN synced : synced[i] = x) \/ r \in cancelled

(* A transaction that waits for room in the channel gets it, or its request *)
(* was dropped, or the loop is stopped.                                     *)
SendersGetRoom ==
    \A r \in Run : \A x \in Change :
        Loops(r) /\ sender[x] = "waiting" ~> sender[x] # "waiting" \/ r \in cancelled
=============================================================================
