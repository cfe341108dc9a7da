--------------------------- MODULE DeviceRegistry ---------------------------
(***************************************************************************)
(* Which device a change is given to, and whether a loop reads it: the     *)
(* UserStore, the device of each UserInner, ensure_device as transactions  *)
(* call it, and the creation of the bot at startup.                        *)
(*                                                                         *)
(* A task (a call of ensure_device, or the startup) creates at most one    *)
(* UserInner, one DeviceInner and one loop, so each of them carries the    *)
(* name of the task that created it.  Steps are what happens between two   *)
(* points where another thread can see a difference.                       *)
(***************************************************************************)
CONSTANTS Call,        \* calls of ensure_device, each followed by one send
          Startup,     \* ApplicationServiceInner::run
          Mxid,        \* users
          Unparsable,  \* those UserId::parse rejects
          DeviceId,
          Who,         \* [Task -> Mxid]: the user a task is about
          Wanted,      \* [Task -> DeviceId]: the id it would give a device
          None

Task == Call \cup {Startup}
Bot  == Who[Startup]

ASSUME StartupAssumption == Startup \notin Call
ASSUME WhoAssumption == Who \in [Task -> Mxid]
ASSUME WantedAssumption == Wanted \in [Task -> DeviceId]
ASSUME UnparsableAssumption == Unparsable \subseteq Mxid \ {Bot}
ASSUME NoneAssumption == None \notin Task

VARIABLES pc,        \* [Task -> how far it is]
          local,     \* [Task -> the UserInner it works on]
          target,    \* [Task -> the DeviceInner it got]
          user,      \* [Mxid -> UserStore.users]
          device,    \* [UserInner -> its UserInner.device]
          loop,      \* [DeviceInner -> how far its Device::run is]
          disturbed  \* history: users whose device was made under disturbance

localVars == <<local, target>>
storeVars == <<user, device>>
vars == <<pc, localVars, storeVars, loop, disturbed>>

Init == /\ pc = [k \in Task |-> "new"]
        /\ local = [k \in Task |-> None]
        /\ target = [k \in Task |-> None]
        /\ user = [m \in Mxid |-> None]
        /\ device = [u \in Task |-> None]
        /\ loop = [d \in Task |-> "none"]
        /\ disturbed = {}

Step(k, from, to) == pc[k] = from /\ pc' = [pc EXCEPT ![k] = to]

(* k looks for a device or makes one; it has not put one in place yet. *)
Searches(k) == pc[k] \in {"find", "device", "make", "open", "store"}

(* The store leads from m to a device. *)
Settled(m) == user[m] # None /\ device[user[m]] # None

DisturbIf(condition, m) == disturbed' = IF condition THEN disturbed \cup {m} ELSE disturbed

-----------------------------------------------------------------------------
(* ensure_device: find the user and its device. *)

(* extract_sync_tasks calls ensure_device.  If the user has no device yet   *)
(* and another task is about to see to that, the two may collide.           *)
Ensure(k) == /\ k \in Call
             /\ Who[k] \notin Unparsable
             /\ Step(k, "new", "find")
             /\ DisturbIf(/\ ~Settled(Who[k])
                          /\ \E j \in Task : Searches(j) /\ Who[j] = Who[k],
                          Who[k])
             /\ UNCHANGED <<localVars, storeVars, loop>>

(* ... about nobody: get_user finds nothing and create_user fails, without   *)
(* an await.                                                                *)
Reject(k) == /\ k \in Call
             /\ Who[k] \in Unparsable
             /\ Step(k, "new", "failed")
             /\ UNCHANGED <<localVars, storeVars, loop, disturbed>>

(* A mutant of FindUser: the user is expected to be there. *)
FindUserUnchecked(k) == /\ Step(k, "find", "device")
                        /\ local' = [local EXCEPT ![k] = user[Who[k]]]
                        /\ UNCHANGED <<target, storeVars, loop, disturbed>>

(* get_user, under the store's read lock. *)
FindUser(k) == LET found == user[Who[k]]
               IN  /\ Step(k, "find", IF found = None THEN "make" ELSE "device")
                   /\ local' = [local EXCEPT ![k] = found]
                   /\ UNCHANGED <<target, storeVars, loop, disturbed>>

(* get_device: the device the user has, whatever id the call asks for. *)
FindDevice(k) ==
    LET found == device[local[k]]
    IN  /\ Step(k, "device", IF found = None THEN "open" ELSE "send")
        /\ target' = [target EXCEPT ![k] = found]
        /\ UNCHANGED <<local, storeVars, loop, disturbed>>

-----------------------------------------------------------------------------
(* create_user and create_device. *)

(* A mutant of MakeUser: the new user is not entered into the store. *)
MakeUserUnlisted(k) == /\ Step(k, "make", "open")
                       /\ local' = [local EXCEPT ![k] = k]
                       /\ UNCHANGED <<target, storeVars, loop, disturbed>>

(* create_user: a UserInner without device replaces what the store has. *)
MakeUser(k) == /\ Step(k, "make", "open")
               /\ user' = [user EXCEPT ![Who[k]] = k]
               /\ local' = [local EXCEPT ![k] = k]
               /\ UNCHANGED <<target, device, loop, disturbed>>

(* DeviceInner::new: a channel, and the crypto store is opened ... *)
OpenStore(k) == /\ Step(k, "open", "store")
                /\ UNCHANGED <<localVars, storeVars, loop, disturbed>>

(* ... or not: the call returns the error, the user stays without device. *)
FailToOpen(k) == /\ Step(k, "open", "failed")
                 /\ DisturbIf(TRUE, Who[k])
                 /\ UNCHANGED <<localVars, storeVars, loop>>

(* What follows create_device: the startup introduces the bot, a call that  *)
(* made the user spawns the loop, a call that found it does not.            *)
AfterStore(k) == CASE k = Startup                     -> "introduce"
                   [] k # Startup /\ local[k] = k     -> "spawn"
                   [] OTHER                           -> "send"

(* A mutant of StoreDevice: the device is returned but not kept. *)
StoreNothing(k) == /\ Step(k, "store", AfterStore(k))
                   /\ target' = [target EXCEPT ![k] = k]
                   /\ UNCHANGED <<local, storeVars, loop, disturbed>>

(* create_device: the new device replaces what the user has. *)
StoreDevice(k) == /\ Step(k, "store", AfterStore(k))
                  /\ device' = [device EXCEPT ![local[k]] = k]
                  /\ target' = [target EXCEPT ![k] = k]
                  /\ UNCHANGED <<local, user, loop, disturbed>>

-----------------------------------------------------------------------------
(* The loop of a new device. *)

(* A mutant of SpawnLoop: the loop is left to somebody else. *)
SpawnNothing(k) == /\ Step(k, "spawn", "spawned")
                   /\ UNCHANGED <<localVars, storeVars, loop, disturbed>>

(* tokio::spawn: device.run() will be called by a task of its own. *)
SpawnLoop(k) == /\ Step(k, "spawn", "spawned")
                /\ loop' = [loop EXCEPT ![k] = "spawned"]
                /\ UNCHANGED <<localVars, storeVars, disturbed>>

(* The arm ends, and with it the only strong reference to the User. *)
ForgetUser(k) == /\ Step(k, "spawned", "send")
                 /\ UNCHANGED <<localVars, storeVars, loop, disturbed>>

(* Device::run upgrades its reference to the User while it is there. *)
RunLoop(d) == /\ loop[d] = "spawned"
              /\ pc[d] = "spawned"
              /\ loop' = [loop EXCEPT ![d] = "running"]
              /\ UNCHANGED <<pc, localVars, storeVars, disturbed>>

(* Device::run returns an error, which is logged: the User is gone, or the  *)
(* rooms or the tracked users cannot be brought up to date.                 *)
FailLoop(d) == /\ d # Startup
               /\ loop[d] \in {"spawned", "running"}
               /\ loop[d] = "spawned" => pc[d] # "spawned"
               /\ loop' = [loop EXCEPT ![d] = "failed"]
               /\ UNCHANGED <<pc, localVars, storeVars, disturbed>>

-----------------------------------------------------------------------------
(* extract_sync_tasks goes on: send_sync_changes to the device it got. *)
Send(k) == /\ Step(k, "send", "sent")
           /\ UNCHANGED <<localVars, storeVars, loop, disturbed>>

(* The connection closes while the call awaits a lock, the crypto store or  *)
(* room in the channel.                                                     *)
Cancel(k) == /\ k \in Call
             /\ Searches(k) \/ pc[k] = "send"
             /\ pc' = [pc EXCEPT ![k] = "cancelled"]
             /\ DisturbIf(pc[k] \in {"open", "store"}, Who[k])
             /\ UNCHANGED <<localVars, storeVars, loop>>

-----------------------------------------------------------------------------
(* ApplicationServiceInner::run, while the listener is already serving. *)

(* The homeserver answered the ping: create_user, no matter who is stored. *)
Start == /\ Step(Startup, "new", "make")
         /\ DisturbIf(\/ user[Bot] # None
                      \/ \E j \in Task : Searches(j) /\ Who[j] = Bot,
                      Bot)
         /\ UNCHANGED <<localVars, storeVars, loop>>

(* The bot's profile is there or is made; its device runs. *)
RunBot == /\ Step(Startup, "introduce", "sent")
          /\ loop' = [loop EXCEPT ![Startup] = "running"]
          /\ UNCHANGED <<localVars, storeVars, disturbed>>

(* A request of the startup, or the run of its device, fails: run returns. *)
FailStartup == /\ \/ Step(Startup, "new", "failed")
                  \/ Step(Startup, "introduce", "failed")
                  \/ Step(Startup, "sent", "failed")
               /\ loop' = [loop EXCEPT ![Startup] = IF @ = "none" THEN @ ELSE "failed"]
               /\ UNCHANGED <<localVars, storeVars, disturbed>>

-----------------------------------------------------------------------------
Create(k) == MakeUser(k) \/ OpenStore(k) \/ FailToOpen(k) \/ StoreDevice(k)

Next == \/ \E k \in Task : \/ Ensure(k)
                           \/ Reject(k)
                           \/ FindUser(k)
                           \/ FindDevice(k)
                           \/ Create(k)
                           \/ SpawnLoop(k)
                           \/ ForgetUser(k)
                           \/ RunLoop(k)
                           \/ FailLoop(k)
                           \/ Send(k)
                           \/ Cancel(k)
        \/ Start
        \/ RunBot
        \/ FailStartup

Spec == Init /\ [][Next]_vars

-----------------------------------------------------------------------------
Labels == {"new", "find", "device", "make", "open", "store", "introduce", "spawn",
           "spawned", "send", "sent", "failed", "cancelled"}

TypeOK == /\ pc \in [Task -> Labels]
          /\ local \in [Task -> Task \cup {None}]
          /\ target \in [Task -> Task \cup {None}]
          /\ user \in [Mxid -> Task \cup {None}]
          /\ device \in [Task -> Task \cup {None}]
          /\ loop \in [Task -> {"none", "spawned", "running", "failed"}]
          /\ disturbed \subseteq Mxid
          /\ \A k \in Task : /\ pc[k] \in {"device", "open", "store"} => local[k] # None
                             /\ pc[k] \in {"send", "sent"} => target[k] # None

(* Every change for a user goes to the one device that the store leads to,  *)
(* unless the first calls for that user collided, broke off half way, or    *)
(* came before the startup created the bot anew (ensure_device,             *)
(* create_user).  Later calls may overlap and be cancelled as they like.    *)
UndisturbedCallsAgree ==
    \A k \in Task : pc[k] \in {"send", "sent"} /\ Who[k] \notin disturbed =>
        user[Who[k]] # None /\ target[k] = device[user[Who[k]]]

(* A device that a change was sent to has its loop, or the task that made   *)
(* it is about to start one, unless the user was disturbed.  (The loop may  *)
(* have failed.)                                                            *)
UndisturbedDeviceGetsItsLoop ==
    \A k \in Task : pc[k] \in {"send", "sent"} /\ Who[k] \notin disturbed =>
        LET d == target[k]
        IN  \/ loop[d] # "none"
            \/ pc[d] \in {"spawn", "introduce"}
            \/ d = Startup /\ pc[d] = "failed"

(* A loop that runs reads the device the store leads to, so a user has at   *)
(* most one loop, unless the user was disturbed.                            *)
UndisturbedLoopIsTheOnlyOne ==
    \A d \in Task : loop[d] # "none" /\ Who[d] \notin disturbed =>
        user[Who[d]] # None /\ device[user[Who[d]]] = d

(* "Running multiple sync loops for device {}. This is not allowed"         *)
(* (take_receiver).  The check is made per DeviceInner; a call about the    *)
(* bot and the startup make two of them with one device id, and both loops  *)
(* run.                                                                     *)
OneLoopPerDeviceId ==
    \A d, e \in Task :
        loop[d] = "running" /\ loop[e] = "running" /\ Who[d] = Who[e] /\ Wanted[d] = Wanted[e]
            => d = e
=============================================================================
