------------------------------- MODULE Startup -------------------------------
(***************************************************************************)
(* Starts of the service, one after the other, and what each leaves behind *)
(* on the homeserver: ApplicationService::run selects between the listener *)
(* and ApplicationServiceInner::run, which pings, creates the bot, looks at *)
(* its profile, registers what seems to be missing and runs its device.    *)
(*                                                                         *)
(* The listener never returns by itself: the service is up, listening and  *)
(* starting or running, until the startup or the process ends.             *)
(***************************************************************************)
EXTENDS Naturals

CONSTANT MaxFaults    \* bound: requests that fail, processes that are killed

ASSUME MaxFaultsAssumption == MaxFaults \in Nat

VARIABLES user, device,  \* homeserver: whether the bot and its device are registered
          name,          \* homeserver: display name of the bot
          pc,            \* the request the startup is at; "off" if the service is down
          faults,
          nameless,      \* history: this start found a profile without a name
          halfway        \* history: a start, or somebody else, left the bot without its device

homeserverVars == <<user, device, name>>
vars == <<homeserverVars, pc, faults, nameless, halfway>>

(* Before the first start the homeserver may know the bot already. *)
Init == /\ user \in BOOLEAN /\ device \in {FALSE, user}
        /\ name \in IF user THEN {"none", "default", "configured"} ELSE {"none"}
        /\ pc = "off" /\ faults = 0 /\ nameless = FALSE
        /\ halfway = (user /\ ~device)

Step(from, to) == pc = from /\ pc' = to

Fault == faults < MaxFaults /\ faults' = faults + 1

-----------------------------------------------------------------------------
(* The address is bound, and the select starts. *)
Bind == /\ Step("off", "ping")
        /\ nameless' = FALSE
        /\ UNCHANGED <<homeserverVars, faults, halfway>>

(* What a request does on the homeserver: User::register (with whatever     *)
(* name it gives to new users), set_displayname, Device::register; and the  *)
(* others nothing.                                                          *)
Effect == \/ /\ pc = "register" /\ ~user
             /\ user' = TRUE /\ name' \in {"none", "default"}
             /\ UNCHANGED device
          \/ /\ pc \in {"rename", "name"}
             /\ name' = "configured"
             /\ UNCHANGED <<user, device>>
          \/ /\ pc = "device"
             /\ device' = TRUE
             /\ UNCHANGED <<user, name>>
          \/ /\ pc \in {"ping", "create", "prepare"}
             /\ UNCHANGED homeserverVars

(* Where the startup goes after each request: ping, create_user and         *)
(* create_device, then after the profile's answer either branch, at last    *)
(* Device::run, which asks for the rooms and loops.                         *)
Onward == \/ Step("ping", "create")
          \/ Step("create", "profile")
          \/ Step("rename", "prepare")
          \/ Step("register", "name")
          \/ Step("name", "device")
          \/ Step("device", "prepare")
          \/ Step("prepare", "loop")

Request == /\ Effect /\ Onward
           /\ UNCHANGED <<faults, nameless, halfway>>

(* A mutant of GetProfile: the bot is registered without looking. *)
RegisterAnyway == /\ Step("profile", "register")
                  /\ UNCHANGED <<homeserverVars, faults, nameless, halfway>>

(* get_profile: the name is set if there is one and it is another. *)
GetProfile ==
    /\ pc = "profile" /\ user
    /\ nameless' = (name = "none")
    /\ pc' = IF name = "default" THEN "rename" ELSE "prepare"
    /\ UNCHANGED <<homeserverVars, faults, halfway>>

(* An error of any kind counts as "there is no such user": the homeserver   *)
(* knows no profile, or the request failed.                                 *)
NoProfile == /\ Step("profile", "register")
             /\ IF user THEN Fault ELSE UNCHANGED faults
             /\ UNCHANGED <<homeserverVars, nameless, halfway>>

(* The service is down: the listener is dropped with the startup. *)
Down == /\ pc' = "off"
        /\ halfway' = (halfway \/ (user' /\ ~device'))

(* The homeserver does not register a user again: run returns the error. *)
InUse == /\ pc = "register" /\ user
         /\ UNCHANGED <<homeserverVars, faults, nameless>>
         /\ Down

(* A mutant of Fail: the bot's device is run even if it is not registered. *)
FailButGoOn == /\ pc \notin {"off", "loop"}
               /\ Fault
               /\ IF pc = "device" THEN pc' = "prepare" /\ UNCHANGED <<homeserverVars, halfway>>
                  ELSE (Effect \/ UNCHANGED homeserverVars) /\ Down
               /\ UNCHANGED nameless

(* A request or the crypto store fails, or the process is killed: the       *)
(* homeserver may have done what it was asked for.                          *)
Fail == /\ pc \notin {"off", "loop"}
        /\ Fault
        /\ Effect \/ UNCHANGED homeserverVars
        /\ Down
        /\ UNCHANGED nameless

(* The loop ends: Device::stop, or the process is killed. *)
Stop == /\ pc = "loop"
        /\ UNCHANGED <<homeserverVars, faults, nameless>>
        /\ Down

-----------------------------------------------------------------------------
Run == Bind \/ Request \/ GetProfile \/ NoProfile \/ InUse

Next == Run \/ Fail \/ Stop

Spec == Init /\ [][Next]_vars

(* Whoever operates the service starts it again when it is down, and a      *)
(* request gets an answer or an error.                                      *)
FairSpec == Spec /\ WF_vars(Run)

-----------------------------------------------------------------------------
TypeOK == /\ user \in BOOLEAN /\ device \in BOOLEAN
          /\ name \in {"none", "default", "configured"}
          /\ pc \in {"off", "ping", "create", "profile", "rename", "register",
                     "name", "device", "prepare", "loop"}
          /\ faults \in 0 .. MaxFaults
          /\ nameless \in BOOLEAN /\ halfway \in BOOLEAN
          /\ device \/ name # "none" => user

(* When the bot's loop runs, the bot is registered, its display name is the *)
(* configured one unless its profile had none, and its device is registered *)
(* unless something registered the bot and left it at that: an earlier      *)
(* start that broke off between the two is not made good (run).             *)
RunningMeansSetUp ==
    pc = "loop" => /\ user
                   /\ name = "configured" \/ nameless
                   /\ device \/ halfway

(* Whatever failed in earlier starts and wherever they broke off, a service *)
(* that is started again gets to its loop once requests succeed: nothing an *)
(* earlier start left behind is in its way (run).                           *)
ServiceComesUp == pc # "loop" ~> pc = "loop"
=============================================================================
