--------------------------- MODULE StartupProofs ---------------------------
(* Theorems about Startup, for any number of failing starts. *)
EXTENDS Startup, TLAPS

-----------------------------------------------------------------------------
(* What the requests answered so far have settled, by the place of the      *)
(* startup: the bot is registered once its profile was found or it was just *)
(* registered, named from the branch's end on, and has its device on the    *)
(* branch that registers it; a bot that is down without its device was left *)
(* so by somebody.                                                          *)
SetUpSoFar ==
    /\ pc \in {"rename", "name", "device", "prepare", "loop"} => user = TRUE
    /\ pc \in {"device", "prepare", "loop"} => name = "configured" \/ nameless = TRUE
    /\ pc \notin {"register", "name", "device"} /\ user = TRUE => device = TRUE \/ halfway = TRUE

(* The inductive invariant. *)
IInv == TypeOK /\ SetUpSoFar

(* What the homeserver has is typed and consistent. *)
Registered == /\ user \in BOOLEAN /\ device \in BOOLEAN
              /\ name \in {"none", "default", "configured"}
              /\ (device = TRUE \/ name # "none") => user = TRUE

(* The types include it, *)
LEMMA TypedIsRegistered == TypeOK => Registered
  BY DEF TypeOK, Registered

(* and the homeserver keeps it whatever a request does there. *)
LEMMA EffectIsRegistered ==
    ASSUME IInv, Effect \/ UNCHANGED homeserverVars PROVE Registered'
<1> USE DEF IInv, TypeOK, SetUpSoFar, Registered, homeserverVars
<1>1. CASE pc = "register" /\ ~user /\ user' = TRUE /\ name' \in {"none", "default"} /\ UNCHANGED device
  BY <1>1
<1>2. CASE pc \in {"rename", "name"} /\ name' = "configured" /\ UNCHANGED <<user, device>>
  BY <1>2
<1>3. CASE pc = "device" /\ device' = TRUE /\ UNCHANGED <<user, name>>
  BY <1>3
<1>4. CASE UNCHANGED homeserverVars
  BY <1>4
<1> QED
  BY <1>1, <1>2, <1>3, <1>4 DEF Effect

(* The invariant holds at the start, whatever the homeserver has of the bot. *)
LEMMA Initially == Init => IInv
<1> SUFFICES ASSUME Init PROVE IInv
  OBVIOUS
<1> USE DEF Init
<1>1. /\ pc = "off" /\ faults = 0 /\ nameless = FALSE
      /\ name \in {"none", "default", "configured"} /\ (name # "none" => user = TRUE)
  OBVIOUS
<1>2. /\ user \in BOOLEAN /\ device \in BOOLEAN /\ halfway \in BOOLEAN
      /\ (device = TRUE => user = TRUE)
  OBVIOUS
<1>3. user = TRUE => device = TRUE \/ halfway = TRUE
  <2>1. halfway = (user /\ ~device)
    OBVIOUS
  <2> QED
    BY <1>2, <2>1
<1> HIDE DEF Init
<1>4. TypeOK
  <2>1. device \/ name # "none" => user
    BY <1>1, <1>2
  <2>2. faults \in 0 .. MaxFaults
    BY <1>1, MaxFaultsAssumption
  <2>3. pc \in {"off", "ping", "create", "profile", "rename", "register",
                "name", "device", "prepare", "loop"}
    BY <1>1
  <2>4. nameless \in BOOLEAN
    BY <1>1
  <2> QED
    BY <1>1, <1>2, <2>1, <2>2, <2>3, <2>4, Zenon DEF TypeOK
<1>5. SetUpSoFar
  BY <1>1, <1>3 DEF SetUpSoFar
<1> QED
  BY <1>4, <1>5 DEF IInv

(* Every step keeps the types. *)
LEMMA StepTyped == ASSUME IInv, [Next]_vars PROVE TypeOK'
<1> USE MaxFaultsAssumption DEF IInv, TypeOK, homeserverVars
<1>1. CASE Bind
  BY <1>1 DEF Bind, Step
<1>2. CASE Request
  BY <1>2, EffectIsRegistered DEF Request, Onward, Step, Registered
<1>3. CASE GetProfile
  BY <1>3 DEF GetProfile
<1>4. CASE NoProfile
  BY <1>4 DEF NoProfile, Step, Fault
<1>5. CASE InUse
  BY <1>5 DEF InUse, Down
<1>6. CASE Fail
  <2>1. Registered' /\ pc' = "off" /\ halfway' \in BOOLEAN
    BY <1>6, EffectIsRegistered DEF Fail, Down
  <2>2. faults' \in 0 .. MaxFaults /\ nameless' \in BOOLEAN
    BY <1>6 DEF Fail, Fault
  <2> QED
    BY <2>1, <2>2 DEF Registered
<1>7. CASE Stop
  BY <1>7 DEF Stop, Down
<1>8. CASE UNCHANGED vars
  BY <1>8 DEF vars
<1> QED
  BY <1>1, <1>2, <1>3, <1>4, <1>5, <1>6, <1>7, <1>8 DEF Next, Run

(* What is settled stays so until the next start. *)
LEMMA StepSettles == ASSUME IInv, [Next]_vars PROVE SetUpSoFar'
<1> USE DEF IInv, TypeOK, SetUpSoFar, homeserverVars
<1>1. CASE Bind
  BY <1>1 DEF Bind, Step
<1>2. CASE Request
  BY <1>2 DEF Request, Effect, Onward, Step
<1>3. CASE GetProfile
  BY <1>3 DEF GetProfile
<1>4. CASE NoProfile
  BY <1>4 DEF NoProfile, Step, Fault
<1>5. CASE InUse
  BY <1>5 DEF InUse, Down
<1>6. CASE Fail
  <2>1. Registered' /\ pc' = "off" /\ halfway' = (halfway \/ (user' /\ ~device'))
    BY <1>6, EffectIsRegistered DEF Fail, Down
  <2> QED
    BY <2>1 DEF Registered
<1>7. CASE Stop
  BY <1>7 DEF Stop, Down
<1>8. CASE UNCHANGED vars
  BY <1>8 DEF vars
<1> QED
  BY <1>1, <1>2, <1>3, <1>4, <1>5, <1>6, <1>7, <1>8 DEF Next, Run

-----------------------------------------------------------------------------
(* Every variable keeps its type; what is named or has a device is          *)
(* registered (ApplicationServiceInner::run).                               *)
THEOREM TypeCorrect == Spec => []TypeOK
<1>1. IInv /\ [Next]_vars => IInv'
  BY StepTyped, StepSettles DEF IInv
<1>2. IInv => TypeOK
  BY DEF IInv
<1> QED
  BY <1>1, <1>2, Initially, PTL DEF Spec

(* When the bot's loop runs, the bot is registered and named, and has its   *)
(* device unless something left it without (run, create_user, register).    *)
THEOREM LoopRunsSetUp == Spec => []RunningMeansSetUp
<1>1. IInv /\ [Next]_vars => IInv'
  BY StepTyped, StepSettles DEF IInv
<1>2. IInv => RunningMeansSetUp
  BY DEF IInv, SetUpSoFar, RunningMeansSetUp
<1> QED
  BY <1>1, <1>2, Initially, PTL DEF Spec
=============================================================================
