---------------------------- MODULE EventDispatch ----------------------------
(***************************************************************************)
(* What the handlers of an application get to see: the EventHandlerStore,  *)
(* handle_event, and on_encrypted_message, which tries the devices of the  *)
(* users in the room one after the other and dispatches what it decrypts.  *)
(*                                                                         *)
(* Events carry the numbers of their order.  Handlers are registered while *)
(* events are dispatched, and the sync loops put keys into the OlmMachines *)
(* of the devices all the while.                                           *)
(***************************************************************************)
EXTENDS Naturals, Sequences, Functions

CONSTANTS Handler,     \* handlers the application registers
          Device,      \* devices of the service's users in the room
          MaxEvent,    \* bound: events 1..MaxEvent come
          Encrypted,   \* those that are encrypted
          MaxDrops,    \* bound: transactions whose connection closes
          Decrypt      \* the base handler on_encrypted_message

Event == 1..MaxEvent

ASSUME MaxEventAssumption == MaxEvent \in Nat
ASSUME EncryptedAssumption == Encrypted \subseteq Event
ASSUME DecryptAssumption == Decrypt \notin Handler
ASSUME MaxDropsAssumption == MaxDrops \in Nat

VARIABLES handlers,    \* [type -> handlers]: EventHandlerStore.event_handlers
          pc,          \* where the dispatcher awaits
          current,     \* the event being dispatched, or the one to come
          acked,       \* events of acknowledged transactions
          drops,
          outer,       \* handlers of the event that are left
          inner,       \* handlers of the decrypted event that are left
          candidates,  \* devices on_encrypted_message has not tried
          holders,     \* [event -> devices whose OlmMachine has its key]
          seen,        \* history: [Handler -> what it was called with, in order]
          due,         \* history: [event -> handlers registered before it came]
          keyed,       \* history: events a device had the key of before it was tried
          excused      \* history: events whose room or decrypted form was unusable

dispatchVars == <<pc, current, outer, inner, candidates>>
historyVars  == <<due, keyed, excused>>
vars == <<handlers, dispatchVars, acked, drops, holders, seen, historyVars>>

Type == {"message", "encrypted"}
TypeOf(e) == IF e \in Encrypted THEN "encrypted" ELSE "message"

Init == /\ handlers = [type \in Type |-> IF type = "encrypted" THEN <<Decrypt>> ELSE <<>>]
        /\ pc = "idle" /\ current = 1 /\ acked = 0 /\ drops = 0
        /\ outer = <<>> /\ inner = <<>> /\ candidates = {}
        /\ holders = [e \in Event |-> {}]
        /\ seen = [h \in Handler |-> <<>>]
        /\ due = [e \in Event |-> {}]
        /\ keyed = {} /\ excused = {}

Registered == UNION {Range(handlers[type]) : type \in Type}

(* The handler is called with the current event, in the current attempt. *)
Call(h) == seen' = [seen EXCEPT ![h] = Append(@, <<drops, current>>)]
Saw(h, e) == \E i \in DOMAIN seen[h] : seen[h][i][2] = e

-----------------------------------------------------------------------------
(* A mutant of Register: the newest handler comes first. *)
RegisterInFront(h, type) ==
    /\ h \notin Registered
    /\ handlers' = [handlers EXCEPT ![type] = <<h>> \o @]
    /\ UNCHANGED <<dispatchVars, acked, drops, holders, seen, historyVars>>

(* add_event_handler: under the write lock, at the end of the type's list. *)
Register(h, type) ==
    /\ h \notin Registered
    /\ handlers' = [handlers EXCEPT ![type] = Append(@, h)]
    /\ UNCHANGED <<dispatchVars, acked, drops, holders, seen, historyVars>>

(* A sync loop gives a room key to the OlmMachine of its device. *)
Learn(d, e) == /\ e \in Encrypted /\ d \notin holders[e]
               /\ holders' = [holders EXCEPT ![e] = @ \cup {d}]
               /\ UNCHANGED <<handlers, dispatchVars, acked, drops, seen, historyVars>>

-----------------------------------------------------------------------------
(* handle_event of the current event. *)

(* The handlers of its type are cloned under the read lock. *)
Begin == /\ pc = "idle" /\ current \in Event
         /\ pc' = "outer"
         /\ outer' = handlers[TypeOf(current)]
         /\ due' = [due EXCEPT ![current] =
                       Range(handlers["message"] \o handlers[TypeOf(current)]) \ {Decrypt}]
         /\ UNCHANGED <<handlers, current, inner, candidates, acked, drops, holders, seen, keyed, excused>>

(* The next handler runs to its end; its error is logged. *)
Handle == /\ pc = "outer" /\ outer # <<>> /\ Head(outer) # Decrypt
          /\ Call(Head(outer))
          /\ outer' = Tail(outer)
          /\ UNCHANGED <<handlers, pc, current, inner, candidates, acked, drops, holders, historyVars>>

End == /\ pc = "outer" /\ outer = <<>>
       /\ pc' = "idle"
       /\ current' = current + 1
       /\ UNCHANGED <<handlers, outer, inner, candidates, acked, drops, holders, seen, historyVars>>

-----------------------------------------------------------------------------
(* on_encrypted_message. *)

(* It returns to handle_event, with or without an error. *)
Return == /\ pc' = "outer"
          /\ outer' = Tail(outer)
          /\ candidates' = {}

(* The room is unknown. *)
FailRoom == /\ pc = "outer" /\ outer # <<>> /\ Head(outer) = Decrypt
            /\ Return
            /\ excused' = excused \cup {current}
            /\ UNCHANGED <<handlers, current, inner, acked, drops, holders, seen, due, keyed>>

(* The users in the room are collected. *)
FindUsers == /\ pc = "outer" /\ outer # <<>> /\ Head(outer) = Decrypt
             /\ pc' = "decrypt"
             /\ candidates' = Device
             /\ keyed' = IF holders[current] # {} THEN keyed \cup {current} ELSE keyed
             /\ UNCHANGED <<handlers, current, outer, inner, acked, drops, holders, seen, due, excused>>

(* A mutant of FailDevice: the first device decides. *)
FailAtOnce(d) == /\ pc = "decrypt" /\ d \in candidates \ holders[current]
                 /\ candidates' = {}
                 /\ UNCHANGED <<handlers, pc, current, outer, inner, acked, drops, holders, seen, historyVars>>

(* A device does not have the key: the next one is asked. *)
FailDevice(d) == /\ pc = "decrypt" /\ d \in candidates \ holders[current]
                 /\ candidates' = candidates \ {d}
                 /\ UNCHANGED <<handlers, pc, current, outer, inner, acked, drops, holders, seen, historyVars>>

(* A device has it: the decrypted event is dispatched. *)
DecryptWith(d) == /\ pc = "decrypt" /\ d \in candidates \cap holders[current]
                  /\ pc' = "dispatch"
                  /\ candidates' = candidates \ {d}
                  /\ UNCHANGED <<handlers, current, outer, inner, acked, drops, holders, seen, historyVars>>

(* No device had it: the error is logged, the event counts as handled. *)
GiveUp == /\ pc = "decrypt" /\ candidates = {}
          /\ Return
          /\ UNCHANGED <<handlers, current, inner, acked, drops, holders, seen, historyVars>>

-----------------------------------------------------------------------------
(* handle_event of the decrypted event. *)

BeginInner == /\ pc = "dispatch"
              /\ pc' = "inner"
              /\ inner' = handlers["message"]
              /\ UNCHANGED <<handlers, current, outer, candidates, acked, drops, holders, seen, historyVars>>

(* It has no readable type, room or sender. *)
FailInner == /\ pc = "dispatch"
             /\ Return
             /\ excused' = excused \cup {current}
             /\ UNCHANGED <<handlers, current, inner, acked, drops, holders, seen, due, keyed>>

HandleInner == /\ pc = "inner" /\ inner # <<>>
               /\ Call(Head(inner))
               /\ inner' = Tail(inner)
               /\ UNCHANGED <<handlers, pc, current, outer, candidates, acked, drops, holders, historyVars>>

(* A mutant of EndInner: the other devices decrypt it as well. *)
EndInnerTryingOn == /\ pc = "inner" /\ inner = <<>>
                    /\ pc' = "decrypt"
                    /\ UNCHANGED <<handlers, current, outer, inner, candidates, acked, drops, holders, seen, historyVars>>

(* One device was enough. *)
EndInner == /\ pc = "inner" /\ inner = <<>>
            /\ Return
            /\ UNCHANGED <<handlers, current, inner, acked, drops, holders, seen, historyVars>>

-----------------------------------------------------------------------------
(* Transactions: some events, acknowledged together or not at all. *)

Acknowledge == /\ pc = "idle" /\ acked < current - 1
               /\ acked' = current - 1
               /\ UNCHANGED <<handlers, dispatchVars, drops, holders, seen, historyVars>>

(* A mutant of Drop: the devices left to try outlive the request. *)
DropPartly == /\ drops < MaxDrops
              /\ pc # "idle" \/ acked < current - 1
              /\ drops' = drops + 1
              /\ pc' = "idle" /\ current' = acked + 1
              /\ outer' = <<>> /\ inner' = <<>>
              /\ UNCHANGED <<handlers, candidates, acked, holders, seen, historyVars>>

(* The connection closes while the dispatcher awaits: its locals are gone,  *)
(* and all events of the transaction come again.                            *)
Drop == /\ drops < MaxDrops
        /\ pc # "idle" \/ acked < current - 1
        /\ drops' = drops + 1
        /\ pc' = "idle" /\ current' = acked + 1
        /\ outer' = <<>> /\ inner' = <<>> /\ candidates' = {}
        /\ UNCHANGED <<handlers, acked, holders, seen, historyVars>>

-----------------------------------------------------------------------------
OnEncryptedMessage == \/ FailRoom \/ FindUsers \/ GiveUp
                      \/ \E d \in Device : FailDevice(d) \/ DecryptWith(d)
                      \/ BeginInner \/ FailInner \/ HandleInner \/ EndInner

Next == \/ \E h \in Handler, type \in Type : Register(h, type)
        \/ \E d \in Device, e \in Event : Learn(d, e)
        \/ Begin \/ Handle \/ End
        \/ OnEncryptedMessage
        \/ Acknowledge \/ Drop

Spec == Init /\ [][Next]_vars

-----------------------------------------------------------------------------
TypeOK == /\ handlers \in [Type -> Seq(Handler \cup {Decrypt})]
          /\ pc \in {"idle", "outer", "decrypt", "dispatch", "inner"}
          /\ current \in 1 .. MaxEvent + 1 /\ acked \in 0 .. current - 1 /\ drops \in 0 .. MaxDrops
          /\ outer \in Seq(Handler \cup {Decrypt}) /\ inner \in Seq(Handler)
          /\ candidates \subseteq Device
          /\ holders \in [Event -> SUBSET Device]
          /\ seen \in [Handler -> Seq((0 .. MaxDrops) \X Event)]
          /\ due \in [Event -> SUBSET Handler]
          /\ keyed \subseteq Encrypted /\ excused \subseteq Encrypted
          /\ pc = "idle" => outer = <<>> /\ candidates = {}
          /\ pc # "inner" => inner = <<>>

(* A handler sees the events in their order, encrypted and plain ones       *)
(* alike, and each of them once, however many devices can decrypt it; only  *)
(* a dropped request makes it see events again (handle_event,               *)
(* on_encrypted_message).                                                   *)
InOrderOnceEach ==
    \A h \in Handler : \A i, j \in DOMAIN seen[h] : i < j =>
        \/ seen[h][i][1] < seen[h][j][1]
        \/ seen[h][i][1] = seen[h][j][1] /\ seen[h][i][2] < seen[h][j][2]

(* An event that was dispatched was seen by all handlers that had been      *)
(* registered for it, and in the clear if any device had its key when the   *)
(* users in the room were collected, whichever devices were asked first,    *)
(* unless the room or the decrypted event was unusable (add_event_handler,  *)
(* on_encrypted_message).                                                   *)
NobodyMissesReadableEvents ==
    \A e \in 1 .. current - 1 : \A h \in due[e] :
        \/ Saw(h, e)
        \/ h \in Range(handlers["message"]) /\ e \in Encrypted \ (keyed \ excused)

(* A handler of encrypted events sees one only when the handlers of its     *)
(* decrypted form are through with it: base handlers come first             *)
(* (add_base_handlers).                                                     *)
DecryptedFirst ==
    \A h \in Range(handlers["encrypted"]) \ {Decrypt} : \A e \in keyed \ excused :
        (\E i \in DOMAIN seen[h] : seen[h][i] = <<drops, e>>) =>
            \A g \in due[e] \cap Range(handlers["message"]) : Saw(g, e)
=============================================================================
