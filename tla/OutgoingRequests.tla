-------------------------- MODULE OutgoingRequests --------------------------
(***************************************************************************)
(* The sync loop's send_outgoing_requests: what the OlmMachine wants sent, *)
(* the list the loop took at its last tick, and what the homeserver makes  *)
(* of it.  Requests are numbered in the order in which the machine lists   *)
(* them; new ones come up at any time, in any place of the list.           *)
(***************************************************************************)
EXTENDS Naturals

CONSTANTS Requests,  \* bound: requests 1..Requests come up
          KindOf,    \* [request -> AnyOutgoingRequest]
          Hopeless   \* requests the homeserver would refuse for ever

Outgoing == 1..Requests

Kind == {"KeysQuery", "KeysUpload", "ToDevice", "SignatureUpload", "RoomMessage", "KeysClaim"}

ASSUME RequestsAssumption == Requests \in Nat
ASSUME KindAssumption == KindOf \in [Outgoing -> Kind]
ASSUME HopelessAssumption == Hopeless \subseteq Outgoing

VARIABLES outbox,   \* OlmMachine: requests that are not marked as sent
          batch,    \* the rest of the list that the loop goes through
          marked,   \* OlmMachine: requests that are
          taken,    \* history: requests the homeserver took
          refused   \* history: requests it answered with an error

outgoingVars == <<outbox, batch, marked, taken, refused>>

OutgoingInit == outbox = {} /\ batch = {} /\ marked = {} /\ taken = {} /\ refused = {}

(* send drops the status of the answer.  The body of an error has none of   *)
(* the fields that these kinds' responses require, so it does not parse:    *)
Strict == {r \in Outgoing : KindOf[r] \in {"KeysUpload", "RoomMessage", "KeysClaim"}}

(* but it passes for the response of a kind that requires none. *)
Lenient == Outgoing \ Strict

(* The request that the loop is at. *)
Current(r) == r \in batch /\ \A q \in batch : r <= q

-----------------------------------------------------------------------------
(* The machine has something new to send. *)
Queue(r) == /\ r \notin outbox \cup marked
            /\ outbox' = outbox \cup {r}
            /\ UNCHANGED <<batch, marked, taken, refused>>

(* A tick of the loop: the list is taken. *)
Tick == /\ batch = {} /\ outbox # {}
        /\ batch' = outbox
        /\ UNCHANGED <<outbox, marked, taken, refused>>

(* A mutant of Mark: the arm of KeysClaim does not mark the request. *)
MarkAllButClaims(r) == /\ batch' = batch \ {r}
                       /\ outbox' = IF KindOf[r] = "KeysClaim" THEN outbox ELSE outbox \ {r}
                       /\ marked' = IF KindOf[r] = "KeysClaim" THEN marked ELSE marked \cup {r}

(* mark_request_as_sent; the loop goes on with the next request. *)
Mark(r) == /\ batch' = batch \ {r}
           /\ outbox' = outbox \ {r}
           /\ marked' = marked \cup {r}

(* process_outgoing_request: the homeserver takes the request and says so. *)
Take(r) == /\ Current(r) /\ r \notin Hopeless
           /\ taken' = taken \cup {r}
           /\ Mark(r)
           /\ UNCHANGED refused

(* A mutant of RefuseOutgoing: marked before its response is parsed. *)
RefuseAndMarkOutgoing(r) == /\ Current(r)
                            /\ refused' = refused \cup {r}
                            /\ Mark(r)
                            /\ UNCHANGED taken

(* The answer is an error: marked all the same, or the rest of the list is  *)
(* given up until the next tick.                                            *)
RefuseOutgoing(r) == /\ Current(r)
                     /\ refused' = refused \cup {r}
                     /\ IF r \in Lenient THEN Mark(r) ELSE batch' = {} /\ UNCHANGED <<outbox, marked>>
                     /\ UNCHANGED taken

(* No answer arrives, whether or not the request did: given up as well. *)
Lose(r) == /\ Current(r)
           /\ taken' \in {taken} \cup {(taken \cup {r}) \ Hopeless}
           /\ batch' = {}
           /\ UNCHANGED <<outbox, marked, refused>>

-----------------------------------------------------------------------------
Answer(r) == Take(r) \/ RefuseOutgoing(r) \/ Lose(r)

OutgoingNext == Tick \/ \E r \in Outgoing : Queue(r) \/ Answer(r)

OutgoingSpec == OutgoingInit /\ [][OutgoingNext]_outgoingVars

(* The loop runs and its timer ticks.  A request gets an answer or an error. *)
(* One that is made again and again is taken at some time, or refused at    *)
(* some time if the homeserver will never have it.                          *)
FairOutgoingSpec == /\ OutgoingSpec
                    /\ WF_outgoingVars(Tick)
                    /\ WF_outgoingVars(\E r \in Outgoing : Answer(r))
                    /\ \A r \in Outgoing \ Hopeless : SF_outgoingVars(Take(r))
                    /\ \A r \in Hopeless : SF_outgoingVars(RefuseOutgoing(r))

-----------------------------------------------------------------------------
OutgoingTypeOK == /\ outbox \subseteq Outgoing /\ batch \subseteq outbox
                  /\ marked \subseteq Outgoing \ outbox
                  /\ taken \subseteq Outgoing \ Hopeless
                  /\ refused \subseteq Outgoing

(* What the machine believes sent was taken by the homeserver, except that  *)
(* a refusal passes for an answer if the response needs no field (send,     *)
(* process_outgoing_request).                                               *)
MarkedWasTaken == marked \subseteq taken \cup (Lenient \cap refused)

(* A request goes out, however often the requests before it fail, unless    *)
(* one of those before it needs a field in its response and is always       *)
(* refused: that one holds up the whole list (send_outgoing_requests).      *)
Blocked(r) == \E q \in Hopeless \cap Strict : q <= r

EverythingElseGoesOut ==
    \A r \in Outgoing : r \in outbox /\ ~Blocked(r) ~> r \in marked
=============================================================================
