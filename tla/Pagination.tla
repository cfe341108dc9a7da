----------------------------- MODULE Pagination -----------------------------
(***************************************************************************)
(* Room::get_raw_messages and Room::get_raw_message_stream: pages of a     *)
(* room's events are asked for, one request per page, until one comes      *)
(* without a token for the next, while events keep coming.                 *)
(*                                                                         *)
(* The homeserver is external.  A token is a place in the timeline: the    *)
(* number of events before it.  A page moves the token on but may be       *)
(* empty: the homeserver leaves out events that are not in Shown.          *)
(***************************************************************************)
EXTENDS Integers, Sequences, FiniteSets, Functions

CONSTANTS MaxEvent,  \* bound: events 1..MaxEvent come
          Shown      \* those that the homeserver shows to this user

Event == 1..MaxEvent

ASSUME MaxEventAssumption == MaxEvent \in Nat
ASSUME ShownAssumption == Shown \subseteq Event

VARIABLES timeline,   \* how many events there are
          direction,  \* "f" or "b"
          streams,    \* whether this is the stream
          stage,      \* where the reader is
          next_token, \* -1: none
          page,       \* the stream's chunk: what is left to yield
          last,       \* the page had no token
          messages,   \* what was collected, or yielded
          origin,     \* history: how many events there were at the first request
          reached     \* history: the place the last page came to

readerVars == <<stage, next_token, page, last, messages, origin, reached>>
paginationVars == <<timeline, direction, streams, readerVars>>

ReaderInit == /\ timeline \in 0..MaxEvent
              /\ direction \in {"f", "b"} /\ streams \in BOOLEAN
              /\ stage = "request" /\ next_token = -1 /\ page = <<>> /\ last = FALSE
              /\ messages = <<>> /\ origin = -1 /\ reached = -1

Grow == /\ timeline < MaxEvent
        /\ timeline' = timeline + 1
        /\ UNCHANGED <<direction, streams, readerVars>>

-----------------------------------------------------------------------------
(* The homeserver's answers. *)

(* What it shows between two places, in the reader's direction. *)
Between(from, to) == Shown \cap (IF direction = "f" THEN from + 1 .. to ELSE to + 1 .. from)

Earlier(e, g) == IF direction = "f" THEN e < g ELSE e > g

InOrder(s) == \A i, j \in DOMAIN s : i < j => Earlier(s[i], s[j])

(* A page of the events S: each of them once, in the reader's direction. *)
Chunks(S) == {s \in [1..Cardinality(S) -> S] : InOrder(s) /\ Range(s) = S}

(* The place a request without a token starts at. *)
FirstPlace == IF direction = "f" THEN 0 ELSE timeline

From == IF next_token = -1 THEN FirstPlace ELSE next_token

(* A request at From gets the page up to to: it has no token if there is    *)
(* nothing beyond, and moves on otherwise.                                  *)
PageEnds(to) == IF direction = "f"
                THEN to \in From + 1 .. timeline \/ (to = From /\ From = timeline)
                ELSE to \in 0 .. From - 1 \/ (to = From /\ From = 0)

Beyond(to) == IF direction = "f" THEN to < timeline ELSE to > 0

-----------------------------------------------------------------------------
(* What the reader does with a page: get_raw_messages appends it and asks   *)
(* for the next, the stream yields it before it asks for another.           *)
Keep(chunk) == IF streams
               THEN stage' = "yield" /\ page' = chunk /\ UNCHANGED messages
               ELSE /\ stage' = (IF last' THEN "done" ELSE "request")
                    /\ messages' = messages \o chunk /\ UNCHANGED page

(* Mutants of Receive: the token is not passed on; *)
ReceiveWithoutToken(to) ==
    /\ stage = "request" /\ PageEnds(to)
    /\ last' = ~Beyond(to) /\ reached' = to
    /\ origin' = IF origin = -1 THEN timeline ELSE origin
    /\ \E chunk \in Chunks(Between(From, to)) : Keep(chunk)
    /\ UNCHANGED <<timeline, direction, streams, next_token>>

(* an empty page is taken for the last. *)
ReceiveToEmptyPage(to) ==
    /\ stage = "request" /\ PageEnds(to)
    /\ last' = (~Beyond(to) \/ Between(From, to) = {}) /\ reached' = to
    /\ next_token' = IF Beyond(to) THEN to ELSE next_token
    /\ origin' = IF origin = -1 THEN timeline ELSE origin
    /\ \E chunk \in Chunks(Between(From, to)) : Keep(chunk)
    /\ UNCHANGED <<timeline, direction, streams>>

(* A page arrives. *)
Receive(to) ==
    /\ stage = "request" /\ PageEnds(to)
    /\ last' = ~Beyond(to) /\ reached' = to
    /\ next_token' = IF Beyond(to) THEN to ELSE next_token
    /\ origin' = IF origin = -1 THEN timeline ELSE origin
    /\ \E chunk \in Chunks(Between(From, to)) : Keep(chunk)
    /\ UNCHANGED <<timeline, direction, streams>>

(* The consumer polls the stream: the next event, *)
Yield == /\ stage = "yield" /\ page # <<>>
         /\ messages' = Append(messages, Head(page))
         /\ page' = Tail(page)
         /\ UNCHANGED <<timeline, direction, streams, stage, next_token, last, origin, reached>>

(* A mutant of TurnPage: events of the page are left behind. *)
TurnPageEarly == /\ stage = "yield"
                 /\ stage' = IF last THEN "done" ELSE "request"
                 /\ UNCHANGED <<timeline, direction, streams, next_token, page, last, messages, origin, reached>>

(* or the next request, or the end of the stream. *)
TurnPage == /\ stage = "yield" /\ page = <<>>
            /\ stage' = IF last THEN "done" ELSE "request"
            /\ UNCHANGED <<timeline, direction, streams, next_token, page, last, messages, origin, reached>>

(* The request fails, or its answer has no chunk (the status is not looked  *)
(* at): get_raw_messages forgets what it has, the stream ends in an error.  *)
FailPage == /\ stage = "request"
            /\ stage' = "failed"
            /\ messages' = IF streams THEN messages ELSE <<>>
            /\ UNCHANGED <<timeline, direction, streams, next_token, page, last, origin, reached>>

-----------------------------------------------------------------------------
Read == (\E to \in 0..MaxEvent : Receive(to)) \/ Yield \/ TurnPage \/ FailPage

ReaderNext == Grow \/ Read

ReaderSpec == ReaderInit /\ [][ReaderNext]_paginationVars

(* Requests get an answer or an error, and the consumer of a stream polls.  *)
FairReaderSpec == ReaderSpec /\ WF_paginationVars(Read)

-----------------------------------------------------------------------------
ReaderTypeOK == /\ timeline \in 0..MaxEvent /\ origin \in -1..timeline /\ reached \in -1..timeline
                /\ next_token \in -1..timeline
                /\ direction \in {"f", "b"} /\ streams \in BOOLEAN
                /\ stage \in {"request", "yield", "done", "failed"}
                /\ last \in BOOLEAN
                /\ page \in Seq(Shown) /\ messages \in Seq(Shown)
                /\ stage # "yield" => page = <<>>

(* What the reader has is what the homeserver shows, in the direction asked *)
(* for, each event once and none left out between the first page and the    *)
(* last; and a reader that ends without an error has everything that was    *)
(* there when it began, whatever came meanwhile and however the pages fell. *)
NothingTwiceNothingMissed ==
    /\ reached # -1 /\ (stage # "failed" \/ streams) =>
          /\ InOrder(messages \o page)
          /\ Range(messages \o page) = Between(IF direction = "f" THEN 0 ELSE origin, reached)
    /\ stage = "done" => IF direction = "f" THEN reached >= origin ELSE reached = 0

(* A reader comes to an end even if events keep coming, for the homeserver  *)
(* moves the token on with each page (the loops have no bound of their own). *)
ReaderEnds == <>(stage \in {"done", "failed"})
=============================================================================
