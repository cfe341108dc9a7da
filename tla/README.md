# guardian-bot: TLA+ specifications of masquerade-sdk

masquerade-sdk (`src/crates/masquerade-sdk/`) is a Rust library for Matrix
application services: a homeserver pushes transactions to it over HTTP, and the
library acts for a set of users, each with a device that does end-to-end
encryption. This directory holds a model of the parts of it where the order of
things matters, what TLC checks of the model on small instances, and what TLAPS
proves of it for all instances. File names below are relative to
`src/crates/masquerade-sdk/src/appservice/` (`appservice.rs` is one level up).

## The system

    homeserver --PUT /transactions/{id}--> authorize --> TransactionLog.lock_while
                                                              | one attempt per id
                                                              v
                                                        handle_transaction
                               extract_sync_tasks  ----------+---------- handle_event, one after the other
                                    |                                       |
                     ensure_device: UserStore, UserInner.device      EventHandlerStore: member, encryption, encrypted message
                                    |  channel(50)                          |
                                    v                                       v
                          Device::run, the sync loop -- its start --> RoomStore --> OlmMachine.update_tracked_users
                                    |
                                    v
                          OlmMachine.receive_sync_changes, outgoing requests, presence

| component | state | operations | correct when |
| --- | --- | --- | --- |
| transaction endpoint and log (`transaction.rs`, `handler.rs` 119-223, `appservice.rs` 133-151) | map from id to a OnceCell with the answer | lock_while, handle_transaction, extract_sync_tasks, handle_event | one attempt at a time, one outcome, a 200 means done, keys before events |
| device sync loop (`device.rs`) | channel, receiver slot, cancellation token | send_sync_changes, run, stop, is_running | one reader, no change lost or overtaken, stop reaches the loop and ends it |
| users and devices (`user.rs`, `handler.rs` 73-102, 229-291) | UserStore, device of each UserInner | ensure_device, create_user, create_device, the startup | all changes for a user reach one device, which has one loop |
| room store (`room.rs`, `appservice.rs` 238-264) | known rooms, their members, encrypted or not | populate_known_rooms, add_room_member, remove_room_member, upgrade_room_encryption, get_encrypted_members, update_tracked_users | never behind the homeserver but for events to come and for what happened while nobody of the service was in the room, never downgraded, members of encrypted rooms tracked |
| encryption (`encryption.rs`, `device.rs` 217-244) | an OlmMachine per device (external) | send_message, encrypt_event, decrypt_event, send_outgoing_requests, sync | members can read what they are sent, and only members of the stored room can; a request is marked as sent only when it was |
| event dispatch (`event_handler.rs`, `appservice.rs` 230-285) | handlers by event type | insert, get, handle, dispatch_event | handlers run in order of registration, their failures stay their own |
| listener and startup (`appservice.rs` 105-131, `handler.rs` 73-113) | none of its own; the bot on the homeserver | run: listener and startup in one select, ping, profile, registration | a start that fails is no obstacle to the next; a running bot is set up |
| room messages (`room.rs` 95-163) | none | get_raw_messages, the message stream | every event once, in order, and an end |
| HTTP client, builder, configuration, registration, errors | configuration | construction, requests, parsing | sequential; nothing to interleave |

Everything runs on a multi-threaded tokio runtime, so two tasks interleave at
every await and at every lock. What makes the code hard:

  - *dropped requests.* axum drops the future of a request whose connection
    closes, at whatever await it is. Homeservers time out and retry, so this is
    the normal case under load, and no step after an await can be relied on.
  - *check, then act* over separate locks: ensure_device, upgrade_room_encryption,
    run's token and receiver, update_tracked_users.
  - *a homeserver that changes* while its answer is awaited or is on its way, or
    while no user of the service is in the room and nobody is told.
  - *errors that are only logged* (event handlers, the loop, sync), after which
    the transaction still counts as done, and errors that are kept (the log).

`PROJECT.json` lists each of these hazards at its line with the properties that
cover it.

## Modules

| module | what it is |
| --- | --- |
| `OnceResponse` | abstract: one outcome per transaction id, every answer is that outcome, no work once it is known |
| `TransactionLog` | the endpoint, the log and the body of handle_transaction; implements `OnceResponse` |
| `TransactionLogProofs` | theorems about `TransactionLog` |
| `DeviceLoop` | one DeviceInner: channel, receiver, token, run, stop and the loop |
| `DeviceLoopProofs` | theorems about `DeviceLoop` |
| `InOrderDelivery` | abstract: what a device is promised about the changes of the transactions 1, 2, ... |
| `SyncPipeline` | handle_transaction and `DeviceLoop` composed, for one device; implements `DeviceLoop` and `InOrderDelivery` |
| `SyncPipelineProofs` | theorems about `SyncPipeline` |
| `DeviceRegistry` | UserStore, devices and loops, as ensure_device and the startup make them |
| `DeviceRegistryProofs` | theorems about `DeviceRegistry` |
| `RoomStore` | the room store under dispatch, starting loops and a changing homeserver |
| `RoomStoreProofs` | theorems about `RoomStore` |
| `EventDispatch` | handlers, their registration, and the second dispatch of decrypted events |
| `EventDispatchProofs` | theorems about `EventDispatch` |
| `MessageSending` | concurrent calls of send_message into one room, with encryption |
| `OutgoingRequests` | the list of requests the sync loop sends at a tick |
| `Startup` | starts of the service and what they leave on the homeserver |
| `StartupProofs` | theorems about `Startup` |
| `Pagination` | reading a room's events page by page, at once or as a stream |
| `MessageProofs` | theorems about `MessageSending`, `OutgoingRequests` and `Pagination`, which share no name and are extended together |
| `MC...` | instances for TLC |

The state of a task is its place in the code (`pc`) and its locals; a step is
what happens between two awaits or under one lock. Definitions carry the names
of the functions they model where they can. A definition whose comment begins
"A mutant of" is no part of the specification: it is a plausible bug in the
definition that follows it, which a property must notice.

**TransactionLog.** A connection sends a request (`Request`), is authorised or
not, looks up the cell under the map's mutex (`Lookup`), finds a value
(`Repeat`) or takes the permit of the OnceCell (`Acquire`) and runs the body:
one `Enqueue` per counted device in any order (the map is a HashMap), then
`BeginEvent`/`EndEvent` for each event. `FailSync` and `FailEvent` are the error
returns, `Finish` stores the status, 200 or 500 alike. `Drop` is the closed
connection, possible at every label; OnceCell then releases the permit.

**DeviceLoop.** `Send`/`Accept`/`Abandon` are the bounded send and its dropped
request. A call of run goes from `Begin` over `SetToken` to `TakeReceiver` or
`Refuse`; the loop polls its branches in the order of the biased select
(`SeeCancel`, `Receive`, `Tick`, else `Sleep`), so the moment between polling the token
and polling the channel is a state (`polled`) in which `Stop` can come.

**DeviceRegistry.** A task is a call of ensure_device or the startup; since it
makes at most one UserInner, one DeviceInner and one loop, these carry its name.
The steps are the lookups and insertions, each under its own lock. `RunLoop`
needs the arm that spawned the loop to be still there, because it holds the
only strong reference to the User; else `FailLoop`. The history variable
`disturbed` records the users whose first calls collided, broke off between
storing the user and storing its device, or came before the startup created the
bot anew. The code makes no promise for them, and the run
`device_registry_loops` shows what happens; for all others the three
`Undisturbed...` properties hold.

**RoomStore.** The homeserver (`Change`) changes joined members and encryption.
The registration (`appservice.rs` 208-212) claims a user and no rooms, so the
service is told of a change (`Told`) only while one of its users is in the room,
or when one comes or goes; the model assumes that it is told of every such
change, in order. Anything else happens in silence; a join or an encryption stays
in `untold` until an answer with the room's state has it (or the member leaves
again). Likewise the homeserver answers
joined_members for a user in the room, and one who left gets the encryption as of
when they left (`FetchMembers`, `Encryption`).

One dispatcher handles the events in order, for a
homeserver has one transaction on its way at a time; `Drop` takes it back to the
first event that was not acknowledged. A task per user is the start of its sync
loop. The write lock of `rooms` is a variable only where the code keeps it across
requests (`AddUnknown`, `LockRooms`); the two requests of from_homeserver answer
in either order and at different moments of the homeserver. A leave may be
passed over (`PassOver`), because membership_change is asked without the
previous membership. OlmMachine's tracked users only grow. `misread` and
`missed` record the failures the code passes over: an error status read as
"not encrypted", and an update of tracked users that was given up.

**EventDispatch.** `Begin` clones the handlers of an event's type, `Handle` runs
them in turn; the base handler on_encrypted_message (`FindUsers`, `FailDevice`,
`DecryptWith`, `GiveUp`) tries the devices of the users in the room in any order
(the users come from a set) and dispatches the decrypted event (`BeginInner` to
`EndInner`) before the other handlers of the encrypted one run. Handlers
register (`Register`) and keys arrive (`Learn`) at any time. The history
variables record who was registered when an event came (`due`), which events
were readable when they were tried (`keyed`) and which met an unknown room or an
unusable plaintext (`excused`). The errors handle_event returns before it calls
a handler end the transaction and are modelled in `TransactionLog`.

**SyncPipeline.** One device and a homeserver that sends a transaction after
the other. `Begin` and `Enqueued` are `Send` and `Accept` of `DeviceLoop` with
a change named after the transaction and the attempt at it; `Acknowledge`,
`Refuse` and `Drop` end the attempt; `Loops` are the steps of the loops, which
run, stop and run again meanwhile. That a transaction has one attempt at a time
is taken from `TransactionLog`, where it is proved. The handler is not told when
a change has reached the OlmMachine; `OnlyLatestKeysAreMissing` says how far
behind that may be when events are dispatched.

**MessageSending.** A call of send_message reads the kind of the stored room
(`Start`) and either sends in the clear or goes through get_missing_session
(`FindMissing`, `Claim`), share_room_key (`ReadMembers`, `Share`, then a request
per recipient: `Deliver`, `Refuse` or `LoseAnswer`) and `Encrypt`. Each reads
the members anew, and other calls, joins, leaves and the upgrade of the room
come in between. The OlmMachine is the part that is external and shared: users
tracked, known and in session, and the current group session with the users it
was marked as shared with (`shared`) and those whose request is not marked
(`pending`); it makes a new group session when a recipient is no longer among the
members it is given, or when the old one has served its time. `members` are those
of the stored room: a leave that is passed over (as in `RoomStore`) does not
change them. What a call may rely on is in the history
variables: `steady`, the known users who are members all the while, `exposed`,
those who were stored as members at some moment of it or in what another call had read,
and `excused`, those the homeserver had no one-time key for or refused the
request of. A device per user is enough: requests are per user here, and a
user with several devices is several users with one membership.

**OutgoingRequests.** `Tick` takes the list of what is not marked as sent, and
the loop goes through it in order. send drops the HTTP status, so the body of an
error reaches the parser of the response: the kinds in `Strict` require a field
it does not have and fail, which ends the list until the next tick; the others
take it for an answer and the request is marked (`RefuseOutgoing`). `Hopeless` are
requests the homeserver will never have.

**Startup.** A start goes from request to request (`Onward`), with what each
does to the bot on the homeserver (`Effect`), branching at the profile
(`GetProfile`, `NoProfile`, where an error of any kind means there is no user).
`Fail` is an error at any request, or a killed process, whether or not the
homeserver did what was asked; run returns, and the listener with it. `halfway`
records that a start, or somebody before the first one, left the bot without its
device.

**Pagination.** A token is a place in the timeline. The homeserver chooses how
far a page goes (`Receive`) and may show nothing of it; the page is any list
of what it shows, each event once and in the reader's direction (`Chunks`). The
stream yields it event by event before it asks for the next (`Yield`,
`TurnPage`), get_raw_messages collects. The timeline grows at any time (`Grow`).
The two loops differ in what an error leaves: an Err alone, or an Err after what
was yielded (`FailPage`).

## Runs

| run | shows | instance |
| --- | --- | --- |
| `transaction_log` | `OneAttemptAtATime`, `AcknowledgedMeansDone`, `KeysBeforeEventsInOrder`, `RepeatsOnlyAfterDrops`, `EveryRequestEnds`, and the refinement of `OnceResponse` | three connections, one transaction with two devices and two events, two drops: a running attempt, one waiting for its permit, and one that arrives after the answer; a drop of the retry too |
| `device_loop` | `OneLoop`, `NoLossNoReorder`, `StopReachesTheLoop` | three runs, three changes, capacity two: a loop, its successor and a refused one; a full channel with a sender waiting |
| `device_loop_live` | `StoppedLoopEnds`, `ChangesReachTheOlmMachine`, `SendersGetRoom` | two runs, two changes, capacity one |
| `device_registry` | `UndisturbedCallsAgree`, `UndisturbedDeviceGetsItsLoop`, `UndisturbedLoopIsTheOnlyOne` | the startup, three calls about the bot (two alike, hence symmetric, one with another device id) and one whose user id does not parse |
| `device_registry_loops` | `OneLoopPerDeviceId` is violated | the startup and one call about the bot, with the same device id |
| `room_store` | `MembersCovered`, `EncryptionCovered`, `TrackedCovered`, `NeverDowngraded` | a room in any initial state, two users (symmetric) and a stranger, two events and a change nobody is told of (so that a user leaves, something happens, and the user is back), one drop |
| `event_dispatch` | `InOrderOnceEach`, `NobodyMissesReadableEvents`, `DecryptedFirst` | a plain event between two encrypted ones, two handlers and two devices (each pair symmetric), one drop |
| `message_sending` | `SteadyMembersCanRead`, `OnlyStoredMembersCanRead`, `NobodyIsMarkedInVain`, `ClearOnlyBeforeUpgrade` | two calls and two other users (each pair symmetric), a room in any initial state, two joins or leaves (removed or passed over), any request refused or its answer lost |
| `outgoing_requests` | `MarkedWasTaken`, `EverythingElseGoesOut` | five requests of five kinds, a lenient and a strict one refused for ever, one behind them |
| `sync_pipeline` | `OnlyLatestKeysAreMissing`, and the refinement of `InOrderDelivery` | four transactions with two attempts each, a channel of two, two runs (symmetric): more changes than the channel and the hand of a loop hold |
| `startup` | `RunningMeansSetUp`, `ServiceComesUp` | three faults, a bot in any initial state, any number of starts |
| `pagination` | `NothingTwiceNothingMissed`, `ReaderEnds` | five events, two of them hidden and next to each other (so that a page may be empty), both directions, both readers |

The type invariants are checked where a plausible bug would show in them and are
proved for all modules.
Transactions are independent in the
log (a cell each), so the safety run spends its states on more connections
rather than more transactions. Two users suffice in `RoomStore` because every
property is about one user's tracking and one room, the other user being the
one whose populate_known_rooms or membership interferes; one room suffices
because rooms share nothing but the lock, which the other user's start contends
for already. In `MessageSending` two calls make every interference a call can
meet (a session made, shared, or superseded between two of its steps), and the
theorems hold for any number.

Deadlock is checked in the runs of `TransactionLog`, whose connections can
always send another request, and of `Startup`, which is always started again. In the others it is not: runs, changes, tasks and
events are finite, and a service with nothing to do stands still.

**A disagreement with the code's own words.** `take_receiver` refuses with
"Running multiple sync loops for device {}. This is not allowed"
(`device.rs` 112, `error.rs` 89). The check is per DeviceInner. In
`device_registry_loops` a service restarts and the homeserver has a transaction
waiting that counts keys for the bot's device. The listener serves it while the
startup is still at the ping: ensure_device creates the bot, its device and a
loop; the startup then creates the bot and its device again, with the same id,
and both loops run (on a multi-threaded runtime the spawned loop can be polled
before its arm ends). Two OlmMachines then share one crypto store file. The
same happens to any user when two first calls of ensure_device overlap, which a
homeserver that sends one transaction at a time does not cause, but nothing in the
code excludes: transactions with different ids do not
wait for each other.

**What else the modelling showed** (true of the code, contradicted by no text of
the repository): when the bot leaves a room, the stored room stays, and when it
is back add_room_member (`room.rs` 378-380) adds the bot and fetches nothing, so
who joined meanwhile is missing, and a room encrypted meanwhile gets messages in
the clear, with no event to come (`untold`, which `MembersCovered` and
`EncryptionCovered` except by name); a member who leaves stays in the stored room,
when the leave is passed over, and goes on getting keys; a call of run that
overtakes a stopping loop is refused after it has set its token, which stays, so
is_running says yes with nothing running (`StopReachesTheLoop` promises a stop
that reaches the loop there is, and does not promise a loop where there is a
token); a 500 is the answer to every retry, for good; a call of run on
a running device takes its token out of stop's reach; a request dropped between
storing a user and storing its device leaves a user whose later device has no
loop; an encryption event whose handler was dropped while users were updated is
ignored when it comes again; an error status of the encryption request makes a
room unencrypted until its next encryption event; a message is encrypted with
the group session the machine has when it is encrypted, which another call may
have made, and not yet shared, after this one shared its own
(`SteadyMembersCanRead` excludes it by `key = via`); a call that had read the
members before somebody was removed makes a group session for them too, and other calls
use it until a key is shared again (`exposed`); a refused key query counts as
answered, since its response needs no field; a refused key upload or key claim
holds up whatever is listed behind it; a start that breaks off between the
registration of the bot and that of its device is never made good; a bot whose
profile has no display name never gets one; a profile request that fails for a
moment ends the start, because the bot is then registered a second time.

## Fairness

`TransactionLog!FairSpec`: weak fairness of each connection's `Serve`. The
runtime polls a ready task, and what the body awaits arrives; this excludes a
homeserver that never answers a request (the client has no timeout) and a channel
that nobody drains. Requests and drops are not fair.

`DeviceLoop!FairSpec`: weak fairness of each loop and of the step from the armed
token to the receiver, strong fairness of `Accept`, because tokio's channel
serves waiting senders first come, first served, so room that comes and goes
comes to each of them. Nobody is obliged to call run, stop or send.

`OutgoingRequests!FairOutgoingSpec`: weak fairness of the tick and of an answer or an
error to the current request, since the loop runs and its timer ticks; strong
fairness of `Take`, and of `RefuseOutgoing` for what the homeserver will never have: a
request that is made over and over does not fail for want of an answer each
time. Nothing new has to come up.

`Startup!FairSpec`: weak fairness of `Run`: whoever operates the service starts
it again when it is down, and a request gets an answer or an error. Faults are
bounded, which is how "once requests succeed" is said; the loop may be stopped any
number of times.

`Pagination!FairReaderSpec`: weak fairness of `Read`: requests get an answer or an
error, the consumer of a stream polls. New events need not come, and the number
of those that may is bounded, as is the number of those that can be missed: the
homeserver moves the token on with each page.

## Proofs

All theorems are of the form `Spec => []Inv` or `Spec => AbstractSpec`, for every
value of the constants that meets the ASSUMEs of the base module (the transaction
contents are functions on the ids, the capacity is positive, the null values are
no real ones). `tlapm` checks them to the last leaf; nothing is assumed besides.

`TransactionLogProofs`: the inductive invariant `IInv` adds to the properties
(a) that the permit of a cell is held by exactly the connection that runs its
body, and by nobody once the cell has a value, which gives mutual exclusion and
makes the counters of a transaction change in one place only; (b) how far a
running body is: the devices it has enqueued are those no longer in `todo`, the events before `nextEvent`
are handled; (c) that the outcome is among the answers and an OK outcome means
done. `RepeatsOnlyAfterDrops` is not inductive as it stands: (d) distinguishes what the
running attempt has done (at most 1 + dropped) from what it has yet to do (at most
dropped). `Refinement` maps each step of a body to `Work`, its end to `Decide`,
a hit in the log to `Repeat`, and all else to stuttering.

`DeviceLoopProofs`: `OneLoop` is inductive given types; `HandInv` says that only a
loop in the middle of a sync holds a change, which makes `NoLossNoReorder`
inductive; `TokenInv` says that the token in the device belongs to a call that
is not over and is not cancelled, which gives `StopReachesTheLoop`.

`SyncPipelineProofs`: `ImplementsDeviceLoop` shows that a step of the pipeline is
one of `DeviceLoop` or leaves it alone (the homeserver offers a change that is not
on its way already); so the theorems of `DeviceLoopProofs` hold in the pipeline
and give the types and `NoLossNoReorder`. What is added is `AcceptedInOrder`:
every acknowledged transaction has had its change accepted, and while events are
dispatched the last accepted change is that of the transaction at hand. `Delivered` maps
an accepted change to `Arrive` and a 200 to `Acknowledge`. `OnlyLatestKeysAreMissing`
follows from `NoLossNoReorder` and the capacity: what is accepted and not synced
is in the channel or in the hand of the one loop.

`RoomStoreProofs`: the longest proof. Its invariant has a part for each thing
that the properties rest on. `ControlInv`: what each task holds at its place,
in particular that an answer under way is for a room that is unknown until it
is stored, because the write lock is held across the requests; `NeverDowngraded`
follows from it. `RejoinInv`: whoever is in a room has a join after their last
leave among the events, or joined untold, so handling events late does no
harm for good; that a leave takes effect late, over an answer that held the
untold join (`LeaveToCome`), needs three events, one more than the run has.
`CoverInv`: whatever the stored rooms, and the answers that will be stored, lack
(a member, the encryption) is among the events from the first on that has not
had its effect, unless it is `untold`; `MembersCovered` and `EncryptionCovered` are its part about the
stored rooms. For `TrackedCovered`, three parts say who is going to update
whom: `ListInv` (a user whose loop has its list of rooms is in no unknown room
but those on it and those it will be told of), `FetchedInv` (the same of the
members in an answer), and `UpdateInv` (while the dispatcher goes through the
users of a room, those it has passed track all its members). `TrackedInv` is
then inductive: a ready user tracks the members of its encrypted rooms, but for
events to come or an update under way.

`MessageProofs`, about `MessageSending`: `SessionInv` (a group session is made once, by the call it
is named after, so one that has not shared yet has none), `ExposureInv` (members,
views in use and recipients of the current session are within `exposed` of every
call under way, from which `OnlyStoredMembersCanRead` follows at the step that
encrypts), `Served` (per place of a call, in which of the sets the steady members
are: known, then in session, in the view, and at last holding the key or still to
be sent it), and `KindInv` (what a call does follows the kind it read).

`DeviceRegistryProofs`: `OriginInv` (who made which user and device), `AloneInv`
(of an undisturbed user without device at most one task is looking for it),
`MakerInv` (whoever is past the search has the device the store leads to) and
`LoopInv` (that device has its loop or a task about to start it, and no other
device of the user has one).

`EventDispatchProofs`: `PlaceInv` and `ListInv` say where the dispatcher is and that
lists of handlers have no repetitions; `SeenInv`, that a handler that is still to
be called has seen nothing of the current attempt from the current event on,
which makes `InOrderOnceEach` inductive. `DueInv` says that whoever the current
event is due to has seen it, is on a list of those to be called, or is called when
it is decrypted, unless nobody can; `KeyInv`, that of the devices left to try
one has the key as long as the event counts as readable. Together they give
`NobodyMissesReadableEvents` when the dispatcher leaves the event, and with
`FirstInv` (the base handler stays in front, and while it is still to run no
handler of encrypted events has seen the event) they give `DecryptedFirst`.

`MessageProofs`, about `OutgoingRequests`: `MarkedWasTaken` is inductive given
the types. About `Pagination`: `PlaceInv` (the reader goes on where the last page
came to and is through when nothing is beyond) and `GotInv` (what it has is in
order and is what lies between the place it began at and the place it came to);
a page fits because it begins where the last one ended (`PageFollows`).
`StartupProofs`: `SetUpSoFar` says what the requests answered so far have settled.

Only model-checked: the liveness properties (`EveryRequestEnds`,
`StoppedLoopEnds`, `ChangesReachTheOlmMachine`, `SendersGetRoom`,
`EverythingElseGoesOut`, `ServiceComesUp`, `ReaderEnds`), which rest on fairness
and ENABLED and are outside the prover. That a page of given events exists
(`Chunks` is never empty) is an induction over finite sets, which the prover
cannot do either; the invariants do not need it, and in the run `pagination`
readers get every page.

## Not modelled

The OlmMachine, the crypto store, reqwest, axum, ruma and tokio are external and
appear as choices or as the documented behaviour the code relies on (OnceCell,
bounded channel, biased select, fair RwLock not assumed). Of the OlmMachine:
sessions that expire are the choice to make a new group session at any time;
key requests to several users in one request are a request each. Panics: a
panicking handler or loop would unwind its task; the loop would lose the
receiver. Retries of a loop that failed to start: the library has none. Loops
that ensure_device spawned run on after `ApplicationService::run` returned, until
the process ends; `Startup` takes the end of run for the end of the process.
axum::serve does not return by itself, so the other arm of the select is no
step. `init_bot` is called by nothing. Presence and outgoing requests are one
kind of step in the loop: only the time they take matters there. Requests
that keep no state (get_event, send_receipt, send_typing, join_room,
get_devices, set_presence), the HTTP client, builder, configuration, registration
and error formatting are sequential.

## Plan

Done, in the order of importance: `TransactionLog`, `DeviceLoop`,
`DeviceRegistry`, `RoomStore`, `EventDispatch`, `MessageSending`,
`OutgoingRequests`, `SyncPipeline`, `Startup`, `Pagination`, and proofs of every
safety property that a passing run checks. To come:

 1. Abstract specifications for `EventDispatch` (what one handler is promised,
    whatever the others do) and `MessageSending` (who may read an event), with
    refinement theorems as for `TransactionLog` and `SyncPipeline`.
 2. What `OneLoop` of `DeviceLoop` and `DeviceRegistry` say together: one reader
    of a crypto store for every undisturbed user, over stops and runs.

## Running

    tlc -workers 2 -config MCTransactionLog.cfg MCTransactionLog    # and so on, per run of PROJECT.json
    tlapm TransactionLogProofs.tla                                  # about a minute
    tlapm DeviceLoopProofs.tla                                      # and so on, per ...Proofs module

The longest runs, `room_store` and `message_sending`, take a minute or two, as do
`EventDispatchProofs` and `MessageProofs`; `RoomStoreProofs` takes about five.
