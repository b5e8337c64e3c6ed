# A TLA+ model of libmip

libmip drives a WowWee MiP robot over Bluetooth Low Energy. Three layers do the work:

| layer | code | what it is |
|---|---|---|
| `Mip` | `src/src/gattmip.h` | the C++ class: orders, requests, notification decoding, caches |
| GATT | `src/src/libgatt/src/gatt.c`, `att.c` | procedures over ATT, and the encoding of their PDUs |
| `GAttrib` | `src/src/libgatt/src/gattrib.c` | one attribute channel: queues, watches, timeout, callbacks |

Under them are `btio.c` (sockets), `hci.c` (controller commands) and `sdp.c` (service
discovery), and above them a command line prompt and five samples. Everything runs on
one thread, in callbacks of a GLib main loop; that loop is iterated by hand, one
`g_main_context_iteration(NULL, FALSE)` at a time, by the very functions whose effects the
callbacks carry out. So the hard part is not parallelism but *re-entrance*: calls,
dispatches, callbacks of callbacks, timers and the peer's answers interleave in orders
that nobody wrote down and no test of the repository exercises (it has none).

This directory models the queue engine, the GATT procedures on top of it, how the driver gives
orders and what its drive orders carry, and the libraries under them: sockets, the encoding of
PDUs, controller commands and service discovery. TLC checks all of it on small instances. Proved for
every instance are the invariants of the queue engine and that it implements an abstract channel,
and the safety properties of the driver, of the drive orders, of controller commands and of
service discovery; and that each GATT procedure calls back once and frees what it should, and each
socket calls back once, for the reason it has.

## Inventory

| component | state | operations | interacts with | what is hard | what makes it correct | model |
|---|---|---|---|---|---|---|
| GAttrib, `gattrib.c` | two command queues, event list, three GLib source ids, reference count, `stale` | send, cancel, cancel_all, register, unregister, ref/unref; sources `can_write_data`, `received_data`, `disconnect_timeout` | called by `gatt.c` and `Mip`; calls back results and events; owned by the main loop and its user together | re-entrance, timeouts against late answers, failed writes, cancels of what is under way, destruction inside a dispatch | one request out at a time, matched to its answer; timer exactly while one is out; no lost wake-up; each command completed and freed once; exact references | `GAttrib`, `AttChannel`, `AttPdu`, `GAttribProofs`, `GAttribChannelProofs` |
| Mip, `gattmip.h` | `_attrib`, `_is_connected`, `_nattrib`, the caches of what the robot reported | connect, some 60 orders and requests, `pump_up_callbacks`; `connect_cb`, `events_handler`, `notification_post_hook` | `gatt_connect`, `gatt_write_cmd`, `g_attrib_register`; handlers give orders themselves | nested iterations, values returned before anything was sent, reconnection, caches behind the robot | the value returned says what happened; the caches agree with the robot | `Mip`, `MipProofs` |
| Drive arithmetic, `gattmip.h` | the last speed | continuous, distance and timed drives | orders | piecewise byte encodings, clamps, forced deceleration | the robot gets the speed that was asked, within range | `MipDrive`, `MipDriveProofs` |
| GATT procedures, `gatt.c` | one heap object for each procedure under way | discover, find included, read, write, long read and write | chains requests through `g_attrib_send` from result callbacks | termination, partial failure, callback exactly once | each procedure calls back once with what the peer has | `Gatt`, `GattProofs` |
| ATT codec, `att.c` | none | `enc_*`, `dec_*` | `gatt.c`, `Mip` | what fits a buffer, and lists cut at its end | decoding inverts encoding, within the buffer | `AttCodec`; opcodes in `AttPdu` |
| Bluetooth I/O, `btio.c` | options of a socket; a watch for each connect, accept or server | listen, connect, accept, get, set | `gatt_connect`; calls `connect_cb` | one-shot watches on descriptors that may be closed and used again; options that overwrite each other | each connection called back once; an option reads as it was set | `BtIo`, `MCOptions`, `BtIoProofs` |
| HCI, `hci.c` | the socket's filter while a request is under way | `hci_send_req` and one function for each command | controller | events of others in between, late answers, retries and the time left | the answer is that of the request; the filter is restored; nothing unwritten is read | `HciRequest`, `HciTables`, `HciProofs` |
| SDP, `sdp.c` | socket, transaction id and asynchronous request of a session | queries that wait, asynchronous queries, registration, record encoders | one query from `gatt.c`; the SDP server | answers in parts, answers after the time is over, reads that join or cut answers, ids that come again | parts are joined in order, from one request's own answers; the program knows what is registered | `SdpClient`, `SdpProofs` |
| Prompt and samples | none | one call, or a loop of calls | `Mip` | exit before the order is sent | the order is sent | not modelled |
| UUIDs, addresses, tables, helpers, joystick | none to speak of | conversions, parsing | all | - | - | not modelled |

`PROJECT.json` holds the full list of parts with their files, and the list of hazards: what
is hard to test in this code, each with its line and the properties that would catch it.

## Modules

| module | models |
|---|---|
| `AttPdu` | ATT opcodes, which answers which (`opcode2expected`, `is_response`), which event a PDU matches (`match_event`) |
| `GAttrib` | the queue engine |
| `AttChannel` | what the queue engine promises: an abstract sequential channel |
| `GAttribChannel` | the refinement mapping from `GAttrib` to `AttChannel` |
| `MCGAttrib` | instances of `GAttrib` |
| `GAttribProofs` | theorems about `GAttrib`: protocol, timer, write source, references |
| `GAttribChannelProofs` | each command is accounted for, called back once and never after its end; answers match their requests, and `GAttrib` implements `AttChannel` |
| `Mip` | connect, orders, notifications and the head LED cache of the driver |
| `MCMip` | instances of `Mip` |
| `MipProofs` | theorems about `Mip` |
| `MipDrive` | the bytes of the drive orders, and forced deceleration |
| `MCMipDrive` | instances of `MipDrive` |
| `MipDriveProofs` | theorems about `MipDrive` |
| `Gatt`, `MCGatt` | the procedures of `gatt.c`, and an instance: a peer with services, included services and characteristics |
| `GattProofs` | theorems about `Gatt` |
| `HciTables` | groups, commands and events of `hci.h`, with their codes and sizes |
| `HciRequest`, `MCHci` | `hci_send_req` with each function that calls it, and an instance |
| `HciProofs` | theorems about `HciRequest` |
| `BtIo` | sockets, options and watches of `btio.c` |
| `BtIoProofs` | theorems about `BtIo` |
| `AttCodec` | what `enc_` functions write and `dec_` functions read |
| `MCOptions`, `MCLibrary` | every list of a few options; an instance of `BtIo` and of `AttCodec` |
| `SdpClient`, `MCSdp` | a session of `sdp.c`, and an instance |
| `SdpProofs` | theorems about `SdpClient` |

`GAttrib` and `Mip` meet at the queue: `Mip` sends write commands only, so the connection it
holds is `GAttrib` cut down to them (no timer, no answers), its iteration of the main loop
is what `GAttrib` has as the feature `"nested"`, and the orders it gives from a handler are
sends inside the phase `"events"` there. `Gatt` takes the queue as `AttChannel` promises it: one
request out, answers in order, everything aborted once a request has timed out; that `GAttrib`
keeps this promise is checked by `ImplementsChannel`. When `GAttrib` sends, or does not after a
write that failed, is no part of that promise; `Gatt` follows `can_write_data` there. The other modules stand alone, as their
code does: HCI and SDP have sockets of their own, and `btio.c` is done when the channel is made.

## GAttrib

**State.** `requests`, `responses` and `events` are the three queues, a command being the
fields of `struct command` that matter and the number `n` of the call that made it. A watch
that is only present or absent is a Boolean (`write_watch`); the other two distinguish the
field from the source: `read_watch = "gone"` and `timeout_watch = "fired"` are ids the code
keeps of sources GLib has removed. `rd` and `to` are the frames of `received_data` and
`disconnect_timeout` while they call back. `chan`, `wire` and `inbox` are the link and the
peer; `calls`, `outcome`, `freed`, `cancelled` and `blocked` are history.

**Actions.** One for each way through the code that changes something.

| code | actions |
|---|---|
| `g_attrib_send` | `SendRequest`, `SendResponse` (fresh id), `SendReused` (the id of a long read, at the head) |
| `g_attrib_cancel`, `_cancel_all`, `_register`, `_unregister`, `_unregister_all` | the actions of that name |
| `g_attrib_unref` by the owner | `Unref` |
| `can_write_data` | `WriteNothing`, `WriteError`, `WriteCommand`, `WriteRequest` |
| `received_data` | `ReadStale`, `ReadHup`, `ReadError`, `ReadPdu`, then `HandlerReturns`, `ResultReturns` |
| `disconnect_timeout` | `TimerFires`, `AbortNext`, `AbortDone` |
| peer and link (external) | `PeerAnswers`, `PeerSignals`, `Disconnect` |

A dispatch that calls back is cut at the callback: the application's calls may come there.
A dispatch of another source may come there only in an event handler and only with
`"nested"`, because only the handlers of `gattmip.h` iterate the loop; GLib keeps the source
being dispatched blocked. `destroy_sender` and the last `g_attrib_unref` are part of the
step that causes them.

**Features.** `May` selects what an instance allows: `"nested"`, `"unref"`, `"cancel"`,
`"io_error"`, `"disconnect"`, `"chain"`. `"nested"` and `"unref"` exclude each other by
assumption: nobody in the repository drops the last reference from a handler that iterates
the loop, and the result would be undefined. For the same reason a handler may not
unregister events.

**Properties.**

- `OneOutstanding`, `TimerGuardsRequest`, `SenderAwake`, `RefsExact`: see below, proved.
- `EachCommandOnce`: every accepted call is in exactly one queue, in the hands of one
  callback, or destroyed. `CalledBackOnce`: a request is called back once by then, unless
  cancelled or the attrib went away.
- `NoCallbackAfterEnd`: no callback after a successful cancel or after destruction.
- `LateAnswerIgnored`: after a timeout nothing but aborts is reported.
- `AnswerMatchesRequest`: with a peer that answers what it was asked, an answer completes
  its own request, although the code never compares the two.
- `ImplementsChannel`: `GAttrib` implements `AttChannel`. There a call waits, is
  outstanding, gets one verdict, and the channel fails in order (time out the outstanding
  one, abort the rest, close); watches, references, frames and the timer are gone.
- `SentCompletes`, `AcceptedCompletes`: liveness.

**Runs.**

| run | allows | states | shows |
|---|---|---|---|
| `gattrib_core` | cancel, unref, I/O errors, disconnect; one command, one request, one confirmation kind; 3 calls, 1 event, 1 notification | 578 k | all safety properties and the refinement |
| `gattrib_live` | handlers that iterate the loop, id reuse, cancel, I/O errors, disconnect, a handler for every PDU, and a peer that also sends answers nobody asked for | 397 k | what was written is done with in the end; so is what was accepted, if no write fails; nothing succeeds after a timeout |

*Bounds.* Three calls put one request out, one behind it and a third that arrives, is
cancelled or is re-sent in between, in each queue; the code looks at the head of a queue and
at whether it is empty, and nowhere at a third element. One event and one notification give
each phase of `received_data`, and with `"nested"` a loop over the events that goes on after
a nested dispatch. Unsolicited PDUs are counted (`MaxSignals`) because a peer
may send them for ever.

*Deadlock* is not checked in these runs: with its calls used up and the attrib destroyed the
system really stops.

*Fairness.* `FairSpec` has weak fairness of each of: some dispatch of the write source, some
dispatch of the read source, the return of callbacks, and the timer. GLib dispatches a ready
source of equal priority in the next iteration, and a source stays ready; `Mip` and its
samples iterate for ever. Nothing is assumed of the application or of the peer: a request the
peer ignores is completed by the timer. `AcceptedCompletes` excuses a failed write (`blocked`):
after it the code waits for another event, and a queue that holds only write commands then
waits for ever, which is why `SenderAwake` excuses it too. It speaks of requests and commands
only; an answer to the peer is left in its queue by a timeout.

## Proofs about GAttrib

For every number of calls, events and signals, every set of opcodes and every choice of
features the assumptions allow:

| theorem | says |
|---|---|
| `Inductive` | `Spec => []Inv` |
| `TypeCorrect` | `TypeOK`; never more than three references |
| `SequentialProtocol` | `OneOutstanding`: a sent request is the head of its queue, answers are never outstanding |
| `TimerExact` | `TimerGuardsRequest`: armed if and only if a request is out |
| `NoLostWakeUp` | `SenderAwake`: a ready command has a write source, unless a write failed |
| `RefCount` | `RefsExact`: references are counted exactly; destroyed with the last, never under a handler |
| `CommandsInductive` | `Spec => []CommandsInv` |
| `CommandsAccounted` | `EachCommandOnce`: no command is lost, and none destroyed twice |
| `OneResult` | `CalledBackOnce`: one result for each request, unless cancelled or the attrib went away |
| `NoCallAfterEnd` | `NoCallbackAfterEnd`: no callback after a successful cancel or after destruction |
| `NothingAfterTimeout` | `LateAnswerIgnored`: after a timeout only aborts are reported |
| `HonestInductive` | `Spec => []HonestInv`, for an honest peer |
| `AnswersMatch` | `AnswerMatchesRequest`, for an honest peer |
| `Refinement` | `Spec => ImplementsChannel`, for an honest peer |

The assumptions are the named ones of `GAttrib`: `FeaturesAssumption`, `BoundsAssumption`,
`OpcodesAssumption`. TLC evaluates them in every run. The last three theorems assume `Honest` too:
`Signals`, what the peer sends of its own accord, has no opcode that is an answer. The robot sends
notifications only. It is needed: `received_data` pops the head of the requests for any PDU with the
opcode of an answer, sent or not, so an answer nobody asked for completes a request it has
nothing to do with. `gattrib_live` has such a peer; the two properties are checked by `gattrib_core`.

**Protocol.** None of the first five is inductive alone. `Inv` joins them, because they need each
other, and adds three facts:

- `FrameOK`: while a result is called back no request is out (otherwise an id re-used at the
  head would be put before it, and `OneOutstanding` would fail); the two frames overlap only
  when the timer fires inside an event handler that iterates the loop.
- `AnswersOK`: a queued answer to the peer expects no answer, so it never arms the timer or
  becomes outstanding.
- `LifeOK`: a destroyed attrib has empty queues and no watches, and a timer that fired has
  made it stale or is still aborting.

**Commands.** `CommandsInv` says where every accepted call is, in five parts:

- `EachCommandOnce` itself;
- `WaitingOK`: a queued command is `Fresh`: not called back yet, with the opcode its call expects
  and, if it waits for an answer, with its callback unless it was cancelled. Without it a command
  that is popped and called back might be called back the second time, or never.
- `DoneOK`: one that is destroyed or in the hands of a callback was called back, at most once.
- `UnusedOK`: a number not yet given has no outcome and is not cancelled, which is what makes the next
  command fresh.
- `LateOK`: a stale attrib has no requests and no armed timer; once anything was aborted the attrib is
  stale or still aborting. `LateAnswerIgnored` follows from this and the phase of `received_data`.

**Answers.** `HonestInv` follows the answer of the request that is out (`AnswerOK`): it is still to be
given (`wire`), to be read (`inbox`), or in the hands of an event handler, in exactly one of the three, and
carries that request's number and opcode; if no request is out it is in none of them. Together
with `AbortOK` (nothing is out while the timeout aborts) this makes the pop of the head right.

**Refinement.** Under `Inv`, `CommandsInv` and `HonestInv` every step of `GAttrib` is one of `AttChannel`,
or leaves its variables alone:

| step of `GAttrib` | step of `AttChannel` |
|---|---|
| `SendRequest`, `SendResponse`, `SendReused` | `Submit` |
| `WriteCommand`, `WriteRequest` | `Transmit` |
| `HandlerReturns`, `ReadPdu` when the head of the requests is answered | `Complete` |
| `g_attrib_cancel`, `g_attrib_cancel_all` | `Withdraw` |
| `TimerFires` | `Expire` |
| `AbortNext` | `Abort` |
| `AbortDone` | `Close` |
| the last reference dropped | `Forget` |
| registering, watches, failed reads and writes, other PDUs, the link | none |

There is one lemma for each action, and shared ones for what several actions do
(`AcceptInv` for accepted sends, `DestroySenderInv` for the end of the write source,
`ReadStepInv` and `QuietReadInv` for reading, `DropFacts`, `PopFacts`, `Thinned` for queues
that lose elements; `NumbersOf`, `AppendNumbers`, `ConsNumbers`, `RemoveAtNumbers` for the calls in a
queue; `KeptHonest` and `QuietHonest` for steps that leave the answer alone). `CommandsInv` and
`HonestInv` were model-checked on the instance of `gattrib_core` before they were proved.

The proof of the refinement corrected the models in two places: the status a callback is given was a
`CASE` with overlapping guards (an `ERROR` PDU where another opcode is expected satisfies two),
and a withdrawal in `AttChannel` was a filter defined by recursion, where the removal of a set of calls
(`Without`) says what is meant.

Only model-checked: liveness, which needs fairness and is out of the prover's reach.

## Mip

**State.** `conns` is a record for each channel `gatt_connect` returned: its state, the queue
and write source of its attrib, its next id, what is on the wire and in the inbox. `attrib`,
`is_connected`, `nattrib` and `cached` are `_attrib`, `_is_connected`, `_nattrib` and
`_head_led_cached`. `stack` is the thread: a frame for each call that iterates the main loop
and for each notification handler. `robot` is what the robot's LEDs show.

**One iteration** takes any subset of the sources that are ready (the socket decides) and
dispatches them in any order; its value is whether the subset was empty. A nested iteration
makes the outer one drop what it had left, as GLib clears its list of pending dispatches
when it recurses; a read source whose handler is running is not offered.

| code | actions |
|---|---|
| `connect`, `set_main_loop` | `connect`, `ConnectTries`, `ConnectReturns` |
| `set_head_LED` (both forms), `request_head_LED`, through `send_order` | the actions of that name, `OrderReturns` |
| `pump_up_callbacks` by the application | `Pump`, `PumpReturns` |
| `connect_cb` | `connect_cb` |
| `can_write_data` | `WriteCommand` |
| `events_handler`, `store_results`, `notification_post_hook` | `events_handler`, `HookReturns` |
| robot (external) | `RobotObeys`, `RobotSignals` |

Orders are given only after a first `connect_cb`: the samples exit when `connect()` fails,
and `_attrib` is not initialised before. The head LED orders stand for all of them: every
order goes through the same `send_order`, and this pair is the one that reads a cache to
decide what to send.

**Properties.** `IdIsCount`: each order gets the id that `send_order` expects. `CacheAgrees`:
the cache is what the LEDs will show once everything under way has arrived, unless the last
answer was to a request that a set had overtaken. `IndexSetTouchesOne`: `set_head_LED(idx,
value)`, which sends all four LEDs, changes no other when the robot applies it.
`TrueMeansSent` and `TrueMeansConnected` are what the comments say of returned values.

| run | bounds | shows |
|---|---|---|
| `mip_single` | 1 connection, 3 orders, 1 notification, handlers that give orders, write and connect errors; 640 k states | `TypeOK`, `IdIsCount`, `CacheAgrees`, `IndexSetTouchesOne` hold |
| `mip_sent` | 1 connection | `TrueMeansSent` is violated |
| `mip_ids` | 2 connections | `IdIsCount` is violated |
| `mip_reconnect` | 2 connections | `TrueMeansConnected` is violated |

Three orders are a request, a set that overtakes it and a set by index that reads the cache
in between; `MaxTries` is 2 instead of 100 and gives both ends of the wait. The single LED
set of the instance differs from the default in every LED and has one value above the range.
Deadlock is checked: the application can always pump.

**Proofs.** `MipProofs` assumes `MipBounds` and `MipInputs`, and `Single`, `MaxConnects <= 1`,
where it says so: for one connection. `mip_ids` shows that this is needed.

| theorem | assumes | says |
|---|---|---|
| `Types` | | `TypeOK`: orders queued or written were given, and no source is dispatched that is not ready |
| `SingleInductive` | `Single` | `Spec => [](Inv /\ SingleInv)` |
| `IdsAreCounts` | `Single` | `IdIsCount`, however many orders are given, and from wherever |
| `CachesAgree` | `Single` | `CacheAgrees` |
| `IndexSetsTouchOne` | `Single` | `IndexSetTouchesOne` |

`TypeOK` needs `StackInv`, a fact about the whole stack: at most one frame has something left to
dispatch, because a nested iteration makes the outer ones drop theirs, and what it has left
stays ready until it is dispatched. The other three rest on two facts about the line from the
driver to the robot and back. `LineInv`: the orders the robot has not applied are first those on the
wire and then those in the queue, with consecutive numbers up to the last given. So an order's number says
what the robot has done before it. `LedInv`: an answer no set has overtaken is what the LEDs show now; with
those still to be applied it gives what they will show, which is the cache; and an order by index has,
off its index, what the orders before it leave. Each step has one of six forms (`LineStep`): an order is given,
written or applied, a gesture is made, a notification is handled, or nothing on the line changes; and each form
keeps `LedInv`. The invariants were checked by TLC on the instance of `mip_single` before they were
proved.

## MipDrive

`last_v` and `last_w` are `_last_v_ticks` and `_last_w_ticks`; `sent` is what the last call sent,
`robot` the speeds the robot reads from it, by the ranges in the comments of
`continuous_drive`. One action for each order: `continuous_drive`, `distance_drive`,
`time_drive`, `angle_drive`, `stop`. The double arguments are whole degrees, centimetres and
milliseconds, that is, what they are after the cast to `int`. Parameters are kept as computed in
`sent` and become bytes (`% 256`) where the robot reads them, so that `TypeOK` can say that
nothing is lost in between.

`SpeedAsAsked`: the robot keeps the speed asked for, clamped, whatever reverse was sent first.
`TurnKept`: turns end where they should, up to the 5 degree step. `BrakesToSlow`: a reverse is
sent only to slow the robot down, as long as the ticks the code remembers are what the robot
was told (`tracking`). They are not after `stop()`, after another kind of move, or after ticks
out of range, because the code stores ticks before it clamps them and no other order resets
them; a slower `continuous_drive` then sends a standing robot backwards for a moment.

| run | bounds | shows |
|---|---|---|
| `drive_bytes` | 11 values of ticks for each axis, 32 angles, 7 distances, 7 speeds, 8 times, all on or beside a boundary; sequences of any length; 61 k states | the four properties hold |
| `drive_turn` | no speeds, the same angles | `PositiveIsLeft` is violated |

`MipDriveProofs` proves `BytesFit` (`TypeOK`), `DriveFaithful` (`SpeedAsAsked`) and
`ReverseBrakes` (`BrakesToSlow`) for every set of integer arguments (`DriveInputs` is the only
assumption). The inductive invariant `DriveInv` adds `Tracks`: while `tracking`, the remembered
ticks are the robot's speeds. The round trips of the two encodings (`LinearRoundTrip`,
`AngularRoundTrip`) and the range of the angle loops (`NormRange`) are lemmas. `TurnsEnd`
proves `TurnKept`: the loops that bring an angle into range take whole turns away (`NormTurns`), so
that what the robot reads, direction and degrees, is the turn asked for modulo 360
(`DistanceTurn`), for `angle_drive` up to the division by 5 (`AngleTurn`).

Left out: `speed2ticks` and `ticks2speeds`, regressions in floating point.

## GATT procedures

**State.** `procs` holds a record for each procedure begun: what it was asked, what it has found
or written so far, whether its heap object exists (`held`) and how often it is referenced (`refs`),
and what its callback was called with (`reported`). `queue` and `sent` are the attrib's queue as
`AttChannel` promises it, `channel` whether it still works, `blocked` whether a write failed with
nothing since to wake the sender; `values` and `prepared` are the peer's.

**Actions.** A result callback is a function: of the procedure and the answer, to what the
procedure becomes and what it sends (`primary_all_cb`, `find_included_cb`, `char_discovered_cb`,
`read_blob_helper`, `prepare_write_cb`, ...). The queue takes them in `Completes` (an answer),
`Expire` (the timeout of the request that is out), `Abort` (one by one, those behind it) and
`Cancel`, which call the callback and the destroy function in the order of `gattrib.c`.

| code | actions |
|---|---|
| `gatt_discover_primary`, `gatt_find_included`, `gatt_discover_char`, `gatt_read_char`, `gatt_write_char` | the actions of that name |
| `gatt_read_char_by_uuid`, `gatt_find_info`, `gatt_exchange_mtu`: one request, one callback | `SingleRequest` |
| `g_attrib_cancel` with the id a procedure returned | `Cancel` |
| queue (abstract) | `Transmit`, `Expire`, `Abort`, `Close` |
| `can_write_data` when the write fails or the link is gone, `received_data` when the read fails | `WriteFails`, `ReadFails` |
| peer (external) | `PeerAnswersTable`, `PeerAnswersRead`, `PeerAnswersPrepare`, ..., `PeerRefuses`, `PeerGarbles` |

**Properties.** `CalledBackOnce`: one callback, when nothing of the procedure is queued and not
before. `ObjectsExact`: the object lives as long as a request may use it and no longer, and the
counts of `isd_ref` and `read_long_destroy` are exact. `DiscoveryExact`: what a search for services, included
services or characteristics reports is what the peer has in the range, all of it and each once, however it cuts
its answers; in the order of handles, but for included services, whose order is that of the answers about their UUIDs. `ReadInOrder`, `WrittenWhole`: the bytes
of long reads and writes. `ProceduresEnd`: the caller hears of each in the end, or its
queue is blocked.

The properties name what they excuse, and each excuse is a weakness of the code: a refused long
write, a cancelled discovery or long write, and any procedure but a long read that cannot begin
keep their objects for ever; a cancelled search for included services still calls back, with
status 0; two long writes at once share the peer's prepare queue; a characteristic at the very
end of the range is found or not as the answers are cut. Also visible in the definitions: an
error after the first answers of a characteristic discovery or a long read is reported with
status 0 and the partial result, and so is an answer `primary_by_uuid_cb` cannot decode.

| run | bounds | shows |
|---|---|---|
| `gatt_procedures` | two procedures of any kinds at once, 9 handles, PDUs of 7 bytes, at most 2 elements in an answer; errors, garbled answers, silence, cancel, failed writes and reads; 152 k states | all of the above |

*Bounds.* The last of three services ends at the last handle, where the wrap-around of
`end + 1` bites; a PDU of 7 bytes makes one value end with a full part and the other within one.
Two procedures are enough for one to be aborted behind another. A peer that keeps the order of
handles, in elements that begin before they end, is assumed: one whose answers go backwards makes
`primary_all_cb` ask for ever, which no property here would catch.

*Fairness.* Weak fairness of sending while the write source is there, of completing what is out
(`Completes`: by an answer, or by the timer, which `GAttrib` keeps running as long as a request is out), of
aborting and of closing. None of it is assumed of the link: `can_write_data` removes its source when a write fails
or the link is gone (`gattrib.c` 297, 316-325), and the source comes back only when the queue was empty before
a command (545) or a read fails (446). A request that waits then, such as the next of a chain, has no
timer, and its procedure hangs: the caller hears nothing. `ProceduresEnd` excuses this case, `blocked`, as
`AcceptedCompletes` of `GAttrib` does, and no other; it does not excuse a procedure once the sender was woken and
its request went out.

**Proofs.** `GattProofs` assumes `LimitsAssumption`, `PeerAssumption` and `WritesFitAssumption` only: any peer whose
tables are in the order of handles, any length of a PDU above 6, any ranges, values, kinds and number of
procedures; `WritesFitAssumption` says that what is written is no longer than the attribute, since the peer
writes within it (one that is longer is refused by a peer, which every write of the model may be).

| theorem | says |
|---|---|
| `Inv` | `Spec => []GattInv` |
| `Types` | `TypeOK` |
| `CallsBackOnce` | `CalledBackOnce` |
| `ObjectsAreExact` | `ObjectsExact` |
| `ReadsInOrder` | `ReadInOrder` |
| `WritesWhole` | `WrittenWhole` |
| `DiscoveriesExact` | `DiscoveryExact` |

None of the properties is inductive. For the first three, whether a callback may still come depends on which request
is queued. `GattInv` therefore relates each procedure to `Count`, how many commands in the queue are its
own: `Running` says what its record is at each number (not called back while there is one, called back
once when there is none, as many references as there are, the object held while there is one), and
`CommandOK` what each command is: it belongs to the kind of its procedure, still has its callback unless
it was cancelled, and asks for a handle that is not 0. Only a search for included services has more
than one. `HeadDone` goes through the callbacks one by one: each leaves a procedure that agrees with the
commands it sends (`Handled`). `QueueWithout` carries that to the queue, for the head (`HeadLeaves`) and for a
command that is cancelled while it waits (`WaitingLeaves`): the counts of the other procedures stay.

`ReadsInOrder` needs a second invariant on top, `ReadInv`: where bytes belong. A byte of the model is its
writer and its place, and `Piece(d, o)` says that the bytes of `d` belong after the first `o`. `ReadInv` says
that what each command carries, what each procedure has read or writes, what each attribute holds and
what the peer has prepared is a piece at the offset that goes with it (`DataOK`, `ValuesOK`,
`PreparedOK`), and that a queued request for a blob asks for the bytes after the ones its procedure has. An
answer that is shorter than the PDU allows ends the value (`PartOf`), so a read that stops there has all of
it. That the execution of prepared writes leaves pieces is shown by the least number of writes that does not.

`WritesWhole` is about a step, and needs a third invariant, `WriteInv`. What an earlier write that failed left
in the peer's prepare queue is executed together with the parts of the next one, so that it matters which
comes last. `LastPut(pp, h, i, x)` says that the last prepared part that reaches byte `i` of `h` puts `x`
there. `AllCovered` says that of every byte below the offset of a write that is the only one under way
(`Sole`): each accepted part puts its bytes after all that was left behind (`CoveredMore`), so that by the
last part every byte is covered and the execution leaves the value (`ExecutedWhole`). `Lone` says that a
write that began beside no other began after all before it had called back; with it, no command of
another write is in the queue (`SoleWrites`) to prepare in between or to have the queue of the peer dropped. TLC
checked `WriteInv` on the instance of `gatt_procedures` before it was proved.

`DiscoveriesExact` needs `FindInv`, which says where a search stands. A request in the queue (`Looks`) asks for
the rest of the range, and what was found is all that the table has below the handle it asks from, in order
(`GotBelow`); a search that called back (`Searched`) reported all there is. An answer (`Tells`) holds the first
elements of what was asked for (`FirstOf`), and says that there is none only if there is none. So an answer
moves the handle asked from past what it holds and past nothing else (`GotMore`), because the elements
of a table lie apart (`Apart`): this is where `PeerAssumption` is used, the order of the table and that an
element begins before it ends. The search has all when the answer reaches the end of the range (`AllFound`) or when
nothing is left (`NoneLeft`). The filter on the UUID of a characteristic (`OfUuid`) is shown to keep what
it should by the least number of elements of which it does not. No other command matters, as the tables do not
change; the cancelled and the flawed searches are excused, as in the property.

A search for included services has several requests in the queue at once: the one for the table, and one for each
UUID that does not fit into an answer. `IncludeInv` says of the commands of such a search (`Mine`) that one at
most asks for the table and that no two ask for the same element (`Differ`), and that what was found and what
the queries will find (`Sought`) are disjoint, without a repetition, and together all that begins below where the
table is asked for next, or all of it when it no longer is (`Gathered`, `Passed`). Each answer leaves it so (`Yields`):
one to a query moves its element from the one to the other (`QueryGathers`), and one with a part of the table adds that
part to either (`SearchGathersMore`). The last reference reports what was found (`UnrefGathers`), and when it is gone
no command is left, so that this is all. TLC checked `FindInv` and `IncludeInv` on the instance of
`gatt_procedures` before they were proved.

That no request asks from handle 0 rests on the test for the last handle before `Following` (`TypeOK`; the
mutant `IsLast_never` breaks it); the order of the peer's tables is not needed for the first three theorems. TLC checked `GattInv` on the instance of
`gatt_procedures` before it was proved.

The proof corrected the model in one place: the first two cases of `primary_by_uuid_cb` overlapped (a refusal has
no ranges either). TLC takes the first that holds, as the code does; a proof needs the second
guard to say so. The filter of `char_discovered_cb` is written as the loop it is. The answers of the peer are places in its table (`Matching`, `Leading`) rather than a selection
of elements, with the same states.

## HCI requests

`HciTables` holds the commands and events of `hci.h`; `Requests` in `HciRequest` one row for each
of the 62 functions that call `hci_send_req`: command, awaited event, sizes, and how much of
the buffer the function reads. **State**: the socket's `filter`, the one `saved`, the `call` under
way with its tries and time left, the `inbox` of the socket, what the controller is `busy` with.

| code | actions |
|---|---|
| the functions, up to the filter | `hci_send_req`, `NoFilter` |
| `hci_send_cmd` | `hci_send_cmd`, `hci_send_cmd_fails` |
| one turn of the loop | `ReadEvent` (`Answers`, `Refuses`, or neither), `PollExpires`, `ReadFails`, `GivesUp` |
| controller (external) | `CommandCompletes`, `CommandStarts`, `CommandRefused`, `CommandDone`, `OtherEvent` |

`FilterRestored`, `AnswerIsMine` and `AnswerFilled` say that the filter comes back on every way
out, that a completion is taken by the request that caused it, and that nothing is read that was
not written. `RequestReturns` is liveness: weak fairness of the call's own steps, nothing of the
controller. It holds for calls that wait at least a tick for each try. With less the time left
may come to 0 after other events, and 0 means no timeout.

What the properties excuse: events are matched by code alone, so `hci_le_create_conn` takes the
end of an inquiry for its answer and `hci_create_connection` an event of `LE_META_EVENT`; handles
are never compared; the late answer to a request that gave up answers the next one that asks
the same; the functions that read nothing of their answer report success when refused. A `setsockopt`
that fails when the filter is put back is not modelled: `hci_send_req` does not look at its result.

| run | bounds | shows |
|---|---|---|
| `hci_requests` | each function alone, any two of three one after the other; 2 tries instead of 10, 2 targets, 1 event of others; errors, refusals, silence; 306 k states | all of the above |

`HciProofs` proves `HciTypeCorrect` (`TypeOK`), `FilterComesBack` (`FilterRestored`) and
`NothingUnwrittenRead` (`AnswerFilled`) for any programs, targets, times and number of tries. What it
needs to know of the tables is stated as assumptions (`EventsAssumption`, `RequestsAssumption`,
`AnswersAssumption`) that TLC evaluates over all of `hci.h`'s rows: an answer as long as declared
covers what the function reads. The proof does the rest: the invariant `HciInv` says which filter
is on the socket when (`FilterInv`), that every event the socket can hold is *genuine*, that is,
of the length its origin gives it or marked as failed, and that every result was copied from
one.

`AnswersAreOwn` proves `AnswerIsMine`. It has an invariant of its own, `OwnInv`: the end of each call (the
completion or the event that says it is over) is with the controller, in the socket, or taken by one
result, in exactly one of the three and once (`OneEndInv`); it says which function and which device
it is about (`OriginInv`); and what a result took came from no later call, and where the opcode or
the address tells, from a call of the same function or about the same device (`TookInv`). The
tables enter through `OwnersAssumption`: no two functions share an opcode, one only waits for
a name, and no event shares its code. `OwnInv` was checked by TLC on the instance of
`hci_requests` first. Only `RequestReturns`, which is liveness, stays with TLC.

## Sockets and PDUs

`BtIo` has a record for each channel (`channels`), the descriptors of the process (`table`), whether
the kernel knows `BT_SECURITY` (`secure`), and what the last call that set options was and asked for
(`last`). `bt_io_connect`,
`bt_io_listen`, `bt_io_set`, `bt_io_accept` parse a list of options and set them one by one, each
of which may fail (`AfterSettings`); the watches `connect_cb`, `accept_cb`, `server_cb` are polled on the
*descriptor*, whoever has it now. `g_io_channel_unref` and `g_io_channel_shutdown` are what a user
does; the kernel connects, fails and hangs up.

`OneCallback`: each connection or acceptance is called back once, its destroy function once, and
the outcome is what happened. Excused, because the code does it: a descriptor that was shut down and used
again (`btio.c` compares nothing but the number); a link hung up in order before it was accepted,
reported as made.

`SettingsAsAsked`: after a successful `bt_io_connect`, `bt_io_listen` or `bt_io_set`, every option that can be
read reads as it was last asked for, whatever the order, and every other as before. The exceptions are the
code's, and the property states what is read instead:

- `bt_io_set` makes nothing of addresses, channels, `PSM` and `CID`, nor `bt_io_listen` of the other end's address;
  `DEFER_TIMEOUT` counts only for a server that asks to confirm (`Ignored`), and there a refusal by
  the kernel goes unnoticed, so that it may read as before;
- a `PSM` beside a `CID` is not set (`Ignored`);
- SCO has one MTU for both ways: the last given as `MTU`, or the first given as `IMTU` or `OMTU` after it (`ScoMtu`);
- without `BT_SECURITY` the level is written over the whole link mode and the role reads 0, also the one asked for
  in the same call when L2CAP sets the level last (`RoleLost`);
- basic mode, lowest security, priority 0 and numbers that are 0 mean "do not set" (`NotSet`).

No get function returns `SOURCE_TYPE` and `DEST_TYPE`; for these the property looks at the socket. `bt_io_get` of a socket without
a peer fails in the code; the property takes what it would return.

`AttCodec` describes the messages of `att.c` by their layout (fields, then a tail: none, a value, a
UUID, a list) and gives `enc` and `dec`, and for the two decoders that copy into a buffer of the caller its
size. `RoundTrip`: what is encoded fits the buffer, is decoded by
the decoder of its message and by no other, and gives back what was put in, lists cut to the
entries that fit. Where the code does otherwise the layout says so: `dec_prep_write_resp` tests
for the opcode of the request; `enc_find_by_type_req` takes UUIDs of 16 bits only. `Unreadable` names what the
reader gets nothing of: a read longer than its buffer (`-ENOBUFS`), an indication without a value (0, as for no
indication); an indication longer than the buffer is cut to it. `enc_read_blob_resp` subtracts the offset
from the length without a test: `enc_blob` says what is then read behind the value, and the property holds for offsets
within it. Not modelled: entries of length 0, by which the decoders of lists divide (`att.c` 215 and 447).

| run | bounds | shows |
|---|---|---|
| `library_units` | sockets, with and without `BT_SECURITY` and any fault: two channels, five lists of options as `gatt_connect` and others give them, close and reuse; or one channel that `bt_io_connect` or `bt_io_listen` makes with every list of up to 3 of 19 pairs of an option and a value, then `bt_io_set` with every list of up to 2 of 8 pairs. Every message with values around the sizes of buffers of 23 and 48 bytes, read into 16 and 64. 1.68 M states | `TypeOK`, `OneCallback`, `SettingsAsAsked`, `RoundTrip` |

The 19 pairs (`MCOptions`) name every option that `parse_set_opts` takes, an address as text or as bytes being one, in the orders and repetitions that fit in 3. The
three parts are checked in one run because they share no state: a behaviour has steps of one of them. Deadlock is not
checked: a PDU that was written, or a socket whose calls are used up, has no next step.

**Proofs.** `BtIoProofs` assumes `BtIoAssumption` only: any lists of options, any number of channels, a kernel
with `BT_SECURITY` or without, and whatever `May` allows.

| theorem | says |
|---|---|
| `Inductive` | `Spec => []BtIoInv` |
| `Types` | `TypeOK` |
| `CallsBackOnce` | `OneCallback` |

A watch knows its channel by a number only, so `OneCallback` is as good as what that number stands for.
`BtIoInv` says it for each channel (`Stands`) and each number (`Descriptors`): an open channel has its own,
and a number that a closed channel had stands for nothing until it is `reused`. From this `PolledFacts`: a watch that
finds no socket is one of a channel its user closed, so that its callback may be left out; one that
finds another's socket is one that was reused, which the property excuses; any other finds its own,
and reports what it finds. `Watched` relates the references to the watch and to being open, `CalledBack`
the history to the state of the socket, which may move on (`MovedOK`: after a callback that reported no error only from connected
to hung up). The steps come to three forms: a channel changes and keeps its number (`Replaced`), one is let
go of or closed (`LetGo`), one is made (`Joined`). The last needs that `FreeFd` is free: fewer channels than
numbers (`SomeFree`, by the pigeonhole principle) and a least one among those free (`LeastNumber`, from the
well-foundedness of `<`). What is set on a socket plays no part.

## SDP client

**State**: `session` (whether it is open, local, still `up` at the server, its transaction id, the asynchronous request),
`call` (the waiting request), `rec` (the program's own record), `asked` and `answers` (what is under way in each
direction), `content` and `records` (the server's), `done` (history).

| code | actions |
|---|---|
| `sdp_connect`, `sdp_close` | `sdp_connect`, `sdp_close` |
| the searches and registrations, through `sdp_send_req_w4_rsp` | `sdp_request`, `sdp_read_rsp`, `sdp_read_rsp_fails` |
| `sdp_service_search_async` and its two siblings | `sdp_service_async` |
| `sdp_process` | `sdp_process`, `sdp_process_fails` |
| server (external) | `ServerFinds`, `ServerRegisters`, `ServerRefuses`, `ServerGoes` |

**Reads.** A remote session is a `SOCK_SEQPACKET` socket: a read returns one answer. A local one, the only kind that
registers records, is a `SOCK_STREAM` socket (`sdp.c` 4627): a read of up to 65535 bytes returns what has come, several
answers joined or a part of one (`Recv`). `sdp_send_req_w4_rsp` looks at the id in the first header only, so
that it takes the first of the joined answers and drops the rest; when a beginning was read, by itself or behind
an answer, the end is left in front of the next read, and its first bytes stand for a header (`cut`). `Misread` is
what bytes that are no whole answer may be taken for, `MayPass` which pass the tests. `sdp_process` wants exactly as many
bytes as the header says. A read may also fail, run out of time, or return 0 when the server has closed its
end (`ReadFails`), which is made `EPROTO`.

`AnswerWhole`: no call ends twice; a search that succeeds has all of the server's answer, in order, from its own
transaction, and one that fails a beginning of it. `RecordKnown`: a record the
program thinks registered is, but while or after a removal failed, when its handle came with one of the two excuses
below, or when the server has gone. The two excuses are
named in the result (`amiss`), because the code cannot tell: a call that took such bytes for an answer (`torn`), and one
that took an answer whose id had come again (`wrapped`; the id is a `uint16_t`, `Ids` of them in the model). They
excuse that call only, not those after it.

What the model shows besides: a call that gives up after its time leaves its answer in the socket,
and nothing skips answers with an old transaction id. In a remote session each later call then reads the
answer to the one before it, and fails. In a local one it may read both at once: the first counts
and the rest is dropped, so that the call fails and the one after it may find the socket empty and be right
again. Counts of an asynchronous search in parts are added in network byte order without swapping
(`AddCounts`), which is wrong from 256 on: `AnswerWhole` stops there. The status of a removal is
not swapped either, but only compared with 0. A second asynchronous request overwrites the first
(`sdp.c` 3806-3869), which never calls back. A search that finds nothing returns -1, which its comment
says is for failures.

| run | bounds | shows |
|---|---|---|
| `sdp_sessions` | searches and the three registrations, 3 calls, waiting or not, 0 or 2 elements in up to 2 parts, local or remote server, 2 transaction ids, reads that join answers and cut the one to the second request; lost and late answers, errors, hangup; 4.5 M states | `TypeOK`, `AnswerWhole`, `RecordKnown` |

With 2 ids the third call has the id of the first again, late answer and all. The answer that
may be cut is that to the second request, to the second call or for the second part of the first: a request went
before it, whose late answer may be joined with it, and a call comes after it, to read its end. Attributes are
read as services are searched for, but for the tests in `MayPass` and for what an empty answer means; they are left to
the proof. An element stands for 100 handles (`Weight`), so that two stay
below 256. Assumed: a request that cannot be sent was not sent in part, an answer is cut in one place at most, and the
server drops the records of a connection that has gone.

**Proofs.** `SdpProofs` assumes `SdpAssumption` only: any contents, weight up to 255, number of calls, of ids and of
answers that are cut, any kinds, and whatever `May` allows.

| theorem | says |
|---|---|
| `Inductive` | `Spec => []SInv` |
| `Types` | `TypeOK` |
| `AnswersAreWhole` | `AnswerWhole` |
| `RecordsAreKnown` | `RecordKnown` |

A call can be told from a late answer only by the transaction id, so the argument is about ids. The model counts the
ids given, of which a header has the remainder by `Ids`; `Ordered` is about the count: answers, then requests under
way have growing ids below the session's next one, and a call that waits has the last id given. An answer with that
id therefore answers the last request, and nothing is under way behind it, however many answers a read joins;
another with the same remainder is `Ids` away (`Wrapped`), and any other ends the call with an error. `WholeInv` says
what the answer with a call's own id holds: what
follows what its call has (`Continues`), because the request with the id asked for what the call lacked
(`Wants`), unless something went amiss with the call before. Such a call thus holds a beginning of the contents, and all of it
when nothing more is announced.
`Counted` says why the count is right below 256: the sum then lies in one byte of both operands.
`RecordInv` follows the requests about the record: while it is thought registered no removal is under way but
that of the call that waits, and the answer to a registration under way carries a handle the server holds.
Every action is brought to one of eight forms first (`EveryStep`: a call sends, ends, the asynchronous one
sends, ends, the server answers, it goes, the session opens, closes); each form then keeps each part of the
invariant. TLC checked `SInv` on the instance of `sdp_sessions` before it was proved.

## Where code and comments differ

1. *`true` does not mean sent* (`mip_sent`). `send_order` returns whether one loop iteration
   dispatched anything. A write that fails, or a notification dispatched while the socket is
   not writable, is enough.
2. *Orders after a second `connect()`* (`mip_ids`). `_nattrib` counts orders of the object,
   `next_cmd_id` those of the connection. After reconnecting every order is queued, reported
   as failed, and the loop is not iterated to send it.
3. *`true` does not mean connected* (`mip_reconnect`). `_is_connected` belongs to the object and is never
   reset. A first `connect()` gives up and returns false with its connection under way; its late
   `connect_cb` sets `_is_connected` while a second `connect()` iterates the loop, whose own
   connection fails, and which returns true.
4. *Which way `angle_drive` turns* (`drive_turn`). Its comment has positive angles counter-clockwise;
   it sends `TURN_RIGHT_BY_ANGLE` for them.
5. *A search that finds nothing fails* (no run; `TakeAnswer` of `SdpClient`). `sdp_service_search_req` returns -1
   when the answer counts no records and leaves `errno` alone (`sdp.c` 3488-3491); its comment says that 0 "does not
   mean the requested services were found" and -1 is for "any failure and sets errno" (3379-3383).

## Not modelled

- In `gattrib.c`: the transmit buffer (`g_attrib_set_mtu`, `g_attrib_get_buffer`), the destroy and
  debug functions, `g_attrib_is_encrypted`, failure of `g_attrib_new`, and what freed memory or
  a dangling source id would do: the invariants show when they would be read.
- In `gattmip.h`: the orders other than those of the head LEDs and the drive, the cache of the
  chest LED, the decoding of the other notifications, `speed2ticks` and `ticks2speeds` (regressions
  in floating point).
- In `gatt.c`: the parsing of strings in `gatt_connect` and the SDP records.
- In `hci.c`: inquiry and the `ioctl` functions, and the conversions to and from text.
- In `sdp.c`: data elements, records and their accessors, which are most of its length: trees of
  typed values, built and taken apart without control flow that depends on anything else.
- In `btio.c`: key size, device class and connection handle, which are only read.
- UUID and address text, the prompt, the helpers, the joystick and the samples: text or I/O.
- Two threads: nothing in the repository uses a session, a channel or a `Mip` from two.

## Plan

Done: the queue engine, its abstraction and its invariants; the procedures of `gatt.c`; how the
driver gives orders, and the drive orders; HCI requests; sockets; the PDU codec; SDP sessions.
Next, most important first:

1. The chest LED cache (ticks of 20 ms when set, seconds when answered) and the decoding of
   notifications in `Mip`; indications, which are never confirmed.
2. `Gatt` over `GAttrib` itself instead of its abstraction.
3. SDP data elements: what is generated is what is extracted.
4. The exit of the prompt: `sleep()` instead of iterations of the main loop.

Left to TLC for good: the liveness properties, which need
fairness and `ENABLED`; `SettingsAsAsked` of `BtIo`, which is
about folds over lists of options; `RoundTrip` of the codec, because the layouts are tables to be evaluated.
