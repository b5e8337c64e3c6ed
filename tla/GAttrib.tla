------------------------------ MODULE GAttrib ------------------------------
(***************************************************************************)
(* The queue engine of libgatt/src/gattrib.c: one GAttrib on one channel,   *)
(* driven by a GLib main loop.  Every dispatch of a GLib source             *)
(* (can_write_data, received_data, disconnect_timeout) is an action; where   *)
(* the code calls back into the application the dispatch is cut in two, and  *)
(* the application's own calls (send, cancel, register, unref) may happen    *)
(* in between.  The peer and the link are the environment.                  *)
(***************************************************************************)
EXTENDS AttPdu, Sequences, FiniteSets

CONSTANTS
    MaxCalls,     \* bound: calls of g_attrib_send that are accepted
    MaxSignals,   \* bound: PDUs the peer sends of its own accord
    MaxEvents,    \* bound: events registered over the life of the attrib
    AppOps,       \* opcodes the application sends
    EventKinds,   \* (opcode, handle) pairs the application registers
    Signals,      \* PDUs the peer may send of its own accord
    May           \* what this instance lets happen, a subset of Features

Features ==
    { "nested",      \* an event handler may iterate the main loop
      "unref",       \* the application may drop its reference
      "cancel",      \* the application may cancel commands
      "io_error",    \* a read or a write may fail on a link that is up
      "disconnect",  \* the link may go down
      "chain" }      \* result callbacks send again under the same id

(* An event handler that iterates the main loop while the last reference is  *)
(* dropped would leave received_data's loop on freed memory: no caller in    *)
(* the repository does both.                                                *)
ASSUME FeaturesAssumption ==
    /\ May \subseteq Features
    /\ ~ ({"nested", "unref"} \subseteq May)

ASSUME BoundsAssumption ==
    /\ MaxCalls \in Nat
    /\ MaxSignals \in Nat
    /\ MaxEvents \in Nat

ASSUME OpcodesAssumption ==
    /\ AppOps \subseteq Opcodes
    /\ \A s \in Signals : s.opcode \in Opcodes
    /\ EventKinds \subseteq [expected : STRING, handle : STRING]

VARIABLES
    requests, responses,   \* the two queues of commands
    events,                \* the registered events, in order
    next_cmd_id,           \* attrib->next_cmd_id
    next_evt_id,           \* static next_evt_id of g_attrib_register
    write_watch,           \* TRUE while the write source exists
    read_watch,            \* "on", "off" (field 0), "gone" (source removed, field kept)
    timeout_watch,         \* "none" (field 0), "armed", "fired" (source removed, field kept)
    refs, stale,           \* attrib->refs, attrib->stale
    dead,                  \* attrib_destroy() has run
    held,                  \* the application still owns the reference of g_attrib_new
    rd,                    \* the frame of received_data
    to,                    \* the frame of disconnect_timeout
    chan, wire, inbox,     \* the link, the requests the peer has yet to answer, the PDUs to read
    signals                \* how many PDUs the peer sent of its own accord

(* History: calls is the opcodes of the accepted calls of g_attrib_send, each *)
(* call known by its index; outcome[n] is the statuses call n was called     *)
(* back with; freed the calls whose command is destroyed; cancelled those a   *)
(* cancel found; blocked is TRUE when a write has failed and nothing has     *)
(* woken the sender since.                                                  *)
VARIABLES calls, outcome, freed, cancelled, blocked

queueVars == <<requests, responses, events, next_cmd_id, next_evt_id>>
watchVars == <<write_watch, read_watch, timeout_watch, refs, stale, dead, held>>
frameVars == <<rd, to>>
linkVars  == <<chan, wire, inbox, signals>>
histVars  == <<calls, outcome, freed, cancelled, blocked>>
vars == <<queueVars, watchVars, frameVars, linkVars, histVars>>

----------------------------------------------------------------------------
(* Commands, frames and PDUs.                                               *)

Calls    == 1..MaxCalls
Statuses == {"ok", "error", "io", "timeout", "aborted"}

Command == [ n : Calls, id : Nat, opcode : Opcodes,
             expected : ResponseOps \cup {NoResponse},
             sent : BOOLEAN, func : BOOLEAN ]

PduHandles == {NoHandle} \cup {s.handle : s \in Signals}

NoCommand == [ n |-> 0, id |-> 0, opcode |-> NoResponse, expected |-> NoResponse,
               sent |-> FALSE, func |-> FALSE ]

NoPdu == [opcode |-> NoResponse, handle |-> NoHandle, re |-> 0]

(* received_data is idle, in the handler of events[at], or in the callback   *)
(* of cmd; disconnect_timeout is idle or in the callback of cmd.             *)
IdleRead    == [phase |-> "idle", pdu |-> NoPdu, at |-> 0, cmd |-> NoCommand, status |-> "ok"]
IdleTimeout == [active |-> FALSE, cmd |-> NoCommand]

Numbers(q) == {q[i].n : i \in DOMAIN q}
HeadSent(q) == q # <<>> /\ q[1].sent

RemoveAt(q, i) == [j \in 1..(Len(q) - 1) |-> IF j < i THEN q[j] ELSE q[j + 1]]

(* Application code runs between dispatches and inside a callback; a command *)
(* without a callback gives it no occasion to run.                          *)
AppRuns ==
    /\ held /\ ~ dead
    /\ rd.phase = "result" => rd.cmd.func
    /\ to.active => to.cmd.func

(* GLib never re-enters a source that is being dispatched.  Another source   *)
(* is dispatched inside it only when a callback iterates the main loop.      *)
LoopRuns ==
    /\ ~ to.active
    /\ \/ rd.phase = "idle"
       \/ rd.phase = "events" /\ "nested" \in May

----------------------------------------------------------------------------
(* wake_up_sender, g_attrib_ref, g_attrib_unref, attrib_destroy.            *)

(* Bug: the write source takes no reference. *)
wake_up_sender_no_ref ==
    write_watch' = TRUE /\ blocked' = FALSE /\ UNCHANGED refs

(* Bug: a second write source is added while one exists. *)
wake_up_sender_again ==
    write_watch' = TRUE /\ blocked' = FALSE /\ refs' = refs + 1

wake_up_sender ==
    /\ write_watch' = TRUE
    /\ refs' = IF write_watch THEN refs ELSE refs + 1
    /\ blocked' = FALSE

(* g_attrib_send wakes the sender if the queue was empty before it. *)
WasEmpty_always_false(queue) == FALSE
WasEmpty(queue) == queue = <<>>

(* received_data wakes it if something is left to write. *)
LeftToWrite_requests_only(reqs, resps) == Len(reqs) > 1
LeftToWrite(reqs, resps) == reqs # <<>> \/ resps # <<>>

WakeIf(cond) ==
    IF cond THEN wake_up_sender ELSE UNCHANGED <<write_watch, refs, blocked>>

(* attrib_destroy() on queues reqs and resps; gone are the calls the step     *)
(* destroys anyway.                                                         *)
attrib_destroy(reqs, resps, gone) ==
    /\ requests' = <<>> /\ responses' = <<>> /\ events' = <<>>
    /\ freed' = freed \cup gone \cup Numbers(reqs) \cup Numbers(resps)
    /\ read_watch' = "off" /\ timeout_watch' = "none"
    /\ dead' = TRUE

(* g_attrib_unref() at the end of a step that leaves these queues and timer. *)
g_attrib_unref(reqs, resps, timer, gone) ==
    /\ refs' = refs - 1
    /\ IF refs = 1
       THEN attrib_destroy(reqs, resps, gone)
       ELSE /\ requests' = reqs /\ responses' = resps
            /\ timeout_watch' = timer
            /\ freed' = freed \cup gone
            /\ UNCHANGED <<events, read_watch, dead>>

(* can_write_data returns FALSE: GLib removes the source and calls            *)
(* destroy_sender.                                                          *)
destroy_sender(reqs, timer) ==
    /\ write_watch' = FALSE
    /\ g_attrib_unref(reqs, responses, timer, {})

----------------------------------------------------------------------------
(* g_attrib_send, g_attrib_cancel, g_attrib_cancel_all.                     *)

NewCommand(id, op) ==
    [ n |-> Len(calls) + 1, id |-> id, opcode |-> op, expected |-> opcode2expected(op),
      sent |-> FALSE, func |-> opcode2expected(op) # NoResponse ]

Accept(op) ==
    /\ AppRuns /\ ~ stale /\ Len(calls) < MaxCalls
    /\ calls' = Append(calls, op)
    /\ UNCHANGED <<events, next_evt_id, read_watch, timeout_watch, stale, dead, held,
                   frameVars, linkVars, outcome, freed, cancelled>>

(* id = 0: a fresh id, at the tail of its queue. *)
Enqueue_at_head(queue, c) == <<c>> \o queue
Enqueue(queue, c) == Append(queue, c)

SendRequest(op) ==
    /\ ~ is_response(op)
    /\ Accept(op)
    /\ next_cmd_id' = next_cmd_id + 1
    /\ requests' = Enqueue(requests, NewCommand(next_cmd_id + 1, op))
    /\ WakeIf(WasEmpty(requests))
    /\ UNCHANGED responses

SendResponse(op) ==
    /\ is_response(op)
    /\ Accept(op)
    /\ next_cmd_id' = next_cmd_id + 1
    /\ responses' = Enqueue(responses, NewCommand(next_cmd_id + 1, op))
    /\ WakeIf(WasEmpty(responses))
    /\ UNCHANGED requests

(* id # 0: gatt.c continues a long read from inside the callback of the       *)
(* answered part, under the id the whole read was given, at the head.        *)
SendReused ==
    /\ "chain" \in May
    /\ Accept("READ_BLOB_REQ")
    /\ rd.phase = "result" /\ rd.status = "ok" /\ ~ to.active
    /\ rd.cmd.opcode \in {"READ_REQ", "READ_BLOB_REQ"}
    /\ \A i \in DOMAIN requests : requests[i].id # rd.cmd.id
    /\ requests' = <<NewCommand(rd.cmd.id, "READ_BLOB_REQ")>> \o requests
    /\ WakeIf(WasEmpty(requests))
    /\ UNCHANGED <<responses, next_cmd_id>>

(* g_attrib_send() on a stale attrib returns 0 and changes nothing, as does  *)
(* g_attrib_cancel() of an id no queue holds: neither is an action.          *)
CancelIn_keeps_func(q, i) ==
    IF i = 1 /\ q[1].sent THEN q ELSE RemoveAt(q, i)

CancelIn(q, i) ==
    IF i = 1 /\ q[1].sent
    THEN [q EXCEPT ![1].func = FALSE]
    ELSE RemoveAt(q, i)

Removed_always(q, i) == {q[i].n}
Removed(q, i) == IF i = 1 /\ q[1].sent THEN {} ELSE {q[i].n}

First(q, i) == \A j \in 1..(i - 1) : q[j].id # q[i].id

CancelUnchanged ==
    UNCHANGED <<events, next_cmd_id, next_evt_id, watchVars, frameVars, linkVars,
                calls, outcome, blocked>>

g_attrib_cancel ==
    /\ "cancel" \in May /\ AppRuns
    /\ \/ \E i \in DOMAIN requests :
             /\ First(requests, i)
             /\ requests' = CancelIn(requests, i)
             /\ freed' = freed \cup Removed(requests, i)
             /\ cancelled' = cancelled \cup {requests[i].n}
             /\ UNCHANGED responses
       \/ \E i \in DOMAIN responses :
             /\ First(responses, i)
             /\ \A j \in DOMAIN requests : requests[j].id # responses[i].id
             /\ responses' = CancelIn(responses, i)
             /\ freed' = freed \cup Removed(responses, i)
             /\ cancelled' = cancelled \cup {responses[i].n}
             /\ UNCHANGED requests
    /\ CancelUnchanged

(* What cancel_all_per_queue leaves of a queue. *)
cancel_all_per_queue(q) ==
    IF HeadSent(q) THEN <<[q[1] EXCEPT !.func = FALSE]>> ELSE <<>>

g_attrib_cancel_all ==
    /\ "cancel" \in May /\ AppRuns
    /\ requests' = cancel_all_per_queue(requests)
    /\ responses' = cancel_all_per_queue(responses)
    /\ freed' = freed \cup ((Numbers(requests) \cup Numbers(responses))
                               \ (Numbers(requests') \cup Numbers(responses')))
    /\ cancelled' = cancelled \cup Numbers(requests) \cup Numbers(responses)
    /\ CancelUnchanged

----------------------------------------------------------------------------
(* g_attrib_register, g_attrib_unregister, g_attrib_unregister_all.  The last *)
(* two free list nodes: a handler that called them would pull the node it is *)
(* reached from out of received_data's loop, and none in the repository does.*)

EventsUnchanged ==
    UNCHANGED <<requests, responses, next_cmd_id, watchVars, frameVars, linkVars, histVars>>

g_attrib_register ==
    /\ AppRuns /\ next_evt_id < MaxEvents
    /\ next_evt_id' = next_evt_id + 1
    /\ \E k \in EventKinds :
          events' = Append(events, [id |-> next_evt_id + 1,
                                    expected |-> k.expected, handle |-> k.handle])
    /\ EventsUnchanged

g_attrib_unregister ==
    /\ AppRuns /\ rd.phase # "events"
    /\ \E i \in DOMAIN events : events' = RemoveAt(events, i)
    /\ UNCHANGED next_evt_id
    /\ EventsUnchanged

g_attrib_unregister_all ==
    /\ AppRuns /\ rd.phase # "events" /\ events # <<>>
    /\ events' = <<>>
    /\ UNCHANGED next_evt_id
    /\ EventsUnchanged

(* The application gives up its reference. *)
Unref ==
    /\ "unref" \in May /\ AppRuns
    /\ rd.phase # "events"
    /\ held' = FALSE
    /\ g_attrib_unref(requests, responses, timeout_watch, {})
    /\ write_watch' = (write_watch /\ refs # 1)
    /\ UNCHANGED <<next_cmd_id, next_evt_id, stale, frameVars, linkVars,
                   calls, outcome, cancelled, blocked>>

----------------------------------------------------------------------------
(* can_write_data: one action per way out of it.                            *)

(* The queue the next write takes from: responses come before requests. *)
NextToWrite_requests_first == IF requests # <<>> THEN requests ELSE responses
NextToWrite == IF responses # <<>> THEN responses ELSE requests

(* Nothing to do: the attrib is stale, both queues are empty, or the head     *)
(* already waits for its answer. *)
NothingToWrite_resends == stale \/ NextToWrite = <<>>
NothingToWrite == stale \/ NextToWrite = <<>> \/ HeadSent(NextToWrite)

(* The timer is armed unless it already is. *)
TimerAfterRequest_unarmed == timeout_watch
TimerAfterRequest == IF timeout_watch = "none" THEN "armed" ELSE timeout_watch

WriteDispatch ==
    /\ LoopRuns /\ write_watch
    /\ UNCHANGED <<next_cmd_id, next_evt_id, stale, held, frameVars, chan, inbox, signals,
                   calls, outcome, cancelled>>

WriteNothing ==
    /\ WriteDispatch
    /\ NothingToWrite
    /\ destroy_sender(requests, timeout_watch)
    /\ UNCHANGED <<wire, blocked>>

(* g_io_channel_write_chars fails; the command stays where it is.            *)
WriteError ==
    /\ WriteDispatch
    /\ chan = "hup" \/ "io_error" \in May
    /\ ~ NothingToWrite
    /\ destroy_sender(requests, timeout_watch)
    /\ blocked' = TRUE
    /\ UNCHANGED wire

Write ==
    /\ WriteDispatch
    /\ chan = "up"
    /\ ~ NothingToWrite

(* No answer is expected: the command is done, and the source stays. *)
WriteCommand ==
    /\ Write
    /\ NextToWrite[1].expected = NoResponse
    /\ IF responses # <<>>
       THEN responses' = Tail(responses) /\ UNCHANGED requests
       ELSE requests' = Tail(requests) /\ UNCHANGED responses
    /\ freed' = freed \cup {NextToWrite[1].n}
    /\ UNCHANGED <<events, write_watch, read_watch, timeout_watch, refs, dead, wire, blocked>>

(* An answer is expected: the request stays at the head, marked sent, the      *)
(* timer is armed, and the source is removed. *)
WriteRequest ==
    /\ Write
    /\ NextToWrite[1].expected # NoResponse
    /\ wire' = Append(wire, [n |-> NextToWrite[1].n, expected |-> NextToWrite[1].expected])
    /\ destroy_sender([requests EXCEPT ![1].sent = TRUE], TimerAfterRequest)
    /\ UNCHANGED blocked

----------------------------------------------------------------------------
(* received_data.                                                           *)

ReadDispatch ==
    /\ rd.phase = "idle" /\ ~ to.active /\ read_watch = "on"
    /\ UNCHANGED <<next_cmd_id, next_evt_id, stale, dead, held, to, chan, wire, signals,
                   calls, freed, cancelled>>

ReadStale ==
    /\ ReadDispatch
    /\ stale /\ (inbox # <<>> \/ chan = "hup")
    /\ read_watch' = "gone"
    /\ UNCHANGED <<requests, responses, events, write_watch, timeout_watch, refs, rd,
                   inbox, outcome, blocked>>

ReadHup ==
    /\ ReadDispatch
    /\ ~ stale /\ chan = "hup"
    /\ read_watch' = "off"
    /\ UNCHANGED <<requests, responses, events, write_watch, timeout_watch, refs, rd,
                   inbox, outcome, blocked>>

(* g_io_channel_read_chars fails: no command is concerned, the sender is      *)
(* woken if there is anything in the queues. *)
ReadError ==
    /\ ReadDispatch
    /\ ~ stale /\ chan = "up" /\ "io_error" \in May
    /\ WakeIf(LeftToWrite(requests, responses))
    /\ UNCHANGED <<requests, responses, events, read_watch, timeout_watch, rd,
                   inbox, outcome>>

(* The index of the first event from index i on whose handler gets the PDU,   *)
(* or 0: the loop over attrib->events. *)
NextHandler(pdu, i) ==
    LET matching == {j \in i..Len(events) : match_event(events[j], pdu)}
    IN  IF matching = {} THEN 0 ELSE CHOOSE j \in matching : \A k \in matching : j <= k

(* Any answer at all stops the timer. *)
TimerAfterResponse_kept == timeout_watch
TimerAfterResponse == "none"

ResultStatus(cmd, pdu) ==
    IF pdu.opcode = "ERROR" THEN "error"
    ELSE IF cmd.expected # pdu.opcode THEN "io"
    ELSE "ok"

(* What follows the loop over the events. *)
FinishRead(pdu) ==
    IF ~ is_response(pdu.opcode)
    THEN /\ rd' = IdleRead
         /\ UNCHANGED <<requests, write_watch, read_watch, timeout_watch, refs, outcome, blocked>>
    ELSE /\ timeout_watch' = TimerAfterResponse
         /\ IF requests = <<>>
            THEN /\ rd' = IdleRead
                 /\ read_watch' = IF events # <<>> THEN read_watch ELSE "gone"
                 /\ UNCHANGED <<requests, write_watch, refs, outcome, blocked>>
            ELSE LET cmd == requests[1]
                     status == ResultStatus(cmd, pdu)
                 IN  /\ requests' = Tail(requests)
                     /\ WakeIf(LeftToWrite(Tail(requests), responses))
                     /\ rd' = [phase |-> "result", pdu |-> pdu, at |-> 0,
                               cmd |-> cmd, status |-> status]
                     /\ outcome' = IF cmd.func
                                   THEN [outcome EXCEPT ![cmd.n] = Append(@, status)]
                                   ELSE outcome
                     /\ UNCHANGED read_watch

CallHandlerOrFinish(pdu, from) ==
    IF NextHandler(pdu, from) # 0
    THEN /\ rd' = [phase |-> "events", pdu |-> pdu, at |-> NextHandler(pdu, from),
                   cmd |-> NoCommand, status |-> "ok"]
         /\ UNCHANGED <<requests, write_watch, read_watch, timeout_watch, refs, outcome, blocked>>
    ELSE FinishRead(pdu)

ReadPdu ==
    /\ ReadDispatch
    /\ ~ stale /\ chan = "up" /\ inbox # <<>>
    /\ inbox' = Tail(inbox)
    /\ CallHandlerOrFinish(inbox[1], 1)
    /\ UNCHANGED <<responses, events>>

(* The handler of events[rd.at] returns; evt->next is read now. *)
HandlerReturns ==
    /\ rd.phase = "events" /\ ~ to.active
    /\ CallHandlerOrFinish(rd.pdu, rd.at + 1)
    /\ UNCHANGED <<responses, events, next_cmd_id, next_evt_id, stale, dead, held, to, linkVars,
                   calls, freed, cancelled>>

(* The result callback returns (or there is none): command_destroy(). *)
ResultReturns ==
    /\ rd.phase = "result" /\ ~ to.active
    /\ freed' = freed \cup {rd.cmd.n}
    /\ rd' = IdleRead
    /\ UNCHANGED <<queueVars, watchVars, to, linkVars, calls, outcome, cancelled,
                   blocked>>

----------------------------------------------------------------------------
(* disconnect_timeout: the head times out, the rest is aborted, then the      *)
(* attrib is stale.                                                         *)

(* g_queue_pop_head(attrib->requests) and the callback of what it returns.   *)
PopAndAbort_silent(status) ==
    to' = [active |-> TRUE, cmd |-> requests[1]] /\ UNCHANGED outcome

PopAndAbort(status) ==
    LET cmd == requests[1] IN
    /\ to' = [active |-> TRUE, cmd |-> cmd]
    /\ outcome' = IF cmd.func THEN [outcome EXCEPT ![cmd.n] = Append(@, status)] ELSE outcome

(* After that nothing is sent or read any more. *)
StaleAfterTimeout_missing == stale
StaleAfterTimeout == TRUE

TimeoutUnchanged ==
    UNCHANGED <<next_cmd_id, next_evt_id, write_watch, held, rd, linkVars, calls, cancelled,
                   blocked>>

TimerFires ==
    /\ LoopRuns /\ timeout_watch = "armed"
    /\ timeout_watch' = "fired"
    /\ IF requests = <<>>
       THEN /\ stale' = StaleAfterTimeout
            /\ UNCHANGED <<requests, refs, to, outcome>>
       ELSE /\ PopAndAbort("timeout")
            /\ requests' = Tail(requests)
            /\ refs' = refs + 1
            /\ UNCHANGED stale
    /\ UNCHANGED <<responses, events, read_watch, dead, freed>>
    /\ TimeoutUnchanged

(* The callback returned: its command is destroyed and the next one aborted. *)
AbortNext ==
    /\ to.active /\ requests # <<>>
    /\ PopAndAbort("aborted")
    /\ requests' = Tail(requests)
    /\ freed' = freed \cup {to.cmd.n}
    /\ UNCHANGED <<responses, events, read_watch, timeout_watch, refs, stale, dead>>
    /\ TimeoutUnchanged

AbortDone ==
    /\ to.active /\ requests = <<>>
    /\ stale' = StaleAfterTimeout
    /\ to' = IdleTimeout
    /\ g_attrib_unref(<<>>, responses, timeout_watch, {to.cmd.n})
    /\ UNCHANGED outcome
    /\ TimeoutUnchanged

----------------------------------------------------------------------------
(* The peer: an ATT server answers the requests it got, in order, once each, *)
(* with the response or with an error; it notifies and indicates at will,    *)
(* and may send the unexpected PDUs of Signals.  The link may go down.       *)

LinkUnchanged ==
    UNCHANGED <<queueVars, watchVars, frameVars, histVars>>

PeerAnswers ==
    /\ chan = "up" /\ wire # <<>>
    /\ \E op \in {wire[1].expected, "ERROR"} :
          inbox' = Append(inbox, [opcode |-> op, handle |-> NoHandle, re |-> wire[1].n])
    /\ wire' = Tail(wire)
    /\ UNCHANGED <<chan, signals>>
    /\ LinkUnchanged

PeerSignals ==
    /\ chan = "up" /\ signals < MaxSignals
    /\ \E s \in Signals :
          inbox' = Append(inbox, [opcode |-> s.opcode, handle |-> s.handle, re |-> 0])
    /\ signals' = signals + 1
    /\ UNCHANGED <<chan, wire>>
    /\ LinkUnchanged

Disconnect ==
    /\ "disconnect" \in May /\ chan = "up"
    /\ chan' = "hup"
    /\ UNCHANGED <<wire, inbox, signals>>
    /\ LinkUnchanged

----------------------------------------------------------------------------
(* g_attrib_new: the application owns the one reference, reading is on.      *)
Init ==
    /\ requests = <<>> /\ responses = <<>> /\ events = <<>>
    /\ next_cmd_id = 0 /\ next_evt_id = 0
    /\ write_watch = FALSE /\ read_watch = "on" /\ timeout_watch = "none"
    /\ refs = 1 /\ stale = FALSE /\ dead = FALSE /\ held = TRUE
    /\ rd = IdleRead /\ to = IdleTimeout
    /\ chan = "up" /\ wire = <<>> /\ inbox = <<>> /\ signals = 0
    /\ calls = <<>> /\ outcome = [n \in Calls |-> <<>>] /\ freed = {} /\ cancelled = {}
    /\ blocked = FALSE

App ==
    \/ \E op \in AppOps : SendRequest(op) \/ SendResponse(op)
    \/ SendReused
    \/ g_attrib_cancel
    \/ g_attrib_cancel_all
    \/ g_attrib_register
    \/ g_attrib_unregister
    \/ g_attrib_unregister_all
    \/ Unref

Writing == WriteNothing \/ WriteError \/ WriteCommand \/ WriteRequest
Reading == ReadStale \/ ReadHup \/ ReadError \/ ReadPdu
Returning == HandlerReturns \/ ResultReturns \/ AbortNext \/ AbortDone
Peer == PeerAnswers \/ PeerSignals \/ Disconnect

Next == App \/ Writing \/ Reading \/ Returning \/ TimerFires \/ Peer

Spec == Init /\ [][Next]_vars

(* The main loop runs for ever and its callbacks return: a source that stays  *)
(* ready is dispatched.  Nothing is assumed of the application or the peer.  *)
FairSpec ==
    /\ Spec
    /\ WF_vars(Writing)
    /\ WF_vars(Reading)
    /\ WF_vars(Returning)
    /\ WF_vars(TimerFires)
----------------------------------------------------------------------------
(* Properties.                                                              *)

(* The types of the variables, and the bounds the guards impose. *)
QueueTypes ==
    /\ requests \in Seq(Command) /\ responses \in Seq(Command)
    /\ events \in Seq([id : Nat, expected : STRING, handle : STRING])
    /\ next_cmd_id \in Nat /\ next_evt_id \in 0..MaxEvents

WatchTypes ==
    /\ write_watch \in BOOLEAN
    /\ read_watch \in {"on", "off", "gone"}
    /\ timeout_watch \in {"none", "armed", "fired"}
    /\ refs \in 0..3
    /\ stale \in BOOLEAN /\ dead \in BOOLEAN /\ held \in BOOLEAN

FrameTypes ==
    /\ rd.phase \in {"idle", "events", "result"}
    /\ rd.cmd \in Command \cup {NoCommand} /\ rd.status \in Statuses
    /\ to.active \in BOOLEAN /\ to.cmd \in Command \cup {NoCommand}

LinkTypes ==
    /\ chan \in {"up", "hup"}
    /\ wire \in Seq([n : Calls, expected : ResponseOps])
    /\ inbox \in Seq([opcode : Opcodes, handle : PduHandles, re : 0..MaxCalls])
    /\ signals \in 0..MaxSignals

HistTypes ==
    /\ calls \in Seq(Opcodes) /\ Len(calls) <= MaxCalls
    /\ outcome \in [Calls -> Seq(Statuses)]
    /\ freed \subseteq Calls /\ cancelled \subseteq Calls
    /\ blocked \in BOOLEAN

TypeOK == QueueTypes /\ WatchTypes /\ FrameTypes /\ LinkTypes /\ HistTypes

(* At most one request is out at a time, and it is the head of its queue: ATT *)
(* is a sequential protocol, and the sent flags are all that keeps            *)
(* can_write_data and g_attrib_send's push to the head from overlapping two.  *)
OneOutstanding ==
    /\ \A i \in DOMAIN requests : requests[i].sent => i = 1
    /\ \A i \in DOMAIN responses : ~ responses[i].sent

(* While the attrib is usable the timer runs exactly when a request is out:   *)
(* nothing is waited for without a timeout, and no leftover timer kills an    *)
(* idle connection, however cancels, answers and nested dispatches fall.      *)
TimerGuardsRequest ==
    ~ stale /\ ~ dead /\ ~ to.active =>
        (timeout_watch = "armed" <=> HeadSent(requests))

(* No lost wake-up: if a command is ready to be written then the write        *)
(* source exists, or the last write failed and nobody has sent since.  The    *)
(* code wakes the sender only when a queue was empty, when an answer comes or  *)
(* when a read fails.                                                        *)
SenderAwake ==
    ~ stale /\ ~ dead /\ ~ to.active /\ ~ write_watch /\ ~ blocked =>
        /\ responses = <<>>
        /\ requests = <<>> \/ HeadSent(requests)

(* The calls whose command a running callback is about to have destroyed. *)
InHand == (IF rd.phase = "result" THEN {rd.cmd.n} ELSE {})
            \cup (IF to.active THEN {to.cmd.n} ELSE {})

Injective(q) == \A i, j \in DOMAIN q : q[i].n = q[j].n => i = j

(* No command is lost and none is destroyed twice: every accepted call is in  *)
(* exactly one of the queues, in the hands of a callback, or destroyed.        *)
EachCommandOnce ==
    /\ Injective(requests) /\ Injective(responses)
    /\ Numbers(requests) \cup Numbers(responses) \cup InHand \cup freed = DOMAIN calls
    /\ Numbers(requests) \cap Numbers(responses) = {}
    /\ (Numbers(requests) \cup Numbers(responses)) \cap (InHand \cup freed) = {}
    /\ InHand \cap freed = {}
    /\ rd.phase = "result" /\ to.active => rd.cmd.n # to.cmd.n

(* A request is called back exactly once, by the time its command is          *)
(* destroyed, unless it was cancelled or the whole attrib went away.          *)
CalledBackOnce ==
    \A n \in DOMAIN calls :
        /\ Len(outcome[n]) <= 1
        /\ n \in freed /\ opcode2expected(calls[n]) # NoResponse
             => Len(outcome[n]) = 1 \/ n \in cancelled \/ dead

(* The callback of a call is never made after its command was destroyed or    *)
(* its cancellation succeeded: the caller may have freed user_data by then.   *)
NoCallbackAfterEnd ==
    [][\A n \in freed \cup cancelled : outcome'[n] = outcome[n]]_vars

TimedOut == \E n \in Calls : outcome[n] = <<"timeout">>

(* After a request timed out nothing succeeds any more: an answer that comes  *)
(* late is matched to no other request, and the rest can only be aborted.     *)
LateAnswerIgnored ==
    [][TimedOut => \A n \in Calls : outcome'[n] # outcome[n] => outcome'[n] = <<"aborted">>]_vars

(* With a peer that only answers what it was asked, every answer completes    *)
(* the request it answers, and no request fails for an unexpected opcode.     *)
AnswerMatchesRequest ==
    rd.phase = "result" => rd.pdu.re = rd.cmd.n /\ rd.status # "io"

(* The references counted are the application's, the write source's and the   *)
(* timeout handler's; the memory goes with the last, never under a handler    *)
(* that still walks attrib->events.                                         *)
Count(b) == IF b THEN 1 ELSE 0
RefsExact ==
    /\ refs = Count(held) + Count(write_watch) + Count(to.active)
    /\ dead <=> refs = 0
    /\ rd.phase = "events" => ~ dead

(* Whatever fails, a request that was written is done with in the end: the     *)
(* answer, the timer or the end of the attrib completes it.                  *)
SentCompletes ==
    \A n \in Calls :
        (HeadSent(requests) /\ requests[1].n = n) ~> (n \in freed)

(* Everything accepted that is not an answer to the peer is written and        *)
(* completed, or a write fails: the queue never stops with a command in it.   *)
AcceptedCompletes ==
    \A n \in Calls :
        (n \in DOMAIN calls /\ ~ is_response(calls[n])) ~> (n \in freed \/ blocked)
=============================================================================
