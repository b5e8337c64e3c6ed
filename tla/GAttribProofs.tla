--------------------------- MODULE GAttribProofs ---------------------------
(***************************************************************************)
(* Theorems about GAttrib, for every value of its constants.                *)
(***************************************************************************)
EXTENDS GAttrib, TLAPS, SequenceTheorems

LEMMA ElementType ==
    ASSUME NEW S, NEW q \in Seq(S)
    PROVE  \A i \in DOMAIN q : q[i] \in S /\ i \in 1..Len(q)
OBVIOUS

LEMMA RemoveAtType ==
    ASSUME NEW S, NEW q \in Seq(S), NEW i \in 1..Len(q)
    PROVE  /\ RemoveAt(q, i) \in Seq(S)
           /\ Len(RemoveAt(q, i)) = Len(q) - 1
           /\ \A j \in 1..(Len(q) - 1) : RemoveAt(q, i)[j] = IF j < i THEN q[j] ELSE q[j + 1]
BY DEF RemoveAt

LEMMA TailType ==
    ASSUME NEW S, NEW q \in Seq(S), q # <<>>
    PROVE  /\ Tail(q) \in Seq(S) /\ q[1] \in S
           /\ Len(Tail(q)) = Len(q) - 1
           /\ \A j \in 1..(Len(q) - 1) : Tail(q)[j] = q[j + 1]
OBVIOUS

LEMMA ConsType ==
    ASSUME NEW S, NEW q \in Seq(S), NEW e \in S
    PROVE  /\ <<e>> \o q \in Seq(S)
           /\ <<e>> \o q # <<>>
           /\ Len(<<e>> \o q) = Len(q) + 1
           /\ (<<e>> \o q)[1] = e
           /\ \A j \in 2..(Len(q) + 1) : (<<e>> \o q)[j] = q[j - 1]
OBVIOUS

LEMMA ExpectedType ==
    ASSUME NEW op PROVE opcode2expected(op) \in ResponseOps \cup {NoResponse}
BY DEF opcode2expected, ResponseOps

LEMMA ResponseOpcodes == ResponseOps \subseteq Opcodes
BY DEF ResponseOps, Opcodes

(* An answer to the peer never waits for an answer itself. *)
LEMMA ResponsesExpectNothing ==
    ASSUME NEW op, is_response(op) PROVE opcode2expected(op) = NoResponse
BY DEF is_response, opcode2expected, ResponseOps, ResponseTo

LEMMA SendOpcodes == {"READ_REQ", "READ_BLOB_REQ"} \subseteq Opcodes
BY DEF Opcodes, ResponseTo

----------------------------------------------------------------------------
(* The inductive invariant: the checked invariants, and what frames, the      *)
(* stale flag and the end of the attrib let the other variables be.          *)

FrameOK ==
    /\ rd.phase = "result" => rd.cmd \in Command
    /\ to.active => to.cmd \in Command
    /\ rd.phase # "idle" /\ to.active => rd.phase = "events" /\ "nested" \in May
    /\ rd.phase = "result" => \A i \in DOMAIN requests : ~ requests[i].sent

AnswersOK == \A i \in DOMAIN responses : responses[i].expected = NoResponse

LifeOK ==
    /\ "unref" \notin May => held
    /\ dead => requests = <<>> /\ responses = <<>>
    /\ dead => read_watch # "on" /\ timeout_watch = "none"
    /\ timeout_watch = "fired" => stale \/ to.active

Inv ==
    /\ TypeOK /\ OneOutstanding /\ TimerGuardsRequest /\ SenderAwake
    /\ RefsExact /\ FrameOK /\ AnswersOK /\ LifeOK

LEMMA NewCommandType ==
    ASSUME TypeOK, Len(calls) < MaxCalls, NEW op \in Opcodes, NEW id \in Nat
    PROVE  NewCommand(id, op) \in Command /\ ~ NewCommand(id, op).sent
BY ExpectedType, BoundsAssumption
DEF TypeOK, HistTypes, NewCommand, Command, Calls, BoundsAssumption

LEMMA AppendFacts ==
    ASSUME NEW q \in Seq(Command), NEW c \in Command, ~ c.sent
    PROVE  /\ Append(q, c) \in Seq(Command)
           /\ Append(q, c) # <<>>
           /\ HeadSent(Append(q, c)) <=> HeadSent(q)
           /\ \A i \in DOMAIN Append(q, c) : Append(q, c)[i].sent => i \in DOMAIN q /\ q[i].sent
           /\ \A i \in DOMAIN Append(q, c) :
                 (i \in DOMAIN q /\ Append(q, c)[i] = q[i]) \/ Append(q, c)[i] = c
<1>1. /\ Append(q, c) \in Seq(Command) /\ Append(q, c) # <<>>
      /\ \A i \in DOMAIN Append(q, c) :
            (i \in DOMAIN q /\ Append(q, c)[i] = q[i]) \/ Append(q, c)[i] = c
  OBVIOUS
<1>2. HeadSent(Append(q, c)) <=> HeadSent(q)
  BY DEF HeadSent
<1> QED BY <1>1, <1>2

(* What every accepted g_attrib_send leaves in order, whichever queue it       *)
(* joins: q is that queue, d the waking condition.                          *)
LEMMA AcceptInv ==
    ASSUME Inv, NEW op \in Opcodes, Accept(op), NEW d, WakeIf(d)
    PROVE  /\ RefsExact' /\ WatchTypes' /\ FrameTypes' /\ LinkTypes' /\ HistTypes'
           /\ (write_watch' \/ blocked') \/ (~ d /\ write_watch' = write_watch /\ blocked' = blocked)
<1>1. RefsExact'
  BY DEF Inv, RefsExact, Count, Accept, AppRuns, frameVars, WakeIf, wake_up_sender, TypeOK, WatchTypes
<1>2. WatchTypes'
  <2>1. write_watch' \in BOOLEAN /\ held' \in BOOLEAN /\ to'.active \in BOOLEAN
    BY DEF Inv, TypeOK, WatchTypes, FrameTypes, Accept, frameVars, WakeIf, wake_up_sender
  <2>2. refs' \in 0..3
    BY <1>1, <2>1 DEF RefsExact, Count
  <2> QED BY <2>1, <2>2 DEF Inv, TypeOK, WatchTypes, Accept
<1>3. FrameTypes' /\ LinkTypes'
  BY DEF Inv, TypeOK, FrameTypes, LinkTypes, Accept, frameVars, linkVars
<1>4. HistTypes'
  <2>1. calls' \in Seq(Opcodes) /\ Len(calls') <= MaxCalls
    BY BoundsAssumption DEF Inv, TypeOK, HistTypes, Accept, BoundsAssumption
  <2>2. blocked' \in BOOLEAN
    BY DEF Inv, TypeOK, HistTypes, WakeIf, wake_up_sender
  <2>3. outcome' = outcome /\ freed' = freed /\ cancelled' = cancelled
    BY DEF Accept
  <2> QED BY <2>1, <2>2, <2>3 DEF Inv, TypeOK, HistTypes
<1> QED BY <1>1, <1>2, <1>3, <1>4 DEF WakeIf, wake_up_sender

LEMMA SendRequestInv ==
    ASSUME Inv, NEW op \in AppOps, SendRequest(op) PROVE Inv'
<1> DEFINE c == NewCommand(next_cmd_id + 1, op)
<1>1. c \in Command /\ ~ c.sent /\ op \in Opcodes
  BY NewCommandType, OpcodesAssumption
  DEF Inv, TypeOK, QueueTypes, SendRequest, Accept, OpcodesAssumption
<1>2. /\ requests' = Append(requests, c)
      /\ responses' = responses
      /\ WakeIf(requests = <<>>)
      /\ Accept(op)
      /\ next_cmd_id' = next_cmd_id + 1
  BY DEF SendRequest, Enqueue, WasEmpty
<1> HIDE DEF c
<1>3. /\ requests' \in Seq(Command)
      /\ HeadSent(requests)' <=> HeadSent(requests)
      /\ \A i \in DOMAIN requests' : requests'[i].sent => i \in DOMAIN requests /\ requests[i].sent
  BY <1>1, <1>2, AppendFacts DEF Inv, TypeOK, QueueTypes, HeadSent
<1>4. /\ RefsExact' /\ WatchTypes' /\ FrameTypes' /\ LinkTypes' /\ HistTypes'
      /\ write_watch' \/ blocked'
            \/ (requests # <<>> /\ write_watch' = write_watch /\ blocked' = blocked)
  BY <1>1, <1>2, AcceptInv
<1>5. QueueTypes'
  BY <1>2, <1>3 DEF Inv, TypeOK, QueueTypes, Accept
<1>6. OneOutstanding'
  BY <1>2, <1>3 DEF Inv, OneOutstanding
<1>7. TimerGuardsRequest'
  BY <1>2, <1>3 DEF Inv, TimerGuardsRequest, Accept, frameVars
<1>8. SenderAwake'
  BY <1>2, <1>3, <1>4 DEF Inv, SenderAwake, Accept, frameVars
<1>9. FrameOK' /\ AnswersOK' /\ LifeOK'
  BY <1>2, <1>3 DEF Inv, FrameOK, AnswersOK, LifeOK, Accept, AppRuns, frameVars
<1> QED BY <1>4, <1>5, <1>6, <1>7, <1>8, <1>9 DEF Inv, TypeOK

LEMMA SendResponseInv ==
    ASSUME Inv, NEW op \in AppOps, SendResponse(op) PROVE Inv'
<1> DEFINE c == NewCommand(next_cmd_id + 1, op)
<1>1. c \in Command /\ ~ c.sent /\ op \in Opcodes /\ c.expected = NoResponse
  <2>1. is_response(op)
    BY DEF SendResponse
  <2>2. c.expected = NoResponse
    BY <2>1, ResponsesExpectNothing DEF NewCommand
  <2> QED BY <2>2, NewCommandType, OpcodesAssumption
  DEF Inv, TypeOK, QueueTypes, SendResponse, Accept, OpcodesAssumption
<1>2. /\ responses' = Append(responses, c)
      /\ requests' = requests
      /\ WakeIf(responses = <<>>)
      /\ Accept(op)
      /\ next_cmd_id' = next_cmd_id + 1
  BY DEF SendResponse, Enqueue, WasEmpty
<1> HIDE DEF c
<1>3. /\ responses' \in Seq(Command)
      /\ \A i \in DOMAIN responses' : responses'[i].sent => i \in DOMAIN responses /\ responses[i].sent
      /\ \A i \in DOMAIN responses' :
            (i \in DOMAIN responses /\ responses'[i] = responses[i]) \/ responses'[i] = c
  BY <1>1, <1>2, AppendFacts DEF Inv, TypeOK, QueueTypes
<1>4. /\ RefsExact' /\ WatchTypes' /\ FrameTypes' /\ LinkTypes' /\ HistTypes'
      /\ write_watch' \/ blocked'
            \/ (responses # <<>> /\ write_watch' = write_watch /\ blocked' = blocked)
  BY <1>1, <1>2, AcceptInv
<1>5. QueueTypes'
  BY <1>2, <1>3 DEF Inv, TypeOK, QueueTypes, Accept
<1>6. OneOutstanding'
  BY <1>2, <1>3 DEF Inv, OneOutstanding
<1>7. TimerGuardsRequest'
  BY <1>2 DEF Inv, TimerGuardsRequest, Accept, frameVars, HeadSent
<1>8. SenderAwake'
  BY <1>2, <1>3, <1>4 DEF Inv, SenderAwake, Accept, frameVars, HeadSent
<1>10. AnswersOK'
  BY <1>1, <1>3 DEF Inv, AnswersOK
<1>9. FrameOK' /\ LifeOK'
  BY <1>2, <1>3 DEF Inv, FrameOK, LifeOK, Accept, AppRuns, frameVars
<1> QED BY <1>4, <1>5, <1>6, <1>7, <1>8, <1>9, <1>10 DEF Inv, TypeOK

LEMMA SendReusedInv ==
    ASSUME Inv, SendReused PROVE Inv'
<1> DEFINE c == NewCommand(rd.cmd.id, "READ_BLOB_REQ")
<1>1. c \in Command /\ ~ c.sent /\ "READ_BLOB_REQ" \in Opcodes
  <2>1. rd.cmd.id \in Nat
    BY DEF Inv, TypeOK, FrameTypes, NoCommand, Command
  <2> QED BY <2>1, NewCommandType, SendOpcodes DEF Inv, SendReused, Accept
<1>2. /\ requests' = <<c>> \o requests
      /\ responses' = responses
      /\ WakeIf(requests = <<>>)
      /\ Accept("READ_BLOB_REQ")
      /\ next_cmd_id' = next_cmd_id
      /\ rd.phase = "result" /\ ~ to.active /\ ~ stale
  BY DEF SendReused, Accept, WasEmpty
<1> HIDE DEF c
<1>3. \A i \in DOMAIN requests : ~ requests[i].sent
  BY <1>2 DEF Inv, FrameOK
<1>4. /\ requests' \in Seq(Command)
      /\ ~ HeadSent(requests) /\ ~ HeadSent(requests)'
      /\ \A i \in DOMAIN requests' : ~ requests'[i].sent
  BY <1>1, <1>2, <1>3, ConsType DEF Inv, TypeOK, QueueTypes, HeadSent
<1>5. /\ RefsExact' /\ WatchTypes' /\ FrameTypes' /\ LinkTypes' /\ HistTypes'
      /\ write_watch' \/ blocked'
            \/ (requests # <<>> /\ write_watch' = write_watch /\ blocked' = blocked)
  BY <1>1, <1>2, AcceptInv
<1>6. QueueTypes'
  BY <1>2, <1>4 DEF Inv, TypeOK, QueueTypes, Accept
<1>7. OneOutstanding'
  BY <1>2, <1>4 DEF Inv, OneOutstanding
<1>8. TimerGuardsRequest'
  BY <1>2, <1>4 DEF Inv, TimerGuardsRequest, Accept, frameVars
<1>9. SenderAwake'
  BY <1>2, <1>4, <1>5 DEF Inv, SenderAwake, Accept, frameVars
<1>10. FrameOK' /\ AnswersOK' /\ LifeOK'
  BY <1>2, <1>4 DEF Inv, FrameOK, AnswersOK, LifeOK, Accept, AppRuns, frameVars
<1> QED BY <1>5, <1>6, <1>7, <1>8, <1>9, <1>10 DEF Inv, TypeOK

----------------------------------------------------------------------------
(* Steps that touch only the events, and steps of the environment.          *)

LEMMA RegisterInv ==
    ASSUME Inv, g_attrib_register \/ g_attrib_unregister \/ g_attrib_unregister_all
    PROVE  Inv'
<1> DEFINE E == [id : Nat, expected : STRING, handle : STRING]
<1>1. events' \in Seq(E) /\ next_evt_id' \in 0..MaxEvents
  <2>1. CASE g_attrib_register
    <3>1. PICK k \in EventKinds :
             events' = Append(events, [id |-> next_evt_id + 1,
                                       expected |-> k.expected, handle |-> k.handle])
      BY <2>1 DEF g_attrib_register
    <3>2. [id |-> next_evt_id + 1, expected |-> k.expected, handle |-> k.handle] \in E
      BY OpcodesAssumption DEF OpcodesAssumption, Inv, TypeOK, QueueTypes
    <3>3. next_evt_id' \in 0..MaxEvents
      BY <2>1, BoundsAssumption DEF BoundsAssumption, Inv, TypeOK, QueueTypes, g_attrib_register
    <3> QED BY <3>1, <3>2, <3>3 DEF Inv, TypeOK, QueueTypes
  <2>2. CASE g_attrib_unregister
    BY <2>2, RemoveAtType DEF g_attrib_unregister, Inv, TypeOK, QueueTypes
  <2>3. CASE g_attrib_unregister_all
    BY <2>3 DEF g_attrib_unregister_all, Inv, TypeOK, QueueTypes
  <2> QED BY <2>1, <2>2, <2>3
<1>2. EventsUnchanged /\ AppRuns
  BY DEF g_attrib_register, g_attrib_unregister, g_attrib_unregister_all
<1>3. TypeOK'
  BY <1>1, <1>2 DEF Inv, TypeOK, QueueTypes, WatchTypes, FrameTypes, LinkTypes, HistTypes,
     EventsUnchanged, watchVars, frameVars, linkVars, histVars
<1>4. OneOutstanding' /\ TimerGuardsRequest' /\ SenderAwake' /\ RefsExact'
  BY <1>2 DEF Inv, OneOutstanding, TimerGuardsRequest, SenderAwake, RefsExact, Count, HeadSent,
     EventsUnchanged, watchVars, frameVars, histVars
<1>5. FrameOK' /\ AnswersOK' /\ LifeOK'
  BY <1>2 DEF Inv, FrameOK, AnswersOK, LifeOK, EventsUnchanged, watchVars, frameVars
<1> QED BY <1>3, <1>4, <1>5 DEF Inv

LEMMA PeerInv ==
    ASSUME Inv, Peer PROVE Inv'
<1>1. LinkTypes'
  <2> DEFINE P == [opcode : Opcodes, handle : PduHandles, re : 0..MaxCalls]
  <2>1. CASE PeerAnswers
    <3>1. wire[1] \in [n : Calls, expected : ResponseOps] /\ wire' \in Seq([n : Calls, expected : ResponseOps])
      BY <2>1, TailType DEF PeerAnswers, Inv, TypeOK, LinkTypes
    <3>2. PICK op \in {wire[1].expected, "ERROR"} :
             inbox' = Append(inbox, [opcode |-> op, handle |-> NoHandle, re |-> wire[1].n])
      BY <2>1 DEF PeerAnswers
    <3>3. [opcode |-> op, handle |-> NoHandle, re |-> wire[1].n] \in P
      <4>1. op \in Opcodes
        BY <3>1, <3>2, ResponseOpcodes DEF ResponseOps
      <4>2. wire[1].n \in 0..MaxCalls
        BY <3>1, BoundsAssumption DEF Calls, BoundsAssumption
      <4> QED BY <4>1, <4>2 DEF PduHandles
    <3>4. inbox' \in Seq(P)
      BY <3>2, <3>3 DEF Inv, TypeOK, LinkTypes
    <3> QED BY <2>1, <3>1, <3>4 DEF PeerAnswers, Inv, TypeOK, LinkTypes
  <2>2. CASE PeerSignals
    <3>1. PICK s \in Signals :
             inbox' = Append(inbox, [opcode |-> s.opcode, handle |-> s.handle, re |-> 0])
      BY <2>2 DEF PeerSignals
    <3>2. [opcode |-> s.opcode, handle |-> s.handle, re |-> 0] \in P
      BY OpcodesAssumption, BoundsAssumption DEF OpcodesAssumption, BoundsAssumption, PduHandles
    <3>3. inbox' \in Seq(P)
      BY <3>1, <3>2 DEF Inv, TypeOK, LinkTypes
    <3>4. signals' \in 0..MaxSignals
      BY <2>2, BoundsAssumption DEF PeerSignals, BoundsAssumption, Inv, TypeOK, LinkTypes
    <3> QED BY <2>2, <3>3, <3>4 DEF PeerSignals, Inv, TypeOK, LinkTypes
  <2>3. CASE Disconnect
    BY <2>3 DEF Disconnect, Inv, TypeOK, LinkTypes
  <2> QED BY <2>1, <2>2, <2>3 DEF Peer
<1>2. LinkUnchanged
  BY DEF Peer, PeerAnswers, PeerSignals, Disconnect
<1>3. TypeOK'
  BY <1>1, <1>2 DEF Inv, TypeOK, QueueTypes, WatchTypes, FrameTypes, HistTypes,
     LinkUnchanged, queueVars, watchVars, frameVars, histVars
<1>4. OneOutstanding' /\ TimerGuardsRequest' /\ SenderAwake' /\ RefsExact'
  BY <1>2 DEF Inv, OneOutstanding, TimerGuardsRequest, SenderAwake, RefsExact, Count, HeadSent,
     LinkUnchanged, queueVars, watchVars, frameVars, histVars
<1>5. FrameOK' /\ AnswersOK' /\ LifeOK'
  BY <1>2 DEF Inv, FrameOK, AnswersOK, LifeOK, LinkUnchanged, queueVars, watchVars, frameVars
<1> QED BY <1>3, <1>4, <1>5 DEF Inv

----------------------------------------------------------------------------
(* Cancelling.                                                              *)

(* Cancelling one command or all of them leaves a queue with no sent command   *)
(* it did not have, and takes no sent head away. *)
Thinned(q, r) ==
    /\ r \in Seq(Command)
    /\ HeadSent(r) <=> HeadSent(q)
    /\ \A i \in DOMAIN r : r[i].sent => i = 1
    /\ q = <<>> => r = <<>>
    /\ (\A i \in DOMAIN q : ~ q[i].sent) => \A i \in DOMAIN r : ~ r[i].sent
    /\ (\A i \in DOMAIN q : q[i].expected = NoResponse)
          => \A i \in DOMAIN r : r[i].expected = NoResponse

LEMMA CancelInFacts ==
    ASSUME NEW q \in Seq(Command), NEW i \in DOMAIN q,
           \A j \in DOMAIN q : q[j].sent => j = 1
    PROVE  Thinned(q, CancelIn(q, i))
<1>1. CASE i = 1 /\ q[1].sent
  <2> DEFINE c == [q[1] EXCEPT !.func = FALSE]
  <2>1. q[1] \in Command
    BY <1>1, ElementType
  <2>2. c \in Command /\ c.sent = q[1].sent /\ c.expected = q[1].expected
    BY <2>1 DEF Command
  <2>3. CancelIn(q, i) = [q EXCEPT ![1] = c]
    BY <1>1 DEF CancelIn
  <2> DEFINE r == [q EXCEPT ![1] = c]
  <2>4. /\ r \in Seq(Command) /\ DOMAIN r = DOMAIN q /\ r # <<>>
        /\ \A j \in DOMAIN r : r[j] = IF j = 1 THEN c ELSE q[j]
    <3> HIDE DEF c
    <3> QED BY <1>1, <2>2
  <2> HIDE DEF c, r
  <2>5. Thinned(q, r)
    <3>1. q # <<>> /\ r[1] = c /\ c.sent /\ 1 \in DOMAIN q
      BY <1>1, <2>2, <2>4
    <3>3. (\A j \in DOMAIN q : q[j].expected = NoResponse)
             => \A j \in DOMAIN r : r[j].expected = NoResponse
      BY <2>2, <2>4, <3>1
    <3>2. HeadSent(r) /\ HeadSent(q) /\ \A j \in DOMAIN r : r[j].sent => j = 1
      BY <1>1, <2>4, <3>1 DEF HeadSent
    <3> QED BY <1>1, <2>4, <3>1, <3>2, <3>3 DEF Thinned
  <2> QED BY <2>3, <2>5 DEF r
<1>2. CASE ~ (i = 1 /\ q[1].sent)
  <2>1. /\ i \in 1..Len(q)
        /\ CancelIn(q, i) = RemoveAt(q, i)
    BY <1>2, ElementType DEF CancelIn
  <2>2. ~ q[1].sent \/ 1 < i
    BY <1>2, <2>1
  <2> DEFINE r == RemoveAt(q, i)
  <2>3. /\ r \in Seq(Command)
        /\ Len(r) = Len(q) - 1
        /\ \A j \in 1..(Len(q) - 1) : r[j] = IF j < i THEN q[j] ELSE q[j + 1]
    BY <2>1, RemoveAtType
  <2> HIDE DEF r
  <2>4. \A j \in DOMAIN r : r[j].sent => j = 1 /\ q[1].sent
    BY <2>1, <2>3
  <2>5. HeadSent(q) => HeadSent(r)
    BY <2>1, <2>2, <2>3 DEF HeadSent
  <2>6. HeadSent(r) => HeadSent(q)
    BY <2>1, <2>3, <2>4 DEF HeadSent
  <2>7. Thinned(q, r)
    BY <2>1, <2>3, <2>4, <2>5, <2>6 DEF Thinned
  <2> QED BY <2>1, <2>7 DEF r
<1> QED BY <1>1, <1>2

LEMMA CancelAllFacts ==
    ASSUME NEW q \in Seq(Command), \A j \in DOMAIN q : q[j].sent => j = 1
    PROVE  Thinned(q, cancel_all_per_queue(q))
<1>1. CASE HeadSent(q)
  <2> DEFINE c == [q[1] EXCEPT !.func = FALSE]
  <2>1. q[1] \in Command
    BY <1>1, ElementType DEF HeadSent
  <2>2. c \in Command /\ c.sent = q[1].sent /\ c.expected = q[1].expected
    BY <2>1 DEF Command
  <2>3. cancel_all_per_queue(q) = <<c>>
    BY <1>1 DEF cancel_all_per_queue
  <2>4. /\ <<c>> \in Seq(Command) /\ <<c>> # <<>> /\ <<c>>[1] = c
        /\ \A j \in DOMAIN <<c>> : j = 1
    <3> HIDE DEF c
    <3> QED BY <2>2
  <2> HIDE DEF c
  <2>5. Thinned(q, <<c>>)
    <3>1. HeadSent(<<c>>)
      BY <1>1, <2>2, <2>4 DEF HeadSent
    <3>2. q # <<>> /\ 1 \in DOMAIN q /\ q[1].sent
      BY <1>1 DEF HeadSent
    <3>3. (\A j \in DOMAIN q : q[j].expected = NoResponse)
             => \A j \in DOMAIN <<c>> : <<c>>[j].expected = NoResponse
      BY <2>2, <2>4, <3>2
    <3> QED BY <1>1, <2>4, <3>1, <3>2, <3>3 DEF Thinned
  <2> QED BY <2>3, <2>5
<1>2. CASE ~ HeadSent(q)
  BY <1>2 DEF HeadSent, cancel_all_per_queue, Thinned
<1> QED BY <1>1, <1>2

LEMMA ThinnedRefl ==
    ASSUME NEW q \in Seq(Command), \A j \in DOMAIN q : q[j].sent => j = 1
    PROVE  Thinned(q, q)
BY DEF Thinned

LEMMA NumbersType ==
    ASSUME NEW q \in Seq(Command) PROVE Numbers(q) \subseteq Calls
<1>1. \A i \in DOMAIN q : q[i] \in Command
  BY ElementType
<1>2. \A c \in Command : c.n \in Calls
  BY DEF Command
<1> QED BY <1>1, <1>2 DEF Numbers

LEMMA CancelInv ==
    ASSUME Inv, g_attrib_cancel \/ g_attrib_cancel_all PROVE Inv'
<1>1. /\ requests \in Seq(Command) /\ responses \in Seq(Command)
      /\ \A j \in DOMAIN requests : requests[j].sent => j = 1
      /\ \A j \in DOMAIN responses : ~ responses[j].sent
  BY DEF Inv, TypeOK, QueueTypes, OneOutstanding
<1>2. /\ Thinned(requests, requests') /\ Thinned(responses, responses')
      /\ freed' \subseteq Calls /\ cancelled' \subseteq Calls
  <2>1. CASE g_attrib_cancel_all
    BY <1>1, <2>1, CancelAllFacts, NumbersType
    DEF g_attrib_cancel_all, Inv, TypeOK, HistTypes
  <2>2. CASE \E i \in DOMAIN requests :
                /\ requests' = CancelIn(requests, i)
                /\ freed' = freed \cup Removed(requests, i)
                /\ cancelled' = cancelled \cup {requests[i].n}
                /\ UNCHANGED responses
    <3>1. PICK i \in DOMAIN requests :
                /\ requests' = CancelIn(requests, i)
                /\ freed' = freed \cup Removed(requests, i)
                /\ cancelled' = cancelled \cup {requests[i].n}
                /\ UNCHANGED responses
      BY <2>2
    <3>2. requests[i].n \in Calls
      <4>1. requests[i] \in Command
        BY <1>1, ElementType
      <4> QED BY <4>1 DEF Command
    <3> QED BY <1>1, <3>1, <3>2, CancelInFacts, ThinnedRefl DEF Removed, Inv, TypeOK, HistTypes
  <2>3. CASE \E i \in DOMAIN responses :
                /\ responses' = CancelIn(responses, i)
                /\ freed' = freed \cup Removed(responses, i)
                /\ cancelled' = cancelled \cup {responses[i].n}
                /\ UNCHANGED requests
    <3>1. PICK i \in DOMAIN responses :
                /\ responses' = CancelIn(responses, i)
                /\ freed' = freed \cup Removed(responses, i)
                /\ cancelled' = cancelled \cup {responses[i].n}
                /\ UNCHANGED requests
      BY <2>3
    <3>2. responses[i].n \in Calls
      <4>1. responses[i] \in Command
        BY <1>1, ElementType
      <4> QED BY <4>1 DEF Command
    <3> QED BY <1>1, <3>1, <3>2, CancelInFacts, ThinnedRefl DEF Removed, Inv, TypeOK, HistTypes
  <2> QED BY <2>1, <2>2, <2>3 DEF g_attrib_cancel
<1>3. CancelUnchanged /\ AppRuns
  BY DEF g_attrib_cancel, g_attrib_cancel_all
<1>4. QueueTypes' /\ WatchTypes' /\ FrameTypes' /\ LinkTypes'
  BY <1>2, <1>3 DEF Inv, TypeOK, QueueTypes, WatchTypes, FrameTypes, LinkTypes, Thinned,
     CancelUnchanged, watchVars, frameVars, linkVars
<1>5. HistTypes'
  BY <1>2, <1>3 DEF Inv, TypeOK, HistTypes, CancelUnchanged
<1>6. OneOutstanding' /\ SenderAwake' /\ TimerGuardsRequest'
  BY <1>1, <1>2, <1>3 DEF Inv, OneOutstanding, TimerGuardsRequest, SenderAwake, Thinned,
     CancelUnchanged, watchVars, frameVars
<1>7. RefsExact' /\ FrameOK' /\ AnswersOK' /\ LifeOK'
  BY <1>1, <1>2, <1>3 DEF Inv, RefsExact, Count, FrameOK, AnswersOK, LifeOK, Thinned,
     CancelUnchanged, watchVars, frameVars
<1> QED BY <1>4, <1>5, <1>6, <1>7 DEF Inv, TypeOK

----------------------------------------------------------------------------
(* Dropping a reference: with the last one everything the attrib owns goes,   *)
(* otherwise the queues and the timer are what the step leaves.              *)

LEMMA DropFacts ==
    ASSUME Inv, ~ dead,
           NEW reqs \in Seq(Command), NEW resps \in Seq(Command),
           NEW timer \in {"none", "armed", "fired"}, NEW gone \in SUBSET Calls,
           g_attrib_unref(reqs, resps, timer, gone)
    PROVE  /\ requests' \in Seq(Command) /\ responses' \in Seq(Command)
           /\ events' \in Seq([id : Nat, expected : STRING, handle : STRING])
           /\ read_watch' \in {"on", "off", "gone"}
           /\ timeout_watch' \in {"none", "armed", "fired"}
           /\ dead' \in BOOLEAN /\ freed' \subseteq Calls
           /\ refs' = refs - 1
           /\ dead' <=> refs = 1
           /\ dead' => /\ requests' = <<>> /\ responses' = <<>>
                       /\ read_watch' = "off" /\ timeout_watch' = "none"
           /\ ~ dead' => /\ requests' = reqs /\ responses' = resps
                         /\ timeout_watch' = timer
<1>1. Numbers(reqs) \cup Numbers(resps) \subseteq Calls
  BY NumbersType
<1>2. CASE refs = 1
  BY <1>1, <1>2 DEF g_attrib_unref, attrib_destroy, Inv, TypeOK, HistTypes
<1>3. CASE refs # 1
  BY <1>3 DEF g_attrib_unref, Inv, TypeOK, QueueTypes, WatchTypes, HistTypes
<1> QED BY <1>2, <1>3

LEMMA UnrefInv ==
    ASSUME Inv, Unref PROVE Inv'
<1>1. /\ ~ dead /\ held /\ held' = FALSE /\ "unref" \in May
      /\ write_watch' = (write_watch /\ refs # 1)
      /\ UNCHANGED <<next_cmd_id, next_evt_id, stale, frameVars, linkVars,
                     calls, outcome, cancelled, blocked>>
      /\ rd.phase # "events"
  BY DEF Unref, AppRuns
<1>2. /\ requests \in Seq(Command) /\ responses \in Seq(Command)
      /\ timeout_watch \in {"none", "armed", "fired"}
      /\ g_attrib_unref(requests, responses, timeout_watch, {})
  BY DEF Unref, Inv, TypeOK, QueueTypes, WatchTypes
<1>3. /\ requests' \in Seq(Command) /\ responses' \in Seq(Command)
      /\ events' \in Seq([id : Nat, expected : STRING, handle : STRING])
      /\ read_watch' \in {"on", "off", "gone"}
      /\ timeout_watch' \in {"none", "armed", "fired"}
      /\ dead' \in BOOLEAN /\ freed' \subseteq Calls
      /\ refs' = refs - 1
      /\ dead' <=> refs = 1
      /\ dead' => /\ requests' = <<>> /\ responses' = <<>>
                  /\ read_watch' = "off" /\ timeout_watch' = "none"
      /\ ~ dead' => /\ requests' = requests /\ responses' = responses
                    /\ timeout_watch' = timeout_watch
  BY <1>1, <1>2, DropFacts
<1>4. RefsExact'
  BY <1>1, <1>3 DEF Inv, RefsExact, Count, TypeOK, WatchTypes, FrameTypes, frameVars
<1>5. WatchTypes' /\ FrameTypes'
  <2>1. write_watch' \in BOOLEAN
    BY <1>1
  <2>2. held' \in BOOLEAN /\ FrameTypes'
    BY <1>1 DEF Inv, TypeOK, FrameTypes, frameVars
  <2>4. refs' \in 0..3
    BY <1>4, <2>1, <2>2 DEF RefsExact, Count, FrameTypes
  <2>3. stale' \in BOOLEAN
    BY <1>1 DEF Inv, TypeOK, WatchTypes
  <2> QED BY <1>3, <2>1, <2>2, <2>3, <2>4 DEF WatchTypes
<1>6. TypeOK'
  <2>1. QueueTypes' /\ LinkTypes'
    BY <1>1, <1>3 DEF Inv, TypeOK, QueueTypes, LinkTypes, linkVars
  <2>2. HistTypes'
    BY <1>1, <1>3 DEF Inv, TypeOK, HistTypes
  <2> QED BY <1>5, <2>1, <2>2 DEF TypeOK
<1>7. OneOutstanding' /\ TimerGuardsRequest'
  BY <1>1, <1>3 DEF Inv, OneOutstanding, TimerGuardsRequest, HeadSent, frameVars
<1>8. SenderAwake'
  BY <1>1, <1>3 DEF Inv, SenderAwake, HeadSent, frameVars
<1>9. FrameOK' /\ AnswersOK' /\ LifeOK'
  BY <1>1, <1>3 DEF Inv, FrameOK, AnswersOK, LifeOK, frameVars
<1> QED BY <1>4, <1>6, <1>7, <1>8, <1>9 DEF Inv

----------------------------------------------------------------------------
(* The write source.  While it exists the attrib is alive, and with nested     *)
(* main loops the application's reference outlives it.                      *)

LEMMA WriteFacts ==
    ASSUME Inv, WriteDispatch
    PROVE  /\ write_watch /\ ~ dead /\ ~ to.active
           /\ rd.phase = "idle" \/ (rd.phase = "events" /\ held)
           /\ requests \in Seq(Command) /\ responses \in Seq(Command)
           /\ \A i \in DOMAIN requests : requests[i].sent => i = 1
           /\ \A i \in DOMAIN responses : ~ responses[i].sent
<1>1. write_watch /\ LoopRuns
  BY DEF WriteDispatch
<1>4. ~ to.active /\ (rd.phase = "idle" \/ (rd.phase = "events" /\ "nested" \in May))
  BY <1>1 DEF LoopRuns
<1>2. ~ dead
  BY <1>1 DEF Inv, RefsExact, Count, TypeOK, WatchTypes
<1>3. "nested" \in May => held
  BY FeaturesAssumption DEF FeaturesAssumption, Inv, LifeOK
<1>5. /\ requests \in Seq(Command) /\ responses \in Seq(Command)
      /\ \A i \in DOMAIN requests : requests[i].sent => i = 1
      /\ \A i \in DOMAIN responses : ~ responses[i].sent
  BY DEF Inv, TypeOK, QueueTypes, OneOutstanding
<1>6. rd.phase = "idle" \/ (rd.phase = "events" /\ held)
  BY <1>3, <1>4
<1>7. ~ to.active
  BY <1>4
<1> QED BY <1>1, <1>2, <1>5, <1>6, <1>7

(* A write dispatch that ends in destroy_sender, with the requests it leaves.  *)
LEMMA DestroySenderInv ==
    ASSUME Inv, WriteDispatch,
           NEW reqs \in Seq(Command), NEW timer \in {"none", "armed", "fired"},
           destroy_sender(reqs, timer), LinkTypes', blocked' \in BOOLEAN,
           \A i \in DOMAIN reqs : reqs[i].sent => i = 1,
           ~ stale => (timer = "armed" <=> HeadSent(reqs)),
           timer = "fired" => stale,
           ~ stale /\ ~ blocked' => /\ responses = <<>>
                                    /\ reqs = <<>> \/ HeadSent(reqs)
    PROVE  Inv'
<1>1. /\ write_watch /\ ~ dead /\ ~ to.active
      /\ rd.phase = "idle" \/ (rd.phase = "events" /\ held)
      /\ responses \in Seq(Command)
      /\ write_watch' = FALSE
      /\ g_attrib_unref(reqs, responses, timer, {})
      /\ UNCHANGED <<next_cmd_id, next_evt_id, stale, held, frameVars, calls, outcome, cancelled>>
  BY WriteFacts DEF WriteDispatch, destroy_sender
<1>2. /\ requests' \in Seq(Command) /\ responses' \in Seq(Command)
      /\ events' \in Seq([id : Nat, expected : STRING, handle : STRING])
      /\ read_watch' \in {"on", "off", "gone"}
      /\ timeout_watch' \in {"none", "armed", "fired"}
      /\ dead' \in BOOLEAN /\ freed' \subseteq Calls
      /\ refs' = refs - 1
      /\ dead' <=> refs = 1
      /\ dead' => /\ requests' = <<>> /\ responses' = <<>>
                  /\ read_watch' = "off" /\ timeout_watch' = "none"
      /\ ~ dead' => /\ requests' = reqs /\ responses' = responses
                    /\ timeout_watch' = timer
  BY <1>1, DropFacts
<1>3. UNCHANGED <<rd, to>>
  BY <1>1 DEF frameVars
<1>4. RefsExact'
  BY <1>1, <1>2, <1>3 DEF Inv, RefsExact, Count, TypeOK, WatchTypes, FrameTypes
<1>5. WatchTypes' /\ FrameTypes'
  <2>1. write_watch' \in BOOLEAN /\ held' \in BOOLEAN /\ FrameTypes' /\ stale' \in BOOLEAN
    BY <1>1, <1>3 DEF Inv, TypeOK, WatchTypes, FrameTypes
  <2>2. refs' \in 0..3
    BY <1>4, <2>1 DEF RefsExact, Count, FrameTypes
  <2> QED BY <1>2, <2>1, <2>2 DEF WatchTypes
<1>6. QueueTypes' /\ HistTypes'
  BY <1>1, <1>2 DEF Inv, TypeOK, QueueTypes, HistTypes
<1>7. OneOutstanding'
  <2>1. CASE dead'
    BY <1>2, <2>1 DEF OneOutstanding
  <2>2. CASE ~ dead'
    BY <1>2, <2>2 DEF OneOutstanding, Inv
  <2> QED BY <2>1, <2>2
<1>8. TimerGuardsRequest' /\ SenderAwake'
  BY <1>1, <1>2, <1>3 DEF TimerGuardsRequest, SenderAwake, HeadSent
<1>9. FrameOK' /\ LifeOK'
  BY <1>1, <1>2, <1>3 DEF Inv, FrameOK, LifeOK
<1>10. AnswersOK'
  <2>1. CASE dead'
    BY <1>2, <2>1 DEF AnswersOK
  <2>2. CASE ~ dead'
    BY <1>2, <2>2 DEF AnswersOK, Inv
  <2> QED BY <2>1, <2>2
<1> QED BY <1>4, <1>5, <1>6, <1>7, <1>8, <1>9, <1>10 DEF Inv, TypeOK

LEMMA WriteNothingInv ==
    ASSUME Inv, WriteNothing PROVE Inv'
<1>1. /\ WriteDispatch /\ NothingToWrite
      /\ destroy_sender(requests, timeout_watch)
      /\ UNCHANGED <<wire, blocked>>
  BY DEF WriteNothing
<1>2. /\ ~ dead /\ ~ to.active
      /\ requests \in Seq(Command) /\ responses \in Seq(Command)
      /\ \A i \in DOMAIN requests : requests[i].sent => i = 1
      /\ \A i \in DOMAIN responses : ~ responses[i].sent
  BY <1>1, WriteFacts
<1>3. LinkTypes' /\ blocked' \in BOOLEAN /\ timeout_watch \in {"none", "armed", "fired"}
  BY <1>1 DEF WriteDispatch, Inv, TypeOK, LinkTypes, HistTypes, WatchTypes
<1>4. /\ ~ stale => (timeout_watch = "armed" <=> HeadSent(requests))
      /\ timeout_watch = "fired" => stale
  BY <1>2 DEF Inv, TimerGuardsRequest, LifeOK
<1>5. ~ stale => /\ responses = <<>>
                 /\ requests = <<>> \/ HeadSent(requests)
  BY <1>1, <1>2 DEF NothingToWrite, NextToWrite, HeadSent
<1> QED BY <1>1, <1>2, <1>3, <1>4, <1>5, DestroySenderInv

LEMMA WriteErrorInv ==
    ASSUME Inv, WriteError PROVE Inv'
<1>1. /\ WriteDispatch
      /\ destroy_sender(requests, timeout_watch)
      /\ blocked' = TRUE /\ UNCHANGED wire
  BY DEF WriteError
<1>2. /\ ~ dead /\ ~ to.active
      /\ requests \in Seq(Command)
      /\ \A i \in DOMAIN requests : requests[i].sent => i = 1
  BY <1>1, WriteFacts
<1>3. LinkTypes' /\ blocked' \in BOOLEAN /\ timeout_watch \in {"none", "armed", "fired"}
  BY <1>1 DEF WriteDispatch, Inv, TypeOK, LinkTypes, HistTypes, WatchTypes
<1>4. /\ ~ stale => (timeout_watch = "armed" <=> HeadSent(requests))
      /\ timeout_watch = "fired" => stale
  BY <1>2 DEF Inv, TimerGuardsRequest, LifeOK
<1> QED BY <1>1, <1>2, <1>3, <1>4, DestroySenderInv

(* Marking the head sent changes nothing else of the queue. *)
LEMMA MarkSent ==
    ASSUME NEW q \in Seq(Command), q # <<>>, \A i \in DOMAIN q : q[i].sent => i = 1
    PROVE  /\ [q EXCEPT ![1].sent = TRUE] \in Seq(Command)
           /\ HeadSent([q EXCEPT ![1].sent = TRUE])
           /\ \A i \in DOMAIN [q EXCEPT ![1].sent = TRUE] :
                 [q EXCEPT ![1].sent = TRUE][i].sent => i = 1
<1> DEFINE c == [q[1] EXCEPT !.sent = TRUE]
           r == [q EXCEPT ![1] = c]
<1>1. q[1] \in Command
  BY ElementType
<1>2. c \in Command /\ c.sent
  BY <1>1 DEF Command
<1>3. [q EXCEPT ![1].sent = TRUE] = r
  OBVIOUS
<1>4. /\ r \in Seq(Command) /\ DOMAIN r = DOMAIN q /\ r # <<>> /\ r[1] = c
      /\ \A j \in DOMAIN r : r[j] = IF j = 1 THEN c ELSE q[j]
  <2> HIDE DEF c
  <2> QED BY <1>2
<1> HIDE DEF c, r
<1>5. HeadSent(r) /\ \A i \in DOMAIN r : r[i].sent => i = 1
  BY <1>2, <1>4 DEF HeadSent
<1> QED BY <1>3, <1>4, <1>5

LEMMA WriteRequestInv ==
    ASSUME Inv, WriteRequest PROVE Inv'
<1> DEFINE reqs == [requests EXCEPT ![1].sent = TRUE]
<1>1. /\ WriteDispatch /\ ~ NothingToWrite
      /\ NextToWrite[1].expected # NoResponse
      /\ wire' = Append(wire, [n |-> NextToWrite[1].n, expected |-> NextToWrite[1].expected])
      /\ destroy_sender(reqs, TimerAfterRequest)
      /\ UNCHANGED blocked
  BY DEF WriteRequest, Write
<1>2. /\ ~ dead /\ ~ to.active /\ ~ stale
      /\ requests \in Seq(Command) /\ responses \in Seq(Command)
      /\ \A i \in DOMAIN requests : requests[i].sent => i = 1
  BY <1>1, WriteFacts DEF NothingToWrite
<1>3. responses = <<>> /\ requests # <<>> /\ requests[1] \in Command
      /\ NextToWrite = requests /\ ~ HeadSent(requests)
  <2>1. responses # <<>> => responses[1].expected = NoResponse
    BY <1>2 DEF Inv, AnswersOK
  <2>2. responses = <<>> /\ NextToWrite = requests
    BY <1>1, <2>1 DEF NextToWrite
  <2> QED BY <1>1, <1>2, <2>2, ElementType DEF NothingToWrite
<1>4. timeout_watch = "none"
  BY <1>2, <1>3 DEF Inv, TimerGuardsRequest, LifeOK, TypeOK, WatchTypes
<1>5. TimerAfterRequest = "armed"
  BY <1>4 DEF TimerAfterRequest
<1>6. reqs \in Seq(Command) /\ HeadSent(reqs) /\ \A i \in DOMAIN reqs : reqs[i].sent => i = 1
  BY <1>2, <1>3, MarkSent
<1> HIDE DEF reqs
<1>7. LinkTypes' /\ blocked' \in BOOLEAN
  <2>1. [n |-> requests[1].n, expected |-> requests[1].expected] \in [n : Calls, expected : ResponseOps]
    BY <1>1, <1>3 DEF Command
  <2>2. wire' \in Seq([n : Calls, expected : ResponseOps])
    BY <1>1, <1>3, <2>1 DEF Inv, TypeOK, LinkTypes
  <2> QED BY <1>1, <2>2 DEF WriteDispatch, Inv, TypeOK, LinkTypes, HistTypes
<1> QED BY <1>1, <1>2, <1>3, <1>5, <1>6, <1>7, DestroySenderInv

LEMMA WriteCommandInv ==
    ASSUME Inv, WriteCommand PROVE Inv'
<1>1. /\ WriteDispatch /\ ~ NothingToWrite
      /\ IF responses # <<>>
         THEN responses' = Tail(responses) /\ UNCHANGED requests
         ELSE requests' = Tail(requests) /\ UNCHANGED responses
      /\ freed' = freed \cup {NextToWrite[1].n}
      /\ UNCHANGED <<events, write_watch, read_watch, timeout_watch, refs, dead, wire, blocked>>
  BY DEF WriteCommand, Write
<1>2. /\ write_watch /\ ~ dead /\ ~ to.active /\ ~ stale
      /\ requests \in Seq(Command) /\ responses \in Seq(Command)
      /\ \A i \in DOMAIN requests : requests[i].sent => i = 1
      /\ \A i \in DOMAIN responses : ~ responses[i].sent
  BY <1>1, WriteFacts DEF NothingToWrite
<1>3. UNCHANGED <<next_cmd_id, next_evt_id, stale, held, rd, to, chan, inbox, signals,
                  calls, outcome, cancelled>>
  BY <1>1 DEF WriteDispatch, frameVars
<1>4. /\ requests' \in Seq(Command) /\ responses' \in Seq(Command)
      /\ NextToWrite[1] \in Command
      /\ \A i \in DOMAIN requests' : requests'[i].sent => i = 1
      /\ \A i \in DOMAIN responses' : ~ responses'[i].sent
      /\ (\A i \in DOMAIN requests : ~ requests[i].sent) => \A i \in DOMAIN requests' : ~ requests'[i].sent
      /\ HeadSent(requests') <=> HeadSent(requests)
      /\ AnswersOK'
  <2>1. CASE responses # <<>>
    <3>1. responses[1] \in Command /\ responses' \in Seq(Command)
          /\ Len(responses') = Len(responses) - 1
          /\ \A j \in 1..(Len(responses) - 1) : responses'[j] = responses[j + 1]
      BY <1>1, <1>2, <2>1, TailType
    <3>2. \A j \in DOMAIN responses' : j + 1 \in DOMAIN responses /\ responses'[j] = responses[j + 1]
      BY <1>2, <3>1
    <3>3. AnswersOK' /\ \A i \in DOMAIN responses' : ~ responses'[i].sent
      BY <1>2, <3>2 DEF Inv, AnswersOK
    <3> QED BY <1>1, <1>2, <2>1, <3>1, <3>3 DEF NextToWrite
  <2>2. CASE responses = <<>>
    <3>1. NextToWrite = requests /\ requests # <<>> /\ ~ HeadSent(requests)
      BY <1>1, <2>2 DEF NextToWrite, NothingToWrite
    <3>2. requests[1] \in Command /\ requests' \in Seq(Command)
          /\ Len(requests') = Len(requests) - 1
          /\ \A j \in 1..(Len(requests) - 1) : requests'[j] = requests[j + 1]
      BY <1>1, <1>2, <2>2, <3>1, TailType
    <3>3. \A j \in DOMAIN requests' :
             j \in Nat \ {0} /\ j + 1 \in DOMAIN requests /\ requests'[j] = requests[j + 1]
      BY <1>2, <3>2
    <3>4. \A j \in DOMAIN requests' : ~ requests'[j].sent
      BY <1>2, <3>3
    <3>5. ~ HeadSent(requests')
      BY <3>2, <3>4 DEF HeadSent
    <3> QED BY <1>1, <1>2, <2>2, <3>1, <3>2, <3>4, <3>5 DEF AnswersOK
  <2> QED BY <2>1, <2>2
<1>5. NextToWrite[1].n \in Calls
  BY <1>4 DEF Command
<1>6. TypeOK'
  BY <1>1, <1>3, <1>4, <1>5 DEF Inv, TypeOK, QueueTypes, WatchTypes, FrameTypes, LinkTypes, HistTypes
<1>7. OneOutstanding' /\ TimerGuardsRequest' /\ SenderAwake' /\ RefsExact'
  BY <1>1, <1>2, <1>3, <1>4 DEF Inv, OneOutstanding, TimerGuardsRequest, SenderAwake, RefsExact, Count
<1>8. FrameOK' /\ LifeOK'
  BY <1>1, <1>2, <1>3, <1>4 DEF Inv, FrameOK, LifeOK
<1> QED BY <1>4, <1>6, <1>7, <1>8 DEF Inv

----------------------------------------------------------------------------
(* The read source.                                                         *)

(* A step of received_data that completes no request: it enters a handler,     *)
(* or comes back to idle, and stops the timer only if nothing is out.        *)
LEMMA QuietReadInv ==
    ASSUME Inv, ~ dead, ~ to.active,
           UNCHANGED <<requests, responses, events, next_cmd_id, next_evt_id, write_watch, refs,
                       stale, dead, held, to, calls, outcome, freed, cancelled, blocked>>,
           LinkTypes',
           rd'.phase \in {"idle", "events"}, rd'.cmd = NoCommand, rd'.status = "ok",
           read_watch' \in {"on", "off", "gone"},
           timeout_watch' = timeout_watch \/ (timeout_watch' = "none" /\ requests = <<>>)
    PROVE  Inv'
<1>1. QueueTypes' /\ HistTypes'
  BY DEF Inv, TypeOK, QueueTypes, HistTypes
<1>2. WatchTypes' /\ FrameTypes'
  BY DEF Inv, TypeOK, WatchTypes, FrameTypes, Statuses
<1>3. OneOutstanding' /\ SenderAwake' /\ RefsExact' /\ AnswersOK'
  BY DEF Inv, OneOutstanding, SenderAwake, RefsExact, Count, HeadSent, AnswersOK
<1>4. TimerGuardsRequest' /\ FrameOK' /\ LifeOK'
  BY DEF Inv, TimerGuardsRequest, FrameOK, LifeOK, HeadSent
<1> QED BY <1>1, <1>2, <1>3, <1>4 DEF Inv, TypeOK

LEMMA ReadStepInv ==
    ASSUME Inv, ~ dead, ~ to.active,
           NEW pdu, NEW from, CallHandlerOrFinish(pdu, from),
           UNCHANGED <<responses, events, next_cmd_id, next_evt_id, stale, dead, held, to,
                       calls, freed, cancelled>>,
           LinkTypes'
    PROVE  Inv'
<1>1. CASE NextHandler(pdu, from) # 0
  <2>1. /\ rd'.phase = "events" /\ rd'.cmd = NoCommand /\ rd'.status = "ok"
        /\ UNCHANGED <<requests, write_watch, read_watch, timeout_watch, refs, outcome, blocked>>
    BY <1>1 DEF CallHandlerOrFinish
  <2> QED BY <2>1, QuietReadInv DEF Inv, TypeOK, WatchTypes
<1>2. CASE NextHandler(pdu, from) = 0 /\ ~ is_response(pdu.opcode)
  <2>1. /\ rd'.phase = "idle" /\ rd'.cmd = NoCommand /\ rd'.status = "ok"
        /\ UNCHANGED <<requests, write_watch, read_watch, timeout_watch, refs, outcome, blocked>>
    BY <1>2 DEF CallHandlerOrFinish, FinishRead, IdleRead
  <2> QED BY <2>1, QuietReadInv DEF Inv, TypeOK, WatchTypes
<1>3. CASE NextHandler(pdu, from) = 0 /\ is_response(pdu.opcode) /\ requests = <<>>
  <2>1. /\ rd'.phase = "idle" /\ rd'.cmd = NoCommand /\ rd'.status = "ok"
        /\ timeout_watch' = "none" /\ read_watch' \in {read_watch, "gone"}
        /\ UNCHANGED <<requests, write_watch, refs, outcome, blocked>>
    BY <1>3 DEF CallHandlerOrFinish, FinishRead, IdleRead, TimerAfterResponse
  <2> QED BY <1>3, <2>1, QuietReadInv DEF Inv, TypeOK, WatchTypes
<1>4. CASE NextHandler(pdu, from) = 0 /\ is_response(pdu.opcode) /\ requests # <<>>
  <2> DEFINE cmd == requests[1]
             status == ResultStatus(cmd, pdu)
  <2>1. /\ timeout_watch' = "none" /\ requests' = Tail(requests)
        /\ WakeIf(LeftToWrite(Tail(requests), responses))
        /\ rd' = [phase |-> "result", pdu |-> pdu, at |-> 0, cmd |-> cmd, status |-> status]
        /\ outcome' = IF cmd.func THEN [outcome EXCEPT ![cmd.n] = Append(@, status)] ELSE outcome
        /\ UNCHANGED read_watch
    BY <1>4 DEF CallHandlerOrFinish, FinishRead, TimerAfterResponse
  <2>2. status \in Statuses
    BY DEF ResultStatus, Statuses
  <2>3. requests \in Seq(Command) /\ \A i \in DOMAIN requests : requests[i].sent => i = 1
    BY DEF Inv, TypeOK, QueueTypes, OneOutstanding
  <2>4. /\ requests' \in Seq(Command) /\ cmd \in Command
        /\ \A i \in DOMAIN requests' : ~ requests'[i].sent
    <3>1. requests' \in Seq(Command) /\ cmd \in Command
          /\ Len(requests') = Len(requests) - 1
          /\ \A j \in 1..(Len(requests) - 1) : requests'[j] = requests[j + 1]
      BY <1>4, <2>1, <2>3, TailType
    <3>2. \A j \in DOMAIN requests' :
             j \in Nat \ {0} /\ j + 1 \in DOMAIN requests /\ requests'[j] = requests[j + 1]
      BY <2>3, <3>1
    <3> QED BY <2>3, <3>1, <3>2
  <2>5. cmd.n \in Calls
    BY <2>4 DEF Command
  <2> HIDE DEF cmd, status
  <2>6. HistTypes'
    <3>1. outcome' \in [Calls -> Seq(Statuses)]
      <4>1. outcome \in [Calls -> Seq(Statuses)]
        BY DEF Inv, TypeOK, HistTypes
      <4>2. Append(outcome[cmd.n], status) \in Seq(Statuses)
        BY <2>2, <2>5, <4>1
      <4> QED BY <2>1, <2>5, <4>1, <4>2
    <3>2. blocked' \in BOOLEAN
      BY <2>1 DEF WakeIf, wake_up_sender, Inv, TypeOK, HistTypes
    <3> QED BY <3>1, <3>2 DEF Inv, TypeOK, HistTypes
  <2>7. /\ write_watch' \in BOOLEAN
        /\ (write_watch' \/ (Tail(requests) = <<>> /\ responses = <<>>))
    BY <2>1 DEF WakeIf, wake_up_sender, LeftToWrite, Inv, TypeOK, WatchTypes
  <2>8. RefsExact'
    BY <2>1 DEF Inv, RefsExact, Count, WakeIf, wake_up_sender, TypeOK, WatchTypes
  <2>9. WatchTypes' /\ FrameTypes'
    <3>1. FrameTypes' /\ held' \in BOOLEAN
      BY <2>1, <2>2, <2>4 DEF Inv, TypeOK, WatchTypes, FrameTypes
    <3>2. refs' \in 0..3
      BY <2>7, <2>8, <3>1 DEF RefsExact, Count, FrameTypes
    <3> QED BY <2>1, <2>7, <3>1, <3>2 DEF Inv, TypeOK, WatchTypes
  <2>10. QueueTypes' /\ OneOutstanding' /\ AnswersOK'
    BY <2>4 DEF Inv, TypeOK, QueueTypes, OneOutstanding, AnswersOK
  <2>11. TimerGuardsRequest' /\ SenderAwake'
    <3>1. ~ HeadSent(requests')
      BY <2>4 DEF HeadSent
    <3> QED BY <2>1, <2>7, <3>1 DEF Inv, TimerGuardsRequest, SenderAwake
  <2>12. FrameOK' /\ LifeOK'
    BY <2>1, <2>4 DEF Inv, FrameOK, LifeOK
  <2> QED BY <2>6, <2>8, <2>9, <2>10, <2>11, <2>12 DEF Inv, TypeOK
<1> QED BY <1>1, <1>2, <1>3, <1>4

LEMMA ReadPduInv ==
    ASSUME Inv, ReadPdu PROVE Inv'
<1>1. ReadDispatch /\ inbox' = Tail(inbox) /\ inbox # <<>>
      /\ CallHandlerOrFinish(inbox[1], 1)
      /\ UNCHANGED <<responses, events>>
  BY DEF ReadPdu
<1>2. /\ ~ dead /\ ~ to.active
      /\ UNCHANGED <<responses, events, next_cmd_id, next_evt_id, stale, dead, held, to,
                     chan, wire, signals, calls, freed, cancelled>>
  BY <1>1 DEF ReadDispatch, Inv, LifeOK
<1>3. LinkTypes'
  <2>1. inbox' \in Seq([opcode : Opcodes, handle : PduHandles, re : 0..MaxCalls])
    BY <1>1, TailType DEF Inv, TypeOK, LinkTypes
  <2> QED BY <1>2, <2>1 DEF Inv, TypeOK, LinkTypes
<1> QED BY <1>1, <1>2, <1>3, ReadStepInv

LEMMA HandlerReturnsInv ==
    ASSUME Inv, HandlerReturns PROVE Inv'
<1>1. /\ ~ dead /\ ~ to.active
      /\ CallHandlerOrFinish(rd.pdu, rd.at + 1)
      /\ UNCHANGED <<responses, events, next_cmd_id, next_evt_id, stale, dead, held, to, linkVars,
                     calls, freed, cancelled>>
  BY DEF HandlerReturns, Inv, RefsExact
<1>2. LinkTypes'
  BY <1>1 DEF Inv, TypeOK, LinkTypes, linkVars
<1> QED BY <1>1, <1>2, ReadStepInv

LEMMA ReadEndsInv ==
    ASSUME Inv, ReadStale \/ ReadHup PROVE Inv'
<1>1. /\ rd.phase = "idle" /\ ~ to.active /\ ~ dead
      /\ read_watch' \in {"gone", "off"}
      /\ UNCHANGED <<requests, responses, events, write_watch, timeout_watch, refs, rd, inbox,
                     outcome, blocked, next_cmd_id, next_evt_id, stale, dead, held, to, chan, wire,
                     signals, calls, freed, cancelled>>
  BY DEF ReadStale, ReadHup, ReadDispatch, Inv, LifeOK
<1>2. TypeOK'
  BY <1>1 DEF Inv, TypeOK, QueueTypes, WatchTypes, FrameTypes, LinkTypes, HistTypes
<1>3. OneOutstanding' /\ TimerGuardsRequest' /\ SenderAwake' /\ RefsExact' /\ AnswersOK'
  BY <1>1 DEF Inv, OneOutstanding, TimerGuardsRequest, SenderAwake, RefsExact, Count, HeadSent,
     AnswersOK
<1>4. FrameOK' /\ LifeOK'
  BY <1>1 DEF Inv, FrameOK, LifeOK
<1> QED BY <1>2, <1>3, <1>4 DEF Inv

LEMMA ReadErrorInv ==
    ASSUME Inv, ReadError PROVE Inv'
<1>1. /\ rd.phase = "idle" /\ ~ to.active /\ ~ dead /\ held \in BOOLEAN
      /\ WakeIf(LeftToWrite(requests, responses))
      /\ UNCHANGED <<requests, responses, events, read_watch, timeout_watch, rd, inbox, outcome,
                     next_cmd_id, next_evt_id, stale, dead, held, to, chan, wire, signals,
                     calls, freed, cancelled>>
  BY DEF ReadError, ReadDispatch, Inv, LifeOK, TypeOK, WatchTypes
<1>2. RefsExact'
  BY <1>1 DEF Inv, RefsExact, Count, WakeIf, wake_up_sender, TypeOK, WatchTypes
<1>3. /\ write_watch' \in BOOLEAN /\ blocked' \in BOOLEAN
      /\ (write_watch' \/ (requests = <<>> /\ responses = <<>>))
  BY <1>1 DEF WakeIf, wake_up_sender, LeftToWrite, Inv, TypeOK, WatchTypes, HistTypes
<1>4. WatchTypes'
  <2>1. refs' \in 0..3
    BY <1>1, <1>2, <1>3 DEF RefsExact, Count, Inv, TypeOK, FrameTypes
  <2> QED BY <1>1, <1>3, <2>1 DEF Inv, TypeOK, WatchTypes
<1>5. QueueTypes' /\ FrameTypes' /\ LinkTypes' /\ HistTypes'
  BY <1>1, <1>3 DEF Inv, TypeOK, QueueTypes, FrameTypes, LinkTypes, HistTypes
<1>6. OneOutstanding' /\ TimerGuardsRequest' /\ SenderAwake' /\ AnswersOK'
  BY <1>1, <1>3 DEF Inv, OneOutstanding, TimerGuardsRequest, SenderAwake, HeadSent, AnswersOK
<1>7. FrameOK' /\ LifeOK'
  BY <1>1 DEF Inv, FrameOK, LifeOK
<1> QED BY <1>2, <1>4, <1>5, <1>6, <1>7 DEF Inv, TypeOK

LEMMA ResultReturnsInv ==
    ASSUME Inv, ResultReturns PROVE Inv'
<1>1. /\ rd.phase = "result" /\ rd.cmd \in Command /\ ~ to.active
      /\ freed' = freed \cup {rd.cmd.n}
      /\ rd'.phase = "idle" /\ rd'.cmd = NoCommand /\ rd'.status = "ok"
      /\ UNCHANGED <<queueVars, watchVars, to, linkVars, calls, outcome, cancelled, blocked>>
  BY DEF ResultReturns, IdleRead, Inv, FrameOK
<1>2. rd.cmd.n \in Calls
  BY <1>1 DEF Command
<1>3. QueueTypes' /\ WatchTypes' /\ LinkTypes' /\ HistTypes'
  BY <1>1, <1>2 DEF Inv, TypeOK, QueueTypes, WatchTypes, LinkTypes, HistTypes,
     queueVars, watchVars, linkVars
<1>4. FrameTypes'
  BY <1>1 DEF Inv, TypeOK, FrameTypes, Statuses
<1>5. OneOutstanding' /\ TimerGuardsRequest' /\ SenderAwake' /\ RefsExact' /\ AnswersOK'
  BY <1>1 DEF Inv, OneOutstanding, TimerGuardsRequest, SenderAwake, RefsExact, Count, HeadSent,
     AnswersOK, queueVars, watchVars
<1>6. FrameOK' /\ LifeOK'
  BY <1>1 DEF Inv, FrameOK, LifeOK, queueVars, watchVars
<1> QED BY <1>3, <1>4, <1>5, <1>6 DEF Inv, TypeOK

----------------------------------------------------------------------------
(* The timer.                                                               *)

(* Taking the head off the requests and calling it back. *)
LEMMA PopFacts ==
    ASSUME Inv, requests # <<>>, NEW status \in Statuses, PopAndAbort(status),
           requests' = Tail(requests)
    PROVE  /\ to'.active = TRUE /\ to'.cmd \in Command
           /\ outcome' \in [Calls -> Seq(Statuses)]
           /\ requests' \in Seq(Command)
           /\ \A i \in DOMAIN requests' : ~ requests'[i].sent
<1> DEFINE cmd == requests[1]
<1>1. requests \in Seq(Command) /\ \A i \in DOMAIN requests : requests[i].sent => i = 1
  BY DEF Inv, TypeOK, QueueTypes, OneOutstanding
<1>2. /\ requests' \in Seq(Command) /\ cmd \in Command
      /\ Len(requests') = Len(requests) - 1
      /\ \A j \in 1..(Len(requests) - 1) : requests'[j] = requests[j + 1]
  BY <1>1, TailType
<1>3. /\ to' = [active |-> TRUE, cmd |-> cmd]
      /\ outcome' = IF cmd.func THEN [outcome EXCEPT ![cmd.n] = Append(@, status)] ELSE outcome
  BY DEF PopAndAbort
<1>4. \A j \in DOMAIN requests' :
         j \in Nat \ {0} /\ j + 1 \in DOMAIN requests /\ requests'[j] = requests[j + 1]
  BY <1>1, <1>2
<1>5. cmd.n \in Calls
  BY <1>2 DEF Command
<1> HIDE DEF cmd
<1>6. outcome' \in [Calls -> Seq(Statuses)]
  <2>1. outcome \in [Calls -> Seq(Statuses)]
    BY DEF Inv, TypeOK, HistTypes
  <2>2. Append(outcome[cmd.n], status) \in Seq(Statuses)
    BY <1>5, <2>1
  <2> QED BY <1>3, <1>5, <2>1, <2>2
<1> QED BY <1>1, <1>2, <1>3, <1>4, <1>6

LEMMA TimerFiresInv ==
    ASSUME Inv, TimerFires PROVE Inv'
<1>1. /\ ~ to.active /\ ~ dead
      /\ rd.phase # "idle" => rd.phase = "events" /\ "nested" \in May
      /\ timeout_watch' = "fired"
      /\ UNCHANGED <<responses, events, read_watch, dead, freed>>
      /\ UNCHANGED <<next_cmd_id, next_evt_id, write_watch, held, rd, linkVars, calls, cancelled,
                     blocked>>
  BY DEF TimerFires, TimeoutUnchanged, LoopRuns, Inv, FrameOK, LifeOK, TypeOK, FrameTypes
<1>2. CASE requests = <<>>
  <2>1. stale' = TRUE /\ UNCHANGED <<requests, refs, to, outcome>>
    BY <1>2 DEF TimerFires, StaleAfterTimeout
  <2>2. TypeOK'
    BY <1>1, <2>1 DEF Inv, TypeOK, QueueTypes, WatchTypes, FrameTypes, LinkTypes, HistTypes,
       linkVars
  <2>3. OneOutstanding' /\ TimerGuardsRequest' /\ SenderAwake' /\ RefsExact' /\ AnswersOK'
    BY <1>1, <2>1 DEF Inv, OneOutstanding, TimerGuardsRequest, SenderAwake, RefsExact, Count,
       AnswersOK
  <2>4. FrameOK' /\ LifeOK'
    BY <1>1, <2>1 DEF Inv, FrameOK, LifeOK
  <2> QED BY <2>2, <2>3, <2>4 DEF Inv
<1>3. CASE requests # <<>>
  <2>1. /\ PopAndAbort("timeout") /\ requests' = Tail(requests)
        /\ refs' = refs + 1 /\ UNCHANGED stale
    BY <1>3 DEF TimerFires
  <2>2. "timeout" \in Statuses
    BY DEF Statuses
  <2>3. /\ to'.active = TRUE /\ to'.cmd \in Command
        /\ outcome' \in [Calls -> Seq(Statuses)]
        /\ requests' \in Seq(Command)
        /\ \A i \in DOMAIN requests' : ~ requests'[i].sent
    BY <1>3, <2>1, <2>2, PopFacts
  <2>4. RefsExact'
    BY <1>1, <2>1, <2>3 DEF Inv, RefsExact, Count, TypeOK, WatchTypes
  <2>5. WatchTypes' /\ FrameTypes'
    <3>1. write_watch' \in BOOLEAN /\ held' \in BOOLEAN /\ FrameTypes'
      BY <1>1, <2>3 DEF Inv, TypeOK, WatchTypes, FrameTypes
    <3>2. refs' \in 0..3
      BY <2>4, <3>1 DEF RefsExact, Count, FrameTypes
    <3> QED BY <1>1, <2>1, <3>1, <3>2 DEF Inv, TypeOK, WatchTypes
  <2>6. QueueTypes' /\ LinkTypes' /\ HistTypes'
    BY <1>1, <2>3 DEF Inv, TypeOK, QueueTypes, LinkTypes, HistTypes, linkVars
  <2>7. OneOutstanding' /\ TimerGuardsRequest' /\ SenderAwake' /\ AnswersOK'
    BY <1>1, <2>3 DEF Inv, OneOutstanding, TimerGuardsRequest, SenderAwake, AnswersOK
  <2>8. FrameOK' /\ LifeOK'
    BY <1>1, <2>3 DEF Inv, FrameOK, LifeOK
  <2> QED BY <2>4, <2>5, <2>6, <2>7, <2>8 DEF Inv, TypeOK
<1> QED BY <1>2, <1>3

LEMMA AbortNextInv ==
    ASSUME Inv, AbortNext PROVE Inv'
<1>1. /\ to.active /\ to.cmd \in Command /\ requests # <<>>
      /\ PopAndAbort("aborted") /\ requests' = Tail(requests)
      /\ freed' = freed \cup {to.cmd.n}
      /\ UNCHANGED <<responses, events, read_watch, timeout_watch, refs, stale, dead>>
      /\ UNCHANGED <<next_cmd_id, next_evt_id, write_watch, held, rd, linkVars, calls, cancelled,
                     blocked>>
  BY DEF AbortNext, TimeoutUnchanged, Inv, FrameOK
<1>2. "aborted" \in Statuses
  BY DEF Statuses
<1>3. /\ to'.active = TRUE /\ to'.cmd \in Command
      /\ outcome' \in [Calls -> Seq(Statuses)]
      /\ requests' \in Seq(Command)
      /\ \A i \in DOMAIN requests' : ~ requests'[i].sent
  BY <1>1, <1>2, PopFacts
<1>4. to.cmd.n \in Calls
  BY <1>1 DEF Command
<1>5. TypeOK'
  <2>1. QueueTypes' /\ WatchTypes' /\ LinkTypes'
    BY <1>1, <1>3 DEF Inv, TypeOK, QueueTypes, WatchTypes, LinkTypes, linkVars
  <2>2. FrameTypes' /\ HistTypes'
    BY <1>1, <1>3, <1>4 DEF Inv, TypeOK, FrameTypes, HistTypes
  <2> QED BY <2>1, <2>2 DEF TypeOK
<1>6. OneOutstanding' /\ TimerGuardsRequest' /\ SenderAwake' /\ RefsExact' /\ AnswersOK'
  BY <1>1, <1>3 DEF Inv, OneOutstanding, TimerGuardsRequest, SenderAwake, RefsExact, Count,
     AnswersOK
<1>7. FrameOK' /\ LifeOK'
  BY <1>1, <1>3 DEF Inv, FrameOK, LifeOK
<1> QED BY <1>5, <1>6, <1>7 DEF Inv

LEMMA AbortDoneInv ==
    ASSUME Inv, AbortDone PROVE Inv'
<1>1. /\ to.active /\ to.cmd \in Command /\ requests = <<>>
      /\ stale' = TRUE /\ to'.active = FALSE /\ to'.cmd = NoCommand
      /\ g_attrib_unref(<<>>, responses, timeout_watch, {to.cmd.n})
      /\ UNCHANGED <<next_cmd_id, next_evt_id, write_watch, held, rd, linkVars, calls, cancelled,
                     blocked, outcome>>
  BY DEF AbortDone, TimeoutUnchanged, StaleAfterTimeout, IdleTimeout, Inv, FrameOK
<1>2. /\ ~ dead
      /\ rd.phase = "events" => held
      /\ rd.phase # "result"
  <2>1. ~ dead
    BY <1>1 DEF Inv, RefsExact, Count, TypeOK, WatchTypes
  <2>2. rd.phase = "events" => "nested" \in May
    BY <1>1 DEF Inv, FrameOK
  <2>3. "nested" \in May => held
    BY FeaturesAssumption DEF FeaturesAssumption, Inv, LifeOK
  <2>4. rd.phase # "result"
    BY <1>1 DEF Inv, FrameOK
  <2> QED BY <2>1, <2>2, <2>3, <2>4
<1>3. /\ responses \in Seq(Command) /\ <<>> \in Seq(Command)
      /\ timeout_watch \in {"none", "armed", "fired"}
      /\ {to.cmd.n} \in SUBSET Calls
  BY <1>1 DEF Command, Inv, TypeOK, QueueTypes, WatchTypes
<1>4. /\ requests' \in Seq(Command) /\ responses' \in Seq(Command)
      /\ events' \in Seq([id : Nat, expected : STRING, handle : STRING])
      /\ read_watch' \in {"on", "off", "gone"}
      /\ timeout_watch' \in {"none", "armed", "fired"}
      /\ dead' \in BOOLEAN /\ freed' \subseteq Calls
      /\ refs' = refs - 1
      /\ dead' <=> refs = 1
      /\ dead' => /\ requests' = <<>> /\ responses' = <<>>
                  /\ read_watch' = "off" /\ timeout_watch' = "none"
      /\ ~ dead' => /\ requests' = <<>> /\ responses' = responses
                    /\ timeout_watch' = timeout_watch
  BY <1>1, <1>2, <1>3, DropFacts
<1>5. RefsExact'
  BY <1>1, <1>2, <1>4 DEF Inv, RefsExact, Count, TypeOK, WatchTypes, FrameTypes
<1>6. WatchTypes' /\ FrameTypes'
  <2>1. write_watch' \in BOOLEAN /\ held' \in BOOLEAN /\ FrameTypes'
    BY <1>1 DEF Inv, TypeOK, WatchTypes, FrameTypes
  <2>2. refs' \in 0..3
    BY <1>5, <2>1 DEF RefsExact, Count, FrameTypes
  <2> QED BY <1>1, <1>4, <2>1, <2>2 DEF WatchTypes
<1>7. QueueTypes' /\ LinkTypes' /\ HistTypes'
  <2>1. QueueTypes' /\ LinkTypes'
    BY <1>1, <1>4 DEF Inv, TypeOK, QueueTypes, LinkTypes, linkVars
  <2>2. HistTypes'
    BY <1>1, <1>4 DEF Inv, TypeOK, HistTypes
  <2> QED BY <2>1, <2>2
<1>8. /\ requests' = <<>>
      /\ responses' = <<>> \/ responses' = responses
  BY <1>4
<1>9. OneOutstanding' /\ AnswersOK'
  BY <1>8 DEF Inv, OneOutstanding, AnswersOK
<1>10. TimerGuardsRequest' /\ SenderAwake'
  BY <1>1 DEF TimerGuardsRequest, SenderAwake
<1>11. FrameOK' /\ LifeOK'
  BY <1>1, <1>2, <1>4 DEF Inv, FrameOK, LifeOK
<1> QED BY <1>5, <1>6, <1>7, <1>9, <1>10, <1>11 DEF Inv, TypeOK

----------------------------------------------------------------------------
(* The invariant holds of every behaviour.                                  *)

LEMMA InitInv ==
    ASSUME Init PROVE Inv
<1>1. TypeOK
  <2>1. QueueTypes /\ LinkTypes
    BY BoundsAssumption DEF BoundsAssumption, Init, QueueTypes, LinkTypes
  <2>2. WatchTypes
    <3>1. write_watch \in BOOLEAN /\ stale \in BOOLEAN /\ dead \in BOOLEAN /\ held \in BOOLEAN
      BY DEF Init
    <3>2. refs \in 0..3 /\ read_watch = "on" /\ timeout_watch = "none"
      BY DEF Init
    <3> QED BY <3>1, <3>2 DEF WatchTypes
  <2>3. FrameTypes
    BY DEF Init, FrameTypes, IdleRead, IdleTimeout, Statuses
  <2>4. HistTypes
    <3>1. calls \in Seq(Opcodes) /\ Len(calls) <= MaxCalls
      BY BoundsAssumption DEF BoundsAssumption, Init
    <3>2. outcome \in [Calls -> Seq(Statuses)]
      BY DEF Init
    <3>3. freed \subseteq Calls /\ cancelled \subseteq Calls /\ blocked \in BOOLEAN
      BY DEF Init
    <3> QED BY <3>1, <3>2, <3>3 DEF HistTypes
  <2> QED BY <2>1, <2>2, <2>3, <2>4 DEF TypeOK
<1>2. OneOutstanding /\ TimerGuardsRequest /\ SenderAwake /\ RefsExact /\ AnswersOK
  BY DEF Init, IdleRead, IdleTimeout, OneOutstanding, TimerGuardsRequest, SenderAwake,
     RefsExact, Count, HeadSent, AnswersOK
<1>3. FrameOK /\ LifeOK
  BY DEF Init, IdleRead, IdleTimeout, FrameOK, LifeOK
<1> QED BY <1>1, <1>2, <1>3 DEF Inv

LEMMA StutterInv ==
    ASSUME Inv, UNCHANGED vars PROVE Inv'
<1>1. TypeOK'
  BY DEF Inv, TypeOK, QueueTypes, WatchTypes, FrameTypes, LinkTypes, HistTypes,
     vars, queueVars, watchVars, frameVars, linkVars, histVars
<1>2. OneOutstanding' /\ TimerGuardsRequest' /\ SenderAwake' /\ RefsExact' /\ AnswersOK'
  BY DEF Inv, OneOutstanding, TimerGuardsRequest, SenderAwake, RefsExact, Count, HeadSent,
     AnswersOK, vars, queueVars, watchVars, frameVars, histVars
<1>3. FrameOK' /\ LifeOK'
  BY DEF Inv, FrameOK, LifeOK, vars, queueVars, watchVars, frameVars
<1> QED BY <1>1, <1>2, <1>3 DEF Inv

(* Inv is inductive: it holds when g_attrib_new returns, and every dispatch,    *)
(* call and move of the peer keeps it.                                      *)
THEOREM Inductive == Spec => []Inv
<1>1. Init => Inv
  BY InitInv
<1>2. Inv /\ [Next]_vars => Inv'
  <2> SUFFICES ASSUME Inv, [Next]_vars PROVE Inv'
    OBVIOUS
  <2>1. CASE App
    BY <2>1, SendRequestInv, SendResponseInv, SendReusedInv, CancelInv, RegisterInv, UnrefInv
    DEF App
  <2>2. CASE Writing
    BY <2>2, WriteNothingInv, WriteErrorInv, WriteCommandInv, WriteRequestInv DEF Writing
  <2>3. CASE Reading
    BY <2>3, ReadEndsInv, ReadErrorInv, ReadPduInv DEF Reading
  <2>4. CASE Returning
    BY <2>4, HandlerReturnsInv, ResultReturnsInv, AbortNextInv, AbortDoneInv DEF Returning
  <2>5. CASE TimerFires
    BY <2>5, TimerFiresInv
  <2>6. CASE Peer
    BY <2>6, PeerInv
  <2>7. CASE UNCHANGED vars
    BY <2>7, StutterInv
  <2> QED BY <2>1, <2>2, <2>3, <2>4, <2>5, <2>6, <2>7 DEF Next
<1> QED BY <1>1, <1>2, PTL DEF Spec

(* The queue engine of gattrib.c keeps its variables within their types, with   *)
(* never more than three references at a time.                              *)
THEOREM TypeCorrect == Spec => []TypeOK
<1>1. Inv => TypeOK
  BY DEF Inv
<1> QED BY <1>1, Inductive, PTL

(* can_write_data and the pushes of g_attrib_send never leave two requests     *)
(* unanswered, nor a written one anywhere but at the head.                  *)
THEOREM SequentialProtocol == Spec => []OneOutstanding
<1>1. Inv => OneOutstanding
  BY DEF Inv
<1> QED BY <1>1, Inductive, PTL

(* can_write_data arms the timer and received_data stops it so that it runs    *)
(* exactly while a request waits for its answer.                            *)
THEOREM TimerExact == Spec => []TimerGuardsRequest
<1>1. Inv => TimerGuardsRequest
  BY DEF Inv
<1> QED BY <1>1, Inductive, PTL

(* The three places that call wake_up_sender are enough: a command ready to be *)
(* written has a write source, unless a write failed and nobody sent since.  *)
THEOREM NoLostWakeUp == Spec => []SenderAwake
<1>1. Inv => SenderAwake
  BY DEF Inv
<1> QED BY <1>1, Inductive, PTL

(* g_attrib_ref and g_attrib_unref balance, and attrib_destroy runs with the   *)
(* last reference, never under an event handler.                            *)
THEOREM RefCount == Spec => []RefsExact
<1>1. Inv => RefsExact
  BY DEF Inv
<1> QED BY <1>1, Inductive, PTL
=============================================================================
