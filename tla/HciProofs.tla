------------------------------ MODULE HciProofs ------------------------------
(***************************************************************************)
(* Theorems about HciRequest, for any programs, targets, times and number of *)
(* tries, and whatever the controller does.                                *)
(***************************************************************************)
EXTENDS HciRequest, SequenceTheorems, TLAPS

Functions == DOMAIN Requests

AnEvent == [ kind : DOMAIN Events \ LeEvents, sub : Nat, opcode : Nat, target : Targets,
             status : Nat, size : Nat, n : Nat ]

(* Where an event came from says how long it is, unless its status says that   *)
(* the command failed. *)
CompletionOf(e, g) ==
    /\ e.kind = "CMD_COMPLETE" /\ Requests[g].event = "NONE" /\ e.opcode = OpcodeOf(g)
    /\ e.status # 0 \/ e.size = ReturnSize(g)

Genuine(e) ==
    \/ e.kind = "CMD_STATUS"
    \/ \E g \in Functions : CompletionOf(e, g)
    \/ e.kind = "LE_META_EVENT" /\ e.sub \in Ambiguous
    \/ e.kind \in AwaitedEvents /\ e.size = SizeOf(e.kind)

Genuines == {e \in AnEvent : Genuine(e)}

ACall == [ n : Nat \ {0}, f : Functions, target : Targets, asked : Times, to : Nat, try : Nat,
           written : BOOLEAN ]

(* A call succeeds only if all it reads was copied. *)
Filled(r) ==
    r.end = "ok" => \/ Requests[r.f].reads <= r.rlen
                    \/ CodeOf(Requests[r.f].event) \in Ambiguous

AResult == [ f : Functions, target : Targets, end : {"ok", "EIO", "ETIMEDOUT", "io"},
             took : {<<>>} \cup {<<e>> : e \in AnEvent}, rlen : Nat ]
FilledResults == {r \in AResult : Filled(r)}

ABusy == [ n : Nat \ {0}, f : Functions, target : Targets, stage : {"new", "running"} ]

(* The parts of the inductive invariant. *)
FilterInv ==
    /\ Idle => filter \in {Nothing, Everything}
    /\ ~ Idle => saved \in {Nothing, Everything} /\ filter = RequestFilter(call.f)

CallInv ==
    ~ Idle => /\ call \in ACall /\ call.n = Len(results) + 1
              /\ call.try \in 0..Tries /\ call.to \in 0..call.asked

BusyInv ==
    \A b \in busy : /\ b \in ABusy /\ b.n <= Len(results) + 1
                    /\ b.stage = "running" => Requests[b.f].event # "NONE"

HciInv ==
    /\ FilterInv /\ CallInv /\ BusyInv
    /\ inbox \in Seq(Genuines)
    /\ results \in Seq(FilledResults)

----------------------------------------------------------------------------
(* The tables, as the steps below use them.                                 *)

LEMMA FunctionFacts ==
    ASSUME NEW f \in Functions
    PROVE  /\ OpcodeOf(f) \in Nat /\ OpcodeOf(f) < 65536 /\ ReturnSize(f) \in Nat
           /\ Requests[f].rlen \in Nat /\ Requests[f].reads \in Nat
           /\ Requests[f].reads <= Requests[f].rlen
           /\ Requests[f].event \in {"NONE"} \cup AwaitedEvents
           /\ CodeOf(Requests[f].event) # CodeOf("CMD_STATUS")
  BY RequestsAssumption DEF Functions

LEMMA KindFacts ==
    /\ FrameEvents \subseteq DOMAIN Events \ LeEvents
    /\ LeEvents \subseteq DOMAIN Events /\ LeEvents \subseteq AwaitedEvents
    /\ AwaitedEvents \subseteq DOMAIN Events
  BY EventsAssumption DEF AwaitedEvents

LEMMA EventFacts ==
    ASSUME NEW e \in DOMAIN Events
    PROVE  Events[e].code \in Nat /\ SizeOf(e) \in Nat
<1>1. Events[e].code \in Nat /\ Events[e].size \in Nat
  BY EventsAssumption
<1> QED BY <1>1 DEF SizeOf

LEMMA CodeFacts ==
    /\ \A e \in DOMAIN Events : CodeOf(e) \in Nat
    /\ \A f \in Functions : CodeOf(Requests[f].event) \in Nat
<1>1. CodeOf("NONE") \in Nat
  BY DEF CodeOf
<1>2. ASSUME NEW e \in DOMAIN Events PROVE CodeOf(e) \in Nat
  BY EventFacts DEF CodeOf
<1>3. ASSUME NEW f \in Functions PROVE CodeOf(Requests[f].event) \in Nat
  BY <1>1, <1>2, FunctionFacts, KindFacts
<1> QED BY <1>2, <1>3

(* A filter for requests is a filter. *)
LEMMA FilterTyped ==
    ASSUME NEW f \in Functions
    PROVE  RequestFilter(f).events \subseteq Bits /\ RequestFilter(f).opcode \in Nat /\ RequestFilter(f).opcode < 65536
<1>1. ASSUME NEW c \in Nat PROVE Bit(c) \in Bits
  BY DEF Bit, Bits
<1>2. ASSUME NEW e \in FrameEvents \cup {Requests[f].event} PROVE Bit(CodeOf(e)) \in Bits
  BY <1>1, CodeFacts, KindFacts
<1>3. RequestFilter(f).events \subseteq Bits
  BY <1>2 DEF RequestFilter
<1>4. RequestFilter(f).opcode \in Nat /\ RequestFilter(f).opcode < 65536
  BY FunctionFacts DEF RequestFilter
<1> QED BY <1>3, <1>4

(* What the controller sends is genuine. *)
LEMMA CompletionGenuine ==
    ASSUME NEW f \in Functions, NEW t \in Targets, NEW n \in Nat, Requests[f].event = "NONE"
    PROVE  \A e \in Completed([f |-> f, target |-> t, n |-> n]) : e \in Genuines
<1> SUFFICES ASSUME NEW e \in Completed([f |-> f, target |-> t, n |-> n]) PROVE e \in Genuines
  OBVIOUS
<1>1. OpcodeOf(f) \in Nat /\ ReturnSize(f) \in Nat /\ "CMD_COMPLETE" \in DOMAIN Events \ LeEvents
  BY FunctionFacts, KindFacts DEF FrameEvents, CommandEvents
<1>2. PICK s \in {0, 1}, size \in Nat :
          /\ e = Event("CMD_COMPLETE", 0, OpcodeOf(f), t, s, size, n)
          /\ s = 0 => size = ReturnSize(f)
  BY <1>1 DEF Completed
<1>3. e = [ kind |-> "CMD_COMPLETE", sub |-> 0, opcode |-> OpcodeOf(f), target |-> t,
            status |-> s, size |-> size, n |-> n ]
  BY <1>2 DEF Event
<1>4. e \in AnEvent
  BY <1>1, <1>3 DEF AnEvent
<1>5. CompletionOf(e, f)
  BY <1>2, <1>3 DEF CompletionOf
<1> QED BY <1>4, <1>5 DEF Genuines, Genuine

LEMMA StatusGenuine ==
    ASSUME NEW f \in Functions, NEW t \in Targets, NEW n \in Nat, NEW s \in Nat
    PROVE  Event("CMD_STATUS", 0, OpcodeOf(f), t, s, 4, n) \in Genuines
<1> DEFINE e == [ kind |-> "CMD_STATUS", sub |-> 0, opcode |-> OpcodeOf(f), target |-> t,
                  status |-> s, size |-> 4, n |-> n ]
<1>1. OpcodeOf(f) \in Nat /\ "CMD_STATUS" \in DOMAIN Events \ LeEvents
  BY FunctionFacts, KindFacts DEF FrameEvents, CommandEvents
<1>2. e \in AnEvent
  BY <1>1 DEF AnEvent
<1>3. Genuine(e)
  BY DEF Genuine
<1> QED BY <1>2, <1>3 DEF Genuines, Event

LEMMA NamedGenuine ==
    ASSUME NEW ev \in AwaitedEvents, NEW t \in Targets, NEW n \in Nat
    PROVE  EventNamed(ev, t, n) \in Genuines
<1>1. ev \in DOMAIN Events /\ SizeOf(ev) \in Nat /\ Events[ev].code \in Nat
  BY EventFacts, KindFacts
<1>2. CASE ev \in LeEvents
  <2> DEFINE e == [ kind |-> "LE_META_EVENT", sub |-> Events[ev].code, opcode |-> 0, target |-> t,
                    status |-> 0, size |-> SizeOf(ev), n |-> n ]
  <2>1. "LE_META_EVENT" \in DOMAIN Events \ LeEvents
    BY KindFacts DEF FrameEvents
  <2>2. e \in AnEvent
    BY <1>1, <2>1 DEF AnEvent
  <2>3. Genuine(e)
    BY <1>2 DEF Genuine, Ambiguous
  <2>4. EventNamed(ev, t, n) = e
    BY <1>2 DEF EventNamed, Event
  <2> QED BY <2>2, <2>3, <2>4 DEF Genuines
<1>3. CASE ev \notin LeEvents
  <2> DEFINE e == [ kind |-> ev, sub |-> 0, opcode |-> 0, target |-> t, status |-> 0,
                    size |-> SizeOf(ev), n |-> n ]
  <2>1. e \in AnEvent
    BY <1>1, <1>3 DEF AnEvent
  <2>2. Genuine(e)
    BY DEF Genuine
  <2>3. EventNamed(ev, t, n) = e
    BY <1>3 DEF EventNamed, Event
  <2> QED BY <2>1, <2>2, <2>3 DEF Genuines
<1> QED BY <1>2, <1>3

----------------------------------------------------------------------------
(* What the steps have in common.                                           *)

(* Whatever the filter does with it, delivering a genuine event keeps the       *)
(* inbox genuine. *)
LEMMA DeliverGenuine ==
    ASSUME inbox \in Seq(Genuines), NEW e \in Genuines, Deliver(e)
    PROVE  inbox' \in Seq(Genuines)
  BY DEF Deliver

(* What a request takes for its answer is long enough for the function, or the  *)
(* function fails, or it awaits a code with two meanings. *)
LEMMA AnswerLongEnough ==
    ASSUME call.f \in Functions, NEW e \in Genuines, Answers(e), EndOf(e) = "ok"
    PROVE  \/ Requests[call.f].reads <= CopiedLen(e)
           \/ CodeOf(Requests[call.f].event) \in Ambiguous
<1> DEFINE r == Requests[call.f]
<1>1. r.reads \in Nat /\ r.rlen \in Nat /\ r.reads <= r.rlen /\ e.size \in Nat
  BY FunctionFacts DEF Genuines, AnEvent
<1>2. r.reads = 0 \/ e.status = 0
  BY <1>1 DEF EndOf
<1>3. r.reads <= e.size => r.reads <= CopiedLen(e)
  BY <1>1 DEF CopiedLen, Least
<1>4. CASE r.reads = 0
  BY <1>1, <1>3, <1>4
<1>5. CASE e.status = 0 /\ e.kind = "CMD_STATUS"
  <2>1. e.kind \notin AwaitedEvents
    BY <1>5 DEF AwaitedEvents, FrameEvents, CommandEvents
  <2> QED BY <1>5, <2>1, FunctionFacts DEF Answers, Awaited
<1>6. CASE e.status = 0 /\ \E g \in Functions : CompletionOf(e, g)
  <2>1. PICK g \in Functions : CompletionOf(e, g)
    BY <1>6
  <2>2. e.kind = "CMD_COMPLETE" /\ Requests[g].event = "NONE" /\ e.opcode = OpcodeOf(g)
        /\ e.size = ReturnSize(g)
    BY <1>6, <2>1 DEF CompletionOf
  <2>3. e.opcode = OpcodeOf(call.f)
    BY <2>2 DEF Answers, MyOpcode, AwaitedEvents, FrameEvents, CommandEvents
  <2>4. r.reads <= ReturnSize(g)
    BY <2>2, <2>3, AnswersAssumption DEF Functions
  <2> QED BY <1>3, <2>2, <2>4
<1>7. CASE e.kind = "LE_META_EVENT" /\ e.sub \in Ambiguous
  <2>1. e.sub = Awaited
    BY <1>7 DEF Answers, AwaitedEvents, FrameEvents, CommandEvents
  <2> QED BY <1>7, <2>1 DEF Awaited
<1>8. CASE e.kind \in AwaitedEvents /\ e.size = SizeOf(e.kind)
  <2>1. e.kind \in DOMAIN Events \ LeEvents
    BY DEF Genuines, AnEvent
  <2>2. e.kind \notin {"CMD_STATUS", "CMD_COMPLETE", "LE_META_EVENT"}
    BY <1>8 DEF AwaitedEvents, FrameEvents, CommandEvents
  <2>3. CodeOf(e.kind) = CodeOf(r.event)
    BY <2>2 DEF Answers, Awaited
  <2>4. r.reads <= SizeOf(e.kind) \/ CodeOf(e.kind) \in Ambiguous
    BY <2>1, <2>3, AnswersAssumption DEF Functions
  <2> QED BY <1>3, <1>8, <2>3, <2>4
<1> QED BY <1>2, <1>4, <1>5, <1>6, <1>7, <1>8 DEF Genuines, Genuine

(* More results leave the commands under way as they are. *)
LEMMA BusyKept ==
    ASSUME BusyInv, busy' = busy, Len(results) \in Nat, Len(results') \in Nat,
           Len(results') >= Len(results)
    PROVE  BusyInv'
<1> SUFFICES ASSUME NEW b \in busy
             PROVE  /\ b \in ABusy /\ b.n <= Len(results') + 1
                    /\ b.stage = "running" => Requests[b.f].event # "NONE"
  BY DEF BusyInv
<1>1. b \in ABusy /\ b.n <= Len(results) + 1 /\ b.n \in Nat
  BY DEF BusyInv, ABusy
<1> QED BY <1>1 DEF BusyInv

(* A call that returns puts the filter back and adds one result. *)
LEMMA ReturnInv ==
    ASSUME HciInv, ~ Idle, NEW end, NEW took, NEW rlen,
           [f |-> call.f, target |-> call.target, end |-> end, took |-> took, rlen |-> rlen]
               \in FilledResults,
           Returns(end, took, rlen), RestoreFilter, busy' = busy, inbox' \in Seq(Genuines)
    PROVE  HciInv'
<1> DEFINE r == [f |-> call.f, target |-> call.target, end |-> end, took |-> took, rlen |-> rlen]
<1>1. results \in Seq(FilledResults) /\ results' = Append(results, r)
  BY DEF HciInv, Returns
<1>2. results' \in Seq(FilledResults) /\ Len(results') = Len(results) + 1 /\ Len(results) \in Nat
  BY <1>1
<1>3. FilterInv'
  BY DEF HciInv, FilterInv, Returns, RestoreFilter, Idle
<1>4. CallInv'
  BY DEF CallInv, Returns, Idle
<1>5. BusyInv'
  BY <1>2, BusyKept DEF HciInv
<1> QED BY <1>2, <1>3, <1>4, <1>5 DEF HciInv

LEMMA FailInv ==
    ASSUME HciInv, ~ Idle, NEW error \in {"EIO", "ETIMEDOUT", "io"}, Fail(error), busy' = busy,
           inbox' \in Seq(Genuines)
    PROVE  HciInv'
<1>1. [f |-> call.f, target |-> call.target, end |-> error, took |-> <<>>, rlen |-> 0]
          \in FilledResults
  BY DEF FilledResults, AResult, Filled, HciInv, CallInv, ACall
<1> QED BY <1>1, ReturnInv DEF Fail

(* A step of the controller leaves the program alone. *)
LEMMA ControllerInv ==
    ASSUME HciInv, UNCHANGED <<filter, saved, call, results>>, inbox' \in Seq(Genuines), BusyInv'
    PROVE  HciInv'
  BY DEF HciInv, FilterInv, CallInv, Idle

LEMMA BusyFacts ==
    ASSUME HciInv, NEW b \in busy
    PROVE  /\ b.f \in Functions /\ b.target \in Targets /\ b.n \in Nat /\ b \in ABusy
           /\ b.n <= Len(results) + 1
           /\ b.stage = "running" => Requests[b.f].event # "NONE"
  BY DEF HciInv, BusyInv, ABusy

----------------------------------------------------------------------------
(* The steps.                                                               *)

LEMMA CallStarts ==
    ASSUME HciInv, NEW f \in NextFunctions, NEW t \in Targets, NEW to \in Times,
           hci_send_req(f, t, to)
    PROVE  HciInv'
<1>1. f \in Functions
  <2>1. PICK p \in Programs : Len(results) < Len(p) /\ f = p[Len(results) + 1]
    BY DEF NextFunctions
  <2>2. p \in Seq(Functions) /\ Len(results) \in Nat
    BY CallsAssumption DEF Functions, HciInv
  <2> QED BY <2>1, <2>2
<1>2. Len(results) \in Nat /\ Tries \in Nat /\ to \in Nat
  BY CallsAssumption DEF HciInv
<1> DEFINE c == [ n |-> Len(results) + 1, f |-> f, target |-> t, asked |-> to, to |-> to,
                  try |-> Tries, written |-> FALSE ]
<1>3. call' = c /\ c \in ACall /\ c.f = f
  BY <1>1, <1>2 DEF hci_send_req, ACall
<1>4. FilterInv'
  BY <1>3 DEF HciInv, FilterInv, hci_send_req, Idle, NoCall
<1>5. CallInv'
  BY <1>2, <1>3 DEF CallInv, hci_send_req
<1>6. BusyInv'
  BY DEF HciInv, BusyInv, hci_send_req
<1> QED BY <1>4, <1>5, <1>6 DEF HciInv, hci_send_req

LEMMA NoFilterInv ==
    ASSUME HciInv, NEW f \in NextFunctions, NEW t \in Targets, NEW to \in Times, NoFilter(f, t, to)
    PROVE  HciInv'
<1>1. f \in Functions
  <2>1. PICK p \in Programs : Len(results) < Len(p) /\ f = p[Len(results) + 1]
    BY DEF NextFunctions
  <2>2. p \in Seq(Functions) /\ Len(results) \in Nat
    BY CallsAssumption DEF Functions, HciInv
  <2> QED BY <2>1, <2>2
<1> DEFINE r == [f |-> f, target |-> t, end |-> "io", took |-> <<>>, rlen |-> 0]
<1>2. r \in FilledResults
  BY <1>1 DEF FilledResults, AResult, Filled
<1>3. results' \in Seq(FilledResults) /\ Len(results') = Len(results) + 1 /\ Len(results) \in Nat
  BY <1>2 DEF HciInv, NoFilter
<1>4. FilterInv' /\ CallInv'
  BY DEF HciInv, FilterInv, CallInv, NoFilter, Idle
<1>5. BusyInv'
  BY <1>3, BusyKept DEF HciInv, NoFilter
<1> QED BY <1>3, <1>4, <1>5 DEF HciInv, NoFilter

LEMMA SendInv ==
    ASSUME HciInv, hci_send_cmd
    PROVE  HciInv'
<1>1. call \in ACall /\ call' = [call EXCEPT !.written = TRUE] /\ ~ Idle
  BY DEF HciInv, CallInv, hci_send_cmd
<1>2. call' \in ACall /\ call'.n = call.n /\ call'.f = call.f /\ call'.try = call.try
      /\ call'.to = call.to /\ call'.asked = call.asked
  BY <1>1 DEF ACall
<1>3. ~ Idle'
  BY <1>2 DEF Idle, NoCall, ACall
<1>4. FilterInv' /\ CallInv'
  BY <1>1, <1>2, <1>3 DEF HciInv, FilterInv, CallInv, hci_send_cmd
<1>5. [n |-> call.n, f |-> call.f, target |-> call.target, stage |-> "new"] \in ABusy
  BY <1>1 DEF ACall, ABusy
<1>6. call.n <= Len(results) + 1
  BY <1>1 DEF HciInv, CallInv, ACall
<1>7. BusyInv'
  BY <1>5, <1>6 DEF HciInv, BusyInv, hci_send_cmd
<1> QED BY <1>4, <1>7 DEF HciInv, hci_send_cmd

LEMMA ReadInv ==
    ASSUME HciInv, ReadEvent
    PROVE  HciInv'
<1> DEFINE e == Head(inbox)
<1>1. ~ Idle /\ inbox \in Seq(Genuines) /\ inbox # <<>> /\ busy' = busy /\ call.try > 0
  BY DEF HciInv, ReadEvent, Waiting
<1>2. e \in Genuines /\ inbox' \in Seq(Genuines)
  BY <1>1 DEF ReadEvent
<1>3. call \in ACall /\ call.f \in Functions /\ call.target \in Targets
  BY <1>1 DEF HciInv, CallInv, ACall
<1>4. CASE Answers(e) /\ Returns(EndOf(e), <<e>>, CopiedLen(e)) /\ RestoreFilter
  <2>1. e \in AnEvent /\ EndOf(e) \in {"ok", "EIO"}
    BY <1>2 DEF Genuines, EndOf
  <2>2. CopiedLen(e) \in Nat
    BY <1>3, <2>1, FunctionFacts DEF CopiedLen, Least, AnEvent
  <2>3. EndOf(e) = "ok" => \/ Requests[call.f].reads <= CopiedLen(e)
                           \/ CodeOf(Requests[call.f].event) \in Ambiguous
    BY <1>2, <1>3, <1>4, AnswerLongEnough
  <2>4. [f |-> call.f, target |-> call.target, end |-> EndOf(e), took |-> <<e>>,
         rlen |-> CopiedLen(e)] \in FilledResults
    BY <1>3, <2>1, <2>2, <2>3 DEF FilledResults, AResult, Filled
  <2> QED BY <1>1, <1>2, <1>4, <2>4, ReturnInv
<1>5. CASE Fail("EIO")
  BY <1>1, <1>2, <1>5, FailInv
<1>6. CASE /\ call' = [call EXCEPT !.try = @ - 1, !.to = TimeLeft(@)]
           /\ UNCHANGED <<filter, saved, results>>
  <2>1. call.try \in 0..Tries /\ call.to \in 0..call.asked /\ call.asked \in Times
    BY <1>1, <1>3 DEF HciInv, CallInv, ACall
  <2>2. call.asked \in Nat /\ Tries \in Nat
    BY <2>1, CallsAssumption
  <2>3. call.try - 1 \in 0..Tries /\ TimeLeft(call.to) \in 0..call.asked
    <3>1. call.to \in Nat /\ call.to <= call.asked /\ call.try \in Nat /\ call.try <= Tries
      BY <2>1, <2>2
    <3>2. TimeLeft(call.to) \in Nat /\ TimeLeft(call.to) <= call.to
      BY <3>1 DEF TimeLeft
    <3> QED BY <1>1, <2>2, <3>1, <3>2
  <2>4. call.try - 1 \in Nat /\ TimeLeft(call.to) \in Nat
    BY <2>2, <2>3
  <2>5. /\ call' \in ACall /\ call'.try = call.try - 1 /\ call'.to = TimeLeft(call.to)
        /\ call'.asked = call.asked /\ call'.n = call.n /\ call'.f = call.f
    BY <1>3, <1>6, <2>4 DEF ACall
  <2>6. ~ Idle'
    BY <2>5 DEF Idle, NoCall, ACall
  <2>7. FilterInv' /\ CallInv'
    BY <1>1, <1>6, <2>3, <2>5, <2>6 DEF HciInv, FilterInv, CallInv
  <2>8. BusyInv'
    BY <1>1, <1>6 DEF HciInv, BusyInv
  <2> QED BY <1>2, <1>6, <2>7, <2>8 DEF HciInv
<1> QED BY <1>4, <1>5, <1>6 DEF ReadEvent

LEMMA CommandInv ==
    ASSUME HciInv, NEW b \in busy,
           CommandCompletes(b) \/ CommandStarts(b) \/ CommandRefused(b) \/ CommandDone(b)
    PROVE  HciInv'
<1>1. /\ b.f \in Functions /\ b.target \in Targets /\ b.n \in Nat /\ b \in ABusy
      /\ b.n <= Len(results) + 1
      /\ b.stage = "running" => Requests[b.f].event # "NONE"
  BY BusyFacts
<1>2. UNCHANGED <<filter, saved, call, results>>
  BY DEF CommandCompletes, CommandStarts, CommandRefused, CommandDone
<1>3. BusyInv'
  <2> SUFFICES ASSUME NEW c \in busy'
               PROVE  /\ c \in ABusy /\ c.n <= Len(results) + 1
                      /\ c.stage = "running" => Requests[c.f].event # "NONE"
    BY <1>2 DEF BusyInv
  <2>1. CASE c \in busy
    BY <2>1, BusyFacts
  <2>2. CASE c \notin busy
    <3>1. c = [b EXCEPT !.stage = "running"] /\ Requests[b.f].event # "NONE"
      BY <2>2 DEF CommandCompletes, CommandStarts, CommandRefused, CommandDone
    <3>2. c \in ABusy /\ c.n = b.n /\ c.f = b.f
      BY <1>1, <3>1 DEF ABusy
    <3> QED BY <1>1, <3>1, <3>2
  <2> QED BY <2>1, <2>2
<1>4. inbox \in Seq(Genuines)
  BY DEF HciInv
<1>5. CASE CommandCompletes(b)
  <2>1. PICK e \in Completed(b) : Deliver(e)
    BY <1>5 DEF CommandCompletes
  <2>2. e \in Completed([f |-> b.f, target |-> b.target, n |-> b.n])
    BY <2>1 DEF Completed
  <2>3. e \in Genuines
    BY <1>1, <1>5, <2>2, CompletionGenuine DEF CommandCompletes
  <2>4. inbox' \in Seq(Genuines)
    BY <1>4, <2>1, <2>3, DeliverGenuine
  <2> QED BY <1>2, <1>3, <2>4, ControllerInv
<1>6. CASE CommandStarts(b) \/ CommandRefused(b)
  <2>1. PICK s \in {0, 1} : Deliver(Event("CMD_STATUS", 0, OpcodeOf(b.f), b.target, s, 4, b.n))
    BY <1>6 DEF CommandStarts, CommandRefused
  <2>2. Event("CMD_STATUS", 0, OpcodeOf(b.f), b.target, s, 4, b.n) \in Genuines
    BY <1>1, StatusGenuine
  <2>3. inbox' \in Seq(Genuines)
    BY <1>4, <2>1, <2>2, DeliverGenuine
  <2> QED BY <1>2, <1>3, <2>3, ControllerInv
<1>7. CASE CommandDone(b)
  <2>1. Requests[b.f].event \in AwaitedEvents
    <3>1. b.stage = "running"
      BY <1>7 DEF CommandDone
    <3> QED BY <1>1, <3>1, FunctionFacts
  <2>2. EventNamed(Requests[b.f].event, b.target, b.n) \in Genuines
    BY <1>1, <2>1, NamedGenuine
  <2>3. inbox' \in Seq(Genuines)
    BY <1>4, <1>7, <2>2, DeliverGenuine DEF CommandDone
  <2> QED BY <1>2, <1>3, <2>3, ControllerInv
<1> QED BY <1>5, <1>6, <1>7

LEMMA OtherInv ==
    ASSUME HciInv, OtherEvent
    PROVE  HciInv'
<1>1. PICK event \in OtherEvents, t \in Targets : Deliver(EventNamed(event, t, 0))
  BY DEF OtherEvent
<1>2. EventNamed(event, t, 0) \in Genuines
  BY NamedGenuine, CallsAssumption
<1>3. inbox' \in Seq(Genuines)
  BY <1>1, <1>2, DeliverGenuine DEF HciInv
<1>4. UNCHANGED <<filter, saved, call, results, busy>>
  BY DEF OtherEvent
<1>5. BusyInv'
  BY <1>4 DEF HciInv, BusyInv
<1> QED BY <1>3, <1>4, <1>5, ControllerInv

LEMMA HciNext == HciInv /\ [Next]_vars => HciInv'
<1> SUFFICES ASSUME HciInv, [Next]_vars PROVE HciInv'
  OBVIOUS
<1>1. ASSUME NEW f \in NextFunctions, NEW t \in Targets, NEW to \in Times,
             hci_send_req(f, t, to) \/ NoFilter(f, t, to)
      PROVE  HciInv'
  BY <1>1, CallStarts, NoFilterInv
<1>2. CASE hci_send_cmd
  BY <1>2, SendInv
<1>3. CASE ReadEvent
  BY <1>3, ReadInv
<1>4. CASE GivesUp \/ PollExpires \/ Fails
  <2>1. PICK error \in {"EIO", "ETIMEDOUT", "io"} : Fail(error)
    BY <1>4 DEF GivesUp, PollExpires, Fails, hci_send_cmd_fails, ReadFails
  <2>2. ~ Idle /\ busy' = busy /\ inbox' = inbox
    BY <1>4 DEF GivesUp, PollExpires, Fails, hci_send_cmd_fails, ReadFails, Waiting
  <2> QED BY <2>1, <2>2, FailInv DEF HciInv
<1>5. CASE Controller
  BY <1>5, CommandInv DEF Controller
<1>6. CASE OtherEvent
  BY <1>6, OtherInv
<1>7. CASE UNCHANGED vars
  BY <1>7 DEF vars, HciInv, FilterInv, CallInv, BusyInv, Idle
<1> QED BY <1>1, <1>2, <1>3, <1>4, <1>5, <1>6, <1>7 DEF Next, Step

(* HciInv holds of every program and every controller. *)
THEOREM HciInductive == Spec => []HciInv
<1>1. Init => HciInv
  BY DEF Init, HciInv, FilterInv, CallInv, BusyInv, Idle
<1>2. HciInv /\ [Next]_vars => HciInv'
  BY HciNext
<1> QED BY <1>1, <1>2, PTL DEF Spec

----------------------------------------------------------------------------
(* What follows from the invariant.                                         *)

(* The filter, the tries, the time left and the events are what they should be: *)
(* a request never counts below no tries or no time. *)
THEOREM HciTypeCorrect == Spec => []TypeOK
<1>1. ASSUME HciInv PROVE TypeOK
  <2>1. filter.events \subseteq Bits /\ filter.opcode \in Nat /\ filter.opcode < 65536
    <3>1. CASE Idle
      BY <1>1, <3>1 DEF HciInv, FilterInv, Nothing, Everything
    <3>2. CASE ~ Idle
      BY <1>1, <3>2, FilterTyped DEF HciInv, FilterInv, CallInv, ACall
    <3> QED BY <3>1, <3>2
  <2>2. Idle \/ (call.try \in 0..Tries /\ call.to \in 0..call.asked)
    BY <1>1 DEF HciInv, CallInv
  <2>3. ASSUME NEW i \in DOMAIN inbox PROVE inbox[i].kind \in DOMAIN Events \ LeEvents
    <3>1. inbox[i] \in AnEvent
      BY <1>1 DEF HciInv, Genuines
    <3> QED BY <3>1 DEF AnEvent
  <2>4. ASSUME NEW b \in busy
        PROVE  b.n \in 1..(Len(results) + 1) /\ b.stage \in {"new", "running"}
    <3>1. b \in ABusy /\ b.n <= Len(results) + 1 /\ Len(results) \in Nat
      BY <1>1 DEF HciInv, BusyInv
    <3> QED BY <3>1 DEF ABusy
  <2>5. ASSUME NEW i \in DOMAIN results
        PROVE  results[i].end \in {"ok", "EIO", "ETIMEDOUT", "io"}
    <3>1. results[i] \in AResult
      BY <1>1 DEF HciInv, FilledResults
    <3> QED BY <3>1 DEF AResult
  <2> QED BY <2>1, <2>2, <2>3, <2>4, <2>5 DEF TypeOK
<1> QED BY <1>1, HciInductive, PTL

(* Whatever a request comes to, the socket gets back the filter it had, and     *)
(* meanwhile the filter lets the completion and the awaited event through.    *)
THEOREM FilterComesBack == Spec => []FilterRestored
<1>1. ASSUME HciInv, ~ Idle
      PROVE  /\ \A e \in Completed([f |-> call.f, target |-> call.target, n |-> call.n]) : Passes(e)
             /\ Requests[call.f].event # "NONE" =>
                   Passes(EventNamed(Requests[call.f].event, call.target, call.n))
  <2>1. call.f \in Functions /\ filter = RequestFilter(call.f)
    BY <1>1 DEF HciInv, FilterInv, CallInv, ACall
  <2>2. \A k \in FrameEvents \cup {Requests[call.f].event} : Bit(CodeOf(k)) \in filter.events
    BY <2>1 DEF RequestFilter
  <2>3. filter.opcode = OpcodeOf(call.f)
    BY <2>1 DEF RequestFilter
  <2>4. ASSUME NEW e \in Completed([f |-> call.f, target |-> call.target, n |-> call.n])
        PROVE  Passes(e)
    <3>1. e.kind = "CMD_COMPLETE" /\ e.opcode = OpcodeOf(call.f)
      BY DEF Completed, Event
    <3> QED BY <2>2, <2>3, <3>1 DEF Passes, FrameEvents, CommandEvents
  <2>5. ASSUME Requests[call.f].event # "NONE"
        PROVE  Passes(EventNamed(Requests[call.f].event, call.target, call.n))
    <3> DEFINE k == EventNamed(Requests[call.f].event, call.target, call.n).kind
    <3>1. k \in {"LE_META_EVENT", Requests[call.f].event}
      BY DEF EventNamed, Event
    <3>2. Requests[call.f].event \in AwaitedEvents
      BY <2>1, <2>5, FunctionFacts
    <3>3. k \notin CommandEvents
      BY <3>1, <3>2 DEF AwaitedEvents, FrameEvents, CommandEvents
    <3>4. Bit(CodeOf(k)) \in filter.events
      BY <2>2, <3>1 DEF FrameEvents
    <3> QED BY <3>3, <3>4 DEF Passes
  <2> QED BY <2>4, <2>5
<1>2. HciInv => FilterRestored
  BY <1>1 DEF HciInv, FilterInv, FilterRestored
<1> QED BY <1>2, HciInductive, PTL

(* A function that succeeds has all it reads from an answer's bytes, unless its *)
(* event has a code with two meanings. *)
THEOREM NothingUnwrittenRead == Spec => []AnswerFilled
<1>1. ASSUME HciInv, NEW i \in DOMAIN results, results[i].end = "ok"
      PROVE  \/ Requests[results[i].f].reads <= results[i].rlen
             \/ CodeOf(Requests[results[i].f].event) \in Ambiguous
  BY <1>1 DEF HciInv, FilledResults, Filled
<1>2. HciInv => AnswerFilled
  BY <1>1 DEF AnswerFilled
<1> QED BY <1>2, HciInductive, PTL
----------------------------------------------------------------------------
(* Whose answer it is.  The second invariant follows the end of each call, its  *)
(* completion or the event it awaits: the controller holds it, the socket does, *)
(* or one request has taken it, and what it says tells who asked.            *)

Issued(n) == n \in DOMAIN results \/ (Waiting /\ n = call.n)

AskedBy(n) == IF n \in DOMAIN results THEN results[n].f ELSE call.f

About(e) ==
    /\ e.n = 0 \/ Issued(e.n)
    /\ e.kind = "CMD_COMPLETE" =>
          /\ e.n # 0 /\ e.opcode = OpcodeOf(AskedBy(e.n))
          /\ Requests[AskedBy(e.n)].event = "NONE"
    /\ e.kind = RemoteName /\ e.n # 0 => Requests[AskedBy(e.n)].event = RemoteName

OriginInv ==
    /\ \A b \in busy : Issued(b.n) /\ b.f = AskedBy(b.n)
    /\ \A i \in DOMAIN inbox : About(inbox[i])

(* Who has the end of call n. *)
Ends(e, n) == e.kind # "CMD_STATUS" /\ e.n = n
Takes(i, n) == results[i].took # <<>> /\ results[i].took[1].n = n

Held(n) == \E b \in busy : b.n = n
Delivered(n) == \E i \in DOMAIN inbox : Ends(inbox[i], n)
Taken(n) == \E i \in DOMAIN results : Takes(i, n)

HeldOnce(n) == \A b, c \in busy : b.n = n /\ c.n = n => b = c
DeliveredOnce(n) == \A i, j \in DOMAIN inbox : Ends(inbox[i], n) /\ Ends(inbox[j], n) => i = j
TakenOnce(n) == \A i, j \in DOMAIN results : Takes(i, n) /\ Takes(j, n) => i = j

(* Nobody has it before the call, and then one place, once. *)
OneEnd(n) ==
    /\ Held(n) \/ Delivered(n) \/ Taken(n) => Issued(n)
    /\ Held(n) => ~ Delivered(n) /\ ~ Taken(n)
    /\ Delivered(n) => ~ Taken(n)
    /\ HeldOnce(n) /\ DeliveredOnce(n) /\ TakenOnce(n)

OneEndInv == \A n \in Nat \ {0} : OneEnd(n)

(* What a request has taken came from no later call; an answer told by opcode   *)
(* or address is one to the same question. *)
TookRight(i) ==
    LET r == results[i]
        e == r.took[1] IN
    r.took # <<>> =>
        /\ e.n \in 0..i
        /\ Requests[r.f].event \in {"NONE", RemoteName} =>
              /\ e.n # 0 => results[e.n].f = r.f
              /\ e.n = 0 => Requests[r.f].event = RemoteName
              /\ Requests[r.f].event = RemoteName => e.target = r.target

TookInv == \A i \in DOMAIN results : TookRight(i)

OwnInv == OriginInv /\ OneEndInv /\ TookInv

(* Results are only added. *)
LEMMA ResultsStay ==
    ASSUME HciInv, [Next]_vars
    PROVE  /\ results' = results \/ \E r : results' = Append(results, r)
           /\ \A i \in DOMAIN results : i \in DOMAIN results' /\ results'[i] = results[i]
<1>1. results \in Seq(FilledResults)
  BY DEF HciInv
<1>2. results' = results \/ \E r : results' = Append(results, r)
  BY DEF Next, hci_send_req, NoFilter, Step, Fails, hci_send_cmd, ReadEvent, GivesUp, PollExpires,
     hci_send_cmd_fails, ReadFails, Fail, Returns, Controller, CommandCompletes, CommandStarts,
     CommandRefused, CommandDone, OtherEvent, vars
<1>3. ASSUME NEW r, results' = Append(results, r), NEW i \in DOMAIN results
      PROVE  i \in DOMAIN results' /\ results'[i] = results[i]
  BY <1>1, <1>3, AppendProperties
<1> QED BY <1>2, <1>3

(* What becomes of a call whose command the controller has. *)
LEMMA WaitingSteps ==
    ASSUME [Next]_vars, Waiting
    PROVE  \/ UNCHANGED <<call, results>>
           \/ \E end, took, rlen : Returns(end, took, rlen)
           \/ /\ results' = results
              /\ call' = [call EXCEPT !.try = @ - 1, !.to = TimeLeft(@)]
<1>1. CASE ReadEvent
  BY <1>1 DEF ReadEvent, Fail
<1>2. CASE GivesUp \/ PollExpires \/ ReadFails
  BY <1>2 DEF GivesUp, PollExpires, ReadFails, Fail
<1>3. CASE Controller \/ OtherEvent \/ UNCHANGED vars
  BY <1>3 DEF Controller, CommandCompletes, CommandStarts, CommandRefused, CommandDone, OtherEvent,
     vars
<1> QED BY <1>1, <1>2, <1>3 DEF Next, Step, Fails, hci_send_req, NoFilter, hci_send_cmd,
           hci_send_cmd_fails, Waiting

LEMMA CallFacts ==
    ASSUME HciInv, ~ Idle
    PROVE  /\ call \in ACall /\ call.f \in Functions /\ call.target \in Targets
           /\ call.n \in Nat \ {0} /\ call.n = Len(results) + 1 /\ call.n \notin DOMAIN results
<1>1. call \in ACall /\ call.n = Len(results) + 1
  BY DEF HciInv, CallInv
<1>2. results \in Seq(FilledResults)
  BY DEF HciInv
<1>3. Len(results) \in Nat /\ DOMAIN results = 1..Len(results)
  BY <1>2
<1> QED BY <1>1, <1>3 DEF ACall

LEMMA ResultFacts ==
    ASSUME HciInv, NEW i \in DOMAIN results
    PROVE  /\ i \in 1..Len(results) /\ Len(results) \in Nat
           /\ results[i].f \in Functions
           /\ results[i].took # <<>> => results[i].took[1] \in AnEvent
<1>1. results \in Seq(FilledResults)
  BY DEF HciInv
<1>2. results[i] \in AResult /\ i \in 1..Len(results) /\ Len(results) \in Nat
  BY <1>1 DEF FilledResults
<1>3. results[i].took \in {<<>>} \cup {<<e>> : e \in AnEvent}
  BY <1>2 DEF AResult
<1> QED BY <1>2, <1>3 DEF AResult

(* A call that was issued stays so, and is about the same function.          *)
LEMMA IssuedStays ==
    ASSUME HciInv, [Next]_vars, NEW n, Issued(n)
    PROVE  Issued(n)' /\ AskedBy(n)' = AskedBy(n) /\ AskedBy(n) \in Functions
<1>1. CASE n \in DOMAIN results
  <2>1. n \in DOMAIN results' /\ results'[n] = results[n]
    BY <1>1, ResultsStay
  <2> QED BY <1>1, <2>1, ResultFacts DEF Issued, AskedBy
<1>2. CASE n \notin DOMAIN results
  <2>1. Waiting /\ n = call.n /\ ~ Idle /\ call.written
    BY <1>2 DEF Issued, Waiting
  <2>2. call \in ACall /\ call.f \in Functions /\ call.n \in Nat \ {0} /\ n = Len(results) + 1
    BY <2>1, CallFacts
  <2>3. AskedBy(n) = call.f
    BY <1>2 DEF AskedBy
  <2>4. CASE UNCHANGED <<call, results>>
    BY <2>1, <2>2, <2>3, <2>4 DEF Issued, AskedBy, Waiting, Idle
  <2>5. CASE \E end, took, rlen : Returns(end, took, rlen)
    <3>1. PICK end, took, rlen : Returns(end, took, rlen)
      BY <2>5
    <3> DEFINE r == [ f |-> call.f, target |-> call.target, end |-> end, took |-> took, rlen |-> rlen ]
    <3>2. results' = Append(results, r) /\ r.f = call.f
      BY <3>1 DEF Returns
    <3> HIDE DEF r
    <3>3. results \in Seq(FilledResults)
      BY DEF HciInv
    <3>4. n \in DOMAIN results' /\ results'[n] = r
      BY <2>2, <3>2, <3>3
    <3> QED BY <2>2, <2>3, <3>2, <3>4 DEF Issued, AskedBy
  <2>6. CASE /\ results' = results
             /\ call' = [call EXCEPT !.try = @ - 1, !.to = TimeLeft(@)]
    <3>1. call'.n = call.n /\ call'.f = call.f /\ call'.written = call.written
      BY <2>2, <2>6 DEF ACall
    <3>2. ~ Idle'
      BY <2>2, <3>1 DEF Idle, NoCall
    <3> QED BY <1>2, <2>1, <2>2, <2>6, <3>1, <3>2 DEF Issued, AskedBy, Waiting
  <2> QED BY <2>1, <2>4, <2>5, <2>6, WaitingSteps
<1> QED BY <1>1, <1>2

LEMMA AboutStays ==
    ASSUME HciInv, [Next]_vars
    PROVE  \A e : About(e) => About(e)'
<1> TAKE e
<1> HAVE About(e)
<1>1. Issued(e.n) => Issued(e.n)' /\ AskedBy(e.n)' = AskedBy(e.n)
  BY IssuedStays
<1> QED BY <1>1 DEF About

(* The commands of the controller and the events of the socket stay with their  *)
(* calls. *)
LEMMA OriginStays ==
    ASSUME HciInv, OriginInv, [Next]_vars,
           \A b \in busy' : \E c \in busy : b.n = c.n /\ b.f = c.f,
           \A i \in DOMAIN inbox' : \E e : inbox'[i] = e /\ About(e)
    PROVE  OriginInv'
<1>1. ASSUME NEW b \in busy' PROVE Issued(b.n)' /\ b.f = AskedBy(b.n)'
  <2>1. PICK c \in busy : b.n = c.n /\ b.f = c.f
    OBVIOUS
  <2>2. Issued(c.n) /\ c.f = AskedBy(c.n)
    BY DEF OriginInv
  <2>3. PICK n, f : n = c.n /\ f = c.f
    OBVIOUS
  <2>4. Issued(n)' /\ AskedBy(n)' = AskedBy(n)
    BY <2>2, <2>3, IssuedStays
  <2>5. b.n = n /\ b.f = AskedBy(n)'
    BY <2>1, <2>2, <2>3, <2>4
  <2> QED BY <2>4, <2>5
<1>2. ASSUME NEW i \in DOMAIN inbox' PROVE About(inbox[i])'
  <2>1. PICK e : inbox'[i] = e /\ About(e)
    OBVIOUS
  <2>2. About(e)'
    BY <2>1, AboutStays
  <2> QED BY <2>1, <2>2 DEF About
<1> QED BY <1>1, <1>2 DEF OriginInv

(* The events of the socket after one is read, and after one is delivered.     *)
LEMMA InboxRead ==
    ASSUME HciInv, inbox # <<>>, inbox' = Tail(inbox), NEW n
    PROVE  /\ \A i \in DOMAIN inbox' : i + 1 \in DOMAIN inbox /\ inbox'[i] = inbox[i + 1]
           /\ Delivered(n)' => Delivered(n)
           /\ DeliveredOnce(n) => DeliveredOnce(n)'
           /\ DeliveredOnce(n) /\ Ends(Head(inbox), n) => ~ Delivered(n)'
<1>1. inbox \in Seq(Genuines)
  BY DEF HciInv
<1>2. \A i \in DOMAIN inbox' : i \in Nat \ {0} /\ i + 1 \in DOMAIN inbox /\ inbox'[i] = inbox[i + 1]
  BY <1>1
<1>3. 1 \in DOMAIN inbox /\ Head(inbox) = inbox[1]
  BY <1>1
<1>4. Delivered(n)' => Delivered(n)
  BY <1>2 DEF Delivered, Ends
<1>5. DeliveredOnce(n) => DeliveredOnce(n)'
  <2> SUFFICES ASSUME DeliveredOnce(n), NEW i \in DOMAIN inbox', NEW j \in DOMAIN inbox',
                      Ends(inbox'[i], n), Ends(inbox'[j], n)
               PROVE  i = j
    BY DEF DeliveredOnce, Ends
  <2>1. /\ i + 1 \in DOMAIN inbox /\ j + 1 \in DOMAIN inbox
        /\ Ends(inbox[i + 1], n) /\ Ends(inbox[j + 1], n)
    BY <1>2
  <2>2. i + 1 = j + 1
    BY <2>1 DEF DeliveredOnce
  <2>3. i \in Nat /\ j \in Nat
    BY <1>2
  <2> QED BY <2>2, <2>3
<1>6. DeliveredOnce(n) /\ Ends(Head(inbox), n) => ~ Delivered(n)'
  <2> SUFFICES ASSUME DeliveredOnce(n), Ends(inbox[1], n), NEW i \in DOMAIN inbox',
                      Ends(inbox'[i], n)
               PROVE  FALSE
    BY <1>3 DEF Delivered, Ends
  <2>1. i \in Nat \ {0} /\ i + 1 \in DOMAIN inbox /\ Ends(inbox[i + 1], n)
    BY <1>2
  <2>2. i + 1 = 1
    BY <1>3, <2>1 DEF DeliveredOnce
  <2> QED BY <2>1, <2>2
<1> QED BY <1>2, <1>4, <1>5, <1>6

LEMMA InboxDelivered ==
    ASSUME HciInv, NEW e \in Genuines, Deliver(e), NEW n
    PROVE  /\ \A i \in DOMAIN inbox' : (i \in DOMAIN inbox /\ inbox'[i] = inbox[i]) \/ inbox'[i] = e
           /\ Delivered(n)' => Delivered(n) \/ Ends(e, n)
           /\ DeliveredOnce(n) /\ (Ends(e, n) => ~ Delivered(n)) => DeliveredOnce(n)'
<1>1. inbox \in Seq(Genuines)
  BY DEF HciInv
<1>2. CASE inbox' = inbox
  BY <1>2 DEF Delivered, DeliveredOnce
<1>3. CASE inbox' = Append(inbox, e)
  <2>1. /\ Len(inbox) \in Nat /\ inbox'[Len(inbox) + 1] = e
        /\ \A i \in DOMAIN inbox' :
              (i \in DOMAIN inbox /\ inbox'[i] = inbox[i]) \/ i = Len(inbox) + 1
    BY <1>1, <1>3, AppendProperties
  <2>2. Delivered(n)' => Delivered(n) \/ Ends(e, n)
    BY <2>1 DEF Delivered, Ends
  <2>3. DeliveredOnce(n) /\ (Ends(e, n) => ~ Delivered(n)) => DeliveredOnce(n)'
    <3> SUFFICES ASSUME DeliveredOnce(n), Ends(e, n) => ~ Delivered(n),
                        NEW i \in DOMAIN inbox', NEW j \in DOMAIN inbox',
                        Ends(inbox'[i], n), Ends(inbox'[j], n)
                 PROVE  i = j
      BY DEF DeliveredOnce, Ends
    <3>1. CASE i \in DOMAIN inbox /\ j \in DOMAIN inbox
      <4>1. inbox'[i] = inbox[i] /\ inbox'[j] = inbox[j]
        BY <1>1, <1>3, <3>1, AppendProperties
      <4> QED BY <3>1, <4>1 DEF DeliveredOnce
    <3>2. CASE i \notin DOMAIN inbox /\ j \notin DOMAIN inbox
      BY <2>1, <3>2
    <3>3. CASE i \in DOMAIN inbox /\ j \notin DOMAIN inbox
      <4>1. inbox'[i] = inbox[i] /\ inbox'[j] = e
        BY <1>1, <1>3, <2>1, <3>3, AppendProperties
      <4> QED BY <3>3, <4>1 DEF Delivered
    <3>4. CASE i \notin DOMAIN inbox /\ j \in DOMAIN inbox
      <4>1. inbox'[j] = inbox[j] /\ inbox'[i] = e
        BY <1>1, <1>3, <2>1, <3>4, AppendProperties
      <4> QED BY <3>4, <4>1 DEF Delivered
    <3> QED BY <3>1, <3>2, <3>3, <3>4
  <2> QED BY <2>1, <2>2, <2>3
<1> QED BY <1>2, <1>3 DEF Deliver

(* A result is added. *)
LEMMA ResultAdded ==
    ASSUME HciInv, NEW r, results' = Append(results, r), NEW n
    PROVE  /\ Taken(n)' => Taken(n) \/ (r.took # <<>> /\ r.took[1].n = n)
           /\ TakenOnce(n) /\ (r.took # <<>> /\ r.took[1].n = n => ~ Taken(n)) => TakenOnce(n)'
<1> DEFINE Is(s) == s.took # <<>> /\ s.took[1].n = n
<1>1. results \in Seq(FilledResults)
  BY DEF HciInv
<1>2. /\ Len(results) \in Nat /\ results'[Len(results) + 1] = r
      /\ \A i \in DOMAIN results' :
            (i \in DOMAIN results /\ results'[i] = results[i]) \/ i = Len(results) + 1
  BY <1>1, AppendProperties
<1>3. /\ \A i : Takes(i, n) <=> Is(results[i])
      /\ \A i : Takes(i, n)' <=> Is(results'[i])
  BY DEF Takes
<1> HIDE DEF Is
<1>4. Taken(n)' => Taken(n) \/ Is(r)
  BY <1>2, <1>3 DEF Taken
<1>5. TakenOnce(n) /\ (Is(r) => ~ Taken(n)) => TakenOnce(n)'
  <2> SUFFICES ASSUME TakenOnce(n), Is(r) => ~ Taken(n), NEW i \in DOMAIN results',
                      NEW j \in DOMAIN results', Is(results'[i]), Is(results'[j])
               PROVE  i = j
    BY <1>3 DEF TakenOnce
  <2>1. CASE i \in DOMAIN results /\ j \in DOMAIN results
    <3>1. results'[i] = results[i] /\ results'[j] = results[j]
      BY <1>1, <2>1, AppendProperties
    <3> QED BY <1>3, <2>1, <3>1 DEF TakenOnce
  <2>2. CASE i \notin DOMAIN results /\ j \notin DOMAIN results
    BY <1>2, <2>2
  <2>3. CASE i \in DOMAIN results /\ j \notin DOMAIN results
    <3>1. results'[i] = results[i] /\ results'[j] = r
      BY <1>1, <1>2, <2>3, AppendProperties
    <3> QED BY <1>3, <2>3, <3>1 DEF Taken
  <2>4. CASE i \notin DOMAIN results /\ j \in DOMAIN results
    <3>1. results'[j] = results[j] /\ results'[i] = r
      BY <1>1, <1>2, <2>4, AppendProperties
    <3> QED BY <1>3, <2>4, <3>1 DEF Taken
  <2> QED BY <2>1, <2>2, <2>3, <2>4
<1> QED BY <1>4, <1>5 DEF Is

LEMMA TookStays ==
    ASSUME HciInv, TookInv, [Next]_vars, NEW i \in DOMAIN results PROVE TookRight(i)'
<1>1. i \in DOMAIN results' /\ results'[i] = results[i] /\ i \in 1..Len(results)
      /\ Len(results) \in Nat /\ DOMAIN results = 1..Len(results)
  <2>1. results \in Seq(FilledResults)
    BY DEF HciInv
  <2> QED BY <2>1, ResultsStay
<1>2. TookRight(i)
  BY DEF TookInv
<1>3. ASSUME results[i].took # <<>>, results[i].took[1].n \in 0..i, results[i].took[1].n # 0
      PROVE  results'[results[i].took[1].n] = results[results[i].took[1].n]
  <2>1. results[i].took[1].n \in DOMAIN results
    BY <1>1, <1>3
  <2> QED BY <2>1, ResultsStay
<1> QED BY <1>1, <1>2, <1>3 DEF TookRight
(* Steps that give nobody an end: the program calls, an event is skipped, a     *)
(* call fails. *)
LEMMA OneEndStays ==
    ASSUME HciInv, [Next]_vars, NEW n, OneEnd(n),
           Held(n)' => Held(n), Delivered(n)' => Delivered(n), Taken(n)' => Taken(n),
           HeldOnce(n)', DeliveredOnce(n)', TakenOnce(n)'
    PROVE  OneEnd(n)'
<1>1. Issued(n) => Issued(n)'
  BY IssuedStays
<1> QED BY <1>1 DEF OneEnd

LEMMA InboxSame ==
    ASSUME inbox' = inbox, NEW n
    PROVE  (Delivered(n)' <=> Delivered(n)) /\ (DeliveredOnce(n) => DeliveredOnce(n)')
BY DEF Delivered, DeliveredOnce

LEMMA ResultsSame ==
    ASSUME results' = results, NEW n
    PROVE  (Taken(n)' <=> Taken(n)) /\ (TakenOnce(n) => TakenOnce(n)')
BY DEF Taken, TakenOnce, Takes

LEMMA BusySame ==
    ASSUME busy' = busy, NEW n
    PROVE  (Held(n)' <=> Held(n)) /\ (HeldOnce(n) => HeldOnce(n)')
BY DEF Held, HeldOnce

LEMMA QuietOwn ==
    ASSUME HciInv, OwnInv, [Next]_vars, busy' = busy,
           inbox' = inbox \/ (inbox # <<>> /\ inbox' = Tail(inbox)),
           results' = results \/ \E r : r.took = <<>> /\ results' = Append(results, r)
    PROVE  OwnInv'
<1>1. OriginInv'
  <2>1. \A i \in DOMAIN inbox' : \E e : inbox'[i] = e /\ About(e)
    <3>1. \A i \in DOMAIN inbox' : \E j \in DOMAIN inbox : inbox'[i] = inbox[j]
      BY InboxRead
    <3> QED BY <3>1 DEF OwnInv, OriginInv
  <2> QED BY <2>1, OriginStays DEF OwnInv
<1>2. OneEndInv'
  <2> SUFFICES ASSUME NEW n \in Nat \ {0} PROVE OneEnd(n)'
    BY DEF OneEndInv
  <2>1. OneEnd(n) /\ HeldOnce(n) /\ DeliveredOnce(n) /\ TakenOnce(n)
    BY DEF OwnInv, OneEndInv, OneEnd
  <2>2. (Held(n)' => Held(n)) /\ HeldOnce(n)'
    BY <2>1, BusySame
  <2>3. (Delivered(n)' => Delivered(n)) /\ DeliveredOnce(n)'
    BY <2>1, InboxSame, InboxRead
  <2>4. (Taken(n)' => Taken(n)) /\ TakenOnce(n)'
    BY <2>1, ResultsSame, ResultAdded
  <2> QED BY <2>1, <2>2, <2>3, <2>4, OneEndStays
<1>3. TookInv'
  <2> SUFFICES ASSUME NEW i \in DOMAIN results' PROVE TookRight(i)'
    BY DEF TookInv
  <2>1. CASE i \in DOMAIN results
    BY <2>1, TookStays DEF OwnInv
  <2>2. CASE i \notin DOMAIN results
    <3>1. results'[i].took = <<>>
      <4>1. results \in Seq(FilledResults)
        BY DEF HciInv
      <4> QED BY <2>2, <4>1, AppendProperties
    <3> QED BY <3>1 DEF TookRight
  <2> QED BY <2>1, <2>2
<1> QED BY <1>1, <1>2, <1>3 DEF OwnInv

(* The controller gets a command: nobody has its end yet. *)
LEMMA SendOwn ==
    ASSUME HciInv, OwnInv, [Next]_vars, hci_send_cmd PROVE OwnInv'
<1> DEFINE b == [n |-> call.n, f |-> call.f, target |-> call.target, stage |-> "new"]
<1>1. /\ ~ Idle /\ ~ call.written /\ call' = [call EXCEPT !.written = TRUE]
      /\ busy' = busy \cup {b} /\ b.n = call.n /\ b.f = call.f
      /\ UNCHANGED <<inbox, results>>
  BY DEF hci_send_cmd
<1> HIDE DEF b
<1>2. /\ call \in ACall /\ call.n \in Nat \ {0} /\ call.n \notin DOMAIN results
  BY <1>1, CallFacts
<1>3. /\ call'.n = call.n /\ call'.f = call.f /\ call'.written /\ ~ Idle'
  BY <1>1, <1>2 DEF ACall, Idle, NoCall
<1>4. ~ Issued(call.n) /\ \A n : n = call.n => Issued(n)'
  BY <1>1, <1>2, <1>3 DEF Issued, Waiting
<1>5. OriginInv'
  <2>1. ASSUME NEW c \in busy' PROVE Issued(c.n)' /\ c.f = AskedBy(c.n)'
    <3>1. CASE c \in busy
      <4>1. PICK n, f : n = c.n /\ f = c.f
        OBVIOUS
      <4>2. Issued(n) /\ f = AskedBy(n)
        BY <3>1, <4>1 DEF OwnInv, OriginInv
      <4>3. Issued(n)' /\ AskedBy(n)' = f
        BY <4>2, IssuedStays
      <4> QED BY <4>1, <4>3
    <3>2. CASE c = b
      BY <1>1, <1>2, <1>3, <3>2 DEF Issued, AskedBy, Waiting
    <3> QED BY <1>1, <3>1, <3>2
  <2>2. ASSUME NEW i \in DOMAIN inbox' PROVE About(inbox[i])'
    <3>1. PICK e : inbox'[i] = e /\ About(e)
      BY <1>1 DEF OwnInv, OriginInv
    <3>2. About(e)'
      BY <3>1, AboutStays
    <3> QED BY <3>1, <3>2 DEF About
  <2> QED BY <2>1, <2>2 DEF OriginInv
<1>6. OneEndInv'
  <2> SUFFICES ASSUME NEW n \in Nat \ {0} PROVE OneEnd(n)'
    BY DEF OneEndInv
  <2>1. OneEnd(n)
    BY DEF OwnInv, OneEndInv
  <2>2. (Delivered(n)' <=> Delivered(n)) /\ (Taken(n)' <=> Taken(n)) /\ DeliveredOnce(n)' /\ TakenOnce(n)'
    BY <1>1, <2>1, InboxSame, ResultsSame DEF OneEnd
  <2>3. CASE n = call.n
    <3>1. ~ Held(n) /\ ~ Delivered(n) /\ ~ Taken(n)
      BY <1>4, <2>1, <2>3 DEF OneEnd
    <3>2. HeldOnce(n)'
      BY <1>1, <3>1 DEF HeldOnce, Held
    <3>3. Issued(n)'
      BY <1>4, <2>3
    <3> QED BY <2>2, <3>1, <3>2, <3>3 DEF OneEnd
  <2>4. CASE n # call.n
    <3>1. (Held(n)' => Held(n)) /\ HeldOnce(n)'
      BY <1>1, <2>1, <2>4 DEF Held, HeldOnce, OneEnd
    <3> QED BY <2>1, <2>2, <3>1, OneEndStays
  <2> QED BY <2>3, <2>4
<1>7. TookInv'
  BY <1>1, TookStays DEF OwnInv, TookInv
<1> QED BY <1>5, <1>6, <1>7 DEF OwnInv

(* The event that a request takes for its answer ends a call; one told by its   *)
(* opcode or its address ends a call for the same. *)
LEMMA AnswerTaken ==
    ASSUME HciInv, Waiting, NEW e \in Genuines, About(e), Answers(e), [Next]_vars
    PROVE  /\ e.kind # "CMD_STATUS"
           /\ Requests[call.f].event \in {"NONE", RemoteName} =>
                 /\ e.n # 0 => AskedBy(e.n) = call.f
                 /\ e.n = 0 => Requests[call.f].event = RemoteName
                 /\ Requests[call.f].event = RemoteName => e.target = call.target
<1> DEFINE r == Requests[call.f]
<1>1. call.f \in Functions /\ e \in AnEvent /\ Genuine(e)
  BY CallFacts DEF Waiting, Genuines
<1>2. e.kind \in AwaitedEvents => e.kind \notin {"CMD_STATUS", "CMD_COMPLETE", "LE_META_EVENT"}
  BY DEF AwaitedEvents, FrameEvents, CommandEvents
<1>3. e.kind # "CMD_STATUS"
  BY <1>1, <1>2, FunctionFacts DEF Answers, Awaited
<1>4. e.n # 0 => AskedBy(e.n) \in Functions
  BY IssuedStays DEF About
<1>5. CASE e.kind = "CMD_COMPLETE"
  <2>1. e.opcode = OpcodeOf(call.f)
    BY <1>2, <1>5 DEF Answers, MyOpcode
  <2>2. e.n # 0 /\ AskedBy(e.n) = call.f
    BY <1>1, <1>4, <1>5, <2>1, OwnersAssumption DEF About, Functions
  <2>3. r.event = "NONE"
    BY <1>5, <2>2 DEF About
  <2>4. RemoteName # "NONE"
    BY OwnersAssumption, KindFacts
  <2> QED BY <1>3, <2>2, <2>3, <2>4
<1>6. CASE e.kind = "LE_META_EVENT"
  <2>1. e.sub = CodeOf(r.event)
    BY <1>2, <1>6 DEF Answers, Awaited
  <2>2. e.sub \in Ambiguous
    BY <1>1, <1>2, <1>6 DEF Genuine, CompletionOf
  <2>3. e.sub # 0
    BY <2>2, EventsAssumption, KindFacts DEF Ambiguous
  <2>4. CodeOf("NONE") = 0
    BY DEF CodeOf
  <2>5. r.event # "NONE" /\ r.event # RemoteName
    BY <2>1, <2>2, <2>3, <2>4, OwnersAssumption
  <2> QED BY <1>3, <2>5
<1>7. CASE e.kind \notin {"CMD_COMPLETE", "LE_META_EVENT"}
  <2>1. /\ e.kind \in AwaitedEvents /\ CodeOf(e.kind) = CodeOf(r.event)
        /\ e.kind = RemoteName => e.target = call.target
    BY <1>3, <1>7 DEF Answers, Awaited, MyAddress
  <2>2. e.kind \in DOMAIN Events \ LeEvents
    BY <1>1 DEF AnEvent
  <2>3. r.event # "NONE"
    <3>1. CodeOf(e.kind) = Events[e.kind].code /\ CodeOf("NONE") = 0
      BY <2>2, OwnersAssumption DEF CodeOf
    <3> QED BY <2>1, <2>2, <3>1, EventsAssumption
  <2>4. CASE r.event = RemoteName
    <3>1. e.kind = RemoteName
      BY <2>1, <2>2, <2>4, OwnersAssumption
    <3>2. e.n # 0 => AskedBy(e.n) = call.f
      BY <1>1, <1>4, <2>4, <3>1, OwnersAssumption DEF About, Functions
    <3> QED BY <1>3, <2>1, <2>4, <3>1, <3>2
  <2>5. CASE r.event # RemoteName
    BY <1>3, <2>3, <2>5
  <2> QED BY <2>4, <2>5
<1> QED BY <1>5, <1>6, <1>7

LEMMA ReadOwn ==
    ASSUME HciInv, OwnInv, [Next]_vars, ReadEvent PROVE OwnInv'
<1> DEFINE e == Head(inbox)
<1>1. /\ Waiting /\ ~ Idle /\ inbox # <<>> /\ inbox' = Tail(inbox) /\ busy' = busy
      /\ inbox \in Seq(Genuines)
  BY DEF ReadEvent, Waiting, HciInv
<1>2. e = inbox[1] /\ 1 \in DOMAIN inbox /\ e \in Genuines
  BY <1>1
<1>3. About(e)
  BY <1>2 DEF OwnInv, OriginInv
<1>4. CASE ~ (Answers(e) /\ Returns(EndOf(e), <<e>>, CopiedLen(e)))
  <2>1. results' = results \/ \E r : r.took = <<>> /\ results' = Append(results, r)
    <3>1. ASSUME Returns("EIO", <<>>, 0) PROVE \E r : r.took = <<>> /\ results' = Append(results, r)
      <4> DEFINE r == [f |-> call.f, target |-> call.target, end |-> "EIO", took |-> <<>>, rlen |-> 0]
      <4>1. r.took = <<>> /\ results' = Append(results, r)
        BY <3>1 DEF Returns
      <4> QED BY <4>1
    <3> QED BY <1>4, <3>1 DEF ReadEvent, Fail
  <2> QED BY <1>1, <2>1, QuietOwn
<1>5. CASE Answers(e) /\ Returns(EndOf(e), <<e>>, CopiedLen(e))
  <2> DEFINE r == [ f |-> call.f, target |-> call.target, end |-> EndOf(e), took |-> <<e>>,
                    rlen |-> CopiedLen(e) ]
  <2>1. /\ results' = Append(results, r)
        /\ r.took # <<>> /\ r.took[1] = e /\ r.f = call.f /\ r.target = call.target
    BY <1>5 DEF Returns
  <2>2. /\ e.kind # "CMD_STATUS"
        /\ Requests[call.f].event \in {"NONE", RemoteName} =>
              /\ e.n # 0 => AskedBy(e.n) = call.f
              /\ e.n = 0 => Requests[call.f].event = RemoteName
              /\ Requests[call.f].event = RemoteName => e.target = call.target
    BY <1>1, <1>2, <1>3, <1>5, AnswerTaken
  <2> HIDE DEF r
  <2>3. \A i \in DOMAIN inbox' : \E x : inbox'[i] = x /\ About(x)
    BY <1>1, InboxRead DEF OwnInv, OriginInv
  <2>4. OriginInv'
    BY <1>1, <2>3, OriginStays DEF OwnInv
  <2>5. OneEndInv'
    <3> SUFFICES ASSUME NEW n \in Nat \ {0} PROVE OneEnd(n)'
      BY DEF OneEndInv
    <3>1. OneEnd(n) /\ HeldOnce(n) /\ DeliveredOnce(n) /\ TakenOnce(n)
      BY DEF OwnInv, OneEndInv, OneEnd
    <3>2. (Held(n)' => Held(n)) /\ HeldOnce(n)'
      BY <1>1, <3>1, BusySame
    <3>3. /\ Delivered(n)' => Delivered(n)
          /\ DeliveredOnce(n)' /\ (Ends(e, n) => ~ Delivered(n)')
      BY <1>1, <3>1, InboxRead
    <3>4. e.n = n => Delivered(n)
      BY <1>2, <2>2 DEF Delivered, Ends
    <3>5. /\ Taken(n)' => Taken(n) \/ e.n = n
          /\ TakenOnce(n)'
      <4>1. e.n = n => ~ Taken(n)
        BY <3>1, <3>4 DEF OneEnd
      <4> QED BY <2>1, <3>1, <4>1, ResultAdded
    <3>6. CASE e.n = n
      <4>1. Issued(n) /\ ~ Held(n)
        BY <3>1, <3>4, <3>6 DEF OneEnd
      <4>2. Issued(n)' /\ ~ Held(n)' /\ ~ Delivered(n)'
        BY <2>2, <3>2, <3>3, <3>6, <4>1, IssuedStays DEF Ends
      <4> QED BY <3>2, <3>3, <3>5, <4>2 DEF OneEnd
    <3>7. CASE e.n # n
      BY <3>1, <3>2, <3>3, <3>5, <3>7, OneEndStays
    <3> QED BY <3>6, <3>7
  <2>6. TookInv'
    <3> SUFFICES ASSUME NEW i \in DOMAIN results' PROVE TookRight(i)'
      BY DEF TookInv
    <3>1. CASE i \in DOMAIN results
      BY <3>1, TookStays DEF OwnInv
    <3>2. CASE i \notin DOMAIN results
      <4>1. results \in Seq(FilledResults)
        BY DEF HciInv
      <4>2. i = Len(results) + 1 /\ results'[i] = r /\ Len(results) \in Nat
        BY <2>1, <3>2, <4>1, AppendProperties
      <4>3. call.n = Len(results) + 1 /\ e.n \in Nat
        BY <1>1, <1>2, CallFacts DEF Genuines, AnEvent
      <4>4. e.n # 0 => Issued(e.n)
        BY <1>3 DEF About
      <4>5. e.n \in 0..i
        <5>1. e.n # 0 => e.n \in 1..Len(results) \/ e.n = call.n
          BY <4>1, <4>4 DEF Issued
        <5> QED BY <4>2, <4>3, <5>1
      <4>6. e.n # 0 => e.n \in DOMAIN results' /\ results'[e.n].f = AskedBy(e.n)
        <5>1. DOMAIN results' = 1..(Len(results) + 1)
          BY <2>1, <4>1
        <5>2. e.n # 0 => e.n \in DOMAIN results'
          BY <4>2, <4>5, <5>1
        <5>3. PICK n : n = e.n
          OBVIOUS
        <5>4. n # 0 => n \in DOMAIN results' /\ AskedBy(n)' = AskedBy(n)
          BY <4>4, <5>2, <5>3, IssuedStays
        <5>5. n # 0 => results'[n].f = AskedBy(n)
          BY <5>4 DEF AskedBy
        <5> QED BY <5>2, <5>3, <5>5
      <4> QED BY <2>1, <2>2, <4>2, <4>5, <4>6 DEF TookRight
    <3> QED BY <3>1, <3>2
  <2> QED BY <2>4, <2>5, <2>6 DEF OwnInv
<1> QED BY <1>4, <1>5
(* The controller sends an event about one of its commands: a status leaves the  *)
(* end to come, or there will be none; any other is the end.                *)
LEMMA DeliverOwn ==
    ASSUME HciInv, OwnInv, [Next]_vars, NEW b \in busy, NEW e \in Genuines, Deliver(e), About(e),
           e.n = b.n, results' = results,
           \/ e.kind # "CMD_STATUS" /\ busy' = busy \ {b}
           \/ /\ e.kind = "CMD_STATUS"
              /\ busy' \subseteq (busy \ {b}) \cup {[b EXCEPT !.stage = "running"]}
    PROVE  OwnInv'
<1> DEFINE b2 == [b EXCEPT !.stage = "running"]
<1>1. b2.n = b.n /\ b2.f = b.f /\ b.n \in Nat \ {0}
  BY BusyFacts DEF ABusy
<1> HIDE DEF b2
<1>2. busy' \subseteq (busy \ {b}) \cup {b2} /\ (e.kind # "CMD_STATUS" => busy' = busy \ {b})
  BY DEF b2
<1>3. OriginInv'
  <2>1. \A c \in busy' : \E d \in busy : c.n = d.n /\ c.f = d.f
    BY <1>1, <1>2
  <2>2. \A i \in DOMAIN inbox' : \E x : inbox'[i] = x /\ About(x)
    BY InboxDelivered DEF OwnInv, OriginInv
  <2> QED BY <2>1, <2>2, OriginStays DEF OwnInv
<1>4. OneEndInv'
  <2> SUFFICES ASSUME NEW n \in Nat \ {0} PROVE OneEnd(n)'
    BY DEF OneEndInv
  <2>1. OneEnd(n) /\ HeldOnce(n) /\ DeliveredOnce(n) /\ TakenOnce(n)
    BY DEF OwnInv, OneEndInv, OneEnd
  <2>2. (Taken(n)' <=> Taken(n)) /\ TakenOnce(n)'
    BY <2>1, ResultsSame
  <2>3. (Held(n)' => Held(n)) /\ HeldOnce(n)'
    <3>1. Held(n)' => Held(n)
      BY <1>1, <1>2 DEF Held
    <3>2. HeldOnce(n)'
      BY <1>1, <1>2, <2>1 DEF HeldOnce
    <3> QED BY <3>1, <3>2
  <2>4. Ends(e, n) => Held(n) /\ ~ Held(n)' /\ ~ Delivered(n) /\ ~ Taken(n) /\ Issued(n)
    <3> SUFFICES ASSUME Ends(e, n) PROVE Held(n) /\ ~ Held(n)' /\ ~ Delivered(n) /\ ~ Taken(n) /\ Issued(n)
      OBVIOUS
    <3>1. b.n = n /\ busy' = busy \ {b}
      BY <1>2 DEF Ends
    <3>2. Held(n) /\ ~ Held(n)'
      BY <2>1, <3>1 DEF Held, HeldOnce
    <3> QED BY <2>1, <3>2 DEF OneEnd
  <2>5. (Delivered(n)' => Delivered(n) \/ Ends(e, n)) /\ DeliveredOnce(n)'
    BY <2>1, <2>4, InboxDelivered
  <2>6. CASE Ends(e, n)
    <3>1. Issued(n)' /\ ~ Held(n)' /\ ~ Taken(n)'
      BY <2>2, <2>4, <2>6, IssuedStays
    <3> QED BY <2>2, <2>3, <2>5, <3>1 DEF OneEnd
  <2>7. CASE ~ Ends(e, n)
    BY <2>1, <2>2, <2>3, <2>5, <2>7, OneEndStays
  <2> QED BY <2>6, <2>7
<1>5. TookInv'
  BY TookStays DEF OwnInv, TookInv
<1> QED BY <1>3, <1>4, <1>5 DEF OwnInv

LEMMA CommandOwn ==
    ASSUME HciInv, OwnInv, [Next]_vars, NEW b \in busy,
           CommandCompletes(b) \/ CommandStarts(b) \/ CommandRefused(b) \/ CommandDone(b)
    PROVE  OwnInv'
<1>1. /\ b.f \in Functions /\ b.target \in Targets /\ b.n \in Nat \ {0}
      /\ b.stage = "running" => Requests[b.f].event # "NONE"
  BY BusyFacts DEF ABusy
<1>2. Issued(b.n) /\ b.f = AskedBy(b.n)
  BY DEF OwnInv, OriginInv
<1>3. results' = results
  BY DEF CommandCompletes, CommandStarts, CommandRefused, CommandDone
<1>4. CASE CommandCompletes(b)
  <2>1. PICK e \in Completed(b) : Deliver(e)
    BY <1>4 DEF CommandCompletes
  <2>2. e \in Completed([f |-> b.f, target |-> b.target, n |-> b.n])
    BY <2>1 DEF Completed
  <2>3. Requests[b.f].event = "NONE" /\ busy' = busy \ {b}
    BY <1>4 DEF CommandCompletes
  <2>4. e \in Genuines
    BY <1>1, <2>2, <2>3, CompletionGenuine
  <2>5. e.kind = "CMD_COMPLETE" /\ e.opcode = OpcodeOf(b.f) /\ e.n = b.n
    BY <2>1 DEF Completed, Event
  <2>6. About(e)
    <3>1. RemoteName # "CMD_COMPLETE"
      BY DEF RemoteName
    <3> QED BY <1>1, <1>2, <2>3, <2>5, <3>1 DEF About
  <2> QED BY <1>3, <2>1, <2>3, <2>4, <2>5, <2>6, DeliverOwn
<1>5. CASE CommandStarts(b) \/ CommandRefused(b)
  <2>1. PICK s \in {0, 1} : Deliver(Event("CMD_STATUS", 0, OpcodeOf(b.f), b.target, s, 4, b.n))
    BY <1>5 DEF CommandStarts, CommandRefused
  <2> DEFINE e == Event("CMD_STATUS", 0, OpcodeOf(b.f), b.target, s, 4, b.n)
  <2>2. e \in Genuines
    BY <1>1, StatusGenuine
  <2>3. e.kind = "CMD_STATUS" /\ e.n = b.n
    BY DEF Event
  <2>4. Deliver(e)
    BY <2>1
  <2>5. busy' \subseteq (busy \ {b}) \cup {[b EXCEPT !.stage = "running"]}
    BY <1>5 DEF CommandStarts, CommandRefused
  <2> HIDE DEF e
  <2>6. About(e)
    <3>1. RemoteName # "CMD_STATUS"
      BY DEF RemoteName
    <3> QED BY <1>2, <2>3, <3>1 DEF About
  <2> QED BY <1>3, <2>2, <2>3, <2>4, <2>5, <2>6, DeliverOwn
<1>6. CASE CommandDone(b)
  <2> DEFINE ev == Requests[b.f].event
             e == EventNamed(ev, b.target, b.n)
  <2>1. Deliver(e) /\ busy' = busy \ {b}
    BY <1>6 DEF CommandDone
  <2>2. ev \in AwaitedEvents
    BY <1>1, <1>6, FunctionFacts DEF CommandDone
  <2>3. e \in Genuines
    BY <1>1, <2>2, NamedGenuine
  <2>4. e.kind \in {"LE_META_EVENT", ev} /\ e.n = b.n
    BY DEF EventNamed, Event
  <2>5. e.kind \notin {"CMD_STATUS", "CMD_COMPLETE"}
    BY <2>2, <2>4 DEF AwaitedEvents, FrameEvents, CommandEvents
  <2>6. e.kind = RemoteName => ev = RemoteName
    BY <2>4 DEF RemoteName
  <2>7. About(e)
    BY <1>2, <2>4, <2>5, <2>6 DEF About
  <2> HIDE DEF e
  <2> QED BY <1>3, <2>1, <2>3, <2>4, <2>5, <2>7, DeliverOwn
<1> QED BY <1>4, <1>5, <1>6

(* An event that is about no call of the program.                            *)
LEMMA OtherOwn ==
    ASSUME HciInv, OwnInv, [Next]_vars, OtherEvent PROVE OwnInv'
<1>1. PICK ev \in OtherEvents, t \in Targets : Deliver(EventNamed(ev, t, 0))
  BY DEF OtherEvent
<1> DEFINE e == EventNamed(ev, t, 0)
<1>2. e \in Genuines /\ ev \in AwaitedEvents
  BY NamedGenuine, CallsAssumption
<1>3. e.kind \in {"LE_META_EVENT", ev} /\ e.n = 0
  BY DEF EventNamed, Event
<1>4. e.kind # "CMD_COMPLETE"
  BY <1>2, <1>3 DEF AwaitedEvents, FrameEvents, CommandEvents
<1>5. About(e)
  BY <1>3, <1>4 DEF About
<1>6. Deliver(e)
  BY <1>1
<1> HIDE DEF e
<1>7. UNCHANGED <<busy, results>>
  BY DEF OtherEvent
<1>8. OriginInv'
  <2>1. \A i \in DOMAIN inbox' : \E x : inbox'[i] = x /\ About(x)
    BY <1>2, <1>5, <1>6, InboxDelivered DEF OwnInv, OriginInv
  <2> QED BY <1>7, <2>1, OriginStays DEF OwnInv
<1>9. OneEndInv'
  <2> SUFFICES ASSUME NEW n \in Nat \ {0} PROVE OneEnd(n)'
    BY DEF OneEndInv
  <2>1. OneEnd(n) /\ HeldOnce(n) /\ DeliveredOnce(n) /\ TakenOnce(n)
    BY DEF OwnInv, OneEndInv, OneEnd
  <2>2. ~ Ends(e, n)
    BY <1>3 DEF Ends
  <2>3. (Delivered(n)' => Delivered(n)) /\ DeliveredOnce(n)'
    BY <1>2, <1>6, <2>1, <2>2, InboxDelivered
  <2>4. (Held(n)' <=> Held(n)) /\ HeldOnce(n)' /\ (Taken(n)' <=> Taken(n)) /\ TakenOnce(n)'
    BY <1>7, <2>1, BusySame, ResultsSame
  <2> QED BY <2>1, <2>3, <2>4, OneEndStays
<1>10. TookInv'
  BY <1>7, TookStays DEF OwnInv, TookInv
<1> QED BY <1>8, <1>9, <1>10 DEF OwnInv

LEMMA StepOwn == ASSUME HciInv, OwnInv, [Next]_vars PROVE OwnInv'
<1>1. ASSUME NEW f, NEW t, NEW to, hci_send_req(f, t, to) PROVE OwnInv'
  <2>1. UNCHANGED <<inbox, busy, results>>
    BY <1>1 DEF hci_send_req
  <2> QED BY <2>1, QuietOwn
<1>2. ASSUME NEW f, NEW t, NEW to, NoFilter(f, t, to) PROVE OwnInv'
  <2> DEFINE r == [f |-> f, target |-> t, end |-> "io", took |-> <<>>, rlen |-> 0]
  <2>1. UNCHANGED <<inbox, busy>> /\ results' = Append(results, r) /\ r.took = <<>>
    BY <1>2 DEF NoFilter
  <2> HIDE DEF r
  <2> QED BY <2>1, QuietOwn
<1>3. ASSUME NEW error, Fail(error), UNCHANGED <<inbox, busy>> PROVE OwnInv'
  <2> DEFINE r == [f |-> call.f, target |-> call.target, end |-> error, took |-> <<>>, rlen |-> 0]
  <2>1. results' = Append(results, r) /\ r.took = <<>>
    BY <1>3 DEF Fail, Returns
  <2> HIDE DEF r
  <2> QED BY <1>3, <2>1, QuietOwn
<1>4. CASE GivesUp \/ PollExpires \/ Fails
  BY <1>3, <1>4 DEF GivesUp, PollExpires, Fails, hci_send_cmd_fails, ReadFails
<1>5. CASE UNCHANGED vars
  <2>1. UNCHANGED <<inbox, busy, results>>
    BY <1>5 DEF vars
  <2> QED BY <2>1, QuietOwn
<1> QED BY <1>1, <1>2, <1>4, <1>5, SendOwn, ReadOwn, CommandOwn, OtherOwn DEF Next, Step, Controller

(* OwnInv holds whatever the controller leaves unanswered, refuses or answers    *)
(* late. *)
THEOREM OwnInductive == Spec => []OwnInv
<1>1. Init => OwnInv
  <2> SUFFICES ASSUME Init PROVE OwnInv
    OBVIOUS
  <2>1. inbox = <<>> /\ busy = {} /\ results = <<>> /\ DOMAIN <<>> = {}
    BY DEF Init
  <2> QED BY <2>1 DEF OwnInv, OriginInv, OneEndInv, OneEnd, Held, Delivered, Taken, HeldOnce,
                      DeliveredOnce, TakenOnce, TookInv
<1>2. HciInv /\ OwnInv /\ [Next]_vars => OwnInv'
  BY StepOwn
<1> QED BY <1>1, <1>2, HciInductive, PTL DEF Spec

(* An answer told by its opcode, or a name by the address, is the request's own; *)
(* or it is the answer an earlier call for the same did not wait for, and no      *)
(* answer serves two calls.                                                 *)
THEOREM AnswersAreOwn == Spec => []AnswerIsMine
<1>1. ASSUME HciInv, OwnInv PROVE AnswerIsMine
  <2> SUFFICES ASSUME NEW i \in DOMAIN results, results[i].took # <<>>,
                      Requests[results[i].f].event \in {"NONE", RemoteName}
               PROVE  LET r == results[i]
                          n == r.took[1].n
                      IN  /\ n \notin {0, i} => results[n].f = r.f /\ ~ TookOwn(n)
                          /\ n = 0 => Requests[r.f].event = RemoteName
                          /\ Requests[r.f].event = RemoteName => r.took[1].target = r.target
    BY <1>1 DEF AnswerIsMine
  <2> DEFINE n == results[i].took[1].n
  <2>1. TookRight(i) /\ i \in 1..Len(results) /\ Len(results) \in Nat
    BY <1>1, ResultFacts DEF OwnInv, TookInv
  <2>2. /\ n \in 0..i
        /\ n # 0 => results[n].f = results[i].f
        /\ n = 0 => Requests[results[i].f].event = RemoteName
        /\ Requests[results[i].f].event = RemoteName => results[i].took[1].target = results[i].target
    BY <2>1 DEF TookRight
  <2>3. Takes(i, n)
    BY DEF Takes
  <2> HIDE DEF n
  <2>4. ASSUME n \notin {0, i} PROVE ~ TookOwn(n)
    <3>1. n \in Nat \ {0} /\ n \in DOMAIN results
      <4>1. results \in Seq(FilledResults)
        BY <1>1 DEF HciInv
      <4> QED BY <2>1, <2>2, <2>4, <4>1
    <3>2. TakenOnce(n)
      BY <1>1, <3>1 DEF OwnInv, OneEndInv, OneEnd
    <3>3. ~ Takes(n, n)
      BY <2>3, <2>4, <3>1, <3>2 DEF TakenOnce
    <3> QED BY <3>3 DEF Takes, TookOwn
  <2> QED BY <2>2, <2>4 DEF n
<1> QED BY <1>1, HciInductive, OwnInductive, PTL
=============================================================================
