------------------------------ MODULE SdpProofs ------------------------------
(***************************************************************************)
(* What is proved of SdpClient, of remote sessions and local ones, for every     *)
(* set of contents, every weight, any number of transaction ids and of calls,    *)
(* and whatever May and Cuts let happen: the types (Types), that a call that      *)
(* succeeds has all the server holds, from its own answers, unless it took a part  *)
(* of an answer for one or one whose id has come round (AnswersAreWhole), and     *)
(* that a record known as registered is registered (RecordsAreKnown).            *)
(*                                                                         *)
(* The two rest on one order: the requests and answers on their way were given    *)
(* their ids one after the other, all before the next one, and a call that waits  *)
(* has the last.  So a whole answer less than Ids ids away that has its id is the  *)
(* answer to its last request, and nothing is on its way behind it.             *)
(***************************************************************************)
EXTENDS SdpClient, SequenceTheorems, TLAPS

----------------------------------------------------------------------------
(* Types.                                                                   *)

Handles == {NoHandle} \cup 1..MaxCalls

Amiss == SUBSET {"torn", "wrapped"}

CallType(kinds) ==
    [ n : 0..MaxCalls, kind : kinds \cup {"none"}, tid : Nat, items : Seq(Nat),
      sources : SUBSET (0..MaxCalls), amiss : Amiss ]

AsyncType ==
    [ n : 0..MaxCalls, kind : (Searches \cap Kinds) \cup {"none"}, tid : Nat, items : Seq(Nat),
      count : Nat \X Nat, sources : SUBSET (0..MaxCalls), amiss : Amiss ]

Session ==
    [ open : BOOLEAN, local : BOOLEAN, up : BOOLEAN, tid : Nat, calls : 0..MaxCalls,
      async : AsyncType ]

Asked == [tid : Nat, kind : Kinds, from : Nat, handle : Handles \cup {0}, n : 1..MaxCalls]

Told ==
    [ tid : Nat, kind : Kinds, items : Seq(Nat), more : Nat, handle : Handles \cup {0},
      error : BOOLEAN, n : 1..MaxCalls, cut : BOOLEAN ]

Causes == {"none", "io", "EPROTO", "refusal", "ETIMEDOUT"}

Outcome ==
    [ n : 0..MaxCalls, kind : Kinds, status : {-1, 0, 1, 65535},
      cause : Causes, items : Seq(Nat), count : Nat \X Nat, sources : SUBSET (0..MaxCalls),
      amiss : Amiss ]

(* A call in progress has a kind, and a number that was given.                *)
Typed ==
    /\ session \in Session /\ call \in CallType(Kinds)
    /\ rec \in [handle : Handles, sure : BOOLEAN]
    /\ asked \in Seq(Asked) /\ answers \in Seq(Told) /\ done \in Seq(Outcome)
    /\ content \in Seq(Nat) /\ records \subseteq Nat
    /\ call # NoCall => call.kind \in Kinds
    /\ session.async # NoAsync => session.async.kind \in Searches \cap Kinds
    /\ ~ session.open => call = NoCall /\ session.async = NoAsync

----------------------------------------------------------------------------
(* The order of transaction ids.                                             *)

Ordered ==
    /\ \A i \in DOMAIN answers, j \in DOMAIN answers : i < j => answers[i].tid < answers[j].tid
    /\ \A i \in DOMAIN asked, j \in DOMAIN asked : i < j => asked[i].tid < asked[j].tid
    /\ \A i \in DOMAIN answers, j \in DOMAIN asked : answers[i].tid < asked[j].tid
    /\ \A i \in DOMAIN answers : answers[i].tid < session.tid
    /\ \A i \in DOMAIN asked : asked[i].tid < session.tid
    /\ call # NoCall => session.tid = call.tid + 1
    /\ session.async # NoAsync => session.async.tid < session.tid

----------------------------------------------------------------------------
(* What is on its way for a call.                                            *)

(* items is what the server holds after the first from items. *)
Part(items, from) ==
    /\ from + Len(items) <= Len(content)
    /\ \A i \in 1..Len(items) : items[i] = content[from + i]

(* A call for which nothing went amiss has the beginning, of its own answers. *)
Sound(c) == c.amiss = {} => Part(c.items, 0) /\ c.sources \subseteq {c.n}

(* A request with the id of call c asks for what it lacks ... *)
Wants(r, c) ==
    c.amiss = {} /\ r.tid = c.tid => r.n = c.n /\ r.kind = c.kind /\ r.from = Len(c.items)

(* ... and an answer with its id continues it.  The more that is left, the       *)
(* answer says so.                                                          *)
Continues(a, c) ==
    c.amiss = {} /\ a.tid = c.tid =>
        /\ a.n = c.n /\ a.kind = c.kind /\ Part(a.items, Len(c.items))
        /\ a.kind \in Searches /\ ~ a.error =>
             /\ a.more = IF Len(c.items) + Len(a.items) = Len(content) THEN 0
                                                        ELSE Len(c.items) + Len(a.items)
             /\ Len(a.items) = 0 => Len(c.items) = Len(content)
        /\ a.kind \notin Searches => a.more = 0

(* A count below 256 is right, and lies in the second byte. *)
Counted(c) == c.amiss = {} /\ Len(c.items) * Weight < 256 => c.count = <<0, Len(c.items) * Weight>>

Holds(c) ==
    /\ Sound(c) /\ c.n \in 1..session.calls
    /\ \A i \in DOMAIN done : done[i].n # c.n
    /\ \A i \in DOMAIN asked : Wants(asked[i], c)
    /\ \A i \in DOMAIN answers : Continues(answers[i], c)

(* A search that succeeds has all. *)
Full(d) == d.amiss = {} /\ d.kind \in Searches /\ d.status = 0 => Len(d.items) = Len(content)

Answered(d) ==
    /\ d.n \in 1..session.calls /\ Sound(d) /\ Full(d)
    /\ d.count # <<0, 0>> => Counted(d)

WholeInv ==
    /\ call # NoCall => Holds(call)
    /\ session.async # NoAsync => Holds(session.async) /\ Counted(session.async)
    /\ call # NoCall /\ session.async # NoAsync => call.n # session.async.n
    /\ \A i \in DOMAIN done : Answered(done[i])
    /\ \A i \in DOMAIN done, j \in DOMAIN done : done[i].n = done[j].n => i = j
    /\ \A i \in DOMAIN asked : asked[i].from <= Len(content)
    /\ \A i \in DOMAIN answers : answers[i].more <= Len(content)

----------------------------------------------------------------------------
(* The record.                                                              *)

RecordInv ==
    /\ RecordKnown
    /\ \A i \in DOMAIN asked :
          /\ asked[i].kind = "SVC_REMOVE" /\ rec.sure /\ rec.handle # NoHandle =>
                call.kind = "SVC_REMOVE"
          /\ asked[i].kind = "SVC_REGISTER" => asked[i].handle # 0
    /\ \A i \in DOMAIN answers :
          /\ answers[i].kind = "SVC_REGISTER" /\ ~ answers[i].error => answers[i].handle \in 1..MaxCalls
          /\ /\ answers[i].kind = "SVC_REGISTER" /\ ~ answers[i].error
             /\ session.up /\ call # NoCall /\ answers[i].tid = call.tid
             => answers[i].handle \in records

SInv == Typed /\ Ordered /\ WholeInv /\ RecordInv

----------------------------------------------------------------------------
(* What a step does, as far as the invariants tell steps apart.               *)

(* All of an answer but whether its beginning has been read. *)
Same(b, a) ==
    /\ b.tid = a.tid /\ b.kind = a.kind /\ b.items = a.items /\ b.more = a.more
    /\ b.handle = a.handle /\ b.error = a.error /\ b.n = a.n

(* The answers without the first ones. *)
Shorter ==
    /\ answers' \in Seq(Told)
    /\ \E k \in Nat : \A i \in DOMAIN answers' :
          i \in Nat /\ i + k \in DOMAIN answers /\ Same(answers'[i], answers[i + k])

SessionNext(tid, calls, async) ==
    /\ session' \in Session /\ session'.open /\ session'.up = session.up
    /\ session'.tid = tid /\ session'.calls = calls /\ session'.async = async

Fresh(n) == \A i \in DOMAIN done : done[i].n # n

(* What a request asks for, and the call it is of. *)
Asks(r, c) ==
    /\ r.tid = session.tid /\ c.tid = session.tid /\ r.n = c.n /\ r.kind = c.kind
    /\ r.from <= Len(content) /\ (c.amiss = {} => r.from = Len(c.items))

(* c is the call that waits next, and r the request it waits for. *)
CallSends(c, r, k) ==
    /\ c \in CallType(Kinds) /\ c.kind \in Kinds /\ r \in Asked
    /\ Asks(r, c) /\ r.handle = rec.handle
    /\ Sound(c) /\ c.n \in 1..k
    /\ Fresh(c.n) /\ (session.async # NoAsync => session.async.n # c.n)
    /\ call = NoCall \/ (c.kind = call.kind /\ c.kind \in Searches)
    /\ session.open /\ k \in session.calls..MaxCalls
    /\ SessionNext(session.tid + 1, k, session.async)
    /\ call' = c /\ asked' = Append(asked, r) /\ Shorter
    /\ UNCHANGED <<rec, content, records, done>>

RecordAfter ==
    \/ rec' = rec /\ call.kind # "SVC_REMOVE"
    \/ rec' = [rec EXCEPT !.sure = FALSE]
    \/ /\ rec' \in [handle : Handles, sure : BOOLEAN]
       /\ \/ rec'.handle = NoHandle
          \/ ~ rec'.sure
          \/ asked = <<>> /\ (session.up => rec'.handle \in records)

CallEnds(d, t, k) ==
    /\ d \in Outcome /\ d.n \in 1..k /\ d.count = <<0, 0>> /\ Sound(d) /\ Full(d)
    /\ Fresh(d.n) /\ (session.async # NoAsync => session.async.n # d.n)
    /\ session.open /\ t \in {session.tid, session.tid + 1} /\ k \in session.calls..MaxCalls
    /\ SessionNext(t, k, session.async)
    /\ call' = NoCall /\ done' = Append(done, d) /\ Shorter /\ RecordAfter
    /\ UNCHANGED <<asked, content, records>>

AsyncSends(c, r, k) ==
    /\ c \in AsyncType /\ c.kind \in Searches \cap Kinds /\ r \in Asked
    /\ Asks(r, c) /\ Sound(c) /\ c.n \in 1..k /\ Counted(c)
    /\ Fresh(c.n) /\ call = NoCall
    /\ session.open /\ k \in session.calls..MaxCalls
    /\ SessionNext(session.tid + 1, k, c)
    /\ asked' = Append(asked, r) /\ Shorter
    /\ UNCHANGED <<call, rec, content, records, done>>

AsyncEnds(d, t, k) ==
    /\ d \in Outcome /\ d.n \in 1..k /\ Sound(d) /\ Full(d)
    /\ d.count # <<0, 0>> => Counted(d)
    /\ Fresh(d.n) /\ call = NoCall
    /\ session.open /\ t \in {session.tid, session.tid + 1} /\ k \in session.calls..MaxCalls
    /\ SessionNext(t, k, NoAsync)
    /\ done' = Append(done, d) /\ Shorter
    /\ UNCHANGED <<call, rec, asked, content, records>>

(* The server answers r with a. *)
Serves(r, a) ==
    /\ asked # <<>> /\ r = Head(asked) /\ a \in Told
    /\ a.tid = r.tid /\ a.n = r.n /\ a.kind = r.kind
    /\ Part(a.items, r.from) /\ a.more <= Len(content)
    /\ a.kind \in Searches /\ ~ a.error =>
         /\ a.more = IF r.from + Len(a.items) = Len(content) THEN 0 ELSE r.from + Len(a.items)
         /\ Len(a.items) = 0 => r.from = Len(content)
    /\ a.kind \notin Searches => a.more = 0
    /\ records' \subseteq Nat
    /\ records \subseteq records' \/ a.kind = "SVC_REMOVE"
    /\ a.kind = "SVC_REGISTER" /\ ~ a.error => a.handle \in 1..MaxCalls /\ a.handle \in records'
    /\ asked' = Tail(asked) /\ answers' = Append(answers, a)
    /\ UNCHANGED <<session, call, rec, content, done>>

Opens ==
    /\ ~ session.open /\ SessionNext(session.tid, session.calls, session.async)
    /\ UNCHANGED <<call, rec, asked, answers, content, records, done>>

Closes ==
    /\ session.open /\ call = NoCall /\ session' = Closed(session)
    /\ asked' = <<>> /\ answers' = <<>>
    /\ UNCHANGED <<call, rec, content, records, done>>

Goes ==
    /\ session.open /\ session' = [session EXCEPT !.up = FALSE]
    /\ asked' = <<>> /\ records' = {}
    /\ UNCHANGED <<call, rec, answers, content, done>>

Step ==
    \/ \E c \in CallType(Kinds), r \in Asked, k \in 0..MaxCalls : CallSends(c, r, k)
    \/ \E d \in Outcome, t \in Nat, k \in 0..MaxCalls : CallEnds(d, t, k)
    \/ \E c \in AsyncType, r \in Asked, k \in 0..MaxCalls : AsyncSends(c, r, k)
    \/ \E d \in Outcome, t \in Nat, k \in 0..MaxCalls : AsyncEnds(d, t, k)
    \/ \E r \in Asked, a \in Told : Serves(r, a)
    \/ Opens \/ Closes \/ Goes

----------------------------------------------------------------------------
(* Sequences.                                                               *)

LEMMA TailFacts ==
    ASSUME NEW S, NEW s \in Seq(S), s # <<>>
    PROVE  /\ Head(s) = s[1] /\ Head(s) \in S /\ 1 \in DOMAIN s
           /\ Tail(s) \in Seq(S)
           /\ \A i \in DOMAIN Tail(s) : i \in Nat /\ i + 1 \in DOMAIN s /\ Tail(s)[i] = s[i + 1]
  OBVIOUS

LEMMA AppendFacts ==
    ASSUME NEW S, NEW s \in Seq(S), NEW x \in S
    PROVE  /\ Append(s, x) \in Seq(S)
           /\ \A i \in DOMAIN Append(s, x) :
                 (i \in DOMAIN s /\ Append(s, x)[i] = s[i]) \/ (i = Len(s) + 1 /\ Append(s, x)[i] = x)
           /\ \A i \in DOMAIN s : i \in 1..Len(s) /\ i # Len(s) + 1
  OBVIOUS

----------------------------------------------------------------------------
(* Every step has one of these forms.                                        *)

(* Answers left alone, or Tail of them, are Shorter. *)
LEMMA NoneTaken ==
    ASSUME Typed, answers' = answers
    PROVE  Shorter
<1>1. answers \in Seq(Told)
  BY DEF Typed
<1>2. \A i \in DOMAIN answers : i \in Nat /\ i + 0 \in DOMAIN answers /\ Same(answers[i], answers[i + 0])
  BY <1>1 DEF Same
<1> QED BY <1>1, <1>2 DEF Shorter

(* What the types say of the fields. *)
LEMMA Fields ==
    ASSUME Typed
    PROVE  /\ session \in Session /\ rec \in [handle : Handles, sure : BOOLEAN]
           /\ content \in Seq(Nat) /\ asked \in Seq(Asked) /\ answers \in Seq(Told)
           /\ call \in CallType(Kinds) /\ done \in Seq(Outcome) /\ records \subseteq Nat
           /\ session.tid \in Nat /\ session.calls \in 0..MaxCalls /\ MaxCalls \in Nat
           /\ session.async \in AsyncType /\ session.open \in BOOLEAN
           /\ rec.handle \in Handles
  BY SdpAssumption DEF Typed, Session

LEMMA NoCallType == NoCall \in CallType(Kinds) /\ NoAsync \in AsyncType
  BY SdpAssumption DEF NoCall, NoAsync, CallType, AsyncType, Amiss

(* What the records made of a call hold. *)
LEMMA ResultType ==
    ASSUME Typed, NEW c, c.n \in 0..MaxCalls, c.kind \in Kinds, c.items \in Seq(Nat),
           c.sources \subseteq 0..MaxCalls, c.amiss \in Amiss,
           NEW status \in {-1, 0, 1, 65535}, NEW cause \in Causes,
           NEW count \in Nat \X Nat, NEW d, d = Result(c, status, cause, count)
    PROVE  /\ d \in Outcome
           /\ d.n = c.n /\ d.kind = c.kind /\ d.status = status /\ d.items = c.items
           /\ d.count = count /\ d.sources = c.sources /\ d.amiss = c.amiss
           /\ Sound(c) => Sound(d)
  BY DEF Result, Outcome, Sound

LEMMA RequestType ==
    ASSUME Typed, NEW tid \in Nat, NEW kind \in Kinds, NEW from \in Nat, NEW handle \in Handles \cup {0},
           NEW n \in 1..MaxCalls, NEW r, r = Request(tid, kind, from, handle, n)
    PROVE  /\ r \in Asked
           /\ r.tid = tid /\ r.kind = kind /\ r.from = from /\ r.handle = handle /\ r.n = n
  BY DEF Request, Asked

LEMMA AfterGenTid ==
    ASSUME NEW s \in Session
    PROVE  /\ sdp_gen_tid(s) \in Session /\ sdp_gen_tid(s).open = s.open
           /\ sdp_gen_tid(s).tid = s.tid + 1 /\ sdp_gen_tid(s).calls = s.calls
           /\ sdp_gen_tid(s).async = s.async /\ sdp_gen_tid(s).up = s.up
  BY DEF sdp_gen_tid, Session

(* sdp_request: the first request of a call. *)
LEMMA RequestStep ==
    ASSUME SInv, NEW kind \in Kinds, sdp_request(kind)
    PROVE  Step
<1> DEFINE k == session.calls + 1
           s == [sdp_gen_tid(session) EXCEPT !.calls = @ + 1]
           b == [NoCall EXCEPT !.n = session.calls + 1, !.kind = kind]
           c == [b EXCEPT !.tid = session.tid]
           r == Request(session.tid, kind, 0, rec.handle, k)
           d == Result(b, -1, "io", <<0, 0>>)
<1>1. /\ session \in Session /\ rec \in [handle : Handles, sure : BOOLEAN] /\ content \in Seq(Nat)
      /\ session.tid \in Nat /\ session.calls \in 0..MaxCalls /\ rec.handle \in Handles
      /\ call = NoCall /\ session.open /\ k \in 1..MaxCalls
      /\ session' = s /\ SendRequest(b, 0)
      /\ UNCHANGED <<rec, content, records>> /\ Shorter /\ Len(content) \in Nat
  <2>1. session.calls < MaxCalls
    BY DEF sdp_request, MayStart
  <2>2. Shorter
    BY NoneTaken DEF SInv, sdp_request
  <2> QED BY <2>1, <2>2, Fields DEF SInv, sdp_request, MayStart
<1>2. SessionNext(session.tid + 1, k, session.async)
  <2>1. k \in 0..MaxCalls
    BY <1>1
  <2>2. /\ s \in Session /\ s.open /\ s.tid = session.tid + 1 /\ s.calls = k /\ s.async = session.async
        /\ s.up = session.up
    <3> DEFINE v == sdp_gen_tid(session)
    <3>1. /\ v \in Session /\ v.open /\ v.tid = session.tid + 1 /\ v.calls = session.calls
          /\ v.async = session.async /\ v.up = session.up
      BY <1>1, AfterGenTid
    <3> HIDE DEF v
    <3>2. s = [v EXCEPT !.calls = k]
      BY <3>1 DEF v
    <3> HIDE DEF s, k
    <3> QED BY <2>1, <3>1, <3>2 DEF Session
  <2> HIDE DEF s, k
  <2> QED BY <1>1, <2>2 DEF SessionNext
<1>3. /\ b.n = k /\ b.kind = kind /\ b.items = <<>> /\ b.sources = {} /\ b \in CallType(Kinds)
      /\ c.n = k /\ c.kind = kind /\ c.items = <<>> /\ c.sources = {} /\ c.tid = session.tid
      /\ c \in CallType(Kinds) /\ b.amiss = {}
  <2>1. session.calls + 1 \in 0..MaxCalls
    BY <1>1
  <2>2. /\ b.n = k /\ b.kind = kind /\ b.items = <<>> /\ b.sources = {} /\ b \in CallType(Kinds)
        /\ b.amiss = {}
    <3> QED BY <2>1, NoCallType DEF CallType, NoCall
  <2> HIDE DEF b, k
  <2> QED BY <2>1, <2>2, <1>1 DEF CallType
<1>4. /\ Fresh(k) /\ (session.async # NoAsync => session.async.n # k)
  BY <1>1 DEF SInv, WholeInv, Answered, Holds, Fresh
<1>5. Part(<<>>, 0) /\ Len(<<>>) = 0 /\ Sound(b) /\ Sound(c)
  <2>1. Part(<<>>, 0)
    BY <1>1 DEF Part
  <2> HIDE DEF b, c
  <2> QED BY <1>3, <2>1 DEF Sound
<1>6. CASE call' = c /\ asked' = Append(asked, r) /\ UNCHANGED done
  <2>1. /\ r \in Asked /\ r.tid = session.tid /\ r.kind = kind /\ r.from = 0
        /\ r.handle = rec.handle /\ r.n = k
    <3>1. r = Request(session.tid, kind, 0, rec.handle, k) /\ Typed
      BY DEF SInv
    <3>2. rec.handle \in Handles \cup {0} /\ 0 \in Nat
      BY <1>1
    <3> HIDE DEF r, k
    <3>3. session.tid \in Nat /\ k \in 1..MaxCalls
      BY <1>1
    <3> QED BY <3>1, <3>2, <3>3, RequestType
  <2>2. CallSends(c, r, k)
    <3> HIDE DEF s, b, c, r, d
    <3>1. Asks(r, c)
      BY <1>1, <1>3, <1>5, <2>1 DEF Asks
    <3> QED BY <1>1, <1>2, <1>3, <2>1, <1>4, <1>5, <1>6, <3>1 DEF CallSends
  <2> HIDE DEF c, r, k
  <2> QED BY <2>1, <2>2, <1>3, <1>1 DEF Step
<1>7. CASE call' = NoCall /\ done' = Append(done, d) /\ UNCHANGED asked
  <2>1. /\ d \in Outcome /\ d.n = k /\ d.kind = kind /\ d.status = -1 /\ d.items = <<>>
        /\ d.count = <<0, 0>> /\ d.sources = {} /\ Sound(d)
    <3>1. d = Result(b, -1, "io", <<0, 0>>) /\ Typed
      BY DEF SInv
    <3>2. /\ b.n \in 0..MaxCalls /\ b.kind \in Kinds /\ b.items \in Seq(Nat) /\ b.sources \subseteq 0..MaxCalls
          /\ <<0, 0>> \in Nat \X Nat /\ b.amiss \in Amiss /\ Sound(b)
      <4>1. b.n \in 0..MaxCalls
        BY <1>1, <1>3
      <4>2. {} \in Amiss /\ Sound(b)
        BY <1>5 DEF Amiss
      <4> HIDE DEF b
      <4> QED BY <4>1, <4>2, <1>3
    <3>3. -1 \in {-1, 0, 1, 65535} /\ "io" \in Causes
      BY DEF Causes
    <3> HIDE DEF d, b
    <3>4. /\ d \in Outcome
          /\ d.n = b.n /\ d.kind = b.kind /\ d.status = -1 /\ d.items = b.items
          /\ d.count = <<0, 0>> /\ d.sources = b.sources /\ Sound(d)
      BY <3>1, <3>2, <3>3, ResultType
    <3> HIDE DEF k
    <3> QED BY <1>3, <3>4
  <2>2. CallEnds(d, session.tid + 1, k)
    <3> HIDE DEF s, b, c, d
    <3> QED BY <1>1, <1>2, <2>1, <1>4, <1>5, <1>7 DEF CallEnds, RecordAfter, NoCall, Full
  <2>3. k \in 0..MaxCalls /\ session.tid + 1 \in Nat
    BY <1>1
  <2> HIDE DEF d, k
  <2> QED BY <2>1, <2>2, <2>3 DEF Step
<1>8. \/ call' = c /\ asked' = Append(asked, r) /\ UNCHANGED done
      \/ call' = NoCall /\ done' = Append(done, d) /\ UNCHANGED asked
  BY <1>1, <1>3 DEF SendRequest, Ends
<1> QED BY <1>6, <1>7, <1>8

(* What a call still waiting is known to be. *)
LEMMA Waiting ==
    ASSUME SInv, call # NoCall
    PROVE  /\ session.open /\ call.kind \in Kinds /\ call.n \in 1..session.calls
           /\ call.items \in Seq(Nat) /\ call.sources \subseteq 0..MaxCalls /\ call.n \in 0..MaxCalls
           /\ call.tid \in Nat /\ call.amiss \in Amiss
           /\ Sound(call) /\ Fresh(call.n)
           /\ session.async # NoAsync => session.async.n # call.n
  BY Fields DEF SInv, Typed, WholeInv, Holds, Fresh, CallType

LEMMA SameSession ==
    ASSUME Typed, session.open, UNCHANGED session
    PROVE  SessionNext(session.tid, session.calls, session.async)
  BY Fields DEF SessionNext

(* A call that failed. *)
LEMMA FailStep ==
    ASSUME SInv, call # NoCall, NEW cause \in Causes, CallFails(cause), Shorter,
           UNCHANGED <<content, records>>
    PROVE  Step
<1> DEFINE d == Result(call, -1, cause, <<0, 0>>)
<1>1. /\ d \in Outcome /\ d.n = call.n /\ d.kind = call.kind /\ d.status = -1 /\ d.items = call.items
      /\ d.count = <<0, 0>> /\ d.sources = call.sources /\ Sound(d)
  <2>1. d = Result(call, -1, cause, <<0, 0>>) /\ Typed
    BY DEF SInv
  <2>2. -1 \in {-1, 0, 1, 65535} /\ <<0, 0>> \in Nat \X Nat
    OBVIOUS
  <2> HIDE DEF d
  <2> QED BY <2>1, <2>2, Waiting, ResultType
<1>2. /\ call' = NoCall /\ done' = Append(done, d) /\ rec' = Unsure(call.kind)
      /\ UNCHANGED <<session, asked>>
  BY DEF CallFails, Ends
<1>3. RecordAfter
  BY <1>2 DEF RecordAfter, Unsure
<1>4. CallEnds(d, session.tid, session.calls)
  <2>1. SessionNext(session.tid, session.calls, session.async)
    BY <1>2, SameSession, Waiting DEF SInv
  <2>2. session.calls \in session.calls..MaxCalls /\ session.tid \in {session.tid, session.tid + 1}
    BY Fields DEF SInv
  <2> HIDE DEF d
  <2> QED BY <1>1, <1>2, <1>3, <2>1, <2>2, Waiting DEF CallEnds, Full
<1> HIDE DEF d
<1> QED BY <1>1, <1>4, Fields DEF Step, SInv

(* A part and the one after it are a part. *)
LEMMA PartJoin ==
    ASSUME Typed, NEW x \in Seq(Nat), NEW y \in Seq(Nat), Part(x, 0), Part(y, Len(x))
    PROVE  /\ Part(x \o y, 0) /\ Len(x \o y) = Len(x) + Len(y) /\ x \o y \in Seq(Nat)
           /\ Len(x \o y) <= Len(content)
<1>1. /\ Len(x \o y) = Len(x) + Len(y) /\ x \o y \in Seq(Nat)
  OBVIOUS
<1>2. Len(x \o y) <= Len(content)
  BY <1>1 DEF Part
<1>3. ASSUME NEW i \in 1..Len(x \o y) PROVE (x \o y)[i] = content[i]
  <2>1. CASE i <= Len(x)
    BY <2>1, <1>1 DEF Part
  <2>2. CASE i > Len(x)
    <3>1. i - Len(x) \in 1..Len(y) /\ Len(x) + (i - Len(x)) = i
      BY <2>2, <1>1
    <3>2. (x \o y)[i] = y[i - Len(x)]
      BY <2>2, <1>1
    <3>3. y[i - Len(x)] = content[Len(x) + (i - Len(x))]
      BY <3>1 DEF Part
    <3> QED BY <3>1, <3>2, <3>3
  <2> QED BY <2>1, <2>2, <1>1
<1> QED BY <1>1, <1>2, <1>3 DEF Part

(* An answer less than Ids ids away whose id matches has the very id. *)
LEMMA SameRemainder ==
    ASSUME NEW x \in Nat, NEW y \in Nat, NEW n \in Nat \ {0}, x % n = y % n, x - y < n, y - x < n
    PROVE  x = y
<1>1. /\ x = n * (x \div n) + (x % n) /\ y = n * (y \div n) + (y % n)
      /\ x \div n \in Nat /\ y \div n \in Nat
  OBVIOUS
<1>2. PICK p \in Nat, q \in Nat : p = x \div n /\ q = y \div n
  BY <1>1
<1>3. PICK r \in Int : r = x % n
  OBVIOUS
<1>4. x = n * p + r /\ y = n * q + r
  BY <1>1, <1>2, <1>3
<1>5. ASSUME NEW u \in Nat, NEW v \in Nat, v < u PROVE n * u - n * v >= n
  <2>1. PICK w \in Nat : u = v + 1 + w
    <3>1. u - v - 1 \in Nat /\ u = v + 1 + (u - v - 1)
      BY <1>5
    <3> QED BY <3>1
  <2>2. n * u = n * v + n + n * w /\ n * w \in Nat /\ n * v \in Nat
    BY <2>1
  <2> QED BY <2>2
<1>6. ~ q < p
  <2>1. q < p => n * p - n * q >= n
    BY <1>5
  <2>2. n * p \in Nat /\ n * q \in Nat
    OBVIOUS
  <2> QED BY <1>4, <2>1, <2>2
<1>7. ~ p < q
  <2>1. p < q => n * q - n * p >= n
    BY <1>5
  <2>2. n * p \in Nat /\ n * q \in Nat
    OBVIOUS
  <2> QED BY <1>4, <2>1, <2>2
<1> QED BY <1>4, <1>6, <1>7

LEMMA TheVeryId ==
    ASSUME NEW tid \in Nat, NEW a \in Told, TidMatches(tid, a), Wrapped(tid, a) = {}
    PROVE  a.tid = tid
<1>1. a.tid \in Nat /\ Ids \in Nat \ {0}
  BY SdpAssumption DEF Told
<1>2. PICK x \in Nat, n \in Nat \ {0} : x = a.tid /\ n = Ids
  BY <1>1
<1>3. ~ (tid - x >= n) /\ ~ (x - tid >= n) /\ x % n = tid % n
  BY <1>2 DEF Wrapped, TidMatches
<1>4. tid - x < n /\ x - tid < n
  BY <1>3
<1> QED BY <1>2, <1>3, <1>4, SameRemainder

LEMMA WrappedType ==
    ASSUME NEW tid, NEW a
    PROVE  Wrapped(tid, a) \in Amiss /\ {"torn"} \in Amiss
  BY DEF Wrapped, Amiss

(* The first answer and what is made of it. *)
LEMMA FirstAnswer ==
    ASSUME SInv, answers # <<>>
    PROVE  /\ 1 \in DOMAIN answers /\ Head(answers) = answers[1] /\ Head(answers) \in Told
           /\ Head(answers).more <= Len(content)
<1>1. 1 \in DOMAIN answers /\ Head(answers) = answers[1] /\ answers[1] \in Told
  BY TailFacts, Fields DEF SInv
<1> QED BY <1>1 DEF SInv, WholeInv

(* An answer read as what it is not. *)
LEMMA MisreadType ==
    ASSUME SInv, NEW a \in Told, NEW b \in Misread(a)
    PROVE  b \in Told /\ b.more <= Len(content) /\ b.handle \in 1..MaxCalls
<1>1. PICK k \in 0..Len(a.items), from \in 0..Len(content), h \in 1..MaxCalls :
         b = Garbled(a, k, from, h)
  BY DEF Misread
<1>2. a.items \in Seq(Nat) /\ content \in Seq(Nat)
  BY Fields DEF Told, SInv
<1>3. PICK items : items = SubSeq(a.items, 1, k)
  OBVIOUS
<1>4. items \in Seq(Nat)
  BY <1>2, <1>3
<1>5. from \in Nat /\ from <= Len(content) /\ h \in Handles \cup {0}
  BY <1>2 DEF Handles
<1>6. b = [a EXCEPT !.items = items, !.more = from, !.handle = h]
  BY <1>1, <1>3 DEF Garbled
<1> QED BY <1>4, <1>5, <1>6 DEF Told

(* What a read leaves. *)
LEMMA RecvShorter ==
    ASSUME Typed, NEW n \in 0..Len(answers), NEW cut \in BOOLEAN, Recv(n, cut)
    PROVE  Shorter
<1>1. answers \in Seq(Told) /\ n \in Nat /\ n <= Len(answers) /\ Len(answers) \in Nat
  BY Fields
<1>2. CASE ~ cut
  <2>1. answers' = SubSeq(answers, n + 1, Len(answers))
    BY <1>2 DEF Recv
  <2>2. /\ answers' \in Seq(Told) /\ Len(answers') = Len(answers) - n
        /\ \A i \in 1..(Len(answers) - n) : answers'[i] = answers[i + n]
    BY <1>1, <2>1
  <2>3. \A i \in DOMAIN answers' : i \in Nat /\ i + n \in DOMAIN answers /\ Same(answers'[i], answers[i + n])
    BY <1>1, <2>2 DEF Same
  <2> QED BY <1>1, <2>2, <2>3 DEF Shorter
<1>3. CASE cut
  <2>1. PICK a : a = answers[n + 1]
    OBVIOUS
  <2>2. PICK b : b = [a EXCEPT !.cut = TRUE]
    OBVIOUS
  <2>3. PICK rest : rest = SubSeq(answers, n + 2, Len(answers))
    OBVIOUS
  <2>4. n < Len(answers) /\ answers' = <<b>> \o rest
    BY <1>3, <2>1, <2>2, <2>3 DEF Recv
  <2>5. a \in Told /\ b \in Told /\ Same(b, a)
    <3>1. n + 1 \in DOMAIN answers
      BY <1>1, <2>4
    <3>2. a \in Told
      BY <1>1, <2>1, <3>1
    <3> QED BY <2>2, <3>2 DEF Told, Same
  <2>6. /\ rest \in Seq(Told) /\ Len(rest) = Len(answers) - n - 1
        /\ \A i \in 1..Len(rest) : rest[i] = answers[i + n + 1]
    BY <1>1, <2>3, <2>4
  <2>7. answers' \in Seq(Told) /\ Len(answers') = Len(rest) + 1
    BY <2>4, <2>5, <2>6
  <2>8. ASSUME NEW i \in DOMAIN answers'
        PROVE  i \in Nat /\ i + n \in DOMAIN answers /\ Same(answers'[i], answers[i + n])
    <3>1. i \in 1..(Len(answers) - n)
      BY <1>1, <2>4, <2>6, <2>7
    <3>2. i \in Nat /\ i + n \in DOMAIN answers
      BY <1>1, <3>1
    <3>3. CASE i = 1
      <4>1. answers'[i] = b /\ answers[i + n] = a
        BY <1>1, <2>1, <2>4, <2>5, <2>6, <3>3
      <4> QED BY <2>5, <3>2, <4>1
    <3>4. CASE i # 1
      <4>1. i - 1 \in 1..Len(rest) /\ (i - 1) + n + 1 = i + n
        BY <1>1, <2>6, <3>1, <3>4
      <4>2. answers'[i] = rest[i - 1]
        BY <2>4, <2>5, <2>6, <3>1, <3>4
      <4>3. answers'[i] = answers[i + n]
        BY <2>6, <4>1, <4>2
      <4> QED BY <3>2, <4>3 DEF Same
    <3> QED BY <3>3, <3>4
  <2> QED BY <1>1, <2>7, <2>8 DEF Shorter
<1> QED BY <1>2, <1>3

(* The answer to the last request: nothing is behind it, and it continues the    *)
(* call.                                                                    *)
Proper(a) ==
    /\ asked = <<>> /\ a.n = call.n /\ a.kind = call.kind /\ a.tid = call.tid /\ ~ a.error
    /\ Continues(a, call) /\ Part(a.items, Len(call.items))
    /\ a.kind = "SVC_REGISTER" /\ session.up => a.handle \in records

LEMMA Matching ==
    ASSUME SInv, call # NoCall, call.amiss = {}, answers # <<>>, Head(answers).tid = call.tid,
           ~ Head(answers).error
    PROVE  Proper(Head(answers))
<1>1. 1 \in DOMAIN answers /\ Head(answers) = answers[1] /\ answers[1] \in Told
  BY FirstAnswer
<1>2. asked = <<>>
  <2>1. SUFFICES ASSUME asked # <<>> PROVE FALSE
    OBVIOUS
  <2>2. 1 \in DOMAIN asked /\ asked[1] \in Asked
    BY <2>1, Fields DEF SInv
  <2>3. answers[1].tid < asked[1].tid /\ asked[1].tid < session.tid /\ session.tid = call.tid + 1
    BY <1>1, <2>2 DEF SInv, Ordered
  <2>4. asked[1].tid \in Nat /\ call.tid \in Nat /\ session.tid \in Nat
    BY <2>2, Fields, Waiting DEF SInv, Asked
  <2> QED BY <2>3, <2>4, <1>1
<1>3. Continues(answers[1], call)
  BY <1>1 DEF SInv, WholeInv, Holds
<1>4. answers[1].kind = "SVC_REGISTER" /\ session.up => answers[1].handle \in records
  BY <1>1 DEF SInv, RecordInv
<1> QED BY <1>1, <1>2, <1>3, <1>4 DEF Continues, Proper

(* What an answer says is left, with x items before it, y in it and l in all. *)
LEMMA Left ==
    ASSUME NEW m \in Nat, NEW x \in Nat, NEW y \in Nat, NEW l \in Nat,
           m = IF x + y = l THEN 0 ELSE x + y, y = 0 => x = l, x + y <= l
    PROVE  (m > 0 => m = x + y) /\ (~ m > 0 => x + y = l)
  OBVIOUS

(* An answer, or what was taken for one, is added to the call. *)
LEMMA TakeStep ==
    ASSUME SInv, call # NoCall, NEW a \in Told, NEW why \in Amiss, Shorter, TakeAnswer(a, why),
           a.more <= Len(content), call.kind = "SVC_REGISTER" => a.handle \in 1..MaxCalls,
           call.amiss = {} /\ why = {} => Proper(a),
           UNCHANGED <<content, records>>
    PROVE  Step
<1> DEFINE t == Taken(call, a, why)
           c == [t EXCEPT !.tid = session.tid]
           r == Request(session.tid, t.kind, a.more, rec.handle, t.n)
           e == Result(t, -1, "io", <<0, 0>>)
           d == Result(t, 0, "none", <<0, 0>>)
<1>1. a.items \in Seq(Nat) /\ a.more \in Nat /\ a.n \in 1..MaxCalls /\ a.handle \in Handles \cup {0}
  BY DEF Told
<1>2. Typed
  BY DEF SInv
<1>3. /\ session.open /\ call.kind \in Kinds /\ call.n \in 1..session.calls
      /\ call.items \in Seq(Nat) /\ call.sources \subseteq 0..MaxCalls /\ call.n \in 0..MaxCalls
      /\ Fresh(call.n) /\ (session.async # NoAsync => session.async.n # call.n)
      /\ session.tid \in Nat /\ session.calls \in 0..MaxCalls /\ MaxCalls \in Nat
      /\ call \in CallType(Kinds) /\ Sound(call) /\ call.amiss \in Amiss
  BY Waiting, Fields, <1>2
<1>4. /\ t.items = call.items \o a.items /\ t.n = call.n /\ t.kind = call.kind
      /\ t.sources = call.sources \cup {a.n} /\ t.amiss = call.amiss \cup why /\ t \in CallType(Kinds)
      /\ t.items \in Seq(Nat) /\ t.amiss \in Amiss
  <2>1. PICK items, sources, amiss :
           /\ items = call.items \o a.items /\ sources = call.sources \cup {a.n}
           /\ amiss = call.amiss \cup why
    OBVIOUS
  <2>2. items \in Seq(Nat) /\ sources \subseteq 0..MaxCalls /\ amiss \in Amiss
    <3>1. items \in Seq(Nat)
      BY <1>1, <1>3, <2>1
    <3>2. sources \subseteq 0..MaxCalls
      BY <1>1, <1>3, <2>1
    <3>3. amiss \in Amiss
      BY <1>3, <2>1 DEF Amiss
    <3> QED BY <3>1, <3>2, <3>3
  <2>3. t = [call EXCEPT !.items = items, !.sources = sources, !.amiss = amiss]
    BY <2>1 DEF Taken
  <2> HIDE DEF t
  <2>4. /\ t.items = items /\ t.n = call.n /\ t.kind = call.kind
        /\ t.sources = sources /\ t.amiss = amiss /\ t \in CallType(Kinds)
    BY <1>3, <2>2, <2>3 DEF CallType
  <2> QED BY <2>1, <2>2, <2>4
<1>5. /\ t.sources \subseteq 0..MaxCalls /\ t.n \in 0..MaxCalls
      /\ t.n \in 1..MaxCalls /\ t.kind \in Kinds
  <2> HIDE DEF t
  <2> QED BY <1>1, <1>3, <1>4
<1> HIDE DEF t
<1>5a. ASSUME t.amiss = {}
       PROVE  /\ Proper(a) /\ call.amiss = {}
              /\ Part(t.items, 0) /\ t.sources \subseteq {t.n}
              /\ Len(t.items) = Len(call.items) + Len(a.items) /\ Len(t.items) <= Len(content)
  <2>1. Proper(a) /\ call.amiss = {}
    BY <1>4, <1>5a
  <2>2. Part(call.items, 0) /\ call.sources \subseteq {call.n}
    BY <1>3, <2>1 DEF Sound
  <2>3. Part(a.items, Len(call.items)) /\ a.n = call.n
    BY <2>1 DEF Proper
  <2>4. /\ Len(call.items \o a.items) = Len(call.items) + Len(a.items)
        /\ Part(call.items \o a.items, 0) /\ Len(call.items \o a.items) <= Len(content)
    BY <1>1, <1>2, <1>3, <2>2, <2>3, PartJoin
  <2> QED BY <1>4, <2>1, <2>2, <2>3, <2>4
<1>5b. Sound(t)
  BY <1>5a DEF Sound
<1>6. /\ d \in Outcome /\ d.n = t.n /\ d.kind = t.kind /\ d.status = 0 /\ d.items = t.items
      /\ d.count = <<0, 0>> /\ d.amiss = t.amiss /\ Sound(d)
  <2>1. 0 \in {-1, 0, 1, 65535} /\ <<0, 0>> \in Nat \X Nat /\ d = Result(t, 0, "none", <<0, 0>>)
        /\ "none" \in Causes
    BY DEF Causes
  <2> HIDE DEF d
  <2>2. t.items \in Seq(Nat) /\ t.amiss \in Amiss
    BY <1>4
  <2> QED BY <1>2, <1>5, <1>5b, <2>1, <2>2, ResultType
<1>7. /\ e \in Outcome /\ e.n = t.n /\ e.kind = t.kind /\ e.status = -1 /\ e.items = t.items
      /\ e.count = <<0, 0>> /\ Sound(e)
  <2>1. -1 \in {-1, 0, 1, 65535} /\ <<0, 0>> \in Nat \X Nat /\ e = Result(t, -1, "io", <<0, 0>>)
        /\ "io" \in Causes
    BY DEF Causes
  <2> HIDE DEF e
  <2>2. t.items \in Seq(Nat) /\ t.amiss \in Amiss
    BY <1>4
  <2> QED BY <1>2, <1>5, <1>5b, <2>1, <2>2, ResultType
<1>8. /\ c.n = t.n /\ c.kind = t.kind /\ c.items = t.items /\ c.amiss = t.amiss
      /\ c.tid = session.tid /\ c \in CallType(Kinds) /\ Sound(c)
  <2>1. /\ c.n = t.n /\ c.kind = t.kind /\ c.items = t.items /\ c.sources = t.sources
        /\ c.amiss = t.amiss /\ c.tid = session.tid /\ c \in CallType(Kinds)
    BY <1>3, <1>4 DEF CallType
  <2> HIDE DEF c
  <2> QED BY <1>5b, <2>1 DEF Sound
<1>9. /\ r \in Asked /\ r.tid = session.tid /\ r.kind = t.kind /\ r.from = a.more
      /\ r.handle = rec.handle /\ r.n = t.n
  <2>1. rec.handle \in Handles \cup {0} /\ a.more \in Nat /\ session.tid \in Nat
        /\ r = Request(session.tid, t.kind, a.more, rec.handle, t.n)
    BY <1>1, <1>2, <1>3, Fields
  <2>2. t.n \in 1..MaxCalls /\ t.kind \in Kinds
    BY <1>5
  <2> QED BY <2>1, <2>2 DEF Request, Asked
<1>9a. t.amiss = {} /\ t.kind \in Searches =>
          (a.more > 0 => a.more = Len(t.items)) /\ (~ a.more > 0 => Len(t.items) = Len(content))
  <2> SUFFICES ASSUME t.amiss = {}, t.kind \in Searches
               PROVE  (a.more > 0 => a.more = Len(t.items)) /\ (~ a.more > 0 => Len(t.items) = Len(content))
    OBVIOUS
  <2>1. /\ a.more = IF Len(call.items) + Len(a.items) = Len(content) THEN 0
                                                     ELSE Len(call.items) + Len(a.items)
        /\ Len(a.items) = 0 => Len(call.items) = Len(content)
    <3>1. Proper(a) /\ call.amiss = {}
      BY <1>5a
    <3>2. a.kind = t.kind
      BY <1>4, <3>1 DEF Proper
    <3> QED BY <3>1, <3>2 DEF Proper, Continues
  <2>2. a.more \in Nat /\ Len(call.items) \in Nat /\ Len(a.items) \in Nat /\ Len(content) \in Nat
    <3>1. content \in Seq(Nat)
      BY <1>2, Fields
    <3> QED BY <1>1, <1>3, <3>1
  <2>3. Len(t.items) = Len(call.items) + Len(a.items) /\ Len(t.items) <= Len(content)
    BY <1>5a
  <2>4. PICK m \in Nat, x \in Nat, y \in Nat, l \in Nat :
           /\ m = a.more /\ x = Len(call.items) /\ y = Len(a.items) /\ l = Len(content)
    BY <2>2
  <2>5. m = (IF x + y = l THEN 0 ELSE x + y) /\ (y = 0 => x = l) /\ x + y <= l /\ Len(t.items) = x + y
    BY <2>1, <2>3, <2>4
  <2>6. (m > 0 => m = x + y) /\ (~ m > 0 => x + y = l)
    BY <2>5, Left
  <2> QED BY <2>4, <2>5, <2>6
<1>10. CASE t.kind = "SVC_SEARCH" /\ a.items = <<>>
  <2>1. CallFails("none") /\ "none" \in Causes
    BY <1>10 DEF TakeAnswer, t, Causes
  <2> QED BY <2>1, <1>2, FailStep
<1>11. CASE ~ (t.kind = "SVC_SEARCH" /\ a.items = <<>>) /\ t.kind \in Searches /\ a.more > 0
  <2>1. /\ SendRequest(t, a.more) /\ session' = sdp_gen_tid(session) /\ rec' = rec
    BY <1>11 DEF TakeAnswer, t
  <2>2. SessionNext(session.tid + 1, session.calls, session.async)
    BY <2>1, <1>2, <1>3, Fields, AfterGenTid DEF SessionNext
  <2>4. session.calls \in session.calls..MaxCalls
    BY <1>3
  <2>5. CASE call' = c /\ asked' = Append(asked, r) /\ UNCHANGED done
    <3>1. CallSends(c, r, session.calls)
      <4> HIDE DEF c, r
      <4>1. Asks(r, c)
        BY <1>8, <1>9, <1>9a, <1>11 DEF Asks
      <4>2. c.kind = call.kind /\ c.kind \in Searches /\ c.n = call.n /\ c.kind \in Kinds
        BY <1>3, <1>4, <1>8, <1>11
      <4> QED BY <1>3, <1>8, <1>9, <2>1, <2>2, <2>4, <2>5, <4>1, <4>2 DEF CallSends
    <3> HIDE DEF c, r
    <3> QED BY <3>1, <1>8, <1>9, <1>3 DEF Step
  <2>6. CASE call' = NoCall /\ done' = Append(done, e) /\ UNCHANGED asked
    <3>1. RecordAfter
      BY <1>4, <1>11, <2>1 DEF RecordAfter, Searches
    <3>2. CallEnds(e, session.tid + 1, session.calls)
      <4> HIDE DEF e
      <4> QED BY <1>2, <1>3, <1>4, <1>7, <2>2, <2>4, <2>6, <3>1 DEF CallEnds, Full
    <3> HIDE DEF e
    <3> QED BY <3>2, <1>7, <1>3 DEF Step
  <2> QED BY <2>1, <2>5, <2>6 DEF SendRequest, Ends
<1>12. CASE ~ (t.kind = "SVC_SEARCH" /\ a.items = <<>>) /\ ~ (t.kind \in Searches /\ a.more > 0)
  <2>1. /\ call' = NoCall /\ done' = Append(done, d) /\ rec' = Registered(t.kind, a, t.amiss)
        /\ UNCHANGED <<session, asked>>
    BY <1>12 DEF TakeAnswer, t, Ends
  <2>2. Full(d)
    <3> HIDE DEF d
    <3> QED BY <1>6, <1>9a, <1>12 DEF Full
  <2>3. RecordAfter
    <3>1. CASE t.kind = "SVC_REGISTER"
      <4>1. rec' = [handle |-> a.handle, sure |-> t.amiss = {}]
        BY <2>1, <3>1 DEF Registered
      <4>2. a.handle \in Handles
        BY <1>4, <3>1 DEF Handles
      <4>3. rec' \in [handle : Handles, sure : BOOLEAN] /\ rec'.handle = a.handle
        BY <4>1, <4>2
      <4>4. CASE t.amiss = {}
        <5>1. asked = <<>> /\ (session.up => a.handle \in records)
          BY <1>4, <1>5a, <3>1, <4>4 DEF Proper
        <5> QED BY <4>3, <5>1 DEF RecordAfter
      <4>5. CASE t.amiss # {}
        <5>1. ~ rec'.sure
          BY <4>1, <4>5
        <5> QED BY <4>3, <5>1 DEF RecordAfter
      <4> QED BY <4>4, <4>5
    <3>2. CASE t.kind = "SVC_REMOVE"
      <4>1. rec' = NewRecord
        BY <2>1, <3>2 DEF Registered
      <4> QED BY <4>1 DEF RecordAfter, NewRecord, Handles
    <3>3. CASE t.kind # "SVC_REGISTER" /\ t.kind # "SVC_REMOVE"
      <4>1. rec' = rec
        BY <2>1, <3>3 DEF Registered
      <4> QED BY <1>4, <4>1, <3>3 DEF RecordAfter
    <3> QED BY <3>1, <3>2, <3>3
  <2>4. /\ SessionNext(session.tid, session.calls, session.async)
        /\ session.calls \in session.calls..MaxCalls /\ session.tid \in {session.tid, session.tid + 1}
    BY <1>2, <1>3, <2>1, SameSession
  <2>5. CallEnds(d, session.tid, session.calls)
    <3> HIDE DEF d
    <3> QED BY <1>2, <1>3, <1>4, <1>6, <2>1, <2>2, <2>3, <2>4 DEF CallEnds
  <2> HIDE DEF d
  <2> QED BY <2>5, <1>6, <1>3 DEF Step
<1> QED BY <1>10, <1>11, <1>12

(* The counts of searches: handles below 256 in all are counted in the second      *)
(* byte, and no sum of two of them is carried.                               *)
LEMMA CountsAdd ==
    ASSUME NEW x \in Nat, NEW y \in Nat, x + y < 256
    PROVE  AddCounts(<<0, x>>, <<0, y>>) = <<0, x + y>>
<1> DEFINE sum == (0 + 0 + 256 * (x + y)) % 65536
<1>1. sum = 256 * (x + y)
  OBVIOUS
<1>2. sum % 256 = 0 /\ sum \div 256 = x + y
  BY <1>1
<1>3. AddCounts(<<0, x>>, <<0, y>>) = <<sum % 256, sum \div 256>>
  BY DEF AddCounts
<1> HIDE DEF sum
<1> QED BY <1>2, <1>3

LEMMA CountsType ==
    /\ \A n \in Nat : CountOf(n) \in Nat \X Nat
    /\ \A p \in Nat \X Nat, q \in Nat \X Nat : AddCounts(p, q) \in Nat \X Nat
<1>1. ASSUME NEW n \in Nat PROVE CountOf(n) \in Nat \X Nat
  <2>1. PICK w \in Nat : w = n * Weight
    BY SdpAssumption
  <2>2. w \div 256 \in Nat /\ w % 256 \in Nat
    OBVIOUS
  <2> QED BY <2>1, <2>2 DEF CountOf
<1>2. ASSUME NEW p \in Nat \X Nat, NEW q \in Nat \X Nat PROVE AddCounts(p, q) \in Nat \X Nat
  <2>1. PICK s \in Nat : s = (p[1] + q[1] + 256 * (p[2] + q[2])) % 65536
    OBVIOUS
  <2>2. s \div 256 \in Nat /\ s % 256 \in Nat
    OBVIOUS
  <2> QED BY <2>1, <2>2 DEF AddCounts
<1> QED BY <1>1, <1>2

LEMMA CountedMore ==
    ASSUME NEW m \in Nat, NEW n \in Nat, NEW p,
           m * Weight < 256 => p = <<0, m * Weight>>, (m + n) * Weight < 256
    PROVE  /\ CountOf(n) = <<0, n * Weight>>
           /\ AddCounts(p, CountOf(n)) = <<0, (m + n) * Weight>>
<1>1. PICK x \in Nat, y \in Nat : x = m * Weight /\ y = n * Weight /\ (m + n) * Weight = x + y
  BY SdpAssumption
<1>2. x < 256 /\ y < 256 /\ x + y < 256
  BY <1>1
<1>3. CountOf(n) = <<0, y>>
  <2>1. y \div 256 = 0 /\ y % 256 = y
    BY <1>2
  <2> QED BY <2>1, <1>1 DEF CountOf
<1>4. p = <<0, x>>
  BY <1>1, <1>2
<1> QED BY <1>1, <1>2, <1>3, <1>4, CountsAdd

(* sdp_read_rsp and sdp_read_rsp_fails. *)
LEMMA ReadStep ==
    ASSUME SInv, sdp_read_rsp
    PROVE  Step
<1>1. call # NoCall /\ answers # <<>> /\ UNCHANGED <<content, records>>
  BY DEF sdp_read_rsp
<1>2. PICK a : a = Head(answers)
  OBVIOUS
<1>3. PICK n \in 0..Len(answers), cut \in BOOLEAN :
         /\ Recv(n, cut)
         /\ \/ CallFails("EPROTO")
            \/ CallFails("refusal")
            \/ /\ TidMatches(call.tid, a) /\ ~ a.error /\ a.kind = call.kind
               /\ TakeAnswer(a, Wrapped(call.tid, a))
            \/ \E b \in Misread(a) : TakeAnswer(b, {"torn"})
  BY <1>2 DEF sdp_read_rsp
<1>4. Shorter
  BY <1>3, RecvShorter DEF SInv
<1>5. /\ a \in Told /\ a.more <= Len(content) /\ a = answers[1] /\ 1 \in DOMAIN answers
      /\ call.tid \in Nat /\ "EPROTO" \in Causes /\ "refusal" \in Causes
      /\ {"torn"} \in Amiss /\ Wrapped(call.tid, a) \in Amiss
  BY <1>1, <1>2, FirstAnswer, Waiting, WrappedType DEF Causes
<1>6. CASE CallFails("EPROTO")
  BY <1>1, <1>4, <1>5, <1>6, FailStep
<1>7. CASE CallFails("refusal")
  BY <1>1, <1>4, <1>5, <1>7, FailStep
<1>8. CASE /\ TidMatches(call.tid, a) /\ ~ a.error /\ a.kind = call.kind
           /\ TakeAnswer(a, Wrapped(call.tid, a))
  <2>1. PICK why \in Amiss : why = Wrapped(call.tid, a)
    BY <1>5
  <2>2. call.kind = "SVC_REGISTER" => a.handle \in 1..MaxCalls
    BY <1>5, <1>8 DEF SInv, RecordInv
  <2>3. call.amiss = {} /\ why = {} => Proper(a)
    <3>1. why = {} => a.tid = call.tid
      BY <1>5, <1>8, <2>1, TheVeryId
    <3> QED BY <1>1, <1>2, <1>8, <3>1, Matching
  <2>4. TakeAnswer(a, why)
    BY <1>8, <2>1
  <2> QED BY <1>1, <1>4, <1>5, <2>2, <2>3, <2>4, TakeStep
<1>9. CASE \E b \in Misread(a) : TakeAnswer(b, {"torn"})
  <2>1. PICK b \in Misread(a) : TakeAnswer(b, {"torn"})
    BY <1>9
  <2>2. b \in Told /\ b.more <= Len(content) /\ b.handle \in 1..MaxCalls
    BY <1>5, MisreadType
  <2>3. {"torn"} # {}
    OBVIOUS
  <2> QED BY <1>1, <1>4, <1>5, <2>1, <2>2, <2>3, TakeStep
<1> QED BY <1>3, <1>6, <1>7, <1>8, <1>9

LEMMA ReadFailsStep ==
    ASSUME SInv, sdp_read_rsp_fails
    PROVE  Step
<1>1. PICK cause \in {"ETIMEDOUT", "io", "EPROTO"} : CallFails(cause)
  BY DEF sdp_read_rsp_fails
<1>2. call # NoCall /\ UNCHANGED <<content, records>> /\ answers' = answers
  BY DEF sdp_read_rsp_fails
<1>3. Shorter /\ cause \in Causes
  BY <1>2, NoneTaken DEF SInv, Causes
<1> QED BY <1>1, <1>2, <1>3, FailStep

LEMMA WithTid ==
    ASSUME NEW t \in AsyncType, NEW tid \in Nat, NEW c, c = [t EXCEPT !.tid = tid]
    PROVE  /\ c \in AsyncType /\ c.tid = tid /\ c.n = t.n /\ c.kind = t.kind /\ c.items = t.items
           /\ c.sources = t.sources /\ c.count = t.count /\ c.amiss = t.amiss
           /\ (Sound(t) => Sound(c)) /\ (Counted(t) => Counted(c))
  BY DEF AsyncType, Sound, Counted

(* s is the session with its calls counted, before its id is taken. *)
Numbered(s) ==
    /\ s \in Session /\ s.open /\ s.tid = session.tid /\ s.calls \in session.calls..MaxCalls
    /\ s.up = session.up

LEMMA WithAsync ==
    ASSUME NEW v \in Session, NEW c \in AsyncType, NEW u, u = [v EXCEPT !.async = c]
    PROVE  /\ u \in Session /\ u.open = v.open /\ u.tid = v.tid /\ u.calls = v.calls /\ u.async = c
           /\ u.up = v.up
  BY DEF Session

(* SendAsync: the next request of t, or the end of it. *)
LEMMA SendAsyncStep ==
    ASSUME SInv, NEW s, Numbered(s),
           NEW t \in AsyncType, NEW from \in Nat, NEW status \in {-1, 65535},
           session.open, call = NoCall, Shorter,
           t.kind \in Searches \cap Kinds, from <= Len(content), t.amiss = {} => from = Len(t.items),
           Sound(t), t.n \in 1..s.calls, Counted(t), Fresh(t.n),
           SendAsync(s, t, from, status),
           UNCHANGED <<call, rec, content, records>>
    PROVE  Step
<1> DEFINE c == [t EXCEPT !.tid = s.tid]
           r == Request(s.tid, t.kind, from, 0, t.n)
           d == Result(t, status, "io", <<0, 0>>)
<1> DEFINE k == s.calls
<1>0. k \in session.calls..MaxCalls /\ t.n \in 1..k /\ s.tid = session.tid /\ s.calls = k
      /\ s \in Session /\ s.open /\ s.up = session.up
  BY DEF Numbered
<1> HIDE DEF k
<1>1. /\ Typed /\ session \in Session /\ session.tid \in Nat /\ s.tid = session.tid
      /\ session.calls \in 0..MaxCalls /\ k \in 0..MaxCalls /\ MaxCalls \in Nat
  BY <1>0, Fields DEF SInv, Session
<1>2. /\ c \in AsyncType /\ c.tid = s.tid /\ c.n = t.n /\ c.kind = t.kind /\ c.items = t.items
      /\ c.amiss = t.amiss /\ Sound(c) /\ Counted(c)
  <2>1. s.tid \in Nat
    BY <1>0, <1>1
  <2>2. PICK tid \in Nat : tid = s.tid
    BY <2>1
  <2>3. c = [t EXCEPT !.tid = tid]
    BY <2>2
  <2> HIDE DEF c
  <2>4. /\ c \in AsyncType /\ c.tid = tid /\ c.n = t.n /\ c.kind = t.kind /\ c.items = t.items
        /\ c.amiss = t.amiss /\ Sound(c) /\ Counted(c)
    BY <2>3, WithTid
  <2> QED BY <2>2, <2>4
<1>3. /\ t.n \in 1..MaxCalls /\ t.kind \in Kinds /\ t.items \in Seq(Nat) /\ t.sources \subseteq 0..MaxCalls
      /\ t.n \in 0..MaxCalls /\ t.amiss \in Amiss
  <2>1. t.n \in 1..MaxCalls
    BY <1>0, <1>1
  <2> QED BY <2>1 DEF AsyncType
<1>4. /\ r \in Asked /\ r.tid = s.tid /\ r.kind = t.kind /\ r.from = from /\ r.n = t.n
  <2>1. s.tid \in Nat
    BY <1>1
  <2> QED BY <1>3, <2>1 DEF Request, Asked
<1>5. /\ d \in Outcome /\ d.n = t.n /\ d.kind = t.kind /\ d.status = status /\ d.items = t.items
      /\ d.count = <<0, 0>> /\ Sound(d)
  <2>1. status \in {-1, 0, 1, 65535} /\ <<0, 0>> \in Nat \X Nat /\ d = Result(t, status, "io", <<0, 0>>)
        /\ "io" \in Causes
    BY DEF Causes
  <2> HIDE DEF d
  <2> QED BY <1>1, <1>3, <2>1, ResultType
<1>6. CASE /\ session' = [sdp_gen_tid(s) EXCEPT !.async = c]
           /\ asked' = Append(asked, r) /\ UNCHANGED done
  <2>1. SessionNext(session.tid + 1, k, c)
    <3> HIDE DEF c
    <3>1. PICK v \in Session : /\ session' = [v EXCEPT !.async = c] /\ v.open = s.open
                             /\ v.tid = s.tid + 1 /\ v.calls = s.calls /\ v.up = s.up
      <4>1. s \in Session
        BY <1>0
      <4> QED BY <4>1, <1>6, AfterGenTid
    <3>2. /\ session' \in Session /\ session'.open = v.open /\ session'.tid = v.tid
          /\ session'.calls = v.calls /\ session'.async = c /\ session'.up = v.up
      BY <1>2, <3>1, WithAsync
    <3>3. session'.open
      <4>1. s.open \in BOOLEAN /\ v.open \in BOOLEAN /\ session'.open \in BOOLEAN
        BY <1>0, <3>2 DEF Session
      <4>2. s.open = TRUE
        BY <4>1, <1>0
      <4> QED BY <4>2, <3>1, <3>2
    <3>4. session'.tid = session.tid + 1 /\ session'.calls = k /\ session'.up = session.up
      BY <1>0, <3>1, <3>2
    <3> QED BY <3>2, <3>3, <3>4 DEF SessionNext
  <2>3. AsyncSends(c, r, k)
    <3> HIDE DEF c, r
    <3>1. Asks(r, c)
      BY <1>0, <1>2, <1>4 DEF Asks
    <3> QED BY <1>0, <1>1, <1>2, <1>4, <1>6, <2>1, <3>1 DEF AsyncSends
  <2> HIDE DEF c, r
  <2> QED BY <2>3, <1>1, <1>2, <1>4 DEF Step
<1>7. CASE /\ session' = [sdp_gen_tid(s) EXCEPT !.async = NoAsync]
           /\ done' = Append(done, d) /\ UNCHANGED asked
  <2>1. SessionNext(session.tid + 1, k, NoAsync)
    <3>1. PICK v \in Session : /\ session' = [v EXCEPT !.async = NoAsync] /\ v.open = s.open
                             /\ v.tid = s.tid + 1 /\ v.calls = s.calls /\ v.up = s.up
      <4>1. s \in Session
        BY <1>0
      <4>2. PICK v : v = sdp_gen_tid(s)
        OBVIOUS
      <4>3. v \in Session /\ v.open = s.open /\ v.tid = s.tid + 1 /\ v.calls = s.calls /\ v.up = s.up
        BY <4>1, <4>2, AfterGenTid
      <4>4. session' = [v EXCEPT !.async = NoAsync]
        BY <1>7, <4>2
      <4> QED BY <4>3, <4>4
    <3>2. /\ session' \in Session /\ session'.open = v.open /\ session'.tid = v.tid
          /\ session'.calls = v.calls /\ session'.async = NoAsync /\ session'.up = v.up
      BY <3>1, NoCallType, WithAsync
    <3>3. session'.open
      <4>1. s.open \in BOOLEAN /\ v.open \in BOOLEAN /\ session'.open \in BOOLEAN
        BY <1>0, <3>2 DEF Session
      <4>2. s.open = TRUE
        BY <4>1, <1>0
      <4> QED BY <4>2, <3>1, <3>2
    <3>4. session'.tid = session.tid + 1 /\ session'.calls = k /\ session'.up = session.up
      BY <1>0, <3>1, <3>2
    <3> QED BY <3>2, <3>3, <3>4 DEF SessionNext
  <2>2. Full(d)
    BY <1>5 DEF Full
  <2>3. AsyncEnds(d, session.tid + 1, k)
    <3> HIDE DEF d
    <3> QED BY <1>0, <1>1, <1>5, <1>7, <2>1, <2>2 DEF AsyncEnds
  <2> HIDE DEF d
  <2>4. session.tid + 1 \in Nat
    BY <1>1
  <2> QED BY <2>3, <2>4, <1>1, <1>5 DEF Step
<1> QED BY <1>6, <1>7 DEF SendAsync, Ends

(* sdp_service_search_async and the two other calls with a callback. *)
LEMMA AsyncStep ==
    ASSUME SInv, NEW kind \in Kinds, sdp_service_async(kind)
    PROVE  Step
<1> DEFINE s == [session EXCEPT !.calls = @ + 1]
           t == [NoAsync EXCEPT !.n = s.calls, !.kind = kind]
<1>1. /\ Typed /\ session \in Session /\ call = NoCall /\ session.open
      /\ session.calls \in 0..MaxCalls /\ session.calls + 1 \in 1..MaxCalls /\ content \in Seq(Nat)
      /\ kind \in Searches \cap Kinds /\ Shorter
      /\ SendAsync(s, t, 0, -1) /\ UNCHANGED <<call, rec, content, records>>
  <2>1. session.calls < MaxCalls
    BY DEF sdp_service_async, MayStart
  <2>2. Shorter
    BY NoneTaken DEF SInv, sdp_service_async
  <2> QED BY <2>1, <2>2, Fields DEF SInv, sdp_service_async, MayStart
<1>2. /\ s \in Session /\ s.calls = session.calls + 1 /\ s.open /\ s.tid = session.tid
      /\ s.calls \in session.calls..MaxCalls /\ s.calls \in 1..s.calls
      /\ s.calls \in 0..MaxCalls /\ s.up = session.up
  <2>1. session.calls + 1 \in 0..MaxCalls
    BY <1>1
  <2>2. s \in Session /\ s.calls = session.calls + 1 /\ s.up = session.up
    BY <1>1, <2>1 DEF Session
  <2> QED BY <2>1, <2>2, <1>1
<1>3. /\ t.n = s.calls /\ t.kind = kind /\ t.items = <<>> /\ t.sources = {} /\ t.count = <<0, 0>>
      /\ t \in AsyncType /\ t.amiss = {}
  <2> HIDE DEF s
  <2> QED BY <1>1, <1>2, NoCallType DEF NoAsync, AsyncType
<1>4. Fresh(s.calls)
  <2> HIDE DEF s
  <2> QED BY <1>1, <1>2 DEF SInv, WholeInv, Answered, Fresh
<1>5. Part(<<>>, 0) /\ Len(<<>>) = 0 /\ 0 * Weight = 0 /\ 0 <= Len(content)
  <2>1. Part(<<>>, 0)
    BY <1>1 DEF Part
  <2>2. Len(content) \in Nat
    BY <1>1
  <2>3. 0 * Weight = 0 /\ Len(<<>>) = 0
    BY SdpAssumption
  <2> QED BY <2>1, <2>2, <2>3
<1> HIDE DEF s, t
<1>6. Counted(t)
  BY <1>3, <1>5 DEF Counted
<1>7. -1 \in {-1, 65535}
  OBVIOUS
<1>9. Numbered(s)
  BY <1>1, <1>2 DEF Numbered, Session
<1>10. /\ t.kind \in Searches \cap Kinds /\ 0 = Len(t.items) /\ 0 <= Len(content) /\ Sound(t)
       /\ t.n \in 1..s.calls /\ Fresh(t.n) /\ t \in AsyncType
  BY <1>1, <1>2, <1>3, <1>4, <1>5 DEF Sound
<1>11. UNCHANGED <<call, rec, content, records>> /\ session.open /\ call = NoCall /\ Shorter
  BY <1>1
<1>12. PICK x, y : x = s /\ y = t
  OBVIOUS
<1>13. SendAsync(x, y, 0, -1)
  BY <1>1, <1>12 DEF SendAsync
<1>14. /\ Numbered(x)
       /\ y \in AsyncType /\ y.kind \in Searches \cap Kinds /\ 0 = Len(y.items) /\ 0 <= Len(content)
       /\ Sound(y) /\ y.n \in 1..x.calls /\ Fresh(y.n) /\ Counted(y)
       /\ 0 \in Nat /\ -1 \in {-1, 65535}
  BY <1>6, <1>7, <1>9, <1>10, <1>12
<1> QED BY <1>11, <1>13, <1>14, SendAsyncStep

(* The answer to the last request of an asynchronous call continues it. *)
LEMMA MatchingAsync ==
    ASSUME SInv, session.async # NoAsync, session.async.amiss = {}, answers # <<>>,
           Head(answers).tid = session.async.tid
    PROVE  /\ Head(answers) \in Told /\ Head(answers).n = session.async.n
           /\ Head(answers).kind = session.async.kind
           /\ Continues(Head(answers), session.async)
           /\ Part(Head(answers).items, Len(session.async.items))
<1>1. 1 \in DOMAIN answers /\ Head(answers) = answers[1] /\ answers[1] \in Told
  BY TailFacts, Fields DEF SInv
<1>2. Continues(answers[1], session.async)
  BY <1>1 DEF SInv, WholeInv, Holds
<1> QED BY <1>1, <1>2 DEF Continues

LEMMA WaitingAsync ==
    ASSUME SInv, session.async # NoAsync, NEW t, t = session.async
    PROVE  /\ session.open /\ t.kind \in Searches \cap Kinds /\ t.n \in 1..session.calls
           /\ t.items \in Seq(Nat) /\ t.n \in 0..MaxCalls
           /\ t.tid \in Nat /\ t.count \in Nat \X Nat /\ t \in AsyncType
           /\ Sound(t) /\ Fresh(t.n) /\ Counted(t)
<1>1. t \in AsyncType /\ session.open /\ t.kind \in Searches \cap Kinds
  BY Fields DEF SInv, Typed
<1>2. Holds(session.async) /\ Counted(session.async)
  BY DEF SInv, WholeInv
<1>3. t.n \in 1..session.calls /\ Sound(t) /\ Fresh(t.n) /\ Counted(t)
  BY <1>2 DEF Holds, Fresh
<1> QED BY <1>1, <1>3 DEF AsyncType

(* CallBack: an asynchronous call ends with what t holds. *)
LEMMA CallBackStep ==
    ASSUME SInv, session.async # NoAsync, call = NoCall, NEW t \in AsyncType, NEW cause \in Causes,
           t.n = session.async.n, t.kind = session.async.kind, Sound(t), Counted(t),
           NEW status \in {-1, 0, 1, 65535},
           status = 0 /\ t.amiss = {} => Len(t.items) = Len(content),
           CallBack(t, status, cause), Shorter, UNCHANGED <<call, rec, content, records>>
    PROVE  Step
<1> DEFINE d == Result(t, status, cause, t.count)
<1>1. PICK c : c = session.async
  OBVIOUS
<1>2. /\ session.open /\ c.kind \in Searches \cap Kinds /\ c.n \in 1..session.calls
      /\ c.n \in 0..MaxCalls /\ Fresh(c.n)
  BY <1>1, WaitingAsync
<1>3. t.n = c.n /\ t.kind = c.kind
  BY <1>1
<1>4. /\ t.n \in 0..MaxCalls /\ t.kind \in Kinds /\ t.items \in Seq(Nat) /\ t.sources \subseteq 0..MaxCalls
      /\ t.count \in Nat \X Nat /\ t.amiss \in Amiss
  BY <1>2, <1>3 DEF AsyncType
<1>5. /\ d \in Outcome /\ d.n = t.n /\ d.kind = t.kind /\ d.status = status /\ d.items = t.items
      /\ d.count = t.count /\ d.amiss = t.amiss /\ Sound(d)
  <2>1. d = Result(t, status, cause, t.count) /\ Typed
    BY DEF SInv
  <2> HIDE DEF d
  <2> QED BY <1>4, <2>1, ResultType
<1>6. /\ done' = Append(done, d) /\ session' = [session EXCEPT !.async = NoAsync] /\ UNCHANGED asked
  BY DEF CallBack
<1>7. SessionNext(session.tid, session.calls, NoAsync)
  <2>1. session \in Session /\ session.open
    BY <1>2, Fields DEF SInv
  <2> QED BY <1>6, <2>1, NoCallType DEF SessionNext, Session
<1>8. Counted(d)
  BY <1>5 DEF Counted
<1>9. session.calls \in session.calls..MaxCalls /\ session.tid \in {session.tid, session.tid + 1}
      /\ session.calls \in 0..MaxCalls /\ session.tid \in Nat
  BY Fields DEF SInv
<1>10. AsyncEnds(d, session.tid, session.calls)
  <2>1. Full(d)
    BY <1>5 DEF Full
  <2>2. d.n \in 1..session.calls /\ Sound(d) /\ Fresh(d.n)
    BY <1>2, <1>3, <1>5
  <2>3. /\ d \in Outcome /\ (d.count # <<0, 0>> => Counted(d)) /\ done' = Append(done, d) /\ session.open
        /\ UNCHANGED <<call, rec, asked, content, records>>
    BY <1>2, <1>5, <1>6, <1>8
  <2> HIDE DEF d
  <2> QED BY <1>7, <1>9, <2>1, <2>2, <2>3 DEF AsyncEnds
<1> HIDE DEF d
<1> QED BY <1>5, <1>9, <1>10 DEF Step

(* What sdp_process has with the parts of an answer ... *)
Joined(t, c, a, why) ==
    /\ t \in AsyncType /\ t.n = c.n /\ t.kind = c.kind /\ t.items = c.items \o a.items
    /\ t.sources = c.sources \cup {a.n} /\ t.amiss = c.amiss \cup why
    /\ t.count = IF c.items = <<>> THEN CountOf(Len(a.items))
                                   ELSE AddCounts(c.count, CountOf(Len(a.items)))

LEMMA ConcatenatedType ==
    ASSUME Typed, NEW c \in AsyncType, NEW a \in Told, NEW why \in Amiss,
           NEW t, t = Concatenated(c, a, why)
    PROVE  Joined(t, c, a, why)
<1> DEFINE count == IF c.items = <<>> THEN CountOf(Len(a.items))
                                      ELSE AddCounts(c.count, CountOf(Len(a.items)))
<1>1. /\ c.items \in Seq(Nat) /\ a.items \in Seq(Nat) /\ c.count \in Nat \X Nat
      /\ c.sources \subseteq 0..MaxCalls /\ a.n \in 0..MaxCalls /\ c.amiss \in Amiss
      /\ Len(a.items) \in Nat
  BY DEF AsyncType, Told
<1>2. count \in Nat \X Nat
  BY <1>1, CountsType
<1>3. PICK items, sources, amiss :
         /\ items = c.items \o a.items /\ sources = c.sources \cup {a.n} /\ amiss = c.amiss \cup why
  OBVIOUS
<1>4. t = [c EXCEPT !.items = items, !.sources = sources, !.amiss = amiss, !.count = count]
  BY <1>3 DEF Concatenated
<1>5. items \in Seq(Nat) /\ sources \subseteq 0..MaxCalls /\ amiss \in Amiss
  <2>1. items \in Seq(Nat)
    BY <1>1, <1>3
  <2>2. sources \subseteq 0..MaxCalls
    BY <1>1, <1>3
  <2>3. amiss \in Amiss
    BY <1>1, <1>3 DEF Amiss
  <2> QED BY <2>1, <2>2, <2>3
<1>6. /\ t \in AsyncType /\ t.n = c.n /\ t.kind = c.kind /\ t.items = items
      /\ t.sources = sources /\ t.count = count /\ t.amiss = amiss
  <2> HIDE DEF count
  <2> QED BY <1>2, <1>4, <1>5 DEF AsyncType
<1> QED BY <1>3, <1>6 DEF Joined

(* ... when they belong together. *)
LEMMA ConcatenatedIs ==
    ASSUME Typed, NEW c \in AsyncType, NEW a \in Told, c.amiss = {},
           Part(c.items, 0), Part(a.items, Len(c.items)), c.sources \subseteq {c.n}, a.n = c.n,
           Counted(c), NEW t, t = Concatenated(c, a, {})
    PROVE  /\ t.sources \subseteq {t.n} /\ Part(t.items, 0) /\ Counted(t)
           /\ Len(t.items) = Len(c.items) + Len(a.items) /\ Len(t.items) <= Len(content)
<1>1. c.items \in Seq(Nat) /\ a.items \in Seq(Nat) /\ Len(c.items) \in Nat /\ Len(a.items) \in Nat
  BY DEF AsyncType, Told
<1>2. /\ Len(c.items \o a.items) = Len(c.items) + Len(a.items)
      /\ Part(c.items \o a.items, 0) /\ Len(c.items \o a.items) <= Len(content)
  BY <1>1, PartJoin
<1>3. PICK why \in Amiss : why = {}
  BY DEF Amiss
<1>3a. t = Concatenated(c, a, why)
  BY <1>3
<1>4. /\ t.n = c.n /\ t.items = c.items \o a.items /\ t.sources = c.sources \cup {a.n}
      /\ t.count = IF c.items = <<>> THEN CountOf(Len(a.items))
                                     ELSE AddCounts(c.count, CountOf(Len(a.items)))
  <2>1. Joined(t, c, a, why)
    BY <1>3a, ConcatenatedType
  <2> QED BY <2>1 DEF Joined
<1>5. Counted(t)
  <2> SUFFICES ASSUME Len(t.items) * Weight < 256
               PROVE  t.count = <<0, Len(t.items) * Weight>>
    BY DEF Counted
  <2>1. PICK m \in Nat, n \in Nat : m = Len(c.items) /\ n = Len(a.items) /\ Len(t.items) = m + n
    BY <1>1, <1>2, <1>4
  <2>2. (m + n) * Weight < 256 /\ (m * Weight < 256 => c.count = <<0, m * Weight>>)
    BY <2>1 DEF Counted
  <2>3. /\ CountOf(n) = <<0, n * Weight>>
        /\ AddCounts(c.count, CountOf(n)) = <<0, (m + n) * Weight>>
    BY <2>2, CountedMore
  <2>4. c.items = <<>> => m = 0
    BY <2>1
  <2>5. m = 0 => (m + n) * Weight = n * Weight
    OBVIOUS
  <2> QED BY <1>4, <2>1, <2>3, <2>4, <2>5
<1> QED BY <1>2, <1>4, <1>5

(* An answer, or what was taken for one, is added to the asynchronous call. *)
LEMMA ProcessTakes ==
    ASSUME SInv, session.async # NoAsync, call = NoCall, NEW c, c = session.async,
           NEW a \in Told, NEW why \in Amiss, Process(a, why), Shorter, a.more <= Len(content),
           c.amiss = {} /\ why = {} => a.tid = c.tid /\ ~ a.error /\ a.n = c.n /\ a.kind = c.kind
                                      /\ Continues(a, c) /\ Part(a.items, Len(c.items)),
           UNCHANGED <<call, rec, content, records>>
    PROVE  Step
<1>1. /\ session.open /\ c \in AsyncType /\ c.kind \in Searches \cap Kinds /\ c.n \in 1..session.calls
      /\ Sound(c) /\ Fresh(c.n) /\ Counted(c) /\ c.items \in Seq(Nat)
  BY WaitingAsync
<1>2. Typed /\ content \in Seq(Nat) /\ a.more \in Nat /\ a.items \in Seq(Nat)
  BY Fields DEF SInv, Told
<1>3. PICK t : t = Concatenated(c, a, why)
  OBVIOUS
<1>4. t \in AsyncType /\ t.n = c.n /\ t.kind = c.kind /\ t.amiss = c.amiss \cup why
  <2>1. Joined(t, c, a, why)
    BY <1>1, <1>2, <1>3, ConcatenatedType
  <2> QED BY <2>1 DEF Joined
<1>5. ASSUME t.amiss = {}
      PROVE  /\ t.sources \subseteq {t.n} /\ Part(t.items, 0) /\ Counted(t)
             /\ (a.more > 0 => a.more = Len(t.items)) /\ (~ a.more > 0 => Len(t.items) = Len(content))
  <2>1. c.amiss = {} /\ why = {}
    BY <1>4, <1>5
  <2>2. /\ a.tid = c.tid /\ ~ a.error /\ a.n = c.n /\ a.kind = c.kind
        /\ Continues(a, c) /\ Part(a.items, Len(c.items)) /\ t = Concatenated(c, a, {})
    BY <1>3, <2>1
  <2>3. Part(c.items, 0) /\ c.sources \subseteq {c.n}
    BY <1>1, <2>1 DEF Sound
  <2>4. /\ t.sources \subseteq {t.n} /\ Part(t.items, 0) /\ Counted(t)
        /\ Len(t.items) = Len(c.items) + Len(a.items) /\ Len(t.items) <= Len(content)
    BY <1>1, <1>2, <2>1, <2>2, <2>3, ConcatenatedIs
  <2>5. /\ a.more = IF Len(c.items) + Len(a.items) = Len(content) THEN 0
                                                        ELSE Len(c.items) + Len(a.items)
        /\ Len(a.items) = 0 => Len(c.items) = Len(content)
    BY <1>1, <2>1, <2>2 DEF Continues
  <2>6. PICK m \in Nat, x \in Nat, y \in Nat, l \in Nat :
           m = a.more /\ x = Len(c.items) /\ y = Len(a.items) /\ l = Len(content)
    BY <1>1, <1>2
  <2>7. m = (IF x + y = l THEN 0 ELSE x + y) /\ (y = 0 => x = l) /\ x + y <= l /\ Len(t.items) = x + y
    BY <2>4, <2>5, <2>6
  <2>8. (m > 0 => m = x + y) /\ (~ m > 0 => x + y = l)
    BY <2>7, Left
  <2> QED BY <2>4, <2>6, <2>7, <2>8
<1>6. Sound(t) /\ Counted(t)
  BY <1>5 DEF Sound, Counted
<1>7. CASE a.kind \notin Searches
  <2>1. CallBack(c, 65535, "EPROTO") /\ "EPROTO" \in Causes /\ 65535 \in {-1, 0, 1, 65535}
    BY <1>7 DEF Process, CallBack, Causes
  <2> QED BY <1>1, <2>1, CallBackStep
<1>8. CASE a.kind \in Searches /\ a.more > 0
  <2>1. SendAsync(session, Concatenated(session.async, a, why), a.more, 65535)
    BY <1>8 DEF Process
  <2>2. PICK s, from : s = session /\ from = a.more
    OBVIOUS
  <2>3. SendAsync(s, t, from, 65535)
    BY <1>3, <2>1, <2>2 DEF SendAsync
  <2>4. Numbered(s)
    BY <1>1, <1>2, <2>2, Fields DEF Numbered
  <2>5. from \in Nat /\ from <= Len(content) /\ (t.amiss = {} => from = Len(t.items))
        /\ t.n \in 1..s.calls /\ Fresh(t.n) /\ t.kind \in Searches \cap Kinds /\ 65535 \in {-1, 65535}
    BY <1>1, <1>2, <1>4, <1>5, <1>8, <2>2
  <2> QED BY <1>1, <1>4, <1>6, <2>3, <2>4, <2>5, SendAsyncStep
<1>9. CASE a.kind \in Searches /\ ~ a.more > 0
  <2>1. CallBack(Concatenated(session.async, a, why), 0, "none")
    BY <1>9 DEF Process
  <2>2. CallBack(t, 0, "none") /\ "none" \in Causes /\ 0 \in {-1, 0, 1, 65535}
    BY <1>3, <2>1 DEF CallBack, Causes
  <2>3. t.n = session.async.n /\ t.kind = session.async.kind /\ (t.amiss = {} => Len(t.items) = Len(content))
    BY <1>4, <1>5, <1>9
  <2> QED BY <1>4, <1>6, <2>2, <2>3, CallBackStep
<1> QED BY <1>7, <1>8, <1>9

(* The end of an asynchronous call that keeps what it has. *)
LEMMA GivesUpStep ==
    ASSUME SInv, session.async # NoAsync, call = NoCall, NEW cause \in Causes, NEW status \in {1, 65535},
           CallBack(session.async, status, cause), Shorter, UNCHANGED <<call, rec, content, records>>
    PROVE  Step
<1>1. PICK c : c = session.async
  OBVIOUS
<1>2. c \in AsyncType /\ Sound(c) /\ Counted(c)
  BY <1>1, WaitingAsync
<1>3. CallBack(c, status, cause) /\ status \in {-1, 0, 1, 65535} /\ status # 0
  BY <1>1 DEF CallBack
<1> QED BY <1>1, <1>2, <1>3, CallBackStep

LEMMA ProcessStep ==
    ASSUME SInv, sdp_process
    PROVE  Step
<1>1. /\ session.async # NoAsync /\ call = NoCall /\ answers # <<>>
      /\ UNCHANGED <<call, rec, content, records>>
  BY DEF sdp_process
<1>2. PICK a, c : a = Head(answers) /\ c = session.async
  OBVIOUS
<1>3. PICK n \in 0..Len(answers), cut \in BOOLEAN :
         /\ Recv(n, cut)
         /\ \/ CallBack(session.async, 65535, "EPROTO")
            \/ CallBack(session.async, 1, "refusal")
            \/ TidMatches(c.tid, a) /\ ~ a.error /\ Process(a, Wrapped(c.tid, a))
            \/ \E b \in Misread(a) : Process(b, {"torn"})
  BY <1>2 DEF sdp_process
<1>4. Shorter
  BY <1>3, RecvShorter DEF SInv
<1>5. /\ a \in Told /\ a.more <= Len(content) /\ c \in AsyncType /\ c.tid \in Nat
      /\ "EPROTO" \in Causes /\ "refusal" \in Causes /\ 1 \in {1, 65535} /\ 65535 \in {1, 65535}
      /\ {"torn"} \in Amiss /\ Wrapped(c.tid, a) \in Amiss
  BY <1>1, <1>2, FirstAnswer, WaitingAsync, WrappedType DEF Causes
<1>6. CASE CallBack(session.async, 65535, "EPROTO")
  BY <1>1, <1>4, <1>5, <1>6, GivesUpStep
<1>7. CASE CallBack(session.async, 1, "refusal")
  BY <1>1, <1>4, <1>5, <1>7, GivesUpStep
<1>8. CASE TidMatches(c.tid, a) /\ ~ a.error /\ Process(a, Wrapped(c.tid, a))
  <2>1. PICK why \in Amiss : why = Wrapped(c.tid, a)
    BY <1>5
  <2>2. ASSUME c.amiss = {}, why = {}
        PROVE  /\ a.tid = c.tid /\ ~ a.error /\ a.n = c.n /\ a.kind = c.kind
               /\ Continues(a, c) /\ Part(a.items, Len(c.items))
    <3>1. a.tid = c.tid
      <4>1. a \in Told /\ c.tid \in Nat /\ TidMatches(c.tid, a) /\ Wrapped(c.tid, a) = {}
        BY <1>5, <1>8, <2>1, <2>2
      <4> QED BY <4>1, TheVeryId
    <3> QED BY <1>1, <1>2, <1>8, <2>2, <3>1, MatchingAsync
  <2>3. Process(a, why)
    BY <1>8, <2>1
  <2> QED BY <1>1, <1>2, <1>4, <1>5, <2>2, <2>3, ProcessTakes
<1>9. CASE \E b \in Misread(a) : Process(b, {"torn"})
  <2>1. PICK b \in Misread(a) : Process(b, {"torn"})
    BY <1>9
  <2>2. b \in Told /\ b.more <= Len(content)
    BY <1>5, MisreadType
  <2>3. {"torn"} # {}
    OBVIOUS
  <2> QED BY <1>1, <1>2, <1>4, <1>5, <2>1, <2>2, <2>3, ProcessTakes
<1> QED BY <1>3, <1>6, <1>7, <1>8, <1>9

LEMMA ProcessFailsStep ==
    ASSUME SInv, sdp_process_fails
    PROVE  Step
<1>1. PICK cause \in {"ETIMEDOUT", "io", "EPROTO"} : CallBack(session.async, 65535, cause)
  BY DEF sdp_process_fails
<1>2. /\ session.async # NoAsync /\ call = NoCall /\ UNCHANGED <<call, rec, content, records>>
      /\ answers' = answers
  BY DEF sdp_process_fails
<1>3. Shorter /\ cause \in Causes /\ 65535 \in {1, 65535}
  BY <1>2, NoneTaken DEF SInv, Causes
<1> QED BY <1>1, <1>2, <1>3, GivesUpStep

LEMMA HeadAsked ==
    ASSUME SInv, asked # <<>>, NEW r, r = Head(asked)
    PROVE  /\ r \in Asked /\ r.from \in Nat /\ r.from <= Len(content) /\ Len(content) \in Nat
           /\ r.kind \in Searches \cup Registrations
           /\ r.kind = "SVC_REGISTER" => r.handle # 0
           /\ r.n \in 1..MaxCalls /\ r.handle \in Handles \cup {0}
<1>1. 1 \in DOMAIN asked /\ r = asked[1] /\ r \in Asked
  BY TailFacts, Fields DEF SInv
<1>2. r.from <= Len(content) /\ (r.kind = "SVC_REGISTER" => r.handle # 0)
  BY <1>1 DEF SInv, WholeInv, RecordInv
<1>3. r.from \in Nat /\ r.kind \in Searches \cup Registrations /\ r.n \in 1..MaxCalls
      /\ r.handle \in Handles \cup {0}
  BY <1>1, SdpAssumption DEF Asked
<1> QED BY <1>1, <1>2, <1>3, Fields DEF SInv

(* An answer that carries nothing: of a registration, or an error. *)
LEMMA EmptyAnswer ==
    ASSUME SInv, asked # <<>>, NEW r, r = Head(asked), NEW handle \in Handles \cup {0}, NEW error \in BOOLEAN,
           Replies(Answer(r, <<>>, 0, handle, error)), r.kind \in Registrations \/ error,
           records' \subseteq Nat, records \subseteq records' \/ r.kind = "SVC_REMOVE",
           r.kind = "SVC_REGISTER" /\ ~ error => handle \in 1..MaxCalls /\ handle \in records'
    PROVE  Step
<1>1. PICK a : a = Answer(r, <<>>, 0, handle, error)
  OBVIOUS
<1>2. r \in Asked /\ r.from \in Nat /\ r.from <= Len(content)
  BY HeadAsked
<1>3. /\ a \in Told /\ a.tid = r.tid /\ a.n = r.n /\ a.kind = r.kind /\ a.items = <<>>
      /\ a.more = 0 /\ a.handle = handle /\ a.error = error /\ 0 <= Len(content)
  <2>1. <<>> \in Seq(Nat) /\ 0 \in Nat /\ FALSE \in BOOLEAN /\ 0 <= Len(content)
    BY HeadAsked
  <2> QED BY <1>1, <1>2, <2>1 DEF Answer, Asked, Told
<1>4. Part(<<>>, r.from)
  BY <1>2, Fields DEF SInv, Part
<1>5. /\ asked' = Tail(asked) /\ answers' = Append(answers, a)
      /\ UNCHANGED <<session, call, rec, content, done>>
  BY <1>1 DEF Replies
<1>6. a.kind \in Searches => a.error
  BY <1>3 DEF Searches, Registrations
<1>7. Serves(r, a)
  BY <1>3, <1>4, <1>5, <1>6 DEF Serves
<1> QED BY <1>2, <1>3, <1>7 DEF Step

LEMMA FindsStep ==
    ASSUME SInv, ServerFinds
    PROVE  Step
<1>1. asked # <<>> /\ Head(asked).kind \in Searches /\ records' = records
  BY DEF ServerFinds
<1>2. PICK r, left : r = Head(asked) /\ left = Len(content) - r.from
  OBVIOUS
<1>3. /\ r \in Asked /\ r.from \in Nat /\ r.from <= Len(content) /\ Len(content) \in Nat
  BY <1>1, <1>2, HeadAsked
<1>4. left \in Nat
  BY <1>2, <1>3
<1>5. PICK n \in (IF left = 0 THEN {0} ELSE 1..left) :
         Replies(Answer(r, SubSeq(content, r.from + 1, r.from + n),
                        IF n < left THEN r.from + n ELSE 0, 0, FALSE))
  <2>1. left = Len(content) - Head(asked).from
    BY <1>2
  <2> QED BY <1>2, <2>1 DEF ServerFinds, Replies
<1>6. n \in Nat /\ n <= left /\ (n = 0 => left = 0)
  BY <1>4, <1>5
<1>7. PICK items, more : /\ items = SubSeq(content, r.from + 1, r.from + n)
                         /\ more = IF n < left THEN r.from + n ELSE 0
  OBVIOUS
<1>8. items \in Seq(Nat) /\ Len(items) = n /\ \A i \in 1..n : items[i] = content[r.from + i]
  <2>1. content \in Seq(Nat) /\ r.from + n <= Len(content)
    BY <1>2, <1>3, <1>4, <1>6, Fields DEF SInv
  <2>2. r.from + 1 \in Int /\ r.from + n \in Int /\ r.from + n - (r.from + 1) + 1 = n
        /\ 1 <= r.from + 1
    BY <1>3, <1>6
  <2>3. PICK lo \in Int, hi \in Int : /\ items = SubSeq(content, lo, hi)
                                      /\ lo = r.from + 1 /\ hi = r.from + n
    BY <1>7, <2>2
  <2>4. 1 <= lo /\ hi <= Len(content) /\ hi - lo + 1 = n /\ (lo <= hi <=> n > 0)
    <3>1. PICK f \in Nat : f = r.from /\ f + n <= Len(content) /\ lo = f + 1 /\ hi = f + n
      BY <1>3, <2>1, <2>3
    <3>2. n \in Nat /\ Len(content) \in Nat
      BY <1>3, <1>6
    <3> QED BY <3>1, <3>2
  <2>5. \A i \in lo..hi : content[i] \in Nat
    BY <2>1, <2>4
  <2>6. /\ items \in Seq(Nat) /\ Len(items) = IF lo <= hi THEN hi - lo + 1 ELSE 0
        /\ \A i \in 1..(hi - lo + 1) : items[i] = content[lo + i - 1]
    BY <2>3, <2>5, SubSeqProperties
  <2>7. ASSUME NEW i \in 1..n PROVE lo + i - 1 = r.from + i
    BY <1>3, <2>3
  <2> QED BY <1>6, <2>4, <2>6, <2>7
<1>9. Part(items, r.from)
  BY <1>2, <1>3, <1>6, <1>8 DEF Part
<1>10. /\ more \in Nat /\ more = IF r.from + n = Len(content) THEN 0 ELSE r.from + n
       /\ (n = 0 => r.from = Len(content)) /\ more <= Len(content)
  <2>1. PICK f \in Nat, l \in Nat : f = r.from /\ l = Len(content) /\ f <= l /\ left = l - f
    BY <1>2, <1>3
  <2>2. more = IF n < left THEN f + n ELSE 0
    BY <1>7, <2>1
  <2>3. /\ more \in Nat /\ more = (IF f + n = l THEN 0 ELSE f + n)
        /\ (n = 0 => f = l) /\ more <= l
    BY <1>6, <2>1, <2>2
  <2> QED BY <2>1, <2>3
<1>11. PICK a : a = Answer(r, items, more, 0, FALSE)
  OBVIOUS
<1>12. /\ a \in Told /\ a.tid = r.tid /\ a.n = r.n /\ a.kind = r.kind /\ a.items = items
       /\ a.more = more /\ a.handle = 0 /\ ~ a.error
  <2>1. 0 \in Handles \cup {0} /\ FALSE \in BOOLEAN
    OBVIOUS
  <2>2. items \in Seq(Nat) /\ more \in Nat
    BY <1>8, <1>10
  <2> QED BY <1>3, <1>11, <2>1, <2>2 DEF Answer, Asked, Told
<1>13. /\ asked' = Tail(asked) /\ answers' = Append(answers, a)
       /\ UNCHANGED <<session, call, rec, content, done>>
  BY <1>5, <1>7, <1>11 DEF Replies
<1>14. a.kind \notin Registrations
  BY <1>1, <1>2, <1>12 DEF Searches, Registrations
<1>15. Serves(r, a)
  <2>1. records \subseteq records' /\ records' \subseteq Nat
    BY <1>1, Fields DEF SInv
  <2>2. /\ a.more = IF r.from + Len(a.items) = Len(content) THEN 0 ELSE r.from + Len(a.items)
        /\ (Len(a.items) = 0 => r.from = Len(content)) /\ a.more <= Len(content)
    BY <1>8, <1>10, <1>12
  <2>3. a.kind \in Searches /\ a.kind # "SVC_REGISTER"
    BY <1>1, <1>2, <1>12, <1>14 DEF Registrations
  <2>4. Part(a.items, r.from)
    BY <1>9, <1>12
  <2> QED BY <1>1, <1>2, <1>12, <1>13, <2>1, <2>2, <2>3, <2>4 DEF Serves
<1> QED BY <1>3, <1>12, <1>15 DEF Step

LEMMA RegistersStep ==
    ASSUME SInv, ServerRegisters
    PROVE  Step
<1>1. asked # <<>> /\ Head(asked).kind \in Registrations
  BY DEF ServerRegisters
<1>2. PICK r : r = Head(asked)
  OBVIOUS
<1>3. /\ r.kind \in Registrations /\ (r.kind = "SVC_REGISTER" => r.handle # 0) /\ r.n \in 1..MaxCalls
      /\ r.handle \in Handles \cup {0} /\ records \subseteq Nat
  BY <1>1, <1>2, HeadAsked, Fields DEF SInv
<1>4. CASE r.kind = "SVC_REGISTER"
  <2>1. PICK handle \in {r.n, r.handle} \ {NoHandle} :
           /\ Replies(Answer(r, <<>>, 0, handle, FALSE)) /\ records' = records \cup {handle}
    BY <1>2, <1>4 DEF ServerRegisters, Replies
  <2>2. handle \in 1..MaxCalls /\ handle \in Handles \cup {0} /\ handle \in Nat
    BY <1>3, <1>4 DEF Handles
  <2>3. records' \subseteq Nat /\ records \subseteq records' /\ handle \in records' /\ FALSE \in BOOLEAN
    BY <1>3, <2>1, <2>2
  <2> QED BY <1>1, <1>2, <1>3, <2>1, <2>2, <2>3, EmptyAnswer
<1>5. CASE r.kind = "SVC_REMOVE"
  <2>1. PICK error \in BOOLEAN :
           /\ Replies(Answer(r, <<>>, 0, 0, error)) /\ records' = records \ {r.handle}
    BY <1>2, <1>5 DEF ServerRegisters, Replies
  <2>2. records' \subseteq Nat /\ 0 \in Handles \cup {0}
    BY <1>3, <2>1
  <2> QED BY <1>1, <1>2, <1>3, <1>5, <2>1, <2>2, EmptyAnswer
<1>6. CASE r.kind = "SVC_UPDATE"
  <2>1. PICK error \in BOOLEAN : Replies(Answer(r, <<>>, 0, 0, error)) /\ records' = records
    BY <1>2, <1>6 DEF ServerRegisters, Replies
  <2>2. records' \subseteq Nat /\ 0 \in Handles \cup {0} /\ records \subseteq records'
    BY <1>3, <2>1
  <2> QED BY <1>1, <1>2, <1>3, <1>6, <2>1, <2>2, EmptyAnswer
<1> QED BY <1>3, <1>4, <1>5, <1>6 DEF Registrations

LEMMA RefusesStep ==
    ASSUME SInv, ServerRefuses
    PROVE  Step
<1>1. asked # <<>> /\ records' = records
  BY DEF ServerRefuses
<1>2. PICK r : r = Head(asked)
  OBVIOUS
<1>3. Replies(Answer(r, <<>>, 0, 0, TRUE))
  BY <1>2 DEF ServerRefuses, Replies
<1>4. records' \subseteq Nat /\ 0 \in Handles \cup {0} /\ records \subseteq records' /\ TRUE \in BOOLEAN
  BY <1>1, Fields DEF SInv
<1> QED BY <1>1, <1>2, <1>3, <1>4, EmptyAnswer

(* Every step has one of the eight forms. *)
LEMMA EveryStep ==
    ASSUME SInv, Next
    PROVE  Step
<1>1. ASSUME NEW local \in BOOLEAN, sdp_connect(local) PROVE Step
  <2>1. /\ ~ session.open /\ session' = [session EXCEPT !.open = TRUE, !.local = local]
        /\ UNCHANGED <<call, rec, asked, answers, content, records, done>> /\ session \in Session
    BY <1>1, Fields DEF sdp_connect, SInv
  <2>2. SessionNext(session.tid, session.calls, session.async)
    BY <2>1 DEF SessionNext, Session
  <2> QED BY <2>1, <2>2 DEF Step, Opens
<1>2. ASSUME sdp_close PROVE Step
  BY <1>2 DEF sdp_close, Step, Closes
<1>3. CASE \E kind \in Kinds : sdp_request(kind) \/ sdp_service_async(kind)
  BY <1>3, RequestStep, AsyncStep
<1>4. CASE Waits
  BY <1>4, ReadStep, ReadFailsStep DEF Waits
<1>5. CASE sdp_process \/ sdp_process_fails
  BY <1>5, ProcessStep, ProcessFailsStep
<1>6. CASE Server
  <2>1. ServerGoes => Goes
    BY DEF ServerGoes, Goes
  <2> QED BY <1>6, <2>1, FindsStep, RegistersStep, RefusesStep DEF Server, Step
<1> QED BY <1>1, <1>2, <1>3, <1>4, <1>5, <1>6 DEF Next

----------------------------------------------------------------------------
(* What the queues of messages become.                                       *)

LEMMA AskedMore ==
    ASSUME Typed, NEW r \in Asked, asked' = Append(asked, r)
    PROVE  /\ asked' \in Seq(Asked)
           /\ \A i \in DOMAIN asked' :
                 \/ i \in DOMAIN asked /\ i <= Len(asked) /\ asked'[i] = asked[i]
                 \/ i = Len(asked) + 1 /\ asked'[i] = r
<1>1. asked \in Seq(Asked)
  BY Fields
<1> QED BY <1>1, AppendFacts

LEMMA DoneMore ==
    ASSUME Typed, NEW d \in Outcome, done' = Append(done, d)
    PROVE  /\ done' \in Seq(Outcome)
           /\ \A i \in DOMAIN done' :
                 \/ i \in DOMAIN done /\ i # Len(done) + 1 /\ done'[i] = done[i]
                 \/ i = Len(done) + 1 /\ done'[i] = d
<1>1. done \in Seq(Outcome)
  BY Fields
<1> QED BY <1>1, AppendFacts

LEMMA Answering ==
    ASSUME SInv, NEW r \in Asked, NEW a \in Told, Serves(r, a)
    PROVE  /\ asked' \in Seq(Asked) /\ answers' \in Seq(Told)
           /\ 1 \in DOMAIN asked /\ r = asked[1]
           /\ \A i \in DOMAIN asked' : i \in Nat /\ i > 0 /\ i + 1 \in DOMAIN asked /\ asked'[i] = asked[i + 1]
           /\ \A i \in DOMAIN answers' :
                 \/ i \in DOMAIN answers /\ i <= Len(answers) /\ answers'[i] = answers[i]
                 \/ i = Len(answers) + 1 /\ answers'[i] = a
<1>1. asked \in Seq(Asked) /\ answers \in Seq(Told)
  BY Fields DEF SInv
<1>2. asked # <<>> /\ r = Head(asked) /\ asked' = Tail(asked) /\ answers' = Append(answers, a)
  BY DEF Serves
<1>3. \A i \in DOMAIN Tail(asked) : i > 0
  BY <1>1, <1>2
<1> QED BY <1>1, <1>2, <1>3, TailFacts, AppendFacts

----------------------------------------------------------------------------
(* The types.                                                               *)

(* Each form keeps the types. *)
LEMMA TypedKept ==
    ASSUME SInv, Step
    PROVE  Typed'
<1> USE DEF SInv
<1>1. ASSUME NEW c \in CallType(Kinds), NEW r \in Asked, NEW k \in 0..MaxCalls, CallSends(c, r, k)
      PROVE  Typed'
  <2>1. /\ c.kind \in Kinds /\ SessionNext(session.tid + 1, k, session.async) /\ call' = c
        /\ asked' = Append(asked, r) /\ Shorter /\ UNCHANGED <<rec, content, records, done>>
    BY <1>1 DEF CallSends
  <2>2. asked' \in Seq(Asked) /\ answers' \in Seq(Told)
    BY <2>1, AskedMore DEF Shorter
  <2> QED BY <2>1, <2>2, Fields DEF Typed, SessionNext
<1>2. ASSUME NEW d \in Outcome, NEW t \in Nat, NEW k \in 0..MaxCalls, CallEnds(d, t, k)
      PROVE  Typed'
  <2>1. /\ SessionNext(t, k, session.async) /\ call' = NoCall
        /\ done' = Append(done, d) /\ Shorter /\ RecordAfter /\ UNCHANGED <<asked, content, records>>
    BY <1>2 DEF CallEnds
  <2>2. done' \in Seq(Outcome) /\ answers' \in Seq(Told)
    BY <2>1, DoneMore DEF Shorter
  <2>3. rec' \in [handle : Handles, sure : BOOLEAN]
    BY <2>1, Fields DEF RecordAfter
  <2> QED BY <2>1, <2>2, <2>3, Fields, NoCallType DEF Typed, SessionNext
<1>3. ASSUME NEW c \in AsyncType, NEW r \in Asked, NEW k \in 0..MaxCalls, AsyncSends(c, r, k)
      PROVE  Typed'
  <2>1. /\ c.kind \in Searches \cap Kinds /\ SessionNext(session.tid + 1, k, c) /\ call = NoCall
        /\ asked' = Append(asked, r) /\ Shorter /\ UNCHANGED <<call, rec, content, records, done>>
    BY <1>3 DEF AsyncSends
  <2>2. asked' \in Seq(Asked) /\ answers' \in Seq(Told)
    BY <2>1, AskedMore DEF Shorter
  <2> QED BY <2>1, <2>2, Fields DEF Typed, SessionNext
<1>4. ASSUME NEW d \in Outcome, NEW t \in Nat, NEW k \in 0..MaxCalls, AsyncEnds(d, t, k)
      PROVE  Typed'
  <2>1. /\ SessionNext(t, k, NoAsync) /\ call = NoCall
        /\ done' = Append(done, d) /\ Shorter /\ UNCHANGED <<call, rec, asked, content, records>>
    BY <1>4 DEF AsyncEnds
  <2>2. done' \in Seq(Outcome) /\ answers' \in Seq(Told)
    BY <2>1, DoneMore DEF Shorter
  <2> QED BY <2>1, <2>2, Fields DEF Typed, SessionNext
<1>5. ASSUME NEW r \in Asked, NEW a \in Told, Serves(r, a)
      PROVE  Typed'
  <2>1. /\ records' \subseteq Nat /\ UNCHANGED <<session, call, rec, content, done>>
    BY <1>5 DEF Serves
  <2>2. asked' \in Seq(Asked) /\ answers' \in Seq(Told)
    BY <1>5, Answering
  <2> QED BY <2>1, <2>2, Fields DEF Typed
<1>6. CASE Opens
  BY <1>6, Fields DEF Typed, Opens, SessionNext
<1>7. CASE Closes
  <2>1. /\ call = NoCall /\ session' = Closed(session) /\ asked' = <<>> /\ answers' = <<>>
        /\ UNCHANGED <<call, rec, content, records, done>> /\ session \in Session /\ MaxCalls \in 0..MaxCalls
    BY <1>7, Fields DEF Closes
  <2>2. session' \in Session /\ ~ session'.open /\ session'.async = NoAsync
    BY <2>1, NoCallType DEF Closed, Session
  <2> QED BY <2>1, <2>2, Fields DEF Typed
<1>8. CASE Goes
  <2>1. /\ session' = [session EXCEPT !.up = FALSE] /\ asked' = <<>> /\ records' = {}
        /\ UNCHANGED <<call, rec, answers, content, done>> /\ session \in Session
    BY <1>8, Fields DEF Goes
  <2>2. session' \in Session /\ session'.open = session.open /\ session'.async = session.async
    BY <2>1 DEF Session
  <2> QED BY <2>1, <2>2, Fields DEF Typed
<1> QED BY <1>1, <1>2, <1>3, <1>4, <1>5, <1>6, <1>7, <1>8 DEF Step

----------------------------------------------------------------------------
(* The order of transaction ids.                                             *)

(* Ordered of the messages, with next as the next id. *)
Queued(ps, rs, next) ==
    /\ \A i \in DOMAIN ps, j \in DOMAIN ps : i < j => ps[i].tid < ps[j].tid
    /\ \A i \in DOMAIN rs, j \in DOMAIN rs : i < j => rs[i].tid < rs[j].tid
    /\ \A i \in DOMAIN ps, j \in DOMAIN rs : ps[i].tid < rs[j].tid
    /\ \A i \in DOMAIN ps : ps[i].tid < next
    /\ \A i \in DOMAIN rs : rs[i].tid < next

(* An answer taken from the front leaves the rest in order ... *)
LEMMA QueuedFewer ==
    ASSUME NEW ps, NEW bs, NEW rs, NEW next, NEW k \in Nat, Queued(ps, rs, next),
           \A i \in DOMAIN bs : i \in Nat /\ i + k \in DOMAIN ps /\ Same(bs[i], ps[i + k])
    PROVE  Queued(bs, rs, next)
<1>1. ASSUME NEW i \in DOMAIN bs, NEW j \in DOMAIN bs, i < j PROVE bs[i].tid < bs[j].tid
  <2>1. i \in Nat /\ j \in Nat
    OBVIOUS
  <2>2. i + k < j + k
    BY <1>1, <2>1
  <2>3. /\ i + k \in DOMAIN ps /\ j + k \in DOMAIN ps
        /\ bs[i].tid = ps[i + k].tid /\ bs[j].tid = ps[j + k].tid
    BY DEF Same
  <2> QED BY <2>2, <2>3 DEF Queued
<1>2. ASSUME NEW i \in DOMAIN bs PROVE i + k \in DOMAIN ps /\ bs[i].tid = ps[i + k].tid
  BY DEF Same
<1> QED BY <1>1, <1>2 DEF Queued

(* s has at most n elements, and all have ids. *)
HasIds(s, n) == \A i \in DOMAIN s : i \in 1..n /\ s[i].tid \in Nat

LEMMA AllIds ==
    ASSUME NEW S, NEW s \in Seq(S), \A x \in S : x.tid \in Nat
    PROVE  HasIds(s, Len(s)) /\ Len(s) \in Nat
<1>1. ASSUME NEW i \in DOMAIN s PROVE i \in 1..Len(s) /\ s[i].tid \in Nat
  <2>1. s[i] \in S /\ i \in 1..Len(s)
    OBVIOUS
  <2> QED BY <2>1
<1> QED BY <1>1 DEF HasIds

LEMMA Less ==
    ASSUME NEW x \in Nat, NEW y \in Nat, NEW z \in Nat, x < y, y <= z
    PROVE  x < z
  OBVIOUS

(* ... so does an id that is given and never sent ... *)
LEMMA QueuedLater ==
    ASSUME NEW ps, NEW rs, NEW m \in Nat, NEW n \in Nat, HasIds(ps, m), HasIds(rs, n), NEW next \in Nat, NEW later \in Nat,
           Queued(ps, rs, next), next <= later
    PROVE  Queued(ps, rs, later)
<1>1. ASSUME NEW i \in DOMAIN ps PROVE ps[i].tid < later
  <2>1. ps[i].tid \in Nat /\ ps[i].tid < next
    BY DEF HasIds, Queued
  <2> QED BY <2>1, Less
<1>2. ASSUME NEW i \in DOMAIN rs PROVE rs[i].tid < later
  <2>1. rs[i].tid \in Nat /\ rs[i].tid < next
    BY DEF HasIds, Queued
  <2> QED BY <2>1, Less
<1> QED BY <1>1, <1>2 DEF Queued

(* ... and a request with the next id. *)
LEMMA QueuedMore ==
    ASSUME NEW ps, NEW rs, NEW m \in Nat, NEW n \in Nat, HasIds(ps, m), HasIds(rs, n), NEW next \in Nat, Queued(ps, rs, next),
           NEW qs, NEW r, r.tid = next,
           \A i \in DOMAIN qs :
              (i \in DOMAIN rs /\ i <= n /\ qs[i] = rs[i]) \/ (i = n + 1 /\ qs[i] = r)
    PROVE  Queued(ps, qs, next + 1)
<1>0. next <= next + 1 /\ next < next + 1 /\ next + 1 \in Nat
  OBVIOUS
<1>1. ASSUME NEW i \in DOMAIN ps PROVE ps[i].tid < next /\ ps[i].tid < next + 1
  <2>1. ps[i].tid \in Nat /\ ps[i].tid < next
    BY DEF HasIds, Queued
  <2> QED BY <1>0, <2>1, Less
<1>2. ASSUME NEW i \in DOMAIN rs PROVE i \in 1..n /\ rs[i].tid < next /\ rs[i].tid < next + 1
  <2>1. i \in 1..n /\ rs[i].tid \in Nat /\ rs[i].tid < next
    BY DEF HasIds, Queued
  <2> QED BY <1>0, <2>1, Less
<1>3. ASSUME NEW i \in DOMAIN qs, NEW j \in DOMAIN qs, i < j PROVE qs[i].tid < qs[j].tid
  <2>1. i \in DOMAIN rs /\ qs[i] = rs[i]
    <3>1. j \in DOMAIN rs => j \in 1..n
      BY <1>2
    <3>2. CASE j \in DOMAIN rs
      BY <1>3, <3>1, <3>2
    <3>3. CASE j = n + 1
      BY <1>3, <3>1, <3>3
    <3> QED BY <3>2, <3>3
  <2>2. CASE j \in DOMAIN rs /\ qs[j] = rs[j]
    BY <1>3, <2>1, <2>2 DEF Queued
  <2>3. CASE qs[j] = r
    BY <1>2, <2>1, <2>3
  <2> QED BY <2>2, <2>3
<1>4. ASSUME NEW j \in DOMAIN qs PROVE qs[j].tid < next + 1
  <2>1. CASE j \in DOMAIN rs /\ qs[j] = rs[j]
    BY <1>2, <2>1
  <2>2. CASE qs[j] = r
    BY <1>0, <2>2
  <2> QED BY <2>1, <2>2
<1>5. ASSUME NEW j \in DOMAIN qs, NEW i \in DOMAIN ps PROVE ps[i].tid < qs[j].tid
  <2>1. CASE j \in DOMAIN rs /\ qs[j] = rs[j]
    BY <2>1 DEF Queued
  <2>2. CASE qs[j] = r
    BY <1>1, <2>2
  <2> QED BY <2>1, <2>2
<1>6. \A i \in DOMAIN ps, j \in DOMAIN ps : i < j => ps[i].tid < ps[j].tid
  BY DEF Queued
<1> QED BY <1>1, <1>3, <1>4, <1>5, <1>6 DEF Queued

LEMMA NotLast ==
    ASSUME NEW m \in Nat, NEW i, NEW j, j \in 1..m \/ j = m + 1, i < j
    PROVE  i # m + 1
  OBVIOUS

(* The first request becomes the last answer. *)
LEMMA QueuedAnswer ==
    ASSUME NEW ps, NEW rs, NEW m \in Nat, NEW n \in Nat, HasIds(ps, m), HasIds(rs, n), NEW next \in Nat, Queued(ps, rs, next),
           1 \in DOMAIN rs, NEW a, a.tid = rs[1].tid, NEW qs, NEW bs,
           \A i \in DOMAIN qs : i \in Nat /\ i > 0 /\ i + 1 \in DOMAIN rs /\ qs[i] = rs[i + 1],
           \A i \in DOMAIN bs :
              (i \in DOMAIN ps /\ i <= m /\ bs[i] = ps[i]) \/ (i = m + 1 /\ bs[i] = a)
    PROVE  Queued(bs, qs, next)
<1>1. ASSUME NEW i \in DOMAIN qs, NEW j \in DOMAIN qs, i < j PROVE qs[i].tid < qs[j].tid
  <2>1. i + 1 \in DOMAIN rs /\ j + 1 \in DOMAIN rs /\ i + 1 < j + 1
    BY <1>1
  <2> QED BY <2>1, <1>1 DEF Queued
<1>2. ASSUME NEW i \in DOMAIN bs, NEW j \in DOMAIN bs, i < j PROVE bs[i].tid < bs[j].tid
  <2>1. j \in DOMAIN ps => j \in 1..m
    BY DEF HasIds
  <2>2. i \in DOMAIN ps /\ bs[i] = ps[i]
    <3>1. i # m + 1
      <4>1. j \in 1..m \/ j = m + 1
        BY <2>1
      <4> QED BY <1>2, <4>1, NotLast
    <3> QED BY <3>1
  <2>3. CASE j \in DOMAIN ps /\ bs[j] = ps[j]
    BY <1>2, <2>2, <2>3 DEF Queued
  <2>4. CASE bs[j] = a
    BY <2>2, <2>4 DEF Queued
  <2> QED BY <2>3, <2>4
<1>3. ASSUME NEW i \in DOMAIN bs, NEW j \in DOMAIN qs PROVE bs[i].tid < qs[j].tid
  <2>1. j + 1 \in DOMAIN rs /\ qs[j] = rs[j + 1] /\ 1 < j + 1
    OBVIOUS
  <2>2. CASE i \in DOMAIN ps /\ bs[i] = ps[i]
    BY <2>1, <2>2 DEF Queued
  <2>3. CASE bs[i] = a
    BY <2>1, <2>3 DEF Queued
  <2> QED BY <2>2, <2>3
<1>4. ASSUME NEW i \in DOMAIN bs PROVE bs[i].tid < next
  BY DEF Queued
<1>5. ASSUME NEW i \in DOMAIN qs PROVE qs[i].tid < next
  BY DEF Queued
<1> QED BY <1>1, <1>2, <1>3, <1>4, <1>5 DEF Queued

(* The same for Append. *)
LEMMA QueuedSends ==
    ASSUME NEW ps \in Seq(Told), NEW rs \in Seq(Asked), NEW next \in Nat, Queued(ps, rs, next),
           NEW r \in Asked, r.tid = next
    PROVE  Queued(ps, Append(rs, r), next + 1)
<1>1. PICK m, n, qs : m = Len(ps) /\ n = Len(rs) /\ qs = Append(rs, r)
  OBVIOUS
<1>2. (\A x \in Told : x.tid \in Nat) /\ (\A x \in Asked : x.tid \in Nat)
  BY DEF Told, Asked
<1>3. HasIds(ps, m) /\ HasIds(rs, n) /\ m \in Nat /\ n \in Nat
  BY <1>1, <1>2, AllIds
<1>4. \A i \in DOMAIN qs : (i \in DOMAIN rs /\ i <= n /\ qs[i] = rs[i]) \/ (i = n + 1 /\ qs[i] = r)
  BY <1>1
<1>5. Queued(ps, qs, next + 1)
  BY <1>3, <1>4, QueuedMore
<1> QED BY <1>1, <1>5

(* Each form keeps the ids growing: what is sent has the next id, what is
   answered goes behind the answers and before the other requests. *)
LEMMA OrderedKept ==
    ASSUME SInv, Step
    PROVE  Ordered'
<1>0. /\ Queued(answers, asked, session.tid) /\ Typed
      /\ (call # NoCall => session.tid = call.tid + 1)
      /\ (session.async # NoAsync => session.async.tid < session.tid)
      /\ session.tid \in Nat /\ answers \in Seq(Told) /\ asked \in Seq(Asked)
      /\ session.async \in AsyncType /\ call \in CallType(Kinds)
  BY Fields DEF SInv, Ordered, Queued
<1>c. (\A x \in Told : x.tid \in Nat) /\ (\A x \in Asked : x.tid \in Nat)
  BY DEF Told, Asked
<1>b. /\ HasIds(answers, Len(answers)) /\ Len(answers) \in Nat
      /\ HasIds(asked, Len(asked)) /\ Len(asked) \in Nat
  BY <1>0, <1>c, AllIds
<1>a. session.async.tid \in Nat
  BY <1>0 DEF AsyncType
<1>1. ASSUME NEW c \in CallType(Kinds), NEW r \in Asked, NEW k \in 0..MaxCalls, CallSends(c, r, k)
      PROVE  Ordered'
  <2>1. /\ SessionNext(session.tid + 1, k, session.async) /\ call' = c /\ c.tid = session.tid
        /\ r.tid = session.tid /\ asked' = Append(asked, r) /\ Shorter
    BY <1>1 DEF CallSends, Asks
  <2>2. PICK bs, qs : bs = answers' /\ qs = asked'
    OBVIOUS
  <2>3. PICK j \in Nat : \A i \in DOMAIN bs : i \in Nat /\ i + j \in DOMAIN answers /\ Same(bs[i], answers[i + j])
    BY <2>1, <2>2 DEF Shorter
  <2>4. Queued(bs, asked, session.tid) /\ bs \in Seq(Told)
    <3>1. bs \in Seq(Told)
      BY <2>1, <2>2 DEF Shorter
    <3>2. Queued(bs, asked, session.tid)
      BY <1>0, <2>3, QueuedFewer
    <3> QED BY <3>1, <3>2
  <2>5. Queued(bs, qs, session.tid + 1)
    BY <1>0, <2>1, <2>2, <2>4, QueuedSends
  <2> QED BY <1>0, <1>a, <2>1, <2>2, <2>5 DEF Ordered, Queued, SessionNext
<1>2. ASSUME NEW d \in Outcome, NEW t \in Nat, NEW k \in 0..MaxCalls, CallEnds(d, t, k)
      PROVE  Ordered'
  <2>1. /\ SessionNext(t, k, session.async) /\ call' = NoCall /\ t \in {session.tid, session.tid + 1}
        /\ asked' = asked /\ Shorter
    BY <1>2 DEF CallEnds
  <2>2. PICK bs : bs = answers'
    OBVIOUS
  <2>3. PICK j \in Nat : \A i \in DOMAIN bs : i \in Nat /\ i + j \in DOMAIN answers /\ Same(bs[i], answers[i + j])
    BY <2>1, <2>2 DEF Shorter
  <2>4. Queued(bs, asked, session.tid) /\ bs \in Seq(Told)
    <3>1. bs \in Seq(Told)
      BY <2>1, <2>2 DEF Shorter
    <3>2. Queued(bs, asked, session.tid)
      BY <1>0, <2>3, QueuedFewer
    <3> QED BY <3>1, <3>2
  <2>4b. HasIds(bs, Len(bs)) /\ Len(bs) \in Nat
    BY <2>4, <1>c, AllIds
  <2>5. Queued(bs, asked, t)
    <3>1. t \in Nat /\ session.tid <= t
      BY <1>0, <2>1
    <3> QED BY <1>0, <1>b, <2>4, <2>4b, <3>1, QueuedLater
  <2> QED BY <1>0, <1>a, <2>1, <2>2, <2>5 DEF Ordered, Queued, SessionNext
<1>3. ASSUME NEW c \in AsyncType, NEW r \in Asked, NEW k \in 0..MaxCalls, AsyncSends(c, r, k)
      PROVE  Ordered'
  <2>1. /\ SessionNext(session.tid + 1, k, c) /\ call' = NoCall /\ c.tid = session.tid
        /\ r.tid = session.tid /\ asked' = Append(asked, r) /\ Shorter
    BY <1>3 DEF AsyncSends, Asks
  <2>2. PICK bs, qs : bs = answers' /\ qs = asked'
    OBVIOUS
  <2>3. PICK j \in Nat : \A i \in DOMAIN bs : i \in Nat /\ i + j \in DOMAIN answers /\ Same(bs[i], answers[i + j])
    BY <2>1, <2>2 DEF Shorter
  <2>4. Queued(bs, asked, session.tid) /\ bs \in Seq(Told)
    <3>1. bs \in Seq(Told)
      BY <2>1, <2>2 DEF Shorter
    <3>2. Queued(bs, asked, session.tid)
      BY <1>0, <2>3, QueuedFewer
    <3> QED BY <3>1, <3>2
  <2>5. Queued(bs, qs, session.tid + 1)
    BY <1>0, <2>1, <2>2, <2>4, QueuedSends
  <2> QED BY <1>0, <2>1, <2>2, <2>5 DEF Ordered, Queued, SessionNext
<1>4. ASSUME NEW d \in Outcome, NEW t \in Nat, NEW k \in 0..MaxCalls, AsyncEnds(d, t, k)
      PROVE  Ordered'
  <2>1. /\ SessionNext(t, k, NoAsync) /\ call' = NoCall /\ t \in {session.tid, session.tid + 1}
        /\ asked' = asked /\ Shorter
    BY <1>4 DEF AsyncEnds
  <2>2. PICK bs : bs = answers'
    OBVIOUS
  <2>3. PICK j \in Nat : \A i \in DOMAIN bs : i \in Nat /\ i + j \in DOMAIN answers /\ Same(bs[i], answers[i + j])
    BY <2>1, <2>2 DEF Shorter
  <2>4. Queued(bs, asked, session.tid) /\ bs \in Seq(Told)
    <3>1. bs \in Seq(Told)
      BY <2>1, <2>2 DEF Shorter
    <3>2. Queued(bs, asked, session.tid)
      BY <1>0, <2>3, QueuedFewer
    <3> QED BY <3>1, <3>2
  <2>4b. HasIds(bs, Len(bs)) /\ Len(bs) \in Nat
    BY <2>4, <1>c, AllIds
  <2>5. Queued(bs, asked, t)
    <3>1. t \in Nat /\ session.tid <= t
      BY <1>0, <2>1
    <3> QED BY <1>0, <1>b, <2>4, <2>4b, <3>1, QueuedLater
  <2> QED BY <1>0, <2>1, <2>2, <2>5 DEF Ordered, Queued, SessionNext
<1>5. ASSUME NEW r \in Asked, NEW a \in Told, Serves(r, a)
      PROVE  Ordered'
  <2>1. a.tid = r.tid /\ UNCHANGED <<session, call>>
    BY <1>5 DEF Serves
  <2>2. PICK bs, qs : bs = answers' /\ qs = asked'
    OBVIOUS
  <2>3. /\ 1 \in DOMAIN asked /\ r = asked[1]
        /\ \A i \in DOMAIN qs : i \in Nat /\ i > 0 /\ i + 1 \in DOMAIN asked /\ qs[i] = asked[i + 1]
        /\ \A i \in DOMAIN bs :
              (i \in DOMAIN answers /\ i <= Len(answers) /\ bs[i] = answers[i])
                \/ (i = Len(answers) + 1 /\ bs[i] = a)
    BY <1>5, <2>2, Answering
  <2>4. Queued(bs, qs, session.tid)
    BY <1>0, <2>1, <2>3, <1>b, QueuedAnswer
  <2> QED BY <1>0, <2>1, <2>2, <2>4 DEF Ordered, Queued
<1>6. CASE Opens
  BY <1>0, <1>6 DEF Ordered, Queued, Opens, SessionNext
<1>7. CASE Closes
  <2>1. asked' = <<>> /\ answers' = <<>> /\ call' = NoCall /\ session' = Closed(session)
    BY <1>7 DEF Closes
  <2>2. session'.async = NoAsync
    BY <2>1, Fields DEF Closed, Session, SInv
  <2>3. DOMAIN asked' = {} /\ DOMAIN answers' = {}
    BY <2>1
  <2> QED BY <2>1, <2>2, <2>3 DEF Ordered
<1>8. CASE Goes
  <2>1. asked' = <<>> /\ answers' = answers /\ call' = call /\ session' = [session EXCEPT !.up = FALSE]
    BY <1>8 DEF Goes
  <2>2. session'.async = session.async /\ session'.tid = session.tid
    BY <2>1, Fields DEF Session, SInv
  <2>3. DOMAIN asked' = {}
    BY <2>1
  <2>4. /\ \A i \in DOMAIN answers, j \in DOMAIN answers : i < j => answers[i].tid < answers[j].tid
        /\ \A i \in DOMAIN answers : answers[i].tid < session.tid
    BY <1>0 DEF Queued
  <2> QED BY <1>0, <2>1, <2>2, <2>3, <2>4 DEF Ordered
<1> QED BY <1>1, <1>2, <1>3, <1>4, <1>5, <1>6, <1>7, <1>8 DEF Step

----------------------------------------------------------------------------
(* What is on its way for a call.                                            *)

(* Holds of the calls made, the results and the messages. *)
HoldsIn(c, k, ds, rs, ps) ==
    /\ Sound(c) /\ c.n \in 1..k
    /\ \A i \in DOMAIN ds : ds[i].n # c.n
    /\ \A i \in DOMAIN rs : Wants(rs[i], c)
    /\ \A i \in DOMAIN ps : Continues(ps[i], c)

AnsweredIn(d, k) ==
    /\ d.n \in 1..k /\ Sound(d) /\ Full(d)
    /\ d.count # <<0, 0>> => Counted(d)

Once(ds) == \A i \in DOMAIN ds, j \in DOMAIN ds : ds[i].n = ds[j].n => i = j

AllAnswered(ds, k) == \A i \in DOMAIN ds : AnsweredIn(ds[i], k)

(* WholeInv of the call c that waits, the asynchronous request s and the rest. *)
WholeIn(c, s, k, ds, rs, ps) ==
    /\ c # NoCall => HoldsIn(c, k, ds, rs, ps)
    /\ s # NoAsync => HoldsIn(s, k, ds, rs, ps) /\ Counted(s)
    /\ c # NoCall /\ s # NoAsync => c.n # s.n
    /\ AllAnswered(ds, k) /\ Once(ds)
    /\ \A i \in DOMAIN rs : rs[i].from <= Len(content)
    /\ \A i \in DOMAIN ps : ps[i].more <= Len(content)

LEMMA WholeNow ==
    ASSUME WholeInv
    PROVE  WholeIn(call, session.async, session.calls, done, asked, answers)
  BY DEF WholeInv, WholeIn, Holds, HoldsIn, Answered, AnsweredIn, AllAnswered, Once

LEMMA WholeNext ==
    ASSUME content' = content, NEW c, NEW s, NEW k, NEW ds, NEW rs, NEW ps,
           c = call', s = session'.async, k = session'.calls, ds = done', rs = asked', ps = answers',
           WholeIn(c, s, k, ds, rs, ps)
    PROVE  WholeInv'
<1>1. ASSUME NEW x, HoldsIn(x, k, ds, rs, ps) PROVE Holds(x)'
  BY <1>1 DEF HoldsIn, Holds, Sound, Part, Wants, Continues
<1>2. ASSUME NEW x, AnsweredIn(x, k) PROVE Answered(x)'
  BY <1>2 DEF AnsweredIn, Answered, Sound, Full, Part, Counted
<1>3. call' # NoCall => Holds(call)'
  BY <1>1 DEF WholeIn
<1>4. (session.async # NoAsync)' => Holds(session.async)' /\ Counted(session.async)'
  BY <1>1 DEF WholeIn, Counted
<1>5. (\A i \in DOMAIN done : Answered(done[i]))'
  BY <1>2 DEF WholeIn, AllAnswered
<1> QED BY <1>3, <1>4, <1>5 DEF WholeInv, WholeIn, Once

(* An answer whose beginning has been read says what it said. *)
LEMMA SameContinues ==
    ASSUME NEW b, NEW a, NEW c, Same(b, a), Continues(a, c)
    PROVE  Continues(b, c)
  BY DEF Same, Continues

(* A call holds what it held when only its own results and messages matter. *)
LEMMA HoldsAgain ==
    ASSUME NEW c, NEW k \in Nat, NEW l \in Nat, k <= l,
           NEW ds, NEW rs, NEW ps, NEW es, NEW qs, NEW bs, HoldsIn(c, k, ds, rs, ps),
           \A i \in DOMAIN es : (\E j \in DOMAIN ds : es[i] = ds[j]) \/ es[i].n # c.n,
           \A i \in DOMAIN qs : (\E j \in DOMAIN rs : qs[i] = rs[j]) \/ Wants(qs[i], c),
           \A i \in DOMAIN bs : (\E j \in DOMAIN ps : Same(bs[i], ps[j])) \/ Continues(bs[i], c)
    PROVE  HoldsIn(c, l, es, qs, bs)
<1>1. c.n \in 1..l
  <2>1. c.n \in 1..k
    BY DEF HoldsIn
  <2> QED BY <2>1
<1>2. \A i \in DOMAIN es : es[i].n # c.n
  BY DEF HoldsIn
<1>3. \A i \in DOMAIN qs : Wants(qs[i], c)
  BY DEF HoldsIn
<1>4. \A i \in DOMAIN bs : Continues(bs[i], c)
  BY SameContinues DEF HoldsIn
<1> QED BY <1>1, <1>2, <1>3, <1>4 DEF HoldsIn

LEMMA AnsweredLater ==
    ASSUME NEW k \in Nat, NEW l \in Nat, k <= l, NEW ds, AllAnswered(ds, k)
    PROVE  AllAnswered(ds, l)
<1>1. ASSUME NEW x, AnsweredIn(x, k) PROVE AnsweredIn(x, l)
  <2>1. x.n \in 1..k
    BY <1>1 DEF AnsweredIn
  <2>2. x.n \in 1..l
    BY <2>1
  <2> QED BY <1>1, <2>2 DEF AnsweredIn
<1> QED BY <1>1 DEF AllAnswered

(* A result more, of a call that had none. *)
LEMMA OnceMore ==
    ASSUME NEW ds \in Seq(Outcome), NEW d \in Outcome, NEW k, AllAnswered(ds, k), AnsweredIn(d, k),
           Once(ds), \A i \in DOMAIN ds : ds[i].n # d.n
    PROVE  AllAnswered(Append(ds, d), k) /\ Once(Append(ds, d))
<1> DEFINE es == Append(ds, d)
           n == Len(ds) + 1
<1>1. \A i \in DOMAIN es : (i \in DOMAIN ds /\ es[i] = ds[i]) \/ (i = n /\ es[i] = d)
  BY AppendFacts, Zenon
<1> HIDE DEF es, n
<1>2. AllAnswered(es, k) /\ Once(es)
  BY <1>1 DEF AllAnswered, Once
<1> QED BY <1>2 DEF es

----------------------------------------------------------------------------
(* What the steps that send, end and answer do to the messages and the results. *)
LEMMA MessagesFewer ==
    ASSUME Typed, Shorter
    PROVE  \A i \in DOMAIN answers' : \E j \in DOMAIN answers : Same(answers'[i], answers[j])
  BY DEF Shorter

(* Nothing on its way has the next id. *)
LEMMA OlderAnswers ==
    ASSUME SInv, NEW c, c.tid = session.tid
    PROVE  (\A i \in DOMAIN answers : Continues(answers[i], c))
           /\ (\A i \in DOMAIN asked : Wants(asked[i], c))
<1>1. /\ session.tid \in Nat /\ answers \in Seq(Told) /\ asked \in Seq(Asked)
  BY Fields DEF SInv
<1>2. ASSUME NEW x \in Nat, x < session.tid PROVE x # c.tid
  BY <1>1, <1>2
<1>3. ASSUME NEW i \in DOMAIN answers PROVE answers[i].tid # c.tid
  <2>1. answers[i] \in Told /\ answers[i].tid < session.tid
    BY <1>1, <1>3 DEF SInv, Ordered
  <2> QED BY <1>2, <2>1 DEF Told
<1>4. ASSUME NEW i \in DOMAIN asked PROVE asked[i].tid # c.tid
  <2>1. asked[i] \in Asked /\ asked[i].tid < session.tid
    BY <1>1, <1>4 DEF SInv, Ordered
  <2> QED BY <1>2, <2>1 DEF Asked
<1> QED BY <1>3, <1>4 DEF Continues, Wants

(* Each form keeps what is on its way for a call: a new request asks for what
   its call lacks, and the answer to it continues that call. *)
LEMMA WholeKept ==
    ASSUME SInv, Step
    PROVE  WholeInv'
<1>0. /\ Typed /\ WholeIn(call, session.async, session.calls, done, asked, answers)
      /\ session.calls \in Nat /\ session.tid \in Nat /\ session.async \in AsyncType
      /\ content \in Seq(Nat) /\ Len(content) \in Nat /\ MaxCalls \in Nat
  BY WholeNow, Fields DEF SInv
<1>a. /\ call # NoCall => HoldsIn(call, session.calls, done, asked, answers)
      /\ session.async # NoAsync =>
           HoldsIn(session.async, session.calls, done, asked, answers) /\ Counted(session.async)
      /\ call # NoCall /\ session.async # NoAsync => call.n # session.async.n
      /\ AllAnswered(done, session.calls)
      /\ Once(done) /\ \A i \in DOMAIN asked : asked[i].from <= Len(content)
  BY <1>0 DEF WholeIn
<1>c. \A bs : (\A i \in DOMAIN bs : \E j \in DOMAIN answers : Same(bs[i], answers[j])) =>
               \A i \in DOMAIN bs : bs[i].more <= Len(content)
  BY <1>0 DEF WholeIn, Same
<1>b. session.async # NoAsync => session.async.tid < session.tid /\ session.async.tid \in Nat
  BY <1>0 DEF SInv, Ordered, AsyncType
<1>1. ASSUME NEW c \in CallType(Kinds), NEW r \in Asked, NEW k \in 0..MaxCalls, CallSends(c, r, k)
      PROVE  WholeInv'
  <2>1. /\ Asks(r, c) /\ Sound(c) /\ c.n \in 1..k
        /\ Fresh(c.n) /\ (session.async # NoAsync => session.async.n # c.n)
        /\ call' = c /\ asked' = Append(asked, r) /\ Shorter /\ content' = content /\ done' = done
        /\ session'.calls = k /\ session'.async = session.async /\ k \in Nat /\ session.calls <= k
    BY <1>0, <1>1 DEF CallSends, SessionNext
  <2>2. PICK bs, qs : bs = answers' /\ qs = asked'
    OBVIOUS
  <2>3. /\ \A i \in DOMAIN bs : \E j \in DOMAIN answers : Same(bs[i], answers[j])
        /\ \A i \in DOMAIN qs : (\E j \in DOMAIN asked : qs[i] = asked[j]) \/ qs[i] = r
    BY <1>0, <2>1, <2>2, MessagesFewer, AskedMore
  <2>4. HoldsIn(c, k, done, qs, bs)
    <3>1. \A i \in DOMAIN bs : Continues(bs[i], c)
      BY <2>1, <2>3, OlderAnswers, SameContinues DEF Asks
    <3>2. \A i \in DOMAIN qs : Wants(qs[i], c)
      <4>1. Wants(r, c)
        BY <2>1 DEF Wants, Asks
      <4> QED BY <2>1, <2>3, <4>1, OlderAnswers DEF Asks
    <3> QED BY <2>1, <3>1, <3>2 DEF HoldsIn, Fresh
  <2>5. ASSUME session.async # NoAsync
        PROVE  HoldsIn(session.async, k, done, qs, bs) /\ Counted(session.async)
    <3>1. Wants(r, session.async)
      BY <1>0, <1>b, <2>1, <2>5 DEF Wants, Asks
    <3>2. HoldsIn(session.async, session.calls, done, asked, answers)
      BY <1>a, <2>5
    <3>3. \A i \in DOMAIN qs : (\E j \in DOMAIN asked : qs[i] = asked[j]) \/ Wants(qs[i], session.async)
      BY <2>3, <3>1
    <3>4. HoldsIn(session.async, k, done, qs, bs)
      <4> PICK c0, l, ds, rs, ps : /\ c0 = session.async /\ l = session.calls /\ ds = done
                                   /\ rs = asked /\ ps = answers
        OBVIOUS
      <4>1. l \in Nat /\ k \in Nat /\ l <= k /\ HoldsIn(c0, l, ds, rs, ps)
        BY <1>0, <2>1, <3>2
      <4>2. \A i \in DOMAIN ds : (\E j \in DOMAIN ds : ds[i] = ds[j]) \/ ds[i].n # c0.n
        OBVIOUS
      <4>3. \A i \in DOMAIN qs : (\E j \in DOMAIN rs : qs[i] = rs[j]) \/ Wants(qs[i], c0)
        BY <3>3
      <4>4. \A i \in DOMAIN bs : (\E j \in DOMAIN ps : Same(bs[i], ps[j])) \/ Continues(bs[i], c0)
        BY <2>3
      <4>5. HoldsIn(c0, k, ds, qs, bs)
        BY <4>1, <4>2, <4>3, <4>4, HoldsAgain
      <4> QED BY <4>5
    <3> QED BY <1>a, <2>5, <3>4
  <2>6. AllAnswered(done, k)
    BY <1>0, <1>a, <2>1, AnsweredLater
  <2>7. \A i \in DOMAIN qs : qs[i].from <= Len(content)
    <3>1. r.from <= Len(content)
      BY <2>1 DEF Asks
    <3> QED BY <1>a, <2>3, <3>1
  <2>8. WholeIn(c, session.async, k, done, qs, bs)
    BY <1>a, <1>c, <2>1, <2>3, <2>4, <2>5, <2>6, <2>7 DEF WholeIn
  <2> QED BY <2>1, <2>2, <2>8, WholeNext
<1>2. ASSUME NEW d \in Outcome, NEW t \in Nat, NEW k \in 0..MaxCalls, CallEnds(d, t, k)
      PROVE  WholeInv'
  <2>1. /\ AnsweredIn(d, k) /\ Fresh(d.n) /\ (session.async # NoAsync => session.async.n # d.n)
        /\ call' = NoCall /\ done' = Append(done, d) /\ Shorter /\ content' = content /\ asked' = asked
        /\ session'.calls = k /\ session'.async = session.async /\ k \in Nat /\ session.calls <= k
    BY <1>0, <1>2 DEF CallEnds, SessionNext, AnsweredIn
  <2>2. PICK bs, es : bs = answers' /\ es = done'
    OBVIOUS
  <2>3. /\ \A i \in DOMAIN bs : \E j \in DOMAIN answers : Same(bs[i], answers[j])
        /\ \A i \in DOMAIN es :
              (i \in DOMAIN done /\ es[i] = done[i]) \/ (i = Len(done) + 1 /\ es[i] = d)
    BY <1>0, <2>1, <2>2, MessagesFewer, DoneMore
  <2>4. ASSUME session.async # NoAsync
        PROVE  HoldsIn(session.async, k, es, asked, bs) /\ Counted(session.async)
    <3>1. HoldsIn(session.async, session.calls, done, asked, answers)
      BY <1>a, <2>4
    <3>2. \A i \in DOMAIN es : (\E j \in DOMAIN done : es[i] = done[j]) \/ es[i].n # session.async.n
      BY <2>1, <2>3, <2>4
    <3>3. \A i \in DOMAIN asked : (\E j \in DOMAIN asked : asked[i] = asked[j]) \/ Wants(asked[i], session.async)
      OBVIOUS
    <3>4. \A i \in DOMAIN bs : (\E j \in DOMAIN answers : Same(bs[i], answers[j])) \/ Continues(bs[i], session.async)
      BY <2>3
    <3>5. HoldsIn(session.async, k, es, asked, bs)
      <4> PICK c, l, ds, rs, ps : c = session.async /\ l = session.calls /\ ds = done /\ rs = asked /\ ps = answers
        OBVIOUS
      <4>1. l \in Nat /\ k \in Nat /\ l <= k /\ HoldsIn(c, l, ds, rs, ps)
        BY <1>0, <2>1, <3>1
      <4>2. \A i \in DOMAIN es : (\E j \in DOMAIN ds : es[i] = ds[j]) \/ es[i].n # c.n
        BY <3>2
      <4>3. \A i \in DOMAIN rs : (\E j \in DOMAIN rs : rs[i] = rs[j]) \/ Wants(rs[i], c)
        OBVIOUS
      <4>4. \A i \in DOMAIN bs : (\E j \in DOMAIN ps : Same(bs[i], ps[j])) \/ Continues(bs[i], c)
        BY <3>4
      <4>5. HoldsIn(c, k, es, rs, bs)
        BY <4>1, <4>2, <4>3, <4>4, HoldsAgain
      <4> QED BY <4>5
    <3> QED BY <1>a, <2>4, <3>5
  <2>5. AllAnswered(es, k) /\ Once(es)
    <3>1. AllAnswered(done, k) /\ \A i \in DOMAIN done : done[i].n # d.n
      BY <1>0, <1>a, <2>1, AnsweredLater DEF Fresh
    <3>2. done \in Seq(Outcome)
      BY <1>0, Fields
    <3> QED BY <1>a, <2>1, <2>2, <3>1, <3>2, OnceMore
  <2>6. WholeIn(NoCall, session.async, k, es, asked, bs)
    BY <1>a, <1>c, <2>3, <2>4, <2>5 DEF WholeIn
  <2> QED BY <2>1, <2>2, <2>6, WholeNext
<1>3. ASSUME NEW c \in AsyncType, NEW r \in Asked, NEW k \in 0..MaxCalls, AsyncSends(c, r, k)
      PROVE  WholeInv'
  <2>1. /\ Asks(r, c) /\ Sound(c) /\ c.n \in 1..k /\ Counted(c)
        /\ Fresh(c.n) /\ call' = NoCall
        /\ asked' = Append(asked, r) /\ Shorter /\ content' = content /\ done' = done
        /\ session'.calls = k /\ session'.async = c /\ k \in Nat /\ session.calls <= k
    BY <1>0, <1>3 DEF AsyncSends, SessionNext
  <2>2. PICK bs, qs : bs = answers' /\ qs = asked'
    OBVIOUS
  <2>3. /\ \A i \in DOMAIN bs : \E j \in DOMAIN answers : Same(bs[i], answers[j])
        /\ \A i \in DOMAIN qs : (\E j \in DOMAIN asked : qs[i] = asked[j]) \/ qs[i] = r
    BY <1>0, <2>1, <2>2, MessagesFewer, AskedMore
  <2>4. HoldsIn(c, k, done, qs, bs)
    <3>1. \A i \in DOMAIN bs : Continues(bs[i], c)
      BY <2>1, <2>3, OlderAnswers, SameContinues DEF Asks
    <3>2. \A i \in DOMAIN qs : Wants(qs[i], c)
      <4>1. Wants(r, c)
        BY <2>1 DEF Wants, Asks
      <4> QED BY <2>1, <2>3, <4>1, OlderAnswers DEF Asks
    <3> QED BY <2>1, <3>1, <3>2 DEF HoldsIn, Fresh
  <2>6. AllAnswered(done, k)
    BY <1>0, <1>a, <2>1, AnsweredLater
  <2>7. \A i \in DOMAIN qs : qs[i].from <= Len(content)
    <3>1. r.from <= Len(content)
      BY <2>1 DEF Asks
    <3> QED BY <1>a, <2>3, <3>1
  <2>8. WholeIn(NoCall, c, k, done, qs, bs)
    BY <1>a, <1>c, <2>1, <2>3, <2>4, <2>6, <2>7 DEF WholeIn
  <2> QED BY <2>1, <2>2, <2>8, WholeNext
<1>4. ASSUME NEW d \in Outcome, NEW t \in Nat, NEW k \in 0..MaxCalls, AsyncEnds(d, t, k)
      PROVE  WholeInv'
  <2>1. /\ AnsweredIn(d, k) /\ Fresh(d.n) /\ Shorter
        /\ call' = NoCall /\ done' = Append(done, d) /\ content' = content /\ asked' = asked
        /\ session'.calls = k /\ session'.async = NoAsync /\ k \in Nat /\ session.calls <= k
    BY <1>0, <1>4 DEF AsyncEnds, SessionNext, AnsweredIn
  <2>2. PICK bs, es : bs = answers' /\ es = done'
    OBVIOUS
  <2>3. \A i \in DOMAIN bs : \E j \in DOMAIN answers : Same(bs[i], answers[j])
    BY <1>0, <2>1, <2>2, MessagesFewer
  <2>5. AllAnswered(es, k) /\ Once(es)
    <3>1. AllAnswered(done, k) /\ \A i \in DOMAIN done : done[i].n # d.n
      BY <1>0, <1>a, <2>1, AnsweredLater DEF Fresh
    <3>2. done \in Seq(Outcome)
      BY <1>0, Fields
    <3> QED BY <1>a, <2>1, <2>2, <3>1, <3>2, OnceMore
  <2>6. WholeIn(NoCall, NoAsync, k, es, asked, bs)
    BY <1>a, <1>c, <2>3, <2>5 DEF WholeIn
  <2> QED BY <2>1, <2>2, <2>6, WholeNext
<1>5. ASSUME NEW r \in Asked, NEW a \in Told, Serves(r, a)
      PROVE  WholeInv'
  <2>1. /\ content' = content /\ session' = session /\ call' = call /\ done' = done
    BY <1>5 DEF Serves
  <2>2. PICK bs, qs : bs = answers' /\ qs = asked'
    OBVIOUS
  <2>3. /\ 1 \in DOMAIN asked /\ r = asked[1]
        /\ \A i \in DOMAIN qs : \E j \in DOMAIN asked : qs[i] = asked[j]
        /\ \A i \in DOMAIN bs : (\E j \in DOMAIN answers : Same(bs[i], answers[j])) \/ bs[i] = a
    BY <1>5, <2>2, Answering DEF Same
  <2>4. ASSUME NEW c, HoldsIn(c, session.calls, done, asked, answers)
        PROVE  HoldsIn(c, session.calls, done, qs, bs)
    <3>1. Wants(r, c)
      BY <2>3, <2>4 DEF HoldsIn
    <3>2. Continues(a, c)
      BY <1>5, <3>1 DEF Serves, Wants, Continues
    <3>3. \A i \in DOMAIN bs : (\E j \in DOMAIN answers : Same(bs[i], answers[j])) \/ Continues(bs[i], c)
      BY <2>3, <3>2
    <3>4. \A i \in DOMAIN done : (\E j \in DOMAIN done : done[i] = done[j]) \/ done[i].n # c.n
      OBVIOUS
    <3>5. \A i \in DOMAIN qs : (\E j \in DOMAIN asked : qs[i] = asked[j]) \/ Wants(qs[i], c)
      BY <2>3
    <3>6. session.calls \in Nat /\ session.calls <= session.calls
      BY <1>0
    <3> QED BY <2>4, <3>3, <3>4, <3>5, <3>6, HoldsAgain
  <2>5. /\ \A i \in DOMAIN qs : qs[i].from <= Len(content)
        /\ \A i \in DOMAIN bs : bs[i].more <= Len(content)
    <3>1. a.more <= Len(content)
      BY <1>5 DEF Serves
    <3>2. ASSUME NEW i \in DOMAIN bs PROVE bs[i].more <= Len(content)
      BY <1>0, <2>3, <3>1 DEF WholeIn, Same
    <3> QED BY <1>a, <2>3, <3>2
  <2>6. WholeIn(call, session.async, session.calls, done, qs, bs)
    BY <1>a, <2>4, <2>5 DEF WholeIn
  <2>7. PICK c, s, k, ds : c = call /\ s = session.async /\ k = session.calls /\ ds = done
    OBVIOUS
  <2>8. WholeIn(c, s, k, ds, qs, bs)
    BY <2>6, <2>7
  <2> QED BY <2>1, <2>2, <2>7, <2>8, WholeNext
<1>6. CASE Opens
  <2>1. PICK c, s, k, ds, rs, ps :
           /\ c = call /\ s = session.async /\ k = session.calls
           /\ ds = done /\ rs = asked /\ ps = answers
    OBVIOUS
  <2>2. WholeIn(c, s, k, ds, rs, ps)
    BY <1>0, <2>1
  <2> QED BY <1>6, <2>1, <2>2, WholeNext DEF Opens, SessionNext
<1>7. CASE Closes
  <2>1. /\ call' = NoCall /\ session' = Closed(session) /\ asked' = <<>> /\ answers' = <<>>
        /\ content' = content /\ done' = done /\ session \in Session
    BY <1>0, <1>7, Fields DEF Closes
  <2>2. session'.async = NoAsync /\ session'.calls = MaxCalls
    BY <2>1 DEF Closed, Session
  <2>3. session.calls <= MaxCalls
    BY <1>0, Fields
  <2>4. PICK ds, e : ds = done /\ e = <<>>
    OBVIOUS
  <2>5. AllAnswered(ds, MaxCalls)
    BY <1>0, <1>a, <2>3, <2>4, AnsweredLater
  <2>6. WholeIn(NoCall, NoAsync, MaxCalls, ds, e, e)
    <3>1. DOMAIN e = {} /\ Once(ds)
      BY <1>a, <2>4
    <3> QED BY <2>5, <3>1 DEF WholeIn
  <2> QED BY <2>1, <2>2, <2>4, <2>6, WholeNext
<1>8. CASE Goes
  <2>1. /\ call' = call /\ session' = [session EXCEPT !.up = FALSE] /\ asked' = <<>> /\ answers' = answers
        /\ content' = content /\ done' = done /\ session \in Session
    BY <1>0, <1>8, Fields DEF Goes
  <2>2. session'.async = session.async /\ session'.calls = session.calls
    BY <2>1 DEF Session
  <2>3. PICK c, s, k, ds, e, ps : /\ c = call /\ s = session.async /\ k = session.calls /\ ds = done
                                  /\ e = <<>> /\ ps = answers
    OBVIOUS
  <2>4. DOMAIN e = {} /\ WholeIn(c, s, k, ds, asked, ps)
    BY <1>0, <2>3
  <2>5. \A x : HoldsIn(x, k, ds, asked, ps) => HoldsIn(x, k, ds, e, ps)
    BY <2>4 DEF HoldsIn
  <2>6. WholeIn(c, s, k, ds, e, ps)
    BY <2>4, <2>5 DEF WholeIn
  <2> QED BY <2>1, <2>2, <2>3, <2>6, WholeNext
<1> QED BY <1>1, <1>2, <1>3, <1>4, <1>5, <1>6, <1>7, <1>8 DEF Step

----------------------------------------------------------------------------
(* The record.                                                              *)

(* RecordInv of the record x, the call c that waits and the records rs, while the *)
(* server is up.                                                            *)
KnownIn(x, c, rs, up) ==
    x.handle # NoHandle /\ x.sure /\ up /\ c.kind # "SVC_REMOVE" => x.handle \in rs

AskedIn(x, c, qs) ==
    \A i \in DOMAIN qs :
       /\ qs[i].kind = "SVC_REMOVE" /\ x.sure /\ x.handle # NoHandle => c.kind = "SVC_REMOVE"
       /\ qs[i].kind = "SVC_REGISTER" => qs[i].handle # 0

ToldIn(c, rs, ps, up) ==
    \A i \in DOMAIN ps :
       /\ ps[i].kind = "SVC_REGISTER" /\ ~ ps[i].error => ps[i].handle \in 1..MaxCalls
       /\ /\ ps[i].kind = "SVC_REGISTER" /\ ~ ps[i].error
          /\ up /\ c # NoCall /\ ps[i].tid = c.tid
          => ps[i].handle \in rs

LEMMA RecordNow ==
    RecordInv <=> /\ KnownIn(rec, call, records, session.up) /\ AskedIn(rec, call, asked)
                  /\ ToldIn(call, records, answers, session.up)
  BY DEF RecordInv, RecordKnown, KnownIn, AskedIn, ToldIn

LEMMA RecordNext ==
    ASSUME NEW x, NEW c, NEW rs, NEW qs, NEW ps, NEW up,
           x = rec', c = call', rs = records', qs = asked', ps = answers', up = session'.up,
           KnownIn(x, c, rs, up), AskedIn(x, c, qs), ToldIn(c, rs, ps, up)
    PROVE  RecordInv'
  BY DEF RecordInv, RecordKnown, KnownIn, AskedIn, ToldIn

(* Each form keeps what is known of the record. *)
LEMMA RecordKept ==
    ASSUME SInv, Step
    PROVE  RecordInv'
<1>0. /\ Typed /\ KnownIn(rec, call, records, session.up) /\ AskedIn(rec, call, asked)
      /\ ToldIn(call, records, answers, session.up)
      /\ session.tid \in Nat /\ answers \in Seq(Told) /\ asked \in Seq(Asked) /\ session \in Session
      /\ rec \in [handle : Handles, sure : BOOLEAN] /\ rec.handle \in Handles /\ 0 \notin Handles
  BY RecordNow, Fields, SdpAssumption DEF SInv, Handles, NoHandle
<1>a. NoCall.kind = "none"
  BY DEF NoCall
<1>b. \A bs, up : (\A i \in DOMAIN bs : \E j \in DOMAIN answers : Same(bs[i], answers[j])) =>
                   ToldIn(NoCall, records, bs, up)
  BY <1>0 DEF ToldIn, Same
<1>1. ASSUME NEW c \in CallType(Kinds), NEW r \in Asked, NEW k \in 0..MaxCalls, CallSends(c, r, k)
      PROVE  RecordInv'
  <2>1. /\ c.tid = session.tid /\ r.kind = c.kind /\ r.handle = rec.handle
        /\ (call = NoCall \/ (c.kind = call.kind /\ c.kind \in Searches))
        /\ call' = c /\ asked' = Append(asked, r) /\ Shorter /\ rec' = rec /\ records' = records
        /\ session'.up = session.up
    BY <1>1 DEF CallSends, Asks, SessionNext
  <2>2. PICK x, rs, bs, qs, up : x = rec' /\ rs = records' /\ bs = answers' /\ qs = asked' /\ up = session'.up
    OBVIOUS
  <2>3. /\ \A i \in DOMAIN bs : \E j \in DOMAIN answers : Same(bs[i], answers[j])
        /\ \A i \in DOMAIN qs : (\E j \in DOMAIN asked : qs[i] = asked[j]) \/ qs[i] = r
    BY <1>0, <2>1, <2>2, MessagesFewer, AskedMore
  <2>4. call.kind # "SVC_REMOVE"
    BY <1>a, <2>1 DEF Searches
  <2>5. KnownIn(x, c, rs, up)
    BY <1>0, <2>1, <2>2, <2>4 DEF KnownIn
  <2>6. AskedIn(x, c, qs)
    <3>1. r.handle # 0
      BY <1>0, <2>1
    <3> QED BY <1>0, <2>1, <2>2, <2>3, <2>4, <3>1 DEF AskedIn
  <2>7. ToldIn(c, rs, bs, up)
    <3>1. ASSUME NEW j \in DOMAIN answers PROVE answers[j].tid # c.tid
      <4>1. answers[j] \in Told /\ answers[j].tid < session.tid
        BY <1>0, <3>1 DEF SInv, Ordered
      <4>2. answers[j].tid \in Nat
        BY <4>1 DEF Told
      <4> QED BY <1>0, <2>1, <4>1, <4>2
    <3> QED BY <1>0, <2>3, <3>1 DEF ToldIn, Same
  <2> QED BY <2>1, <2>2, <2>5, <2>6, <2>7, RecordNext
<1>2. ASSUME NEW d \in Outcome, NEW t \in Nat, NEW k \in 0..MaxCalls, CallEnds(d, t, k)
      PROVE  RecordInv'
  <2>1. /\ call' = NoCall /\ asked' = asked /\ Shorter /\ RecordAfter /\ records' = records
        /\ session'.up = session.up
    BY <1>2 DEF CallEnds, SessionNext
  <2>2. PICK x, rs, bs, qs, up : x = rec' /\ rs = records' /\ bs = answers' /\ qs = asked' /\ up = session'.up
    OBVIOUS
  <2>3. \A i \in DOMAIN bs : \E j \in DOMAIN answers : Same(bs[i], answers[j])
    BY <1>0, <2>1, <2>2, MessagesFewer
  <2>4. KnownIn(x, NoCall, rs, up) /\ AskedIn(x, NoCall, qs)
    <3>1. CASE x = rec /\ call.kind # "SVC_REMOVE"
      BY <1>0, <2>1, <2>2, <3>1 DEF KnownIn, AskedIn
    <3>2. CASE x = [rec EXCEPT !.sure = FALSE]
      <4>1. ~ x.sure
        BY <1>0, <3>2
      <4> QED BY <1>0, <2>1, <2>2, <4>1 DEF KnownIn, AskedIn
    <3>3. CASE x.handle = NoHandle
      BY <1>0, <2>1, <2>2, <3>3 DEF KnownIn, AskedIn
    <3>4. CASE ~ x.sure
      BY <1>0, <2>1, <2>2, <3>4 DEF KnownIn, AskedIn
    <3>5. CASE asked = <<>> /\ (session.up => x.handle \in records)
      <4>1. DOMAIN qs = {}
        BY <2>1, <2>2, <3>5
      <4> QED BY <2>1, <2>2, <3>5, <4>1 DEF KnownIn, AskedIn
    <3> QED BY <2>1, <2>2, <3>1, <3>2, <3>3, <3>4, <3>5 DEF RecordAfter
  <2>5. ToldIn(NoCall, rs, bs, up)
    BY <1>b, <2>1, <2>2, <2>3
  <2> QED BY <2>1, <2>2, <2>4, <2>5, RecordNext
<1>3. ASSUME NEW c \in AsyncType, NEW r \in Asked, NEW k \in 0..MaxCalls, AsyncSends(c, r, k)
      PROVE  RecordInv'
  <2>1. /\ r.kind = c.kind /\ c.kind \in Searches /\ call = NoCall /\ call' = NoCall
        /\ asked' = Append(asked, r) /\ Shorter /\ rec' = rec /\ records' = records
        /\ session'.up = session.up
    BY <1>3 DEF AsyncSends, Asks, SessionNext
  <2>2. PICK x, rs, bs, qs, up : x = rec' /\ rs = records' /\ bs = answers' /\ qs = asked' /\ up = session'.up
    OBVIOUS
  <2>3. /\ \A i \in DOMAIN bs : \E j \in DOMAIN answers : Same(bs[i], answers[j])
        /\ \A i \in DOMAIN qs : (\E j \in DOMAIN asked : qs[i] = asked[j]) \/ qs[i] = r
    BY <1>0, <2>1, <2>2, MessagesFewer, AskedMore
  <2>4. AskedIn(x, NoCall, qs)
    <3>1. r.kind # "SVC_REMOVE" /\ r.kind # "SVC_REGISTER"
      BY <2>1 DEF Searches
    <3> QED BY <1>0, <2>1, <2>2, <2>3, <3>1 DEF AskedIn
  <2>5. KnownIn(x, NoCall, rs, up) /\ ToldIn(NoCall, rs, bs, up)
    BY <1>0, <1>b, <2>1, <2>2, <2>3
  <2> QED BY <2>1, <2>2, <2>4, <2>5, RecordNext
<1>4. ASSUME NEW d \in Outcome, NEW t \in Nat, NEW k \in 0..MaxCalls, AsyncEnds(d, t, k)
      PROVE  RecordInv'
  <2>1. /\ call = NoCall /\ call' = NoCall /\ asked' = asked /\ Shorter /\ rec' = rec /\ records' = records
        /\ session'.up = session.up
    BY <1>4 DEF AsyncEnds, SessionNext
  <2>2. PICK x, rs, bs, qs, up : x = rec' /\ rs = records' /\ bs = answers' /\ qs = asked' /\ up = session'.up
    OBVIOUS
  <2>3. \A i \in DOMAIN bs : \E j \in DOMAIN answers : Same(bs[i], answers[j])
    BY <1>0, <2>1, <2>2, MessagesFewer
  <2>4. KnownIn(x, NoCall, rs, up) /\ AskedIn(x, NoCall, qs) /\ ToldIn(NoCall, rs, bs, up)
    BY <1>0, <1>b, <2>1, <2>2, <2>3
  <2> QED BY <2>1, <2>2, <2>4, RecordNext
<1>5. ASSUME NEW r \in Asked, NEW a \in Told, Serves(r, a)
      PROVE  RecordInv'
  <2>1. /\ a.kind = r.kind /\ rec' = rec /\ call' = call /\ session' = session
        /\ (records \subseteq records' \/ a.kind = "SVC_REMOVE")
        /\ a.kind = "SVC_REGISTER" /\ ~ a.error => a.handle \in 1..MaxCalls /\ a.handle \in records'
    BY <1>5 DEF Serves
  <2>2. PICK x, c, rs, bs, qs, up : /\ x = rec' /\ c = call' /\ rs = records' /\ bs = answers' /\ qs = asked'
                                    /\ up = session'.up
    OBVIOUS
  <2>3. /\ 1 \in DOMAIN asked /\ r = asked[1]
        /\ \A i \in DOMAIN qs : \E j \in DOMAIN asked : qs[i] = asked[j]
        /\ \A i \in DOMAIN bs : (\E j \in DOMAIN answers : bs[i] = answers[j]) \/ bs[i] = a
    BY <1>5, <2>2, Answering
  <2>4. KnownIn(x, c, rs, up)
    BY <1>0, <2>1, <2>2, <2>3 DEF KnownIn, AskedIn
  <2>5. AskedIn(x, c, qs)
    BY <1>0, <2>1, <2>2, <2>3 DEF AskedIn
  <2>6. ASSUME NEW j \in DOMAIN answers, c # NoCall PROVE answers[j].tid # c.tid
    <3>1. /\ answers[j].tid < asked[1].tid /\ asked[1].tid < session.tid /\ session.tid = call.tid + 1
      BY <2>1, <2>2, <2>3, <2>6 DEF SInv, Ordered
    <3>2. answers[j].tid \in Nat /\ asked[1].tid \in Nat /\ call.tid \in Nat
      <4>1. answers[j] \in Told /\ asked[1] \in Asked /\ call \in CallType(Kinds)
        BY <1>0, <2>3, <2>6, Fields
      <4> QED BY <4>1 DEF Told, Asked, CallType
    <3>3. call.tid = c.tid
      BY <2>1, <2>2
    <3> QED BY <3>1, <3>2, <3>3
  <2>7. ToldIn(c, rs, bs, up)
    BY <1>0, <2>1, <2>2, <2>3, <2>6 DEF ToldIn
  <2> QED BY <2>2, <2>4, <2>5, <2>7, RecordNext
<1>6. CASE Opens
  <2>1. PICK x, c, rs, qs, ps, up : /\ x = rec /\ c = call /\ rs = records /\ qs = asked /\ ps = answers
                                    /\ up = session.up
    OBVIOUS
  <2>2. KnownIn(x, c, rs, up) /\ AskedIn(x, c, qs) /\ ToldIn(c, rs, ps, up)
    BY <1>0, <2>1
  <2> QED BY <1>6, <2>1, <2>2, RecordNext DEF Opens, SessionNext
<1>7. CASE Closes
  <2>1. /\ call = NoCall /\ call' = call /\ rec' = rec /\ records' = records /\ asked' = <<>>
        /\ answers' = <<>> /\ session' = Closed(session)
    BY <1>7 DEF Closes
  <2>2. PICK x, c, rs, e, up : x = rec /\ c = call /\ rs = records /\ e = <<>> /\ up = session.up
    OBVIOUS
  <2>3. DOMAIN e = {} /\ session'.up = up
    BY <1>0, <2>1, <2>2 DEF Closed, Session
  <2>4. KnownIn(x, c, rs, up) /\ AskedIn(x, c, e) /\ ToldIn(c, rs, e, up)
    BY <1>0, <2>2, <2>3 DEF KnownIn, AskedIn, ToldIn
  <2> QED BY <2>1, <2>2, <2>3, <2>4, RecordNext
<1>8. CASE Goes
  <2>1. /\ call' = call /\ rec' = rec /\ answers' = answers /\ asked' = <<>>
        /\ session' = [session EXCEPT !.up = FALSE]
    BY <1>8 DEF Goes
  <2>2. PICK x, c, rs, e, ps : x = rec' /\ c = call' /\ rs = records' /\ e = asked' /\ ps = answers'
    OBVIOUS
  <2>3. DOMAIN e = {} /\ session'.up = FALSE
    BY <1>0, <2>1, <2>2 DEF Session
  <2>4. KnownIn(x, c, rs, FALSE) /\ AskedIn(x, c, e) /\ ToldIn(c, rs, ps, FALSE)
    BY <1>0, <2>1, <2>2, <2>3 DEF KnownIn, AskedIn, ToldIn
  <2> QED BY <2>2, <2>3, <2>4, RecordNext
<1> QED BY <1>1, <1>2, <1>3, <1>4, <1>5, <1>6, <1>7, <1>8 DEF Step

----------------------------------------------------------------------------
(* The theorems.                                                            *)

(* The invariant holds at first ... *)
LEMMA AtFirst ==
    ASSUME Init
    PROVE  SInv
<1>1. /\ session = [open |-> FALSE, local |-> FALSE, up |-> TRUE, tid |-> 0, calls |-> 0, async |-> NoAsync]
      /\ call = NoCall /\ rec = NewRecord
      /\ asked = <<>> /\ answers = <<>> /\ records = {} /\ done = <<>>
  BY DEF Init
<1>2. content \in Seq(Nat)
  <2>1. PICK n \in Found : content = [i \in 1..n |-> i]
    BY DEF Init
  <2>2. n \in Nat
    BY SdpAssumption
  <2> QED BY <2>1, <2>2
<1>3. session \in Session /\ session.async = NoAsync /\ ~ session.open
  BY <1>1, NoCallType, SdpAssumption DEF Session
<1>4. rec \in [handle : Handles, sure : BOOLEAN] /\ rec.handle = NoHandle
  BY <1>1 DEF NewRecord, Handles
<1>5. Typed
  BY <1>1, <1>2, <1>3, <1>4, NoCallType DEF Typed
<1>6. DOMAIN asked = {} /\ DOMAIN answers = {} /\ DOMAIN done = {}
  BY <1>1
<1>7. Ordered /\ WholeInv
  BY <1>1, <1>3, <1>6 DEF Ordered, WholeInv
<1>8. RecordInv
  BY <1>4, <1>6 DEF RecordInv, RecordKnown
<1> QED BY <1>5, <1>7, <1>8 DEF SInv

(* ... every step keeps it ... *)
LEMMA Kept ==
    ASSUME SInv, [Next]_vars
    PROVE  SInv'
<1>1. CASE Next
  BY <1>1, EveryStep, TypedKept, OrderedKept, WholeKept, RecordKept DEF SInv
<1>2. CASE UNCHANGED vars
  <2>1. /\ session' = session /\ call' = call /\ rec' = rec /\ asked' = asked /\ answers' = answers
        /\ content' = content /\ records' = records /\ done' = done
    BY <1>2 DEF vars
  <2>2. Typed' /\ Ordered' /\ RecordInv'
    BY <2>1 DEF SInv, Typed, Ordered, RecordInv, RecordKnown
  <2>3. WholeInv'
    <3>1. WholeIn(call, session.async, session.calls, done, asked, answers)
      BY WholeNow DEF SInv
    <3> PICK c, s, k, ds, rs, ps : /\ c = call /\ s = session.async /\ k = session.calls
                                   /\ ds = done /\ rs = asked /\ ps = answers
      OBVIOUS
    <3>2. /\ c = call' /\ s = session'.async /\ k = session'.calls
          /\ ds = done' /\ rs = asked' /\ ps = answers' /\ content' = content
      BY <2>1
    <3>3. WholeIn(c, s, k, ds, rs, ps)
      BY <3>1
    <3> QED BY <3>2, <3>3, WholeNext
  <2> QED BY <2>2, <2>3 DEF SInv
<1> QED BY <1>1, <1>2

(* What a call in progress or ended holds is the beginning of the content. *)
LEMMA PartIsPrefix ==
    ASSUME NEW s \in Seq(Nat), content \in Seq(Nat), Part(s, 0)
    PROVE  /\ s = SubSeq(content, 1, Len(s))
           /\ Len(s) = Len(content) => s = content
<1>1. PICK n, m \in Nat : n = Len(s) /\ m = Len(content)
  OBVIOUS
<1>2. n <= m /\ \A i \in 1..n : s[i] = content[i]
  BY <1>1 DEF Part
<1>3. /\ SubSeq(content, 1, n) \in Seq(Nat) /\ Len(SubSeq(content, 1, n)) = n
      /\ \A i \in 1..n : SubSeq(content, 1, n)[i] = content[i]
  BY <1>1, <1>2
<1>4. s = SubSeq(content, 1, n)
  BY <1>1, <1>2, <1>3, SeqEqual
<1>5. ASSUME n = m PROVE s = content
  BY <1>1, <1>2, <1>5, SeqEqual
<1> QED BY <1>1, <1>4, <1>5

LEMMA CountIs ==
    ASSUME NEW d, Counted(d), d.amiss = {}, Len(d.items) * Weight < 256, Len(d.items) \in Nat
    PROVE  Value(d.count) = Len(d.items) * Weight
<1>1. PICK x : x = Len(d.items) * Weight /\ x \in Nat
  BY SdpAssumption
<1>2. d.count = <<0, x>>
  BY <1>1 DEF Counted
<1> QED BY <1>1, <1>2 DEF Value

(* ... and the properties follow. *)
LEMMA WholeFollows ==
    ASSUME SInv
    PROVE  AnswerWhole
<1>1. content \in Seq(Nat) /\ done \in Seq(Outcome)
  BY Fields DEF SInv
<1>2. ASSUME NEW i \in DOMAIN done
      PROVE  \A j \in DOMAIN done : done[j].n = done[i].n => j = i
  BY <1>2 DEF SInv, WholeInv
<1>3. ASSUME NEW i \in DOMAIN done, done[i].amiss = {}
      PROVE  /\ done[i].sources \subseteq {done[i].n}
             /\ done[i].kind \in Searches =>
                  /\ done[i].items = SubSeq(content, 1, Len(done[i].items))
                  /\ done[i].status = 0 => done[i].items = content
                  /\ Len(done[i].items) * Weight < 256 /\ done[i].count # <<0, 0>> =>
                       Value(done[i].count) = Len(done[i].items) * Weight
  <2>1. Answered(done[i])
    BY <1>3 DEF SInv, WholeInv
  <2>2. done[i].items \in Seq(Nat) /\ Len(done[i].items) \in Nat
    <3>1. done[i] \in Outcome
      BY <1>1, <1>3
    <3>2. done[i].items \in Seq(Nat)
      BY <3>1 DEF Outcome
    <3> QED BY <3>2
  <2>3. Part(done[i].items, 0) /\ done[i].sources \subseteq {done[i].n}
    BY <1>3, <2>1 DEF Answered, Sound
  <2>4. /\ done[i].items = SubSeq(content, 1, Len(done[i].items))
        /\ Len(done[i].items) = Len(content) => done[i].items = content
    BY <1>1, <2>2, <2>3, PartIsPrefix
  <2>5. Len(done[i].items) * Weight < 256 /\ done[i].count # <<0, 0>> =>
           Value(done[i].count) = Len(done[i].items) * Weight
    <3>1. done[i].count # <<0, 0>> => Counted(done[i])
      BY <2>1 DEF Answered
    <3> QED BY <1>3, <2>2, <3>1, CountIs
  <2>6. done[i].kind \in Searches /\ done[i].status = 0 => Len(done[i].items) = Len(content)
    BY <1>3, <2>1 DEF Answered, Full
  <2> QED BY <2>3, <2>4, <2>5, <2>6
<1> QED BY <1>2, <1>3 DEF AnswerWhole

LEMMA TypesFollow ==
    ASSUME SInv
    PROVE  TypeOK
<1>1. /\ call.kind \in Kinds \cup {"none"} /\ session.async.kind \in Kinds \cup {"none"}
      /\ session.tid \in Nat /\ session.calls \in 0..MaxCalls
      /\ rec.handle \in {NoHandle} \cup 1..MaxCalls
  BY Fields DEF SInv, CallType, AsyncType, Handles
<1>2. \A i \in DOMAIN done : done[i].status \in {-1, 0, 1, 65535}
  <2>1. done \in Seq(Outcome)
    BY Fields DEF SInv
  <2>2. ASSUME NEW i \in DOMAIN done PROVE done[i] \in Outcome
    BY <2>1, <2>2
  <2> QED BY <2>2 DEF Outcome
<1> QED BY <1>1, <1>2 DEF SInv, Typed, TypeOK

(* The invariant holds always.                                               *)
THEOREM Inductive == Spec => []SInv
<1>1. Init => SInv
  BY AtFirst
<1>2. SInv /\ [Next]_vars => SInv'
  BY Kept
<1> QED BY <1>1, <1>2, PTL DEF Spec

(* A closed session keeps nothing of a request, and the calls come to what the  *)
(* code returns: the types of sdp.c's sessions.                               *)
THEOREM Types == Spec => []TypeOK
<1>1. SInv => TypeOK
  BY TypesFollow
<1> QED BY <1>1, Inductive, PTL

(* Each call of a remote or a local session ends once.  If it took no part of an    *)
(* answer for one, and none whose id had come round, then it has all the server     *)
(* holds, once and in order, from the answers to its own requests, when it succeeds  *)
(* and the beginning of it when it fails; and the count that sdp_process keeps of a   *)
(* search in parts is right up to 255 handles.                                  *)
THEOREM AnswersAreWhole == Spec => []AnswerWhole
<1>1. SInv => AnswerWhole
  BY WholeFollows
<1> QED BY <1>1, Inductive, PTL

(* While the server of a session is there, a record the program knows as registered  *)
(* is registered, unless a request to remove it waits or has failed, or it has its    *)
(* handle from no proper answer: sdp_device_record_register and _unregister, whose     *)
(* answers a local session reads joined, in parts and late.                       *)
THEOREM RecordsAreKnown == Spec => []RecordKnown
<1>1. SInv => RecordKnown
  BY DEF SInv, RecordInv
<1> QED BY <1>1, Inductive, PTL
=============================================================================
