------------------------------ MODULE SdpClient ------------------------------
(***************************************************************************)
(* The sessions of sdp.c: requests that wait for their answer, requests that   *)
(* are answered through sdp_process and a callback, and the registration of a  *)
(* record with the local server.  An answer may come in parts, each of which    *)
(* is asked for under a new transaction id.                                  *)
(*                                                                         *)
(* A remote session is a SOCK_SEQPACKET socket: a read returns one answer.  The   *)
(* local one is a SOCK_STREAM socket: a read returns as much as has come, several  *)
(* answers joined or a part of one, and takes the first bytes for a header.      *)
(*                                                                         *)
(* What a search or a list of attributes holds is a sequence of items; an item  *)
(* of a search stands for Weight record handles, which are counted in two bytes. *)
(***************************************************************************)
EXTENDS Integers, Sequences

CONSTANTS
    Found,      \* how many items the server may hold, a set of numbers
    Weight,     \* handles in an item of a search
    Ids,        \* how many transaction ids there are, 2^16 in the code
    MaxCalls,   \* bound: calls made in a session
    Cuts,       \* bound: ids of answers that a read of a local session may end in, once each
    Kinds,      \* what may be asked
    May         \* what this instance lets happen, a subset of Features

Features ==
    { "io_error",  \* a request cannot be sent
      "refusal",   \* the server answers with an error
      "silent",    \* the server takes longer than SDP_RESPONSE_TIMEOUT
      "hangup",    \* the server closes its end
      "close" }    \* the user closes the session

Searches == {"SVC_SEARCH", "SVC_ATTR", "SVC_SEARCH_ATTR"}
Registrations == {"SVC_REGISTER", "SVC_REMOVE", "SVC_UPDATE"}

ASSUME SdpAssumption ==
    /\ Found \subseteq Nat /\ Weight \in 1..255 /\ Ids \in Nat \ {0} /\ MaxCalls \in Nat
    /\ Kinds \subseteq Searches \cup Registrations /\ May \subseteq Features
    /\ Cuts \subseteq Nat

VARIABLES
    session,   \* the session: its socket, transaction ids and asynchronous request
    call,      \* the call that waits for an answer, or NoCall
    rec,       \* the record the program registers
    asked,     \* requests on their way to the server
    answers,   \* answers on their way back; of one that is cut the beginning has been read
    content,   \* the items the server holds
    records,   \* the records registered with it
    done       \* history: what the calls came to

vars == <<session, call, rec, asked, answers, content, records, done>>

----------------------------------------------------------------------------
(* PDUs.  n is the call a request belongs to; tid counts the ids given so far, of  *)
(* which a header has the remainder. *)

Request(tid, kind, from, handle, n) ==
    [tid |-> tid, kind |-> kind, from |-> from, handle |-> handle, n |-> n]

Answer(r, items, more, handle, error) ==
    [ tid |-> r.tid, kind |-> r.kind, items |-> items, more |-> more, handle |-> handle,
      error |-> error, n |-> r.n, cut |-> FALSE ]

(* The handle of a record that was never registered, 0xffffffff. *)
NoHandle == -1
NewRecord == [handle |-> NoHandle, sure |-> TRUE]

(* amiss is a history: that the call took for its answer what was not a whole one   *)
(* ("torn"), or one whose id was given Ids ids before or after its own ("wrapped"). *)
NoCall == [n |-> 0, kind |-> "none", tid |-> 0, items |-> <<>>, sources |-> {}, amiss |-> {}]

(* The asynchronous request of a session: reqbuf, rsp_concat_buf and, for a      *)
(* search, the count of handles at its beginning, as its two bytes. *)
NoAsync ==
    [ n |-> 0, kind |-> "none", tid |-> 0, items |-> <<>>, count |-> <<0, 0>>, sources |-> {},
      amiss |-> {} ]

(* Calls are numbered by how many were made before. *)
MayStart == session.open /\ call = NoCall /\ session.calls < MaxCalls

sdp_gen_tid(s) == [s EXCEPT !.tid = @ + 1]

(* How a call ended: what it returned or gave its callback, and what failed. *)
Result(c, status, cause, count) ==
    [ n |-> c.n, kind |-> c.kind, status |-> status, cause |-> cause, items |-> c.items,
      count |-> count, sources |-> c.sources, amiss |-> c.amiss ]

Ends(c, status, cause) == done' = Append(done, Result(c, status, cause, <<0, 0>>))

----------------------------------------------------------------------------
(* The session.                                                             *)

(* The connection may be refused, and then the session is freed. *)
sdp_connect(local) ==
    /\ ~ session.open /\ session.calls = 0
    /\ session' = [session EXCEPT !.open = TRUE, !.local = local]
    /\ UNCHANGED <<call, rec, asked, answers, content, records, done>>

Closed_keeps_async(s) == [s EXCEPT !.open = FALSE, !.calls = MaxCalls]
Closed(s) == [s EXCEPT !.open = FALSE, !.calls = MaxCalls, !.async = NoAsync]

sdp_close ==
    /\ "close" \in May /\ session.open /\ call = NoCall
    /\ session' = Closed(session)
    /\ asked' = <<>> /\ answers' = <<>>
    /\ UNCHANGED <<call, rec, content, records, done>>

----------------------------------------------------------------------------
(* Calls that wait: sdp_service_search_req, sdp_service_attr_req,               *)
(* sdp_service_search_attr_req, sdp_device_record_register, _unregister and     *)
(* _update.  Each sends a request and waits in sdp_send_req_w4_rsp. *)

(* What is sent of a call: its first request or the next one for its parts. *)
SendRequest(c, from) ==
    \/ /\ session.up
       /\ call' = [c EXCEPT !.tid = session.tid]
       /\ asked' = Append(asked, Request(session.tid, c.kind, from, rec.handle, c.n))
       /\ UNCHANGED done
    \/ /\ "io_error" \in May \/ ~ session.up
       /\ call' = NoCall /\ Ends(c, -1, "io") /\ UNCHANGED asked

(* Only the local server registers records; its own has the handle 0. *)
Refused(kind) ==
    kind \in Registrations /\ (~ session.local \/ (kind # "SVC_REGISTER" /\ rec.handle = 0))

sdp_request(kind) ==
    /\ MayStart /\ ~ Refused(kind)
    /\ session' = [sdp_gen_tid(session) EXCEPT !.calls = @ + 1]
    /\ SendRequest([NoCall EXCEPT !.n = session.calls + 1, !.kind = kind], 0)
    /\ UNCHANGED <<rec, answers, content, records>>

(* sdp_send_req_w4_rsp takes what a read returns for the answer if it begins with  *)
(* the id of the request. *)
TidMatches_unchecked(tid, a) == TRUE
TidMatches(tid, a) == a.tid % Ids = tid % Ids

Wrapped(tid, a) == IF tid - a.tid >= Ids \/ a.tid - tid >= Ids THEN {"wrapped"} ELSE {}

(* What recv may return: n answers, and with cut a part of the next. *)
Recv(n, cut) ==
    /\ cut => n < Len(answers) /\ answers[n + 1].tid \in Cuts /\ ~ answers[n + 1].cut
    /\ IF session.local THEN n > 0 \/ cut ELSE n = 1 /\ ~ cut
    /\ answers' = IF cut
                  THEN <<[answers[n + 1] EXCEPT !.cut = TRUE]>> \o SubSeq(answers, n + 2, Len(answers))
                  ELSE SubSeq(answers, n + 1, Len(answers))

(* What bytes that are no whole answer to the request may be taken for. *)
Garbled(a, k, from, handle) ==
    [a EXCEPT !.items = SubSeq(a.items, 1, k), !.more = from, !.handle = handle]

Misread(a) ==
    { Garbled(a, k, from, handle) :
        k \in 0..Len(a.items), from \in 0..Len(content), handle \in 1..MaxCalls }

(* select() returns 0 after SDP_RESPONSE_TIMEOUT, or recv fails; it returns 0, and  *)
(* the code makes that EPROTO, when the server has closed its end.  What comes     *)
(* later is left for the next call to read. *)
ReadFails(cause) ==
    /\ answers # <<>> => Head(answers).cut
    /\ \/ cause = "ETIMEDOUT" /\ "silent" \in May
       \/ cause = "io" /\ "io_error" \in May
       \/ cause = "EPROTO" /\ ~ session.up

(* The record is known by the handle it was registered with, and freed when it   *)
(* has been removed; then the program makes a new one. *)
Registered_kept(kind, a, amiss) ==
    IF kind = "SVC_REGISTER" THEN [handle |-> a.handle, sure |-> amiss = {}] ELSE rec

Registered(kind, a, amiss) ==
    CASE kind = "SVC_REGISTER" -> [handle |-> a.handle, sure |-> amiss = {}]
      [] kind = "SVC_REMOVE"   -> NewRecord
      [] OTHER                 -> rec

(* A request that failed may have been carried out. *)
Unsure(kind) == IF kind = "SVC_REMOVE" THEN [rec EXCEPT !.sure = FALSE] ELSE rec

CallFails(cause) ==
    /\ call' = NoCall /\ Ends(call, -1, cause) /\ rec' = Unsure(call.kind)
    /\ UNCHANGED <<session, asked>>

(* A part is added to those before; a search that finds nothing fails, although the *)
(* comment on sdp_service_search_req says that it succeeds. *)
Taken(c, a, amiss) ==
    [c EXCEPT !.items = @ \o a.items, !.sources = @ \cup {a.n}, !.amiss = @ \cup amiss]

TakeAnswer(a, amiss) ==
    LET c == Taken(call, a, amiss) IN
    IF c.kind = "SVC_SEARCH" /\ a.items = <<>>
    THEN CallFails("none")
    ELSE IF c.kind \in Searches /\ a.more > 0
    THEN /\ session' = sdp_gen_tid(session)
         /\ SendRequest(c, a.more)
         /\ UNCHANGED rec
    ELSE /\ call' = NoCall /\ Ends(c, 0, "none") /\ rec' = Registered(c.kind, a, c.amiss)
         /\ UNCHANGED <<session, asked>>

(* The end of an answer fails by its first bytes, unless they happen to pass for a  *)
(* header.  The beginning of one fails by its length, unless it is a search's cut   *)
(* inside a handle or lacks only of its continuation state.  The searches do not    *)
(* look at the kind of an answer.  *)
MayPass(a, b, n) ==
    \/ a.cut
    \/ /\ TidMatches(call.tid, a) /\ ~ a.error /\ call.kind \in Searches
       /\ \/ n > 0 /\ a.kind # call.kind
          \/ n = 0 /\ call.kind = "SVC_SEARCH"
          \/ n = 0 /\ b.items = a.items /\ a.more > 0 /\ b.more > 0

sdp_read_rsp ==
    /\ call # NoCall /\ answers # <<>>
    /\ \E n \in 0..Len(answers), cut \in BOOLEAN :
         LET a == Head(answers)
             whole == n > 0 /\ ~ a.cut
         IN  /\ Recv(n, cut)
             /\ \/ ~ (whole /\ TidMatches(call.tid, a)) /\ CallFails("EPROTO")
                \/ whole /\ TidMatches(call.tid, a) /\ a.error /\ CallFails("refusal")
                \/ /\ whole /\ TidMatches(call.tid, a) /\ ~ a.error
                   /\ IF a.kind = call.kind
                      THEN TakeAnswer(a, Wrapped(call.tid, a))
                      ELSE CallFails("EPROTO")
                \/ \E b \in Misread(a) : MayPass(a, b, n) /\ TakeAnswer(b, {"torn"})
    /\ UNCHANGED <<content, records>>

sdp_read_rsp_fails ==
    /\ call # NoCall
    /\ \E cause \in {"ETIMEDOUT", "io", "EPROTO"} : ReadFails(cause) /\ CallFails(cause)
    /\ UNCHANGED <<answers, content, records>>

----------------------------------------------------------------------------
(* Calls with a callback: sdp_service_search_async, sdp_service_attr_async and    *)
(* sdp_service_search_attr_async; the program calls sdp_process for each answer   *)
(* until it returns -1.                                                     *)

SendAsync(s, t, from, status) ==
    \/ /\ s.up
       /\ session' = [sdp_gen_tid(s) EXCEPT !.async = [t EXCEPT !.tid = s.tid]]
       /\ asked' = Append(asked, Request(s.tid, t.kind, from, 0, t.n))
       /\ UNCHANGED done
    \/ /\ "io_error" \in May \/ ~ s.up
       /\ session' = [sdp_gen_tid(s) EXCEPT !.async = NoAsync]
       /\ Ends(t, status, "io") /\ UNCHANGED asked

(* One that is under way is overwritten, and never calls back. *)
sdp_service_async(kind) ==
    /\ MayStart /\ kind \in Searches
    /\ LET s == [session EXCEPT !.calls = @ + 1] IN
       SendAsync(s, [NoAsync EXCEPT !.n = s.calls, !.kind = kind], 0, -1)
    /\ UNCHANGED <<call, rec, answers, content, records>>

(* The count of a part is added to the first one's as it lies in memory, low     *)
(* byte last: the sum of the low bytes is not carried. *)
CountOf(n) == <<(n * Weight) \div 256, (n * Weight) % 256>>

AddCounts(p, q) ==
    LET sum == (p[1] + q[1] + 256 * (p[2] + q[2])) % 65536 IN <<sum % 256, sum \div 256>>

Concatenated(t, a, amiss) ==
    [t EXCEPT !.items = @ \o a.items, !.sources = @ \cup {a.n}, !.amiss = @ \cup amiss,
              !.count = IF t.items = <<>> THEN CountOf(Len(a.items)) ELSE AddCounts(@, CountOf(Len(a.items)))]

CallBack(t, status, cause) ==
    /\ done' = Append(done, Result(t, status, cause, t.count))
    /\ session' = [session EXCEPT !.async = NoAsync]
    /\ UNCHANGED asked

Process(a, amiss) ==
    LET t == Concatenated(session.async, a, amiss) IN
    IF a.kind \notin Searches THEN CallBack(session.async, 65535, "EPROTO")
    ELSE IF a.more > 0 THEN SendAsync(session, t, a.more, 65535)
    ELSE CallBack(t, 0, "none")

(* Unlike the calls that wait it wants exactly one answer, of the length its       *)
(* header says. *)
sdp_process ==
    /\ session.open /\ session.async # NoAsync /\ call = NoCall /\ answers # <<>>
    /\ \E n \in 0..Len(answers), cut \in BOOLEAN :
         LET a == Head(answers)
             one == n = 1 /\ ~ cut /\ ~ a.cut /\ TidMatches(session.async.tid, a)
         IN  /\ Recv(n, cut)
             /\ \/ ~ one /\ CallBack(session.async, 65535, "EPROTO")
                \/ one /\ a.error /\ CallBack(session.async, 1, "refusal")
                \/ one /\ ~ a.error /\ Process(a, Wrapped(session.async.tid, a))
                \/ a.cut /\ \E b \in Misread(a) : Process(b, {"torn"})
    /\ UNCHANGED <<call, rec, content, records>>

sdp_process_fails ==
    /\ session.open /\ session.async # NoAsync /\ call = NoCall
    /\ \E cause \in {"ETIMEDOUT", "io", "EPROTO"} :
         ReadFails(cause) /\ CallBack(session.async, 65535, cause)
    /\ UNCHANGED <<call, rec, answers, content, records>>

----------------------------------------------------------------------------
(* The server answers the requests in order; the continuation state is how far    *)
(* it has come.                                                             *)

Replies(a) ==
    /\ asked' = Tail(asked) /\ answers' = Append(answers, a)
    /\ UNCHANGED <<session, call, rec, content, done>>

ServerFinds ==
    /\ asked # <<>> /\ Head(asked).kind \in Searches
    /\ LET r == Head(asked)
           left == Len(content) - r.from
       IN  \E n \in (IF left = 0 THEN {0} ELSE 1..left) :
             Replies(Answer(r, SubSeq(content, r.from + 1, r.from + n),
                            IF n < left THEN r.from + n ELSE 0, 0, FALSE))
    /\ UNCHANGED records

ServerRegisters ==
    /\ asked # <<>> /\ Head(asked).kind \in Registrations
    /\ LET r == Head(asked)
       IN  CASE r.kind = "SVC_REGISTER" ->
                  \E handle \in {r.n, r.handle} \ {NoHandle} :
                     /\ Replies(Answer(r, <<>>, 0, handle, FALSE))
                     /\ records' = records \cup {handle}
             [] r.kind = "SVC_REMOVE" ->
                  /\ Replies(Answer(r, <<>>, 0, 0, r.handle \notin records))
                  /\ records' = records \ {r.handle}
             [] r.kind = "SVC_UPDATE" ->
                  Replies(Answer(r, <<>>, 0, 0, r.handle \notin records)) /\ UNCHANGED records

ServerRefuses ==
    /\ "refusal" \in May /\ asked # <<>>
    /\ Replies(Answer(Head(asked), <<>>, 0, 0, TRUE)) /\ UNCHANGED records

(* The server forgets the records of a connection that has gone. *)
ServerGoes ==
    /\ "hangup" \in May /\ session.open /\ session.up
    /\ session' = [session EXCEPT !.up = FALSE]
    /\ asked' = <<>> /\ records' = {}
    /\ UNCHANGED <<call, rec, answers, content, done>>

----------------------------------------------------------------------------
Init ==
    /\ session = [open |-> FALSE, local |-> FALSE, up |-> TRUE, tid |-> 0, calls |-> 0, async |-> NoAsync]
    /\ call = NoCall /\ rec = NewRecord
    /\ asked = <<>> /\ answers = <<>> /\ records = {} /\ done = <<>>
    /\ content \in {[i \in 1..n |-> i] : n \in Found}

Server == ServerFinds \/ ServerRegisters \/ ServerRefuses \/ ServerGoes

Waits == sdp_read_rsp \/ sdp_read_rsp_fails

Next ==
    \/ \E local \in BOOLEAN : sdp_connect(local)
    \/ \E kind \in Kinds : sdp_request(kind) \/ sdp_service_async(kind)
    \/ Waits \/ sdp_process \/ sdp_process_fails \/ sdp_close \/ Server

Spec == Init /\ [][Next]_vars

----------------------------------------------------------------------------
(* Properties.                                                              *)

(* A closed session keeps nothing of its request; the results are those the code *)
(* gives: 65535 is 0xffff, what a callback gets when the protocol was broken.   *)
TypeOK ==
    /\ call.kind \in Kinds \cup {"none"} /\ session.async.kind \in Kinds \cup {"none"}
    /\ session.tid \in Nat /\ session.calls \in 0..MaxCalls
    /\ ~ session.open => call = NoCall /\ session.async = NoAsync
    /\ rec.handle \in {NoHandle} \cup 1..MaxCalls
    /\ \A i \in DOMAIN done : done[i].status \in {-1, 0, 1, 65535}

Value(count) == 256 * count[1] + count[2]

(* No call ends twice.  One that took no part of an answer for one, nor an        *)
(* answer Ids ids away, has only answers to its own requests: all the server holds,  *)
(* once and in order, when it succeeds and the beginning of it when it fails.  The  *)
(* count of a search in parts is right up to 255 handles.  *)
AnswerWhole ==
    \A i \in DOMAIN done :
        LET d == done[i] IN
        /\ \A j \in DOMAIN done : done[j].n = d.n => j = i
        /\ d.amiss = {} =>
             /\ d.sources \subseteq {d.n}
             /\ d.kind \in Searches =>
                  /\ d.items = SubSeq(content, 1, Len(d.items))
                  /\ d.status = 0 => d.items = content
                  /\ Len(d.items) * Weight < 256 /\ d.count # <<0, 0>> =>
                       Value(d.count) = Len(d.items) * Weight

(* While the server is there, a record the program knows as registered is          *)
(* registered; only while a request to remove it waits, or after one has failed,    *)
(* or when it has its handle from no proper answer, the program cannot know.       *)
RecordKnown ==
    rec.handle # NoHandle /\ rec.sure /\ session.up /\ call.kind # "SVC_REMOVE" =>
        rec.handle \in records
=============================================================================
