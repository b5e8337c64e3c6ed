-------------------------------- MODULE Gatt --------------------------------
(***************************************************************************)
(* The GATT procedures of gatt.c: discovery of primary services, included   *)
(* services and characteristics, long reads, and writes that become long    *)
(* when the value does not fit.  A procedure is a chain of requests: the     *)
(* result callback of one sends the next, until the callback of the caller   *)
(* is called.  The requests go through one queue with one of them out at a   *)
(* time, as AttChannel promises.                                            *)
(*                                                                         *)
(* A callback is written as a function of the procedure and of the answer    *)
(* whose value is what the procedure becomes and what is sent.             *)
(***************************************************************************)
EXTENDS Naturals, Sequences, FiniteSets

CONSTANTS
    MaxHandle,     \* the last handle, 0xffff in the code
    BufLen,        \* the length of a PDU, what g_attrib_get_buffer returns
    Services,      \* the primary services of the peer in the order of handles
    Includes,      \* its included services, likewise
    Chars,         \* its characteristics, likewise
    ValueLen,      \* the length of the values, by the handle of the attribute
    Ranges,        \* the ranges of handles the application searches
    WriteLens,     \* the lengths of the values the application writes
    Kinds,         \* which procedures this instance begins
    MaxItems,      \* how many elements an answer holds at most
    MaxProcs,      \* bound: procedures begun
    May            \* what this instance lets happen, a subset of Features

Features ==
    { "error",     \* the peer refuses requests
      "garbled",   \* the peer sends answers no decoder takes
      "silent",    \* the peer does not answer, and the request times out
      "cancel",    \* the application cancels by the id it was given
      "io_error" } \* a read or a write fails, or the link goes

AllKinds == {"primary", "primary_uuid", "include", "char", "read", "write", "single"}

(* An element of a table: the handle it is at, the last handle it covers, its  *)
(* UUID, and whether the UUID has 128 bits and is not part of the answer.    *)
Item == [first : 1..MaxHandle, last : 1..MaxHandle, uuid : STRING, long : BOOLEAN]

Sorted(t) == \A i \in DOMAIN t, j \in DOMAIN t : i < j => t[i].last < t[j].first

ASSUME LimitsAssumption ==
    /\ MaxHandle \in Nat \ {0} /\ BufLen \in Nat /\ BufLen > 6
    /\ ValueLen \in [DOMAIN ValueLen -> Nat] /\ WriteLens \subseteq Nat
    /\ Ranges \subseteq (1..MaxHandle) \X (1..MaxHandle)
    /\ MaxItems \in Nat \ {0} /\ MaxProcs \in Nat

ASSUME PeerAssumption ==
    /\ Services \in Seq(Item) /\ Includes \in Seq(Item) /\ Chars \in Seq(Item)
    /\ Sorted(Services) /\ Sorted(Includes) /\ Sorted(Chars)
    /\ \A t \in {Services, Includes, Chars} : \A i \in DOMAIN t : t[i].first <= t[i].last
    /\ DOMAIN ValueLen \subseteq 1..MaxHandle
    /\ Kinds \subseteq AllKinds /\ May \subseteq Features

(* What is written fits in the attribute. *)
ASSUME WritesFitAssumption == \A n \in WriteLens, h \in DOMAIN ValueLen : n <= ValueLen[h]

VARIABLES
    procs,      \* the procedures begun, in order
    queue,      \* the commands of the attrib, in order
    sent,       \* whether the head of queue is out
    channel,    \* "open", "failing" while a timeout aborts commands, "stale"
    values,     \* the values of the peer's attributes
    prepared,   \* what the peer was asked to write and has not written yet
    blocked     \* a write failed, and nothing has woken the sender since

vars == <<procs, queue, sent, channel, values, prepared, blocked>>

LastOf(s) == s[Len(s)]
Least(a, b) == IF a < b THEN a ELSE b

----------------------------------------------------------------------------
(* Procedures and commands.                                                 *)

(* found: what was discovered or read so far; offset: how much was written;    *)
(* held: its heap object exists; refs: the references of that object, for the  *)
(* two kinds that count them; reported: what its callback was called with.    *)
(* History: flawed once an answer was an error or garbled, muted once it was   *)
(* cancelled, refused if it could not begin, beside if another write was under *)
(* way when it began.                                                       *)
Procedure(kind, uuid, handle, end, value) ==
    [ kind |-> kind, uuid |-> uuid, handle |-> handle, end |-> end, value |-> value,
      found |-> <<>>, offset |-> 0, err |-> "ok", refs |-> 0, held |-> TRUE,
      reported |-> <<>>, flawed |-> FALSE, muted |-> FALSE, refused |-> FALSE,
      beside |-> FALSE ]

(* own: the command has the id the caller of the procedure was given; func:    *)
(* its result callback was not cleared by a cancel.                         *)
Command(p, ask, from, to, data) ==
    [ proc |-> p, ask |-> ask, from |-> from, to |-> to, data |-> data,
      own |-> FALSE, func |-> TRUE ]

Own(c) == [c EXCEPT !.own = TRUE]

(* What a callback does: the procedure it leaves and the commands it sends. *)
Then(pr, commands) == [proc |-> pr, sends |-> commands]

Report(pr, status, data) ==
    [pr EXCEPT !.reported = Append(@, [status |-> status, data |-> data])]

(* discover_primary_free, discover_char_free after the callback. *)
ReportAndFree(pr, status, data) == [Report(pr, status, data) EXCEPT !.held = FALSE]

isd_ref(pr) == [pr EXCEPT !.refs = @ + 1]

isd_unref_each(pr) ==
    ReportAndFree([pr EXCEPT !.refs = @ - 1], pr.err, IF pr.err = "ok" THEN pr.found ELSE <<>>)

isd_unref_late(pr) ==
    IF pr.refs > 0
    THEN [pr EXCEPT !.refs = @ - 1]
    ELSE ReportAndFree([pr EXCEPT !.refs = 0], pr.err, IF pr.err = "ok" THEN pr.found ELSE <<>>)

isd_unref(pr) ==
    IF pr.refs > 1
    THEN [pr EXCEPT !.refs = @ - 1]
    ELSE ReportAndFree([pr EXCEPT !.refs = 0], pr.err,
                       IF pr.err = "ok" THEN pr.found ELSE <<>>)

read_long_destroy_first(pr) == [pr EXCEPT !.refs = @ - 1, !.held = FALSE]
read_long_destroy(pr) == [pr EXCEPT !.refs = @ - 1, !.held = (pr.refs > 1)]

(* An answer: status 0 is "ok"; a garbled one has status 0 and no decoding. *)
Answer(status, items) == [status |-> status, items |-> items]
Failed(a) == a.status \notin {"ok", "garbled"}

----------------------------------------------------------------------------
(* Discovery.                                                               *)

encode_discover_primary(p, pr, start) ==
    Command(p, pr.kind, start, MaxHandle, <<>>)

(* Attribute not found is how a discovery ends. *)
primary_status(status) == IF status = "not_found" THEN "ok" ELSE status

(* The first handle after those an answer told of, and whether there is one:   *)
(* the sum has 16 bits.                                                     *)
Following_same(handle) == handle
Following(handle) == (handle + 1) % (MaxHandle + 1)

IsLast_never(handle) == FALSE
IsLast(handle) == handle = MaxHandle

primary_by_uuid_cb(p, pr, a) ==
    LET ranges == IF a.status = "ok" THEN a.items ELSE <<>>
        all    == pr.found \o ranges
    IN  CASE Failed(a)      -> Then(ReportAndFree(pr, primary_status(a.status), pr.found), <<>>)
          [] ~ Failed(a) /\ ranges = <<>>
                            -> Then(ReportAndFree(pr, "ok", pr.found), <<>>)
          [] OTHER ->
               IF IsLast(LastOf(ranges).last)
               THEN Then(ReportAndFree(pr, "ok", all), <<>>)
               ELSE Then([pr EXCEPT !.found = all],
                         <<encode_discover_primary(p, pr, Following(LastOf(ranges).last))>>)

primary_all_cb(p, pr, a) ==
    LET all == pr.found \o a.items
        end == IF a.items = <<>> THEN 0 ELSE LastOf(a.items).last
    IN  CASE Failed(a)             -> Then(ReportAndFree(pr, primary_status(a.status), pr.found), <<>>)
          [] a.status = "garbled"  -> Then(ReportAndFree(pr, "io", pr.found), <<>>)
          [] OTHER ->
               IF IsLast(end)
               THEN Then(ReportAndFree(pr, "ok", all), <<>>)
               ELSE Then([pr EXCEPT !.found = all],
                         <<encode_discover_primary(p, pr, Following(end))>>)

(* Included services: one search, and a query for each UUID of 128 bits. *)
find_included(p, pr, start) == Command(p, "include", start, pr.end, <<>>)

(* The query carries the service whose UUID it asks for. *)
resolve_included_uuid(p, incl) == Command(p, "resolve", incl.first, incl.first, <<incl>>)

isd_error(pr, err) == [pr EXCEPT !.err = IF @ = "ok" THEN err ELSE @]

resolve_included_uuid_cb(pr, c, a) ==
    CASE Failed(a)            -> Then(isd_unref(isd_error(pr, a.status)), <<>>)
      [] a.status = "garbled" -> Then(isd_unref(isd_error(pr, "io")), <<>>)
      [] OTHER                -> Then(isd_unref([pr EXCEPT !.found = @ \o c.data]), <<>>)

(* The request of the search holds a reference until it is destroyed, which is *)
(* after this callback. *)
find_included_cb(p, pr, a) ==
    LET last    == IF a.items = <<>> THEN pr.end ELSE LastOf(a.items).first
        long    == a.items # <<>> /\ a.items[1].long
        queries == IF long THEN [i \in DOMAIN a.items |-> resolve_included_uuid(p, a.items[i])] ELSE <<>>
        next    == IF last < pr.end THEN <<find_included(p, pr, Following(last))>> ELSE <<>>
    IN  CASE Failed(a)             -> Then(isd_error(pr, primary_status(a.status)), <<>>)
          [] a.status = "garbled"  -> Then(isd_error(pr, "io"), <<>>)
          [] OTHER -> Then([pr EXCEPT !.refs = @ + Len(queries) + Len(next),
                                      !.found = IF long THEN @ ELSE @ \o a.items],
                           queries \o next)

(* The loop over the declarations in an answer passes over other UUIDs. *)
OfUuid(items, uuid) ==
    LET kept[n \in 0..Len(items)] ==
          IF n = 0 THEN <<>>
          ELSE IF uuid \in {"any", items[n].uuid} THEN Append(kept[n - 1], items[n]) ELSE kept[n - 1]
    IN  kept[Len(items)]

(* Characteristics: an error after the first part is not reported. *)
char_discovered_cb(p, pr, a) ==
    LET all    == pr.found \o OfUuid(a.items, pr.uuid)
        last   == IF a.items = <<>> THEN 0 ELSE LastOf(a.items).first
        ended(found, err) ==
            Then(ReportAndFree(pr, IF found # <<>> THEN "ok" ELSE err, found), <<>>)
    IN  CASE Failed(a)             -> ended(pr.found, a.status)
          [] a.status = "garbled"  -> ended(pr.found, "io")
          [] OTHER ->
               IF last # 0 /\ last + 1 < pr.end
               THEN Then([pr EXCEPT !.found = all], <<Command(p, "char", Following(last), pr.end, <<>>)>>)
               ELSE ended(all, "not_found")

----------------------------------------------------------------------------
(* Long reads.  found is the buffer without its first byte, the opcode; rlen   *)
(* is the length of a PDU.  The next part is sent under the id of the first.  *)

rlen(a) == 1 + Len(a.items)

read_blob_request_size(p, pr) == Own(Command(p, "blob", pr.handle, Len(pr.found) + 1, <<>>))
read_blob_request(p, pr) == Own(Command(p, "blob", pr.handle, Len(pr.found), <<>>))

(* An error ends the read as well as the last part does. *)
read_blob_helper(p, pr, a) ==
    LET all == [pr EXCEPT !.found = @ \o a.items] IN
    IF Failed(a) \/ rlen(a) = 1 THEN Then(Report(pr, "ok", pr.found), <<>>)
    ELSE IF rlen(a) < BufLen     THEN Then(Report(all, "ok", all.found), <<>>)
    ELSE Then([all EXCEPT !.refs = @ + 1], <<read_blob_request(p, all)>>)

read_char_helper(p, pr, a) ==
    LET all == [pr EXCEPT !.found = a.items] IN
    IF Failed(a) \/ rlen(a) < BufLen
    THEN Then(Report(pr, a.status, a.items), <<>>)
    ELSE Then([all EXCEPT !.refs = @ + 1], <<read_blob_request(p, all)>>)

----------------------------------------------------------------------------
(* Writes.                                                                  *)

(* The header of a Write Request takes 3 bytes, of a Prepare Write Request 5. *)
FitsOnePdu(value) == Len(value) <= BufLen - 3

prepare_write_first_part(p, pr) ==
    Command(p, "prepare", pr.handle, pr.offset,
            SubSeq(pr.value, 1, Least(Len(pr.value) - pr.offset, BufLen - 5)))

prepare_write(p, pr) ==
    Command(p, "prepare", pr.handle, pr.offset,
            SubSeq(pr.value, pr.offset + 1, Least(Len(pr.value), pr.offset + BufLen - 5)))

execute_write(p) == Command(p, "execute", 0, 0, <<>>)

(* How much of the value the peer says it took. *)
Taken(a) == Len(a.items)

(* A refused part ends the write and leaves its data behind; the object is     *)
(* freed before the last request is answered.                               *)
prepare_write_cb(p, pr, a) ==
    LET after == [pr EXCEPT !.offset = @ + Taken(a)] IN
    IF Failed(a) THEN Then(Report(pr, a.status, <<>>), <<>>)
    ELSE IF after.offset = Len(pr.value)
         THEN Then([after EXCEPT !.held = FALSE], <<execute_write(p)>>)
         ELSE Then(after, <<prepare_write(p, after)>>)

(* The callback of the caller is the result callback of the request itself. *)
direct_cb(pr, a) == Then(Report(pr, a.status, a.items), <<>>)

----------------------------------------------------------------------------
(* What received_data and disconnect_timeout do with the head of the queue:    *)
(* its callback unless cleared, then command_destroy with its notify.         *)

Callback(c, pr, a) ==
    CASE c.ask = "primary"      -> primary_all_cb(c.proc, pr, a)
      [] c.ask = "primary_uuid" -> primary_by_uuid_cb(c.proc, pr, a)
      [] c.ask = "include"      -> find_included_cb(c.proc, pr, a)
      [] c.ask = "resolve"      -> resolve_included_uuid_cb(pr, c, a)
      [] c.ask = "char"         -> char_discovered_cb(c.proc, pr, a)
      [] c.ask = "read"         -> read_char_helper(c.proc, pr, a)
      [] c.ask = "blob"         -> read_blob_helper(c.proc, pr, a)
      [] c.ask = "prepare"      -> prepare_write_cb(c.proc, pr, a)
      [] c.ask \in {"single", "write", "execute"} -> direct_cb(pr, a)

Notify(c, pr) ==
    CASE c.ask \in {"read", "blob"} -> read_long_destroy(pr)
      [] c.ask = "include"          -> isd_unref(pr)
      [] OTHER                      -> pr

Ending(c, a) == c.ask \in {"primary", "primary_uuid", "include", "char"} /\ a.status = "not_found"

(* The head is done with: commands with the id of a long read go to the head,  *)
(* all others to the tail.                                                  *)
HandleHead(a) ==
    LET c    == queue[1]
        pr   == [procs[c.proc] EXCEPT !.flawed = @ \/ (a.status # "ok" /\ ~ Ending(c, a))]
        then == IF c.func THEN Callback(c, pr, a) ELSE Then(pr, <<>>)
        own  == then.sends # <<>> /\ then.sends[1].own
    IN  /\ procs' = [procs EXCEPT ![c.proc] = Notify(c, then.proc)]
        /\ queue' = IF own THEN then.sends \o Tail(queue) ELSE Tail(queue) \o then.sends
        /\ sent' = FALSE

----------------------------------------------------------------------------
(* The application begins a procedure.  On a stale channel g_attrib_send       *)
(* returns 0: only the long read frees its object then.  A command wakes the   *)
(* sender if the queue was empty.                                           *)

HasObject(pr) == pr.kind # "single" /\ ~ (pr.kind = "write" /\ FitsOnePdu(pr.value))

Begin(pr, c) ==
    /\ Len(procs) < MaxProcs /\ pr.kind \in Kinds
    /\ IF channel = "stale"
       THEN /\ procs' = Append(procs, [pr EXCEPT !.refused = TRUE,
                                                 !.held = HasObject(pr) /\ pr.kind # "read"])
            /\ UNCHANGED <<queue, blocked>>
       ELSE /\ procs' = Append(procs, [pr EXCEPT !.held = HasObject(pr)])
            /\ queue' = Append(queue, Own(c))
            /\ blocked' = (blocked /\ queue # <<>>)
    /\ UNCHANGED <<sent, channel, values, prepared>>

Me == Len(procs) + 1

gatt_discover_primary ==
    \E kind \in {"primary", "primary_uuid"} :
    \E uuid \in IF kind = "primary" THEN {"any"} ELSE {Services[i].uuid : i \in DOMAIN Services} :
        LET pr == Procedure(kind, uuid, 1, MaxHandle, <<>>)
        IN  Begin(pr, encode_discover_primary(Me, pr, 1))

gatt_find_included ==
    \E r \in Ranges :
        LET pr == isd_ref(Procedure("include", "any", r[1], r[2], <<>>))
        IN  Begin(pr, find_included(Me, pr, r[1]))

gatt_discover_char ==
    \E r \in Ranges, uuid \in {"any"} \cup {Chars[i].uuid : i \in DOMAIN Chars} :
        Begin(Procedure("char", uuid, r[1], r[2], <<>>), Command(Me, "char", r[1], r[2], <<>>))

gatt_read_char ==
    \E h \in DOMAIN ValueLen :
        LET pr == Procedure("read", "any", h, h, <<>>)
        IN  Begin(IF channel = "stale" THEN pr ELSE [pr EXCEPT !.refs = 1],
                  Command(Me, "read", h, 0, <<>>))

Writing == \E q \in DOMAIN procs : procs[q].kind = "write" /\ procs[q].reported = <<>>

gatt_write_char ==
    \E h \in DOMAIN ValueLen, n \in WriteLens :
        LET value == [i \in 1..n |-> <<Me, i>>]
            pr    == [Procedure("write", "any", h, h, value) EXCEPT !.beside = Writing]
        IN  Begin(pr, IF FitsOnePdu(value) THEN Command(Me, "write", h, 0, value)
                                           ELSE prepare_write(Me, pr))

(* gatt_read_char_by_uuid, gatt_exchange_mtu, gatt_find_info. *)
SingleRequest ==
    Begin(Procedure("single", "any", 1, MaxHandle, <<>>), Command(Me, "single", 1, MaxHandle, <<>>))

(* g_attrib_cancel with the id the procedure returned: what is out stays in    *)
(* the queue without its callback, what waits is destroyed.                 *)
Cancel(p) ==
    /\ "cancel" \in May
    /\ \E i \in DOMAIN queue :
          /\ queue[i].proc = p /\ queue[i].own /\ queue[i].func
          /\ LET pr == [procs[p] EXCEPT !.muted = TRUE] IN
             IF i = 1 /\ sent
             THEN /\ queue' = [queue EXCEPT ![1].func = FALSE]
                  /\ procs' = [procs EXCEPT ![p] = pr]
             ELSE /\ queue' = SubSeq(queue, 1, i - 1) \o SubSeq(queue, i + 1, Len(queue))
                  /\ procs' = [procs EXCEPT ![p] = Notify(queue[i], pr)]
    /\ UNCHANGED <<sent, channel, values, prepared, blocked>>

----------------------------------------------------------------------------
(* The queue sends its head, and a request that gets no answer times out, as   *)
(* in AttChannel.                                                           *)

Waiting == channel = "open" /\ queue # <<>> /\ ~ sent

Transmit ==
    /\ Waiting /\ ~ blocked
    /\ sent' = TRUE
    /\ UNCHANGED <<procs, queue, channel, values, prepared, blocked>>

(* can_write_data removes its source when the write fails or the link is gone, *)
(* with nothing out and so no timer. *)
WriteFails ==
    /\ "io_error" \in May /\ Waiting /\ ~ blocked
    /\ blocked' = TRUE
    /\ UNCHANGED <<procs, queue, sent, channel, values, prepared>>

(* A read that fails wakes the sender for what is queued. *)
ReadFails ==
    /\ "io_error" \in May /\ Waiting /\ blocked
    /\ blocked' = FALSE
    /\ UNCHANGED <<procs, queue, sent, channel, values, prepared>>

Expire ==
    /\ "silent" \in May /\ sent
    /\ HandleHead(Answer("timeout", <<>>))
    /\ channel' = "failing"
    /\ UNCHANGED <<values, prepared, blocked>>

Abort ==
    /\ channel = "failing" /\ queue # <<>>
    /\ HandleHead(Answer("aborted", <<>>))
    /\ UNCHANGED <<channel, values, prepared, blocked>>

Close ==
    /\ channel = "failing" /\ queue = <<>>
    /\ channel' = "stale"
    /\ UNCHANGED <<procs, queue, sent, values, prepared, blocked>>

----------------------------------------------------------------------------
(* The peer takes requests in order and answers what it has.                *)

Asked(asks) == channel = "open" /\ sent /\ queue[1].ask \in asks

Table(ask) == CASE ask = "include" -> Includes [] ask = "char" -> Chars [] OTHER -> Services

(* Where the elements in the range are in the table. *)
Matching(c) ==
    {i \in DOMAIN Table(c.ask) :
        /\ Table(c.ask)[i].first \in c.from..c.to
        /\ c.ask = "primary_uuid" => Table(c.ask)[i].uuid = procs[c.proc].uuid}

(* The first n of them, in order, if they have one length as an answer demands. *)
Leading(c, n) ==
    {f \in [1..n -> Matching(c)] :
        /\ \A j, k \in 1..n : j < k => f[j] < f[k]
        /\ \A i \in Matching(c), j \in 1..n : i < f[j] => \E k \in 1..n : f[k] = i
        /\ \A j \in 1..n : Table(c.ask)[f[j]].long = Table(c.ask)[f[1]].long}

(* The peer gives as many as it likes. *)
TableAnswers(c) ==
    IF Matching(c) = {} THEN {Answer("not_found", <<>>)}
    ELSE UNION {{Answer("ok", [j \in 1..n |-> Table(c.ask)[f[j]]]) : f \in Leading(c, n)} :
                  n \in 1..MaxItems}

PeerAnswersTable ==
    /\ Asked({"primary", "primary_uuid", "include", "char"})
    /\ \E a \in TableAnswers(queue[1]) : HandleHead(a)
    /\ UNCHANGED <<channel, values, prepared, blocked>>

PeerAnswersOther ==
    /\ Asked({"resolve", "single"})
    /\ HandleHead(Answer("ok", <<>>))
    /\ UNCHANGED <<channel, values, prepared, blocked>>

PeerAnswersRead ==
    /\ Asked({"read", "blob"})
    /\ LET c == queue[1]
           v == values[c.from]
       IN  HandleHead(Answer("ok", SubSeq(v, c.to + 1, Least(Len(v), c.to + BufLen - 1))))
    /\ UNCHANGED <<channel, values, prepared, blocked>>

(* value v with data written from offset on. *)
Overlay(v, offset, data) ==
    [i \in DOMAIN v |-> IF i - offset \in DOMAIN data THEN data[i - offset] ELSE v[i]]

Written(c) == [values EXCEPT ![c.from] = Overlay(@, c.to, c.data)]

PeerAnswersWrite ==
    /\ Asked({"write"})
    /\ values' = Written(queue[1])
    /\ HandleHead(Answer("ok", <<>>))
    /\ UNCHANGED <<channel, prepared, blocked>>

PeerAnswersPrepare ==
    /\ Asked({"prepare"})
    /\ prepared' = Append(prepared, queue[1])
    /\ HandleHead(Answer("ok", queue[1].data))
    /\ UNCHANGED <<channel, values, blocked>>

(* All that is prepared is written, in order, whoever prepared it. *)
Executed ==
    LET after[k \in 0..Len(prepared)] ==
          IF k = 0 THEN values
          ELSE LET c == prepared[k]
               IN  [after[k - 1] EXCEPT ![c.from] = Overlay(@, c.to, c.data)]
    IN  after[Len(prepared)]

PeerAnswersExecute ==
    /\ Asked({"execute"})
    /\ values' = Executed /\ prepared' = <<>>
    /\ HandleHead(Answer("ok", <<>>))
    /\ UNCHANGED <<channel, blocked>>

(* A refused execution drops what was prepared; nothing else does. *)
PeerRefuses ==
    /\ "error" \in May /\ channel = "open" /\ sent
    /\ prepared' = IF queue[1].ask = "execute" THEN <<>> ELSE prepared
    /\ HandleHead(Answer("error", <<>>))
    /\ UNCHANGED <<channel, values, blocked>>

PeerGarbles ==
    /\ "garbled" \in May
    /\ Asked({"primary", "primary_uuid", "include", "resolve", "char"})
    /\ HandleHead(Answer("garbled", <<>>))
    /\ UNCHANGED <<channel, values, prepared, blocked>>

----------------------------------------------------------------------------
Init ==
    /\ procs = <<>> /\ queue = <<>> /\ sent = FALSE /\ channel = "open"
    /\ values = [h \in DOMAIN ValueLen |-> [i \in 1..ValueLen[h] |-> <<0, i>>]]
    /\ prepared = <<>> /\ blocked = FALSE

Starts == gatt_discover_primary \/ gatt_find_included \/ gatt_discover_char
            \/ gatt_read_char \/ gatt_write_char \/ SingleRequest

(* The head leaves the queue: by an answer, or by the timer if none comes. *)
Completes == PeerAnswersTable \/ PeerAnswersOther \/ PeerAnswersRead \/ PeerAnswersWrite
               \/ PeerAnswersPrepare \/ PeerAnswersExecute \/ PeerRefuses \/ PeerGarbles
               \/ Expire

Next == Starts \/ (\E p \in DOMAIN procs : Cancel(p)) \/ Transmit \/ Completes \/ Abort \/ Close
          \/ WriteFails \/ ReadFails

Spec == Init /\ [][Next]_vars

(* A ready source is dispatched; the timer runs out if the peer stays silent. *)
FairSpec == Spec /\ WF_vars(Transmit) /\ WF_vars(Completes) /\ WF_vars(Abort) /\ WF_vars(Close)

----------------------------------------------------------------------------
(* Properties.                                                              *)

CommandsOf(p) == {i \in DOMAIN queue : queue[i].proc = p}
Over(p) == CommandsOf(p) = {}

TypeOK ==
    /\ \A p \in DOMAIN procs : procs[p].kind \in Kinds /\ procs[p].refs \in Nat
    /\ \A i \in DOMAIN queue :
          /\ queue[i].proc \in DOMAIN procs
          /\ queue[i].from \in 0..MaxHandle
          /\ queue[i].ask \in {"primary", "primary_uuid", "include", "char"} => queue[i].from # 0
    /\ channel \in {"open", "failing", "stale"}
    /\ sent => queue # <<>> /\ channel = "open"

(* The callback of a procedure comes once, when nothing of it is left in the   *)
(* queue and not before, whatever is answered and whenever the channel fails;  *)
(* after a cancel it does not come, except that of a search for included      *)
(* services, which its notify calls. *)
CalledBackOnce ==
    \A p \in DOMAIN procs :
        LET n == Len(procs[p].reported) IN
        CASE procs[p].refused -> n = 0
          [] procs[p].muted   -> n = IF procs[p].kind = "include" /\ Over(p) THEN 1 ELSE 0
          [] OTHER            -> n = IF Over(p) THEN 1 ELSE 0

(* The heap object of a procedure exists as long as a request may call back    *)
(* with it, and no longer, and the two counts of references are exact.  Three  *)
(* ways leave it behind: a cancelled discovery or long write, a long write     *)
(* the peer refused, and any but a long read that could not begin.          *)
ObjectsExact ==
    \A p \in DOMAIN procs :
        LET pr == procs[p]
            lost == \/ pr.refused
                    \/ pr.muted /\ pr.kind \notin {"read", "include"}
                    \/ pr.kind = "write" /\ pr.flawed
        IN  /\ ~ Over(p) /\ HasObject(pr) /\ ~ lost
                  => pr.held \/ \E i \in CommandsOf(p) : queue[i].ask = "execute"
            /\ Over(p) /\ ~ lost => ~ pr.held
            /\ pr.kind \in {"include", "read"} /\ ~ pr.refused
                  => pr.refs = Cardinality({i \in CommandsOf(p) :
                                  queue[i].ask \in {"include", "resolve", "read", "blob"}})

(* What a discovery must find, and what it reported. *)
ToFind(pr) ==
    {e \in {Table(pr.kind)[i] : i \in DOMAIN Table(pr.kind)} :
        /\ e.first \in pr.handle..pr.end
        /\ pr.kind = "primary_uuid" => e.uuid = pr.uuid
        /\ pr.kind = "char" => pr.uuid \in {"any", e.uuid}}

Found(pr) == {pr.reported[1].data[i] : i \in DOMAIN pr.reported[1].data}

Distinct(s) == \A i, j \in DOMAIN s : s[i] = s[j] => i = j

(* A discovery whose requests were all answered reports what the peer has in   *)
(* the range, each element once, and nothing else, however the answers are cut *)
(* into parts and whatever else goes through the queue; in the order of        *)
(* handles, but for included services, which come as their UUIDs do.  A        *)
(* characteristic that is declared at the very end of the range, with its      *)
(* value outside, may be found or not: it depends on how the peer splits its   *)
(* answers.                                                                 *)
DiscoveryExact ==
    \A p \in DOMAIN procs :
        LET pr == procs[p] IN
        /\ pr.kind \in {"primary", "primary_uuid", "include", "char"}
        /\ pr.reported # <<>> /\ ~ pr.flawed /\ ~ pr.muted
        => /\ IF pr.kind = "include" THEN Distinct(pr.reported[1].data)
                                     ELSE Sorted(pr.reported[1].data)
           /\ Found(pr) \subseteq ToFind(pr)
           /\ \A e \in ToFind(pr) : e \in Found(pr) \/ (pr.kind = "char" /\ e.first = pr.end)

(* A read reports the bytes of the value in their places, without a gap or a   *)
(* repetition, and all of them if no part of it was refused. *)
ReadInOrder ==
    \A p \in DOMAIN procs :
        LET pr == procs[p] IN
        pr.kind = "read" /\ pr.reported # <<>> =>
            LET data == pr.reported[1].data IN
            /\ \A i \in DOMAIN data : data[i][2] = i
            /\ ~ pr.flawed => Len(data) = ValueLen[pr.handle]

(* When a write reports success the attribute holds the whole value, written   *)
(* in parts or not, and also when parts of an earlier write that failed were   *)
(* still prepared.  Not so for two writes at a time: the peer prepares what    *)
(* both send in one place, and when it refuses to execute for the one it drops *)
(* the parts of the other, which is then executed with success and no effect.  *)
WrittenWhole ==
    [][\A p \in DOMAIN procs :
         LET pr == procs'[p] IN
         /\ pr.kind = "write" /\ procs[p].reported = <<>> /\ pr.reported # <<>>
         /\ pr.reported[1].status = "ok" /\ ~ pr.beside
         /\ \A q \in DOMAIN procs : q > p => procs[q].kind # "write"
         => SubSeq(values'[pr.handle], 1, Len(pr.value)) = pr.value]_vars

(* The caller of every procedure that begins hears of it in the end, unless it *)
(* cancels: the peer answers in parts, refuses, sends what cannot be decoded,  *)
(* or says nothing; unless writes fail for ever, or one fails and nothing      *)
(* wakes the sender after it.  A request of the chain that is blocked so has   *)
(* no timer, and its procedure hangs.  A failed write alone is no excuse once  *)
(* the sender was woken.                                                    *)
ProceduresEnd ==
    \A p \in 1..MaxProcs :
        (p \in DOMAIN procs) ~>
        (\/ blocked
         \/ p \in DOMAIN procs /\ (procs[p].reported # <<>> \/ procs[p].refused \/ procs[p].muted))
=============================================================================
