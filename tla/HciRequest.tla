----------------------------- MODULE HciRequest -----------------------------
(***************************************************************************)
(* hci_send_req of hci.c and the functions that call it with one command     *)
(* each.  A request puts its own filter on the socket, sends the command and   *)
(* reads events until one of them is its answer, an error or too many; then    *)
(* it puts the filter back.  The socket also carries the answers that came    *)
(* after an earlier request had given up, and the events of others.          *)
(***************************************************************************)
EXTENDS HciTables, Sequences

CONSTANTS
    Programs,      \* the sequences of functions the program may call
    Targets,       \* the links and devices that commands and events are about
    Times,         \* the times a call may wait for, in ticks of 10 ms
    Tries,         \* how many events a request reads, 10 in the code
    OtherEvents,   \* the events that come on their own
    MaxOthers,     \* bound: how many of those
    May            \* what this instance lets happen, a subset of Features

Features ==
    { "io_error",  \* sending, reading or setting an option fails
      "refusal",   \* the controller refuses commands
      "silent" }   \* the controller takes longer than a request waits

VARIABLES
    filter,     \* the event filter of the socket
    saved,      \* the filter the request found
    call,       \* the request under way, or NoCall
    inbox,      \* the events the socket holds
    busy,       \* the commands the controller is carrying out
    others,     \* how many events came on their own
    results     \* history: what the calls came to

vars == <<filter, saved, call, inbox, busy, others, results>>

Least(a, b) == IF a < b THEN a ELSE b

----------------------------------------------------------------------------
(* The requests: group, command, the event that answers it ("NONE" if that is  *)
(* the completion of the command), the size of the parameters, of the buffer   *)
(* for the answer, and how much of the buffer the function reads.            *)

R(group, command, event, clen, rlen, reads) ==
    [ group |-> group, command |-> command, event |-> event,
      clen |-> clen, rlen |-> rlen, reads |-> reads ]

(* The number of codes hci_write_current_iac_lap writes: any up to 64. *)
NumIac == 64

ConnectionRequests ==
    [ hci_create_connection |-> R("LINK_CTL", "CREATE_CONN", "CONN_COMPLETE", 13, 11, 3),
      hci_disconnect |-> R("LINK_CTL", "DISCONNECT", "DISCONN_COMPLETE", 3, 4, 1),
      hci_le_add_white_list |-> R("LE_CTL", "LE_ADD_DEVICE_TO_WHITE_LIST", "NONE", 7, 1, 1),
      hci_le_rm_white_list |-> R("LE_CTL", "LE_REMOVE_DEVICE_FROM_WHITE_LIST", "NONE", 7, 1, 1) ]

WhiteListRequests ==
    [ hci_le_read_white_list_size |-> R("LE_CTL", "LE_READ_WHITE_LIST_SIZE", "NONE", 0, 2, 2),
      hci_le_clear_white_list |-> R("LE_CTL", "LE_CLEAR_WHITE_LIST", "NONE", 0, 1, 1),
      hci_read_local_name |-> R("HOST_CTL", "READ_LOCAL_NAME", "NONE", 0, 249, 249) ]

NameRequests ==
    [ hci_write_local_name |-> R("HOST_CTL", "CHANGE_LOCAL_NAME", "NONE", 248, 0, 0),
      hci_read_remote_name_with_clock_offset |-> R("LINK_CTL", "REMOTE_NAME_REQ", "REMOTE_NAME_REQ_COMPLETE", 10, 255, 255),
      hci_read_remote_name_cancel |-> R("LINK_CTL", "REMOTE_NAME_REQ_CANCEL", "NONE", 6, 0, 0),
      hci_read_remote_version |-> R("LINK_CTL", "READ_REMOTE_VERSION", "READ_REMOTE_VERSION_COMPLETE", 2, 8, 8) ]

RemoteRequests ==
    [ hci_read_remote_features |-> R("LINK_CTL", "READ_REMOTE_FEATURES", "READ_REMOTE_FEATURES_COMPLETE", 2, 11, 11),
      hci_read_remote_ext_features |-> R("LINK_CTL", "READ_REMOTE_EXT_FEATURES", "READ_REMOTE_EXT_FEATURES_COMPLETE", 3, 13, 13),
      hci_read_clock_offset |-> R("LINK_CTL", "READ_CLOCK_OFFSET", "READ_CLOCK_OFFSET_COMPLETE", 2, 5, 5),
      hci_read_local_version |-> R("INFO_PARAM", "READ_LOCAL_VERSION", "NONE", 0, 9, 9) ]

LocalRequests ==
    [ hci_read_local_commands |-> R("INFO_PARAM", "READ_LOCAL_COMMANDS", "NONE", 0, 65, 65),
      hci_read_local_features |-> R("INFO_PARAM", "READ_LOCAL_FEATURES", "NONE", 0, 9, 9),
      hci_read_local_ext_features |-> R("INFO_PARAM", "READ_LOCAL_EXT_FEATURES", "NONE", 1, 11, 11),
      hci_read_bd_addr |-> R("INFO_PARAM", "READ_BD_ADDR", "NONE", 0, 7, 7),
      hci_read_class_of_dev |-> R("HOST_CTL", "READ_CLASS_OF_DEV", "NONE", 0, 4, 4) ]

SettingRequests ==
    [ hci_write_class_of_dev |-> R("HOST_CTL", "WRITE_CLASS_OF_DEV", "NONE", 3, 0, 0),
      hci_read_voice_setting |-> R("HOST_CTL", "READ_VOICE_SETTING", "NONE", 0, 3, 3),
      hci_write_voice_setting |-> R("HOST_CTL", "WRITE_VOICE_SETTING", "NONE", 2, 0, 0),
      hci_read_current_iac_lap |-> R("HOST_CTL", "READ_CURRENT_IAC_LAP", "NONE", 0, 194, 194),
      hci_write_current_iac_lap |-> R("HOST_CTL", "WRITE_CURRENT_IAC_LAP", "NONE", 3 * NumIac + 1, 0, 0),
      hci_read_stored_link_key |-> R("HOST_CTL", "READ_STORED_LINK_KEY", "NONE", 7, 0, 0) ]

LinkKeyRequests ==
    [ hci_write_stored_link_key |-> R("HOST_CTL", "WRITE_STORED_LINK_KEY", "NONE", 23, 0, 0),
      hci_delete_stored_link_key |-> R("HOST_CTL", "DELETE_STORED_LINK_KEY", "NONE", 7, 0, 0),
      hci_authenticate_link |-> R("LINK_CTL", "AUTH_REQUESTED", "AUTH_COMPLETE", 2, 3, 1),
      hci_encrypt_link |-> R("LINK_CTL", "SET_CONN_ENCRYPT", "ENCRYPT_CHANGE", 3, 4, 1),
      hci_change_link_key |-> R("LINK_CTL", "CHANGE_CONN_LINK_KEY", "CHANGE_CONN_LINK_KEY_COMPLETE", 2, 3, 1) ]

ModeRequests ==
    [ hci_switch_role |-> R("LINK_POLICY", "SWITCH_ROLE", "ROLE_CHANGE", 7, 8, 1),
      hci_park_mode |-> R("LINK_POLICY", "PARK_MODE", "MODE_CHANGE", 6, 6, 1),
      hci_exit_park_mode |-> R("LINK_POLICY", "EXIT_PARK_MODE", "MODE_CHANGE", 2, 6, 1),
      hci_read_inquiry_scan_type |-> R("HOST_CTL", "READ_INQUIRY_SCAN_TYPE", "NONE", 0, 2, 2) ]

InquiryRequests ==
    [ hci_write_inquiry_scan_type |-> R("HOST_CTL", "WRITE_INQUIRY_SCAN_TYPE", "NONE", 1, 1, 1),
      hci_read_inquiry_mode |-> R("HOST_CTL", "READ_INQUIRY_MODE", "NONE", 0, 2, 2),
      hci_write_inquiry_mode |-> R("HOST_CTL", "WRITE_INQUIRY_MODE", "NONE", 1, 1, 1),
      hci_read_afh_mode |-> R("HOST_CTL", "READ_AFH_MODE", "NONE", 0, 2, 2),
      hci_write_afh_mode |-> R("HOST_CTL", "WRITE_AFH_MODE", "NONE", 1, 1, 1) ]

PairingRequests ==
    [ hci_read_ext_inquiry_response |-> R("HOST_CTL", "READ_EXT_INQUIRY_RESPONSE", "NONE", 0, 242, 242),
      hci_write_ext_inquiry_response |-> R("HOST_CTL", "WRITE_EXT_INQUIRY_RESPONSE", "NONE", 241, 1, 1),
      hci_read_simple_pairing_mode |-> R("HOST_CTL", "READ_SIMPLE_PAIRING_MODE", "NONE", 0, 2, 2),
      hci_write_simple_pairing_mode |-> R("HOST_CTL", "WRITE_SIMPLE_PAIRING_MODE", "NONE", 1, 1, 1),
      hci_read_local_oob_data |-> R("HOST_CTL", "READ_LOCAL_OOB_DATA", "NONE", 0, 33, 33) ]

PowerRequests ==
    [ hci_read_inq_response_tx_power_level |-> R("HOST_CTL", "READ_INQ_RESPONSE_TX_POWER_LEVEL", "NONE", 0, 2, 2),
      hci_write_inquiry_transmit_power_level |-> R("HOST_CTL", "WRITE_INQUIRY_TRANSMIT_POWER_LEVEL", "NONE", 1, 1, 1),
      hci_read_transmit_power_level |-> R("HOST_CTL", "READ_TRANSMIT_POWER_LEVEL", "NONE", 3, 4, 4),
      hci_read_link_policy |-> R("LINK_POLICY", "READ_LINK_POLICY", "NONE", 2, 5, 5),
      hci_write_link_policy |-> R("LINK_POLICY", "WRITE_LINK_POLICY", "NONE", 4, 3, 1) ]

SupervisionRequests ==
    [ hci_read_link_supervision_timeout |-> R("HOST_CTL", "READ_LINK_SUPERVISION_TIMEOUT", "NONE", 2, 5, 5),
      hci_write_link_supervision_timeout |-> R("HOST_CTL", "WRITE_LINK_SUPERVISION_TIMEOUT", "NONE", 4, 3, 1),
      hci_set_afh_classification |-> R("HOST_CTL", "SET_AFH_CLASSIFICATION", "NONE", 10, 1, 1),
      hci_read_link_quality |-> R("STATUS_PARAM", "READ_LINK_QUALITY", "NONE", 2, 4, 4) ]

StatusRequests ==
    [ hci_read_rssi |-> R("STATUS_PARAM", "READ_RSSI", "NONE", 2, 4, 4),
      hci_read_afh_map |-> R("STATUS_PARAM", "READ_AFH_MAP", "NONE", 2, 14, 14),
      hci_read_clock |-> R("STATUS_PARAM", "READ_CLOCK", "NONE", 3, 9, 9),
      hci_le_set_scan_enable |-> R("LE_CTL", "LE_SET_SCAN_ENABLE", "NONE", 2, 1, 1) ]

LeRequests ==
    [ hci_le_set_scan_parameters |-> R("LE_CTL", "LE_SET_SCAN_PARAMETERS", "NONE", 7, 1, 1),
      hci_le_set_advertise_enable |-> R("LE_CTL", "LE_SET_ADVERTISE_ENABLE", "NONE", 1, 1, 1),
      hci_le_create_conn |-> R("LE_CTL", "LE_CREATE_CONN", "LE_CONN_COMPLETE", 25, 11, 3),
      hci_le_conn_update |-> R("LE_CTL", "LE_CONN_UPDATE", "LE_CONN_UPDATE_COMPLETE", 14, 9, 1) ]

Requests ==
    ConnectionRequests @@ WhiteListRequests @@ NameRequests @@ RemoteRequests @@ LocalRequests
    @@ SettingRequests @@ LinkKeyRequests @@ ModeRequests @@ InquiryRequests @@ PairingRequests
    @@ PowerRequests @@ SupervisionRequests @@ StatusRequests @@ LeRequests

(* What a function passes as parameters is what hci.h declares, or a handle    *)
(* where it declares nothing; a stored link key is followed by its address     *)
(* and its 16 bytes.                                                        *)
ASSUME ParametersFit ==
    \A f \in DOMAIN Requests :
        LET r == Requests[f]
            declared == Groups[r.group][r.command].cp_size
        IN  IF declared = 0 THEN r.clen \in {0, 2}
            ELSE r.clen = declared + (IF f = "hci_write_stored_link_key" THEN 6 + 16 ELSE 0)

CommandEvents == {"CMD_STATUS", "CMD_COMPLETE"}
FrameEvents == CommandEvents \cup {"LE_META_EVENT"}
AwaitedEvents == DOMAIN Events \ FrameEvents

ASSUME CallsAssumption ==
    /\ Programs \subseteq Seq(DOMAIN Requests)
    /\ Times \subseteq Nat /\ Tries \in Nat \ {0} /\ MaxOthers \in Nat
    /\ OtherEvents \subseteq AwaitedEvents
    /\ May \subseteq Features

----------------------------------------------------------------------------
(* Filters and events.                                                      *)

CodeOf(event) == IF event = "NONE" THEN 0 ELSE Events[event].code
OpcodeOf(f) == Opcode(Requests[f].group, Requests[f].command)

(* The filter has 64 bits for the codes of events; opcode 0 is any. *)
Bit(code) == code % 64
Bits == 0..63
Everything == [events |-> Bits, opcode |-> 0]
Nothing == [events |-> {}, opcode |-> 0]

hci_filter_no_meta(f) ==
    [ events |-> {Bit(CodeOf(e)) : e \in CommandEvents \cup {Requests[f].event}},
      opcode |-> OpcodeOf(f) ]

RequestFilter(f) ==
    [ events |-> {Bit(CodeOf(e)) :
                    e \in FrameEvents \cup {Requests[f].event}},
      opcode |-> OpcodeOf(f) ]

(* An event: sub is its code inside LE_META_EVENT; size is the length of what   *)
(* a request copies of it; n is the call it is about, 0 if none.            *)
Event(kind, sub, opcode, target, status, size, n) ==
    [ kind |-> kind, sub |-> sub, opcode |-> opcode, target |-> target,
      status |-> status, size |-> size, n |-> n ]

SizeOf(event) == IF Events[event].size = 0 THEN 1 ELSE Events[event].size

(* The size of what a command returns. *)
ReturnSize(f) ==
    LET declared == Groups[Requests[f].group][Requests[f].command].rp_size
    IN  IF declared = 0 THEN 1 ELSE declared

(* A code that an event of its own and one inside LE_META_EVENT both have. *)
Ambiguous == {Events[e].code : e \in LeEvents}

(* The tables: codes and sizes are numbers, no function awaits an event that    *)
(* only frames an answer, and what a function reads of its answer fits in its  *)
(* buffer and is there in the answer hci.h declares.                        *)
ASSUME EventsAssumption ==
    /\ LeEvents \subseteq AwaitedEvents /\ FrameEvents \subseteq DOMAIN Events
    /\ \A e \in DOMAIN Events : Events[e].code \in Nat \ {0} /\ Events[e].size \in Nat

ASSUME RequestsAssumption ==
    \A f \in DOMAIN Requests :
        /\ OpcodeOf(f) \in Nat /\ OpcodeOf(f) < 65536 /\ ReturnSize(f) \in Nat
        /\ Requests[f].rlen \in Nat /\ Requests[f].reads \in Nat /\ Requests[f].reads <= Requests[f].rlen
        /\ Requests[f].event \in {"NONE"} \cup AwaitedEvents
        /\ CodeOf(Requests[f].event) # CodeOf("CMD_STATUS")

ASSUME AnswersAssumption ==
    \A f \in DOMAIN Requests :
        /\ \A g \in DOMAIN Requests :
              Requests[g].event = "NONE" /\ OpcodeOf(f) = OpcodeOf(g)
              => Requests[f].reads <= ReturnSize(g)
        /\ \A e \in DOMAIN Events \ LeEvents :
              CodeOf(e) = CodeOf(Requests[f].event)
              => Requests[f].reads <= SizeOf(e) \/ CodeOf(e) \in Ambiguous

(* An opcode belongs to one function, and the event that brings the name of a   *)
(* device to one, which nothing else can be mistaken for. *)
RemoteName == "REMOTE_NAME_REQ_COMPLETE"

ASSUME OwnersAssumption ==
    /\ \A f, g \in DOMAIN Requests :
          \/ OpcodeOf(f) = OpcodeOf(g)
          \/ Requests[f].event = RemoteName /\ Requests[g].event = RemoteName
          => f = g
    /\ \A e \in DOMAIN Events \ LeEvents : CodeOf(e) = CodeOf(RemoteName) => e = RemoteName
    /\ CodeOf(RemoteName) \notin Ambiguous /\ RemoteName \in AwaitedEvents
    /\ "NONE" \notin DOMAIN Events

(* The event named so, inside LE_META_EVENT if it belongs there. *)
EventNamed(event, target, n) ==
    IF event \in LeEvents
    THEN Event("LE_META_EVENT", Events[event].code, 0, target, 0, SizeOf(event), n)
    ELSE Event(event, 0, 0, target, 0, SizeOf(event), n)

(* The kernel queues what the filter lets through. *)
Passes(e) ==
    /\ Bit(CodeOf(e.kind)) \in filter.events
    /\ e.kind \in CommandEvents => filter.opcode \in {0, e.opcode}

Deliver(e) == inbox' = IF Passes(e) THEN Append(inbox, e) ELSE inbox

----------------------------------------------------------------------------
(* The request.                                                             *)

NoCall == [n |-> 0, f |-> "none"]
Idle == call = NoCall

(* What a program that has come this far calls next. *)
NextFunctions ==
    LET n    == Len(results)
        same == {p \in Programs : n < Len(p) /\ \A i \in 1..n : results[i].f = p[i]}
    IN  {p[n + 1] : p \in same}

(* A function is called: the filter is saved and replaced. *)
hci_send_req(f, t, to) ==
    /\ Idle
    /\ saved' = filter /\ filter' = RequestFilter(f)
    /\ call' = [ n |-> Len(results) + 1, f |-> f, target |-> t, asked |-> to, to |-> to,
                 try |-> Tries, written |-> FALSE ]
    /\ UNCHANGED <<inbox, busy, others, results>>

(* The filter cannot be read or set. *)
NoFilter(f, t, to) ==
    /\ "io_error" \in May
    /\ Idle
    /\ results' = Append(results, [f |-> f, target |-> t, end |-> "io", took |-> <<>>, rlen |-> 0])
    /\ UNCHANGED <<filter, saved, call, inbox, busy, others>>

Returns(end, took, rlen) ==
    /\ results' = Append(results, [ f |-> call.f, target |-> call.target, end |-> end,
                                    took |-> took, rlen |-> rlen ])
    /\ call' = NoCall

(* The two ways out, done and failed. *)
RestoreFilter == filter' = saved

Fail(error) == Returns(error, <<>>, 0) /\ RestoreFilter /\ UNCHANGED saved

(* The controller learns of the command when all of it is written. *)
hci_send_cmd ==
    /\ ~ Idle /\ ~ call.written
    /\ call' = [call EXCEPT !.written = TRUE]
    /\ busy' = busy \cup {[n |-> call.n, f |-> call.f, target |-> call.target, stage |-> "new"]}
    /\ UNCHANGED <<filter, saved, inbox, others, results>>

hci_send_cmd_fails ==
    /\ "io_error" \in May /\ ~ Idle /\ ~ call.written
    /\ Fail("io")
    /\ UNCHANGED <<inbox, busy, others>>

Waiting == ~ Idle /\ call.written

(* poll() finds nothing in the time left; without a time left there is no poll. *)
PollExpires ==
    /\ "silent" \in May /\ Waiting /\ call.try > 0 /\ call.to > 0 /\ inbox = <<>>
    /\ Fail("ETIMEDOUT")
    /\ UNCHANGED <<inbox, busy, others>>

ReadFails ==
    /\ "io_error" \in May /\ Waiting /\ call.try > 0
    /\ Fail("io")
    /\ UNCHANGED <<inbox, busy, others>>

GivesUp ==
    /\ Waiting /\ call.try = 0
    /\ Fail("ETIMEDOUT")
    /\ UNCHANGED <<inbox, busy, others>>

(* What an event is to the request: its answer, a refusal, or an event that      *)
(* costs a try.  The name of a device is an answer if it is the device's.    *)
Awaited == CodeOf(Requests[call.f].event)
MyOpcode_unchecked(e) == TRUE
MyOpcode(e) == e.opcode = OpcodeOf(call.f)
MyAddress(e) == e.target = call.target

Answers(e) ==
    \/ e.kind = "CMD_COMPLETE" /\ MyOpcode(e)
    \/ e.kind = "CMD_STATUS" /\ MyOpcode(e) /\ Awaited = CodeOf(e.kind)
    \/ e.kind = "LE_META_EVENT" /\ e.sub = Awaited
    \/ /\ e.kind \in AwaitedEvents /\ CodeOf(e.kind) = Awaited
       /\ e.kind = RemoteName => MyAddress(e)

Refuses(e) ==
    e.kind = "CMD_STATUS" /\ MyOpcode(e) /\ Awaited # CodeOf(e.kind) /\ e.status # 0

TimeLeft_no_floor(to) == to - 1
TimeLeft_twice(to) == IF to < 2 THEN 0 ELSE to - 2
TimeLeft(to) == IF to = 0 THEN 0 ELSE to - 1

CopiedLen(e) == Least(e.size, Requests[call.f].rlen)

(* A function that looks at the answer fails if its status is not 0. *)
EndOf_unchecked(e) == "ok"
EndOf(e) == IF Requests[call.f].reads > 0 /\ e.status # 0 THEN "EIO" ELSE "ok"

ReadEvent ==
    /\ Waiting /\ call.try > 0 /\ inbox # <<>>
    /\ inbox' = Tail(inbox)
    /\ LET e == Head(inbox) IN
       \/ Answers(e) /\ Returns(EndOf(e), <<e>>, CopiedLen(e)) /\ RestoreFilter /\ UNCHANGED saved
       \/ Refuses(e) /\ Fail("EIO")
       \/ /\ ~ Answers(e) /\ ~ Refuses(e)
          /\ call' = [call EXCEPT !.try = @ - 1, !.to = TimeLeft(@)]
          /\ UNCHANGED <<filter, saved, results>>
    /\ UNCHANGED <<busy, others>>

----------------------------------------------------------------------------
(* The controller.  A command that an event answers gets its status at once    *)
(* and the event later; any other is completed.                             *)

Completed(b) ==
    {Event("CMD_COMPLETE", 0, OpcodeOf(b.f), b.target, 0, ReturnSize(b.f), b.n)}
    \cup IF "refusal" \in May
         THEN {Event("CMD_COMPLETE", 0, OpcodeOf(b.f), b.target, 1, 1, b.n)} ELSE {}

CommandCompletes(b) ==
    /\ b.stage = "new" /\ Requests[b.f].event = "NONE"
    /\ \E e \in Completed(b) : Deliver(e)
    /\ busy' = busy \ {b}
    /\ UNCHANGED <<filter, saved, call, others, results>>

CommandStarts(b) ==
    /\ b.stage = "new" /\ Requests[b.f].event # "NONE"
    /\ Deliver(Event("CMD_STATUS", 0, OpcodeOf(b.f), b.target, 0, 4, b.n))
    /\ busy' = (busy \ {b}) \cup {[b EXCEPT !.stage = "running"]}
    /\ UNCHANGED <<filter, saved, call, others, results>>

CommandRefused(b) ==
    /\ "refusal" \in May /\ b.stage = "new" /\ Requests[b.f].event # "NONE"
    /\ Deliver(Event("CMD_STATUS", 0, OpcodeOf(b.f), b.target, 1, 4, b.n))
    /\ busy' = busy \ {b}
    /\ UNCHANGED <<filter, saved, call, others, results>>

CommandDone(b) ==
    /\ b.stage = "running"
    /\ Deliver(EventNamed(Requests[b.f].event, b.target, b.n))
    /\ busy' = busy \ {b}
    /\ UNCHANGED <<filter, saved, call, others, results>>

(* Something happens to a link, or another program's request is answered. *)
OtherEvent ==
    /\ others < MaxOthers
    /\ others' = others + 1
    /\ \E event \in OtherEvents, t \in Targets : Deliver(EventNamed(event, t, 0))
    /\ UNCHANGED <<filter, saved, call, busy, results>>

----------------------------------------------------------------------------
Init ==
    /\ filter \in {Nothing, Everything} /\ saved = filter
    /\ call = NoCall /\ inbox = <<>> /\ busy = {} /\ others = 0 /\ results = <<>>

Controller == \E b \in busy : CommandCompletes(b) \/ CommandStarts(b) \/ CommandRefused(b)
                                \/ CommandDone(b)

Step == hci_send_cmd \/ ReadEvent \/ GivesUp \/ PollExpires

Fails == hci_send_cmd_fails \/ ReadFails

Next ==
    \/ \E f \in NextFunctions, t \in Targets, to \in Times :
          hci_send_req(f, t, to) \/ NoFilter(f, t, to)
    \/ Step \/ Fails \/ Controller \/ OtherEvent

Spec == Init /\ [][Next]_vars

(* The call runs on, and poll() returns when its time is over; the controller  *)
(* may leave a command without an answer for ever. *)
FairSpec == Spec /\ WF_vars(Step)

----------------------------------------------------------------------------
(* Properties.                                                              *)

TypeOK ==
    /\ filter.events \subseteq Bits /\ filter.opcode \in Nat /\ filter.opcode < 65536
    /\ Idle \/ (call.try \in 0..Tries /\ call.to \in 0..call.asked)
    /\ \A i \in DOMAIN inbox : inbox[i].kind \in DOMAIN Events \ LeEvents
    /\ \A b \in busy : b.n \in 1..(Len(results) + 1) /\ b.stage \in {"new", "running"}
    /\ \A i \in DOMAIN results : results[i].end \in {"ok", "EIO", "ETIMEDOUT", "io"}

(* Whatever a request comes to, the socket is left with the filter it had, and  *)
(* while one is under way the filter lets its answer through. *)
FilterRestored ==
    /\ Idle => filter \in {Nothing, Everything}
    /\ ~ Idle =>
          /\ saved \in {Nothing, Everything}
          /\ \A e \in Completed([f |-> call.f, target |-> call.target, n |-> call.n]) : Passes(e)
          /\ Requests[call.f].event # "NONE" =>
                Passes(EventNamed(Requests[call.f].event, call.target, call.n))

TookOwn(n) == results[n].took # <<>> /\ results[n].took[1].n = n

(* A command that its completion answers, or one about a named device, takes   *)
(* its own answer and no other's; but one that was asked the same before and    *)
(* did not wait for its own answer may be given that.  What another program    *)
(* asked about the same device answers the question as well.                *)
AnswerIsMine ==
    \A i \in DOMAIN results :
        LET r == results[i] IN
        /\ r.took # <<>> /\ Requests[r.f].event \in {"NONE", RemoteName}
        => LET n == r.took[1].n IN
           /\ n \notin {0, i} => results[n].f = r.f /\ ~ TookOwn(n)
           /\ n = 0 => Requests[r.f].event = RemoteName
           /\ Requests[r.f].event = RemoteName => r.took[1].target = r.target

(* A function that succeeds reads nothing but what was copied from an answer.   *)
(* Only those that await an event whose code is ambiguous may be given another *)
(* one, which may be shorter: hci_le_create_conn takes the end of an inquiry   *)
(* for its answer and returns a handle nobody wrote.                        *)
AnswerFilled ==
    \A i \in DOMAIN results :
        results[i].end = "ok" =>
            \/ Requests[results[i].f].reads <= results[i].rlen
            \/ CodeOf(Requests[results[i].f].event) \in Ambiguous

(* A call that is given a tick for each try returns, whatever comes and        *)
(* however much else comes in between.  With less the time left may reach 0,  *)
(* which stands for no limit, and the next read may wait for ever.          *)
RequestReturns ==
    (~ Idle /\ call.asked >= Tries) ~> Idle
=============================================================================
