------------------------------- MODULE AttPdu -------------------------------
(***************************************************************************)
(* The opcodes of the Attribute Protocol, as gattrib.c sorts them: which    *)
(* opcode answers which (opcode2expected), which opcodes are answers        *)
(* (is_response), and which inbound PDUs an event handler asked for         *)
(* (match_event).  An opcode is named by its ATT_OP_ constant without the    *)
(* prefix; the bytes of a PDU are abstracted to its opcode and its handle.  *)
(***************************************************************************)
EXTENDS Naturals

NoResponse == "none"          \* the 0 that opcode2expected returns

(* opcode2expected(), one field per case of the switch. *)
ResponseTo ==
    [ MTU_REQ           |-> "MTU_RESP",
      FIND_INFO_REQ     |-> "FIND_INFO_RESP",
      FIND_BY_TYPE_REQ  |-> "FIND_BY_TYPE_RESP",
      READ_BY_TYPE_REQ  |-> "READ_BY_TYPE_RESP",
      READ_REQ          |-> "READ_RESP",
      READ_BLOB_REQ     |-> "READ_BLOB_RESP",
      READ_MULTI_REQ    |-> "READ_MULTI_RESP",
      READ_BY_GROUP_REQ |-> "READ_BY_GROUP_RESP",
      WRITE_REQ         |-> "WRITE_RESP",
      PREP_WRITE_REQ    |-> "PREP_WRITE_RESP",
      EXEC_WRITE_REQ    |-> "EXEC_WRITE_RESP",
      HANDLE_IND        |-> "HANDLE_CNF" ]

opcode2expected(opcode) ==
    IF opcode \in DOMAIN ResponseTo THEN ResponseTo[opcode] ELSE NoResponse

ResponseOps == {"ERROR"} \cup {ResponseTo[op] : op \in DOMAIN ResponseTo}

is_response(opcode) == opcode \in ResponseOps

(* Every other opcode att.h names: no answer is expected for these. *)
Opcodes == DOMAIN ResponseTo \cup ResponseOps
             \cup {"WRITE_CMD", "SIGNED_WRITE_CMD", "HANDLE_NOTIFY"}

(* The wildcards an event may be registered with: GATTRIB_ALL_EVENTS,        *)
(* GATTRIB_ALL_REQS for the opcode and GATTRIB_ALL_HANDLES for the handle.   *)
AllEvents  == "ALL_EVENTS"
AllReqs    == "ALL_REQS"
AllHandles == "ALL_HANDLES"

(* A PDU too short to hold a handle (len < 3) has the handle NoHandle, which *)
(* no event is registered with.                                             *)
NoHandle == "no_handle"

match_event(evt, pdu) ==
    \/ evt.expected = AllEvents
    \/ ~ is_response(pdu.opcode) /\ evt.expected = AllReqs
    \/ evt.expected = pdu.opcode /\ evt.handle = AllHandles
    \/ /\ pdu.handle # NoHandle
       /\ evt.expected = pdu.opcode
       /\ evt.handle = pdu.handle
=============================================================================
