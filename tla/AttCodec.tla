------------------------------ MODULE AttCodec ------------------------------
(***************************************************************************)
(* att.c: what the enc_ functions write of a message into a buffer of a given *)
(* size, and what the dec_ functions read of it at the other side.  A message *)
(* is laid out as its opcode, fields of one or two bytes, and a tail: a UUID, *)
(* a value, or a list of entries.  A PDU is the sequence of its bytes.        *)
(***************************************************************************)
EXTENDS Naturals, Sequences, SequencesExt, TLC

CONSTANTS
    Numbers,    \* handles and offsets
    Sizes,      \* the lengths of values and the numbers of entries
    EntrySizes, \* the lengths of an entry of a list
    Uuids,      \* the UUIDs, each a sequence of 2, 4 or 16 bytes
    Rooms,      \* the sizes of the buffer that is written
    Buffers     \* the sizes of the buffer a value is read into

(* No channel has an MTU below ATT_DEFAULT_LE_MTU. *)
ATT_DEFAULT_LE_MTU == 23

(* What a module that instantiates this one assumes of the constants. *)
CodecAssumption ==
    /\ Numbers \subseteq 0..65535 /\ Sizes \subseteq Nat /\ EntrySizes \subseteq 1..255
    /\ \A room \in Rooms : room \in Nat /\ room >= ATT_DEFAULT_LE_MTU
    /\ Buffers \subseteq Nat \ {0}

VARIABLES message, room, buffer, pdu

vars == <<message, room, buffer, pdu>>

----------------------------------------------------------------------------
(* Bytes and UUIDs.                                                         *)

att_put_u16(n) == <<n % 256, n \div 256>>
att_get_u16(bytes) == bytes[1] + 256 * bytes[2]

Put(n, size) == IF size = 2 THEN att_put_u16(n) ELSE <<n>>
Get(bytes, at, size) == IF size = 2 THEN att_get_u16(SubSeq(bytes, at, at + 1)) ELSE bytes[at]

(* The 16 bytes of the base UUID; those of a shorter one take the place of the *)
(* last four, or of two of them. *)
bluetooth_base_uuid ==
    <<251, 52, 155, 95, 128, 0, 0, 128, 0, 16, 0, 0, 0, 0, 0, 0>>

bt_uuid_to_uuid128(uuid) ==
    IF Len(uuid) = 16 THEN uuid
    ELSE [i \in 1..16 |-> IF i \in 13..(12 + Len(uuid)) THEN uuid[i - 12] ELSE bluetooth_base_uuid[i]]

bt_uuid_equal(u, v) == bt_uuid_to_uuid128(u) = bt_uuid_to_uuid128(v)

----------------------------------------------------------------------------
(* Layouts.                                                                *)

(* A value whose tail is "cut" is cut to what fits, one that is "whole" is      *)
(* refused if it does not fit, of a "blob" the first bytes are left out. *)
Layout(opcode, fields, tail) == [opcode |-> opcode, fields |-> fields, tail |-> tail]

ByGroup ==
    [ READ_BY_GROUP_REQ  |-> Layout(16, <<2, 2>>, "uuid"),
      READ_BY_GROUP_RESP |-> Layout(17, <<>>, "list") ]

FindByType ==
    [ FIND_BY_TYPE_REQ  |-> Layout(6, <<2, 2, 2>>, "cut"),
      FIND_BY_TYPE_RESP |-> Layout(7, <<>>, "ranges") ]

ByType ==
    [ READ_BY_TYPE_REQ  |-> Layout(8, <<2, 2>>, "uuid"),
      READ_BY_TYPE_RESP |-> Layout(9, <<>>, "list") ]

Writes ==
    [ WRITE_CMD  |-> Layout(82, <<2>>, "cut"),
      WRITE_REQ  |-> Layout(18, <<2>>, "cut"),
      WRITE_RESP |-> Layout(19, <<>>, "none") ]

Reads ==
    [ READ_REQ       |-> Layout(10, <<2>>, "none"),
      READ_BLOB_REQ  |-> Layout(12, <<2, 2>>, "none"),
      READ_RESP      |-> Layout(11, <<>>, "cut"),
      READ_BLOB_RESP |-> Layout(13, <<>>, "blob"),
      ERROR          |-> Layout(1, <<1, 2, 1>>, "none") ]

FindInfo ==
    [ FIND_INFO_REQ  |-> Layout(4, <<2, 2>>, "none"),
      FIND_INFO_RESP |-> Layout(5, <<>>, "formatted") ]

Handles ==
    [ HANDLE_NOTIFY |-> Layout(27, <<2>>, "whole"),
      HANDLE_IND    |-> Layout(29, <<2>>, "whole"),
      HANDLE_CNF    |-> Layout(30, <<>>, "none") ]

Mtus ==
    [ MTU_REQ  |-> Layout(2, <<2>>, "none"),
      MTU_RESP |-> Layout(3, <<2>>, "none") ]

PreparedWrites ==
    [ PREP_WRITE_REQ  |-> Layout(22, <<2, 2>>, "cut"),
      EXEC_WRITE_REQ  |-> Layout(24, <<1>>, "none"),
      EXEC_WRITE_RESP |-> Layout(25, <<>>, "none") ]

Layouts ==
    ByGroup @@ FindByType @@ ByType @@ Writes @@ Reads @@ FindInfo @@ Handles @@ Mtus
      @@ PreparedWrites

OfTail(tails) == {op \in DOMAIN Layouts : Layouts[op].tail \in tails}

(* The opcode and the fields. *)
HeadLen(op) == 1 + FoldLeft(+, 0, Layouts[op].fields)

PduHead(m) ==
    LET fields == Layouts[m.op].fields IN
    <<Layouts[m.op].opcode>> \o FlattenSeq([i \in DOMAIN fields |-> Put(m.fields[i], fields[i])])

----------------------------------------------------------------------------
(* Encoding; an empty PDU is the 0 returned for what does not fit.             *)

Refused == <<>>

Least(a, b) == IF a <= b THEN a ELSE b

First(bytes, n) == SubSeq(bytes, 1, n)

(* Entries of one length, as many as fit after the opcode and the length. *)
HowManyFit_one_less(list, size, space) == Least(Len(list), (space - 3) \div size)
HowManyFit(list, size, space) == Least(Len(list), (space - 2) \div size)

enc_list(op, list, space) ==
    LET size == Len(list[1])
        l == IF op = "READ_BY_TYPE_RESP" THEN Least(space - 2, size) ELSE size
        n == HowManyFit(list, l, space)
    IN  IF op = "READ_BY_GROUP_RESP" /\ space < size + 2 THEN Refused
        ELSE <<Layouts[op].opcode, l>> \o FlattenSeq([i \in 1..n |-> First(list[i], l)])

(* The format tells the length: a handle and a UUID of 2 or of 16 bytes. *)
enc_find_info_resp(list, space) ==
    LET size == Len(list[1]) IN
    IF space < size + 2 THEN Refused
    ELSE <<Layouts["FIND_INFO_RESP"].opcode, IF size = 4 THEN 1 ELSE 2>>
           \o FlattenSeq(First(list, HowManyFit(list, size, space)))

enc_find_by_type_resp(list, space) ==
    <<Layouts["FIND_BY_TYPE_RESP"].opcode>> \o FlattenSeq(First(list, Least(Len(list), (space - 1) \div 4)))

(* What lies behind a value in memory, no byte of it. *)
Beyond == 257

(* A blob is the value without the first offset bytes.  Nothing tests that there  *)
(* are so many: the length left is then negative, as a size_t longer than any      *)
(* buffer, and what is sent is read beyond the end. *)
enc_blob(value, offset, space) ==
    [i \in 1..(IF offset > Len(value) THEN space ELSE Least(Len(value) - offset, space)) |->
        IF offset + i <= Len(value) THEN value[offset + i] ELSE Beyond]

(* enc_exec_write_req takes the flags 0 and 1 only; a UUID of 32 bits is never    *)
(* sent, and one to find by type is of 16. *)
enc(m, space) ==
    LET tail == Layouts[m.op].tail
        left == space - HeadLen(m.op)
    IN  CASE tail = "none" ->
               IF m.op = "EXEC_WRITE_REQ" /\ m.fields[1] > 1 THEN Refused ELSE PduHead(m)
          [] tail = "uuid" ->
               IF Len(m.tail) = 4 \/ left < Len(m.tail) THEN Refused ELSE PduHead(m) \o m.tail
          [] tail = "cut"    ->
               IF m.op = "FIND_BY_TYPE_REQ" /\ m.uuid_size # 2 THEN Refused
               ELSE PduHead(m) \o First(m.tail, Least(Len(m.tail), left))
          [] tail = "blob"   -> PduHead(m) \o enc_blob(m.tail, m.offset, left)
          [] tail = "whole"  -> IF left < Len(m.tail) THEN Refused ELSE PduHead(m) \o m.tail
          [] tail = "list"   -> enc_list(m.op, m.tail, space)
          [] tail = "formatted" -> enc_find_info_resp(m.tail, space)
          [] tail = "ranges" -> enc_find_by_type_resp(m.tail, space)

----------------------------------------------------------------------------
(* Decoding.  There is no dec_ function for a notification, a confirmation, an  *)
(* error, a blob, nor for the request to execute; the one for a prepared write,  *)
(* dec_prep_write_resp(), tests for the opcode of the request.               *)

Decoders ==
    DOMAIN Layouts \ {"HANDLE_NOTIFY", "HANDLE_CNF", "ERROR", "READ_BLOB_RESP", "EXEC_WRITE_REQ"}

(* att_data_list_alloc() and the copying loops; a list of which no entry is      *)
(* whole is an empty one. *)
Entries(bytes, size) ==
    [i \in 1..(Len(bytes) \div size) |-> SubSeq(bytes, (i - 1) * size + 1, i * size)]

After(bytes, n) == SubSeq(bytes, n + 1, Len(bytes))

FieldAt(op, i) == 2 + FoldLeft(+, 0, First(Layouts[op].fields, i - 1))

FieldsOf(op, bytes) ==
    [i \in DOMAIN Layouts[op].fields |-> Get(bytes, FieldAt(op, i), Layouts[op].fields[i])]

(* A UUID is of 16 bits if just two bytes are left, else the 16 that follow. *)
dec_uuid(bytes) == IF Len(bytes) = 2 THEN bytes ELSE First(bytes, 16)

ShortestTail(op) == CASE Layouts[op].tail = "uuid" -> 2 [] Layouts[op].tail = "ranges" -> 4 [] OTHER -> 0

(* The tests before a dec_ function reads anything. *)
Readable(op, bytes) ==
    Len(bytes) >= HeadLen(op) + ShortestTail(op) /\ bytes[1] = Layouts[op].opcode

(* Two functions are told how large the buffer for the value is: what one cannot   *)
(* copy it refuses with -ENOBUFS, the other leaves out. *)
Bounded == {"READ_RESP", "HANDLE_IND"}

Copied(op, value, space) ==
    IF op = "HANDLE_IND" THEN First(value, Least(Len(value), space)) ELSE value

(* What is returned tells that the PDU was read.  dec_indication() returns the    *)
(* length it copied: 0, as for what it does not read, if there is no value. *)
Accepts(op, bytes, space) ==
    /\ Readable(op, bytes)
    /\ op = "READ_RESP" => Len(bytes) - 1 <= space
    /\ op = "HANDLE_IND" => Len(bytes) > HeadLen(op)

dec(op, bytes, space) ==
    LET tail == Layouts[op].tail
        rest == After(bytes, HeadLen(op))
    IN  [fields |-> FieldsOf(op, bytes),
         tail |-> CASE tail = "uuid"      -> dec_uuid(rest)
                    [] tail = "list"      -> Entries(After(rest, 1), rest[1])
                    [] tail = "formatted" -> Entries(After(rest, 1), IF rest[1] = 1 THEN 4 ELSE 18)
                    [] tail = "ranges"    -> Entries(rest, 4)
                    [] OTHER              -> Copied(op, rest, space)]

----------------------------------------------------------------------------
(* Messages: each byte of a value tells its place.                           *)

Value(n) == [i \in 1..n |-> i % 256]
List(n, size) == [i \in 1..n |-> [j \in 1..size |-> (16 * i + j) % 256]]

FieldValues(op) ==
    {f \in [DOMAIN Layouts[op].fields -> Numbers] :
        \A i \in DOMAIN f : Layouts[op].fields[i] = 1 => f[i] < 256}

Tails(op) ==
    LET tail == Layouts[op].tail IN
    CASE tail = "none" -> {<<>>}
      [] tail = "uuid" -> Uuids
      [] tail \in {"cut", "whole", "blob"} -> {Value(n) : n \in Sizes}
      [] tail = "list" -> {List(n, size) : n \in Sizes \ {0}, size \in EntrySizes}
      [] tail = "formatted" -> {List(n, size) : n \in Sizes \ {0}, size \in {4, 18}}
      [] tail = "ranges" -> {List(n, 4) : n \in Sizes \ {0}}

Unsent == <<256>>     \* no PDU

(* The offset of a blob, and the bytes of the UUID to find by type. *)
Offsets(op) == IF op = "READ_BLOB_RESP" THEN Sizes ELSE {0}
UuidSizes(op) == IF op = "FIND_BY_TYPE_REQ" THEN {Len(uuid) : uuid \in Uuids} ELSE {2}

Init ==
    /\ \E op \in DOMAIN Layouts, r \in Rooms :
         \E f \in FieldValues(op), t \in Tails(op), offset \in Offsets(op), u \in UuidSizes(op) :
           /\ message = [op |-> op, fields |-> f, tail |-> t, offset |-> offset, uuid_size |-> u]
           /\ room = r /\ buffer \in (IF op \in Bounded THEN Buffers ELSE {r})
    /\ pdu = Unsent

Encode == pdu = Unsent /\ pdu' = enc(message, room) /\ UNCHANGED <<message, room, buffer>>

Next == Encode
Spec == Init /\ [][Next]_vars

----------------------------------------------------------------------------
(* Properties.                                                              *)

(* A refused message is one that cannot be sent in one PDU of this channel. *)
Refusable ==
    \/ message.op \in OfTail({"uuid"}) /\ Len(message.tail) = 4
    \/ message.op \in OfTail({"whole"}) /\ Len(message.tail) > room - HeadLen(message.op)
    \/ message.op = "READ_BY_GROUP_RESP" /\ Len(message.tail[1]) > room - 2
    \/ message.op = "EXEC_WRITE_REQ" /\ message.fields[1] > 1
    \/ message.op = "FIND_BY_TYPE_REQ" /\ message.uuid_size # 2

(* How much a tail takes on the wire, in bytes. *)
EntryLen == IF message.op \in OfTail({"list", "formatted", "ranges"}) /\ message.tail # <<>>
            THEN Len(message.tail[1]) ELSE 1

(* A tail comes over as it was, or the beginning of it, and then one more byte   *)
(* or entry would not have fitted into the PDU, or into the buffer for the value  *)
(* of an indication; an entry of READ_BY_TYPE_RESP may itself be cut to the room   *)
(* there is. *)
ComesOver(sent, got) ==
    \/ got = sent
    \/ IsStrictPrefix(got, sent) /\ Len(pdu) + EntryLen > room
    \/ message.op = "HANDLE_IND" /\ IsStrictPrefix(got, sent) /\ Len(got) = buffer
    \/ message.op = "READ_BY_TYPE_RESP" /\ EntryLen > room - 2
         /\ got = <<First(sent[1], room - 2)>>

(* The reader cannot tell an indication without a value from no indication, and    *)
(* gets nothing of the answer to a read that is longer than its buffer. *)
Unreadable ==
    \/ message.op = "HANDLE_IND" /\ message.tail = <<>>
    \/ message.op = "READ_RESP" /\ Least(Len(message.tail), room - 1) > buffer

(* What enc_ functions write fits the buffer; the dec_ function of the same      *)
(* message, and no other, reads it, and finds the fields and as much of the tail  *)
(* as there is room for.  A blob, which has no dec_ function, holds the value from  *)
(* the offset on if that is not beyond its end.                                *)
RoundTrip ==
    pdu # Unsent =>
        /\ Len(pdu) <= room
        /\ pdu = Refused <=> Refusable
        /\ pdu # Refused =>
             \A op \in Decoders :
               /\ Accepts(op, pdu, buffer) <=> op = message.op /\ ~ Unreadable
               /\ Accepts(op, pdu, buffer) =>
                    LET got == dec(op, pdu, buffer) IN
                    /\ got.fields = message.fields
                    /\ IF op \in OfTail({"uuid"}) THEN bt_uuid_equal(got.tail, message.tail)
                       ELSE ComesOver(message.tail, got.tail)
        /\ message.op \in OfTail({"blob"}) /\ message.offset <= Len(message.tail) =>
             ComesOver(After(message.tail, message.offset), After(pdu, 1))
=============================================================================
