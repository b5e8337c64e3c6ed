------------------------------ MODULE MCLibrary ------------------------------
(* An instance for TLC of the two layers under a connection: the sockets of     *)
(* BtIo, and the PDUs of AttCodec that they carry.  They share no state, so a    *)
(* behaviour has steps of one of them only: of AttCodec if there is a room, of   *)
(* BtIo with two channels and few lists of options, or with one and all lists.   *)
EXTENDS MCOptions

VARIABLES message, room, buffer, pdu

(* As gatt_connect() asks for a channel to a Low Energy device and to another;  *)
(* RFCOMM, SCO; a level that is out of range.                                *)
Connects ==
    { << <<"SOURCE", "me">>, <<"DEST", "peer">>, <<"CID", 4>>, <<"MASTER", 1>>, <<"SEC_LEVEL", 2>> >>,
      << <<"IMTU", 200>>, <<"MTU", 100>>, <<"OMTU", 50>>, <<"PSM", 31>>, <<"MASTER", 1>>, <<"PRIORITY", 3>> >>,
      << <<"CHANNEL", 3>>, <<"SEC_LEVEL", 3>>, <<"MASTER", 1>> >>,
      << <<"DEST", "peer">>, <<"OMTU", 60>> >>,
      << <<"PSM", 31>>, <<"SEC_LEVEL", 4>> >> }

Sets == { << <<"MASTER", 0>>, <<"OMTU", 90>>, <<"SEC_LEVEL", 1>> >> }

----------------------------------------------------------------------------
(* Handles and lengths around the room of a PDU, and a UUID of each length.    *)

Codec == INSTANCE AttCodec WITH
    Numbers    <- {0, 1, 255, 258, 65535},
    Sizes      <- {0, 1, 2, 5, 18, 20, 21, 22, 23, 64},
    EntrySizes <- {1, 2, 6, 20, 21, 22, 40},
    Uuids      <- {<<1, 24>>, <<1, 2, 3, 4>>, [i \in 1..16 |-> i]},
    Rooms      <- {23, 48},
    Buffers    <- {16, 64}

ASSUME Codec!CodecAssumption

codec_vars == <<message, room, buffer, pdu>>

LibraryInit ==
    \/ Init /\ message \in {"none", "options"} /\ room = 0 /\ buffer = 0 /\ pdu = Codec!Unsent
    \/ Codec!Init /\ channels = <<>> /\ table = <<>> /\ secure = FALSE /\ last = Nothing

LibraryNext ==
    \/ room = 0 /\ message = "none" /\ Next /\ UNCHANGED codec_vars
    \/ room = 0 /\ message = "options" /\ OptionsNext /\ UNCHANGED codec_vars
    \/ room # 0 /\ Codec!Encode /\ UNCHANGED vars

LibrarySpec == LibraryInit /\ [][LibraryNext]_<<vars, codec_vars>>

(* What the enc_ functions of att.c write fits the buffer, and the dec_ function  *)
(* of the same message, and no other, finds in it what was given.             *)
RoundTrip == Codec!RoundTrip
=============================================================================
