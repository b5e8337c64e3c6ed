------------------------------- MODULE MCGatt -------------------------------
(* Instances of Gatt for TLC: a peer with three services, one of one handle.    *)
EXTENDS Gatt, TLC

I(first, last, uuid, long) == [first |-> first, last |-> last, uuid |-> uuid, long |-> long]

Last == 9

(* The last service ends at the last handle, as the services of a device do. *)
ThreeServices == << I(1, 4, "u1", FALSE), I(5, 5, "u2", FALSE), I(6, 9, "u1", FALSE) >>

(* Two of long UUID in one answer or two, and one of short UUID after them. *)
ThreeIncludes == << I(2, 2, "long1", TRUE), I(3, 3, "long2", TRUE), I(6, 6, "short", FALSE) >>

(* The second is declared at the end of the second range. *)
TwoChars == << I(2, 2, "c1", FALSE), I(4, 4, "c2", FALSE), I(7, 7, "c1", FALSE) >>
TwoRanges == { <<1, 9>>, <<2, 4>> }

(* A PDU of 7 bytes carries 6 of a value: two full parts and nothing more, or   *)
(* one part and less than another. *)
TwoValues == (3 :> 12) @@ (8 :> 8)
=============================================================================
