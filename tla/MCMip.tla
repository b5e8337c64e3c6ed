------------------------------- MODULE MCMip -------------------------------
(* Instances of Mip for TLC. *)
EXTENDS Mip

(* A set of values none of which is the default, one of them for clamp() to cut. *)
OneLedSet  == { <<0, 2, 3, 9>> }
=============================================================================
