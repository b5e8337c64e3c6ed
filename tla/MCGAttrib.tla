----------------------------- MODULE MCGAttrib -----------------------------
(* Instances of GAttrib for TLC. *)
EXTENDS GAttribChannel, TLC

NotifyHandle == {[expected |-> "HANDLE_NOTIFY", handle |-> "0x000e"]}
AnyPdu == {[expected |-> AllEvents, handle |-> AllHandles]}

Notification == {[opcode |-> "HANDLE_NOTIFY", handle |-> "0x000e"]}
StrayAnswer == Notification \cup {[opcode |-> "ERROR", handle |-> NoHandle]}

=============================================================================
