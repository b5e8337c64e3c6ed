-------------------------------- MODULE MCHci --------------------------------
(* Instances of HciRequest for TLC: any function alone, or two of some that    *)
(* differ in how their answers are told apart.                               *)
EXTENDS HciRequest

Some == {"hci_read_bd_addr", "hci_write_local_name", "hci_read_remote_name_with_clock_offset"}
AnyOrTwo == {<<f>> : f \in DOMAIN Requests} \cup (Some \X Some)

(* Events of other links and of others; the codes of two also stand for         *)
(* something else.                                                          *)
Strays == {"REMOTE_NAME_REQ_COMPLETE", "INQUIRY_COMPLETE", "LE_CONN_UPDATE_COMPLETE"}
=============================================================================
