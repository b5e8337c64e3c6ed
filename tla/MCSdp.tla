-------------------------------- MODULE MCSdp --------------------------------
(* An instance of SdpClient for TLC. *)
EXTENDS SdpClient

SearchOrRegister == {"SVC_SEARCH"} \cup Registrations
=============================================================================
