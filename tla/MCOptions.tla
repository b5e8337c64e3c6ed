------------------------------ MODULE MCOptions ------------------------------
(* Calls of BtIo for TLC: one that makes a socket, with every list of up to three  *)
(* options in every order, then one bt_io_set with every list of up to two.    *)
EXTENDS BtIo

Addresses ==
    { <<"SOURCE", "me">>, <<"SOURCE_TYPE", 1>>, <<"DEST", "peer">>, <<"DEST_TYPE", 2>>,
      <<"CHANNEL", 3>>, <<"PSM", 31>>, <<"CID", 4>> }

(* Level 4 is out of range, and 0 is not set. *)
Rest ==
    { <<"DEFER_TIMEOUT", 10>>, <<"MTU", 100>>, <<"MTU", 0>>, <<"IMTU", 200>>, <<"OMTU", 50>>,
      <<"SEC_LEVEL", 1>>, <<"SEC_LEVEL", 3>>, <<"SEC_LEVEL", 4>>, <<"MASTER", 1>>,
      <<"MODE", 3>>, <<"FLUSHABLE", 1>>, <<"PRIORITY", 3>> }

Back ==
    { <<"SOURCE", "other">>, <<"PSM", 33>>, <<"MASTER", 0>>, <<"MODE", 0>>, <<"FLUSHABLE", 0>>,
      <<"SEC_LEVEL", 2>>, <<"IMTU", 70>>, <<"MTU", 90>> }

Lists(pairs, n) == UNION {[1..m -> pairs] : m \in 0..n}

OptionLists == Lists(Addresses \cup Rest, 3)
OptionSets == Lists(Back, 2)

OptionsNext ==
    \/ \E list \in OptionLists :
         /\ channels = <<>>
         /\ bt_io_connect(list) \/ (\E confirm \in BOOLEAN : bt_io_listen(list, confirm))
    \/ last.call = "connect" /\ \E list \in OptionSets : bt_io_set(1, list)
=============================================================================
