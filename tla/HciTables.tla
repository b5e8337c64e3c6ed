------------------------------ MODULE HciTables ------------------------------
(***************************************************************************)
(* The commands and the events of hci.h: for a command, its opcode command   *)
(* field, the size of its parameters and the size of what it returns; for an  *)
(* event, its code and its size.  A size is 0 where hci.h declares none.      *)
(***************************************************************************)
EXTENDS Integers, FiniteSets, TLC

C(ocf, cp_size, rp_size) == [ocf |-> ocf, cp_size |-> cp_size, rp_size |-> rp_size]
E(code, size) == [code |-> code, size |-> size]

----------------------------------------------------------------------------
(* Commands, by group.                                                      *)

LinkControl ==
    [ INQUIRY |-> C(1, 5, 0), INQUIRY_CANCEL |-> C(2, 0, 0), PERIODIC_INQUIRY |-> C(3, 9, 0),
      EXIT_PERIODIC_INQUIRY |-> C(4, 0, 0), CREATE_CONN |-> C(5, 13, 0), DISCONNECT |-> C(6, 3, 0),
      ADD_SCO |-> C(7, 4, 0), CREATE_CONN_CANCEL |-> C(8, 6, 0), ACCEPT_CONN_REQ |-> C(9, 7, 0),
      REJECT_CONN_REQ |-> C(10, 7, 0), LINK_KEY_REPLY |-> C(11, 22, 0),
      LINK_KEY_NEG_REPLY |-> C(12, 0, 0), PIN_CODE_REPLY |-> C(13, 23, 0),
      PIN_CODE_NEG_REPLY |-> C(14, 0, 0), SET_CONN_PTYPE |-> C(15, 4, 0),
      AUTH_REQUESTED |-> C(17, 2, 0), SET_CONN_ENCRYPT |-> C(19, 3, 0),
      CHANGE_CONN_LINK_KEY |-> C(21, 2, 0), MASTER_LINK_KEY |-> C(23, 1, 0),
      REMOTE_NAME_REQ |-> C(25, 10, 0), REMOTE_NAME_REQ_CANCEL |-> C(26, 6, 0) ]

LinkControlMore ==
    [ READ_REMOTE_FEATURES |-> C(27, 2, 0), READ_REMOTE_EXT_FEATURES |-> C(28, 3, 0),
      READ_REMOTE_VERSION |-> C(29, 2, 0), READ_CLOCK_OFFSET |-> C(31, 2, 0),
      READ_LMP_HANDLE |-> C(32, 0, 0), SETUP_SYNC_CONN |-> C(40, 17, 0),
      ACCEPT_SYNC_CONN_REQ |-> C(41, 21, 0), REJECT_SYNC_CONN_REQ |-> C(42, 7, 0),
      IO_CAPABILITY_REPLY |-> C(43, 9, 0), USER_CONFIRM_REPLY |-> C(44, 6, 0),
      USER_CONFIRM_NEG_REPLY |-> C(45, 0, 0), USER_PASSKEY_REPLY |-> C(46, 10, 0),
      USER_PASSKEY_NEG_REPLY |-> C(47, 0, 0), REMOTE_OOB_DATA_REPLY |-> C(48, 38, 0),
      REMOTE_OOB_DATA_NEG_REPLY |-> C(51, 0, 0), IO_CAPABILITY_NEG_REPLY |-> C(52, 7, 0),
      CREATE_PHYSICAL_LINK |-> C(53, 35, 0), ACCEPT_PHYSICAL_LINK |-> C(54, 0, 0),
      DISCONNECT_PHYSICAL_LINK |-> C(55, 2, 0), CREATE_LOGICAL_LINK |-> C(56, 33, 0),
      ACCEPT_LOGICAL_LINK |-> C(57, 0, 0), DISCONNECT_LOGICAL_LINK |-> C(58, 2, 0),
      LOGICAL_LINK_CANCEL |-> C(59, 2, 3), FLOW_SPEC_MODIFY |-> C(60, 0, 0) ]

LinkPolicy ==
    [ HOLD_MODE |-> C(1, 6, 0), SNIFF_MODE |-> C(3, 10, 0), EXIT_SNIFF_MODE |-> C(4, 2, 0),
      PARK_MODE |-> C(5, 6, 0), EXIT_PARK_MODE |-> C(6, 2, 0), QOS_SETUP |-> C(7, 20, 0),
      ROLE_DISCOVERY |-> C(9, 2, 4), SWITCH_ROLE |-> C(11, 7, 0), READ_LINK_POLICY |-> C(12, 2, 5),
      WRITE_LINK_POLICY |-> C(13, 4, 3), READ_DEFAULT_LINK_POLICY |-> C(14, 0, 0),
      WRITE_DEFAULT_LINK_POLICY |-> C(15, 0, 0), FLOW_SPECIFICATION |-> C(16, 0, 0),
      SNIFF_SUBRATING |-> C(17, 8, 0) ]

HostControl ==
    [ SET_EVENT_MASK |-> C(1, 8, 0), RESET |-> C(3, 0, 0), SET_EVENT_FLT |-> C(5, 2, 0),
      FLUSH |-> C(8, 0, 0), READ_PIN_TYPE |-> C(9, 0, 2), WRITE_PIN_TYPE |-> C(10, 1, 0),
      CREATE_NEW_UNIT_KEY |-> C(11, 0, 0), READ_STORED_LINK_KEY |-> C(13, 7, 5),
      WRITE_STORED_LINK_KEY |-> C(17, 1, 0), DELETE_STORED_LINK_KEY |-> C(18, 7, 3),
      CHANGE_LOCAL_NAME |-> C(19, 248, 0), READ_LOCAL_NAME |-> C(20, 0, 249),
      READ_CONN_ACCEPT_TIMEOUT |-> C(21, 0, 3), WRITE_CONN_ACCEPT_TIMEOUT |-> C(22, 2, 0),
      READ_PAGE_TIMEOUT |-> C(23, 0, 3), WRITE_PAGE_TIMEOUT |-> C(24, 2, 0),
      READ_SCAN_ENABLE |-> C(25, 0, 2), WRITE_SCAN_ENABLE |-> C(26, 0, 0) ]

HostActivity ==
    [ READ_PAGE_ACTIVITY |-> C(27, 0, 5), WRITE_PAGE_ACTIVITY |-> C(28, 4, 0),
      READ_INQ_ACTIVITY |-> C(29, 0, 5), WRITE_INQ_ACTIVITY |-> C(30, 4, 0),
      READ_AUTH_ENABLE |-> C(31, 0, 0), WRITE_AUTH_ENABLE |-> C(32, 0, 0),
      READ_ENCRYPT_MODE |-> C(33, 0, 0), WRITE_ENCRYPT_MODE |-> C(34, 0, 0),
      READ_CLASS_OF_DEV |-> C(35, 0, 4), WRITE_CLASS_OF_DEV |-> C(36, 3, 0),
      READ_VOICE_SETTING |-> C(37, 0, 3), WRITE_VOICE_SETTING |-> C(38, 2, 0),
      READ_AUTOMATIC_FLUSH_TIMEOUT |-> C(39, 0, 0), WRITE_AUTOMATIC_FLUSH_TIMEOUT |-> C(40, 0, 0),
      READ_NUM_BROADCAST_RETRANS |-> C(41, 0, 0), WRITE_NUM_BROADCAST_RETRANS |-> C(42, 0, 0),
      READ_HOLD_MODE_ACTIVITY |-> C(43, 0, 0), WRITE_HOLD_MODE_ACTIVITY |-> C(44, 0, 0),
      READ_TRANSMIT_POWER_LEVEL |-> C(45, 3, 4), READ_SYNC_FLOW_ENABLE |-> C(46, 0, 0),
      WRITE_SYNC_FLOW_ENABLE |-> C(47, 0, 0), SET_CONTROLLER_TO_HOST_FC |-> C(49, 0, 0),
      HOST_BUFFER_SIZE |-> C(51, 7, 0), HOST_NUM_COMP_PKTS |-> C(53, 1, 0),
      READ_LINK_SUPERVISION_TIMEOUT |-> C(54, 0, 5), WRITE_LINK_SUPERVISION_TIMEOUT |-> C(55, 4, 3),
      READ_NUM_SUPPORTED_IAC |-> C(56, 0, 0), READ_CURRENT_IAC_LAP |-> C(57, 0, 194) ]

HostInquiry ==
    [ WRITE_CURRENT_IAC_LAP |-> C(58, 193, 0), READ_PAGE_SCAN_PERIOD_MODE |-> C(59, 0, 0),
      WRITE_PAGE_SCAN_PERIOD_MODE |-> C(60, 0, 0), READ_PAGE_SCAN_MODE |-> C(61, 0, 0),
      WRITE_PAGE_SCAN_MODE |-> C(62, 0, 0), SET_AFH_CLASSIFICATION |-> C(63, 10, 1),
      READ_INQUIRY_SCAN_TYPE |-> C(66, 0, 2), WRITE_INQUIRY_SCAN_TYPE |-> C(67, 1, 1),
      READ_INQUIRY_MODE |-> C(68, 0, 2), WRITE_INQUIRY_MODE |-> C(69, 1, 1),
      READ_PAGE_SCAN_TYPE |-> C(70, 0, 0), WRITE_PAGE_SCAN_TYPE |-> C(71, 0, 0),
      READ_AFH_MODE |-> C(72, 0, 2), WRITE_AFH_MODE |-> C(73, 1, 1),
      READ_EXT_INQUIRY_RESPONSE |-> C(81, 0, 242), WRITE_EXT_INQUIRY_RESPONSE |-> C(82, 241, 1),
      REFRESH_ENCRYPTION_KEY |-> C(83, 2, 1), READ_SIMPLE_PAIRING_MODE |-> C(85, 0, 2),
      WRITE_SIMPLE_PAIRING_MODE |-> C(86, 1, 1) ]

HostPower ==
    [ READ_LOCAL_OOB_DATA |-> C(87, 0, 33), READ_INQ_RESPONSE_TX_POWER_LEVEL |-> C(88, 0, 2),
      READ_INQUIRY_TRANSMIT_POWER_LEVEL |-> C(88, 0, 2),
      WRITE_INQUIRY_TRANSMIT_POWER_LEVEL |-> C(89, 1, 1),
      READ_DEFAULT_ERROR_DATA_REPORTING |-> C(90, 0, 2),
      WRITE_DEFAULT_ERROR_DATA_REPORTING |-> C(91, 1, 1), ENHANCED_FLUSH |-> C(95, 3, 0),
      SEND_KEYPRESS_NOTIFY |-> C(96, 7, 1), READ_LOGICAL_LINK_ACCEPT_TIMEOUT |-> C(97, 0, 3),
      WRITE_LOGICAL_LINK_ACCEPT_TIMEOUT |-> C(98, 2, 0), SET_EVENT_MASK_PAGE_2 |-> C(99, 0, 0),
      READ_LOCATION_DATA |-> C(100, 0, 0), WRITE_LOCATION_DATA |-> C(101, 0, 0),
      READ_FLOW_CONTROL_MODE |-> C(102, 0, 0), WRITE_FLOW_CONTROL_MODE |-> C(103, 0, 0),
      READ_ENHANCED_TRANSMIT_POWER_LEVEL |-> C(104, 0, 6),
      READ_BEST_EFFORT_FLUSH_TIMEOUT |-> C(105, 0, 5), WRITE_BEST_EFFORT_FLUSH_TIMEOUT |-> C(106, 6, 1),
      READ_LE_HOST_SUPPORTED |-> C(108, 0, 3), WRITE_LE_HOST_SUPPORTED |-> C(109, 2, 0) ]

InfoParam ==
    [ READ_LOCAL_VERSION |-> C(1, 0, 9), READ_LOCAL_COMMANDS |-> C(2, 0, 65),
      READ_LOCAL_FEATURES |-> C(3, 0, 9), READ_LOCAL_EXT_FEATURES |-> C(4, 1, 11),
      READ_BUFFER_SIZE |-> C(5, 0, 8), READ_COUNTRY_CODE |-> C(7, 0, 0), READ_BD_ADDR |-> C(9, 0, 7),
      READ_DATA_BLOCK_SIZE |-> C(10, 0, 0) ]

StatusParam ==
    [ READ_FAILED_CONTACT_COUNTER |-> C(1, 0, 4), RESET_FAILED_CONTACT_COUNTER |-> C(2, 0, 3),
      READ_LINK_QUALITY |-> C(3, 0, 4), READ_RSSI |-> C(5, 0, 4), READ_AFH_MAP |-> C(6, 0, 14),
      READ_CLOCK |-> C(7, 3, 9), READ_LOCAL_AMP_INFO |-> C(9, 0, 31),
      READ_LOCAL_AMP_ASSOC |-> C(10, 5, 252), WRITE_REMOTE_AMP_ASSOC |-> C(11, 253, 2) ]

TestingCmd ==
    [ READ_LOOPBACK_MODE |-> C(1, 0, 0), WRITE_LOOPBACK_MODE |-> C(2, 0, 0),
      ENABLE_DEVICE_UNDER_TEST_MODE |-> C(3, 0, 0), WRITE_SIMPLE_PAIRING_DEBUG_MODE |-> C(4, 1, 1) ]

LeControl ==
    [ LE_SET_EVENT_MASK |-> C(1, 8, 0), LE_READ_BUFFER_SIZE |-> C(2, 0, 4),
      LE_READ_LOCAL_SUPPORTED_FEATURES |-> C(3, 0, 9), LE_SET_RANDOM_ADDRESS |-> C(5, 6, 0),
      LE_SET_ADVERTISING_PARAMETERS |-> C(6, 15, 0),
      LE_READ_ADVERTISING_CHANNEL_TX_POWER |-> C(7, 0, 2), LE_SET_ADVERTISING_DATA |-> C(8, 32, 0),
      LE_SET_SCAN_RESPONSE_DATA |-> C(9, 32, 0), LE_SET_ADVERTISE_ENABLE |-> C(10, 1, 0),
      LE_SET_SCAN_PARAMETERS |-> C(11, 7, 0), LE_SET_SCAN_ENABLE |-> C(12, 2, 0),
      LE_CREATE_CONN |-> C(13, 25, 0), LE_CREATE_CONN_CANCEL |-> C(14, 0, 0),
      LE_READ_WHITE_LIST_SIZE |-> C(15, 0, 2), LE_CLEAR_WHITE_LIST |-> C(16, 0, 0) ]

LeControlMore ==
    [ LE_ADD_DEVICE_TO_WHITE_LIST |-> C(17, 7, 0), LE_REMOVE_DEVICE_FROM_WHITE_LIST |-> C(18, 7, 0),
      LE_CONN_UPDATE |-> C(19, 14, 0), LE_SET_HOST_CHANNEL_CLASSIFICATION |-> C(20, 5, 0),
      LE_READ_CHANNEL_MAP |-> C(21, 2, 8), LE_READ_REMOTE_USED_FEATURES |-> C(22, 2, 0),
      LE_ENCRYPT |-> C(23, 32, 17), LE_RAND |-> C(24, 0, 9), LE_START_ENCRYPTION |-> C(25, 28, 0),
      LE_LTK_REPLY |-> C(26, 18, 3), LE_LTK_NEG_REPLY |-> C(27, 2, 3),
      LE_READ_SUPPORTED_STATES |-> C(28, 0, 9), LE_RECEIVER_TEST |-> C(29, 1, 0),
      LE_TRANSMITTER_TEST |-> C(30, 3, 0), LE_TEST_END |-> C(31, 0, 3) ]

(* The numbers of the groups. *)
OGF == [ LINK_CTL |-> 1, LINK_POLICY |-> 2, HOST_CTL |-> 3, INFO_PARAM |-> 4,
         STATUS_PARAM |-> 5, LE_CTL |-> 8, TESTING_CMD |-> 62 ]

Groups ==
    [ LINK_CTL |-> LinkControl @@ LinkControlMore, LINK_POLICY |-> LinkPolicy,
      HOST_CTL |-> HostControl @@ HostActivity @@ HostInquiry @@ HostPower,
      INFO_PARAM |-> InfoParam, STATUS_PARAM |-> StatusParam,
      LE_CTL |-> LeControl @@ LeControlMore, TESTING_CMD |-> TestingCmd ]

(* An opcode has 6 bits of group and 10 of command. *)
cmd_opcode_pack(ogf, ocf) == (ocf % 1024) + ogf * 1024
Opcode(group, command) == cmd_opcode_pack(OGF[group], Groups[group][command].ocf)

----------------------------------------------------------------------------
(* Events.  Those of LE_META_EVENT have a number space of their own.          *)

LinkEvents ==
    [ INQUIRY_COMPLETE |-> E(1, 0), INQUIRY_RESULT |-> E(2, 0), CONN_COMPLETE |-> E(3, 11),
      CONN_REQUEST |-> E(4, 10), DISCONN_COMPLETE |-> E(5, 4), AUTH_COMPLETE |-> E(6, 3),
      REMOTE_NAME_REQ_COMPLETE |-> E(7, 255), ENCRYPT_CHANGE |-> E(8, 4),
      CHANGE_CONN_LINK_KEY_COMPLETE |-> E(9, 3), MASTER_LINK_KEY_COMPLETE |-> E(10, 4),
      READ_REMOTE_FEATURES_COMPLETE |-> E(11, 11), READ_REMOTE_VERSION_COMPLETE |-> E(12, 8),
      QOS_SETUP_COMPLETE |-> E(13, 21), CMD_COMPLETE |-> E(14, 3), CMD_STATUS |-> E(15, 4),
      HARDWARE_ERROR |-> E(16, 1), FLUSH_OCCURRED |-> E(17, 2), ROLE_CHANGE |-> E(18, 8),
      NUM_COMP_PKTS |-> E(19, 1), MODE_CHANGE |-> E(20, 6) ]

DeviceEvents ==
    [ RETURN_LINK_KEYS |-> E(21, 1), PIN_CODE_REQ |-> E(22, 6), LINK_KEY_REQ |-> E(23, 6),
      LINK_KEY_NOTIFY |-> E(24, 23), LOOPBACK_COMMAND |-> E(25, 0), DATA_BUFFER_OVERFLOW |-> E(26, 1),
      MAX_SLOTS_CHANGE |-> E(27, 3), READ_CLOCK_OFFSET_COMPLETE |-> E(28, 5),
      CONN_PTYPE_CHANGED |-> E(29, 5), QOS_VIOLATION |-> E(30, 2), PSCAN_REP_MODE_CHANGE |-> E(32, 7),
      FLOW_SPEC_COMPLETE |-> E(33, 22), INQUIRY_RESULT_WITH_RSSI |-> E(34, 0),
      READ_REMOTE_EXT_FEATURES_COMPLETE |-> E(35, 13), SYNC_CONN_COMPLETE |-> E(44, 17),
      SYNC_CONN_CHANGED |-> E(45, 9) ]

PairingEvents ==
    [ SNIFF_SUBRATING |-> E(46, 11), EXTENDED_INQUIRY_RESULT |-> E(47, 0),
      ENCRYPTION_KEY_REFRESH_COMPLETE |-> E(48, 3), IO_CAPABILITY_REQUEST |-> E(49, 6),
      IO_CAPABILITY_RESPONSE |-> E(50, 9), USER_CONFIRM_REQUEST |-> E(51, 10),
      USER_PASSKEY_REQUEST |-> E(52, 6), REMOTE_OOB_DATA_REQUEST |-> E(53, 6),
      SIMPLE_PAIRING_COMPLETE |-> E(54, 7), LINK_SUPERVISION_TIMEOUT_CHANGED |-> E(56, 4),
      ENHANCED_FLUSH_COMPLETE |-> E(57, 2), USER_PASSKEY_NOTIFY |-> E(59, 10),
      KEYPRESS_NOTIFY |-> E(60, 7), REMOTE_HOST_FEATURES_NOTIFY |-> E(61, 14) ]

MetaEvents ==
    [ LE_META_EVENT |-> E(62, 1), LE_CONN_COMPLETE |-> E(1, 18), LE_ADVERTISING_REPORT |-> E(2, 0),
      LE_CONN_UPDATE_COMPLETE |-> E(3, 9), LE_READ_REMOTE_USED_FEATURES_COMPLETE |-> E(4, 11),
      LE_LTK_REQUEST |-> E(5, 12) ]

AmpEvents ==
    [ PHYSICAL_LINK_COMPLETE |-> E(64, 2), CHANNEL_SELECTED |-> E(65, 0),
      DISCONNECT_PHYSICAL_LINK_COMPLETE |-> E(66, 3), PHYSICAL_LINK_LOSS_EARLY_WARNING |-> E(67, 0),
      PHYSICAL_LINK_RECOVERY |-> E(68, 1), LOGICAL_LINK_COMPLETE |-> E(69, 5),
      DISCONNECT_LOGICAL_LINK_COMPLETE |-> E(70, 0), FLOW_SPEC_MODIFY_COMPLETE |-> E(71, 3),
      NUMBER_COMPLETED_BLOCKS |-> E(72, 0), AMP_STATUS_CHANGE |-> E(77, 2), TESTING |-> E(254, 0),
      VENDOR |-> E(255, 0), STACK_INTERNAL |-> E(253, 2) ]

LeEvents == {"LE_CONN_COMPLETE", "LE_ADVERTISING_REPORT", "LE_CONN_UPDATE_COMPLETE",
             "LE_READ_REMOTE_USED_FEATURES_COMPLETE", "LE_LTK_REQUEST"}

Events == LinkEvents @@ DeviceEvents @@ PairingEvents @@ MetaEvents @@ AmpEvents

----------------------------------------------------------------------------
(* Answers are told apart by opcode, and events by code: no two commands and   *)
(* no two events share one, but for a command that hci.h names twice.         *)
Names == UNION {{<<g, c>> : c \in DOMAIN Groups[g]} : g \in DOMAIN Groups}
Twice == <<"HOST_CTL", "READ_INQUIRY_TRANSMIT_POWER_LEVEL">>

ASSUME OpcodesDistinct ==
    /\ Cardinality({Opcode(n[1], n[2]) : n \in Names \ {Twice}}) = Cardinality(Names \ {Twice})
    /\ \A n \in Names : Opcode(n[1], n[2]) < 65536

ASSUME EventCodesDistinct ==
    /\ \A e \in DOMAIN Events \ LeEvents, f \in DOMAIN Events \ LeEvents :
          Events[e].code = Events[f].code => e = f
    /\ \A e \in LeEvents, f \in LeEvents : Events[e].code = Events[f].code => e = f
=============================================================================
