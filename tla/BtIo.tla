-------------------------------- MODULE BtIo --------------------------------
(***************************************************************************)
(* btio.c: sockets made from a list of options, and the watches that call     *)
(* back once when a connection is made (connect_cb), once when one that was     *)
(* asked for is accepted (accept_cb), and for each that comes to a server       *)
(* (server_cb).                                                             *)
(*                                                                         *)
(* A watch polls the number of a file descriptor, which may stand for another  *)
(* socket after the user has closed it.                                      *)
(***************************************************************************)
EXTENDS Integers, Sequences, FiniteSets

CONSTANTS
    ConnectLists,  \* the lists of options bt_io_connect and bt_io_listen are given
    SetLists,      \* those bt_io_set is given
    MaxChannels,   \* bound: channels made
    Security,      \* whether the kernel may know BT_SECURITY, a set of Booleans
    May            \* what this instance lets happen, a subset of Features

Features ==
    { "io_error",  \* a system call fails
      "close",     \* the user closes a channel with g_io_channel_shutdown
      "server" }   \* bt_io_listen

ASSUME BtIoAssumption ==
    MaxChannels \in Nat /\ Security \subseteq BOOLEAN /\ May \subseteq Features

VARIABLES
    channels,   \* the GIOChannels made, with their sockets and watches
    table,      \* whose socket a file descriptor is, 0 if none
    secure,     \* whether the kernel knows BT_SECURITY
    last        \* history: what call the last step was, and with what options, if it did well

vars == <<channels, table, secure, last>>

----------------------------------------------------------------------------
(* Options: a list is a sequence of pairs of an option and its value.         *)

Defaults ==
    [ type |-> "SCO", src |-> "any", dst |-> "any", src_type |-> 0, dst_type |-> 0,
      defer |-> 30, sec_level |-> 0, channel |-> 0, psm |-> 0, cid |-> 0, mtu |-> 0,
      imtu |-> 0, omtu |-> 0, master |-> -1, mode |-> 0, flushable |-> -1, priority |-> 0 ]

(* The field an option sets. *)
Field ==
    [ SOURCE |-> "src", DEST |-> "dst", SOURCE_TYPE |-> "src_type", DEST_TYPE |-> "dst_type",
      DEFER_TIMEOUT |-> "defer", SEC_LEVEL |-> "sec_level", CHANNEL |-> "channel", PSM |-> "psm",
      CID |-> "cid", MTU |-> "mtu", OMTU |-> "omtu", IMTU |-> "imtu", MASTER |-> "master",
      MODE |-> "mode", FLUSHABLE |-> "flushable", PRIORITY |-> "priority" ]

ParseOption_mtu_only(opts, opt, v) ==
    [opts EXCEPT ![Field[opt]] = v, !.type = IF opt = "CHANNEL" THEN "RFCOMM"
                                             ELSE IF opt \in {"PSM", "CID"} THEN "L2CAP" ELSE @]

(* CHANNEL, PSM and CID also tell the type; the three options of MTU set each   *)
(* other. *)
ParseOption(opts, opt, v) ==
    LET set == [opts EXCEPT ![Field[opt]] = v] IN
    CASE opt = "CHANNEL"          -> [set EXCEPT !.type = "RFCOMM"]
      [] opt \in {"PSM", "CID"}   -> [set EXCEPT !.type = "L2CAP"]
      [] opt = "MTU"              -> [set EXCEPT !.imtu = v, !.omtu = v]
      [] opt \in {"OMTU", "IMTU"} -> [set EXCEPT !.mtu = IF @ = 0 THEN v ELSE @]
      [] OTHER                    -> set

(* An option that is not in the list of those to set ends the call. *)
Known(list) == \A i \in DOMAIN list : list[i][1] \in DOMAIN Field

parse_set_opts(list) ==
    LET parsed[i \in 0..Len(list)] ==
          IF i = 0 THEN Defaults ELSE ParseOption(parsed[i - 1], list[i][1], list[i][2])
    IN  parsed[Len(list)]

----------------------------------------------------------------------------
(* The kernel's socket: the addresses it is bound and connected to, and its   *)
(* options; lm holds the bits of the link mode.                              *)

NewSocket ==
    [ src |-> "any", src_type |-> 0, src_psm |-> 0, src_cid |-> 0, src_channel |-> 0,
      dst |-> "any", dst_type |-> 0, dst_psm |-> 0, dst_cid |-> 0, dst_channel |-> 0, defer |-> 0,
      imtu |-> 672, omtu |-> 672, mtu |-> 64, mode |-> 0, lm |-> {}, level |-> 1,
      flushable |-> 0, priority |-> 0 ]

LevelBits(level) ==
    CASE level = 0 -> {} [] level = 1 -> {"AUTH"} [] level = 2 -> {"AUTH", "ENCRYPT"}
      [] level = 3 -> {"AUTH", "ENCRYPT", "SECURE"}

BitsLevel(lm) ==
    IF "SECURE" \in lm THEN 3 ELSE IF "ENCRYPT" \in lm THEN 2 ELSE IF "AUTH" \in lm THEN 1 ELSE 0

set_master(s, master) ==
    [s EXCEPT !.lm = IF master = 1 THEN @ \cup {"MASTER"} ELSE @ \ {"MASTER"}]

(* Without BT_SECURITY the level is written as the whole link mode. *)
set_sec_level(s, level) ==
    IF secure THEN [s EXCEPT !.level = level] ELSE [s EXCEPT !.lm = LevelBits(level)]

get_sec_level(s) == IF secure THEN s.level ELSE BitsLevel(s.lm)

l2cap_options(s, o) ==
    [s EXCEPT !.imtu = IF o.imtu # 0 THEN o.imtu ELSE @, !.omtu = IF o.omtu # 0 THEN o.omtu ELSE @,
              !.mode = IF o.mode # 0 THEN o.mode ELSE @]

(* The settings of a call in the order they are made; a value of 0, or of -1,   *)
(* is not set. *)
Settings(type, o) ==
    LET level == IF o.sec_level # 0 THEN <<"level">> ELSE <<>>
        master == IF o.master # -1 THEN <<"master">> ELSE <<>>
    IN  CASE type = "L2CAP" ->
               (IF o.imtu # 0 \/ o.omtu # 0 \/ o.mode # 0 THEN <<"options">> ELSE <<>>)
                 \o master
                 \o (IF o.flushable # -1 THEN <<"flushable">> ELSE <<>>)
                 \o (IF o.priority # 0 THEN <<"priority">> ELSE <<>>) \o level
          [] type = "RFCOMM" -> level \o master
          [] type = "SCO"    -> IF o.mtu # 0 THEN <<"mtu">> ELSE <<>>

Setting(s, name, o) ==
    CASE name = "options"   -> l2cap_options(s, o)
      [] name = "master"    -> set_master(s, o.master)
      [] name = "flushable" -> [s EXCEPT !.flushable = o.flushable]
      [] name = "priority"  -> [s EXCEPT !.priority = o.priority]
      [] name = "level"     -> set_sec_level(s, o.sec_level)
      [] name = "mtu"       -> [s EXCEPT !.mtu = o.mtu]

(* The socket after the first n settings. *)
AfterSettings(s, type, o, n) ==
    LET names == Settings(type, o)
        done[i \in 0..n] == IF i = 0 THEN s ELSE Setting(done[i - 1], names[i], o)
    IN  done[n]

(* A level out of range is refused before anything is asked of the kernel. *)
GoodLevel(type, o) == type = "SCO" \/ o.sec_level \in 0..3

(* How many of the settings are made: all, or those before one that fails. *)
HowMany(type, o) ==
    LET n == Len(Settings(type, o))
        before == IF type = "RFCOMM" THEN 0 ELSE n - 1
    IN  IF ~ GoodLevel(type, o) THEN {before}
        ELSE {n} \cup IF "io_error" \in May /\ n > 0 THEN 0..(n - 1) ELSE {}

Succeeds(type, o, n) == GoodLevel(type, o) /\ n = Len(Settings(type, o))

(* bt_io_get: what l2cap_get, rfcomm_get and sco_get return of an option. *)
Or(a, b) == IF a # 0 THEN a ELSE b

Got(s, type, opt) ==
    CASE opt = "SOURCE"    -> s.src
      [] opt = "DEST"      -> s.dst
      [] opt = "SEC_LEVEL" -> get_sec_level(s)
      [] opt = "PSM"       -> Or(s.src_psm, s.dst_psm)
      [] opt = "CID"       -> Or(s.src_cid, s.dst_cid)
      [] opt = "CHANNEL"   -> Or(s.src_channel, s.dst_channel)
      [] opt = "DEFER_TIMEOUT" -> s.defer
      [] opt = "MTU"       -> s.mtu
      [] opt = "OMTU"      -> IF type = "SCO" THEN s.mtu ELSE s.omtu
      [] opt = "IMTU"      -> IF type = "SCO" THEN s.mtu ELSE s.imtu
      [] opt = "MASTER"    -> IF "MASTER" \in s.lm THEN 1 ELSE 0
      [] opt = "MODE"      -> s.mode
      [] opt = "FLUSHABLE" -> s.flushable
      [] opt = "PRIORITY"  -> s.priority

Gettable(type) ==
    CASE type = "L2CAP"  -> {"SOURCE", "DEST", "DEFER_TIMEOUT", "SEC_LEVEL", "PSM", "CID", "OMTU",
                             "IMTU", "MASTER", "MODE", "FLUSHABLE", "PRIORITY"}
      [] type = "RFCOMM" -> {"SOURCE", "DEST", "DEFER_TIMEOUT", "SEC_LEVEL", "CHANNEL", "MASTER"}
      [] type = "SCO"    -> {"SOURCE", "DEST", "MTU", "OMTU", "IMTU"}

----------------------------------------------------------------------------
(* Channels.  state is that of the socket: "connecting", "connected",         *)
(* "deferred" (a server was asked to accept it), "accepting", "failed", "hungup" *)
(* or "listening"; waiting counts the connections that wait for a server.     *)
(* called, destroyed, closed, late and reused are history: what the callback    *)
(* was given, how often destroy was called, whether the user closed the channel, *)
(* whether the callback was called after that, and whether the descriptor of    *)
(* the closed channel stood for another socket.                              *)

Channel(type, fd, socket, state, watch) ==
    [ type |-> type, fd |-> fd, socket |-> socket, state |-> state, watch |-> watch,
      confirm |-> FALSE, refs |-> IF watch = "none" THEN 1 ELSE 2, open |-> TRUE,
      error |-> FALSE, waiting |-> 0, started |-> watch # "none",
      called |-> <<>>, destroyed |-> 0, closed |-> FALSE, late |-> FALSE, reused |-> FALSE ]

Me == Len(channels) + 1

(* The lowest descriptor that is free. *)
FreeFd == CHOOSE fd \in DOMAIN table : table[fd] = 0 /\ \A g \in DOMAIN table : table[g] = 0 => fd <= g

(* A new socket takes the descriptor, and whoever still watches the number      *)
(* watches it from then on. *)
Reusing(chans, fd) ==
    [c \in DOMAIN chans |-> [chans[c] EXCEPT !.reused = @ \/ (chans[c].fd = fd /\ ~ chans[c].open)]]

Bound(o, server) ==
    [NewSocket EXCEPT
        !.src = o.src,
        !.src_type = IF o.type = "L2CAP" THEN o.src_type ELSE 0,
        !.src_cid = IF o.type = "L2CAP" THEN o.cid ELSE 0,
        !.src_psm = IF o.type = "L2CAP" /\ o.cid = 0 /\ server THEN o.psm ELSE 0,
        !.src_channel = IF o.type = "RFCOMM" /\ server THEN o.channel ELSE 0]

Connected(s, o) ==
    [s EXCEPT !.dst = o.dst,
              !.dst_type = IF o.type = "L2CAP" THEN o.dst_type ELSE 0,
              !.dst_cid = IF o.type = "L2CAP" THEN o.cid ELSE 0,
              !.dst_psm = IF o.type = "L2CAP" /\ o.cid = 0 THEN o.psm ELSE 0,
              !.dst_channel = IF o.type = "RFCOMM" THEN o.channel ELSE 0]

(* Nothing was set by the last step. *)
Nothing == [n |-> 0, call |-> "none", list |-> <<>>, before |-> NewSocket]
NoSetting == last' = Nothing

(* create_io closes what it opened when a call fails; so does what follows. *)
NoChannel == UNCHANGED <<channels, table>>

bt_io_connect(list) ==
    LET o == parse_set_opts(list)
        s == Bound(o, FALSE)
        fd == FreeFd
    IN  /\ Me <= MaxChannels
        /\ \E n \in IF Known(list) THEN HowMany(o.type, o) ELSE {0},
              connects \in IF "io_error" \in May THEN BOOLEAN ELSE {TRUE} :
             IF Known(list) /\ Succeeds(o.type, o, n) /\ connects
             THEN LET made == Connected(AfterSettings(s, o.type, o, n), o) IN
                  /\ channels' = Append(Reusing(channels, fd),
                                        Channel(o.type, fd, made, "connecting", "connect_cb"))
                  /\ table' = [table EXCEPT ![fd] = Me]
                  /\ last' = [n |-> Me, call |-> "connect", list |-> list, before |-> NewSocket]
             ELSE NoChannel /\ NoSetting
        /\ UNCHANGED secure

(* Whether the kernel took the timeout of a deferral is not looked at. *)
Deferring(s, o) ==
    {[s EXCEPT !.defer = o.defer]} \cup IF "io_error" \in May THEN {s} ELSE {}

bt_io_listen(list, confirm) ==
    LET o == parse_set_opts(list)
        fd == FreeFd
        settings(n) == AfterSettings(Bound(o, TRUE), o.type, o, n)
    IN  /\ "server" \in May /\ Me <= MaxChannels /\ Known(list)
        /\ \E n \in HowMany(o.type, o),
              listens \in IF "io_error" \in May THEN BOOLEAN ELSE {TRUE} :
             IF Succeeds(o.type, o, n) /\ listens
             THEN \E s \in IF confirm THEN Deferring(settings(n), o) ELSE {settings(n)} :
                  LET c == Channel(o.type, fd, s, "listening", "server_cb") IN
                  /\ channels' = Append(Reusing(channels, fd), [c EXCEPT !.confirm = confirm])
                  /\ table' = [table EXCEPT ![fd] = Me]
                  /\ last' = [n |-> Me, call |-> "listen", list |-> list, before |-> NewSocket]
             ELSE NoChannel /\ NoSetting
        /\ UNCHANGED secure

bt_io_set(c, list) ==
    LET ch == channels[c]
        o == parse_set_opts(list)
    IN  /\ ch.open /\ ch.state # "listening" /\ Known(list)
        /\ \E n \in HowMany(ch.type, o) :
             /\ channels' = [channels EXCEPT ![c].socket = AfterSettings(@, ch.type, o, n)]
             /\ last' = IF Succeeds(ch.type, o, n)
                        THEN [n |-> c, call |-> "set", list |-> list, before |-> ch.socket]
                        ELSE Nothing
        /\ UNCHANGED <<table, secure>>

(* bt_io_accept asks the kernel to go on, by a read, if the socket is not ready. *)
bt_io_accept(c) ==
    LET ch == channels[c] IN
    /\ ch.open /\ ch.state \in {"deferred", "hungup"} /\ ~ ch.started
    /\ channels' = [channels EXCEPT ![c].state = IF @ = "deferred" THEN "accepting" ELSE @,
                                    ![c].watch = "accept_cb", ![c].started = TRUE,
                                    ![c].refs = @ + 1]
    /\ NoSetting /\ UNCHANGED <<table, secure>>

(* What is left of a channel when a reference goes: with the last one its       *)
(* descriptor is closed, unless the user has closed it. *)
Unreferenced(ch) == [ch EXCEPT !.refs = @ - 1, !.open = @ /\ ch.refs > 1]

(* The channels, and the descriptors of those that are open. *)
Now(chans) ==
    /\ channels' = chans
    /\ table' = [fd \in DOMAIN table |->
                   IF table[fd] # 0 /\ chans[table[fd]].open THEN table[fd] ELSE 0]

(* The user lets go of a channel, or closes it and keeps the reference. *)
g_io_channel_unref(c) ==
    /\ channels[c].refs > (IF channels[c].watch = "none" THEN 0 ELSE 1)
    /\ Now([channels EXCEPT ![c] = Unreferenced(@)])
    /\ NoSetting /\ UNCHANGED secure

g_io_channel_shutdown(c) ==
    /\ "close" \in May /\ channels[c].open
    /\ channels[c].refs > (IF channels[c].watch = "none" THEN 0 ELSE 1)
    /\ Now([channels EXCEPT ![c].open = FALSE, ![c].closed = TRUE])
    /\ NoSetting /\ UNCHANGED secure

----------------------------------------------------------------------------
(* Watches.  Polled is the socket that the number of the descriptor stands for. *)

Polled(c) == table[channels[c].fd]
Nval(c) == Polled(c) = 0

Writable(c) == Polled(c) # 0 /\ channels[Polled(c)].state \in {"connected", "failed", "hungup"}
HungUp(c) == Polled(c) # 0 /\ channels[Polled(c)].state \in {"failed", "hungup"}

(* SO_ERROR of the socket; a link that was hung up in order has none. *)
SocketError(c) == channels[Polled(c)].state = "failed"

(* The watch ends: connect_remove or accept_remove, and the channel's reference. *)
Removed_kept(ch) == ch
Removed_twice(ch) ==
    Unreferenced(Unreferenced([ch EXCEPT !.watch = "none", !.destroyed = @ + 1]))
Removed(ch) == Unreferenced([ch EXCEPT !.watch = "none", !.destroyed = @ + 1])

Called(ch, error) == [ch EXCEPT !.called = Append(@, error), !.late = ch.closed]

connect_cb(c) ==
    /\ channels[c].watch = "connect_cb" /\ (Nval(c) \/ Writable(c))
    /\ IF Nval(c)
       THEN Now([channels EXCEPT ![c] = Removed(@)])
       ELSE Now([channels EXCEPT ![c] = Removed(Called(@, SocketError(c)))])
    /\ NoSetting /\ UNCHANGED secure

accept_cb(c) ==
    /\ channels[c].watch = "accept_cb" /\ (Nval(c) \/ Writable(c))
    /\ IF Nval(c)
       THEN Now([channels EXCEPT ![c] = Removed(@)])
       ELSE Now([channels EXCEPT ![c] = Removed(Called(@, HungUp(c) /\ SocketError(c)))])
    /\ NoSetting /\ UNCHANGED secure

(* accept() may find nobody left.  The callback keeps the new channel or not;   *)
(* if it does not, it is closed when server_cb returns. *)
server_cb(c) ==
    /\ channels[c].watch = "server_cb"
    /\ \/ /\ Nval(c)
          /\ Now([channels EXCEPT ![c] = Removed(@)])
       \/ /\ ~ Nval(c) /\ channels[Polled(c)].waiting > 0
          /\ \E keep \in BOOLEAN :
               IF keep /\ Me <= MaxChannels
               THEN LET fd == FreeFd
                        state == IF channels[c].confirm THEN "deferred" ELSE "connected"
                        new == Channel(channels[Polled(c)].type, fd, channels[Polled(c)].socket,
                                       state, "none")
                    IN  /\ channels' = Append(Reusing([channels EXCEPT ![Polled(c)].waiting = @ - 1], fd),
                                              new)
                        /\ table' = [table EXCEPT ![fd] = Me]
               ELSE Now([channels EXCEPT ![Polled(c)].waiting = @ - 1])
    /\ NoSetting /\ UNCHANGED secure

----------------------------------------------------------------------------
(* The kernel and the peer.                                                 *)

KernelMoves(c, from, to) ==
    /\ channels[c].open /\ channels[c].state \in from
    /\ channels' = [channels EXCEPT ![c].state = to]
    /\ NoSetting /\ UNCHANGED <<table, secure>>

ConnectionMade(c) == KernelMoves(c, {"connecting", "accepting"}, "connected")
ConnectionFails(c) == KernelMoves(c, {"connecting", "accepting"}, "failed")
PeerHangsUp(c) == KernelMoves(c, {"connected", "deferred", "accepting"}, "hungup")

PeerConnects(c) ==
    /\ channels[c].open /\ channels[c].state = "listening" /\ channels[c].waiting = 0
    /\ channels' = [channels EXCEPT ![c].waiting = 1]
    /\ NoSetting /\ UNCHANGED <<table, secure>>

----------------------------------------------------------------------------
Init ==
    /\ channels = <<>> /\ table = [fd \in 1..MaxChannels |-> 0]
    /\ secure \in Security
    /\ last = Nothing

Watches(c) == connect_cb(c) \/ accept_cb(c) \/ server_cb(c)

Next ==
    \/ \E list \in ConnectLists : bt_io_connect(list) \/ (\E confirm \in BOOLEAN : bt_io_listen(list, confirm))
    \/ \E c \in DOMAIN channels :
          \/ \E list \in SetLists : bt_io_set(c, list)
          \/ bt_io_accept(c) \/ g_io_channel_unref(c) \/ g_io_channel_shutdown(c)
          \/ Watches(c)
          \/ ConnectionMade(c) \/ ConnectionFails(c) \/ PeerHangsUp(c) \/ PeerConnects(c)

Spec == Init /\ [][Next]_vars

----------------------------------------------------------------------------
(* Properties.                                                              *)

TypeOK ==
    /\ \A c \in DOMAIN channels :
          /\ channels[c].refs \in 0..3 /\ channels[c].destroyed \in Nat
          /\ channels[c].watch \in {"none", "connect_cb", "accept_cb", "server_cb"}
          /\ channels[c].open => table[channels[c].fd] = c
          /\ channels[c].watch # "none" => channels[c].refs > 0
    /\ \A fd \in DOMAIN table : table[fd] \in 0..Len(channels)

(* A connection that was begun, or an acceptance, is called back once and then  *)
(* its destroy function, once.  Of a channel the user has closed only destroy   *)
(* is called.  Without an error it is called back when there was a connection.  *)
(* Two things escape this: a descriptor that was closed and used again, for     *)
(* then the watch takes the other socket for its own, and a link that is hung   *)
(* up in order before it is accepted, which is reported as made.              *)
OneCallback ==
    \A c \in DOMAIN channels :
        LET ch == channels[c] IN
        ch.started /\ ch.state # "listening" =>
            /\ Len(ch.called) <= 1
            /\ ch.destroyed = IF ch.watch = "none" THEN 1 ELSE 0
            /\ ch.watch = "none" /\ ~ ch.closed => Len(ch.called) = 1
            /\ ~ ch.late \/ ch.reused
            /\ ch.called = <<FALSE>> => ch.state \in {"connected", "hungup"} \/ ch.reused
            /\ ch.called = <<TRUE>> => ch.state = "failed" \/ ch.reused

(* Where a list names an option; an L2CAP socket has no MTU but the two. *)
Named(list, opt) == {i \in DOMAIN list : list[i][1] = opt}

AskedFor(list, opt) ==
    Named(list, opt) \cup IF opt \in {"IMTU", "OMTU"} THEN Named(list, "MTU") ELSE {}

Last(places) == CHOOSE i \in places : \A j \in places : j <= i

LastValue(list, opt) == list[Last(AskedFor(list, opt))][2]

(* Values that mean "do not set": a socket cannot be put back to basic mode,    *)
(* to the lowest level of security or to priority 0. *)
NotSet(opt, v) == opt \in {"MODE", "SEC_LEVEL", "PRIORITY", "IMTU", "OMTU", "PSM", "CID", "CHANNEL"} /\ v = 0

Asked(list, opt) == AskedFor(list, opt) # {} /\ ~ NotSet(opt, LastValue(list, opt))

(* Options a call takes and makes nothing of: the addresses when the socket is    *)
(* there, those of the other end for a server, the timeout of a deferral but for a  *)
(* server that defers, and a PSM beside a CID. *)
Ignored(call, confirm, list) ==
    (CASE call = "set"     -> {"SOURCE", "SOURCE_TYPE", "DEST", "DEST_TYPE", "PSM", "CID", "CHANNEL"}
       [] call = "listen"  -> {"DEST", "DEST_TYPE"}
       [] call = "connect" -> {})
      \cup (IF call = "listen" /\ confirm THEN {} ELSE {"DEFER_TIMEOUT"})
      \cup (IF Asked(list, "CID") THEN {"PSM"} ELSE {})

(* Without BT_SECURITY the level is written over the whole link mode and the role  *)
(* is lost: also the one asked for in the same call of L2CAP, which sets the level   *)
(* last. *)
RoleLost(type, list) ==
    ~ secure /\ Asked(list, "SEC_LEVEL") /\ (type = "L2CAP" \/ ~ Asked(list, "MASTER"))

(* SCO has one MTU for both ways: the last that was asked for as MTU or, after it,  *)
(* the first as IMTU or OMTU. *)
ScoMtu(list, was) ==
    LET mtus == Named(list, "MTU")
        later == {i \in Named(list, "IMTU") \cup Named(list, "OMTU") :
                     list[i][2] # 0 /\ \A j \in mtus : j < i}
    IN  IF mtus # {} /\ list[Last(mtus)][2] # 0 THEN list[Last(mtus)][2]
        ELSE IF later # {} THEN list[CHOOSE i \in later : \A j \in later : i <= j][2]
        ELSE was

(* The types of the addresses are on the socket, but no get function returns them. *)
Reads(ch, s, opt) ==
    CASE opt = "SOURCE_TYPE" -> s.src_type
      [] opt = "DEST_TYPE"   -> s.dst_type
      [] OTHER               -> Got(s, ch.type, opt)

Expected(l, ch, opt) ==
    LET was == Reads(ch, l.before, opt)
        defers == opt = "DEFER_TIMEOUT" /\ l.call = "listen" /\ ch.confirm
    IN  IF ch.type = "SCO" /\ opt \in {"MTU", "IMTU", "OMTU"} THEN ScoMtu(l.list, was)
        ELSE IF opt = "MASTER" /\ RoleLost(ch.type, l.list) THEN 0
        ELSE IF Asked(l.list, opt) /\ opt \notin Ignored(l.call, ch.confirm, l.list)
        THEN LastValue(l.list, opt)
        ELSE IF defers THEN Defaults.defer ELSE was

(* After a successful call every option it takes and the type of socket has, in    *)
(* whatever order they were given, reads as it was last asked for, and every other   *)
(* as it was, but for the role, which may be lost, and the timeout of a deferral,    *)
(* which the kernel may refuse unnoticed. *)
SettingsAsAsked ==
    last.n # 0 =>
        LET ch == channels[last.n]
            types == IF ch.type = "L2CAP" THEN {"SOURCE_TYPE", "DEST_TYPE"} ELSE {}
        IN  \A opt \in Gettable(ch.type) \cup types :
              \/ Reads(ch, ch.socket, opt) = Expected(last, ch, opt)
              \/ /\ opt = "DEFER_TIMEOUT" /\ "io_error" \in May
                 /\ last.call = "listen" /\ ch.confirm
                 /\ Reads(ch, ch.socket, opt) = Reads(ch, last.before, opt)
=============================================================================
