-------------------------------- MODULE Mip --------------------------------
(***************************************************************************)
(* The class Mip of gattmip.h: connect(), the orders and their pump, the     *)
(* notifications that come back and the caches they fill, on top of one      *)
(* queue of write commands per connection (GAttrib is that queue in full).   *)
(*                                                                         *)
(* All of it runs on one thread.  stack is its control: connect() and         *)
(* send_order() iterate the main loop once, an iteration dispatches every     *)
(* source that was ready, and a notification handler may give orders, which   *)
(* iterate the loop again inside the iteration that called the handler.      *)
(***************************************************************************)
EXTENDS Integers, Sequences, FiniteSets

CONSTANTS
    MaxConnects,  \* bound: calls of gatt_connect that return a channel
    MaxTries,     \* bound: the iterations connect() waits for (100 in the code)
    MaxOrders,    \* bound: orders given
    MaxSignals,   \* bound: notifications nobody asked for
    LedSets,      \* what the application passes to set_head_LED(l1, l2, l3, l4)
    Indices,      \* what it passes to set_head_LED(idx, value), out of LedIdx
    LedValues,    \* and the values it passes
    May           \* what this instance lets happen, a subset of Features

Features ==
    { "hook",           \* notification_post_hook gives orders
      "write_error",    \* g_io_channel_write_chars may fail
      "connect_error" } \* connect_cb may be called with an error

LedIdx == 1..4

ASSUME MipBounds ==
    /\ MaxConnects \in Nat /\ MaxTries \in Nat \ {0}
    /\ MaxOrders \in Nat /\ MaxSignals \in Nat

ASSUME MipInputs ==
    /\ LedSets \subseteq [LedIdx -> Nat] /\ Indices \subseteq LedIdx /\ LedValues \subseteq Nat
    /\ May \subseteq Features

VARIABLES
    conns,         \* the connections begun, in order
    attrib,        \* _attrib: the connection orders go to, 0 before the first
    is_connected,  \* _is_connected
    nattrib,       \* _nattrib
    cached,        \* _head_led_cached
    stack,         \* the frames of the thread, innermost last
    robot,         \* the head LEDs of the robot
    signals        \* how many notifications the robot sent of its own accord

(* History: the orders given, which of them the robot applied, and whether the  *)
(* last answer was to a request that a set had overtaken.                   *)
VARIABLES orders, applied, overtaken

histVars == <<orders, applied, overtaken>>
vars == <<conns, attrib, is_connected, nattrib, cached, stack, robot, signals, histVars>>

----------------------------------------------------------------------------
(* Connections, orders, frames.                                             *)

Leds == [LedIdx -> 0..3]
DefaultLeds == [i \in LedIdx |-> 1]

(* state: gatt_connect is under way, connect_cb succeeded, or it had an error. *)
(* queue, write_watch, next_cmd_id: the GAttrib.  wire: orders on their way.  *)
NewConnection ==
    [ state |-> "pending", returned |-> "none",
      queue |-> <<>>, write_watch |-> FALSE, next_cmd_id |-> 0,
      wire |-> <<>>, inbox |-> <<>> ]

(* A notification: the answer to order n, a request of the head LEDs, or a      *)
(* gesture. *)
Answer(n, l) == [about |-> "leds", re |-> n, leds |-> l]
Gesture      == [about |-> "gesture", re |-> 0, leds |-> DefaultLeds]

(* A frame: in connect(), send_order() or a pump of the application, between   *)
(* two dispatches of an iteration, or in notification_post_hook.  of is the    *)
(* connection or the order, todo what the iteration has yet to dispatch, any   *)
(* what g_main_context_iteration will return.                               *)
Frame(at, of, tries) == [at |-> at, of |-> of, tries |-> tries, todo |-> {}, any |-> FALSE]

Top == stack[Len(stack)]
Below == SubSeq(stack, 1, Len(stack) - 1)
Running(at) == stack # <<>> /\ Top.at = at

(* What an iteration that begins now may dispatch.  GLib keeps a source that   *)
(* is being dispatched blocked: a handler's own read source is not offered.   *)
Blocked(c) == \E i \in DOMAIN stack : stack[i].at = "hook" /\ stack[i].of = c

Ready(cs) ==
    { s \in {"connect", "read", "write"} \X DOMAIN cs :
        /\ s[1] = "connect" => cs[s[2]].state = "pending"
        /\ s[1] = "read"    => cs[s[2]].inbox # <<>> /\ ~ Blocked(s[2])
        /\ s[1] = "write"   => cs[s[2]].write_watch }

(* g_main_context_iteration(FALSE) in frame f, on top of frames.  The sources  *)
(* ready now are any of those, as the socket has it; what the iterations       *)
(* further out had yet to dispatch is dropped.                              *)
pump_up_callbacks(frames, f) ==
    \E todo \in SUBSET Ready(conns') :
        stack' = Append([i \in DOMAIN frames |-> [frames[i] EXCEPT !.todo = {}]],
                        [f EXCEPT !.todo = todo, !.any = (todo # {})])

(* The application runs: between calls, or in the hook. *)
AppRuns == stack = <<>> \/ ("hook" \in May /\ Running("hook"))

----------------------------------------------------------------------------
(* connect() and set_main_loop().  A gatt_connect that returns NULL makes      *)
(* connect() return false, and changes nothing.                             *)

connect ==
    /\ stack = <<>> /\ Len(conns) < MaxConnects
    /\ IF is_connected
       THEN /\ conns' = Append(conns, [NewConnection EXCEPT !.returned = "true"])
            /\ UNCHANGED stack
       ELSE /\ conns' = Append(conns, NewConnection)
            /\ pump_up_callbacks(stack, Frame("connect", Len(conns) + 1, 1))
    /\ UNCHANGED <<attrib, is_connected, nattrib, cached, robot, signals, histVars>>

(* Another round of set_main_loop's loop. *)
ConnectTries ==
    /\ Running("connect") /\ Top.todo = {}
    /\ ~ is_connected /\ Top.tries < MaxTries
    /\ UNCHANGED conns
    /\ pump_up_callbacks(Below, Frame("connect", Top.of, Top.tries + 1))
    /\ UNCHANGED <<attrib, is_connected, nattrib, cached, robot, signals, histVars>>

ConnectReturns ==
    /\ Running("connect") /\ Top.todo = {}
    /\ is_connected \/ Top.tries = MaxTries
    /\ conns' = [conns EXCEPT ![Top.of].returned = IF is_connected THEN "true" ELSE "false"]
    /\ stack' = Below
    /\ UNCHANGED <<attrib, is_connected, nattrib, cached, robot, signals, histVars>>

----------------------------------------------------------------------------
(* Orders: send_order() and what calls it.                                  *)

(* g_attrib_send on the connection in use.  The write source exists unless a   *)
(* write failed; it is added only when the queue was empty.                 *)
gatt_write_cmd(n) ==
    LET c == conns[attrib] IN
    conns' = [conns EXCEPT ![attrib] =
                [c EXCEPT !.queue = Append(c.queue, n),
                          !.write_watch = (c.write_watch \/ c.queue = <<>>),
                          !.next_cmd_id = c.next_cmd_id + 1]]

(* The id the next order should get: _nattrib after its increment. *)
ExpectedId_before_increment == nattrib
ExpectedId == nattrib + 1

NewOrder(kind, leds, idx) ==
    [ kind |-> kind, leds |-> leds, idx |-> idx, trusted |-> ~ overtaken,
      accepted |-> conns[attrib].next_cmd_id + 1 = ExpectedId,
      returned |-> IF conns[attrib].next_cmd_id + 1 = ExpectedId THEN "none" ELSE "false",
      written |-> FALSE ]

(* An order whose id is not the expected one is queued all the same, but the   *)
(* loop is not iterated for it.                                             *)
send_order(o) ==
    /\ AppRuns /\ attrib # 0 /\ Len(orders) < MaxOrders
    /\ nattrib' = nattrib + 1
    /\ orders' = Append(orders, o)
    /\ gatt_write_cmd(Len(orders) + 1)
    /\ IF o.accepted
       THEN pump_up_callbacks(stack, Frame("order", Len(orders) + 1, 0))
       ELSE UNCHANGED stack
    /\ UNCHANGED <<attrib, is_connected, robot, signals, applied>>

clamp_below_only(x, min, max) == IF x < min THEN min ELSE x
clamp(x, min, max) == IF x < min THEN min ELSE IF x > max THEN max ELSE x

(* What an order to set the LEDs carries: the cache it has just stored. *)
OrderedLeds_before_store(l) == cached
OrderedLeds(l) == [i \in LedIdx |-> clamp(l[i], 0, 3)]

SendLeds(l, idx) ==
    /\ send_order(NewOrder("set", OrderedLeds(l), idx))
    /\ cached' = [i \in LedIdx |-> clamp(l[i], 0, 3)]
    /\ overtaken' = FALSE

set_head_LED == \E l \in LedSets : SendLeds(l, 0)

(* set_head_LED(idx, value): the other three LEDs come from the cache. *)
WithIndex_default(idx, value) == [DefaultLeds EXCEPT ![idx] = value]
WithIndex(idx, value) == [cached EXCEPT ![idx] = value]

set_head_LED_index ==
    \E idx \in Indices, value \in LedValues : SendLeds(WithIndex(idx, value), idx)

request_head_LED ==
    /\ send_order(NewOrder("get", DefaultLeds, 0))
    /\ UNCHANGED <<cached, overtaken>>

(* send_order returns what the iteration did. *)
OrderReturns ==
    /\ Running("order") /\ Top.todo = {}
    /\ orders' = [orders EXCEPT ![Top.of].returned = IF Top.any THEN "true" ELSE "false"]
    /\ stack' = Below
    /\ UNCHANGED <<conns, attrib, is_connected, nattrib, cached, robot, signals,
                   applied, overtaken>>

(* pump_up_callbacks() by the application itself. *)
Pump ==
    /\ stack = <<>>
    /\ UNCHANGED conns
    /\ pump_up_callbacks(stack, Frame("pump", 0, 0))
    /\ UNCHANGED <<attrib, is_connected, nattrib, cached, robot, signals, histVars>>

PumpReturns ==
    /\ Running("pump") /\ Top.todo = {}
    /\ stack' = Below
    /\ UNCHANGED <<conns, attrib, is_connected, nattrib, cached, robot, signals, histVars>>

----------------------------------------------------------------------------
(* Dispatches.                                                              *)

Dispatching(s) == stack # <<>> /\ s \in Top.todo
Done(s) == [stack EXCEPT ![Len(stack)].todo = @ \ {s}]

(* connect_cb: the new GAttrib takes the place of whatever _attrib was. *)
connect_cb(c) ==
    /\ Dispatching(<<"connect", c>>)
    /\ stack' = Done(<<"connect", c>>)
    /\ \/ /\ conns' = [conns EXCEPT ![c].state = "up"]
          /\ attrib' = c /\ is_connected' = TRUE
       \/ /\ "connect_error" \in May
          /\ conns' = [conns EXCEPT ![c].state = "failed"]
          /\ UNCHANGED <<attrib, is_connected>>
    /\ UNCHANGED <<nattrib, cached, robot, signals, histVars>>

(* can_write_data for write commands: the source goes when there is nothing    *)
(* to write or when the write fails, and the command stays then.            *)
WriteCommand(c) ==
    /\ Dispatching(<<"write", c>>)
    /\ stack' = Done(<<"write", c>>)
    /\ LET q == conns[c].queue IN
       \/ /\ q = <<>> \/ "write_error" \in May
          /\ conns' = [conns EXCEPT ![c].write_watch = FALSE]
          /\ UNCHANGED orders
       \/ /\ q # <<>>
          /\ conns' = [conns EXCEPT ![c].queue = Tail(q), ![c].wire = Append(@, q[1])]
          /\ orders' = [orders EXCEPT ![q[1]].written = TRUE]
    /\ UNCHANGED <<attrib, is_connected, nattrib, cached, robot, signals,
                   applied, overtaken>>

(* received_data, events_handler, store_results, up to the call of             *)
(* notification_post_hook. *)
SetAfter(n) == \E m \in DOMAIN orders : m > n /\ orders[m].kind = "set"

store_results(pdu) ==
    IF pdu.about = "leds"
    THEN cached' = pdu.leds /\ overtaken' = SetAfter(pdu.re)
    ELSE UNCHANGED <<cached, overtaken>>

events_handler(c) ==
    /\ Dispatching(<<"read", c>>)
    /\ stack' = Append(Done(<<"read", c>>), Frame("hook", c, 0))
    /\ conns' = [conns EXCEPT ![c].inbox = Tail(@)]
    /\ store_results(conns[c].inbox[1])
    /\ UNCHANGED <<attrib, is_connected, nattrib, robot, signals, orders, applied>>

HookReturns ==
    /\ Running("hook")
    /\ stack' = Below
    /\ UNCHANGED <<conns, attrib, is_connected, nattrib, cached, robot, signals, histVars>>

----------------------------------------------------------------------------
(* The robot applies orders in the order they reach it and answers requests;   *)
(* it notifies gestures at will.                                            *)

RobotObeys(c) ==
    /\ conns[c].wire # <<>>
    /\ LET n == conns[c].wire[1] IN
       /\ applied' = applied \cup {n}
       /\ IF orders[n].kind = "set"
          THEN /\ robot' = orders[n].leds
               /\ conns' = [conns EXCEPT ![c].wire = Tail(@)]
          ELSE /\ conns' = [conns EXCEPT ![c].wire = Tail(@),
                                         ![c].inbox = Append(@, Answer(n, robot))]
               /\ UNCHANGED robot
    /\ UNCHANGED <<attrib, is_connected, nattrib, cached, stack, signals,
                   orders, overtaken>>

RobotSignals(c) ==
    /\ conns[c].state = "up" /\ signals < MaxSignals
    /\ signals' = signals + 1
    /\ conns' = [conns EXCEPT ![c].inbox = Append(@, Gesture)]
    /\ UNCHANGED <<attrib, is_connected, nattrib, cached, stack, robot, histVars>>

----------------------------------------------------------------------------
(* The constructor; the robot's LEDs are on when it connects. *)
Init ==
    /\ conns = <<>> /\ attrib = 0 /\ is_connected = FALSE /\ nattrib = 0
    /\ cached = DefaultLeds /\ robot = DefaultLeds
    /\ stack = <<>> /\ signals = 0
    /\ orders = <<>> /\ applied = {} /\ overtaken = FALSE

Calling == connect \/ set_head_LED \/ set_head_LED_index \/ request_head_LED \/ Pump
Returning == ConnectTries \/ ConnectReturns \/ OrderReturns \/ PumpReturns \/ HookReturns
Dispatch == \E c \in DOMAIN conns : connect_cb(c) \/ WriteCommand(c) \/ events_handler(c)
RobotActs == \E c \in DOMAIN conns : RobotObeys(c) \/ RobotSignals(c)

Next == Calling \/ Returning \/ Dispatch \/ RobotActs

Spec == Init /\ [][Next]_vars

----------------------------------------------------------------------------
(* Properties.                                                              *)

(* The types of the variables; orders are numbered by their place in orders. *)
TypeOK ==
    /\ \A c \in DOMAIN conns :
          /\ conns[c].state \in {"pending", "up", "failed"}
          /\ conns[c].returned \in {"none", "true", "false"}
          /\ conns[c].queue \in Seq(DOMAIN orders) /\ conns[c].wire \in Seq(DOMAIN orders)
          /\ conns[c].state # "up" => conns[c].queue = <<>> /\ ~ conns[c].write_watch
    /\ attrib \in 0..Len(conns) /\ (is_connected <=> attrib # 0)
    /\ nattrib = Len(orders)
    /\ cached \in Leds /\ robot \in Leds
    /\ applied \subseteq DOMAIN orders

(* The LEDs the robot will show when it has what is queued and on the wire. *)
WillShow ==
    LET under_way == conns[attrib].wire \o conns[attrib].queue
        sets == {i \in DOMAIN under_way : orders[under_way[i]].kind = "set"}
    IN  IF attrib = 0 \/ sets = {} THEN robot
        ELSE LET last == CHOOSE i \in sets : \A j \in sets : j <= i
             IN  orders[under_way[last]].leds

(* The cache of the head LEDs is what the robot is going to show, unless the    *)
(* last answer was to a request that a set had overtaken.                   *)
CacheAgrees == ~ overtaken => cached = WillShow

(* set_head_LED(idx, value) changes LED idx and no other, although it sends     *)
(* all four: whatever is queued in front of it, the other three are as they    *)
(* were when the robot comes to apply it, if the cache could be trusted.     *)
IndexSetTouchesOne ==
    [][\A n \in applied' \ applied :
          orders[n].idx # 0 /\ orders[n].trusted
             => \A j \in LedIdx \ {orders[n].idx} : robot'[j] = robot[j]]_vars

(* What the comments of the class say of the values its functions return.     *)

(* An order that returned true has been sent to the robot. *)
TrueMeansSent == \A n \in DOMAIN orders : orders[n].returned = "true" => orders[n].written

(* gatt_write_cmd returns the number of commands sent: every order gets the    *)
(* id send_order expects, from inside a notification handler too.  This holds  *)
(* of one connection; a second one starts its ids again and _nattrib does not. *)
IdIsCount == \A n \in DOMAIN orders : orders[n].accepted

(* A connect() that returned true was a success: connect_cb does not get an    *)
(* error for it afterwards. *)
TrueMeansConnected ==
    \A c \in DOMAIN conns : conns[c].returned = "true" => conns[c].state # "failed"
=============================================================================
