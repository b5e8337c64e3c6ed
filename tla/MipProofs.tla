------------------------------ MODULE MipProofs ------------------------------
(***************************************************************************)
(* What is proved of Mip.                                                   *)
(*                                                                         *)
(* For any number of connections: the types (Types), by StackInv, which      *)
(* says what the frames of the thread may still dispatch.                   *)
(*                                                                         *)
(* For one connection (Single), any number of orders and any notifications:  *)
(* that every order gets the id send_order expects (IdsAreCounts), that the  *)
(* cache is what the robot is going to show (CachesAgree) and that setting    *)
(* one LED touches no other (IndexSetsTouchOne), by LineInv: the orders the   *)
(* robot has not applied are on the wire and in the queue, in order and      *)
(* without a gap, and an answer that no set has overtaken is what it shows.  *)
(***************************************************************************)
EXTENDS Mip, SequenceTheorems, TLAPS

----------------------------------------------------------------------------
(* Types.                                                                   *)

Notification == [about : {"leds", "gesture"}, re : Nat, leds : Leds]

Connection ==
    [ state : {"pending", "up", "failed"}, returned : {"none", "true", "false"},
      queue : Seq(Nat), write_watch : BOOLEAN, next_cmd_id : Nat,
      wire : Seq(Nat), inbox : Seq(Notification) ]

Order ==
    [ kind : {"set", "get"}, leds : Leds, idx : 0..4, trusted : BOOLEAN,
      accepted : BOOLEAN, returned : {"none", "true", "false"}, written : BOOLEAN ]

Sources == {"connect", "read", "write"} \X Nat

FrameType ==
    [ at : {"connect", "order", "pump", "hook"}, of : Nat, tries : Nat,
      todo : SUBSET Sources, any : BOOLEAN ]

Within(q, n) == \A i \in DOMAIN q : q[i] \in 1..n

(* A connection that is not up has nothing queued and no write source. *)
ConnectionOK(c, n) ==
    /\ Within(c.queue, n) /\ Within(c.wire, n)
    /\ c.state # "up" => c.queue = <<>> /\ ~ c.write_watch

TypeInv ==
    /\ conns \in Seq(Connection) /\ orders \in Seq(Order) /\ stack \in Seq(FrameType)
    /\ \A c \in DOMAIN conns : ConnectionOK(conns[c], Len(orders))
    /\ attrib \in 0..Len(conns) /\ is_connected \in BOOLEAN
    /\ (is_connected <=> attrib # 0)
    /\ attrib # 0 => conns[attrib].state = "up"
    /\ nattrib = Len(orders)
    /\ cached \in Leds /\ robot \in Leds /\ overtaken \in BOOLEAN
    /\ applied \subseteq DOMAIN orders

(* What a frame may still dispatch is ready: nobody else takes it away.       *)
Valid(s, cs) ==
    /\ s[2] \in DOMAIN cs
    /\ s[1] = "connect" => cs[s[2]].state = "pending"
    /\ s[1] = "read" => cs[s[2]].inbox # <<>>

FrameOK(f, cs, n) ==
    /\ \A s \in f.todo : Valid(s, cs)
    /\ f.at = "connect" => f.of \in DOMAIN cs
    /\ f.at = "order" => f.of \in 1..n

(* At most one frame has something to dispatch: an iteration inside another    *)
(* leaves nothing of the outer one.                                         *)
OneIteration(st) ==
    \A i, j \in DOMAIN st : st[i].todo # {} /\ st[j].todo # {} => i = j

StackOK(st, cs, n) ==
    /\ \A i \in DOMAIN st : FrameOK(st[i], cs, n)
    /\ OneIteration(st)

StackInv == StackOK(stack, conns, Len(orders))

----------------------------------------------------------------------------
(* One connection.                                                          *)

Single == MaxConnects <= 1

IdInv ==
    /\ Len(conns) <= 1
    /\ attrib = 0 => orders = <<>>
    /\ \A c \in DOMAIN conns : conns[c].next_cmd_id = Len(orders)
    /\ \A n \in DOMAIN orders : orders[n].accepted

Wire  == IF conns = <<>> THEN <<>> ELSE conns[1].wire
Queue == IF conns = <<>> THEN <<>> ELSE conns[1].queue
Inbox == IF conns = <<>> THEN <<>> ELSE conns[1].inbox

(* How many orders the robot has applied. *)
Reached == Len(orders) - Len(Wire) - Len(Queue)

(* q is the numbers from a + 1 on. *)
CountsFrom(q, a) == \A i \in DOMAIN q : q[i] = a + i

(* None of the orders after a, up to b, sets the LEDs. *)
NoSets(os, a, b) == \A k \in a + 1 .. b : os[k].kind # "set"

(* l is what the robot, which shows r after order a, shows after order b. *)
ShowsThen(os, r, a, b, l) ==
    \/ NoSets(os, a, b) /\ l = r
    \/ \E m \in a + 1 .. b : os[m].kind = "set" /\ NoSets(os, m, b) /\ l = os[m].leds

(* An answer is to an order the robot has reached, and what it still shows     *)
(* when no set was given after the request.                                 *)
AnswerOK(os, r, a, p) ==
    p.about = "leds" => /\ p.re \in 1..a
                        /\ NoSets(os, p.re, Len(os)) => p.leds = r

(* An order for one LED, given with a cache to trust, carries the others as    *)
(* the robot shows them when it reaches the order.                          *)
IndexOK(os, r, a, n) ==
    os[n].idx # 0 /\ os[n].trusted
       => \E l \in Leds : /\ ShowsThen(os, r, a, n - 1, l)
                          /\ \A j \in LedIdx \ {os[n].idx} : os[n].leds[j] = l[j]

LineOK(w, q, n) ==
    /\ n - Len(w) - Len(q) \in Nat
    /\ CountsFrom(w, n - Len(w) - Len(q))
    /\ CountsFrom(q, n - Len(q))

LedOK(os, r, a, ib, ca, ov) ==
    /\ \A i \in DOMAIN ib : AnswerOK(os, r, a, ib[i])
    /\ ~ ov => ShowsThen(os, r, a, Len(os), ca)
    /\ \A n \in a + 1 .. Len(os) : IndexOK(os, r, a, n)

LineInv == LineOK(Wire, Queue, Len(orders))
LedInv == LedOK(orders, robot, Reached, Inbox, cached, overtaken)

SingleInv == IdInv /\ LineInv /\ LedInv

----------------------------------------------------------------------------
(* Sequences of connections, orders and frames.                             *)

(* Replacing one element of a sequence. *)
LEMMA Replace ==
    ASSUME NEW S, NEW q \in Seq(S), NEW i \in DOMAIN q, NEW x \in S
    PROVE  LET r == [q EXCEPT ![i] = x]
           IN  /\ r \in Seq(S) /\ Len(r) = Len(q) /\ DOMAIN r = DOMAIN q
               /\ r[i] = x
               /\ \A j \in DOMAIN q : j # i => r[j] = q[j]
  BY ExceptSeq

LEMMA SeqDomain ==
    ASSUME NEW S, NEW q \in Seq(S)
    PROVE  /\ Len(q) \in Nat /\ DOMAIN q = 1..Len(q)
           /\ \A i \in DOMAIN q : q[i] \in S
           /\ q = <<>> <=> Len(q) = 0
           /\ q # <<>> => /\ q[1] \in S /\ 1 \in DOMAIN q
                          /\ Tail(q) \in Seq(S) /\ Len(Tail(q)) = Len(q) - 1
                          /\ \A i \in DOMAIN Tail(q) : i + 1 \in DOMAIN q /\ Tail(q)[i] = q[i + 1]
  <1>1. /\ Len(q) \in Nat /\ DOMAIN q = 1..Len(q)
        /\ \A i \in DOMAIN q : q[i] \in S
        /\ q = <<>> <=> Len(q) = 0
    BY LenProperties, EmptySeq, ElementOfSeq
  <1>2. ASSUME q # <<>>
        PROVE  /\ Tail(q) \in Seq(S) /\ Len(Tail(q)) = Len(q) - 1
               /\ \A i \in 1..Len(Tail(q)) : Tail(q)[i] = q[i + 1]
               /\ DOMAIN Tail(q) = 1..Len(Tail(q))
    <2>1. Tail(q) \in Seq(S)
      BY <1>2, HeadTailProperties
    <2> QED  BY <1>2, <2>1, HeadTailProperties, LenProperties
  <1>3. ASSUME q # <<>> PROVE 1 \in DOMAIN q /\ q[1] \in S
    BY <1>1, <1>3
  <1> QED  BY <1>1, <1>2, <1>3

LEMMA Appended ==
    ASSUME NEW S, NEW q \in Seq(S), NEW x \in S
    PROVE  /\ Append(q, x) \in Seq(S) /\ Len(Append(q, x)) = Len(q) + 1
           /\ DOMAIN Append(q, x) = 1 .. Len(q) + 1
           /\ Append(q, x)[Len(q) + 1] = x
           /\ \A i \in DOMAIN q : Append(q, x)[i] = q[i]
           /\ Append(q, x) # <<>>
  <1>1. /\ Append(q, x) \in Seq(S) /\ Len(Append(q, x)) = Len(q) + 1
        /\ \A i \in 1..Len(q) : Append(q, x)[i] = q[i]
        /\ Append(q, x)[Len(q) + 1] = x
    BY AppendProperties
  <1>2. Append(q, x) # <<>>
    BY <1>1, LenProperties, EmptySeq
  <1>3. DOMAIN Append(q, x) = 1 .. Len(Append(q, x)) /\ DOMAIN q = 1..Len(q)
    BY <1>1, LenProperties
  <1> QED  BY <1>1, <1>2, <1>3

(* What a source needs to be offered. *)
LEMMA ReadyIsValid ==
    ASSUME NEW cs \in Seq(Connection)
    PROVE  Ready(cs) \subseteq Sources /\ \A s \in Ready(cs) : Valid(s, cs)
  <1>1. DOMAIN cs \subseteq Nat
    BY SeqDomain
  <1>2. \A s \in Ready(cs) :
           /\ s \in {"connect", "read", "write"} \X DOMAIN cs
           /\ s[1] = "connect" => cs[s[2]].state = "pending"
           /\ s[1] = "read" => cs[s[2]].inbox # <<>>
    BY DEF Ready
  <1>3. \A s \in Ready(cs) : s \in Sources /\ s[2] \in DOMAIN cs
    BY <1>1, <1>2 DEF Sources
  <1> QED  BY <1>2, <1>3 DEF Valid

----------------------------------------------------------------------------
(* The frames of the thread.                                                *)

Keeps(cs, cs2) ==
    /\ DOMAIN cs \subseteq DOMAIN cs2
    /\ \A c \in DOMAIN cs : /\ cs[c].state = "pending" => cs2[c].state = "pending"
                            /\ cs[c].inbox # <<>> => cs2[c].inbox # <<>>

(* What leaves every ready source ready leaves the frames as they should be.   *)
LEMMA StackKept ==
    ASSUME NEW st, NEW cs, NEW cs2, NEW n \in Nat, NEW n2 \in Nat,
           StackOK(st, cs, n), Keeps(cs, cs2), n <= n2
    PROVE  StackOK(st, cs2, n2)
  <1>1. ASSUME NEW i \in DOMAIN st PROVE FrameOK(st[i], cs2, n2)
    <2>1. FrameOK(st[i], cs, n)
      BY DEF StackOK
    <2>2. \A s \in st[i].todo : Valid(s, cs2)
      BY <2>1 DEF FrameOK, Valid, Keeps
    <2>3. st[i].at = "connect" => st[i].of \in DOMAIN cs2
      BY <2>1 DEF FrameOK, Keeps
    <2>4. st[i].at = "order" => st[i].of \in 1..n2
      BY <2>1 DEF FrameOK
    <2> QED  BY <2>2, <2>3, <2>4 DEF FrameOK
  <1> QED  BY <1>1 DEF StackOK

LEMMA TopOfStack ==
    ASSUME NEW st \in Seq(FrameType), st # <<>>
    PROVE  Len(st) \in DOMAIN st /\ st[Len(st)] \in FrameType
  BY SeqDomain

(* Leaving a frame. *)
LEMMA StackBelow ==
    ASSUME NEW st \in Seq(FrameType), st # <<>>, NEW cs, NEW n, StackOK(st, cs, n)
    PROVE  LET below == SubSeq(st, 1, Len(st) - 1)
           IN  below \in Seq(FrameType) /\ StackOK(below, cs, n)
  <1> DEFINE below == SubSeq(st, 1, Len(st) - 1)
  <1>1. Len(st) \in Nat \ {0} /\ DOMAIN st = 1..Len(st)
    BY SeqDomain
  <1>2. /\ below \in Seq(FrameType) /\ Len(below) = Len(st) - 1
        /\ \A i \in 1 .. Len(st) - 1 : below[i] = st[i]
    <2>1. 1 \in 1 .. Len(st) + 1 /\ Len(st) - 1 \in 0 .. Len(st)
      BY <1>1
    <2>2. below \in Seq(FrameType) /\ Len(below) = Len(st) - 1
      <3>1. below \in Seq(FrameType)
        BY <1>1, <2>1, SubSeqProperties
      <3>2. Len(below) = IF 1 <= Len(st) - 1 THEN (Len(st) - 1) - 1 + 1 ELSE 0
        BY <1>1, <2>1, SubSeqProperties
      <3> QED  BY <1>1, <3>1, <3>2
    <2>3. ASSUME NEW i \in 1 .. Len(st) - 1 PROVE below[i] = st[i]
      <3>1. i \in 1 .. (Len(st) - 1) - 1 + 1
        BY <1>1
      <3>2. below[i] = st[1 + i - 1]
        BY <1>1, <2>1, <3>1, SubSeqProperties
      <3> QED  BY <1>1, <3>2
    <2> QED  BY <2>2, <2>3
  <1>3. DOMAIN below = 1 .. Len(st) - 1
    BY <1>2, SeqDomain
  <1>4. \A i \in DOMAIN below : i \in DOMAIN st /\ below[i] = st[i]
    BY <1>1, <1>2, <1>3
  <1> HIDE DEF below
  <1>5. StackOK(below, cs, n)
    BY <1>4 DEF StackOK, OneIteration
  <1> QED  BY <1>2, <1>5 DEF below

(* An iteration that begins: what the others had to dispatch is dropped. *)
LEMMA StackPumped ==
    ASSUME NEW st \in Seq(FrameType), NEW cs \in Seq(Connection), NEW n \in Nat,
           StackOK(st, cs, n), NEW f \in FrameType, FrameOK([f EXCEPT !.todo = {}], cs, n),
           NEW todo \in SUBSET Ready(cs)
    PROVE  LET r == Append([i \in DOMAIN st |-> [st[i] EXCEPT !.todo = {}]],
                           [f EXCEPT !.todo = todo, !.any = (todo # {})])
           IN  r \in Seq(FrameType) /\ StackOK(r, cs, n)
  <1> DEFINE cleared == [i \in DOMAIN st |-> [st[i] EXCEPT !.todo = {}]]
             g == [f EXCEPT !.todo = todo, !.any = (todo # {})]
             r == Append(cleared, g)
  <1>1. DOMAIN st = 1..Len(st) /\ Len(st) \in Nat /\ \A i \in DOMAIN st : st[i] \in FrameType
    BY SeqDomain
  <1>2. /\ todo \in SUBSET Sources
        /\ \A s \in todo : Valid(s, cs)
    BY ReadyIsValid
  <1>3. \A i \in DOMAIN st : [st[i] EXCEPT !.todo = {}] \in FrameType
    BY <1>1 DEF FrameType
  <1>4. cleared \in Seq(FrameType) /\ Len(cleared) = Len(st) /\ DOMAIN cleared = 1..Len(st)
    <2>1. cleared \in [1..Len(st) -> FrameType]
      BY <1>1, <1>3
    <2>2. cleared \in Seq(FrameType)
      BY <1>1, <2>1, SeqDef
    <2> QED  BY <1>1, <2>1, <2>2, LenProperties
  <1>5. g \in FrameType /\ g.at = f.at /\ g.of = f.of /\ g.todo = todo
    BY <1>2 DEF FrameType
  <1>6. \A i \in DOMAIN st : /\ cleared[i].todo = {}
                             /\ cleared[i].at = st[i].at /\ cleared[i].of = st[i].of
    BY <1>1 DEF FrameType
  <1>7. FrameOK(g, cs, n)
    <2>1. (f.at = "connect" => f.of \in DOMAIN cs) /\ (f.at = "order" => f.of \in 1..n)
      BY DEF FrameOK, FrameType
    <2> QED  BY <1>2, <1>5, <2>1 DEF FrameOK
  <1> HIDE DEF cleared, g
  <1>8. /\ r \in Seq(FrameType) /\ DOMAIN r = 1 .. Len(st) + 1
        /\ r[Len(st) + 1] = g
        /\ \A i \in 1..Len(st) : r[i] = cleared[i]
    BY <1>4, <1>5, Appended
  <1> HIDE DEF r
  <1>9. ASSUME NEW i \in DOMAIN r PROVE FrameOK(r[i], cs, n)
    <2>1. CASE i = Len(st) + 1
      BY <1>7, <1>8, <2>1
    <2>2. CASE i # Len(st) + 1
      <3>1. i \in DOMAIN st /\ r[i] = cleared[i]
        BY <1>1, <1>8, <2>2
      <3>2. FrameOK(st[i], cs, n)
        BY <3>1 DEF StackOK
      <3> QED  BY <1>6, <3>1, <3>2 DEF FrameOK
    <2> QED  BY <2>1, <2>2
  <1>10. \A i \in DOMAIN r : r[i].todo # {} => i = Len(st) + 1
    BY <1>1, <1>6, <1>8
  <1>11. OneIteration(r)
    BY <1>10 DEF OneIteration
  <1>12. r \in Seq(FrameType) /\ StackOK(r, cs, n)
    BY <1>8, <1>9, <1>11 DEF StackOK
  <1> QED  BY <1>12 DEF r, g, cleared

(* A dispatch: what is left of the iteration has to stay ready. *)
LEMMA StackDone ==
    ASSUME NEW st \in Seq(FrameType), st # <<>>, NEW cs, NEW cs2, NEW n \in Nat,
           StackOK(st, cs, n), NEW s \in st[Len(st)].todo, DOMAIN cs \subseteq DOMAIN cs2,
           \A t \in st[Len(st)].todo \ {s} : Valid(t, cs2)
    PROVE  LET r == [st EXCEPT ![Len(st)].todo = @ \ {s}]
           IN  r \in Seq(FrameType) /\ StackOK(r, cs2, n)
  <1> DEFINE t == [st[Len(st)] EXCEPT !.todo = @ \ {s}]
             r == [st EXCEPT ![Len(st)] = t]
  <1>1. Len(st) \in DOMAIN st /\ st[Len(st)] \in FrameType
    BY TopOfStack
  <1>2. /\ t \in FrameType /\ t.at = st[Len(st)].at /\ t.of = st[Len(st)].of
        /\ t.todo = st[Len(st)].todo \ {s}
    BY <1>1 DEF FrameType
  <1> HIDE DEF t
  <1>3. /\ r \in Seq(FrameType) /\ DOMAIN r = DOMAIN st /\ r[Len(st)] = t
        /\ \A j \in DOMAIN st : j # Len(st) => r[j] = st[j]
    BY <1>1, <1>2, Replace
  <1> HIDE DEF r
  <1>4. \A j \in DOMAIN st : j # Len(st) => st[j].todo = {}
    BY <1>1 DEF StackOK, OneIteration
  <1>5. ASSUME NEW j \in DOMAIN r PROVE FrameOK(r[j], cs2, n)
    <2>1. FrameOK(st[j], cs, n)
      BY <1>3 DEF StackOK
    <2>2. r[j].at = st[j].at /\ r[j].of = st[j].of
      BY <1>2, <1>3
    <2>3. \A x \in r[j].todo : Valid(x, cs2)
      BY <1>2, <1>3, <1>4
    <2> QED  BY <2>1, <2>2, <2>3 DEF FrameOK
  <1>6. \A j \in DOMAIN r : r[j].todo # {} => j = Len(st)
    BY <1>3, <1>4
  <1>7. r \in Seq(FrameType) /\ StackOK(r, cs2, n)
    BY <1>3, <1>5, <1>6 DEF StackOK, OneIteration
  <1> QED  BY <1>7 DEF r, t

(* Calling notification_post_hook. *)
LEMMA StackHooked ==
    ASSUME NEW st \in Seq(FrameType), NEW cs, NEW n, StackOK(st, cs, n), NEW c \in Nat
    PROVE  LET r == Append(st, Frame("hook", c, 0))
           IN  r \in Seq(FrameType) /\ StackOK(r, cs, n)
  <1> DEFINE f == Frame("hook", c, 0)
             r == Append(st, f)
  <1>1. f \in FrameType /\ f.todo = {} /\ f.at = "hook"
    BY DEF Frame, FrameType
  <1>2. FrameOK(f, cs, n)
    BY <1>1 DEF FrameOK
  <1> HIDE DEF f
  <1>3. /\ r \in Seq(FrameType) /\ DOMAIN r = 1 .. Len(st) + 1 /\ r[Len(st) + 1] = f
        /\ \A i \in DOMAIN st : r[i] = st[i]
    BY <1>1, Appended
  <1>4. DOMAIN st = 1..Len(st) /\ Len(st) \in Nat
    BY SeqDomain
  <1> HIDE DEF r
  <1>5. \A i \in DOMAIN r : r[i] = f \/ (i \in DOMAIN st /\ r[i] = st[i])
    BY <1>3, <1>4
  <1>6. \A i \in DOMAIN r : FrameOK(r[i], cs, n)
    BY <1>2, <1>5 DEF StackOK
  <1>7. \A i \in DOMAIN r : r[i].todo # {} => i \in DOMAIN st /\ r[i] = st[i]
    BY <1>1, <1>5
  <1>8. OneIteration(r)
    BY <1>7 DEF StackOK, OneIteration
  <1> QED  BY <1>3, <1>6, <1>8 DEF StackOK, r, f

----------------------------------------------------------------------------
(* Every step keeps TypeInv and StackInv.                                   *)

LEMMA ConnectionGrows ==
    ASSUME NEW c, NEW n \in Nat, NEW n2 \in Nat, n <= n2, ConnectionOK(c, n)
    PROVE  ConnectionOK(c, n2)
  BY DEF ConnectionOK, Within

(* One connection changes. *)
LEMMA ConnectionChanged ==
    ASSUME TypeInv, NEW n \in Nat, Len(orders) <= n, NEW c \in DOMAIN conns,
           NEW x \in Connection, ConnectionOK(x, n), conns' = [conns EXCEPT ![c] = x]
    PROVE  /\ conns' \in Seq(Connection) /\ Len(conns') = Len(conns)
           /\ DOMAIN conns' = DOMAIN conns /\ conns'[c] = x
           /\ \A d \in DOMAIN conns : d # c => conns'[d] = conns[d]
           /\ \A d \in DOMAIN conns' : ConnectionOK(conns'[d], n)
  <1>1. /\ conns' \in Seq(Connection) /\ Len(conns') = Len(conns)
        /\ DOMAIN conns' = DOMAIN conns /\ conns'[c] = x
        /\ \A d \in DOMAIN conns : d # c => conns'[d] = conns[d]
    BY Replace DEF TypeInv
  <1>2. Len(orders) \in Nat
    BY SeqDomain DEF TypeInv
  <1>3. \A d \in DOMAIN conns : ConnectionOK(conns[d], n)
    BY <1>2, ConnectionGrows DEF TypeInv
  <1> QED  BY <1>1, <1>3

LEMMA ConnectionAdded ==
    ASSUME TypeInv, NEW x \in Connection, ConnectionOK(x, Len(orders)),
           conns' = Append(conns, x)
    PROVE  /\ conns' \in Seq(Connection) /\ Len(conns') = Len(conns) + 1
           /\ DOMAIN conns' = 1 .. Len(conns) + 1 /\ conns'[Len(conns) + 1] = x
           /\ \A d \in DOMAIN conns : d \in DOMAIN conns' /\ conns'[d] = conns[d]
           /\ \A d \in DOMAIN conns' : ConnectionOK(conns'[d], Len(orders))
           /\ Keeps(conns, conns')
  <1>1. /\ conns' \in Seq(Connection) /\ Len(conns') = Len(conns) + 1
        /\ DOMAIN conns' = 1 .. Len(conns) + 1 /\ conns'[Len(conns) + 1] = x
        /\ \A d \in DOMAIN conns : conns'[d] = conns[d]
    BY Appended DEF TypeInv
  <1>2. DOMAIN conns = 1..Len(conns) /\ Len(conns) \in Nat
    BY SeqDomain DEF TypeInv
  <1>3. \A d \in DOMAIN conns : d \in DOMAIN conns'
    BY <1>1, <1>2
  <1>4. \A d \in DOMAIN conns' : d = Len(conns) + 1 \/ d \in DOMAIN conns
    BY <1>1, <1>2
  <1>5. \A d \in DOMAIN conns' : ConnectionOK(conns'[d], Len(orders))
    BY <1>1, <1>4 DEF TypeInv
  <1>6. Keeps(conns, conns')
    BY <1>1, <1>3 DEF Keeps
  <1> QED  BY <1>1, <1>3, <1>5, <1>6

LEMMA Pumped ==
    ASSUME NEW frames \in Seq(FrameType), conns' \in Seq(Connection), NEW n \in Nat,
           StackOK(frames, conns', n), NEW f \in FrameType, FrameOK([f EXCEPT !.todo = {}], conns', n),
           pump_up_callbacks(frames, f)
    PROVE  stack' \in Seq(FrameType) /\ StackOK(stack', conns', n)
  <1>1. PICK todo \in SUBSET Ready(conns') :
           stack' = Append([i \in DOMAIN frames |-> [frames[i] EXCEPT !.todo = {}]],
                           [f EXCEPT !.todo = todo, !.any = (todo # {})])
    BY DEF pump_up_callbacks
  <1>2. PICK cs \in Seq(Connection) : cs = conns'
    OBVIOUS
  <1>3. \A t \in SUBSET Ready(cs) :
           LET r == Append([i \in DOMAIN frames |-> [frames[i] EXCEPT !.todo = {}]],
                           [f EXCEPT !.todo = t, !.any = (t # {})])
           IN  r \in Seq(FrameType) /\ StackOK(r, cs, n)
    BY <1>2, StackPumped
  <1> QED  BY <1>1, <1>2, <1>3

LEMMA NewFrame ==
    ASSUME NEW at \in {"connect", "order", "pump", "hook"}, NEW of \in Nat, NEW tries \in Nat,
           NEW cs, NEW n, at = "connect" => of \in DOMAIN cs, at = "order" => of \in 1..n
    PROVE  /\ Frame(at, of, tries) \in FrameType
           /\ FrameOK([Frame(at, of, tries) EXCEPT !.todo = {}], cs, n)
  BY DEF Frame, FrameType, FrameOK, Sources

LEMMA EmptyStack == StackOK(<<>>, conns, Len(orders)) /\ <<>> \in Seq(FrameType)
  <1>1. DOMAIN <<>> = {}
    OBVIOUS
  <1> QED  BY <1>1, EmptySeq DEF StackOK, OneIteration

LEMMA InitInv == Init => TypeInv /\ StackInv
  <1> SUFFICES ASSUME Init PROVE TypeInv /\ StackInv
    OBVIOUS
  <1>1. DOMAIN <<>> = {} /\ Len(<<>>) = 0
    OBVIOUS
  <1>2. <<>> \in Seq(Connection) /\ <<>> \in Seq(Order) /\ <<>> \in Seq(FrameType)
    OBVIOUS
  <1>3. DefaultLeds \in Leds
    BY DEF DefaultLeds, Leds, LedIdx
  <1>4. TypeInv
    <2>1. conns \in Seq(Connection) /\ orders \in Seq(Order) /\ stack \in Seq(FrameType)
      BY <1>2 DEF Init
    <2>2. DOMAIN conns = {} /\ DOMAIN orders = {} /\ Len(conns) = 0 /\ Len(orders) = 0
      BY <1>1 DEF Init
    <2>3. /\ attrib = 0 /\ is_connected = FALSE /\ nattrib = 0 /\ applied = {}
          /\ cached \in Leds /\ robot \in Leds /\ overtaken = FALSE
      BY <1>3 DEF Init
    <2>4. attrib \in 0..Len(conns) /\ (is_connected <=> attrib # 0)
      BY <2>2, <2>3
    <2> QED  BY <2>1, <2>2, <2>3, <2>4 DEF TypeInv
  <1>5. StackInv
    BY EmptyStack DEF Init, StackInv
  <1> QED  BY <1>4, <1>5

Inv == TypeInv /\ StackInv

LEMMA NewConnectionOK ==
    ASSUME NEW r \in {"none", "true", "false"}, NEW n
    PROVE  LET x == [NewConnection EXCEPT !.returned = r]
           IN  x \in Connection /\ ConnectionOK(x, n)
  <1>1. <<>> \in Seq(Nat) /\ <<>> \in Seq(Notification) /\ DOMAIN <<>> = {}
    OBVIOUS
  <1> QED  BY <1>1 DEF NewConnection, Connection, ConnectionOK, Within

LEMMA ConnectStep == Inv /\ connect => Inv'
  <1> SUFFICES ASSUME TypeInv, StackInv, connect PROVE TypeInv' /\ StackInv'
    BY DEF Inv
  <1>1. /\ conns \in Seq(Connection) /\ Len(conns) \in Nat /\ DOMAIN conns = 1..Len(conns)
        /\ Len(orders) \in Nat
    BY SeqDomain DEF TypeInv
  <1>2. PICK x \in Connection :
           /\ conns' = Append(conns, x) /\ ConnectionOK(x, Len(orders))
           /\ \/ UNCHANGED stack
              \/ pump_up_callbacks(stack, Frame("connect", Len(conns) + 1, 1))
    <2>1. CASE is_connected
      <3>1. [NewConnection EXCEPT !.returned = "true"] \in Connection
            /\ ConnectionOK([NewConnection EXCEPT !.returned = "true"], Len(orders))
        BY NewConnectionOK
      <3>2. conns' = Append(conns, [NewConnection EXCEPT !.returned = "true"]) /\ UNCHANGED stack
        BY <2>1 DEF connect
      <3> QED  BY <3>1, <3>2
    <2>2. CASE ~ is_connected
      <3>1. NewConnection = [NewConnection EXCEPT !.returned = "none"]
        BY DEF NewConnection
      <3> QED  BY <2>2, <3>1, NewConnectionOK DEF connect
    <2> QED  BY <2>1, <2>2
  <1>3. /\ conns' \in Seq(Connection) /\ Len(conns') = Len(conns) + 1
        /\ DOMAIN conns' = 1 .. Len(conns) + 1
        /\ \A d \in DOMAIN conns : d \in DOMAIN conns' /\ conns'[d] = conns[d]
        /\ \A d \in DOMAIN conns' : ConnectionOK(conns'[d], Len(orders))
        /\ Keeps(conns, conns')
    BY <1>2, ConnectionAdded
  <1>4. UNCHANGED <<attrib, is_connected, nattrib, cached, robot, orders, applied, overtaken>>
    BY DEF connect, histVars
  <1>5. attrib' # 0 => conns'[attrib'].state = "up"
    BY <1>1, <1>3, <1>4 DEF TypeInv
  <1>6. attrib' \in 0..Len(conns')
    BY <1>1, <1>3, <1>4 DEF TypeInv
  <1>7. StackOK(stack, conns', Len(orders)) /\ stack \in Seq(FrameType)
    <2>1. PICK cs2 : cs2 = conns'
      OBVIOUS
    <2>2. StackOK(stack, cs2, Len(orders))
      BY <1>1, <1>3, <2>1, StackKept DEF StackInv
    <2> QED  BY <2>1, <2>2 DEF TypeInv
  <1>8. stack' \in Seq(FrameType) /\ StackOK(stack', conns', Len(orders))
    <2>1. CASE UNCHANGED stack
      BY <1>7, <2>1
    <2>2. CASE pump_up_callbacks(stack, Frame("connect", Len(conns) + 1, 1))
      <3>1. PICK cs2 : cs2 = conns'
        OBVIOUS
      <3>2. /\ Frame("connect", Len(conns) + 1, 1) \in FrameType
            /\ FrameOK([Frame("connect", Len(conns) + 1, 1) EXCEPT !.todo = {}], cs2, Len(orders))
        <4>1. Len(conns) + 1 \in Nat /\ Len(conns) + 1 \in DOMAIN cs2 /\ 1 \in Nat
          BY <1>1, <1>3, <3>1
        <4> QED  BY <4>1, NewFrame
      <3> QED  BY <1>1, <1>3, <1>7, <2>2, <3>1, <3>2, Pumped
    <2> QED  BY <1>2, <2>1, <2>2
  <1>9. StackInv'
    BY <1>4, <1>8 DEF StackInv
  <1>10. TypeInv'
    BY <1>3, <1>4, <1>5, <1>6, <1>8 DEF TypeInv
  <1> QED  BY <1>9, <1>10

LEMMA FramesKept ==
    ASSUME TypeInv, StackInv, Keeps(conns, conns'), NEW n \in Nat, Len(orders) <= n
    PROVE  StackOK(stack, conns', n)
  <1>1. PICK cs2 : cs2 = conns'
    OBVIOUS
  <1>2. Len(orders) \in Nat
    BY SeqDomain DEF TypeInv
  <1>3. StackOK(stack, cs2, n)
    BY <1>1, <1>2, StackKept DEF StackInv
  <1> QED  BY <1>1, <1>3

(* Steps of the control alone. *)
ControlStep == UNCHANGED <<conns, attrib, is_connected, nattrib, cached, robot, orders,
                           applied, overtaken>>

LEMMA ControlKept ==
    ASSUME TypeInv, ControlStep, stack' \in Seq(FrameType),
           StackOK(stack', conns', Len(orders))
    PROVE  TypeInv' /\ StackInv'
  BY DEF ControlStep, TypeInv, StackInv

LEMMA TopFacts ==
    ASSUME TypeInv, StackInv, stack # <<>>
    PROVE  /\ Top \in FrameType
           /\ Top.at = "connect" => Top.of \in DOMAIN conns
           /\ Top.at = "order" => Top.of \in DOMAIN orders
           /\ \A s \in Top.todo : s \in Sources /\ Valid(s, conns)
           /\ Below \in Seq(FrameType)
           /\ StackOK(Below, conns, Len(orders))
  <1>1. Len(stack) \in DOMAIN stack /\ Top \in FrameType
    BY TopOfStack DEF TypeInv, Top
  <1>2. FrameOK(Top, conns, Len(orders))
    BY <1>1 DEF StackInv, StackOK, Top
  <1>3. Below \in Seq(FrameType) /\ StackOK(Below, conns, Len(orders))
    BY StackBelow DEF Below, StackInv, TypeInv
  <1>4. DOMAIN orders = 1..Len(orders)
    BY SeqDomain DEF TypeInv
  <1>5. \A s \in Top.todo : s \in Sources
    BY <1>1 DEF FrameType
  <1> QED  BY <1>1, <1>2, <1>3, <1>4, <1>5 DEF FrameOK

LEMMA PumpStep ==
    ASSUME TypeInv, ControlStep, NEW frames \in Seq(FrameType), StackOK(frames, conns, Len(orders)),
           NEW at \in {"connect", "pump"}, NEW of \in Nat, NEW tries \in Nat,
           at = "connect" => of \in DOMAIN conns, pump_up_callbacks(frames, Frame(at, of, tries))
    PROVE  TypeInv' /\ StackInv'
  <1>1. conns' = conns /\ conns' \in Seq(Connection) /\ Len(orders) \in Nat
    BY SeqDomain DEF ControlStep, TypeInv
  <1>2. /\ Frame(at, of, tries) \in FrameType
        /\ FrameOK([Frame(at, of, tries) EXCEPT !.todo = {}], conns', Len(orders))
    BY <1>1, NewFrame
  <1>3. stack' \in Seq(FrameType) /\ StackOK(stack', conns', Len(orders))
    BY <1>1, <1>2, Pumped
  <1> QED  BY <1>3, ControlKept

LEMMA ConnectTriesStep == Inv /\ ConnectTries => Inv'
  <1> SUFFICES ASSUME TypeInv, StackInv, ConnectTries PROVE TypeInv' /\ StackInv'
    BY DEF Inv
  <1>1. /\ ControlStep /\ stack # <<>> /\ Top.at = "connect"
        /\ pump_up_callbacks(Below, Frame("connect", Top.of, Top.tries + 1))
    BY DEF ConnectTries, ControlStep, Running, histVars
  <1>2. /\ Top.of \in DOMAIN conns /\ Top.of \in Nat /\ Top.tries + 1 \in Nat
        /\ Below \in Seq(FrameType) /\ StackOK(Below, conns, Len(orders))
    BY <1>1, TopFacts DEF FrameType
  <1> QED  BY <1>1, <1>2, PumpStep

LEMMA PumpsStep == Inv /\ Pump => Inv'
  <1> SUFFICES ASSUME TypeInv, StackInv, Pump PROVE TypeInv' /\ StackInv'
    BY DEF Inv
  <1>1. ControlStep /\ pump_up_callbacks(stack, Frame("pump", 0, 0))
    BY DEF Pump, ControlStep, histVars
  <1>2. stack \in Seq(FrameType) /\ StackOK(stack, conns, Len(orders)) /\ 0 \in Nat
    BY DEF TypeInv, StackInv
  <1> QED  BY <1>1, <1>2, PumpStep

LEMMA ReturnStep == Inv /\ (PumpReturns \/ HookReturns) => Inv'
  <1> SUFFICES ASSUME TypeInv, StackInv, PumpReturns \/ HookReturns PROVE TypeInv' /\ StackInv'
    BY DEF Inv
  <1>1. ControlStep /\ stack # <<>> /\ stack' = Below
    BY DEF PumpReturns, HookReturns, ControlStep, Running, histVars
  <1>2. stack' \in Seq(FrameType) /\ StackOK(stack', conns', Len(orders))
    BY <1>1, TopFacts DEF ControlStep
  <1> QED  BY <1>1, <1>2, ControlKept

LEMMA ConnectReturnsStep == Inv /\ ConnectReturns => Inv'
  <1> SUFFICES ASSUME TypeInv, StackInv, ConnectReturns PROVE TypeInv' /\ StackInv'
    BY DEF Inv
  <1>1. stack # <<>> /\ Top.at = "connect" /\ stack' = Below
    BY DEF ConnectReturns, Running
  <1>2. PICK r \in {"true", "false"} : conns' = [conns EXCEPT ![Top.of].returned = r]
    BY DEF ConnectReturns
  <1>3. UNCHANGED <<attrib, is_connected, nattrib, cached, robot, orders, applied, overtaken>>
    BY DEF ConnectReturns, histVars
  <1>4. /\ Top.of \in DOMAIN conns /\ Below \in Seq(FrameType)
        /\ StackOK(Below, conns, Len(orders))
    BY <1>1, TopFacts
  <1> DEFINE x == [conns[Top.of] EXCEPT !.returned = r]
  <1>5. conns[Top.of] \in Connection /\ Len(orders) \in Nat /\ Len(orders) <= Len(orders)
    BY <1>4, SeqDomain DEF TypeInv
  <1>6. /\ x \in Connection /\ x.state = conns[Top.of].state /\ x.inbox = conns[Top.of].inbox
        /\ x.queue = conns[Top.of].queue /\ x.wire = conns[Top.of].wire
        /\ x.write_watch = conns[Top.of].write_watch
    BY <1>2, <1>5 DEF Connection
  <1>7. ConnectionOK(x, Len(orders))
    BY <1>4, <1>6 DEF ConnectionOK, TypeInv
  <1>8. conns' = [conns EXCEPT ![Top.of] = x]
    BY <1>2
  <1> HIDE DEF x
  <1>9. /\ conns' \in Seq(Connection) /\ Len(conns') = Len(conns)
        /\ DOMAIN conns' = DOMAIN conns /\ conns'[Top.of] = x
        /\ \A d \in DOMAIN conns : d # Top.of => conns'[d] = conns[d]
        /\ \A d \in DOMAIN conns' : ConnectionOK(conns'[d], Len(orders))
    BY <1>4, <1>5, <1>6, <1>7, <1>8, ConnectionChanged
  <1>10. \A d \in DOMAIN conns : conns'[d].state = conns[d].state /\ conns'[d].inbox = conns[d].inbox
    BY <1>6, <1>9
  <1>11. Keeps(conns, conns')
    BY <1>9, <1>10 DEF Keeps
  <1>12. StackOK(Below, conns', Len(orders))
    <2>1. PICK cs2 : cs2 = conns'
      OBVIOUS
    <2> QED  BY <1>4, <1>5, <1>11, <2>1, StackKept
  <1>13. stack' \in Seq(FrameType) /\ StackInv'
    BY <1>1, <1>3, <1>4, <1>12 DEF StackInv
  <1>14. attrib' # 0 => attrib \in DOMAIN conns /\ conns'[attrib'].state = "up"
    <2>1. DOMAIN conns = 1..Len(conns)
      BY SeqDomain DEF TypeInv
    <2> QED  BY <1>3, <1>10, <2>1 DEF TypeInv
  <1>15. TypeInv'
    BY <1>3, <1>9, <1>13, <1>14 DEF TypeInv
  <1> QED  BY <1>13, <1>15

LEMMA ClampLeds == ASSUME NEW l \in [LedIdx -> Nat] PROVE OrderedLeds(l) \in Leds
  <1>1. \A i \in LedIdx : clamp(l[i], 0, 3) \in 0..3
    BY DEF clamp
  <1> QED  BY <1>1 DEF OrderedLeds, Leds

LEMMA OrderTyped ==
    ASSUME TypeInv, NEW kind \in {"set", "get"}, NEW l \in Leds, NEW idx \in 0..4
    PROVE  NewOrder(kind, l, idx) \in Order
  BY DEF NewOrder, Order, TypeInv

(* gatt_write_cmd with what is left of send_order. *)
LEMMA SendStep ==
    ASSUME TypeInv, StackInv, NEW o \in Order, send_order(o),
           cached' \in Leds, overtaken' \in BOOLEAN
    PROVE  /\ TypeInv' /\ StackInv'
           /\ attrib \in DOMAIN conns /\ Len(orders') = Len(orders) + 1
           /\ orders'[Len(orders) + 1] = o /\ \A n \in DOMAIN orders : orders'[n] = orders[n]
           /\ Len(conns') = Len(conns) /\ DOMAIN conns' = DOMAIN conns
           /\ conns'[attrib].queue = Append(conns[attrib].queue, Len(orders) + 1)
           /\ conns'[attrib].wire = conns[attrib].wire
           /\ conns'[attrib].inbox = conns[attrib].inbox
           /\ conns'[attrib].next_cmd_id = conns[attrib].next_cmd_id + 1
           /\ \A d \in DOMAIN conns : d # attrib => conns'[d] = conns[d]
  <1> DEFINE n == Len(orders) + 1
             c == conns[attrib]
             w == c.write_watch \/ c.queue = <<>>
             x == [c EXCEPT !.queue = Append(c.queue, n), !.write_watch = w,
                            !.next_cmd_id = c.next_cmd_id + 1]
  <1>0. conns' = [conns EXCEPT ![attrib] = x]
    BY DEF send_order, gatt_write_cmd
  <1>1. /\ attrib # 0 /\ nattrib' = nattrib + 1 /\ orders' = Append(orders, o)
        /\ UNCHANGED <<attrib, is_connected, robot, applied>>
        /\ \/ pump_up_callbacks(stack, Frame("order", n, 0))
           \/ UNCHANGED stack
    BY DEF send_order, gatt_write_cmd
  <1>2. /\ Len(orders) \in Nat /\ n \in Nat /\ Len(orders) <= n
        /\ attrib \in DOMAIN conns /\ c \in Connection /\ c.state = "up"
        /\ ConnectionOK(c, Len(orders))
    BY <1>1, SeqDomain DEF TypeInv
  <1>3. c.queue \in Seq(Nat) /\ Append(c.queue, n) \in Seq(Nat)
        /\ Within(Append(c.queue, n), n)
    <2>1. c.queue \in Seq(Nat)
      BY <1>2 DEF Connection
    <2>2. /\ Append(c.queue, n) \in Seq(Nat) /\ DOMAIN Append(c.queue, n) = 1 .. Len(c.queue) + 1
          /\ Append(c.queue, n)[Len(c.queue) + 1] = n
          /\ \A i \in DOMAIN c.queue : Append(c.queue, n)[i] = c.queue[i]
      BY <1>2, <2>1, Appended
    <2>3. DOMAIN c.queue = 1..Len(c.queue) /\ Len(c.queue) \in Nat
      BY <2>1, SeqDomain
    <2>4. \A i \in DOMAIN c.queue : c.queue[i] \in 1..n
      BY <1>2 DEF ConnectionOK, Within
    <2>5. \A i \in DOMAIN Append(c.queue, n) : i \in DOMAIN c.queue \/ i = Len(c.queue) + 1
      BY <2>2, <2>3
    <2>6. n \in 1..n
      BY <1>2
    <2> HIDE DEF n
    <2> QED  BY <2>1, <2>2, <2>4, <2>5, <2>6 DEF Within
  <1>4. /\ x \in Connection /\ x.queue = Append(c.queue, n) /\ x.wire = c.wire
        /\ x.inbox = c.inbox /\ x.state = c.state /\ x.next_cmd_id = c.next_cmd_id + 1
    <2>1. w \in BOOLEAN
      OBVIOUS
    <2>2. PICK q \in Seq(Nat) : q = Append(c.queue, n)
      BY <1>3
    <2>3. PICK id \in Nat : id = c.next_cmd_id + 1
      BY <1>2 DEF Connection
    <2>4. c \in Connection
      BY <1>2
    <2> HIDE DEF w, n, c
    <2>5. x = [c EXCEPT !.queue = q, !.write_watch = w, !.next_cmd_id = id]
      BY <2>2, <2>3
    <2> HIDE DEF x
    <2>6. x \in Connection
      BY <2>1, <2>4, <2>5 DEF Connection
    <2>7. /\ x.queue = q /\ x.wire = c.wire /\ x.inbox = c.inbox /\ x.state = c.state
          /\ x.next_cmd_id = id
      BY <2>4, <2>5 DEF Connection
    <2> QED  BY <2>2, <2>3, <2>6, <2>7
  <1>5. ConnectionOK(x, n)
    <2>1. Within(x.wire, n)
      BY <1>2, <1>4 DEF ConnectionOK, Within
    <2> QED  BY <1>2, <1>3, <1>4, <2>1 DEF ConnectionOK
  <1> HIDE DEF x, c
  <1>6. /\ conns' \in Seq(Connection) /\ Len(conns') = Len(conns)
        /\ DOMAIN conns' = DOMAIN conns /\ conns'[attrib] = x
        /\ \A d \in DOMAIN conns : d # attrib => conns'[d] = conns[d]
        /\ \A d \in DOMAIN conns' : ConnectionOK(conns'[d], n)
    BY <1>0, <1>2, <1>4, <1>5, ConnectionChanged
  <1>7. /\ orders' \in Seq(Order) /\ Len(orders') = n /\ DOMAIN orders' = 1..n
        /\ orders'[n] = o /\ \A m \in DOMAIN orders : orders'[m] = orders[m]
    BY <1>1, Appended DEF TypeInv
  <1>8. Keeps(conns, conns')
    <2>1. conns'[attrib].state = conns[attrib].state /\ conns'[attrib].inbox = conns[attrib].inbox
      BY <1>4, <1>6 DEF c
    <2> QED  BY <1>6, <2>1 DEF Keeps
  <1>9. StackOK(stack, conns', n) /\ stack \in Seq(FrameType)
    BY <1>2, <1>8, FramesKept DEF TypeInv
  <1>10. stack' \in Seq(FrameType) /\ StackOK(stack', conns', n)
    <2>1. CASE UNCHANGED stack
      BY <1>9, <2>1
    <2>2. CASE pump_up_callbacks(stack, Frame("order", n, 0))
      <3>1. /\ Frame("order", n, 0) \in FrameType
            /\ FrameOK([Frame("order", n, 0) EXCEPT !.todo = {}], conns', n)
        <4>1. n \in 1..n /\ 0 \in Nat
          BY <1>2
        <4>2. PICK cs2 : cs2 = conns'
          OBVIOUS
        <4> QED  BY <1>2, <4>1, <4>2, NewFrame
      <3> QED  BY <1>2, <1>6, <1>9, <2>2, <3>1, Pumped
    <2> QED  BY <1>1, <2>1, <2>2
  <1>11. StackInv'
    BY <1>7, <1>10 DEF StackInv
  <1>12. attrib' # 0 => conns'[attrib'].state = "up"
    BY <1>1, <1>2, <1>4, <1>6
  <1>13. nattrib' = Len(orders')
    BY <1>1, <1>7 DEF TypeInv
  <1>14. applied' \subseteq DOMAIN orders'
    <2>1. DOMAIN orders = 1..Len(orders)
      BY SeqDomain DEF TypeInv
    <2> QED  BY <1>1, <1>2, <1>7, <2>1 DEF TypeInv
  <1>15. attrib' \in 0..Len(conns') /\ is_connected' \in BOOLEAN /\ (is_connected' <=> attrib' # 0)
    BY <1>1, <1>6 DEF TypeInv
  <1>16. robot' \in Leds
    BY <1>1 DEF TypeInv
  <1>17. TypeInv'
    BY <1>6, <1>7, <1>10, <1>12, <1>13, <1>14, <1>15, <1>16 DEF TypeInv
  <1> QED  BY <1>2, <1>4, <1>6, <1>7, <1>11, <1>17 DEF c

LEMMA OrderStep == Inv /\ (set_head_LED \/ set_head_LED_index \/ request_head_LED) => Inv'
  <1> SUFFICES ASSUME TypeInv, StackInv,
                      set_head_LED \/ set_head_LED_index \/ request_head_LED
               PROVE  TypeInv' /\ StackInv'
    BY DEF Inv
  <1>1. ASSUME NEW l \in [LedIdx -> Nat], NEW idx \in 0..4, SendLeds(l, idx)
        PROVE  TypeInv' /\ StackInv'
    <2>1. OrderedLeds(l) \in Leds /\ NewOrder("set", OrderedLeds(l), idx) \in Order
      BY ClampLeds, OrderTyped
    <2>2. cached' \in Leds /\ overtaken' \in BOOLEAN
      BY <1>1, <2>1 DEF SendLeds, OrderedLeds
    <2> QED  BY <1>1, <2>1, <2>2, SendStep DEF SendLeds
  <1>2. CASE set_head_LED
    BY <1>1, <1>2, MipInputs DEF set_head_LED
  <1>3. CASE set_head_LED_index
    <2>1. PICK idx \in Indices, value \in LedValues : SendLeds(WithIndex(idx, value), idx)
      BY <1>3 DEF set_head_LED_index
    <2>2. WithIndex(idx, value) \in [LedIdx -> Nat] /\ idx \in 0..4
      BY MipInputs DEF WithIndex, TypeInv, Leds, LedIdx
    <2> QED  BY <1>1, <2>1, <2>2
  <1>4. CASE request_head_LED
    <2>1. NewOrder("get", DefaultLeds, 0) \in Order
      <3>1. DefaultLeds \in Leds
        BY DEF DefaultLeds, Leds, LedIdx
      <3> QED  BY <3>1, OrderTyped
    <2> QED  BY <1>4, <2>1, SendStep DEF request_head_LED, TypeInv
  <1> QED  BY <1>2, <1>3, <1>4

LEMMA OrderReturnsStep == Inv /\ OrderReturns => Inv'
  <1> SUFFICES ASSUME TypeInv, StackInv, OrderReturns PROVE TypeInv' /\ StackInv'
    BY DEF Inv
  <1>1. /\ stack # <<>> /\ Top.at = "order" /\ stack' = Below
        /\ UNCHANGED <<conns, attrib, is_connected, nattrib, cached, robot, applied, overtaken>>
    BY DEF OrderReturns, Running
  <1>2. PICK r \in {"true", "false"} : orders' = [orders EXCEPT ![Top.of].returned = r]
    BY DEF OrderReturns
  <1>3. Top.of \in DOMAIN orders /\ Below \in Seq(FrameType) /\ StackOK(Below, conns, Len(orders))
    BY <1>1, TopFacts
  <1>4. orders[Top.of] \in Order
    BY <1>3, SeqDomain DEF TypeInv
  <1>5. [orders[Top.of] EXCEPT !.returned = r] \in Order
    BY <1>2, <1>4 DEF Order
  <1>6. orders' \in Seq(Order) /\ Len(orders') = Len(orders) /\ DOMAIN orders' = DOMAIN orders
    BY <1>2, <1>3, <1>5, Replace DEF TypeInv
  <1>7. StackInv'
    BY <1>1, <1>3, <1>6 DEF StackInv
  <1>8. TypeInv'
    BY <1>1, <1>3, <1>6 DEF TypeInv
  <1> QED  BY <1>7, <1>8

(* What a dispatch may count on. *)
LEMMA DispatchFacts ==
    ASSUME TypeInv, StackInv, NEW s, Dispatching(s)
    PROVE  /\ stack # <<>> /\ s \in stack[Len(stack)].todo
           /\ s \in Sources /\ Valid(s, conns)
           /\ conns[s[2]] \in Connection /\ ConnectionOK(conns[s[2]], Len(orders))
           /\ \A t \in stack[Len(stack)].todo : t \in Sources /\ Valid(t, conns)
  <1>1. stack # <<>> /\ s \in stack[Len(stack)].todo
    BY DEF Dispatching, Top
  <1>2. \A t \in stack[Len(stack)].todo : t \in Sources /\ Valid(t, conns)
    BY <1>1, TopFacts DEF Top
  <1>3. s[2] \in DOMAIN conns
    BY <1>1, <1>2 DEF Valid
  <1> QED  BY <1>1, <1>2, <1>3, SeqDomain DEF TypeInv

LEMMA DoneFacts ==
    ASSUME TypeInv, StackInv, NEW s, Dispatching(s), DOMAIN conns \subseteq DOMAIN conns',
           \A t \in stack[Len(stack)].todo \ {s} : Valid(t, conns')
    PROVE  Done(s) \in Seq(FrameType) /\ StackOK(Done(s), conns', Len(orders))
  <1>1. stack # <<>> /\ s \in stack[Len(stack)].todo
    BY DEF Dispatching, Top
  <1>2. Len(orders) \in Nat /\ stack \in Seq(FrameType) /\ StackOK(stack, conns, Len(orders))
    BY SeqDomain DEF TypeInv, StackInv
  <1>3. PICK cs2 : cs2 = conns'
    OBVIOUS
  <1>4. \A t \in stack[Len(stack)].todo \ {s} : Valid(t, cs2)
    BY <1>3
  <1>5. DOMAIN conns \subseteq DOMAIN cs2
    BY <1>3
  <1> QED  BY <1>1, <1>2, <1>3, <1>4, <1>5, StackDone DEF Done

LEMMA ConnectCbStep == \A c \in DOMAIN conns : Inv /\ connect_cb(c) => Inv'
  <1> SUFFICES ASSUME NEW c \in DOMAIN conns, TypeInv, StackInv, connect_cb(c)
               PROVE  TypeInv' /\ StackInv'
    BY DEF Inv
  <1> DEFINE s == <<"connect", c>>
  <1>1. /\ Dispatching(s) /\ stack' = Done(s)
        /\ UNCHANGED <<nattrib, cached, robot, orders, applied, overtaken>>
    BY DEF connect_cb, histVars
  <1>2. PICK st \in {"up", "failed"} :
           /\ conns' = [conns EXCEPT ![c].state = st]
           /\ \/ st = "up" /\ attrib' = c /\ is_connected' = TRUE
              \/ st = "failed" /\ UNCHANGED <<attrib, is_connected>>
    BY DEF connect_cb
  <1>3. /\ s[1] = "connect" /\ s[2] = c
        /\ Valid(s, conns) /\ conns[c] \in Connection /\ ConnectionOK(conns[c], Len(orders))
        /\ \A t \in stack[Len(stack)].todo : t \in Sources /\ Valid(t, conns)
    BY <1>1, DispatchFacts
  <1>4. conns[c].state = "pending"
    BY <1>3 DEF Valid
  <1> DEFINE x == [conns[c] EXCEPT !.state = st]
  <1>5. /\ x \in Connection /\ x.state = st /\ x.inbox = conns[c].inbox
        /\ x.queue = conns[c].queue /\ x.wire = conns[c].wire
        /\ x.write_watch = conns[c].write_watch
    BY <1>2, <1>3 DEF Connection
  <1>6. ConnectionOK(x, Len(orders))
    BY <1>3, <1>4, <1>5 DEF ConnectionOK
  <1>7. conns' = [conns EXCEPT ![c] = x]
    BY <1>2
  <1> HIDE DEF x
  <1>8. Len(orders) \in Nat /\ Len(orders) <= Len(orders) /\ DOMAIN conns = 1..Len(conns)
        /\ Len(conns) \in Nat
    BY SeqDomain DEF TypeInv
  <1>9. /\ conns' \in Seq(Connection) /\ Len(conns') = Len(conns)
        /\ DOMAIN conns' = DOMAIN conns /\ conns'[c] = x
        /\ \A d \in DOMAIN conns : d # c => conns'[d] = conns[d]
        /\ \A d \in DOMAIN conns' : ConnectionOK(conns'[d], Len(orders))
    BY <1>5, <1>6, <1>7, <1>8, ConnectionChanged
  <1>10. ASSUME NEW t \in stack[Len(stack)].todo \ {s} PROVE Valid(t, conns')
    <2>1. t \in Sources /\ Valid(t, conns)
      BY <1>3
    <2>2. t[1] = "connect" => t[2] # c
      BY <2>1 DEF Sources
    <2>3. t[1] = "connect" => conns'[t[2]].state = "pending"
      BY <1>9, <2>1, <2>2 DEF Valid
    <2>4. t[1] = "read" => conns'[t[2]].inbox # <<>>
      BY <1>5, <1>9, <2>1 DEF Valid
    <2> QED  BY <1>9, <2>1, <2>3, <2>4 DEF Valid
  <1>11. stack' \in Seq(FrameType) /\ StackOK(stack', conns', Len(orders))
    BY <1>1, <1>9, <1>10, DoneFacts
  <1>12. StackInv'
    BY <1>1, <1>11 DEF StackInv
  <1>13. /\ attrib' \in 0..Len(conns') /\ is_connected' \in BOOLEAN
         /\ (is_connected' <=> attrib' # 0)
    <2>1. CASE attrib' = c /\ is_connected' = TRUE
      <3>1. c \in 1..Len(conns) /\ Len(conns') = Len(conns)
        BY <1>8, <1>9
      <3>2. attrib' \in 0..Len(conns') /\ attrib' # 0
        BY <1>8, <2>1, <3>1
      <3> QED  BY <2>1, <3>2
    <2>2. CASE UNCHANGED <<attrib, is_connected>>
      BY <1>9, <2>2 DEF TypeInv
    <2> QED  BY <1>2, <2>1, <2>2
  <1>14. attrib' # 0 => conns'[attrib'].state = "up"
    <2>1. CASE st = "up" /\ attrib' = c
      BY <1>5, <1>9, <2>1
    <2>2. CASE attrib' = attrib
      <3>1. attrib # 0 => conns[attrib].state = "up" /\ attrib \in DOMAIN conns
        BY <1>8 DEF TypeInv
      <3>2. attrib # 0 => attrib # c
        BY <1>4, <3>1
      <3> QED  BY <1>9, <2>2, <3>1, <3>2
    <2> QED  BY <1>2, <2>1, <2>2
  <1>15. TypeInv'
    BY <1>1, <1>9, <1>11, <1>13, <1>14 DEF TypeInv
  <1> QED  BY <1>12, <1>15

(* A connection changes and stays as up as it was. *)
LEMMA ConnectionServed ==
    ASSUME TypeInv, NEW c \in DOMAIN conns, NEW x \in Connection,
           ConnectionOK(x, Len(orders)), x.state = conns[c].state,
           conns' = [conns EXCEPT ![c] = x], UNCHANGED <<attrib, is_connected>>
    PROVE  /\ conns' \in Seq(Connection) /\ Len(conns') = Len(conns)
           /\ DOMAIN conns' = DOMAIN conns /\ conns'[c] = x
           /\ \A d \in DOMAIN conns : d # c => conns'[d] = conns[d]
           /\ \A d \in DOMAIN conns : conns'[d].state = conns[d].state
           /\ \A d \in DOMAIN conns' : ConnectionOK(conns'[d], Len(orders))
           /\ attrib' \in 0..Len(conns') /\ is_connected' \in BOOLEAN
           /\ (is_connected' <=> attrib' # 0)
           /\ attrib' # 0 => conns'[attrib'].state = "up"
  <1>1. Len(orders) \in Nat /\ Len(orders) <= Len(orders) /\ DOMAIN conns = 1..Len(conns)
    BY SeqDomain DEF TypeInv
  <1>2. /\ conns' \in Seq(Connection) /\ Len(conns') = Len(conns)
        /\ DOMAIN conns' = DOMAIN conns /\ conns'[c] = x
        /\ \A d \in DOMAIN conns : d # c => conns'[d] = conns[d]
        /\ \A d \in DOMAIN conns' : ConnectionOK(conns'[d], Len(orders))
    BY <1>1, ConnectionChanged
  <1>3. \A d \in DOMAIN conns : conns'[d].state = conns[d].state
    BY <1>2
  <1>4. /\ attrib' \in 0..Len(conns') /\ is_connected' \in BOOLEAN
        /\ (is_connected' <=> attrib' # 0)
    BY <1>2 DEF TypeInv
  <1>5. attrib' # 0 => conns'[attrib'].state = "up"
    BY <1>1, <1>3 DEF TypeInv
  <1> QED  BY <1>2, <1>3, <1>4, <1>5

(* The next element of a sequence of orders. *)
LEMMA NextOrder ==
    ASSUME NEW q \in Seq(Nat), NEW n \in Nat, Within(q, n), q # <<>>
    PROVE  q[1] \in 1..n /\ Tail(q) \in Seq(Nat) /\ Within(Tail(q), n)
  BY SeqDomain DEF Within

LEMMA WriteCommandEffect ==
    ASSUME TypeInv, StackInv, NEW c \in DOMAIN conns, WriteCommand(c)
    PROVE  /\ TypeInv' /\ StackInv' /\ DOMAIN conns' = DOMAIN conns
           /\ Len(conns') = Len(conns) /\ Len(orders') = Len(orders)
           /\ \A d \in DOMAIN conns : d # c => conns'[d] = conns[d]
           /\ conns'[c].inbox = conns[c].inbox
           /\ conns'[c].next_cmd_id = conns[c].next_cmd_id
           /\ \/ /\ conns'[c].queue = conns[c].queue /\ conns'[c].wire = conns[c].wire
                 /\ orders' = orders
              \/ /\ conns[c].queue # <<>> /\ conns'[c].queue = Tail(conns[c].queue)
                 /\ conns'[c].wire = Append(conns[c].wire, conns[c].queue[1])
                 /\ conns[c].queue[1] \in DOMAIN orders
                 /\ orders' = [orders EXCEPT ![conns[c].queue[1]].written = TRUE]
  <1> DEFINE s == <<"write", c>>
             q == conns[c].queue
  <1>1. /\ Dispatching(s) /\ stack' = Done(s)
        /\ UNCHANGED <<attrib, is_connected, nattrib, cached, robot, applied, overtaken>>
    BY DEF WriteCommand
  <1>2. /\ conns[c] \in Connection /\ ConnectionOK(conns[c], Len(orders))
        /\ \A t \in stack[Len(stack)].todo : t \in Sources /\ Valid(t, conns)
    BY <1>1, DispatchFacts
  <1>3. Len(orders) \in Nat /\ DOMAIN orders = 1..Len(orders)
    BY SeqDomain DEF TypeInv
  <1>4. /\ q \in Seq(Nat) /\ conns[c].wire \in Seq(Nat)
        /\ Within(q, Len(orders)) /\ Within(conns[c].wire, Len(orders))
    BY <1>2 DEF Connection, ConnectionOK
  <1>5. PICK x \in Connection :
           /\ conns' = [conns EXCEPT ![c] = x]
           /\ x.state = conns[c].state /\ x.inbox = conns[c].inbox
           /\ x.next_cmd_id = conns[c].next_cmd_id
           /\ ConnectionOK(x, Len(orders))
           /\ \/ x.queue = q /\ x.wire = conns[c].wire /\ orders' = orders
              \/ /\ q # <<>> /\ x.queue = Tail(q) /\ x.wire = Append(conns[c].wire, q[1])
                 /\ q[1] \in DOMAIN orders
                 /\ orders' = [orders EXCEPT ![q[1]].written = TRUE]
    <2>1. CASE /\ conns' = [conns EXCEPT ![c].write_watch = FALSE]
               /\ UNCHANGED orders
      <3> DEFINE x == [conns[c] EXCEPT !.write_watch = FALSE]
      <3>1. /\ x \in Connection /\ x.state = conns[c].state /\ x.inbox = conns[c].inbox
            /\ x.queue = q /\ x.wire = conns[c].wire /\ x.write_watch = FALSE
            /\ x.next_cmd_id = conns[c].next_cmd_id
        BY <1>2 DEF Connection
      <3>2. ConnectionOK(x, Len(orders))
        BY <1>2, <3>1 DEF ConnectionOK
      <3>3. conns' = [conns EXCEPT ![c] = x]
        BY <2>1
      <3> HIDE DEF x
      <3> QED  BY <2>1, <3>1, <3>2, <3>3
    <2>2. CASE /\ q # <<>>
               /\ conns' = [conns EXCEPT ![c].queue = Tail(q), ![c].wire = Append(@, q[1])]
               /\ orders' = [orders EXCEPT ![q[1]].written = TRUE]
      <3>1. /\ q[1] \in 1..Len(orders) /\ Tail(q) \in Seq(Nat)
            /\ Within(Tail(q), Len(orders))
        BY <1>3, <1>4, <2>2, NextOrder
      <3>2. Append(conns[c].wire, q[1]) \in Seq(Nat)
            /\ Within(Append(conns[c].wire, q[1]), Len(orders))
        <4>1. q[1] \in Nat
          BY <1>3, <3>1
        <4>2. /\ Append(conns[c].wire, q[1]) \in Seq(Nat)
              /\ DOMAIN Append(conns[c].wire, q[1]) = 1 .. Len(conns[c].wire) + 1
              /\ Append(conns[c].wire, q[1])[Len(conns[c].wire) + 1] = q[1]
              /\ \A i \in DOMAIN conns[c].wire :
                    Append(conns[c].wire, q[1])[i] = conns[c].wire[i]
          BY <1>4, <4>1, Appended
        <4>3. DOMAIN conns[c].wire = 1..Len(conns[c].wire) /\ Len(conns[c].wire) \in Nat
          BY <1>4, SeqDomain
        <4>4. \A i \in DOMAIN Append(conns[c].wire, q[1]) :
                 i \in DOMAIN conns[c].wire \/ i = Len(conns[c].wire) + 1
          BY <4>2, <4>3
        <4> QED  BY <1>4, <3>1, <4>2, <4>4 DEF Within
      <3>3. PICK w \in Seq(Nat) : w = Append(conns[c].wire, q[1])
        BY <3>2
      <3>4. PICK r \in Seq(Nat) : r = Tail(q)
        BY <3>1
      <3> DEFINE x == [conns[c] EXCEPT !.queue = r, !.wire = w]
      <3>5. /\ x \in Connection /\ x.state = conns[c].state /\ x.inbox = conns[c].inbox
            /\ x.queue = r /\ x.wire = w /\ x.write_watch = conns[c].write_watch
            /\ x.next_cmd_id = conns[c].next_cmd_id
        BY <1>2 DEF Connection
      <3>6. ConnectionOK(x, Len(orders))
        BY <1>2, <2>2, <3>1, <3>2, <3>3, <3>4, <3>5 DEF ConnectionOK
      <3>7. conns' = [conns EXCEPT ![c] = x]
        BY <1>2, <2>2, <3>3, <3>4
      <3> HIDE DEF x
      <3> QED  BY <1>3, <2>2, <3>1, <3>3, <3>4, <3>5, <3>6, <3>7
    <2> QED  BY <2>1, <2>2 DEF WriteCommand
  <1>6. /\ conns' \in Seq(Connection) /\ Len(conns') = Len(conns)
        /\ DOMAIN conns' = DOMAIN conns /\ conns'[c] = x
        /\ \A d \in DOMAIN conns : d # c => conns'[d] = conns[d]
        /\ \A d \in DOMAIN conns : conns'[d].state = conns[d].state
        /\ \A d \in DOMAIN conns' : ConnectionOK(conns'[d], Len(orders))
        /\ attrib' \in 0..Len(conns') /\ is_connected' \in BOOLEAN
        /\ (is_connected' <=> attrib' # 0)
        /\ attrib' # 0 => conns'[attrib'].state = "up"
    BY <1>1, <1>5, ConnectionServed
  <1>7. orders' \in Seq(Order) /\ Len(orders') = Len(orders) /\ DOMAIN orders' = DOMAIN orders
    <2>1. CASE orders' = orders
      BY <2>1 DEF TypeInv
    <2>2. CASE q[1] \in DOMAIN orders /\ orders' = [orders EXCEPT ![q[1]].written = TRUE]
      <3>1. orders[q[1]] \in Order
        BY <2>2, SeqDomain DEF TypeInv
      <3>2. [orders[q[1]] EXCEPT !.written = TRUE] \in Order
        BY <3>1 DEF Order
      <3> QED  BY <2>2, <3>2, Replace DEF TypeInv
    <2> QED  BY <1>5, <2>1, <2>2
  <1>8. \A d \in DOMAIN conns : conns'[d].inbox = conns[d].inbox
    BY <1>5, <1>6
  <1>9. \A t \in stack[Len(stack)].todo \ {s} : Valid(t, conns')
    BY <1>2, <1>6, <1>8 DEF Valid
  <1>10. stack' \in Seq(FrameType) /\ StackOK(stack', conns', Len(orders))
    BY <1>1, <1>6, <1>9, DoneFacts
  <1>11. StackInv'
    BY <1>7, <1>10 DEF StackInv
  <1>12. TypeInv'
    BY <1>1, <1>6, <1>7, <1>10 DEF TypeInv
  <1> QED  BY <1>5, <1>6, <1>7, <1>11, <1>12

LEMMA NotificationsTyped ==
    /\ Gesture \in Notification
    /\ \A n \in Nat, l \in Leds : Answer(n, l) \in Notification
  <1>1. DefaultLeds \in Leds
    BY DEF DefaultLeds, Leds, LedIdx
  <1> QED  BY <1>1 DEF Gesture, Answer, Notification

LEMMA EventsHandlerEffect ==
    ASSUME TypeInv, StackInv, NEW c \in DOMAIN conns, events_handler(c)
    PROVE  /\ TypeInv' /\ StackInv' /\ DOMAIN conns' = DOMAIN conns
           /\ Len(conns') = Len(conns)
           /\ \A d \in DOMAIN conns : d # c => conns'[d] = conns[d]
           /\ conns'[c].queue = conns[c].queue /\ conns'[c].wire = conns[c].wire
           /\ conns'[c].next_cmd_id = conns[c].next_cmd_id
           /\ conns[c].inbox \in Seq(Notification) /\ conns[c].inbox # <<>>
           /\ conns'[c].inbox = Tail(conns[c].inbox)
           /\ store_results(conns[c].inbox[1])
  <1> DEFINE s == <<"read", c>>
             pdu == conns[c].inbox[1]
  <1>1. /\ Dispatching(s) /\ stack' = Append(Done(s), Frame("hook", c, 0))
        /\ conns' = [conns EXCEPT ![c].inbox = Tail(@)]
        /\ store_results(pdu)
        /\ UNCHANGED <<attrib, is_connected, nattrib, robot, orders, applied>>
    BY DEF events_handler
  <1>2. /\ s[1] = "read" /\ s[2] = c /\ Valid(s, conns)
        /\ conns[c] \in Connection /\ ConnectionOK(conns[c], Len(orders))
        /\ \A t \in stack[Len(stack)].todo : t \in Sources /\ Valid(t, conns)
    BY <1>1, DispatchFacts
  <1>3. conns[c].inbox \in Seq(Notification) /\ conns[c].inbox # <<>>
    BY <1>2 DEF Connection, Valid
  <1>4. PICK b \in Seq(Notification) : b = Tail(conns[c].inbox)
    BY <1>3, SeqDomain
  <1>5. pdu \in Notification
    BY <1>3, SeqDomain
  <1> DEFINE x == [conns[c] EXCEPT !.inbox = b]
  <1>6. /\ x \in Connection /\ x.state = conns[c].state /\ x.inbox = b
        /\ x.queue = conns[c].queue /\ x.wire = conns[c].wire
        /\ x.write_watch = conns[c].write_watch
        /\ x.next_cmd_id = conns[c].next_cmd_id
    BY <1>2 DEF Connection
  <1>7. ConnectionOK(x, Len(orders))
    BY <1>2, <1>6 DEF ConnectionOK
  <1>8. conns' = [conns EXCEPT ![c] = x]
    BY <1>1, <1>4
  <1> HIDE DEF x
  <1>9. /\ conns' \in Seq(Connection) /\ Len(conns') = Len(conns)
        /\ DOMAIN conns' = DOMAIN conns /\ conns'[c] = x
        /\ \A d \in DOMAIN conns : d # c => conns'[d] = conns[d]
        /\ \A d \in DOMAIN conns : conns'[d].state = conns[d].state
        /\ \A d \in DOMAIN conns' : ConnectionOK(conns'[d], Len(orders))
        /\ attrib' \in 0..Len(conns') /\ is_connected' \in BOOLEAN
        /\ (is_connected' <=> attrib' # 0)
        /\ attrib' # 0 => conns'[attrib'].state = "up"
    BY <1>1, <1>6, <1>7, <1>8, ConnectionServed
  <1>10. ASSUME NEW t \in stack[Len(stack)].todo \ {s} PROVE Valid(t, conns')
    <2>1. t \in Sources /\ Valid(t, conns)
      BY <1>2
    <2>2. t[1] = "read" => t[2] # c
      BY <2>1 DEF Sources
    <2>3. t[1] = "connect" => conns'[t[2]].state = "pending"
      BY <1>9, <2>1 DEF Valid
    <2>4. t[1] = "read" => conns'[t[2]].inbox # <<>>
      BY <1>9, <2>1, <2>2 DEF Valid
    <2> QED  BY <1>9, <2>1, <2>3, <2>4 DEF Valid
  <1>11. Done(s) \in Seq(FrameType) /\ StackOK(Done(s), conns', Len(orders))
    BY <1>1, <1>9, <1>10, DoneFacts
  <1>12. stack' \in Seq(FrameType) /\ StackOK(stack', conns', Len(orders))
    <2>1. c \in Nat
      BY SeqDomain DEF TypeInv
    <2>2. PICK cs2 : cs2 = conns'
      OBVIOUS
    <2>3. StackOK(Done(s), cs2, Len(orders))
      BY <1>11, <2>2
    <2> HIDE DEF s
    <2>4. /\ Append(Done(s), Frame("hook", c, 0)) \in Seq(FrameType)
          /\ StackOK(Append(Done(s), Frame("hook", c, 0)), cs2, Len(orders))
      BY <1>11, <2>1, <2>3, StackHooked
    <2> QED  BY <1>1, <2>2, <2>4
  <1>13. StackInv'
    BY <1>1, <1>12 DEF StackInv
  <1>14. cached' \in Leds /\ overtaken' \in BOOLEAN
    <2>1. CASE pdu.about = "leds"
      BY <1>1, <1>5, <2>1 DEF store_results, Notification, SetAfter
    <2>2. CASE pdu.about # "leds"
      BY <1>1, <2>2 DEF store_results, TypeInv
    <2> QED  BY <2>1, <2>2
  <1>15. TypeInv'
    BY <1>1, <1>9, <1>12, <1>14 DEF TypeInv
  <1> QED  BY <1>1, <1>3, <1>4, <1>6, <1>9, <1>13, <1>15

(* The robot's steps: it takes from the wire or gives to the inbox. *)
LEMMA RobotEffect ==
    ASSUME TypeInv, StackInv, NEW c \in DOMAIN conns, NEW x \in Connection,
           ConnectionOK(x, Len(orders)), x.state = conns[c].state,
           conns[c].inbox # <<>> => x.inbox # <<>>, conns' = [conns EXCEPT ![c] = x],
           UNCHANGED <<attrib, is_connected>>,
           UNCHANGED <<nattrib, cached, stack, orders, overtaken>>,
           robot' \in Leds, applied' \subseteq DOMAIN orders
    PROVE  /\ TypeInv' /\ StackInv'
           /\ DOMAIN conns' = DOMAIN conns /\ Len(conns') = Len(conns) /\ conns'[c] = x
           /\ \A d \in DOMAIN conns : d # c => conns'[d] = conns[d]
  <1>1. Len(orders) \in Nat /\ Len(orders) <= Len(orders)
    BY SeqDomain DEF TypeInv
  <1>5. /\ conns' \in Seq(Connection) /\ Len(conns') = Len(conns)
        /\ DOMAIN conns' = DOMAIN conns /\ conns'[c] = x
        /\ \A d \in DOMAIN conns : d # c => conns'[d] = conns[d]
        /\ \A d \in DOMAIN conns : conns'[d].state = conns[d].state
        /\ \A d \in DOMAIN conns' : ConnectionOK(conns'[d], Len(orders))
        /\ attrib' \in 0..Len(conns') /\ is_connected' \in BOOLEAN
        /\ (is_connected' <=> attrib' # 0)
        /\ attrib' # 0 => conns'[attrib'].state = "up"
    BY ConnectionServed
  <1>6. Keeps(conns, conns')
    BY <1>5 DEF Keeps
  <1>7. StackInv'
    BY <1>1, <1>6, FramesKept DEF StackInv
  <1>8. TypeInv'
    BY <1>5 DEF TypeInv
  <1> QED  BY <1>5, <1>7, <1>8

LEMMA RobotObeysEffect ==
    ASSUME TypeInv, StackInv, NEW c \in DOMAIN conns, RobotObeys(c)
    PROVE  LET n == conns[c].wire[1] IN
           /\ TypeInv' /\ StackInv' /\ DOMAIN conns' = DOMAIN conns
           /\ Len(conns') = Len(conns)
           /\ \A d \in DOMAIN conns : d # c => conns'[d] = conns[d]
           /\ conns[c].wire # <<>> /\ n \in DOMAIN orders
           /\ conns'[c].queue = conns[c].queue /\ conns'[c].wire = Tail(conns[c].wire)
           /\ conns'[c].next_cmd_id = conns[c].next_cmd_id
           /\ \/ /\ orders[n].kind = "set" /\ robot' = orders[n].leds
                 /\ conns'[c].inbox = conns[c].inbox
              \/ /\ orders[n].kind # "set" /\ robot' = robot
                 /\ conns'[c].inbox = Append(conns[c].inbox, Answer(n, robot))
  <1> DEFINE n == conns[c].wire[1]
  <1>1. conns[c] \in Connection /\ ConnectionOK(conns[c], Len(orders)) /\ Len(orders) \in Nat
        /\ DOMAIN orders = 1..Len(orders)
    BY SeqDomain DEF TypeInv
  <1>2. /\ conns[c].wire \in Seq(Nat) /\ conns[c].wire # <<>>
        /\ conns[c].inbox \in Seq(Notification) /\ Within(conns[c].wire, Len(orders))
    BY <1>1 DEF RobotObeys, Connection, ConnectionOK
  <1>3. /\ n \in 1..Len(orders) /\ Tail(conns[c].wire) \in Seq(Nat)
        /\ Within(Tail(conns[c].wire), Len(orders))
    BY <1>1, <1>2, NextOrder
  <1>4. n \in DOMAIN orders /\ n \in Nat /\ orders[n] \in Order
    BY <1>1, <1>3, SeqDomain DEF TypeInv
  <1>5. /\ applied' = applied \cup {n}
        /\ UNCHANGED <<attrib, is_connected, nattrib, cached, stack, orders, overtaken>>
        /\ \/ /\ orders[n].kind = "set" /\ robot' = orders[n].leds
              /\ conns' = [conns EXCEPT ![c].wire = Tail(@)]
           \/ /\ orders[n].kind # "set" /\ robot' = robot
              /\ conns' = [conns EXCEPT ![c].wire = Tail(@),
                                        ![c].inbox = Append(@, Answer(n, robot))]
    BY DEF RobotObeys
  <1>6. robot' \in Leds
    BY <1>4, <1>5 DEF TypeInv, Order
  <1>7. applied' \subseteq DOMAIN orders
    BY <1>4, <1>5 DEF TypeInv
  <1>8. PICK b \in Seq(Notification) :
           /\ conns' = [conns EXCEPT ![c] =
                           [conns[c] EXCEPT !.wire = Tail(conns[c].wire), !.inbox = b]]
           /\ conns[c].inbox # <<>> => b # <<>>
           /\ \/ /\ orders[n].kind = "set" /\ robot' = orders[n].leds
                 /\ b = conns[c].inbox
              \/ /\ orders[n].kind # "set" /\ robot' = robot
                 /\ b = Append(conns[c].inbox, Answer(n, robot))
    <2>1. CASE /\ orders[n].kind = "set" /\ robot' = orders[n].leds
               /\ conns' = [conns EXCEPT ![c].wire = Tail(@)]
      <3>1. conns' = [conns EXCEPT ![c] = [conns[c] EXCEPT !.wire = Tail(conns[c].wire),
                                                           !.inbox = conns[c].inbox]]
        <4>1. [conns[c] EXCEPT !.wire = Tail(conns[c].wire)]
                 = [conns[c] EXCEPT !.wire = Tail(conns[c].wire), !.inbox = conns[c].inbox]
          BY <1>1 DEF Connection
        <4> QED  BY <2>1, <4>1
      <3> QED  BY <1>2, <2>1, <3>1
    <2>2. CASE /\ orders[n].kind # "set" /\ robot' = robot
               /\ conns' = [conns EXCEPT ![c].wire = Tail(@),
                                         ![c].inbox = Append(@, Answer(n, robot))]
      <3>1. Answer(n, robot) \in Notification
        BY <1>4, NotificationsTyped DEF TypeInv
      <3>2. /\ Append(conns[c].inbox, Answer(n, robot)) \in Seq(Notification)
            /\ Append(conns[c].inbox, Answer(n, robot)) # <<>>
        BY <1>2, <3>1, Appended
      <3>3. conns' = [conns EXCEPT ![c] =
                       [conns[c] EXCEPT !.wire = Tail(conns[c].wire),
                                        !.inbox = Append(conns[c].inbox, Answer(n, robot))]]
        BY <1>1, <2>2
      <3> QED  BY <2>2, <3>2, <3>3
    <2> QED  BY <1>5, <2>1, <2>2
  <1> DEFINE x == [conns[c] EXCEPT !.wire = Tail(conns[c].wire), !.inbox = b]
  <1>9. /\ x \in Connection /\ x.state = conns[c].state /\ x.inbox = b
        /\ x.queue = conns[c].queue /\ x.wire = Tail(conns[c].wire)
        /\ x.write_watch = conns[c].write_watch
        /\ x.next_cmd_id = conns[c].next_cmd_id
    <2>1. PICK w \in Seq(Nat) : w = Tail(conns[c].wire)
      BY <1>3
    <2> QED  BY <1>1, <2>1 DEF Connection
  <1>10. ConnectionOK(x, Len(orders))
    BY <1>1, <1>3, <1>9 DEF ConnectionOK
  <1>11. conns' = [conns EXCEPT ![c] = x]
    BY <1>8
  <1>12. conns[c].inbox # <<>> => x.inbox # <<>>
    BY <1>8, <1>9
  <1> HIDE DEF x
  <1>13. /\ TypeInv' /\ StackInv'
         /\ DOMAIN conns' = DOMAIN conns /\ Len(conns') = Len(conns) /\ conns'[c] = x
         /\ \A d \in DOMAIN conns : d # c => conns'[d] = conns[d]
    BY <1>5, <1>6, <1>7, <1>9, <1>10, <1>11, <1>12, RobotEffect
  <1> QED  BY <1>2, <1>4, <1>8, <1>9, <1>13

LEMMA RobotSignalsEffect ==
    ASSUME TypeInv, StackInv, NEW c \in DOMAIN conns, RobotSignals(c)
    PROVE  /\ TypeInv' /\ StackInv' /\ DOMAIN conns' = DOMAIN conns
           /\ Len(conns') = Len(conns)
           /\ \A d \in DOMAIN conns : d # c => conns'[d] = conns[d]
           /\ conns'[c].queue = conns[c].queue /\ conns'[c].wire = conns[c].wire
           /\ conns'[c].next_cmd_id = conns[c].next_cmd_id
           /\ conns'[c].inbox = Append(conns[c].inbox, Gesture)
  <1>1. conns[c] \in Connection /\ ConnectionOK(conns[c], Len(orders))
    BY SeqDomain DEF TypeInv
  <1>2. /\ conns[c].wire \in Seq(Nat) /\ conns[c].inbox \in Seq(Notification)
        /\ Within(conns[c].wire, Len(orders))
    BY <1>1 DEF Connection, ConnectionOK
  <1>3. PICK b \in Seq(Notification) : b = Append(conns[c].inbox, Gesture) /\ b # <<>>
    BY <1>2, NotificationsTyped, Appended
  <1>4. /\ conns' = [conns EXCEPT ![c].inbox = b]
        /\ UNCHANGED <<attrib, is_connected, nattrib, cached, stack, robot, orders, applied,
                       overtaken>>
    BY <1>3 DEF RobotSignals, histVars
  <1> DEFINE x == [conns[c] EXCEPT !.inbox = b]
  <1>5. /\ x \in Connection /\ x.state = conns[c].state /\ x.inbox = b
        /\ x.queue = conns[c].queue /\ x.wire = conns[c].wire
        /\ x.write_watch = conns[c].write_watch
        /\ x.next_cmd_id = conns[c].next_cmd_id
    BY <1>1 DEF Connection
  <1>6. ConnectionOK(x, Len(orders))
    BY <1>1, <1>5 DEF ConnectionOK
  <1>7. conns' = [conns EXCEPT ![c] = x]
    BY <1>4
  <1>8. conns[c].inbox # <<>> => x.inbox # <<>>
    BY <1>3, <1>5
  <1>9. robot' \in Leds /\ applied' \subseteq DOMAIN orders
    BY <1>4 DEF TypeInv
  <1> HIDE DEF x
  <1>10. /\ TypeInv' /\ StackInv'
         /\ DOMAIN conns' = DOMAIN conns /\ Len(conns') = Len(conns) /\ conns'[c] = x
         /\ \A d \in DOMAIN conns : d # c => conns'[d] = conns[d]
    BY <1>4, <1>5, <1>6, <1>7, <1>8, <1>9, RobotEffect
  <1> QED  BY <1>3, <1>5, <1>10

LEMMA NextInv == Inv /\ [Next]_vars => Inv'
  <1> SUFFICES ASSUME Inv, [Next]_vars PROVE Inv'
    OBVIOUS
  <1>1. CASE Calling
    BY <1>1, ConnectStep, OrderStep, PumpsStep DEF Calling
  <1>2. CASE Returning
    BY <1>2, ConnectTriesStep, ConnectReturnsStep, OrderReturnsStep, ReturnStep DEF Returning
  <1>3. CASE Dispatch
    <2>1. PICK c \in DOMAIN conns : connect_cb(c) \/ WriteCommand(c) \/ events_handler(c)
      BY <1>3 DEF Dispatch
    <2>2. CASE connect_cb(c)
      BY <2>2, ConnectCbStep
    <2>3. CASE WriteCommand(c)
      <3>1. TypeInv' /\ StackInv'
        BY <2>3, WriteCommandEffect DEF Inv
      <3> QED  BY <3>1 DEF Inv
    <2>4. CASE events_handler(c)
      <3>1. TypeInv' /\ StackInv'
        BY <2>4, EventsHandlerEffect DEF Inv
      <3> QED  BY <3>1 DEF Inv
    <2> QED  BY <2>1, <2>2, <2>3, <2>4
  <1>4. CASE RobotActs
    <2>1. PICK c \in DOMAIN conns : RobotObeys(c) \/ RobotSignals(c)
      BY <1>4 DEF RobotActs
    <2>2. CASE RobotObeys(c)
      <3>1. TypeInv' /\ StackInv'
        BY <2>2, RobotObeysEffect DEF Inv
      <3> QED  BY <3>1 DEF Inv
    <2>3. CASE RobotSignals(c)
      <3>1. TypeInv' /\ StackInv'
        BY <2>3, RobotSignalsEffect DEF Inv
      <3> QED  BY <3>1 DEF Inv
    <2> QED  BY <2>1, <2>2, <2>3
  <1>5. CASE UNCHANGED vars
    BY <1>5 DEF vars, histVars, Inv, TypeInv, StackInv
  <1> QED  BY <1>1, <1>2, <1>3, <1>4, <1>5 DEF Next

LEMMA SeqWithin ==
    ASSUME NEW q \in Seq(Nat), NEW n, Within(q, n)
    PROVE  q \in Seq(1..n)
  <1>1. DOMAIN q = 1..Len(q) /\ Len(q) \in Nat /\ q \in [1..Len(q) -> Nat]
    BY SeqDomain, LenProperties
  <1>2. q \in [1..Len(q) -> 1..n]
    BY <1>1 DEF Within
  <1>3. PICK k \in Nat : k = Len(q)
    BY <1>1
  <1>4. q \in [1..k -> 1..n]
    BY <1>2, <1>3
  <1>5. q \in UNION {[1..m -> 1..n] : m \in Nat}
    BY <1>4
  <1>6. Seq(1..n) = UNION {[1..m -> 1..n] : m \in Nat}
    BY SeqDef
  <1> QED  BY <1>5, <1>6

LEMMA InvTypeOK == TypeInv => TypeOK
  <1> SUFFICES ASSUME TypeInv PROVE TypeOK
    OBVIOUS
  <1>1. DOMAIN orders = 1..Len(orders)
    BY SeqDomain DEF TypeInv
  <1>2. ASSUME NEW c \in DOMAIN conns
        PROVE  /\ conns[c].state \in {"pending", "up", "failed"}
               /\ conns[c].returned \in {"none", "true", "false"}
               /\ conns[c].queue \in Seq(DOMAIN orders) /\ conns[c].wire \in Seq(DOMAIN orders)
               /\ conns[c].state # "up" => conns[c].queue = <<>> /\ ~ conns[c].write_watch
    <2>1. conns[c] \in Connection /\ ConnectionOK(conns[c], Len(orders))
      BY SeqDomain DEF TypeInv
    <2>2. /\ conns[c].state \in {"pending", "up", "failed"}
          /\ conns[c].returned \in {"none", "true", "false"}
          /\ conns[c].queue \in Seq(Nat) /\ conns[c].wire \in Seq(Nat)
      BY <2>1 DEF Connection
    <2>3. /\ Within(conns[c].queue, Len(orders)) /\ Within(conns[c].wire, Len(orders))
          /\ conns[c].state # "up" => conns[c].queue = <<>> /\ ~ conns[c].write_watch
      BY <2>1 DEF ConnectionOK
    <2> QED  BY <1>1, <2>2, <2>3, SeqWithin
  <1> QED  BY <1>2 DEF TypeOK, TypeInv

(* The types of the variables, whatever the number of connections: every order  *)
(* queued or on the wire was given, a connection that is not up has no queue   *)
(* and no write source, and _is_connected says that _attrib is set.          *)
THEOREM Types == Spec => []TypeOK
  <1>1. Init => Inv
    BY InitInv DEF Inv
  <1>2. Inv => TypeOK
    BY InvTypeOK DEF Inv
  <1> QED  BY <1>1, <1>2, NextInv, PTL DEF Spec

----------------------------------------------------------------------------
(* With one connection a step does one of six things to the line of orders.     *)

SameOrders ==
    /\ Len(orders') = Len(orders)
    /\ \A n \in DOMAIN orders :
          /\ orders'[n].kind = orders[n].kind /\ orders'[n].leds = orders[n].leds
          /\ orders'[n].idx = orders[n].idx /\ orders'[n].trusted = orders[n].trusted
          /\ orders'[n].accepted = orders[n].accepted

OrderGiven(o) ==
    /\ orders' = Append(orders, o) /\ o.accepted
    /\ Queue' = Append(Queue, Len(orders) + 1)
    /\ UNCHANGED <<Wire, Inbox, robot, applied>>
    /\ \/ /\ o.kind = "set" /\ cached' = o.leds /\ overtaken' = FALSE
          /\ o.trusted => ~ overtaken
          /\ o.idx # 0 => \A j \in LedIdx \ {o.idx} : o.leds[j] = cached[j]
       \/ o.kind = "get" /\ o.idx = 0 /\ UNCHANGED <<cached, overtaken>>

OrderWritten ==
    /\ Queue # <<>> /\ Queue' = Tail(Queue) /\ Wire' = Append(Wire, Queue[1])
    /\ SameOrders /\ UNCHANGED <<Inbox, robot, applied, cached, overtaken>>

OrderApplied ==
    /\ Wire # <<>> /\ Wire' = Tail(Wire) /\ applied' = applied \cup {Wire[1]}
    /\ Wire[1] \in DOMAIN orders
    /\ UNCHANGED <<orders, Queue, cached, overtaken>>
    /\ \/ /\ orders[Wire[1]].kind = "set" /\ robot' = orders[Wire[1]].leds
          /\ Inbox' = Inbox
       \/ /\ orders[Wire[1]].kind # "set" /\ robot' = robot
          /\ Inbox' = Append(Inbox, Answer(Wire[1], robot))

GestureMade ==
    /\ Inbox' = Append(Inbox, Gesture)
    /\ UNCHANGED <<orders, Queue, Wire, robot, applied, cached, overtaken>>

NotificationHandled ==
    /\ Inbox # <<>> /\ Inbox' = Tail(Inbox) /\ store_results(Inbox[1])
    /\ UNCHANGED <<orders, Queue, Wire, robot, applied>>

LineKept == SameOrders /\ UNCHANGED <<Queue, Wire, Inbox, robot, applied, cached, overtaken>>

LineStep ==
    \/ \E o \in Order : OrderGiven(o)
    \/ OrderWritten \/ OrderApplied \/ GestureMade \/ NotificationHandled \/ LineKept

(* What the application and the callbacks of connect() leave of a connection. *)
SameLine ==
    /\ Len(conns') = Len(conns)
    /\ \A d \in DOMAIN conns :
          /\ conns'[d].queue = conns[d].queue /\ conns'[d].wire = conns[d].wire
          /\ conns'[d].inbox = conns[d].inbox /\ conns'[d].next_cmd_id = conns[d].next_cmd_id

LEMMA StateLine ==
    ASSUME TypeInv, NEW c \in DOMAIN conns, NEW v,
           \/ conns' = [conns EXCEPT ![c].returned = v]
           \/ conns' = [conns EXCEPT ![c].state = v]
    PROVE  SameLine
  <1>1. conns[c] \in Connection /\ conns \in Seq(Connection) /\ DOMAIN conns = 1..Len(conns)
        /\ conns \in [1..Len(conns) -> Connection] /\ Len(conns) \in Nat
    BY SeqDomain, LenProperties DEF TypeInv
  <1>2. PICK x : /\ conns' = [conns EXCEPT ![c] = x]
                 /\ x.queue = conns[c].queue /\ x.wire = conns[c].wire
                 /\ x.inbox = conns[c].inbox /\ x.next_cmd_id = conns[c].next_cmd_id
    BY <1>1 DEF Connection
  <1>3. conns'[c] = x /\ \A d \in DOMAIN conns : d # c => conns'[d] = conns[d]
    BY <1>1, <1>2
  <1>4. Len(conns') = Len(conns)
    BY <1>1, <1>2
  <1> QED  BY <1>2, <1>3, <1>4 DEF SameLine

(* The connection there is. *)
LEMMA TheConnection ==
    ASSUME TypeInv, IdInv, NEW c \in DOMAIN conns
    PROVE  c = 1 /\ conns # <<>> /\ Len(conns) = 1 /\ DOMAIN conns = {1}
  <1>1. DOMAIN conns = 1..Len(conns) /\ Len(conns) \in Nat /\ (conns = <<>> <=> Len(conns) = 0)
    BY SeqDomain DEF TypeInv
  <1>2. Len(conns) = 1 /\ c = 1
    BY <1>1 DEF IdInv
  <1>3. 1..1 = {1}
    OBVIOUS
  <1> QED  BY <1>1, <1>2, <1>3

LEMMA ConnsNow ==
    ASSUME TypeInv, TypeInv'
    PROVE  /\ DOMAIN conns = 1..Len(conns) /\ DOMAIN conns' = 1..Len(conns')
           /\ Len(conns) \in Nat /\ Len(conns') \in Nat
           /\ conns = <<>> <=> Len(conns) = 0
           /\ conns' = <<>> <=> Len(conns') = 0
  <1>1. \A S, q : q \in Seq(S) => /\ DOMAIN q = 1..Len(q) /\ Len(q) \in Nat
                                  /\ q = <<>> <=> Len(q) = 0
    BY SeqDomain
  <1>2. conns \in Seq(Connection) /\ conns' \in Seq(Connection)
    BY DEF TypeInv
  <1> QED  BY <1>1, <1>2

LEMMA LineOfConnection ==
    ASSUME TypeInv, TypeInv', IdInv, NEW c \in DOMAIN conns, Len(conns') = Len(conns)
    PROVE  /\ Wire = conns[c].wire /\ Queue = conns[c].queue /\ Inbox = conns[c].inbox
           /\ Wire' = conns'[c].wire /\ Queue' = conns'[c].queue /\ Inbox' = conns'[c].inbox
  <1>1. c = 1 /\ conns # <<>>
    BY TheConnection
  <1>2. conns' # <<>>
    BY <1>1, ConnsNow
  <1> QED  BY <1>1, <1>2 DEF Wire, Queue, Inbox

LEMMA SameLineKept ==
    ASSUME TypeInv, TypeInv', IdInv, SameLine, SameOrders,
           attrib' = 0 => attrib = 0,
           UNCHANGED <<robot, applied, cached, overtaken>>
    PROVE  IdInv' /\ LineKept
  <1>1. UNCHANGED <<Wire, Queue, Inbox>>
    <2>1. CASE conns = <<>>
      BY <2>1, ConnsNow DEF SameLine, Wire, Queue, Inbox
    <2>2. CASE conns # <<>>
      <3>1. 1 \in DOMAIN conns
        BY <2>2, ConnsNow
      <3> QED  BY <3>1, LineOfConnection DEF SameLine
    <2> QED  BY <2>1, <2>2
  <1>2. LineKept
    BY <1>1 DEF LineKept
  <1>3. DOMAIN orders' = DOMAIN orders /\ (orders = <<>> => orders' = <<>>)
    <2>1. orders \in Seq(Order) /\ orders' \in Seq(Order)
      BY DEF TypeInv
    <2>2. \A q : q \in Seq(Order) => DOMAIN q = 1..Len(q) /\ (q = <<>> <=> Len(q) = 0)
      BY SeqDomain
    <2> QED  BY <2>1, <2>2 DEF SameOrders
  <1>4. DOMAIN conns' = DOMAIN conns
    BY ConnsNow DEF SameLine
  <1>5. IdInv'
    BY <1>3, <1>4 DEF IdInv, SameLine, SameOrders
  <1> QED  BY <1>2, <1>5

LEMMA OrdersUnchanged == orders' = orders => SameOrders
  BY DEF SameOrders

LEMMA ConnectShape ==
    Single /\ Inv /\ Inv' /\ IdInv /\ connect => IdInv' /\ LineKept
  <1> SUFFICES ASSUME MaxConnects <= 1, TypeInv, TypeInv', IdInv, connect PROVE IdInv' /\ LineKept
    BY DEF Single, Inv
  <1>1. Len(conns) < MaxConnects /\ MaxConnects \in Nat
    BY MipBounds DEF connect
  <1>2. conns = <<>> /\ Len(conns) = 0
    BY <1>1, ConnsNow
  <1>3. orders = <<>> /\ ~ is_connected
    BY <1>2 DEF TypeInv, IdInv
  <1>4. /\ conns' = Append(conns, NewConnection)
        /\ UNCHANGED <<attrib, robot, orders, applied, cached, overtaken>>
    BY <1>3 DEF connect, histVars
  <1>5. Len(conns') = 1 /\ DOMAIN conns' = {1} /\ conns' # <<>> /\ conns'[1] = NewConnection
    <2>1. conns' = <<NewConnection>>
      BY <1>2, <1>4
    <2> QED  BY <2>1
  <1>6. /\ conns'[1].queue = <<>> /\ conns'[1].wire = <<>> /\ conns'[1].inbox = <<>>
        /\ conns'[1].next_cmd_id = 0
    BY <1>5 DEF NewConnection
  <1>7. UNCHANGED <<Wire, Queue, Inbox>>
    BY <1>2, <1>5, <1>6 DEF Wire, Queue, Inbox
  <1>8. LineKept
    BY <1>4, <1>7, OrdersUnchanged DEF LineKept
  <1>9. Len(orders') = 0 /\ DOMAIN orders' = {}
    BY <1>3, <1>4
  <1>10. IdInv'
    BY <1>3, <1>4, <1>5, <1>6, <1>9 DEF IdInv
  <1> QED  BY <1>8, <1>10

LEMMA ControlShape ==
    Inv /\ Inv' /\ IdInv /\ (Pump \/ Returning) => IdInv' /\ LineKept
  <1> SUFFICES ASSUME Inv, Inv', IdInv, Pump \/ Returning PROVE IdInv' /\ LineKept
    OBVIOUS
  <1>0. TypeInv /\ StackInv /\ TypeInv'
    BY DEF Inv
  <1>1. CASE ControlStep
    <2>1. SameLine
      BY <1>1 DEF SameLine, ControlStep
    <2> QED  BY <1>0, <1>1, <2>1, SameLineKept, OrdersUnchanged DEF ControlStep
  <1>2. CASE ConnectReturns
    <2>1. /\ stack # <<>> /\ Top.at = "connect"
          /\ UNCHANGED <<attrib, robot, orders, applied, cached, overtaken>>
          /\ \E v \in {"true", "false"} : conns' = [conns EXCEPT ![Top.of].returned = v]
      BY <1>2 DEF ConnectReturns, Running, histVars
    <2>2. SameLine
      BY <1>0, <2>1, TopFacts, StateLine
    <2> QED  BY <1>0, <2>1, <2>2, SameLineKept, OrdersUnchanged
  <1>3. CASE OrderReturns
    <2>1. /\ stack # <<>> /\ Top.at = "order"
          /\ UNCHANGED <<conns, attrib, robot, applied, cached, overtaken>>
      BY <1>3 DEF OrderReturns, Running
    <2>2. PICK v \in {"true", "false"} : orders' = [orders EXCEPT ![Top.of].returned = v]
      BY <1>3 DEF OrderReturns
    <2>3. Top.of \in DOMAIN orders
      BY <1>0, <2>1, TopFacts
    <2>4. orders[Top.of] \in Order /\ orders \in Seq(Order)
      BY <1>0, <2>3, SeqDomain DEF TypeInv
    <2> DEFINE x == [orders[Top.of] EXCEPT !.returned = v]
    <2>5. /\ x \in Order /\ x.kind = orders[Top.of].kind /\ x.leds = orders[Top.of].leds
          /\ x.idx = orders[Top.of].idx /\ x.trusted = orders[Top.of].trusted
          /\ x.accepted = orders[Top.of].accepted
      BY <2>2, <2>4 DEF Order
    <2> HIDE DEF x
    <2>6. orders' = [orders EXCEPT ![Top.of] = x]
      BY <2>2 DEF x
    <2>7. /\ Len(orders') = Len(orders) /\ orders'[Top.of] = x
          /\ \A n \in DOMAIN orders : n # Top.of => orders'[n] = orders[n]
      BY <2>3, <2>4, <2>5, <2>6, Replace
    <2>8. SameOrders
      BY <2>5, <2>7 DEF SameOrders
    <2>9. SameLine
      BY <2>1 DEF SameLine
    <2> QED  BY <1>0, <2>1, <2>8, <2>9, SameLineKept
  <1> QED  BY <1>1, <1>2, <1>3
             DEF Returning, Pump, ConnectTries, PumpReturns, HookReturns, ControlStep, histVars

LEMMA ConnectCbShape ==
    ASSUME Inv, Inv', IdInv, NEW c \in DOMAIN conns, connect_cb(c)
    PROVE  IdInv' /\ LineKept
  <1>1. /\ UNCHANGED <<robot, orders, applied, cached, overtaken>>
        /\ \E v \in {"up", "failed"} : conns' = [conns EXCEPT ![c].state = v]
        /\ attrib' = c \/ attrib' = attrib
    BY DEF connect_cb, histVars
  <1>2. SameLine
    BY <1>1, StateLine DEF Inv
  <1>3. attrib' = 0 => attrib = 0
    BY <1>1, TheConnection DEF Inv
  <1> QED  BY <1>1, <1>2, <1>3, SameLineKept, OrdersUnchanged DEF Inv

(* An order gets the id that send_order expects. *)
LEMMA OrderGets ==
    ASSUME Inv, Inv', IdInv, NEW o \in Order, send_order(o),
           cached' \in Leds, overtaken' \in BOOLEAN,
           o.accepted <=> conns[attrib].next_cmd_id + 1 = ExpectedId
    PROVE  /\ IdInv' /\ o.accepted /\ orders' = Append(orders, o)
           /\ Queue' = Append(Queue, Len(orders) + 1)
           /\ UNCHANGED <<Wire, Inbox, robot, applied>>
  <1>1. /\ TypeInv /\ StackInv /\ TypeInv'
    BY DEF Inv
  <1>2. /\ attrib \in DOMAIN conns /\ Len(orders') = Len(orders) + 1
        /\ orders'[Len(orders) + 1] = o /\ \A n \in DOMAIN orders : orders'[n] = orders[n]
        /\ Len(conns') = Len(conns) /\ DOMAIN conns' = DOMAIN conns
        /\ conns'[attrib].queue = Append(conns[attrib].queue, Len(orders) + 1)
        /\ conns'[attrib].wire = conns[attrib].wire
        /\ conns'[attrib].inbox = conns[attrib].inbox
        /\ conns'[attrib].next_cmd_id = conns[attrib].next_cmd_id + 1
    BY <1>1, SendStep
  <1>3. attrib # 0 /\ UNCHANGED <<attrib, robot, applied>> /\ orders' = Append(orders, o)
    BY DEF send_order
  <1>4. attrib = 1 /\ DOMAIN conns = {1} /\ Len(conns) = 1
    BY <1>1, <1>2, TheConnection
  <1>5. Queue' = Append(Queue, Len(orders) + 1) /\ UNCHANGED <<Wire, Inbox>>
    BY <1>1, <1>2, LineOfConnection
  <1>6. conns[attrib].next_cmd_id = Len(orders) /\ nattrib = Len(orders)
    BY <1>2 DEF IdInv, TypeInv, Inv
  <1>7. o.accepted
    BY <1>6 DEF ExpectedId
  <1>8. \A n \in DOMAIN orders' : n = Len(orders) + 1 \/ n \in DOMAIN orders
    <2>1. /\ DOMAIN orders = 1..Len(orders) /\ Len(orders) \in Nat
          /\ DOMAIN orders' = 1 .. Len(orders) + 1
      BY <1>1, <1>3, SeqDomain, Appended DEF TypeInv
    <2> QED  BY <2>1
  <1>9. \A n \in DOMAIN orders' : orders'[n].accepted
    BY <1>2, <1>7, <1>8 DEF IdInv
  <1>10. IdInv'
    BY <1>2, <1>3, <1>4, <1>6, <1>9 DEF IdInv
  <1> QED  BY <1>3, <1>5, <1>7, <1>10

LEMMA SendLedsShape ==
    ASSUME Inv, Inv', IdInv, NEW l \in [LedIdx -> Nat], NEW idx \in 0..4, SendLeds(l, idx),
           idx # 0 => \A j \in LedIdx \ {idx} : l[j] = cached[j]
    PROVE  IdInv' /\ \E o \in Order : OrderGiven(o)
  <1> DEFINE o == NewOrder("set", OrderedLeds(l), idx)
  <1>1. OrderedLeds(l) \in Leds /\ o \in Order
    BY ClampLeds, OrderTyped DEF Inv
  <1>2. /\ send_order(o) /\ cached' = OrderedLeds(l) /\ overtaken' = FALSE
    BY DEF SendLeds, OrderedLeds
  <1>3. /\ o.kind = "set" /\ o.leds = OrderedLeds(l) /\ o.idx = idx
        /\ o.trusted = ~ overtaken
        /\ o.accepted <=> conns[attrib].next_cmd_id + 1 = ExpectedId
    BY DEF NewOrder
  <1> HIDE DEF o
  <1>4. /\ IdInv' /\ o.accepted /\ orders' = Append(orders, o)
        /\ Queue' = Append(Queue, Len(orders) + 1)
        /\ UNCHANGED <<Wire, Inbox, robot, applied>>
    BY <1>1, <1>2, <1>3, OrderGets
  <1>5. idx # 0 => \A j \in LedIdx \ {idx} : OrderedLeds(l)[j] = cached[j]
    <2> SUFFICES ASSUME idx # 0, NEW j \in LedIdx \ {idx} PROVE OrderedLeds(l)[j] = cached[j]
      OBVIOUS
    <2>1. l[j] = cached[j] /\ cached[j] \in 0..3
      BY DEF Inv, TypeInv, Leds
    <2>2. clamp(l[j], 0, 3) = cached[j]
      BY <2>1 DEF clamp
    <2> QED  BY <2>2 DEF OrderedLeds
  <1>6. OrderGiven(o)
    BY <1>2, <1>3, <1>4, <1>5 DEF OrderGiven
  <1> QED  BY <1>1, <1>4, <1>6

LEMMA OrderShape ==
    Inv /\ Inv' /\ IdInv /\ (set_head_LED \/ set_head_LED_index \/ request_head_LED)
       => IdInv' /\ \E o \in Order : OrderGiven(o)
  <1> SUFFICES ASSUME Inv, Inv', IdInv, set_head_LED \/ set_head_LED_index \/ request_head_LED
               PROVE  IdInv' /\ \E o \in Order : OrderGiven(o)
    OBVIOUS
  <1>1. CASE set_head_LED
    <2>1. PICK l \in LedSets : SendLeds(l, 0)
      BY <1>1 DEF set_head_LED
    <2>2. l \in [LedIdx -> Nat] /\ 0 \in 0..4
      BY MipInputs
    <2> QED  BY <2>1, <2>2, SendLedsShape
  <1>2. CASE set_head_LED_index
    <2>1. PICK idx \in Indices, value \in LedValues : SendLeds(WithIndex(idx, value), idx)
      BY <1>2 DEF set_head_LED_index
    <2>2. cached \in [LedIdx -> 0..3] /\ idx \in LedIdx /\ value \in Nat
      BY MipInputs DEF Inv, TypeInv, Leds
    <2>3. /\ WithIndex(idx, value) \in [LedIdx -> Nat]
          /\ \A j \in LedIdx \ {idx} : WithIndex(idx, value)[j] = cached[j]
      BY <2>2 DEF WithIndex
    <2>4. idx \in 0..4
      BY <2>2 DEF LedIdx
    <2> QED  BY <2>1, <2>3, <2>4, SendLedsShape
  <1>3. CASE request_head_LED
    <2> DEFINE o == NewOrder("get", DefaultLeds, 0)
    <2>1. o \in Order
      <3>1. DefaultLeds \in Leds /\ 0 \in 0..4
        BY DEF DefaultLeds, Leds, LedIdx
      <3> QED  BY <3>1, OrderTyped DEF Inv
    <2>2. send_order(o) /\ UNCHANGED <<cached, overtaken>>
      BY <1>3 DEF request_head_LED
    <2>3. /\ o.kind = "get" /\ o.idx = 0
          /\ o.accepted <=> conns[attrib].next_cmd_id + 1 = ExpectedId
      BY DEF NewOrder
    <2> HIDE DEF o
    <2>4. cached' \in Leds /\ overtaken' \in BOOLEAN
      BY DEF Inv, TypeInv
    <2>5. /\ IdInv' /\ o.accepted /\ orders' = Append(orders, o)
          /\ Queue' = Append(Queue, Len(orders) + 1)
          /\ UNCHANGED <<Wire, Inbox, robot, applied>>
      BY <2>1, <2>2, <2>3, <2>4, OrderGets
    <2>6. OrderGiven(o)
      BY <2>2, <2>3, <2>5 DEF OrderGiven
    <2> QED  BY <2>1, <2>5, <2>6
  <1> QED  BY <1>1, <1>2, <1>3

(* Ids and the acceptance of orders stay when nothing is ordered. *)
LEMMA IdsKept ==
    ASSUME Inv, Inv', IdInv, SameOrders, Len(conns') = Len(conns), attrib' = attrib,
           \A d \in DOMAIN conns : conns'[d].next_cmd_id = conns[d].next_cmd_id
    PROVE  IdInv'
  <1>1. DOMAIN orders' = DOMAIN orders /\ (orders = <<>> => orders' = <<>>)
    <2>1. orders \in Seq(Order) /\ orders' \in Seq(Order)
      BY DEF Inv, TypeInv
    <2>2. \A q : q \in Seq(Order) => DOMAIN q = 1..Len(q) /\ (q = <<>> <=> Len(q) = 0)
      BY SeqDomain
    <2> QED  BY <2>1, <2>2 DEF SameOrders
  <1>2. DOMAIN conns' = DOMAIN conns
    BY ConnsNow DEF Inv
  <1> QED  BY <1>1, <1>2 DEF IdInv, SameOrders

LEMMA WriteShape ==
    ASSUME Inv, Inv', IdInv, NEW c \in DOMAIN conns, WriteCommand(c)
    PROVE  IdInv' /\ (OrderWritten \/ LineKept)
  <1>1. TypeInv /\ StackInv /\ TypeInv'
    BY DEF Inv
  <1>2. /\ Len(conns') = Len(conns) /\ Len(orders') = Len(orders)
        /\ conns'[c].inbox = conns[c].inbox /\ conns'[c].next_cmd_id = conns[c].next_cmd_id
        /\ \A d \in DOMAIN conns : d # c => conns'[d] = conns[d]
        /\ \/ /\ conns'[c].queue = conns[c].queue /\ conns'[c].wire = conns[c].wire
              /\ orders' = orders
           \/ /\ conns[c].queue # <<>> /\ conns'[c].queue = Tail(conns[c].queue)
              /\ conns'[c].wire = Append(conns[c].wire, conns[c].queue[1])
              /\ conns[c].queue[1] \in DOMAIN orders
              /\ orders' = [orders EXCEPT ![conns[c].queue[1]].written = TRUE]
    BY <1>1, WriteCommandEffect
  <1>3. /\ Wire = conns[c].wire /\ Queue = conns[c].queue /\ Inbox = conns[c].inbox
        /\ Wire' = conns'[c].wire /\ Queue' = conns'[c].queue /\ Inbox' = conns'[c].inbox
    BY <1>1, <1>2, LineOfConnection
  <1>4. UNCHANGED <<attrib, robot, applied, cached, overtaken>>
    BY DEF WriteCommand
  <1>5. SameOrders
    <2>1. ASSUME conns[c].queue[1] \in DOMAIN orders,
                 orders' = [orders EXCEPT ![conns[c].queue[1]].written = TRUE]
          PROVE  SameOrders
      <3> DEFINE n == conns[c].queue[1]
                 x == [orders[n] EXCEPT !.written = TRUE]
      <3>1. orders \in Seq(Order) /\ n \in DOMAIN orders /\ orders[n] \in Order
        BY <1>1, <2>1, SeqDomain DEF TypeInv
      <3>2. /\ x \in Order /\ x.kind = orders[n].kind /\ x.leds = orders[n].leds
            /\ x.idx = orders[n].idx /\ x.trusted = orders[n].trusted
            /\ x.accepted = orders[n].accepted
        BY <3>1 DEF Order
      <3>3. orders' = [orders EXCEPT ![n] = x]
        BY <2>1
      <3> HIDE DEF n, x
      <3>4. orders'[n] = x /\ \A m \in DOMAIN orders : m # n => orders'[m] = orders[m]
        BY <3>1, <3>2, <3>3, Replace
      <3> QED  BY <1>2, <3>2, <3>4 DEF SameOrders
    <2> QED  BY <1>2, <2>1, OrdersUnchanged
  <1>6. OrderWritten \/ LineKept
    BY <1>2, <1>3, <1>4, <1>5 DEF OrderWritten, LineKept
  <1>7. \A d \in DOMAIN conns : conns'[d].next_cmd_id = conns[d].next_cmd_id
    BY <1>2
  <1>8. IdInv'
    BY <1>2, <1>4, <1>5, <1>7, IdsKept
  <1> QED  BY <1>6, <1>8

LEMMA HandlerShape ==
    ASSUME Inv, Inv', IdInv, NEW c \in DOMAIN conns, events_handler(c)
    PROVE  IdInv' /\ NotificationHandled
  <1>1. TypeInv /\ StackInv /\ TypeInv'
    BY DEF Inv
  <1>2. /\ Len(conns') = Len(conns)
        /\ \A d \in DOMAIN conns : d # c => conns'[d] = conns[d]
        /\ conns'[c].queue = conns[c].queue /\ conns'[c].wire = conns[c].wire
        /\ conns'[c].next_cmd_id = conns[c].next_cmd_id
        /\ conns[c].inbox # <<>> /\ conns'[c].inbox = Tail(conns[c].inbox)
        /\ store_results(conns[c].inbox[1])
    BY <1>1, EventsHandlerEffect
  <1>3. /\ Wire = conns[c].wire /\ Queue = conns[c].queue /\ Inbox = conns[c].inbox
        /\ Wire' = conns'[c].wire /\ Queue' = conns'[c].queue /\ Inbox' = conns'[c].inbox
    BY <1>1, <1>2, LineOfConnection
  <1>4. UNCHANGED <<attrib, robot, orders, applied>>
    BY DEF events_handler
  <1>5. NotificationHandled
    BY <1>2, <1>3, <1>4 DEF NotificationHandled
  <1>6. \A d \in DOMAIN conns : conns'[d].next_cmd_id = conns[d].next_cmd_id
    BY <1>2
  <1>7. IdInv'
    BY <1>2, <1>4, <1>6, IdsKept, OrdersUnchanged
  <1> QED  BY <1>5, <1>7

LEMMA RobotShape ==
    ASSUME Inv, Inv', IdInv, NEW c \in DOMAIN conns, RobotObeys(c) \/ RobotSignals(c)
    PROVE  IdInv' /\ (OrderApplied \/ GestureMade)
  <1>1. TypeInv /\ StackInv /\ TypeInv'
    BY DEF Inv
  <1>2. /\ Len(conns') = Len(conns)
        /\ \A d \in DOMAIN conns : d # c => conns'[d] = conns[d]
        /\ conns'[c].next_cmd_id = conns[c].next_cmd_id
    BY <1>1, RobotObeysEffect, RobotSignalsEffect
  <1>3. /\ Wire = conns[c].wire /\ Queue = conns[c].queue /\ Inbox = conns[c].inbox
        /\ Wire' = conns'[c].wire /\ Queue' = conns'[c].queue /\ Inbox' = conns'[c].inbox
    BY <1>1, <1>2, LineOfConnection
  <1>4. UNCHANGED <<attrib, cached, overtaken, orders>>
    BY DEF RobotObeys, RobotSignals, histVars
  <1>5. ASSUME RobotObeys(c) PROVE OrderApplied
    <2> DEFINE n == conns[c].wire[1]
    <2>1. /\ conns[c].wire # <<>> /\ n \in DOMAIN orders
          /\ conns'[c].queue = conns[c].queue /\ conns'[c].wire = Tail(conns[c].wire)
          /\ \/ /\ orders[n].kind = "set" /\ robot' = orders[n].leds
                /\ conns'[c].inbox = conns[c].inbox
             \/ /\ orders[n].kind # "set" /\ robot' = robot
                /\ conns'[c].inbox = Append(conns[c].inbox, Answer(n, robot))
      BY <1>1, <1>5, RobotObeysEffect
    <2>2. applied' = applied \cup {n}
      BY <1>5 DEF RobotObeys
    <2>3. n = Wire[1]
      BY <1>3
    <2> HIDE DEF n
    <2> QED  BY <1>3, <1>4, <2>1, <2>2, <2>3 DEF OrderApplied
  <1>6. ASSUME RobotSignals(c) PROVE GestureMade
    <2>1. /\ conns'[c].queue = conns[c].queue /\ conns'[c].wire = conns[c].wire
          /\ conns'[c].inbox = Append(conns[c].inbox, Gesture)
      BY <1>1, <1>6, RobotSignalsEffect
    <2>2. UNCHANGED <<robot, applied>>
      BY <1>6 DEF RobotSignals, histVars
    <2> QED  BY <1>3, <1>4, <2>1, <2>2 DEF GestureMade
  <1>7. \A d \in DOMAIN conns : conns'[d].next_cmd_id = conns[d].next_cmd_id
    BY <1>2
  <1>8. IdInv'
    BY <1>2, <1>4, <1>7, IdsKept, OrdersUnchanged
  <1> QED  BY <1>5, <1>6, <1>8

LEMMA StepShape == Single /\ Inv /\ IdInv /\ [Next]_vars => IdInv' /\ LineStep
  <1> SUFFICES ASSUME Single, Inv, IdInv, [Next]_vars PROVE IdInv' /\ LineStep
    OBVIOUS
  <1>0. Inv'
    BY NextInv
  <1>1. CASE connect
    BY <1>0, <1>1, ConnectShape DEF LineStep
  <1>2. CASE set_head_LED \/ set_head_LED_index \/ request_head_LED
    BY <1>0, <1>2, OrderShape DEF LineStep
  <1>3. CASE Pump \/ Returning
    BY <1>0, <1>3, ControlShape DEF LineStep
  <1>4. CASE Dispatch
    <2>1. PICK c \in DOMAIN conns : connect_cb(c) \/ WriteCommand(c) \/ events_handler(c)
      BY <1>4 DEF Dispatch
    <2> QED  BY <1>0, <2>1, ConnectCbShape, WriteShape, HandlerShape DEF LineStep
  <1>5. CASE RobotActs
    <2>1. PICK c \in DOMAIN conns : RobotObeys(c) \/ RobotSignals(c)
      BY <1>5 DEF RobotActs
    <2> QED  BY <1>0, <2>1, RobotShape DEF LineStep
  <1>6. CASE UNCHANGED vars
    <2>1. UNCHANGED <<conns, attrib, robot, orders, applied, cached, overtaken>>
      BY <1>6 DEF vars, histVars
    <2>2. SameLine /\ SameOrders
      BY <2>1, OrdersUnchanged DEF SameLine
    <2>3. TypeInv /\ TypeInv'
      BY <1>0 DEF Inv
    <2> QED  BY <2>1, <2>2, <2>3, SameLineKept DEF LineStep
  <1> QED  BY <1>1, <1>2, <1>3, <1>4, <1>5, <1>6 DEF Next, Calling

LEMMA InitIds == Init => IdInv
  <1> SUFFICES ASSUME Init PROVE IdInv
    OBVIOUS
  <1>1. conns = <<>> /\ orders = <<>> /\ Len(conns) = 0 /\ DOMAIN conns = {} /\ DOMAIN orders = {}
    BY DEF Init
  <1> QED  BY <1>1 DEF IdInv

(* With one connection every order gets the id send_order expects, so that no   *)
(* order is reported as failed for its id.  The run mip_ids shows that two     *)
(* connections break it.                                                    *)
THEOREM IdsAreCounts == Single => (Spec => []IdIsCount)
  <1> SUFFICES ASSUME Single PROVE Spec => []IdIsCount
    OBVIOUS
  <1>1. Init => Inv /\ IdInv
    BY InitInv, InitIds DEF Inv
  <1>2. Inv /\ IdInv /\ [Next]_vars => (Inv /\ IdInv)'
    BY NextInv, StepShape
  <1>3. IdInv => IdIsCount
    BY DEF IdInv, IdIsCount
  <1> QED  BY <1>1, <1>2, <1>3, PTL DEF Spec

----------------------------------------------------------------------------
(* The line of orders: what is queued and on the wire are the last ones given.  *)

LEMMA LineGives ==
    ASSUME NEW w \in Seq(Nat), NEW q \in Seq(Nat), NEW n \in Nat, LineOK(w, q, n)
    PROVE  /\ LineOK(w, Append(q, n + 1), n + 1)
           /\ n + 1 - Len(w) - Len(Append(q, n + 1)) = n - Len(w) - Len(q)
  <1> DEFINE q2 == Append(q, n + 1)
  <1>1. /\ Len(w) \in Nat /\ Len(q) \in Nat /\ DOMAIN q = 1..Len(q)
        /\ Len(q2) = Len(q) + 1 /\ DOMAIN q2 = 1 .. Len(q) + 1
        /\ q2[Len(q) + 1] = n + 1 /\ \A i \in DOMAIN q : q2[i] = q[i]
    BY SeqDomain, Appended
  <1> HIDE DEF q2
  <1>2. n + 1 - Len(w) - Len(q2) = n - Len(w) - Len(q) /\ n + 1 - Len(q2) = n - Len(q)
    BY <1>1
  <1>3. CountsFrom(q2, n - Len(q))
    <2> SUFFICES ASSUME NEW i \in DOMAIN q2 PROVE q2[i] = n - Len(q) + i
      BY DEF CountsFrom
    <2>1. CASE i = Len(q) + 1
      BY <1>1, <2>1
    <2>2. CASE i # Len(q) + 1
      <3>1. i \in DOMAIN q
        BY <1>1, <2>2
      <3> QED  BY <1>1, <3>1 DEF LineOK, CountsFrom
    <2> QED  BY <2>1, <2>2
  <1>4. LineOK(w, q2, n + 1)
    <2>1. n - Len(w) - Len(q) \in Nat /\ CountsFrom(w, n - Len(w) - Len(q))
      BY DEF LineOK
    <2>2. n + 1 - Len(w) - Len(q2) \in Nat /\ CountsFrom(w, n + 1 - Len(w) - Len(q2))
      BY <1>2, <2>1
    <2>3. CountsFrom(q2, n + 1 - Len(q2))
      BY <1>2, <1>3
    <2> QED  BY <2>2, <2>3 DEF LineOK
  <1> QED  BY <1>2, <1>4 DEF q2

LEMMA LineWrites ==
    ASSUME NEW w \in Seq(Nat), NEW q \in Seq(Nat), NEW n \in Nat, LineOK(w, q, n), q # <<>>
    PROVE  /\ LineOK(Append(w, q[1]), Tail(q), n)
           /\ n - Len(Append(w, q[1])) - Len(Tail(q)) = n - Len(w) - Len(q)
  <1> DEFINE w2 == Append(w, q[1])
             q2 == Tail(q)
  <1>1. /\ Len(w) \in Nat /\ DOMAIN w = 1..Len(w) /\ Len(q) \in Nat \ {0} /\ DOMAIN q = 1..Len(q)
        /\ q[1] \in Nat /\ 1 \in DOMAIN q
        /\ Len(q2) = Len(q) - 1
        /\ \A i \in DOMAIN q2 : i + 1 \in DOMAIN q /\ q2[i] = q[i + 1]
    BY SeqDomain
  <1>2. /\ Len(w2) = Len(w) + 1 /\ DOMAIN w2 = 1 .. Len(w) + 1
        /\ w2[Len(w) + 1] = q[1] /\ \A i \in DOMAIN w : w2[i] = w[i]
    BY <1>1, Appended
  <1>3. DOMAIN q2 \subseteq Nat
    <2>1. q2 \in Seq(Nat)
      BY SeqDomain
    <2> QED  BY <2>1, SeqDomain
  <1> HIDE DEF w2, q2
  <1>4. n - Len(w2) - Len(q2) = n - Len(w) - Len(q) /\ n - Len(q2) = n - Len(q) + 1
    BY <1>1, <1>2
  <1>5. q[1] = n - Len(q) + 1 /\ \A i \in DOMAIN w : w[i] = n - Len(w) - Len(q) + i
    BY <1>1 DEF LineOK, CountsFrom
  <1>6. CountsFrom(w2, n - Len(w2) - Len(q2))
    <2> SUFFICES ASSUME NEW i \in DOMAIN w2 PROVE w2[i] = n - Len(w2) - Len(q2) + i
      BY DEF CountsFrom
    <2>1. CASE i = Len(w) + 1
      BY <1>1, <1>2, <1>4, <1>5, <2>1
    <2>2. CASE i # Len(w) + 1
      <3>1. i \in DOMAIN w
        BY <1>1, <1>2, <2>2
      <3> QED  BY <1>2, <1>4, <1>5, <3>1
    <2> QED  BY <2>1, <2>2
  <1>7. CountsFrom(q2, n - Len(q2))
    <2> SUFFICES ASSUME NEW i \in DOMAIN q2 PROVE q2[i] = n - Len(q2) + i
      BY DEF CountsFrom
    <2>1. q2[i] = n - Len(q) + (i + 1)
      BY <1>1 DEF LineOK, CountsFrom
    <2> QED  BY <1>1, <1>3, <1>4, <2>1
  <1>8. LineOK(w2, q2, n)
    BY <1>4, <1>6, <1>7 DEF LineOK
  <1> QED  BY <1>4, <1>8 DEF w2, q2

LEMMA LineApplies ==
    ASSUME NEW w \in Seq(Nat), NEW q \in Seq(Nat), NEW n \in Nat, LineOK(w, q, n), w # <<>>
    PROVE  /\ LineOK(Tail(w), q, n)
           /\ n - Len(Tail(w)) - Len(q) = n - Len(w) - Len(q) + 1
           /\ w[1] = n - Len(w) - Len(q) + 1 /\ w[1] <= n
  <1> DEFINE w2 == Tail(w)
  <1>1. /\ Len(w) \in Nat \ {0} /\ Len(q) \in Nat
        /\ 1 \in DOMAIN w /\ Len(w2) = Len(w) - 1 /\ w2 \in Seq(Nat)
        /\ \A i \in DOMAIN w2 : i + 1 \in DOMAIN w /\ w2[i] = w[i + 1]
    BY SeqDomain
  <1>2. DOMAIN w2 \subseteq Nat
    BY <1>1, SeqDomain
  <1> HIDE DEF w2
  <1>3. n - Len(w2) - Len(q) = n - Len(w) - Len(q) + 1
    BY <1>1
  <1>4. w[1] = n - Len(w) - Len(q) + 1
    BY <1>1 DEF LineOK, CountsFrom
  <1>5. CountsFrom(w2, n - Len(w2) - Len(q))
    <2> SUFFICES ASSUME NEW i \in DOMAIN w2 PROVE w2[i] = n - Len(w2) - Len(q) + i
      BY DEF CountsFrom
    <2>1. w2[i] = n - Len(w) - Len(q) + (i + 1)
      BY <1>1 DEF LineOK, CountsFrom
    <2> QED  BY <1>1, <1>2, <1>3, <2>1
  <1>6. n - Len(w2) - Len(q) \in Nat
    BY <1>1, <1>3 DEF LineOK
  <1>7. LineOK(w2, q, n)
    BY <1>5, <1>6 DEF LineOK
  <1> QED  BY <1>1, <1>3, <1>4, <1>7 DEF w2

----------------------------------------------------------------------------
(* What the robot shows after an order, as orders are given and applied.       *)

(* The same orders as far as their effect goes, up to b. *)
SameEffect(os, os2, b) ==
    \A k \in 1..b : os2[k].kind = os[k].kind /\ os2[k].leds = os[k].leds

LEMMA ShowsSame ==
    ASSUME NEW os, NEW os2, NEW r, NEW a \in Nat, NEW b \in Int, NEW l, SameEffect(os, os2, b)
    PROVE  /\ NoSets(os2, a, b) <=> NoSets(os, a, b)
           /\ ShowsThen(os2, r, a, b, l) <=> ShowsThen(os, r, a, b, l)
  <1>1. \A m \in a + 1 .. b : /\ m \in 1..b
                              /\ os2[m].kind = os[m].kind /\ os2[m].leds = os[m].leds
    BY DEF SameEffect
  <1>2. NoSets(os2, a, b) <=> NoSets(os, a, b)
    BY <1>1 DEF NoSets
  <1>3. \A m \in a + 1 .. b : NoSets(os2, m, b) <=> NoSets(os, m, b)
    <2> TAKE m \in a + 1 .. b
    <2>1. \A k \in m + 1 .. b : k \in a + 1 .. b
      OBVIOUS
    <2> QED  BY <1>1, <2>1 DEF NoSets
  <1> QED  BY <1>1, <1>2, <1>3 DEF ShowsThen

(* An order that sets nothing changes nothing. *)
LEMMA ShowsNext ==
    ASSUME NEW os, NEW r, NEW a \in Nat, NEW b \in Nat, a <= b, NEW l,
           os[b + 1].kind # "set", ShowsThen(os, r, a, b, l)
    PROVE  ShowsThen(os, r, a, b + 1, l)
  <1>1. \A m \in Nat : NoSets(os, m, b) => NoSets(os, m, b + 1)
    <2> SUFFICES ASSUME NEW m \in Nat, NoSets(os, m, b), NEW k \in m + 1 .. b + 1
                 PROVE  os[k].kind # "set"
      BY DEF NoSets
    <2> QED  BY DEF NoSets
  <1>2. \A m \in a + 1 .. b : m \in Nat /\ m \in a + 1 .. b + 1
    OBVIOUS
  <1> QED  BY <1>1, <1>2 DEF ShowsThen

LEMMA NoneAfter == ASSUME NEW os, NEW b \in Int PROVE NoSets(os, b, b)
  BY DEF NoSets

(* After a set the robot shows what it carries. *)
LEMMA ShowsSet ==
    ASSUME NEW os, NEW r, NEW a \in Nat, NEW b \in Nat, a < b, os[b].kind = "set"
    PROVE  ShowsThen(os, r, a, b, os[b].leds)
  <1>1. b \in a + 1 .. b
    OBVIOUS
  <1> QED  BY <1>1, NoneAfter DEF ShowsThen

(* The robot applies the next order. *)
LEMMA ShowsApplied ==
    ASSUME NEW os, NEW r, NEW r2, NEW a \in Nat, NEW b \in Nat, a < b, NEW l,
           IF os[a + 1].kind = "set" THEN r2 = os[a + 1].leds ELSE r2 = r,
           ShowsThen(os, r, a, b, l)
    PROVE  ShowsThen(os, r2, a + 1, b, l)
  <1>1. a + 1 \in a + 1 .. b /\ \A k \in (a + 1) + 1 .. b : k \in a + 1 .. b
    OBVIOUS
  <1>2. CASE NoSets(os, a, b) /\ l = r
    <2>1. os[a + 1].kind # "set" /\ NoSets(os, a + 1, b)
      BY <1>1, <1>2 DEF NoSets
    <2> QED  BY <1>2, <2>1 DEF ShowsThen
  <1>3. ASSUME NEW m \in a + 1 .. b, os[m].kind = "set", NoSets(os, m, b), l = os[m].leds
        PROVE  ShowsThen(os, r2, a + 1, b, l)
    <2>1. CASE m = a + 1
      BY <1>3, <2>1 DEF ShowsThen
    <2>2. CASE m # a + 1
      <3>1. m \in (a + 1) + 1 .. b
        BY <2>2
      <3> QED  BY <1>3, <3>1 DEF ShowsThen
    <2> QED  BY <2>1, <2>2
  <1> QED  BY <1>2, <1>3 DEF ShowsThen

----------------------------------------------------------------------------
(* The cache, the answers and the orders for one LED.                       *)

LEMMA LedSame ==
    ASSUME NEW os, NEW os2, NEW n \in Nat, Len(os) = n, Len(os2) = n, NEW r, NEW a \in Nat,
           NEW ib \in Seq(Notification), NEW ca, NEW ov, LedOK(os, r, a, ib, ca, ov),
           \A k \in 1..n : /\ os2[k].kind = os[k].kind /\ os2[k].leds = os[k].leds
                           /\ os2[k].idx = os[k].idx /\ os2[k].trusted = os[k].trusted
    PROVE  LedOK(os2, r, a, ib, ca, ov)
  <1>1. \A b \in Int : b <= n => SameEffect(os, os2, b)
    BY DEF SameEffect
  <1>2. ASSUME NEW i \in DOMAIN ib PROVE AnswerOK(os2, r, a, ib[i])
    <2>1. ib[i] \in Notification /\ AnswerOK(os, r, a, ib[i])
      BY SeqDomain DEF LedOK
    <2>2. ib[i].re \in Nat
      BY <2>1 DEF Notification
    <2>3. SameEffect(os, os2, n)
      BY <1>1
    <2>4. NoSets(os2, ib[i].re, n) <=> NoSets(os, ib[i].re, n)
      BY <2>2, <2>3, ShowsSame
    <2> QED  BY <2>1, <2>4 DEF AnswerOK
  <1>3. ~ ov => ShowsThen(os2, r, a, Len(os2), ca)
    <2>1. SameEffect(os, os2, n)
      BY <1>1
    <2>2. ShowsThen(os2, r, a, n, ca) <=> ShowsThen(os, r, a, n, ca)
      BY <2>1, ShowsSame
    <2> QED  BY <2>2 DEF LedOK
  <1>4. ASSUME NEW k \in a + 1 .. Len(os2) PROVE IndexOK(os2, r, a, k)
    <2>1. k \in 1..n /\ k - 1 \in Int /\ k - 1 <= n /\ k \in a + 1 .. Len(os)
      OBVIOUS
    <2>2. SameEffect(os, os2, k - 1)
      BY <1>1, <2>1
    <2>3. \A l : ShowsThen(os2, r, a, k - 1, l) <=> ShowsThen(os, r, a, k - 1, l)
      BY <2>1, <2>2, ShowsSame
    <2>4. IndexOK(os, r, a, k)
      BY <2>1 DEF LedOK
    <2>5. os2[k].leds = os[k].leds /\ os2[k].idx = os[k].idx /\ os2[k].trusted = os[k].trusted
      BY <2>1
    <2> QED  BY <2>3, <2>4, <2>5 DEF IndexOK
  <1> QED  BY <1>2, <1>3, <1>4 DEF LedOK

LEMMA LedGives ==
    ASSUME NEW os \in Seq(Order), NEW o \in Order, NEW r, NEW a \in Nat, a <= Len(os),
           NEW ib \in Seq(Notification), NEW ca \in Leds, NEW ov \in BOOLEAN, NEW ca2, NEW ov2,
           LedOK(os, r, a, ib, ca, ov),
           \/ /\ o.kind = "set" /\ ca2 = o.leds /\ ov2 = FALSE
              /\ o.trusted => ~ ov
              /\ o.idx # 0 => \A j \in LedIdx \ {o.idx} : o.leds[j] = ca[j]
           \/ o.kind = "get" /\ o.idx = 0 /\ ca2 = ca /\ ov2 = ov
    PROVE  LedOK(Append(os, o), r, a, ib, ca2, ov2)
  <1> DEFINE os2 == Append(os, o)
             n == Len(os)
  <1>1. /\ n \in Nat /\ DOMAIN os = 1..n /\ Len(os2) = n + 1
        /\ os2[n + 1] = o /\ \A k \in 1..n : os2[k] = os[k]
    BY SeqDomain, Appended
  <1> HIDE DEF os2
  <1>2. \A b \in Int : b <= n => SameEffect(os, os2, b)
    BY <1>1 DEF SameEffect
  <1>3. ASSUME NEW i \in DOMAIN ib PROVE AnswerOK(os2, r, a, ib[i])
    <2>1. ib[i] \in Notification /\ AnswerOK(os, r, a, ib[i])
      BY SeqDomain DEF LedOK
    <2>2. ib[i].re \in Nat
      BY <2>1 DEF Notification
    <2>3. SameEffect(os, os2, n)
      BY <1>1, <1>2
    <2>4. NoSets(os2, ib[i].re, n) <=> NoSets(os, ib[i].re, n)
      <3>1. n \in Int
        BY <1>1
      <3>2. PICK re \in Nat : re = ib[i].re
        BY <2>2
      <3> HIDE DEF n
      <3>3. NoSets(os2, re, n) <=> NoSets(os, re, n)
        BY <2>3, <3>1, ShowsSame
      <3> QED  BY <3>2, <3>3
    <2>5. NoSets(os2, ib[i].re, n + 1) => NoSets(os2, ib[i].re, n)
      BY <1>1, <2>2 DEF NoSets
    <2> QED  BY <1>1, <2>1, <2>4, <2>5 DEF AnswerOK
  <1>4. ~ ov => ShowsThen(os2, r, a, n, ca)
    <2>1. SameEffect(os, os2, n)
      BY <1>1, <1>2
    <2>2. ShowsThen(os2, r, a, n, ca) <=> ShowsThen(os, r, a, n, ca)
      BY <1>1, <2>1, ShowsSame
    <2> QED  BY <2>2 DEF LedOK
  <1>5. ~ ov2 => ShowsThen(os2, r, a, Len(os2), ca2)
    <2>1. CASE o.kind = "set" /\ ca2 = o.leds
      <3>1. os2[n + 1].kind = "set" /\ os2[n + 1].leds = ca2 /\ n + 1 \in Nat /\ a < n + 1
        BY <1>1, <2>1
      <3> HIDE DEF n
      <3> QED  BY <1>1, <3>1, ShowsSet
    <2>2. CASE o.kind = "get" /\ ca2 = ca /\ ov2 = ov
      <3>1. os2[n + 1].kind # "set"
        BY <1>1, <2>2
      <3> HIDE DEF n
      <3>2. ShowsThen(os2, r, a, n, ca) => ShowsThen(os2, r, a, n + 1, ca)
        <4>1. a <= n
          BY DEF n
        <4> QED  BY <1>1, <3>1, <4>1, ShowsNext
      <3> QED  BY <1>1, <1>4, <2>2, <3>2
    <2> QED  BY <2>1, <2>2
  <1>6. ASSUME NEW k \in a + 1 .. Len(os2) PROVE IndexOK(os2, r, a, k)
    <2>1. CASE k = n + 1
      <3>1. k - 1 = n /\ os2[k] = o
        BY <1>1, <2>1
      <3>2. ASSUME o.idx # 0, o.trusted
            PROVE  /\ ShowsThen(os2, r, a, n, ca)
                   /\ \A j \in LedIdx \ {o.idx} : o.leds[j] = ca[j]
        BY <1>4, <3>2
      <3> HIDE DEF n
      <3> QED  BY <3>1, <3>2 DEF IndexOK
    <2>2. CASE k # n + 1
      <3>1. k \in 1..n /\ k - 1 \in Int /\ k - 1 <= n /\ k \in a + 1 .. Len(os)
        BY <1>1, <2>2
      <3>2. SameEffect(os, os2, k - 1)
        BY <1>2, <3>1
      <3>3. \A l : ShowsThen(os2, r, a, k - 1, l) <=> ShowsThen(os, r, a, k - 1, l)
        BY <3>1, <3>2, ShowsSame
      <3>4. IndexOK(os, r, a, k)
        BY <3>1 DEF LedOK
      <3>5. os2[k] = os[k]
        BY <1>1, <3>1
      <3> QED  BY <3>3, <3>4, <3>5 DEF IndexOK
    <2> QED  BY <2>1, <2>2
  <1>7. LedOK(os2, r, a, ib, ca2, ov2)
    BY <1>3, <1>5, <1>6 DEF LedOK
  <1> QED  BY <1>7 DEF os2

(* The robot applies order a + 1: answers that no set has overtaken stay right,  *)
(* for the orders after the request set nothing.                            *)
LEMMA LedApplies ==
    ASSUME NEW os \in Seq(Order), NEW r \in Leds, NEW r2 \in Leds, NEW a \in Nat, a < Len(os),
           NEW ib \in Seq(Notification), NEW ib2, NEW ca, NEW ov,
           LedOK(os, r, a, ib, ca, ov),
           \/ os[a + 1].kind = "set" /\ r2 = os[a + 1].leds /\ ib2 = ib
           \/ os[a + 1].kind # "set" /\ r2 = r /\ ib2 = Append(ib, Answer(a + 1, r))
    PROVE  LedOK(os, r2, a + 1, ib2, ca, ov)
  <1>1. Len(os) \in Nat /\ a + 1 \in Nat /\ a + 1 <= Len(os)
    BY SeqDomain
  <1>2. IF os[a + 1].kind = "set" THEN r2 = os[a + 1].leds ELSE r2 = r
    OBVIOUS
  <1>3. ASSUME NEW p \in Notification, AnswerOK(os, r, a, p) PROVE AnswerOK(os, r2, a + 1, p)
    <2> SUFFICES ASSUME p.about = "leds"
                 PROVE  p.re \in 1 .. a + 1 /\ (NoSets(os, p.re, Len(os)) => p.leds = r2)
      BY DEF AnswerOK
    <2>1. p.re \in 1..a /\ (NoSets(os, p.re, Len(os)) => p.leds = r)
      BY <1>3 DEF AnswerOK
    <2>2. a + 1 \in p.re + 1 .. Len(os)
      BY <1>1, <2>1
    <2>3. NoSets(os, p.re, Len(os)) => os[a + 1].kind # "set"
      BY <2>2 DEF NoSets
    <2>4. NoSets(os, p.re, Len(os)) => p.leds = r2
      BY <1>2, <2>1, <2>3
    <2> QED  BY <2>1, <2>4
  <1>4. ASSUME NEW i \in DOMAIN ib2 PROVE AnswerOK(os, r2, a + 1, ib2[i])
    <2>1. \A j \in DOMAIN ib : ib[j] \in Notification /\ AnswerOK(os, r, a, ib[j])
      BY SeqDomain DEF LedOK
    <2>2. CASE ib2 = ib
      BY <1>3, <2>1, <2>2
    <2>3. CASE os[a + 1].kind # "set" /\ r2 = r /\ ib2 = Append(ib, Answer(a + 1, r))
      <3> DEFINE p == Answer(a + 1, r)
      <3>1. p \in Notification
        BY <1>1, NotificationsTyped
      <3>2. p.re = a + 1 /\ p.leds = r
        BY DEF Answer
      <3> HIDE DEF p
      <3>3. /\ DOMAIN ib2 = 1 .. Len(ib) + 1 /\ ib2[Len(ib) + 1] = p
            /\ \A j \in DOMAIN ib : ib2[j] = ib[j]
        BY <2>3, <3>1, Appended DEF p
      <3>4. DOMAIN ib = 1..Len(ib) /\ Len(ib) \in Nat
        BY SeqDomain
      <3>5. i = Len(ib) + 1 \/ i \in DOMAIN ib
        BY <3>3, <3>4
      <3>6. AnswerOK(os, r2, a + 1, p)
        <4>1. p.re \in 1 .. a + 1
          BY <3>2
        <4> QED  BY <2>3, <3>2, <4>1 DEF AnswerOK
      <3> QED  BY <1>3, <2>1, <3>3, <3>5, <3>6
    <2> QED  BY <2>2, <2>3
  <1>5. ~ ov => ShowsThen(os, r2, a + 1, Len(os), ca)
    BY <1>1, <1>2, ShowsApplied DEF LedOK
  <1>6. ASSUME NEW k \in (a + 1) + 1 .. Len(os) PROVE IndexOK(os, r2, a + 1, k)
    <2>1. k \in a + 1 .. Len(os) /\ k - 1 \in Nat /\ a < k - 1
      BY <1>1
    <2>2. IndexOK(os, r, a, k)
      BY <2>1 DEF LedOK
    <2>3. \A l : ShowsThen(os, r, a, k - 1, l) => ShowsThen(os, r2, a + 1, k - 1, l)
      BY <1>2, <2>1, ShowsApplied
    <2> QED  BY <2>2, <2>3 DEF IndexOK
  <1> QED  BY <1>4, <1>5, <1>6 DEF LedOK

(* A gesture is no answer. *)
LEMMA LedGesture ==
    ASSUME NEW os, NEW r, NEW a, NEW ib \in Seq(Notification), NEW ca, NEW ov,
           LedOK(os, r, a, ib, ca, ov)
    PROVE  LedOK(os, r, a, Append(ib, Gesture), ca, ov)
  <1> DEFINE ib2 == Append(ib, Gesture)
  <1>1. Gesture \in Notification /\ AnswerOK(os, r, a, Gesture)
    BY NotificationsTyped DEF AnswerOK, Gesture
  <1>2. /\ DOMAIN ib2 = 1 .. Len(ib) + 1 /\ ib2[Len(ib) + 1] = Gesture
        /\ \A j \in DOMAIN ib : ib2[j] = ib[j]
    BY <1>1, Appended
  <1>3. DOMAIN ib = 1..Len(ib) /\ Len(ib) \in Nat
    BY SeqDomain
  <1> HIDE DEF ib2
  <1>4. \A i \in DOMAIN ib2 : i = Len(ib) + 1 \/ i \in DOMAIN ib
    BY <1>2, <1>3
  <1>5. \A i \in DOMAIN ib2 : AnswerOK(os, r, a, ib2[i])
    BY <1>1, <1>2, <1>4 DEF LedOK
  <1>6. LedOK(os, r, a, ib2, ca, ov)
    BY <1>5 DEF LedOK
  <1> QED  BY <1>6 DEF ib2

(* An answer that no set has overtaken is what the robot is going to show. *)
LEMMA LedHandles ==
    ASSUME NEW os \in Seq(Order), NEW r, NEW a \in Nat, a <= Len(os),
           NEW ib \in Seq(Notification), ib # <<>>, NEW ca, NEW ov, NEW ca2, NEW ov2,
           LedOK(os, r, a, ib, ca, ov),
           IF ib[1].about = "leds"
           THEN /\ ca2 = ib[1].leds
                /\ ov2 <=> \E m \in DOMAIN os : m > ib[1].re /\ os[m].kind = "set"
           ELSE ca2 = ca /\ ov2 = ov
    PROVE  LedOK(os, r, a, Tail(ib), ca2, ov2)
  <1> DEFINE p == ib[1]
             ib2 == Tail(ib)
  <1>1. /\ Len(os) \in Nat /\ DOMAIN os = 1..Len(os)
        /\ 1 \in DOMAIN ib /\ p \in Notification
        /\ \A i \in DOMAIN ib2 : i + 1 \in DOMAIN ib /\ ib2[i] = ib[i + 1]
    BY SeqDomain
  <1> HIDE DEF ib2
  <1>2. \A i \in DOMAIN ib2 : AnswerOK(os, r, a, ib2[i])
    BY <1>1 DEF LedOK
  <1>3. ~ ov2 => ShowsThen(os, r, a, Len(os), ca2)
    <2>1. CASE p.about = "leds"
      <3> SUFFICES ASSUME ~ ov2 PROVE ShowsThen(os, r, a, Len(os), ca2)
        OBVIOUS
      <3>1. p.re \in 1..a /\ (NoSets(os, p.re, Len(os)) => p.leds = r)
        BY <1>1, <2>1 DEF LedOK, AnswerOK
      <3>2. \A m \in DOMAIN os : m > p.re => os[m].kind # "set"
        BY <2>1
      <3>3. \A m \in p.re + 1 .. Len(os) : m \in DOMAIN os /\ m > p.re
        BY <1>1, <3>1
      <3>4. NoSets(os, p.re, Len(os))
        BY <3>2, <3>3 DEF NoSets
      <3>5. \A m \in a + 1 .. Len(os) : m \in p.re + 1 .. Len(os)
        BY <1>1, <3>1
      <3>6. NoSets(os, a, Len(os))
        BY <3>4, <3>5 DEF NoSets
      <3> QED  BY <2>1, <3>1, <3>4, <3>6 DEF ShowsThen
    <2>2. CASE p.about # "leds"
      BY <2>2 DEF LedOK
    <2> QED  BY <2>1, <2>2
  <1>4. LedOK(os, r, a, ib2, ca2, ov2)
    BY <1>2, <1>3 DEF LedOK
  <1> QED  BY <1>4 DEF ib2

----------------------------------------------------------------------------
(* Every step keeps LineInv and LedInv.                                     *)

LEMMA LineTypes ==
    ASSUME TypeInv
    PROVE  /\ Wire \in Seq(Nat) /\ Queue \in Seq(Nat) /\ Inbox \in Seq(Notification)
           /\ orders \in Seq(Order) /\ Len(orders) \in Nat
  <1>1. <<>> \in Seq(Nat) /\ <<>> \in Seq(Notification)
    OBVIOUS
  <1>2. conns # <<>> => conns[1] \in Connection
    BY SeqDomain DEF TypeInv
  <1>3. conns # <<>> => /\ conns[1].wire \in Seq(Nat) /\ conns[1].queue \in Seq(Nat)
                        /\ conns[1].inbox \in Seq(Notification)
    BY <1>2 DEF Connection
  <1>4. orders \in Seq(Order) /\ Len(orders) \in Nat
    BY SeqDomain DEF TypeInv
  <1> QED  BY <1>1, <1>3, <1>4 DEF Wire, Queue, Inbox

LEMMA ReachedTypes ==
    ASSUME TypeInv, LineInv
    PROVE  Reached \in Nat /\ Reached <= Len(orders)
  <1>1. Len(Wire) \in Nat /\ Len(Queue) \in Nat /\ Len(orders) \in Nat
    BY LineTypes, SeqDomain
  <1> QED  BY <1>1 DEF LineInv, LineOK, Reached

LEMMA OrderGivenKeeps ==
    ASSUME TypeInv, LineInv, LedInv, NEW o \in Order, OrderGiven(o)
    PROVE  LineInv' /\ LedInv'
  <1>1. /\ Wire \in Seq(Nat) /\ Queue \in Seq(Nat) /\ Inbox \in Seq(Notification)
        /\ orders \in Seq(Order) /\ Len(orders) \in Nat
        /\ Reached \in Nat /\ Reached <= Len(orders)
    BY LineTypes, ReachedTypes
  <1>2. /\ orders' = Append(orders, o) /\ Queue' = Append(Queue, Len(orders) + 1)
        /\ Wire' = Wire /\ Inbox' = Inbox /\ robot' = robot
    BY DEF OrderGiven
  <1>3. Len(orders') = Len(orders) + 1
    BY <1>1, <1>2, Appended
  <1>4. /\ LineOK(Wire, Append(Queue, Len(orders) + 1), Len(orders) + 1)
        /\ Len(orders) + 1 - Len(Wire) - Len(Append(Queue, Len(orders) + 1)) = Reached
    BY <1>1, LineGives DEF LineInv, Reached
  <1>5. LineInv' /\ Reached' = Reached
    BY <1>2, <1>3, <1>4 DEF LineInv, Reached
  <1>6. cached \in Leds /\ overtaken \in BOOLEAN
    BY DEF TypeInv
  <1>7. PICK ca2, ov2 : ca2 = cached' /\ ov2 = overtaken'
    OBVIOUS
  <1>8. \/ /\ o.kind = "set" /\ ca2 = o.leds /\ ov2 = FALSE
           /\ o.trusted => ~ overtaken
           /\ o.idx # 0 => \A j \in LedIdx \ {o.idx} : o.leds[j] = cached[j]
        \/ o.kind = "get" /\ o.idx = 0 /\ ca2 = cached /\ ov2 = overtaken
    BY <1>7 DEF OrderGiven
  <1>9. LedOK(Append(orders, o), robot, Reached, Inbox, ca2, ov2)
    BY <1>1, <1>6, <1>8, LedGives DEF LedInv
  <1>10. LedInv'
    BY <1>2, <1>5, <1>7, <1>9 DEF LedInv
  <1> QED  BY <1>5, <1>10

LEMMA LedsKept ==
    ASSUME TypeInv, LineInv, LedInv, SameOrders, Reached' = Reached,
           UNCHANGED <<Inbox, robot, cached, overtaken>>
    PROVE  LedInv'
  <1>1. /\ Inbox \in Seq(Notification) /\ orders \in Seq(Order) /\ Len(orders) \in Nat
        /\ Reached \in Nat
    BY LineTypes, ReachedTypes
  <1>2. PICK os2 : os2 = orders'
    OBVIOUS
  <1>3. PICK n \in Nat : n = Len(orders)
    BY <1>1
  <1>4. Len(os2) = n /\ DOMAIN orders = 1..n
    BY <1>1, <1>2, <1>3, SeqDomain DEF SameOrders
  <1>5. \A k \in 1..n : /\ os2[k].kind = orders[k].kind /\ os2[k].leds = orders[k].leds
                        /\ os2[k].idx = orders[k].idx /\ os2[k].trusted = orders[k].trusted
    BY <1>2, <1>4 DEF SameOrders
  <1>6. LedOK(os2, robot, Reached, Inbox, cached, overtaken)
    BY <1>1, <1>3, <1>4, <1>5, LedSame DEF LedInv
  <1> QED  BY <1>2, <1>6 DEF LedInv

LEMMA OrderWrittenKeeps ==
    ASSUME TypeInv, LineInv, LedInv, OrderWritten
    PROVE  LineInv' /\ LedInv'
  <1>1. Wire \in Seq(Nat) /\ Queue \in Seq(Nat) /\ Len(orders) \in Nat
    BY LineTypes
  <1>2. /\ Queue # <<>> /\ Queue' = Tail(Queue) /\ Wire' = Append(Wire, Queue[1])
        /\ Len(orders') = Len(orders) /\ SameOrders
        /\ UNCHANGED <<Inbox, robot, cached, overtaken>>
    BY DEF OrderWritten, SameOrders
  <1>3. /\ LineOK(Append(Wire, Queue[1]), Tail(Queue), Len(orders))
        /\ Len(orders) - Len(Append(Wire, Queue[1])) - Len(Tail(Queue)) = Reached
    BY <1>1, <1>2, LineWrites DEF LineInv, Reached
  <1>4. LineInv' /\ Reached' = Reached
    BY <1>2, <1>3 DEF LineInv, Reached
  <1> QED  BY <1>2, <1>4, LedsKept

LEMMA LineKeptKeeps ==
    ASSUME TypeInv, LineInv, LedInv, LineKept
    PROVE  LineInv' /\ LedInv'
  <1>1. LineInv' /\ Reached' = Reached
    BY DEF LineKept, SameOrders, LineInv, Reached
  <1> QED  BY <1>1, LedsKept DEF LineKept

LEMMA OrderAppliedKeeps ==
    ASSUME TypeInv, TypeInv', LineInv, LedInv, OrderApplied
    PROVE  /\ LineInv' /\ LedInv'
           /\ Wire[1] = Reached + 1 /\ Reached + 1 \in 1..Len(orders)
  <1>1. /\ Wire \in Seq(Nat) /\ Queue \in Seq(Nat) /\ Inbox \in Seq(Notification)
        /\ orders \in Seq(Order) /\ Len(orders) \in Nat /\ Reached \in Nat
    BY LineTypes, ReachedTypes
  <1>2. /\ Wire # <<>> /\ Wire' = Tail(Wire)
        /\ orders' = orders /\ Queue' = Queue /\ cached' = cached /\ overtaken' = overtaken
    BY DEF OrderApplied
  <1>3. /\ LineOK(Tail(Wire), Queue, Len(orders))
        /\ Len(orders) - Len(Tail(Wire)) - Len(Queue) = Reached + 1
        /\ Wire[1] = Reached + 1 /\ Wire[1] <= Len(orders)
    BY <1>1, <1>2, LineApplies DEF LineInv, Reached
  <1>4. LineInv' /\ Reached' = Reached + 1
    BY <1>2, <1>3 DEF LineInv, Reached
  <1>5. PICK r2, ib2 : r2 = robot' /\ ib2 = Inbox'
    OBVIOUS
  <1>6. \/ orders[Reached + 1].kind = "set" /\ r2 = orders[Reached + 1].leds /\ ib2 = Inbox
        \/ /\ orders[Reached + 1].kind # "set" /\ r2 = robot
           /\ ib2 = Append(Inbox, Answer(Reached + 1, robot))
    BY <1>3, <1>5 DEF OrderApplied
  <1>7. robot \in Leds /\ r2 \in Leds /\ Reached < Len(orders)
    BY <1>1, <1>3, <1>5 DEF TypeInv
  <1>8. LedOK(orders, r2, Reached + 1, ib2, cached, overtaken)
    BY <1>1, <1>6, <1>7, LedApplies DEF LedInv
  <1>9. LedInv'
    BY <1>2, <1>4, <1>5, <1>8 DEF LedInv
  <1> QED  BY <1>1, <1>3, <1>4, <1>9

LEMMA GestureMadeKeeps ==
    ASSUME TypeInv, LineInv, LedInv, GestureMade
    PROVE  LineInv' /\ LedInv'
  <1>1. Inbox \in Seq(Notification)
    BY LineTypes
  <1>2. LineInv' /\ Reached' = Reached
    BY DEF GestureMade, LineInv, Reached
  <1>3. LedOK(orders, robot, Reached, Append(Inbox, Gesture), cached, overtaken)
    BY <1>1, LedGesture DEF LedInv
  <1>4. LedInv'
    BY <1>2, <1>3 DEF LedInv, GestureMade
  <1> QED  BY <1>2, <1>4

LEMMA NotificationHandledKeeps ==
    ASSUME TypeInv, LineInv, LedInv, NotificationHandled
    PROVE  LineInv' /\ LedInv'
  <1>1. /\ Inbox \in Seq(Notification) /\ orders \in Seq(Order)
        /\ Reached \in Nat /\ Reached <= Len(orders)
    BY LineTypes, ReachedTypes
  <1>2. LineInv' /\ Reached' = Reached
    BY DEF NotificationHandled, LineInv, Reached
  <1>3. Inbox # <<>> /\ Inbox' = Tail(Inbox) /\ orders' = orders /\ robot' = robot
    BY DEF NotificationHandled
  <1>4. PICK ca2, ov2 : ca2 = cached' /\ ov2 = overtaken'
    OBVIOUS
  <1>5. IF Inbox[1].about = "leds"
        THEN /\ ca2 = Inbox[1].leds
             /\ ov2 <=> \E m \in DOMAIN orders : m > Inbox[1].re /\ orders[m].kind = "set"
        ELSE ca2 = cached /\ ov2 = overtaken
    BY <1>4 DEF NotificationHandled, store_results, SetAfter
  <1>6. LedOK(orders, robot, Reached, Tail(Inbox), ca2, ov2)
    BY <1>1, <1>3, <1>5, LedHandles DEF LedInv
  <1>7. LedInv'
    BY <1>2, <1>3, <1>4, <1>6 DEF LedInv
  <1> QED  BY <1>2, <1>7

LEMMA NextSingle ==
    Single /\ Inv /\ SingleInv /\ [Next]_vars => SingleInv'
  <1> SUFFICES ASSUME Single, Inv, SingleInv, [Next]_vars PROVE SingleInv'
    OBVIOUS
  <1>1. Inv' /\ IdInv' /\ LineStep
    BY NextInv, StepShape DEF SingleInv
  <1>2. TypeInv /\ TypeInv' /\ LineInv /\ LedInv
    BY <1>1 DEF Inv, SingleInv
  <1>3. LineInv' /\ LedInv'
    BY <1>1, <1>2, OrderGivenKeeps, OrderWrittenKeeps, OrderAppliedKeeps, GestureMadeKeeps,
       NotificationHandledKeeps, LineKeptKeeps DEF LineStep
  <1> QED  BY <1>1, <1>3 DEF SingleInv

LEMMA InitSingle == Init => SingleInv
  <1> SUFFICES ASSUME Init PROVE SingleInv
    OBVIOUS
  <1>1. /\ conns = <<>> /\ orders = <<>> /\ cached = DefaultLeds /\ robot = DefaultLeds
    BY DEF Init
  <1>2. /\ Wire = <<>> /\ Queue = <<>> /\ Inbox = <<>>
        /\ Len(<<>>) = 0 /\ DOMAIN <<>> = {}
    BY <1>1 DEF Wire, Queue, Inbox
  <1>3. Reached = 0 /\ LineInv
    <2>1. Len(Wire) = 0 /\ Len(Queue) = 0 /\ Len(orders) = 0
      BY <1>1, <1>2
    <2>2. DOMAIN Wire = {} /\ DOMAIN Queue = {}
      BY <1>2
    <2>3. Reached = 0
      BY <2>1 DEF Reached
    <2> QED  BY <2>1, <2>2, <2>3 DEF LineInv, LineOK, CountsFrom, Reached
  <1>4. ShowsThen(orders, robot, 0, 0, cached)
    <2>1. NoSets(orders, 0, 0)
      BY NoneAfter
    <2> QED  BY <1>1, <2>1 DEF ShowsThen
  <1>5. LedInv
    <2>1. \A i \in DOMAIN Inbox : AnswerOK(orders, robot, Reached, Inbox[i])
      BY <1>2
    <2>2. ShowsThen(orders, robot, Reached, Len(orders), cached)
      BY <1>1, <1>2, <1>3, <1>4
    <2>3. Reached + 1 .. Len(orders) = {}
      BY <1>1, <1>2, <1>3
    <2> QED  BY <2>1, <2>2, <2>3 DEF LedInv, LedOK
  <1> QED  BY <1>3, <1>5, InitIds DEF SingleInv

THEOREM SingleInductive == Single => (Spec => [](Inv /\ SingleInv))
  <1> SUFFICES ASSUME Single PROVE Spec => [](Inv /\ SingleInv)
    OBVIOUS
  <1>1. Init => Inv /\ SingleInv
    BY InitInv, InitSingle DEF Inv
  <1>2. Inv /\ SingleInv /\ [Next]_vars => (Inv /\ SingleInv)'
    BY NextInv, NextSingle
  <1> QED  BY <1>1, <1>2, PTL DEF Spec

----------------------------------------------------------------------------
(* The properties of one connection.                                        *)

(* What is under way is the orders after the last the robot applied. *)
LEMMA UnderWay ==
    ASSUME TypeInv, LineInv
    PROVE  LET u == Wire \o Queue
           IN  /\ DOMAIN u = 1 .. Len(orders) - Reached
               /\ \A i \in DOMAIN u : u[i] = Reached + i
  <1> DEFINE u == Wire \o Queue
  <1>1. /\ Wire \in Seq(Nat) /\ Queue \in Seq(Nat) /\ Len(orders) \in Nat /\ Reached \in Nat
    BY LineTypes, ReachedTypes
  <1>2. /\ Len(Wire) \in Nat /\ Len(Queue) \in Nat
        /\ DOMAIN Wire = 1..Len(Wire) /\ DOMAIN Queue = 1..Len(Queue)
    BY <1>1, SeqDomain
  <1>3. /\ u \in Seq(Nat) /\ Len(u) = Len(Wire) + Len(Queue)
        /\ \A i \in 1 .. Len(Wire) + Len(Queue) :
              u[i] = IF i <= Len(Wire) THEN Wire[i] ELSE Queue[i - Len(Wire)]
    BY <1>1, ConcatProperties
  <1>4. DOMAIN u = 1 .. Len(Wire) + Len(Queue)
    BY <1>3, SeqDomain
  <1> HIDE DEF u
  <1>5. Len(orders) - Reached = Len(Wire) + Len(Queue)
    BY <1>1, <1>2 DEF Reached
  <1>6. ASSUME NEW i \in DOMAIN u PROVE u[i] = Reached + i
    <2>1. CASE i <= Len(Wire)
      <3>1. i \in DOMAIN Wire /\ u[i] = Wire[i]
        BY <1>2, <1>3, <1>4, <2>1
      <3> QED  BY <3>1 DEF LineInv, LineOK, CountsFrom, Reached
    <2>2. CASE ~ (i <= Len(Wire))
      <3>1. PICK k \in DOMAIN Queue : k = i - Len(Wire) /\ u[i] = Queue[k]
        BY <1>2, <1>3, <1>4, <2>2
      <3>2. Queue[k] = Len(orders) - Len(Queue) + k
        BY <3>1 DEF LineInv, LineOK, CountsFrom
      <3>3. Len(orders) - Len(Queue) + k = Reached + i
        <4>1. i \in Int /\ Len(orders) \in Int /\ Reached \in Int
              /\ Len(Wire) \in Int /\ Len(Queue) \in Int
          BY <1>1, <1>2, <1>4
        <4> QED  BY <1>5, <3>1, <4>1
      <3> QED  BY <3>1, <3>2, <3>3
    <2> QED  BY <2>1, <2>2
  <1>7. DOMAIN u = 1 .. Len(orders) - Reached
    BY <1>4, <1>5
  <1> QED  BY <1>6, <1>7 DEF u

LEMMA InvCache == Inv /\ SingleInv => CacheAgrees
  <1> SUFFICES ASSUME TypeInv, IdInv, LineInv, LedInv, ~ overtaken PROVE cached = WillShow
    BY DEF Inv, SingleInv, CacheAgrees
  <1>1. Reached \in Nat /\ Reached <= Len(orders) /\ Len(orders) \in Nat
    BY LineTypes, ReachedTypes
  <1>2. ShowsThen(orders, robot, Reached, Len(orders), cached)
    BY DEF LedInv, LedOK
  <1>3. CASE attrib = 0
    <2>1. Len(orders) = 0
      BY <1>3 DEF IdInv
    <2>2. Reached + 1 .. Len(orders) = {}
      BY <1>1, <2>1
    <2>3. cached = robot
      BY <1>2, <2>2 DEF ShowsThen
    <2> QED  BY <1>3, <2>3 DEF WillShow
  <1>4. CASE attrib # 0
    <2> DEFINE u == conns[attrib].wire \o conns[attrib].queue
               sets == {i \in DOMAIN u : orders[u[i]].kind = "set"}
               last == CHOOSE i \in sets : \A j \in sets : j <= i
    <2>1. attrib \in DOMAIN conns
      BY <1>4, SeqDomain DEF TypeInv
    <2>2. attrib = 1 /\ conns # <<>>
      BY <2>1, TheConnection
    <2>3. conns[attrib].wire = Wire /\ conns[attrib].queue = Queue
      BY <2>2 DEF Wire, Queue
    <2>4. WillShow = IF sets = {} THEN robot ELSE orders[u[last]].leds
      <3>1. WillShow = IF attrib = 0 \/ sets = {} THEN robot ELSE orders[u[last]].leds
        BY Zenon DEF WillShow
      <3> HIDE DEF u, sets, last
      <3> QED  BY <1>4, <3>1
    <2>5. DOMAIN u = 1 .. Len(orders) - Reached /\ \A i \in DOMAIN u : u[i] = Reached + i
      BY <2>3, UnderWay
    <2> HIDE DEF u
    <2>6. CASE NoSets(orders, Reached, Len(orders)) /\ cached = robot
      <3>1. \A i \in DOMAIN u : u[i] \in Reached + 1 .. Len(orders)
        BY <1>1, <2>5
      <3>2. sets = {}
        BY <2>6, <3>1 DEF NoSets
      <3> QED  BY <2>4, <2>6, <3>2
    <2>7. ASSUME NEW m \in Reached + 1 .. Len(orders), orders[m].kind = "set",
                 NoSets(orders, m, Len(orders)), cached = orders[m].leds
          PROVE  cached = WillShow
      <3>1. PICK k \in DOMAIN u : u[k] = m /\ k = m - Reached
        BY <1>1, <2>5
      <3>2. k \in sets
        BY <2>7, <3>1
      <3>3. ASSUME NEW j \in sets PROVE j <= k
        <4>1. j \in DOMAIN u /\ orders[Reached + j].kind = "set"
          BY <2>5
        <4>2. Reached + j \notin m + 1 .. Len(orders)
          BY <2>7, <4>1 DEF NoSets
        <4> QED  BY <1>1, <2>5, <3>1, <4>1, <4>2
      <3>4. sets \subseteq Int
        BY <2>5
      <3> HIDE DEF sets
      <3>5. last \in sets /\ \A j \in sets : j <= last
        BY <3>2, <3>3
      <3> HIDE DEF last
      <3>6. last = k
        BY <3>2, <3>3, <3>4, <3>5
      <3> QED  BY <2>4, <2>7, <3>1, <3>2, <3>6
    <2> QED  BY <1>2, <2>6, <2>7 DEF ShowsThen
  <1> QED  BY <1>3, <1>4

(* The cache of the head LEDs is what the robot is going to show when it has    *)
(* applied what is queued and on the wire, unless the last answer was to a     *)
(* request that a set had overtaken: for any number of orders, gestures and    *)
(* orders given by the notification handler, in any interleaving.            *)
THEOREM CachesAgree == Single => (Spec => []CacheAgrees)
  <1> SUFFICES ASSUME Single PROVE Spec => []CacheAgrees
    OBVIOUS
  <1>1. Spec => [](Inv /\ SingleInv)
    BY SingleInductive
  <1> QED  BY <1>1, InvCache, PTL

(* What a step applies. *)
Touches ==
    \A n \in applied' \ applied :
       orders[n].idx # 0 /\ orders[n].trusted
          => \A j \in LedIdx \ {orders[n].idx} : robot'[j] = robot[j]

LEMMA StepTouches == Single /\ Inv /\ SingleInv /\ [Next]_vars => [Touches]_vars
  <1> SUFFICES ASSUME Single, Inv, SingleInv, [Next]_vars,
                      NEW n \in applied' \ applied, orders[n].idx # 0, orders[n].trusted
               PROVE  \A j \in LedIdx \ {orders[n].idx} : robot'[j] = robot[j]
    BY DEF Touches
  <1>1. Inv' /\ LineStep
    BY NextInv, StepShape DEF SingleInv
  <1>2. TypeInv /\ TypeInv' /\ LineInv /\ LedInv
    BY <1>1 DEF Inv, SingleInv
  <1>3. OrderApplied
    BY <1>1 DEF LineStep, OrderGiven, OrderWritten, GestureMade, NotificationHandled, LineKept
  <1>4. n = Wire[1] /\ Wire[1] = Reached + 1 /\ Reached + 1 \in 1..Len(orders)
    BY <1>2, <1>3, OrderAppliedKeeps DEF OrderApplied
  <1>5. CASE orders[n].kind # "set"
    BY <1>3, <1>4, <1>5 DEF OrderApplied
  <1>6. CASE orders[n].kind = "set"
    <2>1. robot' = orders[n].leds
      BY <1>3, <1>4, <1>6 DEF OrderApplied
    <2>2. Reached \in Nat
      BY <1>2, ReachedTypes
    <2>3. n \in Reached + 1 .. Len(orders) /\ n - 1 = Reached
      BY <1>4, <2>2
    <2>4. IndexOK(orders, robot, Reached, n)
      BY <1>2, <2>3 DEF LedInv, LedOK
    <2>5. PICK l \in Leds : /\ ShowsThen(orders, robot, Reached, Reached, l)
                            /\ \A j \in LedIdx \ {orders[n].idx} : orders[n].leds[j] = l[j]
      BY <2>3, <2>4 DEF IndexOK
    <2>6. Reached + 1 .. Reached = {}
      BY <2>2
    <2>7. l = robot
      BY <2>5, <2>6 DEF ShowsThen
    <2> QED  BY <2>1, <2>5, <2>7
  <1> QED  BY <1>5, <1>6

(* set_head_LED(idx, value), which sends all four LEDs, leaves the other three   *)
(* as the robot shows them when it comes to apply the order, if the cache     *)
(* could be trusted when it was given.                                       *)
THEOREM IndexSetsTouchOne == Single => (Spec => IndexSetTouchesOne)
  <1> SUFFICES ASSUME Single PROVE Spec => IndexSetTouchesOne
    OBVIOUS
  <1>1. Spec => [](Inv /\ SingleInv)
    BY SingleInductive
  <1>2. Inv /\ SingleInv /\ [Next]_vars => [Touches]_vars
    BY StepTouches
  <1>3. Spec => [][Touches]_vars
    BY <1>1, <1>2, PTL DEF Spec
  <1> QED  BY <1>3 DEF IndexSetTouchesOne, Touches

=============================================================================
