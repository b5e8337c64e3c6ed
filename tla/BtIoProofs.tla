----------------------------- MODULE BtIoProofs -----------------------------
(***************************************************************************)
(* What is proved of BtIo, for every list of options, with any number of        *)
(* channels, on a kernel with BT_SECURITY or without: the types (Types), and     *)
(* that each connection is called back once, and for the reason it has            *)
(* (CallsBackOnce).                                                        *)
(*                                                                         *)
(* Both follow from what a descriptor stands for (Stands): a channel that is      *)
(* open has its own number, and one that is closed has a number that stands for  *)
(* another socket only after it was reused.                                  *)
(***************************************************************************)
EXTENDS BtIo, FiniteSetTheorems, WellFoundedInduction, TLAPS

----------------------------------------------------------------------------
(* The invariant.                                                           *)

(* Sequences whose elements have many types. *)
Elements(s) == {s[i] : i \in DOMAIN s}
Sequence(s) == s \in Seq(Elements(s))

ChanFields ==
    { "type", "fd", "socket", "state", "watch", "confirm", "refs", "open", "error", "waiting",
      "started", "called", "destroyed", "closed", "late", "reused" }

WatchNames == {"none", "connect_cb", "accept_cb", "server_cb"}

Shape(ch) ==
    /\ DOMAIN ch = ChanFields
    /\ ch.fd \in 1..MaxChannels /\ ch.refs \in 0..2 /\ ch.destroyed \in Nat
    /\ ch.watch \in WatchNames
    /\ ch.open \in BOOLEAN /\ ch.started \in BOOLEAN /\ ch.closed \in BOOLEAN
    /\ ch.late \in BOOLEAN /\ ch.reused \in BOOLEAN
    /\ ch.called \in {<<>>, <<TRUE>>, <<FALSE>>}

(* A channel that is watched has the watch's reference. *)
Watched(ch) ==
    /\ ch.open <=> ch.refs > 0 /\ ~ ch.closed
    /\ ch.watch = "none" => ch.refs <= 1
    /\ ch.watch # "none" => ch.refs > 0 /\ ch.started /\ ch.called = <<>>
    /\ ch.watch = "server_cb" <=> ch.state = "listening" /\ ch.watch # "none"

(* The history of a channel agrees with its socket, unless its number was reused. *)
CalledBack(ch) ==
    /\ ch.destroyed = IF ch.started /\ ch.watch = "none" THEN 1 ELSE 0
    /\ ~ ch.started => ch.called = <<>>
    /\ ch.started /\ ch.watch = "none" /\ ~ ch.closed /\ ch.state # "listening" => ch.called # <<>>
    /\ ch.called = <<>> => ~ ch.late
    /\ ch.late => ch.reused
    /\ ch.called = <<FALSE>> => ch.state \in {"connected", "hungup"} \/ ch.reused
    /\ ch.called = <<TRUE>> => ch.state = "failed" \/ ch.reused

ChannelOK(ch) == Shape(ch) /\ Watched(ch) /\ CalledBack(ch)

(* What the number of the channel c stands for. *)
Stands(ch, c, tab) ==
    /\ ch.open => tab[ch.fd] = c
    /\ ~ ch.open /\ tab[ch.fd] # 0 => ch.reused

Descriptors(cs, tab) ==
    /\ tab \in [1..MaxChannels -> 0..Len(cs)]
    /\ \A fd \in 1..MaxChannels : tab[fd] # 0 => cs[tab[fd]].open /\ cs[tab[fd]].fd = fd

StateOK(cs, tab) ==
    /\ Sequence(cs) /\ Len(cs) <= MaxChannels
    /\ Descriptors(cs, tab)
    /\ \A c \in DOMAIN cs : ChannelOK(cs[c]) /\ Stands(cs[c], c, tab)

BtIoInv == StateOK(channels, table)

----------------------------------------------------------------------------
(* Sequences and numbers.                                                   *)

LEMMA SequenceFacts ==
    ASSUME NEW s, Sequence(s)
    PROVE  Len(s) \in Nat /\ DOMAIN s = 1..Len(s)
  BY DEF Sequence

LEMMA EmptySequence == Sequence(<<>>) /\ Len(<<>>) = 0 /\ DOMAIN <<>> = {}
  BY DEF Sequence

LEMMA FunctionSequence ==
    ASSUME NEW n \in Nat, NEW f, f = [i \in 1..n |-> f[i]]
    PROVE  Sequence(f) /\ Len(f) = n
<1>1. DOMAIN f = 1..n
  OBVIOUS
<1>2. \A i \in 1..n : f[i] \in Elements(f)
  BY <1>1 DEF Elements
<1>3. f \in [1..n -> Elements(f)]
  BY <1>2
<1>4. f \in Seq(Elements(f)) /\ Len(f) = n
  BY <1>1, <1>3
<1> QED BY <1>4 DEF Sequence

LEMMA ExceptSequence ==
    ASSUME NEW s, Sequence(s), NEW c \in DOMAIN s, NEW x
    PROVE  LET t == [s EXCEPT ![c] = x] IN
           /\ Sequence(t) /\ Len(t) = Len(s) /\ DOMAIN t = DOMAIN s
           /\ t[c] = x /\ \A d \in DOMAIN s : d # c => t[d] = s[d]
<1>1. Len(s) \in Nat /\ DOMAIN s = 1..Len(s)
  BY SequenceFacts
<1> DEFINE t == [s EXCEPT ![c] = x]
<1>2. t[c] = x /\ DOMAIN t = DOMAIN s /\ \A d \in DOMAIN s : d # c => t[d] = s[d]
  OBVIOUS
<1>3. t = [i \in 1..Len(s) |-> t[i]]
  BY <1>1
<1> HIDE DEF t
<1>4. Sequence(t) /\ Len(t) = Len(s)
  BY <1>1, <1>3, FunctionSequence
<1> QED BY <1>2, <1>4 DEF t

LEMMA AppendSequence ==
    ASSUME NEW s, Sequence(s), NEW x
    PROVE  LET t == Append(s, x) IN
           /\ Sequence(t) /\ Len(t) = Len(s) + 1
           /\ t[Len(s) + 1] = x /\ \A d \in 1..Len(s) : t[d] = s[d]
<1> DEFINE T == Elements(s) \cup {x}
<1>1. Len(s) \in Nat
  BY SequenceFacts
<1>2. s \in Seq(T)
  <2>1. s \in [1..Len(s) -> Elements(s)]
    BY DEF Sequence
  <2>2. Elements(s) \subseteq T
    OBVIOUS
  <2>3. s \in [1..Len(s) -> T]
    BY <2>1, <2>2
  <2> QED BY <1>1, <2>3
<1>3. x \in T
  OBVIOUS
<1> HIDE DEF T
<1> DEFINE t == Append(s, x)
<1>4. t \in Seq(T) /\ Len(t) = Len(s) + 1
  BY <1>2, <1>3
<1>5. t[Len(s) + 1] = x /\ \A d \in 1..Len(s) : t[d] = s[d]
  BY <1>2, <1>3
<1> HIDE DEF t
<1>6. t = [i \in 1..Len(t) |-> t[i]] /\ Len(t) \in Nat
  BY <1>4
<1>7. Sequence(t)
  BY <1>6, FunctionSequence
<1> QED BY <1>4, <1>5, <1>7 DEF t

(* A set of numbers has a least one. *)
LEMMA LeastNumber ==
    ASSUME NEW T, T \subseteq Nat, T # {}
    PROVE  \E x \in T : \A y \in T : x <= y
<1> DEFINE R == {p \in Nat \X Nat : p[1] < p[2]}
<1>1. IsWellFoundedOn(R, Nat)
  BY NatLessThanWellFounded DEF OpToRel
<1>2. \A x, y \in Nat : x < y => <<x, y>> \in R
  OBVIOUS
<1> HIDE DEF R
<1>3. PICK x \in T : \A y \in T : ~ (<<y, x>> \in R)
  BY <1>1, WFMin
<1>4. ASSUME NEW y \in T PROVE x <= y
  <2>1. ~ (y < x)
    BY <1>2, <1>3
  <2>2. x \in Nat /\ y \in Nat
    OBVIOUS
  <2> QED BY <2>1, <2>2
<1> QED BY <1>4

----------------------------------------------------------------------------
(* Descriptors.                                                             *)

(* With fewer channels than numbers one is free. *)
LEMMA SomeFree ==
    ASSUME NEW cs, NEW tab, StateOK(cs, tab), Len(cs) < MaxChannels
    PROVE  \E fd \in 1..MaxChannels : tab[fd] = 0
<1>1. Len(cs) \in Nat /\ MaxChannels \in Nat
  BY SequenceFacts, BtIoAssumption DEF StateOK
<1> SUFFICES ASSUME \A fd \in 1..MaxChannels : tab[fd] # 0 PROVE FALSE
  OBVIOUS
<1> DEFINE Numbers == 1..MaxChannels
           Made == 1..Len(cs)
<1>2. tab \in [Numbers -> 0..Len(cs)]
      /\ \A fd \in Numbers : cs[tab[fd]].fd = fd /\ tab[fd] # 0
  BY DEF StateOK, Descriptors
<1>3. tab \in [Numbers -> Made]
  BY <1>1, <1>2
<1>4. IsFiniteSet(Numbers) /\ Cardinality(Numbers) = MaxChannels
      /\ IsFiniteSet(Made) /\ Cardinality(Made) = Len(cs)
  <2>1. \A n \in Nat : IsFiniteSet(1..n) /\ Cardinality(1..n) = n
    <3> TAKE n \in Nat
    <3>1. IsFiniteSet(1..n)
          /\ Cardinality(1..n) = IF 1 > n THEN 0 ELSE n - 1 + 1
      BY FS_Interval
    <3> QED BY <3>1
  <2> QED BY <1>1, <2>1
<1> HIDE DEF Numbers, Made
<1>5. PICK x \in Numbers, y \in Numbers : x # y /\ tab[x] = tab[y]
  BY <1>1, <1>3, <1>4, FS_PigeonHole
<1> QED BY <1>2, <1>5

LEMMA FreeIs ==
    ASSUME BtIoInv, Me <= MaxChannels
    PROVE  FreeFd \in 1..MaxChannels /\ table[FreeFd] = 0
<1>1. Len(channels) < MaxChannels /\ MaxChannels \in Nat
  BY SequenceFacts, BtIoAssumption DEF BtIoInv, StateOK, Me
<1>2. DOMAIN table = 1..MaxChannels
  BY DEF BtIoInv, StateOK, Descriptors
<1> DEFINE T == {fd \in 1..MaxChannels : table[fd] = 0}
<1>3. T # {} /\ T \subseteq Nat
  BY <1>1, SomeFree DEF BtIoInv
<1>4. PICK fd \in T : \A g \in T : fd <= g
  BY <1>3, LeastNumber
<1>5. \E f \in DOMAIN table : table[f] = 0 /\ \A g \in DOMAIN table : table[g] = 0 => f <= g
  BY <1>2, <1>4
<1> QED BY <1>2, <1>5 DEF FreeFd

----------------------------------------------------------------------------
(* The three ways the channels change: one of them does, and its descriptor     *)
(* stays; one is let go of or closed; one is made.                            *)

LEMMA InTable ==
    ASSUME NEW cs, NEW tab, StateOK(cs, tab), NEW fd \in 1..MaxChannels, tab[fd] # 0
    PROVE  tab[fd] \in DOMAIN cs /\ cs[tab[fd]].open /\ cs[tab[fd]].fd = fd
<1>1. Len(cs) \in Nat /\ DOMAIN cs = 1..Len(cs)
  BY SequenceFacts DEF StateOK
<1>2. tab[fd] \in 0..Len(cs) /\ cs[tab[fd]].open /\ cs[tab[fd]].fd = fd
  BY DEF StateOK, Descriptors
<1> QED BY <1>1, <1>2

LEMMA Replaced ==
    ASSUME NEW cs, NEW tab, StateOK(cs, tab), NEW c \in DOMAIN cs, NEW x, ChannelOK(x),
           x.fd = cs[c].fd, x.reused = cs[c].reused, x.open <=> cs[c].open
    PROVE  StateOK([cs EXCEPT ![c] = x], tab)
<1> DEFINE t == [cs EXCEPT ![c] = x]
<1>1. /\ Sequence(t) /\ Len(t) = Len(cs) /\ DOMAIN t = DOMAIN cs
      /\ t[c] = x /\ \A d \in DOMAIN cs : d # c => t[d] = cs[d]
  BY ExceptSequence DEF StateOK
<1> HIDE DEF t
<1>2. Len(t) <= MaxChannels
  BY <1>1 DEF StateOK
<1>3. Descriptors(t, tab)
  <2>1. ASSUME NEW fd \in 1..MaxChannels, tab[fd] # 0 PROVE t[tab[fd]].open /\ t[tab[fd]].fd = fd
    <3>1. tab[fd] \in DOMAIN cs /\ cs[tab[fd]].open /\ cs[tab[fd]].fd = fd
      BY <2>1, InTable
    <3> QED BY <1>1, <3>1
  <2>2. tab \in [1..MaxChannels -> 0..Len(t)]
    BY <1>1 DEF StateOK, Descriptors
  <2> QED BY <2>1, <2>2 DEF Descriptors
<1>4. ASSUME NEW d \in DOMAIN t PROVE ChannelOK(t[d]) /\ Stands(t[d], d, tab)
  <2>1. d \in DOMAIN cs /\ ChannelOK(cs[d]) /\ Stands(cs[d], d, tab)
    BY <1>1 DEF StateOK
  <2>2. CASE d = c
    <3>1. Stands(x, c, tab)
      BY <2>1, <2>2 DEF Stands
    <3> QED BY <1>1, <2>2, <3>1
  <2>3. CASE d # c
    BY <1>1, <2>1, <2>3
  <2> QED BY <2>2, <2>3
<1>5. StateOK(t, tab)
  BY <1>1, <1>2, <1>3, <1>4 DEF StateOK
<1> QED BY <1>5 DEF t

LEMMA LetGo ==
    ASSUME NEW cs, NEW tab, StateOK(cs, tab), NEW c \in DOMAIN cs, NEW x, ChannelOK(x),
           x.fd = cs[c].fd, x.reused = cs[c].reused, x.open => cs[c].open,
           NEW t, t = [cs EXCEPT ![c] = x],
           NEW now, now = [fd \in DOMAIN tab |->
                             IF tab[fd] # 0 /\ t[tab[fd]].open THEN tab[fd] ELSE 0]
    PROVE  StateOK(t, now)
<1>1. /\ Sequence(t) /\ Len(t) = Len(cs) /\ DOMAIN t = DOMAIN cs
      /\ t[c] = x /\ \A d \in DOMAIN cs : d # c => t[d] = cs[d]
  <2>1. Sequence(cs)
    BY DEF StateOK
  <2>2. LET e == [cs EXCEPT ![c] = x] IN
        /\ Sequence(e) /\ Len(e) = Len(cs) /\ DOMAIN e = DOMAIN cs
        /\ e[c] = x /\ \A d \in DOMAIN cs : d # c => e[d] = cs[d]
    BY <2>1, ExceptSequence
  <2> QED BY <2>2
<1>2. Len(t) <= MaxChannels /\ Len(t) \in Nat
  BY <1>1, SequenceFacts DEF StateOK
<1>3. tab \in [1..MaxChannels -> 0..Len(t)]
  BY <1>1 DEF StateOK, Descriptors
<1>4. \A fd \in 1..MaxChannels : now[fd] \in {tab[fd], 0} /\ (now[fd] # 0 => t[tab[fd]].open)
  BY <1>3
<1>5. \A fd \in 1..MaxChannels : tab[fd] # 0 /\ t[tab[fd]].open => now[fd] = tab[fd]
  BY <1>3
<1>6. Descriptors(t, now)
  <2>1. ASSUME NEW fd \in 1..MaxChannels, now[fd] # 0 PROVE t[now[fd]].open /\ t[now[fd]].fd = fd
    <3>1. now[fd] = tab[fd] /\ tab[fd] # 0 /\ t[tab[fd]].open
      BY <1>4, <2>1
    <3>2. tab[fd] \in DOMAIN cs /\ cs[tab[fd]].fd = fd
      BY <3>1, InTable
    <3> QED BY <1>1, <3>1, <3>2
  <2>2. now \in [1..MaxChannels -> 0..Len(t)]
    BY <1>2, <1>3
  <2> QED BY <2>1, <2>2 DEF Descriptors
<1>7. ASSUME NEW d \in DOMAIN t PROVE ChannelOK(t[d]) /\ Stands(t[d], d, now)
  <2>1. d \in DOMAIN cs /\ ChannelOK(cs[d]) /\ Stands(cs[d], d, tab)
    BY <1>1 DEF StateOK
  <2>2. ChannelOK(t[d]) /\ t[d].fd = cs[d].fd /\ t[d].reused = cs[d].reused
        /\ (t[d].open => cs[d].open) /\ t[d].fd \in 1..MaxChannels
    <3>1. ChannelOK(t[d])
      BY <1>1, <2>1
    <3> QED BY <1>1, <2>1, <3>1 DEF ChannelOK, Shape
  <2>3. d # 0
    BY <1>1, <1>2, SequenceFacts
  <2>4. t[d].open => now[t[d].fd] = d
    <3> SUFFICES ASSUME t[d].open PROVE now[t[d].fd] = d
      OBVIOUS
    <3>1. tab[t[d].fd] = d
      BY <2>1, <2>2 DEF Stands
    <3> QED BY <1>5, <2>2, <2>3, <3>1
  <2>5. ~ t[d].open /\ now[t[d].fd] # 0 => t[d].reused
    <3> SUFFICES ASSUME ~ t[d].open, now[t[d].fd] # 0 PROVE t[d].reused
      OBVIOUS
    <3>1. tab[t[d].fd] # 0 /\ t[tab[t[d].fd]].open
      BY <1>4, <2>2
    <3>2. tab[cs[d].fd] # d
      BY <2>2, <3>1
    <3>3. ~ cs[d].open
      BY <2>1, <3>2 DEF Stands
    <3> QED BY <2>1, <2>2, <3>1, <3>3 DEF Stands
  <2> QED BY <2>2, <2>4, <2>5 DEF Stands
<1> QED BY <1>1, <1>2, <1>6, <1>7 DEF StateOK

LEMMA ReusedFields ==
    ASSUME NEW ch, ChannelOK(ch), NEW b
    PROVE  LET r == [ch EXCEPT !.reused = @ \/ b] IN
           /\ b \in BOOLEAN => ChannelOK(r)
           /\ r.fd = ch.fd /\ r.open = ch.open
           /\ b \in BOOLEAN /\ ~ b => r.reused = ch.reused
           /\ b \in BOOLEAN /\ b => r.reused
<1> DEFINE r == [ch EXCEPT !.reused = @ \/ b]
<1>1. DOMAIN ch = ChanFields /\ ch.reused \in BOOLEAN
  BY DEF ChannelOK, Shape
<1>2. PICK v : v = (ch.reused \/ b)
  OBVIOUS
<1>3. b \in BOOLEAN => v \in BOOLEAN /\ (ch.reused => v) /\ (b => v) /\ (~ b => v = ch.reused)
  BY <1>1, <1>2
<1>4. r = [ch EXCEPT !.reused = v]
  BY <1>2
<1>5. r.reused = v /\ DOMAIN r = ChanFields
      /\ \A f \in ChanFields : f # "reused" => r[f] = ch[f]
  BY <1>1, <1>4 DEF ChanFields
<1> HIDE DEF r
<1>6. /\ r.fd = ch.fd /\ r.refs = ch.refs /\ r.destroyed = ch.destroyed /\ r.watch = ch.watch
      /\ r.open = ch.open /\ r.started = ch.started /\ r.closed = ch.closed /\ r.late = ch.late
      /\ r.called = ch.called /\ r.state = ch.state
  BY <1>5 DEF ChanFields
<1>7. ASSUME b \in BOOLEAN PROVE ChannelOK(r)
  <2>1. Shape(r)
    BY <1>3, <1>5, <1>6, <1>7 DEF Shape, ChannelOK
  <2>2. Watched(r)
    BY <1>6 DEF Watched, ChannelOK
  <2>3. CalledBack(r)
    BY <1>3, <1>5, <1>6, <1>7 DEF CalledBack, ChannelOK
  <2> QED BY <2>1, <2>2, <2>3 DEF ChannelOK
<1> QED BY <1>3, <1>5, <1>6, <1>7 DEF r

(* The channels when a socket takes the number fd. *)
LEMMA ReusingFacts ==
    ASSUME NEW cs, NEW tab, StateOK(cs, tab), NEW fd
    PROVE  LET r == Reusing(cs, fd) IN
           /\ Sequence(r) /\ Len(r) = Len(cs) /\ DOMAIN r = DOMAIN cs
           /\ \A c \in DOMAIN cs :
                /\ ChannelOK(r[c]) /\ r[c].fd = cs[c].fd /\ r[c].open = cs[c].open
                /\ cs[c].fd # fd => r[c].reused = cs[c].reused
                /\ cs[c].fd = fd /\ ~ cs[c].open => r[c].reused
<1> DEFINE r == Reusing(cs, fd)
<1>1. Len(cs) \in Nat /\ DOMAIN cs = 1..Len(cs)
  BY SequenceFacts DEF StateOK
<1>2. DOMAIN r = DOMAIN cs /\ r = [i \in 1..Len(cs) |-> r[i]]
  BY <1>1 DEF Reusing
<1>3. ASSUME NEW c \in DOMAIN cs
      PROVE  /\ ChannelOK(r[c]) /\ r[c].fd = cs[c].fd /\ r[c].open = cs[c].open
             /\ cs[c].fd # fd => r[c].reused = cs[c].reused
             /\ cs[c].fd = fd /\ ~ cs[c].open => r[c].reused
  <2>1. PICK ch : ch = cs[c]
    OBVIOUS
  <2>2. PICK b \in BOOLEAN : b = (ch.fd = fd /\ ~ ch.open)
    OBVIOUS
  <2>3. r[c] = [ch EXCEPT !.reused = @ \/ b]
    BY <2>1, <2>2 DEF Reusing
  <2>4. ChannelOK(ch)
    BY <2>1 DEF StateOK
  <2>5. /\ ChannelOK(r[c]) /\ r[c].fd = ch.fd /\ r[c].open = ch.open
        /\ ~ b => r[c].reused = ch.reused
        /\ b => r[c].reused
    BY <2>3, <2>4, ReusedFields
  <2> QED BY <2>1, <2>2, <2>5
<1> HIDE DEF r
<1>4. Sequence(r) /\ Len(r) = Len(cs)
  BY <1>1, <1>2, FunctionSequence
<1> QED BY <1>2, <1>3, <1>4 DEF r

LEMMA Joined ==
    ASSUME NEW cs, NEW tab, StateOK(cs, tab), Len(cs) < MaxChannels,
           NEW fd \in 1..MaxChannels, tab[fd] = 0,
           NEW new, ChannelOK(new), new.fd = fd, new.open
    PROVE  StateOK(Append(Reusing(cs, fd), new), [tab EXCEPT ![fd] = Len(cs) + 1])
<1> DEFINE n == Len(cs)
           r == Reusing(cs, fd)
           t == Append(r, new)
           now == [tab EXCEPT ![fd] = n + 1]
<1>1. n \in Nat /\ DOMAIN cs = 1..n /\ MaxChannels \in Nat /\ n < MaxChannels
  BY SequenceFacts, BtIoAssumption DEF StateOK
<1>2. /\ Sequence(r) /\ Len(r) = n /\ DOMAIN r = 1..n
      /\ \A c \in 1..n :
           /\ ChannelOK(r[c]) /\ r[c].fd = cs[c].fd /\ r[c].open = cs[c].open
           /\ cs[c].fd # fd => r[c].reused = cs[c].reused
           /\ cs[c].fd = fd /\ ~ cs[c].open => r[c].reused
  BY <1>1, ReusingFacts
<1> HIDE DEF r
<1>3. Sequence(t) /\ Len(t) = n + 1 /\ t[n + 1] = new /\ \A d \in 1..n : t[d] = r[d]
  BY <1>2, AppendSequence
<1>4. DOMAIN t = 1..(n + 1)
  BY <1>3, SequenceFacts
<1>5. tab \in [1..MaxChannels -> 0..n]
  BY DEF StateOK, Descriptors
<1>6. now \in [1..MaxChannels -> 0..(n + 1)] /\ now[fd] = n + 1
      /\ \A g \in 1..MaxChannels : g # fd => now[g] = tab[g]
  BY <1>1, <1>5
<1> HIDE DEF t, now
<1>7. Descriptors(t, now)
  <2>1. ASSUME NEW g \in 1..MaxChannels, now[g] # 0 PROVE t[now[g]].open /\ t[now[g]].fd = g
    <3>1. CASE g = fd
      BY <1>3, <1>6, <3>1
    <3>2. CASE g # fd
      <4>1. now[g] = tab[g] /\ tab[g] # 0
        BY <1>6, <2>1, <3>2
      <4>2. tab[g] \in 1..n /\ cs[tab[g]].open /\ cs[tab[g]].fd = g
        BY <1>1, <4>1, InTable
      <4> QED BY <1>2, <1>3, <4>1, <4>2
    <3> QED BY <3>1, <3>2
  <2> QED BY <1>3, <1>6, <2>1 DEF Descriptors
<1>8. ASSUME NEW d \in DOMAIN t PROVE ChannelOK(t[d]) /\ Stands(t[d], d, now)
  <2>1. CASE d = n + 1
    <3>1. Stands(new, n + 1, now)
      BY <1>6 DEF Stands
    <3> QED BY <1>3, <2>1, <3>1
  <2>2. CASE d # n + 1
    <3>1. d \in 1..n
      BY <1>1, <1>4, <2>2
    <3>2. ChannelOK(cs[d]) /\ Stands(cs[d], d, tab) /\ cs[d].fd \in 1..MaxChannels
      <4>1. ChannelOK(cs[d]) /\ Stands(cs[d], d, tab)
        BY <1>1, <3>1 DEF StateOK
      <4> QED BY <4>1 DEF ChannelOK, Shape
    <3>3. t[d] = r[d] /\ d # 0
      BY <1>3, <3>1
    <3>4. CASE cs[d].fd = fd
      <4>1. ~ cs[d].open
        BY <3>2, <3>3, <3>4 DEF Stands
      <4> QED BY <1>2, <3>1, <3>3, <3>4, <4>1 DEF Stands
    <3>5. CASE cs[d].fd # fd
      <4>1. now[cs[d].fd] = tab[cs[d].fd]
        BY <1>6, <3>2, <3>5
      <4> QED BY <1>2, <3>1, <3>2, <3>3, <3>5, <4>1 DEF Stands
    <3> QED BY <3>4, <3>5
  <2> QED BY <2>1, <2>2
<1>9. Len(t) <= MaxChannels
  BY <1>1, <1>3
<1>10. StateOK(t, now)
  BY <1>3, <1>7, <1>8, <1>9 DEF StateOK
<1> QED BY <1>10 DEF t, r, now

----------------------------------------------------------------------------
(* What the steps do to a channel.                                           *)

(* The fields that the invariant is about are the same. *)
Alike(r, ch) ==
    /\ DOMAIN r = DOMAIN ch
    /\ r.fd = ch.fd /\ r.refs = ch.refs /\ r.destroyed = ch.destroyed /\ r.watch = ch.watch
    /\ r.open = ch.open /\ r.started = ch.started /\ r.closed = ch.closed /\ r.late = ch.late
    /\ r.called = ch.called /\ r.state = ch.state /\ r.reused = ch.reused

LEMMA AlikeOK ==
    ASSUME NEW ch, ChannelOK(ch), NEW r, Alike(r, ch)
    PROVE  ChannelOK(r) /\ r.fd = ch.fd /\ r.reused = ch.reused /\ r.open = ch.open
<1>1. Shape(r)
  BY DEF Alike, ChannelOK, Shape
<1>2. Watched(r)
  BY DEF Alike, ChannelOK, Watched
<1>3. CalledBack(r)
  BY DEF Alike, ChannelOK, CalledBack
<1> QED BY <1>1, <1>2, <1>3 DEF ChannelOK, Alike

(* A channel as it is kept whatever happens to its watch. *)
Kept(r, ch) == r.fd = ch.fd /\ r.reused = ch.reused /\ (r.open => ch.open)

LEMMA SocketOK ==
    ASSUME NEW ch, ChannelOK(ch), NEW x
    PROVE  Alike([ch EXCEPT !.socket = x], ch) /\ Alike([ch EXCEPT !.waiting = x], ch)
           /\ Alike([ch EXCEPT !.confirm = x], ch)
<1>1. DOMAIN ch = ChanFields
  BY DEF ChannelOK, Shape
<1> QED BY <1>1 DEF Alike, ChanFields

LEMMA MadeOK ==
    ASSUME NEW type, NEW fd \in 1..MaxChannels, NEW socket, NEW state, NEW watch \in WatchNames,
           watch = "server_cb" <=> state = "listening"
    PROVE  LET r == Channel(type, fd, socket, state, watch) IN
           ChannelOK(r) /\ r.fd = fd /\ r.open
<1> DEFINE r == Channel(type, fd, socket, state, watch)
<1>1. PICK s \in BOOLEAN : s = (watch # "none")
  OBVIOUS
<1>2. /\ DOMAIN r = ChanFields
      /\ r.fd = fd /\ r.refs = (IF watch = "none" THEN 1 ELSE 2) /\ r.destroyed = 0 /\ r.watch = watch
      /\ r.open = TRUE /\ r.started = s /\ r.closed = FALSE /\ r.late = FALSE
      /\ r.called = <<>> /\ r.state = state /\ r.reused = FALSE
  BY <1>1 DEF Channel, ChanFields
<1> HIDE DEF r
<1>3. Shape(r)
  <2>1. r.refs \in 0..2 /\ r.destroyed \in Nat
    BY <1>2
  <2>2. r.open \in BOOLEAN /\ r.started \in BOOLEAN /\ r.closed \in BOOLEAN
        /\ r.late \in BOOLEAN /\ r.reused \in BOOLEAN
    BY <1>2
  <2> QED BY <1>2, <2>1, <2>2 DEF Shape
<1>4. Watched(r)
  <2>1. (r.open <=> r.refs > 0 /\ ~ r.closed) /\ (r.watch = "none" => r.refs <= 1)
        /\ r.refs > 0
    BY <1>2
  <2>2. r.watch # "none" => r.started
    BY <1>1, <1>2
  <2>3. r.watch = "server_cb" <=> r.state = "listening" /\ r.watch # "none"
    BY <1>2
  <2> QED BY <1>2, <2>1, <2>2, <2>3 DEF Watched
<1>5. CalledBack(r)
  <2>1. <<>> # <<TRUE>> /\ <<>> # <<FALSE>>
    OBVIOUS
  <2> QED BY <1>1, <1>2, <2>1 DEF CalledBack
<1> QED BY <1>2, <1>3, <1>4, <1>5 DEF ChannelOK, r

LEMMA AcceptedOK ==
    ASSUME NEW ch, ChannelOK(ch), ch.open, ~ ch.started, NEW to, to # "listening",
           NEW r, r = [ch EXCEPT !.state = to, !.watch = "accept_cb", !.started = TRUE,
                                 !.refs = @ + 1]
    PROVE  ChannelOK(r) /\ r.fd = ch.fd /\ r.reused = ch.reused /\ r.open = ch.open
<1>1. DOMAIN ch = ChanFields
  BY DEF ChannelOK, Shape
<1>2. ch.watch = "none" /\ ch.refs = 1 /\ ch.called = <<>> /\ ~ ch.closed /\ ~ ch.late
      /\ ch.destroyed = 0
  <2>1. ch.refs \in 0..2
    BY DEF ChannelOK, Shape
  <2>2. ch.watch = "none" /\ ch.refs = 1 /\ ~ ch.closed
    BY <2>1 DEF ChannelOK, Watched
  <2> QED BY <2>2 DEF ChannelOK, CalledBack
<1>3. /\ DOMAIN r = ChanFields
      /\ r.fd = ch.fd /\ r.refs = ch.refs + 1 /\ r.destroyed = ch.destroyed /\ r.watch = "accept_cb"
      /\ r.open = ch.open /\ r.started = TRUE /\ r.closed = ch.closed /\ r.late = ch.late
      /\ r.called = ch.called /\ r.state # "listening" /\ r.reused = ch.reused
  BY <1>1 DEF ChanFields
<1>4. Shape(r)
  <2>1. r.refs \in 0..2 /\ r.watch \in WatchNames
    BY <1>2, <1>3 DEF WatchNames
  <2>2. r.started \in BOOLEAN
    BY <1>3
  <2> QED BY <1>3, <2>1, <2>2 DEF Shape, ChannelOK
<1>5. Watched(r)
  BY <1>2, <1>3 DEF Watched
<1>6. CalledBack(r)
  <2>1. <<>> # <<TRUE>> /\ <<>> # <<FALSE>>
    OBVIOUS
  <2> QED BY <1>2, <1>3, <2>1 DEF CalledBack
<1> QED BY <1>3, <1>4, <1>5, <1>6 DEF ChannelOK

LEMMA UnreferencedOK ==
    ASSUME NEW ch, ChannelOK(ch), ch.refs > (IF ch.watch = "none" THEN 0 ELSE 1)
    PROVE  ChannelOK(Unreferenced(ch)) /\ Kept(Unreferenced(ch), ch)
<1> DEFINE r == Unreferenced(ch)
<1>1. DOMAIN ch = ChanFields /\ ch.refs \in 1..2 /\ ch.open \in BOOLEAN
  BY DEF ChannelOK, Shape
<1>2. PICK b \in BOOLEAN : b = (ch.open /\ ch.refs > 1)
  OBVIOUS
<1>3. /\ DOMAIN r = ChanFields
      /\ r.fd = ch.fd /\ r.refs = ch.refs - 1 /\ r.destroyed = ch.destroyed /\ r.watch = ch.watch
      /\ r.open = b /\ r.started = ch.started /\ r.closed = ch.closed /\ r.late = ch.late
      /\ r.called = ch.called /\ r.state = ch.state /\ r.reused = ch.reused
  BY <1>1, <1>2 DEF Unreferenced, ChanFields
<1> HIDE DEF r
<1>4. Shape(r)
  <2>1. r.refs \in 0..2
    BY <1>1, <1>3
  <2> QED BY <1>3, <2>1 DEF Shape, ChannelOK
<1>5. Watched(r)
  <2>1. ch.open <=> ch.refs > 0 /\ ~ ch.closed
    BY DEF ChannelOK, Watched
  <2>2. r.open <=> r.refs > 0 /\ ~ r.closed
    <3>1. r.open <=> ch.open /\ ch.refs > 1
      BY <1>2, <1>3
    <3>2. (r.refs > 0 <=> ch.refs > 1) /\ ch.refs > 0
      BY <1>1, <1>3
    <3> QED BY <1>3, <2>1, <3>1, <3>2
  <2>3. (r.watch = "none" => r.refs <= 1) /\ (r.watch # "none" => r.refs > 0)
    BY <1>1, <1>3 DEF ChannelOK, Watched
  <2> QED BY <1>3, <2>2, <2>3 DEF Watched, ChannelOK
<1>6. CalledBack(r)
  BY <1>3 DEF CalledBack, ChannelOK
<1> QED BY <1>2, <1>3, <1>4, <1>5, <1>6 DEF ChannelOK, Kept, r

LEMMA ShutOK ==
    ASSUME NEW ch, ChannelOK(ch), NEW r, r = [ch EXCEPT !.open = FALSE, !.closed = TRUE]
    PROVE  ChannelOK(r) /\ Kept(r, ch)
<1>1. DOMAIN ch = ChanFields
  BY DEF ChannelOK, Shape
<1>2. /\ DOMAIN r = ChanFields
      /\ r.fd = ch.fd /\ r.refs = ch.refs /\ r.destroyed = ch.destroyed /\ r.watch = ch.watch
      /\ r.open = FALSE /\ r.started = ch.started /\ r.closed = TRUE /\ r.late = ch.late
      /\ r.called = ch.called /\ r.state = ch.state /\ r.reused = ch.reused
  BY <1>1 DEF ChanFields
<1>3. Shape(r)
  BY <1>2 DEF Shape, ChannelOK
<1>4. Watched(r)
  BY <1>2 DEF Watched, ChannelOK
<1>5. CalledBack(r)
  BY <1>2 DEF CalledBack, ChannelOK
<1> QED BY <1>2, <1>3, <1>4, <1>5 DEF ChannelOK, Kept

(* The watch ends without its callback on a channel the user has closed. *)
LEMMA RemovedOK ==
    ASSUME NEW ch, ChannelOK(ch), ch.watch # "none", ch.closed \/ ch.state = "listening"
    PROVE  ChannelOK(Removed(ch)) /\ Kept(Removed(ch), ch)
<1> DEFINE w == [ch EXCEPT !.watch = "none", !.destroyed = @ + 1]
           r == Removed(ch)
<1>1. DOMAIN ch = ChanFields /\ ch.refs \in 1..2 /\ ch.open \in BOOLEAN
  BY DEF ChannelOK, Shape, Watched
<1>2. PICK b \in BOOLEAN : b = (ch.open /\ ch.refs > 1)
  OBVIOUS
<1>3. /\ DOMAIN w = ChanFields
      /\ w.fd = ch.fd /\ w.refs = ch.refs /\ w.destroyed = ch.destroyed + 1 /\ w.watch = "none"
      /\ w.open = ch.open /\ w.started = ch.started /\ w.closed = ch.closed /\ w.late = ch.late
      /\ w.called = ch.called /\ w.state = ch.state /\ w.reused = ch.reused
  BY <1>1 DEF ChanFields
<1>4. r = Unreferenced(w)
  BY DEF Removed
<1> HIDE DEF w, r
<1>5. /\ DOMAIN r = ChanFields
      /\ r.fd = ch.fd /\ r.refs = ch.refs - 1 /\ r.destroyed = ch.destroyed + 1 /\ r.watch = "none"
      /\ r.open = b /\ r.started = ch.started /\ r.closed = ch.closed /\ r.late = ch.late
      /\ r.called = ch.called /\ r.state = ch.state /\ r.reused = ch.reused
  BY <1>1, <1>2, <1>3, <1>4 DEF Unreferenced, ChanFields
<1>6. ch.started /\ ch.called = <<>> /\ ch.destroyed = 0
  <2>1. ch.started /\ ch.called = <<>>
    BY DEF ChannelOK, Watched
  <2> QED BY <2>1 DEF ChannelOK, CalledBack
<1>7. Shape(r)
  <2>1. r.refs \in 0..2 /\ r.destroyed \in Nat /\ r.watch \in WatchNames
    BY <1>1, <1>5, <1>6 DEF WatchNames
  <2> QED BY <1>5, <2>1 DEF Shape, ChannelOK
<1>8. Watched(r)
  <2>1. ch.open <=> ch.refs > 0 /\ ~ ch.closed
    BY DEF ChannelOK, Watched
  <2>2. r.open <=> r.refs > 0 /\ ~ r.closed
    <3>1. r.open <=> ch.open /\ ch.refs > 1
      BY <1>2, <1>5
    <3>2. (r.refs > 0 <=> ch.refs > 1) /\ ch.refs > 0
      BY <1>1, <1>5
    <3> QED BY <1>5, <2>1, <3>1, <3>2
  <2>3. r.refs <= 1
    BY <1>1, <1>5
  <2> QED BY <1>5, <2>2, <2>3 DEF Watched
<1>9. CalledBack(r)
  <2>1. <<>> # <<TRUE>> /\ <<>> # <<FALSE>>
    OBVIOUS
  <2>2. r.destroyed = 1 /\ r.started
    BY <1>5, <1>6
  <2>3. ~ r.late
    BY <1>5, <1>6 DEF ChannelOK, CalledBack
  <2> QED BY <1>5, <1>6, <2>1, <2>2, <2>3 DEF CalledBack
<1> QED BY <1>2, <1>5, <1>7, <1>8, <1>9 DEF ChannelOK, Kept, r

(* The watch ends with its callback, for a reason. *)
LEMMA CalledOK ==
    ASSUME NEW ch, ChannelOK(ch), ch.watch \in {"connect_cb", "accept_cb"}, NEW e \in BOOLEAN,
           e => ch.state = "failed" \/ ch.reused,
           ~ e => ch.state \in {"connected", "hungup"} \/ ch.reused,
           ch.closed => ch.reused
    PROVE  ChannelOK(Removed(Called(ch, e))) /\ Kept(Removed(Called(ch, e)), ch)
<1> DEFINE v == Called(ch, e)
           w == [v EXCEPT !.watch = "none", !.destroyed = @ + 1]
           r == Removed(v)
<1>1. DOMAIN ch = ChanFields /\ ch.refs \in 1..2 /\ ch.open \in BOOLEAN /\ ch.closed \in BOOLEAN
  BY DEF ChannelOK, Shape, Watched
<1>2. PICK b \in BOOLEAN : b = (ch.open /\ ch.refs > 1)
  OBVIOUS
<1>3. ch.started /\ ch.called = <<>> /\ ch.destroyed = 0
  <2>1. ch.started /\ ch.called = <<>>
    BY DEF ChannelOK, Watched
  <2> QED BY <2>1 DEF ChannelOK, CalledBack
<1>4. Append(<<>>, e) = <<e>>
  OBVIOUS
<1>5. /\ DOMAIN v = ChanFields
      /\ v.fd = ch.fd /\ v.refs = ch.refs /\ v.destroyed = ch.destroyed /\ v.watch = ch.watch
      /\ v.open = ch.open /\ v.started = ch.started /\ v.closed = ch.closed /\ v.late = ch.closed
      /\ v.called = <<e>> /\ v.state = ch.state /\ v.reused = ch.reused
  BY <1>1, <1>3, <1>4 DEF Called, ChanFields
<1> HIDE DEF v
<1>6. /\ DOMAIN w = ChanFields
      /\ w.fd = ch.fd /\ w.refs = ch.refs /\ w.destroyed = ch.destroyed + 1 /\ w.watch = "none"
      /\ w.open = ch.open /\ w.started = ch.started /\ w.closed = ch.closed /\ w.late = ch.closed
      /\ w.called = <<e>> /\ w.state = ch.state /\ w.reused = ch.reused
  BY <1>5 DEF ChanFields
<1>7. r = Unreferenced(w)
  BY DEF Removed
<1> HIDE DEF w, r
<1>8. /\ DOMAIN r = ChanFields
      /\ r.fd = ch.fd /\ r.refs = ch.refs - 1 /\ r.destroyed = ch.destroyed + 1 /\ r.watch = "none"
      /\ r.open = b /\ r.started = ch.started /\ r.closed = ch.closed /\ r.late = ch.closed
      /\ r.called = <<e>> /\ r.state = ch.state /\ r.reused = ch.reused
  BY <1>1, <1>2, <1>6, <1>7 DEF Unreferenced, ChanFields
<1>9. Shape(r)
  <2>1. r.refs \in 0..2 /\ r.destroyed \in Nat /\ r.watch \in WatchNames
    BY <1>1, <1>3, <1>8 DEF WatchNames
  <2>2. r.called \in {<<>>, <<TRUE>>, <<FALSE>>}
    BY <1>8
  <2>3. ch.fd \in 1..MaxChannels /\ ch.started \in BOOLEAN /\ ch.reused \in BOOLEAN
    BY DEF ChannelOK, Shape
  <2> QED BY <1>1, <1>2, <1>8, <2>1, <2>2, <2>3 DEF Shape
<1>10. Watched(r)
  <2>1. ch.open <=> ch.refs > 0 /\ ~ ch.closed
    BY DEF ChannelOK, Watched
  <2>2. r.open <=> r.refs > 0 /\ ~ r.closed
    <3>1. r.open <=> ch.open /\ ch.refs > 1
      BY <1>2, <1>8
    <3>2. (r.refs > 0 <=> ch.refs > 1) /\ ch.refs > 0
      BY <1>1, <1>8
    <3> QED BY <1>8, <2>1, <3>1, <3>2
  <2>3. r.refs <= 1
    BY <1>1, <1>8
  <2> QED BY <1>8, <2>2, <2>3 DEF Watched
<1>11. CalledBack(r)
  <2>1. /\ r.called # <<>>
        /\ r.called = <<TRUE>> => e
        /\ r.called = <<FALSE>> => ~ e
    <3>1. <<e>> # <<>>
      OBVIOUS
    <3>2. <<e>> = <<TRUE>> => e = TRUE
      OBVIOUS
    <3>3. <<e>> = <<FALSE>> => e = FALSE
      OBVIOUS
    <3> QED BY <1>8, <3>1, <3>2, <3>3
  <2>2. r.destroyed = 1 /\ r.started
    BY <1>3, <1>8
  <2> QED BY <1>8, <2>1, <2>2 DEF CalledBack
<1> QED BY <1>2, <1>8, <1>9, <1>10, <1>11 DEF ChannelOK, Kept, r, v

(* The state of the socket moves, not to an end the callback did not report. *)
LEMMA MovedOK ==
    ASSUME NEW ch, ChannelOK(ch), NEW to, to # "listening", ch.state # "listening",
           ch.state # "failed",
           ch.state \in {"connected", "hungup"} => to \in {"connected", "hungup"},
           NEW r, r = [ch EXCEPT !.state = to]
    PROVE  ChannelOK(r) /\ r.fd = ch.fd /\ r.reused = ch.reused /\ r.open = ch.open
<1>1. DOMAIN ch = ChanFields
  BY DEF ChannelOK, Shape
<1>2. /\ DOMAIN r = ChanFields
      /\ r.fd = ch.fd /\ r.refs = ch.refs /\ r.destroyed = ch.destroyed /\ r.watch = ch.watch
      /\ r.open = ch.open /\ r.started = ch.started /\ r.closed = ch.closed /\ r.late = ch.late
      /\ r.called = ch.called /\ r.state = to /\ r.reused = ch.reused
  BY <1>1 DEF ChanFields
<1>3. Shape(r)
  BY <1>2 DEF Shape, ChannelOK
<1>4. Watched(r)
  BY <1>2 DEF Watched, ChannelOK
<1>5. CalledBack(r)
  BY <1>2 DEF CalledBack, ChannelOK
<1> QED BY <1>2, <1>3, <1>4, <1>5 DEF ChannelOK

----------------------------------------------------------------------------
(* The steps.                                                               *)

LEMMA ChannelFacts ==
    ASSUME BtIoInv, NEW c \in DOMAIN channels
    PROVE  ChannelOK(channels[c]) /\ Stands(channels[c], c, table)
  BY DEF BtIoInv, StateOK

LEMMA ReplaceStep ==
    ASSUME BtIoInv, NEW c \in DOMAIN channels, NEW x, ChannelOK(x), x.fd = channels[c].fd,
           x.reused = channels[c].reused, x.open = channels[c].open,
           channels' = [channels EXCEPT ![c] = x], table' = table
    PROVE  BtIoInv'
<1>1. StateOK([channels EXCEPT ![c] = x], table)
  BY Replaced DEF BtIoInv
<1>2. StateOK(channels', table')
  BY <1>1
<1> QED BY <1>2 DEF BtIoInv

LEMMA AlikeStep ==
    ASSUME BtIoInv, NEW c \in DOMAIN channels, NEW x, Alike(x, channels[c]),
           channels' = [channels EXCEPT ![c] = x], table' = table
    PROVE  BtIoInv'
<1>1. ChannelOK(x) /\ x.fd = channels[c].fd /\ x.reused = channels[c].reused
      /\ x.open = channels[c].open
  BY ChannelFacts, AlikeOK
<1> QED BY <1>1, ReplaceStep

LEMMA LetGoStep ==
    ASSUME BtIoInv, NEW c \in DOMAIN channels, NEW x, ChannelOK(x), Kept(x, channels[c]),
           Now([channels EXCEPT ![c] = x])
    PROVE  BtIoInv'
<1>1. PICK t : t = [channels EXCEPT ![c] = x]
  OBVIOUS
<1>2. PICK now : now = [fd \in DOMAIN table |->
                          IF table[fd] # 0 /\ t[table[fd]].open THEN table[fd] ELSE 0]
  OBVIOUS
<1>3. StateOK(t, now)
  BY <1>1, <1>2, LetGo DEF BtIoInv, Kept
<1>4. channels' = t /\ table' = now
  BY <1>1, <1>2 DEF Now
<1>5. StateOK(channels', table')
  BY <1>3, <1>4
<1> QED BY <1>5 DEF BtIoInv

(* A step that makes a channel, after one that counts less for no other. *)
LEMMA JoinStep ==
    ASSUME NEW cs, StateOK(cs, table), Len(cs) = Len(channels), BtIoInv, Me <= MaxChannels,
           NEW new, ChannelOK(new), new.fd = FreeFd, new.open,
           channels' = Append(Reusing(cs, FreeFd), new),
           table' = [table EXCEPT ![FreeFd] = Me]
    PROVE  BtIoInv'
<1>1. FreeFd \in 1..MaxChannels /\ table[FreeFd] = 0
  BY FreeIs
<1>2. Len(cs) < MaxChannels /\ Me = Len(cs) + 1
  BY SequenceFacts, BtIoAssumption DEF Me, StateOK
<1>3. PICK fd : fd = FreeFd
  OBVIOUS
<1>4. StateOK(Append(Reusing(cs, fd), new), [table EXCEPT ![fd] = Len(cs) + 1])
  BY <1>1, <1>2, <1>3, Joined
<1>5. StateOK(channels', table')
  BY <1>2, <1>3, <1>4
<1> QED BY <1>5 DEF BtIoInv

LEMMA SameStep ==
    ASSUME BtIoInv, channels' = channels, table' = table
    PROVE  BtIoInv'
<1>1. StateOK(channels', table')
  BY DEF BtIoInv
<1> QED BY <1>1 DEF BtIoInv

LEMMA ConnectKeeps ==
    ASSUME BtIoInv, NEW list, bt_io_connect(list)
    PROVE  BtIoInv'
<1> DEFINE o == parse_set_opts(list)
           made(n) == Connected(AfterSettings(Bound(o, FALSE), o.type, o, n), o)
<1>1. Me <= MaxChannels
  BY DEF bt_io_connect
<1>2. \/ NoChannel
      \/ \E n : /\ channels' = Append(Reusing(channels, FreeFd),
                                      Channel(o.type, FreeFd, made(n), "connecting", "connect_cb"))
                /\ table' = [table EXCEPT ![FreeFd] = Me]
  BY DEF bt_io_connect
<1> HIDE DEF o, made
<1>3. CASE NoChannel
  BY <1>3, SameStep DEF NoChannel
<1>4. ASSUME NEW n,
             channels' = Append(Reusing(channels, FreeFd),
                                Channel(o.type, FreeFd, made(n), "connecting", "connect_cb")),
             table' = [table EXCEPT ![FreeFd] = Me]
      PROVE  BtIoInv'
  <2>1. PICK new : new = Channel(o.type, FreeFd, made(n), "connecting", "connect_cb")
    OBVIOUS
  <2>2. FreeFd \in 1..MaxChannels
    BY <1>1, FreeIs
  <2>3. ChannelOK(new) /\ new.fd = FreeFd /\ new.open
    BY <2>1, <2>2, MadeOK DEF WatchNames
  <2>4. StateOK(channels, table)
    BY DEF BtIoInv
  <2> QED BY <1>1, <1>4, <2>1, <2>3, <2>4, JoinStep
<1> QED BY <1>2, <1>3, <1>4

LEMMA ListenKeeps ==
    ASSUME BtIoInv, NEW list, NEW confirm, bt_io_listen(list, confirm)
    PROVE  BtIoInv'
<1> DEFINE o == parse_set_opts(list)
           made(s) == Channel(o.type, FreeFd, s, "listening", "server_cb")
<1>1. Me <= MaxChannels
  BY DEF bt_io_listen
<1>2. \/ NoChannel
      \/ \E s : /\ channels' = Append(Reusing(channels, FreeFd), [made(s) EXCEPT !.confirm = confirm])
                /\ table' = [table EXCEPT ![FreeFd] = Me]
  BY DEF bt_io_listen
<1>3. ASSUME NEW s PROVE ChannelOK(made(s)) /\ made(s).fd = FreeFd /\ made(s).open
  <2>1. FreeFd \in 1..MaxChannels
    BY <1>1, FreeIs
  <2> QED BY <2>1, MadeOK DEF WatchNames
<1> HIDE DEF o, made
<1>4. CASE NoChannel
  BY <1>4, SameStep DEF NoChannel
<1>5. ASSUME NEW s,
             channels' = Append(Reusing(channels, FreeFd), [made(s) EXCEPT !.confirm = confirm]),
             table' = [table EXCEPT ![FreeFd] = Me]
      PROVE  BtIoInv'
  <2>1. PICK new : new = [made(s) EXCEPT !.confirm = confirm]
    OBVIOUS
  <2>2. ChannelOK(new) /\ new.fd = FreeFd /\ new.open
    <3>1. PICK ch : ch = made(s)
      OBVIOUS
    <3>2. ChannelOK(ch) /\ ch.fd = FreeFd /\ ch.open
      BY <1>3, <3>1
    <3>3. Alike(new, ch)
      BY <2>1, <3>1, <3>2, SocketOK
    <3> QED BY <3>2, <3>3, AlikeOK
  <2>3. StateOK(channels, table)
    BY DEF BtIoInv
  <2> QED BY <1>1, <1>5, <2>1, <2>2, <2>3, JoinStep
<1> QED BY <1>2, <1>4, <1>5

LEMMA SetKeeps ==
    ASSUME BtIoInv, NEW c \in DOMAIN channels, NEW list, bt_io_set(c, list)
    PROVE  BtIoInv'
<1> DEFINE o == parse_set_opts(list)
<1>1. PICK n : channels' = [channels EXCEPT ![c].socket = AfterSettings(@, channels[c].type, o, n)]
  BY DEF bt_io_set
<1>2. table' = table
  BY DEF bt_io_set
<1>3. PICK s : s = AfterSettings(channels[c].socket, channels[c].type, o, n)
  OBVIOUS
<1>4. PICK x : x = [channels[c] EXCEPT !.socket = s]
  OBVIOUS
<1>5. Alike(x, channels[c])
  BY <1>4, ChannelFacts, SocketOK
<1>6. channels' = [channels EXCEPT ![c] = x]
  BY <1>1, <1>3, <1>4
<1> QED BY <1>2, <1>5, <1>6, AlikeStep

LEMMA AcceptKeeps ==
    ASSUME BtIoInv, NEW c \in DOMAIN channels, bt_io_accept(c)
    PROVE  BtIoInv'
<1>1. PICK ch : ch = channels[c]
  OBVIOUS
<1>2. PICK to : to = IF ch.state = "deferred" THEN "accepting" ELSE ch.state
  OBVIOUS
<1> DEFINE x == [ch EXCEPT !.state = to, !.watch = "accept_cb", !.started = TRUE, !.refs = @ + 1]
<1>3. ch.open /\ ~ ch.started /\ to # "listening"
  BY <1>1, <1>2 DEF bt_io_accept
<1>4. ChannelOK(ch)
  BY <1>1, ChannelFacts
<1>5. ChannelOK(x) /\ x.fd = ch.fd /\ x.reused = ch.reused /\ x.open = ch.open
  BY <1>3, <1>4, AcceptedOK
<1>6. channels' = [channels EXCEPT ![c] = x] /\ table' = table
  <2>1. DOMAIN ch = ChanFields
    BY <1>4 DEF ChannelOK, Shape
  <2>2. channels' = [channels EXCEPT
                       ![c].state = IF @ = "deferred" THEN "accepting" ELSE @,
                       ![c].watch = "accept_cb", ![c].started = TRUE, ![c].refs = @ + 1]
    BY DEF bt_io_accept
  <2>3. channels' = [channels EXCEPT ![c] = x]
    BY <1>1, <1>2, <2>2
  <2> QED BY <2>3 DEF bt_io_accept
<1> QED BY <1>1, <1>5, <1>6, ReplaceStep

LEMMA UnrefKeeps ==
    ASSUME BtIoInv, NEW c \in DOMAIN channels, g_io_channel_unref(c)
    PROVE  BtIoInv'
<1>1. PICK x : x = Unreferenced(channels[c])
  OBVIOUS
<1>2. channels[c].refs > (IF channels[c].watch = "none" THEN 0 ELSE 1)
  BY DEF g_io_channel_unref
<1>3. ChannelOK(x) /\ Kept(x, channels[c])
  BY <1>1, <1>2, ChannelFacts, UnreferencedOK
<1>4. Now([channels EXCEPT ![c] = x])
  BY <1>1 DEF g_io_channel_unref
<1> QED BY <1>3, <1>4, LetGoStep

LEMMA ShutdownKeeps ==
    ASSUME BtIoInv, NEW c \in DOMAIN channels, g_io_channel_shutdown(c)
    PROVE  BtIoInv'
<1>1. PICK x : x = [channels[c] EXCEPT !.open = FALSE, !.closed = TRUE]
  OBVIOUS
<1>2. ChannelOK(x) /\ Kept(x, channels[c])
  BY <1>1, ChannelFacts, ShutOK
<1>3. Now([channels EXCEPT ![c] = x])
  <2>1. Now([channels EXCEPT ![c].open = FALSE, ![c].closed = TRUE])
    BY DEF g_io_channel_shutdown
  <2> QED BY <1>1, <2>1
<1> QED BY <1>2, <1>3, LetGoStep

(* A watch whose number stands for no socket is one of a channel that was        *)
(* closed; one whose number stands for another's is one that was reused.        *)
LEMMA PolledFacts ==
    ASSUME BtIoInv, NEW c \in DOMAIN channels, channels[c].watch # "none"
    PROVE  /\ Nval(c) => channels[c].closed
           /\ ~ Nval(c) => Polled(c) = c \/ channels[c].reused
           /\ ~ Nval(c) /\ channels[c].closed => channels[c].reused
           /\ ~ Nval(c) => Polled(c) \in DOMAIN channels
<1>1. ChannelOK(channels[c]) /\ Stands(channels[c], c, table)
  BY ChannelFacts
<1>2. channels[c].refs > 0 /\ (channels[c].open <=> channels[c].refs > 0 /\ ~ channels[c].closed)
  BY <1>1 DEF ChannelOK, Watched
<1>3. c # 0 /\ channels[c].fd \in 1..MaxChannels
  BY <1>1, SequenceFacts DEF BtIoInv, StateOK, ChannelOK, Shape
<1>4. ~ Nval(c) => Polled(c) \in DOMAIN channels
  BY <1>3, InTable DEF BtIoInv, Nval, Polled
<1> QED BY <1>1, <1>2, <1>3, <1>4 DEF Stands, Nval, Polled

LEMMA NvalKeeps ==
    ASSUME BtIoInv, NEW c \in DOMAIN channels, channels[c].watch # "none", Nval(c),
           Now([channels EXCEPT ![c] = Removed(@)])
    PROVE  BtIoInv'
<1>1. PICK x : x = Removed(channels[c])
  OBVIOUS
<1>2. channels[c].closed
  BY PolledFacts
<1>3. ChannelOK(x) /\ Kept(x, channels[c])
  BY <1>1, <1>2, ChannelFacts, RemovedOK
<1>4. Now([channels EXCEPT ![c] = x])
  BY <1>1
<1> QED BY <1>3, <1>4, LetGoStep

LEMMA CallKeeps ==
    ASSUME BtIoInv, NEW c \in DOMAIN channels, channels[c].watch \in {"connect_cb", "accept_cb"},
           ~ Nval(c), Writable(c), NEW e \in BOOLEAN, e <=> SocketError(c),
           Now([channels EXCEPT ![c] = Removed(Called(@, e))])
    PROVE  BtIoInv'
<1>1. PICK x : x = Removed(Called(channels[c], e))
  OBVIOUS
<1>2. ChannelOK(channels[c])
  BY ChannelFacts
<1>3. Polled(c) = c \/ channels[c].reused
  BY PolledFacts
<1>4. /\ e => channels[c].state = "failed" \/ channels[c].reused
      /\ ~ e => channels[c].state \in {"connected", "hungup"} \/ channels[c].reused
  BY <1>3 DEF SocketError, Writable
<1>5. channels[c].closed => channels[c].reused
  BY PolledFacts
<1>6. ChannelOK(x) /\ Kept(x, channels[c])
  BY <1>1, <1>2, <1>4, <1>5, CalledOK
<1>7. Now([channels EXCEPT ![c] = x])
  BY <1>1
<1> QED BY <1>6, <1>7, LetGoStep

LEMMA ConnectCbKeeps ==
    ASSUME BtIoInv, NEW c \in DOMAIN channels, connect_cb(c)
    PROVE  BtIoInv'
<1>1. channels[c].watch = "connect_cb" /\ (Nval(c) \/ Writable(c))
  BY DEF connect_cb
<1>2. CASE Nval(c)
  <2>1. Now([channels EXCEPT ![c] = Removed(@)])
    BY <1>2 DEF connect_cb
  <2> QED BY <1>1, <1>2, <2>1, NvalKeeps
<1>3. CASE ~ Nval(c)
  <2>1. PICK e \in BOOLEAN : e = SocketError(c)
    BY DEF SocketError
  <2>2. Now([channels EXCEPT ![c] = Removed(Called(@, e))])
    BY <1>3, <2>1 DEF connect_cb
  <2> QED BY <1>1, <1>3, <2>1, <2>2, CallKeeps
<1> QED BY <1>2, <1>3

LEMMA AcceptCbKeeps ==
    ASSUME BtIoInv, NEW c \in DOMAIN channels, accept_cb(c)
    PROVE  BtIoInv'
<1>1. channels[c].watch = "accept_cb" /\ (Nval(c) \/ Writable(c))
  BY DEF accept_cb
<1>2. CASE Nval(c)
  <2>1. Now([channels EXCEPT ![c] = Removed(@)])
    BY <1>2 DEF accept_cb
  <2> QED BY <1>1, <1>2, <2>1, NvalKeeps
<1>3. CASE ~ Nval(c)
  <2>1. PICK e \in BOOLEAN : e = (HungUp(c) /\ SocketError(c))
    BY DEF SocketError, HungUp
  <2>2. e <=> SocketError(c)
    BY <1>1, <1>3, <2>1 DEF SocketError, HungUp, Nval
  <2>3. Now([channels EXCEPT ![c] = Removed(Called(@, e))])
    BY <1>3, <2>1 DEF accept_cb
  <2> QED BY <1>1, <1>3, <2>2, <2>3, CallKeeps
<1> QED BY <1>2, <1>3

LEMMA ServerCbKeeps ==
    ASSUME BtIoInv, NEW c \in DOMAIN channels, server_cb(c)
    PROVE  BtIoInv'
<1>1. channels[c].watch = "server_cb"
  BY DEF server_cb
<1> DEFINE less == [channels EXCEPT ![Polled(c)].waiting = @ - 1]
           state == IF channels[c].confirm THEN "deferred" ELSE "connected"
           new == Channel(channels[Polled(c)].type, FreeFd, channels[Polled(c)].socket, state, "none")
<1>2. \/ Nval(c) /\ Now([channels EXCEPT ![c] = Removed(@)])
      \/ /\ ~ Nval(c) /\ Me <= MaxChannels
         /\ channels' = Append(Reusing(less, FreeFd), new)
         /\ table' = [table EXCEPT ![FreeFd] = Me]
      \/ ~ Nval(c) /\ Now(less)
  BY DEF server_cb
<1>3. CASE Nval(c) /\ Now([channels EXCEPT ![c] = Removed(@)])
  BY <1>1, <1>3, NvalKeeps
<1>4. ASSUME ~ Nval(c)
      PROVE  \E x : /\ less = [channels EXCEPT ![Polled(c)] = x] /\ Alike(x, channels[Polled(c)])
                    /\ Polled(c) \in DOMAIN channels
  <2>1. Polled(c) \in DOMAIN channels
    BY <1>1, <1>4, PolledFacts
  <2>2. PICK p : p = Polled(c)
    OBVIOUS
  <2>3. PICK n : n = channels[p].waiting - 1
    OBVIOUS
  <2>4. PICK x : x = [channels[p] EXCEPT !.waiting = n]
    OBVIOUS
  <2>5. Alike(x, channels[p])
    BY <2>1, <2>2, <2>4, ChannelFacts, SocketOK
  <2>6. less = [channels EXCEPT ![p] = x]
    BY <2>2, <2>3, <2>4
  <2> QED BY <2>1, <2>2, <2>5, <2>6
<1>5. ASSUME ~ Nval(c), Now(less) PROVE BtIoInv'
  <2>1. PICK x : /\ less = [channels EXCEPT ![Polled(c)] = x] /\ Alike(x, channels[Polled(c)])
                 /\ Polled(c) \in DOMAIN channels
    BY <1>4, <1>5
  <2>2. ChannelOK(x) /\ Kept(x, channels[Polled(c)])
    BY <2>1, ChannelFacts, AlikeOK DEF Kept
  <2> HIDE DEF less
  <2>3. Now([channels EXCEPT ![Polled(c)] = x])
    BY <1>5, <2>1
  <2> QED BY <2>1, <2>2, <2>3, LetGoStep
<1>6. ASSUME ~ Nval(c), Me <= MaxChannels,
             channels' = Append(Reusing(less, FreeFd), new),
             table' = [table EXCEPT ![FreeFd] = Me]
      PROVE  BtIoInv'
  <2>1. PICK x : /\ less = [channels EXCEPT ![Polled(c)] = x] /\ Alike(x, channels[Polled(c)])
                 /\ Polled(c) \in DOMAIN channels
    BY <1>4, <1>6
  <2>2. PICK cs : cs = less
    OBVIOUS
  <2>3. StateOK(cs, table) /\ Len(cs) = Len(channels)
    <3>1. PICK p \in DOMAIN channels : p = Polled(c)
      BY <2>1
    <3>2. ChannelOK(x) /\ x.fd = channels[p].fd /\ x.reused = channels[p].reused
          /\ x.open = channels[p].open
      BY <2>1, <3>1, ChannelFacts, AlikeOK
    <3>3. cs = [channels EXCEPT ![p] = x]
      BY <2>1, <2>2, <3>1
    <3>4. StateOK([channels EXCEPT ![p] = x], table)
      BY <3>2, Replaced DEF BtIoInv
    <3>5. Len([channels EXCEPT ![p] = x]) = Len(channels)
      BY ExceptSequence DEF BtIoInv, StateOK
    <3> QED BY <3>3, <3>4, <3>5
  <2>4. ChannelOK(new) /\ new.fd = FreeFd /\ new.open
    <3>1. FreeFd \in 1..MaxChannels
      BY <1>6, FreeIs
    <3>2. state # "listening"
      OBVIOUS
    <3> HIDE DEF state
    <3> QED BY <3>1, <3>2, MadeOK DEF WatchNames
  <2> HIDE DEF less, new
  <2> QED BY <1>6, <2>2, <2>3, <2>4, JoinStep
<1> QED BY <1>2, <1>3, <1>5, <1>6

LEMMA KernelKeeps ==
    ASSUME BtIoInv, NEW c \in DOMAIN channels,
           ConnectionMade(c) \/ ConnectionFails(c) \/ PeerHangsUp(c)
    PROVE  BtIoInv'
<1>1. PICK to : /\ channels' = [channels EXCEPT ![c].state = to] /\ table' = table
                /\ to # "listening" /\ channels[c].state # "listening"
                /\ channels[c].state # "failed"
                /\ channels[c].state \in {"connected", "hungup"} => to \in {"connected", "hungup"}
  BY DEF ConnectionMade, ConnectionFails, PeerHangsUp, KernelMoves
<1>2. PICK x : x = [channels[c] EXCEPT !.state = to]
  OBVIOUS
<1>3. ChannelOK(x) /\ x.fd = channels[c].fd /\ x.reused = channels[c].reused
      /\ x.open = channels[c].open
  BY <1>1, <1>2, ChannelFacts, MovedOK
<1>4. channels' = [channels EXCEPT ![c] = x]
  BY <1>1, <1>2
<1> QED BY <1>1, <1>3, <1>4, ReplaceStep

LEMMA PeerKeeps ==
    ASSUME BtIoInv, NEW c \in DOMAIN channels, PeerConnects(c)
    PROVE  BtIoInv'
<1>1. PICK x : x = [channels[c] EXCEPT !.waiting = 1]
  OBVIOUS
<1>2. Alike(x, channels[c])
  BY <1>1, ChannelFacts, SocketOK
<1>3. channels' = [channels EXCEPT ![c] = x] /\ table' = table
  BY <1>1 DEF PeerConnects
<1> QED BY <1>2, <1>3, AlikeStep

----------------------------------------------------------------------------
(* What follows.                                                            *)

LEMMA AtFirst == ASSUME Init PROVE BtIoInv
<1>1. channels = <<>> /\ table = [fd \in 1..MaxChannels |-> 0]
  BY DEF Init
<1>2. Sequence(channels) /\ Len(channels) = 0 /\ DOMAIN channels = {}
  BY <1>1, EmptySequence
<1>3. Descriptors(channels, table)
  BY <1>1, <1>2 DEF Descriptors
<1>4. Len(channels) <= MaxChannels
  BY <1>2, BtIoAssumption
<1> QED BY <1>2, <1>3, <1>4 DEF BtIoInv, StateOK

LEMMA StepKeeps == ASSUME BtIoInv, [Next]_vars PROVE BtIoInv'
<1>1. ASSUME NEW list \in ConnectLists,
             bt_io_connect(list) \/ (\E confirm \in BOOLEAN : bt_io_listen(list, confirm))
      PROVE  BtIoInv'
  BY <1>1, ConnectKeeps, ListenKeeps
<1>2. ASSUME NEW c \in DOMAIN channels, Watches(c) PROVE BtIoInv'
  BY <1>2, ConnectCbKeeps, AcceptCbKeeps, ServerCbKeeps DEF Watches
<1>3. CASE UNCHANGED vars
  BY <1>3, SameStep DEF vars
<1> QED BY <1>1, <1>2, <1>3, SetKeeps, AcceptKeeps, UnrefKeeps, ShutdownKeeps, KernelKeeps, PeerKeeps
        DEF Next

LEMMA TypesFollow == ASSUME BtIoInv PROVE TypeOK
<1>1. ASSUME NEW c \in DOMAIN channels
      PROVE  /\ channels[c].refs \in 0..3 /\ channels[c].destroyed \in Nat
             /\ channels[c].watch \in {"none", "connect_cb", "accept_cb", "server_cb"}
             /\ channels[c].open => table[channels[c].fd] = c
             /\ channels[c].watch # "none" => channels[c].refs > 0
  <2>1. ChannelOK(channels[c]) /\ Stands(channels[c], c, table)
    BY ChannelFacts
  <2>2. channels[c].refs \in 0..2
    BY <2>1 DEF ChannelOK, Shape
  <2>3. channels[c].refs \in 0..3
    BY <2>2
  <2> QED BY <2>1, <2>3 DEF ChannelOK, Shape, Watched, Stands, WatchNames
<1>2. ASSUME NEW fd \in DOMAIN table PROVE table[fd] \in 0..Len(channels)
  BY DEF BtIoInv, StateOK, Descriptors
<1> QED BY <1>1, <1>2 DEF TypeOK

LEMMA CallbackFollows == ASSUME BtIoInv PROVE OneCallback
<1> SUFFICES ASSUME NEW c \in DOMAIN channels, channels[c].started, channels[c].state # "listening"
             PROVE  LET ch == channels[c] IN
                    /\ Len(ch.called) <= 1
                    /\ ch.destroyed = IF ch.watch = "none" THEN 1 ELSE 0
                    /\ ch.watch = "none" /\ ~ ch.closed => Len(ch.called) = 1
                    /\ ~ ch.late \/ ch.reused
                    /\ ch.called = <<FALSE>> => ch.state \in {"connected", "hungup"} \/ ch.reused
                    /\ ch.called = <<TRUE>> => ch.state = "failed" \/ ch.reused
  BY DEF OneCallback
<1>1. PICK ch : ch = channels[c]
  OBVIOUS
<1>2. ChannelOK(ch)
  BY <1>1, ChannelFacts
<1>3. ch.called \in {<<>>, <<TRUE>>, <<FALSE>>}
  BY <1>2 DEF ChannelOK, Shape
<1>4. Len(ch.called) <= 1 /\ (ch.called # <<>> => Len(ch.called) = 1)
  <2>1. CASE ch.called = <<>>
    <3>1. Len(<<>>) = 0
      OBVIOUS
    <3>2. Len(ch.called) = 0
      BY <2>1, <3>1
    <3> QED BY <2>1, <3>2
  <2>2. CASE ch.called \in {<<TRUE>>, <<FALSE>>}
    <3>1. \A b : Len(<<b>>) = 1
      OBVIOUS
    <3>2. Len(ch.called) = 1
      BY <2>2, <3>1
    <3> QED BY <3>2
  <2> QED BY <1>3, <2>1, <2>2
<1>5. ch.watch = "none" /\ ~ ch.closed => ch.called # <<>>
  BY <1>1, <1>2 DEF ChannelOK, CalledBack
<1>6. ch.destroyed = IF ch.watch = "none" THEN 1 ELSE 0
  BY <1>1, <1>2 DEF ChannelOK, CalledBack
<1>7. /\ ~ ch.late \/ ch.reused
      /\ ch.called = <<FALSE>> => ch.state \in {"connected", "hungup"} \/ ch.reused
      /\ ch.called = <<TRUE>> => ch.state = "failed" \/ ch.reused
  BY <1>2 DEF ChannelOK, CalledBack
<1>8. ch.watch = "none" /\ ~ ch.closed => Len(ch.called) = 1
  BY <1>4, <1>5
<1> QED BY <1>1, <1>4, <1>6, <1>7, <1>8

(* What a descriptor stands for and what the history of a channel tells is the    *)
(* same, whatever is closed, hung up, refused or reused.                       *)
THEOREM Inductive == Spec => []BtIoInv
<1>1. Init => BtIoInv
  BY AtFirst
<1>2. BtIoInv /\ [Next]_vars => BtIoInv'
  BY StepKeeps
<1> QED BY <1>1, <1>2, PTL DEF Spec

(* A channel that is open has its own descriptor and one that is watched a        *)
(* reference: the types of the channels of btio.c.                             *)
THEOREM Types == Spec => []TypeOK
<1>1. BtIoInv => TypeOK
  BY TypesFollow
<1> QED BY <1>1, Inductive, PTL

(* connect_cb and accept_cb call back once and with an error exactly when there    *)
(* was none to connect to, then destroy once; on a channel the user has closed     *)
(* they only destroy, unless its descriptor was reused.                          *)
THEOREM CallsBackOnce == Spec => []OneCallback
<1>1. BtIoInv => OneCallback
  BY CallbackFollows
<1> QED BY <1>1, Inductive, PTL
=============================================================================
