------------------------------ MODULE GattProofs ------------------------------
(***************************************************************************)
(* What is proved of Gatt, for every peer, every length of a PDU and any       *)
(* number of procedures at once: the types (Types), that each procedure calls    *)
(* back once (CallsBackOnce), that its object lives exactly as long as a         *)
(* request may use it (ObjectsAreExact), that a read reports the bytes of the    *)
(* value in their places and all of them (ReadsInOrder), that a write that       *)
(* reports success was written whole (WritesWhole), and that a discovery reports *)
(* what the peer has in the range and nothing else (DiscoveriesExact).          *)
(*                                                                         *)
(* The first three follow from how many commands of a procedure are in the       *)
(* queue (Count): one at most, except for a search for included services, which  *)
(* counts them in its references; and each callback leaves as many as the        *)
(* procedure it returns expects.  ReadsInOrder follows from where the bytes      *)
(* belong (Piece) that a command, a procedure, an attribute or the peer's        *)
(* prepare queue holds: each is a piece of a value at the offset it names.       *)
(* WritesWhole follows from what was prepared last for each place (LastPut):     *)
(* a write that is alone prepares each byte after all that was left behind.      *)
(* DiscoveriesExact follows from where a search stands (GotBelow): it has found  *)
(* all that begins below the handle its request asks from, and as the elements   *)
(* of a table lie apart, an answer moves that handle past just what it holds.    *)
(* A search for included services asks for the table and, next to it, for the    *)
(* UUIDs of what it holds: what the search has found and what its queries will   *)
(* find are disjoint, and together all that begins below (Gathered).             *)
(***************************************************************************)
EXTENDS Gatt, FiniteSetTheorems, FunctionTheorems, SequenceTheorems, WellFoundedInduction, TLAPS

----------------------------------------------------------------------------
(* Sequences whose elements have many types.                                 *)

Elements(s) == {s[i] : i \in DOMAIN s}
Sequence(s) == s \in Seq(Elements(s))

----------------------------------------------------------------------------
(* The invariant.                                                           *)

ProcFields ==
    { "kind", "uuid", "handle", "end", "value", "found", "offset", "err", "refs", "held",
      "reported", "flawed", "muted", "refused", "beside" }

CommandFields == {"proc", "ask", "from", "to", "data", "own", "func"}

(* The commands of a procedure in a queue. *)
Of(q, p) == {i \in DOMAIN q : q[i].proc = p}
Count(q, p) == Cardinality(Of(q, p))

Discoveries == {"primary", "primary_uuid", "char"}
Tables == {"primary", "primary_uuid", "include", "char"}

(* What a procedure that was begun asks. *)
Belongs(ask, pr) ==
    \/ ask \in Discoveries \cup {"single"} /\ pr.kind = ask
    \/ ask \in {"include", "resolve"} /\ pr.kind = "include"
    \/ ask \in {"read", "blob"} /\ pr.kind = "read"
    \/ ask = "write" /\ pr.kind = "write" /\ FitsOnePdu(pr.value)
    \/ ask \in {"prepare", "execute"} /\ pr.kind = "write"

CommandOK(c, pr) ==
    /\ DOMAIN c = CommandFields /\ Belongs(c.ask, pr) /\ ~ pr.refused
    /\ c.from \in 0..MaxHandle
    /\ c.ask \in Tables => c.from # 0
    /\ c.func \in BOOLEAN
    /\ pr.kind # "include" => (c.func <=> ~ pr.muted)
    /\ c.ask = "resolve" => c.func /\ ~ c.own
    /\ c.ask = "prepare" /\ ~ pr.flawed /\ ~ pr.muted => pr.held
    /\ c.ask = "execute" => ~ pr.held

(* A procedure that began and has n commands in the queue. *)
Running(pr, n) ==
    /\ pr.kind # "include" => n <= 1
    /\ n > 0 => pr.reported = <<>>
    /\ n = 0 /\ (pr.muted => pr.kind = "include") => Len(pr.reported) = 1
    /\ pr.muted /\ pr.kind # "include" => pr.reported = <<>>
    /\ pr.kind \in {"include", "read"} => pr.refs = n /\ (pr.held <=> n > 0)
    /\ pr.kind \in Discoveries /\ ~ pr.muted => (pr.held <=> n > 0)
    /\ pr.kind = "write" /\ n = 0 /\ ~ pr.muted /\ ~ pr.flawed => ~ pr.held
    /\ ~ HasObject(pr) => ~ pr.held

ProcOK(pr, n) ==
    /\ DOMAIN pr = ProcFields /\ pr.kind \in Kinds /\ pr.kind \in AllKinds
    /\ pr.handle \in 1..MaxHandle /\ pr.end \in 1..MaxHandle /\ pr.refs \in Nat
    /\ pr.held \in BOOLEAN /\ pr.muted \in BOOLEAN /\ pr.refused \in BOOLEAN /\ pr.flawed \in BOOLEAN
    /\ pr.refused => n = 0 /\ pr.reported = <<>> /\ ~ pr.muted
    /\ ~ pr.refused => Running(pr, n)

Commands(q, ps) ==
    \A i \in DOMAIN q : q[i].proc \in DOMAIN ps /\ CommandOK(q[i], ps[q[i].proc])

Procedures(q, ps) == \A p \in DOMAIN ps : ProcOK(ps[p], Count(q, p))

QueueInv ==
    /\ Sequence(queue) /\ Sequence(procs)
    /\ Commands(queue, procs) /\ Procedures(queue, procs)

ChannelInv ==
    /\ channel \in {"open", "failing", "stale"} /\ sent \in BOOLEAN
    /\ sent => queue # <<>> /\ channel = "open"

GattInv == QueueInv /\ ChannelInv

----------------------------------------------------------------------------
(* Sequences.                                                               *)

LEMMA SequenceIs ==
    ASSUME NEW S, NEW s \in Seq(S)
    PROVE  Sequence(s) /\ Elements(s) \subseteq S
<1>1. \A i \in 1..Len(s) : s[i] \in Elements(s)
  BY DEF Elements
<1>2. s \in [1..Len(s) -> Elements(s)] /\ Len(s) \in Nat
  BY <1>1
<1>3. s \in Seq(Elements(s))
  BY <1>2
<1> QED BY <1>3 DEF Sequence, Elements

LEMMA SequenceIn ==
    ASSUME NEW s, Sequence(s), NEW T, Elements(s) \subseteq T
    PROVE  s \in Seq(T)
<1>1. s \in [1..Len(s) -> Elements(s)] /\ Len(s) \in Nat
  BY DEF Sequence
<1>2. s \in [1..Len(s) -> T]
  BY <1>1
<1> QED BY <1>1, <1>2

LEMMA EmptySequence == Sequence(<<>>)
  BY DEF Sequence

LEMMA SequenceFacts ==
    ASSUME NEW s, Sequence(s)
    PROVE  /\ Len(s) \in Nat /\ DOMAIN s = 1..Len(s)
           /\ s = <<>> <=> Len(s) = 0
  BY DEF Sequence

LEMMA SequenceConcat ==
    ASSUME NEW s, NEW t, Sequence(s), Sequence(t)
    PROVE  /\ Sequence(s \o t) /\ Len(s \o t) = Len(s) + Len(t)
           /\ \A i \in 1..Len(s) : (s \o t)[i] = s[i]
           /\ \A i \in 1..Len(t) : (s \o t)[Len(s) + i] = t[i]
           /\ \A i \in DOMAIN (s \o t) :
                 \/ i \in DOMAIN s /\ (s \o t)[i] = s[i]
                 \/ \E j \in DOMAIN t : i = Len(s) + j /\ (s \o t)[i] = t[j]
<1> DEFINE T == Elements(s) \cup Elements(t)
<1>1. s \in Seq(T) /\ t \in Seq(T)
  <2>1. Elements(s) \subseteq T /\ Elements(t) \subseteq T
    OBVIOUS
  <2> QED BY <2>1, SequenceIn
<1> HIDE DEF T
<1>2. s \o t \in Seq(T)
  BY <1>1
<1>3. /\ Len(s \o t) = Len(s) + Len(t)
      /\ \A i \in 1..Len(s) : (s \o t)[i] = s[i]
      /\ \A i \in 1..Len(t) : (s \o t)[Len(s) + i] = t[i]
  BY <1>1
<1>4. ASSUME NEW i \in DOMAIN (s \o t)
      PROVE  \/ i \in DOMAIN s /\ (s \o t)[i] = s[i]
             \/ \E j \in DOMAIN t : i = Len(s) + j /\ (s \o t)[i] = t[j]
  <2>1. i \in 1..(Len(s) + Len(t)) /\ DOMAIN s = 1..Len(s) /\ DOMAIN t = 1..Len(t) /\ Len(s) \in Nat /\ Len(t) \in Nat
    BY <1>1, <1>2, <1>3
  <2>2. CASE i <= Len(s)
    <3>1. i \in 1..Len(s)
      BY <2>1, <2>2
    <3> QED BY <1>3, <2>1, <3>1
  <2>3. CASE ~ (i <= Len(s))
    <3>1. PICK j : j = i - Len(s)
      OBVIOUS
    <3>2. j \in 1..Len(t) /\ i = Len(s) + j
      BY <2>1, <2>3, <3>1
    <3> QED BY <1>3, <2>1, <3>2
  <2> QED BY <2>2, <2>3
<1> QED BY <1>2, <1>3, <1>4, SequenceIs

From(w, s, t) ==
    \A i \in DOMAIN w : (\E k \in DOMAIN s : w[i] = s[k]) \/ (\E k \in DOMAIN t : w[i] = t[k])

LEMMA ConcatFrom ==
    ASSUME NEW s, NEW t, Sequence(s), Sequence(t)
    PROVE  From(s \o t, s, t)
<1> PICK w : w = s \o t
  OBVIOUS
<1>1. \A i \in DOMAIN w : \/ i \in DOMAIN s /\ w[i] = s[i]
                          \/ \E j \in DOMAIN t : i = Len(s) + j /\ w[i] = t[j]
  BY SequenceConcat
<1> QED BY <1>1 DEF From

LEMMA SequenceOne ==
    ASSUME NEW x
    PROVE  Sequence(<<x>>) /\ Len(<<x>>) = 1 /\ DOMAIN <<x>> = {1} /\ <<x>>[1] = x
<1>1. <<x>> \in Seq({x})
  OBVIOUS
<1>2. Sequence(<<x>>)
  BY <1>1, SequenceIs
<1>3. Len(<<x>>) = 1 /\ <<x>>[1] = x
  OBVIOUS
<1>4. DOMAIN <<x>> = 1..1
  OBVIOUS
<1>5. 1..1 = {1}
  OBVIOUS
<1> QED BY <1>2, <1>3, <1>4, <1>5

LEMMA SequenceAppend ==
    ASSUME NEW s, NEW x, Sequence(s)
    PROVE  Append(s, x) = s \o <<x>>
<1> DEFINE T == Elements(s) \cup {x}
<1>1. s \in Seq(T) /\ x \in T
  <2>1. Elements(s) \subseteq T
    OBVIOUS
  <2> QED BY <2>1, SequenceIn
<1> HIDE DEF T
<1> QED BY <1>1, AppendIsConcat

LEMMA SequenceTail ==
    ASSUME NEW s, Sequence(s), s # <<>>
    PROVE  Sequence(Tail(s)) /\ s = <<s[1]>> \o Tail(s) /\ Len(Tail(s)) = Len(s) - 1 /\ 1 \in DOMAIN s
<1>1. s \in Seq(Elements(s))
  BY DEF Sequence
<1> DEFINE T == Elements(s)
<1> HIDE DEF T
<1>2. s \in Seq(T)
  BY <1>1 DEF T
<1> PICK n \in Nat : n = Len(s)
  BY <1>2
<1>3. n \in Nat \ {0} /\ DOMAIN s = 1..n
  BY <1>2, SequenceFacts
<1>4. /\ Tail(s) \in Seq(T) /\ Len(Tail(s)) = n - 1
      /\ \A i \in 1..(n - 1) : Tail(s)[i] = s[i + 1]
  BY <1>2, HeadTailProperties
<1>5. Sequence(Tail(s))
  BY <1>4, SequenceIs
<1>6. s[1] \in T /\ 1 \in DOMAIN s
  BY <1>2, <1>3
<1> DEFINE w == <<s[1]>> \o Tail(s)
<1>7. w \in Seq(T) /\ Len(w) = n /\ w[1] = s[1] /\ \A i \in 1..(n - 1) : w[1 + i] = Tail(s)[i]
  <2>1. <<s[1]>> \in Seq(T) /\ Len(<<s[1]>>) = 1 /\ <<s[1]>>[1] = s[1]
    BY <1>6
  <2>2. w \in Seq(T) /\ Len(w) = 1 + (n - 1)
    BY <1>4, <2>1, ConcatProperties
  <2>3. \A i \in 1..(1 + (n - 1)) : w[i] = IF i <= 1 THEN <<s[1]>>[i] ELSE Tail(s)[i - 1]
    BY <1>4, <2>1, ConcatProperties
  <2> HIDE DEF w
  <2>4. w[1] = s[1]
    <3>1. 1 \in 1..(1 + (n - 1)) /\ 1 <= 1
      BY <1>3
    <3> QED BY <2>1, <2>3, <3>1
  <2>5. \A i \in 1..(n - 1) : w[1 + i] = Tail(s)[i]
    <3>1. ASSUME NEW i \in 1..(n - 1) PROVE w[1 + i] = Tail(s)[i]
      <4>1. 1 + i \in 1..(1 + (n - 1)) /\ ~ (1 + i <= 1) /\ (1 + i) - 1 = i
        BY <1>3, <3>1
      <4> QED BY <2>3, <4>1
    <3> QED BY <3>1
  <2> QED BY <1>3, <2>2, <2>4, <2>5
<1> HIDE DEF w
<1>8. \A i \in 1..n : s[i] = w[i]
  <2>1. ASSUME NEW i \in 1..n PROVE s[i] = w[i]
    <3>1. CASE i = 1
      BY <1>7, <3>1
    <3>2. CASE i # 1
      <4>1. PICK j : j = i - 1
        OBVIOUS
      <4>2. j \in 1..(n - 1) /\ 1 + j = i /\ j + 1 = i
        BY <1>3, <3>2, <4>1
      <4>3. w[1 + j] = Tail(s)[j] /\ Tail(s)[j] = s[j + 1]
        BY <1>4, <1>7, <4>2
      <4> QED BY <4>2, <4>3
    <3> QED BY <3>1, <3>2
  <2> QED BY <2>1
<1>9. s = w
  <2>1. Len(s) = Len(w)
    BY <1>7
  <2> QED BY <1>2, <1>7, <1>8, <2>1, SeqEqual
<1> QED BY <1>4, <1>5, <1>6, <1>9 DEF w

(* What is left of a queue without one of its commands. *)
LEMMA SequenceParts ==
    ASSUME NEW s, Sequence(s), NEW i \in DOMAIN s
    PROVE  /\ Sequence(SubSeq(s, 1, i - 1)) /\ Sequence(SubSeq(s, i + 1, Len(s)))
           /\ Len(SubSeq(s, 1, i - 1)) = i - 1 /\ Len(SubSeq(s, i + 1, Len(s))) = Len(s) - i
           /\ \A j \in DOMAIN SubSeq(s, 1, i - 1) : j \in DOMAIN s /\ SubSeq(s, 1, i - 1)[j] = s[j]
           /\ \A j \in DOMAIN SubSeq(s, i + 1, Len(s)) :
                 i + j \in DOMAIN s /\ SubSeq(s, i + 1, Len(s))[j] = s[i + j]
           /\ s = SubSeq(s, 1, i - 1) \o (<<s[i]>> \o SubSeq(s, i + 1, Len(s)))
<1> PICK n \in Nat : n = Len(s)
  BY SequenceFacts
<1>1. s \in Seq(Elements(s)) /\ DOMAIN s = 1..n /\ i \in 1..n
  BY DEF Sequence
<1> DEFINE T == Elements(s)
           u == SubSeq(s, 1, i - 1)
           v == SubSeq(s, i + 1, n)
           w == <<s[i]>> \o v
<1>0. s \in Seq(T) /\ \A j \in 1..n : s[j] \in T
  BY <1>1 DEF Elements
<1> HIDE DEF T
<1>2. /\ u \in Seq(T) /\ Len(u) = i - 1 /\ \A j \in 1..(i - 1) : u[j] = s[j]
  <2>1. i - 1 \in Int /\ 1 \in Int /\ (\A j \in 1..(i - 1) : s[j] \in T) /\ i - 1 - 1 + 1 = i - 1
        /\ (1 <= i - 1 \/ i - 1 = 0) /\ \A j \in 1..(i - 1) : 1 + j - 1 = j
    BY <1>0, <1>1
  <2> QED BY <2>1, SubSeqProperties
<1>3. /\ v \in Seq(T) /\ Len(v) = n - i /\ \A j \in 1..(n - i) : v[j] = s[i + j]
  <2>1. i + 1 \in Int /\ n \in Int /\ (\A j \in (i + 1)..n : s[j] \in T) /\ n - (i + 1) + 1 = n - i
        /\ (i + 1 <= n \/ n - i = 0) /\ \A j \in 1..(n - i) : (i + 1) + j - 1 = i + j
    BY <1>0, <1>1
  <2> QED BY <2>1, SubSeqProperties
<1> HIDE DEF u, v
<1>4. /\ w \in Seq(T) /\ Len(w) = n - i + 1 /\ w[1] = s[i]
      /\ \A j \in 1..(n - i) : w[1 + j] = v[j]
  <2>1. s[i] \in T /\ <<s[i]>> \in Seq(T)
    BY <1>0, <1>1
  <2>2. Len(<<s[i]>>) = 1 /\ <<s[i]>>[1] = s[i]
    OBVIOUS
  <2>3. w \in Seq(T) /\ Len(w) = 1 + (n - i)
    BY <1>3, <2>1, <2>2, ConcatProperties
  <2>4. \A j \in 1..(1 + (n - i)) : w[j] = IF j <= 1 THEN <<s[i]>>[j] ELSE v[j - 1]
    BY <1>3, <2>1, <2>2, ConcatProperties
  <2> HIDE DEF w
  <2>5. w[1] = s[i]
    <3>1. 1 \in 1..(1 + (n - i)) /\ 1 <= 1
      BY <1>1
    <3> QED BY <2>2, <2>4, <3>1
  <2>6. \A j \in 1..(n - i) : w[1 + j] = v[j]
    <3>1. ASSUME NEW j \in 1..(n - i) PROVE w[1 + j] = v[j]
      <4>1. 1 + j \in 1..(1 + (n - i)) /\ ~ (1 + j <= 1) /\ (1 + j) - 1 = j
        BY <1>1, <3>1
      <4> QED BY <2>4, <4>1
    <3> QED BY <3>1
  <2>7. 1 + (n - i) = n - i + 1
    BY <1>1
  <2> QED BY <2>3, <2>5, <2>6, <2>7
<1> HIDE DEF w
<1>5. /\ u \o w \in Seq(T) /\ Len(u \o w) = n
      /\ \A j \in 1..(i - 1) : (u \o w)[j] = u[j]
      /\ \A j \in 1..(n - i + 1) : (u \o w)[i - 1 + j] = w[j]
  <2>1. u \o w \in Seq(T) /\ Len(u \o w) = (i - 1) + (n - i + 1)
    <3>1. u \in Seq(T) /\ w \in Seq(T) /\ Len(u) = i - 1 /\ Len(w) = n - i + 1
      BY <1>2, <1>4
    <3>2. u \o w \in Seq(T) /\ Len(u \o w) = Len(u) + Len(w)
      BY <3>1, ConcatProperties
    <3> QED BY <3>1, <3>2
  <2>2. \A j \in 1..((i - 1) + (n - i + 1)) : (u \o w)[j] = IF j <= i - 1 THEN u[j] ELSE w[j - (i - 1)]
    <3>1. u \in Seq(T) /\ w \in Seq(T) /\ Len(u) = i - 1 /\ Len(w) = n - i + 1
      BY <1>2, <1>4
    <3>2. \A j \in 1..(Len(u) + Len(w)) : (u \o w)[j] = IF j <= Len(u) THEN u[j] ELSE w[j - Len(u)]
      BY <3>1, ConcatProperties, Zenon
    <3> QED BY <3>1, <3>2, Zenon
  <2>3. (i - 1) + (n - i + 1) = n
    BY <1>1
  <2> DEFINE x == u \o w
  <2>4. \A j \in 1..n : x[j] = IF j <= i - 1 THEN u[j] ELSE w[j - (i - 1)]
    BY <2>2, <2>3
  <2> HIDE DEF x
  <2>5. \A j \in 1..(i - 1) : x[j] = u[j]
    <3>1. \A j \in 1..(i - 1) : j \in 1..n /\ j <= i - 1
      BY <1>1
    <3> QED BY <2>4, <3>1
  <2>6. \A j \in 1..(n - i + 1) : x[i - 1 + j] = w[j]
    <3>1. ASSUME NEW j \in 1..(n - i + 1) PROVE x[i - 1 + j] = w[j]
      <4>1. i - 1 + j \in 1..n /\ ~ (i - 1 + j <= i - 1) /\ (i - 1 + j) - (i - 1) = j
        BY <1>1, <3>1
      <4> QED BY <2>4, <4>1
    <3> QED BY <3>1
  <2> QED BY <2>1, <2>3, <2>5, <2>6 DEF x
<1> DEFINE x == u \o w
<1> HIDE DEF x
<1>6. \A j \in 1..n : s[j] = x[j]
  <2>1. ASSUME NEW j \in 1..n PROVE s[j] = x[j]
    <3>1. CASE j <= i - 1
      <4>1. j \in 1..(i - 1)
        BY <1>1, <3>1
      <4> QED BY <1>2, <1>5, <4>1 DEF x
    <3>2. CASE j = i
      <4>1. 1 \in 1..(n - i + 1) /\ i - 1 + 1 = i
        BY <1>1
      <4>2. x[i - 1 + 1] = w[1]
        BY <1>5, <4>1 DEF x
      <4> QED BY <1>4, <3>2, <4>1, <4>2
    <3>3. CASE j > i
      <4>1. PICK k : k = j - i
        OBVIOUS
      <4>2. k \in 1..(n - i) /\ 1 + k \in 1..(n - i + 1) /\ i - 1 + (1 + k) = j /\ i + k = j
        BY <1>1, <3>3, <4>1
      <4>3. x[i - 1 + (1 + k)] = w[1 + k]
        BY <1>5, <4>2 DEF x
      <4> QED BY <1>3, <1>4, <4>2, <4>3
    <3>4. j <= i - 1 \/ j = i \/ j > i
      BY <1>1, <2>1
    <3> QED BY <3>1, <3>2, <3>3, <3>4
  <2> QED BY <2>1
<1>7. s = u \o w
  <2>1. x \in Seq(T) /\ Len(s) = Len(x) /\ \A j \in 1..Len(s) : s[j] = x[j]
    BY <1>5, <1>6 DEF x
  <2>2. s = x
    BY <1>0, <2>1, SeqEqual
  <2> QED BY <2>2 DEF x
<1>8. /\ \A j \in DOMAIN u : j \in DOMAIN s /\ u[j] = s[j]
      /\ \A j \in DOMAIN v : i + j \in DOMAIN s /\ v[j] = s[i + j]
  <2>1. DOMAIN u = 1..(i - 1) /\ DOMAIN v = 1..(n - i)
    BY <1>2, <1>3
  <2>2. (\A j \in 1..(i - 1) : j \in 1..n) /\ (\A j \in 1..(n - i) : i + j \in 1..n)
    BY <1>1
  <2> QED BY <1>1, <1>2, <1>3, <2>1, <2>2
<1>9. Sequence(u) /\ Sequence(v)
  BY <1>2, <1>3, SequenceIs
<1> QED BY <1>2, <1>3, <1>7, <1>8, <1>9 DEF u, v, w

----------------------------------------------------------------------------
(* How many commands of a procedure there are.                               *)

LEMMA CountType ==
    ASSUME NEW q, Sequence(q), NEW p
    PROVE  /\ IsFiniteSet(Of(q, p)) /\ Count(q, p) \in Nat
           /\ Count(q, p) = 0 <=> Of(q, p) = {}
<1> PICK n \in Nat : n = Len(q)
  BY SequenceFacts
<1>1. DOMAIN q = 1..n /\ n \in Int /\ 1 \in Int
  BY SequenceFacts
<1>2. IsFiniteSet(1..n)
  BY <1>1, FS_Interval
<1>3. Of(q, p) \in SUBSET (1..n)
  BY <1>1 DEF Of
<1>4. IsFiniteSet(Of(q, p))
  BY <1>2, <1>3, FS_Subset
<1> QED BY <1>4, FS_CardinalityType, FS_EmptySet DEF Count

LEMMA CountEmpty ==
    ASSUME NEW p
    PROVE  Count(<<>>, p) = 0
<1>1. DOMAIN <<>> = {}
  OBVIOUS
<1>2. Of(<<>>, p) = {}
  BY <1>1 DEF Of
<1> QED BY <1>2, FS_EmptySet DEF Count

LEMMA CountConcat ==
    ASSUME NEW s, NEW t, Sequence(s), Sequence(t), NEW p
    PROVE  Count(s \o t, p) = Count(s, p) + Count(t, p)
<1> PICK n \in Nat : n = Len(s)
  BY SequenceFacts
<1> PICK m \in Nat : m = Len(t)
  BY SequenceFacts
<1> DEFINE w == s \o t
           moved == {n + j : j \in Of(t, p)}
<1>1. /\ Sequence(w) /\ Len(w) = n + m
      /\ \A i \in 1..n : w[i] = s[i]
      /\ \A i \in 1..m : w[n + i] = t[i]
  BY SequenceConcat
<1>2. DOMAIN s = 1..n /\ DOMAIN t = 1..m /\ DOMAIN w = 1..(n + m)
  BY <1>1, SequenceFacts
<1> HIDE DEF w
<1>3. Of(w, p) = Of(s, p) \cup moved
  <2>1. ASSUME NEW i \in Of(w, p) PROVE i \in Of(s, p) \cup moved
    <3>0. i \in 1..(n + m) /\ w[i].proc = p
      BY <1>2, <2>1 DEF Of
    <3>1. CASE i <= n
      <4>1. i \in 1..n
        BY <3>0, <3>1
      <4>2. i \in Of(s, p)
        BY <1>1, <1>2, <3>0, <4>1 DEF Of
      <4> QED BY <4>2
    <3>2. CASE ~ (i <= n)
      <4>1. PICK j : j = i - n
        OBVIOUS
      <4>2. j \in 1..m /\ n + j = i
        BY <3>0, <3>2, <4>1
      <4>3. j \in Of(t, p)
        BY <1>1, <1>2, <3>0, <4>2 DEF Of
      <4> QED BY <4>2, <4>3
    <3> QED BY <3>1, <3>2
  <2>2. ASSUME NEW i \in Of(s, p) PROVE i \in Of(w, p)
    <3>1. i \in 1..n /\ s[i].proc = p
      BY <1>2, <2>2 DEF Of
    <3>2. i \in 1..(n + m)
      BY <3>1
    <3> QED BY <1>1, <1>2, <3>1, <3>2 DEF Of
  <2>3. ASSUME NEW j \in Of(t, p) PROVE n + j \in Of(w, p)
    <3>1. j \in 1..m /\ t[j].proc = p
      BY <1>2, <2>3 DEF Of
    <3>2. n + j \in 1..(n + m)
      BY <3>1
    <3> QED BY <1>1, <1>2, <3>1, <3>2 DEF Of
  <2> QED BY <2>1, <2>2, <2>3
<1>4. Of(s, p) \cap moved = {}
  <2>1. ASSUME NEW j \in Of(t, p) PROVE n + j \notin Of(s, p)
    <3>1. j \in 1..m
      BY <1>2, <2>1 DEF Of
    <3>2. n + j \notin 1..n
      BY <3>1
    <3> QED BY <1>2, <3>2 DEF Of
  <2> QED BY <2>1
<1>5. IsFiniteSet(moved) /\ Cardinality(moved) = Cardinality(Of(t, p))
  <2> DEFINE f == [j \in Of(t, p) |-> n + j]
  <2>1. f \in [Of(t, p) -> moved] /\ \A x \in moved : \E j \in Of(t, p) : f[j] = x
    OBVIOUS
  <2>2. \A j, k \in Of(t, p) : f[j] = f[k] => j = k
    <3>1. Of(t, p) \subseteq Nat
      BY <1>2 DEF Of
    <3>2. \A j, k \in Nat : n + j = n + k => j = k
      OBVIOUS
    <3> QED BY <3>1, <3>2
  <2> HIDE DEF f
  <2>3. f \in Bijection(Of(t, p), moved)
    BY <2>1, <2>2, Fun_IsBij
  <2>4. ExistsBijection(Of(t, p), moved)
    BY <2>3 DEF ExistsBijection
  <2>5. IsFiniteSet(Of(t, p))
    BY CountType
  <2> QED BY <2>4, <2>5, FS_Bijection
<1> HIDE DEF moved
<1>6. /\ IsFiniteSet(Of(s, p))
      /\ Cardinality(Of(w, p)) = Cardinality(Of(s, p)) + Cardinality(moved) - Cardinality(Of(s, p) \cap moved)
  BY <1>3, <1>5, CountType, FS_Union
<1>7. Count(w, p) = Count(s, p) + Count(t, p) - 0
  BY <1>4, <1>5, <1>6, FS_EmptySet DEF Count
<1>8. Count(s, p) \in Nat /\ Count(t, p) \in Nat
  BY CountType
<1> QED BY <1>7, <1>8 DEF w

LEMMA CountOne ==
    ASSUME NEW c, NEW p
    PROVE  Count(<<c>>, p) = IF c.proc = p THEN 1 ELSE 0
<1>1. DOMAIN <<c>> = {1} /\ <<c>>[1] = c
  BY SequenceOne
<1>2. CASE c.proc = p
  <2>1. Of(<<c>>, p) = {1}
    BY <1>1, <1>2 DEF Of
  <2> QED BY <1>2, <2>1, FS_Singleton DEF Count
<1>3. CASE c.proc # p
  <2>1. Of(<<c>>, p) = {}
    BY <1>1, <1>3 DEF Of
  <2> QED BY <1>3, <2>1, FS_EmptySet DEF Count
<1> QED BY <1>2, <1>3

(* All commands of a sequence are of one procedure. *)
LEMMA CountAll ==
    ASSUME NEW s, Sequence(s), NEW p, \A i \in DOMAIN s : s[i].proc = p, NEW r
    PROVE  Count(s, r) = IF r = p THEN Len(s) ELSE 0
<1> PICK n \in Nat : n = Len(s)
  BY SequenceFacts
<1>1. DOMAIN s = 1..n /\ n \in Int /\ 1 \in Int
  BY SequenceFacts
<1>2. CASE r = p
  <2>1. Of(s, r) = 1..n
    BY <1>1, <1>2 DEF Of
  <2>2. Cardinality(1..n) = IF 1 > n THEN 0 ELSE n - 1 + 1
    BY <1>1, FS_Interval
  <2>3. Cardinality(1..n) = n
    BY <2>2
  <2> QED BY <1>2, <2>1, <2>3 DEF Count
<1>3. CASE r # p
  <2>1. Of(s, r) = {}
    BY <1>3 DEF Of
  <2> QED BY <1>3, <2>1, FS_EmptySet DEF Count
<1> QED BY <1>2, <1>3

LEMMA CountSame ==
    ASSUME NEW s, NEW t, DOMAIN s = DOMAIN t, \A i \in DOMAIN s : s[i].proc = t[i].proc, NEW p
    PROVE  Count(s, p) = Count(t, p)
<1>1. Of(s, p) = Of(t, p)
  BY DEF Of
<1> QED BY <1>1 DEF Count

----------------------------------------------------------------------------
(* What the helpers of the callbacks change: never the kind, the range, the     *)
(* value or the history of a procedure.                                       *)

Keeps(r, pr) ==
    /\ DOMAIN r = ProcFields
    /\ r.kind = pr.kind /\ r.handle = pr.handle /\ r.end = pr.end /\ r.value = pr.value
    /\ r.muted = pr.muted /\ r.refused = pr.refused /\ r.flawed = pr.flawed
    /\ r.beside = pr.beside

Same(r, pr) == r.refs = pr.refs /\ r.held = pr.held /\ r.reported = pr.reported

Unheld(r, pr) ==
    /\ Keeps(r, pr) /\ r.refs = pr.refs /\ r.held = FALSE
    /\ pr.reported = <<>> => Len(r.reported) = 1

IsCommand(c, p, ask, from, data) ==
    /\ DOMAIN c = CommandFields /\ c.proc = p /\ c.ask = ask /\ c.from = from /\ c.data = data
    /\ c.func = TRUE /\ c.own = FALSE

LEMMA ReportFields ==
    ASSUME NEW pr, DOMAIN pr = ProcFields, NEW status, NEW data, NEW r, r = Report(pr, status, data)
    PROVE  /\ Keeps(r, pr) /\ r.refs = pr.refs /\ r.held = pr.held
           /\ pr.reported = <<>> => Len(r.reported) = 1
<1>1. Keeps(r, pr) /\ r.refs = pr.refs /\ r.held = pr.held
  BY DEF Report, Keeps, ProcFields
<1>2. r.reported = Append(pr.reported, [status |-> status, data |-> data])
  BY DEF Report, ProcFields
<1>3. ASSUME NEW x PROVE Len(Append(<<>>, x)) = 1
  OBVIOUS
<1> QED BY <1>1, <1>2, <1>3, Zenon

LEMMA ReportAndFreeFields ==
    ASSUME NEW pr, DOMAIN pr = ProcFields, NEW status, NEW data
    PROVE  Unheld(ReportAndFree(pr, status, data), pr)
<1> PICK r : r = ReportAndFree(pr, status, data)
  OBVIOUS
<1> PICK u : u = Report(pr, status, data)
  OBVIOUS
<1>1. /\ Keeps(u, pr) /\ u.refs = pr.refs /\ u.held = pr.held
      /\ pr.reported = <<>> => Len(u.reported) = 1
  BY ReportFields
<1>2. r = [u EXCEPT !.held = FALSE]
  BY DEF ReportAndFree
<1>3. Keeps(r, pr) /\ r.refs = u.refs /\ r.held = FALSE /\ r.reported = u.reported
  BY <1>1, <1>2 DEF Keeps, ProcFields
<1> QED BY <1>1, <1>3 DEF Unheld

LEMMA FoundFields ==
    ASSUME NEW pr, DOMAIN pr = ProcFields, NEW x, NEW r, r = [pr EXCEPT !.found = x]
    PROVE  Keeps(r, pr) /\ Same(r, pr)
  BY DEF Keeps, Same, ProcFields

LEMMA ErrorFields ==
    ASSUME NEW pr, DOMAIN pr = ProcFields, NEW err, NEW r, r = isd_error(pr, err)
    PROVE  Keeps(r, pr) /\ Same(r, pr)
  BY DEF isd_error, Keeps, Same, ProcFields

LEMMA CommandFacts ==
    ASSUME NEW p, NEW ask, NEW from, NEW to, NEW data
    PROVE  IsCommand(Command(p, ask, from, to, data), p, ask, from, data)
  BY DEF Command, CommandFields, IsCommand

LEMMA OwnFacts ==
    ASSUME NEW c, DOMAIN c = CommandFields, NEW o, o = Own(c)
    PROVE  /\ DOMAIN o = CommandFields /\ o.proc = c.proc /\ o.ask = c.ask /\ o.from = c.from
           /\ o.func = c.func /\ o.own = TRUE
  BY DEF Own, CommandFields

OwnCommand(c, p, ask, from) ==
    DOMAIN c = CommandFields /\ c.proc = p /\ c.ask = ask /\ c.from = from /\ c.func = TRUE

LEMMA OwnIs ==
    ASSUME NEW c, NEW p, NEW ask, NEW from, NEW data, IsCommand(c, p, ask, from, data),
           NEW o, o = Own(c)
    PROVE  OwnCommand(o, p, ask, from)
  BY DEF Own, CommandFields, IsCommand, OwnCommand

LEMMA ThenFacts ==
    ASSUME NEW pr, NEW s, NEW w, w = Then(pr, s)
    PROVE  w.proc = pr /\ w.sends = s
  BY DEF Then

----------------------------------------------------------------------------
(* What a callback owes: it sends commands of its own procedure, and leaves the  *)
(* procedure as one with that many more, less the one that is done with.       *)

Handled(r, sends, c, pr, n) ==
    /\ Sequence(sends) /\ Keeps(r, pr)
    /\ \A i \in DOMAIN sends : sends[i].proc = c.proc /\ CommandOK(sends[i], r)
    /\ ProcOK(r, n - 1 + Len(sends))

(* A procedure with a command in the queue.                                   *)
Alive(pr) ==
    /\ DOMAIN pr = ProcFields /\ pr.reported = <<>> /\ pr.refused = FALSE /\ pr.kind \in AllKinds
    /\ pr.kind \in Kinds
    /\ pr.handle \in 1..MaxHandle /\ pr.end \in 1..MaxHandle /\ pr.refs \in Nat
    /\ pr.held \in BOOLEAN /\ pr.muted \in BOOLEAN /\ pr.refused \in BOOLEAN /\ pr.flawed \in BOOLEAN

LEMMA HeadAlive ==
    ASSUME NEW c, NEW pr, NEW n \in Nat, n > 0, ProcOK(pr, n), CommandOK(c, pr)
    PROVE  /\ Alive(pr)
           /\ pr.kind # "include" => n = 1
           /\ pr.kind \in {"include", "read"} => pr.refs = n /\ pr.held = TRUE
           /\ pr.kind \in Discoveries /\ pr.muted = FALSE => pr.held = TRUE
           /\ ~ HasObject(pr) => pr.held = FALSE
  BY DEF ProcOK, CommandOK, Running, Alive

(* Nothing is sent: the procedure is over.                                   *)
LEMMA HandledLast ==
    ASSUME NEW c, NEW pr, NEW n \in Nat, Alive(pr), n = 1,
           NEW r, Keeps(r, pr), r.refs \in Nat, r.held \in BOOLEAN,
           r.muted = FALSE \/ r.kind = "include" => Len(r.reported) = 1,
           r.muted = TRUE /\ r.kind # "include" => r.reported = <<>>,
           r.kind \in {"include", "read"} => r.refs = 0 /\ r.held = FALSE,
           r.kind \in Discoveries /\ r.muted = FALSE => r.held = FALSE,
           r.kind = "write" /\ r.muted = FALSE /\ r.flawed = FALSE => r.held = FALSE,
           ~ HasObject(r) => r.held = FALSE
    PROVE  Handled(r, <<>>, c, pr, n)
<1>1. DOMAIN <<>> = {} /\ Len(<<>>) = 0 /\ Sequence(<<>>) /\ n - 1 + 0 = 0
  BY EmptySequence
<1>2. /\ DOMAIN r = ProcFields /\ r.kind \in Kinds /\ r.kind \in AllKinds
      /\ r.handle \in 1..MaxHandle /\ r.end \in 1..MaxHandle /\ r.refs \in Nat
      /\ r.held \in BOOLEAN /\ r.muted \in BOOLEAN /\ r.refused = FALSE /\ r.flawed \in BOOLEAN
  BY DEF Keeps, Alive
<1>3. Running(r, 0)
  BY <1>2 DEF Running, Discoveries
<1>4. ProcOK(r, 0)
  BY <1>2, <1>3 DEF ProcOK
<1> QED BY <1>1, <1>4 DEF Handled

(* One command is sent: the procedure goes on.                               *)
LEMMA HandledNext ==
    ASSUME NEW c, NEW pr, NEW n \in Nat, Alive(pr), n = 1, pr.kind # "include",
           NEW r, Keeps(r, pr), r.held \in BOOLEAN, r.refs \in Nat, r.reported = <<>>,
           r.kind = "read" => r.refs = 1 /\ r.held = TRUE,
           r.kind \in Discoveries /\ r.muted = FALSE => r.held = TRUE,
           ~ HasObject(r) => r.held = FALSE,
           NEW d, d.proc = c.proc, CommandOK(d, r)
    PROVE  Handled(r, <<d>>, c, pr, n)
<1>1. DOMAIN <<d>> = {1} /\ Len(<<d>>) = 1 /\ Sequence(<<d>>) /\ <<d>>[1] = d /\ n - 1 + 1 = 1
  BY SequenceOne
<1>2. /\ DOMAIN r = ProcFields /\ r.kind \in Kinds /\ r.kind \in AllKinds /\ r.kind # "include"
      /\ r.handle \in 1..MaxHandle /\ r.end \in 1..MaxHandle /\ r.refs \in Nat
      /\ r.held \in BOOLEAN /\ r.muted \in BOOLEAN /\ r.refused = FALSE /\ r.flawed \in BOOLEAN
  BY DEF Keeps, Alive
<1>3. Running(r, 1)
  BY <1>2 DEF Running, Discoveries
<1>4. ProcOK(r, 1)
  BY <1>2, <1>3 DEF ProcOK
<1>5. ProcOK(r, n - 1 + Len(<<d>>))
  BY <1>1, <1>4
<1> QED BY <1>1, <1>5 DEF Handled

----------------------------------------------------------------------------
(* The callbacks of discovery.                                              *)

LEMMA FollowingFacts ==
    ASSUME NEW h \in 0..MaxHandle, h # MaxHandle
    PROVE  Following(h) = h + 1 /\ Following(h) \in 1..MaxHandle
<1>1. MaxHandle \in Nat /\ h \in Nat /\ h < MaxHandle
  BY LimitsAssumption
<1>2. ASSUME NEW m \in Nat, NEW k \in Nat, k < m PROVE (k + 1) % (m + 1) = k + 1
  BY <1>2
<1>3. (h + 1) % (MaxHandle + 1) = h + 1
  BY <1>1, <1>2
<1> QED BY <1>1, <1>3 DEF Following

(* The last element of an answer.                                            *)
LEMMA LastItem ==
    ASSUME NEW s \in Seq(Item)
    PROVE  /\ Sequence(s)
           /\ s = <<>> \/ (LastOf(s).first \in 1..MaxHandle /\ LastOf(s).last \in 1..MaxHandle)
           /\ \A i \in DOMAIN s : s[i].first \in 1..MaxHandle
<1>1. \A x \in Item : x.first \in 1..MaxHandle /\ x.last \in 1..MaxHandle
  BY DEF Item
<1> HIDE DEF Item
<1>2. \A i \in DOMAIN s : s[i] \in Item
  OBVIOUS
<1>3. s = <<>> \/ LastOf(s) \in Item
  <2>1. s # <<>> => Len(s) \in DOMAIN s
    OBVIOUS
  <2> QED BY <1>2, <2>1 DEF LastOf
<1> QED BY <1>1, <1>2, <1>3, SequenceIs

(* What a procedure sends next is something it may send.                     *)
LEMMA NextCommand ==
    ASSUME NEW r, r.refused = FALSE, NEW d, DOMAIN d = CommandFields, d.func = TRUE,
           Belongs(d.ask, r), d.from \in 0..MaxHandle, d.ask \in Tables => d.from # 0,
           r.kind # "include" => r.muted = FALSE,
           d.ask = "resolve" => d.own = FALSE,
           d.ask = "prepare" /\ r.flawed = FALSE => r.held = TRUE,
           d.ask = "execute" => r.held = FALSE,
           r.flawed \in BOOLEAN, r.muted \in BOOLEAN
    PROVE  CommandOK(d, r)
  BY DEF CommandOK

AnswerOK(c, a) ==
    /\ a.status = "ok" /\ c.ask \in Tables => a.items \in Seq(Item)

LEMMA DiscoveryEnds ==
    ASSUME NEW c, NEW pr, NEW n \in Nat, Alive(pr), n = 1, pr.kind \in Discoveries, pr.muted = FALSE,
           NEW status, NEW data, NEW r, r = ReportAndFree(pr, status, data)
    PROVE  Handled(r, <<>>, c, pr, n)
<1>0. DOMAIN pr = ProcFields /\ pr.reported = <<>>
  BY DEF Alive
<1>1. /\ Keeps(r, pr) /\ r.refs = pr.refs /\ r.held = FALSE /\ Len(r.reported) = 1
  <2>1. Unheld(r, pr)
    BY <1>0, ReportAndFreeFields
  <2> QED BY <1>0, <2>1 DEF Unheld
<1>2. r.kind \in Discoveries /\ r.muted = FALSE /\ r.refs \in Nat
  BY <1>1 DEF Keeps, Alive
<1> QED BY <1>1, <1>2, HandledLast DEF Discoveries

LEMMA DiscoveryGoesOn ==
    ASSUME NEW c, NEW pr, NEW n \in Nat, Alive(pr), n = 1, pr.kind \in Discoveries, pr.muted = FALSE,
           pr.held = TRUE, NEW data, NEW r, r = [pr EXCEPT !.found = data],
           NEW from \in 1..MaxHandle, NEW to, NEW d, d = Command(c.proc, pr.kind, from, to, <<>>)
    PROVE  Handled(r, <<d>>, c, pr, n)
<1>1. Keeps(r, pr) /\ Same(r, pr)
  BY FoundFields DEF Alive
<1>2. /\ r.kind \in Discoveries /\ r.kind # "include" /\ r.kind # "read" /\ r.muted = FALSE /\ r.refused = FALSE
      /\ r.flawed \in BOOLEAN /\ r.held = TRUE /\ r.refs \in Nat /\ r.reported = <<>> /\ pr.kind # "include"
      /\ r.kind = pr.kind
  BY <1>1 DEF Keeps, Same, Alive, Discoveries
<1>3. /\ DOMAIN d = CommandFields /\ d.proc = c.proc /\ d.ask = r.kind /\ d.from = from /\ d.func = TRUE
  <2>1. /\ DOMAIN d = CommandFields /\ d.proc = c.proc /\ d.ask = pr.kind /\ d.from = from /\ d.func = TRUE
    <3>1. IsCommand(d, c.proc, pr.kind, from, <<>>)
      BY CommandFacts
    <3> QED BY <3>1 DEF IsCommand
  <2> QED BY <1>2, <2>1
<1>4. CommandOK(d, r)
  <2>1. Belongs(d.ask, r)
    BY <1>2, <1>3 DEF Belongs, Discoveries
  <2>2. d.from \in 0..MaxHandle /\ d.from # 0
    BY <1>3
  <2>3. d.ask # "resolve" /\ d.ask # "prepare" /\ d.ask # "execute"
    BY <1>2, <1>3 DEF Discoveries
  <2> QED BY <1>2, <1>3, <2>1, <2>2, <2>3, NextCommand
<1>5. HasObject(r)
  BY <1>2 DEF HasObject, Discoveries
<1> QED BY <1>1, <1>2, <1>3, <1>4, <1>5, HandledNext

LEMMA ThenHandled ==
    ASSUME NEW c, NEW pr, NEW n, NEW r, NEW s, Handled(r, s, c, pr, n), NEW w, w = Then(r, s)
    PROVE  Handled(w.proc, w.sends, c, pr, n)
  BY DEF Then

LEMMA DiscoveryOver ==
    ASSUME NEW c, NEW pr, NEW n \in Nat, Alive(pr), n = 1, pr.kind \in Discoveries, pr.muted = FALSE,
           NEW status, NEW data, NEW w, w = Then(ReportAndFree(pr, status, data), <<>>)
    PROVE  Handled(w.proc, w.sends, c, pr, n)
<1> PICK r : r = ReportAndFree(pr, status, data)
  OBVIOUS
<1>1. Handled(r, <<>>, c, pr, n)
  BY DiscoveryEnds
<1>2. w = Then(r, <<>>)
  OBVIOUS
<1> QED BY <1>1, <1>2, ThenHandled

LEMMA DiscoveryNext ==
    ASSUME NEW c, NEW pr, NEW n \in Nat, Alive(pr), n = 1, pr.kind \in Discoveries, pr.muted = FALSE,
           pr.held = TRUE, NEW data, NEW h \in 0..MaxHandle, h # MaxHandle, NEW to, NEW w,
           w = Then([pr EXCEPT !.found = data], <<Command(c.proc, pr.kind, Following(h), to, <<>>)>>)
    PROVE  Handled(w.proc, w.sends, c, pr, n)
<1>1. Following(h) \in 1..MaxHandle
  BY FollowingFacts
<1> PICK from \in 1..MaxHandle : from = Following(h)
  BY <1>1
<1> PICK r : r = [pr EXCEPT !.found = data]
  OBVIOUS
<1> PICK d : d = Command(c.proc, pr.kind, from, to, <<>>)
  OBVIOUS
<1>2. Handled(r, <<d>>, c, pr, n)
  BY DiscoveryGoesOn
<1>3. w = Then(r, <<d>>)
  OBVIOUS
<1> QED BY <1>2, <1>3, ThenHandled

(* The three ways an answer is taken.                                         *)
LEMMA AnswerKinds ==
    ASSUME NEW a
    PROVE  \/ Failed(a) /\ a.status # "garbled"
           \/ ~ Failed(a) /\ a.status = "garbled"
           \/ ~ Failed(a) /\ a.status # "garbled" /\ a.status = "ok"
  BY DEF Failed

LEMMA PrimaryHandled ==
    ASSUME NEW c, NEW pr, NEW n \in Nat, Alive(pr), n = 1, pr.kind = "primary", pr.muted = FALSE,
           pr.held = TRUE, c.ask = "primary", NEW a, AnswerOK(c, a),
           NEW w, w = primary_all_cb(c.proc, pr, a)
    PROVE  Handled(w.proc, w.sends, c, pr, n)
<1> DEFINE all == pr.found \o a.items
           end == IF a.items = <<>> THEN 0 ELSE LastOf(a.items).last
           go == Then([pr EXCEPT !.found = all], <<Command(c.proc, pr.kind, Following(end), MaxHandle, <<>>)>>)
           over(status, data) == Then(ReportAndFree(pr, status, data), <<>>)
<1>0. pr.kind \in Discoveries
  BY DEF Discoveries
<1>1. \A status, data : w = over(status, data) => Handled(w.proc, w.sends, c, pr, n)
  BY <1>0, DiscoveryOver
<1>2. CASE Failed(a) /\ a.status # "garbled"
  <2>1. w = over(primary_status(a.status), pr.found)
    BY <1>2 DEF primary_all_cb
  <2> QED BY <1>1, <2>1
<1>3. CASE ~ Failed(a) /\ a.status = "garbled"
  <2>1. w = over("io", pr.found)
    BY <1>3 DEF primary_all_cb
  <2> QED BY <1>1, <2>1
<1>4. CASE ~ Failed(a) /\ a.status # "garbled" /\ a.status = "ok"
  <2>1. w = IF IsLast(end) THEN over("ok", all) ELSE go
    BY <1>4 DEF primary_all_cb, encode_discover_primary
  <2>2. end \in 0..MaxHandle
    <3>1. a.items \in Seq(Item)
      BY <1>4 DEF AnswerOK, Tables
    <3>2. a.items = <<>> \/ LastOf(a.items).last \in 1..MaxHandle
      BY <3>1, LastItem
    <3>3. 0 \in 0..MaxHandle /\ \A h \in 1..MaxHandle : h \in 0..MaxHandle
      BY LimitsAssumption
    <3> QED BY <3>2, <3>3
  <2>3. end # MaxHandle /\ w = go => Handled(w.proc, w.sends, c, pr, n)
    BY <1>0, <2>2, DiscoveryNext
  <2> QED BY <1>1, <2>1, <2>3 DEF IsLast
<1> QED BY <1>2, <1>3, <1>4, AnswerKinds

LEMMA PrimaryByUuidHandled ==
    ASSUME NEW c, NEW pr, NEW n \in Nat, Alive(pr), n = 1, pr.kind = "primary_uuid", pr.muted = FALSE,
           pr.held = TRUE, c.ask = "primary_uuid", NEW a, AnswerOK(c, a),
           NEW w, w = primary_by_uuid_cb(c.proc, pr, a)
    PROVE  Handled(w.proc, w.sends, c, pr, n)
<1> DEFINE ranges == IF a.status = "ok" THEN a.items ELSE <<>>
           all == pr.found \o ranges
           end == LastOf(ranges).last
           go == Then([pr EXCEPT !.found = all], <<Command(c.proc, pr.kind, Following(end), MaxHandle, <<>>)>>)
           over(status, data) == Then(ReportAndFree(pr, status, data), <<>>)
<1>0. pr.kind \in Discoveries
  BY DEF Discoveries
<1>1. \A status, data : w = over(status, data) => Handled(w.proc, w.sends, c, pr, n)
  BY <1>0, DiscoveryOver
<1>2. CASE Failed(a)
  <2>1. w = over(primary_status(a.status), pr.found)
    BY <1>2 DEF primary_by_uuid_cb
  <2> QED BY <1>1, <2>1
<1>3. CASE ~ Failed(a) /\ ranges = <<>>
  <2>1. w = over("ok", pr.found)
    BY <1>3 DEF primary_by_uuid_cb
  <2> QED BY <1>1, <2>1
<1>4. CASE ~ Failed(a) /\ ranges # <<>>
  <2>1. w = IF IsLast(end) THEN over("ok", all) ELSE go
    BY <1>4 DEF primary_by_uuid_cb, encode_discover_primary
  <2>2. end \in 0..MaxHandle
    <3>1. a.status = "ok" /\ a.items \in Seq(Item) /\ ranges = a.items
      BY <1>4 DEF AnswerOK, Tables
    <3>2. LastOf(a.items).last \in 1..MaxHandle
      BY <1>4, <3>1, LastItem
    <3>3. \A h \in 1..MaxHandle : h \in 0..MaxHandle
      BY LimitsAssumption
    <3> QED BY <3>1, <3>2, <3>3
  <2>3. end # MaxHandle /\ w = go => Handled(w.proc, w.sends, c, pr, n)
    BY <1>0, <2>2, DiscoveryNext
  <2> QED BY <1>1, <2>1, <2>3 DEF IsLast
<1> QED BY <1>2, <1>3, <1>4

LEMMA CharHandled ==
    ASSUME NEW c, NEW pr, NEW n \in Nat, Alive(pr), n = 1, pr.kind = "char", pr.muted = FALSE,
           pr.held = TRUE, c.ask = "char", NEW a, AnswerOK(c, a),
           NEW w, w = char_discovered_cb(c.proc, pr, a)
    PROVE  Handled(w.proc, w.sends, c, pr, n)
<1> DEFINE last == IF a.items = <<>> THEN 0 ELSE LastOf(a.items).first
           go(all) == Then([pr EXCEPT !.found = all],
                           <<Command(c.proc, pr.kind, Following(last), pr.end, <<>>)>>)
           over(status, data) == Then(ReportAndFree(pr, status, data), <<>>)
<1>0. pr.kind \in Discoveries
  BY DEF Discoveries
<1>1. \A status, data : w = over(status, data) => Handled(w.proc, w.sends, c, pr, n)
  BY <1>0, DiscoveryOver
<1>2. CASE Failed(a) /\ a.status # "garbled"
  <2>1. \E status : w = over(status, pr.found)
    BY <1>2 DEF char_discovered_cb
  <2> QED BY <1>1, <2>1
<1>3. CASE ~ Failed(a) /\ a.status = "garbled"
  <2>1. \E status : w = over(status, pr.found)
    BY <1>3 DEF char_discovered_cb
  <2> QED BY <1>1, <2>1
<1>4. CASE ~ Failed(a) /\ a.status # "garbled" /\ a.status = "ok"
  <2>1. \/ last # 0 /\ last + 1 < pr.end /\ \E all : w = go(all)
        \/ \E status, all : w = over(status, all)
    BY <1>4 DEF char_discovered_cb
  <2>2. last \in 0..MaxHandle /\ pr.end \in 1..MaxHandle
    <3>1. a.items \in Seq(Item)
      BY <1>4 DEF AnswerOK, Tables
    <3>2. a.items = <<>> \/ LastOf(a.items).first \in 1..MaxHandle
      BY <3>1, LastItem
    <3>3. 0 \in 0..MaxHandle /\ \A h \in 1..MaxHandle : h \in 0..MaxHandle
      BY LimitsAssumption
    <3> QED BY <3>2, <3>3 DEF Alive
  <2>3. ASSUME NEW all, last + 1 < pr.end, w = go(all) PROVE Handled(w.proc, w.sends, c, pr, n)
    <3> HIDE DEF last
    <3>1. last # MaxHandle
      BY <2>2, <2>3, LimitsAssumption
    <3> QED BY <1>0, <2>2, <2>3, <3>1, DiscoveryNext
  <2> QED BY <1>1, <2>1, <2>3
<1> QED BY <1>2, <1>3, <1>4, AnswerKinds

----------------------------------------------------------------------------
(* The search for included services.                                        *)

LEMMA FunctionSequence ==
    ASSUME NEW n \in Nat, NEW f, f = [i \in 1..n |-> f[i]]
    PROVE  Sequence(f) /\ Len(f) = n /\ DOMAIN f = 1..n
<1>1. DOMAIN f = 1..n
  OBVIOUS
<1>2. \A i \in 1..n : f[i] \in Elements(f)
  BY <1>1 DEF Elements
<1>3. f \in [1..n -> Elements(f)]
  BY <1>2
<1>4. f \in Seq(Elements(f)) /\ Len(f) = n
  BY <1>1, <1>3
<1> QED BY <1>1, <1>4 DEF Sequence

(* A reference is dropped: the last one calls the caller back.                *)
Unreffed(r, pr, m) ==
    /\ Keeps(r, pr)
    /\ m > 1 => r.refs = m - 1 /\ r.held = pr.held /\ r.reported = pr.reported
    /\ ~ (m > 1) => /\ r.refs = 0 /\ r.held = FALSE
                    /\ pr.reported = <<>> => Len(r.reported) = 1

LEMMA UnrefFields ==
    ASSUME NEW pr, DOMAIN pr = ProcFields, NEW m \in Nat, pr.refs = m
    PROVE  Unreffed(isd_unref(pr), pr, m)
<1> PICK r : r = isd_unref(pr)
  OBVIOUS
<1>1. CASE m > 1
  <2>1. r = [pr EXCEPT !.refs = @ - 1]
    BY <1>1 DEF isd_unref
  <2>2. Keeps(r, pr) /\ r.refs = m - 1 /\ r.held = pr.held /\ r.reported = pr.reported
    BY <2>1 DEF Keeps, ProcFields
  <2> QED BY <1>1, <2>2 DEF Unreffed
<1>2. CASE ~ (m > 1)
  <2> PICK u : u = [pr EXCEPT !.refs = 0]
    OBVIOUS
  <2>1. Keeps(u, pr) /\ u.refs = 0 /\ u.reported = pr.reported /\ DOMAIN u = ProcFields
    BY DEF Keeps, ProcFields
  <2> PICK status, data : r = ReportAndFree(u, status, data)
    BY <1>2 DEF isd_unref
  <2>2. Unheld(r, u)
    BY <2>1, ReportAndFreeFields
  <2>3. Keeps(r, pr)
    BY <2>1, <2>2 DEF Unheld, Keeps
  <2>4. r.refs = 0 /\ r.held = FALSE /\ (pr.reported = <<>> => Len(r.reported) = 1)
    BY <2>1, <2>2 DEF Unheld
  <2> QED BY <1>2, <2>3, <2>4 DEF Unreffed
<1> QED BY <1>1, <1>2

Searches(d, p) ==
    \E ask \in {"include", "resolve"}, from \in 1..MaxHandle : \E data : IsCommand(d, p, ask, from, data)

LEMMA IncludeCommand ==
    ASSUME NEW r, r.kind = "include", r.refused = FALSE, r.flawed \in BOOLEAN, r.muted \in BOOLEAN,
           NEW p, NEW d, Searches(d, p)
    PROVE  CommandOK(d, r) /\ d.proc = p
<1> PICK ask \in {"include", "resolve"}, from \in 1..MaxHandle : \E data : IsCommand(d, p, ask, from, data)
  BY DEF Searches
<1> PICK data : IsCommand(d, p, ask, from, data)
  OBVIOUS
<1>0. d.proc = p
  BY DEF IsCommand
<1>1. /\ DOMAIN d = CommandFields /\ d.ask = ask /\ d.from = from /\ d.func = TRUE /\ d.own = FALSE
  BY DEF IsCommand
<1>2. Belongs(d.ask, r)
  BY <1>1 DEF Belongs
<1>3. d.from \in 0..MaxHandle /\ d.from # 0 /\ d.ask # "prepare" /\ d.ask # "execute"
  BY <1>1, LimitsAssumption
<1> QED BY <1>0, <1>1, <1>2, <1>3, NextCommand

(* The head of the queue drops its reference after k commands were sent, each   *)
(* with one.                                                                *)
LEMMA UnrefHandled ==
    ASSUME NEW c, NEW pr, NEW n \in Nat, n > 0, Alive(pr), pr.kind = "include",
           NEW s, Sequence(s), \A i \in DOMAIN s : Searches(s[i], c.proc),
           NEW u, Keeps(u, pr), u.refs = n + Len(s), u.held = TRUE, u.reported = <<>>,
           NEW r, r = isd_unref(u)
    PROVE  Handled(r, s, c, pr, n)
<1> PICK k \in Nat : k = Len(s)
  BY SequenceFacts
<1> PICK m \in Nat : m = n + k
  OBVIOUS
<1>1. Unreffed(r, u, m)
  BY UnrefFields DEF Keeps
<1>2. Keeps(r, pr)
  BY <1>1 DEF Unreffed, Keeps
<1>3. /\ DOMAIN r = ProcFields /\ r.kind = "include" /\ r.kind \in Kinds /\ r.kind \in AllKinds
      /\ r.handle \in 1..MaxHandle /\ r.end \in 1..MaxHandle
      /\ r.muted \in BOOLEAN /\ r.refused = FALSE /\ r.flawed \in BOOLEAN
  BY <1>2 DEF Keeps, Alive
<1>4. \A i \in DOMAIN s : s[i].proc = c.proc /\ CommandOK(s[i], r)
  BY <1>3, IncludeCommand
<1>5. ProcOK(r, n - 1 + k)
  <2>1. HasObject(r)
    BY <1>3 DEF HasObject
  <2>2. CASE m > 1
    <3>1. r.refs = m - 1 /\ r.held = TRUE /\ r.reported = <<>>
      BY <1>1, <2>2 DEF Unreffed
    <3>2. m - 1 = n - 1 + k /\ n - 1 + k \in Nat /\ n - 1 + k > 0 /\ n - 1 + k # 0
      BY <2>2
    <3>3. Running(r, n - 1 + k)
      BY <1>3, <2>1, <3>1, <3>2 DEF Running, Discoveries
    <3> QED BY <1>3, <3>1, <3>2, <3>3 DEF ProcOK
  <2>3. CASE ~ (m > 1)
    <3>1. r.refs = 0 /\ r.held = FALSE /\ Len(r.reported) = 1
      BY <1>1, <2>3 DEF Unreffed
    <3>2. n - 1 + k = 0
      BY <2>3
    <3>3. Running(r, 0)
      BY <1>3, <2>1, <3>1 DEF Running, Discoveries
    <3>4. r.refs \in Nat /\ r.held \in BOOLEAN
      <4>1. r.refs = 0 /\ r.held = FALSE
        BY <3>1, Zenon
      <4>2. r.refs \in Nat
        BY <4>1
      <4>3. r.held \in BOOLEAN
        BY <4>1, Zenon
      <4> QED BY <4>2, <4>3
    <3>5. ProcOK(r, 0)
      BY <1>3, <3>3, <3>4 DEF ProcOK
    <3> QED BY <3>2, <3>5
  <2> QED BY <2>2, <2>3
<1> QED BY <1>2, <1>4, <1>5 DEF Handled

LEMMA ResolveHandled ==
    ASSUME NEW c, NEW pr, NEW n \in Nat, n > 0, Alive(pr), pr.kind = "include",
           pr.refs = n, pr.held = TRUE,
           NEW a, NEW w, w = resolve_included_uuid_cb(pr, c, a)
    PROVE  Handled(w.proc, w.sends, c, pr, n)
<1>0. DOMAIN pr = ProcFields /\ Keeps(pr, pr) /\ pr.reported = <<>>
  BY DEF Alive, Keeps
<1>1. \A err : Keeps(isd_error(pr, err), pr) /\ Same(isd_error(pr, err), pr)
  BY <1>0, ErrorFields
<1>2. \A x : Keeps([pr EXCEPT !.found = x], pr) /\ Same([pr EXCEPT !.found = x], pr)
  BY <1>0, FoundFields
<1>3. \E u : Keeps(u, pr) /\ Same(u, pr) /\ w = Then(isd_unref(u), <<>>)
  <2>1. CASE Failed(a) /\ a.status # "garbled"
    BY <1>1, <2>1 DEF resolve_included_uuid_cb
  <2>2. CASE ~ Failed(a) /\ a.status = "garbled"
    BY <1>1, <2>2 DEF resolve_included_uuid_cb
  <2>3. CASE ~ Failed(a) /\ a.status # "garbled" /\ a.status = "ok"
    BY <1>2, <2>3 DEF resolve_included_uuid_cb
  <2> QED BY <2>1, <2>2, <2>3, AnswerKinds
<1> PICK u : Keeps(u, pr) /\ Same(u, pr) /\ w = Then(isd_unref(u), <<>>)
  BY <1>3
<1> PICK r : r = isd_unref(u)
  OBVIOUS
<1>4. DOMAIN <<>> = {} /\ Len(<<>>) = 0 /\ Sequence(<<>>)
  BY EmptySequence
<1>5. u.refs = n + Len(<<>>) /\ u.held = TRUE /\ u.reported = <<>>
  BY <1>0, <1>4 DEF Same
<1>6. Handled(r, <<>>, c, pr, n)
  BY <1>4, <1>5, UnrefHandled
<1>7. w = Then(r, <<>>)
  OBVIOUS
<1> QED BY <1>6, <1>7, ThenHandled

(* What an answer of the search leaves before the reference of the request is    *)
(* dropped.                                                                 *)
Searching(w, c, pr, n) ==
    /\ Sequence(w.sends) /\ \A i \in DOMAIN w.sends : Searches(w.sends[i], c.proc)
    /\ Keeps(w.proc, pr) /\ w.proc.refs = n + Len(w.sends)
    /\ w.proc.held = TRUE /\ w.proc.reported = <<>>

LEMMA IncludeSends ==
    ASSUME NEW c, NEW pr, NEW n \in Nat, n > 0, Alive(pr), pr.kind = "include",
           pr.refs = n, pr.held = TRUE, c.ask = "include", NEW a, AnswerOK(c, a),
           NEW w, w = find_included_cb(c.proc, pr, a)
    PROVE  Searching(w, c, pr, n)
<1>0. DOMAIN pr = ProcFields /\ Keeps(pr, pr) /\ pr.reported = <<>>
  BY DEF Alive, Keeps
<1>1. ASSUME NEW err, w = Then(isd_error(pr, err), <<>>)
      PROVE  Searching(w, c, pr, n)
  <2> PICK u : u = isd_error(pr, err)
    OBVIOUS
  <2>1. Keeps(u, pr) /\ Same(u, pr)
    BY <1>0, ErrorFields
  <2>2. w.sends = <<>> /\ w.proc = u
    BY <1>1, ThenFacts
  <2>3. DOMAIN <<>> = {} /\ Len(<<>>) = 0 /\ Sequence(<<>>)
    BY EmptySequence
  <2> QED BY <1>0, <2>1, <2>2, <2>3 DEF Same, Searching
<1>2. CASE Failed(a) /\ a.status # "garbled"
  <2>1. w = Then(isd_error(pr, primary_status(a.status)), <<>>)
    BY <1>2 DEF find_included_cb
  <2> QED BY <1>1, <2>1
<1>3. CASE ~ Failed(a) /\ a.status = "garbled"
  <2>1. w = Then(isd_error(pr, "io"), <<>>)
    BY <1>3 DEF find_included_cb
  <2> QED BY <1>1, <2>1
<1>4. CASE ~ Failed(a) /\ a.status # "garbled" /\ a.status = "ok"
  <2> DEFINE last == IF a.items = <<>> THEN pr.end ELSE LastOf(a.items).first
             long == a.items # <<>> /\ a.items[1].long
             all == [i \in DOMAIN a.items |-> resolve_included_uuid(c.proc, a.items[i])]
             queries == IF long THEN all ELSE <<>>
             next == IF last < pr.end THEN <<find_included(c.proc, pr, Following(last))>> ELSE <<>>
             data == IF long THEN pr.found ELSE pr.found \o a.items
             found == [pr EXCEPT !.refs = @ + Len(queries) + Len(next),
                                 !.found = IF long THEN @ ELSE @ \o a.items]
  <2>1. w = Then(found, queries \o next)
    BY <1>4 DEF find_included_cb
  <2>2. a.items \in Seq(Item)
    BY <1>4 DEF AnswerOK, Tables
  <2>3. Sequence(queries) /\ \A i \in DOMAIN queries : Searches(queries[i], c.proc)
    <3>1. CASE ~ long
      <4>1. queries = <<>> /\ DOMAIN <<>> = {}
        BY <3>1
      <4> QED BY <4>1, EmptySequence
    <3>2. CASE long
      <4> PICK m \in Nat : m = Len(a.items)
        BY <2>2
      <4>1. DOMAIN a.items = 1..m
        BY <2>2
      <4> HIDE DEF long
      <4>2. queries = all
        BY <3>2
      <4>3. all = [i \in 1..m |-> all[i]] /\ DOMAIN all = 1..m
        BY <4>1
      <4>4. ASSUME NEW i \in 1..m PROVE Searches(all[i], c.proc)
        <5> PICK x : x = a.items[i]
          OBVIOUS
        <5>1. x.first \in 1..MaxHandle
          BY <2>2, <4>1, LastItem
        <5>2. all[i] = Command(c.proc, "resolve", x.first, x.first, <<x>>)
          BY <4>1 DEF resolve_included_uuid
        <5>3. IsCommand(all[i], c.proc, "resolve", x.first, <<x>>)
          BY <5>2, CommandFacts
        <5> QED BY <5>1, <5>3 DEF Searches
      <4> HIDE DEF all
      <4>5. Sequence(all)
        BY <4>3, FunctionSequence
      <4> QED BY <4>2, <4>3, <4>4, <4>5
    <3> QED BY <3>1, <3>2
  <2> HIDE DEF queries
  <2>4. Sequence(next) /\ \A i \in DOMAIN next : Searches(next[i], c.proc)
    <3>1. CASE ~ (last < pr.end)
      <4>1. next = <<>> /\ DOMAIN <<>> = {}
        BY <3>1
      <4> QED BY <4>1, EmptySequence
    <3>2. CASE last < pr.end
      <4>1. last \in 0..MaxHandle /\ last # MaxHandle
        <5>1. pr.end \in 1..MaxHandle
          BY DEF Alive
        <5>2. last \in 1..MaxHandle
          BY <2>2, <5>1, LastItem
        <5> HIDE DEF last
        <5> QED BY <3>2, <5>1, <5>2, LimitsAssumption
      <4> HIDE DEF last
      <4>2. Following(last) \in 1..MaxHandle
        BY <4>1, FollowingFacts
      <4> PICK from \in 1..MaxHandle : from = Following(last)
        BY <4>2
      <4> PICK d : d = Command(c.proc, "include", from, pr.end, <<>>)
        OBVIOUS
      <4>3. IsCommand(d, c.proc, "include", from, <<>>)
        BY CommandFacts
      <4>4. Searches(d, c.proc)
        BY <4>3 DEF Searches
      <4>5. next = <<d>>
        BY <3>2 DEF find_included
      <4>6. DOMAIN <<d>> = {1} /\ <<d>>[1] = d /\ Sequence(<<d>>)
        BY SequenceOne
      <4> HIDE DEF next
      <4> QED BY <4>4, <4>5, <4>6
    <3> QED BY <3>1, <3>2
  <2> HIDE DEF next
  <2> PICK s : s = queries \o next
    OBVIOUS
  <2>5. Sequence(s) /\ Len(s) = Len(queries) + Len(next) /\ Len(queries) \in Nat /\ Len(next) \in Nat
    BY <2>3, <2>4, SequenceConcat, SequenceFacts
  <2>6. \A i \in DOMAIN s : Searches(s[i], c.proc)
    <3>1. ASSUME NEW i \in DOMAIN s PROVE Searches(s[i], c.proc)
      <4>1. \/ i \in DOMAIN queries /\ s[i] = queries[i]
            \/ \E j \in DOMAIN next : s[i] = next[j]
        BY <2>3, <2>4, SequenceConcat
      <4> QED BY <2>3, <2>4, <4>1
    <3> QED BY <3>1
  <2>7. Keeps(found, pr) /\ found.refs = pr.refs + Len(queries) + Len(next)
        /\ found.held = pr.held /\ found.reported = pr.reported
    <3> HIDE DEF long
    <3> QED BY <1>0 DEF Keeps, ProcFields
  <2>8. w.proc = found /\ w.sends = s
    BY <2>1 DEF Then
  <2> HIDE DEF found
  <2>9. found.refs = n + Len(s)
    BY <2>5, <2>7
  <2> QED BY <1>0, <2>5, <2>6, <2>7, <2>8, <2>9 DEF Searching
<1> QED BY <1>2, <1>3, <1>4, AnswerKinds

LEMMA IncludeHandled ==
    ASSUME NEW c, NEW pr, NEW n \in Nat, n > 0, Alive(pr), pr.kind = "include",
           pr.refs = n, pr.held = TRUE, c.ask = "include", NEW a, AnswerOK(c, a),
           NEW w, w = find_included_cb(c.proc, pr, a)
    PROVE  Handled(isd_unref(w.proc), w.sends, c, pr, n)
<1> PICK u, s : u = w.proc /\ s = w.sends
  OBVIOUS
<1>1. /\ Sequence(s) /\ \A i \in DOMAIN s : Searches(s[i], c.proc)
      /\ Keeps(u, pr) /\ u.refs = n + Len(s) /\ u.held = TRUE /\ u.reported = <<>>
  <2>1. Searching(w, c, pr, n)
    BY IncludeSends
  <2> QED BY <2>1 DEF Searching
<1> PICK r : r = isd_unref(u)
  OBVIOUS
<1>2. Handled(r, s, c, pr, n)
  BY <1>1, UnrefHandled
<1> QED BY <1>2

----------------------------------------------------------------------------
(* The callbacks of reads and writes.                                       *)

Destroyed(r, u, m) ==
    /\ Keeps(r, u) /\ r.refs = m - 1 /\ r.reported = u.reported
    /\ m > 1 => r.held = TRUE
    /\ ~ (m > 1) => r.held = FALSE

LEMMA DestroyFields ==
    ASSUME NEW u, DOMAIN u = ProcFields, NEW m \in Nat, u.refs = m
    PROVE  Destroyed(read_long_destroy(u), u, m)
<1> PICK r : r = read_long_destroy(u)
  OBVIOUS
<1>1. Keeps(r, u) /\ r.refs = m - 1 /\ r.reported = u.reported
  BY DEF read_long_destroy, Keeps, ProcFields
<1>2. CASE m > 1
  <2>1. r = [u EXCEPT !.refs = @ - 1, !.held = TRUE]
    BY <1>2 DEF read_long_destroy
  <2>2. r.held = TRUE
    BY <2>1 DEF ProcFields
  <2> QED BY <1>1, <1>2, <2>2 DEF Destroyed
<1>3. CASE ~ (m > 1)
  <2>1. r = [u EXCEPT !.refs = @ - 1, !.held = FALSE]
    <3>1. (u.refs > 1) = FALSE
      BY <1>3
    <3>2. r = [u EXCEPT !.refs = @ - 1, !.held = (u.refs > 1)]
      BY DEF read_long_destroy
    <3> QED BY <3>1, <3>2, Zenon
  <2>2. r.held = FALSE
    BY <2>1 DEF ProcFields
  <2> QED BY <1>1, <1>3, <2>2 DEF Destroyed
<1> QED BY <1>2, <1>3

(* The last part of a read, or one whose callback was cleared.                *)
LEMMA ReadOver ==
    ASSUME NEW c, NEW pr, NEW n \in Nat, Alive(pr), n = 1, pr.kind = "read",
           NEW u, Keeps(u, pr), u.refs = 1,
           pr.muted = FALSE => Len(u.reported) = 1,
           pr.muted = TRUE => u.reported = <<>>,
           NEW r, r = read_long_destroy(u)
    PROVE  Handled(r, <<>>, c, pr, n)
<1>1. Destroyed(r, u, 1)
  BY DestroyFields DEF Keeps
<1>2. Keeps(r, u) /\ r.refs = 0 /\ r.reported = u.reported /\ r.held = FALSE
  BY <1>1 DEF Destroyed
<1>3. Keeps(r, pr) /\ r.kind = "read" /\ r.muted = pr.muted /\ r.refs \in Nat
  BY <1>2 DEF Keeps
<1> QED BY <1>2, <1>3, HandledLast

LEMMA ReadGoesOn ==
    ASSUME NEW c, NEW pr, NEW n \in Nat, Alive(pr), n = 1, pr.kind = "read", pr.muted = FALSE,
           NEW u, Keeps(u, pr), u.refs = 2, u.reported = <<>>,
           NEW r, r = read_long_destroy(u), NEW d, d = read_blob_request(c.proc, u)
    PROVE  Handled(r, <<d>>, c, pr, n)
<1>1. Destroyed(r, u, 2)
  BY DestroyFields DEF Keeps
<1>2. Keeps(r, u) /\ r.refs = 1 /\ r.reported = <<>> /\ r.held = TRUE
  BY <1>1 DEF Destroyed
<1>3. /\ Keeps(r, pr) /\ r.kind = "read" /\ r.kind # "include" /\ r.muted = FALSE /\ r.refused = FALSE
      /\ r.flawed \in BOOLEAN /\ r.refs \in Nat /\ pr.kind # "include" /\ HasObject(r)
      /\ u.handle \in 1..MaxHandle
  BY <1>2 DEF Keeps, Alive, HasObject
<1> PICK e : e = Command(c.proc, "blob", u.handle, Len(u.found), <<>>)
  OBVIOUS
<1>4. IsCommand(e, c.proc, "blob", u.handle, <<>>)
  BY CommandFacts
<1>5. d = Own(e)
  BY DEF read_blob_request
<1>6. /\ DOMAIN d = CommandFields /\ d.proc = c.proc /\ d.ask = "blob" /\ d.from = u.handle /\ d.func = TRUE
  <2>1. OwnCommand(d, c.proc, "blob", u.handle)
    BY <1>4, <1>5, OwnIs
  <2> QED BY <2>1 DEF OwnCommand
<1>7. CommandOK(d, r)
  <2>1. Belongs(d.ask, r)
    BY <1>3, <1>6 DEF Belongs
  <2>2. d.from \in 0..MaxHandle /\ d.ask \notin Tables
    BY <1>3, <1>6, LimitsAssumption DEF Tables
  <2> QED BY <1>3, <1>6, <2>1, <2>2, NextCommand
<1>8. r.kind \notin Discoveries
  BY <1>3 DEF Discoveries
<1> QED BY <1>2, <1>3, <1>6, <1>7, <1>8, HandledNext

LEMMA PartFields ==
    ASSUME NEW pr, DOMAIN pr = ProcFields, pr.refs = 1, NEW x, NEW all, all = [pr EXCEPT !.found = x],
           NEW u, u = [all EXCEPT !.refs = @ + 1]
    PROVE  /\ Keeps(all, pr) /\ all.refs = 1 /\ all.reported = pr.reported
           /\ Keeps(u, pr) /\ u.refs = 2 /\ u.reported = pr.reported
<1>1. Keeps(all, pr) /\ all.refs = 1 /\ all.reported = pr.reported /\ DOMAIN all = ProcFields
  BY DEF Keeps, ProcFields
<1>2. Keeps(u, all) /\ u.refs = all.refs + 1 /\ u.reported = all.reported
  BY <1>1 DEF Keeps, ProcFields
<1>3. Keeps(u, pr)
  BY <1>1, <1>2 DEF Keeps
<1> QED BY <1>1, <1>2, <1>3

(* Both callbacks report a part of the value, or ask for the rest of it.      *)
Reads(w, c, pr) ==
    \/ \E x, status, data : w = Then(Report([pr EXCEPT !.found = x], status, data), <<>>)
    \/ \E status, data : w = Then(Report(pr, status, data), <<>>)
    \/ \E x : LET all == [pr EXCEPT !.found = x]
                  u   == [all EXCEPT !.refs = @ + 1]
              IN  \E d : w = Then(u, <<d>>) /\ d = read_blob_request(c.proc, all)

LEMMA BlobOfPart ==
    ASSUME NEW p, NEW all, DOMAIN all = ProcFields, NEW m
    PROVE  read_blob_request(p, [all EXCEPT !.refs = m]) = read_blob_request(p, all)
<1> PICK u : u = [all EXCEPT !.refs = m]
  OBVIOUS
<1>1. u.handle = all.handle /\ u.found = all.found
  BY DEF ProcFields
<1> QED BY <1>1 DEF read_blob_request

LEMMA ReadHandled ==
    ASSUME NEW c, NEW pr, NEW n \in Nat, Alive(pr), n = 1, pr.kind = "read", pr.muted = FALSE,
           pr.refs = 1, NEW w, Reads(w, c, pr)
    PROVE  Handled(read_long_destroy(w.proc), w.sends, c, pr, n)
<1>0. DOMAIN pr = ProcFields /\ pr.reported = <<>> /\ Keeps(pr, pr)
  BY DEF Alive, Keeps
<1>1. ASSUME NEW all, Keeps(all, pr), all.refs = 1, all.reported = <<>>,
             NEW status, NEW data, w = Then(Report(all, status, data), <<>>)
      PROVE  Handled(read_long_destroy(w.proc), w.sends, c, pr, n)
  <2> PICK u : u = Report(all, status, data)
    OBVIOUS
  <2>1. Keeps(u, all) /\ u.refs = all.refs /\ (all.reported = <<>> => Len(u.reported) = 1)
    BY <1>1, ReportFields DEF Keeps
  <2>2. Keeps(u, pr) /\ u.refs = 1 /\ Len(u.reported) = 1
    BY <1>1, <2>1 DEF Keeps
  <2> PICK r : r = read_long_destroy(u)
    OBVIOUS
  <2>3. Handled(r, <<>>, c, pr, n)
    BY <2>2, ReadOver
  <2>4. w.proc = u /\ w.sends = <<>>
    BY <1>1 DEF Then
  <2> QED BY <2>3, <2>4
<1>2. ASSUME NEW x, NEW d, NEW all, all = [pr EXCEPT !.found = x],
             w = Then([all EXCEPT !.refs = @ + 1], <<d>>), d = read_blob_request(c.proc, all)
      PROVE  Handled(read_long_destroy(w.proc), w.sends, c, pr, n)
  <2> PICK u : u = [all EXCEPT !.refs = @ + 1]
    OBVIOUS
  <2>1. Keeps(all, pr) /\ Keeps(u, pr) /\ u.refs = 2 /\ u.reported = <<>> /\ DOMAIN all = ProcFields
    BY <1>0, <1>2, PartFields DEF Keeps
  <2>2. d = read_blob_request(c.proc, u)
    <3>1. read_blob_request(c.proc, [all EXCEPT !.refs = all.refs + 1]) = read_blob_request(c.proc, all)
      BY <2>1, BlobOfPart
    <3>2. u = [all EXCEPT !.refs = all.refs + 1]
      OBVIOUS
    <3> QED BY <1>2, <3>1, <3>2
  <2> PICK r : r = read_long_destroy(u)
    OBVIOUS
  <2>3. Handled(r, <<d>>, c, pr, n)
    BY <2>1, <2>2, ReadGoesOn
  <2>4. w.proc = u /\ w.sends = <<d>>
    BY <1>2 DEF Then
  <2> QED BY <2>3, <2>4
<1>3. CASE \E x, status, data : w = Then(Report([pr EXCEPT !.found = x], status, data), <<>>)
  <2> PICK x, status, data : w = Then(Report([pr EXCEPT !.found = x], status, data), <<>>)
    BY <1>3
  <2> PICK all : all = [pr EXCEPT !.found = x]
    OBVIOUS
  <2>1. Keeps(all, pr) /\ all.refs = 1 /\ all.reported = <<>>
    <3>1. Keeps(all, pr) /\ Same(all, pr)
      BY <1>0, FoundFields
    <3> QED BY <1>0, <3>1 DEF Same
  <2> QED BY <1>1, <2>1
<1>4. CASE \E status, data : w = Then(Report(pr, status, data), <<>>)
  BY <1>0, <1>1, <1>4
<1> QED BY <1>2, <1>3, <1>4 DEF Reads

LEMMA ReadCharReads ==
    ASSUME NEW c, NEW pr, NEW a, NEW w, w = read_char_helper(c.proc, pr, a)
    PROVE  Reads(w, c, pr)
  BY DEF read_char_helper, Reads

LEMMA ReadBlobReads ==
    ASSUME NEW c, NEW pr, DOMAIN pr = ProcFields, NEW a, NEW w, w = read_blob_helper(c.proc, pr, a)
    PROVE  Reads(w, c, pr)
<1> DEFINE all == [pr EXCEPT !.found = @ \o a.items]
<1>1. all = [pr EXCEPT !.found = pr.found \o a.items]
  OBVIOUS
<1>2. \/ w = Then(Report(pr, "ok", pr.found), <<>>)
      \/ w = Then(Report(all, "ok", all.found), <<>>)
      \/ w = Then([all EXCEPT !.refs = @ + 1], <<read_blob_request(c.proc, all)>>)
  BY DEF read_blob_helper
<1> QED BY <1>1, <1>2 DEF Reads

LEMMA HasObjectKept ==
    ASSUME NEW r, NEW pr, Keeps(r, pr)
    PROVE  HasObject(r) <=> HasObject(pr)
<1>1. r.kind = pr.kind /\ r.value = pr.value
  BY DEF Keeps
<1> QED BY <1>1 DEF HasObject

(* A part of a long write, or the order to write them, is sent.               *)
LEMMA WriteGoesOn ==
    ASSUME NEW c, NEW pr, NEW n \in Nat, Alive(pr), n = 1, pr.kind = "write", pr.muted = FALSE,
           NEW r, Keeps(r, pr), r.refs \in Nat, r.reported = <<>>, r.held \in BOOLEAN,
           ~ HasObject(r) => r.held = FALSE,
           NEW ask \in {"prepare", "execute"}, NEW from \in 0..MaxHandle, NEW data,
           ask = "prepare" /\ r.flawed = FALSE => r.held = TRUE,
           ask = "execute" => r.held = FALSE,
           NEW d, IsCommand(d, c.proc, ask, from, data)
    PROVE  Handled(r, <<d>>, c, pr, n)
<1>1. /\ r.kind = "write" /\ r.muted = FALSE /\ r.refused = FALSE /\ r.flawed \in BOOLEAN
      /\ r.kind \notin Discoveries /\ r.kind # "read" /\ r.kind # "include" /\ pr.kind # "include"
  BY DEF Keeps, Alive, Discoveries
<1>2. DOMAIN d = CommandFields /\ d.proc = c.proc /\ d.ask = ask /\ d.from = from /\ d.func = TRUE
  BY DEF IsCommand
<1>3. CommandOK(d, r)
  <2>1. Belongs(d.ask, r)
    BY <1>1, <1>2 DEF Belongs
  <2>2. d.from \in 0..MaxHandle /\ d.ask \notin Tables /\ d.ask # "resolve"
    BY <1>2 DEF Tables
  <2>3. d.ask = "prepare" /\ r.flawed = FALSE => r.held = TRUE
    BY <1>2
  <2>4. d.ask = "execute" => r.held = FALSE
    BY <1>2
  <2> QED BY <1>1, <1>2, <2>1, <2>2, <2>3, <2>4, NextCommand
<1> QED BY <1>1, <1>2, <1>3, HandledNext

LEMMA PrepareHandled ==
    ASSUME NEW c, NEW pr, NEW n \in Nat, Alive(pr), n = 1, pr.kind = "write", pr.muted = FALSE,
           ~ HasObject(pr) => pr.held = FALSE, pr.flawed = FALSE => pr.held = TRUE,
           NEW a, Failed(a) => pr.flawed = TRUE,
           NEW w, w = prepare_write_cb(c.proc, pr, a)
    PROVE  Handled(w.proc, w.sends, c, pr, n)
<1>0. DOMAIN pr = ProcFields /\ pr.reported = <<>> /\ pr.refs \in Nat /\ pr.held \in BOOLEAN
  BY DEF Alive
<1> PICK after : after = [pr EXCEPT !.offset = @ + Taken(a)]
  OBVIOUS
<1> PICK last : last = [after EXCEPT !.held = FALSE]
  OBVIOUS
<1>1. /\ Keeps(after, pr) /\ Same(after, pr)
      /\ Keeps(last, pr) /\ last.refs = pr.refs /\ last.held = FALSE /\ last.reported = pr.reported
  <2>1. Keeps(after, pr) /\ Same(after, pr) /\ DOMAIN after = ProcFields
    BY <1>0 DEF Keeps, Same, ProcFields
  <2>2. Keeps(last, after) /\ last.refs = after.refs /\ last.held = FALSE /\ last.reported = after.reported
    BY <2>1 DEF Keeps, ProcFields
  <2> QED BY <2>1, <2>2 DEF Keeps, Same
<1>2. CASE Failed(a)
  <2> PICK r : r = Report(pr, a.status, <<>>)
    OBVIOUS
  <2>1. Keeps(r, pr) /\ r.refs = pr.refs /\ r.held = pr.held /\ (pr.reported = <<>> => Len(r.reported) = 1)
    BY <1>0, ReportFields
  <2>2. r.kind = "write" /\ r.muted = FALSE /\ r.flawed = TRUE
    BY <1>2, <2>1 DEF Keeps
  <2>3. ~ HasObject(r) => r.held = FALSE
    BY <2>1, HasObjectKept
  <2>4. Handled(r, <<>>, c, pr, n)
    BY <1>0, <2>1, <2>2, <2>3, HandledLast DEF Discoveries
  <2>5. w = Then(r, <<>>)
    BY <1>2 DEF prepare_write_cb
  <2> QED BY <2>4, <2>5, ThenHandled
<1>3. CASE ~ Failed(a) /\ after.offset = Len(pr.value)
  <2> PICK d : d = Command(c.proc, "execute", 0, 0, <<>>)
    OBVIOUS
  <2>1. IsCommand(d, c.proc, "execute", 0, <<>>)
    BY CommandFacts
  <2>2. 0 \in 0..MaxHandle /\ last.held \in BOOLEAN /\ last.refs \in Nat /\ last.reported = <<>>
    BY <1>0, <1>1, LimitsAssumption
  <2>3. Handled(last, <<d>>, c, pr, n)
    BY <1>1, <2>1, <2>2, WriteGoesOn
  <2>4. w = Then(last, <<d>>)
    BY <1>3 DEF prepare_write_cb, execute_write
  <2> QED BY <2>3, <2>4, ThenHandled
<1>4. CASE ~ Failed(a) /\ after.offset # Len(pr.value)
  <2> PICK d : d = prepare_write(c.proc, after)
    OBVIOUS
  <2>1. after.handle \in 0..MaxHandle /\ after.flawed = pr.flawed
    BY <1>1, LimitsAssumption DEF Keeps, Alive
  <2> PICK data : IsCommand(d, c.proc, "prepare", after.handle, data)
    BY CommandFacts DEF prepare_write
  <2>2. ~ HasObject(after) => after.held = FALSE
    BY <1>1, HasObjectKept DEF Same
  <2>3. after.held \in BOOLEAN /\ after.refs \in Nat /\ after.reported = <<>> /\ after.held = pr.held
    BY <1>0, <1>1 DEF Same
  <2>4. Handled(after, <<d>>, c, pr, n)
    BY <1>1, <2>1, <2>2, <2>3, WriteGoesOn
  <2>5. w = Then(after, <<d>>)
    BY <1>4 DEF prepare_write_cb
  <2> QED BY <2>4, <2>5, ThenHandled
<1> QED BY <1>2, <1>3, <1>4

LEMMA DirectHandled ==
    ASSUME NEW c, NEW pr, NEW n \in Nat, Alive(pr), n = 1, pr.kind \in {"single", "write"}, pr.muted = FALSE,
           pr.held = FALSE, NEW a, NEW w, w = direct_cb(pr, a)
    PROVE  Handled(w.proc, w.sends, c, pr, n)
<1>0. DOMAIN pr = ProcFields /\ pr.reported = <<>> /\ pr.refs \in Nat
  BY DEF Alive
<1> PICK r : r = Report(pr, a.status, a.items)
  OBVIOUS
<1>1. Keeps(r, pr) /\ r.refs = pr.refs /\ r.held = pr.held /\ (pr.reported = <<>> => Len(r.reported) = 1)
  BY <1>0, ReportFields
<1>2. r.kind \in {"single", "write"} /\ r.muted = FALSE
  BY <1>1 DEF Keeps
<1>3. Handled(r, <<>>, c, pr, n)
  BY <1>0, <1>1, <1>2, HandledLast DEF Discoveries
<1>4. w = Then(r, <<>>)
  BY DEF direct_cb
<1> QED BY <1>3, <1>4, ThenHandled

(* The callback was cleared by a cancel.                                     *)
LEMMA MutedHandled ==
    ASSUME NEW c, NEW pr, NEW n \in Nat, Alive(pr), n = 1, pr.kind \notin {"include", "read"},
           pr.muted = TRUE, ~ HasObject(pr) => pr.held = FALSE
    PROVE  Handled(pr, <<>>, c, pr, n)
<1>1. Keeps(pr, pr) /\ pr.reported = <<>> /\ pr.refs \in Nat /\ pr.held \in BOOLEAN
  BY DEF Keeps, Alive
<1> QED BY <1>1, HandledLast

----------------------------------------------------------------------------
(* What the head of the queue becomes.                                       *)

Done(c, pr, a) == IF c.func THEN Callback(c, pr, a) ELSE Then(pr, <<>>)

LEMMA HeadDone ==
    ASSUME NEW c, NEW pr, NEW n \in Nat, n > 0, ProcOK(pr, n), CommandOK(c, pr),
           NEW a, AnswerOK(c, a), c.ask = "prepare" /\ Failed(a) => pr.flawed = TRUE,
           NEW w, w = Done(c, pr, a)
    PROVE  Handled(Notify(c, w.proc), w.sends, c, pr, n)
<1>0. /\ Alive(pr) /\ Belongs(c.ask, pr) /\ c.func \in BOOLEAN
      /\ pr.kind # "include" => n = 1
      /\ pr.kind \in {"include", "read"} => pr.refs = n /\ pr.held = TRUE
      /\ pr.kind \in Discoveries /\ pr.muted = FALSE => pr.held = TRUE
      /\ ~ HasObject(pr) => pr.held = FALSE
  BY HeadAlive DEF CommandOK
<1>1. /\ pr.muted \in BOOLEAN /\ pr.flawed \in BOOLEAN /\ pr.held \in BOOLEAN
      /\ pr.kind # "include" /\ c.func = TRUE => pr.muted = FALSE
      /\ pr.kind # "include" /\ c.func = FALSE => pr.muted = TRUE
      /\ c.ask = "resolve" => c.func = TRUE
      /\ c.ask = "prepare" /\ pr.flawed = FALSE /\ pr.muted = FALSE => pr.held = TRUE
      /\ c.ask = "execute" => pr.held = FALSE
  BY <1>0 DEF CommandOK, Alive
<1>2. \A s : c.func = FALSE => w.proc = pr /\ w.sends = <<>>
  BY DEF Done, Then
<1>3. c.func = TRUE => w = Callback(c, pr, a)
  BY DEF Done
<1>4. CASE c.ask \in Discoveries
  <2>1. pr.kind = c.ask /\ pr.kind \notin {"include", "read"} /\ n = 1
    BY <1>0, <1>4 DEF Belongs, Discoveries
  <2>2. Notify(c, w.proc) = w.proc
    BY <1>4 DEF Notify, Discoveries
  <2>3. CASE c.func = TRUE
    <3>1. pr.muted = FALSE /\ pr.held = TRUE
      BY <1>0, <1>1, <1>4, <2>1, <2>3
    <3>2. CASE c.ask = "primary"
      <4>1. w = primary_all_cb(c.proc, pr, a)
        BY <1>3, <2>3, <3>2 DEF Callback
      <4> QED BY <1>0, <2>1, <2>2, <3>1, <3>2, <4>1, PrimaryHandled
    <3>3. CASE c.ask = "primary_uuid"
      <4>1. w = primary_by_uuid_cb(c.proc, pr, a)
        BY <1>3, <2>3, <3>3 DEF Callback
      <4> QED BY <1>0, <2>1, <2>2, <3>1, <3>3, <4>1, PrimaryByUuidHandled
    <3>4. CASE c.ask = "char"
      <4>1. w = char_discovered_cb(c.proc, pr, a)
        BY <1>3, <2>3, <3>4 DEF Callback
      <4> QED BY <1>0, <2>1, <2>2, <3>1, <3>4, <4>1, CharHandled
    <3> QED BY <1>4, <3>2, <3>3, <3>4 DEF Discoveries
  <2>4. CASE c.func = FALSE
    BY <1>0, <1>1, <1>2, <2>1, <2>2, <2>4, MutedHandled
  <2> QED BY <1>0, <2>3, <2>4
<1>5. CASE c.ask = "include"
  <2>1. pr.kind = "include" /\ pr.refs = n /\ pr.held = TRUE
    BY <1>0, <1>5 DEF Belongs, Discoveries
  <2>2. Notify(c, w.proc) = isd_unref(w.proc)
    BY <1>5 DEF Notify
  <2>3. CASE c.func = TRUE
    <3>1. w = find_included_cb(c.proc, pr, a)
      BY <1>3, <1>5, <2>3 DEF Callback
    <3> QED BY <1>0, <1>5, <2>1, <2>2, <3>1, IncludeHandled
  <2>4. CASE c.func = FALSE
    <3>1. DOMAIN <<>> = {} /\ Len(<<>>) = 0 /\ Sequence(<<>>)
      BY EmptySequence
    <3>2. Keeps(pr, pr) /\ pr.refs = n + Len(<<>>) /\ pr.reported = <<>>
      BY <1>0, <2>1, <3>1 DEF Keeps, Alive
    <3> PICK r : r = isd_unref(pr)
      OBVIOUS
    <3>3. Handled(r, <<>>, c, pr, n)
      BY <1>0, <2>1, <3>1, <3>2, UnrefHandled
    <3> QED BY <1>2, <2>2, <2>4, <3>3
  <2> QED BY <1>0, <2>3, <2>4
<1>6. CASE c.ask = "resolve"
  <2>1. pr.kind = "include" /\ pr.refs = n /\ pr.held = TRUE
    BY <1>0, <1>6 DEF Belongs, Discoveries
  <2>2. Notify(c, w.proc) = w.proc
    BY <1>6 DEF Notify
  <2>3. w = resolve_included_uuid_cb(pr, c, a)
    BY <1>1, <1>3, <1>6 DEF Callback
  <2> QED BY <1>0, <2>1, <2>2, <2>3, ResolveHandled
<1>7. CASE c.ask \in {"read", "blob"}
  <2>1. pr.kind = "read" /\ pr.refs = 1 /\ n = 1
    BY <1>0, <1>7 DEF Belongs, Discoveries
  <2>2. Notify(c, w.proc) = read_long_destroy(w.proc)
    BY <1>7 DEF Notify
  <2>3. CASE c.func = TRUE
    <3>1. Reads(w, c, pr)
      <4>1. w = read_char_helper(c.proc, pr, a) \/ w = read_blob_helper(c.proc, pr, a)
        BY <1>3, <1>7, <2>3 DEF Callback
      <4> QED BY <1>0, <4>1, ReadCharReads, ReadBlobReads DEF Alive
    <3>2. pr.muted = FALSE
      BY <1>1, <2>1, <2>3
    <3> QED BY <1>0, <2>1, <2>2, <3>1, <3>2, ReadHandled
  <2>4. CASE c.func = FALSE
    <3>1. Keeps(pr, pr) /\ pr.reported = <<>> /\ pr.muted = TRUE
      BY <1>0, <1>1, <2>1, <2>4 DEF Keeps, Alive
    <3> PICK r : r = read_long_destroy(pr)
      OBVIOUS
    <3>2. Handled(r, <<>>, c, pr, n)
      BY <1>0, <2>1, <3>1, ReadOver
    <3> QED BY <1>2, <2>2, <2>4, <3>2
  <2> QED BY <1>0, <2>3, <2>4
<1>8. CASE c.ask \in {"prepare", "execute", "write", "single"}
  <2>1. pr.kind \in {"single", "write"} /\ pr.kind \notin {"include", "read"} /\ n = 1
    BY <1>0, <1>8 DEF Belongs, Discoveries
  <2>2. Notify(c, w.proc) = w.proc
    BY <1>8 DEF Notify
  <2>3. CASE c.func = TRUE
    <3>1. pr.muted = FALSE
      BY <1>1, <2>1, <2>3
    <3>2. CASE c.ask = "prepare"
      <4>1. w = prepare_write_cb(c.proc, pr, a)
        BY <1>3, <2>3, <3>2 DEF Callback
      <4>2. pr.kind = "write"
        BY <1>0, <3>2 DEF Belongs, Discoveries
      <4>3. (Failed(a) => pr.flawed = TRUE) /\ (pr.flawed = FALSE => pr.held = TRUE)
        BY <1>1, <3>1, <3>2
      <4> QED BY <1>0, <2>1, <2>2, <3>1, <4>1, <4>2, <4>3, PrepareHandled
    <3>3. CASE c.ask \in {"execute", "write", "single"}
      <4>1. w = direct_cb(pr, a)
        BY <1>3, <2>3, <3>3 DEF Callback
      <4>2. pr.held = FALSE
        <5>1. c.ask \in {"write", "single"} => ~ HasObject(pr)
          BY <1>0 DEF Belongs, Discoveries, HasObject
        <5> QED BY <1>0, <1>1, <3>3, <5>1
      <4> QED BY <1>0, <2>1, <2>2, <3>1, <4>1, <4>2, DirectHandled
    <3> QED BY <1>8, <3>2, <3>3
  <2>4. CASE c.func = FALSE
    BY <1>0, <1>1, <1>2, <2>1, <2>2, <2>4, MutedHandled
  <2> QED BY <1>0, <2>3, <2>4
<1>9. \/ c.ask \in Discoveries \/ c.ask = "include" \/ c.ask = "resolve" \/ c.ask \in {"read", "blob"}
      \/ c.ask \in {"prepare", "execute", "write", "single"}
  BY <1>0 DEF Belongs
<1> QED BY <1>4, <1>5, <1>6, <1>7, <1>8, <1>9

----------------------------------------------------------------------------
(* A command leaves the queue.                                               *)

QueueOK(q, ps) == Sequence(q) /\ Sequence(ps) /\ Commands(q, ps) /\ Procedures(q, ps)

(* The procedures are the same but for what the command made of its own.       *)
Likewise(pr, x) ==
    /\ pr.kind = x.kind /\ pr.value = x.value /\ pr.refused = x.refused

LEMMA SearchUnmoved ==
    ASSUME NEW d, NEW x, CommandOK(d, x), x.kind = "include",
           NEW r, r.kind = "include", r.refused = x.refused
    PROVE  CommandOK(d, r)
<1>1. /\ DOMAIN d = CommandFields /\ Belongs(d.ask, x) /\ ~ x.refused /\ d.from \in 0..MaxHandle
      /\ d.ask \in Tables => d.from # 0
      /\ d.func \in BOOLEAN
      /\ d.ask = "resolve" => d.func /\ ~ d.own
  BY DEF CommandOK
<1>2. d.ask \in {"include", "resolve"}
  BY <1>1 DEF Belongs, Discoveries
<1>3. Belongs(d.ask, r)
  BY <1>2 DEF Belongs
<1>4. d.ask # "prepare" /\ d.ask # "execute"
  BY <1>2
<1> QED BY <1>1, <1>3, <1>4 DEF CommandOK

LEMMA SequenceExcept ==
    ASSUME NEW s, Sequence(s), NEW p \in DOMAIN s, NEW x, NEW t, t = [s EXCEPT ![p] = x]
    PROVE  Sequence(t) /\ DOMAIN t = DOMAIN s
<1> PICK n \in Nat : n = Len(s)
  BY SequenceFacts
<1>1. DOMAIN s = 1..n
  BY SequenceFacts
<1>2. DOMAIN t = 1..n /\ t = [i \in 1..n |-> t[i]]
  BY <1>1
<1> QED BY <1>1, <1>2, FunctionSequence

(* Two commands of one procedure are of a search for included services.       *)
LEMMA OnlyOfSearch ==
    ASSUME NEW q, Sequence(q), NEW i \in DOMAIN q, NEW k \in DOMAIN q, k # i, q[i].proc = q[k].proc,
           NEW p, p = q[i].proc, NEW x, ProcOK(x, Count(q, p)), x.refused = FALSE
    PROVE  x.kind = "include"
<1>1. i \in Of(q, p) /\ k \in Of(q, p)
  BY DEF Of
<1>2. IsFiniteSet(Of(q, p)) /\ Count(q, p) \in Nat /\ (Count(q, p) = 0 <=> Of(q, p) = {})
  BY CountType
<1>3. Cardinality(Of(q, p)) # 1
  BY <1>1, <1>2, FS_Singleton
<1>4. Count(q, p) # 1 /\ Count(q, p) # 0
  BY <1>1, <1>2, <1>3 DEF Count
<1>5. ~ (Count(q, p) <= 1)
  BY <1>2, <1>4
<1> QED BY <1>5 DEF ProcOK, Running

(* q2 is q without its command number i, of procedure p, and with those of s.    *)
Leaves(q2, q, i, p, s) ==
    /\ Sequence(q2)
    /\ \A x : Count(q2, x) = Count(q, x) - (IF x = p THEN 1 ELSE 0) + Count(s, x)
    /\ \A j \in DOMAIN q2 : \/ \E k \in DOMAIN s : q2[j] = s[k]
                            \/ \E k \in DOMAIN q : k # i /\ q2[j] = q[k]

LEMMA QueueWithout ==
    ASSUME NEW q, NEW ps, QueueOK(q, ps), NEW i \in DOMAIN q, NEW c, c.proc = q[i].proc,
           NEW p, p = c.proc, NEW n \in Nat, n = Count(q, p),
           NEW pr, Likewise(pr, ps[p]), NEW r, NEW s, Handled(r, s, c, pr, n),
           NEW q2, Leaves(q2, q, i, p, s),
           NEW ps2, ps2 = [ps EXCEPT ![p] = r]
    PROVE  QueueOK(q2, ps2)
<1>0. Sequence(q) /\ Sequence(ps) /\ Commands(q, ps) /\ Procedures(q, ps)
  BY DEF QueueOK
<1>1. p \in DOMAIN ps /\ CommandOK(q[i], ps[p])
  BY <1>0 DEF Commands
<1>2. Sequence(ps2) /\ DOMAIN ps2 = DOMAIN ps
  BY <1>0, <1>1, SequenceExcept
<1>3. ps2[p] = r /\ \A x \in DOMAIN ps : x # p => ps2[x] = ps[x]
  BY <1>1
<1>4. /\ Sequence(s) /\ Keeps(r, pr) /\ ProcOK(r, n - 1 + Len(s))
      /\ \A k \in DOMAIN s : s[k].proc = p /\ CommandOK(s[k], r)
  BY DEF Handled
<1>a. /\ Sequence(q2)
      /\ \A x : Count(q2, x) = Count(q, x) - (IF x = p THEN 1 ELSE 0) + Count(s, x)
      /\ \A j \in DOMAIN q2 : \/ \E k \in DOMAIN s : q2[j] = s[k]
                              \/ \E k \in DOMAIN q : k # i /\ q2[j] = q[k]
  BY DEF Leaves
<1>5. Procedures(q2, ps2)
  <2>1. ASSUME NEW x \in DOMAIN ps PROVE ProcOK(ps2[x], Count(q2, x))
    <3>1. Count(q, x) \in Nat /\ Len(s) \in Nat
      BY <1>0, <1>4, CountType, SequenceFacts
    <3>2. Count(s, x) = IF x = p THEN Len(s) ELSE 0
      <4>1. \A k \in DOMAIN s : s[k].proc = p
        BY <1>4
      <4> QED BY <1>4, <4>1, CountAll
    <3>3. CASE x = p
      <4>1. Count(q2, p) = n - 1 + Len(s)
        BY <1>a, <3>1, <3>2, <3>3
      <4> QED BY <1>3, <1>4, <3>3, <4>1
    <3>4. CASE x # p
      <4>1. Count(q2, x) = Count(q, x)
        BY <1>a, <3>1, <3>2, <3>4
      <4>2. ProcOK(ps[x], Count(q, x))
        BY <1>0 DEF Procedures
      <4> QED BY <1>3, <3>4, <4>1, <4>2
    <3> QED BY <3>3, <3>4
  <2> QED BY <1>2, <2>1 DEF Procedures
<1>6. Commands(q2, ps2)
  <2>1. ASSUME NEW k \in DOMAIN q, k # i
        PROVE  q[k].proc \in DOMAIN ps2 /\ CommandOK(q[k], ps2[q[k].proc])
    <3> PICK d : d = q[k]
      OBVIOUS
    <3>1. d.proc \in DOMAIN ps /\ CommandOK(d, ps[d.proc])
      BY <1>0 DEF Commands
    <3>2. CASE d.proc # p
      BY <1>2, <1>3, <3>1, <3>2
    <3>3. CASE d.proc = p
      <4>1. ps[p].refused \in BOOLEAN /\ ps[p].refused = FALSE /\ ProcOK(ps[p], Count(q, p))
        BY <1>0, <1>1 DEF CommandOK, ProcOK, Procedures
      <4>2. ps[p].kind = "include"
        <5>1. q[i].proc = q[k].proc
          BY <3>3
        <5> QED BY <1>0, <2>1, <4>1, <5>1, OnlyOfSearch
      <4>3. r.kind = "include" /\ r.refused = ps[p].refused
        BY <1>4, <4>2 DEF Keeps, Likewise
      <4>4. CommandOK(d, r)
        BY <3>1, <3>3, <4>2, <4>3, SearchUnmoved
      <4> QED BY <1>2, <1>3, <3>1, <3>3, <4>4
    <3> QED BY <3>2, <3>3
  <2>2. ASSUME NEW j \in DOMAIN q2
        PROVE  q2[j].proc \in DOMAIN ps2 /\ CommandOK(q2[j], ps2[q2[j].proc])
    <3>1. CASE \E k \in DOMAIN s : q2[j] = s[k]
      BY <1>1, <1>2, <1>3, <1>4, <3>1
    <3>2. CASE \E k \in DOMAIN q : k # i /\ q2[j] = q[k]
      BY <2>1, <3>2
    <3> QED BY <1>a, <3>1, <3>2
  <2> QED BY <2>2 DEF Commands
<1> QED BY <1>2, <1>5, <1>6, <1>a DEF QueueOK

(* It is the head, and what is sent goes to either end of the queue.           *)
LEMMA HeadLeaves ==
    ASSUME NEW q, Sequence(q), q # <<>>, NEW p, p = q[1].proc, NEW s, Sequence(s),
           NEW q2, q2 = s \o Tail(q) \/ q2 = Tail(q) \o s
    PROVE  Leaves(q2, q, 1, p, s)
<1> PICK t : t = Tail(q)
  OBVIOUS
<1> PICK c : c = q[1]
  OBVIOUS
<1> PICK one : one = <<c>>
  OBVIOUS
<1>1. Sequence(t) /\ q = one \o t /\ 1 \in DOMAIN q
  BY SequenceTail
<1>2. Sequence(one) /\ Len(one) = 1
  BY SequenceOne
<1>3. Sequence(q2)
  BY <1>1, SequenceConcat
<1>4. ASSUME NEW x PROVE Count(q2, x) = Count(q, x) - (IF x = p THEN 1 ELSE 0) + Count(s, x)
  <2>1. Count(q, x) = Count(one, x) + Count(t, x)
    <3>1. Count(one \o t, x) = Count(one, x) + Count(t, x)
      BY <1>1, <1>2, CountConcat
    <3> QED BY <1>1, <3>1
  <2>2. Count(one, x) = IF x = p THEN 1 ELSE 0
    BY CountOne
  <2>3. Count(q2, x) = Count(s, x) + Count(t, x) \/ Count(q2, x) = Count(t, x) + Count(s, x)
    <3>1. Count(s \o t, x) = Count(s, x) + Count(t, x)
      BY <1>1, CountConcat
    <3>2. Count(t \o s, x) = Count(t, x) + Count(s, x)
      BY <1>1, CountConcat
    <3> QED BY <3>1, <3>2
  <2>4. Count(t, x) \in Nat /\ Count(s, x) \in Nat
    BY <1>1, CountType
  <2> QED BY <2>1, <2>2, <2>3, <2>4
<1>5. ASSUME NEW k \in DOMAIN t PROVE \E j \in DOMAIN q : j # 1 /\ t[k] = q[j]
  <2> PICK m \in Nat : m = Len(t)
    BY <1>1, SequenceFacts
  <2>1. k \in 1..m /\ DOMAIN q = 1..(1 + m)
    <3>1. Sequence(q) /\ Len(q) = 1 + m
      BY <1>1, <1>2, SequenceConcat
    <3> QED BY <1>1, <1>5, <3>1, SequenceFacts
  <2>2. 1 + k \in 1..(1 + m) /\ 1 + k # 1
    BY <2>1
  <2>3. q[1 + k] = t[k]
    BY <1>1, <1>2, <2>1, SequenceConcat
  <2> QED BY <2>1, <2>2, <2>3
<1>6. ASSUME NEW j \in DOMAIN q2
      PROVE  (\E k \in DOMAIN s : q2[j] = s[k]) \/ (\E k \in DOMAIN q : k # 1 /\ q2[j] = q[k])
  <2>1. (\E k \in DOMAIN s : q2[j] = s[k]) \/ (\E k \in DOMAIN t : q2[j] = t[k])
    <3>1. CASE q2 = s \o t
      <4>1. From(q2, s, t)
        BY <1>1, <3>1, ConcatFrom
      <4> QED BY <1>6, <4>1 DEF From
    <3>2. CASE q2 = t \o s
      <4>1. From(q2, t, s)
        BY <1>1, <3>2, ConcatFrom
      <4> QED BY <1>6, <4>1 DEF From
    <3> QED BY <3>1, <3>2
  <2> QED BY <1>5, <2>1
<1> QED BY <1>3, <1>4, <1>6 DEF Leaves

(* It waits, and what is before and after it stays.                          *)
LEMMA WaitingLeaves ==
    ASSUME NEW q, Sequence(q), NEW i \in DOMAIN q, NEW p, p = q[i].proc,
           NEW q2, q2 = SubSeq(q, 1, i - 1) \o SubSeq(q, i + 1, Len(q))
    PROVE  Leaves(q2, q, i, p, <<>>)
<1> PICK n \in Nat : n = Len(q)
  BY SequenceFacts
<1> PICK u : u = SubSeq(q, 1, i - 1)
  OBVIOUS
<1> PICK v : v = SubSeq(q, i + 1, Len(q))
  OBVIOUS
<1> PICK c : c = q[i]
  OBVIOUS
<1> PICK one : one = <<c>>
  OBVIOUS
<1>1. /\ Sequence(u) /\ Sequence(v) /\ Len(u) = i - 1 /\ Len(v) = n - i
      /\ \A j \in DOMAIN u : j \in DOMAIN q /\ u[j] = q[j]
      /\ \A j \in DOMAIN v : i + j \in DOMAIN q /\ v[j] = q[i + j]
      /\ q = u \o (one \o v)
  BY SequenceParts
<1>2. Sequence(one) /\ Sequence(one \o v) /\ i \in 1..n
  BY <1>1, SequenceOne, SequenceConcat, SequenceFacts
<1>3. Sequence(q2)
  BY <1>1, SequenceConcat
<1>4. ASSUME NEW x PROVE Count(q2, x) = Count(q, x) - (IF x = p THEN 1 ELSE 0) + Count(<<>>, x)
  <2>1. Count(q, x) = Count(u, x) + Count(one \o v, x) /\ Count(one \o v, x) = Count(one, x) + Count(v, x)
    <3>1. Count(u \o (one \o v), x) = Count(u, x) + Count(one \o v, x)
      <4>1. Sequence(u) /\ Sequence(one \o v)
        BY <1>1, <1>2, Zenon
      <4> QED BY <4>1, CountConcat
    <3>2. Count(one \o v, x) = Count(one, x) + Count(v, x)
      <4>1. Sequence(one) /\ Sequence(v)
        BY <1>1, <1>2, Zenon
      <4> QED BY <4>1, CountConcat
    <3>3. q = u \o (one \o v)
      BY <1>1, Zenon
    <3> QED BY <3>1, <3>2, <3>3
  <2>2. Count(one, x) = IF x = p THEN 1 ELSE 0
    BY CountOne
  <2>3. Count(q2, x) = Count(u, x) + Count(v, x) /\ Count(<<>>, x) = 0
    <3>1. Count(u \o v, x) = Count(u, x) + Count(v, x)
      <4>1. Sequence(u) /\ Sequence(v)
        BY <1>1, Zenon
      <4> QED BY <4>1, CountConcat
    <3> QED BY <3>1, CountEmpty
  <2>4. Count(u, x) \in Nat /\ Count(v, x) \in Nat
    BY <1>1, CountType
  <2> QED BY <2>1, <2>2, <2>3, <2>4
<1>5. ASSUME NEW j \in DOMAIN q2 PROVE \E k \in DOMAIN q : k # i /\ q2[j] = q[k]
  <2>1. (\E k \in DOMAIN u : q2[j] = u[k]) \/ (\E k \in DOMAIN v : q2[j] = v[k])
    <3>1. From(q2, u, v)
      BY <1>1, ConcatFrom
    <3> QED BY <1>5, <3>1 DEF From
  <2>2. ASSUME NEW k \in DOMAIN u PROVE k # i
    <3>1. DOMAIN u = 1..(i - 1)
      BY <1>1, SequenceFacts
    <3> QED BY <1>2, <3>1
  <2>3. ASSUME NEW k \in DOMAIN v PROVE i + k # i
    <3>1. DOMAIN v = 1..(n - i)
      BY <1>1, SequenceFacts
    <3> QED BY <1>2, <3>1
  <2> QED BY <1>1, <2>1, <2>2, <2>3
<1> QED BY <1>3, <1>4, <1>5 DEF Leaves

(* The answer marks the procedure before its callback.                        *)
Marked(x, c, a) == [x EXCEPT !.flawed = @ \/ (a.status # "ok" /\ ~ Ending(c, a))]

MarkedOK(pr, x, c, a, n) ==
    /\ ProcOK(pr, n) /\ CommandOK(c, pr) /\ Likewise(pr, x)
    /\ c.ask = "prepare" /\ Failed(a) => pr.flawed = TRUE

LEMMA FlawedHead ==
    ASSUME NEW c, NEW x, NEW n \in Nat, n > 0, ProcOK(x, n), CommandOK(c, x), NEW a,
           NEW pr, pr = Marked(x, c, a)
    PROVE  MarkedOK(pr, x, c, a, n)
<1>0. DOMAIN x = ProcFields /\ x.flawed \in BOOLEAN
  BY DEF ProcOK
<1> PICK y \in BOOLEAN : y <=> (x.flawed \/ (a.status # "ok" /\ ~ Ending(c, a)))
  OBVIOUS
<1>1. pr = [x EXCEPT !.flawed = y]
  <2>1. (x.flawed \/ (a.status # "ok" /\ ~ Ending(c, a))) = y
    OBVIOUS
  <2> QED BY <2>1, Zenon DEF Marked
<1>2. /\ DOMAIN pr = ProcFields /\ pr.kind = x.kind /\ pr.handle = x.handle /\ pr.end = x.end
      /\ pr.refs = x.refs /\ pr.held = x.held /\ pr.muted = x.muted /\ pr.refused = x.refused
      /\ pr.value = x.value /\ pr.reported = x.reported
  BY <1>0, <1>1 DEF ProcFields
<1>3. pr.flawed = y
  BY <1>0, <1>1 DEF ProcFields
<1>4. HasObject(pr) <=> HasObject(x)
  BY <1>2 DEF HasObject
<1>5. ProcOK(pr, n)
  <2>1. Running(x, n) => Running(pr, n)
    BY <1>2, <1>4 DEF Running
  <2>2. /\ pr.kind \in Kinds /\ pr.kind \in AllKinds
        /\ pr.handle \in 1..MaxHandle /\ pr.end \in 1..MaxHandle /\ pr.refs \in Nat
        /\ pr.held \in BOOLEAN /\ pr.muted \in BOOLEAN /\ pr.refused \in BOOLEAN /\ pr.flawed \in BOOLEAN
    BY <1>2, <1>3 DEF ProcOK
  <2>3. (pr.refused => n = 0 /\ pr.reported = <<>> /\ ~ pr.muted) /\ (~ pr.refused => Running(x, n))
    BY <1>2 DEF ProcOK
  <2> QED BY <1>2, <2>1, <2>2, <2>3 DEF ProcOK
<1>6. CommandOK(c, pr)
  <2>1. Belongs(c.ask, pr)
    <3>1. Belongs(c.ask, x)
      BY DEF CommandOK
    <3> QED BY <1>2, <3>1 DEF Belongs
  <2>2. ~ pr.flawed => ~ x.flawed
    BY <1>3
  <2> QED BY <1>2, <2>1, <2>2 DEF CommandOK
<1>7. c.ask = "prepare" /\ Failed(a) => pr.flawed = TRUE
  <2>1. c.ask = "prepare" /\ Failed(a) => a.status # "ok" /\ ~ Ending(c, a)
    BY DEF Failed, Ending
  <2> QED BY <1>3, <2>1
<1> QED BY <1>2, <1>5, <1>6, <1>7 DEF Likewise, MarkedOK

LEMMA CountPositive ==
    ASSUME NEW q, Sequence(q), NEW i \in DOMAIN q
    PROVE  Count(q, q[i].proc) \in Nat /\ Count(q, q[i].proc) > 0
<1> PICK p : p = q[i].proc
  OBVIOUS
<1> PICK n : n = Count(q, p)
  OBVIOUS
<1>1. i \in Of(q, p)
  BY DEF Of
<1>2. n \in Nat /\ n # 0
  BY <1>1, CountType
<1>3. n > 0
  BY <1>2
<1> QED BY <1>2, <1>3

(* c is the head of the queue, and handling it leaves r and sends s.           *)
HeadLeft(q, ps, c, p, r, s, q2, ps2) ==
    /\ (q2 = s \o Tail(q) \/ q2 = Tail(q) \o s) /\ ps2 = [ps EXCEPT ![p] = r]
    /\ QueueOK(q, ps) /\ q # <<>> /\ c = q[1] /\ p = c.proc
    /\ \E n \in Nat : \E pr : n = Count(q, p) /\ Likewise(pr, ps[p]) /\ Handled(r, s, c, pr, n)

LEMMA HeadQueue ==
    ASSUME NEW q, NEW ps, NEW c, NEW p, NEW r, NEW s, NEW q2, NEW ps2,
           HeadLeft(q, ps, c, p, r, s, q2, ps2)
    PROVE  QueueOK(q2, ps2)
<1>0. /\ QueueOK(q, ps) /\ q # <<>> /\ c.proc = q[1].proc /\ p = c.proc /\ p = q[1].proc
      /\ (q2 = s \o Tail(q) \/ q2 = Tail(q) \o s) /\ ps2 = [ps EXCEPT ![p] = r]
  BY DEF HeadLeft
<1> PICK n \in Nat : \E pr : n = Count(q, p) /\ Likewise(pr, ps[p]) /\ Handled(r, s, c, pr, n)
  BY DEF HeadLeft
<1> PICK pr : n = Count(q, p) /\ Likewise(pr, ps[p]) /\ Handled(r, s, c, pr, n)
  OBVIOUS
<1>1. Sequence(q) /\ Sequence(s) /\ 1 \in DOMAIN q
  <2>1. Sequence(q) /\ Sequence(s)
    BY <1>0 DEF QueueOK, Handled
  <2> QED BY <1>0, <2>1, SequenceTail
<1>3. Leaves(q2, q, 1, p, s)
  BY <1>0, <1>1, HeadLeaves
<1> QED BY <1>0, <1>1, <1>3, QueueWithout

HeadGone(q, ps, c, a, q2, ps2) ==
    /\ QueueOK(q, ps) /\ q # <<>> /\ c = q[1] /\ AnswerOK(c, a)
    /\ LET w == Done(c, Marked(ps[c.proc], c, a), a)
       IN  /\ q2 = w.sends \o Tail(q) \/ q2 = Tail(q) \o w.sends
           /\ ps2 = [ps EXCEPT ![c.proc] = Notify(c, w.proc)]

LEMMA HeadStep ==
    ASSUME NEW q, NEW ps, NEW c, NEW a, NEW q2, NEW ps2, HeadGone(q, ps, c, a, q2, ps2)
    PROVE  QueueOK(q2, ps2)
<1> PICK pr : pr = Marked(ps[c.proc], c, a)
  OBVIOUS
<1> PICK w : w = Done(c, pr, a)
  OBVIOUS
<1>0. /\ QueueOK(q, ps) /\ q # <<>> /\ c = q[1] /\ AnswerOK(c, a)
      /\ q2 = w.sends \o Tail(q) \/ q2 = Tail(q) \o w.sends
      /\ ps2 = [ps EXCEPT ![c.proc] = Notify(c, w.proc)]
  BY DEF HeadGone
<1> PICK p : p = c.proc
  OBVIOUS
<1> PICK s : s = w.sends
  OBVIOUS
<1> PICK r : r = Notify(c, w.proc)
  OBVIOUS
<1> PICK x : x = ps[p]
  OBVIOUS
<1> PICK n : n = Count(q, p)
  OBVIOUS
<1>1. Sequence(q) /\ Commands(q, ps) /\ Procedures(q, ps) /\ 1 \in DOMAIN q
  <2>1. Sequence(q) /\ Commands(q, ps) /\ Procedures(q, ps)
    BY <1>0 DEF QueueOK
  <2> QED BY <1>0, <2>1, SequenceTail
<1>2. p \in DOMAIN ps /\ CommandOK(c, x) /\ ProcOK(x, n)
  BY <1>0, <1>1 DEF Commands, Procedures
<1>3. n \in Nat /\ n > 0
  <2>1. n = Count(q, q[1].proc)
    BY <1>0
  <2> QED BY <1>1, <2>1, CountPositive
<1>4. /\ ProcOK(pr, n) /\ CommandOK(c, pr) /\ Likewise(pr, x)
      /\ c.ask = "prepare" /\ Failed(a) => pr.flawed = TRUE
  <2>1. pr = Marked(x, c, a)
    OBVIOUS
  <2>2. MarkedOK(pr, x, c, a, n)
    BY <1>2, <1>3, <2>1, FlawedHead
  <2> QED BY <2>2 DEF MarkedOK
<1>5. Handled(r, s, c, pr, n)
  BY <1>0, <1>3, <1>4, HeadDone
<1>6. Likewise(pr, ps[p]) /\ (q2 = s \o Tail(q) \/ q2 = Tail(q) \o s) /\ ps2 = [ps EXCEPT ![p] = r]
  BY <1>0, <1>4
<1>7. HeadLeft(q, ps, c, p, r, s, q2, ps2)
  BY <1>0, <1>3, <1>5, <1>6 DEF HeadLeft
<1> QED BY <1>7, HeadQueue

----------------------------------------------------------------------------
(* A cancel.                                                                *)

Muted(x) == [x EXCEPT !.muted = TRUE]
Cleared(c) == [c EXCEPT !.func = FALSE]

MutedOK(x, c, n) ==
    /\ ProcOK(Muted(x), n) /\ Likewise(Muted(x), x) /\ CommandOK(Cleared(c), Muted(x))
    /\ Cleared(c).proc = c.proc /\ Cleared(c).ask = c.ask /\ Cleared(c).func = FALSE

LEMMA MutedFacts ==
    ASSUME NEW x, NEW c, NEW n \in Nat, n > 0, ProcOK(x, n), CommandOK(c, x), c.own
    PROVE  MutedOK(x, c, n)
<1>0. DOMAIN x = ProcFields /\ DOMAIN c = CommandFields /\ x.refused \in BOOLEAN /\ ~ x.refused
  BY DEF ProcOK, CommandOK
<1> PICK pr : pr = Muted(x)
  OBVIOUS
<1> PICK d : d = Cleared(c)
  OBVIOUS
<1>1. /\ DOMAIN pr = ProcFields /\ pr.kind = x.kind /\ pr.handle = x.handle /\ pr.end = x.end
      /\ pr.refs = x.refs /\ pr.held = x.held /\ pr.flawed = x.flawed /\ pr.refused = x.refused
      /\ pr.value = x.value /\ pr.reported = x.reported /\ pr.muted = TRUE
  BY <1>0 DEF Muted, ProcFields
<1>2. /\ DOMAIN d = CommandFields /\ d.proc = c.proc /\ d.ask = c.ask /\ d.from = c.from
      /\ d.own = c.own /\ d.func = FALSE
  BY <1>0 DEF Cleared, CommandFields
<1>3. HasObject(pr) <=> HasObject(x)
  BY <1>1 DEF HasObject
<1>4. ProcOK(pr, n)
  <2>1. Running(x, n)
    BY <1>0 DEF ProcOK
  <2>2. Running(pr, n)
    BY <1>1, <1>3, <2>1 DEF Running
  <2>3. /\ pr.kind \in Kinds /\ pr.kind \in AllKinds
        /\ pr.handle \in 1..MaxHandle /\ pr.end \in 1..MaxHandle /\ pr.refs \in Nat
        /\ pr.held \in BOOLEAN /\ pr.muted \in BOOLEAN /\ pr.refused \in BOOLEAN /\ pr.flawed \in BOOLEAN
    BY <1>1 DEF ProcOK
  <2> QED BY <1>0, <1>1, <2>2, <2>3 DEF ProcOK
<1>5. CommandOK(d, pr)
  <2>1. Belongs(d.ask, pr)
    <3>1. Belongs(c.ask, x)
      BY DEF CommandOK
    <3> QED BY <1>1, <1>2, <3>1 DEF Belongs
  <2>2. c.ask # "resolve"
    BY DEF CommandOK
  <2>3. /\ d.from \in 0..MaxHandle /\ (d.ask \in Tables => d.from # 0)
        /\ d.ask = "execute" => ~ pr.held
    BY <1>1, <1>2 DEF CommandOK
  <2>4. (d.func <=> ~ pr.muted) /\ d.func \in BOOLEAN /\ pr.muted
    BY <1>1, <1>2
  <2> QED BY <1>0, <1>1, <1>2, <2>1, <2>2, <2>3, <2>4 DEF CommandOK
<1>6. Likewise(pr, x)
  BY <1>1 DEF Likewise
<1> QED BY <1>2, <1>4, <1>5, <1>6 DEF MutedOK

(* What the queue says of one of its commands.                               *)
LEMMA CommandKnown ==
    ASSUME NEW q, NEW ps, QueueOK(q, ps), NEW i \in DOMAIN q, NEW c, c = q[i]
    PROVE  /\ Sequence(q) /\ Sequence(ps) /\ c.proc \in DOMAIN ps /\ CommandOK(c, ps[c.proc])
           /\ ProcOK(ps[c.proc], Count(q, c.proc))
           /\ Count(q, c.proc) \in Nat /\ Count(q, c.proc) > 0
<1>1. Sequence(q) /\ Sequence(ps) /\ Commands(q, ps) /\ Procedures(q, ps)
  BY DEF QueueOK
<1>2. c.proc \in DOMAIN ps /\ CommandOK(c, ps[c.proc])
  BY <1>1 DEF Commands
<1>3. ProcOK(ps[c.proc], Count(q, c.proc))
  BY <1>1, <1>2 DEF Procedures
<1>4. Count(q, q[i].proc) \in Nat /\ Count(q, q[i].proc) > 0
  BY <1>1, CountPositive
<1> QED BY <1>1, <1>2, <1>3, <1>4

CancelsWaiting(q, ps, i, q2, ps2) ==
    /\ q[i].own
    /\ q2 = SubSeq(q, 1, i - 1) \o SubSeq(q, i + 1, Len(q))
    /\ ps2 = [ps EXCEPT ![q[i].proc] = Notify(q[i], Muted(ps[q[i].proc]))]

LEMMA CancelWaiting ==
    ASSUME NEW q, NEW ps, QueueOK(q, ps), NEW i \in DOMAIN q, NEW q2, NEW ps2,
           CancelsWaiting(q, ps, i, q2, ps2)
    PROVE  QueueOK(q2, ps2)
<1> PICK c : c = q[i]
  OBVIOUS
<1> PICK p : p = c.proc
  OBVIOUS
<1> PICK x : x = ps[p]
  OBVIOUS
<1> PICK n : n = Count(q, p)
  OBVIOUS
<1>0. /\ c.own /\ q2 = SubSeq(q, 1, i - 1) \o SubSeq(q, i + 1, Len(q))
      /\ ps2 = [ps EXCEPT ![p] = Notify(c, Muted(x))]
  BY DEF CancelsWaiting
<1>1. Sequence(q) /\ CommandOK(c, x) /\ ProcOK(x, n) /\ n \in Nat /\ n > 0
  BY CommandKnown
<1>2. MutedOK(x, c, n)
  BY <1>0, <1>1, MutedFacts
<1> PICK d : d = Cleared(c)
  OBVIOUS
<1> PICK pr : pr = Muted(x)
  OBVIOUS
<1>3. /\ ProcOK(pr, n) /\ Likewise(pr, x) /\ CommandOK(d, pr)
      /\ d.proc = c.proc /\ d.ask = c.ask /\ d.func = FALSE
  BY <1>2 DEF MutedOK
<1> PICK a : a = Answer("ok", <<>>)
  OBVIOUS
<1>4. AnswerOK(d, a) /\ ~ Failed(a)
  <2>1. <<>> \in Seq(Item)
    OBVIOUS
  <2>2. a.status = "ok" /\ a.items = <<>>
    BY DEF Answer
  <2> QED BY <2>1, <2>2 DEF AnswerOK, Failed
<1> PICK w : w = Done(d, pr, a)
  OBVIOUS
<1>5. w.proc = pr /\ w.sends = <<>>
  BY <1>3 DEF Done, Then
<1>6. Handled(Notify(d, w.proc), w.sends, d, pr, n)
  BY <1>1, <1>3, <1>4, HeadDone
<1> PICK r : r = Notify(c, pr)
  OBVIOUS
<1>7. Notify(d, w.proc) = r
  BY <1>3, <1>5 DEF Notify
<1>8. Handled(r, <<>>, d, pr, n)
  BY <1>5, <1>6, <1>7
<1>9. Leaves(q2, q, i, p, <<>>)
  BY <1>0, <1>1, WaitingLeaves
<1>10. ps2 = [ps EXCEPT ![p] = r] /\ d.proc = q[i].proc /\ p = d.proc /\ Likewise(pr, ps[p]) /\ n = Count(q, p)
  BY <1>0, <1>3
<1> QED BY <1>1, <1>8, <1>9, <1>10, QueueWithout

CancelsSent(q, ps, q2, ps2) ==
    /\ q[1].own
    /\ q2 = [q EXCEPT ![1] = Cleared(q[1])]
    /\ ps2 = [ps EXCEPT ![q[1].proc] = Muted(ps[q[1].proc])]

LEMMA CancelSent ==
    ASSUME NEW q, NEW ps, QueueOK(q, ps), 1 \in DOMAIN q, NEW q2, NEW ps2, CancelsSent(q, ps, q2, ps2)
    PROVE  QueueOK(q2, ps2)
<1> PICK c : c = q[1]
  OBVIOUS
<1> PICK p : p = c.proc
  OBVIOUS
<1> PICK x : x = ps[p]
  OBVIOUS
<1> PICK n : n = Count(q, p)
  OBVIOUS
<1> PICK d : d = Cleared(c)
  OBVIOUS
<1> PICK pr : pr = Muted(x)
  OBVIOUS
<1>0. c.own /\ q2 = [q EXCEPT ![1] = d] /\ ps2 = [ps EXCEPT ![p] = pr]
  BY DEF CancelsSent
<1>1. /\ Sequence(q) /\ Sequence(ps) /\ p \in DOMAIN ps
      /\ CommandOK(c, x) /\ ProcOK(x, n) /\ n \in Nat /\ n > 0
  BY CommandKnown
<1>2. MutedOK(x, c, n)
  BY <1>0, <1>1, MutedFacts
<1>3. /\ ProcOK(pr, n) /\ Likewise(pr, x) /\ CommandOK(d, pr)
      /\ d.proc = c.proc /\ d.ask = c.ask /\ d.func = FALSE
  BY <1>2 DEF MutedOK
<1>4. Sequence(q2) /\ DOMAIN q2 = DOMAIN q /\ Sequence(ps2) /\ DOMAIN ps2 = DOMAIN ps
  BY <1>0, <1>1, SequenceExcept
<1>5. q2[1] = d /\ \A j \in DOMAIN q : j # 1 => q2[j] = q[j]
  BY <1>0
<1>6. ps2[p] = pr /\ \A y \in DOMAIN ps : y # p => ps2[y] = ps[y]
  BY <1>0, <1>1
<1>7. Commands(q, ps) /\ Procedures(q, ps)
  BY DEF QueueOK
<1>8. \A y : Count(q2, y) = Count(q, y)
  <2>1. \A j \in DOMAIN q2 : q2[j].proc = q[j].proc
    BY <1>3, <1>4, <1>5
  <2> QED BY <1>4, <2>1, CountSame
<1>9. Procedures(q2, ps2)
  <2>1. ASSUME NEW y \in DOMAIN ps PROVE ProcOK(ps2[y], Count(q2, y))
    <3>1. CASE y = p
      BY <1>3, <1>6, <1>8, <3>1
    <3>2. CASE y # p
      BY <1>6, <1>7, <1>8, <3>2 DEF Procedures
    <3> QED BY <3>1, <3>2
  <2> QED BY <1>4, <2>1 DEF Procedures
<1>10. Commands(q2, ps2)
  <2>1. ASSUME NEW j \in DOMAIN q
        PROVE  q2[j].proc \in DOMAIN ps2 /\ CommandOK(q2[j], ps2[q2[j].proc])
    <3>1. CASE j = 1
      BY <1>1, <1>3, <1>4, <1>5, <1>6, <3>1
    <3>2. CASE j # 1
      <4> PICK e : e = q[j]
        OBVIOUS
      <4>1. q2[j] = e /\ e.proc \in DOMAIN ps /\ CommandOK(e, ps[e.proc])
        BY <1>5, <1>7, <3>2 DEF Commands
      <4>2. CASE e.proc # p
        BY <1>4, <1>6, <4>1, <4>2
      <4>3. CASE e.proc = p
        <5>1. x.refused \in BOOLEAN /\ x.refused = FALSE
          BY <1>1 DEF CommandOK, ProcOK
        <5>2. q[1].proc = q[j].proc
          BY <4>3
        <5>3. x.kind = "include"
          BY <1>1, <3>2, <5>1, <5>2, OnlyOfSearch
        <5>4. pr.kind = "include" /\ pr.refused = x.refused
          BY <1>3, <5>3 DEF Likewise
        <5>5. CommandOK(e, pr)
          BY <4>1, <4>3, <5>3, <5>4, SearchUnmoved
        <5> QED BY <1>1, <1>4, <1>6, <4>1, <4>3, <5>5
      <4> QED BY <4>2, <4>3
    <3> QED BY <3>1, <3>2
  <2> QED BY <1>4, <2>1 DEF Commands
<1> QED BY <1>4, <1>9, <1>10 DEF QueueOK

----------------------------------------------------------------------------
(* A procedure begins.                                                      *)

LEMMA BeginQueue ==
    ASSUME NEW q, NEW ps, QueueOK(q, ps), NEW x, NEW s, Sequence(s), ProcOK(x, Len(s)),
           \A i \in DOMAIN s : s[i].proc = Len(ps) + 1 /\ CommandOK(s[i], x)
    PROVE  QueueOK(q \o s, Append(ps, x))
<1> PICK m : m = Len(ps)
  OBVIOUS
<1> PICK q2 : q2 = q \o s
  OBVIOUS
<1> PICK one : one = <<x>>
  OBVIOUS
<1> PICK ps2 : ps2 = ps \o one
  OBVIOUS
<1>0. Sequence(q) /\ Sequence(ps) /\ Commands(q, ps) /\ Procedures(q, ps)
  BY DEF QueueOK
<1>1. m \in Nat /\ DOMAIN ps = 1..m
  BY <1>0, SequenceFacts
<1>2. Sequence(one) /\ Len(one) = 1 /\ one[1] = x /\ Append(ps, x) = ps2
  BY <1>0, SequenceOne, SequenceAppend
<1>3. /\ Sequence(ps2) /\ Len(ps2) = m + 1
      /\ \A i \in 1..m : ps2[i] = ps[i]
      /\ \A i \in 1..1 : ps2[m + i] = one[i]
  BY <1>0, <1>2, SequenceConcat
<1>4. DOMAIN ps2 = 1..(m + 1) /\ ps2[m + 1] = x
  <2>1. DOMAIN ps2 = 1..(m + 1)
    BY <1>3, SequenceFacts
  <2>2. 1 \in 1..1
    OBVIOUS
  <2> QED BY <1>2, <1>3, <2>1, <2>2
<1>5. Sequence(q2)
  BY <1>0, SequenceConcat
<1>6. \A y : Count(q2, y) = Count(q, y) + Count(s, y)
  BY <1>0, CountConcat
<1>7. \A y : Count(s, y) = IF y = m + 1 THEN Len(s) ELSE 0
  <2>1. \A i \in DOMAIN s : s[i].proc = m + 1
    OBVIOUS
  <2> QED BY <2>1, CountAll
<1>8. Count(q, m + 1) = 0
  <2>1. m + 1 \notin 1..m
    BY <1>1
  <2>2. \A i \in DOMAIN q : q[i].proc \in 1..m
    BY <1>0, <1>1 DEF Commands
  <2>3. Of(q, m + 1) = {}
    BY <2>1, <2>2 DEF Of
  <2> QED BY <1>0, <2>3, CountType
<1>9. Procedures(q2, ps2)
  <2>1. ASSUME NEW y \in 1..(m + 1) PROVE ProcOK(ps2[y], Count(q2, y))
    <3>1. Len(s) \in Nat
      BY SequenceFacts
    <3>2. CASE y = m + 1
      <4>1. Count(q2, m + 1) = Len(s)
        BY <1>6, <1>7, <1>8, <3>1
      <4> QED BY <1>4, <3>2, <4>1
    <3>3. CASE y # m + 1
      <4>1. y \in 1..m
        BY <1>1, <3>3
      <4>2. Count(q2, y) = Count(q, y)
        <5>1. Count(q, y) \in Nat /\ Count(s, y) = 0
          BY <1>0, <1>7, <3>3, CountType
        <5> QED BY <1>6, <5>1
      <4>3. ProcOK(ps[y], Count(q, y))
        BY <1>0, <1>1, <4>1 DEF Procedures
      <4> QED BY <1>3, <4>1, <4>2, <4>3
    <3> QED BY <3>2, <3>3
  <2> QED BY <1>4, <2>1 DEF Procedures
<1>10. Commands(q2, ps2)
  <2>1. ASSUME NEW j \in DOMAIN q2
        PROVE  q2[j].proc \in DOMAIN ps2 /\ CommandOK(q2[j], ps2[q2[j].proc])
    <3>1. From(q2, q, s)
      BY <1>0, ConcatFrom
    <3>2. CASE \E k \in DOMAIN q : q2[j] = q[k]
      <4> PICK k \in DOMAIN q : q2[j] = q[k]
        BY <3>2
      <4>1. q[k].proc \in 1..m /\ CommandOK(q[k], ps[q[k].proc])
        BY <1>0, <1>1 DEF Commands
      <4>2. q[k].proc \in 1..(m + 1)
        BY <1>1, <4>1
      <4> QED BY <1>3, <1>4, <4>1, <4>2
    <3>3. CASE \E k \in DOMAIN s : q2[j] = s[k]
      <4>1. m + 1 \in 1..(m + 1)
        BY <1>1
      <4>2. q2[j].proc = m + 1 /\ CommandOK(q2[j], x)
        BY <3>3
      <4> QED BY <1>4, <4>1, <4>2
    <3> QED BY <2>1, <3>1, <3>2, <3>3 DEF From
  <2> QED BY <2>1 DEF Commands
<1>11. QueueOK(q2, ps2)
  BY <1>3, <1>5, <1>9, <1>10 DEF QueueOK
<1> QED BY <1>2, <1>11

(* A procedure and its first command as the application makes them.           *)
Fresh(pr, c, p) ==
    /\ DOMAIN pr = ProcFields /\ pr.kind \in Kinds /\ pr.kind \in AllKinds
    /\ pr.handle \in 1..MaxHandle /\ pr.end \in 1..MaxHandle /\ pr.refs \in Nat
    /\ pr.reported = <<>> /\ pr.flawed = FALSE /\ pr.muted = FALSE /\ pr.refused = FALSE
    /\ DOMAIN c = CommandFields /\ c.proc = p /\ c.func = TRUE /\ Belongs(c.ask, pr)
    /\ c.from \in 0..MaxHandle
    /\ c.ask \in Tables => c.from # 0
    /\ c.ask \notin {"resolve", "execute"}
    /\ c.ask = "prepare" => HasObject(pr)

Refused(pr) == [pr EXCEPT !.refused = TRUE, !.held = HasObject(pr) /\ pr.kind # "read"]
Accepted(pr) == [pr EXCEPT !.held = HasObject(pr)]

LEMMA RefusedOK ==
    ASSUME NEW pr, NEW c, NEW p, Fresh(pr, c, p)
    PROVE  ProcOK(Refused(pr), 0)
<1> PICK x : x = Refused(pr)
  OBVIOUS
<1> PICK y \in BOOLEAN : y <=> (HasObject(pr) /\ pr.kind # "read")
  OBVIOUS
<1>1. x = [pr EXCEPT !.refused = TRUE, !.held = y]
  <2>1. (HasObject(pr) /\ pr.kind # "read") = y
    OBVIOUS
  <2> QED BY <2>1, Zenon DEF Refused
<1>2. /\ DOMAIN x = ProcFields /\ x.kind = pr.kind /\ x.handle = pr.handle /\ x.end = pr.end
      /\ x.refs = pr.refs /\ x.held = y /\ x.flawed = pr.flawed /\ x.refused = TRUE
      /\ x.reported = pr.reported /\ x.muted = pr.muted
  BY <1>1 DEF Fresh, ProcFields
<1>3. /\ x.kind \in Kinds /\ x.kind \in AllKinds /\ x.handle \in 1..MaxHandle /\ x.end \in 1..MaxHandle
      /\ x.refs \in Nat /\ x.reported = <<>> /\ x.flawed = FALSE /\ x.muted = FALSE
  BY <1>2 DEF Fresh
<1>4. x.held \in BOOLEAN /\ x.flawed \in BOOLEAN /\ x.muted \in BOOLEAN /\ x.refused \in BOOLEAN /\ ~ x.muted
  BY <1>2, <1>3
<1> QED BY <1>2, <1>3, <1>4 DEF ProcOK

LEMMA AcceptedOK ==
    ASSUME NEW pr, NEW c, NEW p, Fresh(pr, c, p), pr.kind \in {"include", "read"} => pr.refs = 1
    PROVE  ProcOK(Accepted(pr), 1) /\ CommandOK(Own(c), Accepted(pr)) /\ Own(c).proc = p
<1> PICK x : x = Accepted(pr)
  OBVIOUS
<1> PICK d : d = Own(c)
  OBVIOUS
<1> PICK y \in BOOLEAN : y <=> HasObject(pr)
  OBVIOUS
<1>1. x = [pr EXCEPT !.held = y]
  <2>1. HasObject(pr) = y
    BY DEF HasObject
  <2> QED BY <2>1, Zenon DEF Accepted
<1>2. /\ DOMAIN x = ProcFields /\ x.kind = pr.kind /\ x.handle = pr.handle /\ x.end = pr.end
      /\ x.refs = pr.refs /\ x.held = y /\ x.flawed = pr.flawed /\ x.refused = pr.refused
      /\ x.reported = pr.reported /\ x.muted = pr.muted /\ x.value = pr.value
  BY <1>1 DEF Fresh, ProcFields
<1>3. /\ x.kind \in Kinds /\ x.kind \in AllKinds /\ x.handle \in 1..MaxHandle /\ x.end \in 1..MaxHandle
      /\ x.refs \in Nat /\ x.reported = <<>> /\ x.flawed = FALSE /\ x.muted = FALSE /\ x.refused = FALSE
  BY <1>2 DEF Fresh
<1>4. x.held \in BOOLEAN /\ x.flawed \in BOOLEAN /\ x.muted \in BOOLEAN /\ x.refused \in BOOLEAN
  BY <1>2, <1>3
<1>5. HasObject(x) <=> HasObject(pr)
  BY <1>2 DEF HasObject
<1>6. (x.kind \in Discoveries \cup {"include", "read"} => x.held = TRUE) /\ (~ HasObject(x) => x.held = FALSE)
  <2>1. x.kind \in Discoveries \cup {"include", "read"} => HasObject(x)
    BY DEF HasObject, Discoveries
  <2> QED BY <1>2, <1>5, <2>1
<1>7. Running(x, 1)
  <2>1. x.kind \in {"include", "read"} => x.refs = 1 /\ x.held = TRUE
    BY <1>2, <1>6
  <2>2. x.kind \in Discoveries => x.held = TRUE
    BY <1>6
  <2> QED BY <1>3, <1>6, <2>1, <2>2 DEF Running
<1>8. ProcOK(x, 1)
  BY <1>2, <1>3, <1>4, <1>7 DEF ProcOK
<1>9. /\ DOMAIN d = CommandFields /\ d.proc = p /\ d.ask = c.ask /\ d.from = c.from /\ d.func = TRUE
  <2>1. DOMAIN c = CommandFields /\ c.proc = p /\ c.func = TRUE
    BY DEF Fresh
  <2> QED BY <2>1, OwnFacts
<1>10. CommandOK(d, x)
  <2>1. Belongs(d.ask, x)
    <3>1. Belongs(c.ask, pr)
      BY DEF Fresh
    <3> QED BY <1>2, <1>9, <3>1 DEF Belongs
  <2>2. d.from \in 0..MaxHandle /\ (d.ask \in Tables => d.from # 0) /\ d.ask \notin {"resolve", "execute"}
    BY <1>9 DEF Fresh
  <2>3. d.ask = "prepare" => x.held = TRUE
    BY <1>2, <1>9 DEF Fresh
  <2> QED BY <1>3, <1>4, <1>9, <2>1, <2>2, <2>3, NextCommand
<1> QED BY <1>8, <1>9, <1>10

Begins(q, ps, q2, ps2, pr, c) ==
    \/ ps2 = Append(ps, Refused(pr)) /\ q2 = q
    \/ /\ ps2 = Append(ps, Accepted(pr)) /\ q2 = Append(q, Own(c))
       /\ pr.kind \in {"include", "read"} => pr.refs = 1

LEMMA BeginStep ==
    ASSUME NEW q, NEW ps, QueueOK(q, ps), NEW pr, NEW c, Fresh(pr, c, Len(ps) + 1),
           NEW q2, NEW ps2, Begins(q, ps, q2, ps2, pr, c)
    PROVE  QueueOK(q2, ps2)
<1>0. Sequence(q)
  BY DEF QueueOK
<1>1. CASE ps2 = Append(ps, Refused(pr)) /\ q2 = q
  <2> PICK x : x = Refused(pr)
    OBVIOUS
  <2>1. DOMAIN <<>> = {} /\ Len(<<>>) = 0 /\ Sequence(<<>>)
    BY EmptySequence
  <2>2. ProcOK(x, Len(<<>>))
    BY <2>1, RefusedOK
  <2>3. QueueOK(q \o <<>>, Append(ps, x))
    BY <2>1, <2>2, BeginQueue
  <2>4. q \o <<>> = q
    BY <1>0, ConcatEmptySeq DEF Sequence
  <2> QED BY <1>1, <2>3, <2>4
<1>2. CASE /\ ps2 = Append(ps, Accepted(pr)) /\ q2 = Append(q, Own(c))
           /\ pr.kind \in {"include", "read"} => pr.refs = 1
  <2> PICK x : x = Accepted(pr)
    OBVIOUS
  <2> PICK d : d = Own(c)
    OBVIOUS
  <2>1. ProcOK(x, 1) /\ CommandOK(d, x) /\ d.proc = Len(ps) + 1
    BY <1>2, AcceptedOK
  <2>2. DOMAIN <<d>> = {1} /\ Len(<<d>>) = 1 /\ Sequence(<<d>>) /\ <<d>>[1] = d
    BY SequenceOne
  <2>3. ProcOK(x, Len(<<d>>)) /\ \A i \in DOMAIN <<d>> : <<d>>[i].proc = Len(ps) + 1 /\ CommandOK(<<d>>[i], x)
    BY <2>1, <2>2
  <2>4. QueueOK(q \o <<d>>, Append(ps, x))
    BY <2>2, <2>3, BeginQueue
  <2>5. q \o <<d>> = q2
    BY <1>0, <1>2, SequenceAppend
  <2> QED BY <1>2, <2>4, <2>5
<1> QED BY <1>1, <1>2 DEF Begins

----------------------------------------------------------------------------
(* The steps.                                                               *)

LEMMA QueueInvIs == QueueInv <=> QueueOK(queue, procs)
  BY DEF QueueInv, QueueOK

(* The head of the queue is done with, by any answer.                         *)
LEMMA HeadAction ==
    ASSUME QueueInv, queue # <<>>, NEW a, AnswerOK(queue[1], a), HandleHead(a)
    PROVE  QueueInv' /\ sent' = FALSE
<1> PICK q, ps : q = queue /\ ps = procs
  OBVIOUS
<1> PICK q2, ps2 : q2 = queue' /\ ps2 = procs'
  OBVIOUS
<1> PICK c : c = q[1]
  OBVIOUS
<1> PICK pr : pr = Marked(ps[c.proc], c, a)
  OBVIOUS
<1> PICK w : w = Done(c, pr, a)
  OBVIOUS
<1>1. QueueOK(q, ps) /\ q # <<>> /\ AnswerOK(c, a)
  BY QueueInvIs
<1>2. (q2 = w.sends \o Tail(q) \/ q2 = Tail(q) \o w.sends)
  BY DEF HandleHead, Marked, Done
<1>3. ps2 = [ps EXCEPT ![c.proc] = Notify(c, w.proc)]
  BY DEF HandleHead, Marked, Done
<1>4. QueueOK(q2, ps2)
  <2>1. HeadGone(q, ps, c, a, q2, ps2)
    BY <1>1, <1>2, <1>3 DEF HeadGone
  <2> QED BY <2>1, HeadStep
<1>5. QueueOK(queue', procs')
  BY <1>4
<1>6. sent' = FALSE
  BY DEF HandleHead
<1> QED BY <1>5, <1>6 DEF QueueInv, QueueOK, Commands, Procedures, Sequence, Elements

(* An answer without elements is in order unless it must have some.           *)
LEMMA EmptyAnswer ==
    ASSUME NEW c, NEW status, NEW a, a = Answer(status, <<>>)
    PROVE  AnswerOK(c, a)
<1>1. <<>> \in Seq(Item)
  OBVIOUS
<1>2. a.items = <<>>
  BY DEF Answer
<1> QED BY <1>1, <1>2 DEF AnswerOK

LEMMA OtherAnswer ==
    ASSUME NEW c, c.ask \notin Tables, NEW a
    PROVE  AnswerOK(c, a)
  BY DEF AnswerOK

(* The answers of the peer to a search are elements of its table.             *)
LEMMA TableAnswer ==
    ASSUME NEW c, NEW a \in TableAnswers(c)
    PROVE  AnswerOK(c, a)
<1>1. CASE a = Answer("not_found", <<>>)
  BY <1>1, EmptyAnswer
<1>2. CASE \E n \in 1..MaxItems : \E f \in Leading(c, n) :
             a = Answer("ok", [j \in 1..n |-> Table(c.ask)[f[j]]])
  <2> PICK n \in 1..MaxItems : \E f \in Leading(c, n) :
             a = Answer("ok", [j \in 1..n |-> Table(c.ask)[f[j]]])
    BY <1>2
  <2> PICK f \in Leading(c, n) : a = Answer("ok", [j \in 1..n |-> Table(c.ask)[f[j]]])
    OBVIOUS
  <2> PICK t : t = Table(c.ask)
    OBVIOUS
  <2>1. t \in Seq(Item)
    BY PeerAssumption DEF Table
  <2>2. \A j \in 1..n : f[j] \in DOMAIN t
    BY DEF Leading, Matching
  <2> HIDE DEF Item
  <2>3. \A j \in 1..n : t[f[j]] \in Item
    BY <2>1, <2>2
  <2>4. n \in Nat
    BY LimitsAssumption
  <2>5. [j \in 1..n |-> t[f[j]]] \in Seq(Item)
    BY <2>3, <2>4
  <2>6. a.items = [j \in 1..n |-> t[f[j]]]
    BY DEF Answer
  <2> QED BY <2>5, <2>6 DEF AnswerOK
<1> QED BY <1>1, <1>2 DEF TableAnswers

(* All but the timer leave the channel alone.                                *)
LEMMA CompletesStep ==
    ASSUME GattInv, Completes
    PROVE  GattInv'
<1>0. QueueInv /\ ChannelInv
  BY DEF GattInv
<1>1. ASSUME NEW a, AnswerOK(queue[1], a), HandleHead(a), sent, channel' \in {"open", "failing", "stale"}
      PROVE  GattInv'
  <2>1. queue # <<>>
    BY <1>0, <1>1 DEF ChannelInv
  <2>2. QueueInv' /\ sent' = FALSE
    BY <1>0, <1>1, <2>1, HeadAction
  <2>3. ChannelInv'
    BY <1>1, <2>2 DEF ChannelInv
  <2> QED BY <2>2, <2>3 DEF GattInv
<1>2. channel \in {"open", "failing", "stale"}
  BY <1>0 DEF ChannelInv
<1>3. CASE PeerAnswersTable
  <2>1. PICK a \in TableAnswers(queue[1]) : HandleHead(a)
    BY <1>3 DEF PeerAnswersTable
  <2>2. PICK c : c = queue[1]
    OBVIOUS
  <2>3. AnswerOK(c, a)
    BY <2>2, TableAnswer
  <2> QED BY <1>1, <1>2, <1>3, <2>1, <2>2, <2>3 DEF PeerAnswersTable, Asked
<1>4. CASE PeerAnswersOther
  <2>1. PICK a : a = Answer("ok", <<>>)
    OBVIOUS
  <2> QED BY <1>1, <1>2, <1>4, <2>1, EmptyAnswer DEF PeerAnswersOther, Asked
<1>5. CASE PeerAnswersRead
  <2>1. PICK a : HandleHead(a)
    BY <1>5 DEF PeerAnswersRead
  <2>2. queue[1].ask \notin Tables
    BY <1>5 DEF PeerAnswersRead, Asked, Tables
  <2> QED BY <1>1, <1>2, <1>5, <2>1, <2>2, OtherAnswer DEF PeerAnswersRead, Asked
<1>6. CASE PeerAnswersWrite
  <2>1. PICK a : a = Answer("ok", <<>>)
    OBVIOUS
  <2> QED BY <1>1, <1>2, <1>6, <2>1, EmptyAnswer DEF PeerAnswersWrite, Asked
<1>7. CASE PeerAnswersPrepare
  <2>1. PICK a : a = Answer("ok", queue[1].data)
    OBVIOUS
  <2>2. queue[1].ask \notin Tables
    BY <1>7 DEF PeerAnswersPrepare, Asked, Tables
  <2> QED BY <1>1, <1>2, <1>7, <2>1, <2>2, OtherAnswer DEF PeerAnswersPrepare, Asked
<1>8. CASE PeerAnswersExecute
  <2>1. PICK a : a = Answer("ok", <<>>)
    OBVIOUS
  <2> QED BY <1>1, <1>2, <1>8, <2>1, EmptyAnswer DEF PeerAnswersExecute, Asked
<1>9. CASE PeerRefuses
  <2>1. PICK a : a = Answer("error", <<>>)
    OBVIOUS
  <2> QED BY <1>1, <1>2, <1>9, <2>1, EmptyAnswer DEF PeerRefuses
<1>10. CASE PeerGarbles
  <2>1. PICK a : a = Answer("garbled", <<>>)
    OBVIOUS
  <2> QED BY <1>1, <1>2, <1>10, <2>1, EmptyAnswer DEF PeerGarbles, Asked
<1>11. CASE Expire
  <2>1. PICK a : a = Answer("timeout", <<>>)
    OBVIOUS
  <2> QED BY <1>1, <1>11, <2>1, EmptyAnswer DEF Expire
<1> QED BY <1>3, <1>4, <1>5, <1>6, <1>7, <1>8, <1>9, <1>10, <1>11 DEF Completes

LEMMA AbortStep ==
    ASSUME GattInv, Abort
    PROVE  GattInv'
<1>0. QueueInv /\ ChannelInv
  BY DEF GattInv
<1>1. PICK a : a = Answer("aborted", <<>>)
  OBVIOUS
<1>2. queue # <<>> /\ HandleHead(a) /\ channel' = channel
  BY <1>1 DEF Abort
<1>3. AnswerOK(queue[1], a)
  BY <1>1, EmptyAnswer
<1>4. QueueInv' /\ sent' = FALSE
  BY <1>0, <1>2, <1>3, HeadAction
<1>5. ChannelInv'
  BY <1>0, <1>2, <1>4 DEF ChannelInv
<1> QED BY <1>4, <1>5 DEF GattInv

(* A new procedure, whatever its references and the writes beside it.         *)
New(pr, kind, h, e) ==
    /\ DOMAIN pr = ProcFields /\ pr.kind = kind /\ pr.handle = h /\ pr.end = e /\ pr.refs \in Nat
    /\ pr.reported = <<>> /\ pr.flawed = FALSE /\ pr.muted = FALSE /\ pr.refused = FALSE
    /\ pr.found = <<>> /\ pr.offset = 0 /\ pr.err = "ok"

(* One with the reference that its first request holds. *)
NewHeld(pr, kind, h, e) == New(pr, kind, h, e) /\ pr.refs = 1

(* One that writes a value. *)
NewWrite(pr, kind, h, e, value) == New(pr, kind, h, e) /\ pr.value = value

LEMMA NewProcedure ==
    ASSUME NEW kind, NEW uuid, NEW h, NEW e, NEW value
    PROVE  NewWrite(Procedure(kind, uuid, h, e, value), kind, h, e, value)
  BY DEF Procedure, ProcFields, New, NewWrite

LEMMA OneReference ==
    ASSUME NEW pr, NEW kind, NEW h, NEW e, NEW value, NewWrite(pr, kind, h, e, value)
    PROVE  NewHeld([pr EXCEPT !.refs = 1], kind, h, e)
  BY DEF New, NewHeld, NewWrite, ProcFields

LEMMA FirstReference ==
    ASSUME NEW kind, NEW uuid, NEW h, NEW e, NEW value
    PROVE  NewHeld(isd_ref(Procedure(kind, uuid, h, e, value)), kind, h, e)
<1> PICK pr : pr = Procedure(kind, uuid, h, e, value)
  OBVIOUS
<1>1. NewWrite(pr, kind, h, e, value)
  BY NewProcedure
<1>2. DOMAIN pr = ProcFields /\ pr.refs = 0
  BY DEF Procedure, ProcFields
<1>3. isd_ref(pr) = [pr EXCEPT !.refs = 1]
  BY <1>2 DEF isd_ref, ProcFields
<1>4. NewHeld(isd_ref(pr), kind, h, e)
  BY <1>1, <1>3, OneReference
<1> QED BY <1>4

LEMMA BesideOthers ==
    ASSUME NEW pr, NEW kind, NEW h, NEW e, NEW value, NewWrite(pr, kind, h, e, value), NEW x
    PROVE  NewWrite([pr EXCEPT !.beside = x], kind, h, e, value)
  BY DEF New, NewWrite, ProcFields

LEMMA BesideIs ==
    ASSUME NEW pr, NEW kind, NEW h, NEW e, NEW value, NewWrite(pr, kind, h, e, value), NEW x
    PROVE  [pr EXCEPT !.beside = x].beside = x
  BY DEF New, NewWrite, ProcFields

(* A procedure that is new, with the command of its kind.                     *)
LEMMA NewIsFresh ==
    ASSUME NEW kind \in AllKinds, kind \in Kinds, NEW h \in 1..MaxHandle, NEW e \in 1..MaxHandle,
           NEW pr, New(pr, kind, h, e), NEW p, NEW ask, NEW from \in 0..MaxHandle, NEW data,
           NEW c, IsCommand(c, p, ask, from, data), Belongs(ask, pr),
           ask \in Tables => from # 0, ask \notin {"resolve", "execute"},
           ask = "prepare" => HasObject(pr)
    PROVE  Fresh(pr, c, p)
<1>1. DOMAIN c = CommandFields /\ c.proc = p /\ c.func = TRUE /\ c.ask = ask /\ c.from = from
  BY DEF IsCommand
<1> QED BY <1>1 DEF Fresh, New

LEMMA BeginAction ==
    ASSUME QueueInv, NEW pr, NEW c, Begin(pr, c), Fresh(pr, c, Len(procs) + 1),
           channel = "stale" \/ (pr.kind \in {"include", "read"} => pr.refs = 1)
    PROVE  QueueInv'
<1> PICK q, ps : q = queue /\ ps = procs
  OBVIOUS
<1> PICK q2, ps2 : q2 = queue' /\ ps2 = procs'
  OBVIOUS
<1>1. QueueOK(q, ps) /\ Fresh(pr, c, Len(ps) + 1)
  BY QueueInvIs
<1>2. Begins(q, ps, q2, ps2, pr, c)
  <2>1. CASE channel = "stale"
    BY <2>1 DEF Begin, Begins, Refused
  <2>2. CASE channel # "stale"
    BY <2>2 DEF Begin, Begins, Accepted
  <2> QED BY <2>1, <2>2
<1>3. QueueOK(q2, ps2)
  BY <1>1, <1>2, BeginStep
<1>4. QueueOK(queue', procs')
  BY <1>3
<1> QED BY <1>4 DEF QueueInv, QueueOK, Commands, Procedures, Sequence, Elements

(* What it looks for, reads or writes, and how it begins to. *)
Bytes(v, n) == \E x : v = [i \in 1..n |-> <<x, i>>]

Brings(pr, c) ==
    /\ pr.kind \in {"read", "write"} => pr.found = <<>> /\ pr.offset = 0
    /\ pr.kind = "read" => pr.handle \in DOMAIN ValueLen /\ c.from = pr.handle /\ c.to = 0
    /\ pr.kind = "write" =>
          /\ pr.handle \in DOMAIN ValueLen
          /\ \E n \in WriteLens : Bytes(pr.value, n)
          /\ \/ c.ask = "write" /\ c.from = pr.handle /\ c.to = 0 /\ c.data = pr.value
             \/ \E p : c = prepare_write(p, pr)
          /\ ~ pr.beside => ~ Writing
    /\ pr.kind \in Discoveries =>
          /\ pr.found = <<>> /\ c.from = pr.handle /\ c.to = pr.end
          /\ pr.kind # "char" => pr.end = MaxHandle
    /\ pr.kind = "include" =>
          /\ pr.found = <<>> /\ pr.err = "ok"
          /\ c.from = pr.handle /\ c.to = pr.end /\ c.data = <<>>

Starting(pr, c) ==
    /\ Begin(pr, c) /\ Fresh(pr, c, Len(procs) + 1) /\ Brings(pr, c)
    /\ channel = "stale" \/ (pr.kind \in {"include", "read"} => pr.refs = 1)

LEMMA StartsBegin ==
    ASSUME Starts
    PROVE  \E pr, c : Starting(pr, c)
<1> PICK me : me = Len(procs) + 1
  OBVIOUS
<1>a. 1 \in 1..MaxHandle /\ MaxHandle \in 1..MaxHandle /\ \A h \in 1..MaxHandle : h \in 0..MaxHandle /\ h # 0
  BY LimitsAssumption
<1>1. ASSUME NEW pr, NEW c, Begin(pr, c), pr.kind \in Kinds => Fresh(pr, c, me), Brings(pr, c),
             channel = "stale" \/ (pr.kind \in {"include", "read"} => pr.refs = 1)
      PROVE  \E x, d : Starting(x, d)
  <2>1. Fresh(pr, c, Len(procs) + 1)
    BY <1>1 DEF Begin
  <2>2. Starting(pr, c)
    BY <1>1, <2>1 DEF Starting
  <2> QED BY <2>2
<1>2. CASE gatt_discover_primary
  <2>1. PICK kind \in {"primary", "primary_uuid"} :
          \E uuid \in IF kind = "primary" THEN {"any"} ELSE {Services[i].uuid : i \in DOMAIN Services} :
             LET pr == Procedure(kind, uuid, 1, MaxHandle, <<>>)
             IN  Begin(pr, encode_discover_primary(Me, pr, 1))
    BY <1>2 DEF gatt_discover_primary
  <2>2. PICK uuid : LET pr == Procedure(kind, uuid, 1, MaxHandle, <<>>)
                    IN  Begin(pr, encode_discover_primary(Me, pr, 1))
    BY <2>1
  <2>3. PICK pr : pr = Procedure(kind, uuid, 1, MaxHandle, <<>>)
    OBVIOUS
  <2>4. PICK c : c = Command(me, pr.kind, 1, MaxHandle, <<>>)
    OBVIOUS
  <2>5. Begin(pr, c)
    BY <2>2, <2>3, <2>4 DEF encode_discover_primary, Me
  <2>6. New(pr, kind, 1, MaxHandle)
    BY <2>3, NewProcedure DEF NewWrite
  <2>7. pr.kind = kind /\ kind \in AllKinds /\ Belongs(kind, pr) /\ kind \notin {"resolve", "execute", "prepare"}
        /\ pr.kind \notin {"include", "read"}
    BY <2>6 DEF New, AllKinds, Belongs, Discoveries
  <2>8. IsCommand(c, me, kind, 1, <<>>)
    BY <2>4, <2>7, CommandFacts
  <2>9. pr.kind \in Kinds => Fresh(pr, c, me)
    BY <1>a, <2>6, <2>7, <2>8, NewIsFresh
  <2>10. Brings(pr, c)
    <3>1. pr.kind \notin {"read", "write", "include"}
      BY <2>7
    <3>2. pr.found = <<>> /\ pr.handle = 1 /\ pr.end = MaxHandle
      BY <2>6 DEF New
    <3>3. c.from = 1 /\ c.to = MaxHandle
      BY <2>4 DEF Command
    <3> QED BY <3>1, <3>2, <3>3 DEF Brings
  <2> QED BY <1>1, <2>5, <2>7, <2>9, <2>10
<1>3. CASE gatt_find_included
  <2>1. PICK r \in Ranges : LET pr == isd_ref(Procedure("include", "any", r[1], r[2], <<>>))
                            IN  Begin(pr, find_included(Me, pr, r[1]))
    BY <1>3 DEF gatt_find_included
  <2>2. r[1] \in 1..MaxHandle /\ r[2] \in 1..MaxHandle
    BY LimitsAssumption
  <2>3. PICK pr : pr = isd_ref(Procedure("include", "any", r[1], r[2], <<>>))
    OBVIOUS
  <2>4. PICK c : c = Command(me, "include", r[1], pr.end, <<>>)
    OBVIOUS
  <2>5. Begin(pr, c)
    BY <2>1, <2>3, <2>4 DEF find_included, Me
  <2>6. New(pr, "include", r[1], r[2]) /\ pr.refs = 1
    BY <2>3, FirstReference DEF NewHeld
  <2>7. pr.kind = "include" /\ "include" \in AllKinds /\ Belongs("include", pr)
    BY <2>6 DEF New, AllKinds, Belongs
  <2>8. IsCommand(c, me, "include", r[1], <<>>)
    BY <2>4, CommandFacts
  <2>9. pr.kind \in Kinds => Fresh(pr, c, me)
    BY <1>a, <2>2, <2>6, <2>7, <2>8, NewIsFresh
  <2>10. Brings(pr, c)
    <3>1. pr.found = <<>> /\ pr.err = "ok" /\ pr.handle = r[1]
      BY <2>6 DEF New
    <3>2. c.from = r[1] /\ c.to = pr.end /\ c.data = <<>>
      BY <2>4 DEF Command
    <3> QED BY <2>7, <3>1, <3>2 DEF Brings, Discoveries
  <2> QED BY <1>1, <2>5, <2>6, <2>9, <2>10
<1>4. CASE gatt_discover_char
  <2>1. PICK r \in Ranges : \E uuid \in {"any"} \cup {Chars[i].uuid : i \in DOMAIN Chars} :
          Begin(Procedure("char", uuid, r[1], r[2], <<>>), Command(Me, "char", r[1], r[2], <<>>))
    BY <1>4 DEF gatt_discover_char
  <2>2. PICK uuid : Begin(Procedure("char", uuid, r[1], r[2], <<>>), Command(Me, "char", r[1], r[2], <<>>))
    BY <2>1
  <2>3. r[1] \in 1..MaxHandle /\ r[2] \in 1..MaxHandle
    BY LimitsAssumption
  <2>4. PICK pr : pr = Procedure("char", uuid, r[1], r[2], <<>>)
    OBVIOUS
  <2>5. PICK c : c = Command(me, "char", r[1], r[2], <<>>)
    OBVIOUS
  <2>6. New(pr, "char", r[1], r[2])
    BY <2>4, NewProcedure DEF NewWrite
  <2>7. pr.kind = "char" /\ "char" \in AllKinds /\ Belongs("char", pr)
    BY <2>6 DEF New, AllKinds, Belongs, Discoveries
  <2>8. IsCommand(c, me, "char", r[1], <<>>)
    BY <2>5, CommandFacts
  <2>9. pr.kind \in Kinds => Fresh(pr, c, me)
    BY <1>a, <2>3, <2>6, <2>7, <2>8, NewIsFresh
  <2>10. Brings(pr, c)
    <3>1. pr.found = <<>> /\ pr.handle = r[1] /\ pr.end = r[2]
      BY <2>6 DEF New
    <3>2. c.from = r[1] /\ c.to = r[2]
      BY <2>5 DEF Command
    <3> QED BY <2>7, <3>1, <3>2 DEF Brings
  <2>11. Begin(pr, c)
    BY <2>2, <2>4, <2>5 DEF Me
  <2> QED BY <1>1, <2>7, <2>9, <2>10, <2>11
<1>5. CASE gatt_read_char
  <2>1. PICK h \in DOMAIN ValueLen :
          LET pr == Procedure("read", "any", h, h, <<>>)
          IN  Begin(IF channel = "stale" THEN pr ELSE [pr EXCEPT !.refs = 1], Command(Me, "read", h, 0, <<>>))
    BY <1>5 DEF gatt_read_char
  <2>2. h \in 1..MaxHandle
    BY PeerAssumption
  <2>3. PICK pr : pr = IF channel = "stale" THEN Procedure("read", "any", h, h, <<>>)
                       ELSE [Procedure("read", "any", h, h, <<>>) EXCEPT !.refs = 1]
    OBVIOUS
  <2>4. PICK c : c = Command(me, "read", h, 0, <<>>)
    OBVIOUS
  <2>5. Begin(pr, c)
    BY <2>1, <2>3, <2>4 DEF Me
  <2>6. New(pr, "read", h, h) /\ (channel = "stale" \/ pr.refs = 1)
    <3>1. PICK new : new = Procedure("read", "any", h, h, <<>>)
      OBVIOUS
    <3>2. NewWrite(new, "read", h, h, <<>>)
      BY <3>1, NewProcedure
    <3>3. CASE channel = "stale"
      BY <2>3, <3>1, <3>2, <3>3 DEF NewWrite
    <3>4. CASE channel # "stale"
      <4>1. NewHeld([new EXCEPT !.refs = 1], "read", h, h)
        BY <3>2, OneReference
      <4>2. pr = [new EXCEPT !.refs = 1]
        BY <2>3, <3>1, <3>4
      <4> QED BY <4>1, <4>2 DEF NewHeld
    <3> QED BY <3>3, <3>4
  <2>7. pr.kind = "read" /\ "read" \in AllKinds /\ Belongs("read", pr) /\ "read" \notin Tables
    BY <2>6 DEF New, AllKinds, Belongs, Tables
  <2>8. IsCommand(c, me, "read", h, <<>>)
    BY <2>4, CommandFacts
  <2>9. pr.kind \in Kinds => Fresh(pr, c, me)
    BY <1>a, <2>2, <2>6, <2>7, <2>8, NewIsFresh
  <2>10. Brings(pr, c)
    <3>1. c.from = h /\ c.to = 0
      BY <2>4 DEF Command
    <3>2. pr.handle = h /\ pr.found = <<>> /\ pr.offset = 0
      BY <2>6 DEF New
    <3> QED BY <2>7, <3>1, <3>2 DEF Brings, Discoveries
  <2> QED BY <1>1, <2>5, <2>6, <2>9, <2>10
<1>6. CASE gatt_write_char
  <2>1. PICK h \in DOMAIN ValueLen, n \in WriteLens :
          LET value == [i \in 1..n |-> <<Me, i>>]
              pr    == [Procedure("write", "any", h, h, value) EXCEPT !.beside = Writing]
          IN  Begin(pr, IF FitsOnePdu(value) THEN Command(Me, "write", h, 0, value) ELSE prepare_write(Me, pr))
    BY <1>6 DEF gatt_write_char
  <2>2. h \in 1..MaxHandle
    BY PeerAssumption
  <2>3. PICK value : value = [i \in 1..n |-> <<me, i>>]
    OBVIOUS
  <2>4. PICK pr : pr = [Procedure("write", "any", h, h, value) EXCEPT !.beside = Writing]
    OBVIOUS
  <2>5. PICK c : c = IF FitsOnePdu(value) THEN Command(me, "write", h, 0, value) ELSE prepare_write(me, pr)
    OBVIOUS
  <2>6. Begin(pr, c)
    BY <2>1, <2>3, <2>4, <2>5 DEF Me
  <2>7. New(pr, "write", h, h) /\ pr.value = value /\ (~ pr.beside => ~ Writing)
    <3>1. PICK x : x = Writing
      OBVIOUS
    <3>2. PICK new : new = Procedure("write", "any", h, h, value)
      OBVIOUS
    <3>3. NewWrite(new, "write", h, h, value)
      BY <3>2, NewProcedure
    <3>4. NewWrite([new EXCEPT !.beside = x], "write", h, h, value)
      BY <3>3, BesideOthers
    <3>5. pr = [new EXCEPT !.beside = x]
      BY <2>4, <3>1, <3>2
    <3>6. [new EXCEPT !.beside = x].beside = x
      BY <3>3, BesideIs
    <3>7. ~ pr.beside => ~ Writing
      <4>1. pr.beside = x
        BY <3>5, <3>6
      <4> QED BY <3>1, <4>1
    <3>8. New(pr, "write", h, h) /\ pr.value = value
      BY <3>4, <3>5 DEF NewWrite
    <3> QED BY <3>7, <3>8
  <2>8. pr.kind = "write" /\ "write" \in AllKinds /\ pr.handle = h /\ "write" \notin Tables /\ "prepare" \notin Tables
    BY <2>7 DEF New, AllKinds, Tables
  <2>9. pr.kind \in Kinds => Fresh(pr, c, me)
    <3>1. CASE FitsOnePdu(value)
      <4>1. c = Command(me, "write", h, 0, value)
        BY <2>5, <3>1
      <4>2. IsCommand(c, me, "write", h, value)
        BY <4>1, CommandFacts
      <4>3. Belongs("write", pr)
        BY <2>7, <2>8, <3>1 DEF Belongs
      <4> QED BY <1>a, <2>2, <2>7, <2>8, <4>2, <4>3, NewIsFresh
    <3>2. CASE ~ FitsOnePdu(value)
      <4>1. c = prepare_write(me, pr)
        BY <2>5, <3>2
      <4>2. PICK data : IsCommand(c, me, "prepare", h, data)
        BY <2>8, <4>1, CommandFacts DEF prepare_write
      <4>3. Belongs("prepare", pr) /\ HasObject(pr)
        BY <2>7, <2>8, <3>2 DEF Belongs, HasObject
      <4> QED BY <1>a, <2>2, <2>7, <2>8, <4>2, <4>3, NewIsFresh
    <3> QED BY <3>1, <3>2
  <2>10. Brings(pr, c)
    <3>1. pr.found = <<>> /\ pr.offset = 0
      BY <2>7 DEF New
    <3>2. (c.ask = "write" /\ c.from = h /\ c.to = 0 /\ c.data = value) \/ c = prepare_write(me, pr)
      <4>1. c = Command(me, "write", h, 0, value)
               => c.ask = "write" /\ c.from = h /\ c.to = 0 /\ c.data = value
        BY DEF Command
      <4> QED BY <2>5, <4>1
    <3>3. Bytes(value, n)
      BY <2>3 DEF Bytes
    <3>4. \E k \in WriteLens : Bytes(pr.value, k)
      BY <2>7, <3>3
    <3>5. \/ c.ask = "write" /\ c.from = pr.handle /\ c.to = 0 /\ c.data = pr.value
          \/ \E p : c = prepare_write(p, pr)
      BY <2>7, <2>8, <3>2
    <3>6. pr.handle \in DOMAIN ValueLen
      BY <2>8
    <3> QED BY <2>7, <2>8, <3>1, <3>4, <3>5, <3>6 DEF Brings, Discoveries
  <2> QED BY <1>1, <2>6, <2>8, <2>9, <2>10
<1>7. CASE SingleRequest
  <2>1. PICK pr : pr = Procedure("single", "any", 1, MaxHandle, <<>>)
    OBVIOUS
  <2>2. PICK c : c = Command(me, "single", 1, MaxHandle, <<>>)
    OBVIOUS
  <2>3. Begin(pr, c)
    BY <1>7, <2>1, <2>2 DEF SingleRequest, Me
  <2>4. New(pr, "single", 1, MaxHandle)
    BY <2>1, NewProcedure DEF NewWrite
  <2>5. pr.kind = "single" /\ "single" \in AllKinds /\ Belongs("single", pr) /\ "single" \notin Tables
    BY <2>4 DEF New, AllKinds, Belongs, Tables
  <2>6. IsCommand(c, me, "single", 1, <<>>)
    BY <2>2, CommandFacts
  <2>7. pr.kind \in Kinds => Fresh(pr, c, me)
    BY <1>a, <2>4, <2>5, <2>6, NewIsFresh
  <2>8. Brings(pr, c)
    BY <2>5 DEF Brings, Discoveries
  <2> QED BY <1>1, <2>3, <2>5, <2>7, <2>8
<1> QED BY <1>2, <1>3, <1>4, <1>5, <1>6, <1>7 DEF Starts

LEMMA StartsStep ==
    ASSUME GattInv, Starts
    PROVE  GattInv'
<1>0. QueueInv /\ ChannelInv
  BY DEF GattInv
<1> PICK pr, c : Starting(pr, c)
  BY StartsBegin
<1>1. Begin(pr, c) /\ Fresh(pr, c, Len(procs) + 1)
      /\ (channel = "stale" \/ (pr.kind \in {"include", "read"} => pr.refs = 1))
  BY DEF Starting
<1>2. QueueInv'
  BY <1>0, <1>1, BeginAction
<1>3. (channel' = channel) /\ (sent' = sent) /\ (queue # <<>> => queue' # <<>>)
  <2>1. channel' = channel /\ sent' = sent
    BY <1>1 DEF Begin
  <2>2. queue' = queue \/ queue' = Append(queue, Own(c))
    BY <1>1 DEF Begin
  <2>3. Append(queue, Own(c)) # <<>>
    <3>1. Sequence(queue)
      BY <1>0 DEF QueueInv
    <3>2. PICK s, x : s = queue /\ x = Own(c)
      OBVIOUS
    <3>3. s \in Seq(Elements(s) \cup {x})
      BY <3>1, <3>2, SequenceIn
    <3>4. Append(s, x) # <<>>
      BY <3>3, AppendProperties
    <3> QED BY <3>2, <3>4
  <2> QED BY <2>1, <2>2, <2>3
<1>4. ChannelInv'
  BY <1>0, <1>3 DEF ChannelInv
<1> QED BY <1>2, <1>4 DEF GattInv

LEMMA CancelStep ==
    ASSUME GattInv, NEW p \in DOMAIN procs, Cancel(p)
    PROVE  GattInv'
<1> PICK q, ps : q = queue /\ ps = procs
  OBVIOUS
<1> PICK q2, ps2 : q2 = queue' /\ ps2 = procs'
  OBVIOUS
<1>1. PICK i \in DOMAIN queue :
         /\ queue[i].proc = p /\ queue[i].own /\ queue[i].func
         /\ LET pr == [procs[p] EXCEPT !.muted = TRUE] IN
            IF i = 1 /\ sent
            THEN /\ queue' = [queue EXCEPT ![1].func = FALSE]
                 /\ procs' = [procs EXCEPT ![p] = pr]
            ELSE /\ queue' = SubSeq(queue, 1, i - 1) \o SubSeq(queue, i + 1, Len(queue))
                 /\ procs' = [procs EXCEPT ![p] = Notify(queue[i], pr)]
  BY DEF Cancel
<1>2. QueueOK(q, ps) /\ Sequence(q) /\ ChannelInv /\ channel' = channel /\ sent' = sent
  BY DEF GattInv, QueueInv, QueueOK, Cancel
<1>3. i \in DOMAIN q /\ q[i].own /\ q[i].proc = p
  BY <1>1
<1>4. CASE i = 1 /\ sent
  <2>1. q2 = [q EXCEPT ![1] = Cleared(q[1])]
    BY <1>1, <1>4 DEF Cleared
  <2>2. ps2 = [ps EXCEPT ![p] = Muted(ps[p])]
    BY <1>1, <1>4 DEF Muted
  <2>3. CancelsSent(q, ps, q2, ps2)
    BY <1>3, <1>4, <2>1, <2>2 DEF CancelsSent
  <2>4. QueueOK(q2, ps2)
    BY <1>2, <1>3, <1>4, <2>3, CancelSent
  <2>5. q2 # <<>>
    <3>1. DOMAIN q2 = DOMAIN q
      BY <2>1
    <3> QED BY <1>3, <3>1
  <2>6. QueueInv'
    <3>1. QueueOK(queue', procs')
      BY <2>4
    <3> QED BY <3>1 DEF QueueInv, QueueOK, Commands, Procedures, Sequence, Elements
  <2>7. ChannelInv'
    BY <1>2, <2>5 DEF ChannelInv
  <2> QED BY <2>6, <2>7 DEF GattInv
<1>5. CASE ~ (i = 1 /\ sent)
  <2>1. q2 = SubSeq(q, 1, i - 1) \o SubSeq(q, i + 1, Len(q))
    BY <1>1, <1>5
  <2>2. ps2 = [ps EXCEPT ![p] = Notify(q[i], Muted(ps[p]))]
    BY <1>1, <1>5 DEF Muted
  <2>3. CancelsWaiting(q, ps, i, q2, ps2)
    BY <1>3, <2>1, <2>2 DEF CancelsWaiting
  <2>4. QueueOK(q2, ps2)
    BY <1>2, <1>3, <2>3, CancelWaiting
  <2>5. sent => q2 # <<>>
    <3> SUFFICES ASSUME sent PROVE q2 # <<>>
      OBVIOUS
    <3> PICK u : u = SubSeq(q, 1, i - 1)
      OBVIOUS
    <3> PICK v : v = SubSeq(q, i + 1, Len(q))
      OBVIOUS
    <3>1. Sequence(u) /\ Sequence(v) /\ Len(u) = i - 1
      BY <1>2, <1>3, SequenceParts
    <3> PICK n \in Nat : n = Len(q)
      BY <1>2, SequenceFacts
    <3>2. i \in 1..n
      BY <1>2, <1>3, SequenceFacts
    <3> PICK m \in Nat : m = Len(v)
      BY <3>1, SequenceFacts
    <3>3. Len(u \o v) = (i - 1) + m
      BY <3>1, SequenceConcat
    <3>4. (i - 1) + m # 0
      BY <1>5, <3>2
    <3>5. Len(q2) # 0
      BY <2>1, <3>3, <3>4
    <3>6. Len(<<>>) = 0
      OBVIOUS
    <3> QED BY <3>5, <3>6
  <2>6. QueueInv'
    <3>1. QueueOK(queue', procs')
      BY <2>4
    <3> QED BY <3>1 DEF QueueInv, QueueOK, Commands, Procedures, Sequence, Elements
  <2>7. ChannelInv'
    BY <1>2, <2>5 DEF ChannelInv
  <2> QED BY <2>6, <2>7 DEF GattInv
<1> QED BY <1>4, <1>5

----------------------------------------------------------------------------
(* The invariant holds.                                                     *)

LEMMA QueueUnchanged ==
    ASSUME QueueInv, queue' = queue, procs' = procs
    PROVE  QueueInv'
<1>1. QueueOK(queue, procs)
  BY DEF QueueInv, QueueOK
<1>2. QueueOK(queue', procs')
  BY <1>1
<1> QED BY <1>2 DEF QueueInv, QueueOK, Commands, Procedures, Sequence, Elements

LEMMA InvInit == Init => GattInv
<1> SUFFICES ASSUME Init PROVE GattInv
  OBVIOUS
<1>1. queue = <<>> /\ procs = <<>> /\ sent = FALSE /\ channel = "open"
  BY DEF Init
<1>2. DOMAIN <<>> = {}
  OBVIOUS
<1>3. Commands(queue, procs) /\ Procedures(queue, procs)
  BY <1>1, <1>2 DEF Commands, Procedures
<1>4. QueueInv
  BY <1>1, <1>3, EmptySequence DEF QueueInv
<1> QED BY <1>1, <1>4 DEF GattInv, ChannelInv

LEMMA InvStep == GattInv /\ [Next]_vars => GattInv'
<1> SUFFICES ASSUME GattInv, [Next]_vars PROVE GattInv'
  OBVIOUS
<1>0. QueueInv /\ ChannelInv
  BY DEF GattInv
<1>1. CASE Starts
  BY <1>1, StartsStep
<1>2. CASE \E p \in DOMAIN procs : Cancel(p)
  BY <1>2, CancelStep
<1>3. CASE Transmit
  <2>1. QueueInv'
    BY <1>0, <1>3, QueueUnchanged DEF Transmit
  <2>2. ChannelInv'
    BY <1>0, <1>3 DEF Transmit, Waiting, ChannelInv
  <2> QED BY <2>1, <2>2 DEF GattInv
<1>4. CASE Completes
  BY <1>4, CompletesStep
<1>5. CASE Abort
  BY <1>5, AbortStep
<1>6. CASE Close
  <2>1. QueueInv'
    BY <1>0, <1>6, QueueUnchanged DEF Close
  <2>2. ChannelInv'
    BY <1>0, <1>6 DEF Close, ChannelInv
  <2> QED BY <2>1, <2>2 DEF GattInv
<1>7. CASE UNCHANGED vars
  <2>1. QueueInv'
    BY <1>0, <1>7, QueueUnchanged DEF vars
  <2>2. ChannelInv'
    BY <1>0, <1>7 DEF vars, ChannelInv
  <2> QED BY <2>1, <2>2 DEF GattInv
<1>8. CASE WriteFails \/ ReadFails
  <2>1. QueueInv'
    BY <1>0, <1>8, QueueUnchanged DEF WriteFails, ReadFails
  <2>2. ChannelInv'
    BY <1>0, <1>8 DEF WriteFails, ReadFails, ChannelInv
  <2> QED BY <2>1, <2>2 DEF GattInv
<1> QED BY <1>1, <1>2, <1>3, <1>4, <1>5, <1>6, <1>7, <1>8 DEF Next

(* The queue and the procedures agree in every state of gatt.c. *)
THEOREM Inv == Spec => []GattInv
<1>1. Init => GattInv
  BY InvInit
<1>2. GattInv /\ [Next]_vars => GattInv'
  BY InvStep
<1> QED BY <1>1, <1>2, PTL DEF Spec

----------------------------------------------------------------------------
(* What follows from it.                                                    *)

(* A procedure and the number of its commands in the queue. *)
LEMMA ProcKnown ==
    ASSUME GattInv, NEW p \in DOMAIN procs
    PROVE  /\ ProcOK(procs[p], Count(queue, p)) /\ Count(queue, p) \in Nat
           /\ Over(p) <=> Count(queue, p) = 0
<1>1. Sequence(queue) /\ Procedures(queue, procs)
  BY DEF GattInv, QueueInv
<1>2. ProcOK(procs[p], Count(queue, p))
  BY <1>1 DEF Procedures
<1>3. Count(queue, p) \in Nat /\ (Count(queue, p) = 0 <=> Of(queue, p) = {})
  BY <1>1, CountType
<1> QED BY <1>2, <1>3 DEF Over, CommandsOf, Of

LEMMA InvTypes == GattInv => TypeOK
<1> SUFFICES ASSUME GattInv PROVE TypeOK
  OBVIOUS
<1>1. \A p \in DOMAIN procs : procs[p].kind \in Kinds /\ procs[p].refs \in Nat
  BY ProcKnown DEF ProcOK
<1>2. ASSUME NEW i \in DOMAIN queue
      PROVE  /\ queue[i].proc \in DOMAIN procs /\ queue[i].from \in 0..MaxHandle
             /\ queue[i].ask \in {"primary", "primary_uuid", "include", "char"} => queue[i].from # 0
  BY DEF GattInv, QueueInv, Commands, CommandOK, Tables
<1>3. ChannelInv
  BY DEF GattInv
<1> QED BY <1>1, <1>2, <1>3 DEF TypeOK, ChannelInv

LEMMA InvOnce == GattInv => CalledBackOnce
<1> SUFFICES ASSUME GattInv, NEW p \in DOMAIN procs
             PROVE  LET n == Len(procs[p].reported) IN
                    CASE procs[p].refused -> n = 0
                      [] procs[p].muted   -> n = IF procs[p].kind = "include" /\ Over(p) THEN 1 ELSE 0
                      [] OTHER            -> n = IF Over(p) THEN 1 ELSE 0
  BY DEF CalledBackOnce
<1> PICK pr : pr = procs[p]
  OBVIOUS
<1> PICK n : n = Count(queue, p)
  OBVIOUS
<1>1. ProcOK(pr, n) /\ n \in Nat /\ (Over(p) <=> n = 0)
  BY ProcKnown
<1>2. Len(<<>>) = 0
  OBVIOUS
<1>3. pr.refused \in BOOLEAN /\ pr.muted \in BOOLEAN
  BY <1>1 DEF ProcOK
<1>4. CASE pr.refused = TRUE
  BY <1>1, <1>2, <1>4 DEF ProcOK
<1>5. CASE pr.refused = FALSE
  <2>1. Running(pr, n)
    BY <1>1, <1>5 DEF ProcOK
  <2>2. n # 0 => n > 0
    BY <1>1
  <2>3. CASE pr.muted = TRUE
    <3>1. Len(pr.reported) = IF pr.kind = "include" /\ Over(p) THEN 1 ELSE 0
      <4>1. CASE pr.kind = "include" /\ Over(p)
        BY <1>1, <2>1, <4>1 DEF Running
      <4>2. CASE ~ (pr.kind = "include" /\ Over(p))
        <5>1. pr.reported = <<>>
          BY <1>1, <2>1, <2>2, <2>3, <4>2 DEF Running
        <5> QED BY <1>2, <4>2, <5>1
      <4> QED BY <4>1, <4>2
    <3> QED BY <1>5, <2>3, <3>1
  <2>4. CASE pr.muted = FALSE
    <3>1. Len(pr.reported) = IF Over(p) THEN 1 ELSE 0
      <4>1. CASE Over(p)
        BY <1>1, <2>1, <2>4, <4>1 DEF Running
      <4>2. CASE ~ Over(p)
        <5>1. pr.reported = <<>>
          BY <1>1, <2>1, <2>2, <4>2 DEF Running
        <5> QED BY <1>2, <4>2, <5>1
      <4> QED BY <4>1, <4>2
    <3> QED BY <1>5, <2>4, <3>1
  <2> QED BY <1>3, <2>3, <2>4
<1> QED BY <1>3, <1>4, <1>5

LEMMA InvObjects == GattInv => ObjectsExact
<1> SUFFICES ASSUME GattInv, NEW p \in DOMAIN procs
             PROVE  LET pr == procs[p]
                        lost == \/ pr.refused
                                \/ pr.muted /\ pr.kind \notin {"read", "include"}
                                \/ pr.kind = "write" /\ pr.flawed
                    IN  /\ ~ Over(p) /\ HasObject(pr) /\ ~ lost
                              => pr.held \/ \E i \in CommandsOf(p) : queue[i].ask = "execute"
                        /\ Over(p) /\ ~ lost => ~ pr.held
                        /\ pr.kind \in {"include", "read"} /\ ~ pr.refused
                              => pr.refs = Cardinality({i \in CommandsOf(p) :
                                              queue[i].ask \in {"include", "resolve", "read", "blob"}})
  BY DEF ObjectsExact
<1> PICK pr : pr = procs[p]
  OBVIOUS
<1> PICK n : n = Count(queue, p)
  OBVIOUS
<1>1. ProcOK(pr, n) /\ n \in Nat /\ (Over(p) <=> n = 0)
  BY ProcKnown
<1>2. /\ pr.refused \in BOOLEAN /\ pr.muted \in BOOLEAN /\ pr.held \in BOOLEAN /\ pr.flawed \in BOOLEAN
      /\ pr.kind \in AllKinds
  BY <1>1 DEF ProcOK
<1>3. ~ pr.refused => Running(pr, n)
  BY <1>1 DEF ProcOK
<1>4. \A i \in CommandsOf(p) : CommandOK(queue[i], pr)
  BY DEF CommandsOf, GattInv, QueueInv, Commands
<1>5. n # 0 => n > 0
  BY <1>1
<1>6. ASSUME ~ Over(p), HasObject(pr), ~ pr.refused, ~ (pr.muted /\ pr.kind \notin {"read", "include"}),
             ~ (pr.kind = "write" /\ pr.flawed)
      PROVE  pr.held \/ \E i \in CommandsOf(p) : queue[i].ask = "execute"
  <2>1. CASE pr.kind \in {"include", "read"}
    BY <1>1, <1>3, <1>5, <1>6, <2>1 DEF Running
  <2>2. CASE pr.kind \in Discoveries
    BY <1>1, <1>3, <1>5, <1>6, <2>2 DEF Running, Discoveries
  <2>3. CASE pr.kind = "write"
    <3>1. PICK i \in CommandsOf(p) : TRUE
      BY <1>6 DEF Over
    <3> PICK c : c = queue[i]
      OBVIOUS
    <3>2. CommandOK(c, pr)
      BY <1>4
    <3>3. ~ FitsOnePdu(pr.value)
      BY <1>6, <2>3 DEF HasObject
    <3>4. c.ask \in {"prepare", "execute"}
      <4>1. Belongs(c.ask, pr)
        BY <3>2 DEF CommandOK
      <4> QED BY <2>3, <3>3, <4>1 DEF Belongs, Discoveries
    <3>5. ~ pr.flawed /\ ~ pr.muted
      BY <1>6, <2>3
    <3>6. c.ask = "prepare" => pr.held
      BY <3>2, <3>5 DEF CommandOK
    <3> QED BY <3>4, <3>6
  <2>4. pr.kind # "single"
    BY <1>6 DEF HasObject
  <2> QED BY <1>2, <2>1, <2>2, <2>3, <2>4 DEF AllKinds, Discoveries
<1>7. ASSUME Over(p), ~ pr.refused, ~ (pr.muted /\ pr.kind \notin {"read", "include"}),
             ~ (pr.kind = "write" /\ pr.flawed)
      PROVE  ~ pr.held
  <2>1. Running(pr, 0)
    BY <1>1, <1>3, <1>7
  <2>2. CASE pr.kind \in {"include", "read"}
    BY <2>1, <2>2 DEF Running
  <2>3. CASE pr.kind \in Discoveries
    BY <1>7, <2>1, <2>3 DEF Running, Discoveries
  <2>4. CASE pr.kind = "write"
    BY <1>7, <2>1, <2>4 DEF Running
  <2>5. CASE pr.kind = "single"
    BY <2>1, <2>5 DEF Running, HasObject
  <2> QED BY <1>2, <2>2, <2>3, <2>4, <2>5 DEF AllKinds, Discoveries
<1>8. ASSUME pr.kind \in {"include", "read"}, ~ pr.refused
      PROVE  pr.refs = Cardinality({i \in CommandsOf(p) :
                          queue[i].ask \in {"include", "resolve", "read", "blob"}})
  <2>1. pr.refs = n
    BY <1>3, <1>8 DEF Running
  <2>2. \A i \in CommandsOf(p) : queue[i].ask \in {"include", "resolve", "read", "blob"}
    <3>1. ASSUME NEW i \in CommandsOf(p) PROVE queue[i].ask \in {"include", "resolve", "read", "blob"}
      <4>1. Belongs(queue[i].ask, pr)
        BY <1>4 DEF CommandOK
      <4> QED BY <1>8, <4>1 DEF Belongs, Discoveries
    <3> QED BY <3>1
  <2>3. {i \in CommandsOf(p) : queue[i].ask \in {"include", "resolve", "read", "blob"}} = CommandsOf(p)
    BY <2>2
  <2>4. CommandsOf(p) = Of(queue, p)
    BY DEF CommandsOf, Of
  <2> QED BY <2>1, <2>3, <2>4 DEF Count
<1> QED BY <1>6, <1>7, <1>8

(* The procedures and the commands are what gatt.c made: a command names a      *)
(* procedure that began and a handle of 16 bits, which is 0 in no request for    *)
(* a table, however the peer cuts its answers (TypeOK). *)
THEOREM Types == Spec => []TypeOK
<1>1. GattInv => TypeOK
  BY InvTypes
<1> QED BY <1>1, Inv, PTL

(* Whatever is answered, refused, garbled, cancelled or timed out, the callback  *)
(* of each procedure of gatt.c comes once, when none of its requests is left,    *)
(* and never after a cancel, but for the search for included services           *)
(* (CalledBackOnce). *)
THEOREM CallsBackOnce == Spec => []CalledBackOnce
<1>1. GattInv => CalledBackOnce
  BY InvOnce
<1> QED BY <1>1, Inv, PTL

(* The heap objects of gatt.c live while a request may use them and no longer,   *)
(* but in the three cases where they are lost, and the references of a long      *)
(* read and of a search for included services are as many as their requests in   *)
(* the queue (ObjectsExact). *)
THEOREM ObjectsAreExact == Spec => []ObjectsExact
<1>1. GattInv => ObjectsExact
  BY InvObjects
<1> QED BY <1>1, Inv, PTL

----------------------------------------------------------------------------
(* The bytes of values.  A byte is its writer and its place: what a command, a  *)
(* procedure or the peer holds is a piece of a value, at an offset.            *)

Piece(d, o) == Sequence(d) /\ \A j \in DOMAIN d : d[j][2] = o + j

LEMMA EmptyPiece ==
    ASSUME NEW o
    PROVE  Piece(<<>>, o)
<1>1. DOMAIN <<>> = {}
  OBVIOUS
<1> QED BY <1>1, EmptySequence DEF Piece

LEMMA PieceThenPiece ==
    ASSUME NEW d, Piece(d, 0), NEW e, Piece(e, Len(d))
    PROVE  Piece(d \o e, 0) /\ Len(d \o e) = Len(d) + Len(e)
<1> PICK w : w = d \o e
  OBVIOUS
<1>1. Sequence(d) /\ Sequence(e)
  BY DEF Piece
<1> PICK n \in Nat : n = Len(d)
  BY <1>1, SequenceFacts
<1>2. /\ Sequence(w) /\ Len(w) = n + Len(e)
      /\ \A i \in DOMAIN w : \/ i \in DOMAIN d /\ w[i] = d[i]
                             \/ \E j \in DOMAIN e : i = n + j /\ w[i] = e[j]
  BY <1>1, SequenceConcat
<1>3. ASSUME NEW i \in DOMAIN w PROVE w[i][2] = 0 + i
  <2>1. CASE i \in DOMAIN d /\ w[i] = d[i]
    BY <2>1 DEF Piece
  <2>2. CASE \E j \in DOMAIN e : i = n + j /\ w[i] = e[j]
    <3> PICK j \in DOMAIN e : i = n + j /\ w[i] = e[j]
      BY <2>2
    <3>1. e[j][2] = n + j
      BY DEF Piece
    <3>2. j \in Nat
      BY <1>1, SequenceFacts
    <3>3. n + j = 0 + i
      BY <3>2
    <3> QED BY <3>1, <3>3
  <2> QED BY <1>2, <1>3, <2>1, <2>2
<1>4. Piece(w, 0)
  BY <1>2, <1>3 DEF Piece
<1> QED BY <1>2, <1>4

PartIs(w, v, o, m) ==
    /\ Piece(w, o) /\ Len(w) = IF o < m THEN m - o ELSE 0
    /\ \A i \in DOMAIN w : w[i] = v[o + i]

LEMMA PartOfPiece ==
    ASSUME NEW v, Piece(v, 0), NEW o \in Nat, NEW m \in Nat, m <= Len(v), NEW w, w = SubSeq(v, o + 1, m)
    PROVE  PartIs(w, v, o, m)
<1> PICK n \in Nat : n = Len(v) /\ DOMAIN v = 1..n
  BY SequenceFacts DEF Piece
<1> PICK T : T = Elements(v)
  OBVIOUS
<1>1. \A i \in 1..n : v[i] \in T
  BY DEF Elements
<1>2. /\ w \in Seq(T) /\ Len(w) = IF o + 1 <= m THEN m - (o + 1) + 1 ELSE 0
      /\ \A i \in 1..(m - (o + 1) + 1) : w[i] = v[(o + 1) + i - 1]
  <2>1. o + 1 \in Int /\ m \in Int /\ \A i \in (o + 1)..m : v[i] \in T
    BY <1>1
  <2> QED BY <2>1, SubSeqProperties
<1>3. Sequence(w) /\ Len(w) = IF o < m THEN m - o ELSE 0
  <2>1. Sequence(w)
    BY <1>2, SequenceIs
  <2> QED BY <1>2, <2>1
<1>4. ASSUME NEW i \in DOMAIN w PROVE w[i][2] = o + i /\ w[i] = v[o + i]
  <2>1. DOMAIN w = 1..Len(w)
    BY <1>3, SequenceFacts
  <2>2. i \in Nat /\ 1 <= i /\ i <= m - o
    BY <1>3, <2>1
  <2>3. i \in 1..(m - (o + 1) + 1) /\ (o + 1) + i - 1 = o + i /\ o + i \in 1..n
    BY <2>2
  <2>4. w[i] = v[o + i]
    BY <1>2, <2>3
  <2>5. v[o + i][2] = 0 + (o + i)
    BY <2>3 DEF Piece
  <2>6. 0 + (o + i) = o + i
    BY <2>2
  <2> QED BY <2>4, <2>5, <2>6
<1>5. Piece(w, o)
  BY <1>3, <1>4 DEF Piece
<1> QED BY <1>3, <1>4, <1>5 DEF PartIs

LEMMA PieceOverlaid ==
    ASSUME NEW v, Piece(v, 0), NEW o \in Nat, NEW d, Piece(d, o)
    PROVE  Piece(Overlay(v, o, d), 0) /\ Len(Overlay(v, o, d)) = Len(v)
<1> PICK w : w = Overlay(v, o, d)
  OBVIOUS
<1> PICK n \in Nat : n = Len(v) /\ DOMAIN v = 1..n
  BY SequenceFacts DEF Piece
<1>1. w = [i \in 1..n |-> IF i - o \in DOMAIN d THEN d[i - o] ELSE v[i]]
  BY DEF Overlay
<1>2. DOMAIN w = 1..n /\ w = [i \in 1..n |-> w[i]]
  BY <1>1
<1>3. Sequence(w) /\ Len(w) = n
  BY <1>2, FunctionSequence
<1>4. ASSUME NEW i \in 1..n PROVE w[i][2] = 0 + i
  <2> PICK j : j = i - o
    OBVIOUS
  <2>1. w[i] = IF j \in DOMAIN d THEN d[j] ELSE v[i]
    BY <1>1
  <2>2. CASE j \in DOMAIN d
    <3>1. d[j][2] = o + j
      BY <2>2 DEF Piece
    <3>2. o + j = 0 + i
      OBVIOUS
    <3> QED BY <2>1, <2>2, <3>1, <3>2
  <2>3. CASE j \notin DOMAIN d
    BY <2>1, <2>3 DEF Piece
  <2> QED BY <2>2, <2>3
<1>5. Piece(w, 0)
  BY <1>2, <1>3, <1>4 DEF Piece
<1> QED BY <1>3, <1>5

(* What a command says of its procedure: which of its bytes it writes, and that  *)
(* it asks for those after the ones that were read.                           *)
Places(c, pr) ==
    /\ c.from = pr.handle /\ c.to \in Nat /\ Piece(c.data, c.to)
    /\ c.to + Len(c.data) <= Len(pr.value)
    /\ \A i \in DOMAIN c.data : c.data[i] = pr.value[c.to + i]

Carried(c, pr) ==
    /\ c.ask \in {"write", "prepare"} => Places(c, pr)
    /\ c.ask = "write" => c.to = 0 /\ Len(c.data) = Len(pr.value)
    /\ c.ask = "prepare" => c.to = pr.offset
    /\ c.ask = "execute" => pr.offset = Len(pr.value)
    /\ c.ask = "read" => c.from = pr.handle /\ c.to = 0
    /\ c.ask = "blob" => c.from = pr.handle /\ c.to = Len(pr.found)

ReportedOK(pr) ==
    /\ Piece(pr.reported[1].data, 0)
    /\ ~ pr.flawed => Len(pr.reported[1].data) = ValueLen[pr.handle]

Reading(pr) ==
    /\ pr.handle \in DOMAIN ValueLen /\ Piece(pr.found, 0)
    /\ Len(pr.found) <= ValueLen[pr.handle]

(* It writes a value of the length asked for, from offset on what is left of it. *)
Fits(pr) ==
    /\ Piece(pr.value, 0) /\ Len(pr.value) \in WriteLens /\ pr.handle \in DOMAIN ValueLen
    /\ pr.offset \in Nat /\ pr.offset <= Len(pr.value)

(* What a procedure holds: the value it writes, or what it has read. *)
Holds(pr) ==
    /\ pr.kind = "write" => Fits(pr)
    /\ pr.kind = "read" => Reading(pr) /\ (pr.reported # <<>> => ReportedOK(pr))

(* An answer of m bytes to a request for those of n bytes after the first o. *)
PartOf(m, o, n) ==
    /\ m \in Nat /\ m <= BufLen - 1
    /\ o <= n => o + m <= n /\ (m < BufLen - 1 => o + m = n)

(* What the peer answers, and what an answer that failed has. *)
Given(c, a) ==
    /\ c.ask \in {"read", "blob"} =>
          /\ a.status # "garbled" /\ (Failed(a) => a.items = <<>>)
          /\ ~ Failed(a) => Piece(a.items, c.to) /\ PartOf(Len(a.items), c.to, ValueLen[c.from])
    /\ c.ask = "prepare" /\ ~ Failed(a) => a.items = c.data

----------------------------------------------------------------------------
(* What the callbacks leave of it.                                           *)

(* What a callback leaves: the commands it sends carry what they must.        *)
Left(r, sends) == Holds(r) /\ \A i \in DOMAIN sends : Carried(sends[i], r)

LEMMA LeftAlone ==
    ASSUME NEW r, Holds(r), NEW s, s = <<>>
    PROVE  Left(r, s)
<1>1. DOMAIN <<>> = {}
  OBVIOUS
<1> QED BY <1>1 DEF Left

LEMMA LeftOne ==
    ASSUME NEW r, Holds(r), NEW d, Carried(d, r), NEW s, s = <<d>>
    PROVE  Left(r, s)
<1>1. DOMAIN <<d>> = {1} /\ <<d>>[1] = d
  BY SequenceOne
<1> QED BY <1>1 DEF Left

LEMMA ReportData ==
    ASSUME NEW pr, DOMAIN pr = ProcFields, pr.reported = <<>>, NEW status, NEW data,
           NEW r, r = Report(pr, status, data)
    PROVE  /\ Keeps(r, pr) /\ r.found = pr.found /\ r.offset = pr.offset
           /\ r.reported # <<>> /\ r.reported[1].data = data /\ r.reported[1].status = status
<1>1. Keeps(r, pr) /\ r.found = pr.found /\ r.offset = pr.offset
  BY DEF Report, Keeps, ProcFields
<1> PICK e : e = [status |-> status, data |-> data]
  OBVIOUS
<1>2. r.reported = Append(<<>>, e)
  BY DEF Report, ProcFields
<1>3. Append(<<>>, e) = <<e>> /\ <<e>> # <<>> /\ <<e>>[1] = e
  OBVIOUS
<1>4. e.data = data /\ e.status = status
  OBVIOUS
<1> QED BY <1>1, <1>2, <1>3, <1>4

LEMMA DestroyKeeps ==
    ASSUME NEW u, DOMAIN u = ProcFields, NEW r, r = read_long_destroy(u)
    PROVE  Keeps(r, u) /\ r.found = u.found /\ r.offset = u.offset /\ r.reported = u.reported
<1> PICK y : y = (u.refs > 1)
  OBVIOUS
<1>1. r = [u EXCEPT !.refs = @ - 1, !.held = y]
  BY DEF read_long_destroy
<1> QED BY <1>1 DEF Keeps, ProcFields

(* What a read has so far, all, is what pr makes of an answer; and what it may    *)
(* report.                                                                  *)
ReadOn(all, pr) ==
    /\ Alive(pr) /\ pr.kind = "read" /\ Keeps(all, pr) /\ all.reported = <<>> /\ Reading(all)

Reportable(data, pr) == Piece(data, 0) /\ (~ pr.flawed => Len(data) = ValueLen[pr.handle])

(* The read ends: it reports what it has, all of it unless it is flawed.      *)
LEMMA ReadEnds ==
    ASSUME NEW pr, NEW all, ReadOn(all, pr), NEW status, NEW data, Reportable(data, pr),
           NEW w, w = Then(Report(all, status, data), <<>>)
    PROVE  Left(read_long_destroy(w.proc), w.sends)
<1> PICK u : u = Report(all, status, data)
  OBVIOUS
<1>1. /\ DOMAIN all = ProcFields /\ all.kind = "read" /\ all.handle = pr.handle /\ all.flawed = pr.flawed
      /\ all.reported = <<>> /\ Reading(all)
  BY DEF ReadOn, Keeps
<1>2. /\ Keeps(u, all) /\ u.found = all.found /\ u.reported # <<>> /\ u.reported[1].data = data
  BY <1>1, ReportData
<1> PICK r : r = read_long_destroy(u)
  OBVIOUS
<1>3. DOMAIN u = ProcFields
  BY <1>2 DEF Keeps
<1>4. Keeps(r, u) /\ r.found = u.found /\ r.reported = u.reported
  BY <1>3, DestroyKeeps
<1>5. r.kind = "read" /\ r.handle = pr.handle /\ r.flawed = pr.flawed
  BY <1>1, <1>2, <1>4 DEF Keeps
<1>6. Reading(r)
  BY <1>1, <1>2, <1>4, <1>5 DEF Reading
<1>7. ReportedOK(r)
  BY <1>2, <1>4, <1>5 DEF ReportedOK, Reportable
<1>8. w.proc = u /\ w.sends = <<>>
  BY ThenFacts
<1>9. Holds(r)
  BY <1>5, <1>6, <1>7 DEF Holds
<1> QED BY <1>8, <1>9, LeftAlone

(* It goes on: what it asks for next is what follows.                         *)
LEMMA ReadAsksOn ==
    ASSUME NEW pr, NEW all, ReadOn(all, pr), NEW p, NEW d, d = read_blob_request(p, all),
           NEW w, w = Then([all EXCEPT !.refs = @ + 1], <<d>>)
    PROVE  Left(read_long_destroy(w.proc), w.sends)
<1> PICK r : r = read_long_destroy(w.proc)
  OBVIOUS
<1> PICK u : u = [all EXCEPT !.refs = @ + 1]
  OBVIOUS
<1>1. /\ DOMAIN all = ProcFields /\ all.kind = "read" /\ all.handle = pr.handle
      /\ all.reported = <<>> /\ Reading(all)
  BY DEF ReadOn, Keeps
<1>2. DOMAIN u = ProcFields /\ u.kind = "read" /\ u.handle = all.handle /\ u.found = all.found
      /\ u.reported = <<>>
  BY <1>1 DEF ProcFields
<1>3. w.proc = u /\ w.sends = <<d>>
  BY ThenFacts
<1>4. Keeps(r, u) /\ r.found = u.found /\ r.reported = u.reported
  BY <1>2, <1>3, DestroyKeeps
<1>5. r.kind = "read" /\ r.handle = all.handle /\ r.found = all.found /\ r.reported = <<>>
  BY <1>2, <1>4 DEF Keeps
<1>6. Holds(r)
  BY <1>1, <1>5 DEF Holds, Reading
<1>7. d.ask = "blob" /\ d.from = all.handle /\ d.to = Len(all.found)
  BY DEF read_blob_request, Own, Command
<1>8. Carried(d, r)
  BY <1>5, <1>7 DEF Carried
<1> QED BY <1>3, <1>6, <1>8, LeftOne

LEMMA FoundIs ==
    ASSUME NEW pr, ReadOn(pr, pr), NEW x, Piece(x, 0), Len(x) <= ValueLen[pr.handle]
    PROVE  ReadOn([pr EXCEPT !.found = x], pr) /\ [pr EXCEPT !.found = x].found = x
<1> PICK all : all = [pr EXCEPT !.found = x]
  OBVIOUS
<1>1. DOMAIN pr = ProcFields /\ pr.reported = <<>> /\ Reading(pr) /\ Alive(pr) /\ pr.kind = "read"
  BY DEF ReadOn, Alive
<1>2. Keeps(all, pr) /\ all.reported = <<>> /\ all.found = x
  BY <1>1 DEF Keeps, ProcFields
<1>3. all.handle = pr.handle
  BY <1>2 DEF Keeps
<1>4. Reading(all)
  BY <1>1, <1>2, <1>3 DEF Reading
<1> QED BY <1>1, <1>2, <1>4 DEF ReadOn

(* A command of a read, the procedure it is of, and an answer to it.          *)
ReadPart(ask, c, pr, a) ==
    /\ c.ask = ask /\ Carried(c, pr) /\ ReadOn(pr, pr)
    /\ Given(c, a) /\ (Failed(a) => pr.flawed = TRUE)

LEMMA ReadCharLeft ==
    ASSUME NEW c, NEW pr, NEW a, ReadPart("read", c, pr, a), NEW w, w = read_char_helper(c.proc, pr, a)
    PROVE  Left(read_long_destroy(w.proc), w.sends)
<1> PICK x : x = a.items
  OBVIOUS
<1>0. ReadOn(pr, pr) /\ BufLen \in Nat /\ pr.handle \in DOMAIN ValueLen
  BY LimitsAssumption DEF ReadPart, ReadOn, Reading
<1> PICK n \in Nat : n = ValueLen[pr.handle]
  BY <1>0, LimitsAssumption
<1> PICK m : m = Len(x)
  OBVIOUS
<1>1. c.to = 0 /\ c.from = pr.handle
  BY DEF ReadPart, Carried
<1>2. Failed(a) => x = <<>> /\ pr.flawed = TRUE
  BY DEF ReadPart, Given
<1>3. ~ Failed(a) => Piece(x, 0) /\ PartOf(m, 0, n)
  BY <1>1 DEF ReadPart, Given
<1>4. ~ Failed(a) => m \in Nat /\ m <= n /\ (m < BufLen - 1 => m = n)
  <2>1. PartOf(m, 0, n) => m \in Nat /\ m <= n /\ (m < BufLen - 1 => m = n)
    BY DEF PartOf
  <2> QED BY <1>3, <2>1
<1>5. Piece(x, 0)
  BY <1>2, <1>3, EmptyPiece
<1>6. CASE Failed(a) \/ rlen(a) < BufLen
  <2>1. w = Then(Report(pr, a.status, x), <<>>)
    BY <1>6 DEF read_char_helper
  <2>2. ~ pr.flawed => m = n
    <3>1. CASE Failed(a)
      BY <1>2, <3>1
    <3>2. CASE ~ Failed(a)
      <4>1. 1 + m < BufLen
        BY <1>6, <3>2 DEF rlen
      <4>2. m < BufLen - 1
        BY <1>0, <1>4, <3>2, <4>1
      <4> QED BY <1>4, <3>2, <4>2
    <3> QED BY <3>1, <3>2
  <2>3. Reportable(x, pr)
    BY <1>5, <2>2 DEF Reportable
  <2> QED BY <1>0, <2>1, <2>3, ReadEnds
<1>7. CASE ~ (Failed(a) \/ rlen(a) < BufLen)
  <2> PICK all : all = [pr EXCEPT !.found = x]
    OBVIOUS
  <2> PICK d : d = read_blob_request(c.proc, all)
    OBVIOUS
  <2>1. w = Then([all EXCEPT !.refs = @ + 1], <<d>>)
    BY <1>7 DEF read_char_helper
  <2>2. Len(x) <= ValueLen[pr.handle]
    BY <1>4, <1>7
  <2>3. ReadOn(all, pr)
    BY <1>0, <1>5, <2>2, FoundIs
  <2> QED BY <2>1, <2>3, ReadAsksOn
<1> QED BY <1>6, <1>7

LEMMA ReadBlobLeft ==
    ASSUME NEW c, NEW pr, NEW a, ReadPart("blob", c, pr, a), NEW w, w = read_blob_helper(c.proc, pr, a)
    PROVE  Left(read_long_destroy(w.proc), w.sends)
<1> PICK x : x = a.items
  OBVIOUS
<1> PICK f : f = pr.found
  OBVIOUS
<1>0. ReadOn(pr, pr) /\ BufLen \in Nat /\ 0 < BufLen - 1 /\ Reading(pr) /\ pr.handle \in DOMAIN ValueLen
  BY LimitsAssumption DEF ReadPart, ReadOn, Reading
<1> PICK n \in Nat : n = ValueLen[pr.handle]
  BY <1>0, LimitsAssumption
<1> PICK m : m = Len(x)
  OBVIOUS
<1> PICK o \in Nat : o = Len(f)
  BY <1>0, SequenceFacts DEF Reading, Piece
<1>1. c.to = o /\ c.from = pr.handle /\ Piece(f, 0) /\ o <= n
  BY <1>0 DEF ReadPart, Carried, Reading
<1>2. Failed(a) => pr.flawed = TRUE
  BY DEF ReadPart
<1>3. ~ Failed(a) => Piece(x, o) /\ PartOf(m, o, n)
  BY <1>1 DEF ReadPart, Given
<1>4. ~ Failed(a) => m \in Nat /\ o + m <= n /\ (m < BufLen - 1 => o + m = n)
  <2>1. PartOf(m, o, n) => m \in Nat /\ o + m <= n /\ (m < BufLen - 1 => o + m = n)
    BY <1>1 DEF PartOf
  <2> QED BY <1>3, <2>1
<1>5. CASE Failed(a) \/ rlen(a) = 1
  <2>1. w = Then(Report(pr, "ok", f), <<>>)
    BY <1>5 DEF read_blob_helper
  <2>2. ~ pr.flawed => o = n
    <3>1. CASE Failed(a)
      BY <1>2, <3>1
    <3>2. CASE ~ Failed(a)
      <4>1. 1 + m = 1
        BY <1>5, <3>2 DEF rlen
      <4>2. m = 0
        BY <1>4, <3>2, <4>1
      <4>3. o + m = n
        BY <1>0, <1>4, <3>2, <4>2
      <4> QED BY <4>2, <4>3
    <3> QED BY <3>1, <3>2
  <2>3. Reportable(f, pr)
    BY <1>1, <2>2 DEF Reportable
  <2> QED BY <1>0, <2>1, <2>3, ReadEnds
<1>6. CASE ~ (Failed(a) \/ rlen(a) = 1)
  <2> PICK g : g = f \o x
    OBVIOUS
  <2> PICK all : all = [pr EXCEPT !.found = g]
    OBVIOUS
  <2>1. Piece(g, 0) /\ Len(g) = o + m
    BY <1>1, <1>3, <1>6, PieceThenPiece
  <2>2. Len(g) <= ValueLen[pr.handle]
    BY <1>4, <1>6, <2>1
  <2>3. ReadOn(all, pr) /\ all.found = g
    BY <1>0, <2>1, <2>2, FoundIs
  <2>4. CASE rlen(a) < BufLen
    <3>1. w = Then(Report(all, "ok", g), <<>>)
      <4>1. w = Then(Report(all, "ok", all.found), <<>>)
        BY <1>6, <2>4 DEF read_blob_helper
      <4> QED BY <2>3, <4>1
    <3>2. 1 + m < BufLen
      BY <2>4 DEF rlen
    <3>3. m < BufLen - 1
      BY <1>0, <1>4, <1>6, <3>2
    <3>4. Reportable(g, pr)
      BY <1>4, <1>6, <2>1, <3>3 DEF Reportable
    <3> QED BY <2>3, <3>1, <3>4, ReadEnds
  <2>5. CASE ~ (rlen(a) < BufLen)
    <3> PICK d : d = read_blob_request(c.proc, all)
      OBVIOUS
    <3>1. w = Then([all EXCEPT !.refs = @ + 1], <<d>>)
      BY <1>6, <2>5 DEF read_blob_helper
    <3> QED BY <2>3, <3>1, ReadAsksOn
  <2> QED BY <2>4, <2>5
<1> QED BY <1>5, <1>6

(* Writes.                                                                  *)

LEMMA WriteKept ==
    ASSUME NEW pr, pr.kind = "write", Holds(pr), NEW r, Keeps(r, pr),
           r.offset \in Nat, r.offset <= Len(pr.value)
    PROVE  Holds(r)
<1>1. r.kind = "write" /\ r.value = pr.value /\ r.handle = pr.handle
  BY DEF Keeps
<1>2. Fits(pr)
  BY DEF Holds
<1>3. Fits(r)
  BY <1>1, <1>2 DEF Fits
<1> QED BY <1>1, <1>3 DEF Holds

(* A part of the value carries the bytes from its offset on.                  *)
Asks(d, ask, from, to, data) == d.ask = ask /\ d.from = from /\ d.to = to /\ d.data = data

LEMMA CommandAsks ==
    ASSUME NEW p, NEW ask, NEW from, NEW to, NEW data
    PROVE  Asks(Command(p, ask, from, to, data), ask, from, to, data)
  BY DEF Command, Asks

(* It is of some number of bytes after the offset. *)
ValuePart(d, h, v, o, m) ==
    /\ d.ask = "prepare" /\ d.from = h /\ d.to = o /\ d.data = SubSeq(v, o + 1, m)
    /\ m \in Nat /\ m <= Len(v)

LEMMA CommandPart ==
    ASSUME NEW p, NEW h, NEW v, NEW o, NEW m, m \in Nat /\ m <= Len(v), NEW s, s = SubSeq(v, o + 1, m),
           NEW d, d = Command(p, "prepare", h, o, s)
    PROVE  ValuePart(d, h, v, o, m)
<1>1. Asks(d, "prepare", h, o, s)
  BY CommandAsks
<1> QED BY <1>1 DEF Asks, ValuePart

LEMMA PartIsOf ==
    ASSUME NEW pr, pr.offset \in Nat, Len(pr.value) \in Nat, NEW p, NEW d, d = prepare_write(p, pr)
    PROVE  \E m : ValuePart(d, pr.handle, pr.value, pr.offset, m)
<1> PICK v : v = pr.value
  OBVIOUS
<1> PICK o \in Nat : o = pr.offset
  OBVIOUS
<1> PICK h : h = pr.handle
  OBVIOUS
<1> PICK n \in Nat : n = Len(v)
  OBVIOUS
<1> PICK m : m = Least(n, o + BufLen - 5)
  OBVIOUS
<1>1. m \in Nat /\ m <= n
  <2>1. BufLen \in Nat /\ BufLen > 6
    BY LimitsAssumption
  <2> QED BY <2>1 DEF Least
<1> PICK s : s = SubSeq(v, o + 1, m)
  OBVIOUS
<1>2. d = Command(p, "prepare", h, o, s)
  BY DEF prepare_write
<1>3. ValuePart(d, h, v, o, m)
  BY <1>1, <1>2, CommandPart
<1> QED BY <1>3

LEMMA PartPlaces ==
    ASSUME NEW pr, Fits(pr), NEW d, NEW m, ValuePart(d, pr.handle, pr.value, pr.offset, m)
    PROVE  Places(d, pr) /\ d.to = pr.offset
<1> PICK v : v = pr.value
  OBVIOUS
<1> PICK o \in Nat : o = pr.offset
  BY DEF Fits
<1>1. Piece(v, 0) /\ o <= Len(v) /\ m \in Nat /\ m <= Len(v)
  BY DEF Fits, ValuePart
<1> PICK n \in Nat : n = Len(v)
  BY <1>1, SequenceFacts DEF Piece
<1> PICK s : s = SubSeq(v, o + 1, m)
  OBVIOUS
<1>2. PartIs(s, v, o, m)
  BY <1>1, PartOfPiece
<1>3. Piece(s, o) /\ Len(s) = (IF o < m THEN m - o ELSE 0) /\ \A i \in DOMAIN s : s[i] = v[o + i]
  BY <1>2 DEF PartIs
<1>5. o + Len(s) <= n
  BY <1>1, <1>3
<1>4. d.from = pr.handle /\ d.to = o /\ d.data = s
  BY DEF ValuePart
<1> QED BY <1>3, <1>4, <1>5 DEF Places

LEMMA PartCarried ==
    ASSUME NEW pr, pr.kind = "write", Holds(pr), NEW p, NEW d, d = prepare_write(p, pr)
    PROVE  Carried(d, pr)
<1>1. Fits(pr) /\ pr.offset \in Nat /\ Len(pr.value) \in Nat
  BY SequenceFacts DEF Holds, Fits, Piece
<1>2. PICK m : ValuePart(d, pr.handle, pr.value, pr.offset, m)
  BY <1>1, PartIsOf
<1>3. Places(d, pr) /\ d.to = pr.offset
  BY <1>1, <1>2, PartPlaces
<1>4. d.ask = "prepare"
  BY <1>2 DEF ValuePart
<1> QED BY <1>3, <1>4 DEF Carried

LEMMA PrepareLeft ==
    ASSUME NEW p, NEW pr, DOMAIN pr = ProcFields, pr.reported = <<>>, pr.kind = "write", Holds(pr),
           NEW c, c.ask = "prepare", Carried(c, pr), NEW a, Given(c, a),
           NEW w, w = prepare_write_cb(p, pr, a)
    PROVE  Left(w.proc, w.sends)
<1>0. pr.offset \in Nat /\ pr.offset <= Len(pr.value) /\ Places(c, pr) /\ c.to = pr.offset
  BY DEF Holds, Fits, Carried
<1>1. CASE Failed(a)
  <2> PICK r : r = Report(pr, a.status, <<>>)
    OBVIOUS
  <2>1. Keeps(r, pr) /\ r.offset = pr.offset
    BY ReportData
  <2>2. Holds(r)
    BY <1>0, <2>1, WriteKept
  <2>3. w = Then(r, <<>>)
    BY <1>1 DEF prepare_write_cb
  <2>4. w.proc = r /\ w.sends = <<>>
    BY <2>3, ThenFacts
  <2> QED BY <2>2, <2>4, LeftAlone
<1>2. CASE ~ Failed(a)
  <2> PICK after : after = [pr EXCEPT !.offset = @ + Taken(a)]
    OBVIOUS
  <2> PICK last : last = [after EXCEPT !.held = FALSE]
    OBVIOUS
  <2>1. Keeps(after, pr) /\ after.offset = pr.offset + Taken(a) /\ DOMAIN after = ProcFields
    BY DEF Keeps, ProcFields
  <2>2. Keeps(last, after) /\ last.offset = after.offset
    BY <2>1 DEF Keeps, ProcFields
  <2>3. a.items = c.data
    BY <1>2 DEF Given
  <2>4. Taken(a) \in Nat /\ pr.offset + Taken(a) <= Len(pr.value)
    <3>1. Taken(a) = Len(c.data)
      BY <2>3 DEF Taken
    <3>2. Len(c.data) \in Nat /\ c.to + Len(c.data) <= Len(pr.value)
      BY <1>0, SequenceFacts DEF Places, Piece
    <3> QED BY <1>0, <3>1, <3>2
  <2>5. after.offset \in Nat /\ after.offset <= Len(pr.value)
    BY <1>0, <2>1, <2>4
  <2>6. Holds(after) /\ after.kind = "write" /\ after.value = pr.value
    <3>1. Holds(after)
      BY <2>1, <2>5, WriteKept
    <3> QED BY <2>1, <3>1 DEF Keeps
  <2>7. Holds(last) /\ last.value = pr.value
    <3>1. last.offset \in Nat /\ last.offset <= Len(after.value)
      BY <2>2, <2>5, <2>6
    <3>2. Holds(last)
      BY <2>2, <2>6, <3>1, WriteKept
    <3> QED BY <2>2, <2>6, <3>2 DEF Keeps
  <2>8. CASE after.offset = Len(pr.value)
    <3> PICK d : d = execute_write(p)
      OBVIOUS
    <3>1. w = Then(last, <<d>>)
      BY <1>2, <2>8 DEF prepare_write_cb
    <3>2. d.ask = "execute"
      BY DEF execute_write, Command
    <3>3. Carried(d, last)
      BY <2>2, <2>7, <2>8, <3>2 DEF Carried
    <3>4. w.proc = last /\ w.sends = <<d>>
      BY <3>1, ThenFacts
    <3> QED BY <2>7, <3>3, <3>4, LeftOne
  <2>9. CASE after.offset # Len(pr.value)
    <3> PICK d : d = prepare_write(p, after)
      OBVIOUS
    <3>1. w = Then(after, <<d>>)
      BY <1>2, <2>9 DEF prepare_write_cb
    <3>2. Carried(d, after)
      BY <2>6, PartCarried
    <3>3. w.proc = after /\ w.sends = <<d>>
      BY <3>1, ThenFacts
    <3> QED BY <2>6, <3>2, <3>3, LeftOne
  <2> QED BY <2>8, <2>9
<1> QED BY <1>1, <1>2

LEMMA DirectLeft ==
    ASSUME NEW pr, DOMAIN pr = ProcFields, pr.reported = <<>>, pr.kind = "write", Holds(pr),
           NEW a, NEW w, w = direct_cb(pr, a)
    PROVE  Left(w.proc, w.sends)
<1> PICK r : r = Report(pr, a.status, a.items)
  OBVIOUS
<1>1. Keeps(r, pr) /\ r.offset = pr.offset
  BY ReportData
<1>2. Holds(r)
  <2>1. r.offset \in Nat /\ r.offset <= Len(pr.value)
    BY <1>1 DEF Holds, Fits
  <2> QED BY <1>1, <2>1, WriteKept
<1>3. w.proc = r /\ w.sends = <<>>
  BY ThenFacts DEF direct_cb
<1> QED BY <1>2, <1>3, LeftAlone

(* Of other procedures nothing is said.                                      *)
LEMMA OthersLeft ==
    ASSUME NEW r, NEW s, NEW c, NEW pr, NEW n, Handled(r, s, c, pr, n), pr.kind \notin {"read", "write"}
    PROVE  Left(r, s)
<1>1. r.kind \notin {"read", "write"}
  BY DEF Handled, Keeps
<1>2. Holds(r)
  BY <1>1 DEF Holds
<1>3. ASSUME NEW i \in DOMAIN s PROVE Carried(s[i], r)
  <2>1. Belongs(s[i].ask, r)
    BY <1>3 DEF Handled, CommandOK
  <2>2. s[i].ask \notin {"read", "blob", "write", "prepare", "execute"}
    BY <1>1, <2>1 DEF Belongs, Discoveries
  <2> QED BY <2>2 DEF Carried
<1> QED BY <1>2, <1>3 DEF Left

(* The head of the queue, its procedure and the answer to it.                 *)
HeadReads(c, pr, a, n) ==
    /\ n \in Nat /\ n > 0 /\ ProcOK(pr, n) /\ CommandOK(c, pr) /\ AnswerOK(c, a)
    /\ c.ask \in {"prepare", "read", "blob"} /\ Failed(a) => pr.flawed = TRUE
    /\ Holds(pr) /\ Carried(c, pr) /\ Given(c, a)

LEMMA HeadLeavesData ==
    ASSUME NEW c, NEW pr, NEW a, NEW n, HeadReads(c, pr, a, n), NEW w, w = Done(c, pr, a)
    PROVE  Left(Notify(c, w.proc), w.sends)
<1>0. /\ n \in Nat /\ n > 0 /\ ProcOK(pr, n) /\ CommandOK(c, pr) /\ AnswerOK(c, a)
      /\ c.ask \in {"prepare", "read", "blob"} /\ Failed(a) => pr.flawed = TRUE
      /\ Holds(pr) /\ Carried(c, pr) /\ Given(c, a)
  BY DEF HeadReads
<1>1. Alive(pr) /\ Belongs(c.ask, pr) /\ c.func \in BOOLEAN
  BY <1>0, HeadAlive DEF CommandOK
<1>2. DOMAIN pr = ProcFields /\ pr.reported = <<>> /\ Keeps(pr, pr)
  BY <1>1 DEF Alive, Keeps
<1>3. c.func = FALSE => w.proc = pr /\ w.sends = <<>>
  <2>1. c.func = FALSE => w = Then(pr, <<>>)
    BY DEF Done
  <2> QED BY <2>1, ThenFacts
<1>4. c.func = TRUE => w = Callback(c, pr, a)
  BY DEF Done
<1>5. CASE pr.kind \notin {"read", "write"}
  <2>1. Handled(Notify(c, w.proc), w.sends, c, pr, n)
    <3>1. c.ask = "prepare" /\ Failed(a) => pr.flawed = TRUE
      BY <1>0
    <3> QED BY <1>0, <3>1, HeadDone
  <2> QED BY <1>5, <2>1, OthersLeft
<1>6. CASE pr.kind = "read"
  <2>1. c.ask \in {"read", "blob"}
    BY <1>1, <1>6 DEF Belongs, Discoveries
  <2>2. Notify(c, w.proc) = read_long_destroy(w.proc)
    BY <2>1 DEF Notify
  <2>3. ReadOn(pr, pr) /\ (Failed(a) => pr.flawed = TRUE)
    BY <1>0, <1>1, <1>2, <1>6, <2>1 DEF ReadOn, Holds
  <2>4. ReadPart(c.ask, c, pr, a)
    BY <1>0, <2>3 DEF ReadPart
  <2>5. CASE c.func = TRUE
    <3>1. CASE c.ask = "read"
      <4>1. w = read_char_helper(c.proc, pr, a)
        BY <1>4, <2>5, <3>1 DEF Callback
      <4> QED BY <2>2, <2>4, <3>1, <4>1, ReadCharLeft
    <3>2. CASE c.ask = "blob"
      <4>1. w = read_blob_helper(c.proc, pr, a)
        BY <1>4, <2>5, <3>2 DEF Callback
      <4> QED BY <2>2, <2>4, <3>2, <4>1, ReadBlobLeft
    <3> QED BY <2>1, <3>1, <3>2
  <2>6. CASE c.func = FALSE
    <3> PICK r : r = read_long_destroy(pr)
      OBVIOUS
    <3>1. Keeps(r, pr) /\ r.found = pr.found /\ r.reported = <<>>
      BY <1>2, DestroyKeeps
    <3>2. r.kind = "read" /\ r.handle = pr.handle /\ Reading(pr)
      BY <1>6, <2>3, <3>1 DEF Keeps, ReadOn
    <3>3. Holds(r)
      BY <3>1, <3>2 DEF Holds, Reading
    <3> QED BY <1>3, <2>2, <2>6, <3>3, LeftAlone
  <2> QED BY <1>1, <2>5, <2>6
<1>7. CASE pr.kind = "write"
  <2>1. c.ask \in {"write", "prepare", "execute"}
    BY <1>1, <1>7 DEF Belongs, Discoveries
  <2>2. Notify(c, w.proc) = w.proc
    BY <2>1 DEF Notify
  <2>3. CASE c.func = TRUE
    <3>1. CASE c.ask = "prepare"
      <4>1. w = prepare_write_cb(c.proc, pr, a)
        BY <1>4, <2>3, <3>1 DEF Callback
      <4> QED BY <1>0, <1>2, <1>7, <2>2, <3>1, <4>1, PrepareLeft
    <3>2. CASE c.ask \in {"write", "execute"}
      <4>1. w = direct_cb(pr, a)
        BY <1>4, <2>3, <3>2 DEF Callback
      <4> QED BY <1>0, <1>2, <1>7, <2>2, <4>1, DirectLeft
    <3> QED BY <2>1, <3>1, <3>2
  <2>4. CASE c.func = FALSE
    BY <1>0, <1>3, <2>2, <2>4, LeftAlone
  <2> QED BY <1>1, <2>3, <2>4
<1> QED BY <1>5, <1>6, <1>7

----------------------------------------------------------------------------
(* What the queue and the procedures hold, when a command leaves the queue.     *)

Carries(q, ps) == \A i \in DOMAIN q : Carried(q[i], ps[q[i].proc])
AllHold(ps) == \A p \in DOMAIN ps : Holds(ps[p])
DataOK(q, ps) == Carries(q, ps) /\ AllHold(ps)

(* Another command of the same procedure is of a search, and carries nothing.   *)
LEMMA OtherCommands ==
    ASSUME NEW q, NEW ps, QueueOK(q, ps), Carries(q, ps), NEW i \in DOMAIN q, NEW p, p = q[i].proc,
           NEW k \in DOMAIN q, k # i, NEW r, NEW ps2, ps2 = [ps EXCEPT ![p] = r]
    PROVE  Carried(q[k], ps2[q[k].proc])
<1> PICK e : e = q[k]
  OBVIOUS
<1>1. /\ Sequence(q) /\ Sequence(ps) /\ e.proc \in DOMAIN ps /\ CommandOK(e, ps[e.proc])
      /\ ProcOK(ps[e.proc], Count(q, e.proc))
  BY CommandKnown
<1>2. Carried(e, ps[e.proc])
  BY DEF Carries
<1>3. CASE e.proc # p
  <2>1. ps2[e.proc] = ps[e.proc]
    BY <1>1, <1>3
  <2> QED BY <1>2, <2>1
<1>4. CASE e.proc = p
  <2> PICK x : x = ps[e.proc]
    OBVIOUS
  <2>1. CommandOK(e, x) /\ ProcOK(x, Count(q, e.proc)) /\ x.refused \in BOOLEAN
    BY <1>1 DEF ProcOK
  <2>2. x.refused = FALSE
    BY <2>1 DEF CommandOK
  <2>3. q[i].proc = q[k].proc /\ k # i
    BY <1>4
  <2>4. x.kind = "include"
    <3>1. e.proc = q[i].proc
      BY <2>3
    <3> QED BY <1>1, <2>1, <2>2, <2>3, <3>1, OnlyOfSearch
  <2>5. Belongs(e.ask, x)
    BY <2>1 DEF CommandOK
  <2>6. e.ask \in {"include", "resolve"}
    BY <2>4, <2>5 DEF Belongs, Discoveries
  <2> QED BY <2>6 DEF Carried
<1> QED BY <1>3, <1>4

LEMMA DataWithout ==
    ASSUME NEW q, NEW ps, QueueOK(q, ps), DataOK(q, ps), NEW i \in DOMAIN q, NEW p, p = q[i].proc,
           NEW r, NEW s, Left(r, s), \A j \in DOMAIN s : s[j].proc = p,
           NEW q2, Leaves(q2, q, i, p, s), NEW ps2, ps2 = [ps EXCEPT ![p] = r]
    PROVE  DataOK(q2, ps2)
<1> PICK c : c = q[i]
  OBVIOUS
<1>1. Sequence(ps) /\ p \in DOMAIN ps
  BY CommandKnown
<1>2. DOMAIN ps2 = DOMAIN ps /\ ps2[p] = r /\ \A y \in DOMAIN ps : y # p => ps2[y] = ps[y]
  BY <1>1
<1>3. AllHold(ps2)
  <2>1. Holds(r)
    BY DEF Left
  <2> QED BY <1>2, <2>1 DEF DataOK, AllHold
<1>4. ASSUME NEW j \in DOMAIN q2 PROVE Carried(q2[j], ps2[q2[j].proc])
  <2>1. CASE \E k \in DOMAIN s : q2[j] = s[k]
    <3> PICK k \in DOMAIN s : q2[j] = s[k]
      BY <2>1
    <3>1. s[k].proc = p /\ Carried(s[k], r)
      BY DEF Left
    <3> QED BY <1>2, <3>1
  <2>2. CASE \E k \in DOMAIN q : k # i /\ q2[j] = q[k]
    <3> PICK k \in DOMAIN q : k # i /\ q2[j] = q[k]
      BY <2>2
    <3>1. Carried(q[k], ps2[q[k].proc])
      BY OtherCommands DEF DataOK
    <3> QED BY <3>1
  <2> QED BY <1>4, <2>1, <2>2 DEF Leaves
<1> QED BY <1>3, <1>4 DEF DataOK, Carries

(* Marking the procedure does not touch what it holds.                        *)
LEMMA MarkedData ==
    ASSUME NEW x, NEW c, NEW a, DOMAIN x = ProcFields, x.reported = <<>>, Holds(x), Carried(c, x),
           NEW pr, pr = Marked(x, c, a)
    PROVE  /\ Holds(pr) /\ Carried(c, pr)
           /\ c.ask \in {"prepare", "read", "blob"} /\ Failed(a) => pr.flawed = TRUE
<1> PICK y : y = (x.flawed \/ (a.status # "ok" /\ ~ Ending(c, a)))
  OBVIOUS
<1>1. pr = [x EXCEPT !.flawed = y]
  BY DEF Marked
<1>2. /\ pr.kind = x.kind /\ pr.handle = x.handle /\ pr.value = x.value /\ pr.found = x.found
      /\ pr.offset = x.offset /\ pr.reported = x.reported /\ pr.flawed = y
  BY <1>1 DEF ProcFields
<1>3. Holds(pr)
  BY <1>2 DEF Holds, Reading, Fits
<1>4. Carried(c, pr)
  <2>1. Places(c, x) => Places(c, pr)
    BY <1>2 DEF Places
  <2> QED BY <1>2, <2>1 DEF Carried
<1>5. ASSUME c.ask \in {"prepare", "read", "blob"}, Failed(a) PROVE pr.flawed = TRUE
  <2>1. (a.status # "ok") = TRUE /\ Ending(c, a) = FALSE
    BY <1>5 DEF Failed, Ending
  <2>2. y = TRUE
    BY <2>1
  <2> QED BY <1>2, <2>2
<1> QED BY <1>3, <1>4, <1>5

(* What the head's procedure was, what its callback does, and what is left.     *)
HeadTurns(q, ps, c, a, q2, ps2, pr, r, s) ==
    /\ QueueOK(q, ps) /\ 1 \in DOMAIN q /\ c = q[1] /\ c.proc \in DOMAIN ps /\ Sequence(ps)
    /\ pr = Marked(ps[c.proc], c, a) /\ HeadReads(c, pr, a, Count(q, c.proc))
    /\ DOMAIN ps[c.proc] = ProcFields
    /\ r = Notify(c, Done(c, pr, a).proc) /\ s = Done(c, pr, a).sends
    /\ Handled(r, s, c, pr, Count(q, c.proc)) /\ Left(r, s)
    /\ Leaves(q2, q, 1, c.proc, s) /\ ps2 = [ps EXCEPT ![c.proc] = r]

LEMMA HeadTurn ==
    ASSUME NEW q, NEW ps, NEW c, NEW a, NEW q2, NEW ps2, HeadGone(q, ps, c, a, q2, ps2),
           DataOK(q, ps), Given(c, a)
    PROVE  \E pr, r, s : HeadTurns(q, ps, c, a, q2, ps2, pr, r, s)
<1> PICK p : p = c.proc
  OBVIOUS
<1> PICK x : x = ps[p]
  OBVIOUS
<1> PICK n : n = Count(q, p)
  OBVIOUS
<1> PICK pr : pr = Marked(x, c, a)
  OBVIOUS
<1> PICK w : w = Done(c, pr, a)
  OBVIOUS
<1> PICK s : s = w.sends
  OBVIOUS
<1> PICK r : r = Notify(c, w.proc)
  OBVIOUS
<1>1. /\ QueueOK(q, ps) /\ q # <<>> /\ c = q[1] /\ AnswerOK(c, a)
      /\ q2 = s \o Tail(q) \/ q2 = Tail(q) \o s
      /\ ps2 = [ps EXCEPT ![p] = r]
  BY DEF HeadGone
<1>2. 1 \in DOMAIN q
  <2>1. Sequence(q)
    BY <1>1 DEF QueueOK
  <2> QED BY <1>1, <2>1, SequenceTail
<1>3. /\ Sequence(q) /\ p \in DOMAIN ps /\ CommandOK(c, x) /\ ProcOK(x, n) /\ n \in Nat /\ n > 0
  <2>1. c = q[1] /\ QueueOK(q, ps)
    BY <1>1
  <2>2. /\ Sequence(q) /\ c.proc \in DOMAIN ps /\ CommandOK(c, ps[c.proc])
        /\ ProcOK(ps[c.proc], Count(q, c.proc)) /\ Count(q, c.proc) \in Nat /\ Count(q, c.proc) > 0
    BY <1>2, <2>1, CommandKnown
  <2> QED BY <2>2
<1>4. Holds(x) /\ Carried(c, x)
  BY <1>1, <1>2, <1>3 DEF DataOK, AllHold, Carries
<1>5. DOMAIN x = ProcFields /\ x.reported = <<>>
  BY <1>3, HeadAlive DEF Alive
<1>6. MarkedOK(pr, x, c, a, n)
  BY <1>3, FlawedHead
<1>7. HeadReads(c, pr, a, n)
  <2>1. ProcOK(pr, n) /\ CommandOK(c, pr)
    BY <1>6 DEF MarkedOK
  <2>2. /\ Holds(pr) /\ Carried(c, pr)
        /\ c.ask \in {"prepare", "read", "blob"} /\ Failed(a) => pr.flawed = TRUE
    BY <1>4, <1>5, MarkedData
  <2> QED BY <1>1, <1>3, <2>1, <2>2 DEF HeadReads
<1>8. Left(r, s)
  BY <1>7, HeadLeavesData
<1>9. Handled(r, s, c, pr, n)
  <2>1. ProcOK(pr, n) /\ CommandOK(c, pr) /\ (c.ask = "prepare" /\ Failed(a) => pr.flawed = TRUE)
    BY <1>6 DEF MarkedOK
  <2> QED BY <1>1, <1>3, <2>1, HeadDone
<1>10. Sequence(s) /\ \A j \in DOMAIN s : s[j].proc = p
  BY <1>9 DEF Handled
<1>11. Leaves(q2, q, 1, p, s)
  BY <1>1, <1>3, <1>10, HeadLeaves
<1>12. Sequence(ps)
  BY <1>1 DEF QueueOK
<1>13. HeadTurns(q, ps, c, a, q2, ps2, pr, r, s)
  BY <1>1, <1>2, <1>3, <1>5, <1>7, <1>8, <1>9, <1>11, <1>12 DEF HeadTurns
<1> QED BY <1>13

LEMMA HeadData ==
    ASSUME NEW q, NEW ps, NEW c, NEW a, NEW q2, NEW ps2, HeadGone(q, ps, c, a, q2, ps2),
           DataOK(q, ps), Given(c, a)
    PROVE  DataOK(q2, ps2)
<1>1. PICK pr, r, s : HeadTurns(q, ps, c, a, q2, ps2, pr, r, s)
  BY HeadTurn
<1> PICK p : p = q[1].proc
  OBVIOUS
<1>2. /\ QueueOK(q, ps) /\ 1 \in DOMAIN q /\ p = c.proc /\ Left(r, s)
      /\ Leaves(q2, q, 1, p, s) /\ ps2 = [ps EXCEPT ![p] = r]
  BY <1>1 DEF HeadTurns
<1>3. \A j \in DOMAIN s : s[j].proc = p
  BY <1>1 DEF HeadTurns, Handled
<1> QED BY <1>2, <1>3, DataWithout

LEMMA MutedData ==
    ASSUME NEW x, DOMAIN x = ProcFields, Holds(x), NEW pr, pr = Muted(x)
    PROVE  /\ Holds(pr) /\ pr.kind = x.kind /\ pr.handle = x.handle /\ pr.found = x.found
           /\ pr.refs = x.refs /\ pr.reported = x.reported /\ DOMAIN pr = ProcFields
           /\ pr.value = x.value /\ pr.offset = x.offset
<1>1. pr = [x EXCEPT !.muted = TRUE]
  BY DEF Muted
<1>2. /\ pr.kind = x.kind /\ pr.handle = x.handle /\ pr.value = x.value /\ pr.found = x.found
      /\ pr.offset = x.offset /\ pr.reported = x.reported /\ pr.flawed = x.flawed
      /\ pr.refs = x.refs /\ DOMAIN pr = ProcFields
  BY <1>1 DEF ProcFields
<1>3. Holds(pr)
  BY <1>2 DEF Holds, Reading, ReportedOK, Fits
<1> QED BY <1>2, <1>3

LEMMA CancelWaitingData ==
    ASSUME NEW q, NEW ps, QueueOK(q, ps), DataOK(q, ps), NEW i \in DOMAIN q, NEW q2, NEW ps2,
           CancelsWaiting(q, ps, i, q2, ps2)
    PROVE  DataOK(q2, ps2)
<1> PICK c : c = q[i]
  OBVIOUS
<1> PICK p : p = c.proc
  OBVIOUS
<1> PICK x : x = ps[p]
  OBVIOUS
<1> PICK n : n = Count(q, p)
  OBVIOUS
<1> PICK pr : pr = Muted(x)
  OBVIOUS
<1> PICK r : r = Notify(c, pr)
  OBVIOUS
<1>1. q2 = SubSeq(q, 1, i - 1) \o SubSeq(q, i + 1, Len(q)) /\ ps2 = [ps EXCEPT ![p] = r]
  BY DEF CancelsWaiting
<1>2. Sequence(q) /\ p \in DOMAIN ps /\ CommandOK(c, x) /\ ProcOK(x, n) /\ n \in Nat /\ n > 0
  BY CommandKnown
<1>3. Holds(x) /\ x.refs \in Nat /\ DOMAIN x = ProcFields /\ x.reported = <<>>
  <2>1. Alive(x)
    BY <1>2, HeadAlive
  <2>2. Holds(x)
    BY <1>2 DEF DataOK, AllHold
  <2> QED BY <2>1, <2>2 DEF Alive
<1>4. Holds(pr) /\ pr.kind = x.kind /\ pr.handle = x.handle /\ DOMAIN pr = ProcFields /\ pr.reported = <<>>
      /\ pr.refs = x.refs
  BY <1>3, MutedData
<1>5. Belongs(c.ask, x)
  BY <1>2 DEF CommandOK
<1>6. Holds(r)
  <2>1. CASE c.ask \in {"read", "blob"}
    <3>1. r = read_long_destroy(pr)
      BY <2>1 DEF Notify
    <3>2. Keeps(r, pr) /\ r.found = pr.found /\ r.reported = <<>>
      BY <1>4, <3>1, DestroyKeeps
    <3>3. pr.kind = "read"
      BY <1>4, <1>5, <2>1 DEF Belongs, Discoveries
    <3>4. r.kind = "read" /\ r.handle = pr.handle /\ Reading(pr)
      BY <1>4, <3>2, <3>3 DEF Keeps, Holds
    <3> QED BY <3>2, <3>4 DEF Holds, Reading
  <2>2. CASE c.ask = "include"
    <3>1. r = isd_unref(pr)
      BY <2>2 DEF Notify
    <3>2. pr.kind = "include" /\ pr.refs \in Nat
      <4>1. pr.kind = "include"
        BY <1>4, <1>5, <2>2 DEF Belongs, Discoveries
      <4> QED BY <1>3, <1>4, <4>1
    <3> PICK m \in Nat : m = pr.refs
      BY <3>2
    <3>3. Unreffed(r, pr, m)
      BY <1>4, <3>1, UnrefFields
    <3>4. r.kind = "include"
      BY <3>2, <3>3 DEF Unreffed, Keeps
    <3> QED BY <3>4 DEF Holds
  <2>3. CASE c.ask \notin {"read", "blob", "include"}
    <3>1. r = pr
      BY <2>3 DEF Notify
    <3> QED BY <1>4, <3>1
  <2> QED BY <2>1, <2>2, <2>3
<1> PICK s : s = <<>>
  OBVIOUS
<1>7. Left(r, s)
  BY <1>6, LeftAlone
<1>8. \A j \in DOMAIN s : s[j].proc = p
  <2>1. DOMAIN s = {}
    OBVIOUS
  <2> QED BY <2>1
<1>9. Leaves(q2, q, i, p, s)
  BY <1>1, <1>2, WaitingLeaves
<1>10. p = q[i].proc
  OBVIOUS
<1>11. ps2 = [ps EXCEPT ![p] = r]
  BY <1>1
<1> QED BY <1>7, <1>8, <1>9, <1>10, <1>11, DataWithout

LEMMA CancelSentData ==
    ASSUME NEW q, NEW ps, QueueOK(q, ps), DataOK(q, ps), 1 \in DOMAIN q, NEW q2, NEW ps2,
           CancelsSent(q, ps, q2, ps2)
    PROVE  DataOK(q2, ps2)
<1> PICK c : c = q[1]
  OBVIOUS
<1> PICK p : p = c.proc
  OBVIOUS
<1> PICK x : x = ps[p]
  OBVIOUS
<1> PICK d : d = Cleared(c)
  OBVIOUS
<1> PICK pr : pr = Muted(x)
  OBVIOUS
<1>0. q2 = [q EXCEPT ![1] = d] /\ ps2 = [ps EXCEPT ![p] = pr]
  BY DEF CancelsSent
<1>1. Sequence(q) /\ p \in DOMAIN ps /\ DOMAIN x = ProcFields /\ DOMAIN c = CommandFields
  <2>1. Sequence(q) /\ p \in DOMAIN ps /\ CommandOK(c, x) /\ ProcOK(x, Count(q, p))
    BY CommandKnown
  <2> QED BY <2>1 DEF ProcOK, CommandOK
<1>2. Holds(x) /\ Carried(c, x)
  BY <1>1 DEF DataOK, AllHold, Carries
<1>3. Holds(pr) /\ pr.handle = x.handle /\ pr.found = x.found /\ pr.value = x.value /\ pr.offset = x.offset
  BY <1>1, <1>2, MutedData
<1>4. DOMAIN ps2 = DOMAIN ps /\ ps2[p] = pr /\ \A y \in DOMAIN ps : y # p => ps2[y] = ps[y]
  BY <1>0, <1>1
<1>5. AllHold(ps2)
  BY <1>3, <1>4 DEF DataOK, AllHold
<1>6. d.ask = c.ask /\ d.from = c.from /\ d.to = c.to /\ d.data = c.data /\ d.proc = p
  BY <1>1 DEF Cleared, CommandFields
<1>7. Carried(d, pr)
  <2>1. Places(c, x) => Places(d, pr)
    BY <1>3, <1>6 DEF Places
  <2> QED BY <1>2, <1>3, <1>6, <2>1 DEF Carried
<1>8. DOMAIN q2 = DOMAIN q /\ q2[1] = d /\ \A j \in DOMAIN q : j # 1 => q2[j] = q[j]
  BY <1>0, <1>1
<1>9. ASSUME NEW j \in DOMAIN q2 PROVE Carried(q2[j], ps2[q2[j].proc])
  <2>1. CASE j = 1
    BY <1>4, <1>6, <1>7, <1>8, <2>1
  <2>2. CASE j # 1
    <3>1. p = q[1].proc /\ j \in DOMAIN q /\ Carries(q, ps)
      BY <1>8, <1>9 DEF DataOK
    <3>2. Carried(q[j], ps2[q[j].proc])
      BY <1>0, <2>2, <3>1, OtherCommands
    <3> QED BY <1>8, <2>2, <3>1, <3>2
  <2> QED BY <2>1, <2>2
<1> QED BY <1>5, <1>9 DEF DataOK, Carries

(* A procedure that begins, with its first command.                           *)
LEMMA BeginData ==
    ASSUME NEW q, NEW ps, QueueOK(q, ps), DataOK(q, ps), NEW x, NEW s, Sequence(s), Left(x, s),
           NEW m, m = Len(ps), \A i \in DOMAIN s : s[i].proc = m + 1
    PROVE  DataOK(q \o s, Append(ps, x))
<1> PICK q2 : q2 = q \o s
  OBVIOUS
<1> PICK one : one = <<x>>
  OBVIOUS
<1> PICK ps2 : ps2 = ps \o one
  OBVIOUS
<1>0. Sequence(q) /\ Sequence(ps) /\ Commands(q, ps)
  BY DEF QueueOK
<1>1. m \in Nat /\ DOMAIN ps = 1..m
  BY <1>0, SequenceFacts
<1>2. Sequence(one) /\ Len(one) = 1 /\ one[1] = x /\ Append(ps, x) = ps2
  BY <1>0, SequenceOne, SequenceAppend
<1>3. /\ Sequence(ps2) /\ Len(ps2) = m + 1
      /\ \A i \in 1..m : ps2[i] = ps[i]
      /\ \A i \in 1..1 : ps2[m + i] = one[i]
  BY <1>0, <1>2, SequenceConcat
<1>4. DOMAIN ps2 = 1..(m + 1) /\ ps2[m + 1] = x
  <2>1. DOMAIN ps2 = 1..(m + 1)
    BY <1>3, SequenceFacts
  <2>2. 1 \in 1..1
    OBVIOUS
  <2> QED BY <1>2, <1>3, <2>1, <2>2
<1>5. AllHold(ps2)
  <2>1. ASSUME NEW y \in 1..(m + 1) PROVE Holds(ps2[y])
    <3>1. CASE y = m + 1
      BY <1>4, <3>1 DEF Left
    <3>2. CASE y # m + 1
      <4>1. y \in 1..m
        BY <1>1, <3>2
      <4> QED BY <1>1, <1>3, <4>1 DEF DataOK, AllHold
    <3> QED BY <3>1, <3>2
  <2> QED BY <1>4, <2>1 DEF AllHold
<1>6. ASSUME NEW j \in DOMAIN q2 PROVE Carried(q2[j], ps2[q2[j].proc])
  <2>1. From(q2, q, s)
    BY <1>0, ConcatFrom
  <2>2. CASE \E k \in DOMAIN q : q2[j] = q[k]
    <3> PICK k \in DOMAIN q : q2[j] = q[k]
      BY <2>2
    <3>1. q[k].proc \in 1..m
      BY <1>0, <1>1 DEF Commands
    <3>2. Carried(q[k], ps[q[k].proc])
      BY DEF DataOK, Carries
    <3> QED BY <1>3, <3>1, <3>2
  <2>3. CASE \E k \in DOMAIN s : q2[j] = s[k]
    <3> PICK k \in DOMAIN s : q2[j] = s[k]
      BY <2>3
    <3> QED BY <1>4 DEF Left
  <2> QED BY <1>6, <2>1, <2>2, <2>3 DEF From
<1>7. DataOK(q2, ps2)
  BY <1>5, <1>6 DEF DataOK, Carries
<1> QED BY <1>2, <1>7

----------------------------------------------------------------------------
(* The values of the peer, and what it was asked to write.                    *)

ValuesOK(vs) ==
    /\ DOMAIN vs = DOMAIN ValueLen
    /\ \A h \in DOMAIN ValueLen : Piece(vs[h], 0) /\ Len(vs[h]) = ValueLen[h]

PreparedOK(pp) ==
    /\ Sequence(pp)
    /\ \A i \in DOMAIN pp : pp[i].to \in Nat /\ Piece(pp[i].data, pp[i].to)

(* What a command writes. *)
Write(vs, c) == [vs EXCEPT ![c.from] = Overlay(@, c.to, c.data)]

LEMMA WriteOK ==
    ASSUME NEW vs, ValuesOK(vs), NEW c, c.to \in Nat, Piece(c.data, c.to)
    PROVE  ValuesOK(Write(vs, c))
<1> PICK h : h = c.from
  OBVIOUS
<1> PICK v : v = Overlay(vs[h], c.to, c.data)
  OBVIOUS
<1> PICK vs2 : vs2 = Write(vs, c)
  OBVIOUS
<1>1. vs2 = [vs EXCEPT ![h] = v]
  BY DEF Write
<1>2. DOMAIN vs2 = DOMAIN ValueLen /\ (h \in DOMAIN ValueLen => vs2[h] = v)
      /\ \A x \in DOMAIN ValueLen : x # h => vs2[x] = vs[x]
  BY <1>1 DEF ValuesOK
<1>3. h \in DOMAIN ValueLen => Piece(v, 0) /\ Len(v) = ValueLen[h]
  BY PieceOverlaid DEF ValuesOK
<1>4. \A x \in DOMAIN ValueLen : Piece(vs2[x], 0) /\ Len(vs2[x]) = ValueLen[x]
  BY <1>2, <1>3 DEF ValuesOK
<1> QED BY <1>2, <1>4 DEF ValuesOK

LEMMA LeastNumber ==
    ASSUME NEW T, T \subseteq Nat, T # {}
    PROVE  \E n \in T : \A m \in T : n <= m
<1> DEFINE R == {p \in Nat \X Nat : p[1] < p[2]}
<1>1. IsWellFoundedOn(R, Nat)
  BY NatLessThanWellFounded DEF OpToRel
<1>2. \A m, n \in Nat : m < n => <<m, n>> \in R
  OBVIOUS
<1> HIDE DEF R
<1>3. PICK n \in T : \A m \in T : ~ (<<m, n>> \in R)
  BY <1>1, WFMin
<1>4. ASSUME NEW m \in T PROVE n <= m
  <2>1. ~ (m < n)
    BY <1>2, <1>3
  <2>2. n \in Nat /\ m \in Nat
    OBVIOUS
  <2> QED BY <2>1, <2>2
<1> QED BY <1>4

(* The values after each of the first n prepared writes.                      *)
Execution(f, vs, pp, n) ==
    f = [k \in 0..n |-> IF k = 0 THEN vs ELSE Write(f[k - 1], pp[k])]

LEMMA ExecutionStarts ==
    ASSUME NEW vs, NEW pp
    PROVE  \E f : Execution(f, vs, pp, 0)
<1> PICK f : f = [k \in 0..0 |-> vs]
  OBVIOUS
<1>1. DOMAIN f = 0..0 /\ \A k \in 0..0 : k = 0 /\ f[k] = vs
  OBVIOUS
<1>2. f = [k \in 0..0 |-> IF k = 0 THEN vs ELSE Write(f[k - 1], pp[k])]
  BY <1>1
<1> QED BY <1>2 DEF Execution

LEMMA ExecutionGoesOn ==
    ASSUME NEW vs, NEW pp, NEW n \in Nat, NEW g, Execution(g, vs, pp, n)
    PROVE  \E f : Execution(f, vs, pp, n + 1)
<1> PICK x : x = Write(g[n], pp[n + 1])
  OBVIOUS
<1> PICK f : f = [k \in 0..(n + 1) |-> IF k = n + 1 THEN x ELSE g[k]]
  OBVIOUS
<1>1. DOMAIN f = 0..(n + 1) /\ f[n + 1] = x /\ \A k \in 0..n : f[k] = g[k]
  OBVIOUS
<1>2. DOMAIN g = 0..n /\ \A k \in 0..n : g[k] = IF k = 0 THEN vs ELSE Write(g[k - 1], pp[k])
  BY DEF Execution
<1>3. ASSUME NEW k \in 0..(n + 1) PROVE f[k] = IF k = 0 THEN vs ELSE Write(f[k - 1], pp[k])
  <2>1. CASE k = n + 1
    <3>1. n \in 0..n /\ k # 0 /\ k - 1 = n
      BY <2>1
    <3> QED BY <1>1, <2>1, <3>1
  <2>2. CASE k # n + 1
    <3>1. k \in 0..n /\ (k # 0 => k - 1 \in 0..n)
      BY <2>2
    <3> QED BY <1>1, <1>2, <3>1
  <2> QED BY <2>1, <2>2
<1>4. f = [k \in 0..(n + 1) |-> f[k]]
  BY <1>1
<1> PICK e : e = [k \in 0..(n + 1) |-> IF k = 0 THEN vs ELSE Write(f[k - 1], pp[k])]
  OBVIOUS
<1>5. DOMAIN e = 0..(n + 1) /\ \A k \in 0..(n + 1) : e[k] = f[k]
  BY <1>3
<1>6. e = [k \in 0..(n + 1) |-> f[k]]
  BY <1>5
<1>7. f = e
  BY <1>4, <1>6
<1>8. Execution(f, vs, pp, n + 1)
  BY <1>7 DEF Execution
<1> QED BY <1>8

LEMMA ExecutionExists ==
    ASSUME NEW vs, NEW pp, NEW n \in Nat
    PROVE  \E f : Execution(f, vs, pp, n)
<1> DEFINE T == {k \in Nat : ~ \E f : Execution(f, vs, pp, k)}
<1>1. ASSUME T # {} PROVE FALSE
  <2>1. PICK k \in T : \A m \in T : k <= m
    <3>1. T \subseteq Nat
      OBVIOUS
    <3> HIDE DEF T
    <3> QED BY <1>1, <3>1, LeastNumber
  <2>2. k \in Nat /\ k # 0
    BY ExecutionStarts
  <2> PICK m \in Nat : k = m + 1
    <3>1. k - 1 \in Nat /\ k = (k - 1) + 1
      BY <2>2
    <3> QED BY <3>1
  <2>3. m \notin T
    <3>1. ~ (k <= m)
      OBVIOUS
    <3> QED BY <2>1, <3>1
  <2> PICK g : Execution(g, vs, pp, m)
    BY <2>3
  <2>4. \E f : Execution(f, vs, pp, m + 1)
    BY ExecutionGoesOn
  <2> QED BY <2>4
<1> QED BY <1>1

(* Something said of the values that each write keeps holds when all are done.  *)
LEMMA ExecutionOK ==
    ASSUME NEW vs, NEW pp, ValuesOK(vs), PreparedOK(pp), NEW n \in Nat, n = Len(pp),
           NEW f, Execution(f, vs, pp, n)
    PROVE  \A k \in 0..n : ValuesOK(f[k])
<1>1. DOMAIN f = 0..n /\ \A k \in 0..n : f[k] = IF k = 0 THEN vs ELSE Write(f[k - 1], pp[k])
  BY DEF Execution
<1> DEFINE T == {k \in 0..n : ~ ValuesOK(f[k])}
<1>2. ASSUME T # {} PROVE FALSE
  <2>1. PICK k \in T : \A m \in T : k <= m
    <3>1. T \subseteq Nat
      OBVIOUS
    <3> HIDE DEF T
    <3> QED BY <1>2, <3>1, LeastNumber
  <2>2. k \in 0..n /\ ~ ValuesOK(f[k])
    OBVIOUS
  <2>3. CASE k = 0
    BY <1>1, <2>2, <2>3
  <2>4. CASE k # 0
    <3> PICK m : m = k - 1
      OBVIOUS
    <3>1. m \in 0..n /\ ~ (k <= m) /\ k \in 1..n
      BY <2>2, <2>4
    <3>2. ValuesOK(f[m])
      BY <2>1, <3>1
    <3>3. f[k] = Write(f[m], pp[k])
      BY <1>1, <2>2, <2>4
    <3>4. DOMAIN pp = 1..n
      BY SequenceFacts DEF PreparedOK
    <3>5. pp[k].to \in Nat /\ Piece(pp[k].data, pp[k].to)
      BY <3>1, <3>4 DEF PreparedOK
    <3> PICK c : c = pp[k]
      OBVIOUS
    <3>6. ValuesOK(Write(f[m], c))
      BY <3>2, <3>5, WriteOK
    <3> QED BY <2>2, <3>3, <3>6
  <2> QED BY <2>3, <2>4
<1> QED BY <1>2

LEMMA ExecutedIs ==
    ASSUME NEW n \in Nat, n = Len(prepared)
    PROVE  \E f : Execution(f, values, prepared, n) /\ Executed = f[n]
<1> DEFINE after == CHOOSE f : Execution(f, values, prepared, n)
<1>1. Execution(after, values, prepared, n)
  BY ExecutionExists
<1>2. Executed = after[n]
  BY DEF Executed, Execution, Write
<1> QED BY <1>1, <1>2

----------------------------------------------------------------------------
(* The steps keep it.                                                        *)

ReadInv == DataOK(queue, procs) /\ ValuesOK(values) /\ PreparedOK(prepared)

(* What the head of the queue carries.                                       *)
HeadHas(c, pr) == CommandOK(c, pr) /\ Holds(pr) /\ Carried(c, pr)

LEMMA HeadKnown ==
    ASSUME QueueInv, DataOK(queue, procs), queue # <<>>
    PROVE  \E pr : HeadHas(queue[1], pr)
<1> PICK q, ps : q = queue /\ ps = procs
  OBVIOUS
<1>1. QueueOK(q, ps) /\ q # <<>>
  BY QueueInvIs
<1>2. 1 \in DOMAIN q
  <2>1. Sequence(q)
    BY <1>1 DEF QueueOK
  <2> QED BY <1>1, <2>1, SequenceTail
<1> PICK p : p = q[1].proc
  OBVIOUS
<1>3. p \in DOMAIN ps /\ CommandOK(q[1], ps[p])
  BY <1>1, <1>2, CommandKnown
<1>4. Holds(ps[p]) /\ Carried(q[1], ps[p])
  BY <1>2, <1>3 DEF DataOK, AllHold, Carries
<1> QED BY <1>3, <1>4 DEF HeadHas

LEMMA HeadActionGone ==
    ASSUME QueueInv, queue # <<>>, NEW a, AnswerOK(queue[1], a), HandleHead(a)
    PROVE  HeadGone(queue, procs, queue[1], a, queue', procs')
<1> PICK q, ps : q = queue /\ ps = procs
  OBVIOUS
<1> PICK q2, ps2 : q2 = queue' /\ ps2 = procs'
  OBVIOUS
<1> PICK c : c = q[1]
  OBVIOUS
<1> PICK pr : pr = Marked(ps[c.proc], c, a)
  OBVIOUS
<1> PICK w : w = Done(c, pr, a)
  OBVIOUS
<1>1. QueueOK(q, ps) /\ q # <<>> /\ AnswerOK(c, a)
  BY QueueInvIs
<1>2. (q2 = w.sends \o Tail(q) \/ q2 = Tail(q) \o w.sends)
  BY DEF HandleHead, Marked, Done
<1>3. ps2 = [ps EXCEPT ![c.proc] = Notify(c, w.proc)]
  BY DEF HandleHead, Marked, Done
<1>4. HeadGone(q, ps, c, a, q2, ps2)
  BY <1>1, <1>2, <1>3 DEF HeadGone
<1> QED BY <1>4

LEMMA HeadActionData ==
    ASSUME QueueInv, DataOK(queue, procs), queue # <<>>,
           NEW a, AnswerOK(queue[1], a), Given(queue[1], a), HandleHead(a)
    PROVE  DataOK(queue', procs')
<1> PICK q, ps : q = queue /\ ps = procs
  OBVIOUS
<1> PICK q2, ps2 : q2 = queue' /\ ps2 = procs'
  OBVIOUS
<1>1. HeadGone(q, ps, q[1], a, q2, ps2)
  BY HeadActionGone
<1>2. DataOK(q2, ps2)
  BY <1>1, HeadData
<1> QED BY <1>2

(* The answers: one that failed, one that no read is asked, and a part of a value. *)
LEMMA FailedGiven ==
    ASSUME NEW c, NEW status, status \notin {"ok", "garbled"}, NEW a, a = Answer(status, <<>>)
    PROVE  Given(c, a)
<1>1. a.status = status /\ a.items = <<>>
  BY DEF Answer
<1>2. Failed(a) /\ a.status # "garbled"
  BY <1>1 DEF Failed
<1> QED BY <1>1, <1>2 DEF Given

LEMMA OtherGiven ==
    ASSUME NEW c, c.ask \notin {"read", "blob", "prepare"}, NEW a
    PROVE  Given(c, a)
  BY DEF Given

LEMMA PrepareGiven ==
    ASSUME NEW c, c.ask = "prepare", NEW a, a.items = c.data
    PROVE  Given(c, a)
  BY DEF Given

LEMMA AnswerIs ==
    ASSUME NEW status, NEW items, NEW a, a = Answer(status, items)
    PROVE  a.status = status /\ a.items = items
  BY DEF Answer

PartGives(c, x, a) ==
    /\ c.ask \in {"read", "blob"} /\ a = Answer("ok", x)
    /\ Piece(x, c.to) /\ PartOf(Len(x), c.to, ValueLen[c.from])

LEMMA PartIsGiven ==
    ASSUME NEW c, NEW x, NEW a, PartGives(c, x, a)
    PROVE  Given(c, a)
<1>0. /\ c.ask \in {"read", "blob"} /\ a = Answer("ok", x)
      /\ Piece(x, c.to) /\ PartOf(Len(x), c.to, ValueLen[c.from])
  BY DEF PartGives
<1>1. a.status = "ok" /\ a.items = x
  BY <1>0, AnswerIs
<1>2. ~ Failed(a) /\ a.status # "garbled" /\ c.ask # "prepare"
  BY <1>0, <1>1 DEF Failed
<1> QED BY <1>0, <1>1, <1>2 DEF Given

(* What a peer that has n bytes gives of them, b at most. *)
Bounded(m, n, o, b) ==
    /\ m \in Nat /\ n \in Nat /\ o \in Nat /\ b \in Nat /\ b > 0
    /\ m <= n /\ m <= o + b /\ (m = n \/ m = o + b)

LEMMA LeastBounded ==
    ASSUME NEW n \in Nat, NEW o \in Nat, NEW b \in Nat, b > 0, NEW m, m = Least(n, o + b)
    PROVE  Bounded(m, n, o, b)
<1> PICK k \in Nat : k = o + b
  OBVIOUS
<1>1. m = IF n < k THEN n ELSE k
  BY DEF Least
<1>2. m \in Nat /\ m <= n /\ m <= k /\ (m = n \/ m = k)
  BY <1>1
<1> QED BY <1>2 DEF Bounded

LEMMA PartGiven ==
    ASSUME NEW v, Piece(v, 0), NEW n, n = Len(v), NEW o, NEW b, NEW m, Bounded(m, n, o, b),
           b = BufLen - 1, NEW x, x = SubSeq(v, o + 1, m)
    PROVE  Piece(x, o) /\ PartOf(Len(x), o, n)
<1>1. m \in Nat /\ n \in Nat /\ o \in Nat /\ m <= n
  BY DEF Bounded
<1>2. Piece(x, o) /\ Len(x) = IF o < m THEN m - o ELSE 0
  <2>1. PartIs(x, v, o, m)
    BY <1>1, PartOfPiece
  <2> QED BY <2>1 DEF PartIs
<1> PICK k : k = IF o < m THEN m - o ELSE 0
  OBVIOUS
<1>3. k \in Nat /\ k <= b /\ (o <= n => o + k <= n /\ (k < b => o + k = n))
  BY DEF Bounded
<1>4. PartOf(k, o, n)
  BY <1>3 DEF PartOf
<1> QED BY <1>2, <1>4

PartAnswer(c, v) == Answer("ok", SubSeq(v, c.to + 1, Least(Len(v), c.to + BufLen - 1)))

LEMMA ReadGiven ==
    ASSUME NEW c, NEW pr, HeadHas(c, pr), c.ask \in {"read", "blob"}, NEW vs, ValuesOK(vs),
           NEW v, v = vs[c.from], NEW a, a = PartAnswer(c, v)
    PROVE  Given(c, a)
<1>1. pr.kind = "read"
  <2>1. Belongs(c.ask, pr)
    BY DEF HeadHas, CommandOK
  <2> QED BY <2>1 DEF Belongs, Discoveries
<1>2. Reading(pr) /\ Carried(c, pr)
  BY <1>1 DEF HeadHas, Holds
<1>3. c.from = pr.handle /\ (c.to = 0 \/ c.to = Len(pr.found))
  BY <1>2 DEF Carried
<1>4. c.from \in DOMAIN ValueLen /\ c.to \in Nat
  <2>1. Len(pr.found) \in Nat
    BY <1>2, SequenceFacts DEF Reading, Piece
  <2> QED BY <1>2, <1>3, <2>1 DEF Reading
<1>5. Piece(v, 0) /\ Len(v) = ValueLen[c.from]
  BY <1>4 DEF ValuesOK
<1> PICK o \in Nat : o = c.to
  BY <1>4
<1> PICK n \in Nat : n = Len(v)
  BY <1>5, SequenceFacts DEF Piece
<1> PICK b \in Nat : b = BufLen - 1 /\ b > 0 /\ o + BufLen - 1 = o + b
  <2>1. BufLen \in Nat /\ BufLen > 6
    BY LimitsAssumption
  <2>2. BufLen - 1 \in Nat /\ BufLen - 1 > 0 /\ o + BufLen - 1 = o + (BufLen - 1)
    BY <2>1
  <2> QED BY <2>2
<1> PICK m : m = Least(n, o + b)
  OBVIOUS
<1>6. Bounded(m, n, o, b)
  BY LeastBounded
<1> PICK x : x = SubSeq(v, o + 1, m)
  OBVIOUS
<1>7. Piece(x, o) /\ PartOf(Len(x), o, n)
  BY <1>5, <1>6, PartGiven
<1>8. a = Answer("ok", x)
  <2>1. Least(Len(v), c.to + BufLen - 1) = m /\ c.to = o
    OBVIOUS
  <2> QED BY <2>1 DEF PartAnswer
<1>9. Piece(x, c.to) /\ PartOf(Len(x), c.to, ValueLen[c.from])
  BY <1>5, <1>7
<1>10. PartGives(c, x, a)
  BY <1>8, <1>9 DEF PartGives
<1> QED BY <1>10, PartIsGiven

LEMMA PreparedOne ==
    ASSUME NEW pp, PreparedOK(pp), NEW c, c.to \in Nat, Piece(c.data, c.to)
    PROVE  PreparedOK(Append(pp, c))
<1> PICK one : one = <<c>>
  OBVIOUS
<1> PICK w : w = pp \o one
  OBVIOUS
<1>1. Sequence(pp)
  BY DEF PreparedOK
<1>2. Sequence(one) /\ DOMAIN one = {1} /\ one[1] = c /\ Append(pp, c) = w
  BY <1>1, SequenceOne, SequenceAppend
<1>3. Sequence(w) /\ From(w, pp, one)
  BY <1>1, <1>2, SequenceConcat, ConcatFrom
<1>4. ASSUME NEW i \in DOMAIN w PROVE w[i].to \in Nat /\ Piece(w[i].data, w[i].to)
  <2>1. CASE \E k \in DOMAIN pp : w[i] = pp[k]
    BY <2>1 DEF PreparedOK
  <2>2. CASE \E k \in DOMAIN one : w[i] = one[k]
    BY <1>2, <2>2
  <2> QED BY <1>3, <1>4, <2>1, <2>2 DEF From
<1>5. PreparedOK(w)
  BY <1>3, <1>4 DEF PreparedOK
<1> QED BY <1>2, <1>5

LEMMA NothingPrepared == PreparedOK(<<>>)
<1>1. DOMAIN <<>> = {}
  OBVIOUS
<1> QED BY <1>1, EmptySequence DEF PreparedOK

----------------------------------------------------------------------------
(* What is discovered.  The elements of a table lie apart, in the order of      *)
(* handles, and a search has found those that begin below where it asks next.   *)

Spans(e) == e.first \in Nat /\ e.last \in Nat /\ e.first <= e.last /\ e.first \in 1..MaxHandle /\ e.last \in 1..MaxHandle

Apart(E) ==
    /\ \A e \in E : Spans(e)
    /\ \A e, g \in E : e = g \/ e.last < g.first \/ g.last < e.first

LEMMA TableApart ==
    ASSUME NEW ask
    PROVE  Sequence(Table(ask)) /\ Sorted(Table(ask)) /\ Apart(Elements(Table(ask)))
<1> PICK t : t = Table(ask)
  OBVIOUS
<1>1. t \in Seq(Item) /\ Sorted(t) /\ \A i \in DOMAIN t : t[i].first <= t[i].last
  BY PeerAssumption DEF Table
<1>2. \A x \in Item : x.first \in 1..MaxHandle /\ x.last \in 1..MaxHandle
  BY DEF Item
<1> HIDE DEF Item
<1>3. Sequence(t) /\ \A i \in DOMAIN t : t[i] \in Item
  BY <1>1, SequenceIs
<1>4. MaxHandle \in Nat
  BY LimitsAssumption
<1>5. ASSUME NEW i \in DOMAIN t PROVE Spans(t[i])
  <2>1. t[i].first \in 1..MaxHandle /\ t[i].last \in 1..MaxHandle
    BY <1>2, <1>3
  <2> QED BY <1>1, <1>4, <2>1 DEF Spans
<1>6. ASSUME NEW i \in DOMAIN t, NEW j \in DOMAIN t
      PROVE  t[i] = t[j] \/ t[i].last < t[j].first \/ t[j].last < t[i].first
  <2>1. i \in Nat /\ j \in Nat
    BY <1>3, SequenceFacts
  <2>2. CASE i < j
    BY <1>1, <2>2 DEF Sorted
  <2>3. CASE j < i
    BY <1>1, <2>3 DEF Sorted
  <2>4. CASE i = j
    BY <2>4
  <2> QED BY <2>1, <2>2, <2>3, <2>4
<1>7. Apart(Elements(t))
  BY <1>5, <1>6 DEF Apart, Elements
<1> QED BY <1>1, <1>3, <1>7

LEMMA ElementsConcat ==
    ASSUME NEW s, NEW t, Sequence(s), Sequence(t)
    PROVE  Elements(s \o t) = Elements(s) \cup Elements(t)
<1> PICK w : w = s \o t
  OBVIOUS
<1> PICK n \in Nat, m \in Nat : n = Len(s) /\ m = Len(t)
  BY SequenceFacts
<1>1. /\ Sequence(w) /\ Len(w) = n + m
      /\ \A i \in 1..n : w[i] = s[i]
      /\ \A i \in 1..m : w[n + i] = t[i]
  BY SequenceConcat
<1>2. DOMAIN s = 1..n /\ DOMAIN t = 1..m /\ DOMAIN w = 1..(n + m)
  BY <1>1, SequenceFacts
<1>3. From(w, s, t)
  BY ConcatFrom
<1>4. Elements(w) \subseteq Elements(s) \cup Elements(t)
  BY <1>3 DEF From, Elements
<1>5. Elements(s) \subseteq Elements(w)
  <2>1. \A i \in 1..n : i \in DOMAIN w /\ w[i] = s[i]
    BY <1>1, <1>2
  <2> QED BY <1>2, <2>1 DEF Elements
<1>6. Elements(t) \subseteq Elements(w)
  <2>1. \A i \in 1..m : n + i \in DOMAIN w /\ w[n + i] = t[i]
    BY <1>1, <1>2
  <2> QED BY <1>2, <2>1 DEF Elements
<1> QED BY <1>4, <1>5, <1>6

LEMMA SortedConcat ==
    ASSUME NEW s, NEW t, Sequence(s), Sequence(t), Sorted(s), Sorted(t),
           \A e \in Elements(s), g \in Elements(t) : e.last < g.first
    PROVE  Sorted(s \o t)
<1> PICK w : w = s \o t
  OBVIOUS
<1> PICK n \in Nat, m \in Nat : n = Len(s) /\ m = Len(t)
  BY SequenceFacts
<1>1. /\ Sequence(w) /\ Len(w) = n + m
      /\ \A i \in 1..n : w[i] = s[i]
      /\ \A i \in 1..m : w[n + i] = t[i]
  BY SequenceConcat
<1>2. DOMAIN s = 1..n /\ DOMAIN t = 1..m /\ DOMAIN w = 1..(n + m)
  BY <1>1, SequenceFacts
<1>3. ASSUME NEW i \in 1..(n + m), NEW j \in 1..(n + m), i < j PROVE w[i].last < w[j].first
  <2>1. CASE j <= n
    <3>1. i \in 1..n /\ j \in 1..n
      BY <1>3, <2>1
    <3> QED BY <1>1, <1>2, <1>3, <3>1 DEF Sorted
  <2>2. CASE i <= n /\ ~ (j <= n)
    <3> PICK k : k = j - n
      OBVIOUS
    <3>1. i \in 1..n /\ k \in 1..m /\ n + k = j
      BY <2>2
    <3>2. w[i] = s[i] /\ w[j] = t[k]
      BY <1>1, <3>1
    <3>3. s[i] \in Elements(s) /\ t[k] \in Elements(t)
      BY <1>2, <3>1 DEF Elements
    <3> QED BY <3>2, <3>3
  <2>3. CASE ~ (i <= n)
    <3> PICK k, l : k = i - n /\ l = j - n
      OBVIOUS
    <3>1. k \in 1..m /\ l \in 1..m /\ n + k = i /\ n + l = j /\ k < l
      BY <1>3, <2>3
    <3>2. w[i] = t[k] /\ w[j] = t[l]
      BY <1>1, <3>1
    <3> QED BY <1>2, <3>1, <3>2 DEF Sorted
  <2> QED BY <2>1, <2>2, <2>3
<1> QED BY <1>2, <1>3 DEF Sorted

(* The loop over the declarations in an answer.                              *)
Keep(s, u, x, k) == IF u \in {"any", s[k].uuid} THEN Append(x, s[k]) ELSE x

Keeping(f, s, u, n) == f = [k \in 0..n |-> IF k = 0 THEN <<>> ELSE Keep(s, u, f[k - 1], k)]

LEMMA KeepingStarts ==
    ASSUME NEW s, NEW u
    PROVE  \E f : Keeping(f, s, u, 0)
<1> PICK e : e = <<>>
  OBVIOUS
<1> PICK f : f = [k \in 0..0 |-> e]
  OBVIOUS
<1>1. DOMAIN f = 0..0 /\ \A k \in 0..0 : k = 0 /\ f[k] = e
  OBVIOUS
<1>2. f = [k \in 0..0 |-> IF k = 0 THEN <<>> ELSE Keep(s, u, f[k - 1], k)]
  BY <1>1
<1> QED BY <1>2 DEF Keeping

LEMMA KeepingGoesOn ==
    ASSUME NEW s, NEW u, NEW n \in Nat, NEW g, Keeping(g, s, u, n)
    PROVE  \E f : Keeping(f, s, u, n + 1)
<1> PICK x : x = Keep(s, u, g[n], n + 1)
  OBVIOUS
<1> PICK f : f = [k \in 0..(n + 1) |-> IF k = n + 1 THEN x ELSE g[k]]
  OBVIOUS
<1>1. DOMAIN f = 0..(n + 1) /\ f[n + 1] = x /\ \A k \in 0..n : f[k] = g[k]
  OBVIOUS
<1>2. g = [k \in 0..n |-> IF k = 0 THEN <<>> ELSE Keep(s, u, g[k - 1], k)]
  BY DEF Keeping
<1>3. \A k \in 0..n : g[k] = IF k = 0 THEN <<>> ELSE Keep(s, u, g[k - 1], k)
  BY <1>2
<1>4. ASSUME NEW k \in 0..(n + 1) PROVE f[k] = IF k = 0 THEN <<>> ELSE Keep(s, u, f[k - 1], k)
  <2>1. CASE k = n + 1
    <3>1. n \in 0..n /\ k # 0 /\ k - 1 = n
      BY <2>1
    <3>2. f[k - 1] = g[n]
      BY <1>1, <3>1
    <3> QED BY <1>1, <2>1, <3>1, <3>2
  <2>2. CASE k # n + 1
    <3>1. k \in 0..n /\ (k # 0 => k - 1 \in 0..n)
      BY <2>2
    <3>2. f[k] = g[k] /\ (k # 0 => f[k - 1] = g[k - 1])
      BY <1>1, <3>1
    <3> QED BY <1>3, <3>1, <3>2
  <2> QED BY <2>1, <2>2
<1> PICK e : e = [k \in 0..(n + 1) |-> IF k = 0 THEN <<>> ELSE Keep(s, u, f[k - 1], k)]
  OBVIOUS
<1>5. DOMAIN e = 0..(n + 1) /\ \A k \in 0..(n + 1) : e[k] = f[k]
  BY <1>4
<1>6. f = [k \in 0..(n + 1) |-> f[k]] /\ e = [k \in 0..(n + 1) |-> e[k]]
  BY <1>1, <1>5
<1>7. f = e
  BY <1>5, <1>6
<1>8. Keeping(f, s, u, n + 1)
  BY <1>7 DEF Keeping
<1> QED BY <1>8

LEMMA KeepingExists ==
    ASSUME NEW s, NEW u, NEW n \in Nat
    PROVE  \E f : Keeping(f, s, u, n)
<1> DEFINE T == {k \in Nat : ~ \E f : Keeping(f, s, u, k)}
<1>1. ASSUME T # {} PROVE FALSE
  <2>1. PICK k \in T : \A m \in T : k <= m
    <3>1. T \subseteq Nat
      OBVIOUS
    <3> HIDE DEF T
    <3> QED BY <1>1, <3>1, LeastNumber
  <2>2. k \in Nat /\ k # 0
    BY KeepingStarts
  <2> PICK m \in Nat : k = m + 1
    <3>1. k - 1 \in Nat /\ k = (k - 1) + 1
      BY <2>2
    <3> QED BY <3>1
  <2>3. m \notin T
    <3>1. ~ (k <= m)
      OBVIOUS
    <3> QED BY <2>1, <3>1
  <2> PICK g : Keeping(g, s, u, m)
    BY <2>3
  <2>4. \E f : Keeping(f, s, u, m + 1)
    BY KeepingGoesOn
  <2> QED BY <2>4
<1> QED BY <1>1

(* What the loop has kept of the first k.                                     *)
Kept(x, s, u, k) ==
    /\ Sequence(x) /\ Sorted(x)
    /\ Elements(x) = {e \in {s[i] : i \in 1..k} : u \in {"any", e.uuid}}

LEMMA KeepOne ==
    ASSUME NEW s, Sequence(s), Sorted(s), NEW u, NEW m \in Nat, NEW k \in DOMAIN s, k = m + 1,
           NEW x, Kept(x, s, u, m)
    PROVE  Kept(Keep(s, u, x, k), s, u, k)
<1> PICK e : e = s[k]
  OBVIOUS
<1> PICK one : one = <<e>>
  OBVIOUS
<1>1. {s[i] : i \in 1..k} = {s[i] : i \in 1..m} \cup {e}
  <2>1. 1..k = 1..m \cup {k}
    OBVIOUS
  <2> QED BY <2>1
<1>2. Sequence(x) /\ Sorted(x) /\ Elements(x) = {g \in {s[i] : i \in 1..m} : u \in {"any", g.uuid}}
  BY DEF Kept
<1>3. CASE u \in {"any", e.uuid}
  <2>1. Sequence(one) /\ DOMAIN one = {1} /\ one[1] = e
    BY SequenceOne
  <2>2. Sorted(one) /\ Elements(one) = {e}
    BY <2>1 DEF Sorted, Elements
  <2>3. ASSUME NEW g \in Elements(x), NEW d \in Elements(one) PROVE g.last < d.first
    <3> PICK i \in 1..m : g = s[i]
      BY <1>2
    <3>1. i \in DOMAIN s /\ i < k
      BY SequenceFacts
    <3> QED BY <2>2, <3>1 DEF Sorted
  <2>4. Sequence(x \o one) /\ Sorted(x \o one) /\ Elements(x \o one) = Elements(x) \cup {e}
    BY <1>2, <2>1, <2>2, <2>3, SequenceConcat, SortedConcat, ElementsConcat
  <2>5. Keep(s, u, x, k) = x \o one
    <3>1. Append(x, e) = x \o one
      BY <1>2, SequenceAppend
    <3> QED BY <1>3, <3>1 DEF Keep
  <2>6. Elements(x) \cup {e} = {g \in {s[i] : i \in 1..k} : u \in {"any", g.uuid}}
    BY <1>1, <1>2, <1>3
  <2> QED BY <2>4, <2>5, <2>6 DEF Kept
<1>4. CASE ~ (u \in {"any", e.uuid})
  <2>1. Keep(s, u, x, k) = x
    BY <1>4 DEF Keep
  <2>2. Elements(x) = {g \in {s[i] : i \in 1..k} : u \in {"any", g.uuid}}
    BY <1>1, <1>2, <1>4
  <2> QED BY <1>2, <2>1, <2>2 DEF Kept
<1> QED BY <1>3, <1>4

LEMMA KeepingKept ==
    ASSUME NEW s, Sequence(s), Sorted(s), NEW u, NEW n \in Nat, n = Len(s), NEW f, Keeping(f, s, u, n)
    PROVE  \A k \in 0..n : Kept(f[k], s, u, k)
<1>1. DOMAIN f = 0..n /\ \A k \in 0..n : f[k] = IF k = 0 THEN <<>> ELSE Keep(s, u, f[k - 1], k)
  BY DEF Keeping
<1> DEFINE T == {k \in 0..n : ~ Kept(f[k], s, u, k)}
<1>2. ASSUME T # {} PROVE FALSE
  <2>1. PICK k \in T : \A m \in T : k <= m
    <3>1. T \subseteq Nat
      OBVIOUS
    <3> HIDE DEF T
    <3> QED BY <1>2, <3>1, LeastNumber
  <2>2. k \in 0..n /\ ~ Kept(f[k], s, u, k)
    OBVIOUS
  <2>3. CASE k = 0
    <3> PICK x : x = <<>>
      OBVIOUS
    <3>1. f[k] = x
      BY <1>1, <2>2, <2>3
    <3>2. DOMAIN x = {} /\ Sequence(x)
      BY EmptySequence
    <3>3. Sorted(x) /\ Elements(x) = {} /\ 1..k = {}
      BY <2>3, <3>2 DEF Sorted, Elements
    <3>4. Kept(x, s, u, k)
      BY <3>2, <3>3 DEF Kept
    <3> QED BY <2>2, <3>1, <3>4
  <2>4. CASE k # 0
    <3> PICK m : m = k - 1
      OBVIOUS
    <3>1. m \in 0..n /\ ~ (k <= m) /\ k \in 1..n /\ k = m + 1 /\ m \in Nat
      BY <2>2, <2>4
    <3>2. Kept(f[m], s, u, m)
      BY <2>1, <3>1
    <3>3. f[k] = Keep(s, u, f[m], k)
      BY <1>1, <2>2, <2>4
    <3>4. k \in DOMAIN s
      BY <3>1, SequenceFacts
    <3>5. Kept(Keep(s, u, f[m], k), s, u, k)
      BY <3>1, <3>2, <3>4, KeepOne
    <3> QED BY <2>2, <3>3, <3>5
  <2> QED BY <2>3, <2>4
<1> QED BY <1>2

LEMMA OfUuidKeeps ==
    ASSUME NEW s, Sequence(s), Sorted(s), NEW u
    PROVE  /\ Sequence(OfUuid(s, u)) /\ Sorted(OfUuid(s, u))
           /\ Elements(OfUuid(s, u)) = {e \in Elements(s) : u \in {"any", e.uuid}}
<1> PICK n \in Nat : n = Len(s) /\ DOMAIN s = 1..n
  BY SequenceFacts
<1> DEFINE kept == CHOOSE f : Keeping(f, s, u, n)
<1>1. Keeping(kept, s, u, n)
  BY KeepingExists
<1>2. OfUuid(s, u) = kept[n]
  BY DEF OfUuid, Keeping, Keep
<1> HIDE DEF kept
<1>3. n \in 0..n
  OBVIOUS
<1>4. Kept(kept[n], s, u, n)
  BY <1>1, <1>3, KeepingKept
<1>5. Elements(s) = {s[i] : i \in 1..n}
  BY DEF Elements
<1> QED BY <1>2, <1>4, <1>5 DEF Kept

----------------------------------------------------------------------------
(* What an answer to a search tells of the peer's table.                        *)

(* What the command asks for. *)
AskedFor(c, pr) ==
    {e \in Elements(Table(c.ask)) :
        e.first \in c.from..c.to /\ (c.ask = "primary_uuid" => e.uuid = pr.uuid)}

(* Those it gives are the first ones, and it gives none only if there are none.  *)
FirstOf(s, E) ==
    /\ Sequence(s) /\ s # <<>> /\ Sorted(s) /\ LastOf(s) \in E
    /\ Elements(s) = {e \in E : e.first <= LastOf(s).first}

Tells(c, pr, a) ==
    c.ask \in Tables =>
        /\ a.status = "ok" => FirstOf(a.items, AskedFor(c, pr))
        /\ a.status = "not_found" => AskedFor(c, pr) = {}

LEMMA OtherTells ==
    ASSUME NEW c, NEW pr, NEW a, c.ask \notin Tables \/ a.status \notin {"ok", "not_found"}
    PROVE  Tells(c, pr, a)
  BY DEF Tells

(* In a sorted table the order of places is that of first handles.              *)
LEMMA PlacesOrdered ==
    ASSUME NEW t, Sequence(t), Sorted(t), Apart(Elements(t)), NEW i \in DOMAIN t, NEW j \in DOMAIN t
    PROVE  /\ t[i].first <= t[j].first => i <= j
           /\ i <= j => t[i].first <= t[j].first
<1>1. i \in Nat /\ j \in Nat
  BY SequenceFacts
<1>2. Spans(t[i]) /\ Spans(t[j])
  BY DEF Apart, Elements
<1>3. i < j => t[i].last < t[j].first
  BY DEF Sorted
<1>4. j < i => t[j].last < t[i].first
  BY DEF Sorted
<1>5. i = j => t[i].first = t[j].first
  OBVIOUS
<1> QED BY <1>1, <1>2, <1>3, <1>4, <1>5 DEF Spans

(* The first n places of those that match, in order. *)
Leads(f, n, P) ==
    /\ f \in [1..n -> P]
    /\ \A j, k \in 1..n : j < k => f[j] < f[k]
    /\ \A i \in P, j \in 1..n : i < f[j] => \E k \in 1..n : f[k] = i

LEMMA LeadsBegins ==
    ASSUME NEW t, Sequence(t), Sorted(t), Apart(Elements(t)), NEW P, P \subseteq DOMAIN t,
           NEW n \in Nat, n > 0, NEW f, Leads(f, n, P),
           NEW s, s = [j \in 1..n |-> t[f[j]]], NEW E, E = {t[i] : i \in P}
    PROVE  FirstOf(s, E)
<1>1. f \in [1..n -> P] /\ n \in 1..n
  BY DEF Leads
<1>2. \A j \in 1..n : f[j] \in P /\ f[j] \in DOMAIN t /\ f[j] \in Nat
  <2>1. \A i \in DOMAIN t : i \in Nat
    BY SequenceFacts
  <2> QED BY <1>1, <2>1
<1> PICK T : T = Elements(t)
  OBVIOUS
<1>3. \A j \in 1..n : t[f[j]] \in T
  BY <1>2 DEF Elements
<1>4. s \in Seq(T) /\ Len(s) = n
  BY <1>3
<1>5. Sequence(s) /\ DOMAIN s = 1..n /\ s # <<>>
  <2>1. Sequence(s)
    BY <1>4, SequenceIs
  <2> QED BY <1>4, <2>1, SequenceFacts
<1>6. \A j \in 1..n : s[j] = t[f[j]]
  OBVIOUS
<1>7. Sorted(s)
  <2>1. ASSUME NEW i \in 1..n, NEW j \in 1..n, i < j PROVE s[i].last < s[j].first
    <3>1. f[i] < f[j]
      BY <2>1 DEF Leads
    <3>2. t[f[i]].last < t[f[j]].first
      BY <1>2, <3>1 DEF Sorted
    <3> QED BY <1>6, <3>2
  <2> QED BY <1>5, <2>1 DEF Sorted
<1> PICK m : m = f[n]
  OBVIOUS
<1>8. LastOf(s) = t[m] /\ m \in P /\ m \in DOMAIN t
  <2>1. LastOf(s) = s[n]
    BY <1>4 DEF LastOf
  <2> QED BY <1>1, <1>2, <1>6, <2>1
<1>9. LastOf(s) \in E
  BY <1>8
<1>10. ASSUME NEW j \in 1..n PROVE s[j] \in E /\ s[j].first <= t[m].first
  <2>1. j < n => f[j] < f[n]
    BY <1>1 DEF Leads
  <2>2. f[j] <= m
    <3>1. CASE j = n
      BY <1>1, <1>2, <3>1
    <3>2. CASE j # n
      <4>1. j < n
        BY <3>2
      <4> QED BY <1>1, <1>2, <2>1, <4>1
    <3> QED BY <3>1, <3>2
  <2>3. t[f[j]].first <= t[m].first
    BY <1>2, <1>8, <2>2, PlacesOrdered
  <2> QED BY <1>2, <1>6, <2>3
<1>11. ASSUME NEW e \in E, e.first <= t[m].first PROVE e \in Elements(s)
  <2> PICK i \in P : e = t[i]
    OBVIOUS
  <2>1. i \in DOMAIN t /\ i \in Nat /\ i <= m
    <3>1. i \in DOMAIN t /\ t[i].first <= t[m].first
      BY <1>11
    <3> QED BY <1>8, <3>1, PlacesOrdered, SequenceFacts
  <2>2. \E k \in 1..n : f[k] = i
    <3>1. CASE i = m
      BY <1>1, <3>1
    <3>2. CASE i # m
      <4>1. i < f[n]
        BY <1>1, <1>2, <2>1, <3>2
      <4> QED BY <1>1, <4>1 DEF Leads
    <3> QED BY <3>1, <3>2
  <2> PICK k \in 1..n : f[k] = i
    BY <2>2
  <2>3. k \in DOMAIN s /\ s[k] = e
    BY <1>5, <1>6
  <2> QED BY <2>3 DEF Elements
<1>12. Elements(s) = {e \in E : e.first <= LastOf(s).first}
  <2>1. Elements(s) = {s[j] : j \in 1..n}
    BY <1>5 DEF Elements
  <2> QED BY <1>8, <1>10, <1>11, <2>1
<1> QED BY <1>5, <1>7, <1>9, <1>12 DEF FirstOf

LEMMA TableTells ==
    ASSUME NEW c, c.proc \in DOMAIN procs, NEW a \in TableAnswers(c)
    PROVE  Tells(c, procs[c.proc], a)
<1> PICK t : t = Table(c.ask)
  OBVIOUS
<1> PICK pr : pr = procs[c.proc]
  OBVIOUS
<1> PICK P : P = Matching(c)
  OBVIOUS
<1> PICK E : E = AskedFor(c, pr)
  OBVIOUS
<1>1. Sequence(t) /\ Sorted(t) /\ Apart(Elements(t))
  BY TableApart
<1>2. P \subseteq DOMAIN t /\ E = {t[i] : i \in P}
  <2>1. P = {i \in DOMAIN t : t[i].first \in c.from..c.to /\ (c.ask = "primary_uuid" => t[i].uuid = pr.uuid)}
    BY DEF Matching
  <2>2. E = {e \in Elements(t) : e.first \in c.from..c.to /\ (c.ask = "primary_uuid" => e.uuid = pr.uuid)}
    BY DEF AskedFor
  <2> QED BY <2>1, <2>2 DEF Elements
<1>3. CASE P = {}
  <2>1. a = Answer("not_found", <<>>)
    BY <1>3 DEF TableAnswers
  <2>2. a.status = "not_found"
    BY <2>1, AnswerIs
  <2>3. E = {}
    BY <1>2, <1>3
  <2> QED BY <2>2, <2>3 DEF Tells
<1>4. CASE P # {}
  <2>1. PICK n \in 1..MaxItems : \E f \in Leading(c, n) : a = Answer("ok", [j \in 1..n |-> Table(c.ask)[f[j]]])
    BY <1>4 DEF TableAnswers
  <2>2. PICK f \in Leading(c, n) : a = Answer("ok", [j \in 1..n |-> Table(c.ask)[f[j]]])
    BY <2>1
  <2> PICK s : s = [j \in 1..n |-> t[f[j]]]
    OBVIOUS
  <2>3. n \in Nat /\ n > 0
    BY LimitsAssumption
  <2>4. Leads(f, n, P)
    BY DEF Leading, Leads
  <2>5. FirstOf(s, E)
    BY <1>1, <1>2, <2>3, <2>4, LeadsBegins
  <2>6. a = Answer("ok", s)
    BY <2>2
  <2>7. a.status = "ok" /\ a.items = s
    BY <2>6, AnswerIs
  <2> QED BY <2>5, <2>7 DEF Tells
<1> QED BY <1>3, <1>4

----------------------------------------------------------------------------
(* What becomes of the values and of what is prepared when the head is answered. *)
Writes == {"write", "prepare", "execute"}

Executes(vs, pp, vs2) == \E n \in Nat : \E f : n = Len(pp) /\ Execution(f, vs, pp, n) /\ vs2 = f[n]

Effects(c, a, vs, pp, vs2, pp2) ==
    \/ c.ask = "write" /\ a.status = "ok" /\ vs2 = Write(vs, c) /\ pp2 = pp
    \/ c.ask = "prepare" /\ a.status = "ok" /\ vs2 = vs /\ pp2 = Append(pp, c)
    \/ c.ask = "execute" /\ a.status = "ok" /\ Executes(vs, pp, vs2) /\ pp2 = <<>>
    \/ c.ask = "execute" /\ Failed(a) /\ vs2 = vs /\ pp2 = <<>>
    \/ (c.ask \notin Writes \/ Failed(a)) /\ vs2 = vs /\ pp2 = pp

(* An answer to the head, or what stands for one when the channel fails.       *)
Answered(a) ==
    /\ queue # <<>> /\ AnswerOK(queue[1], a) /\ Given(queue[1], a) /\ HandleHead(a)
    /\ Tells(queue[1], procs[queue[1].proc], a)
    /\ Effects(queue[1], a, values, prepared, values', prepared')

LEMMA HeadProc ==
    ASSUME QueueInv, queue # <<>>
    PROVE  queue[1].proc \in DOMAIN procs
<1>1. Sequence(queue) /\ Commands(queue, procs)
  BY DEF QueueInv
<1>2. 1 \in DOMAIN queue
  BY <1>1, SequenceTail
<1> QED BY <1>1, <1>2 DEF Commands

LEMMA CompletesAnswered ==
    ASSUME GattInv, ReadInv, Completes
    PROVE  \E a : Answered(a)
<1>0. QueueInv /\ ChannelInv /\ DataOK(queue, procs) /\ ValuesOK(values) /\ PreparedOK(prepared)
  BY DEF GattInv, ReadInv
<1> PICK c : c = queue[1]
  OBVIOUS
<1>1. ASSUME NEW a, AnswerOK(queue[1], a), Given(queue[1], a), HandleHead(a), sent,
             Tells(c, procs[c.proc], a),
             Effects(queue[1], a, values, prepared, values', prepared')
      PROVE  \E b : Answered(b)
  <2>1. queue # <<>>
    BY <1>0, <1>1 DEF ChannelInv
  <2> QED BY <1>1, <2>1 DEF Answered
<1>2. ASSUME NEW a, values' = values, prepared' = prepared, c.ask \notin Writes \/ Failed(a)
      PROVE  Effects(c, a, values, prepared, values', prepared')
  BY <1>2 DEF Effects
<1>3. CASE PeerAnswersTable
  <2>1. c.ask \in Tables /\ sent /\ values' = values /\ prepared' = prepared
    BY <1>3 DEF PeerAnswersTable, Asked, Tables
  <2>2. PICK a \in TableAnswers(c) : HandleHead(a)
    BY <1>3 DEF PeerAnswersTable
  <2>3. AnswerOK(c, a)
    BY TableAnswer
  <2>4. c.ask \notin {"read", "blob", "prepare"} /\ c.ask \notin Writes
    BY <2>1 DEF Tables, Writes
  <2>5. Given(c, a)
    BY <2>4, OtherGiven
  <2>6. Tells(c, procs[c.proc], a)
    <3>1. c.proc \in DOMAIN procs
      BY <1>0, <2>1, HeadProc DEF ChannelInv
    <3> QED BY <3>1, TableTells
  <2> QED BY <1>1, <1>2, <2>1, <2>2, <2>3, <2>4, <2>5, <2>6
<1>4. CASE PeerAnswersOther
  <2> PICK a : a = Answer("ok", <<>>)
    OBVIOUS
  <2>1. c.ask \in {"resolve", "single"} /\ sent /\ values' = values /\ prepared' = prepared
    BY <1>4 DEF PeerAnswersOther, Asked
  <2>2. HandleHead(a)
    BY <1>4 DEF PeerAnswersOther
  <2>3. AnswerOK(c, a)
    BY EmptyAnswer
  <2>4. Given(c, a)
    BY <2>1, OtherGiven
  <2>5. c.ask \notin Writes /\ c.ask \notin Tables
    BY <2>1 DEF Writes, Tables
  <2> QED BY <1>1, <1>2, <2>1, <2>2, <2>3, <2>4, <2>5, OtherTells
<1>5. CASE PeerAnswersRead
  <2>1. c.ask \in {"read", "blob"} /\ sent /\ values' = values /\ prepared' = prepared
    BY <1>5 DEF PeerAnswersRead, Asked
  <2> PICK a : a = PartAnswer(c, values[c.from])
    OBVIOUS
  <2>2. HandleHead(a)
    BY <1>5 DEF PeerAnswersRead, PartAnswer
  <2>3. AnswerOK(c, a) /\ c.ask \notin Tables
    <3>1. c.ask \notin Tables
      BY <2>1 DEF Tables
    <3> QED BY <3>1, OtherAnswer
  <2>4. queue # <<>>
    BY <1>0, <2>1 DEF ChannelInv
  <2>5. PICK pr : HeadHas(c, pr)
    BY <1>0, <2>4, HeadKnown
  <2>6. Given(c, a)
    BY <1>0, <2>1, <2>5, ReadGiven
  <2>7. c.ask \notin Writes
    BY <2>1 DEF Writes
  <2> QED BY <1>1, <1>2, <2>1, <2>2, <2>3, <2>6, <2>7, OtherTells
<1>6. CASE PeerAnswersWrite
  <2> PICK a : a = Answer("ok", <<>>)
    OBVIOUS
  <2>1. c.ask = "write" /\ sent /\ prepared' = prepared
    BY <1>6 DEF PeerAnswersWrite, Asked
  <2>2. HandleHead(a) /\ values' = Write(values, c)
    BY <1>6 DEF PeerAnswersWrite, Written, Write
  <2>3. AnswerOK(c, a)
    BY EmptyAnswer
  <2>4. Given(c, a)
    BY <2>1, OtherGiven
  <2>5. a.status = "ok"
    BY AnswerIs
  <2>6. Effects(c, a, values, prepared, values', prepared')
    BY <2>1, <2>2, <2>5 DEF Effects
  <2>7. c.ask \notin Tables
    BY <2>1 DEF Tables
  <2> QED BY <1>1, <2>1, <2>2, <2>3, <2>4, <2>6, <2>7, OtherTells
<1>7. CASE PeerAnswersPrepare
  <2> PICK d : d = c.data
    OBVIOUS
  <2> PICK a : a = Answer("ok", d)
    OBVIOUS
  <2>1. c.ask = "prepare" /\ sent /\ values' = values
    BY <1>7 DEF PeerAnswersPrepare, Asked
  <2>2. HandleHead(a) /\ prepared' = Append(prepared, c)
    BY <1>7 DEF PeerAnswersPrepare
  <2>3. AnswerOK(c, a) /\ c.ask \notin Tables
    <3>1. c.ask \notin Tables
      BY <2>1 DEF Tables
    <3> QED BY <3>1, OtherAnswer
  <2>4. a.status = "ok" /\ a.items = d
    BY AnswerIs
  <2>5. Given(c, a)
    BY <2>1, <2>4, PrepareGiven
  <2>6. Effects(c, a, values, prepared, values', prepared')
    BY <2>1, <2>2, <2>4 DEF Effects
  <2> QED BY <1>1, <2>1, <2>2, <2>3, <2>5, <2>6, OtherTells
<1>8. CASE PeerAnswersExecute
  <2> PICK a : a = Answer("ok", <<>>)
    OBVIOUS
  <2>1. c.ask = "execute" /\ sent /\ prepared' = <<>>
    BY <1>8 DEF PeerAnswersExecute, Asked
  <2>2. HandleHead(a) /\ values' = Executed
    BY <1>8 DEF PeerAnswersExecute
  <2>3. AnswerOK(c, a)
    BY EmptyAnswer
  <2>4. Given(c, a)
    BY <2>1, OtherGiven
  <2>5. PICK n \in Nat : n = Len(prepared)
    BY <1>0, SequenceFacts DEF PreparedOK
  <2>6. PICK f : Execution(f, values, prepared, n) /\ Executed = f[n]
    BY <2>5, ExecutedIs
  <2>7. Executes(values, prepared, values')
    BY <2>2, <2>5, <2>6 DEF Executes
  <2>8. a.status = "ok"
    BY AnswerIs
  <2>9. Effects(c, a, values, prepared, values', prepared')
    BY <2>1, <2>7, <2>8 DEF Effects
  <2>10. c.ask \notin Tables
    BY <2>1 DEF Tables
  <2> QED BY <1>1, <2>1, <2>2, <2>3, <2>4, <2>9, <2>10, OtherTells
<1>9. CASE PeerRefuses
  <2> PICK status : status = "error"
    OBVIOUS
  <2> PICK a : a = Answer(status, <<>>)
    OBVIOUS
  <2>1. sent /\ values' = values /\ prepared' = IF c.ask = "execute" THEN <<>> ELSE prepared
    BY <1>9 DEF PeerRefuses
  <2>2. HandleHead(a)
    BY <1>9 DEF PeerRefuses
  <2>3. AnswerOK(c, a)
    BY EmptyAnswer
  <2>4. Given(c, a)
    BY FailedGiven
  <2>5. Failed(a) /\ a.status \notin {"ok", "not_found"}
    BY AnswerIs DEF Failed
  <2>6. Effects(c, a, values, prepared, values', prepared')
    BY <2>1, <2>5 DEF Effects
  <2> QED BY <1>1, <2>1, <2>2, <2>3, <2>4, <2>5, <2>6, OtherTells
<1>10. CASE PeerGarbles
  <2> PICK a : a = Answer("garbled", <<>>)
    OBVIOUS
  <2>1. /\ c.ask \in {"primary", "primary_uuid", "include", "resolve", "char"}
        /\ sent /\ values' = values /\ prepared' = prepared
    BY <1>10 DEF PeerGarbles, Asked
  <2>2. HandleHead(a)
    BY <1>10 DEF PeerGarbles
  <2>3. AnswerOK(c, a)
    BY EmptyAnswer
  <2>4. Given(c, a)
    BY <2>1, OtherGiven
  <2>5. c.ask \notin Writes
    BY <2>1 DEF Writes
  <2>6. a.status \notin {"ok", "not_found"}
    BY AnswerIs
  <2> QED BY <1>1, <1>2, <2>1, <2>2, <2>3, <2>4, <2>5, <2>6, OtherTells
<1>11. CASE Expire
  <2> PICK status : status = "timeout"
    OBVIOUS
  <2> PICK a : a = Answer(status, <<>>)
    OBVIOUS
  <2>1. sent /\ values' = values /\ prepared' = prepared /\ HandleHead(a)
    BY <1>11 DEF Expire
  <2>2. AnswerOK(c, a) /\ Given(c, a)
    BY EmptyAnswer, FailedGiven
  <2>3. Failed(a) /\ a.status \notin {"ok", "not_found"}
    BY AnswerIs DEF Failed
  <2> QED BY <1>1, <1>2, <2>1, <2>2, <2>3, OtherTells
<1> QED BY <1>3, <1>4, <1>5, <1>6, <1>7, <1>8, <1>9, <1>10, <1>11 DEF Completes

LEMMA AbortAnswered ==
    ASSUME Abort
    PROVE  \E a : Answered(a)
<1> PICK c : c = queue[1]
  OBVIOUS
<1> PICK status : status = "aborted"
  OBVIOUS
<1> PICK a : a = Answer(status, <<>>)
  OBVIOUS
<1>1. queue # <<>> /\ values' = values /\ prepared' = prepared /\ HandleHead(a)
  BY DEF Abort
<1>2. AnswerOK(c, a) /\ Given(c, a)
  BY EmptyAnswer, FailedGiven
<1>3. Failed(a) /\ a.status \notin {"ok", "not_found"}
  BY AnswerIs DEF Failed
<1>4. Effects(c, a, values, prepared, values', prepared')
  BY <1>1, <1>3 DEF Effects
<1> QED BY <1>1, <1>2, <1>3, <1>4, OtherTells DEF Answered

LEMMA EffectsOK ==
    ASSUME NEW vs, NEW pp, ValuesOK(vs), PreparedOK(pp), NEW c, NEW pr, HeadHas(c, pr),
           NEW a, NEW vs2, NEW pp2, Effects(c, a, vs, pp, vs2, pp2)
    PROVE  ValuesOK(vs2) /\ PreparedOK(pp2)
<1>1. c.ask \in {"write", "prepare"} => c.to \in Nat /\ Piece(c.data, c.to)
  BY DEF HeadHas, Carried, Places
<1>2. CASE c.ask = "write" /\ vs2 = Write(vs, c) /\ pp2 = pp
  BY <1>1, <1>2, WriteOK
<1>3. CASE c.ask = "prepare" /\ vs2 = vs /\ pp2 = Append(pp, c)
  BY <1>1, <1>3, PreparedOne
<1>4. CASE Executes(vs, pp, vs2) /\ pp2 = <<>>
  <2>1. PICK n \in Nat : \E f : n = Len(pp) /\ Execution(f, vs, pp, n) /\ vs2 = f[n]
    BY <1>4 DEF Executes
  <2>2. PICK f : n = Len(pp) /\ Execution(f, vs, pp, n) /\ vs2 = f[n]
    BY <2>1
  <2>3. \A k \in 0..n : ValuesOK(f[k])
    BY <2>2, ExecutionOK
  <2>4. ValuesOK(vs2)
    BY <2>2, <2>3
  <2> QED BY <1>4, <2>4, NothingPrepared
<1>5. CASE vs2 = vs /\ (pp2 = pp \/ pp2 = <<>>)
  BY <1>5, NothingPrepared
<1> QED BY <1>2, <1>3, <1>4, <1>5 DEF Effects

LEMMA AnsweredData ==
    ASSUME GattInv, ReadInv, NEW a, Answered(a)
    PROVE  ReadInv'
<1>0. QueueInv /\ DataOK(queue, procs) /\ ValuesOK(values) /\ PreparedOK(prepared)
  BY DEF GattInv, ReadInv
<1>1. /\ queue # <<>> /\ AnswerOK(queue[1], a) /\ Given(queue[1], a) /\ HandleHead(a)
      /\ Effects(queue[1], a, values, prepared, values', prepared')
  BY DEF Answered
<1>2. DataOK(queue', procs')
  BY <1>0, <1>1, HeadActionData
<1>3. PICK pr : HeadHas(queue[1], pr)
  BY <1>0, <1>1, HeadKnown
<1>4. ValuesOK(values') /\ PreparedOK(prepared')
  BY <1>0, <1>1, <1>3, EffectsOK
<1> QED BY <1>2, <1>4 DEF ReadInv

LEMMA CancelData ==
    ASSUME GattInv, ReadInv, NEW p \in DOMAIN procs, Cancel(p)
    PROVE  ReadInv'
<1> PICK q, ps : q = queue /\ ps = procs
  OBVIOUS
<1> PICK q2, ps2 : q2 = queue' /\ ps2 = procs'
  OBVIOUS
<1>1. PICK i \in DOMAIN queue :
         /\ queue[i].proc = p /\ queue[i].own /\ queue[i].func
         /\ LET pr == [procs[p] EXCEPT !.muted = TRUE] IN
            IF i = 1 /\ sent
            THEN /\ queue' = [queue EXCEPT ![1].func = FALSE]
                 /\ procs' = [procs EXCEPT ![p] = pr]
            ELSE /\ queue' = SubSeq(queue, 1, i - 1) \o SubSeq(queue, i + 1, Len(queue))
                 /\ procs' = [procs EXCEPT ![p] = Notify(queue[i], pr)]
  BY DEF Cancel
<1>2. QueueOK(q, ps) /\ DataOK(q, ps) /\ ValuesOK(values) /\ PreparedOK(prepared)
  BY DEF GattInv, QueueInv, QueueOK, ReadInv
<1>3. i \in DOMAIN q /\ q[i].own /\ q[i].proc = p /\ values' = values /\ prepared' = prepared
  BY <1>1 DEF Cancel
<1>4. DataOK(q2, ps2)
  <2>1. CASE i = 1 /\ sent
    <3>1. q2 = [q EXCEPT ![1] = Cleared(q[1])]
      BY <1>1, <2>1 DEF Cleared
    <3>2. ps2 = [ps EXCEPT ![p] = Muted(ps[p])]
      BY <1>1, <2>1 DEF Muted
    <3>3. CancelsSent(q, ps, q2, ps2)
      BY <1>3, <2>1, <3>1, <3>2 DEF CancelsSent
    <3> QED BY <1>2, <1>3, <2>1, <3>3, CancelSentData
  <2>2. CASE ~ (i = 1 /\ sent)
    <3>1. q2 = SubSeq(q, 1, i - 1) \o SubSeq(q, i + 1, Len(q))
      BY <1>1, <2>2
    <3>2. ps2 = [ps EXCEPT ![p] = Notify(q[i], Muted(ps[p]))]
      BY <1>1, <2>2 DEF Muted
    <3>3. CancelsWaiting(q, ps, i, q2, ps2)
      BY <1>3, <3>1, <3>2 DEF CancelsWaiting
    <3> QED BY <1>2, <1>3, <3>3, CancelWaitingData
  <2> QED BY <2>1, <2>2
<1>5. DataOK(queue', procs') /\ ValuesOK(values') /\ PreparedOK(prepared')
  BY <1>2, <1>3, <1>4
<1> QED BY <1>5 DEF ReadInv

(* What a procedure holds, and its first command, as the application begins.   *)
LEMMA BytesPiece ==
    ASSUME NEW n \in Nat, NEW v, Bytes(v, n)
    PROVE  Piece(v, 0) /\ Len(v) = n
<1> PICK x : v = [i \in 1..n |-> <<x, i>>]
  BY DEF Bytes
<1>1. Sequence(v) /\ Len(v) = n
  BY FunctionSequence
<1>2. DOMAIN v = 1..n
  OBVIOUS
<1>3. ASSUME NEW i \in 1..n PROVE v[i][2] = 0 + i
  <2>1. v[i] = <<x, i>> /\ 0 + i = i
    OBVIOUS
  <2>2. <<x, i>>[2] = i
    OBVIOUS
  <2> QED BY <2>1, <2>2
<1> QED BY <1>1, <1>2, <1>3 DEF Piece

LEMMA BringsHolds ==
    ASSUME NEW pr, NEW c, Brings(pr, c), Belongs(c.ask, pr), pr.reported = <<>>
    PROVE  Holds(pr) /\ Carried(c, pr)
<1>1. CASE pr.kind = "read"
  <2>1. pr.handle \in DOMAIN ValueLen /\ c.from = pr.handle /\ c.to = 0 /\ pr.found = <<>>
    BY <1>1 DEF Brings
  <2>2. Len(<<>>) = 0 /\ ValueLen[pr.handle] \in Nat
    BY <2>1, LimitsAssumption
  <2>3. Len(pr.found) = 0 /\ Len(pr.found) <= ValueLen[pr.handle]
    BY <2>1, <2>2
  <2>4. Reading(pr)
    BY <2>1, <2>3, EmptyPiece DEF Reading
  <2>5. c.ask \in {"read", "blob"}
    BY <1>1 DEF Belongs, Discoveries
  <2>6. Carried(c, pr)
    BY <2>1, <2>3, <2>5 DEF Carried
  <2> QED BY <1>1, <2>4, <2>6 DEF Holds
<1>2. CASE pr.kind = "write"
  <2>1. /\ pr.offset = 0 /\ pr.handle \in DOMAIN ValueLen
        /\ \/ c.ask = "write" /\ c.from = pr.handle /\ c.to = 0 /\ c.data = pr.value
           \/ \E p : c = prepare_write(p, pr)
    BY <1>2 DEF Brings
  <2>2. PICK n \in WriteLens : Bytes(pr.value, n)
    BY <1>2 DEF Brings
  <2>3. Piece(pr.value, 0) /\ Len(pr.value) = n /\ n \in Nat
    BY <2>2, BytesPiece, LimitsAssumption
  <2>4. Holds(pr)
    BY <1>2, <2>1, <2>3 DEF Holds, Fits
  <2>5. CASE c.ask = "write" /\ c.from = pr.handle /\ c.to = 0 /\ c.data = pr.value
    <3>1. \A i \in DOMAIN c.data : 0 + i = i
      BY <2>3, <2>5, SequenceFacts DEF Piece
    <3>2. 0 + Len(c.data) <= Len(pr.value)
      BY <2>3, <2>5
    <3>3. Places(c, pr)
      BY <2>3, <2>5, <3>1, <3>2 DEF Places
    <3> QED BY <2>4, <2>5, <3>3 DEF Carried
  <2>6. CASE \E p : c = prepare_write(p, pr)
    BY <1>2, <2>4, <2>6, PartCarried
  <2> QED BY <2>1, <2>4, <2>5, <2>6
<1>3. CASE pr.kind \notin {"read", "write"}
  <2>1. c.ask \notin {"read", "blob", "write", "prepare", "execute"}
    BY <1>3 DEF Belongs, Discoveries
  <2> QED BY <1>3, <2>1 DEF Holds, Carried
<1> QED BY <1>1, <1>2, <1>3

LEMMA RefusedData ==
    ASSUME NEW pr, DOMAIN pr = ProcFields, Holds(pr), pr.reported = <<>>, NEW x, x = Refused(pr)
    PROVE  Holds(x)
<1> PICK y : y = (HasObject(pr) /\ pr.kind # "read")
  OBVIOUS
<1>1. x = [pr EXCEPT !.refused = TRUE, !.held = y]
  BY DEF Refused
<1>2. /\ x.kind = pr.kind /\ x.handle = pr.handle /\ x.value = pr.value /\ x.found = pr.found
      /\ x.offset = pr.offset /\ x.reported = pr.reported
  BY <1>1 DEF ProcFields
<1> QED BY <1>2 DEF Holds, Reading, Fits

LEMMA AcceptedData ==
    ASSUME NEW pr, DOMAIN pr = ProcFields, Holds(pr), pr.reported = <<>>, NEW x, x = Accepted(pr),
           NEW c, DOMAIN c = CommandFields, Carried(c, pr), NEW d, d = Own(c)
    PROVE  Holds(x) /\ Carried(d, x) /\ d.proc = c.proc
<1> PICK y : y = HasObject(pr)
  OBVIOUS
<1>1. x = [pr EXCEPT !.held = y]
  BY DEF Accepted
<1>2. /\ x.kind = pr.kind /\ x.handle = pr.handle /\ x.value = pr.value /\ x.found = pr.found
      /\ x.offset = pr.offset /\ x.reported = pr.reported
  BY <1>1 DEF ProcFields
<1>3. d.proc = c.proc /\ d.ask = c.ask /\ d.from = c.from /\ d.to = c.to /\ d.data = c.data
  BY DEF Own, CommandFields
<1>4. Carried(d, x)
  <2>1. Places(c, pr) => Places(d, x)
    BY <1>2, <1>3 DEF Places
  <2> QED BY <1>2, <1>3, <2>1 DEF Carried
<1>5. Holds(x)
  BY <1>2 DEF Holds, Reading, Fits
<1> QED BY <1>3, <1>4, <1>5

LEMMA StartsData ==
    ASSUME GattInv, ReadInv, Starts
    PROVE  ReadInv'
<1> PICK q, ps : q = queue /\ ps = procs
  OBVIOUS
<1> PICK q2, ps2 : q2 = queue' /\ ps2 = procs'
  OBVIOUS
<1>0. QueueOK(q, ps) /\ DataOK(q, ps) /\ ValuesOK(values) /\ PreparedOK(prepared)
  BY DEF GattInv, QueueInv, QueueOK, ReadInv
<1> PICK pr, c : Starting(pr, c)
  BY StartsBegin
<1> PICK m : m = Len(ps)
  OBVIOUS
<1>1. Begin(pr, c) /\ Fresh(pr, c, m + 1) /\ Brings(pr, c)
  BY DEF Starting
<1>2. /\ DOMAIN pr = ProcFields /\ pr.reported = <<>> /\ Belongs(c.ask, pr)
      /\ DOMAIN c = CommandFields /\ c.proc = m + 1
  BY <1>1 DEF Fresh
<1>3. Holds(pr) /\ Carried(c, pr)
  BY <1>1, <1>2, BringsHolds
<1>4. values' = values /\ prepared' = prepared
  BY <1>1 DEF Begin
<1>5. DataOK(q2, ps2)
  <2>1. CASE channel = "stale"
    <3> PICK x : x = Refused(pr)
      OBVIOUS
    <3> PICK s : s = <<>>
      OBVIOUS
    <3>1. ps2 = Append(ps, x) /\ q2 = q
      BY <1>1, <2>1 DEF Begin, Refused
    <3>2. Holds(x)
      BY <1>2, <1>3, RefusedData
    <3>3. Left(x, s)
      BY <3>2, LeftAlone
    <3>4. Sequence(s) /\ q \o s = q
      <4>1. Sequence(q)
        BY <1>0 DEF QueueOK
      <4> QED BY <4>1, EmptySequence, ConcatEmptySeq DEF Sequence
    <3>5. \A i \in DOMAIN s : s[i].proc = m + 1
      <4>1. DOMAIN s = {}
        OBVIOUS
      <4> QED BY <4>1
    <3>6. DataOK(q \o s, Append(ps, x))
      BY <1>0, <3>3, <3>4, <3>5, BeginData
    <3> QED BY <3>1, <3>4, <3>6
  <2>2. CASE channel # "stale"
    <3> PICK x : x = Accepted(pr)
      OBVIOUS
    <3> PICK d : d = Own(c)
      OBVIOUS
    <3> PICK s : s = <<d>>
      OBVIOUS
    <3>1. ps2 = Append(ps, x) /\ q2 = Append(q, d)
      BY <1>1, <2>2 DEF Begin, Accepted
    <3>2. Holds(x) /\ Carried(d, x) /\ d.proc = m + 1
      BY <1>2, <1>3, AcceptedData
    <3>3. Left(x, s)
      BY <3>2, LeftOne
    <3>4. Sequence(s) /\ DOMAIN s = {1} /\ s[1] = d /\ Append(q, d) = q \o s
      <4>1. Sequence(q)
        BY <1>0 DEF QueueOK
      <4> QED BY <4>1, SequenceOne, SequenceAppend
    <3>5. \A i \in DOMAIN s : s[i].proc = m + 1
      BY <3>2, <3>4
    <3>6. DataOK(q \o s, Append(ps, x))
      BY <1>0, <3>3, <3>4, <3>5, BeginData
    <3> QED BY <3>1, <3>4, <3>6
  <2> QED BY <2>1, <2>2
<1>6. DataOK(queue', procs') /\ ValuesOK(values') /\ PreparedOK(prepared')
  BY <1>0, <1>4, <1>5
<1> QED BY <1>6 DEF ReadInv

LEMMA ReadInit == Init => ReadInv
<1> SUFFICES ASSUME Init PROVE ReadInv
  OBVIOUS
<1>1. DOMAIN <<>> = {}
  OBVIOUS
<1>2. DataOK(queue, procs)
  <2>1. queue = <<>> /\ procs = <<>>
    BY DEF Init
  <2> QED BY <1>1, <2>1 DEF DataOK, Carries, AllHold
<1>3. ValuesOK(values)
  <2>1. values = [h \in DOMAIN ValueLen |-> [i \in 1..ValueLen[h] |-> <<0, i>>]]
    BY DEF Init
  <2>2. DOMAIN values = DOMAIN ValueLen
    BY <2>1
  <2>3. ASSUME NEW h \in DOMAIN ValueLen PROVE Piece(values[h], 0) /\ Len(values[h]) = ValueLen[h]
    <3> PICK n \in Nat : n = ValueLen[h]
      BY LimitsAssumption
    <3> PICK v : v = values[h]
      OBVIOUS
    <3>1. Bytes(v, n)
      <4>1. v = [i \in 1..n |-> <<0, i>>]
        BY <2>1
      <4> QED BY <4>1 DEF Bytes
    <3>2. Piece(v, 0) /\ Len(v) = n
      BY <3>1, BytesPiece
    <3> QED BY <3>2
  <2> QED BY <2>2, <2>3 DEF ValuesOK
<1>4. PreparedOK(prepared)
  <2>1. prepared = <<>>
    BY DEF Init
  <2> QED BY <2>1, NothingPrepared
<1> QED BY <1>2, <1>3, <1>4 DEF ReadInv

LEMMA ReadUnchanged ==
    ASSUME ReadInv, queue' = queue, procs' = procs, values' = values, prepared' = prepared
    PROVE  ReadInv'
<1>1. DataOK(queue, procs) /\ ValuesOK(values) /\ PreparedOK(prepared)
  BY DEF ReadInv
<1>2. DataOK(queue', procs') /\ ValuesOK(values') /\ PreparedOK(prepared')
  BY <1>1
<1> QED BY <1>2 DEF ReadInv

LEMMA ReadStep == GattInv /\ ReadInv /\ [Next]_vars => ReadInv'
<1> SUFFICES ASSUME GattInv, ReadInv, [Next]_vars PROVE ReadInv'
  OBVIOUS
<1>1. CASE Starts
  BY <1>1, StartsData
<1>2. CASE \E p \in DOMAIN procs : Cancel(p)
  BY <1>2, CancelData
<1>3. CASE Transmit
  BY <1>3, ReadUnchanged DEF Transmit
<1>4. CASE Completes
  BY <1>4, CompletesAnswered, AnsweredData
<1>5. CASE Abort
  BY <1>5, AbortAnswered, AnsweredData
<1>6. CASE Close
  BY <1>6, ReadUnchanged DEF Close
<1>7. CASE UNCHANGED vars
  BY <1>7, ReadUnchanged DEF vars
<1>8. CASE WriteFails \/ ReadFails
  BY <1>8, ReadUnchanged DEF WriteFails, ReadFails
<1> QED BY <1>1, <1>2, <1>3, <1>4, <1>5, <1>6, <1>7, <1>8 DEF Next

LEMMA ReadInvOrder == ReadInv => ReadInOrder
<1> SUFFICES ASSUME ReadInv, NEW p \in DOMAIN procs,
                    procs[p].kind = "read", procs[p].reported # <<>>
             PROVE  LET data == procs[p].reported[1].data IN
                    /\ \A i \in DOMAIN data : data[i][2] = i
                    /\ ~ procs[p].flawed => Len(data) = ValueLen[procs[p].handle]
  BY DEF ReadInOrder
<1> PICK pr : pr = procs[p]
  OBVIOUS
<1> PICK data : data = pr.reported[1].data
  OBVIOUS
<1>1. Holds(pr)
  BY DEF ReadInv, DataOK, AllHold
<1>2. Piece(data, 0) /\ (~ pr.flawed => Len(data) = ValueLen[pr.handle])
  BY <1>1 DEF Holds, ReportedOK
<1>3. ASSUME NEW i \in DOMAIN data PROVE data[i][2] = i
  <2>1. data[i][2] = 0 + i
    BY <1>2 DEF Piece
  <2>2. i \in Nat
    BY <1>2, SequenceFacts DEF Piece
  <2>3. 0 + i = i
    BY <2>2
  <2> QED BY <2>1, <2>3
<1> QED BY <1>2, <1>3

(* A read reports the bytes of the value in their places, without a gap or a      *)
(* repetition, whatever else is read, written, refused or cancelled meanwhile,   *)
(* and the whole value if no part of it was refused (ReadInOrder). *)
THEOREM ReadsInOrder == Spec => []ReadInOrder
<1>1. Init => GattInv /\ ReadInv
  BY InvInit, ReadInit
<1>2. (GattInv /\ ReadInv) /\ [Next]_vars => (GattInv /\ ReadInv)'
  BY InvStep, ReadStep
<1>3. GattInv /\ ReadInv => ReadInOrder
  BY ReadInvOrder
<1> QED BY <1>1, <1>2, <1>3, PTL DEF Spec

----------------------------------------------------------------------------
(* What is written.  A byte is put where it belongs by the last of the prepared  *)
(* writes that reach its place.                                             *)

Reaches(c, h, i) == c.from = h /\ i - c.to \in DOMAIN c.data
Puts(c, h, i, x) == Reaches(c, h, i) /\ c.data[i - c.to] = x

LastPut(pp, h, i, x) ==
    \E j \in DOMAIN pp :
        Puts(pp[j], h, i, x) /\ \A k \in DOMAIN pp : k > j => ~ Reaches(pp[k], h, i)

LEMMA PutLast ==
    ASSUME NEW pp, Sequence(pp), NEW c, NEW h, NEW i, NEW x, Puts(c, h, i, x)
    PROVE  LastPut(Append(pp, c), h, i, x)
<1> PICK n \in Nat : n = Len(pp) /\ DOMAIN pp = 1..n
  BY SequenceFacts
<1> PICK p2 : p2 = Append(pp, c)
  OBVIOUS
<1>1. DOMAIN p2 = 1..(n + 1) /\ p2[n + 1] = c
  BY DEF Sequence
<1>2. n + 1 \in DOMAIN p2 /\ \A k \in DOMAIN p2 : ~ (k > n + 1)
  BY <1>1
<1>3. LastPut(p2, h, i, x)
  BY <1>1, <1>2 DEF LastPut
<1> QED BY <1>3

LEMMA PutStays ==
    ASSUME NEW pp, Sequence(pp), NEW c, NEW h, NEW i, NEW x, LastPut(pp, h, i, x), ~ Reaches(c, h, i)
    PROVE  LastPut(Append(pp, c), h, i, x)
<1> PICK n \in Nat : n = Len(pp) /\ DOMAIN pp = 1..n
  BY SequenceFacts
<1> PICK p2 : p2 = Append(pp, c)
  OBVIOUS
<1>1. DOMAIN p2 = 1..(n + 1) /\ p2[n + 1] = c /\ \A k \in 1..n : p2[k] = pp[k]
  BY DEF Sequence
<1>2. PICK j \in DOMAIN pp :
         Puts(pp[j], h, i, x) /\ \A k \in DOMAIN pp : k > j => ~ Reaches(pp[k], h, i)
  BY DEF LastPut
<1>3. j \in DOMAIN p2 /\ p2[j] = pp[j]
  BY <1>1
<1>4. ASSUME NEW k \in DOMAIN p2, k > j PROVE ~ Reaches(p2[k], h, i)
  <2>1. CASE k = n + 1
    BY <1>1, <2>1
  <2>2. CASE k # n + 1
    <3>1. k \in 1..n
      BY <1>1, <2>2
    <3> QED BY <1>1, <1>2, <1>4, <3>1
  <2> QED BY <2>1, <2>2
<1>5. LastPut(p2, h, i, x)
  BY <1>2, <1>3, <1>4 DEF LastPut
<1> QED BY <1>5

(* A write that reaches a place puts a byte there, others leave it.            *)
Place(h, i) == h \in DOMAIN ValueLen /\ i \in 1..ValueLen[h]

LEMMA OverlayAt ==
    ASSUME NEW v, NEW o, NEW d, NEW i \in DOMAIN v
    PROVE  Overlay(v, o, d)[i] = IF i - o \in DOMAIN d THEN d[i - o] ELSE v[i]
  BY DEF Overlay

LEMMA WriteAt ==
    ASSUME NEW vs, ValuesOK(vs), NEW c, NEW h, NEW i, Place(h, i)
    PROVE  Write(vs, c)[h][i] = IF Reaches(c, h, i) THEN c.data[i - c.to] ELSE vs[h][i]
<1> PICK e : e = c.from
  OBVIOUS
<1> PICK o : o = c.to
  OBVIOUS
<1> PICK d : d = c.data
  OBVIOUS
<1> PICK v : v = vs[h]
  OBVIOUS
<1> PICK w : w = Overlay(vs[e], o, d)
  OBVIOUS
<1> PICK vs2 : vs2 = Write(vs, c)
  OBVIOUS
<1>1. vs2 = [vs EXCEPT ![e] = w]
  BY DEF Write
<1>2. h \in DOMAIN vs /\ i \in DOMAIN v
  <2>1. Piece(v, 0) /\ Len(v) = ValueLen[h] /\ h \in DOMAIN vs
    BY DEF ValuesOK, Place
  <2> QED BY <2>1, SequenceFacts DEF Piece, Place
<1>3. CASE e = h
  <2>1. vs2[h] = w /\ vs[e] = v
    BY <1>1, <1>2, <1>3
  <2>2. w[i] = IF i - o \in DOMAIN d THEN d[i - o] ELSE v[i]
    BY <1>2, <2>1, OverlayAt
  <2> QED BY <1>3, <2>1, <2>2 DEF Reaches
<1>4. CASE e # h
  <2>1. vs2[h] = v
    BY <1>1, <1>2, <1>4
  <2> QED BY <1>4, <2>1 DEF Reaches
<1> QED BY <1>3, <1>4

LEMMA WritePuts ==
    ASSUME NEW vs, ValuesOK(vs), NEW c, NEW h, NEW i, Place(h, i), NEW x, Puts(c, h, i, x)
    PROVE  Write(vs, c)[h][i] = x
<1>1. Reaches(c, h, i) /\ c.data[i - c.to] = x
  BY DEF Puts
<1> PICK y : y = c.data[i - c.to]
  OBVIOUS
<1> PICK z : z = Write(vs, c)[h][i]
  OBVIOUS
<1>2. z = IF Reaches(c, h, i) THEN y ELSE vs[h][i]
  BY WriteAt
<1> QED BY <1>1, <1>2

LEMMA WriteLeaves ==
    ASSUME NEW vs, ValuesOK(vs), NEW c, NEW h, NEW i, Place(h, i), ~ Reaches(c, h, i)
    PROVE  Write(vs, c)[h][i] = vs[h][i]
  BY WriteAt

(* So it holds x there once all are executed.                                *)
LEMMA LastExecuted ==
    ASSUME NEW vs, NEW pp, ValuesOK(vs), PreparedOK(pp), NEW n \in Nat, n = Len(pp),
           NEW f, Execution(f, vs, pp, n), NEW h, NEW i, Place(h, i), NEW x, LastPut(pp, h, i, x)
    PROVE  f[n][h][i] = x
<1>1. DOMAIN pp = 1..n
  BY SequenceFacts DEF PreparedOK
<1>2. PICK j \in 1..n :
         Puts(pp[j], h, i, x) /\ \A k \in 1..n : k > j => ~ Reaches(pp[k], h, i)
  BY <1>1 DEF LastPut
<1>3. \A k \in 1..n : f[k] = Write(f[k - 1], pp[k])
  BY DEF Execution
<1>4. \A k \in 0..n : ValuesOK(f[k])
  BY ExecutionOK
<1> DEFINE T == {k \in j..n : f[k][h][i] # x}
<1>5. ASSUME T # {} PROVE FALSE
  <2>1. PICK k \in T : \A m \in T : k <= m
    <3>1. T \subseteq Nat
      OBVIOUS
    <3> HIDE DEF T
    <3> QED BY <1>5, <3>1, LeastNumber
  <2>2. k \in j..n /\ f[k][h][i] # x /\ k \in 1..n /\ k - 1 \in 0..n
    OBVIOUS
  <2> PICK m \in Nat : m = k - 1
    BY <2>2
  <2> PICK g : g = f[m]
    OBVIOUS
  <2> PICK c : c = pp[k]
    OBVIOUS
  <2>3. f[k] = Write(g, c) /\ ValuesOK(g)
    BY <1>3, <1>4, <2>2
  <2>4. CASE k = j
    <3>1. Puts(c, h, i, x)
      BY <1>2, <2>4
    <3>2. Write(g, c)[h][i] = x
      BY <2>3, <3>1, WritePuts
    <3> QED BY <2>2, <2>3, <3>2
  <2>5. CASE k # j
    <3>1. k > j /\ m \in j..n /\ ~ (k <= m)
      BY <2>2, <2>5
    <3>2. ~ Reaches(c, h, i)
      BY <1>2, <2>2, <3>1
    <3>3. m \notin T
      BY <2>1, <3>1
    <3>4. g[h][i] = x
      BY <3>1, <3>3
    <3>5. Write(g, c)[h][i] = g[h][i]
      BY <2>3, <3>2, WriteLeaves
    <3> QED BY <2>2, <2>3, <3>4, <3>5
  <2> QED BY <2>4, <2>5
<1>6. n \in j..n
  OBVIOUS
<1> QED BY <1>5, <1>6

(* What was written of a value so far is put where it belongs.                 *)
Covered(pp, pr) == \A i \in 1..pr.offset : LastPut(pp, pr.handle, i, pr.value[i])

LEMMA CoveredMore ==
    ASSUME NEW pp, Sequence(pp), NEW pr, Fits(pr), Covered(pp, pr),
           NEW c, Places(c, pr), c.to = pr.offset,
           NEW r, r.handle = pr.handle, r.value = pr.value, r.offset = pr.offset + Len(c.data)
    PROVE  Covered(Append(pp, c), r)
<1> PICK h : h = pr.handle
  OBVIOUS
<1> PICK v : v = pr.value
  OBVIOUS
<1> PICK d : d = c.data
  OBVIOUS
<1> PICK o \in Nat : o = pr.offset
  BY DEF Fits
<1> PICK m \in Nat : m = Len(d) /\ DOMAIN d = 1..m
  BY SequenceFacts DEF Places, Piece
<1>1. c.from = h /\ c.to = o /\ \A i \in DOMAIN d : d[i] = v[o + i]
  BY DEF Places
<1>2. ASSUME NEW i \in 1..(o + m) PROVE LastPut(Append(pp, c), h, i, v[i])
  <2> PICK j : j = i - c.to
    OBVIOUS
  <2>0. Reaches(c, h, i) <=> j \in DOMAIN d
    BY <1>1 DEF Reaches
  <2>1. CASE i <= o
    <3>1. ~ (j \in 1..m)
      BY <1>1, <2>1
    <3>2. ~ Reaches(c, h, i)
      BY <2>0, <3>1
    <3>3. i \in 1..o
      BY <2>1
    <3>4. LastPut(pp, h, i, v[i])
      BY <3>3 DEF Covered
    <3> QED BY <3>2, <3>4, PutStays
  <2>2. CASE ~ (i <= o)
    <3>1. j \in 1..m /\ o + j = i
      BY <1>1, <2>2
    <3>2. d[j] = v[i]
      BY <1>1, <3>1
    <3>3. Puts(c, h, i, v[i])
      BY <2>0, <3>1, <3>2 DEF Puts
    <3> QED BY <3>3, PutLast
  <2> QED BY <2>1, <2>2
<1>3. r.offset = o + m
  OBVIOUS
<1> QED BY <1>2, <1>3 DEF Covered

----------------------------------------------------------------------------
(* A write that nothing else writes beside, and what was prepared for it.       *)

Writer(pr) == pr.kind = "write" /\ pr.reported = <<>> /\ ~ pr.muted /\ ~ pr.refused /\ ~ pr.beside

Sole(ps, p) == Writer(ps[p]) /\ \A q \in DOMAIN ps : q > p => ps[q].kind # "write"

(* One that began beside no other began after all before it were called back.   *)
Lone(ps) ==
    \A q, p \in DOMAIN ps :
        q < p /\ ps[q].kind = "write" /\ ps[p].kind = "write" /\ ~ ps[p].beside => ps[q].reported # <<>>

AllCovered(ps, pp) == \A p \in DOMAIN ps : Sole(ps, p) => Covered(pp, ps[p])

WriteInv == Lone(procs) /\ AllCovered(procs, prepared)

(* What a step leaves of a procedure.                                        *)
Stays(r, x) ==
    /\ r.kind = x.kind /\ r.handle = x.handle /\ r.value = x.value
    /\ ~ r.muted => ~ x.muted
    /\ ~ r.refused => ~ x.refused
    /\ ~ r.beside => ~ x.beside
    /\ x.reported # <<>> => r.reported # <<>>

LEMMA WriterStays ==
    ASSUME NEW r, NEW x, Stays(r, x), Writer(r)
    PROVE  Writer(x)
  BY DEF Stays, Writer

LEMMA LoneStays ==
    ASSUME NEW ps, Sequence(ps), Lone(ps), NEW p \in DOMAIN ps, NEW r, Stays(r, ps[p]),
           NEW ps2, ps2 = [ps EXCEPT ![p] = r]
    PROVE  /\ Lone(ps2)
           /\ \A y \in DOMAIN ps2 : y \in DOMAIN ps /\ (Sole(ps2, y) => Sole(ps, y))
           /\ ps2[p] = r /\ DOMAIN ps2 = DOMAIN ps /\ \A y \in DOMAIN ps : y # p => ps2[y] = ps[y]
<1>1. DOMAIN ps2 = DOMAIN ps /\ ps2[p] = r /\ \A y \in DOMAIN ps : y # p => ps2[y] = ps[y]
  OBVIOUS
<1>2. \A y \in DOMAIN ps : Stays(ps2[y], ps[y])
  BY <1>1 DEF Stays
<1>3. Lone(ps2)
  <2> SUFFICES ASSUME NEW u \in DOMAIN ps, NEW y \in DOMAIN ps, u < y,
                      ps2[u].kind = "write", ps2[y].kind = "write", ~ ps2[y].beside
               PROVE  ps2[u].reported # <<>>
    BY <1>1 DEF Lone
  <2>1. Stays(ps2[u], ps[u]) /\ Stays(ps2[y], ps[y])
    BY <1>2
  <2>2. ps[u].kind = "write" /\ ps[y].kind = "write" /\ ~ ps[y].beside
    BY <2>1 DEF Stays
  <2>3. ps[u].reported # <<>>
    BY <2>2 DEF Lone
  <2> QED BY <2>1, <2>3 DEF Stays
<1>4. ASSUME NEW y \in DOMAIN ps, Sole(ps2, y) PROVE Sole(ps, y)
  <2>1. Writer(ps[y])
    BY <1>2, <1>4, WriterStays DEF Sole
  <2>2. \A u \in DOMAIN ps : u > y => ps[u].kind # "write"
    BY <1>1, <1>2, <1>4 DEF Sole, Stays
  <2> QED BY <2>1, <2>2 DEF Sole
<1> QED BY <1>1, <1>3, <1>4

(* Only the sole writer has commands of a write in the queue.                  *)
LEMMA SoleWrites ==
    ASSUME NEW q, NEW ps, QueueOK(q, ps), Lone(ps), NEW p \in DOMAIN ps, Sole(ps, p),
           NEW i \in DOMAIN q, NEW c, c = q[i], ps[c.proc].kind = "write"
    PROVE  c.proc = p
<1> PICK u : u = c.proc
  OBVIOUS
<1>1. u \in DOMAIN ps /\ ps[u].kind = "write" /\ Sequence(ps)
  BY CommandKnown
<1>2. ps[u].reported = <<>>
  <2>1. ProcOK(ps[u], Count(q, u)) /\ CommandOK(c, ps[u]) /\ Count(q, u) \in Nat /\ Count(q, u) > 0
    BY CommandKnown
  <2>2. Alive(ps[u])
    BY <2>1, HeadAlive
  <2> QED BY <2>2 DEF Alive
<1>3. u \in Nat /\ p \in Nat
  BY <1>1, SequenceFacts
<1>4. ~ (u > p)
  BY <1>1 DEF Sole
<1>5. ~ (u < p)
  <2>1. ps[p].kind = "write" /\ ~ ps[p].beside
    BY DEF Sole, Writer
  <2> QED BY <1>1, <1>2, <2>1 DEF Lone
<1> QED BY <1>3, <1>4, <1>5

LEMMA MarkedStays ==
    ASSUME NEW x, DOMAIN x = ProcFields, NEW c, NEW a, NEW pr, pr = Marked(x, c, a)
    PROVE  Stays(pr, x) /\ pr.offset = x.offset
<1> PICK y : y = (x.flawed \/ (a.status # "ok" /\ ~ Ending(c, a)))
  OBVIOUS
<1>1. pr = [x EXCEPT !.flawed = y]
  BY DEF Marked
<1>2. /\ pr.kind = x.kind /\ pr.handle = x.handle /\ pr.value = x.value
      /\ pr.offset = x.offset /\ pr.reported = x.reported
  BY <1>1 DEF ProcFields
<1>3. (~ pr.muted => ~ x.muted) /\ (~ pr.refused => ~ x.refused) /\ (~ pr.beside => ~ x.beside)
  BY <1>1 DEF ProcFields
<1> QED BY <1>2, <1>3 DEF Stays

LEMMA KeepsStays ==
    ASSUME NEW r, NEW pr, Keeps(r, pr), pr.reported = <<>>
    PROVE  Stays(r, pr)
  BY DEF Keeps, Stays

LEMMA StaysOn ==
    ASSUME NEW r, NEW pr, NEW x, Stays(r, pr), Stays(pr, x)
    PROVE  Stays(r, x)
  BY DEF Stays

(* What the answer to its request makes of a write: it is cancelled, it goes on  *)
(* by the part the peer took, or its callback is called with the status.        *)
WritesOn(c, pr, a, r) ==
    \/ r.muted
    \/ /\ c.ask = "prepare" /\ ~ Failed(a)
       /\ r.reported = <<>> /\ r.offset = pr.offset + Len(c.data)
    \/ /\ r.reported # <<>> /\ r.reported[1].status = a.status
       /\ c.ask \in {"write", "execute"} \/ Failed(a)

LEMMA PrepareWrites ==
    ASSUME NEW p, NEW pr, DOMAIN pr = ProcFields, pr.reported = <<>>, NEW c, c.ask = "prepare",
           NEW a, Given(c, a), NEW w, w = prepare_write_cb(p, pr, a)
    PROVE  WritesOn(c, pr, a, w.proc)
<1>1. CASE Failed(a)
  <2> PICK r : r = Report(pr, a.status, <<>>)
    OBVIOUS
  <2>1. r.reported # <<>> /\ r.reported[1].status = a.status
    BY ReportData
  <2>2. w = Then(r, <<>>)
    BY <1>1 DEF prepare_write_cb
  <2>3. w.proc = r
    BY <2>2, ThenFacts
  <2> QED BY <1>1, <2>1, <2>3 DEF WritesOn
<1>2. CASE ~ Failed(a)
  <2> PICK after : after = [pr EXCEPT !.offset = @ + Taken(a)]
    OBVIOUS
  <2> PICK last : last = [after EXCEPT !.held = FALSE]
    OBVIOUS
  <2>1. after.offset = pr.offset + Taken(a) /\ after.reported = <<>> /\ DOMAIN after = ProcFields
    BY DEF ProcFields
  <2>2. last.offset = after.offset /\ last.reported = <<>>
    BY <2>1 DEF ProcFields
  <2>3. Taken(a) = Len(c.data)
    BY <1>2 DEF Given, Taken
  <2>4. w = Then(last, <<execute_write(p)>>) \/ w = Then(after, <<prepare_write(p, after)>>)
    BY <1>2 DEF prepare_write_cb
  <2>5. w.proc = last \/ w.proc = after
    BY <2>4, ThenFacts
  <2>6. w.proc.offset = pr.offset + Len(c.data) /\ w.proc.reported = <<>>
    BY <2>1, <2>2, <2>3, <2>5
  <2> QED BY <1>2, <2>6 DEF WritesOn
<1> QED BY <1>1, <1>2

LEMMA DirectWrites ==
    ASSUME NEW pr, DOMAIN pr = ProcFields, pr.reported = <<>>, NEW c, c.ask \in {"write", "execute"},
           NEW a, NEW w, w = direct_cb(pr, a)
    PROVE  WritesOn(c, pr, a, w.proc)
<1> PICK r : r = Report(pr, a.status, a.items)
  OBVIOUS
<1>1. r.reported # <<>> /\ r.reported[1].status = a.status
  BY ReportData
<1>2. w.proc = r
  BY ThenFacts DEF direct_cb
<1> QED BY <1>1, <1>2 DEF WritesOn

LEMMA HeadWrites ==
    ASSUME NEW c, NEW pr, NEW a, NEW n, HeadReads(c, pr, a, n), pr.kind = "write",
           NEW r, r = Notify(c, Done(c, pr, a).proc)
    PROVE  WritesOn(c, pr, a, r)
<1> PICK w : w = Done(c, pr, a)
  OBVIOUS
<1>0. n \in Nat /\ n > 0 /\ ProcOK(pr, n) /\ CommandOK(c, pr) /\ Given(c, a)
  BY DEF HeadReads
<1>1. Alive(pr) /\ Belongs(c.ask, pr) /\ c.func \in BOOLEAN
  BY <1>0, HeadAlive DEF CommandOK
<1>2. DOMAIN pr = ProcFields /\ pr.reported = <<>>
  BY <1>1 DEF Alive
<1>3. c.ask \in {"write", "prepare", "execute"}
  BY <1>1 DEF Belongs, Discoveries
<1>4. r = w.proc
  BY <1>3 DEF Notify
<1>5. CASE c.func = TRUE
  <2>1. w = Callback(c, pr, a)
    BY <1>5 DEF Done
  <2>2. CASE c.ask = "prepare"
    <3>1. w = prepare_write_cb(c.proc, pr, a)
      BY <2>1, <2>2 DEF Callback
    <3> QED BY <1>0, <1>2, <1>4, <2>2, <3>1, PrepareWrites
  <2>3. CASE c.ask \in {"write", "execute"}
    <3>1. w = direct_cb(pr, a)
      BY <2>1, <2>3 DEF Callback
    <3> QED BY <1>2, <1>4, <2>3, <3>1, DirectWrites
  <2> QED BY <1>3, <2>2, <2>3
<1>6. CASE c.func = FALSE
  <2>1. w = Then(pr, <<>>)
    BY <1>6 DEF Done
  <2>2. w.proc = pr
    BY <2>1, ThenFacts
  <2>3. pr.muted
    BY <1>0, <1>6 DEF CommandOK
  <2> QED BY <1>4, <2>2, <2>3 DEF WritesOn
<1> QED BY <1>1, <1>5, <1>6

----------------------------------------------------------------------------
(* An answer to the head keeps it.                                            *)

(* What is known of it.                                                       *)
WriteKnown(c, a, x, pr, r) ==
    /\ Stays(r, x) /\ Stays(r, pr) /\ Stays(pr, x) /\ pr.offset = x.offset /\ x.reported = <<>>
    /\ Belongs(c.ask, pr) /\ Holds(pr) /\ Carried(c, pr)
    /\ pr.kind = "write" => WritesOn(c, pr, a, r)
    /\ r.kind # "include" /\ (r.muted \/ r.refused) => r.reported = <<>>

LEMMA HeadKnows ==
    ASSUME NEW q, NEW ps, NEW c, NEW a, NEW q2, NEW ps2, NEW x, x = ps[c.proc], NEW pr, NEW r, NEW s,
           HeadTurns(q, ps, c, a, q2, ps2, pr, r, s)
    PROVE  WriteKnown(c, a, x, pr, r)
<1> PICK n : n = Count(q, c.proc)
  OBVIOUS
<1>1. /\ QueueOK(q, ps) /\ 1 \in DOMAIN q /\ c = q[1]
      /\ pr = Marked(x, c, a) /\ HeadReads(c, pr, a, n) /\ DOMAIN x = ProcFields
      /\ r = Notify(c, Done(c, pr, a).proc) /\ Handled(r, s, c, pr, n)
  BY DEF HeadTurns
<1>2. n \in Nat /\ n > 0 /\ ProcOK(pr, n) /\ CommandOK(c, pr) /\ Holds(pr) /\ Carried(c, pr)
  BY <1>1 DEF HeadReads
<1>3. Alive(pr) /\ Belongs(c.ask, pr)
  BY <1>2, HeadAlive DEF CommandOK
<1>4. pr.reported = <<>>
  BY <1>3 DEF Alive
<1>5. Keeps(r, pr) /\ ProcOK(r, n - 1 + Len(s))
  BY <1>1 DEF Handled
<1>6. Stays(r, pr)
  BY <1>4, <1>5, KeepsStays
<1>7. Stays(pr, x) /\ pr.offset = x.offset
  BY <1>1, MarkedStays
<1>8. Stays(r, x)
  BY <1>6, <1>7, StaysOn
<1>9. x.reported = <<>>
  BY <1>4, <1>7 DEF Stays
<1>10. pr.kind = "write" => WritesOn(c, pr, a, r)
  BY <1>1, HeadWrites
<1>11. r.kind # "include" /\ (r.muted \/ r.refused) => r.reported = <<>>
  <2> PICK k : k = n - 1 + Len(s)
    OBVIOUS
  <2>1. ProcOK(r, k)
    BY <1>5
  <2> QED BY <2>1 DEF ProcOK, Running
<1> QED BY <1>2, <1>3, <1>6, <1>7, <1>8, <1>9, <1>10, <1>11 DEF WriteKnown

(* Only a write touches what is prepared.                                      *)
LEMMA OthersPrepare ==
    ASSUME NEW c, NEW pr, Belongs(c.ask, pr), pr.kind # "write",
           NEW a, NEW vs, NEW pp, NEW vs2, NEW pp2, Effects(c, a, vs, pp, vs2, pp2)
    PROVE  pp2 = pp
<1>1. c.ask \notin Writes
  BY DEF Belongs, Discoveries, Writes
<1> QED BY <1>1 DEF Effects, Writes

LEMMA HeadCovers ==
    ASSUME NEW c, NEW a, NEW x, NEW pr, NEW r, WriteKnown(c, a, x, pr, r),
           NEW vs, NEW pp, NEW vs2, NEW pp2, Effects(c, a, vs, pp, vs2, pp2), PreparedOK(pp),
           Writer(r), Covered(pp, x)
    PROVE  Covered(pp2, r)
<1>1. /\ Stays(r, pr) /\ Stays(pr, x) /\ pr.offset = x.offset /\ Holds(pr) /\ Carried(c, pr)
      /\ pr.kind = "write" => WritesOn(c, pr, a, r)
  BY DEF WriteKnown
<1>2. /\ r.handle = pr.handle /\ r.value = pr.value /\ pr.kind = "write"
      /\ pr.handle = x.handle /\ pr.value = x.value
  BY <1>1 DEF Stays, Writer
<1>3. ~ r.muted /\ r.reported = <<>>
  BY DEF Writer
<1>4. c.ask = "prepare" /\ ~ Failed(a) /\ r.offset = pr.offset + Len(c.data)
  BY <1>1, <1>2, <1>3 DEF WritesOn
<1>5. pp2 = Append(pp, c)
  BY <1>4 DEF Effects, Writes
<1>6. Fits(pr) /\ Places(c, pr) /\ c.to = pr.offset
  BY <1>1, <1>2, <1>4 DEF Holds, Carried
<1>7. Covered(pp, pr)
  BY <1>1, <1>2 DEF Covered
<1>8. Sequence(pp)
  BY DEF PreparedOK
<1> QED BY <1>2, <1>4, <1>5, <1>6, <1>7, <1>8, CoveredMore

LEMMA HeadCovered ==
    ASSUME NEW q, NEW ps, NEW c, NEW a, NEW q2, NEW ps2, NEW pr, NEW r, NEW s,
           HeadTurns(q, ps, c, a, q2, ps2, pr, r, s), Lone(ps),
           NEW vs, NEW pp, NEW vs2, NEW pp2, Effects(c, a, vs, pp, vs2, pp2), PreparedOK(pp),
           AllCovered(ps, pp)
    PROVE  Lone(ps2) /\ AllCovered(ps2, pp2)
<1> PICK p : p = c.proc
  OBVIOUS
<1> PICK x : x = ps[p]
  OBVIOUS
<1>1. /\ QueueOK(q, ps) /\ 1 \in DOMAIN q /\ c = q[1] /\ p \in DOMAIN ps /\ Sequence(ps)
      /\ ps2 = [ps EXCEPT ![p] = r]
  BY DEF HeadTurns
<1>2. WriteKnown(c, a, x, pr, r)
  BY HeadKnows
<1>3. Stays(r, x) /\ Stays(pr, x) /\ Belongs(c.ask, pr)
  BY <1>2 DEF WriteKnown
<1>4. /\ Lone(ps2)
      /\ \A y \in DOMAIN ps2 : y \in DOMAIN ps /\ (Sole(ps2, y) => Sole(ps, y))
      /\ ps2[p] = r /\ \A y \in DOMAIN ps : y # p => ps2[y] = ps[y]
  BY <1>1, <1>3, LoneStays
<1>5. ASSUME NEW y \in DOMAIN ps2, Sole(ps2, y) PROVE Covered(pp2, ps2[y])
  <2>1. y \in DOMAIN ps /\ Sole(ps, y)
    BY <1>4, <1>5
  <2>2. Covered(pp, ps[y])
    BY <2>1 DEF AllCovered
  <2>3. CASE y = p
    <3>1. Writer(r)
      BY <1>4, <1>5, <2>3 DEF Sole
    <3>2. Covered(pp, x)
      BY <2>2, <2>3
    <3>3. Covered(pp2, r)
      BY <1>2, <3>1, <3>2, HeadCovers
    <3> QED BY <1>4, <2>3, <3>3
  <2>4. CASE y # p
    <3>1. x.kind # "write"
      BY <1>1, <2>1, <2>4, SoleWrites
    <3>2. pr.kind # "write"
      BY <1>3, <3>1 DEF Stays
    <3>3. pp2 = pp
      BY <1>3, <3>2, OthersPrepare
    <3> QED BY <1>4, <2>1, <2>2, <2>4, <3>3
  <2> QED BY <2>3, <2>4
<1> QED BY <1>4, <1>5 DEF AllCovered

----------------------------------------------------------------------------
(* When the head's callback reports success, its value has been written.        *)

Whole(v, pr) == \A i \in 1..Len(pr.value) : v[pr.handle][i] = pr.value[i]

LEMMA ValueFits ==
    ASSUME NEW pr, Fits(pr), NEW i \in 1..Len(pr.value)
    PROVE  Place(pr.handle, i)
<1> PICK n \in Nat : n = Len(pr.value) /\ n \in WriteLens
  BY LimitsAssumption DEF Fits
<1> PICK m \in Nat : m = ValueLen[pr.handle]
  BY LimitsAssumption DEF Fits
<1>1. n <= m
  BY WritesFitAssumption DEF Fits
<1>2. i \in 1..m
  BY <1>1
<1> QED BY <1>2 DEF Place, Fits

LEMMA WroteWhole ==
    ASSUME NEW pr, Fits(pr), NEW c, Places(c, pr), c.to = 0, Len(c.data) = Len(pr.value),
           NEW vs, ValuesOK(vs)
    PROVE  Whole(Write(vs, c), pr)
<1> PICK h : h = pr.handle
  OBVIOUS
<1> PICK v : v = pr.value
  OBVIOUS
<1> PICK d : d = c.data
  OBVIOUS
<1> PICK n \in Nat : n = Len(v) /\ DOMAIN d = 1..n
  BY SequenceFacts DEF Places, Piece
<1>1. c.from = h /\ \A i \in DOMAIN d : d[i] = v[0 + i]
  BY DEF Places
<1>2. ASSUME NEW i \in 1..n PROVE Write(vs, c)[h][i] = v[i]
  <2>1. i - c.to = i /\ 0 + i = i
    OBVIOUS
  <2>2. Puts(c, h, i, v[i])
    BY <1>1, <2>1 DEF Puts, Reaches
  <2>3. Place(h, i)
    BY ValueFits
  <2> QED BY <2>2, <2>3, WritePuts
<1> QED BY <1>2 DEF Whole

LEMMA ExecutedWhole ==
    ASSUME NEW pr, Fits(pr), pr.offset = Len(pr.value), NEW pp, PreparedOK(pp), Covered(pp, pr),
           NEW vs, ValuesOK(vs), NEW vs2, Executes(vs, pp, vs2)
    PROVE  Whole(vs2, pr)
<1>1. PICK n \in Nat : \E f : n = Len(pp) /\ Execution(f, vs, pp, n) /\ vs2 = f[n]
  BY DEF Executes
<1>2. PICK f : n = Len(pp) /\ Execution(f, vs, pp, n) /\ vs2 = f[n]
  BY <1>1
<1> PICK h : h = pr.handle
  OBVIOUS
<1> PICK v : v = pr.value
  OBVIOUS
<1> PICK m : m = Len(v)
  OBVIOUS
<1>3. \A i \in 1..m : LastPut(pp, h, i, v[i])
  BY DEF Covered
<1>4. ASSUME NEW i \in 1..m PROVE vs2[h][i] = v[i]
  <2> PICK x : x = v[i]
    OBVIOUS
  <2>1. LastPut(pp, h, i, x)
    BY <1>3
  <2>2. Place(h, i)
    BY ValueFits
  <2>3. f[n][h][i] = x
    BY <1>2, <2>1, <2>2, LastExecuted
  <2> QED BY <1>2, <2>3
<1> QED BY <1>4 DEF Whole

(* It reports success and began beside no other write.                         *)
Succeeds(r) == r.kind = "write" /\ r.reported # <<>> /\ r.reported[1].status = "ok" /\ ~ r.beside

LEMMA WriterBefore ==
    ASSUME NEW c, NEW a, NEW x, NEW pr, NEW r, WriteKnown(c, a, x, pr, r), Succeeds(r)
    PROVE  Writer(x)
<1>1. Stays(r, x) /\ x.reported = <<>> /\ (r.kind # "include" /\ (r.muted \/ r.refused) => r.reported = <<>>)
  BY DEF WriteKnown
<1>2. r.kind = "write" /\ ~ r.beside /\ ~ r.muted /\ ~ r.refused
  BY <1>1 DEF Succeeds
<1> QED BY <1>1, <1>2 DEF Stays, Writer

LEMMA WholeAtHead ==
    ASSUME NEW c, NEW a, NEW x, NEW pr, NEW r, WriteKnown(c, a, x, pr, r), Succeeds(r),
           NEW vs, NEW pp, NEW vs2, NEW pp2, Effects(c, a, vs, pp, vs2, pp2), ValuesOK(vs), PreparedOK(pp),
           Covered(pp, x)
    PROVE  Whole(vs2, r)
<1>1. /\ Stays(r, pr) /\ Stays(pr, x) /\ pr.offset = x.offset /\ Holds(pr) /\ Carried(c, pr)
      /\ pr.kind = "write" => WritesOn(c, pr, a, r)
      /\ r.kind # "include" /\ (r.muted \/ r.refused) => r.reported = <<>>
  BY DEF WriteKnown
<1>2. /\ r.handle = pr.handle /\ r.value = pr.value /\ pr.kind = "write"
      /\ pr.handle = x.handle /\ pr.value = x.value
  BY <1>1 DEF Stays, Succeeds
<1>3. r.reported # <<>> /\ r.reported[1].status = "ok" /\ ~ r.muted
  BY <1>1 DEF Succeeds
<1>4. a.status = "ok" /\ (c.ask \in {"write", "execute"} \/ Failed(a))
  BY <1>1, <1>2, <1>3 DEF WritesOn
<1>5. ~ Failed(a) /\ c.ask \in {"write", "execute"}
  BY <1>4 DEF Failed
<1>6. Fits(pr)
  BY <1>1, <1>2 DEF Holds
<1>7. Whole(vs2, pr)
  <2>1. CASE c.ask = "write"
    <3>1. vs2 = Write(vs, c)
      BY <1>5, <2>1 DEF Effects, Writes
    <3>2. Places(c, pr) /\ c.to = 0 /\ Len(c.data) = Len(pr.value)
      BY <1>1, <2>1 DEF Carried
    <3> QED BY <1>6, <3>1, <3>2, WroteWhole
  <2>2. CASE c.ask = "execute"
    <3>1. Executes(vs, pp, vs2)
      BY <1>5, <2>2 DEF Effects, Writes
    <3>2. pr.offset = Len(pr.value)
      BY <1>1, <2>2 DEF Carried
    <3>3. Covered(pp, pr)
      BY <1>1, <1>2 DEF Covered
    <3> QED BY <1>6, <3>1, <3>2, <3>3, ExecutedWhole
  <2> QED BY <1>5, <2>1, <2>2
<1> QED BY <1>2, <1>7 DEF Whole

LEMMA HeadWhole ==
    ASSUME NEW q, NEW ps, NEW c, NEW a, NEW q2, NEW ps2, NEW pr, NEW r, NEW s,
           HeadTurns(q, ps, c, a, q2, ps2, pr, r, s),
           NEW vs, NEW pp, NEW vs2, NEW pp2, Effects(c, a, vs, pp, vs2, pp2), ValuesOK(vs), PreparedOK(pp),
           AllCovered(ps, pp),
           NEW y \in DOMAIN ps, ps[y].reported = <<>>, Succeeds(ps2[y]),
           \A u \in DOMAIN ps : u > y => ps[u].kind # "write"
    PROVE  Whole(vs2, ps2[y])
<1> PICK x : x = ps[c.proc]
  OBVIOUS
<1>1. c.proc \in DOMAIN ps /\ ps2 = [ps EXCEPT ![c.proc] = r] /\ Sequence(ps)
  BY DEF HeadTurns
<1>2. ps2[y] = IF y = c.proc THEN r ELSE ps[y]
  BY <1>1
<1>3. y = c.proc
  BY <1>2 DEF Succeeds
<1>4. WriteKnown(c, a, x, pr, r) /\ ps2[y] = r
  BY <1>2, <1>3, HeadKnows
<1>5. Writer(x)
  BY <1>4, WriterBefore
<1>6. Covered(pp, x)
  <2>1. Sole(ps, y)
    BY <1>3, <1>5 DEF Sole
  <2> QED BY <1>3, <2>1 DEF AllCovered
<1>7. Whole(vs2, r)
  BY <1>4, <1>6, WholeAtHead
<1> QED BY <1>4, <1>7

----------------------------------------------------------------------------
(* The steps.                                                               *)

LEMMA WriteInit == Init => WriteInv
<1> SUFFICES ASSUME Init PROVE WriteInv
  OBVIOUS
<1>1. DOMAIN procs = {}
  BY DEF Init
<1> QED BY <1>1 DEF WriteInv, Lone, AllCovered

LEMMA WriteUnchanged ==
    ASSUME WriteInv, procs' = procs, prepared' = prepared
    PROVE  WriteInv'
<1>1. Lone(procs) /\ AllCovered(procs, prepared)
  BY DEF WriteInv
<1>2. Lone(procs') /\ AllCovered(procs', prepared')
  BY <1>1
<1> QED BY <1>2 DEF WriteInv

(* The head is answered: the turn it takes.                                   *)
LEMMA AnsweredTurns ==
    ASSUME GattInv, ReadInv, NEW a, Answered(a)
    PROVE  \E pr, r, s : HeadTurns(queue, procs, queue[1], a, queue', procs', pr, r, s)
<1> PICK q, ps : q = queue /\ ps = procs
  OBVIOUS
<1> PICK q2, ps2 : q2 = queue' /\ ps2 = procs'
  OBVIOUS
<1>1. QueueInv /\ DataOK(q, ps)
  BY DEF GattInv, ReadInv
<1>2. queue # <<>> /\ AnswerOK(q[1], a) /\ Given(q[1], a) /\ HandleHead(a)
  BY DEF Answered
<1>3. HeadGone(q, ps, q[1], a, q2, ps2)
  BY <1>1, <1>2, HeadActionGone
<1>4. \E pr, r, s : HeadTurns(q, ps, q[1], a, q2, ps2, pr, r, s)
  BY <1>1, <1>2, <1>3, HeadTurn
<1> QED BY <1>4

LEMMA AnsweredWrites ==
    ASSUME GattInv, ReadInv, WriteInv, NEW a, Answered(a)
    PROVE  WriteInv'
<1> PICK q, ps, pp, vs : q = queue /\ ps = procs /\ pp = prepared /\ vs = values
  OBVIOUS
<1> PICK q2, ps2, pp2, vs2 : q2 = queue' /\ ps2 = procs' /\ pp2 = prepared' /\ vs2 = values'
  OBVIOUS
<1> PICK c : c = q[1]
  OBVIOUS
<1>1. PICK pr, r, s : HeadTurns(q, ps, c, a, q2, ps2, pr, r, s)
  BY AnsweredTurns
<1>2. Effects(c, a, vs, pp, vs2, pp2) /\ PreparedOK(pp) /\ Lone(ps) /\ AllCovered(ps, pp)
  BY DEF Answered, ReadInv, WriteInv
<1>3. Lone(ps2) /\ AllCovered(ps2, pp2)
  BY <1>1, <1>2, HeadCovered
<1> QED BY <1>3 DEF WriteInv

(* A cancel mutes the procedure, and lets the others be.                      *)
Cancelled(r, x) == Stays(r, x) /\ r.muted

(* The commands of the others stay as they are. *)
OthersStay(q2, q, p) == \A j \in DOMAIN q2 : q2[j].proc = p \/ \E k \in DOMAIN q : q2[j] = q[k]

LEMMA ClearedStays ==
    ASSUME NEW q, 1 \in DOMAIN q, NEW q2, q2 = [q EXCEPT ![1] = Cleared(q[1])],
           DOMAIN q[1] = CommandFields
    PROVE  OthersStay(q2, q, q[1].proc)
<1> PICK c, d : c = q[1] /\ d = Cleared(c)
  OBVIOUS
<1>1. d.proc = c.proc
  BY DEF Cleared, CommandFields
<1>2. q2 = [q EXCEPT ![1] = d]
  OBVIOUS
<1>3. \A j \in DOMAIN q2 : j \in DOMAIN q /\ (j = 1 => q2[j] = d) /\ (j # 1 => q2[j] = q[j])
  BY <1>2
<1> QED BY <1>1, <1>3 DEF OthersStay

LEMMA CancelsCovered ==
    ASSUME NEW ps, Sequence(ps), NEW pp, Lone(ps), AllCovered(ps, pp), NEW p \in DOMAIN ps,
           NEW r, Cancelled(r, ps[p]), NEW ps2, ps2 = [ps EXCEPT ![p] = r]
    PROVE  Lone(ps2) /\ AllCovered(ps2, pp)
<1>0. Stays(r, ps[p]) /\ r.muted
  BY DEF Cancelled
<1>1. /\ Lone(ps2)
      /\ \A y \in DOMAIN ps2 : y \in DOMAIN ps /\ (Sole(ps2, y) => Sole(ps, y))
      /\ ps2[p] = r /\ \A y \in DOMAIN ps : y # p => ps2[y] = ps[y]
  BY <1>0, LoneStays
<1>2. ASSUME NEW y \in DOMAIN ps2, Sole(ps2, y) PROVE Covered(pp, ps2[y])
  <2>1. y \in DOMAIN ps /\ Sole(ps, y)
    BY <1>1, <1>2
  <2>2. y # p
    BY <1>0, <1>1, <1>2 DEF Sole, Writer
  <2> QED BY <1>1, <2>1, <2>2 DEF AllCovered
<1> QED BY <1>1, <1>2 DEF AllCovered

LEMMA MutedStays ==
    ASSUME NEW x, DOMAIN x = ProcFields, NEW pr, pr = Muted(x)
    PROVE  Stays(pr, x) /\ pr.muted /\ pr.kind = x.kind /\ pr.refs = x.refs /\ DOMAIN pr = ProcFields
           /\ pr.reported = x.reported
<1>1. pr = [x EXCEPT !.muted = TRUE]
  BY DEF Muted
<1>2. /\ pr.kind = x.kind /\ pr.handle = x.handle /\ pr.value = x.value /\ pr.reported = x.reported
      /\ pr.refs = x.refs /\ DOMAIN pr = ProcFields
  BY <1>1 DEF ProcFields
<1>3. pr.muted /\ (~ pr.refused => ~ x.refused) /\ (~ pr.beside => ~ x.beside)
  BY <1>1 DEF ProcFields
<1> QED BY <1>2, <1>3 DEF Stays

LEMMA NotifyKeeps ==
    ASSUME NEW c, NEW pr, DOMAIN pr = ProcFields, pr.refs \in Nat, pr.reported = <<>>
    PROVE  Stays(Notify(c, pr), pr)
<1> PICK r : r = Notify(c, pr)
  OBVIOUS
<1>1. CASE c.ask \in {"read", "blob"}
  <2>1. r = read_long_destroy(pr)
    BY <1>1 DEF Notify
  <2>2. Keeps(r, pr)
    BY <2>1, DestroyKeeps
  <2> QED BY <2>2, KeepsStays
<1>2. CASE c.ask = "include"
  <2>1. r = isd_unref(pr)
    BY <1>2 DEF Notify
  <2> PICK m \in Nat : m = pr.refs
    OBVIOUS
  <2>2. Unreffed(r, pr, m)
    BY <2>1, UnrefFields
  <2>3. Keeps(r, pr)
    BY <2>2 DEF Unreffed
  <2> QED BY <2>3, KeepsStays
<1>3. CASE c.ask \notin {"read", "blob", "include"}
  <2>1. r = pr
    BY <1>3 DEF Notify
  <2> QED BY <2>1 DEF Stays
<1> QED BY <1>1, <1>2, <1>3

(* What a cancel leaves of the procedure.                                     *)
LEMMA CancelLeaves ==
    ASSUME NEW q, NEW ps, QueueOK(q, ps), NEW i \in DOMAIN q, NEW c, c = q[i], NEW x, x = ps[c.proc],
           NEW r, r = Muted(x) \/ r = Notify(c, Muted(x))
    PROVE  Cancelled(r, x)
<1> PICK pr : pr = Muted(x)
  OBVIOUS
<1> PICK n : n = Count(q, c.proc)
  OBVIOUS
<1>1. CommandOK(c, x) /\ ProcOK(x, n) /\ n \in Nat /\ n > 0
  BY CommandKnown
<1>2. Alive(x) /\ Belongs(c.ask, x)
  BY <1>1, HeadAlive DEF CommandOK
<1>3. DOMAIN x = ProcFields /\ x.reported = <<>> /\ x.refs \in Nat
  BY <1>2 DEF Alive
<1>4. /\ Stays(pr, x) /\ pr.muted /\ pr.kind = x.kind /\ pr.refs = x.refs /\ DOMAIN pr = ProcFields
      /\ pr.reported = x.reported
  BY <1>3, MutedStays
<1>5. CASE r = pr
  BY <1>4, <1>5 DEF Cancelled
<1>6. CASE r = Notify(c, pr)
  <2>1. Stays(r, pr)
    BY <1>3, <1>4, <1>6, NotifyKeeps
  <2>2. Stays(r, x)
    BY <1>4, <2>1, StaysOn
  <2>3. r.muted
    <3>1. ~ r.muted => ~ pr.muted
      BY <2>1 DEF Stays
    <3> QED BY <1>4, <3>1
  <2> QED BY <2>2, <2>3 DEF Cancelled
<1> QED BY <1>5, <1>6

(* A cancel changes one procedure, which it mutes, and its commands.           *)
LEMMA CancelTurns ==
    ASSUME GattInv, NEW p \in DOMAIN procs, Cancel(p)
    PROVE  /\ \E r : Cancelled(r, procs[p]) /\ procs' = [procs EXCEPT ![p] = r] /\ prepared' = prepared
           /\ OthersStay(queue', queue, p)
<1> PICK q, ps : q = queue /\ ps = procs
  OBVIOUS
<1>1. PICK i \in DOMAIN queue :
         /\ queue[i].proc = p /\ queue[i].own /\ queue[i].func
         /\ LET pr == [procs[p] EXCEPT !.muted = TRUE] IN
            IF i = 1 /\ sent
            THEN /\ queue' = [queue EXCEPT ![1].func = FALSE]
                 /\ procs' = [procs EXCEPT ![p] = pr]
            ELSE /\ queue' = SubSeq(queue, 1, i - 1) \o SubSeq(queue, i + 1, Len(queue))
                 /\ procs' = [procs EXCEPT ![p] = Notify(queue[i], pr)]
  BY DEF Cancel
<1>2. QueueOK(q, ps)
  BY DEF GattInv, QueueInv, QueueOK
<1> PICK c : c = q[i]
  OBVIOUS
<1> PICK x : x = ps[p]
  OBVIOUS
<1>3. i \in DOMAIN q /\ c.proc = p /\ prepared' = prepared
  BY <1>1 DEF Cancel
<1>4. PICK r : (r = Muted(x) \/ r = Notify(c, Muted(x))) /\ procs' = [procs EXCEPT ![p] = r]
  <2>1. CASE i = 1 /\ sent
    <3>1. procs' = [procs EXCEPT ![p] = Muted(x)]
      BY <1>1, <2>1 DEF Muted
    <3> QED BY <3>1
  <2>2. CASE ~ (i = 1 /\ sent)
    <3>1. procs' = [procs EXCEPT ![p] = Notify(c, Muted(x))]
      BY <1>1, <2>2 DEF Muted
    <3> QED BY <3>1
  <2> QED BY <2>1, <2>2
<1>5. Cancelled(r, x)
  BY <1>2, <1>3, <1>4, CancelLeaves
<1>6. OthersStay(queue', queue, p)
  <2> PICK q2 : q2 = queue'
    OBVIOUS
  <2>1. CASE i = 1 /\ sent
    <3>1. q2 = [q EXCEPT ![1] = Cleared(q[1])]
      BY <1>1, <2>1 DEF Cleared
    <3>2. CommandOK(c, x)
      BY <1>2, <1>3, CommandKnown
    <3>3. DOMAIN q[1] = CommandFields
      BY <2>1, <3>2 DEF CommandOK
    <3>4. OthersStay(q2, q, q[1].proc)
      BY <1>3, <2>1, <3>1, <3>3, ClearedStays
    <3> QED BY <1>3, <2>1, <3>4
  <2>2. CASE ~ (i = 1 /\ sent)
    <3>1. q2 = SubSeq(q, 1, i - 1) \o SubSeq(q, i + 1, Len(q))
      BY <1>1, <2>2
    <3>2. Leaves(q2, q, i, p, <<>>)
      BY <1>1, <1>2, <1>3, <3>1, WaitingLeaves DEF QueueOK
    <3>3. \A j \in DOMAIN q2 : \E k \in DOMAIN q : q2[j] = q[k]
      <4>1. DOMAIN <<>> = {}
        OBVIOUS
      <4> QED BY <3>2, <4>1 DEF Leaves
    <3> QED BY <3>3 DEF OthersStay
  <2> QED BY <2>1, <2>2
<1> QED BY <1>3, <1>4, <1>5, <1>6

LEMMA CancelWrites ==
    ASSUME GattInv, WriteInv, NEW p \in DOMAIN procs, Cancel(p)
    PROVE  WriteInv'
<1> PICK ps, pp, u : ps = procs /\ pp = prepared /\ u = p
  OBVIOUS
<1> PICK ps2, pp2 : ps2 = procs' /\ pp2 = prepared'
  OBVIOUS
<1>1. PICK r : Cancelled(r, procs[p]) /\ procs' = [procs EXCEPT ![p] = r] /\ prepared' = prepared
  BY CancelTurns
<1>2. Cancelled(r, ps[u]) /\ ps2 = [ps EXCEPT ![u] = r] /\ u \in DOMAIN ps
  BY <1>1
<1>3. Sequence(ps) /\ Lone(ps) /\ AllCovered(ps, pp)
  BY DEF GattInv, QueueInv, WriteInv
<1>4. Lone(ps2) /\ AllCovered(ps2, pp)
  BY <1>2, <1>3, CancelsCovered
<1>5. Lone(procs') /\ AllCovered(procs', prepared')
  BY <1>1, <1>4
<1> QED BY <1>5 DEF WriteInv

LEMMA BeginsAs ==
    ASSUME NEW pr, DOMAIN pr = ProcFields, NEW x, x = Refused(pr) \/ x = Accepted(pr)
    PROVE  x.kind = pr.kind /\ x.offset = pr.offset /\ (~ x.beside => ~ pr.beside)
<1> PICK y, z : y = HasObject(pr) /\ z = (HasObject(pr) /\ pr.kind # "read")
  OBVIOUS
<1>1. CASE x = Refused(pr)
  <2>1. x = [pr EXCEPT !.refused = TRUE, !.held = z]
    BY <1>1, Zenon DEF Refused
  <2> QED BY <2>1 DEF ProcFields
<1>2. CASE x = Accepted(pr)
  <2>1. x = [pr EXCEPT !.held = y]
    BY <1>2, Zenon DEF Accepted
  <2> QED BY <2>1 DEF ProcFields
<1> QED BY <1>1, <1>2

(* One that begins beside no other has prepared nothing yet.                   *)
Enters(ps, x) ==
    x.kind = "write" =>
        /\ x.offset = 0
        /\ ~ x.beside => \A u \in DOMAIN ps : ps[u].kind = "write" => ps[u].reported # <<>>

LEMMA AppendIs ==
    ASSUME NEW s, Sequence(s), NEW x, NEW n \in Nat, n = Len(s), NEW w, w = Append(s, x)
    PROVE  DOMAIN s = 1..n /\ DOMAIN w = 1..(n + 1) /\ w[n + 1] = x /\ \A i \in 1..n : w[i] = s[i]
<1> PICK T : T = Elements(s) \cup {x}
  OBVIOUS
<1>1. s \in Seq(T) /\ x \in T
  <2>1. Elements(s) \subseteq T
    OBVIOUS
  <2> QED BY <2>1, SequenceIn
<1>2. w \in Seq(T) /\ Len(w) = n + 1 /\ w[n + 1] = x /\ \A i \in 1..n : w[i] = s[i]
  BY <1>1, AppendProperties
<1>3. DOMAIN s = 1..n /\ DOMAIN w = 1..(n + 1)
  BY <1>1, <1>2, LenProperties
<1> QED BY <1>2, <1>3

LEMMA EntersCovered ==
    ASSUME NEW ps, Sequence(ps), NEW pp, Lone(ps), AllCovered(ps, pp), NEW x, Enters(ps, x),
           NEW ps2, ps2 = Append(ps, x)
    PROVE  Lone(ps2) /\ AllCovered(ps2, pp)
<1> PICK n \in Nat : n = Len(ps)
  BY SequenceFacts
<1>1. DOMAIN ps = 1..n /\ DOMAIN ps2 = 1..(n + 1) /\ ps2[n + 1] = x /\ \A i \in 1..n : ps2[i] = ps[i]
  BY AppendIs
<1>2. \A y \in DOMAIN ps2 : y = n + 1 \/ (y \in DOMAIN ps /\ ps2[y] = ps[y])
  BY <1>1
<1>3. Lone(ps2)
  <2> SUFFICES ASSUME NEW u \in DOMAIN ps2, NEW y \in DOMAIN ps2, u < y,
                      ps2[u].kind = "write", ps2[y].kind = "write", ~ ps2[y].beside
               PROVE  ps2[u].reported # <<>>
    BY DEF Lone
  <2>1. u \in DOMAIN ps /\ ps2[u] = ps[u]
    BY <1>1
  <2>2. CASE y = n + 1
    <3>1. ps2[y] = x
      BY <1>1, <2>2
    <3>2. ps[u].reported # <<>>
      BY <2>1, <3>1 DEF Enters
    <3> QED BY <2>1, <3>2
  <2>3. CASE y \in DOMAIN ps /\ ps2[y] = ps[y]
    BY <2>1, <2>3 DEF Lone
  <2> QED BY <1>2, <2>2, <2>3
<1>4. ASSUME NEW y \in DOMAIN ps2, Sole(ps2, y) PROVE Covered(pp, ps2[y])
  <2>1. CASE y = n + 1
    <3>1. ps2[y] = x /\ x.kind = "write"
      BY <1>1, <1>4, <2>1 DEF Sole, Writer
    <3>2. ps2[y].offset = 0
      BY <3>1 DEF Enters
    <3>3. 1..ps2[y].offset = {}
      BY <3>2
    <3> QED BY <3>3 DEF Covered
  <2>2. CASE y \in DOMAIN ps /\ ps2[y] = ps[y]
    <3>1. \A u \in DOMAIN ps : u \in DOMAIN ps2 /\ ps2[u] = ps[u]
      BY <1>1
    <3>2. Sole(ps, y)
      BY <1>4, <2>2, <3>1 DEF Sole
    <3> QED BY <2>2, <3>2 DEF AllCovered
  <2> QED BY <1>2, <2>1, <2>2
<1> QED BY <1>3, <1>4 DEF AllCovered

LEMMA StartsAppend ==
    ASSUME GattInv, Starts
    PROVE  \E x : Enters(procs, x) /\ procs' = Append(procs, x) /\ prepared' = prepared
<1> PICK ps : ps = procs
  OBVIOUS
<1> PICK pr, c : Starting(pr, c)
  BY StartsBegin
<1>1. Begin(pr, c) /\ Fresh(pr, c, Len(procs) + 1) /\ Brings(pr, c)
  BY DEF Starting
<1>2. DOMAIN pr = ProcFields
  BY <1>1 DEF Fresh
<1>3. prepared' = prepared
  BY <1>1 DEF Begin
<1>4. PICK x : (x = Refused(pr) \/ x = Accepted(pr)) /\ procs' = Append(procs, x)
  <2>1. CASE channel = "stale"
    <3>1. procs' = Append(procs, Refused(pr))
      BY <1>1, <2>1 DEF Begin, Refused
    <3> QED BY <3>1
  <2>2. CASE channel # "stale"
    <3>1. procs' = Append(procs, Accepted(pr))
      BY <1>1, <2>2 DEF Begin, Accepted
    <3> QED BY <3>1
  <2> QED BY <2>1, <2>2
<1>5. x.kind = pr.kind /\ x.offset = pr.offset /\ (~ x.beside => ~ pr.beside)
  BY <1>2, <1>4, BeginsAs
<1>6. pr.kind = "write" => pr.offset = 0 /\ (~ pr.beside => ~ Writing)
  BY <1>1 DEF Brings
<1>7. ~ Writing => \A u \in DOMAIN procs : procs[u].kind = "write" => procs[u].reported # <<>>
  BY DEF Writing
<1>8. Enters(procs, x)
  BY <1>5, <1>6, <1>7 DEF Enters
<1> QED BY <1>3, <1>4, <1>8

LEMMA StartsWrites ==
    ASSUME GattInv, WriteInv, Starts
    PROVE  WriteInv'
<1> PICK ps, pp : ps = procs /\ pp = prepared
  OBVIOUS
<1> PICK ps2, pp2 : ps2 = procs' /\ pp2 = prepared'
  OBVIOUS
<1>1. PICK x : Enters(ps, x) /\ ps2 = Append(ps, x) /\ pp2 = pp
  BY StartsAppend
<1>2. Sequence(ps) /\ Lone(ps) /\ AllCovered(ps, pp)
  BY DEF GattInv, QueueInv, WriteInv
<1>3. Lone(ps2) /\ AllCovered(ps2, pp)
  BY <1>1, <1>2, EntersCovered
<1>4. Lone(procs') /\ AllCovered(procs', prepared')
  BY <1>1, <1>3
<1> QED BY <1>4 DEF WriteInv

LEMMA WriteStep == GattInv /\ ReadInv /\ WriteInv /\ [Next]_vars => WriteInv'
<1> SUFFICES ASSUME GattInv, ReadInv, WriteInv, [Next]_vars PROVE WriteInv'
  OBVIOUS
<1>1. CASE Starts
  BY <1>1, StartsWrites
<1>2. CASE \E p \in DOMAIN procs : Cancel(p)
  BY <1>2, CancelWrites
<1>3. CASE Transmit
  BY <1>3, WriteUnchanged DEF Transmit
<1>4. CASE Completes
  BY <1>4, CompletesAnswered, AnsweredWrites
<1>5. CASE Abort
  BY <1>5, AbortAnswered, AnsweredWrites
<1>6. CASE Close
  BY <1>6, WriteUnchanged DEF Close
<1>7. CASE UNCHANGED vars
  BY <1>7, WriteUnchanged DEF vars
<1>8. CASE WriteFails \/ ReadFails
  BY <1>8, WriteUnchanged DEF WriteFails, ReadFails
<1> QED BY <1>1, <1>2, <1>3, <1>4, <1>5, <1>6, <1>7, <1>8 DEF Next

(* What a step that makes a write succeed has done for it.                     *)
Later(ps, p) == \A u \in DOMAIN ps : u > p => ps[u].kind # "write"

WholeStep ==
    \A p \in DOMAIN procs :
        procs[p].reported = <<>> /\ Succeeds(procs'[p]) /\ Later(procs, p) => Whole(values', procs'[p])

LEMMA AnsweredWhole ==
    ASSUME GattInv, ReadInv, WriteInv, NEW a, Answered(a)
    PROVE  WholeStep
<1> PICK q, ps, pp, vs : q = queue /\ ps = procs /\ pp = prepared /\ vs = values
  OBVIOUS
<1> PICK q2, ps2, pp2, vs2 : q2 = queue' /\ ps2 = procs' /\ pp2 = prepared' /\ vs2 = values'
  OBVIOUS
<1> PICK c : c = q[1]
  OBVIOUS
<1>1. PICK pr, r, s : HeadTurns(q, ps, c, a, q2, ps2, pr, r, s)
  BY AnsweredTurns
<1>2. Effects(c, a, vs, pp, vs2, pp2) /\ ValuesOK(vs) /\ PreparedOK(pp) /\ AllCovered(ps, pp)
  BY DEF Answered, ReadInv, WriteInv
<1>3. ASSUME NEW y \in DOMAIN ps, ps[y].reported = <<>>, Succeeds(ps2[y]), Later(ps, y)
      PROVE  Whole(vs2, ps2[y])
  <2>1. \A u \in DOMAIN ps : u > y => ps[u].kind # "write"
    BY <1>3 DEF Later
  <2> QED BY <1>1, <1>2, <1>3, <2>1, HeadWhole
<1> QED BY <1>3 DEF WholeStep

(* A cancel makes no write succeed.                                          *)
LEMMA CancelWhole ==
    ASSUME GattInv, GattInv', NEW p \in DOMAIN procs, Cancel(p)
    PROVE  WholeStep
<1> PICK ps, u : ps = procs /\ u = p
  OBVIOUS
<1> PICK q2, ps2 : q2 = queue' /\ ps2 = procs'
  OBVIOUS
<1>1. PICK r : Cancelled(r, procs[p]) /\ procs' = [procs EXCEPT ![p] = r] /\ prepared' = prepared
  BY CancelTurns
<1>2. ps2 = [ps EXCEPT ![u] = r] /\ u \in DOMAIN ps
  BY <1>1
<1>3. QueueOK(q2, ps2)
  BY DEF GattInv, QueueInv, QueueOK
<1>4. ASSUME NEW y \in DOMAIN ps, ps[y].reported = <<>> PROVE ~ Succeeds(ps2[y])
  <2>1. CASE y = u
    <3>1. ps2[y] = r /\ y \in DOMAIN ps2
      BY <1>2, <2>1
    <3>2. \E n : ProcOK(ps2[y], n)
      BY <1>3, <3>1 DEF QueueOK, Procedures
    <3>3. r.kind # "include" /\ r.muted => r.reported = <<>>
      <4>1. PICK n : ProcOK(r, n)
        BY <3>1, <3>2
      <4>2. r.refused => r.reported = <<>>
        BY <4>1 DEF ProcOK
      <4>3. ~ r.refused => Running(r, n)
        BY <4>1 DEF ProcOK
      <4>4. Running(r, n) /\ r.kind # "include" /\ r.muted => r.reported = <<>>
        BY DEF Running
      <4> QED BY <4>2, <4>3, <4>4
    <3>4. r.kind = "write" => r.muted
      BY <1>1 DEF Cancelled
    <3> QED BY <3>1, <3>3, <3>4 DEF Succeeds
  <2>2. CASE y # u
    <3>1. ps2[y] = ps[y]
      BY <1>2, <2>2
    <3> QED BY <1>4, <3>1 DEF Succeeds
  <2> QED BY <2>1, <2>2
<1> QED BY <1>4 DEF WholeStep

LEMMA StartsWhole ==
    ASSUME GattInv, Starts
    PROVE  WholeStep
<1> PICK ps : ps = procs
  OBVIOUS
<1> PICK ps2 : ps2 = procs'
  OBVIOUS
<1>1. PICK x : Enters(ps, x) /\ ps2 = Append(ps, x)
  BY StartsAppend
<1>2. Sequence(ps)
  BY DEF GattInv, QueueInv
<1> PICK n \in Nat : n = Len(ps)
  BY <1>2, SequenceFacts
<1>3. \A y \in DOMAIN ps : ps2[y] = ps[y]
  BY <1>1, <1>2, AppendIs
<1>4. ASSUME NEW y \in DOMAIN ps, ps[y].reported = <<>> PROVE ~ Succeeds(ps2[y])
  BY <1>3, <1>4 DEF Succeeds
<1> QED BY <1>4 DEF WholeStep

LEMMA QuietWhole ==
    ASSUME procs' = procs
    PROVE  WholeStep
  BY DEF WholeStep, Succeeds

LEMMA WholeNext ==
    ASSUME GattInv, GattInv', ReadInv, WriteInv, [Next]_vars
    PROVE  WholeStep
<1>1. CASE Starts
  BY <1>1, StartsWhole
<1>2. CASE \E p \in DOMAIN procs : Cancel(p)
  BY <1>2, CancelWhole
<1>3. CASE Transmit
  BY <1>3, QuietWhole DEF Transmit
<1>4. CASE Completes
  BY <1>4, CompletesAnswered, AnsweredWhole
<1>5. CASE Abort
  BY <1>5, AbortAnswered, AnsweredWhole
<1>6. CASE Close
  BY <1>6, QuietWhole DEF Close
<1>7. CASE UNCHANGED vars
  BY <1>7, QuietWhole DEF vars
<1>8. CASE WriteFails \/ ReadFails
  BY <1>8, QuietWhole DEF WriteFails, ReadFails
<1> QED BY <1>1, <1>2, <1>3, <1>4, <1>5, <1>6, <1>7, <1>8 DEF Next

(* A value that is written whole is how the attribute's begins.                *)
LEMMA WholeBegins ==
    ASSUME NEW vs, ValuesOK(vs), NEW pr, Holds(pr), pr.kind = "write", Whole(vs, pr)
    PROVE  SubSeq(vs[pr.handle], 1, Len(pr.value)) = pr.value
<1> PICK v : v = vs[pr.handle]
  OBVIOUS
<1> PICK t : t = pr.value
  OBVIOUS
<1>1. Fits(pr)
  BY DEF Holds
<1> PICK m \in Nat : m = Len(t) /\ m \in WriteLens /\ DOMAIN t = 1..m
  BY <1>1, SequenceFacts, LimitsAssumption DEF Fits, Piece
<1>2. Piece(v, 0) /\ Sequence(t) /\ m <= Len(v)
  BY <1>1, WritesFitAssumption DEF Fits, Piece, ValuesOK
<1> PICK w : w = SubSeq(v, 1, m)
  OBVIOUS
<1>3. PartIs(w, v, 0, m)
  <2>1. w = SubSeq(v, 0 + 1, m)
    OBVIOUS
  <2> QED BY <1>2, <2>1, PartOfPiece
<1>4. Len(w) = m /\ Sequence(w)
  BY <1>3 DEF PartIs, Piece
<1>5. \A i \in 1..m : w[i] = t[i]
  <2>1. ASSUME NEW i \in 1..m PROVE w[i] = t[i]
    <3>1. i \in DOMAIN w /\ 0 + i = i
      BY <1>4, SequenceFacts
    <3>2. w[i] = v[i]
      BY <1>3, <3>1 DEF PartIs
    <3>3. v[i] = t[i]
      BY DEF Whole
    <3> QED BY <3>2, <3>3
  <2> QED BY <2>1
<1>6. w = t
  <2> PICK T : T = Elements(w) \cup Elements(t)
    OBVIOUS
  <2>1. w \in Seq(T) /\ t \in Seq(T)
    <3>1. Elements(w) \subseteq T /\ Elements(t) \subseteq T
      OBVIOUS
    <3> QED BY <1>2, <1>4, <3>1, SequenceIn
  <2> QED BY <1>4, <1>5, <2>1, SeqEqual
<1> QED BY <1>6

LEMMA WholeWritten ==
    ASSUME WholeStep, ReadInv', GattInv, NEW p \in DOMAIN procs, p \in DOMAIN procs',
           procs[p].reported = <<>>, procs'[p].kind = "write", procs'[p].reported # <<>>,
           procs'[p].reported[1].status = "ok", ~ procs'[p].beside,
           \A q \in DOMAIN procs : q > p => procs[q].kind # "write"
    PROVE  SubSeq(values'[procs'[p].handle], 1, Len(procs'[p].value)) = procs'[p].value
<1> PICK ps, u : ps = procs /\ u = p
  OBVIOUS
<1> PICK q2, ps2, vs2 : q2 = queue' /\ ps2 = procs' /\ vs2 = values'
  OBVIOUS
<1> PICK pr : pr = ps2[u]
  OBVIOUS
<1>1. Succeeds(procs'[p]) /\ Later(procs, p)
  BY DEF Succeeds, Later
<1>2. Whole(values', procs'[p])
  BY <1>1 DEF WholeStep
<1>3. Whole(vs2, pr)
  BY <1>2
<1>4. DataOK(q2, ps2) /\ ValuesOK(vs2)
  BY DEF ReadInv
<1>5. Holds(pr)
  BY <1>4 DEF DataOK, AllHold
<1>6. SubSeq(vs2[pr.handle], 1, Len(pr.value)) = pr.value
  BY <1>3, <1>4, <1>5, WholeBegins
<1> QED BY <1>6

(* A step takes no procedure away.                                           *)
LEMMA ProcsStay ==
    ASSUME GattInv, ReadInv, [Next]_vars
    PROVE  DOMAIN procs \subseteq DOMAIN procs'
<1>1. CASE Starts
  <2>1. PICK x : procs' = Append(procs, x)
    BY <1>1, StartsAppend
  <2>2. Sequence(procs)
    BY DEF GattInv, QueueInv
  <2> PICK n \in Nat : n = Len(procs)
    BY <2>2, SequenceFacts
  <2>3. DOMAIN procs = 1..n /\ DOMAIN procs' = 1..(n + 1)
    BY <2>1, <2>2, AppendIs
  <2> QED BY <2>3
<1>2. CASE \E p \in DOMAIN procs : Cancel(p)
  <2>1. PICK p, r : procs' = [procs EXCEPT ![p] = r]
    BY <1>2, CancelTurns
  <2> QED BY <2>1
<1>3. ASSUME NEW a, Answered(a) PROVE DOMAIN procs \subseteq DOMAIN procs'
  <2>1. HandleHead(a)
    BY <1>3 DEF Answered
  <2> QED BY <2>1 DEF HandleHead
<1>4. CASE Transmit
  BY <1>4 DEF Transmit
<1>5. CASE Completes
  BY <1>3, <1>5, CompletesAnswered
<1>6. CASE Abort
  BY <1>3, <1>6, AbortAnswered
<1>7. CASE Close
  BY <1>7 DEF Close
<1>8. CASE UNCHANGED vars
  BY <1>8 DEF vars
<1>9. CASE WriteFails \/ ReadFails
  BY <1>9 DEF WriteFails, ReadFails
<1> QED BY <1>1, <1>2, <1>4, <1>5, <1>6, <1>7, <1>8, <1>9 DEF Next

(* When a write that began beside no other, with no other begun since, reports   *)
(* success, the attribute begins with the whole of its value, written in parts  *)
(* or not, and whatever an earlier write left prepared (WrittenWhole).         *)
THEOREM WritesWhole == Spec => WrittenWhole
<1>1. Init => GattInv /\ ReadInv /\ WriteInv
  BY InvInit, ReadInit, WriteInit
<1>2. (GattInv /\ ReadInv /\ WriteInv) /\ [Next]_vars => (GattInv /\ ReadInv /\ WriteInv)'
  BY InvStep, ReadStep, WriteStep
<1>3. /\ GattInv /\ ReadInv /\ WriteInv
      /\ (GattInv /\ ReadInv /\ WriteInv)' /\ [Next]_vars
      => \A p \in DOMAIN procs :
           LET pr == procs'[p] IN
           /\ pr.kind = "write" /\ procs[p].reported = <<>> /\ pr.reported # <<>>
           /\ pr.reported[1].status = "ok" /\ ~ pr.beside
           /\ \A q \in DOMAIN procs : q > p => procs[q].kind # "write"
           => SubSeq(values'[pr.handle], 1, Len(pr.value)) = pr.value
  <2> SUFFICES ASSUME GattInv, ReadInv, WriteInv, GattInv', ReadInv', [Next]_vars,
                      NEW p \in DOMAIN procs,
                      procs[p].reported = <<>>, procs'[p].kind = "write", procs'[p].reported # <<>>,
                      procs'[p].reported[1].status = "ok", ~ procs'[p].beside,
                      \A q \in DOMAIN procs : q > p => procs[q].kind # "write"
               PROVE  SubSeq(values'[procs'[p].handle], 1, Len(procs'[p].value)) = procs'[p].value
    OBVIOUS
  <2>1. WholeStep
    BY WholeNext
  <2>2. p \in DOMAIN procs'
    BY ProcsStay
  <2> QED BY <2>1, <2>2, WholeWritten
<1> QED BY <1>1, <1>2, <1>3, PTL DEF Spec, WrittenWhole

----------------------------------------------------------------------------
(* What a search has found.                                                  *)

(* Not a search whose requests were not all answered, or that was cancelled.   *)
Clear(pr) == pr.kind \in Discoveries /\ ~ pr.flawed /\ ~ pr.muted

(* All of W that begins below h. *)
GotBelow(W, s, h) == Sequence(s) /\ Sorted(s) /\ Elements(s) = {e \in W : e.first < h}

Complete(pr, s) ==
    /\ Sorted(s) /\ Elements(s) \subseteq ToFind(pr)
    /\ \A e \in ToFind(pr) : e \in Elements(s) \/ (pr.kind = "char" /\ e.first = pr.end)

(* A request asks for the rest of the range, and what is before it was found.   *)
Looks(c, pr) ==
    Clear(pr) => c.to = pr.end /\ pr.handle <= c.from /\ GotBelow(ToFind(pr), pr.found, c.from)

Searched(pr) ==
    Clear(pr) => /\ pr.kind # "char" => pr.end = MaxHandle
                 /\ pr.reported # <<>> => Complete(pr, pr.reported[1].data)

LEMMA ToFindFrom ==
    ASSUME NEW pr
    PROVE  /\ Apart(Elements(Table(pr.kind))) /\ ToFind(pr) \subseteq Elements(Table(pr.kind))
           /\ ToFind(pr) = {e \in Elements(Table(pr.kind)) :
                 /\ e.first \in pr.handle..pr.end
                 /\ pr.kind = "primary_uuid" => e.uuid = pr.uuid
                 /\ pr.kind = "char" => pr.uuid \in {"any", e.uuid}}
<1>1. Apart(Elements(Table(pr.kind)))
  BY TableApart
<1>2. ToFind(pr) = {e \in Elements(Table(pr.kind)) :
         /\ e.first \in pr.handle..pr.end
         /\ pr.kind = "primary_uuid" => e.uuid = pr.uuid
         /\ pr.kind = "char" => pr.uuid \in {"any", e.uuid}}
  BY DEF ToFind, Elements
<1> QED BY <1>1, <1>2

(* What an answer adds to what was found below where it was asked.             *)
LEMMA GotMore ==
    ASSUME NEW T, Apart(T), NEW W, W \subseteq T, NEW s, NEW h \in Nat, GotBelow(W, s, h),
           NEW l \in T, h <= l.first, NEW k, Sequence(k), Sorted(k),
           Elements(k) = {e \in W : h <= e.first /\ e.first <= l.first},
           NEW m, m = l.first + 1 \/ m = l.last + 1
    PROVE  GotBelow(W, s \o k, m) /\ m \in Nat /\ h <= m
<1>1. \A e \in T : e.first \in Nat /\ e.last \in Nat /\ e.first <= e.last
  BY DEF Apart, Spans
<1>2. Sequence(s) /\ Sorted(s) /\ Elements(s) = {e \in W : e.first < h}
  BY DEF GotBelow
<1>3. \A e \in W : e = l \/ e.last < l.first \/ l.last < e.first
  BY DEF Apart
<1>4. ASSUME NEW e \in W PROVE e.first < m <=> e.first <= l.first
  <2>1. e.first \in Nat /\ e.last \in Nat /\ e.first <= e.last
    BY <1>1
  <2>2. l.first \in Nat /\ l.last \in Nat /\ l.first <= l.last
    BY <1>1
  <2>3. CASE e = l
    BY <2>2, <2>3
  <2>4. CASE e.last < l.first
    BY <2>1, <2>2, <2>4
  <2>5. CASE l.last < e.first
    BY <2>1, <2>2, <2>5
  <2> QED BY <1>3, <2>3, <2>4, <2>5
<1>5. ASSUME NEW e \in Elements(s), NEW g \in Elements(k) PROVE e.last < g.first
  <2>1. e \in T /\ g \in T /\ e.first < h /\ h <= g.first
    BY <1>2
  <2>2. e = g \/ e.last < g.first \/ g.last < e.first
    BY <2>1 DEF Apart
  <2>3. e.first \in Nat /\ g.first \in Nat /\ g.last \in Nat /\ g.first <= g.last
    BY <1>1, <2>1
  <2> QED BY <2>1, <2>2, <2>3
<1>6. Sequence(s \o k) /\ Sorted(s \o k) /\ Elements(s \o k) = Elements(s) \cup Elements(k)
  BY <1>2, <1>5, SequenceConcat, SortedConcat, ElementsConcat
<1>7. Elements(s) \cup Elements(k) = {e \in W : e.first < m}
  <2>1. \A e \in W : e.first \in Nat /\ l.first \in Nat
    BY <1>1
  <2>2. \A e \in W : e.first < h \/ h <= e.first
    BY <2>1
  <2>3. \A e \in W : e.first < h => e.first <= l.first
    BY <2>1
  <2> QED BY <1>2, <1>4, <2>2, <2>3
<1>8. m \in Nat /\ h <= m
  <2>1. l.first \in Nat /\ l.last \in Nat /\ l.first <= l.last
    BY <1>1
  <2> QED BY <2>1
<1> QED BY <1>6, <1>7, <1>8 DEF GotBelow

(* A search and its request.                                                  *)
Asking(c, pr) ==
    /\ Alive(pr) /\ pr.kind \in Discoveries /\ c.ask = pr.kind
    /\ c.from \in Nat /\ c.to = pr.end /\ pr.handle <= c.from
    /\ GotBelow(ToFind(pr), pr.found, c.from)
    /\ pr.kind # "char" => pr.end = MaxHandle

(* The elements it takes of an answer. *)
Wanted(pr, items) == IF pr.kind = "char" THEN OfUuid(items, pr.uuid) ELSE items

LEMMA AskedIsRest ==
    ASSUME NEW c, NEW pr, Asking(c, pr)
    PROVE  /\ AskedFor(c, pr) \subseteq Elements(Table(pr.kind))
           /\ \A e \in AskedFor(c, pr) : c.from <= e.first
           /\ {e \in ToFind(pr) : c.from <= e.first}
                = {e \in AskedFor(c, pr) : pr.kind = "char" => pr.uuid \in {"any", e.uuid}}
<1> PICK T : T = Elements(Table(pr.kind))
  OBVIOUS
<1> PICK h, l : h = pr.handle /\ l = pr.end
  OBVIOUS
<1>1. c.ask = pr.kind /\ c.from \in Nat /\ c.to = l /\ h <= c.from /\ h \in Nat /\ l \in Nat
  BY LimitsAssumption DEF Asking, Alive
<1>2. AskedFor(c, pr) = {e \in T : e.first \in c.from..l /\ (pr.kind = "primary_uuid" => e.uuid = pr.uuid)}
  BY <1>1 DEF AskedFor
<1>3. ToFind(pr) = {e \in T :
         /\ e.first \in h..l
         /\ pr.kind = "primary_uuid" => e.uuid = pr.uuid
         /\ pr.kind = "char" => pr.uuid \in {"any", e.uuid}}
  BY ToFindFrom
<1>4. \A e \in T : e.first \in c.from..l => c.from <= e.first
  BY <1>1
<1>5. ASSUME NEW e \in T PROVE e.first \in c.from..l <=> e.first \in h..l /\ c.from <= e.first
  <2>1. e.first \in Nat
    BY ToFindFrom DEF Apart, Spans
  <2> QED BY <1>1, <2>1
<1> QED BY <1>2, <1>3, <1>4, <1>5

LEMMA AnswerAdds ==
    ASSUME NEW c, NEW pr, Asking(c, pr), NEW items, FirstOf(items, AskedFor(c, pr)),
           NEW l, l = LastOf(items), NEW m, m = l.first + 1 \/ m = l.last + 1
    PROVE  /\ GotBelow(ToFind(pr), pr.found \o Wanted(pr, items), m)
           /\ m \in Nat /\ pr.handle <= m
           /\ l.first \in 1..MaxHandle /\ l.last \in 1..MaxHandle
<1> PICK T : T = Elements(Table(pr.kind))
  OBVIOUS
<1> PICK W : W = ToFind(pr)
  OBVIOUS
<1> PICK E : E = AskedFor(c, pr)
  OBVIOUS
<1> PICK k : k = Wanted(pr, items)
  OBVIOUS
<1>1. Apart(T) /\ W \subseteq T
  BY ToFindFrom
<1>2. E \subseteq T /\ (\A e \in E : c.from <= e.first)
      /\ {e \in W : c.from <= e.first} = {e \in E : pr.kind = "char" => pr.uuid \in {"any", e.uuid}}
  BY AskedIsRest
<1>3. Sequence(items) /\ Sorted(items) /\ l \in E /\ Elements(items) = {e \in E : e.first <= l.first}
  BY DEF FirstOf
<1>4. /\ Sequence(k) /\ Sorted(k)
      /\ Elements(k) = {e \in Elements(items) : pr.kind = "char" => pr.uuid \in {"any", e.uuid}}
  <2>1. CASE pr.kind = "char"
    <3>1. k = OfUuid(items, pr.uuid)
      BY <2>1 DEF Wanted
    <3> QED BY <1>3, <2>1, <3>1, OfUuidKeeps
  <2>2. CASE pr.kind # "char"
    <3>1. k = items
      BY <2>2 DEF Wanted
    <3> QED BY <1>3, <2>2, <3>1
  <2> QED BY <2>1, <2>2
<1>5. Elements(k) = {e \in W : c.from <= e.first /\ e.first <= l.first}
  BY <1>2, <1>3, <1>4
<1>6. GotBelow(W, pr.found, c.from) /\ c.from \in Nat /\ pr.handle <= c.from /\ pr.handle \in Nat
  BY LimitsAssumption DEF Asking, Alive
<1>7. l \in T /\ c.from <= l.first
  BY <1>2, <1>3
<1>8. GotBelow(W, pr.found \o k, m) /\ m \in Nat /\ c.from <= m
  BY <1>1, <1>3, <1>4, <1>5, <1>6, <1>7, GotMore
<1>9. l.first \in 1..MaxHandle /\ l.last \in 1..MaxHandle
  BY <1>1, <1>7 DEF Apart, Spans
<1> QED BY <1>6, <1>8, <1>9

(* Nothing is left of the range, or nothing in it.                             *)
LEMMA AllFound ==
    ASSUME NEW c, NEW pr, Asking(c, pr), NEW s, NEW m \in Nat, GotBelow(ToFind(pr), s, m),
           pr.end <= m, pr.kind = "char" \/ pr.end < m
    PROVE  Complete(pr, s)
<1> PICK W : W = ToFind(pr)
  OBVIOUS
<1>1. Sorted(s) /\ Elements(s) = {e \in W : e.first < m}
  BY DEF GotBelow
<1>2. ASSUME NEW e \in W PROVE e \in Elements(s) \/ (pr.kind = "char" /\ e.first = pr.end)
  <2>1. e.first \in pr.handle..pr.end
    BY ToFindFrom
  <2>2. pr.handle \in Nat /\ pr.end \in Nat
    BY LimitsAssumption DEF Asking, Alive
  <2> PICK f, l : f = e.first /\ l = pr.end
    OBVIOUS
  <2>3. f \in Nat /\ f <= l /\ l \in Nat
    BY <2>1, <2>2
  <2>4. CASE f < m
    BY <1>1, <2>4
  <2>5. CASE ~ (f < m)
    <3>1. f = l /\ ~ (l < m)
      BY <2>3, <2>5
    <3> QED BY <3>1
  <2> QED BY <2>4, <2>5
<1> QED BY <1>1, <1>2 DEF Complete

LEMMA NoneLeft ==
    ASSUME NEW c, NEW pr, Asking(c, pr), AskedFor(c, pr) = {}
    PROVE  Complete(pr, pr.found)
<1> PICK W : W = ToFind(pr)
  OBVIOUS
<1>1. GotBelow(W, pr.found, c.from) /\ c.from \in Nat
  BY DEF Asking
<1>2. {e \in W : c.from <= e.first} = {}
  BY AskedIsRest
<1>3. \A e \in W : e.first \in Nat
  BY ToFindFrom DEF Apart, Spans
<1>4. \A e \in W : e.first < c.from
  BY <1>1, <1>2, <1>3
<1>5. Sorted(pr.found) /\ Elements(pr.found) = W
  BY <1>1, <1>4 DEF GotBelow
<1> QED BY <1>5 DEF Complete

----------------------------------------------------------------------------
(* How a search ends or goes on.                                              *)

SearchEnds(pr, w) ==
    \E status, data : w = Then(ReportAndFree(pr, status, data), <<>>) /\ Complete(pr, data)

SearchGoesOn(c, pr, w) ==
    \E data : \E m \in Nat :
        /\ w = Then([pr EXCEPT !.found = data], <<Command(c.proc, pr.kind, m, pr.end, <<>>)>>)
        /\ pr.handle <= m /\ GotBelow(ToFind(pr), data, m)

SearchDone(r, s) == Searched(r) /\ \A j \in DOMAIN s : Looks(s[j], r)

SameSearch(r, pr) == r.kind = pr.kind /\ r.uuid = pr.uuid /\ r.handle = pr.handle /\ r.end = pr.end

LEMMA SameToFind ==
    ASSUME NEW r, NEW pr, SameSearch(r, pr)
    PROVE  /\ ToFind(r) = ToFind(pr)
           /\ \A s : Complete(pr, s) => Complete(r, s)
<1>1. ToFind(r) = ToFind(pr)
  BY ToFindFrom DEF SameSearch
<1> QED BY <1>1 DEF Complete, SameSearch

LEMMA ReportedSearch ==
    ASSUME NEW pr, DOMAIN pr = ProcFields, pr.reported = <<>>, NEW status, NEW data,
           NEW r, r = ReportAndFree(pr, status, data)
    PROVE  SameSearch(r, pr) /\ r.reported[1].data = data
<1> PICK u : u = Report(pr, status, data)
  OBVIOUS
<1>1. u.reported[1].data = data /\ DOMAIN u = ProcFields
  BY ReportData DEF Keeps
<1>2. SameSearch(u, pr)
  BY DEF Report, ProcFields, SameSearch
<1>3. r = [u EXCEPT !.held = FALSE]
  BY DEF ReportAndFree
<1>4. r.reported = u.reported /\ SameSearch(r, u)
  BY <1>1, <1>3 DEF ProcFields, SameSearch
<1> QED BY <1>1, <1>2, <1>4 DEF SameSearch

LEMMA EndsSearched ==
    ASSUME NEW c, NEW pr, Asking(c, pr), NEW w, SearchEnds(pr, w)
    PROVE  SearchDone(w.proc, w.sends)
<1> PICK status, data : w = Then(ReportAndFree(pr, status, data), <<>>) /\ Complete(pr, data)
  BY DEF SearchEnds
<1> PICK r : r = ReportAndFree(pr, status, data)
  OBVIOUS
<1>1. w.proc = r /\ w.sends = <<>>
  BY ThenFacts
<1>2. DOMAIN pr = ProcFields /\ pr.reported = <<>> /\ (pr.kind # "char" => pr.end = MaxHandle)
  BY DEF Asking, Alive
<1>3. SameSearch(r, pr) /\ r.reported[1].data = data
  BY <1>2, ReportedSearch
<1>4. Complete(r, data)
  BY <1>3, SameToFind
<1>5. Searched(r)
  BY <1>2, <1>3, <1>4 DEF Searched, SameSearch
<1>6. DOMAIN <<>> = {}
  OBVIOUS
<1> QED BY <1>1, <1>5, <1>6 DEF SearchDone

LEMMA GoesOnSearched ==
    ASSUME NEW c, NEW pr, Asking(c, pr), NEW w, SearchGoesOn(c, pr, w)
    PROVE  SearchDone(w.proc, w.sends)
<1> PICK data : \E m \in Nat :
        /\ w = Then([pr EXCEPT !.found = data], <<Command(c.proc, pr.kind, m, pr.end, <<>>)>>)
        /\ pr.handle <= m /\ GotBelow(ToFind(pr), data, m)
  BY DEF SearchGoesOn
<1> PICK m \in Nat :
        /\ w = Then([pr EXCEPT !.found = data], <<Command(c.proc, pr.kind, m, pr.end, <<>>)>>)
        /\ pr.handle <= m /\ GotBelow(ToFind(pr), data, m)
  OBVIOUS
<1> PICK r : r = [pr EXCEPT !.found = data]
  OBVIOUS
<1> PICK d : d = Command(c.proc, pr.kind, m, pr.end, <<>>)
  OBVIOUS
<1>1. w.proc = r /\ w.sends = <<d>>
  BY ThenFacts
<1>2. DOMAIN pr = ProcFields /\ pr.reported = <<>> /\ (pr.kind # "char" => pr.end = MaxHandle)
  BY DEF Asking, Alive
<1>3. SameSearch(r, pr) /\ r.reported = <<>> /\ r.found = data
  BY <1>2 DEF ProcFields, SameSearch
<1>4. ToFind(r) = ToFind(pr)
  BY <1>3, SameToFind
<1>5. Searched(r)
  BY <1>2, <1>3 DEF Searched, SameSearch
<1>6. d.from = m /\ d.to = pr.end
  BY DEF Command
<1>7. Looks(d, r)
  BY <1>3, <1>4, <1>6 DEF Looks, SameSearch
<1>8. DOMAIN <<d>> = {1} /\ <<d>>[1] = d
  BY SequenceOne
<1>9. \A j \in DOMAIN <<d>> : Looks(<<d>>[j], r)
  BY <1>7, <1>8
<1> QED BY <1>1, <1>5, <1>9 DEF SearchDone

(* The answers a clear search gets.                                           *)
ClearAnswer(c, pr, a) ==
    \/ a.status = "ok" /\ ~ Failed(a) /\ FirstOf(a.items, AskedFor(c, pr))
    \/ a.status = "not_found" /\ Failed(a) /\ AskedFor(c, pr) = {}

LEMMA PrimarySearches ==
    ASSUME NEW c, NEW pr, Asking(c, pr), pr.kind = "primary", NEW a, ClearAnswer(c, pr, a),
           NEW w, w = primary_all_cb(c.proc, pr, a)
    PROVE  SearchEnds(pr, w) \/ SearchGoesOn(c, pr, w)
<1>1. pr.end = MaxHandle /\ MaxHandle \in Nat
  BY LimitsAssumption DEF Asking
<1>2. CASE a.status = "not_found" /\ Failed(a) /\ AskedFor(c, pr) = {}
  <2>1. w = Then(ReportAndFree(pr, primary_status(a.status), pr.found), <<>>)
    BY <1>2 DEF primary_all_cb
  <2>2. Complete(pr, pr.found)
    BY <1>2, NoneLeft
  <2> QED BY <2>1, <2>2 DEF SearchEnds
<1>3. CASE a.status = "ok" /\ ~ Failed(a) /\ FirstOf(a.items, AskedFor(c, pr))
  <2> PICK end : end = LastOf(a.items).last
    OBVIOUS
  <2> PICK all : all = pr.found \o a.items
    OBVIOUS
  <2> PICK m : m = end + 1
    OBVIOUS
  <2>0. a.items # <<>> /\ Wanted(pr, a.items) = a.items
    BY <1>3 DEF FirstOf, Wanted
  <2>1. GotBelow(ToFind(pr), all, m) /\ m \in Nat /\ pr.handle <= m /\ end \in 1..MaxHandle
    BY <1>3, <2>0, AnswerAdds
  <2>2. w = IF IsLast(end) THEN Then(ReportAndFree(pr, "ok", all), <<>>)
            ELSE Then([pr EXCEPT !.found = all], <<Command(c.proc, pr.kind, Following(end), MaxHandle, <<>>)>>)
    BY <1>3, <2>0 DEF primary_all_cb, encode_discover_primary
  <2>3. CASE end = MaxHandle
    <3>1. w = Then(ReportAndFree(pr, "ok", all), <<>>)
      BY <2>2, <2>3 DEF IsLast
    <3>2. pr.end <= m /\ pr.end < m
      BY <1>1, <2>3
    <3>3. Complete(pr, all)
      BY <2>1, <3>2, AllFound
    <3> QED BY <3>1, <3>3 DEF SearchEnds
  <2>4. CASE end # MaxHandle
    <3>1. Following(end) = m
      BY <1>1, <2>1, <2>4, FollowingFacts
    <3>2. w = Then([pr EXCEPT !.found = all], <<Command(c.proc, pr.kind, m, pr.end, <<>>)>>)
      BY <1>1, <2>2, <2>4, <3>1 DEF IsLast
    <3> QED BY <2>1, <3>2 DEF SearchGoesOn
  <2> QED BY <2>3, <2>4
<1> QED BY <1>2, <1>3 DEF ClearAnswer

LEMMA PrimaryByUuidSearches ==
    ASSUME NEW c, NEW pr, Asking(c, pr), pr.kind = "primary_uuid", NEW a, ClearAnswer(c, pr, a),
           NEW w, w = primary_by_uuid_cb(c.proc, pr, a)
    PROVE  SearchEnds(pr, w) \/ SearchGoesOn(c, pr, w)
<1>1. pr.end = MaxHandle /\ MaxHandle \in Nat
  BY LimitsAssumption DEF Asking
<1>2. CASE a.status = "not_found" /\ Failed(a) /\ AskedFor(c, pr) = {}
  <2>1. w = Then(ReportAndFree(pr, primary_status(a.status), pr.found), <<>>)
    BY <1>2 DEF primary_by_uuid_cb
  <2>2. Complete(pr, pr.found)
    BY <1>2, NoneLeft
  <2> QED BY <2>1, <2>2 DEF SearchEnds
<1>3. CASE a.status = "ok" /\ ~ Failed(a) /\ FirstOf(a.items, AskedFor(c, pr))
  <2> PICK end : end = LastOf(a.items).last
    OBVIOUS
  <2> PICK all : all = pr.found \o a.items
    OBVIOUS
  <2> PICK m : m = end + 1
    OBVIOUS
  <2>0. a.items # <<>> /\ Wanted(pr, a.items) = a.items
    BY <1>3 DEF FirstOf, Wanted
  <2>1. GotBelow(ToFind(pr), all, m) /\ m \in Nat /\ pr.handle <= m /\ end \in 1..MaxHandle
    BY <1>3, <2>0, AnswerAdds
  <2>2. w = IF IsLast(end) THEN Then(ReportAndFree(pr, "ok", all), <<>>)
            ELSE Then([pr EXCEPT !.found = all], <<Command(c.proc, pr.kind, Following(end), MaxHandle, <<>>)>>)
    BY <1>3, <2>0 DEF primary_by_uuid_cb, encode_discover_primary
  <2>3. CASE end = MaxHandle
    <3>1. w = Then(ReportAndFree(pr, "ok", all), <<>>)
      BY <2>2, <2>3 DEF IsLast
    <3>2. pr.end <= m /\ pr.end < m
      BY <1>1, <2>3
    <3>3. Complete(pr, all)
      BY <2>1, <3>2, AllFound
    <3> QED BY <3>1, <3>3 DEF SearchEnds
  <2>4. CASE end # MaxHandle
    <3>1. Following(end) = m
      BY <1>1, <2>1, <2>4, FollowingFacts
    <3>2. w = Then([pr EXCEPT !.found = all], <<Command(c.proc, pr.kind, m, pr.end, <<>>)>>)
      BY <1>1, <2>2, <2>4, <3>1 DEF IsLast
    <3> QED BY <2>1, <3>2 DEF SearchGoesOn
  <2> QED BY <2>3, <2>4
<1> QED BY <1>2, <1>3 DEF ClearAnswer

LEMMA CharSearches ==
    ASSUME NEW c, NEW pr, Asking(c, pr), pr.kind = "char", NEW a, ClearAnswer(c, pr, a),
           NEW w, w = char_discovered_cb(c.proc, pr, a)
    PROVE  SearchEnds(pr, w) \/ SearchGoesOn(c, pr, w)
<1>1. pr.end \in 1..MaxHandle /\ MaxHandle \in Nat
  BY LimitsAssumption DEF Asking, Alive
<1>2. CASE a.status = "not_found" /\ Failed(a) /\ AskedFor(c, pr) = {}
  <2>1. \E status : w = Then(ReportAndFree(pr, status, pr.found), <<>>)
    BY <1>2 DEF char_discovered_cb
  <2>2. Complete(pr, pr.found)
    BY <1>2, NoneLeft
  <2> QED BY <2>1, <2>2 DEF SearchEnds
<1>3. CASE a.status = "ok" /\ ~ Failed(a) /\ FirstOf(a.items, AskedFor(c, pr))
  <2> PICK last : last = LastOf(a.items).first
    OBVIOUS
  <2> PICK all : all = pr.found \o OfUuid(a.items, pr.uuid)
    OBVIOUS
  <2> PICK m : m = last + 1
    OBVIOUS
  <2>0. a.items # <<>> /\ Wanted(pr, a.items) = OfUuid(a.items, pr.uuid)
    BY <1>3 DEF FirstOf, Wanted
  <2>1. GotBelow(ToFind(pr), all, m) /\ m \in Nat /\ pr.handle <= m /\ last \in 1..MaxHandle
    BY <1>3, <2>0, AnswerAdds
  <2>2. \/ /\ last # 0 /\ last + 1 < pr.end
           /\ w = Then([pr EXCEPT !.found = all], <<Command(c.proc, "char", Following(last), pr.end, <<>>)>>)
        \/ /\ ~ (last # 0 /\ last + 1 < pr.end)
           /\ \E status : w = Then(ReportAndFree(pr, status, all), <<>>)
    BY <1>3, <2>0 DEF char_discovered_cb
  <2>3. CASE m < pr.end
    <3>1. last # 0 /\ last # MaxHandle /\ last \in 0..MaxHandle
      BY <1>1, <2>1, <2>3
    <3>2. Following(last) = m
      BY <3>1, FollowingFacts
    <3>3. w = Then([pr EXCEPT !.found = all], <<Command(c.proc, pr.kind, m, pr.end, <<>>)>>)
      BY <2>2, <2>3, <3>1, <3>2
    <3> QED BY <2>1, <3>3 DEF SearchGoesOn
  <2>4. CASE ~ (m < pr.end)
    <3>1. \E status : w = Then(ReportAndFree(pr, status, all), <<>>)
      BY <2>2, <2>4
    <3>2. pr.end <= m
      BY <1>1, <2>1, <2>4
    <3>3. Complete(pr, all)
      BY <2>1, <3>2, AllFound
    <3> QED BY <3>1, <3>3 DEF SearchEnds
  <2> QED BY <2>3, <2>4
<1> QED BY <1>2, <1>3 DEF ClearAnswer

----------------------------------------------------------------------------
(* The head of the queue is of a search that is answered.                     *)

LEMMA MarkedSearch ==
    ASSUME NEW x, DOMAIN x = ProcFields, NEW c, NEW a, NEW pr, pr = Marked(x, c, a)
    PROVE  /\ SameSearch(pr, x) /\ pr.found = x.found /\ pr.reported = x.reported
           /\ Clear(pr) => Clear(x) /\ (a.status = "ok" \/ Ending(c, a))
<1> PICK y \in BOOLEAN : y <=> (x.flawed \/ (a.status # "ok" /\ ~ Ending(c, a)))
  OBVIOUS
<1>1. pr = [x EXCEPT !.flawed = y]
  <2>1. (x.flawed \/ (a.status # "ok" /\ ~ Ending(c, a))) = y
    OBVIOUS
  <2> QED BY <2>1, Zenon DEF Marked
<1>2. /\ pr.kind = x.kind /\ pr.uuid = x.uuid /\ pr.handle = x.handle /\ pr.end = x.end
      /\ pr.found = x.found /\ pr.reported = x.reported
  BY <1>1 DEF ProcFields
<1>3. pr.flawed = y /\ (~ pr.muted => ~ x.muted)
  BY <1>1 DEF ProcFields
<1>4. ~ pr.flawed => ~ x.flawed /\ (a.status = "ok" \/ Ending(c, a))
  BY <1>3
<1> QED BY <1>2, <1>3, <1>4 DEF SameSearch, Clear

LEMMA KeepsClear ==
    ASSUME NEW r, NEW pr, Keeps(r, pr), Clear(r)
    PROVE  Clear(pr)
<1>1. r.kind = pr.kind /\ (~ r.flawed => ~ pr.flawed) /\ (~ r.muted => ~ pr.muted)
  BY DEF Keeps
<1> QED BY <1>1 DEF Clear

LEMMA NotClear ==
    ASSUME NEW r, ~ Clear(r)
    PROVE  Searched(r) /\ \A c : Looks(c, r)
  BY DEF Searched, Looks

LEMMA SearchAnswered ==
    ASSUME NEW c, NEW pr, Asking(c, pr), c.func, NEW a, ClearAnswer(c, pr, a),
           NEW w, w = Done(c, pr, a), NEW r, r = Notify(c, w.proc)
    PROVE  SearchDone(r, w.sends)
<1>1. w = Callback(c, pr, a)
  BY DEF Done
<1>2. c.ask = pr.kind /\ pr.kind \in {"primary", "primary_uuid", "char"}
  BY DEF Asking, Discoveries
<1>3. r = w.proc
  BY <1>2 DEF Notify
<1>4. CASE pr.kind = "primary"
  <2>1. w = primary_all_cb(c.proc, pr, a)
    BY <1>1, <1>2, <1>4 DEF Callback
  <2> QED BY <1>3, <1>4, <2>1, PrimarySearches, EndsSearched, GoesOnSearched
<1>5. CASE pr.kind = "primary_uuid"
  <2>1. w = primary_by_uuid_cb(c.proc, pr, a)
    BY <1>1, <1>2, <1>5 DEF Callback
  <2> QED BY <1>3, <1>5, <2>1, PrimaryByUuidSearches, EndsSearched, GoesOnSearched
<1>6. CASE pr.kind = "char"
  <2>1. w = char_discovered_cb(c.proc, pr, a)
    BY <1>1, <1>2, <1>6 DEF Callback
  <2> QED BY <1>3, <1>6, <2>1, CharSearches, EndsSearched, GoesOnSearched
<1> QED BY <1>2, <1>4, <1>5, <1>6

(* What the command and the procedure know when it is answered. *)
LEMMA StillAsking ==
    ASSUME NEW c, NEW x, NEW pr, SameSearch(pr, x), pr.found = x.found,
           Clear(pr), Clear(x), Alive(pr), CommandOK(c, pr), Looks(c, x), Searched(x)
    PROVE  Asking(c, pr) /\ c.func
<1>1. pr.kind \in Discoveries /\ pr.kind # "include" /\ ~ pr.muted
  BY DEF Clear, Discoveries
<1>2. Belongs(c.ask, pr) /\ c.from \in 0..MaxHandle /\ (pr.kind # "include" => (c.func <=> ~ pr.muted))
  BY DEF CommandOK
<1>3. c.ask = pr.kind
  BY <1>1, <1>2 DEF Belongs, Discoveries
<1>4. c.func
  BY <1>1, <1>2
<1>5. c.from \in Nat
  BY <1>2, LimitsAssumption
<1>6. c.to = x.end /\ x.handle <= c.from /\ GotBelow(ToFind(x), x.found, c.from)
  BY DEF Looks
<1>7. x.kind # "char" => x.end = MaxHandle
  BY DEF Searched
<1>8. ToFind(pr) = ToFind(x)
  BY SameToFind
<1> QED BY <1>1, <1>3, <1>4, <1>5, <1>6, <1>7, <1>8 DEF Asking, SameSearch

LEMMA ToldClear ==
    ASSUME NEW c, NEW x, NEW pr, SameSearch(pr, x), NEW a, Tells(c, x, a), Asking(c, pr),
           a.status = "ok" \/ Ending(c, a)
    PROVE  ClearAnswer(c, pr, a)
<1>1. AskedFor(c, pr) = AskedFor(c, x)
  BY DEF AskedFor, SameSearch
<1>2. c.ask \in Tables
  BY DEF Asking, Discoveries, Tables
<1>3. /\ a.status = "ok" => FirstOf(a.items, AskedFor(c, pr))
      /\ a.status = "not_found" => AskedFor(c, pr) = {}
  BY <1>1, <1>2 DEF Tells
<1> QED BY <1>3 DEF ClearAnswer, Ending, Failed

LEMMA HeadSearches ==
    ASSUME NEW q, NEW ps, NEW c, NEW a, NEW q2, NEW ps2, NEW x, x = ps[c.proc], NEW pr, NEW r, NEW s,
           HeadTurns(q, ps, c, a, q2, ps2, pr, r, s), Tells(c, x, a), Looks(c, x), Searched(x)
    PROVE  SearchDone(r, s)
<1> PICK n : n = Count(q, c.proc)
  OBVIOUS
<1>1. /\ pr = Marked(x, c, a) /\ HeadReads(c, pr, a, n) /\ DOMAIN x = ProcFields
      /\ r = Notify(c, Done(c, pr, a).proc) /\ s = Done(c, pr, a).sends /\ Handled(r, s, c, pr, n)
  BY DEF HeadTurns
<1>2. n \in Nat /\ n > 0 /\ ProcOK(pr, n) /\ CommandOK(c, pr)
  BY <1>1 DEF HeadReads
<1>3. Alive(pr) /\ Keeps(r, pr)
  BY <1>1, <1>2, HeadAlive DEF Handled
<1>4. CASE ~ Clear(pr)
  <2>1. ~ Clear(r)
    BY <1>3, <1>4, KeepsClear
  <2> QED BY <2>1, NotClear DEF SearchDone
<1>5. CASE Clear(pr)
  <2>1. SameSearch(pr, x) /\ pr.found = x.found /\ Clear(x) /\ (a.status = "ok" \/ Ending(c, a))
    BY <1>1, <1>5, MarkedSearch
  <2>2. Asking(c, pr) /\ c.func
    BY <1>2, <1>3, <1>5, <2>1, StillAsking
  <2>3. ClearAnswer(c, pr, a)
    BY <2>1, <2>2, ToldClear
  <2> PICK w : w = Done(c, pr, a)
    OBVIOUS
  <2>4. r = Notify(c, w.proc) /\ s = w.sends
    BY <1>1
  <2> QED BY <2>2, <2>3, <2>4, SearchAnswered
<1> QED BY <1>4, <1>5

----------------------------------------------------------------------------
(* The invariant of searches, kept by a queue.                               *)

LookOK(q, ps) ==
    /\ \A p \in DOMAIN ps : Searched(ps[p])
    /\ \A i \in DOMAIN q : Looks(q[i], ps[q[i].proc])

FindInv == LookOK(queue, procs)

(* The commands are new ones of procedure p, or old ones of others. *)
LooksOn(q2, q, p, r) ==
    \A j \in DOMAIN q2 : \/ q2[j].proc = p /\ Looks(q2[j], r)
                         \/ \E k \in DOMAIN q : q[k].proc # p /\ q2[j] = q[k]

LEMMA LookAfter ==
    ASSUME NEW q, NEW ps, QueueOK(q, ps), LookOK(q, ps), NEW p \in DOMAIN ps, NEW r, Searched(r),
           NEW ps2, ps2 = [ps EXCEPT ![p] = r], NEW q2, LooksOn(q2, q, p, r)
    PROVE  LookOK(q2, ps2)
<1>1. DOMAIN ps2 = DOMAIN ps /\ ps2[p] = r /\ \A y \in DOMAIN ps : y # p => ps2[y] = ps[y]
  OBVIOUS
<1>2. \A y \in DOMAIN ps2 : Searched(ps2[y])
  BY <1>1 DEF LookOK
<1>3. ASSUME NEW j \in DOMAIN q2 PROVE Looks(q2[j], ps2[q2[j].proc])
  <2>1. CASE q2[j].proc = p /\ Looks(q2[j], r)
    BY <1>1, <2>1
  <2>2. CASE \E k \in DOMAIN q : q[k].proc # p /\ q2[j] = q[k]
    <3> PICK k \in DOMAIN q : q[k].proc # p /\ q2[j] = q[k]
      BY <2>2
    <3>1. q[k].proc \in DOMAIN ps /\ Looks(q[k], ps[q[k].proc])
      BY DEF QueueOK, Commands, LookOK
    <3> QED BY <1>1, <3>1
  <2> QED BY <2>1, <2>2 DEF LooksOn
<1> QED BY <1>2, <1>3 DEF LookOK

LEMMA HeadLooks ==
    ASSUME NEW q, NEW ps, NEW c, NEW a, NEW q2, NEW ps2, NEW pr, NEW r, NEW s,
           HeadTurns(q, ps, c, a, q2, ps2, pr, r, s), Tells(c, ps[c.proc], a), LookOK(q, ps)
    PROVE  LookOK(q2, ps2)
<1> PICK p : p = c.proc
  OBVIOUS
<1> PICK x : x = ps[p]
  OBVIOUS
<1>1. /\ QueueOK(q, ps) /\ 1 \in DOMAIN q /\ c = q[1] /\ p \in DOMAIN ps
      /\ Handled(r, s, c, pr, Count(q, p)) /\ Leaves(q2, q, 1, p, s) /\ ps2 = [ps EXCEPT ![p] = r]
      /\ pr = Marked(x, c, a) /\ DOMAIN x = ProcFields
  BY DEF HeadTurns
<1>2. Looks(c, x) /\ Searched(x)
  BY <1>1 DEF LookOK
<1>3. Searched(r) /\ \A j \in DOMAIN s : Looks(s[j], r)
  <2>1. SearchDone(r, s)
    BY <1>2, HeadSearches
  <2> QED BY <2>1 DEF SearchDone
<1>4. \A j \in DOMAIN s : s[j].proc = p
  BY <1>1 DEF Handled
<1>5. ASSUME NEW k \in DOMAIN q, k # 1, q[k].proc = p PROVE Looks(q[k], r)
  <2>1. Sequence(q) /\ CommandOK(c, x) /\ ProcOK(x, Count(q, p))
    BY <1>1, CommandKnown
  <2>2. x.refused = FALSE
    BY <2>1 DEF CommandOK, ProcOK
  <2>3. x.kind = "include"
    BY <1>1, <1>5, <2>1, <2>2, OnlyOfSearch
  <2>4. r.kind = pr.kind
    BY <1>1 DEF Handled, Keeps
  <2>5. pr.kind = x.kind
    BY <1>1, MarkedSearch DEF SameSearch
  <2>6. ~ Clear(r)
    BY <2>3, <2>4, <2>5 DEF Clear, Discoveries
  <2> QED BY <2>6, NotClear
<1>6. ASSUME NEW j \in DOMAIN q2
      PROVE  \/ q2[j].proc = p /\ Looks(q2[j], r)
             \/ \E k \in DOMAIN q : q[k].proc # p /\ q2[j] = q[k]
  <2>1. CASE \E k \in DOMAIN s : q2[j] = s[k]
    BY <1>3, <1>4, <2>1
  <2>2. CASE \E k \in DOMAIN q : k # 1 /\ q2[j] = q[k]
    BY <1>5, <2>2
  <2> QED BY <1>1, <2>1, <2>2 DEF Leaves
<1>7. LooksOn(q2, q, p, r)
  BY <1>6 DEF LooksOn
<1> QED BY <1>1, <1>3, <1>7, LookAfter

LEMMA AnsweredFinds ==
    ASSUME GattInv, ReadInv, FindInv, NEW a, Answered(a)
    PROVE  FindInv'
<1> PICK q, ps : q = queue /\ ps = procs
  OBVIOUS
<1> PICK q2, ps2 : q2 = queue' /\ ps2 = procs'
  OBVIOUS
<1> PICK c : c = q[1]
  OBVIOUS
<1>1. PICK pr, r, s : HeadTurns(q, ps, c, a, q2, ps2, pr, r, s)
  BY AnsweredTurns
<1>2. Tells(c, ps[c.proc], a) /\ LookOK(q, ps)
  BY DEF Answered, FindInv
<1>3. LookOK(q2, ps2)
  BY <1>1, <1>2, HeadLooks
<1>4. LookOK(queue', procs')
  BY <1>3
<1> QED BY <1>4 DEF FindInv

LEMMA CancelFinds ==
    ASSUME GattInv, FindInv, NEW p \in DOMAIN procs, Cancel(p)
    PROVE  FindInv'
<1> PICK q, ps, u : q = queue /\ ps = procs /\ u = p
  OBVIOUS
<1> PICK q2, ps2 : q2 = queue' /\ ps2 = procs'
  OBVIOUS
<1>1. PICK r : Cancelled(r, procs[p]) /\ procs' = [procs EXCEPT ![p] = r]
  BY CancelTurns
<1>2. OthersStay(q2, q, u)
  BY CancelTurns
<1>3. ps2 = [ps EXCEPT ![u] = r] /\ u \in DOMAIN ps
  BY <1>1
<1>4. QueueOK(q, ps) /\ LookOK(q, ps)
  BY DEF GattInv, QueueInv, QueueOK, FindInv
<1>5. Searched(r) /\ \A c : Looks(c, r)
  <2>1. ~ Clear(r)
    BY <1>1 DEF Cancelled, Clear
  <2> QED BY <2>1, NotClear
<1>6. LooksOn(q2, q, u, r)
  BY <1>2, <1>5 DEF OthersStay, LooksOn
<1>7. LookOK(q2, ps2)
  BY <1>3, <1>4, <1>5, <1>6, LookAfter
<1>8. LookOK(queue', procs')
  BY <1>7
<1> QED BY <1>8 DEF FindInv

LEMMA BeginsSearch ==
    ASSUME NEW pr, DOMAIN pr = ProcFields, NEW x, x = Refused(pr) \/ x = Accepted(pr)
    PROVE  SameSearch(x, pr) /\ x.found = pr.found /\ x.reported = pr.reported
<1> PICK y, z : y = HasObject(pr) /\ z = (HasObject(pr) /\ pr.kind # "read")
  OBVIOUS
<1>1. CASE x = Refused(pr)
  <2>1. x = [pr EXCEPT !.refused = TRUE, !.held = z]
    BY <1>1, Zenon DEF Refused
  <2> QED BY <2>1 DEF ProcFields, SameSearch
<1>2. CASE x = Accepted(pr)
  <2>1. x = [pr EXCEPT !.held = y]
    BY <1>2, Zenon DEF Accepted
  <2> QED BY <2>1 DEF ProcFields, SameSearch
<1> QED BY <1>1, <1>2

(* A search begins with nothing found, where its range begins.                *)
LEMMA NewSearch ==
    ASSUME NEW pr, NEW c, NEW p, Fresh(pr, c, p), Brings(pr, c),
           NEW x, x = Refused(pr) \/ x = Accepted(pr), NEW o, o = Own(c)
    PROVE  Searched(x) /\ Looks(o, x) /\ o.proc = p
<1>1. DOMAIN pr = ProcFields /\ DOMAIN c = CommandFields /\ c.proc = p /\ pr.reported = <<>>
      /\ pr.handle \in 1..MaxHandle
  BY DEF Fresh
<1>2. SameSearch(x, pr) /\ x.found = pr.found /\ x.reported = <<>>
  BY <1>1, BeginsSearch
<1>3. o.proc = p /\ o.from = c.from /\ o.to = c.to
  BY <1>1 DEF Own, CommandFields
<1>4. CASE x.kind \notin Discoveries
  <2>1. ~ Clear(x)
    BY <1>4 DEF Clear
  <2> QED BY <1>3, <2>1, NotClear
<1>5. CASE x.kind \in Discoveries
  <2>1. /\ pr.found = <<>> /\ c.from = pr.handle /\ c.to = pr.end
        /\ pr.kind # "char" => pr.end = MaxHandle
    BY <1>2, <1>5 DEF Brings, SameSearch
  <2> PICK h : h = x.handle
    OBVIOUS
  <2>2. x.found = <<>> /\ o.from = h /\ o.to = x.end /\ h \in Nat
        /\ (x.kind # "char" => x.end = MaxHandle)
    BY <1>1, <1>2, <1>3, <2>1, LimitsAssumption DEF SameSearch
  <2>3. \A e \in ToFind(x) : ~ (e.first < h)
    <3> SUFFICES ASSUME NEW e \in ToFind(x) PROVE ~ (e.first < h)
      OBVIOUS
    <3>1. e.first \in h..x.end /\ e.first \in Nat
      BY ToFindFrom DEF Apart, Spans
    <3>2. x.end \in Nat
      BY <1>1, <1>2, LimitsAssumption DEF Fresh, SameSearch
    <3> QED BY <2>2, <3>1, <3>2
  <2>4. GotBelow(ToFind(x), <<>>, h)
    <3>1. DOMAIN <<>> = {}
      OBVIOUS
    <3>2. Sorted(<<>>) /\ Elements(<<>>) = {}
      BY <3>1 DEF Sorted, Elements
    <3> QED BY <2>3, <3>2, EmptySequence DEF GotBelow
  <2>5. Searched(x)
    BY <1>2, <2>2 DEF Searched
  <2>6. h <= h
    BY <2>2
  <2>7. Looks(o, x)
    BY <2>2, <2>4, <2>6 DEF Looks
  <2> QED BY <1>3, <2>5, <2>7
<1> QED BY <1>4, <1>5

LEMMA LookEnters ==
    ASSUME NEW q, NEW ps, QueueOK(q, ps), LookOK(q, ps), NEW x, Searched(x), NEW o, Looks(o, x),
           o.proc = Len(ps) + 1, NEW ps2, ps2 = Append(ps, x), NEW q2, q2 = q \/ q2 = Append(q, o)
    PROVE  LookOK(q2, ps2)
<1>0. Sequence(q) /\ Sequence(ps) /\ Commands(q, ps)
  BY DEF QueueOK
<1> PICK n \in Nat : n = Len(ps)
  BY <1>0, SequenceFacts
<1>1. DOMAIN ps = 1..n /\ DOMAIN ps2 = 1..(n + 1) /\ ps2[n + 1] = x /\ \A i \in 1..n : ps2[i] = ps[i]
  BY <1>0, AppendIs
<1>2. ASSUME NEW y \in DOMAIN ps2 PROVE Searched(ps2[y])
  <2>1. y = n + 1 \/ y \in DOMAIN ps
    BY <1>1
  <2> QED BY <1>1, <2>1 DEF LookOK
<1>3. ASSUME NEW i \in DOMAIN q PROVE Looks(q[i], ps2[q[i].proc])
  <2>1. q[i].proc \in DOMAIN ps /\ Looks(q[i], ps[q[i].proc])
    BY <1>0 DEF Commands, LookOK
  <2> QED BY <1>1, <2>1
<1>4. Looks(o, ps2[o.proc])
  BY <1>1
<1>5. CASE q2 = q
  BY <1>2, <1>3, <1>5 DEF LookOK
<1>6. CASE q2 = Append(q, o)
  <2> PICK k \in Nat : k = Len(q)
    BY <1>0, SequenceFacts
  <2>1. DOMAIN q = 1..k /\ DOMAIN q2 = 1..(k + 1) /\ q2[k + 1] = o /\ \A i \in 1..k : q2[i] = q[i]
    BY <1>0, <1>6, AppendIs
  <2>2. ASSUME NEW i \in DOMAIN q2 PROVE Looks(q2[i], ps2[q2[i].proc])
    <3>1. i = k + 1 \/ i \in DOMAIN q
      BY <2>1
    <3> QED BY <1>3, <1>4, <2>1, <3>1
  <2> QED BY <1>2, <2>2 DEF LookOK
<1> QED BY <1>5, <1>6

LEMMA StartsFinds ==
    ASSUME GattInv, FindInv, Starts
    PROVE  FindInv'
<1> PICK q, ps : q = queue /\ ps = procs
  OBVIOUS
<1> PICK q2, ps2 : q2 = queue' /\ ps2 = procs'
  OBVIOUS
<1> PICK pr, c : Starting(pr, c)
  BY StartsBegin
<1>1. Begin(pr, c) /\ Fresh(pr, c, Len(ps) + 1) /\ Brings(pr, c)
  BY DEF Starting
<1> PICK o : o = Own(c)
  OBVIOUS
<1>2. PICK x : (x = Refused(pr) \/ x = Accepted(pr)) /\ ps2 = Append(ps, x) /\ (q2 = q \/ q2 = Append(q, o))
  <2>1. CASE channel = "stale"
    <3>1. ps2 = Append(ps, Refused(pr)) /\ q2 = q
      BY <1>1, <2>1 DEF Begin, Refused
    <3> QED BY <3>1
  <2>2. CASE channel # "stale"
    <3>1. ps2 = Append(ps, Accepted(pr)) /\ q2 = Append(q, o)
      BY <1>1, <2>2 DEF Begin, Accepted
    <3> QED BY <3>1
  <2> QED BY <2>1, <2>2
<1>3. Searched(x) /\ Looks(o, x) /\ o.proc = Len(ps) + 1
  BY <1>1, <1>2, NewSearch
<1>4. QueueOK(q, ps) /\ LookOK(q, ps)
  BY DEF GattInv, QueueInv, QueueOK, FindInv
<1>5. LookOK(q2, ps2)
  BY <1>2, <1>3, <1>4, LookEnters
<1>6. LookOK(queue', procs')
  BY <1>5
<1> QED BY <1>6 DEF FindInv

LEMMA FindInit == Init => FindInv
<1> SUFFICES ASSUME Init PROVE FindInv
  OBVIOUS
<1>1. DOMAIN procs = {} /\ DOMAIN queue = {}
  BY DEF Init
<1> QED BY <1>1 DEF FindInv, LookOK

LEMMA FindUnchanged ==
    ASSUME FindInv, procs' = procs, queue' = queue
    PROVE  FindInv'
<1>1. LookOK(queue, procs)
  BY DEF FindInv
<1>2. LookOK(queue', procs')
  BY <1>1
<1> QED BY <1>2 DEF FindInv

LEMMA FindStep == GattInv /\ ReadInv /\ FindInv /\ [Next]_vars => FindInv'
<1> SUFFICES ASSUME GattInv, ReadInv, FindInv, [Next]_vars PROVE FindInv'
  OBVIOUS
<1>1. CASE Starts
  BY <1>1, StartsFinds
<1>2. CASE \E p \in DOMAIN procs : Cancel(p)
  BY <1>2, CancelFinds
<1>3. CASE Transmit
  BY <1>3, FindUnchanged DEF Transmit
<1>4. CASE Completes
  BY <1>4, CompletesAnswered, AnsweredFinds
<1>5. CASE Abort
  BY <1>5, AbortAnswered, AnsweredFinds
<1>6. CASE Close
  BY <1>6, FindUnchanged DEF Close
<1>7. CASE UNCHANGED vars
  BY <1>7, FindUnchanged DEF vars
<1>8. CASE WriteFails \/ ReadFails
  BY <1>8, FindUnchanged DEF WriteFails, ReadFails
<1> QED BY <1>1, <1>2, <1>3, <1>4, <1>5, <1>6, <1>7, <1>8 DEF Next


----------------------------------------------------------------------------
(* A search for included services: what it has found and what its queries will  *)
(* find is all that begins below where it asks next.                          *)

Plain(pr) == pr.kind = "include" /\ ~ pr.flawed /\ ~ pr.muted /\ ~ pr.refused

(* The commands of p. *)
Mine(q, p) == {c \in Elements(q) : c.proc = p}

(* Only one asks for the table, and no two for the same element. *)
Differ(c, d) ==
    /\ c.ask # "include" \/ d.ask # "include"
    /\ Elements(c.data) \cap Elements(d.data) = {}

AllDiffer(q, p) ==
    \A i, j \in DOMAIN q : i # j /\ q[i].proc = p /\ q[j].proc = p => Differ(q[i], q[j])

Sought(C) == UNION {Elements(c.data) : c \in C}

(* What of W begins below where the commands ask. *)
Passed(W, C) == {e \in W : \A c \in C : c.ask = "include" => e.first < c.from}

Seeks(c, pr) ==
    /\ c.func /\ c.ask \in {"include", "resolve"} /\ Sequence(c.data) /\ Distinct(c.data)
    /\ c.ask = "include" => c.data = <<>> /\ c.to = pr.end /\ pr.handle <= c.from /\ c.from \in Nat
    /\ Elements(c.data) \cap Elements(pr.found) = {}

Gathered(C, pr) ==
    /\ pr.err = "ok" /\ Sequence(pr.found) /\ Distinct(pr.found)
    /\ \A c \in C : Seeks(c, pr)
    /\ Elements(pr.found) \cup Sought(C) = Passed(ToFind(pr), C)
    /\ pr.reported # <<>> => pr.reported[1].data = pr.found

Gathers(q, p, pr) == Plain(pr) => AllDiffer(q, p) /\ Gathered(Mine(q, p), pr)

GatherOK(q, ps) == \A p \in DOMAIN ps : Gathers(q, p, ps[p])

IncludeInv == GatherOK(queue, procs)

(* The places of s in s \o t are those of s, the others those of t after it. *)
Joins(w, s, t) ==
    \E n \in Nat, m \in Nat :
        /\ DOMAIN s = 1..n /\ DOMAIN t = 1..m /\ DOMAIN w = 1..(n + m)
        /\ \A i \in 1..n : w[i] = s[i]
        /\ \A i \in (n + 1)..(n + m) : i - n \in 1..m /\ w[i] = t[i - n]

LEMMA ConcatPlaces ==
    ASSUME NEW s, NEW t, Sequence(s), Sequence(t)
    PROVE  Joins(s \o t, s, t)
<1> PICK w : w = s \o t
  OBVIOUS
<1> PICK n \in Nat, m \in Nat : n = Len(s) /\ m = Len(t)
  BY SequenceFacts
<1>1. /\ Sequence(w) /\ Len(w) = n + m
      /\ \A i \in 1..n : w[i] = s[i]
      /\ \A i \in 1..m : w[n + i] = t[i]
  BY SequenceConcat
<1>2. DOMAIN s = 1..n /\ DOMAIN t = 1..m /\ DOMAIN w = 1..(n + m)
  BY <1>1, SequenceFacts
<1>3. ASSUME NEW i \in (n + 1)..(n + m) PROVE i - n \in 1..m /\ w[i] = t[i - n]
  <2> PICK k : k = i - n
    OBVIOUS
  <2>1. k \in 1..m /\ i = n + k
    OBVIOUS
  <2> QED BY <1>1, <2>1
<1>4. Joins(w, s, t)
  BY <1>2, <1>3, <1>1 DEF Joins
<1> QED BY <1>4

LEMMA DistinctConcat ==
    ASSUME NEW s, NEW t, Sequence(s), Sequence(t), Distinct(s), Distinct(t),
           Elements(s) \cap Elements(t) = {}
    PROVE  Distinct(s \o t)
<1> PICK w : w = s \o t
  OBVIOUS
<1>0. Joins(w, s, t)
  BY ConcatPlaces
<1>1. PICK n \in Nat, m \in Nat :
              /\ DOMAIN s = 1..n /\ DOMAIN t = 1..m /\ DOMAIN w = 1..(n + m)
              /\ \A i \in 1..n : w[i] = s[i]
              /\ \A i \in (n + 1)..(n + m) : i - n \in 1..m /\ w[i] = t[i - n]
  BY <1>0 DEF Joins
<1>2. \A i \in 1..n, j \in (n + 1)..(n + m) : w[i] # w[j]
  <2> SUFFICES ASSUME NEW i \in 1..n, NEW j \in (n + 1)..(n + m) PROVE w[i] # w[j]
    OBVIOUS
  <2>1. w[i] \in Elements(s) /\ w[j] \in Elements(t)
    BY <1>1 DEF Elements
  <2> QED BY <2>1
<1>3. ASSUME NEW i \in 1..(n + m), NEW j \in 1..(n + m), w[i] = w[j] PROVE i = j
  <2>1. CASE i \in 1..n /\ j \in 1..n
    BY <1>1, <1>3, <2>1 DEF Distinct
  <2>2. CASE i \in (n + 1)..(n + m) /\ j \in (n + 1)..(n + m)
    <3>1. i - n \in DOMAIN t /\ j - n \in DOMAIN t /\ t[i - n] = t[j - n]
      BY <1>1, <1>3, <2>2
    <3>2. i - n = j - n
      BY <3>1 DEF Distinct
    <3> QED BY <2>2, <3>2
  <2>3. i \in 1..n \/ i \in (n + 1)..(n + m)
    OBVIOUS
  <2>4. j \in 1..n \/ j \in (n + 1)..(n + m)
    OBVIOUS
  <2> QED BY <1>2, <1>3, <2>1, <2>2, <2>3, <2>4
<1> QED BY <1>1, <1>3 DEF Distinct

LEMMA SortedDistinct ==
    ASSUME NEW s, Sequence(s), Sorted(s), \A e \in Elements(s) : Spans(e)
    PROVE  Distinct(s)
<1>1. ASSUME NEW i \in DOMAIN s, NEW j \in DOMAIN s, s[i] = s[j] PROVE i = j
  <2>1. i \in Nat /\ j \in Nat
    BY SequenceFacts
  <2>2. Spans(s[i])
    BY DEF Elements
  <2>3. ~ (s[i].last < s[i].first)
    BY <2>2 DEF Spans
  <2>4. ~ (i < j) /\ ~ (j < i)
    BY <1>1, <2>3 DEF Sorted
  <2> QED BY <2>1, <2>4
<1> QED BY <1>1 DEF Distinct

LEMMA MineConcat ==
    ASSUME NEW u, NEW v, Sequence(u), Sequence(v), NEW p
    PROVE  Mine(u \o v, p) = Mine(u, p) \cup Mine(v, p)
<1>1. Elements(u \o v) = Elements(u) \cup Elements(v)
  BY ElementsConcat
<1> QED BY <1>1 DEF Mine

LEMMA DifferSymmetric ==
    ASSUME NEW c, NEW d, Differ(c, d)
    PROVE  Differ(d, c)
  BY DEF Differ

LEMMA DifferConcat ==
    ASSUME NEW u, NEW v, Sequence(u), Sequence(v), NEW p, AllDiffer(u, p), AllDiffer(v, p),
           \A c \in Mine(u, p), d \in Mine(v, p) : Differ(c, d)
    PROVE  AllDiffer(u \o v, p)
<1> PICK w : w = u \o v
  OBVIOUS
<1>0. Joins(w, u, v)
  BY ConcatPlaces
<1>1. PICK n \in Nat, m \in Nat :
              /\ DOMAIN u = 1..n /\ DOMAIN v = 1..m /\ DOMAIN w = 1..(n + m)
              /\ \A i \in 1..n : w[i] = u[i]
              /\ \A i \in (n + 1)..(n + m) : i - n \in 1..m /\ w[i] = v[i - n]
  BY <1>0 DEF Joins
<1>2. ASSUME NEW i \in 1..n, NEW j \in (n + 1)..(n + m), w[i].proc = p, w[j].proc = p
      PROVE  Differ(w[i], w[j]) /\ Differ(w[j], w[i])
  <2>1. w[i] \in Mine(u, p) /\ w[j] \in Mine(v, p)
    BY <1>1, <1>2 DEF Mine, Elements
  <2>2. Differ(w[i], w[j])
    BY <2>1
  <2> QED BY <2>2, DifferSymmetric
<1>3. ASSUME NEW i \in 1..(n + m), NEW j \in 1..(n + m), i # j, w[i].proc = p, w[j].proc = p
      PROVE  Differ(w[i], w[j])
  <2>1. CASE i \in 1..n /\ j \in 1..n
    BY <1>1, <1>3, <2>1 DEF AllDiffer
  <2>2. CASE i \in (n + 1)..(n + m) /\ j \in (n + 1)..(n + m)
    <3> PICK k, l : k = i - n /\ l = j - n
      OBVIOUS
    <3>1. k \in DOMAIN v /\ l \in DOMAIN v /\ w[i] = v[k] /\ w[j] = v[l]
      BY <1>1, <2>2
    <3>2. k # l
      BY <1>3, <2>2
    <3> QED BY <1>3, <3>1, <3>2 DEF AllDiffer
  <2>3. i \in 1..n \/ i \in (n + 1)..(n + m)
    OBVIOUS
  <2>4. j \in 1..n \/ j \in (n + 1)..(n + m)
    OBVIOUS
  <2> QED BY <1>2, <1>3, <2>1, <2>2, <2>3, <2>4
<1> QED BY <1>1, <1>3 DEF AllDiffer

LEMMA DifferParts ==
    ASSUME NEW u, NEW v, Sequence(u), Sequence(v), NEW p, AllDiffer(u \o v, p)
    PROVE  /\ AllDiffer(u, p) /\ AllDiffer(v, p)
           /\ \A c \in Mine(u, p), d \in Mine(v, p) : Differ(c, d)
<1> PICK w : w = u \o v
  OBVIOUS
<1>0. Joins(w, u, v)
  BY ConcatPlaces
<1>1. PICK n \in Nat, m \in Nat :
              /\ DOMAIN u = 1..n /\ DOMAIN v = 1..m /\ DOMAIN w = 1..(n + m)
              /\ \A i \in 1..n : w[i] = u[i]
              /\ \A i \in (n + 1)..(n + m) : i - n \in 1..m /\ w[i] = v[i - n]
  BY <1>0 DEF Joins
<1>2. \A i, j \in 1..(n + m) : i # j /\ w[i].proc = p /\ w[j].proc = p => Differ(w[i], w[j])
  BY <1>1 DEF AllDiffer
<1>3. \A i \in 1..n : i \in 1..(n + m) /\ w[i] = u[i]
  BY <1>1
<1>4. \A k \in 1..m : n + k \in 1..(n + m) /\ w[n + k] = v[k]
  <2> SUFFICES ASSUME NEW k \in 1..m PROVE n + k \in 1..(n + m) /\ w[n + k] = v[k]
    OBVIOUS
  <2>1. n + k \in (n + 1)..(n + m) /\ (n + k) - n = k
    OBVIOUS
  <2> QED BY <1>1, <2>1
<1>5. AllDiffer(u, p)
  BY <1>1, <1>2, <1>3 DEF AllDiffer
<1>6. AllDiffer(v, p)
  <2> SUFFICES ASSUME NEW k \in 1..m, NEW l \in 1..m, k # l, v[k].proc = p, v[l].proc = p
               PROVE  Differ(v[k], v[l])
    BY <1>1 DEF AllDiffer
  <2>1. n + k # n + l
    OBVIOUS
  <2> QED BY <1>2, <1>4, <2>1
<1>7. ASSUME NEW c \in Mine(u, p), NEW d \in Mine(v, p) PROVE Differ(c, d)
  <2>1. PICK i \in 1..n : c = u[i] /\ c.proc = p
    BY <1>1 DEF Mine, Elements
  <2>2. PICK k \in 1..m : d = v[k] /\ d.proc = p
    BY <1>1 DEF Mine, Elements
  <2>3. i # n + k
    OBVIOUS
  <2> QED BY <1>2, <1>3, <1>4, <2>1, <2>2, <2>3
<1> QED BY <1>5, <1>6, <1>7

LEMMA SoughtUnion ==
    ASSUME NEW C, NEW D
    PROVE  Sought(C \cup D) = Sought(C) \cup Sought(D)
  BY DEF Sought

LEMMA SameGathered ==
    ASSUME NEW C, NEW pr, Gathered(C, pr), NEW r, SameSearch(r, pr), r.found = pr.found,
           r.err = pr.err, r.reported # <<>> => r.reported[1].data = r.found
    PROVE  Gathered(C, r)
<1>1. ToFind(r) = ToFind(pr)
  BY SameToFind
<1>2. \A c : Seeks(c, pr) => Seeks(c, r)
  BY DEF Seeks, SameSearch
<1> QED BY <1>1, <1>2 DEF Gathered

(* When the last reference goes what was found is reported.                   *)
LEMMA UnrefGathers ==
    ASSUME NEW C, NEW pr, Gathered(C, pr), DOMAIN pr = ProcFields, pr.refs \in Nat, pr.reported = <<>>,
           NEW r, r = isd_unref(pr)
    PROVE  Gathered(C, r)
<1>1. CASE pr.refs > 1
  <2> PICK m : m = pr.refs - 1
    OBVIOUS
  <2>1. r = [pr EXCEPT !.refs = m]
    BY <1>1 DEF isd_unref
  <2>2. SameSearch(r, pr) /\ r.found = pr.found /\ r.err = pr.err /\ r.reported = <<>>
    BY <2>1 DEF SameSearch, ProcFields
  <2> QED BY <2>2, SameGathered
<1>2. CASE ~ (pr.refs > 1)
  <2>v. PICK v : v = [pr EXCEPT !.refs = 0]
    OBVIOUS
  <2>1. SameSearch(v, pr) /\ v.found = pr.found /\ v.err = pr.err /\ v.reported = <<>>
        /\ DOMAIN v = ProcFields
    BY <2>v DEF SameSearch, ProcFields
  <2>2. pr.err = "ok"
    BY DEF Gathered
  <2>3. r = ReportAndFree(v, "ok", pr.found)
    BY <1>2, <2>v, <2>2 DEF isd_unref
  <2>4. SameSearch(r, v) /\ r.reported[1].data = pr.found
    <3> PICK d : d = pr.found
      OBVIOUS
    <3>1. DOMAIN v = ProcFields /\ v.reported = <<>> /\ r = ReportAndFree(v, "ok", d)
      BY <2>1, <2>3
    <3>2. SameSearch(r, v) /\ r.reported[1].data = d
      BY <3>1, ReportedSearch
    <3> QED BY <3>2
  <2>5. r.found = pr.found /\ r.err = pr.err
    BY <2>1, <2>3 DEF ReportAndFree, Report, ProcFields
  <2>6. SameSearch(r, pr)
    BY <2>1, <2>4 DEF SameSearch
  <2> QED BY <2>4, <2>5, <2>6, SameGathered
<1> QED BY <1>1, <1>2

(* A query is answered.                                                      *)
LEMMA QueryGathers ==
    ASSUME NEW c, c.ask # "include", NEW R, NEW C, C = {c} \cup R, \A d \in R : Differ(c, d),
           NEW pr, DOMAIN pr = ProcFields, Gathered(C, pr), pr.reported = <<>>,
           NEW u, u = [pr EXCEPT !.found = @ \o c.data]
    PROVE  Gathered(R, u)
<1> PICK s, d : s = pr.found /\ d = c.data
  OBVIOUS
<1>1. /\ pr.err = "ok" /\ Sequence(s) /\ Distinct(s) /\ \A x \in C : Seeks(x, pr)
      /\ Elements(s) \cup Sought(C) = Passed(ToFind(pr), C)
  BY DEF Gathered
<1>2. Sequence(d) /\ Distinct(d) /\ Elements(d) \cap Elements(s) = {}
  BY <1>1 DEF Seeks
<1>3. u.found = s \o d
  BY DEF ProcFields
<1>4. SameSearch(u, pr) /\ u.err = "ok" /\ u.reported = <<>>
  BY <1>1 DEF SameSearch, ProcFields
<1>5. Sequence(s \o d) /\ Distinct(s \o d) /\ Elements(s \o d) = Elements(s) \cup Elements(d)
  BY <1>1, <1>2, SequenceConcat, DistinctConcat, ElementsConcat
<1>6. ASSUME NEW x \in R PROVE Seeks(x, u)
  <2>1. Seeks(x, pr) /\ Elements(d) \cap Elements(x.data) = {}
    BY <1>1 DEF Differ
  <2>2. Elements(x.data) \cap Elements(u.found) = {}
    BY <1>3, <1>5, <2>1 DEF Seeks
  <2> QED BY <1>4, <2>1, <2>2 DEF Seeks, SameSearch
<1>7. Sought(C) = Elements(d) \cup Sought(R)
  BY DEF Sought
<1>8. Passed(ToFind(pr), C) = Passed(ToFind(pr), R)
  BY DEF Passed
<1>9. ToFind(u) = ToFind(pr)
  BY <1>4, SameToFind
<1>10. Elements(u.found) \cup Sought(R) = Passed(ToFind(u), R)
  BY <1>1, <1>3, <1>5, <1>7, <1>8, <1>9
<1> QED BY <1>3, <1>4, <1>5, <1>6, <1>10 DEF Gathered

(* What the search for the table has to ask for is the rest of the range.       *)
LEMMA IncludedIsRest ==
    ASSUME NEW c, NEW pr, c.ask = "include", pr.kind = "include", Seeks(c, pr),
           pr.handle \in Nat, pr.end \in Nat
    PROVE  /\ AskedFor(c, pr) = {e \in ToFind(pr) : c.from <= e.first}
           /\ \A e \in ToFind(pr) : Spans(e) /\ e.first <= pr.end
<1> PICK T : T = Elements(Table("include"))
  OBVIOUS
<1> PICK h, l, f : h = pr.handle /\ l = pr.end /\ f = c.from
  OBVIOUS
<1>1. c.to = l /\ h <= f /\ f \in Nat /\ h \in Nat /\ l \in Nat
  BY DEF Seeks
<1>2. AskedFor(c, pr) = {e \in T : e.first \in f..l}
  BY <1>1 DEF AskedFor
<1>3. ToFind(pr) = {e \in T : e.first \in h..l} /\ Apart(T)
  BY ToFindFrom
<1>4. ASSUME NEW e \in T
      PROVE  Spans(e) /\ (e.first \in f..l <=> e.first \in h..l /\ f <= e.first)
             /\ (e.first \in h..l => e.first <= l)
  <2>1. Spans(e)
    BY <1>3 DEF Apart
  <2>2. e.first \in Nat
    BY <2>1 DEF Spans
  <2> QED BY <1>1, <2>1, <2>2
<1> QED BY <1>2, <1>3, <1>4

(* There is no more in the range.                                            *)
LEMMA SearchGathersNone ==
    ASSUME NEW c, c.ask = "include", NEW R, NEW C, C = {c} \cup R, \A d \in R : Differ(c, d),
           NEW pr, DOMAIN pr = ProcFields, Gathered(C, pr), pr.reported = <<>>, pr.kind = "include",
           pr.handle \in Nat, pr.end \in Nat, AskedFor(c, pr) = {},
           NEW u, u = isd_error(pr, "ok")
    PROVE  Gathered(R, u)
<1> PICK W : W = ToFind(pr)
  OBVIOUS
<1>1. /\ pr.err = "ok" /\ (\A x \in C : Seeks(x, pr))
      /\ Elements(pr.found) \cup Sought(C) = Passed(W, C)
  BY DEF Gathered
<1>2. {e \in W : c.from <= e.first} = {} /\ (\A e \in W : Spans(e)) /\ c.from \in Nat
      /\ Elements(c.data) = {}
  <2>1. Seeks(c, pr) /\ DOMAIN <<>> = {}
    BY <1>1
  <2>2. c.data = <<>> /\ c.from \in Nat
    BY <2>1 DEF Seeks
  <2>3. Elements(<<>>) = {}
    BY <2>1 DEF Elements
  <2> QED BY <2>1, <2>2, <2>3, IncludedIsRest
<1>3. \A e \in W : e.first < c.from
  BY <1>2 DEF Spans
<1>4. \A d \in R : d.ask # "include"
  BY DEF Differ
<1>5. Passed(W, C) = W /\ Passed(W, R) = W
  BY <1>3, <1>4 DEF Passed
<1>6. Sought(C) = Sought(R)
  BY <1>2 DEF Sought
<1>7. Gathered(R, pr)
  BY <1>1, <1>5, <1>6 DEF Gathered
<1>8. SameSearch(u, pr) /\ u.found = pr.found /\ u.err = pr.err /\ u.reported = <<>>
  BY <1>1 DEF isd_error, SameSearch, ProcFields
<1> QED BY <1>7, <1>8, SameGathered

(* The commands of S ask for what K holds, or for what begins at m.             *)
Sends(S, K, m, pr) ==
    \A x \in S :
        /\ x.func /\ x.ask \in {"include", "resolve"} /\ Sequence(x.data) /\ Distinct(x.data)
        /\ Elements(x.data) \subseteq K
        /\ x.ask = "include" => x.data = <<>> /\ x.to = pr.end /\ x.from = m

(* More is found, or will be by the queries.                                   *)
LEMMA SearchGathersMore ==
    ASSUME NEW c, c.ask = "include", NEW R, NEW C, C = {c} \cup R, \A d \in R : Differ(c, d),
           NEW pr, Gathered(C, pr), pr.kind = "include", pr.handle \in Nat, pr.end \in Nat,
           NEW h \in Nat, NEW m, m = h + 1,
           NEW K, K = {e \in ToFind(pr) : c.from <= e.first /\ e.first <= h}, c.from <= h,
           NEW S, Sends(S, K, m, pr), (\E x \in S : x.ask = "include") \/ pr.end < m,
           NEW u, SameSearch(u, pr), u.err = "ok", u.reported = <<>>,
           Sequence(u.found), Distinct(u.found),
           \/ u.found = pr.found /\ Sought(S) = K
           \/ Elements(u.found) = Elements(pr.found) \cup K /\ Sought(S) = {}
    PROVE  Gathered(R \cup S, u) /\ \A d \in R, x \in S : Differ(d, x)
<1> PICK W, f : W = ToFind(pr) /\ f = c.from
  OBVIOUS
<1> PICK F, G : F = Elements(pr.found) /\ G = Elements(u.found)
  OBVIOUS
<1>1. (\A x \in C : Seeks(x, pr)) /\ F \cup Sought(C) = Passed(W, C)
  BY DEF Gathered
<1>2. (\A e \in W : Spans(e) /\ e.first <= pr.end) /\ f \in Nat /\ Elements(c.data) = {} /\ pr.handle <= f
  <2>1. Seeks(c, pr) /\ DOMAIN <<>> = {}
    BY <1>1
  <2>2. c.data = <<>> /\ f \in Nat /\ pr.handle <= f
    BY <2>1 DEF Seeks
  <2>3. Elements(<<>>) = {}
    BY <2>1 DEF Elements
  <2> QED BY <2>1, <2>2, <2>3, IncludedIsRest
<1>3. \A d \in R : d.ask # "include"
  BY DEF Differ
<1>4. Passed(W, C) = {e \in W : e.first < f}
  BY <1>3 DEF Passed
<1>5. Sought(C) = Sought(R)
  BY <1>2 DEF Sought
<1>6. F \cup Sought(R) = {e \in W : e.first < f}
  BY <1>1, <1>4, <1>5
<1>7. (F \cup Sought(R)) \cap K = {}
  <2>1. ASSUME NEW e \in W, e.first < f, f <= e.first PROVE FALSE
    <3>1. e.first \in Nat
      BY <1>2 DEF Spans
    <3> QED BY <1>2, <2>1, <3>1
  <2> QED BY <1>6, <2>1
<1>8. (F \cup Sought(R)) \cup K = {e \in W : e.first < m}
  <2>1. ASSUME NEW e \in W PROVE e.first < m <=> e.first < f \/ (f <= e.first /\ e.first <= h)
    <3>1. e.first \in Nat
      BY <1>2 DEF Spans
    <3> QED BY <1>2, <3>1
  <2> QED BY <1>6, <2>1
<1>9. Passed(W, R \cup S) = {e \in W : e.first < m}
  <2>1. CASE \E x \in S : x.ask = "include"
    <3>1. \A x \in S : x.ask = "include" => x.from = m
      BY DEF Sends
    <3> QED BY <1>3, <2>1, <3>1 DEF Passed
  <2>2. CASE ~ \E x \in S : x.ask = "include"
    <3>1. \A e \in W : e.first < m
      BY <1>2, <2>2 DEF Spans
    <3> QED BY <1>3, <2>2, <3>1 DEF Passed
  <2> QED BY <2>1, <2>2
<1>10. G \cup Sought(R \cup S) = {e \in W : e.first < m}
  <2>1. Sought(R \cup S) = Sought(R) \cup Sought(S)
    BY DEF Sought
  <2>2. G \cup Sought(S) = F \cup K
    OBVIOUS
  <2> QED BY <1>8, <2>1, <2>2
<1>11. G \subseteq F \cup K
  OBVIOUS
<1>12. ASSUME NEW d \in R PROVE Seeks(d, u)
  <2>1. Seeks(d, pr) /\ Elements(d.data) \subseteq Sought(R)
    BY <1>1 DEF Sought
  <2>2. Elements(d.data) \cap F = {} /\ Elements(d.data) \cap K = {}
    BY <1>7, <2>1 DEF Seeks
  <2>3. Elements(d.data) \cap G = {}
    BY <1>11, <2>2
  <2> QED BY <2>1, <2>3 DEF Seeks, SameSearch
<1>13. ASSUME NEW x \in S PROVE Seeks(x, u)
  <2>1. /\ x.func /\ x.ask \in {"include", "resolve"} /\ Sequence(x.data) /\ Distinct(x.data)
        /\ Elements(x.data) \subseteq K /\ Elements(x.data) \subseteq Sought(S)
        /\ x.ask = "include" => x.data = <<>> /\ x.to = pr.end /\ x.from = m
    BY DEF Sends, Sought
  <2>2. Elements(x.data) \cap G = {}
    <3>1. CASE u.found = pr.found /\ Sought(S) = K
      BY <1>7, <2>1, <3>1
    <3>2. CASE Sought(S) = {}
      BY <2>1, <3>2
    <3> QED BY <3>1, <3>2
  <2>3. m \in Nat /\ pr.handle <= m
    BY <1>2
  <2> QED BY <2>1, <2>2, <2>3 DEF Seeks, SameSearch
<1>14. ASSUME NEW d \in R, NEW x \in S PROVE Differ(d, x)
  <2>1. Elements(d.data) \subseteq Sought(R) /\ Elements(x.data) \subseteq K
    BY DEF Sought, Sends
  <2> QED BY <1>3, <1>7, <2>1 DEF Differ
<1>15. ToFind(u) = W
  BY SameToFind
<1>16. Gathered(R \cup S, u)
  BY <1>9, <1>10, <1>12, <1>13, <1>15 DEF Gathered
<1> QED BY <1>14, <1>16

(* The commands s of p, which ask for what L holds. *)
Batch(s, p, ask, L, K, m, pr) ==
    /\ Sequence(s) /\ AllDiffer(s, p) /\ Sends(Elements(s), K, m, pr) /\ Sought(Elements(s)) = L
    /\ \A x \in Elements(s) : x.ask = ask /\ x.proc = p

(* The queries for the elements of an answer.                                 *)
LEMMA QueriesFor ==
    ASSUME NEW k, Sequence(k), Distinct(k), NEW p, NEW m, NEW pr,
           NEW q, q = [i \in DOMAIN k |-> resolve_included_uuid(p, k[i])]
    PROVE  Batch(q, p, "resolve", Elements(k), Elements(k), m, pr)
<1> PICK n \in Nat : n = Len(k) /\ DOMAIN k = 1..n
  BY SequenceFacts
<1>1. q = [i \in 1..n |-> q[i]] /\ DOMAIN q = 1..n
  OBVIOUS
<1>2. ASSUME NEW i \in 1..n
      PROVE  /\ q[i].ask = "resolve" /\ q[i].proc = p /\ q[i].func
             /\ q[i].data = <<k[i]>> /\ Elements(q[i].data) = {k[i]}
             /\ Sequence(q[i].data) /\ Distinct(q[i].data)
  <2> PICK x, d : x = k[i] /\ d = q[i]
    OBVIOUS
  <2>1. d = Command(p, "resolve", x.first, x.first, <<x>>)
    BY DEF resolve_included_uuid
  <2>2. d.ask = "resolve" /\ d.proc = p /\ d.func = TRUE /\ d.data = <<x>>
    BY <2>1 DEF Command
  <2>3. Sequence(<<x>>) /\ DOMAIN <<x>> = {1} /\ <<x>>[1] = x
    BY SequenceOne
  <2>4. Distinct(<<x>>)
    BY <2>3 DEF Distinct
  <2>5. Elements(<<x>>) = {x}
    BY <2>3 DEF Elements
  <2> QED BY <2>2, <2>3, <2>4, <2>5
<1>3. Sequence(q)
  BY <1>1, FunctionSequence
<1>4. AllDiffer(q, p)
  <2>1. ASSUME NEW i \in 1..n, NEW j \in 1..n, i # j PROVE Differ(q[i], q[j])
    <3>1. k[i] # k[j]
      BY <2>1 DEF Distinct
    <3> QED BY <1>2, <3>1 DEF Differ
  <2> QED BY <1>1, <2>1 DEF AllDiffer
<1>5. Elements(q) = {q[i] : i \in 1..n} /\ Elements(k) = {k[i] : i \in 1..n}
  BY <1>1 DEF Elements
<1>6. Sought(Elements(q)) = Elements(k)
  <2>1. ASSUME NEW y \in Sought(Elements(q)) PROVE y \in Elements(k)
    <3>1. PICK x \in Elements(q) : y \in Elements(x.data)
      BY DEF Sought
    <3>2. PICK i \in 1..n : x = q[i]
      BY <1>5
    <3>3. y = k[i]
      BY <1>2, <3>1, <3>2
    <3> QED BY <1>5, <3>3
  <2>2. ASSUME NEW y \in Elements(k) PROVE y \in Sought(Elements(q))
    <3>1. PICK i \in 1..n : y = k[i]
      BY <1>5
    <3>2. y \in Elements(q[i].data) /\ q[i] \in Elements(q)
      BY <1>2, <1>5, <3>1
    <3> QED BY <3>2 DEF Sought
  <2> QED BY <2>1, <2>2
<1>7. Sends(Elements(q), Elements(k), m, pr)
  <2> SUFFICES ASSUME NEW x \in Elements(q)
               PROVE  /\ x.func /\ x.ask = "resolve" /\ Sequence(x.data) /\ Distinct(x.data)
                      /\ Elements(x.data) \subseteq Elements(k)
    BY DEF Sends
  <2>1. PICK i \in 1..n : x = q[i]
    BY <1>5
  <2>2. k[i] \in Elements(k)
    BY <1>5
  <2> QED BY <1>2, <2>1, <2>2
<1>8. \A x \in Elements(q) : x.ask = "resolve" /\ x.proc = p
  BY <1>2, <1>5
<1> QED BY <1>3, <1>4, <1>6, <1>7, <1>8 DEF Batch

(* The search goes on, or not.                                               *)
LEMMA SearchFor ==
    ASSUME NEW p, NEW pr, NEW m, NEW K, NEW t, t = <<>> \/ t = <<find_included(p, pr, m)>>
    PROVE  /\ Batch(t, p, "include", {}, K, m, pr)
           /\ t = <<>> \/ \E x \in Elements(t) : x.ask = "include"
<1>0. DOMAIN <<>> = {}
  OBVIOUS
<1>1. Sequence(<<>>) /\ Elements(<<>>) = {} /\ Distinct(<<>>)
  BY <1>0, EmptySequence DEF Elements, Distinct
<1>2. CASE t = <<>>
  <2>1. AllDiffer(t, p)
    BY <1>0, <1>2 DEF AllDiffer
  <2>2. Elements(t) = {} /\ Sequence(t)
    BY <1>1, <1>2
  <2>3. Sought({}) = {} /\ Sends({}, K, m, pr)
    BY DEF Sought, Sends
  <2>4. Batch(t, p, "include", {}, K, m, pr)
    BY <2>1, <2>2, <2>3 DEF Batch
  <2> QED BY <1>2, <2>4
<1>3. CASE t = <<find_included(p, pr, m)>>
  <2> PICK d : d = find_included(p, pr, m)
    OBVIOUS
  <2>1. d.ask = "include" /\ d.from = m /\ d.to = pr.end /\ d.data = <<>> /\ d.func = TRUE /\ d.proc = p
    BY DEF find_included, Command
  <2>2. t = <<d>> /\ Sequence(<<d>>) /\ DOMAIN <<d>> = {1} /\ <<d>>[1] = d
    BY <1>3, SequenceOne
  <2>3. Elements(t) = {d}
    BY <2>2 DEF Elements
  <2>4. AllDiffer(t, p)
    BY <2>2 DEF AllDiffer
  <2>5. Elements(d.data) = {}
    BY <1>1, <2>1
  <2>6. Sends({d}, K, m, pr)
    BY <1>1, <2>1, <2>5 DEF Sends
  <2>7. Sought({d}) = {}
    BY <2>5 DEF Sought
  <2>8. Batch(t, p, "include", {}, K, m, pr)
    BY <2>1, <2>2, <2>3, <2>4, <2>6, <2>7 DEF Batch
  <2> QED BY <2>1, <2>3, <2>8
<1> QED BY <1>2, <1>3

(* What a command that leaves the queue leaves: R are the others of its search.  *)
Yields(R, r, s, p) ==
    /\ Sequence(s) /\ AllDiffer(s, p) /\ Gathered(R \cup Elements(s), r)
    /\ \A d \in R, x \in Elements(s) : Differ(d, x)

(* The head is the command c of a search, and R are the others.                 *)
Heads(c, R, pr) ==
    /\ Alive(pr) /\ Plain(pr) /\ Gathered({c} \cup R, pr) /\ \A d \in R : Differ(c, d)

LEMMA TableAnswered ==
    ASSUME NEW c, c.ask = "include", NEW R, NEW pr, Heads(c, R, pr),
           NEW a, a.status = "ok", FirstOf(a.items, AskedFor(c, pr)),
           NEW w, w = find_included_cb(c.proc, pr, a)
    PROVE  Yields(R, w.proc, w.sends, c.proc) /\ w.proc.reported = <<>>
<1> PICK k, p : k = a.items /\ p = c.proc
  OBVIOUS
<1>C. PICK C : C = {c} \cup R
  OBVIOUS
<1>h. PICK h : h = LastOf(k).first
  OBVIOUS
<1>m. PICK m : m = h + 1
  OBVIOUS
<1>K. PICK K : K = Elements(k)
  OBVIOUS
<1>1. /\ DOMAIN pr = ProcFields /\ pr.reported = <<>> /\ pr.kind = "include" /\ pr.err = "ok"
      /\ pr.end \in 1..MaxHandle /\ pr.handle \in Nat /\ pr.end \in Nat /\ MaxHandle \in Nat
      /\ Gathered(C, pr) /\ Seeks(c, pr) /\ Sequence(pr.found) /\ Distinct(pr.found)
      /\ \A d \in R : Differ(c, d)
  <2>1. Alive(pr) /\ Plain(pr) /\ Gathered({c} \cup R, pr) /\ \A d \in R : Differ(c, d)
    BY DEF Heads
  <2>2. /\ DOMAIN pr = ProcFields /\ pr.reported = <<>> /\ pr.kind = "include"
        /\ pr.end \in 1..MaxHandle /\ pr.handle \in Nat /\ pr.end \in Nat /\ MaxHandle \in Nat
    BY <2>1, LimitsAssumption DEF Alive, Plain
  <2>3. pr.err = "ok" /\ Sequence(pr.found) /\ Distinct(pr.found) /\ Seeks(c, pr)
    BY <2>1 DEF Gathered
  <2> QED BY <1>C, <2>1, <2>2, <2>3
<1>2. /\ AskedFor(c, pr) = {e \in ToFind(pr) : c.from <= e.first}
      /\ \A e \in ToFind(pr) : Spans(e) /\ e.first <= pr.end
  BY <1>1, IncludedIsRest
<1>3. /\ Sequence(k) /\ k # <<>> /\ Sorted(k) /\ LastOf(k) \in AskedFor(c, pr)
      /\ K = {e \in AskedFor(c, pr) : e.first <= h}
  BY <1>h, <1>K DEF FirstOf
<1>4. K = {e \in ToFind(pr) : c.from <= e.first /\ e.first <= h} /\ c.from <= h
      /\ h \in 1..MaxHandle /\ h <= pr.end
  <2> PICK e : e = LastOf(k)
    OBVIOUS
  <2>1. e \in ToFind(pr) /\ c.from <= e.first /\ Spans(e) /\ e.first <= pr.end /\ h = e.first
    BY <1>h, <1>2, <1>3
  <2>2. h \in 1..MaxHandle
    BY <2>1 DEF Spans
  <2>3. K = {y \in ToFind(pr) : c.from <= y.first /\ y.first <= h}
    BY <1>2, <1>3
  <2> QED BY <2>1, <2>2, <2>3
<1>5. Distinct(k)
  <2>1. \A e \in Elements(k) : Spans(e)
    BY <1>K, <1>2, <1>3
  <2> QED BY <1>3, <2>1, SortedDistinct
<1>6. K \cap Elements(pr.found) = {}
  <2>1. Elements(pr.found) \subseteq Passed(ToFind(pr), C) /\ c \in C
    BY <1>C, <1>1 DEF Gathered
  <2>2. \A e \in Elements(pr.found) : e \in ToFind(pr) /\ e.first < c.from
    BY <2>1 DEF Passed
  <2>3. c.from \in Nat
    BY <1>1 DEF Seeks
  <2>4. \A e \in ToFind(pr) : e.first \in Nat
    BY <1>2 DEF Spans
  <2> QED BY <1>4, <2>2, <2>3, <2>4
<1>long. PICK long : long = k[1].long
  OBVIOUS
<1>all. PICK all : all = [i \in DOMAIN k |-> resolve_included_uuid(p, k[i])]
  OBVIOUS
<1>queries. PICK queries : queries = IF long THEN all ELSE <<>>
  OBVIOUS
<1>next. PICK next : next = IF h < pr.end THEN <<find_included(p, pr, m)>> ELSE <<>>
  OBVIOUS
<1>s. PICK s : s = queries \o next
  OBVIOUS
<1>u. PICK u : u = [pr EXCEPT !.refs = @ + Len(queries) + Len(next),
                            !.found = IF long THEN @ ELSE @ \o k]
  OBVIOUS
<1>7. w = Then(u, s)
  <2>1. h < pr.end => Following(h) = m
    <3>1. h < pr.end => h \in 0..MaxHandle /\ h # MaxHandle
      BY <1>1, <1>4
    <3> QED BY <1>m, <3>1, FollowingFacts
  <2>2. ~ Failed(a) /\ a.status # "garbled"
    BY DEF Failed
  <2>3. (IF k = <<>> THEN pr.end ELSE LastOf(k).first) = h
    BY <1>h, <1>3
  <2>4. (k # <<>> /\ k[1].long) <=> long
    BY <1>long, <1>3
  <2> QED BY <1>all, <1>queries, <1>next, <1>s, <1>u, <1>3, <2>1, <2>2, <2>3, <2>4 DEF find_included_cb
<1>8. w.proc = u /\ w.sends = s
  BY <1>7, ThenFacts
<1>9. SameSearch(u, pr) /\ u.err = "ok" /\ u.reported = <<>>
      /\ u.found = IF long THEN pr.found ELSE pr.found \o k
  BY <1>u, <1>1 DEF SameSearch, ProcFields
<1>10. Batch(queries, p, "resolve", IF long THEN K ELSE {}, K, m, pr)
  <2>1. CASE long
    <3>1. queries = all
      BY <1>queries, <2>1
    <3>2. Batch(all, p, "resolve", Elements(k), Elements(k), m, pr)
      BY <1>all, <1>3, <1>5, QueriesFor
    <3> QED BY <1>K, <2>1, <3>1, <3>2
  <2>2. CASE ~ long
    <3>1. queries = <<>> /\ DOMAIN <<>> = {}
      BY <1>queries, <2>2
    <3>2. Elements(queries) = {} /\ AllDiffer(queries, p) /\ Sequence(queries)
      BY <3>1, EmptySequence DEF Elements, AllDiffer
    <3>3. Sought({}) = {} /\ Sends({}, K, m, pr)
      BY DEF Sought, Sends
    <3>4. Batch(queries, p, "resolve", {}, K, m, pr)
      BY <3>2, <3>3 DEF Batch
    <3> QED BY <2>2, <3>4
  <2> QED BY <2>1, <2>2
<1>11. Batch(next, p, "include", {}, K, m, pr) /\ (next = <<>> \/ \E x \in Elements(next) : x.ask = "include")
  <2>1. next = <<>> \/ next = <<find_included(p, pr, m)>>
    BY <1>next
  <2> QED BY <2>1, SearchFor
<1>12. Sequence(s) /\ Elements(s) = Elements(queries) \cup Elements(next)
  <2>1. Sequence(queries) /\ Sequence(next)
    BY <1>10, <1>11 DEF Batch
  <2> QED BY <1>s, <2>1, SequenceConcat, ElementsConcat
<1>13. AllDiffer(s, p)
  <2>1. /\ Sequence(queries) /\ AllDiffer(queries, p) /\ Sequence(next) /\ AllDiffer(next, p)
        /\ \A x \in Elements(queries) : x.ask = "resolve"
        /\ \A y \in Elements(next) : y.ask = "include" /\ y.data = <<>>
    BY <1>10, <1>11 DEF Batch, Sends
  <2>2. Elements(<<>>) = {}
    <3>1. DOMAIN <<>> = {}
      OBVIOUS
    <3> QED BY <3>1 DEF Elements
  <2>3. \A x \in Mine(queries, p), y \in Mine(next, p) : Differ(x, y)
    BY <2>1, <2>2 DEF Mine, Differ
  <2> QED BY <1>s, <2>1, <2>3, DifferConcat
<1>S. PICK S : S = Elements(s)
  OBVIOUS
<1>14. Sends(S, K, m, pr)
  <2>1. Sends(Elements(queries), K, m, pr) /\ Sends(Elements(next), K, m, pr)
    BY <1>10, <1>11 DEF Batch
  <2> QED BY <1>S, <1>12, <2>1 DEF Sends
<1>15. Sought(S) = IF long THEN K ELSE {}
  <2>1. S = Elements(queries) \cup Elements(next)
    BY <1>S, <1>12
  <2>2. Sought(S) = Sought(Elements(queries)) \cup Sought(Elements(next))
    BY <2>1, SoughtUnion
  <2>3. Sought(Elements(queries)) = (IF long THEN K ELSE {}) /\ Sought(Elements(next)) = {}
    BY <1>10, <1>11 DEF Batch
  <2> QED BY <2>2, <2>3
<1>16. (\E x \in S : x.ask = "include") \/ pr.end < m
  <2>1. CASE h < pr.end
    <3>1. next # <<>>
      BY <1>next, <2>1
    <3> QED BY <1>S, <1>11, <1>12, <3>1
  <2>2. CASE ~ (h < pr.end)
    BY <1>m, <1>1, <1>4, <2>2
  <2> QED BY <2>1, <2>2
<1>17. Sequence(u.found) /\ Distinct(u.found)
  <2> PICK d : d = pr.found
    OBVIOUS
  <2>0. Sequence(d) /\ Distinct(d) /\ Sequence(k) /\ Distinct(k) /\ Elements(d) \cap Elements(k) = {}
    BY <1>K, <1>1, <1>3, <1>5, <1>6
  <2>1. Sequence(d \o k) /\ Distinct(d \o k)
    BY <2>0, SequenceConcat, DistinctConcat
  <2> QED BY <1>1, <1>9, <2>1
<1>18. \/ u.found = pr.found /\ Sought(S) = K
       \/ Elements(u.found) = Elements(pr.found) \cup K /\ Sought(S) = {}
  <2> PICK d : d = pr.found
    OBVIOUS
  <2>0. Sequence(d) /\ Sequence(k)
    BY <1>1, <1>3
  <2>1. Elements(d \o k) = Elements(d) \cup K
    BY <1>K, <2>0, ElementsConcat
  <2> QED BY <1>9, <1>15, <2>1
<1>19. h \in Nat
  BY <1>4
<1>20. Gathered(R \cup S, u) /\ \A d \in R, x \in S : Differ(d, x)
  BY <1>C, <1>m, <1>1, <1>4, <1>9, <1>14, <1>16, <1>17, <1>18, <1>19, SearchGathersMore
<1> QED BY <1>S, <1>8, <1>9, <1>12, <1>13, <1>20 DEF Yields

LEMMA UnrefYields ==
    ASSUME NEW R, NEW u, NEW s, NEW p, Yields(R, u, s, p), DOMAIN u = ProcFields, u.refs \in Nat,
           u.reported = <<>>
    PROVE  Yields(R, isd_unref(u), s, p)
<1> PICK r : r = isd_unref(u)
  OBVIOUS
<1>1. Gathered(R \cup Elements(s), r)
  BY UnrefGathers DEF Yields
<1> QED BY <1>1 DEF Yields

LEMMA NothingYields ==
    ASSUME NEW R, NEW u, Gathered(R, u), NEW p
    PROVE  Yields(R, u, <<>>, p)
<1>1. DOMAIN <<>> = {}
  OBVIOUS
<1>2. Elements(<<>>) = {} /\ AllDiffer(<<>>, p)
  BY <1>1 DEF Elements, AllDiffer
<1>3. R \cup {} = R
  OBVIOUS
<1> QED BY <1>2, <1>3, EmptySequence DEF Yields

(* The answers a search gets whose requests are all answered.                  *)
PlainAnswer(c, pr, a) ==
    \/ a.status = "ok" /\ (c.ask = "include" => FirstOf(a.items, AskedFor(c, pr)))
    \/ a.status = "not_found" /\ c.ask = "include" /\ AskedFor(c, pr) = {}

LEMMA HeadYields ==
    ASSUME NEW c, NEW R, NEW pr, Heads(c, R, pr), NEW a, PlainAnswer(c, pr, a), AnswerOK(c, a),
           NEW n \in Nat, n > 0, ProcOK(pr, n),
           NEW w, w = Done(c, pr, a)
    PROVE  Yields(R, Notify(c, w.proc), w.sends, c.proc)
<1>1. /\ DOMAIN pr = ProcFields /\ pr.reported = <<>> /\ pr.kind = "include" /\ pr.err = "ok"
      /\ pr.end \in Nat /\ pr.handle \in Nat /\ Gathered({c} \cup R, pr) /\ Seeks(c, pr)
      /\ Alive(pr) /\ ~ pr.refused /\ \A d \in R : Differ(c, d)
  <2>1. Alive(pr) /\ Plain(pr) /\ Gathered({c} \cup R, pr) /\ \A d \in R : Differ(c, d)
    BY DEF Heads
  <2>2. /\ DOMAIN pr = ProcFields /\ pr.reported = <<>> /\ pr.kind = "include" /\ ~ pr.refused
        /\ pr.handle \in Nat /\ pr.end \in Nat
    BY <2>1, LimitsAssumption DEF Alive, Plain
  <2>3. pr.err = "ok" /\ Seeks(c, pr)
    BY <2>1 DEF Gathered
  <2> QED BY <2>1, <2>2, <2>3
<1>2. c.func /\ c.ask \in {"include", "resolve"}
  BY <1>1 DEF Seeks
<1>3. pr.refs = n /\ pr.held = TRUE
  BY <1>1 DEF ProcOK, Running
<1>4. w = Callback(c, pr, a)
  BY <1>2 DEF Done
<1>5. CASE c.ask = "resolve"
  <2> PICK u : u = [pr EXCEPT !.found = @ \o c.data]
    OBVIOUS
  <2>1. a.status = "ok"
    BY <1>5 DEF PlainAnswer
  <2>2. w = Then(isd_unref(u), <<>>)
    BY <1>4, <1>5, <2>1 DEF Callback, resolve_included_uuid_cb, Failed
  <2>3. Gathered(R, u)
    BY <1>1, <1>5, QueryGathers
  <2>4. DOMAIN u = ProcFields /\ u.refs = n /\ u.reported = <<>>
    BY <1>1, <1>3, FoundFields DEF Keeps, Same
  <2>5. Yields(R, isd_unref(u), <<>>, c.proc)
    BY <2>3, <2>4, NothingYields, UnrefYields
  <2>6. w.proc = isd_unref(u) /\ w.sends = <<>>
    BY <2>2, ThenFacts
  <2>7. Notify(c, w.proc) = w.proc
    BY <1>5 DEF Notify
  <2> QED BY <2>5, <2>6, <2>7
<1>6. CASE c.ask = "include"
  <2>1. w = find_included_cb(c.proc, pr, a)
    BY <1>4, <1>6 DEF Callback
  <2>2. Yields(R, w.proc, w.sends, c.proc) /\ w.proc.reported = <<>>
    <3>1. CASE a.status = "ok" /\ FirstOf(a.items, AskedFor(c, pr))
      BY <1>6, <2>1, <3>1, TableAnswered
    <3>2. CASE a.status = "not_found" /\ AskedFor(c, pr) = {}
      <4> PICK u : u = isd_error(pr, "ok")
        OBVIOUS
      <4>1. w = Then(u, <<>>)
        BY <2>1, <3>2 DEF find_included_cb, primary_status, Failed
      <4>2. w.proc = u /\ w.sends = <<>>
        BY <4>1, ThenFacts
      <4>3. Gathered(R, u)
        BY <1>1, <1>6, <3>2, SearchGathersNone
      <4>4. u.reported = <<>>
        BY <1>1, ErrorFields DEF Same
      <4> QED BY <4>2, <4>3, <4>4, NothingYields
    <3> QED BY <1>6, <3>1, <3>2 DEF PlainAnswer
  <2>3. DOMAIN w.proc = ProcFields /\ w.proc.refs \in Nat
    <3>1. Searching(w, c, pr, n)
      BY <1>1, <1>3, <1>6, <2>1, IncludeSends
    <3>2. Keeps(w.proc, pr) /\ Sequence(w.sends) /\ w.proc.refs = n + Len(w.sends)
      BY <3>1 DEF Searching
    <3>3. Len(w.sends) \in Nat
      BY <3>2, SequenceFacts
    <3> QED BY <3>2, <3>3 DEF Keeps
  <2>4. Notify(c, w.proc) = isd_unref(w.proc)
    BY <1>6 DEF Notify
  <2> QED BY <2>2, <2>3, <2>4, UnrefYields
<1> QED BY <1>2, <1>5, <1>6

(* Nothing of s is of p. *)
LEMMA NoneMine ==
    ASSUME NEW s, NEW p, \A x \in Elements(s) : x.proc # p
    PROVE  Mine(s, p) = {} /\ AllDiffer(s, p)
<1>1. Mine(s, p) = {}
  BY DEF Mine
<1>2. \A i \in DOMAIN s : s[i].proc # p
  BY DEF Elements
<1> QED BY <1>1, <1>2 DEF AllDiffer

(* What a callback sends goes before or behind the rest of the queue.           *)
Mixes(q, s, t) == q = s \o t \/ q = t \o s

LEMMA MixDiffers ==
    ASSUME NEW s, NEW t, Sequence(s), Sequence(t), NEW p, AllDiffer(s, p), AllDiffer(t, p),
           \A d \in Mine(t, p), x \in Mine(s, p) : Differ(d, x),
           NEW q, Mixes(q, s, t)
    PROVE  AllDiffer(q, p) /\ Mine(q, p) = Mine(t, p) \cup Mine(s, p)
<1>1. \A x \in Mine(s, p), d \in Mine(t, p) : Differ(x, d)
  BY DifferSymmetric
<1>2. AllDiffer(s \o t, p) /\ Mine(s \o t, p) = Mine(s, p) \cup Mine(t, p)
  BY <1>1, DifferConcat, MineConcat
<1>3. AllDiffer(t \o s, p) /\ Mine(t \o s, p) = Mine(t, p) \cup Mine(s, p)
  BY DifferConcat, MineConcat
<1> QED BY <1>2, <1>3 DEF Mixes

(* The head leaves the queue: what is left of p.                              *)
HeadIs(c, R, C, p) ==
    /\ c.proc # p => C = R
    /\ c.proc = p => C = {c} \cup R /\ \A d \in R : Differ(c, d)

LEMMA HeadParts ==
    ASSUME NEW c, NEW t, Sequence(t), NEW q, q = <<c>> \o t, NEW p, AllDiffer(q, p)
    PROVE  AllDiffer(t, p) /\ HeadIs(c, Mine(t, p), Mine(q, p), p)
<1>o. PICK one : one = <<c>>
  OBVIOUS
<1>1. Sequence(one) /\ DOMAIN one = {1} /\ one[1] = c
  BY <1>o, SequenceOne
<1>2. Elements(one) = {c}
  BY <1>1 DEF Elements
<1>3. q = one \o t
  BY <1>o
<1>4. AllDiffer(t, p) /\ \A x \in Mine(one, p), d \in Mine(t, p) : Differ(x, d)
  BY <1>1, <1>3, DifferParts
<1>5. Mine(q, p) = Mine(one, p) \cup Mine(t, p)
  <2>1. Mine(one \o t, p) = Mine(one, p) \cup Mine(t, p)
    BY <1>1, MineConcat
  <2> QED BY <1>3, <2>1
<1>6. c.proc # p => Mine(one, p) = {}
  BY <1>2 DEF Mine
<1>7. c.proc = p => Mine(one, p) = {c}
  BY <1>2 DEF Mine
<1> QED BY <1>4, <1>5, <1>6, <1>7 DEF HeadIs

(* The searches of others do not notice.                                      *)
LEMMA OthersGather ==
    ASSUME NEW c, NEW t, Sequence(t), NEW q, q = <<c>> \o t, NEW p, c.proc # p, NEW pr, Gathers(q, p, pr),
           NEW s, Sequence(s), \A x \in Elements(s) : x.proc # p, NEW q2, Mixes(q2, s, t)
    PROVE  Gathers(q2, p, pr)
<1> SUFFICES ASSUME Plain(pr) PROVE AllDiffer(q2, p) /\ Gathered(Mine(q2, p), pr)
  BY DEF Gathers
<1>1. AllDiffer(q, p) /\ Gathered(Mine(q, p), pr)
  BY DEF Gathers
<1>2. AllDiffer(t, p) /\ Mine(q, p) = Mine(t, p)
  <2>1. AllDiffer(t, p) /\ HeadIs(c, Mine(t, p), Mine(q, p), p)
    BY <1>1, HeadParts
  <2> QED BY <2>1 DEF HeadIs
<1>3. Mine(s, p) = {} /\ AllDiffer(s, p)
  BY NoneMine
<1>4. AllDiffer(q2, p) /\ Mine(q2, p) = Mine(t, p) \cup Mine(s, p)
  <2>1. \A d \in Mine(t, p), x \in Mine(s, p) : Differ(d, x)
    BY <1>3
  <2>2. AllDiffer(s, p) /\ AllDiffer(t, p)
    BY <1>2, <1>3
  <2> QED BY <2>1, <2>2, MixDiffers
<1>5. Mine(q2, p) = Mine(q, p)
  BY <1>2, <1>3, <1>4
<1> QED BY <1>1, <1>4, <1>5

LEMMA MarkedPlain ==
    ASSUME NEW x, DOMAIN x = ProcFields, NEW c, NEW a, NEW pr, pr = Marked(x, c, a), Plain(pr)
    PROVE  Plain(x) /\ pr.err = x.err /\ (a.status = "ok" \/ Ending(c, a))
<1> PICK y \in BOOLEAN : y <=> (x.flawed \/ (a.status # "ok" /\ ~ Ending(c, a)))
  OBVIOUS
<1>1. pr = [x EXCEPT !.flawed = y]
  <2>1. (x.flawed \/ (a.status # "ok" /\ ~ Ending(c, a))) = y
    OBVIOUS
  <2> QED BY <2>1, Zenon DEF Marked
<1>2. pr.kind = x.kind /\ pr.muted = x.muted /\ pr.refused = x.refused /\ pr.err = x.err /\ pr.flawed = y
  BY <1>1 DEF ProcFields
<1>3. ~ y
  BY <1>2 DEF Plain
<1>4. ~ x.flawed /\ (a.status = "ok" \/ Ending(c, a))
  BY <1>3
<1> QED BY <1>2, <1>4 DEF Plain

LEMMA KeepsPlain ==
    ASSUME NEW r, NEW pr, Keeps(r, pr), Plain(r)
    PROVE  Plain(pr)
  BY DEF Keeps, Plain

LEMMA ToldPlain ==
    ASSUME NEW c, NEW x, NEW pr, SameSearch(pr, x), NEW a, Tells(c, x, a), pr.kind = "include",
           Belongs(c.ask, pr), a.status = "ok" \/ Ending(c, a)
    PROVE  PlainAnswer(c, pr, a)
<1>1. AskedFor(c, pr) = AskedFor(c, x)
  BY DEF AskedFor, SameSearch
<1>2. c.ask \in {"include", "resolve"}
  BY DEF Belongs, Discoveries
<1>3. CASE c.ask = "include"
  <2>1. /\ a.status = "ok" => FirstOf(a.items, AskedFor(c, pr))
        /\ a.status = "not_found" => AskedFor(c, pr) = {}
    BY <1>1, <1>3 DEF Tells, Tables
  <2> QED BY <1>3, <2>1 DEF PlainAnswer, Ending
<1>4. CASE c.ask = "resolve"
  BY <1>4 DEF PlainAnswer, Ending
<1> QED BY <1>2, <1>3, <1>4

(* The search the head is of, when all its requests were answered.              *)
LEMMA HeadSearchYields ==
    ASSUME NEW q, NEW ps, NEW c, NEW a, NEW q2, NEW ps2, NEW pr, NEW r, NEW s,
           HeadTurns(q, ps, c, a, q2, ps2, pr, r, s), NEW p, p = c.proc, NEW x, x = ps[p],
           Tells(c, x, a), NEW t, Sequence(t), q = <<c>> \o t, Gathers(q, p, x), Plain(r)
    PROVE  Yields(Mine(t, p), r, s, p) /\ AllDiffer(t, p)
<1> PICK n : n = Count(q, p)
  OBVIOUS
<1>1. /\ pr = Marked(x, c, a) /\ HeadReads(c, pr, a, n) /\ DOMAIN x = ProcFields
      /\ r = Notify(c, Done(c, pr, a).proc) /\ s = Done(c, pr, a).sends /\ Handled(r, s, c, pr, n)
  BY DEF HeadTurns
<1>2. n \in Nat /\ n > 0 /\ ProcOK(pr, n) /\ CommandOK(c, pr) /\ AnswerOK(c, a)
  BY <1>1 DEF HeadReads
<1>3. Alive(pr)
  BY <1>2, HeadAlive
<1>4. Plain(pr)
  BY <1>1, KeepsPlain DEF Handled
<1>5. Plain(x) /\ pr.err = x.err /\ (a.status = "ok" \/ Ending(c, a))
  BY <1>1, <1>4, MarkedPlain
<1>6. SameSearch(pr, x) /\ pr.found = x.found /\ pr.reported = x.reported
  BY <1>1, MarkedSearch
<1>7. AllDiffer(q, p) /\ Gathered(Mine(q, p), x)
  BY <1>5 DEF Gathers
<1> PICK R : R = Mine(t, p)
  OBVIOUS
<1>8. AllDiffer(t, p) /\ Mine(q, p) = {c} \cup R /\ \A d \in R : Differ(c, d)
  <2>1. AllDiffer(t, p) /\ HeadIs(c, Mine(t, p), Mine(q, p), p)
    BY <1>7, HeadParts
  <2> QED BY <2>1 DEF HeadIs
<1>9. Gathered({c} \cup R, pr)
  <2>1. Gathered({c} \cup R, x) /\ pr.reported = <<>>
    BY <1>3, <1>7, <1>8 DEF Alive
  <2> QED BY <1>5, <1>6, <2>1, SameGathered
<1>10. Heads(c, R, pr)
  BY <1>3, <1>4, <1>8, <1>9 DEF Heads
<1>11. PlainAnswer(c, pr, a)
  <2>1. pr.kind = "include" /\ Belongs(c.ask, pr)
    BY <1>2, <1>4 DEF Plain, CommandOK
  <2> QED BY <1>5, <1>6, <2>1, ToldPlain
<1> PICK w : w = Done(c, pr, a)
  OBVIOUS
<1>12. Yields(R, Notify(c, w.proc), w.sends, c.proc)
  BY <1>2, <1>10, <1>11, HeadYields
<1>13. r = Notify(c, w.proc) /\ s = w.sends
  BY <1>1
<1> QED BY <1>8, <1>12, <1>13

LEMMA HeadGathers ==
    ASSUME NEW q, NEW ps, NEW c, NEW a, NEW q2, NEW ps2, NEW pr, NEW r, NEW s,
           HeadTurns(q, ps, c, a, q2, ps2, pr, r, s), Tells(c, ps[c.proc], a),
           NEW t, Sequence(t), q = <<c>> \o t, Mixes(q2, s, t), GatherOK(q, ps)
    PROVE  GatherOK(q2, ps2)
<1> PICK p : p = c.proc
  OBVIOUS
<1> PICK x : x = ps[p]
  OBVIOUS
<1>1. p \in DOMAIN ps /\ Handled(r, s, c, pr, Count(q, p)) /\ ps2 = [ps EXCEPT ![p] = r]
  BY DEF HeadTurns
<1>2. DOMAIN ps2 = DOMAIN ps /\ ps2[p] = r /\ \A y \in DOMAIN ps : y # p => ps2[y] = ps[y]
  BY <1>1
<1>3. Sequence(s) /\ \A k \in Elements(s) : k.proc = p
  BY <1>1 DEF Handled, Elements
<1>4. ASSUME NEW y \in DOMAIN ps, y # p PROVE Gathers(q2, y, ps[y])
  <2> PICK z : z = ps[y]
    OBVIOUS
  <2>1. Gathers(q, y, z)
    BY DEF GatherOK
  <2>2. c.proc # y /\ \A k \in Elements(s) : k.proc # y
    BY <1>3, <1>4
  <2>3. Gathers(q2, y, z)
    BY <1>3, <2>1, <2>2, OthersGather
  <2> QED BY <2>3
<1>5. Gathers(q2, p, r)
  <2> SUFFICES ASSUME Plain(r) PROVE AllDiffer(q2, p) /\ Gathered(Mine(q2, p), r)
    BY DEF Gathers
  <2>1. Gathers(q, p, x) /\ Tells(c, x, a)
    BY <1>1 DEF GatherOK
  <2>2. Yields(Mine(t, p), r, s, p) /\ AllDiffer(t, p)
    BY <2>1, HeadSearchYields
  <2>3. AllDiffer(s, p) /\ Gathered(Mine(t, p) \cup Elements(s), r)
        /\ \A d \in Mine(t, p), k \in Elements(s) : Differ(d, k)
    BY <2>2 DEF Yields
  <2>4. Mine(s, p) = Elements(s)
    BY <1>3 DEF Mine
  <2>5. AllDiffer(q2, p) /\ Mine(q2, p) = Mine(t, p) \cup Mine(s, p)
    <3>1. \A d \in Mine(t, p), k \in Mine(s, p) : Differ(d, k)
      BY <2>3, <2>4
    <3> QED BY <1>3, <2>2, <2>3, <3>1, MixDiffers
  <2> QED BY <2>3, <2>4, <2>5
<1>6. \A y \in DOMAIN ps2 : Gathers(q2, y, ps2[y])
  BY <1>2, <1>4, <1>5
<1> QED BY <1>6 DEF GatherOK

LEMMA AnsweredGathers ==
    ASSUME GattInv, ReadInv, IncludeInv, NEW a, Answered(a)
    PROVE  IncludeInv'
<1> PICK q, ps : q = queue /\ ps = procs
  OBVIOUS
<1> PICK q2, ps2 : q2 = queue' /\ ps2 = procs'
  OBVIOUS
<1> PICK c : c = q[1]
  OBVIOUS
<1> PICK pr : pr = Marked(ps[c.proc], c, a)
  OBVIOUS
<1> PICK w : w = Done(c, pr, a)
  OBVIOUS
<1>1. QueueInv /\ DataOK(q, ps) /\ GatherOK(q, ps)
  BY DEF GattInv, ReadInv, IncludeInv
<1>2. queue # <<>> /\ AnswerOK(c, a) /\ Given(c, a) /\ HandleHead(a) /\ Tells(c, ps[c.proc], a)
  BY DEF Answered
<1>3. HeadGone(q, ps, c, a, q2, ps2)
  BY <1>1, <1>2, HeadActionGone
<1>4. PICK x, r, s : HeadTurns(q, ps, c, a, q2, ps2, x, r, s)
  BY <1>1, <1>2, <1>3, HeadTurn
<1> PICK t : t = Tail(q)
  OBVIOUS
<1>5. x = pr /\ s = w.sends
  BY <1>4 DEF HeadTurns
<1>6. Mixes(q2, s, t) /\ Sequence(q) /\ q # <<>>
  BY <1>3, <1>5 DEF HeadGone, QueueOK, Mixes
<1>7. Sequence(t) /\ q = <<c>> \o t
  BY <1>6, SequenceTail
<1>8. GatherOK(q2, ps2)
  BY <1>1, <1>2, <1>4, <1>6, <1>7, HeadGathers
<1>9. GatherOK(queue', procs')
  BY <1>8
<1> QED BY <1>9 DEF IncludeInv

(* A command is cancelled: those of other procedures stay.                     *)
MineStays(q2, q, p) == Mine(q2, p) = Mine(q, p) /\ (AllDiffer(q, p) => AllDiffer(q2, p))

LEMMA StayGathered ==
    ASSUME NEW q2, NEW q, NEW p, MineStays(q2, q, p), NEW pr, Gathers(q, p, pr)
    PROVE  Gathers(q2, p, pr)
  BY DEF MineStays, Gathers

LEMMA RemovedStays ==
    ASSUME NEW q, Sequence(q), NEW i \in DOMAIN q, NEW p, q[i].proc # p,
           NEW q2, q2 = SubSeq(q, 1, i - 1) \o SubSeq(q, i + 1, Len(q))
    PROVE  MineStays(q2, q, p)
<1> PICK c : c = q[i]
  OBVIOUS
<1>u. PICK u : u = SubSeq(q, 1, i - 1)
  OBVIOUS
<1>v. PICK v : v = SubSeq(q, i + 1, Len(q))
  OBVIOUS
<1>t. PICK t : t = <<c>> \o v
  OBVIOUS
<1>1. Sequence(u) /\ Sequence(v) /\ q = u \o t
  BY <1>u, <1>v, <1>t, SequenceParts
<1>2. Sequence(t)
  <2>1. Sequence(<<c>>)
    BY SequenceOne
  <2> QED BY <1>t, <1>1, <2>1, SequenceConcat
<1>3. q2 = u \o v
  BY <1>u, <1>v
<1>4. Mine(q, p) = Mine(u, p) \cup Mine(t, p)
  <2>1. Mine(u \o t, p) = Mine(u, p) \cup Mine(t, p)
    BY <1>1, <1>2, MineConcat
  <2> QED BY <1>1, <2>1
<1>5. Mine(q2, p) = Mine(u, p) \cup Mine(v, p)
  <2>1. Mine(u \o v, p) = Mine(u, p) \cup Mine(v, p)
    BY <1>1, MineConcat
  <2> QED BY <1>3, <2>1
<1>6. Mine(t, p) = Mine(v, p)
  <2>o. PICK one : one = <<c>>
    OBVIOUS
  <2>1. Sequence(one) /\ DOMAIN one = {1} /\ one[1] = c
    BY <2>o, SequenceOne
  <2>2. Mine(one, p) = {}
    BY <2>1 DEF Mine, Elements
  <2>3. Mine(one \o v, p) = Mine(one, p) \cup Mine(v, p)
    BY <1>1, <2>1, MineConcat
  <2> QED BY <1>t, <2>o, <2>2, <2>3
<1>7. ASSUME AllDiffer(q, p) PROVE AllDiffer(q2, p)
  <2>1. AllDiffer(u \o t, p)
    BY <1>1, <1>7
  <2>2. AllDiffer(u, p) /\ AllDiffer(t, p) /\ \A x \in Mine(u, p), y \in Mine(t, p) : Differ(x, y)
    BY <1>1, <1>2, <2>1, DifferParts
  <2>3. AllDiffer(v, p)
    BY <1>1, <1>t, <2>2, HeadParts
  <2>4. AllDiffer(u \o v, p)
    BY <1>1, <1>6, <2>2, <2>3, DifferConcat
  <2> QED BY <1>3, <2>4
<1> QED BY <1>4, <1>5, <1>6, <1>7 DEF MineStays

LEMMA ClearedKeeps ==
    ASSUME NEW q, 1 \in DOMAIN q, NEW p, q[1].proc # p, DOMAIN q[1] = CommandFields,
           NEW q2, q2 = [q EXCEPT ![1] = Cleared(q[1])]
    PROVE  MineStays(q2, q, p)
<1> PICK d : d = Cleared(q[1])
  OBVIOUS
<1>1. d.proc # p
  BY DEF Cleared, CommandFields
<1>2. q2 = [q EXCEPT ![1] = d]
  OBVIOUS
<1>3. DOMAIN q2 = DOMAIN q /\ q2[1] = d /\ \A j \in DOMAIN q : j # 1 => q2[j] = q[j]
  BY <1>2
<1>4. \A j \in DOMAIN q2 : q2[j].proc = p <=> q[j].proc = p
  BY <1>1, <1>3
<1>5. \A j \in DOMAIN q2 : q2[j].proc = p => q2[j] = q[j]
  BY <1>1, <1>3
<1>6. Mine(q2, p) = Mine(q, p)
  BY <1>3, <1>4, <1>5 DEF Mine, Elements
<1>7. AllDiffer(q, p) => AllDiffer(q2, p)
  BY <1>3, <1>4, <1>5 DEF AllDiffer
<1> QED BY <1>6, <1>7 DEF MineStays

LEMMA CancelGathers ==
    ASSUME GattInv, IncludeInv, NEW p \in DOMAIN procs, Cancel(p)
    PROVE  IncludeInv'
<1> PICK q, ps, u : q = queue /\ ps = procs /\ u = p
  OBVIOUS
<1> PICK q2, ps2 : q2 = queue' /\ ps2 = procs'
  OBVIOUS
<1>1. PICK r : Cancelled(r, procs[p]) /\ procs' = [procs EXCEPT ![p] = r]
  BY CancelTurns
<1>2. ps2 = [ps EXCEPT ![u] = r] /\ u \in DOMAIN ps
  BY <1>1
<1>3. QueueOK(q, ps) /\ GatherOK(q, ps)
  BY DEF GattInv, QueueInv, QueueOK, IncludeInv
<1>4. Gathers(q2, u, r)
  BY <1>1 DEF Cancelled, Plain, Gathers
<1>5. PICK i \in DOMAIN q :
         /\ q[i].proc = u
         /\ \/ i = 1 /\ q2 = [q EXCEPT ![1] = Cleared(q[1])]
            \/ q2 = SubSeq(q, 1, i - 1) \o SubSeq(q, i + 1, Len(q))
  BY DEF Cancel, Cleared
<1>6. ASSUME NEW y, y # u PROVE MineStays(q2, q, y)
  <2>0. q[i].proc # y
    BY <1>5, <1>6
  <2>1. CASE i = 1 /\ q2 = [q EXCEPT ![1] = Cleared(q[1])]
    <3>1. CommandOK(q[1], ps[q[1].proc])
      BY <1>3, <1>5, <2>1 DEF QueueOK, Commands
    <3>2. DOMAIN q[1] = CommandFields /\ 1 \in DOMAIN q
      BY <1>5, <2>1, <3>1 DEF CommandOK
    <3> QED BY <2>0, <2>1, <3>2, ClearedKeeps
  <2>2. CASE q2 = SubSeq(q, 1, i - 1) \o SubSeq(q, i + 1, Len(q))
    <3>1. Sequence(q)
      BY <1>3 DEF QueueOK
    <3> QED BY <1>5, <2>0, <2>2, <3>1, RemovedStays
  <2> QED BY <1>5, <2>1, <2>2
<1>7. DOMAIN ps2 = DOMAIN ps /\ ps2[u] = r /\ \A y \in DOMAIN ps : y # u => ps2[y] = ps[y]
  BY <1>2
<1>8. ASSUME NEW y \in DOMAIN ps, y # u PROVE Gathers(q2, y, ps[y])
  <2>1. Gathers(q, y, ps[y])
    BY <1>3 DEF GatherOK
  <2> QED BY <1>6, <1>8, <2>1, StayGathered
<1>9. \A y \in DOMAIN ps2 : Gathers(q2, y, ps2[y])
  BY <1>4, <1>7, <1>8
<1>10. GatherOK(q2, ps2)
  BY <1>9 DEF GatherOK
<1>11. GatherOK(queue', procs')
  BY <1>10
<1> QED BY <1>11 DEF IncludeInv

(* A search begins: its one query asks where the range begins.                 *)
LEMMA NewGathers ==
    ASSUME NEW pr, NEW c, NEW p, Fresh(pr, c, p), Brings(pr, c), NEW x, x = Accepted(pr), Plain(x),
           NEW o, o = Own(c)
    PROVE  Gathered({o}, x)
<1> PICK y : y = HasObject(pr)
  OBVIOUS
<1>1. x = [pr EXCEPT !.held = y]
  BY Zenon DEF Accepted
<1>2. /\ DOMAIN pr = ProcFields /\ DOMAIN c = CommandFields /\ c.func = TRUE /\ pr.reported = <<>>
      /\ pr.handle \in 1..MaxHandle /\ pr.end \in 1..MaxHandle /\ Belongs(c.ask, pr)
      /\ c.ask \notin {"resolve", "execute"}
  BY DEF Fresh
<1>3. /\ SameSearch(x, pr) /\ x.found = pr.found /\ x.err = pr.err /\ x.reported = <<>>
  BY <1>1, <1>2 DEF ProcFields, SameSearch
<1>4. pr.kind = "include"
  BY <1>3 DEF Plain, SameSearch
<1> PICK h : h = x.handle
  OBVIOUS
<1>5. x.found = <<>> /\ x.err = "ok" /\ c.from = h /\ c.to = x.end /\ c.data = <<>>
  <2>1. /\ pr.found = <<>> /\ pr.err = "ok"
        /\ c.from = pr.handle /\ c.to = pr.end /\ c.data = <<>>
    BY <1>4 DEF Brings
  <2> QED BY <1>3, <2>1 DEF SameSearch
<1>6. c.ask = "include"
  BY <1>2, <1>4 DEF Belongs, Discoveries
<1>7. o.func = TRUE /\ o.ask = "include" /\ o.from = h /\ o.to = x.end /\ o.data = <<>>
  BY <1>2, <1>5, <1>6 DEF Own, CommandFields
<1>8. h \in Nat /\ x.end \in Nat
  BY <1>2, <1>3, LimitsAssumption DEF SameSearch
<1>9. Sequence(<<>>) /\ Elements(<<>>) = {} /\ Distinct(<<>>)
  <2>1. DOMAIN <<>> = {}
    OBVIOUS
  <2> QED BY <2>1, EmptySequence DEF Elements, Distinct
<1>10. Seeks(o, x)
  <2>1. h <= h
    BY <1>8
  <2> QED BY <1>5, <1>7, <1>8, <1>9, <2>1 DEF Seeks
<1>11. \A e \in ToFind(x) : ~ (e.first < h)
  <2> SUFFICES ASSUME NEW e \in ToFind(x) PROVE ~ (e.first < h)
    OBVIOUS
  <2>1. e.first \in h..x.end /\ e.first \in Nat
    BY ToFindFrom DEF Apart, Spans
  <2> QED BY <1>8, <2>1
<1>12. Passed(ToFind(x), {o}) = {}
  BY <1>7, <1>11 DEF Passed
<1>13. Sought({o}) = {}
  BY <1>7, <1>9 DEF Sought
<1> QED BY <1>3, <1>5, <1>9, <1>10, <1>12, <1>13 DEF Gathered

LEMMA AppendedStays ==
    ASSUME NEW q, Sequence(q), NEW o, NEW p, o.proc # p
    PROVE  MineStays(Append(q, o), q, p)
<1>o. PICK one : one = <<o>>
  OBVIOUS
<1>1. Sequence(one) /\ DOMAIN one = {1} /\ one[1] = o
  BY <1>o, SequenceOne
<1>2. Elements(one) = {o}
  BY <1>1 DEF Elements
<1>3. Mine(one, p) = {} /\ AllDiffer(one, p)
  BY <1>2, NoneMine
<1>4. Mine(q \o one, p) = Mine(q, p) \cup Mine(one, p)
  BY <1>1, MineConcat
<1>5. AllDiffer(q, p) => AllDiffer(q \o one, p)
  BY <1>1, <1>3, DifferConcat
<1>6. Append(q, o) = q \o one
  BY <1>o, SequenceAppend
<1> QED BY <1>3, <1>4, <1>5, <1>6 DEF MineStays

LEMMA AppendedIs ==
    ASSUME NEW q, Sequence(q), NEW o, NEW p, o.proc = p, \A c \in Elements(q) : c.proc # p
    PROVE  Mine(Append(q, o), p) = {o} /\ AllDiffer(Append(q, o), p)
<1>o. PICK one : one = <<o>>
  OBVIOUS
<1>1. Sequence(one) /\ DOMAIN one = {1} /\ one[1] = o
  BY <1>o, SequenceOne
<1>2. Mine(one, p) = {o} /\ AllDiffer(one, p)
  BY <1>1 DEF Mine, Elements, AllDiffer
<1>3. Mine(q, p) = {} /\ AllDiffer(q, p)
  BY NoneMine
<1>4. Mine(q \o one, p) = Mine(q, p) \cup Mine(one, p)
  BY <1>1, MineConcat
<1>5. AllDiffer(q \o one, p)
  BY <1>1, <1>2, <1>3, DifferConcat
<1>6. Append(q, o) = q \o one
  BY <1>o, SequenceAppend
<1> QED BY <1>2, <1>3, <1>4, <1>5, <1>6

LEMMA GatherEnters ==
    ASSUME NEW q, NEW ps, QueueOK(q, ps), GatherOK(q, ps), NEW x, NEW o, o.proc = Len(ps) + 1,
           NEW ps2, ps2 = Append(ps, x),
           NEW q2, \/ q2 = q /\ ~ Plain(x)
                   \/ q2 = Append(q, o) /\ (Plain(x) => Gathered({o}, x))
    PROVE  GatherOK(q2, ps2)
<1>0. Sequence(q) /\ Sequence(ps) /\ Commands(q, ps)
  BY DEF QueueOK
<1> PICK n \in Nat : n = Len(ps)
  BY <1>0, SequenceFacts
<1>1. DOMAIN ps = 1..n /\ DOMAIN ps2 = 1..(n + 1) /\ ps2[n + 1] = x /\ \A i \in 1..n : ps2[i] = ps[i]
  BY <1>0, AppendIs
<1> PICK m : m = n + 1
  OBVIOUS
<1>2. m \notin DOMAIN ps /\ o.proc = m /\ ps2[m] = x
  BY <1>1
<1>3. ASSUME NEW y \in DOMAIN ps PROVE Gathers(q2, y, ps2[y])
  <2>1. Gathers(q, y, ps2[y])
    BY <1>1 DEF GatherOK
  <2>2. o.proc # y
    BY <1>2
  <2>3. q2 = q \/ MineStays(q2, q, y)
    BY <1>0, <2>2, AppendedStays
  <2> QED BY <2>1, <2>3, StayGathered
<1>4. Gathers(q2, m, x)
  <2> SUFFICES ASSUME Plain(x) PROVE AllDiffer(q2, m) /\ Gathered(Mine(q2, m), x)
    BY DEF Gathers
  <2>1. q2 = Append(q, o) /\ Gathered({o}, x)
    OBVIOUS
  <2>2. \A c \in Elements(q) : c.proc # m
    BY <1>0, <1>2 DEF Commands, Elements
  <2>3. Mine(q2, m) = {o} /\ AllDiffer(q2, m)
    BY <1>0, <1>2, <2>1, <2>2, AppendedIs
  <2> QED BY <2>1, <2>3
<1>5. \A y \in DOMAIN ps2 : y = m \/ y \in DOMAIN ps
  BY <1>1
<1>6. \A y \in DOMAIN ps2 : Gathers(q2, y, ps2[y])
  BY <1>2, <1>3, <1>4, <1>5
<1> QED BY <1>6 DEF GatherOK

LEMMA StartsGathers ==
    ASSUME GattInv, IncludeInv, Starts
    PROVE  IncludeInv'
<1> PICK q, ps : q = queue /\ ps = procs
  OBVIOUS
<1> PICK q2, ps2 : q2 = queue' /\ ps2 = procs'
  OBVIOUS
<1> PICK pr, c : Starting(pr, c)
  BY StartsBegin
<1>1. Begin(pr, c) /\ Fresh(pr, c, Len(ps) + 1) /\ Brings(pr, c)
  BY DEF Starting
<1> PICK o : o = Own(c)
  OBVIOUS
<1>2. QueueOK(q, ps) /\ GatherOK(q, ps)
  BY DEF GattInv, QueueInv, QueueOK, IncludeInv
<1>3. o.proc = Len(ps) + 1
  BY <1>1 DEF Fresh, Own, CommandFields
<1>4. CASE channel = "stale"
  <2> PICK x : x = Refused(pr)
    OBVIOUS
  <2>1. ps2 = Append(ps, x) /\ q2 = q
    BY <1>1, <1>4 DEF Begin, Refused
  <2>2. x.refused = TRUE
    <3>1. DOMAIN pr = ProcFields
      BY <1>1 DEF Fresh
    <3> QED BY <3>1 DEF Refused, ProcFields
  <2>3. ~ Plain(x)
    BY <2>2 DEF Plain
  <2>4. GatherOK(q2, ps2)
    BY <1>2, <1>3, <2>1, <2>3, GatherEnters
  <2> QED BY <2>4 DEF IncludeInv
<1>5. CASE channel # "stale"
  <2> PICK x : x = Accepted(pr)
    OBVIOUS
  <2>1. ps2 = Append(ps, x) /\ q2 = Append(q, o)
    BY <1>1, <1>5 DEF Begin, Accepted
  <2>2. Plain(x) => Gathered({o}, x)
    BY <1>1, NewGathers
  <2>3. GatherOK(q2, ps2)
    BY <1>2, <1>3, <2>1, <2>2, GatherEnters
  <2> QED BY <2>3 DEF IncludeInv
<1> QED BY <1>4, <1>5

LEMMA IncludeInit == Init => IncludeInv
<1> SUFFICES ASSUME Init PROVE IncludeInv
  OBVIOUS
<1>1. DOMAIN procs = {}
  BY DEF Init
<1> QED BY <1>1 DEF IncludeInv, GatherOK

LEMMA IncludeUnchanged ==
    ASSUME IncludeInv, procs' = procs, queue' = queue
    PROVE  IncludeInv'
<1>1. GatherOK(queue, procs)
  BY DEF IncludeInv
<1>2. GatherOK(queue', procs')
  BY <1>1
<1> QED BY <1>2 DEF IncludeInv

LEMMA IncludeStep == GattInv /\ ReadInv /\ IncludeInv /\ [Next]_vars => IncludeInv'
<1> SUFFICES ASSUME GattInv, ReadInv, IncludeInv, [Next]_vars PROVE IncludeInv'
  OBVIOUS
<1>1. CASE Starts
  BY <1>1, StartsGathers
<1>2. CASE \E p \in DOMAIN procs : Cancel(p)
  BY <1>2, CancelGathers
<1>3. CASE Transmit
  BY <1>3, IncludeUnchanged DEF Transmit
<1>4. CASE Completes
  BY <1>4, CompletesAnswered, AnsweredGathers
<1>5. CASE Abort
  BY <1>5, AbortAnswered, AnsweredGathers
<1>6. CASE Close
  BY <1>6, IncludeUnchanged DEF Close
<1>7. CASE UNCHANGED vars
  BY <1>7, IncludeUnchanged DEF vars
<1>8. CASE WriteFails \/ ReadFails
  BY <1>8, IncludeUnchanged DEF WriteFails, ReadFails
<1> QED BY <1>1, <1>2, <1>3, <1>4, <1>5, <1>6, <1>7, <1>8 DEF Next

(* A search that has reported has no command left: what it found is all.        *)
LEMMA GatheredExact ==
    ASSUME NEW q, NEW ps, QueueOK(q, ps), GatherOK(q, ps), NEW p \in DOMAIN ps, NEW pr, pr = ps[p],
           pr.kind = "include", pr.reported # <<>>, ~ pr.flawed, ~ pr.muted
    PROVE  Distinct(pr.reported[1].data) /\ Elements(pr.reported[1].data) = ToFind(pr)
<1> PICK n : n = Count(q, p)
  OBVIOUS
<1>1. ProcOK(pr, n) /\ Sequence(q)
  BY DEF QueueOK, Procedures
<1>2. ~ pr.refused
  BY <1>1 DEF ProcOK
<1>3. n \in Nat /\ ~ (n > 0)
  <2>1. n \in Nat
    BY <1>1, CountType
  <2>2. ~ (n > 0)
    BY <1>1, <1>2 DEF ProcOK, Running
  <2> QED BY <2>1, <2>2
<1>4. Mine(q, p) = {}
  <2> SUFFICES ASSUME NEW c \in Mine(q, p) PROVE FALSE
    OBVIOUS
  <2>1. PICK i \in DOMAIN q : q[i] = c /\ c.proc = p
    BY DEF Mine, Elements
  <2>2. Count(q, q[i].proc) > 0
    BY <1>1, CountPositive
  <2> QED BY <1>3, <2>1, <2>2
<1>5. Gathered({}, pr)
  <2>1. Gathers(q, p, pr)
    BY DEF GatherOK
  <2> QED BY <1>2, <1>4, <2>1 DEF Gathers, Plain
<1>6. Sought({}) = {} /\ Passed(ToFind(pr), {}) = ToFind(pr)
  BY DEF Sought, Passed
<1> QED BY <1>5, <1>6 DEF Gathered

LEMMA FindInvExact == GattInv /\ FindInv /\ IncludeInv => DiscoveryExact
<1> SUFFICES ASSUME GattInv, FindInv, IncludeInv PROVE DiscoveryExact
  OBVIOUS
<1>1. ASSUME NEW p \in DOMAIN procs, NEW pr, pr = procs[p],
             pr.kind \in {"primary", "primary_uuid", "include", "char"},
             pr.reported # <<>>, ~ pr.flawed, ~ pr.muted
      PROVE  /\ IF pr.kind = "include" THEN Distinct(pr.reported[1].data)
                                       ELSE Sorted(pr.reported[1].data)
             /\ Found(pr) \subseteq ToFind(pr)
             /\ \A e \in ToFind(pr) : e \in Found(pr) \/ (pr.kind = "char" /\ e.first = pr.end)
  <2> PICK data : data = pr.reported[1].data
    OBVIOUS
  <2>1. Found(pr) = Elements(data)
    BY DEF Found, Elements
  <2>2. CASE pr.kind = "include"
    <3> PICK q, ps : q = queue /\ ps = procs
      OBVIOUS
    <3>1. QueueOK(q, ps) /\ GatherOK(q, ps)
      BY DEF GattInv, QueueInv, QueueOK, IncludeInv
    <3>2. Distinct(data) /\ Elements(data) = ToFind(pr)
      BY <1>1, <2>2, <3>1, GatheredExact
    <3> QED BY <2>1, <2>2, <3>2
  <2>3. CASE pr.kind # "include"
    <3>1. Searched(pr)
      BY <1>1 DEF FindInv, LookOK
    <3>2. Complete(pr, data)
      BY <1>1, <2>3, <3>1 DEF Searched, Clear, Discoveries
    <3> QED BY <2>1, <2>3, <3>2 DEF Complete
  <2> QED BY <2>2, <2>3
<1> QED BY <1>1 DEF DiscoveryExact

(* A discovery whose requests were all answered reports what the peer has in    *)
(* the range, each once, and nothing else, however the answers are cut into     *)
(* parts and whatever else goes through the queue: primary_all_cb,              *)
(* primary_by_uuid_cb, char_discovered_cb and find_included_cb ask for the rest *)
(* after the last handle of an answer, and stop at the end of the range.        *)
(* Services and characteristics come in the order of handles; included services *)
(* in that of the answers of their queries, and isd_unref reports them with the *)
(* last of them.                                                            *)
THEOREM DiscoveriesExact == Spec => []DiscoveryExact
<1>1. Init => GattInv /\ ReadInv /\ FindInv /\ IncludeInv
  BY InvInit, ReadInit, FindInit, IncludeInit
<1>2. GattInv /\ ReadInv /\ FindInv /\ IncludeInv /\ [Next]_vars
      => (GattInv /\ ReadInv /\ FindInv /\ IncludeInv)'
  BY InvStep, ReadStep, FindStep, IncludeStep
<1>3. GattInv /\ ReadInv /\ FindInv /\ IncludeInv => DiscoveryExact
  BY FindInvExact
<1> QED BY <1>1, <1>2, <1>3, PTL DEF Spec
=============================================================================
