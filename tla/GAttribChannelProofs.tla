------------------------ MODULE GAttribChannelProofs ------------------------
(***************************************************************************)
(* GAttrib as a channel.  What becomes of each command: none is lost or      *)
(* destroyed twice, each is called back at most once and never after its      *)
(* end, and nothing succeeds after a timeout.  The invariant of GAttribProofs  *)
(* says which command may be out; the first one here says where every         *)
(* accepted call is.                                                        *)
(*                                                                         *)
(* With a peer that only answers what it is asked, the second one here says    *)
(* where the answer is: GAttrib matches every answer with its request and      *)
(* implements the channel of AttChannel.                                     *)
(***************************************************************************)
EXTENDS GAttribProofs, GAttribChannel

----------------------------------------------------------------------------
(* The commands.                                                            *)

(* A command that waits in a queue has not been called back, and it has its    *)
(* callback as long as it is not cancelled. *)
Fresh(c) ==
    /\ c.n \in DOMAIN calls
    /\ c.expected = opcode2expected(calls[c.n])
    /\ outcome[c.n] = <<>>
    /\ c.func => c.n \notin cancelled /\ c.expected # NoResponse
    /\ c.expected # NoResponse => c.func \/ c.n \in cancelled

WaitingOK ==
    /\ \A i \in DOMAIN requests : Fresh(requests[i])
    /\ \A i \in DOMAIN responses : Fresh(responses[i])

(* A call whose command is in the hands of a callback, or destroyed. *)
Answered(n) ==
    /\ Len(outcome[n]) <= 1
    /\ opcode2expected(calls[n]) # NoResponse
          => Len(outcome[n]) = 1 \/ n \in cancelled \/ dead

DoneOK == \A n \in InHand \cup freed : Answered(n)

UnusedOK == \A n \in Calls \ DOMAIN calls : outcome[n] = <<>> /\ n \notin cancelled

(* Once the attrib is stale, or while it becomes so, nothing is left to        *)
(* succeed, and the timer that made it so does not come again. *)
LateOK ==
    /\ stale => requests = <<>> /\ ~ to.active
    /\ stale \/ to.active => timeout_watch # "armed"
    /\ TimedOut => stale \/ to.active

CommandsInv == EachCommandOnce /\ WaitingOK /\ DoneOK /\ UnusedOK /\ LateOK
----------------------------------------------------------------------------
(* What the operations on a queue do to the numbers in it.                  *)

LEMMA NumbersOf ==
    ASSUME NEW q PROVE \A n : n \in Numbers(q) <=> \E i \in DOMAIN q : q[i].n = n
BY DEF Numbers

LEMMA AppendNumbers ==
    ASSUME NEW q \in Seq(Command), NEW c \in Command, Injective(q), c.n \notin Numbers(q)
    PROVE  /\ Injective(Append(q, c))
           /\ Numbers(Append(q, c)) = Numbers(q) \cup {c.n}
<1> DEFINE r == Append(q, c)
<1>1. /\ DOMAIN r = 1..(Len(q) + 1) /\ DOMAIN q = 1..Len(q) /\ Len(q) \in Nat
      /\ r[Len(q) + 1] = c
      /\ \A i \in 1..Len(q) : r[i] = q[i]
  OBVIOUS
<1> HIDE DEF r
<1>2. Injective(r)
  BY <1>1 DEF Injective, Numbers
<1>3. Numbers(r) = Numbers(q) \cup {c.n}
  BY <1>1 DEF Numbers
<1> QED BY <1>2, <1>3 DEF r

LEMMA ConsNumbers ==
    ASSUME NEW q \in Seq(Command), NEW c \in Command, Injective(q), c.n \notin Numbers(q)
    PROVE  /\ Injective(<<c>> \o q)
           /\ Numbers(<<c>> \o q) = Numbers(q) \cup {c.n}
           /\ \A i \in DOMAIN (<<c>> \o q) :
                 (<<c>> \o q)[i] = c \/ \E j \in DOMAIN q : (<<c>> \o q)[i] = q[j]
<1> DEFINE r == <<c>> \o q
<1>1. /\ DOMAIN r = 1..(Len(q) + 1) /\ DOMAIN q = 1..Len(q) /\ Len(q) \in Nat
      /\ r[1] = c
      /\ \A i \in 2..(Len(q) + 1) : r[i] = q[i - 1]
  BY ConsType
<1> HIDE DEF r
<1>2. \A i \in 1..(Len(q) + 1) : i = 1 \/ (i \in 2..(Len(q) + 1) /\ i - 1 \in 1..Len(q))
  BY <1>1
<1>3. Injective(r)
  <2> SUFFICES ASSUME NEW i \in DOMAIN r, NEW j \in DOMAIN r, r[i].n = r[j].n PROVE i = j
    BY DEF Injective
  <2>1. \A k \in 2..(Len(q) + 1) : k - 1 \in DOMAIN q /\ r[k].n = q[k - 1].n /\ r[k].n # c.n
    <3> SUFFICES ASSUME NEW k \in 2..(Len(q) + 1)
                 PROVE  k - 1 \in DOMAIN q /\ r[k].n = q[k - 1].n /\ r[k].n # c.n
      OBVIOUS
    <3>1. k - 1 \in DOMAIN q /\ r[k] = q[k - 1]
      <4>1. k - 1 \in 1..Len(q)
        BY <1>1
      <4> QED BY <1>1, <4>1
    <3>2. q[k - 1].n \in Numbers(q)
      BY <3>1 DEF Numbers
    <3> QED BY <3>1, <3>2
  <2>2. CASE i = 1 \/ j = 1
    BY <1>1, <1>2, <2>1, <2>2
  <2>3. CASE i # 1 /\ j # 1
    <3>1. i - 1 \in DOMAIN q /\ j - 1 \in DOMAIN q /\ q[i - 1].n = q[j - 1].n
      BY <1>1, <1>2, <2>1, <2>3
    <3>2. i - 1 = j - 1
      BY <3>1 DEF Injective
    <3> QED BY <1>1, <3>2
  <2> QED BY <2>2, <2>3
<1>4. Numbers(r) = Numbers(q) \cup {c.n}
  <2>1. \A j \in 1..Len(q) : j + 1 \in 2..(Len(q) + 1) /\ r[j + 1] = q[j]
    BY <1>1
  <2>2. \A n : n \in Numbers(r) => n \in Numbers(q) \cup {c.n}
    BY <1>1, <1>2 DEF Numbers
  <2>3. \A n : n \in Numbers(q) \cup {c.n} => n \in Numbers(r)
    <3>1. c.n \in Numbers(r)
      BY <1>1 DEF Numbers
    <3>2. \A j \in DOMAIN q : q[j].n \in Numbers(r)
      BY <1>1, <2>1 DEF Numbers
    <3> QED BY <3>1, <3>2 DEF Numbers
  <2> QED BY <2>2, <2>3
<1>5. \A i \in DOMAIN r : r[i] = c \/ \E j \in DOMAIN q : r[i] = q[j]
  BY <1>1, <1>2
<1> QED BY <1>3, <1>4, <1>5 DEF r

(* A queue without its element i. *)
LEMMA RemoveAtNumbers ==
    ASSUME NEW q \in Seq(Command), NEW i \in DOMAIN q, Injective(q)
    PROVE  /\ Injective(RemoveAt(q, i))
           /\ Numbers(RemoveAt(q, i)) = Numbers(q) \ {q[i].n}
           /\ \A j \in DOMAIN RemoveAt(q, i) : \E k \in DOMAIN q : RemoveAt(q, i)[j] = q[k]
<1> DEFINE r == RemoveAt(q, i)
<1>1. /\ DOMAIN r = 1..(Len(q) - 1) /\ DOMAIN q = 1..Len(q) /\ Len(q) \in Nat /\ i \in 1..Len(q)
      /\ \A j \in 1..(Len(q) - 1) : r[j] = IF j < i THEN q[j] ELSE q[j + 1]
  BY RemoveAtType DEF RemoveAt
<1> HIDE DEF r
<1>2. \A j \in 1..(Len(q) - 1) : j \in 1..Len(q) /\ j + 1 \in 1..Len(q)
  BY <1>1
<1>3. \A j \in 1..Len(q) : j # i => \E k \in 1..(Len(q) - 1) : r[k] = q[j]
  <2> TAKE j \in 1..Len(q)
  <2> HAVE j # i
  <2>1. CASE j < i
    <3>1. j \in 1..(Len(q) - 1) /\ r[j] = q[j]
      BY <1>1, <2>1
    <3> QED BY <3>1
  <2>2. CASE j > i
    <3>1. j - 1 \in 1..(Len(q) - 1) /\ r[j - 1] = q[j]
      BY <1>1, <2>2
    <3> QED BY <3>1
  <2> QED BY <1>1, <2>1, <2>2
<1>4. \A j \in DOMAIN r : \E k \in DOMAIN q : k # i /\ r[j] = q[k]
  BY <1>1, <1>2
<1>5. Injective(r)
  <2> SUFFICES ASSUME NEW j \in DOMAIN r, NEW k \in DOMAIN r, r[j].n = r[k].n PROVE j = k
    BY DEF Injective
  <2>1. j \in 1..(Len(q) - 1) /\ k \in 1..(Len(q) - 1)
    BY <1>1
  <2> DEFINE at(m) == IF m < i THEN m ELSE m + 1
  <2>2. at(j) \in DOMAIN q /\ at(k) \in DOMAIN q /\ q[at(j)].n = q[at(k)].n
    BY <1>1, <1>2, <2>1
  <2>3. at(j) = at(k)
    BY <2>2 DEF Injective
  <2> QED BY <1>1, <2>1, <2>3
<1>6. Numbers(r) = Numbers(q) \ {q[i].n}
  <2>1. \A n : n \in Numbers(r) => n \in Numbers(q) /\ n # q[i].n
    BY <1>4 DEF Numbers, Injective
  <2>2. \A n : n \in Numbers(q) /\ n # q[i].n => n \in Numbers(r)
    <3> TAKE n
    <3> HAVE n \in Numbers(q) /\ n # q[i].n
    <3>1. PICK j \in DOMAIN q : q[j].n = n
      BY DEF Numbers
    <3>2. PICK k \in 1..(Len(q) - 1) : r[k] = q[j]
      BY <1>1, <1>3, <3>1
    <3> QED BY <1>1, <3>1, <3>2 DEF Numbers
  <2> QED BY <2>1, <2>2
<1> QED BY <1>4, <1>5, <1>6 DEF r

LEMMA TailNumbers ==
    ASSUME NEW q \in Seq(Command), q # <<>>, Injective(q)
    PROVE  /\ Injective(Tail(q))
           /\ Numbers(Tail(q)) = Numbers(q) \ {q[1].n}
           /\ q[1].n \in Numbers(q)
           /\ \A j \in DOMAIN Tail(q) : \E k \in DOMAIN q : Tail(q)[j] = q[k]
<1>1. Len(q) \in Nat \ {0} /\ 1 \in DOMAIN q
  OBVIOUS
<1>2. Tail(q) = RemoveAt(q, 1)
  <2>1. /\ RemoveAt(q, 1) \in Seq(Command)
        /\ Len(RemoveAt(q, 1)) = Len(q) - 1
        /\ \A j \in 1..(Len(q) - 1) : RemoveAt(q, 1)[j] = q[j + 1]
    BY <1>1, RemoveAtType
  <2>2. /\ Tail(q) \in Seq(Command)
        /\ Len(Tail(q)) = Len(q) - 1
        /\ \A j \in 1..(Len(q) - 1) : Tail(q)[j] = q[j + 1]
    BY TailType
  <2> QED BY <2>1, <2>2, SeqEqual
<1>3. q[1].n \in Numbers(q)
  BY <1>1 DEF Numbers
<1>4. /\ Injective(RemoveAt(q, 1))
      /\ Numbers(RemoveAt(q, 1)) = Numbers(q) \ {q[1].n}
      /\ \A j \in DOMAIN RemoveAt(q, 1) : \E k \in DOMAIN q : RemoveAt(q, 1)[j] = q[k]
  BY <1>1, RemoveAtNumbers
<1> QED BY <1>2, <1>3, <1>4

LEMMA NoNumbers == Numbers(<<>>) = {} /\ Injective(<<>>)
BY DEF Numbers, Injective

----------------------------------------------------------------------------
(* Steps that move no command.                                              *)

LEMMA QuietCommands ==
    ASSUME Inv, Inv', CommandsInv,
           UNCHANGED <<requests, responses, calls, outcome, freed, cancelled, stale, to>>,
           InHand' = InHand, dead => dead',
           timeout_watch' \in {timeout_watch, "none"}
    PROVE  CommandsInv'
<1>1. EachCommandOnce'
  <2>1. ~ (rd'.phase = "result" /\ to'.active)
    BY DEF Inv, FrameOK
  <2> QED BY <2>1 DEF CommandsInv, EachCommandOnce, Injective, Numbers
<1>2. WaitingOK'
  BY DEF CommandsInv, WaitingOK, Fresh
<1>3. DoneOK' /\ UnusedOK'
  BY DEF CommandsInv, DoneOK, Answered, UnusedOK
<1>4. LateOK'
  BY DEF CommandsInv, LateOK, TimedOut
<1> QED BY <1>1, <1>2, <1>3, <1>4 DEF CommandsInv

LEMMA RegisterCommands ==
    ASSUME Inv, Inv', CommandsInv, g_attrib_register \/ g_attrib_unregister \/ g_attrib_unregister_all
    PROVE  CommandsInv'
<1>1. EventsUnchanged
  BY DEF g_attrib_register, g_attrib_unregister, g_attrib_unregister_all
<1>2. InHand' = InHand
  BY <1>1 DEF EventsUnchanged, frameVars, InHand
<1> QED BY <1>1, <1>2, QuietCommands DEF EventsUnchanged, watchVars, frameVars, histVars

LEMMA PeerCommands ==
    ASSUME Inv, Inv', CommandsInv, Peer PROVE CommandsInv'
<1>1. LinkUnchanged
  BY DEF Peer, PeerAnswers, PeerSignals, Disconnect
<1>2. InHand' = InHand
  BY <1>1 DEF LinkUnchanged, frameVars, InHand
<1> QED BY <1>1, <1>2, QuietCommands DEF LinkUnchanged, queueVars, watchVars, frameVars, histVars

LEMMA ReadEndsCommands ==
    ASSUME Inv, Inv', CommandsInv, ReadStale \/ ReadHup \/ ReadError PROVE CommandsInv'
<1>1. UNCHANGED <<requests, responses, calls, outcome, freed, cancelled, stale, to, rd, dead,
                  timeout_watch>>
  BY DEF ReadStale, ReadHup, ReadError, ReadDispatch
<1>2. InHand' = InHand
  BY <1>1 DEF InHand
<1> QED BY <1>1, <1>2, QuietCommands

----------------------------------------------------------------------------
(* g_attrib_send.                                                           *)

(* A call that is accepted is the next number; the commands of the others stay  *)
(* as they were. *)
LEMMA AcceptFacts ==
    ASSUME Inv, CommandsInv, NEW op \in Opcodes, NEW id, Accept(op)
    PROVE  /\ NewCommand(id, op).n \in Calls \ DOMAIN calls
           /\ DOMAIN calls' = DOMAIN calls \cup {NewCommand(id, op).n}
           /\ \A c : Fresh(c) => Fresh(c)'
           /\ \A c : c = NewCommand(id, op) => Fresh(c)'
           /\ DoneOK' /\ UnusedOK'
<1> DEFINE n == Len(calls) + 1
<1>1. /\ calls \in Seq(Opcodes) /\ Len(calls) < MaxCalls
      /\ calls' = Append(calls, op)
      /\ UNCHANGED <<outcome, freed, cancelled, rd, to, dead>>
  BY DEF Accept, frameVars, Inv, TypeOK, HistTypes
<1>2. /\ n \in Calls \ DOMAIN calls
      /\ DOMAIN calls' = DOMAIN calls \cup {n}
      /\ calls'[n] = op
      /\ \A m \in DOMAIN calls : calls'[m] = calls[m]
  BY <1>1, BoundsAssumption DEF BoundsAssumption, Calls
<1>3. /\ NewCommand(id, op).n = n
      /\ NewCommand(id, op).expected = opcode2expected(op)
      /\ NewCommand(id, op).func <=> opcode2expected(op) # NoResponse
  BY DEF NewCommand
<1> HIDE DEF n
<1>4. \A c : Fresh(c) => Fresh(c)'
  BY <1>1, <1>2 DEF Fresh
<1>5. \A c : c = NewCommand(id, op) => Fresh(c)'
  BY <1>1, <1>2, <1>3 DEF Fresh, CommandsInv, UnusedOK
<1>6. UnusedOK'
  BY <1>1, <1>2 DEF CommandsInv, UnusedOK
<1>7. DoneOK'
  <2>1. InHand' = InHand
    BY <1>1 DEF InHand
  <2>2. InHand \cup freed \subseteq DOMAIN calls
    BY DEF CommandsInv, EachCommandOnce
  <2> QED BY <1>1, <1>2, <2>1, <2>2 DEF CommandsInv, DoneOK, Answered
<1> QED BY <1>2, <1>3, <1>4, <1>5, <1>6, <1>7

(* The new command is in one queue and nowhere else. *)
LEMMA AcceptCommands ==
    ASSUME Inv, Inv', CommandsInv, NEW op \in Opcodes, NEW id, Accept(op),
           NEW c, c = NewCommand(id, op),
           Injective(requests') /\ Injective(responses'),
           \/ Numbers(requests') = Numbers(requests) \cup {c.n} /\ responses' = responses
           \/ Numbers(responses') = Numbers(responses) \cup {c.n} /\ requests' = requests,
           \A i \in DOMAIN requests' :
              requests'[i] = c \/ \E j \in DOMAIN requests : requests'[i] = requests[j],
           \A i \in DOMAIN responses' :
              responses'[i] = c \/ \E j \in DOMAIN responses : responses'[i] = responses[j]
    PROVE  CommandsInv'
<1>1. /\ c.n \in Calls \ DOMAIN calls
      /\ DOMAIN calls' = DOMAIN calls \cup {c.n}
      /\ \A d : Fresh(d) => Fresh(d)'
      /\ Fresh(c)'
      /\ DoneOK' /\ UnusedOK'
  BY AcceptFacts
<1>2. UNCHANGED <<outcome, freed, cancelled, stale, timeout_watch, rd, to>> /\ ~ stale
  BY DEF Accept, frameVars
<1>3. EachCommandOnce'
  <2>1. ~ (rd'.phase = "result" /\ to'.active)
    BY DEF Inv, FrameOK
  <2>2. InHand' = InHand
    BY <1>2 DEF InHand
  <2>3. /\ Numbers(requests) \cup Numbers(responses) \cup InHand \cup freed = DOMAIN calls
        /\ Numbers(requests) \cap Numbers(responses) = {}
        /\ (Numbers(requests) \cup Numbers(responses)) \cap (InHand \cup freed) = {}
        /\ InHand \cap freed = {}
    BY DEF CommandsInv, EachCommandOnce
  <2>4. /\ Numbers(requests') \cup Numbers(responses') \cup InHand' \cup freed' = DOMAIN calls'
        /\ Numbers(requests') \cap Numbers(responses') = {}
        /\ (Numbers(requests') \cup Numbers(responses')) \cap (InHand' \cup freed') = {}
        /\ InHand' \cap freed' = {}
    BY <1>1, <1>2, <2>2, <2>3
  <2> QED BY <2>1, <2>4 DEF EachCommandOnce, Numbers, Injective
<1>4. WaitingOK'
  BY <1>1 DEF CommandsInv, WaitingOK
<1>5. LateOK'
  BY <1>2 DEF CommandsInv, LateOK, TimedOut
<1> QED BY <1>1, <1>3, <1>4, <1>5 DEF CommandsInv

LEMMA SendCommands ==
    ASSUME Inv, Inv', CommandsInv, NEW op \in AppOps, SendRequest(op) \/ SendResponse(op)
    PROVE  CommandsInv'
<1> DEFINE c == NewCommand(next_cmd_id + 1, op)
<1>1. op \in Opcodes /\ Accept(op) /\ c \in Command
  BY NewCommandType, OpcodesAssumption
  DEF Inv, TypeOK, QueueTypes, SendRequest, SendResponse, Accept, OpcodesAssumption
<1>2. c.n \notin DOMAIN calls
  BY <1>1, AcceptFacts
<1>3. /\ Injective(requests) /\ Injective(responses)
      /\ Numbers(requests) \subseteq DOMAIN calls /\ Numbers(responses) \subseteq DOMAIN calls
      /\ requests \in Seq(Command) /\ responses \in Seq(Command)
  BY DEF CommandsInv, EachCommandOnce, Inv, TypeOK, QueueTypes
<1>4. CASE SendRequest(op)
  <2>1. requests' = Append(requests, c) /\ responses' = responses
    BY <1>4 DEF SendRequest, Enqueue
  <2> HIDE DEF c
  <2>2. /\ Injective(requests') /\ Numbers(requests') = Numbers(requests) \cup {c.n}
        /\ \A i \in DOMAIN requests' :
              requests'[i] = c \/ \E j \in DOMAIN requests : requests'[i] = requests[j]
    BY <1>1, <1>2, <1>3, <2>1, AppendNumbers
  <2> USE DEF c
  <2> QED BY <1>1, <1>3, <2>1, <2>2, AcceptCommands
<1>5. CASE SendResponse(op)
  <2>1. responses' = Append(responses, c) /\ requests' = requests
    BY <1>5 DEF SendResponse, Enqueue
  <2> HIDE DEF c
  <2>2. /\ Injective(responses') /\ Numbers(responses') = Numbers(responses) \cup {c.n}
        /\ \A i \in DOMAIN responses' :
              responses'[i] = c \/ \E j \in DOMAIN responses : responses'[i] = responses[j]
    BY <1>1, <1>2, <1>3, <2>1, AppendNumbers
  <2> USE DEF c
  <2> QED BY <1>1, <1>3, <2>1, <2>2, AcceptCommands
<1> QED BY <1>4, <1>5

LEMMA SendReusedCommands ==
    ASSUME Inv, Inv', CommandsInv, SendReused PROVE CommandsInv'
<1> DEFINE c == NewCommand(rd.cmd.id, "READ_BLOB_REQ")
<1>1. "READ_BLOB_REQ" \in Opcodes /\ Accept("READ_BLOB_REQ") /\ c \in Command
  <2>1. rd.cmd.id \in Nat
    BY DEF Inv, TypeOK, FrameTypes, NoCommand, Command
  <2> QED BY <2>1, NewCommandType, SendOpcodes DEF Inv, SendReused, Accept
<1>2. c.n \notin DOMAIN calls
  BY <1>1, AcceptFacts
<1>3. /\ Injective(requests) /\ Injective(responses)
      /\ Numbers(requests) \subseteq DOMAIN calls
      /\ requests \in Seq(Command)
  BY DEF CommandsInv, EachCommandOnce, Inv, TypeOK, QueueTypes
<1>4. requests' = <<c>> \o requests /\ responses' = responses
  BY DEF SendReused
<1> HIDE DEF c
<1>5. /\ Injective(requests') /\ Numbers(requests') = Numbers(requests) \cup {c.n}
      /\ \A i \in DOMAIN requests' :
            requests'[i] = c \/ \E j \in DOMAIN requests : requests'[i] = requests[j]
  BY <1>1, <1>2, <1>3, <1>4, ConsNumbers
<1>6. c = NewCommand(rd.cmd.id, "READ_BLOB_REQ")
  BY DEF c
<1>7. /\ Injective(responses') /\ Accept("READ_BLOB_REQ") /\ "READ_BLOB_REQ" \in Opcodes
      /\ \A i \in DOMAIN responses' :
            responses'[i] = c \/ \E j \in DOMAIN responses : responses'[i] = responses[j]
  <2>1. Injective(responses')
    BY <1>3, <1>4 DEF Injective
  <2> QED BY <1>1, <1>4, <2>1
<1> QED BY <1>4, <1>5, <1>6, <1>7, AcceptCommands

----------------------------------------------------------------------------
(* g_attrib_cancel and g_attrib_cancel_all.                                 *)

(* r is q without the commands of gone, and those of mute that stay have lost   *)
(* their callback. *)
Cut(q, r, gone, mute) ==
    /\ Injective(r) /\ Numbers(r) = Numbers(q) \ gone
    /\ gone \subseteq mute /\ mute \subseteq Numbers(q)
    /\ \A j \in DOMAIN r : \E i \in DOMAIN q :
          /\ r[j].n = q[i].n /\ r[j].expected = q[i].expected
          /\ r[j].func => q[i].func /\ r[j].n \notin mute
          /\ q[i].func => r[j].func \/ r[j].n \in mute

LEMMA CutNothing ==
    ASSUME NEW q, Injective(q) PROVE Cut(q, q, {}, {})
BY DEF Cut

LEMMA CutOne ==
    ASSUME NEW q \in Seq(Command), NEW i \in DOMAIN q, Injective(q)
    PROVE  Cut(q, CancelIn(q, i), Removed(q, i), {q[i].n})
<1>1. CASE i = 1 /\ q[1].sent
  <2> DEFINE c == [q[1] EXCEPT !.func = FALSE]
             r == [q EXCEPT ![1] = c]
  <2>1. q[1] \in Command
    BY <1>1, ElementType
  <2>2. c \in Command /\ c.n = q[1].n /\ c.expected = q[1].expected /\ ~ c.func
    BY <2>1 DEF Command
  <2>3. CancelIn(q, i) = r /\ Removed(q, i) = {}
    BY <1>1 DEF CancelIn, Removed
  <2> HIDE DEF c
  <2>4. DOMAIN r = DOMAIN q /\ r[1] = c /\ \A j \in DOMAIN q : j # 1 => r[j] = q[j]
    BY <1>1
  <2> HIDE DEF r
  <2>5. \A j \in DOMAIN q : r[j].n = q[j].n /\ r[j].expected = q[j].expected
    BY <2>2, <2>4
  <2>6. Injective(r) /\ Numbers(r) = Numbers(q)
    BY <2>4, <2>5 DEF Injective, Numbers
  <2>7. \A j \in DOMAIN q : (r[j].func => q[j].func /\ r[j].n # q[1].n)
                              /\ (q[j].func => r[j].func \/ r[j].n = q[1].n)
    BY <1>1, <2>2, <2>4 DEF Injective
  <2>8. q[1].n \in Numbers(q)
    BY <1>1 DEF Numbers
  <2> QED BY <1>1, <2>3, <2>4, <2>5, <2>6, <2>7, <2>8 DEF Cut
<1>2. CASE ~ (i = 1 /\ q[1].sent)
  <2> DEFINE r == RemoveAt(q, i)
  <2>1. CancelIn(q, i) = r /\ Removed(q, i) = {q[i].n}
    BY <1>2 DEF CancelIn, Removed
  <2>2. /\ Injective(r) /\ Numbers(r) = Numbers(q) \ {q[i].n}
        /\ \A j \in DOMAIN r : \E k \in DOMAIN q : r[j] = q[k]
    BY RemoveAtNumbers
  <2> HIDE DEF r
  <2>3. \A j \in DOMAIN r : r[j].n # q[i].n
    BY <2>2 DEF Numbers
  <2>4. q[i].n \in Numbers(q)
    BY DEF Numbers
  <2> QED BY <2>1, <2>2, <2>3, <2>4 DEF Cut
<1> QED BY <1>1, <1>2

LEMMA CutAll ==
    ASSUME NEW q \in Seq(Command), Injective(q)
    PROVE  Cut(q, cancel_all_per_queue(q),
               Numbers(q) \ Numbers(cancel_all_per_queue(q)), Numbers(q))
<1>1. CASE HeadSent(q)
  <2> DEFINE c == [q[1] EXCEPT !.func = FALSE]
  <2>1. q[1] \in Command /\ 1 \in DOMAIN q
    BY <1>1, ElementType DEF HeadSent
  <2>2. c.n = q[1].n /\ c.expected = q[1].expected /\ ~ c.func
    BY <2>1 DEF Command
  <2>3. cancel_all_per_queue(q) = <<c>>
    BY <1>1 DEF cancel_all_per_queue
  <2> HIDE DEF c
  <2>4. DOMAIN <<c>> = {1} /\ <<c>>[1] = c
    OBVIOUS
  <2>5. Injective(<<c>>) /\ Numbers(<<c>>) = {q[1].n} /\ q[1].n \in Numbers(q)
    BY <2>1, <2>2, <2>4 DEF Injective, Numbers
  <2>6. Numbers(<<c>>) = Numbers(q) \ (Numbers(q) \ Numbers(<<c>>))
    BY <2>5
  <2> QED BY <2>1, <2>2, <2>3, <2>4, <2>5, <2>6 DEF Cut
<1>2. CASE ~ HeadSent(q)
  <2>1. cancel_all_per_queue(q) = <<>>
    BY <1>2 DEF cancel_all_per_queue
  <2>2. DOMAIN <<>> = {}
    OBVIOUS
  <2> QED BY <2>1, <2>2, NoNumbers DEF Cut
<1> QED BY <1>1, <1>2

LEMMA CutCommands ==
    ASSUME Inv, Inv', CommandsInv, CancelUnchanged,
           NEW gone1, NEW mute1, Cut(requests, requests', gone1, mute1),
           NEW gone2, NEW mute2, Cut(responses, responses', gone2, mute2),
           freed' = freed \cup gone1 \cup gone2,
           cancelled' = cancelled \cup mute1 \cup mute2
    PROVE  CommandsInv'
<1>1. UNCHANGED <<calls, outcome, stale, dead, timeout_watch, rd, to>>
  BY DEF CancelUnchanged, watchVars, frameVars
<1>2. InHand' = InHand /\ ~ (rd'.phase = "result" /\ to'.active)
  BY <1>1 DEF InHand, Inv, FrameOK
<1>3. /\ Numbers(requests) \cup Numbers(responses) \cup InHand \cup freed = DOMAIN calls
      /\ Numbers(requests) \cap Numbers(responses) = {}
      /\ (Numbers(requests) \cup Numbers(responses)) \cap (InHand \cup freed) = {}
      /\ InHand \cap freed = {}
      /\ gone1 \subseteq mute1 /\ mute1 \subseteq Numbers(requests)
      /\ gone2 \subseteq mute2 /\ mute2 \subseteq Numbers(responses)
      /\ Numbers(requests') = Numbers(requests) \ gone1
      /\ Numbers(responses') = Numbers(responses) \ gone2
      /\ Injective(requests') /\ Injective(responses')
  BY DEF CommandsInv, EachCommandOnce, Cut
<1>4. EachCommandOnce'
  <2>1. /\ Numbers(requests') \cup Numbers(responses') \cup InHand' \cup freed' = DOMAIN calls'
        /\ Numbers(requests') \cap Numbers(responses') = {}
        /\ (Numbers(requests') \cup Numbers(responses')) \cap (InHand' \cup freed') = {}
        /\ InHand' \cap freed' = {}
    BY <1>1, <1>2, <1>3
  <2> QED BY <1>2, <1>3, <2>1 DEF EachCommandOnce, Numbers, Injective
<1>5. WaitingOK'
  <2>1. \A j \in DOMAIN requests' : Fresh(requests[j])'
    <3> TAKE j \in DOMAIN requests'
    <3>1. PICK i \in DOMAIN requests :
             /\ requests'[j].n = requests[i].n /\ requests'[j].expected = requests[i].expected
             /\ requests'[j].func => requests[i].func /\ requests'[j].n \notin mute1
             /\ requests[i].func => requests'[j].func \/ requests'[j].n \in mute1
      BY DEF Cut
    <3>2. Fresh(requests[i]) /\ requests[i].n \notin mute2
      BY <1>3 DEF CommandsInv, WaitingOK, Numbers
    <3> QED BY <1>1, <3>1, <3>2 DEF Fresh
  <2>2. \A j \in DOMAIN responses' : Fresh(responses[j])'
    <3> TAKE j \in DOMAIN responses'
    <3>1. PICK i \in DOMAIN responses :
             /\ responses'[j].n = responses[i].n /\ responses'[j].expected = responses[i].expected
             /\ responses'[j].func => responses[i].func /\ responses'[j].n \notin mute2
             /\ responses[i].func => responses'[j].func \/ responses'[j].n \in mute2
      BY DEF Cut
    <3>2. Fresh(responses[i]) /\ responses[i].n \notin mute1
      BY <1>3 DEF CommandsInv, WaitingOK, Numbers
    <3> QED BY <1>1, <3>1, <3>2 DEF Fresh
  <2> QED BY <2>1, <2>2 DEF WaitingOK
<1>6. DoneOK'
  <2>1. \A n \in gone1 \cup gone2 : outcome[n] = <<>> /\ n \in cancelled'
    BY <1>3 DEF CommandsInv, WaitingOK, Fresh, Numbers
  <2> QED BY <1>1, <1>2, <2>1 DEF CommandsInv, DoneOK, Answered
<1>7. UnusedOK'
  BY <1>1, <1>3 DEF CommandsInv, UnusedOK
<1>8. LateOK'
  <2>1. requests = <<>> => requests' = <<>>
    <3>1. DOMAIN <<>> = {}
      OBVIOUS
    <3>2. requests = <<>> => DOMAIN requests' = {}
      BY <3>1 DEF Cut
    <3> QED BY <3>2 DEF Inv, TypeOK, QueueTypes
  <2> QED BY <1>1, <2>1 DEF CommandsInv, LateOK, TimedOut
<1> QED BY <1>4, <1>5, <1>6, <1>7, <1>8 DEF CommandsInv

LEMMA CancelCommands ==
    ASSUME Inv, Inv', CommandsInv, g_attrib_cancel \/ g_attrib_cancel_all PROVE CommandsInv'
<1>1. /\ requests \in Seq(Command) /\ responses \in Seq(Command)
      /\ Injective(requests) /\ Injective(responses)
      /\ Numbers(requests) \cap Numbers(responses) = {}
      /\ CancelUnchanged
  BY DEF Inv, TypeOK, QueueTypes, CommandsInv, EachCommandOnce, g_attrib_cancel, g_attrib_cancel_all
<1>2. CASE g_attrib_cancel_all
  <2> DEFINE gone1 == Numbers(requests) \ Numbers(requests')
             gone2 == Numbers(responses) \ Numbers(responses')
  <2>1. /\ Cut(requests, requests', gone1, Numbers(requests))
        /\ Cut(responses, responses', gone2, Numbers(responses))
        /\ cancelled' = cancelled \cup Numbers(requests) \cup Numbers(responses)
    BY <1>1, <1>2, CutAll DEF g_attrib_cancel_all
  <2>2. freed' = freed \cup gone1 \cup gone2
    <3>1. Numbers(requests') \subseteq Numbers(requests) /\ Numbers(responses') \subseteq Numbers(responses)
      BY <2>1 DEF Cut
    <3> QED BY <1>1, <1>2, <3>1 DEF g_attrib_cancel_all
  <2> QED BY <1>1, <2>1, <2>2, CutCommands
<1>3. CASE \E i \in DOMAIN requests :
              /\ requests' = CancelIn(requests, i)
              /\ freed' = freed \cup Removed(requests, i)
              /\ cancelled' = cancelled \cup {requests[i].n}
              /\ UNCHANGED responses
  <2>1. PICK i \in DOMAIN requests :
              /\ requests' = CancelIn(requests, i)
              /\ freed' = freed \cup Removed(requests, i)
              /\ cancelled' = cancelled \cup {requests[i].n}
              /\ UNCHANGED responses
    BY <1>3
  <2>2. /\ Cut(requests, requests', Removed(requests, i), {requests[i].n})
        /\ Cut(responses, responses', {}, {})
    BY <1>1, <2>1, CutOne, CutNothing
  <2> QED BY <1>1, <2>1, <2>2, CutCommands
<1>4. CASE \E i \in DOMAIN responses :
              /\ responses' = CancelIn(responses, i)
              /\ freed' = freed \cup Removed(responses, i)
              /\ cancelled' = cancelled \cup {responses[i].n}
              /\ UNCHANGED requests
  <2>1. PICK i \in DOMAIN responses :
              /\ responses' = CancelIn(responses, i)
              /\ freed' = freed \cup Removed(responses, i)
              /\ cancelled' = cancelled \cup {responses[i].n}
              /\ UNCHANGED requests
    BY <1>4
  <2>2. /\ Cut(responses, responses', Removed(responses, i), {responses[i].n})
        /\ Cut(requests, requests', {}, {})
    BY <1>1, <2>1, CutOne, CutNothing
  <2> QED BY <1>1, <2>1, <2>2, CutCommands
<1> QED BY <1>2, <1>3, <1>4 DEF g_attrib_cancel

----------------------------------------------------------------------------
(* Steps that end with g_attrib_unref; gone are the calls whose command leaves  *)
(* the hands of its callback.                                               *)

LEMMA UnrefCommands ==
    ASSUME Inv, Inv', CommandsInv,
           NEW reqs, NEW timer, NEW gone, gone \subseteq InHand,
           g_attrib_unref(reqs, responses, timer, gone),
           Injective(reqs), Numbers(reqs) = Numbers(requests),
           \A i \in DOMAIN reqs : Fresh(reqs[i]),
           InHand' = InHand \ gone,
           UNCHANGED <<calls, outcome, cancelled>>,
           LateOK'
    PROVE  CommandsInv'
<1>1. /\ Numbers(requests) \cup Numbers(responses) \cup InHand \cup freed = DOMAIN calls
      /\ Numbers(requests) \cap Numbers(responses) = {}
      /\ (Numbers(requests) \cup Numbers(responses)) \cap (InHand \cup freed) = {}
      /\ InHand \cap freed = {}
      /\ Injective(responses)
  BY DEF CommandsInv, EachCommandOnce
<1>2. ~ (rd'.phase = "result" /\ to'.active)
  BY DEF Inv, FrameOK
<1>3. UnusedOK' /\ \A c : Fresh(c) => Fresh(c)'
  BY DEF CommandsInv, UnusedOK, Fresh
<1>4. CASE refs = 1
  <2>1. /\ requests' = <<>> /\ responses' = <<>> /\ dead'
        /\ freed' = freed \cup gone \cup Numbers(requests) \cup Numbers(responses)
    BY <1>4 DEF g_attrib_unref, attrib_destroy
  <2>2. EachCommandOnce'
    <3>1. /\ Numbers(requests') \cup Numbers(responses') \cup InHand' \cup freed' = DOMAIN calls'
          /\ Numbers(requests') \cap Numbers(responses') = {}
          /\ (Numbers(requests') \cup Numbers(responses')) \cap (InHand' \cup freed') = {}
          /\ InHand' \cap freed' = {}
      BY <1>1, <2>1, NoNumbers
    <3> QED BY <1>2, <2>1, <3>1, NoNumbers DEF EachCommandOnce, Numbers, Injective
  <2>3. WaitingOK'
    BY <2>1 DEF WaitingOK
  <2>4. DoneOK'
    <3>1. \A n \in Numbers(requests) \cup Numbers(responses) : outcome[n] = <<>>
      BY DEF CommandsInv, WaitingOK, Fresh, Numbers
    <3> QED BY <2>1, <3>1 DEF CommandsInv, DoneOK, Answered
  <2> QED BY <1>3, <2>2, <2>3, <2>4 DEF CommandsInv
<1>5. CASE refs # 1
  <2>1. /\ requests' = reqs /\ responses' = responses /\ dead' = dead
        /\ freed' = freed \cup gone
    BY <1>5 DEF g_attrib_unref
  <2>2. EachCommandOnce'
    <3>1. /\ Numbers(requests') \cup Numbers(responses') \cup InHand' \cup freed' = DOMAIN calls'
          /\ Numbers(requests') \cap Numbers(responses') = {}
          /\ (Numbers(requests') \cup Numbers(responses')) \cap (InHand' \cup freed') = {}
          /\ InHand' \cap freed' = {}
      BY <1>1, <2>1
    <3> QED BY <1>1, <1>2, <2>1, <3>1 DEF EachCommandOnce, Numbers, Injective
  <2>3. WaitingOK'
    BY <1>3, <2>1 DEF CommandsInv, WaitingOK
  <2>4. DoneOK'
    BY <2>1 DEF CommandsInv, DoneOK, Answered
  <2> QED BY <1>3, <2>2, <2>3, <2>4 DEF CommandsInv
<1> QED BY <1>4, <1>5

LEMMA UnrefLate ==
    ASSUME Inv, CommandsInv, NEW reqs, NEW timer,
           g_attrib_unref(reqs, responses, timer, {}),
           UNCHANGED <<stale, to, outcome>>,
           stale => reqs = <<>> /\ timer # "armed",
           to.active => timer # "armed"
    PROVE  LateOK'
<1>1. /\ requests' = reqs \/ requests' = <<>>
      /\ timeout_watch' \in {timer, "none"}
  BY DEF g_attrib_unref, attrib_destroy
<1> QED BY <1>1 DEF CommandsInv, LateOK, TimedOut

LEMMA ReleaseCommands ==
    ASSUME Inv, Inv', CommandsInv, Unref \/ WriteNothing \/ WriteError PROVE CommandsInv'
<1>1. /\ g_attrib_unref(requests, responses, timeout_watch, {})
      /\ UNCHANGED <<stale, rd, to, calls, outcome, cancelled>>
  BY DEF Unref, WriteNothing, WriteError, WriteDispatch, destroy_sender, frameVars
<1>2. InHand' = InHand
  BY <1>1 DEF InHand
<1>3. LateOK'
  BY <1>1, UnrefLate DEF CommandsInv, LateOK
<1>4. Injective(requests) /\ \A i \in DOMAIN requests : Fresh(requests[i])
  BY DEF CommandsInv, EachCommandOnce, WaitingOK
<1> QED BY <1>1, <1>2, <1>3, <1>4, UnrefCommands

LEMMA WriteRequestCommands ==
    ASSUME Inv, Inv', CommandsInv, WriteRequest PROVE CommandsInv'
<1> DEFINE reqs == [requests EXCEPT ![1].sent = TRUE]
           c == [requests[1] EXCEPT !.sent = TRUE]
<1>1. /\ g_attrib_unref(reqs, responses, TimerAfterRequest, {})
      /\ UNCHANGED <<stale, rd, to, calls, outcome, cancelled>>
      /\ ~ stale /\ NextToWrite # <<>> /\ NextToWrite[1].expected # NoResponse
      /\ ~ to.active
  BY DEF WriteRequest, Write, NothingToWrite, WriteDispatch, LoopRuns, destroy_sender, frameVars
<1>2. requests # <<>> /\ requests \in Seq(Command)
  <2>1. responses # <<>> => responses[1].expected = NoResponse
    BY DEF Inv, AnswersOK, TypeOK, QueueTypes
  <2> QED BY <1>1, <2>1 DEF NextToWrite, Inv, TypeOK, QueueTypes
<1>3. 1 \in DOMAIN requests /\ requests[1] \in Command
  BY <1>2
<1>4. c.n = requests[1].n /\ c.expected = requests[1].expected /\ c.func = requests[1].func
  BY <1>3 DEF Command
<1>5. reqs = [requests EXCEPT ![1] = c]
  OBVIOUS
<1> HIDE DEF c
<1>6. DOMAIN reqs = DOMAIN requests /\ reqs[1] = c /\ \A j \in DOMAIN requests : j # 1 => reqs[j] = requests[j]
  BY <1>3, <1>5
<1> HIDE DEF reqs
<1>7. \A j \in DOMAIN requests :
         reqs[j].n = requests[j].n /\ reqs[j].expected = requests[j].expected /\ reqs[j].func = requests[j].func
  BY <1>4, <1>6
<1>8. Injective(reqs) /\ Numbers(reqs) = Numbers(requests)
  BY <1>6, <1>7 DEF CommandsInv, EachCommandOnce, Injective, Numbers
<1>9. \A j \in DOMAIN reqs : Fresh(reqs[j])
  BY <1>6, <1>7 DEF CommandsInv, WaitingOK, Fresh
<1>10. InHand' = InHand
  BY <1>1 DEF InHand
<1>11. LateOK'
  BY <1>1, UnrefLate
<1> QED BY <1>1, <1>8, <1>9, <1>10, <1>11, UnrefCommands

LEMMA AbortDoneCommands ==
    ASSUME Inv, Inv', CommandsInv, AbortDone PROVE CommandsInv'
<1>1. /\ g_attrib_unref(<<>>, responses, timeout_watch, {to.cmd.n})
      /\ UNCHANGED <<rd, calls, outcome, cancelled>>
      /\ requests = <<>> /\ to.active /\ ~ to'.active /\ stale'
  BY DEF AbortDone, TimeoutUnchanged, IdleTimeout, StaleAfterTimeout
<1>2. rd.phase # "result"
  BY <1>1 DEF Inv, FrameOK
<1>3. InHand = {to.cmd.n} /\ InHand' = {}
  BY <1>1, <1>2 DEF InHand
<1>4. Injective(<<>>) /\ Numbers(<<>>) = Numbers(requests)
      /\ \A i \in DOMAIN <<>> : Fresh(<<>>[i])
  BY <1>1, NoNumbers
<1>5. LateOK'
  <2>1. requests' = <<>> /\ timeout_watch' \in {timeout_watch, "none"}
    BY <1>1 DEF g_attrib_unref, attrib_destroy
  <2> QED BY <1>1, <2>1 DEF LateOK, CommandsInv
<1> QED BY <1>1, <1>3, <1>4, <1>5, UnrefCommands

----------------------------------------------------------------------------
(* The head of a queue leaves it.                                           *)

LEMMA QueuedCalls ==
    ASSUME NEW q \in Seq(Command) PROVE \A i \in DOMAIN q : q[i].n \in Calls
<1>1. \A i \in DOMAIN q : q[i] \in Command
  BY ElementType
<1> QED BY <1>1 DEF Command

LEMMA WriteCommandCommands ==
    ASSUME Inv, Inv', CommandsInv, WriteCommand PROVE CommandsInv'
<1> DEFINE c == NextToWrite[1]
<1>1. /\ c.expected = NoResponse /\ NextToWrite # <<>> /\ ~ stale /\ ~ to.active
      /\ IF responses # <<>>
         THEN responses' = Tail(responses) /\ UNCHANGED requests
         ELSE requests' = Tail(requests) /\ UNCHANGED responses
      /\ freed' = freed \cup {c.n}
      /\ UNCHANGED <<dead, timeout_watch, stale, rd, to, calls, outcome, cancelled>>
  BY DEF WriteCommand, Write, NothingToWrite, WriteDispatch, LoopRuns, frameVars
<1>2. /\ Numbers(requests) \cup Numbers(responses) \cup InHand \cup freed = DOMAIN calls
      /\ Numbers(requests) \cap Numbers(responses) = {}
      /\ (Numbers(requests) \cup Numbers(responses)) \cap (InHand \cup freed) = {}
      /\ InHand \cap freed = {}
      /\ Injective(requests) /\ Injective(responses)
      /\ requests \in Seq(Command) /\ responses \in Seq(Command)
  BY DEF CommandsInv, EachCommandOnce, Inv, TypeOK, QueueTypes
<1>3. InHand' = InHand /\ ~ (rd'.phase = "result" /\ to'.active)
  BY <1>1 DEF InHand, Inv, FrameOK
<1>4. /\ Injective(requests') /\ Injective(responses')
      /\ c.n \in Numbers(requests) \cup Numbers(responses)
      /\ Numbers(requests') \cup Numbers(responses')
           = (Numbers(requests) \cup Numbers(responses)) \ {c.n}
      /\ Numbers(requests') \cap Numbers(responses') = {}
      /\ Fresh(c)
      /\ \A j \in DOMAIN requests' : \E k \in DOMAIN requests : requests'[j] = requests[k]
      /\ \A j \in DOMAIN responses' : \E k \in DOMAIN responses : responses'[j] = responses[k]
  <2>1. CASE responses # <<>>
    <3>0. c = responses[1] /\ responses' = Tail(responses) /\ requests' = requests
      BY <1>1, <2>1 DEF NextToWrite
    <3>1. /\ Injective(responses') /\ Numbers(responses') = Numbers(responses) \ {responses[1].n}
          /\ responses[1].n \in Numbers(responses)
          /\ \A j \in DOMAIN responses' : \E k \in DOMAIN responses : responses'[j] = responses[k]
      BY <1>2, <2>1, <3>0, TailNumbers
    <3>2. Fresh(c)
      <4>1. 1 \in DOMAIN responses /\ c = responses[1]
        BY <1>2, <2>1 DEF NextToWrite
      <4> QED BY <4>1 DEF CommandsInv, WaitingOK
    <3> HIDE DEF c
    <3> QED BY <1>2, <3>0, <3>1, <3>2
  <2>2. CASE responses = <<>>
    <3>0. c = requests[1] /\ requests' = Tail(requests) /\ responses' = responses /\ requests # <<>>
      BY <1>1, <2>2 DEF NextToWrite
    <3>1. /\ Injective(requests') /\ Numbers(requests') = Numbers(requests) \ {requests[1].n}
          /\ requests[1].n \in Numbers(requests)
          /\ \A j \in DOMAIN requests' : \E k \in DOMAIN requests : requests'[j] = requests[k]
      BY <1>2, <3>0, TailNumbers
    <3>2. Fresh(c)
      <4>1. 1 \in DOMAIN requests /\ c = requests[1]
        BY <1>1, <1>2, <2>2 DEF NextToWrite
      <4> QED BY <4>1 DEF CommandsInv, WaitingOK
    <3> HIDE DEF c
    <3> QED BY <1>2, <3>0, <3>1, <3>2
  <2> QED BY <2>1, <2>2
<1> HIDE DEF c
<1>5. EachCommandOnce'
  <2> DEFINE A == Numbers(requests) \cup Numbers(responses)
             A2 == Numbers(requests') \cup Numbers(responses')
             B == InHand \cup freed
             B2 == InHand' \cup freed'
  <2>1. /\ A2 = A \ {c.n} /\ c.n \in A /\ freed' = freed \cup {c.n} /\ InHand' = InHand
        /\ DOMAIN calls' = DOMAIN calls
        /\ A \cap B = {} /\ InHand \cap freed = {} /\ A \cup B = DOMAIN calls
    BY <1>1, <1>2, <1>3, <1>4
  <2>2. B2 = B \cup {c.n}
    BY <2>1
  <2>3. InHand' \cap freed' = {}
    BY <2>1
  <2> HIDE DEF A, B
  <2>4. A2 \cup B2 = DOMAIN calls' /\ A2 \cap B2 = {}
    <3> HIDE DEF A2, B2
    <3>1. (A \ {c.n}) \cup (B \cup {c.n}) = DOMAIN calls /\ (A \ {c.n}) \cap (B \cup {c.n}) = {}
      BY <2>1
    <3> QED BY <2>1, <2>2, <3>1
  <2>5. /\ Numbers(requests') \cup Numbers(responses') \cup InHand' \cup freed' = DOMAIN calls'
        /\ (Numbers(requests') \cup Numbers(responses')) \cap (InHand' \cup freed') = {}
    BY <2>4
  <2> QED BY <1>3, <1>4, <2>3, <2>5 DEF EachCommandOnce, Numbers, Injective
<1>6. WaitingOK'
  <2>1. \A d : Fresh(d) => Fresh(d)'
    BY <1>1 DEF Fresh
  <2> QED BY <1>4, <2>1 DEF CommandsInv, WaitingOK
<1>7. DoneOK'
  BY <1>1, <1>3, <1>4 DEF CommandsInv, DoneOK, Answered, Fresh
<1>8. UnusedOK' /\ LateOK'
  BY <1>1 DEF CommandsInv, UnusedOK, LateOK, TimedOut
<1> QED BY <1>5, <1>6, <1>7, <1>8 DEF CommandsInv

(* A callback of the head, made or left out: only its own outcome changes, and  *)
(* it had none. *)
LEMMA PopOutcome ==
    ASSUME Inv, CommandsInv, requests # <<>>, NEW status \in Statuses,
           outcome' = IF requests[1].func
                      THEN [outcome EXCEPT ![requests[1].n] = Append(@, status)] ELSE outcome
    PROVE  /\ Fresh(requests[1]) /\ requests[1].n \in Calls
           /\ outcome'[requests[1].n] = IF requests[1].func THEN <<status>> ELSE <<>>
           /\ \A n \in Calls : n # requests[1].n => outcome'[n] = outcome[n]
<1>1. requests \in Seq(Command) /\ outcome \in [Calls -> Seq(Statuses)]
  BY DEF Inv, TypeOK, QueueTypes, HistTypes
<1>2. requests[1] \in Command /\ 1 \in DOMAIN requests
  BY <1>1
<1>3. Fresh(requests[1]) /\ requests[1].n \in Calls
  BY <1>2 DEF CommandsInv, WaitingOK, Command
<1>4. outcome[requests[1].n] = <<>>
  BY <1>3 DEF Fresh
<1>5. Append(<<>>, status) = <<status>>
  OBVIOUS
<1> QED BY <1>1, <1>3, <1>4, <1>5

(* The head of the requests goes into the hands of its callback, and what was    *)
(* in a callback's hands is destroyed. *)
LEMMA PopCommands ==
    ASSUME Inv, Inv', CommandsInv, requests # <<>>, NEW status \in Statuses,
           requests' = Tail(requests),
           outcome' = IF requests[1].func
                      THEN [outcome EXCEPT ![requests[1].n] = Append(@, status)] ELSE outcome,
           freed' = freed \cup InHand,
           InHand' = {requests[1].n},
           UNCHANGED <<responses, calls, cancelled, dead>>,
           LateOK'
    PROVE  CommandsInv'
<1> DEFINE c == requests[1]
<1>1. /\ Numbers(requests) \cup Numbers(responses) \cup InHand \cup freed = DOMAIN calls
      /\ Numbers(requests) \cap Numbers(responses) = {}
      /\ (Numbers(requests) \cup Numbers(responses)) \cap (InHand \cup freed) = {}
      /\ InHand \cap freed = {}
      /\ Injective(requests) /\ Injective(responses)
      /\ requests \in Seq(Command)
      /\ outcome \in [Calls -> Seq(Statuses)]
  BY DEF CommandsInv, EachCommandOnce, Inv, TypeOK, QueueTypes, HistTypes
<1>2. ~ (rd'.phase = "result" /\ to'.active)
  BY DEF Inv, FrameOK
<1>3. /\ Injective(requests') /\ Numbers(requests') = Numbers(requests) \ {c.n}
      /\ c.n \in Numbers(requests)
      /\ \A j \in DOMAIN requests' : \E k \in DOMAIN requests : requests'[j] = requests[k]
  BY <1>1, TailNumbers
<1>4. /\ Fresh(c) /\ c.n \in Calls
      /\ outcome'[c.n] = IF c.func THEN <<status>> ELSE <<>>
      /\ \A n \in Calls : n # c.n => outcome'[n] = outcome[n]
  BY PopOutcome
<1>5. InHand' = {c.n}
  OBVIOUS
<1> HIDE DEF c
<1>6. EachCommandOnce'
  <2>1. /\ Numbers(requests') \cup Numbers(responses') \cup InHand' \cup freed' = DOMAIN calls'
        /\ Numbers(requests') \cap Numbers(responses') = {}
        /\ (Numbers(requests') \cup Numbers(responses')) \cap (InHand' \cup freed') = {}
        /\ InHand' \cap freed' = {}
    <3>1. Numbers(responses') = Numbers(responses) /\ DOMAIN calls' = DOMAIN calls
      BY DEF Numbers
    <3> PICK m, A, B, H, F, A2, B2, H2, F2, all, all2 :
          /\ m = c.n /\ A = Numbers(requests) /\ B = Numbers(responses) /\ H = InHand /\ F = freed
          /\ A2 = Numbers(requests') /\ B2 = Numbers(responses') /\ H2 = InHand' /\ F2 = freed'
          /\ all = DOMAIN calls /\ all2 = DOMAIN calls'
      OBVIOUS
    <3>2. /\ A \cup B \cup H \cup F = all /\ A \cap B = {} /\ (A \cup B) \cap (H \cup F) = {}
          /\ H \cap F = {} /\ m \in A
          /\ A2 = A \ {m} /\ B2 = B /\ H2 = {m} /\ F2 = F \cup H /\ all2 = all
      BY <1>1, <1>3, <1>5, <3>1
    <3>3. /\ A2 \cup B2 \cup H2 \cup F2 = all2 /\ A2 \cap B2 = {} /\ (A2 \cup B2) \cap (H2 \cup F2) = {}
          /\ H2 \cap F2 = {}
      <4>1. all = A \cup B \cup H \cup F /\ m \notin B /\ m \notin H /\ m \notin F
        BY <3>2, Zenon
      <4>2. A2 \cup B2 \cup H2 \cup F2 = all2
        BY <3>2, <4>1
      <4>3. A2 \cap B2 = {} /\ H2 \cap F2 = {}
        BY <3>2, <4>1
      <4>4. (A2 \cup B2) \cap (H2 \cup F2) = {}
        <5> SUFFICES ASSUME NEW x, x \in A2 \cup B2, x \in H2 \cup F2 PROVE FALSE
          OBVIOUS
        <5>1. x \in A \cup B /\ x # m
          BY <3>2, <4>1
        <5>2. x \in H \cup F
          BY <3>2, <5>1
        <5> QED BY <3>2, <5>1, <5>2
      <4> QED BY <4>2, <4>3, <4>4
    <3> QED BY <3>3
  <2> QED BY <1>1, <1>2, <1>3, <2>1 DEF EachCommandOnce, Numbers, Injective
<1>7. \A d : Fresh(d) /\ d.n # c.n /\ d.n \in Calls => Fresh(d)'
  BY <1>4 DEF Fresh
<1>8. WaitingOK'
  <2>1. \A j \in DOMAIN requests' : Fresh(requests[j])'
    <3> TAKE j \in DOMAIN requests'
    <3>1. PICK k \in DOMAIN requests : requests'[j] = requests[k]
      BY <1>3
    <3>2. requests[k].n \in Calls
      BY <1>1, QueuedCalls
    <3>3. requests'[j].n # c.n
      BY <1>3 DEF Numbers
    <3>4. Fresh(requests[k])
      BY DEF CommandsInv, WaitingOK
    <3> QED BY <1>7, <3>1, <3>2, <3>3, <3>4
  <2>2. \A j \in DOMAIN responses : Fresh(responses[j]) /\ responses[j].n # c.n /\ responses[j].n \in Calls
    <3>1. responses \in Seq(Command)
      BY DEF Inv, TypeOK, QueueTypes
    <3>2. \A j \in DOMAIN responses : responses[j].n \in Calls /\ Fresh(responses[j])
      BY <3>1, QueuedCalls DEF CommandsInv, WaitingOK
    <3>3. \A j \in DOMAIN responses : responses[j].n \in Numbers(responses)
      BY DEF Numbers
    <3> QED BY <1>1, <1>3, <3>2, <3>3
  <2>3. \A j \in DOMAIN responses' : Fresh(responses[j])'
    BY <1>7, <2>2
  <2> QED BY <2>1, <2>3 DEF WaitingOK
<1>9. DoneOK'
  <2>1. Len(<<status>>) = 1 /\ Len(<<>>) = 0 /\ \A k : k \in {0, 1} => k <= 1
    OBVIOUS
  <2>2. \A n : n = c.n => Answered(n)'
    <3>1. /\ c.expected # NoResponse => c.func \/ c.n \in cancelled
          /\ c.expected = opcode2expected(calls[c.n])
      BY <1>4 DEF Fresh
    <3>2. Len(outcome'[c.n]) <= 1 /\ (c.func => Len(outcome'[c.n]) = 1)
      <4>1. CASE c.func
        <5>1. outcome'[c.n] = <<status>>
          BY <1>4, <4>1
        <5>2. Len(outcome'[c.n]) = 1
          BY <2>1, <5>1
        <5>3. Len(outcome'[c.n]) <= 1
          BY <2>1, <5>2
        <5> QED BY <5>2, <5>3
      <4>2. CASE ~ c.func
        <5>1. outcome'[c.n] = <<>>
          BY <1>4, <4>2
        <5>2. Len(outcome'[c.n]) = 0
          BY <2>1, <5>1
        <5>3. Len(outcome'[c.n]) <= 1
          BY <2>1, <5>2
        <5> QED BY <4>2, <5>3
      <4> QED BY <4>1, <4>2
    <3>3. calls' = calls /\ cancelled' = cancelled
      OBVIOUS
    <3> HIDE DEF c
    <3> QED BY <3>1, <3>2, <3>3 DEF Answered
  <2>3. \A n \in InHand \cup freed : n \in Calls /\ n # c.n
    <3>1. DOMAIN calls \subseteq Calls
      BY BoundsAssumption DEF Inv, TypeOK, HistTypes, Calls, BoundsAssumption
    <3> QED BY <1>1, <1>3, <3>1
  <2>4. \A n \in InHand \cup freed : Answered(n) /\ outcome'[n] = outcome[n]
    BY <1>4, <2>3 DEF CommandsInv, DoneOK
  <2>5. \A n \in InHand \cup freed : Answered(n)'
    BY <2>4 DEF Answered
  <2>6. InHand' \cup freed' = (InHand \cup freed) \cup {c.n}
    BY <1>5
  <2> QED BY <2>2, <2>5, <2>6 DEF DoneOK
<1>10. UnusedOK'
  BY <1>1, <1>3, <1>4 DEF CommandsInv, UnusedOK
<1> QED BY <1>6, <1>8, <1>9, <1>10 DEF CommandsInv

LEMMA QuietReadCommands ==
    ASSUME Inv, Inv', CommandsInv, rd.phase # "result",
           UNCHANGED <<requests, responses, calls, outcome, freed, cancelled, stale, to, dead>>,
           rd'.phase # "result",
           timeout_watch' \in {timeout_watch, "none"}
    PROVE  CommandsInv'
<1>1. InHand' = InHand
  BY DEF InHand
<1> QED BY <1>1, QuietCommands

LEMMA ReadStepCommands ==
    ASSUME Inv, Inv', CommandsInv, ~ dead, ~ stale, ~ to.active, rd.phase # "result",
           NEW pdu, NEW from, CallHandlerOrFinish(pdu, from),
           UNCHANGED <<responses, stale, dead, to, calls, freed, cancelled>>
    PROVE  CommandsInv'
<1>1. CASE NextHandler(pdu, from) # 0
  <2>1. /\ rd'.phase = "events"
        /\ UNCHANGED <<requests, timeout_watch, outcome>>
    BY <1>1 DEF CallHandlerOrFinish
  <2> QED BY <2>1, QuietReadCommands
<1>2. CASE NextHandler(pdu, from) = 0 /\ ~ (is_response(pdu.opcode) /\ requests # <<>>)
  <2>1. /\ rd'.phase = "idle" /\ timeout_watch' \in {timeout_watch, "none"}
        /\ UNCHANGED <<requests, outcome>>
    BY <1>2 DEF CallHandlerOrFinish, FinishRead, IdleRead, TimerAfterResponse
  <2> QED BY <2>1, QuietReadCommands
<1>3. CASE NextHandler(pdu, from) = 0 /\ is_response(pdu.opcode) /\ requests # <<>>
  <2> DEFINE cmd == requests[1]
             status == ResultStatus(cmd, pdu)
  <2>1. /\ timeout_watch' = "none" /\ requests' = Tail(requests)
        /\ rd' = [phase |-> "result", pdu |-> pdu, at |-> 0, cmd |-> cmd, status |-> status]
        /\ outcome' = IF cmd.func THEN [outcome EXCEPT ![cmd.n] = Append(@, status)] ELSE outcome
    BY <1>3 DEF CallHandlerOrFinish, FinishRead, TimerAfterResponse
  <2>2. status \in Statuses /\ status # "timeout"
    BY DEF ResultStatus, Statuses
  <2> HIDE DEF status
  <2>3. InHand = {} /\ InHand' = {cmd.n}
    BY <2>1 DEF InHand
  <2>4. LateOK'
    <3>1. ~ TimedOut
      BY DEF CommandsInv, LateOK
    <3>2. /\ outcome'[cmd.n] \in {<<status>>, <<>>}
          /\ \A n \in Calls : n # cmd.n => outcome'[n] = outcome[n]
      BY <1>3, <2>1, <2>2, PopOutcome
    <3>3. <<status>> # <<"timeout">> /\ <<>> # <<"timeout">>
      BY <2>2
    <3>4. ~ TimedOut'
      BY <3>1, <3>2, <3>3 DEF TimedOut
    <3> QED BY <2>1, <3>4 DEF LateOK
  <2>5. freed' = freed \cup InHand
    BY <2>3
  <2> QED BY <1>3, <2>1, <2>2, <2>3, <2>4, <2>5, PopCommands
<1> QED BY <1>1, <1>2, <1>3

LEMMA ReadPduCommands ==
    ASSUME Inv, Inv', CommandsInv, ReadPdu PROVE CommandsInv'
<1>1. /\ ~ dead /\ ~ stale /\ ~ to.active /\ rd.phase # "result"
      /\ CallHandlerOrFinish(inbox[1], 1)
      /\ UNCHANGED <<responses, stale, dead, to, calls, freed, cancelled>>
  BY DEF ReadPdu, ReadDispatch, Inv, LifeOK
<1> QED BY <1>1, ReadStepCommands

LEMMA HandlerReturnsCommands ==
    ASSUME Inv, Inv', CommandsInv, HandlerReturns PROVE CommandsInv'
<1>1. /\ ~ dead /\ ~ to.active /\ rd.phase # "result"
      /\ CallHandlerOrFinish(rd.pdu, rd.at + 1)
      /\ UNCHANGED <<responses, stale, dead, to, calls, freed, cancelled>>
  BY DEF HandlerReturns, Inv, RefsExact
<1>2. CASE ~ stale
  BY <1>1, <1>2, ReadStepCommands
<1>3. CASE stale
  <2>1. requests = <<>>
    BY <1>3 DEF CommandsInv, LateOK
  <2>2. /\ rd'.phase # "result" /\ timeout_watch' \in {timeout_watch, "none"}
        /\ UNCHANGED <<requests, outcome>>
    BY <1>1, <2>1 DEF CallHandlerOrFinish, FinishRead, IdleRead, TimerAfterResponse
  <2> QED BY <1>1, <2>2, QuietReadCommands
<1> QED BY <1>2, <1>3

LEMMA ResultReturnsCommands ==
    ASSUME Inv, Inv', CommandsInv, ResultReturns PROVE CommandsInv'
<1>1. /\ InHand = {rd.cmd.n} /\ InHand' = {} /\ freed' = freed \cup {rd.cmd.n}
      /\ UNCHANGED <<requests, responses, timeout_watch, stale, dead, to, calls, outcome, cancelled>>
  BY DEF ResultReturns, IdleRead, InHand, queueVars, watchVars
<1>2. EachCommandOnce'
  <2>1. ~ (rd'.phase = "result" /\ to'.active)
    BY DEF Inv, FrameOK
  <2>2. /\ Numbers(requests') = Numbers(requests) /\ Numbers(responses') = Numbers(responses)
        /\ Injective(requests') /\ Injective(responses')
    BY <1>1 DEF CommandsInv, EachCommandOnce, Numbers, Injective
  <2>3. /\ Numbers(requests) \cup Numbers(responses) \cup InHand \cup freed = DOMAIN calls
        /\ Numbers(requests) \cap Numbers(responses) = {}
        /\ (Numbers(requests) \cup Numbers(responses)) \cap (InHand \cup freed) = {}
    BY DEF CommandsInv, EachCommandOnce
  <2>4. /\ Numbers(requests') \cup Numbers(responses') \cup InHand' \cup freed' = DOMAIN calls'
        /\ (Numbers(requests') \cup Numbers(responses')) \cap (InHand' \cup freed') = {}
        /\ InHand' \cap freed' = {}
    BY <1>1, <2>2, <2>3
  <2> QED BY <2>1, <2>2, <2>3, <2>4 DEF EachCommandOnce, Numbers, Injective
<1>3. WaitingOK' /\ UnusedOK'
  BY <1>1 DEF CommandsInv, WaitingOK, Fresh, UnusedOK
<1>4. LateOK'
  BY <1>1 DEF CommandsInv, LateOK, TimedOut
<1>5. DoneOK'
  <2>1. InHand' \cup freed' = InHand \cup freed
    BY <1>1
  <2> QED BY <1>1, <2>1 DEF CommandsInv, DoneOK, Answered
<1> QED BY <1>2, <1>3, <1>4, <1>5 DEF CommandsInv

(* When the timer fires a request is out: it is what timed out. *)
LEMMA TimerFiresCommands ==
    ASSUME Inv, Inv', CommandsInv, TimerFires PROVE CommandsInv'
<1>1. /\ timeout_watch = "armed" /\ timeout_watch' = "fired" /\ ~ to.active
      /\ rd.phase # "result" /\ rd' = rd
      /\ UNCHANGED <<responses, dead, freed, calls, cancelled>>
  BY DEF TimerFires, TimeoutUnchanged, LoopRuns
<1>2. requests # <<>>
  BY <1>1 DEF CommandsInv, LateOK, Inv, LifeOK, TimerGuardsRequest, HeadSent
<1>3. PopAndAbort("timeout") /\ requests' = Tail(requests) /\ UNCHANGED stale
  BY <1>2 DEF TimerFires
<1>4. "timeout" \in Statuses
  BY DEF Statuses
<1>5. /\ to' = [active |-> TRUE, cmd |-> requests[1]]
      /\ outcome' = IF requests[1].func
                    THEN [outcome EXCEPT ![requests[1].n] = Append(@, "timeout")] ELSE outcome
  BY <1>3 DEF PopAndAbort
<1>6. InHand = {} /\ InHand' = {requests[1].n} /\ freed' = freed \cup InHand
  BY <1>1, <1>5 DEF InHand
<1>7. LateOK'
  BY <1>1, <1>3, <1>5 DEF CommandsInv, LateOK
<1> QED BY <1>1, <1>2, <1>3, <1>4, <1>5, <1>6, <1>7, PopCommands

LEMMA AbortNextCommands ==
    ASSUME Inv, Inv', CommandsInv, AbortNext PROVE CommandsInv'
<1>1. /\ to.active /\ requests # <<>> /\ requests' = Tail(requests) /\ rd' = rd
      /\ freed' = freed \cup {to.cmd.n}
      /\ UNCHANGED <<responses, timeout_watch, stale, dead, calls, cancelled>>
  BY DEF AbortNext, TimeoutUnchanged
<1>2. "aborted" \in Statuses
  BY DEF Statuses
<1>3. /\ to' = [active |-> TRUE, cmd |-> requests[1]]
      /\ outcome' = IF requests[1].func
                    THEN [outcome EXCEPT ![requests[1].n] = Append(@, "aborted")] ELSE outcome
  BY DEF AbortNext, PopAndAbort
<1>4. rd.phase # "result"
  BY <1>1 DEF Inv, FrameOK
<1>5. InHand = {to.cmd.n} /\ InHand' = {requests[1].n} /\ freed' = freed \cup InHand
  BY <1>1, <1>3, <1>4 DEF InHand
<1>6. LateOK'
  BY <1>1, <1>3 DEF CommandsInv, LateOK
<1> QED BY <1>1, <1>2, <1>3, <1>5, <1>6, PopCommands

----------------------------------------------------------------------------
(* The invariant holds of every behaviour.                                  *)

LEMMA InitCommands ==
    ASSUME Init PROVE CommandsInv
<1>1. /\ requests = <<>> /\ responses = <<>> /\ calls = <<>> /\ freed = {} /\ cancelled = {}
      /\ outcome = [n \in Calls |-> <<>>] /\ timeout_watch = "none" /\ ~ stale
      /\ rd.phase = "idle" /\ ~ to.active
  BY DEF Init, IdleRead, IdleTimeout
<1>2. InHand = {}
  BY <1>1 DEF InHand
<1>3. DOMAIN <<>> = {}
  OBVIOUS
<1>4. EachCommandOnce
  BY <1>1, <1>2, <1>3, NoNumbers DEF EachCommandOnce
<1>5. WaitingOK /\ DoneOK /\ UnusedOK
  BY <1>1, <1>2, <1>3 DEF WaitingOK, DoneOK, UnusedOK
<1>6. LateOK
  <2>1. <<>> # <<"timeout">>
    OBVIOUS
  <2> QED BY <1>1, <2>1 DEF LateOK, TimedOut
<1> QED BY <1>4, <1>5, <1>6 DEF CommandsInv

LEMMA StutterCommands ==
    ASSUME Inv, Inv', CommandsInv, UNCHANGED vars PROVE CommandsInv'
<1>1. UNCHANGED <<requests, responses, calls, outcome, freed, cancelled, stale, to, rd, dead,
                  timeout_watch>>
  BY DEF vars, queueVars, watchVars, frameVars, histVars
<1>2. InHand' = InHand
  BY <1>1 DEF InHand
<1> QED BY <1>1, <1>2, QuietCommands

LEMMA StepCommands ==
    ASSUME Inv, Inv', CommandsInv, [Next]_vars PROVE CommandsInv'
<1>1. CASE App
  <2>1. ASSUME NEW op \in AppOps, SendRequest(op) \/ SendResponse(op) PROVE CommandsInv'
    BY <2>1, SendCommands
  <2>2. CASE Unref
    BY <2>2, ReleaseCommands
  <2> QED BY <1>1, <2>1, <2>2, SendReusedCommands, CancelCommands, RegisterCommands DEF App
<1>2. CASE Writing
  BY <1>2, ReleaseCommands, WriteCommandCommands, WriteRequestCommands DEF Writing
<1>3. CASE Reading
  BY <1>3, ReadEndsCommands, ReadPduCommands DEF Reading
<1>4. CASE Returning
  BY <1>4, HandlerReturnsCommands, ResultReturnsCommands, AbortNextCommands, AbortDoneCommands
  DEF Returning
<1>5. CASE TimerFires
  BY <1>5, TimerFiresCommands
<1>6. CASE Peer
  BY <1>6, PeerCommands
<1>7. CASE UNCHANGED vars
  BY <1>7, StutterCommands
<1> QED BY <1>1, <1>2, <1>3, <1>4, <1>5, <1>6, <1>7 DEF Next

(* CommandsInv is inductive together with the invariant of GAttribProofs. *)
THEOREM CommandsInductive == Spec => []CommandsInv
<1>1. Init => CommandsInv
  BY InitCommands
<1>2. Inv /\ Inv' /\ CommandsInv /\ [Next]_vars => CommandsInv'
  BY StepCommands
<1> QED BY <1>1, <1>2, Inductive, PTL DEF Spec

(* Every call that g_attrib_send accepts is in exactly one queue, in the hands  *)
(* of one callback, or destroyed, once: no path through can_write_data,        *)
(* received_data, disconnect_timeout, the cancels and attrib_destroy loses a   *)
(* command or frees one twice.                                              *)
THEOREM CommandsAccounted == Spec => []EachCommandOnce
<1>1. CommandsInv => EachCommandOnce
  BY DEF CommandsInv
<1> QED BY <1>1, CommandsInductive, PTL

(* The result callback of a request is made exactly once before its command is  *)
(* destroyed, unless it was cancelled or the attrib went away, and never twice. *)
THEOREM OneResult == Spec => []CalledBackOnce
<1>1. Inv /\ CommandsInv => CalledBackOnce
  <2> SUFFICES ASSUME Inv, CommandsInv, NEW n \in DOMAIN calls
               PROVE  /\ Len(outcome[n]) <= 1
                      /\ n \in freed /\ opcode2expected(calls[n]) # NoResponse
                           => Len(outcome[n]) = 1 \/ n \in cancelled \/ dead
    BY DEF CalledBackOnce
  <2>1. n \in Numbers(requests) \cup Numbers(responses) \cup (InHand \cup freed)
    BY DEF CommandsInv, EachCommandOnce
  <2>2. CASE n \in InHand \cup freed
    BY <2>2 DEF CommandsInv, DoneOK, Answered
  <2>3. CASE n \in Numbers(requests) \cup Numbers(responses)
    <3>1. outcome[n] = <<>>
      BY <2>3 DEF CommandsInv, WaitingOK, Fresh, Numbers
    <3>2. Len(<<>>) = 0
      OBVIOUS
    <3>3. Len(outcome[n]) = 0
      BY <3>1, <3>2
    <3>4. Len(outcome[n]) <= 1
      BY <3>3
    <3>5. n \notin freed
      BY <2>3 DEF CommandsInv, EachCommandOnce
    <3> QED BY <3>4, <3>5
  <2> QED BY <2>1, <2>2, <2>3
<1> QED BY <1>1, Inductive, CommandsInductive, PTL

----------------------------------------------------------------------------
(* The steps that call a callback.                                          *)

(* The outcome of a call changes only where the head of the requests is taken    *)
(* off, with a callback that nobody has made or cancelled. *)
LEMMA OutcomeChanges ==
    ASSUME Inv, CommandsInv, [Next]_vars, NEW n \in Calls, outcome'[n] # outcome[n]
    PROVE  /\ n \notin freed \cup cancelled
           /\ outcome[n] = <<>>
           /\ TimedOut => outcome'[n] = <<"aborted">>
<1>1. outcome' # outcome
  OBVIOUS
<1> DEFINE Called(status) ==
             /\ requests # <<>> /\ requests[1].func
             /\ outcome' = [outcome EXCEPT ![requests[1].n] = Append(@, status)]
             /\ TimedOut => status = "aborted"
<1>2. ASSUME NEW pdu, NEW from, CallHandlerOrFinish(pdu, from), ~ to.active
      PROVE  \E status \in Statuses : Called(status)
  <2>1. Called(ResultStatus(requests[1], pdu))
    <3>1. /\ requests # <<>> /\ requests[1].func
          /\ outcome' = [outcome EXCEPT ![requests[1].n] = Append(@, ResultStatus(requests[1], pdu))]
      BY <1>1, <1>2 DEF CallHandlerOrFinish, FinishRead
    <3>2. ~ TimedOut
      BY <1>2, <3>1 DEF CommandsInv, LateOK
    <3> QED BY <3>1, <3>2
  <2>2. ResultStatus(requests[1], pdu) \in Statuses
    BY DEF ResultStatus, Statuses
  <2> QED BY <2>1, <2>2
<1>3. TimerFires => Called("timeout")
  <2> SUFFICES ASSUME TimerFires PROVE Called("timeout")
    OBVIOUS
  <2>1. ~ TimedOut
    BY DEF TimerFires, LoopRuns, CommandsInv, LateOK
  <2> QED BY <1>1, <2>1 DEF TimerFires, PopAndAbort
<1>4. AbortNext => Called("aborted")
  BY <1>1 DEF AbortNext, PopAndAbort
<1>5. \E status \in Statuses : Called(status)
  <2>1. ~ App
    BY <1>1 DEF App, SendRequest, SendResponse, SendReused, Accept, g_attrib_cancel,
       g_attrib_cancel_all, CancelUnchanged, g_attrib_register, g_attrib_unregister,
       g_attrib_unregister_all, EventsUnchanged, histVars, Unref
  <2>2. ~ Writing
    BY <1>1 DEF Writing, WriteNothing, WriteError, WriteCommand, WriteRequest, Write, WriteDispatch
  <2>3. ~ Peer /\ ~ UNCHANGED vars
    BY <1>1 DEF Peer, PeerAnswers, PeerSignals, Disconnect, LinkUnchanged, vars, histVars
  <2>4. ~ (ReadStale \/ ReadHup \/ ReadError \/ ResultReturns \/ AbortDone)
    BY <1>1 DEF ReadStale, ReadHup, ReadError, ResultReturns, AbortDone
  <2>5. ReadPdu \/ HandlerReturns => \E status \in Statuses : Called(status)
    BY <1>2 DEF ReadPdu, ReadDispatch, HandlerReturns
  <2>6. {"timeout", "aborted"} \subseteq Statuses
    BY DEF Statuses
  <2> HIDE DEF Called
  <2> QED BY <1>3, <1>4, <2>1, <2>2, <2>3, <2>4, <2>5, <2>6 DEF Next, Reading, Returning
<1>6. PICK status \in Statuses : Called(status)
  BY <1>5
<1>7. /\ Fresh(requests[1]) /\ outcome'[requests[1].n] = <<status>>
      /\ \A m \in Calls : m # requests[1].n => outcome'[m] = outcome[m]
  BY <1>6, PopOutcome
<1>8. n = requests[1].n
  BY <1>7
<1>9. requests[1].n \in Numbers(requests)
  <2>1. 1 \in DOMAIN requests
    BY <1>6 DEF Inv, TypeOK, QueueTypes
  <2> QED BY <2>1 DEF Numbers
<1>10. n \notin freed
  BY <1>8, <1>9 DEF CommandsInv, EachCommandOnce
<1>11. n \notin cancelled /\ outcome[n] = <<>>
  BY <1>6, <1>7, <1>8 DEF Fresh
<1>12. TimedOut => outcome'[n] = <<"aborted">>
  BY <1>6, <1>7, <1>8
<1> QED BY <1>10, <1>11, <1>12

(* The callback of a call is never made once its command was destroyed or its   *)
(* cancellation succeeded: g_attrib_cancel clears the callback of a request     *)
(* that is out and removes the others, so user_data may be freed then.       *)
THEOREM NoCallAfterEnd == Spec => NoCallbackAfterEnd
<1>1. Inv /\ CommandsInv /\ [Next]_vars
        => [\A n \in freed \cup cancelled : outcome'[n] = outcome[n]]_vars
  <2> SUFFICES ASSUME Inv, CommandsInv, [Next]_vars, NEW n \in freed \cup cancelled
               PROVE  outcome'[n] = outcome[n]
    OBVIOUS
  <2>1. n \in Calls
    BY DEF Inv, TypeOK, HistTypes
  <2> QED BY <2>1, OutcomeChanges
<1> QED BY <1>1, Inductive, CommandsInductive, PTL DEF Spec, NoCallbackAfterEnd

(* Once disconnect_timeout has called a request back nothing succeeds any more: *)
(* it pops what waits, aborted, before received_data can run, and the stale     *)
(* attrib reads and sends nothing.                                          *)
THEOREM NothingAfterTimeout == Spec => LateAnswerIgnored
<1>1. Inv /\ CommandsInv /\ [Next]_vars
        => [TimedOut => \A n \in Calls :
               outcome'[n] # outcome[n] => outcome'[n] = <<"aborted">>]_vars
  BY OutcomeChanges
<1> QED BY <1>1, Inductive, CommandsInductive, PTL DEF Spec, LateAnswerIgnored

----------------------------------------------------------------------------
(* The answers.                                                             *)

(* What the peer sends of its own accord is never an answer. *)
Honest == \A s \in Signals : ~ is_response(s.opcode)

(* The answer to the request that is out is in one of three places: to be given, *)
(* to be read, or in the hands of an event handler. *)
AnswersHead(pdu) ==
    /\ is_response(pdu.opcode)
    /\ pdu.re = requests[1].n
    /\ pdu.opcode \in {requests[1].expected, "ERROR"}

NoneAsked == wire = <<>>
NoneToRead == \A i \in DOMAIN inbox : ~ is_response(inbox[i].opcode)
NoneHandled == rd.phase = "events" => ~ is_response(rd.pdu.opcode)

AnswerAsked ==
    /\ wire = <<[n |-> requests[1].n, expected |-> requests[1].expected]>>
    /\ NoneToRead /\ NoneHandled

AnswerToRead ==
    /\ NoneAsked /\ NoneHandled
    /\ \E i \in DOMAIN inbox :
          /\ AnswersHead(inbox[i])
          /\ \A j \in DOMAIN inbox : j # i => ~ is_response(inbox[j].opcode)

AnswerHandled ==
    /\ NoneAsked /\ NoneToRead
    /\ rd.phase = "events" /\ AnswersHead(rd.pdu)

Live == ~ stale /\ ~ dead /\ ~ to.active

AnswerOK ==
    Live => \/ HeadSent(requests) /\ (AnswerAsked \/ AnswerToRead \/ AnswerHandled)
            \/ ~ HeadSent(requests) /\ NoneAsked /\ NoneToRead /\ NoneHandled

(* While the timeout aborts what waits, nothing is out. *)
AbortOK == to.active => ~ HeadSent(requests)

HonestInv == AnswerOK /\ AbortOK /\ AnswerMatchesRequest

----------------------------------------------------------------------------
(* Steps that leave the way of an answer alone.                             *)

LEMMA SameAnswer ==
    ASSUME UNCHANGED <<wire, inbox>>, rd' = rd \/ (rd'.phase # "events" /\ rd.phase # "events"),
           requests'[1].n = requests[1].n, requests'[1].expected = requests[1].expected,
           AnswerAsked \/ AnswerToRead \/ AnswerHandled
    PROVE  (AnswerAsked \/ AnswerToRead \/ AnswerHandled)'
<1>1. NoneAsked' = NoneAsked /\ NoneToRead' = NoneToRead /\ (NoneHandled => NoneHandled')
  BY DEF NoneAsked, NoneToRead, NoneHandled
<1>2. \A pdu : AnswersHead(pdu) => AnswersHead(pdu)'
  BY DEF AnswersHead
<1>3. AnswerAsked => AnswerAsked'
  BY <1>1 DEF AnswerAsked
<1>4. AnswerToRead => AnswerToRead'
  BY <1>1, <1>2 DEF AnswerToRead
<1>5. AnswerHandled => AnswerHandled'
  BY <1>1, <1>2 DEF AnswerHandled
<1> QED BY <1>3, <1>4, <1>5

LEMMA KeptHonest ==
    ASSUME HonestInv, UNCHANGED <<wire, inbox>>,
           Live' => Live, to'.active => to.active,
           HeadSent(requests') => /\ HeadSent(requests)
                                  /\ requests'[1].n = requests[1].n
                                  /\ requests'[1].expected = requests[1].expected,
           Live' /\ HeadSent(requests) => HeadSent(requests'),
           rd' = rd \/ (rd'.phase = "idle" /\ rd.phase # "events")
    PROVE  HonestInv'
<1>1. AnswerOK'
  <2> SUFFICES ASSUME Live'
               PROVE  \/ HeadSent(requests') /\ (AnswerAsked \/ AnswerToRead \/ AnswerHandled)'
                      \/ ~ HeadSent(requests') /\ NoneAsked' /\ NoneToRead' /\ NoneHandled'
    BY DEF AnswerOK, HeadSent
  <2>1. CASE HeadSent(requests)
    <3>1. HeadSent(requests') /\ (AnswerAsked \/ AnswerToRead \/ AnswerHandled)
      BY <2>1 DEF HonestInv, AnswerOK
    <3> QED BY <3>1, SameAnswer
  <2>2. CASE ~ HeadSent(requests)
    <3>1. ~ HeadSent(requests') /\ NoneAsked /\ NoneToRead /\ NoneHandled
      BY <2>2 DEF HonestInv, AnswerOK
    <3> QED BY <3>1 DEF NoneAsked, NoneToRead, NoneHandled
  <2> QED BY <2>1, <2>2
<1>2. AbortOK'
  BY DEF HonestInv, AbortOK, HeadSent
<1>3. AnswerMatchesRequest'
  BY DEF HonestInv, AnswerMatchesRequest
<1> QED BY <1>1, <1>2, <1>3 DEF HonestInv

(* The read source, and what changes no queue. *)
LEMMA QuietHonest ==
    ASSUME HonestInv, UNCHANGED <<wire, inbox, requests, stale, dead, to>>,
           rd' = rd \/ (rd'.phase = "idle" /\ rd.phase # "events")
    PROVE  HonestInv'
<1>1. Live' <=> Live
  BY DEF Live
<1>2. HeadSent(requests') <=> HeadSent(requests)
  BY DEF HeadSent
<1> QED BY <1>1, <1>2, KeptHonest

LEMMA QuietStepsHonest ==
    ASSUME HonestInv,
           \/ g_attrib_register \/ g_attrib_unregister \/ g_attrib_unregister_all
           \/ Disconnect \/ ReadStale \/ ReadHup \/ ReadError \/ ResultReturns
           \/ \E op \in AppOps : SendResponse(op)
           \/ UNCHANGED vars
    PROVE  HonestInv'
<1>1. UNCHANGED <<wire, inbox, requests, stale, dead, to>>
  BY DEF g_attrib_register, g_attrib_unregister, g_attrib_unregister_all, EventsUnchanged,
     Disconnect, LinkUnchanged, ReadStale, ReadHup, ReadError, ReadDispatch, ResultReturns,
     SendResponse, Accept, vars, queueVars, watchVars, frameVars, linkVars
<1>2. rd' = rd \/ (rd'.phase = "idle" /\ rd.phase # "events")
  BY DEF g_attrib_register, g_attrib_unregister, g_attrib_unregister_all, EventsUnchanged,
     Disconnect, LinkUnchanged, ReadStale, ReadHup, ReadError, ReadDispatch, ResultReturns,
     SendResponse, Accept, vars, frameVars, IdleRead
<1> QED BY <1>1, <1>2, QuietHonest

LEMMA SendHonest ==
    ASSUME Inv, HonestInv, NEW op \in AppOps, SendRequest(op) PROVE HonestInv'
<1> DEFINE c == NewCommand(next_cmd_id + 1, op)
<1>1. c \in Command /\ ~ c.sent
  BY NewCommandType, OpcodesAssumption
  DEF Inv, TypeOK, QueueTypes, SendRequest, Accept, OpcodesAssumption
<1>2. /\ requests' = Append(requests, c)
      /\ UNCHANGED <<wire, inbox, stale, dead, to, rd>>
  BY DEF SendRequest, Enqueue, Accept, frameVars, linkVars
<1>3. requests \in Seq(Command)
  BY DEF Inv, TypeOK, QueueTypes
<1> HIDE DEF c
<1>4. HeadSent(requests') <=> HeadSent(requests)
  BY <1>1, <1>2, <1>3, AppendFacts
<1>5. HeadSent(requests) => requests'[1] = requests[1]
  BY <1>1, <1>2, <1>3 DEF HeadSent
<1>6. Live' <=> Live
  BY <1>2 DEF Live
<1> QED BY <1>2, <1>4, <1>5, <1>6, KeptHonest

LEMMA SendReusedHonest ==
    ASSUME Inv, HonestInv, SendReused PROVE HonestInv'
<1> DEFINE c == NewCommand(rd.cmd.id, "READ_BLOB_REQ")
<1>1. c \in Command /\ ~ c.sent
  <2>1. rd.cmd.id \in Nat
    BY DEF Inv, TypeOK, FrameTypes, NoCommand, Command
  <2> QED BY <2>1, NewCommandType, SendOpcodes DEF Inv, SendReused, Accept
<1>2. /\ requests' = <<c>> \o requests
      /\ UNCHANGED <<wire, inbox, stale, dead, to, rd>>
      /\ rd.phase = "result"
  BY DEF SendReused, Accept, frameVars, linkVars
<1>3. requests \in Seq(Command)
  BY DEF Inv, TypeOK, QueueTypes
<1>4. ~ HeadSent(requests)
  <2>1. requests # <<>> => 1 \in DOMAIN requests
    BY <1>3
  <2> QED BY <1>2, <2>1 DEF Inv, FrameOK, HeadSent
<1> HIDE DEF c
<1>5. ~ HeadSent(requests')
  BY <1>1, <1>2, <1>3, ConsType DEF HeadSent
<1>6. Live' <=> Live
  BY <1>2 DEF Live
<1> QED BY <1>2, <1>4, <1>5, <1>6, KeptHonest

LEMMA NsEmpty == Ns(<<>>) = <<>> /\ Waiting(<<>>) = <<>> /\ Outstanding(<<>>) = {}
<1>1. Ns(<<>>) = <<>>
  BY DEF Ns
<1> QED BY <1>1 DEF Waiting, Outstanding, HeadSent

(* A cancel leaves the request that is out where it is. *)
LEMMA CancelInHead ==
    ASSUME NEW q \in Seq(Command), \A j \in DOMAIN q : q[j].sent => j = 1, NEW i \in DOMAIN q
    PROVE  /\ HeadSent(CancelIn(q, i)) <=> HeadSent(q)
           /\ HeadSent(q) => /\ CancelIn(q, i)[1].n = q[1].n
                             /\ CancelIn(q, i)[1].expected = q[1].expected
<1> DEFINE c == [q[1] EXCEPT !.func = FALSE]
           r == CancelIn(q, i)
<1>1. CASE i = 1 /\ q[1].sent
  <2>1. 1 \in DOMAIN q /\ q # <<>> /\ q[1] \in Command
    BY <1>1
  <2>2. r = [q EXCEPT ![1] = c] /\ c.n = q[1].n /\ c.expected = q[1].expected /\ c.sent
    BY <1>1, <2>1 DEF CancelIn, Command
  <2> HIDE DEF c, r
  <2>3. r[1] = c /\ r # <<>>
    BY <2>1, <2>2
  <2> QED BY <1>1, <2>1, <2>2, <2>3 DEF HeadSent, r
<1>2. CASE ~ (i = 1 /\ q[1].sent)
  <2>1. r = RemoveAt(q, i)
    BY <1>2 DEF CancelIn
  <2>2. i \in 1..Len(q) /\ Len(q) \in Nat
    OBVIOUS
  <2>3. /\ r \in Seq(Command) /\ Len(r) = Len(q) - 1
        /\ \A j \in 1..(Len(q) - 1) : r[j] = IF j < i THEN q[j] ELSE q[j + 1]
    BY <2>1, <2>2, RemoveAtType
  <2> HIDE DEF r
  <2>4. CASE HeadSent(q)
    <3>1. i > 1
      BY <1>2, <2>2, <2>4 DEF HeadSent
    <3>2. r[1] = q[1] /\ r # <<>>
      BY <2>2, <2>3, <3>1
    <3> QED BY <2>4, <3>2 DEF HeadSent, r
  <2>5. CASE ~ HeadSent(q)
    <3>1. \A j \in DOMAIN q : ~ q[j].sent
      BY <2>5 DEF HeadSent
    <3>2. r # <<>> => r[1] = q[1] \/ (Len(q) > 1 /\ r[1] = q[2])
      BY <2>2, <2>3
    <3>3. r # <<>> => ~ r[1].sent
      BY <2>2, <3>1, <3>2
    <3> QED BY <2>5, <3>3 DEF HeadSent, r
  <2> QED BY <2>4, <2>5
<1> QED BY <1>1, <1>2

LEMMA CancelAllHead ==
    ASSUME NEW q \in Seq(Command)
    PROVE  /\ HeadSent(cancel_all_per_queue(q)) <=> HeadSent(q)
           /\ HeadSent(q) => /\ cancel_all_per_queue(q)[1].n = q[1].n
                             /\ cancel_all_per_queue(q)[1].expected = q[1].expected
           /\ Waiting(cancel_all_per_queue(q)) = <<>>
<1> DEFINE c == [q[1] EXCEPT !.func = FALSE]
           r == cancel_all_per_queue(q)
<1>1. CASE HeadSent(q)
  <2>1. q # <<>> /\ q[1] \in Command /\ q[1].sent
    BY <1>1 DEF HeadSent
  <2>2. c.n = q[1].n /\ c.expected = q[1].expected /\ c.sent
    BY <2>1 DEF Command
  <2>3. r = <<c>>
    BY <1>1 DEF cancel_all_per_queue
  <2> HIDE DEF c, r
  <2>4. r[1] = c /\ r # <<>> /\ Tail(r) = <<>>
    BY <2>3
  <2> QED BY <1>1, <2>2, <2>4, NsEmpty DEF HeadSent, Waiting, r
<1>2. CASE ~ HeadSent(q)
  BY <1>2, NsEmpty DEF cancel_all_per_queue, HeadSent, Waiting
<1> QED BY <1>1, <1>2

LEMMA CancelHonest ==
    ASSUME Inv, HonestInv, g_attrib_cancel \/ g_attrib_cancel_all PROVE HonestInv'
<1>1. /\ UNCHANGED <<wire, inbox, stale, dead, to, rd>>
      /\ \/ requests' = requests
         \/ \E i \in DOMAIN requests : requests' = CancelIn(requests, i)
         \/ requests' = cancel_all_per_queue(requests)
  BY DEF g_attrib_cancel, g_attrib_cancel_all, CancelUnchanged, watchVars, frameVars, linkVars
<1>2. requests \in Seq(Command) /\ \A j \in DOMAIN requests : requests[j].sent => j = 1
  BY DEF Inv, TypeOK, QueueTypes, OneOutstanding
<1>3. /\ HeadSent(requests') <=> HeadSent(requests)
      /\ HeadSent(requests) => /\ requests'[1].n = requests[1].n
                               /\ requests'[1].expected = requests[1].expected
  BY <1>1, <1>2, CancelInHead, CancelAllHead
<1>4. Live' <=> Live
  BY <1>1 DEF Live
<1> QED BY <1>1, <1>3, <1>4, KeptHonest

----------------------------------------------------------------------------
LEMMA TailUnsent ==
    ASSUME Inv, requests # <<>> PROVE ~ HeadSent(Tail(requests))
<1>1. requests \in Seq(Command) /\ \A i \in DOMAIN requests : requests[i].sent => i = 1
  BY DEF Inv, TypeOK, QueueTypes, OneOutstanding
<1>2. Tail(requests) # <<>> => 2 \in DOMAIN requests /\ Tail(requests)[1] = requests[2]
  BY <1>1
<1> QED BY <1>1, <1>2 DEF HeadSent

(* The write source, and the ends of the attrib.                            *)

LEMMA ReleaseHonest ==
    ASSUME Inv, HonestInv, Unref \/ WriteNothing \/ WriteError PROVE HonestInv'
<1>1. /\ g_attrib_unref(requests, responses, timeout_watch, {})
      /\ UNCHANGED <<wire, inbox, stale, to, rd>>
  BY DEF Unref, WriteNothing, WriteError, WriteDispatch, destroy_sender, frameVars, linkVars
<1>2. \/ requests' = requests /\ dead' = dead
      \/ requests' = <<>> /\ dead'
  BY <1>1 DEF g_attrib_unref, attrib_destroy
<1> QED BY <1>1, <1>2, KeptHonest DEF Live, HeadSent

LEMMA WriteCommandHonest ==
    ASSUME Inv, HonestInv, WriteCommand PROVE HonestInv'
<1>1. /\ ~ NothingToWrite
      /\ UNCHANGED <<wire, inbox, stale, dead, to, rd>>
      /\ IF responses # <<>> THEN requests' = requests ELSE requests' = Tail(requests)
  BY DEF WriteCommand, Write, WriteDispatch, frameVars
<1>2. Live' <=> Live
  BY <1>1 DEF Live
<1>3. CASE responses # <<>>
  BY <1>1, <1>2, <1>3, KeptHonest
<1>4. CASE responses = <<>>
  <2>1. ~ HeadSent(requests) /\ requests # <<>> /\ requests' = Tail(requests)
    BY <1>1, <1>4 DEF NothingToWrite, NextToWrite
  <2>2. ~ HeadSent(requests')
    BY <2>1, TailUnsent
  <2> QED BY <1>1, <1>2, <2>1, <2>2, KeptHonest
<1> QED BY <1>3, <1>4

LEMMA WriteRequestHonest ==
    ASSUME Inv, HonestInv, WriteRequest PROVE HonestInv'
<1> DEFINE reqs == [requests EXCEPT ![1].sent = TRUE]
           c == [requests[1] EXCEPT !.sent = TRUE]
<1>1. /\ g_attrib_unref(reqs, responses, TimerAfterRequest, {})
      /\ UNCHANGED <<stale, rd, to, inbox>>
      /\ ~ stale /\ NextToWrite # <<>> /\ NextToWrite[1].expected # NoResponse
      /\ ~ to.active /\ write_watch /\ ~ HeadSent(NextToWrite)
      /\ rd.phase # "result"
      /\ wire' = Append(wire, [n |-> NextToWrite[1].n, expected |-> NextToWrite[1].expected])
  BY DEF WriteRequest, Write, NothingToWrite, WriteDispatch, LoopRuns, destroy_sender, frameVars
<1>2. requests # <<>> /\ requests \in Seq(Command) /\ NextToWrite = requests
  <2>1. responses # <<>> => responses[1].expected = NoResponse
    BY DEF Inv, AnswersOK, TypeOK, QueueTypes
  <2> QED BY <1>1, <2>1 DEF NextToWrite, Inv, TypeOK, QueueTypes
<1>3. 1 \in DOMAIN requests /\ requests[1] \in Command
  BY <1>2
<1>4. c.n = requests[1].n /\ c.expected = requests[1].expected /\ c.sent
  BY <1>3 DEF Command
<1>5. reqs = [requests EXCEPT ![1] = c]
  OBVIOUS
<1> HIDE DEF c
<1>6. reqs[1] = c /\ reqs # <<>>
  BY <1>2, <1>3, <1>5
<1> HIDE DEF reqs
<1>7. ~ dead
  BY <1>1 DEF Inv, RefsExact, Count, TypeOK, WatchTypes
<1>8. NoneAsked /\ NoneToRead /\ NoneHandled
  BY <1>1, <1>2, <1>7 DEF HonestInv, AnswerOK, Live
<1>9. AbortOK' /\ AnswerMatchesRequest'
  BY <1>1 DEF HonestInv, AbortOK, AnswerMatchesRequest
<1>10. AnswerOK'
  <2> SUFFICES ASSUME Live' PROVE HeadSent(requests)' /\ AnswerAsked'
    BY DEF AnswerOK
  <2>1. requests' = reqs
    BY <1>1 DEF Live, g_attrib_unref, attrib_destroy
  <2>2. wire' = <<[n |-> requests'[1].n, expected |-> requests'[1].expected]>>
    <3>1. requests'[1].n = requests[1].n /\ requests'[1].expected = requests[1].expected
      BY <1>4, <1>6, <2>1
    <3>2. \A e : Append(<<>>, e) = <<e>>
      OBVIOUS
    <3>3. wire' = Append(<<>>, [n |-> requests[1].n, expected |-> requests[1].expected])
      BY <1>1, <1>2, <1>8 DEF NoneAsked
    <3> QED BY <3>1, <3>2, <3>3
  <2>3. NoneToRead' /\ NoneHandled'
    BY <1>1, <1>8 DEF NoneToRead, NoneHandled
  <2> QED BY <1>4, <1>6, <2>1, <2>2, <2>3 DEF HeadSent, AnswerAsked
<1> QED BY <1>9, <1>10 DEF HonestInv

(* disconnect_timeout takes the attrib out of life. *)
LEMMA TimeoutHonest ==
    ASSUME Inv, CommandsInv, HonestInv, TimerFires \/ AbortNext \/ AbortDone PROVE HonestInv'
<1>1. UNCHANGED rd
  BY DEF TimerFires, AbortNext, AbortDone, TimeoutUnchanged
<1>2. to'.active => requests # <<>> /\ requests' = Tail(requests)
  <2>1. TimerFires => requests # <<>>
    BY DEF TimerFires, CommandsInv, LateOK, Inv, LifeOK, TimerGuardsRequest, HeadSent
  <2> QED BY <2>1 DEF TimerFires, AbortNext, AbortDone, IdleTimeout
<1>3. stale' \/ to'.active
  BY DEF TimerFires, AbortNext, AbortDone, PopAndAbort, StaleAfterTimeout
<1>4. AbortOK'
  BY <1>2, TailUnsent DEF AbortOK
<1>5. AnswerOK' /\ AnswerMatchesRequest'
  BY <1>1, <1>3 DEF HonestInv, AnswerOK, Live, AnswerMatchesRequest
<1> QED BY <1>4, <1>5 DEF HonestInv

----------------------------------------------------------------------------
(* The way of an answer: the peer, and received_data.                       *)

LEMMA PeerAnswersHonest ==
    ASSUME Inv, HonestInv, PeerAnswers PROVE HonestInv'
<1>1. /\ wire # <<>> /\ wire' = Tail(wire)
      /\ UNCHANGED <<requests, stale, dead, to, rd>>
  BY DEF PeerAnswers, LinkUnchanged, queueVars, watchVars, frameVars
<1>2. PICK op \in {wire[1].expected, "ERROR"} :
         inbox' = Append(inbox, [opcode |-> op, handle |-> NoHandle, re |-> wire[1].n])
  BY DEF PeerAnswers
<1> DEFINE pdu == [opcode |-> op, handle |-> NoHandle, re |-> wire[1].n]
<1>3. pdu.opcode = op /\ pdu.re = wire[1].n
  OBVIOUS
<1> HIDE DEF pdu
<1>4. AbortOK' /\ AnswerMatchesRequest'
  BY <1>1 DEF HonestInv, AbortOK, AnswerMatchesRequest, HeadSent
<1>5. AnswerOK'
  <2> SUFFICES ASSUME Live' PROVE HeadSent(requests') /\ AnswerToRead'
    BY DEF AnswerOK, HeadSent
  <2>1. HeadSent(requests) /\ AnswerAsked
    BY <1>1 DEF HonestInv, AnswerOK, Live, AnswerToRead, AnswerHandled, NoneAsked
  <2>2. /\ wire = <<[n |-> requests[1].n, expected |-> requests[1].expected]>>
        /\ NoneToRead /\ NoneHandled
    BY <2>1 DEF AnswerAsked
  <2>3. /\ wire[1].n = requests[1].n /\ wire[1].expected = requests[1].expected
        /\ Tail(wire) = <<>>
    BY <2>2
  <2>4. wire[1].expected \in ResponseOps
    <3>1. wire \in Seq([n : Calls, expected : ResponseOps]) /\ 1 \in DOMAIN wire
      BY <1>1 DEF Inv, TypeOK, LinkTypes
    <3>2. wire[1] \in [n : Calls, expected : ResponseOps]
      BY <3>1, ElementType
    <3> QED BY <3>2
  <2>5. is_response(op)
    BY <2>4 DEF is_response, ResponseOps
  <2>6. AnswersHead(pdu) /\ requests' = requests
    BY <1>1, <1>3, <2>3, <2>5 DEF AnswersHead
  <2>7. \A x : x = pdu => AnswersHead(x)'
    BY <2>6 DEF AnswersHead
  <2>8. inbox' = Append(inbox, pdu) /\ inbox \in Seq([opcode : Opcodes, handle : PduHandles, re : 0..MaxCalls])
    BY <1>2 DEF pdu, Inv, TypeOK, LinkTypes
  <2>9. /\ Len(inbox) + 1 \in DOMAIN inbox' /\ inbox'[Len(inbox) + 1] = pdu
        /\ \A j \in DOMAIN inbox' : j # Len(inbox) + 1 => j \in DOMAIN inbox /\ inbox'[j] = inbox[j]
    BY <2>8
  <2>10. NoneAsked' /\ NoneHandled'
    BY <1>1, <2>2, <2>3 DEF NoneAsked, NoneHandled
  <2>11. AnswerToRead'
    <3>1. \A j \in DOMAIN inbox' : j # Len(inbox) + 1 => ~ is_response(inbox'[j].opcode)
      BY <2>2, <2>9 DEF NoneToRead
    <3> QED BY <2>7, <2>9, <2>10, <3>1 DEF AnswerToRead
  <2> QED BY <2>1, <2>6, <2>11
<1> QED BY <1>4, <1>5 DEF HonestInv

LEMMA PeerSignalsHonest ==
    ASSUME Inv, HonestInv, Honest, PeerSignals PROVE HonestInv'
<1>1. UNCHANGED <<wire, requests, stale, dead, to, rd>>
  BY DEF PeerSignals, LinkUnchanged, queueVars, watchVars, frameVars
<1>2. PICK pdu : inbox' = Append(inbox, pdu) /\ ~ is_response(pdu.opcode)
  <2>1. PICK s \in Signals :
           inbox' = Append(inbox, [opcode |-> s.opcode, handle |-> s.handle, re |-> 0])
    BY DEF PeerSignals
  <2> QED BY <2>1 DEF Honest
<1>3. inbox \in Seq([opcode : Opcodes, handle : PduHandles, re : 0..MaxCalls])
  BY DEF Inv, TypeOK, LinkTypes
<1>4. /\ \A j \in DOMAIN inbox : j \in DOMAIN inbox' /\ inbox'[j] = inbox[j]
      /\ \A j \in DOMAIN inbox' : j \in DOMAIN inbox \/ ~ is_response(inbox'[j].opcode)
  BY <1>2, <1>3
<1>5. /\ NoneAsked' = NoneAsked /\ NoneHandled' = NoneHandled /\ (NoneToRead => NoneToRead')
      /\ Live' = Live
      /\ \A x : AnswersHead(x) => AnswersHead(x)'
  BY <1>1, <1>4 DEF NoneAsked, NoneHandled, NoneToRead, Live, AnswersHead
<1>6. AnswerAsked => AnswerAsked'
  BY <1>1, <1>5 DEF AnswerAsked
<1>7. AnswerToRead => AnswerToRead'
  <2> SUFFICES ASSUME AnswerToRead PROVE AnswerToRead'
    OBVIOUS
  <2>1. PICK i \in DOMAIN inbox :
          /\ AnswersHead(inbox[i])
          /\ \A j \in DOMAIN inbox : j # i => ~ is_response(inbox[j].opcode)
    BY DEF AnswerToRead
  <2>2. /\ i \in DOMAIN inbox' /\ inbox'[i] = inbox[i]
        /\ \A j \in DOMAIN inbox' : j # i => ~ is_response(inbox'[j].opcode)
    BY <1>4, <2>1
  <2>3. \A x : x = inbox'[i] => AnswersHead(x)'
    BY <1>5, <2>1, <2>2
  <2> QED BY <1>5, <2>2, <2>3 DEF AnswerToRead
<1>8. AnswerHandled => AnswerHandled'
  BY <1>1, <1>5 DEF AnswerHandled
<1>9. AnswerOK'
  BY <1>1, <1>5, <1>6, <1>7, <1>8 DEF HonestInv, AnswerOK, HeadSent
<1>10. AbortOK' /\ AnswerMatchesRequest'
  BY <1>1 DEF HonestInv, AbortOK, AnswerMatchesRequest, HeadSent
<1> QED BY <1>9, <1>10 DEF HonestInv

(* What is still on its way when received_data has taken pdu, or comes back to  *)
(* it, with q left to read. *)
Coming(pdu, q) ==
    \/ /\ is_response(pdu.opcode)
       /\ HeadSent(requests) /\ AnswersHead(pdu)
       /\ NoneAsked /\ \A i \in DOMAIN q : ~ is_response(q[i].opcode)
    \/ /\ ~ is_response(pdu.opcode)
       /\ HeadSent(requests)
       /\ wire = <<[n |-> requests[1].n, expected |-> requests[1].expected]>>
       /\ \A i \in DOMAIN q : ~ is_response(q[i].opcode)
    \/ /\ ~ is_response(pdu.opcode)
       /\ HeadSent(requests) /\ NoneAsked
       /\ \E i \in DOMAIN q :
             /\ AnswersHead(q[i])
             /\ \A j \in DOMAIN q : j # i => ~ is_response(q[j].opcode)
    \/ /\ ~ is_response(pdu.opcode)
       /\ ~ HeadSent(requests) /\ NoneAsked
       /\ \A i \in DOMAIN q : ~ is_response(q[i].opcode)

LEMMA PassedOn ==
    ASSUME Live, NEW pdu, NEW q, inbox' = q, Coming(pdu, q),
           UNCHANGED <<requests, wire, stale, dead, to>>,
           \/ rd'.phase = "events" /\ rd'.pdu = pdu
           \/ rd'.phase = "idle" /\ ~ is_response(pdu.opcode)
    PROVE  AnswerOK'
<1>1. /\ NoneAsked' = NoneAsked /\ HeadSent(requests') = HeadSent(requests)
      /\ ~ is_response(pdu.opcode) => NoneHandled'
      /\ \A x : AnswersHead(x) => AnswersHead(x)'
  BY DEF NoneAsked, HeadSent, NoneHandled, AnswersHead
<1>2. (\A i \in DOMAIN q : ~ is_response(q[i].opcode)) => NoneToRead'
  BY DEF NoneToRead
<1>3. CASE is_response(pdu.opcode)
  <2>1. HeadSent(requests) /\ AnswersHead(pdu) /\ NoneAsked /\ NoneToRead'
    BY <1>2, <1>3 DEF Coming
  <2>2. rd'.phase = "events" /\ rd'.pdu = pdu
    BY <1>3
  <2>3. \A x : x = rd'.pdu => AnswersHead(x)'
    BY <1>1, <2>1, <2>2
  <2>4. AnswerHandled'
    BY <1>1, <2>1, <2>2, <2>3 DEF AnswerHandled
  <2> QED BY <1>1, <2>1, <2>4 DEF AnswerOK
<1>4. CASE ~ is_response(pdu.opcode) /\ HeadSent(requests) /\ NoneToRead'
           /\ wire = <<[n |-> requests[1].n, expected |-> requests[1].expected]>>
  BY <1>1, <1>4 DEF AnswerOK, AnswerAsked
<1>5. CASE /\ ~ is_response(pdu.opcode)
           /\ HeadSent(requests) /\ NoneAsked
           /\ \E i \in DOMAIN q :
                 /\ AnswersHead(q[i])
                 /\ \A j \in DOMAIN q : j # i => ~ is_response(q[j].opcode)
  <2>1. PICK i \in DOMAIN q :
           /\ AnswersHead(q[i])
           /\ \A j \in DOMAIN q : j # i => ~ is_response(q[j].opcode)
    BY <1>5
  <2>2. \A x : x = inbox'[i] => AnswersHead(x)'
    BY <1>1, <2>1
  <2>3. AnswerToRead'
    BY <1>1, <1>5, <2>1, <2>2 DEF AnswerToRead
  <2> QED BY <1>1, <1>5, <2>3 DEF AnswerOK
<1>6. CASE ~ is_response(pdu.opcode) /\ ~ HeadSent(requests) /\ NoneAsked /\ NoneToRead'
  BY <1>1, <1>6 DEF AnswerOK
<1> QED BY <1>2, <1>3, <1>4, <1>5, <1>6 DEF Coming

LEMMA ReadStepHonest ==
    ASSUME Inv, CommandsInv, HonestInv, ~ dead, ~ to.active,
           NEW pdu, NEW from, CallHandlerOrFinish(pdu, from),
           UNCHANGED <<wire, stale, dead, to>>,
           ~ stale => Coming(pdu, inbox')
    PROVE  HonestInv'
<1>1. AbortOK'
  BY DEF AbortOK
<1>2. stale => requests = <<>>
  BY DEF CommandsInv, LateOK
<1>3. CASE stale
  <2>1. rd'.phase # "result"
    BY <1>2, <1>3 DEF CallHandlerOrFinish, FinishRead, IdleRead
  <2> QED BY <1>1, <1>3, <2>1 DEF HonestInv, AnswerOK, Live, AnswerMatchesRequest
<1>4. CASE ~ stale /\ (NextHandler(pdu, from) # 0 \/ ~ is_response(pdu.opcode))
  <2>1. /\ requests' = requests
        /\ \/ rd'.phase = "events" /\ rd'.pdu = pdu
           \/ rd'.phase = "idle" /\ ~ is_response(pdu.opcode)
    BY <1>4 DEF CallHandlerOrFinish, FinishRead, IdleRead
  <2>2. AnswerOK'
    BY <1>4, <2>1, PassedOn DEF Live
  <2> QED BY <1>1, <2>1, <2>2 DEF HonestInv, AnswerMatchesRequest
<1>5. CASE ~ stale /\ NextHandler(pdu, from) = 0 /\ is_response(pdu.opcode)
  <2>1. /\ requests # <<>> /\ AnswersHead(pdu) /\ NoneAsked
        /\ \A i \in DOMAIN inbox' : ~ is_response(inbox'[i].opcode)
    BY <1>5 DEF Coming, HeadSent
  <2>2. /\ requests' = Tail(requests)
        /\ rd' = [phase |-> "result", pdu |-> pdu, at |-> 0, cmd |-> requests[1],
                  status |-> ResultStatus(requests[1], pdu)]
    BY <1>5, <2>1 DEF CallHandlerOrFinish, FinishRead
  <2>3. ~ HeadSent(requests)'
    BY <2>1, <2>2, TailUnsent DEF HeadSent
  <2>4. AnswerOK'
    BY <2>1, <2>2, <2>3 DEF AnswerOK, NoneAsked, NoneToRead, NoneHandled
  <2>5. AnswerMatchesRequest'
    <3>1. ResultStatus(requests[1], pdu) # "io"
      BY <2>1 DEF AnswersHead, ResultStatus
    <3> QED BY <2>1, <2>2, <3>1 DEF AnswersHead, AnswerMatchesRequest
  <2> QED BY <1>1, <2>4, <2>5 DEF HonestInv
<1> QED BY <1>3, <1>4, <1>5

LEMMA ReadPduComing ==
    ASSUME Inv, HonestInv, ReadPdu PROVE Coming(inbox[1], inbox')
<1>1. /\ ~ dead /\ ~ stale /\ ~ to.active /\ rd.phase = "idle"
      /\ inbox # <<>> /\ inbox' = Tail(inbox)
      /\ inbox \in Seq([opcode : Opcodes, handle : PduHandles, re : 0..MaxCalls])
  BY DEF ReadPdu, ReadDispatch, Inv, LifeOK, TypeOK, LinkTypes
<1>2. \/ HeadSent(requests) /\ (AnswerAsked \/ AnswerToRead)
      \/ ~ HeadSent(requests) /\ NoneAsked /\ NoneToRead
  BY <1>1 DEF HonestInv, AnswerOK, Live, AnswerHandled
<1>3. /\ 1 \in DOMAIN inbox
      /\ \A j \in DOMAIN inbox' : j \in Nat \ {0} /\ j + 1 \in DOMAIN inbox /\ j + 1 # 1 /\ inbox'[j] = inbox[j + 1]
      /\ \A i \in DOMAIN inbox : i # 1 => i - 1 \in DOMAIN inbox' /\ (i - 1) + 1 = i
  BY <1>1
<1>4. NoneToRead => /\ ~ is_response(inbox[1].opcode)
                    /\ \A i \in DOMAIN inbox' : ~ is_response(inbox'[i].opcode)
  BY <1>3 DEF NoneToRead
<1>5. CASE NoneToRead
  BY <1>2, <1>4, <1>5 DEF AnswerAsked, AnswerToRead, Coming, AnswersHead, NoneToRead
<1>6. CASE HeadSent(requests) /\ AnswerToRead
  <2>1. PICK i \in DOMAIN inbox :
          /\ AnswersHead(inbox[i])
          /\ \A j \in DOMAIN inbox : j # i => ~ is_response(inbox[j].opcode)
    BY <1>6 DEF AnswerToRead
  <2>2. NoneAsked
    BY <1>6 DEF AnswerToRead
  <2>3. CASE i = 1
    <3>1. \A j \in DOMAIN inbox' : ~ is_response(inbox'[j].opcode)
      BY <1>3, <2>1, <2>3
    <3> QED BY <1>6, <2>1, <2>2, <2>3, <3>1 DEF Coming, AnswersHead
  <2>4. CASE i # 1
    <3>1. ~ is_response(inbox[1].opcode)
      BY <1>3, <2>1, <2>4
    <3>2. i - 1 \in DOMAIN inbox' /\ inbox'[i - 1] = inbox[i]
      BY <1>3, <2>4
    <3>3. \A j \in DOMAIN inbox' : j # i - 1 => ~ is_response(inbox'[j].opcode)
      <4> TAKE j \in DOMAIN inbox'
      <4> HAVE j # i - 1
      <4>1. j + 1 \in DOMAIN inbox /\ j + 1 # i /\ inbox'[j] = inbox[j + 1]
        BY <1>1, <1>3
      <4> QED BY <2>1, <4>1
    <3> QED BY <1>6, <2>1, <2>2, <3>1, <3>2, <3>3 DEF Coming
  <2> QED BY <2>3, <2>4
<1> QED BY <1>2, <1>5, <1>6 DEF AnswerAsked

LEMMA ReadPduHonest ==
    ASSUME Inv, CommandsInv, HonestInv, ReadPdu PROVE HonestInv'
<1>1. /\ ~ dead /\ ~ to.active
      /\ CallHandlerOrFinish(inbox[1], 1)
      /\ UNCHANGED <<wire, stale, dead, to>>
  BY DEF ReadPdu, ReadDispatch, Inv, LifeOK
<1>2. Coming(inbox[1], inbox')
  BY ReadPduComing
<1> HIDE DEF Coming
<1> QED BY <1>1, <1>2, ReadStepHonest

LEMMA HandlerReturnsComing ==
    ASSUME Inv, HonestInv, HandlerReturns PROVE ~ stale => Coming(rd.pdu, inbox')
<1>1. /\ ~ dead /\ ~ to.active /\ rd.phase = "events" /\ inbox' = inbox
  BY DEF HandlerReturns, Inv, RefsExact, linkVars
<1>2. ~ stale => Coming(rd.pdu, inbox)
  BY <1>1 DEF HonestInv, AnswerOK, Live, AnswerAsked, AnswerToRead, AnswerHandled, NoneToRead,
     NoneHandled, Coming, AnswersHead
<1> QED BY <1>1, <1>2

LEMMA HandlerReturnsHonest ==
    ASSUME Inv, CommandsInv, HonestInv, HandlerReturns PROVE HonestInv'
<1>1. /\ ~ dead /\ ~ to.active
      /\ CallHandlerOrFinish(rd.pdu, rd.at + 1)
      /\ UNCHANGED <<wire, stale, dead, to>>
  BY DEF HandlerReturns, Inv, RefsExact, linkVars
<1>2. ~ stale => Coming(rd.pdu, inbox')
  BY HandlerReturnsComing
<1> HIDE DEF Coming
<1> QED BY <1>1, <1>2, ReadStepHonest

LEMMA InitHonest ==
    ASSUME Init PROVE HonestInv
<1>1. /\ requests = <<>> /\ rd.phase = "idle" /\ ~ to.active
      /\ wire = <<>> /\ inbox = <<>>
  BY DEF Init, IdleRead, IdleTimeout
<1>2. DOMAIN <<>> = {}
  OBVIOUS
<1> QED BY <1>1, <1>2
  DEF HonestInv, AnswerOK, AbortOK, AnswerMatchesRequest, HeadSent, NoneAsked, NoneToRead, NoneHandled

LEMMA StepHonest ==
    ASSUME Inv, CommandsInv, HonestInv, Honest, [Next]_vars PROVE HonestInv'
<1>1. CASE App
  <2>1. ASSUME NEW op \in AppOps, SendRequest(op) PROVE HonestInv'
    BY <2>1, SendHonest
  <2>2. ASSUME NEW op \in AppOps, SendResponse(op) PROVE HonestInv'
    BY <2>2, QuietStepsHonest
  <2>3. CASE Unref
    BY <2>3, ReleaseHonest
  <2>4. CASE g_attrib_register \/ g_attrib_unregister \/ g_attrib_unregister_all
    BY <2>4, QuietStepsHonest
  <2> QED BY <1>1, <2>1, <2>2, <2>3, <2>4, SendReusedHonest, CancelHonest DEF App
<1>2. CASE Writing
  BY <1>2, ReleaseHonest, WriteCommandHonest, WriteRequestHonest DEF Writing
<1>3. CASE Reading
  <2>1. CASE ReadStale \/ ReadHup \/ ReadError
    BY <2>1, QuietStepsHonest
  <2> QED BY <1>3, <2>1, ReadPduHonest DEF Reading
<1>4. CASE Returning
  <2>1. CASE ResultReturns
    BY <2>1, QuietStepsHonest
  <2> QED BY <1>4, <2>1, HandlerReturnsHonest, TimeoutHonest DEF Returning
<1>5. CASE TimerFires
  BY <1>5, TimeoutHonest
<1>6. CASE Peer
  <2>1. CASE Disconnect
    BY <2>1, QuietStepsHonest
  <2> QED BY <1>6, <2>1, PeerAnswersHonest, PeerSignalsHonest DEF Peer
<1>7. CASE UNCHANGED vars
  BY <1>7, QuietStepsHonest
<1> QED BY <1>1, <1>2, <1>3, <1>4, <1>5, <1>6, <1>7 DEF Next

(* HonestInv is inductive together with Inv and CommandsInv. *)
THEOREM HonestInductive ==
    ASSUME Honest PROVE Spec => []HonestInv
<1>1. Init => HonestInv
  BY InitHonest
<1>2. Inv /\ CommandsInv /\ HonestInv /\ [Next]_vars => HonestInv'
  BY StepHonest
<1> QED BY <1>1, <1>2, Inductive, CommandsInductive, PTL DEF Spec

(* received_data pops the head of the requests for any answer, without asking    *)
(* whether it was sent: with a peer that only answers what it is asked, the      *)
(* answer is to that very request, across nested main loops, cancels of written  *)
(* requests, long reads re-sent at the head, and timeouts.                    *)
THEOREM AnswersMatch ==
    ASSUME Honest PROVE Spec => []AnswerMatchesRequest
<1>1. HonestInv => AnswerMatchesRequest
  BY DEF HonestInv
<1> QED BY <1>1, HonestInductive, PTL

----------------------------------------------------------------------------
(* The numbers of a queue, in order.                                        *)

LEMMA NsType ==
    ASSUME NEW q \in Seq(Command)
    PROVE  /\ Ns(q) \in Seq(Calls) /\ Len(Ns(q)) = Len(q)
           /\ \A i \in DOMAIN q : Ns(q)[i] = q[i].n
           /\ DOMAIN Ns(q) = DOMAIN q
           /\ Channel!Elements(Ns(q)) = Numbers(q)
<1>1. \A i \in DOMAIN q : q[i].n \in Calls
  BY QueuedCalls
<1>2. Ns(q) \in Seq(Calls) /\ Len(Ns(q)) = Len(q) /\ DOMAIN Ns(q) = DOMAIN q
  BY <1>1 DEF Ns
<1>3. \A i \in DOMAIN q : Ns(q)[i] = q[i].n
  BY DEF Ns
<1> QED BY <1>2, <1>3 DEF Channel!Elements, Numbers

LEMMA NsAppend ==
    ASSUME NEW q \in Seq(Command), NEW c \in Command
    PROVE  Ns(Append(q, c)) = Append(Ns(q), c.n)
<1> DEFINE r == Append(q, c)
           s == Append(Ns(q), c.n)
<1>1. c.n \in Calls
  BY DEF Command
<1>2. r \in Seq(Command) /\ Len(r) = Len(q) + 1
      /\ \A i \in 1..(Len(q) + 1) : r[i] = IF i = Len(q) + 1 THEN c ELSE q[i]
  OBVIOUS
<1>3. s \in Seq(Calls) /\ Len(s) = Len(q) + 1
      /\ \A i \in 1..(Len(q) + 1) : s[i] = IF i = Len(q) + 1 THEN c.n ELSE Ns(q)[i]
  BY <1>1, NsType
<1> HIDE DEF r, s
<1>4. Ns(r) \in Seq(Calls) /\ Len(Ns(r)) = Len(q) + 1
      /\ \A i \in 1..(Len(q) + 1) : Ns(r)[i] = r[i].n
  BY <1>2, NsType
<1>5. \A i \in 1..(Len(q) + 1) : Ns(r)[i] = s[i]
  BY <1>2, <1>3, <1>4, NsType
<1> QED BY <1>3, <1>4, <1>5, SeqEqual DEF r, s

LEMMA NsCons ==
    ASSUME NEW q \in Seq(Command), NEW c \in Command
    PROVE  Ns(<<c>> \o q) = <<c.n>> \o Ns(q)
<1> DEFINE r == <<c>> \o q
           s == <<c.n>> \o Ns(q)
<1>1. c.n \in Calls
  BY DEF Command
<1>2. r \in Seq(Command) /\ Len(r) = Len(q) + 1 /\ r[1] = c
      /\ \A i \in 2..(Len(q) + 1) : r[i] = q[i - 1]
  BY ConsType
<1>3. s \in Seq(Calls) /\ Len(s) = Len(q) + 1 /\ s[1] = c.n
      /\ \A i \in 2..(Len(q) + 1) : s[i] = Ns(q)[i - 1]
  BY <1>1, NsType, ConsType
<1> HIDE DEF r, s
<1>4. Ns(r) \in Seq(Calls) /\ Len(Ns(r)) = Len(q) + 1
      /\ \A i \in 1..(Len(q) + 1) : Ns(r)[i] = r[i].n
  BY <1>2, NsType
<1>5. \A i \in 1..(Len(q) + 1) : Ns(r)[i] = s[i]
  <2> TAKE i \in 1..(Len(q) + 1)
  <2>1. CASE i = 1
    BY <1>2, <1>3, <1>4, <2>1
  <2>2. CASE i # 1
    <3>1. i \in 2..(Len(q) + 1) /\ i - 1 \in DOMAIN q
      BY <2>2
    <3> QED BY <1>2, <1>3, <1>4, <3>1, NsType
  <2> QED BY <2>1, <2>2
<1> QED BY <1>3, <1>4, <1>5, SeqEqual DEF r, s

LEMMA NsTail ==
    ASSUME NEW q \in Seq(Command), q # <<>>
    PROVE  /\ Ns(Tail(q)) = Tail(Ns(q)) /\ Ns(q) # <<>> /\ Ns(q)[1] = q[1].n
<1>1. Ns(q) \in Seq(Calls) /\ Len(Ns(q)) = Len(q) /\ \A i \in DOMAIN q : Ns(q)[i] = q[i].n
  BY NsType
<1>2. Ns(q) # <<>> /\ Ns(q)[1] = q[1].n
  BY <1>1
<1>3. /\ Tail(q) \in Seq(Command) /\ Len(Tail(q)) = Len(q) - 1
      /\ \A j \in 1..(Len(q) - 1) : Tail(q)[j] = q[j + 1]
  BY TailType
<1>4. /\ Tail(Ns(q)) \in Seq(Calls) /\ Len(Tail(Ns(q))) = Len(q) - 1
      /\ \A j \in 1..(Len(q) - 1) : Tail(Ns(q))[j] = Ns(q)[j + 1]
  BY <1>1, <1>2, TailType
<1>5. Ns(Tail(q)) \in Seq(Calls) /\ Len(Ns(Tail(q))) = Len(q) - 1
      /\ \A j \in 1..(Len(q) - 1) : Ns(Tail(q))[j] = Tail(q)[j].n
  <2> DEFINE r == Tail(q)
  <2>1. r \in Seq(Command) /\ Len(r) = Len(q) - 1 /\ DOMAIN r = 1..(Len(q) - 1)
    BY <1>3
  <2> HIDE DEF r
  <2>2. Ns(r) \in Seq(Calls) /\ Len(Ns(r)) = Len(r) /\ \A i \in DOMAIN r : Ns(r)[i] = r[i].n
    BY <2>1, NsType
  <2>3. /\ Ns(r) \in Seq(Calls) /\ Len(Ns(r)) = Len(q) - 1
        /\ \A j \in 1..(Len(q) - 1) : Ns(r)[j] = r[j].n
    BY <2>1, <2>2
  <2> QED BY <2>3 DEF r
<1>6. \A j \in 1..(Len(q) - 1) : Ns(Tail(q))[j] = Tail(Ns(q))[j]
  <2>1. \A j \in 1..(Len(q) - 1) : j + 1 \in DOMAIN q
    OBVIOUS
  <2> QED BY <1>1, <1>3, <1>4, <1>5, <2>1
<1> QED BY <1>2, <1>4, <1>5, <1>6, SeqEqual

LEMMA TailAppend ==
    ASSUME NEW S, NEW q \in Seq(S), NEW e \in S, q # <<>>
    PROVE  Tail(Append(q, e)) = Append(Tail(q), e)
<1> DEFINE r == Tail(Append(q, e))
           s == Append(Tail(q), e)
<1>1. /\ Append(q, e) \in Seq(S) /\ Append(q, e) # <<>> /\ Len(Append(q, e)) = Len(q) + 1
      /\ \A i \in 1..(Len(q) + 1) : Append(q, e)[i] = IF i = Len(q) + 1 THEN e ELSE q[i]
  BY AppendProperties
<1>2. /\ r \in Seq(S) /\ Len(r) = Len(q)
      /\ \A i \in 1..Len(q) : r[i] = Append(q, e)[i + 1]
  BY <1>1, TailType
<1>3. /\ Tail(q) \in Seq(S) /\ Len(Tail(q)) = Len(q) - 1
      /\ \A i \in 1..(Len(q) - 1) : Tail(q)[i] = q[i + 1]
  BY TailType
<1>4. /\ s \in Seq(S) /\ Len(s) = Len(q)
      /\ \A i \in 1..Len(q) : s[i] = IF i = Len(q) THEN e ELSE Tail(q)[i]
  <2> DEFINE u == Tail(q)
  <2>1. u \in Seq(S) /\ Len(u) = Len(q) - 1 /\ Len(q) \in Nat
    BY <1>3
  <2> HIDE DEF u
  <2>2. /\ Append(u, e) \in Seq(S) /\ Len(Append(u, e)) = Len(q)
        /\ \A i \in 1..Len(q) : Append(u, e)[i] = IF i = Len(q) THEN e ELSE u[i]
    BY <2>1, AppendProperties
  <2> QED BY <2>2 DEF u
<1> HIDE DEF r, s
<1>5. \A i \in 1..Len(q) : r[i] = s[i]
  BY <1>1, <1>2, <1>3, <1>4
<1> QED BY <1>2, <1>4, <1>5, SeqEqual DEF r, s

(* The queue of requests as the abstract channel has it. *)
LEMMA WaitingType ==
    ASSUME NEW q \in Seq(Command)
    PROVE  /\ Waiting(q) \in Seq(Calls)
           /\ Channel!Elements(Waiting(q)) \cup Outstanding(q) = Numbers(q)
<1>1. CASE HeadSent(q)
  <2>1. q # <<>> /\ Tail(q) \in Seq(Command)
    BY <1>1 DEF HeadSent
  <2>2. Waiting(q) = Ns(Tail(q)) /\ Outstanding(q) = {q[1].n}
    BY <1>1 DEF Waiting, Outstanding
  <2>3. Waiting(q) \in Seq(Calls) /\ Channel!Elements(Waiting(q)) = Numbers(Tail(q))
    BY <2>1, <2>2, NsType
  <2>4. Numbers(q) = Numbers(Tail(q)) \cup {q[1].n}
    <3>1. /\ Len(Tail(q)) = Len(q) - 1 /\ Len(q) \in Nat \ {0}
          /\ \A j \in 1..(Len(q) - 1) : Tail(q)[j] = q[j + 1]
      BY <2>1, TailType
    <3>2. DOMAIN q = 1..Len(q) /\ DOMAIN Tail(q) = 1..(Len(q) - 1)
      BY <2>1, <3>1
    <3>3. \A i \in DOMAIN q : i = 1 \/ (i - 1 \in DOMAIN Tail(q) /\ Tail(q)[i - 1] = q[i])
      BY <3>1, <3>2
    <3>4. \A j \in DOMAIN Tail(q) : j + 1 \in DOMAIN q /\ Tail(q)[j] = q[j + 1]
      BY <3>1, <3>2
    <3>5. 1 \in DOMAIN q
      BY <3>1, <3>2
    <3> DEFINE r == Tail(q)
    <3> HIDE DEF r
    <3>6. \A i \in DOMAIN q : q[i].n \in Numbers(r) \cup {q[1].n}
      BY <3>3 DEF Numbers, r
    <3>7. \A j \in DOMAIN r : r[j].n \in Numbers(q)
      BY <3>4 DEF Numbers, r
    <3>8. q[1].n \in Numbers(q)
      BY <3>5 DEF Numbers
    <3>9. Numbers(q) \subseteq Numbers(r) \cup {q[1].n}
      BY <3>6, NumbersOf
    <3>10. Numbers(r) \cup {q[1].n} \subseteq Numbers(q)
      BY <3>7, <3>8, NumbersOf
    <3> QED BY <3>9, <3>10 DEF r
  <2> QED BY <2>2, <2>3, <2>4
<1>2. CASE ~ HeadSent(q)
  BY <1>2, NsType DEF Waiting, Outstanding
<1> QED BY <1>1, <1>2

LEMMA WaitingAppend ==
    ASSUME NEW q \in Seq(Command), NEW c \in Command, ~ c.sent
    PROVE  /\ Waiting(Append(q, c)) = Append(Waiting(q), c.n)
           /\ Outstanding(Append(q, c)) = Outstanding(q)
<1> DEFINE r == Append(q, c)
<1>1. /\ HeadSent(r) <=> HeadSent(q)
      /\ HeadSent(q) => q # <<>> /\ r # <<>> /\ r[1] = q[1]
      /\ r \in Seq(Command) /\ Ns(r) = Append(Ns(q), c.n)
  BY AppendFacts, NsAppend DEF HeadSent
<1> HIDE DEF r
<1>2. CASE HeadSent(q)
  <2>1. Waiting(r) = Tail(Ns(r)) /\ Waiting(q) = Tail(Ns(q)) /\ Ns(q) # <<>>
    BY <1>1, <1>2, NsTail DEF Waiting
  <2>2. Ns(q) \in Seq(Calls) /\ c.n \in Calls
    BY NsType DEF Command
  <2>3. Tail(Append(Ns(q), c.n)) = Append(Tail(Ns(q)), c.n)
    BY <2>1, <2>2, TailAppend
  <2> QED BY <1>1, <1>2, <2>1, <2>3 DEF Outstanding, r
<1>3. CASE ~ HeadSent(q)
  BY <1>1, <1>3 DEF Waiting, Outstanding, r
<1> QED BY <1>2, <1>3

(* A step that changes nothing the channel shows. *)
LEMMA Stutters ==
    ASSUME UNCHANGED <<requests, responses, calls, outcome, cancelled, stale, dead, to>>
    PROVE  UNCHANGED Channel!vars
BY DEF Channel!vars, Waiting, Outstanding, HeadSent, Ns, Asking, Verdict, State

LEMMA QuietStepsStutter ==
    ASSUME \/ g_attrib_register \/ g_attrib_unregister \/ g_attrib_unregister_all
           \/ ReadStale \/ ReadHup \/ ReadError \/ ResultReturns
           \/ Peer \/ UNCHANGED vars
    PROVE  UNCHANGED Channel!vars
<1>1. UNCHANGED <<requests, responses, calls, outcome, cancelled, stale, dead, to>>
  BY DEF g_attrib_register, g_attrib_unregister, g_attrib_unregister_all, EventsUnchanged,
     ReadStale, ReadHup, ReadError, ReadDispatch, ResultReturns,
     Peer, PeerAnswers, PeerSignals, Disconnect, LinkUnchanged,
     vars, queueVars, watchVars, frameVars, linkVars, histVars
<1> QED BY <1>1, Stutters

LEMMA Primes ==
    /\ Waiting(requests)' = Waiting(requests') /\ Outstanding(requests)' = Outstanding(requests')
    /\ Ns(responses)' = Ns(responses')
BY DEF Waiting, Outstanding, HeadSent, Ns

LEMMA StateUnchanged ==
    ASSUME UNCHANGED <<stale, dead, to>> PROVE State' = State
BY DEF State

LEMMA StateOpen == ~ stale /\ ~ dead /\ ~ to.active <=> State = "open"
BY DEF State

LEMMA StateFailing == ~ stale /\ ~ dead /\ to.active <=> State = "failing"
BY DEF State

(* The mapped state of GAttrib. *)
LEMMA ChannelFacts ==
    ASSUME Inv, CommandsInv
    PROVE  /\ requests \in Seq(Command) /\ responses \in Seq(Command)
           /\ Waiting(requests) \in Seq(Calls) /\ Ns(responses) \in Seq(Calls)
           /\ Channel!Known = Numbers(requests) \cup Numbers(responses)
           /\ Channel!Known \subseteq DOMAIN calls
           /\ Asking \subseteq DOMAIN calls /\ DOMAIN calls \subseteq Calls
<1>1. /\ requests \in Seq(Command) /\ responses \in Seq(Command)
      /\ calls \in Seq(Opcodes) /\ Len(calls) <= MaxCalls
  BY DEF Inv, TypeOK, QueueTypes, HistTypes
<1>2. Channel!Known = Numbers(requests) \cup Numbers(responses)
  BY <1>1, WaitingType, NsType DEF Channel!Known
<1>3. Numbers(requests) \cup Numbers(responses) \subseteq DOMAIN calls
  BY DEF CommandsInv, EachCommandOnce
<1>4. DOMAIN calls \subseteq Calls
  BY <1>1, BoundsAssumption DEF Calls, BoundsAssumption
<1> QED BY <1>1, <1>2, <1>3, <1>4, WaitingType, NsType DEF Asking

----------------------------------------------------------------------------
(* g_attrib_send is Submit.                                                 *)

LEMMA AcceptSubmits ==
    ASSUME Inv, CommandsInv, NEW op \in Opcodes, NEW id, Accept(op),
           NEW n, n = NewCommand(id, op).n,
           \/ /\ Waiting(requests') \in {Append(Waiting(requests), n), <<n>> \o Waiting(requests)}
              /\ responses' = responses
           \/ /\ Ns(responses') = Append(Ns(responses), n)
              /\ opcode2expected(op) = NoResponse /\ requests' = requests,
           Outstanding(requests') = Outstanding(requests)
    PROVE  Channel!Submit
<1>1. /\ calls' = Append(calls, op) /\ ~ stale /\ ~ dead
      /\ UNCHANGED <<stale, dead, to, outcome, cancelled>>
  BY DEF Accept, AppRuns, frameVars
<1>2. n \in Calls \ DOMAIN calls
  BY AcceptFacts
<1>3. State # "closed" /\ State' = State
  BY <1>1 DEF State
<1>4. Verdict' = Verdict /\ Verdict[n] = "pending"
  <2>1. outcome[n] = <<>>
    BY <1>2 DEF CommandsInv, UnusedOK
  <2> QED BY <1>1, <1>2, <2>1 DEF Verdict
<1>5. n \in Calls \ (Channel!Known \cup Asking)
  BY <1>2, ChannelFacts
<1>6. Asking' = IF opcode2expected(op) = NoResponse THEN Asking ELSE Asking \cup {n}
  <2>1. n = Len(calls) + 1 /\ calls \in Seq(Opcodes)
    BY DEF NewCommand, Inv, TypeOK, HistTypes
  <2>2. /\ DOMAIN calls' = DOMAIN calls \cup {n} /\ calls'[n] = op /\ n \notin DOMAIN calls
        /\ \A m \in DOMAIN calls : calls'[m] = calls[m]
    BY <1>1, <2>1
  <2> QED BY <2>2 DEF Asking
<1>7. \/ /\ Waiting(requests)' \in {Append(Waiting(requests), n), <<n>> \o Waiting(requests)}
         /\ Asking' \in {Asking, Asking \cup {n}}
         /\ Ns(responses)' = Ns(responses)
      \/ /\ Ns(responses)' = Append(Ns(responses), n)
         /\ Waiting(requests)' = Waiting(requests) /\ Asking' = Asking
  BY <1>6, Primes
<1>8. Outstanding(requests)' = Outstanding(requests) /\ cancelled' = cancelled
  BY <1>1, Primes
<1> QED BY <1>3, <1>4, <1>5, <1>7, <1>8 DEF Channel!Submit

LEMMA SendSubmits ==
    ASSUME Inv, CommandsInv, NEW op \in AppOps, SendRequest(op) \/ SendResponse(op)
    PROVE  Channel!Submit
<1> DEFINE c == NewCommand(next_cmd_id + 1, op)
           n == c.n
<1>1. op \in Opcodes /\ Accept(op) /\ c \in Command /\ ~ c.sent
  BY NewCommandType, OpcodesAssumption
  DEF Inv, TypeOK, QueueTypes, SendRequest, SendResponse, Accept, OpcodesAssumption
<1>2. requests \in Seq(Command) /\ responses \in Seq(Command)
  BY ChannelFacts
<1>3. CASE SendRequest(op)
  <2>1. requests' = Append(requests, c) /\ responses' = responses
    BY <1>3 DEF SendRequest, Enqueue
  <2> HIDE DEF c
  <2>2. Waiting(requests') = Append(Waiting(requests), n) /\ Outstanding(requests') = Outstanding(requests)
    BY <1>1, <1>2, <2>1, WaitingAppend
  <2> QED BY <1>1, <2>1, <2>2, AcceptSubmits DEF c
<1>4. CASE SendResponse(op)
  <2>1. responses' = Append(responses, c) /\ requests' = requests /\ is_response(op)
    BY <1>4 DEF SendResponse, Enqueue
  <2>2. opcode2expected(op) = NoResponse
    BY <2>1, ResponsesExpectNothing
  <2> HIDE DEF c
  <2>3. Ns(responses') = Append(Ns(responses), n) /\ Outstanding(requests') = Outstanding(requests)
    BY <1>1, <1>2, <2>1, NsAppend
  <2> QED BY <1>1, <2>1, <2>2, <2>3, AcceptSubmits DEF c
<1> QED BY <1>3, <1>4

LEMMA SendReusedSubmits ==
    ASSUME Inv, CommandsInv, SendReused PROVE Channel!Submit
<1> DEFINE c == NewCommand(rd.cmd.id, "READ_BLOB_REQ")
           n == c.n
<1>1. c \in Command /\ ~ c.sent /\ Accept("READ_BLOB_REQ") /\ "READ_BLOB_REQ" \in Opcodes
  <2>1. rd.cmd.id \in Nat
    BY DEF Inv, TypeOK, FrameTypes, NoCommand, Command
  <2> QED BY <2>1, NewCommandType, SendOpcodes DEF Inv, SendReused, Accept
<1>2. /\ requests' = <<c>> \o requests /\ responses' = responses
      /\ rd.phase = "result" /\ requests \in Seq(Command)
  BY ChannelFacts DEF SendReused
<1>3. ~ HeadSent(requests)
  <2>1. requests # <<>> => 1 \in DOMAIN requests
    BY <1>2
  <2> QED BY <1>2, <2>1 DEF Inv, FrameOK, HeadSent
<1> HIDE DEF c
<1>4. ~ HeadSent(requests')
  BY <1>1, <1>2, ConsType DEF HeadSent
<1>5. /\ Waiting(requests') = <<n>> \o Waiting(requests)
      /\ Outstanding(requests') = Outstanding(requests)
  BY <1>1, <1>2, <1>3, <1>4, NsCons DEF Waiting, Outstanding
<1> QED BY <1>1, <1>2, <1>5, AcceptSubmits DEF c

----------------------------------------------------------------------------
(* g_attrib_cancel and g_attrib_cancel_all are Withdraw.                    *)

LEMMA WithoutNothing ==
    ASSUME NEW q \in Seq(Calls), NEW gone, Channel!Elements(q) \cap gone = {}
    PROVE  Channel!Without(q, gone, q)
BY DEF Channel!Without

LEMMA WithoutAll ==
    ASSUME NEW q, NEW gone, Channel!Elements(q) \subseteq gone
    PROVE  Channel!Without(q, gone, <<>>)
<1>1. DOMAIN <<>> = {}
  OBVIOUS
<1>2. Channel!Elements(<<>>) = {}
  BY <1>1 DEF Channel!Elements
<1> QED BY <1>1, <1>2 DEF Channel!Without

LEMMA WithoutOne ==
    ASSUME NEW q \in Seq(Command), NEW i \in DOMAIN q, Injective(q)
    PROVE  Channel!Without(Ns(q), {q[i].n}, Ns(RemoveAt(q, i)))
<1> DEFINE r == RemoveAt(q, i)
<1>1. i \in 1..Len(q) /\ Len(q) \in Nat /\ DOMAIN q = 1..Len(q)
  OBVIOUS
<1>2. /\ r \in Seq(Command) /\ DOMAIN r = 1..(Len(q) - 1)
      /\ \A j \in 1..(Len(q) - 1) : r[j] = IF j < i THEN q[j] ELSE q[j + 1]
  BY <1>1, RemoveAtType DEF RemoveAt
<1>3. Numbers(r) = Numbers(q) \ {q[i].n}
  BY RemoveAtNumbers
<1> HIDE DEF r
<1>4. /\ Channel!Elements(Ns(q)) = Numbers(q) /\ Channel!Elements(Ns(r)) = Numbers(r)
      /\ DOMAIN Ns(q) = DOMAIN q /\ \A j \in DOMAIN q : Ns(q)[j] = q[j].n
      /\ DOMAIN Ns(r) = DOMAIN r /\ \A j \in DOMAIN r : Ns(r)[j] = r[j].n
  BY <1>2, NsType
<1>5. ASSUME NEW a \in DOMAIN Ns(r), NEW b \in DOMAIN Ns(r), a < b
      PROVE  \E k, l \in DOMAIN Ns(q) : k < l /\ Ns(q)[k] = Ns(r)[a] /\ Ns(q)[l] = Ns(r)[b]
  <2> DEFINE at(m) == IF m < i THEN m ELSE m + 1
  <2>1. a \in 1..(Len(q) - 1) /\ b \in 1..(Len(q) - 1)
    BY <1>2, <1>4
  <2>2. at(a) \in 1..Len(q) /\ at(b) \in 1..Len(q) /\ at(a) < at(b)
    BY <1>1, <1>5, <2>1
  <2>3. r[a] = q[at(a)] /\ r[b] = q[at(b)]
    BY <1>2, <2>1
  <2> HIDE DEF at
  <2> QED BY <1>1, <1>4, <2>2, <2>3
<1> QED BY <1>3, <1>4, <1>5 DEF Channel!Without, r

LEMMA TailRemoveAt ==
    ASSUME NEW q \in Seq(Command), NEW i \in DOMAIN q, i # 1
    PROVE  /\ i - 1 \in DOMAIN Tail(q) /\ Tail(q)[i - 1] = q[i]
           /\ Tail(RemoveAt(q, i)) = RemoveAt(Tail(q), i - 1)
<1> DEFINE r == RemoveAt(q, i)
           u == Tail(q)
           s == Tail(r)
           v == RemoveAt(u, i - 1)
<1>1. i \in 2..Len(q) /\ i \in 1..Len(q) /\ Len(q) \in Nat /\ q # <<>>
  OBVIOUS
<1>2. /\ u \in Seq(Command) /\ Len(u) = Len(q) - 1
      /\ \A j \in 1..(Len(q) - 1) : u[j] = q[j + 1]
  BY <1>1, TailType
<1>3. i - 1 \in 1..Len(u) /\ Len(u) \in Nat
  BY <1>1, <1>2
<1>4. /\ r \in Seq(Command) /\ Len(r) = Len(q) - 1
      /\ \A j \in 1..(Len(q) - 1) : r[j] = IF j < i THEN q[j] ELSE q[j + 1]
  BY <1>1, RemoveAtType
<1>5. r # <<>>
  BY <1>1, <1>4
<1> HIDE DEF r, u
<1>6. /\ s \in Seq(Command) /\ Len(s) = Len(q) - 2
      /\ \A j \in 1..(Len(q) - 2) : s[j] = r[j + 1]
  BY <1>4, <1>5, TailType
<1>7. /\ v \in Seq(Command) /\ Len(v) = Len(q) - 2
      /\ \A j \in 1..(Len(q) - 2) : v[j] = IF j < i - 1 THEN u[j] ELSE u[j + 1]
  <2>1. /\ v \in Seq(Command) /\ Len(v) = Len(u) - 1
        /\ \A j \in 1..(Len(u) - 1) : v[j] = IF j < i - 1 THEN u[j] ELSE u[j + 1]
    BY <1>2, <1>3, RemoveAtType
  <2> HIDE DEF v
  <2> QED BY <1>1, <1>2, <2>1
<1> HIDE DEF s, v
<1>8. \A j \in 1..(Len(q) - 2) : s[j] = v[j]
  <2> TAKE j \in 1..(Len(q) - 2)
  <2>1. /\ j \in Nat /\ i \in Nat /\ j \in 1..(Len(q) - 1) /\ j + 1 \in 1..(Len(q) - 1)
        /\ (j + 1) + 1 = j + 2
    BY <1>1
  <2>2. s[j] = IF j + 1 < i THEN q[j + 1] ELSE q[j + 2]
    BY <1>4, <1>6, <2>1
  <2>3. v[j] = IF j < i - 1 THEN q[j + 1] ELSE q[j + 2]
    BY <1>2, <1>7, <2>1
  <2>4. j + 1 < i <=> j < i - 1
    BY <2>1
  <2> QED BY <2>2, <2>3, <2>4
<1>9. s = v
  BY <1>6, <1>7, <1>8, SeqEqual
<1>10. i - 1 \in DOMAIN u /\ u[i - 1] = q[i]
  BY <1>1, <1>2, <1>3
<1> QED BY <1>9, <1>10 DEF r, u, s, v

LEMMA CancelInWithout ==
    ASSUME NEW q \in Seq(Command), \A j \in DOMAIN q : q[j].sent => j = 1, Injective(q),
           NEW i \in DOMAIN q
    PROVE  /\ Channel!Without(Waiting(q), {q[i].n}, Waiting(CancelIn(q, i)))
           /\ Outstanding(CancelIn(q, i)) = Outstanding(q)
<1> DEFINE r == CancelIn(q, i)
<1>1. HeadSent(r) <=> HeadSent(q)
  BY CancelInHead
<1>2. Outstanding(r) = Outstanding(q)
  BY <1>1, CancelInHead DEF Outstanding
<1>3. CASE HeadSent(q)
  <2>1. /\ q # <<>> /\ Tail(q) \in Seq(Command) /\ q[1].sent /\ 1 \in DOMAIN q
        /\ Waiting(q) = Ns(Tail(q)) /\ Waiting(r) = Ns(Tail(r))
    BY <1>1, <1>3 DEF HeadSent, Waiting
  <2>2. Injective(Tail(q)) /\ Numbers(Tail(q)) = Numbers(q) \ {q[1].n}
    BY <2>1, TailNumbers
  <2>3. CASE i = 1
    <3> DEFINE c == [q[1] EXCEPT !.func = FALSE]
    <3>1. r = [q EXCEPT ![1] = c]
      BY <2>1, <2>3 DEF CancelIn
    <3>2. Tail(r) = Tail(q)
      <4>0. c \in Command
        <5>1. q[1] \in Command
          BY <2>1
        <5> QED BY <5>1 DEF Command
      <4> HIDE DEF c, r
      <4>1. /\ r \in Seq(Command) /\ Len(r) = Len(q) /\ r # <<>>
            /\ \A j \in 2..Len(q) : r[j] = q[j]
        BY <2>1, <3>1, <4>0
      <4>2. /\ Tail(r) \in Seq(Command) /\ Len(Tail(r)) = Len(q) - 1
            /\ \A j \in 1..(Len(q) - 1) : Tail(r)[j] = r[j + 1]
        BY <4>1, TailType
      <4>3. /\ Len(Tail(q)) = Len(q) - 1
            /\ \A j \in 1..(Len(q) - 1) : Tail(q)[j] = q[j + 1]
        BY <2>1, TailType
      <4>4. \A j \in 1..(Len(q) - 1) : j + 1 \in 2..Len(q)
        OBVIOUS
      <4>5. \A j \in 1..(Len(q) - 1) : Tail(r)[j] = Tail(q)[j]
        BY <4>1, <4>2, <4>3, <4>4
      <4> QED BY <2>1, <4>2, <4>3, <4>5, SeqEqual
    <3>3. Ns(Tail(q)) \in Seq(Calls) /\ Channel!Elements(Ns(Tail(q))) = Numbers(Tail(q))
      BY <2>1, NsType
    <3>4. Channel!Elements(Ns(Tail(q))) \cap {q[i].n} = {}
      BY <2>2, <2>3, <3>3
    <3>5. Channel!Without(Ns(Tail(q)), {q[i].n}, Ns(Tail(q)))
      BY <3>3, <3>4, WithoutNothing
    <3> QED BY <1>2, <2>1, <3>2, <3>5
  <2>4. CASE i # 1
    <3>1. r = RemoveAt(q, i)
      BY <2>4 DEF CancelIn
    <3> DEFINE u == Tail(q)
    <3>2. /\ i - 1 \in DOMAIN u /\ u[i - 1] = q[i]
          /\ Tail(RemoveAt(q, i)) = RemoveAt(u, i - 1) /\ u \in Seq(Command) /\ Injective(u)
      BY <2>1, <2>2, <2>4, TailRemoveAt
    <3> HIDE DEF u
    <3>3. Channel!Without(Ns(u), {u[i - 1].n}, Ns(RemoveAt(u, i - 1)))
      BY <3>2, WithoutOne
    <3> QED BY <1>2, <2>1, <3>1, <3>2, <3>3 DEF u
  <2> QED BY <2>3, <2>4
<1>4. CASE ~ HeadSent(q)
  <2>1. Waiting(q) = Ns(q) /\ Waiting(r) = Ns(r)
    BY <1>1, <1>4 DEF Waiting
  <2>2. ~ (i = 1 /\ q[1].sent)
    BY <1>4 DEF HeadSent
  <2>3. r = RemoveAt(q, i)
    BY <2>2 DEF CancelIn
  <2> QED BY <1>2, <2>1, <2>3, WithoutOne
<1> QED BY <1>3, <1>4
LEMMA Withdraws ==
    ASSUME UNCHANGED <<calls, outcome, stale, dead, to>>,
           NEW gone \in SUBSET Channel!Known,
           Channel!Without(Waiting(requests), gone, Waiting(requests')),
           Channel!Without(Ns(responses), gone, Ns(responses')),
           cancelled' = cancelled \cup gone,
           Outstanding(requests') = Outstanding(requests)
    PROVE  Channel!Withdraw
<1>1. State' = State /\ Asking' = Asking /\ Verdict' = Verdict
  BY DEF State, Asking, Verdict
<1>2. /\ Channel!Without(Waiting(requests), gone, Waiting(requests)')
      /\ Channel!Without(Ns(responses), gone, Ns(responses)')
      /\ Outstanding(requests)' = Outstanding(requests)
  BY Primes
<1> QED BY <1>1, <1>2 DEF Channel!Withdraw

LEMMA CancelWithdraws ==
    ASSUME Inv, CommandsInv, g_attrib_cancel PROVE Channel!Withdraw
<1>1. UNCHANGED <<calls, outcome, stale, dead, to>>
  BY DEF g_attrib_cancel, CancelUnchanged, watchVars, frameVars
<1>2. /\ \A j \in DOMAIN requests : requests[j].sent => j = 1
      /\ \A j \in DOMAIN responses : ~ responses[j].sent
      /\ Injective(requests) /\ Injective(responses)
      /\ Numbers(requests) \cap Numbers(responses) = {}
  BY DEF Inv, OneOutstanding, CommandsInv, EachCommandOnce
<1>3. /\ requests \in Seq(Command) /\ responses \in Seq(Command)
      /\ Waiting(requests) \in Seq(Calls) /\ Ns(responses) \in Seq(Calls)
      /\ Channel!Known = Numbers(requests) \cup Numbers(responses)
      /\ Channel!Elements(Waiting(requests)) \subseteq Numbers(requests)
      /\ Channel!Elements(Ns(responses)) = Numbers(responses)
  BY ChannelFacts, WaitingType, NsType
<1>4. ASSUME NEW i \in DOMAIN requests, requests' = CancelIn(requests, i),
             cancelled' = cancelled \cup {requests[i].n}, responses' = responses
      PROVE  Channel!Withdraw
  <2>1. requests[i].n \in Numbers(requests)
    BY DEF Numbers
  <2>2. Channel!Elements(Ns(responses)) \cap {requests[i].n} = {}
    BY <1>2, <1>3, <2>1
  <2>3. /\ Channel!Without(Waiting(requests), {requests[i].n}, Waiting(requests'))
        /\ Outstanding(requests') = Outstanding(requests)
    BY <1>2, <1>3, <1>4, CancelInWithout
  <2>4. Channel!Without(Ns(responses), {requests[i].n}, Ns(responses'))
    BY <1>3, <1>4, <2>2, WithoutNothing
  <2>5. {requests[i].n} \in SUBSET Channel!Known
    BY <1>3, <2>1
  <2> QED BY <1>1, <1>4, <2>3, <2>4, <2>5, Withdraws
<1>5. ASSUME NEW i \in DOMAIN responses, responses' = CancelIn(responses, i),
             cancelled' = cancelled \cup {responses[i].n}, requests' = requests
      PROVE  Channel!Withdraw
  <2>1. responses[i].n \in Numbers(responses)
    BY DEF Numbers
  <2>2. Channel!Elements(Waiting(requests)) \cap {responses[i].n} = {}
    BY <1>2, <1>3, <2>1
  <2>3. responses' = RemoveAt(responses, i)
    BY <1>2, <1>5 DEF CancelIn
  <2>4. Channel!Without(Waiting(requests), {responses[i].n}, Waiting(requests'))
    BY <1>3, <1>5, <2>2, WithoutNothing
  <2>5. Channel!Without(Ns(responses), {responses[i].n}, Ns(responses'))
    BY <1>2, <1>3, <2>3, WithoutOne
  <2>6. {responses[i].n} \in SUBSET Channel!Known
    BY <1>3, <2>1
  <2> QED BY <1>1, <1>5, <2>4, <2>5, <2>6, Withdraws
<1> QED BY <1>4, <1>5 DEF g_attrib_cancel

LEMMA CancelAllWithdraws ==
    ASSUME Inv, CommandsInv, g_attrib_cancel_all PROVE Channel!Withdraw
<1>1. /\ UNCHANGED <<calls, outcome, stale, dead, to>>
      /\ requests' = cancel_all_per_queue(requests)
      /\ responses' = cancel_all_per_queue(responses)
      /\ cancelled' = cancelled \cup (Numbers(requests) \cup Numbers(responses))
  BY DEF g_attrib_cancel_all, CancelUnchanged, watchVars, frameVars
<1>2. /\ requests \in Seq(Command) /\ responses \in Seq(Command)
      /\ Channel!Known = Numbers(requests) \cup Numbers(responses)
      /\ Channel!Elements(Waiting(requests)) \subseteq Numbers(requests)
      /\ Channel!Elements(Ns(responses)) = Numbers(responses)
  BY ChannelFacts, WaitingType, NsType
<1>3. Waiting(requests') = <<>> /\ Outstanding(requests') = Outstanding(requests)
  BY <1>1, <1>2, CancelAllHead DEF Outstanding
<1>4. Ns(responses') = <<>>
  <2>1. responses # <<>> => 1 \in DOMAIN responses
    BY <1>2
  <2>2. ~ HeadSent(responses)
    BY <2>1 DEF Inv, OneOutstanding, HeadSent
  <2> QED BY <1>1, <2>2, NsEmpty DEF cancel_all_per_queue
<1>5. /\ Channel!Without(Waiting(requests), Channel!Known, Waiting(requests'))
      /\ Channel!Without(Ns(responses), Channel!Known, Ns(responses'))
  BY <1>2, <1>3, <1>4, WithoutAll
<1>6. cancelled' = cancelled \cup Channel!Known
  BY <1>1, <1>2
<1> QED BY <1>1, <1>3, <1>5, <1>6, Withdraws

----------------------------------------------------------------------------
(* Letting go of the attrib: the last reference is Forget, any other nothing.  *)

LEMMA Forgets ==
    ASSUME UNCHANGED <<calls, outcome, cancelled>>, dead',
           requests' = <<>>, responses' = <<>>,
           ~ to.active \/ requests = <<>>
    PROVE  Channel!Forget
<1>1. State' = "closed" /\ Asking' = Asking /\ Verdict' = Verdict
  BY DEF State, Asking, Verdict
<1>2. State # "failing" \/ Waiting(requests) = <<>>
  BY NsEmpty DEF State
<1>3. Waiting(requests)' = <<>> /\ Ns(responses)' = <<>> /\ Outstanding(requests)' = {}
  BY Primes, NsEmpty
<1> QED BY <1>1, <1>2, <1>3 DEF Channel!Forget

LEMMA ReleaseForgets ==
    ASSUME Inv, Unref \/ WriteNothing \/ WriteError
    PROVE  Channel!Forget \/ UNCHANGED Channel!vars
<1>1. /\ g_attrib_unref(requests, responses, timeout_watch, {})
      /\ UNCHANGED <<stale, to, calls, outcome, cancelled>>
  BY DEF Unref, WriteNothing, WriteError, WriteDispatch, destroy_sender, frameVars
<1>2. CASE refs = 1
  <2>1. ~ to.active
    <3>1. CASE Unref
      <4>1. held
        BY <3>1 DEF Unref, AppRuns
      <4> QED BY <1>2, <4>1 DEF Inv, RefsExact, Count
    <3>2. CASE WriteNothing \/ WriteError
      BY <3>2 DEF WriteNothing, WriteError, WriteDispatch, LoopRuns
    <3> QED BY <3>1, <3>2
  <2>2. dead' /\ requests' = <<>> /\ responses' = <<>>
    BY <1>1, <1>2 DEF g_attrib_unref, attrib_destroy
  <2> QED BY <1>1, <2>1, <2>2, Forgets
<1>3. CASE refs # 1
  <2>1. UNCHANGED <<requests, responses, dead>>
    BY <1>1, <1>3 DEF g_attrib_unref
  <2> QED BY <1>1, <2>1, Stutters
<1> QED BY <1>2, <1>3

----------------------------------------------------------------------------
(* can_write_data is Transmit.                                              *)

LEMMA TailExcept ==
    ASSUME NEW q \in Seq(Command), q # <<>>, NEW c \in Command
    PROVE  /\ Tail([q EXCEPT ![1] = c]) = Tail(q)
           /\ [q EXCEPT ![1] = c] # <<>> /\ [q EXCEPT ![1] = c][1] = c
<1> DEFINE r == [q EXCEPT ![1] = c]
<1>1. /\ r \in Seq(Command) /\ Len(r) = Len(q) /\ r # <<>> /\ r[1] = c
      /\ \A j \in 2..Len(q) : r[j] = q[j]
  OBVIOUS
<1> HIDE DEF r
<1>2. /\ Tail(r) \in Seq(Command) /\ Len(Tail(r)) = Len(q) - 1
      /\ \A j \in 1..(Len(q) - 1) : Tail(r)[j] = r[j + 1]
  BY <1>1, TailType
<1>3. /\ Tail(q) \in Seq(Command) /\ Len(Tail(q)) = Len(q) - 1
      /\ \A j \in 1..(Len(q) - 1) : Tail(q)[j] = q[j + 1]
  BY TailType
<1>4. \A j \in 1..(Len(q) - 1) : j + 1 \in 2..Len(q)
  OBVIOUS
<1>5. \A j \in 1..(Len(q) - 1) : Tail(r)[j] = Tail(q)[j]
  BY <1>1, <1>2, <1>3, <1>4
<1>6. Tail(r) = Tail(q)
  BY <1>2, <1>3, <1>5, SeqEqual
<1> QED BY <1>1, <1>6 DEF r

LEMMA AskingHead ==
    ASSUME Inv, CommandsInv, requests # <<>>
    PROVE  /\ requests[1].n \in Asking <=> requests[1].expected # NoResponse
           /\ requests[1].func <=> requests[1].n \in Asking \ cancelled
<1>1. 1 \in DOMAIN requests
  BY DEF Inv, TypeOK, QueueTypes
<1>2. Fresh(requests[1])
  BY <1>1 DEF CommandsInv, WaitingOK
<1> QED BY <1>2 DEF Fresh, Asking

(* The queue of requests when its head, not sent, leaves it. *)
LEMMA PopWaiting ==
    ASSUME Inv, CommandsInv, requests # <<>>
    PROVE  /\ Outstanding(Tail(requests)) = {}
           /\ Waiting(Tail(requests)) = Ns(Tail(requests))
           /\ HeadSent(requests) => /\ Waiting(requests) = Waiting(Tail(requests))
                                    /\ Outstanding(requests) = {requests[1].n}
           /\ ~ HeadSent(requests) => /\ Waiting(requests) # <<>> /\ Outstanding(requests) = {}
                                      /\ Waiting(requests)[1] = requests[1].n
                                      /\ Waiting(Tail(requests)) = Tail(Waiting(requests))
<1>1. ~ HeadSent(Tail(requests))
  BY TailUnsent
<1>2. requests \in Seq(Command)
  BY ChannelFacts
<1>3. Ns(Tail(requests)) = Tail(Ns(requests)) /\ Ns(requests) # <<>> /\ Ns(requests)[1] = requests[1].n
  BY <1>2, NsTail
<1> QED BY <1>1, <1>3 DEF Waiting, Outstanding

LEMMA WriteCommandTransmits ==
    ASSUME Inv, CommandsInv, WriteCommand PROVE Channel!Transmit
<1>1. /\ ~ stale /\ ~ to.active /\ write_watch /\ NextToWrite # <<>> /\ ~ HeadSent(NextToWrite)
      /\ NextToWrite[1].expected = NoResponse
      /\ UNCHANGED <<stale, dead, to, calls, outcome, cancelled>>
      /\ IF responses # <<>> THEN responses' = Tail(responses) /\ UNCHANGED requests
         ELSE requests' = Tail(requests) /\ UNCHANGED responses
  BY DEF WriteCommand, Write, WriteDispatch, NothingToWrite, LoopRuns, frameVars
<1>2. ~ dead
  BY <1>1 DEF Inv, RefsExact, Count, TypeOK, WatchTypes
<1>3. State = "open" /\ State' = State /\ Asking' = Asking /\ Verdict' = Verdict
  BY <1>1, <1>2 DEF State, Asking, Verdict
<1>4. requests \in Seq(Command) /\ responses \in Seq(Command)
  BY ChannelFacts
<1>5. CASE responses # <<>>
  <2>1. Ns(responses) # <<>> /\ Ns(responses') = Tail(Ns(responses)) /\ requests' = requests
    BY <1>1, <1>4, <1>5, NsTail
  <2>2. /\ Ns(responses)' = Tail(Ns(responses)) /\ Waiting(requests)' = Waiting(requests)
        /\ Outstanding(requests)' = Outstanding(requests)
    BY <2>1, Primes
  <2> QED BY <1>1, <1>3, <2>1, <2>2 DEF Channel!Transmit
<1>6. CASE responses = <<>>
  <2>1. /\ requests # <<>> /\ ~ HeadSent(requests) /\ requests[1].expected = NoResponse
        /\ requests' = Tail(requests) /\ responses' = responses
    BY <1>1, <1>6 DEF NextToWrite
  <2>2. /\ Waiting(requests) # <<>> /\ Outstanding(requests) = {}
        /\ Waiting(requests)[1] = requests[1].n
        /\ Waiting(requests') = Tail(Waiting(requests)) /\ Outstanding(requests') = {}
    BY <2>1, PopWaiting
  <2>3. requests[1].n \notin Asking
    BY <2>1, AskingHead
  <2>4. Ns(responses) = <<>>
    BY <1>6, NsEmpty
  <2>5. /\ Waiting(requests)' = Tail(Waiting(requests))
        /\ Outstanding(requests)' = {Waiting(requests)[1]} \cap Asking
        /\ Ns(responses)' = Ns(responses)
    BY <2>1, <2>2, <2>3, Primes
  <2> QED BY <1>1, <1>3, <2>2, <2>4, <2>5 DEF Channel!Transmit
<1> QED BY <1>5, <1>6

LEMMA WriteRequestTransmits ==
    ASSUME Inv, CommandsInv, WriteRequest PROVE Channel!Transmit \/ Channel!Forget
<1> DEFINE c == [requests[1] EXCEPT !.sent = TRUE]
           reqs == [requests EXCEPT ![1] = c]
<1>1. /\ g_attrib_unref(reqs, responses, TimerAfterRequest, {})
      /\ UNCHANGED <<stale, to, calls, outcome, cancelled>>
      /\ ~ stale /\ ~ to.active /\ write_watch
      /\ NextToWrite # <<>> /\ NextToWrite[1].expected # NoResponse /\ ~ HeadSent(NextToWrite)
  BY DEF WriteRequest, Write, WriteDispatch, NothingToWrite, LoopRuns, destroy_sender, frameVars
<1>2. ~ dead
  BY <1>1 DEF Inv, RefsExact, Count, TypeOK, WatchTypes
<1>3. /\ responses = <<>> /\ requests # <<>> /\ ~ HeadSent(requests)
      /\ requests[1].expected # NoResponse
  <2>1. responses # <<>> => responses[1].expected = NoResponse
    BY DEF Inv, AnswersOK, TypeOK, QueueTypes
  <2> QED BY <1>1, <2>1 DEF NextToWrite
<1>4. requests \in Seq(Command) /\ requests[1] \in Command
  BY <1>3, ChannelFacts
<1>5. c \in Command /\ c.n = requests[1].n /\ c.sent
  BY <1>4 DEF Command
<1> HIDE DEF c
<1>6. Tail(reqs) = Tail(requests) /\ reqs # <<>> /\ reqs[1] = c
  BY <1>3, <1>4, <1>5, TailExcept
<1> HIDE DEF reqs
<1>7. CASE refs = 1
  <2>1. dead' /\ requests' = <<>> /\ responses' = <<>>
    BY <1>1, <1>7 DEF g_attrib_unref, attrib_destroy
  <2> QED BY <1>1, <2>1, Forgets
<1>8. CASE refs # 1
  <2>1. requests' = reqs /\ responses' = responses /\ dead' = dead
    BY <1>1, <1>8 DEF g_attrib_unref
  <2>2. State = "open" /\ State' = State /\ Asking' = Asking /\ Verdict' = Verdict
    BY <1>1, <1>2, <2>1 DEF State, Asking, Verdict
  <2>3. /\ Waiting(requests) # <<>> /\ Outstanding(requests) = {}
        /\ Waiting(requests)[1] = requests[1].n
        /\ Ns(Tail(requests)) = Tail(Waiting(requests))
    BY <1>3, PopWaiting
  <2>4. HeadSent(reqs)
    BY <1>5, <1>6 DEF HeadSent
  <2>5. Waiting(requests') = Tail(Waiting(requests)) /\ Outstanding(requests') = {requests[1].n}
    BY <1>5, <1>6, <2>1, <2>3, <2>4 DEF Waiting, Outstanding
  <2>6. requests[1].n \in Asking
    BY <1>3, AskingHead
  <2>7. /\ Waiting(requests)' = Tail(Waiting(requests))
        /\ Outstanding(requests)' = {Waiting(requests)[1]} \cap Asking
        /\ Ns(responses)' = Ns(responses)
    BY <2>1, <2>3, <2>5, <2>6, Primes
  <2>8. Ns(responses) = <<>>
    BY <1>3, NsEmpty
  <2> QED BY <1>1, <2>2, <2>3, <2>7, <2>8 DEF Channel!Transmit
<1> QED BY <1>7, <1>8

----------------------------------------------------------------------------
(* received_data is Complete, disconnect_timeout Expire, Abort and Close.     *)

(* The callback of the head is the verdict of its call. *)
LEMMA TellsHead ==
    ASSUME Inv, CommandsInv, requests # <<>>, NEW status \in Statuses,
           outcome' = IF requests[1].func
                      THEN [outcome EXCEPT ![requests[1].n] = Append(@, status)] ELSE outcome
    PROVE  Channel!Tell(requests[1].n, status)
<1> DEFINE n == requests[1].n
<1>1. /\ n \in Calls
      /\ outcome'[n] = IF requests[1].func THEN <<status>> ELSE <<>>
      /\ \A m \in Calls : m # n => outcome'[m] = outcome[m]
  BY PopOutcome
<1>2. outcome[n] = <<>>
  BY PopOutcome DEF Fresh
<1>3. requests[1].func <=> n \in Asking \ cancelled
  BY AskingHead
<1>4. <<status>> # <<>> /\ <<status>>[1] = status
  OBVIOUS
<1> HIDE DEF n
<1>5. CASE requests[1].func
  <2>1. Verdict' = [Verdict EXCEPT ![n] = status]
    <3> DEFINE told(s) == IF s = <<>> THEN "pending" ELSE s[1]
    <3>1. told(<<status>>) = status
      BY <1>4
    <3>2. Verdict = [m \in Calls |-> told(outcome[m])] /\ Verdict' = [m \in Calls |-> told(outcome'[m])]
      BY DEF Verdict
    <3>3. outcome'[n] = <<status>>
      BY <1>1, <1>5
    <3> HIDE DEF told
    <3>4. told(outcome'[n]) = status /\ \A m \in Calls : m # n => told(outcome'[m]) = told(outcome[m])
      BY <1>1, <3>1, <3>3
    <3> QED BY <1>1, <3>2, <3>4
  <2> QED BY <1>3, <1>5, <2>1 DEF Channel!Tell, n
<1>6. CASE ~ requests[1].func
  <2>1. Verdict' = Verdict
    BY <1>6 DEF Verdict
  <2> QED BY <1>3, <1>6, <2>1 DEF Channel!Tell, n
<1> QED BY <1>5, <1>6

LEMMA ReadStepCompletes ==
    ASSUME Inv, CommandsInv, ~ dead, ~ to.active,
           NEW pdu, NEW from, CallHandlerOrFinish(pdu, from),
           UNCHANGED <<responses, stale, dead, to, calls, cancelled>>,
           ~ stale => Coming(pdu, inbox')
    PROVE  Channel!Complete \/ UNCHANGED Channel!vars
<1>1. stale => requests = <<>>
  BY DEF CommandsInv, LateOK
<1>2. CASE NextHandler(pdu, from) # 0 \/ ~ is_response(pdu.opcode) \/ requests = <<>>
  <2>1. UNCHANGED <<requests, outcome>>
    BY <1>2 DEF CallHandlerOrFinish, FinishRead
  <2> QED BY <2>1, Stutters
<1>3. CASE NextHandler(pdu, from) = 0 /\ is_response(pdu.opcode) /\ requests # <<>>
  <2> DEFINE status == ResultStatus(requests[1], pdu)
  <2>1. /\ requests' = Tail(requests)
        /\ outcome' = IF requests[1].func
                      THEN [outcome EXCEPT ![requests[1].n] = Append(@, status)] ELSE outcome
    BY <1>3 DEF CallHandlerOrFinish, FinishRead
  <2>2. ~ stale
    BY <1>1, <1>3
  <2>3. HeadSent(requests) /\ AnswersHead(pdu)
    BY <1>3, <2>2 DEF Coming
  <2>4. status \in {"ok", "error"}
    BY <2>3 DEF AnswersHead, ResultStatus
  <2> HIDE DEF status
  <2>5. Channel!Tell(requests[1].n, status)
    <3>1. status \in Statuses
      BY <2>4 DEF Statuses
    <3> QED BY <1>3, <2>1, <3>1, TellsHead
  <2>6. /\ Waiting(requests') = Waiting(requests) /\ Outstanding(requests') = {}
        /\ requests[1].n \in Outstanding(requests)
    BY <1>3, <2>1, <2>3, PopWaiting
  <2>7. State = "open" /\ State' = State /\ Asking' = Asking /\ cancelled' = cancelled
    BY <2>2 DEF State, Asking
  <2>8. /\ Waiting(requests)' = Waiting(requests) /\ Outstanding(requests)' = {}
        /\ Ns(responses)' = Ns(responses)
    BY <2>6, Primes
  <2> QED BY <2>4, <2>5, <2>6, <2>7, <2>8 DEF Channel!Complete
<1> QED BY <1>2, <1>3

LEMMA ReadPduCompletes ==
    ASSUME Inv, CommandsInv, HonestInv, ReadPdu PROVE Channel!Complete \/ UNCHANGED Channel!vars
<1>1. /\ ~ dead /\ ~ to.active
      /\ CallHandlerOrFinish(inbox[1], 1)
      /\ UNCHANGED <<responses, stale, dead, to, calls, cancelled>>
  BY DEF ReadPdu, ReadDispatch, Inv, LifeOK
<1>2. Coming(inbox[1], inbox')
  BY ReadPduComing
<1> HIDE DEF Coming
<1> QED BY <1>1, <1>2, ReadStepCompletes

LEMMA HandlerReturnsCompletes ==
    ASSUME Inv, CommandsInv, HonestInv, HandlerReturns
    PROVE  Channel!Complete \/ UNCHANGED Channel!vars
<1>1. /\ ~ dead /\ ~ to.active
      /\ CallHandlerOrFinish(rd.pdu, rd.at + 1)
      /\ UNCHANGED <<responses, stale, dead, to, calls, cancelled>>
  BY DEF HandlerReturns, Inv, RefsExact
<1>2. ~ stale => Coming(rd.pdu, inbox')
  BY HandlerReturnsComing
<1> HIDE DEF Coming
<1> QED BY <1>1, <1>2, ReadStepCompletes

LEMMA TimerExpires ==
    ASSUME Inv, CommandsInv, TimerFires PROVE Channel!Expire
<1>1. /\ timeout_watch = "armed" /\ ~ to.active
      /\ UNCHANGED <<responses, dead, calls, cancelled>>
  BY DEF TimerFires, TimeoutUnchanged, LoopRuns
<1>2. ~ stale /\ ~ dead
  BY <1>1 DEF CommandsInv, LateOK, Inv, LifeOK
<1>3. HeadSent(requests) /\ requests # <<>>
  BY <1>1, <1>2 DEF Inv, TimerGuardsRequest, HeadSent
<1>4. /\ requests' = Tail(requests) /\ stale' = stale /\ to'.active
      /\ outcome' = IF requests[1].func
                    THEN [outcome EXCEPT ![requests[1].n] = Append(@, "timeout")] ELSE outcome
  BY <1>3 DEF TimerFires, PopAndAbort
<1>5. Channel!Tell(requests[1].n, "timeout")
  <2>1. "timeout" \in Statuses
    BY DEF Statuses
  <2> QED BY <1>3, <1>4, <2>1, TellsHead
<1>6. /\ Waiting(requests') = Waiting(requests) /\ Outstanding(requests') = {}
      /\ requests[1].n \in Outstanding(requests)
  BY <1>3, <1>4, PopWaiting
<1>7. State = "open" /\ State' = "failing" /\ Asking' = Asking
  BY <1>1, <1>2, <1>4 DEF State, Asking
<1>8. /\ Waiting(requests)' = Waiting(requests) /\ Outstanding(requests)' = {}
      /\ Ns(responses)' = Ns(responses)
  BY <1>1, <1>6, Primes
<1> QED BY <1>1, <1>5, <1>6, <1>7, <1>8 DEF Channel!Expire

(* While the timeout aborts, the attrib is neither stale nor gone. *)
LEMMA AbortingState ==
    ASSUME Inv, CommandsInv, to.active PROVE ~ stale /\ ~ dead
<1>1. ~ stale
  BY DEF CommandsInv, LateOK
<1>2. ~ dead
  BY DEF Inv, RefsExact, Count, TypeOK, WatchTypes
<1> QED BY <1>1, <1>2

LEMMA AbortNextAborts ==
    ASSUME Inv, CommandsInv, HonestInv, AbortNext PROVE Channel!Abort
<1>1. /\ to.active /\ requests # <<>> /\ requests' = Tail(requests) /\ to'.active
      /\ UNCHANGED <<responses, stale, dead, calls, cancelled>>
      /\ outcome' = IF requests[1].func
                    THEN [outcome EXCEPT ![requests[1].n] = Append(@, "aborted")] ELSE outcome
  BY DEF AbortNext, TimeoutUnchanged, PopAndAbort
<1>2. ~ HeadSent(requests)
  BY <1>1 DEF HonestInv, AbortOK
<1>3. Channel!Tell(requests[1].n, "aborted")
  <2>1. "aborted" \in Statuses
    BY DEF Statuses
  <2> QED BY <1>1, <2>1, TellsHead
<1>4. /\ Waiting(requests) # <<>> /\ Outstanding(requests) = {} /\ Outstanding(requests') = {}
      /\ Waiting(requests)[1] = requests[1].n
      /\ Waiting(requests') = Tail(Waiting(requests))
  BY <1>1, <1>2, PopWaiting
<1>5. State = "failing" /\ State' = State /\ Asking' = Asking
  BY <1>1, AbortingState DEF State, Asking
<1>6. /\ Waiting(requests)' = Tail(Waiting(requests))
      /\ Outstanding(requests)' = Outstanding(requests)
      /\ Ns(responses)' = Ns(responses)
  BY <1>1, <1>4, Primes
<1> QED BY <1>1, <1>3, <1>4, <1>5, <1>6 DEF Channel!Abort

LEMMA AbortDoneCloses ==
    ASSUME Inv, CommandsInv, AbortDone PROVE Channel!Close \/ Channel!Forget
<1>1. /\ to.active /\ requests = <<>> /\ stale' /\ ~ to'.active
      /\ g_attrib_unref(<<>>, responses, timeout_watch, {to.cmd.n})
      /\ UNCHANGED <<calls, outcome, cancelled>>
  BY DEF AbortDone, TimeoutUnchanged, StaleAfterTimeout, IdleTimeout
<1>2. CASE refs = 1
  <2>1. dead' /\ requests' = <<>> /\ responses' = <<>>
    BY <1>1, <1>2 DEF g_attrib_unref, attrib_destroy
  <2> QED BY <1>1, <2>1, Forgets
<1>3. CASE refs # 1
  <2>1. requests' = requests /\ responses' = responses
    BY <1>1, <1>3 DEF g_attrib_unref
  <2>2. State = "failing" /\ State' = "closed" /\ Asking' = Asking /\ Verdict' = Verdict
    BY <1>1, AbortingState DEF State, Asking, Verdict
  <2>3. /\ Waiting(requests) = <<>>
        /\ Waiting(requests)' = Waiting(requests)
        /\ Outstanding(requests)' = Outstanding(requests)
        /\ Ns(responses)' = Ns(responses)
    BY <1>1, <2>1, NsEmpty, Primes
  <2> QED BY <1>1, <2>2, <2>3 DEF Channel!Close
<1> QED BY <1>2, <1>3

----------------------------------------------------------------------------
LEMMA InitChannel ==
    ASSUME Init PROVE Channel!Init
<1>1. /\ requests = <<>> /\ responses = <<>> /\ calls = <<>> /\ cancelled = {}
      /\ outcome = [n \in Calls |-> <<>>] /\ ~ stale /\ ~ dead /\ ~ to.active
  BY DEF Init, IdleTimeout
<1>2. Waiting(requests) = <<>> /\ Ns(responses) = <<>> /\ Outstanding(requests) = {}
  BY <1>1, NsEmpty
<1>3. Asking = {}
  <2>1. DOMAIN calls = {}
    BY <1>1
  <2> QED BY <2>1 DEF Asking
<1>4. Verdict = [n \in Calls |-> "pending"] /\ State = "open"
  BY <1>1 DEF Verdict, State
<1> QED BY <1>1, <1>2, <1>3, <1>4 DEF Channel!Init

LEMMA StepChannel ==
    ASSUME Inv, CommandsInv, HonestInv, [Next]_vars PROVE [Channel!Next]_(Channel!vars)
<1>1. CASE App
  <2>1. ASSUME NEW op \in AppOps, SendRequest(op) \/ SendResponse(op) PROVE Channel!Next
    BY <2>1, SendSubmits DEF Channel!Next
  <2>2. CASE SendReused
    BY <2>2, SendReusedSubmits DEF Channel!Next
  <2>3. CASE g_attrib_cancel \/ g_attrib_cancel_all
    BY <2>3, CancelWithdraws, CancelAllWithdraws DEF Channel!Next
  <2>4. CASE g_attrib_register \/ g_attrib_unregister \/ g_attrib_unregister_all
    BY <2>4, QuietStepsStutter
  <2>5. CASE Unref
    BY <2>5, ReleaseForgets DEF Channel!Next
  <2> QED BY <1>1, <2>1, <2>2, <2>3, <2>4, <2>5 DEF App
<1>2. CASE Writing
  BY <1>2, ReleaseForgets, WriteCommandTransmits, WriteRequestTransmits DEF Writing, Channel!Next
<1>3. CASE Reading
  <2>1. CASE ReadPdu
    BY <2>1, ReadPduCompletes DEF Channel!Next
  <2> QED BY <1>3, <2>1, QuietStepsStutter DEF Reading
<1>4. CASE Returning
  <2>1. CASE HandlerReturns
    BY <2>1, HandlerReturnsCompletes DEF Channel!Next
  <2>2. CASE ResultReturns
    BY <2>2, QuietStepsStutter
  <2>3. CASE AbortNext \/ AbortDone
    BY <2>3, AbortNextAborts, AbortDoneCloses DEF Channel!Next
  <2> QED BY <1>4, <2>1, <2>2, <2>3 DEF Returning
<1>5. CASE TimerFires
  BY <1>5, TimerExpires DEF Channel!Next
<1>6. CASE Peer \/ UNCHANGED vars
  BY <1>6, QuietStepsStutter
<1> QED BY <1>1, <1>2, <1>3, <1>4, <1>5, <1>6 DEF Next

(* With a peer that only answers what it is asked, every behaviour of the queue  *)
(* engine is one of the abstract channel: calls leave in the order of the two   *)
(* queues, one request is out at a time, and each gets one verdict, through     *)
(* nested main loops, cancels of written requests, long reads that re-send at    *)
(* the head, failed writes, timeouts and the release of the last reference.     *)
THEOREM Refinement ==
    ASSUME Honest PROVE Spec => ImplementsChannel
<1>1. Init => Channel!Init
  BY InitChannel
<1>2. Inv /\ CommandsInv /\ HonestInv /\ [Next]_vars => [Channel!Next]_(Channel!vars)
  BY StepChannel
<1> QED BY <1>1, <1>2, Inductive, CommandsInductive, HonestInductive, PTL
        DEF Spec, ImplementsChannel, Channel!Spec
=============================================================================
