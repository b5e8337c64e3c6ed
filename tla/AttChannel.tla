----------------------------- MODULE AttChannel -----------------------------
(***************************************************************************)
(* What a GAttrib promises the code that sends through it, with no word of   *)
(* watches, buffers, references or frames: calls go out in the order of the  *)
(* two queues, answers to the peer before the rest; one request at a time is *)
(* outstanding; each request gets exactly one verdict unless its caller      *)
(* cancels it or lets go of the channel.  GAttrib implements it under the    *)
(* mapping of GAttribChannel.                                               *)
(***************************************************************************)
EXTENDS Naturals, Sequences

CONSTANTS Calls,          \* the numbers of the calls
          Verdicts,       \* what an answer can say
          Pending         \* no verdict yet

VARIABLES
    waiting,       \* requests and commands not sent yet, in order
    answers,       \* answers to the peer not sent yet, in order
    asking,        \* the calls that ask for an answer
    outstanding,   \* {n} while request n waits for its answer, else {}
    verdict,       \* what the caller of each call has been told
    muted,         \* the calls whose caller has cancelled them
    state          \* "open", "failing" while calls are aborted, "closed"

vars == <<waiting, answers, asking, outstanding, verdict, muted, state>>

Elements(q) == {q[i] : i \in DOMAIN q}

(* r is q without the calls of gone, the others in their order. *)
Without(q, gone, r) ==
    /\ Elements(r) = Elements(q) \ gone
    /\ \A i, j \in DOMAIN r : i < j =>
          \E k, l \in DOMAIN q : k < l /\ q[k] = r[i] /\ q[l] = r[j]

Known == Elements(waiting) \cup Elements(answers) \cup outstanding

(* The one verdict v of call n, given if somebody waits for it. *)
Tell(n, v) ==
    verdict' = IF n \in asking \ muted THEN [verdict EXCEPT ![n] = v] ELSE verdict

Init ==
    /\ waiting = <<>> /\ answers = <<>> /\ asking = {} /\ outstanding = {}
    /\ verdict = [n \in Calls |-> Pending] /\ muted = {} /\ state = "open"

(* A new call joins a queue at its tail, or goes before all that wait. *)
Submit ==
    /\ state # "closed"
    /\ \E n \in Calls \ (Known \cup asking) :
          /\ verdict[n] = Pending
          /\ \/ /\ waiting' \in {Append(waiting, n), <<n>> \o waiting}
                /\ asking' \in {asking, asking \cup {n}}
                /\ UNCHANGED answers
             \/ /\ answers' = Append(answers, n)
                /\ UNCHANGED <<waiting, asking>>
    /\ UNCHANGED <<outstanding, verdict, muted, state>>

(* The head of the queues is sent; if it asks for an answer it is outstanding. *)
Transmit ==
    /\ state = "open"
    /\ \/ /\ answers # <<>> /\ answers' = Tail(answers)
          /\ UNCHANGED <<waiting, outstanding>>
       \/ /\ answers = <<>> /\ waiting # <<>> /\ outstanding = {}
          /\ waiting' = Tail(waiting)
          /\ outstanding' = {waiting[1]} \cap asking
          /\ UNCHANGED answers
    /\ UNCHANGED <<asking, verdict, muted, state>>

(* The outstanding request is answered. *)
Complete ==
    /\ state = "open"
    /\ outstanding' = {}
    /\ \E v \in Verdicts, n \in outstanding : Tell(n, v)
    /\ UNCHANGED <<waiting, answers, asking, muted, state>>

(* Callers cancel calls: those not sent are withdrawn, all of them muted. *)
Withdraw ==
    /\ \E gone \in SUBSET Known :
          /\ Without(waiting, gone, waiting')
          /\ Without(answers, gone, answers')
          /\ muted' = muted \cup gone
    /\ UNCHANGED <<asking, outstanding, verdict, state>>

(* The outstanding request times out, which is the end of the channel: *)
Expire ==
    /\ state = "open"
    /\ outstanding' = {}
    /\ \E n \in outstanding : Tell(n, "timeout")
    /\ state' = "failing"
    /\ UNCHANGED <<waiting, answers, asking, muted>>

(* every call that waits is aborted, in its order, *)
Abort ==
    /\ state = "failing" /\ waiting # <<>>
    /\ waiting' = Tail(waiting)
    /\ Tell(waiting[1], "aborted")
    /\ UNCHANGED <<answers, asking, outstanding, muted, state>>

(* and the channel closes. *)
Close ==
    /\ state = "failing" /\ waiting = <<>>
    /\ state' = "closed"
    /\ UNCHANGED <<waiting, answers, asking, outstanding, verdict, muted>>

(* The owner has let go of the channel: what is left is forgotten, after a     *)
(* last transmission or failure if one was under way. *)
Forget ==
    /\ state # "failing" \/ waiting = <<>>
    /\ state' = "closed"
    /\ waiting' = <<>> /\ answers' = <<>> /\ outstanding' = {}
    /\ UNCHANGED <<asking, verdict, muted>>

Next == Submit \/ Transmit \/ Complete \/ Withdraw \/ Expire \/ Abort \/ Close \/ Forget

Spec == Init /\ [][Next]_vars
=============================================================================
