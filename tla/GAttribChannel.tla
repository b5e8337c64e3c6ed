--------------------------- MODULE GAttribChannel ---------------------------
(***************************************************************************)
(* GAttrib seen as the channel of AttChannel: the sent head of requests is   *)
(* the outstanding call and the rest of requests waits; the verdict of a call *)
(* is the status its callback got.                                         *)
(***************************************************************************)
EXTENDS GAttrib

Ns(q) == [i \in DOMAIN q |-> q[i].n]

Waiting(q) == IF HeadSent(q) THEN Ns(Tail(q)) ELSE Ns(q)
Outstanding(q) == IF HeadSent(q) THEN {q[1].n} ELSE {}

Asking == {n \in DOMAIN calls : opcode2expected(calls[n]) # NoResponse}

Verdict == [n \in Calls |-> IF outcome[n] = <<>> THEN "pending" ELSE outcome[n][1]]

State == IF stale \/ dead THEN "closed" ELSE IF to.active THEN "failing" ELSE "open"

Channel == INSTANCE AttChannel WITH
    Calls       <- Calls,
    Verdicts    <- {"ok", "error"},
    Pending     <- "pending",
    waiting     <- Waiting(requests),
    answers     <- Ns(responses),
    asking      <- Asking,
    outstanding <- Outstanding(requests),
    verdict     <- Verdict,
    muted       <- cancelled,
    state       <- State

(* The queue engine keeps the promise of AttChannel: sending order, one        *)
(* outstanding request, and one verdict per call, whatever the watches, the   *)
(* timer, the references and the callbacks in between do.                    *)
ImplementsChannel == Channel!Spec
=============================================================================
