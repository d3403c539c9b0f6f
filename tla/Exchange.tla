------------------------------ MODULE Exchange ------------------------------
(***************************************************************************)
(* What the client relies on when it sends a message: its handler hears    *)
(* parts of the reply, then one end of it or one error, and nothing more   *)
(* but perhaps a timeout that was already on its way.  request_with_       *)
(* timeout on the transport is shown to implement this in Delivery.        *)
(***************************************************************************)
EXTENDS Naturals, Sequences

CONSTANT Requests

VARIABLES
    sent,       \* the requests given to the transport
    answers     \* answers[r]: what the handler of r has been called with

vars == <<sent, answers>>

Init ==
    /\ sent = {}
    /\ answers = [r \in Requests |-> <<>>]

Heard(r, whats) == \E i \in DOMAIN answers[r] : answers[r][i] \in whats

Send(r) ==
    /\ r \notin sent
    /\ sent' = sent \cup {r}
    /\ UNCHANGED answers

Tell(r, what) ==
    /\ r \in sent
    /\ answers' = [answers EXCEPT ![r] = Append(@, what)]
    /\ UNCHANGED sent

Ended(r) == Heard(r, {"complete", "failed", "timeout"})

Part(r) == ~Ended(r) /\ Tell(r, "partial")

End(r) == ~Ended(r) /\ \E what \in {"complete", "failed"} : Tell(r, what)

TimeOut(r) == ~Heard(r, {"timeout"}) /\ Tell(r, "timeout")

Next == \E r \in Requests : Send(r) \/ Part(r) \/ End(r) \/ TimeOut(r)

Spec == Init /\ [][Next]_vars
=============================================================================
