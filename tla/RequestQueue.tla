---------------------------- MODULE RequestQueue ----------------------------
(***************************************************************************)
(* What a serial transport promises about the requests it is given,        *)
(* whatever happens to its connection: they wait in the order of arrival,  *)
(* at most one of them is current, one becomes current at most once and    *)
(* only as the oldest that waits, and one that was withdrawn never does.   *)
(* The scheduler of the single serial socket is shown to implement this.   *)
(***************************************************************************)
EXTENDS Naturals, Sequences, SequencesExt

CONSTANTS Requests, None

VARIABLES
    arrivals,   \* how many requests have been accepted
    arrival,    \* arrival[r]: when r was accepted, 0 when it was not
    waiting,    \* the requests accepted and not yet current
    current     \* the request that has the connection, or None

vars == <<arrivals, arrival, waiting, current>>

Init ==
    /\ arrivals = 0
    /\ arrival = [r \in Requests |-> 0]
    /\ waiting = <<>>
    /\ current = None

\* A request that finds nobody served makes the oldest one current.
Accept(r) ==
    /\ arrival[r] = 0
    /\ arrivals' = arrivals + 1
    /\ arrival' = [arrival EXCEPT ![r] = arrivals + 1]
    /\ IF current = None
       THEN /\ current' = Head(Append(waiting, r))
            /\ waiting' = Tail(Append(waiting, r))
       ELSE /\ waiting' = Append(waiting, r)
            /\ UNCHANGED current

\* The current request, if any, is over and the oldest takes its place.
Advance ==
    /\ waiting # <<>>
    /\ current' = Head(waiting)
    /\ waiting' = Tail(waiting)
    /\ UNCHANGED <<arrivals, arrival>>

Finish ==
    /\ current # None
    /\ current' = None
    /\ UNCHANGED <<arrivals, arrival, waiting>>

Withdraw(i) ==
    /\ waiting' = RemoveAt(waiting, i)
    /\ UNCHANGED <<arrivals, arrival, current>>

Next ==
    \/ \E r \in Requests : Accept(r)
    \/ Advance
    \/ Finish
    \/ \E i \in 1..Len(waiting) : Withdraw(i)

Spec == Init /\ [][Next]_vars
=============================================================================
