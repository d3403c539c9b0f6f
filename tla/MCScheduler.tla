---------------------------- MODULE MCScheduler -----------------------------
(***************************************************************************)
(* Values for the constants of Scheduler: which requests have equal bytes, *)
(* and in which ways the user gives a request up.                          *)
(***************************************************************************)
EXTENDS Scheduler

Distinct == [r \in Requests |-> r]
\* Two requests of equal bytes, say two fetches of one key, beside others.
Twins == LET pair == CHOOSE p \in SUBSET Requests : Cardinality(p) = 2
         IN  [r \in Requests |-> IF r \in pair THEN None ELSE r]

NeverAbandoned == {}
DroppedWhenActive == {<<"drop", "active">>}
DirtyWhenActive == {<<"dirty", "active">>}
DroppedWhenQueued == {<<"drop", "queued">>}
AbandonedAnyhow == {"drop", "dirty"} \X {"active", "queued", "lost"}
=============================================================================
