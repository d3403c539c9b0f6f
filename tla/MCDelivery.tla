----------------------------- MODULE MCDelivery -----------------------------
(***************************************************************************)
(* Values for the constants of Delivery.                                   *)
(***************************************************************************)
EXTENDS Delivery

CONSTANTS r1, r2

Distinct == [r \in Requests |-> r]
NeverAbandoned == {}
\* The callback of r1 dispatches r2.
Chain == [r \in Requests |-> IF r = r1 THEN r2 ELSE None]
=============================================================================
