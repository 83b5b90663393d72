----------------------------- MODULE MCDelivery -----------------------------
(***************************************************************************)
(* An instance of Delivery for TLC: two events in one partition, the first *)
(* of them of a merchant with a webhook.                                   *)
(***************************************************************************)
EXTENDS Delivery

CONSTANTS e1, e2, pa

MCId          == [e \in Event |-> IF e = e1 THEN 1 ELSE 2]
MCPartitionOf == [e \in Event |-> pa]
=============================================================================
