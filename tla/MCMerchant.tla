----------------------------- MODULE MCMerchant -----------------------------
(***************************************************************************)
(* An instance of Merchant for TLC: one merchant, one webhook and three    *)
(* requests at a time.                                                     *)
(***************************************************************************)
EXTENDS Merchant, TLC

Symmetry == Permutations(Request)
=============================================================================
