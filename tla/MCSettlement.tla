---------------------------- MODULE MCSettlement ----------------------------
(***************************************************************************)
(* Instances of Settlement for TLC: two merchants with two installments    *)
(* each, one of them anticipated; the creditor of m1 claims less than the  *)
(* net value of the day and more than that of any single installment.      *)
(***************************************************************************)
EXTENDS Settlement, TLC

CONSTANTS r1, r2, r3, r4, m1, m2

MCMerchantOf == [r \in Rcv |-> IF r \in {r1, r2} THEN m1 ELSE m2]
MCRank       == [r \in Rcv |-> CASE r = r1 -> 1 [] r = r2 -> 2 [] r = r3 -> 3 [] OTHER -> 4]
MCNet        == [r \in Rcv |-> CASE r = r1 -> 5 [] r = r2 -> 3 [] OTHER -> 4]
MCLien       == [m \in Merchant |-> IF m = m1 THEN 6 ELSE 0]

GoodAccounts == {}
BadMerchant  == {<<m2, "TO_MERCHANT">>}
=============================================================================
