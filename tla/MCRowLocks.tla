----------------------------- MODULE MCRowLocks -----------------------------
(***************************************************************************)
(* An instance of RowLocks for TLC: a sale in three installments whose ids *)
(* are not in the order of their numbers, the last one due today; two      *)
(* anticipations (one names the installment that is due, and is refused), a *)
(* chargeback, the cancellation, handled by two consumers at once, and the *)
(* settlement job.                                                         *)
(***************************************************************************)
EXTENDS RowLocks

CONSTANTS s1, i1, i2, i3, a1, a2, b1, c1, c2

MCSaleOf == [x \in Row |-> s1]
MCNo     == [x \in Row |-> CASE x = i1 -> 1 [] x = i2 -> 2 [] x = i3 -> 3]
MCId     == [x \in Row |-> CASE x = i1 -> 3 [] x = i2 -> 1 [] x = i3 -> 2]
MCItems  == [r \in Anticipation |-> IF r = a1 THEN {i1, i2} ELSE Row]
MCOf     == [r \in BySale |-> s1]
=============================================================================
