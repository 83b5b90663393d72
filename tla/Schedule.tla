------------------------------ MODULE Schedule ------------------------------
(***************************************************************************)
(* The arithmetic of an agenda: what a sale costs its merchant, how value  *)
(* and fee are split into installments, and the business day on which each *)
(* one is due. Amounts are whole cents, rates are hundredths of a percent, *)
(* days are numbers. The Brazilian calendar (weekends, fixed holidays, the *)
(* ones that move with Easter: module Calendar) is the set of closed days. *)
(***************************************************************************)
EXTENDS Integers, FiniteSets

CONSTANTS
  Closed,   \* days without settlement: weekends and national holidays
  Period    \* days between installments (30 in the code)

ASSUME ScheduleAssumption ==
  /\ Closed \subseteq Nat
  /\ IsFiniteSet(Closed)
  /\ Period \in Nat \ {0}

Product == {"DEBIT", "CREDIT"}
Bps     == 0..10000

ApplyBps(gross, rate) == (gross * rate) \div 10000

\* Faulty variant: the cents that do not divide are dropped.
SplitDropped(total, n) == [k \in 1..n |-> total \div n]

\* The cents that do not divide go to the first part.
Split(total, n) ==
  [k \in 1..n |-> total \div n + (IF k = 1 THEN total % n ELSE 0)]

IsBusinessDay(day) == day \notin Closed

NextBusinessDay(day) ==
  CHOOSE d \in day..(day + Cardinality(Closed)) :
    IsBusinessDay(d) /\ \A e \in day..(d - 1) : ~IsBusinessDay(e)

\* AddBusinessDays(captured, 1) of a debit sale is the business day after it.
Term(product, k) == IF product = "DEBIT" THEN 1 ELSE Period * k

DueDateOf(product, captured, k) == NextBusinessDay(captured + Term(product, k))
=============================================================================
