------------------------------ MODULE MCAgenda ------------------------------
(***************************************************************************)
(* Instances of Agenda for TLC: a credit sale in two installments, or a    *)
(* debit sale and a credit sale in three installments of the same merchant *)
(* whose first installment is worth less than its fee.                     *)
(***************************************************************************)
EXTENDS Agenda, Calendar

CONSTANTS t1, t2, r1, r2, r3, r4, r5, m1

OneSale     == {t1}
OneSaleRcv  == {r1, r2}
TwoSales    == {t1, t2}
TwoSalesRcv == {r1, r3, r4, r5}

MCMerchantOf == [t \in Tx |-> m1]
MCTxOf       == [r \in Rcv |-> IF r \in {r1, r2} THEN t1 ELSE t2]
MCInstallmentNo ==
  [r \in Rcv |-> CASE r \in {r1, r3} -> 1 [] r \in {r2, r4} -> 2 [] OTHER -> 3]
MCInstallmentCount == [t \in Tx |-> Cardinality({r \in Rcv : MCTxOf[r] = t})]
MCProductOf  == [t \in Tx |-> IF MCInstallmentCount[t] = 1 THEN "DEBIT" ELSE "CREDIT"]

\* 21 cents at 15% are installments of 11 and 10 with fees of 2 and 1; 3 cents at 70%
\* in three installments leave the first one with a fee of 2 on a value of 1.
MCAmount == [t \in Tx |-> IF t = t1 THEN 21 ELSE 3]
MCMdr    == [t \in Tx |-> IF t = t1 THEN 1500 ELSE 7000]
MCPV     == [r \in Rcv |-> Net(r) - 1]

\* Day 0 is Tuesday the 2nd of June 2026, two days before Corpus Christi.
FirstDay == DayOf(2026, 6, 2)
ClosedDays == {d \in 0..(LastDay + 7) : IsClosed(FirstDay + d)}
MCClosed == ClosedDays

\* Every installment in the database is due on a day on which the bank works, at the
\* earliest when the card scheme counts it due and at most four days later, if the first
\* day of the behaviour is this day of the calendar.
OpenWhenDue(first) ==
  \A r \in {s \in Rcv : rcv[s] # "NONE"} :
    /\ DueDate(r) \in CountedDay(r)..(CountedDay(r) + 4)
    /\ ~IsClosed(first + DueDate(r))

\* Installments are due when the banks work; and the calendar is right in any year: its
\* Easter is the Sunday that the tables of the calendar define, and no more than four
\* closed days follow each other.
DueWhenBanksOpen == EasterIsRight /\ ClosedRunsAreShort /\ OpenWhenDue(FirstDay)
=============================================================================
