---------------------------- MODULE WholeRequests ----------------------------
(***************************************************************************)
(* What the row locks promise: a request changes all the installments it   *)
(* is about, in one step, judged by the state they have in that step.      *)
(***************************************************************************)
CONSTANTS
  Sale, Row, SaleOf,   \* installments, and the sale of each
  Anticipation, Items, \* requests to anticipate, and the installments they name
  Anticipable, Due     \* installments due after today; due on the day of the job

VARIABLES sale, status, marked

vars == <<sale, status, marked>>

RowsOf(s)  == {x \in Row : SaleOf[x] = s}
Open       == {"SCHEDULED", "ANTICIPATED"}
Disputable == {"CAPTURED", "SETTLED"}

\* The rows of S that are in a status of From move to To, the others stay.
Move(S, From, To) ==
  status' = [x \in Row |-> IF x \in S /\ status[x] \in From THEN To ELSE status[x]]

Init ==
  /\ sale = [s \in Sale |-> "CAPTURED"]
  /\ status = [x \in Row |-> "SCHEDULED"]
  /\ marked = {}

Anticipate(r) ==
  /\ \A x \in Items[r] : x \in Anticipable /\ status[x] = "SCHEDULED"
  /\ Move(Items[r], {"SCHEDULED"}, "ANTICIPATED")
  /\ UNCHANGED <<sale, marked>>

Dispute(s) ==
  /\ sale[s] \in Disputable
  /\ sale' = [sale EXCEPT ![s] = "CHARGEBACKED"]
  /\ Move(RowsOf(s), Open, "CHARGEBACKED")
  /\ UNCHANGED marked

CancelSale(s) ==
  /\ sale[s] = "CAPTURED"
  /\ sale' = [sale EXCEPT ![s] = "CANCELED"]
  /\ UNCHANGED <<status, marked>>

CloseAgenda(s) ==
  /\ sale[s] = "CANCELED"
  /\ s \notin marked
  /\ marked' = marked \cup {s}
  /\ Move(RowsOf(s), {"SCHEDULED"}, "CANCELED")
  /\ UNCHANGED sale

Settle(S) ==
  /\ \A x \in S : status[x] \in Open
  /\ Move(S, Open, "SETTLED")
  /\ UNCHANGED <<sale, marked>>

Next ==
  \/ \E r \in Anticipation : Anticipate(r)
  \/ \E s \in Sale : Dispute(s) \/ CancelSale(s) \/ CloseAgenda(s)
  \/ \E S \in SUBSET Due : Settle(S)

Spec == Init /\ [][Next]_vars
=============================================================================
