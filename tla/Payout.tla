------------------------------- MODULE Payout -------------------------------
(***************************************************************************)
(* What the acquirer promises about each installment, whatever the number  *)
(* of services and databases behind it: it is opened once; its merchant    *)
(* gets money for it at most once, either the present value in advance or  *)
(* the net value when it is settled; and once it is settled or void,       *)
(* nothing more happens to it.                                             *)
(***************************************************************************)
EXTENDS Integers

CONSTANTS Rcv, NetValue, PV

VARIABLES state, cash

State == {"none", "open", "advanced", "settled", "void"}

Init ==
  /\ state = [r \in Rcv |-> "none"]
  /\ cash = [r \in Rcv |-> 0]

Becomes(r, from, to, amount) ==
  /\ state[r] = from
  /\ state'[r] = to
  /\ cash'[r] = cash[r] + amount

Open(r)    == Becomes(r, "none", "open", 0)
Advance(r) == Becomes(r, "open", "advanced", PV[r])
Pay(r)     == Becomes(r, "open", "settled", NetValue[r])
Retain(r)  == Becomes(r, "advanced", "settled", 0)
Void(r)    == Becomes(r, "open", "void", 0) \/ Becomes(r, "advanced", "void", 0)
Keep(r)    == state'[r] = state[r] /\ cash'[r] = cash[r]

\* Several installments may move in one step (a batch), each in its own way.
Next ==
  /\ state' \in [Rcv -> State]
  /\ cash' \in [Rcv -> Int]
  /\ \A r \in Rcv :
       Open(r) \/ Advance(r) \/ Pay(r) \/ Retain(r) \/ Void(r) \/ Keep(r)

Spec == Init /\ [][Next]_<<state, cash>>
=============================================================================
