---------------------------- MODULE AgendaProofs ----------------------------
(***************************************************************************)
(* Theorems about Agenda, for any number of sales, installments, merchants *)
(* and scheduler replicas, any amounts and any calendar.                   *)
(***************************************************************************)
EXTENDS Agenda, Sums

-----------------------------------------------------------------------------
(* Lemmas about events and ledger entries *)

\* Every kind of event about a sale is an event of the outbox.
LEMMA TxEventsTyped ==
  ASSUME NEW t \in Tx, NEW type \in TxEventType
  PROVE  Ev(type, t) \in TxEvent
BY DEF Ev, TxEvent

\* The events about sales that the actions write have a known type.
LEMMA TxEventTypes ==
  /\ "transaction.authorized" \in TxEventType
  /\ "transaction.denied" \in TxEventType
  /\ "transaction.captured" \in TxEventType
  /\ "transaction.canceled" \in TxEventType
  /\ "transaction.chargebacked" \in TxEventType
  /\ "chargeback.opened" \in TxEventType
  /\ "receivable.scheduled" \in TxEventType
BY DEF TxEventType

\* The parts of an amount are whole cents.
LEMMA SplitTyped ==
  ASSUME NEW total \in Int, NEW n \in Nat \ {0}, NEW k \in 1..n
  PROVE  Split(total, n)[k] \in Int
<1>1. total \div n \in Int /\ total % n \in Int
  OBVIOUS
<1>2. QED
  BY <1>1 DEF Split

\* The amounts of an installment are numbers.
LEMMA AmountsTyped ==
  ASSUME NEW r \in Rcv
  PROVE  Gross[r] \in Int /\ Fee[r] \in Int /\ PV[r] \in Int
<1> DEFINE t == TxOf[r]
           n == InstallmentCount[t]
           k == InstallmentNo[r]
<1>1. t \in Tx /\ n \in Nat \ {0} /\ k \in 1..n /\ Amount[t] \in Int /\ PV[r] \in Int
  BY AgendaAssumption
<1>2. Mdr[t] \in Int
  <2>1. Mdr[t] \in Bps
    BY <1>1, AgendaAssumption
  <2>2. Bps \subseteq Int
    BY DEF Bps
  <2>3. QED
    BY <2>1, <2>2
<1>3. MdrFee(t) \in Int
  <2>1. Amount[t] * Mdr[t] \in Int
    BY <1>1, <1>2
  <2>2. (Amount[t] * Mdr[t]) \div 10000 \in Int
    BY <2>1
  <2>3. QED
    BY <2>2 DEF MdrFee, ApplyBps
<1>4. Gross[r] = Split(Amount[t], n)[k] /\ Fee[r] = Split(MdrFee(t), n)[k]
  BY DEF Gross, Fee
<1>5. QED
  <2> HIDE DEF t, n, k
  <2>1. QED
    BY <1>1, <1>3, <1>4, SplitTyped

\* The entries of an installment touch the six accounts with whole cents.
LEMMA EntriesTyped ==
  ASSUME NEW r \in Rcv
  PROVE  /\ Net(r) \in Int
         /\ ForScheduled(r) \in [Account -> Int]
         /\ ForAnticipation(r) \in [Account -> Int]
         /\ ForSettlement(r) \in [Account -> Int]
         /\ ForChargeback(r) \in [Account -> Int]
         /\ ForChargebackAnticipated(r) \in [Account -> Int]
<1>0. Gross[r] \in Int /\ Fee[r] \in Int /\ PV[r] \in Int
  BY AmountsTyped
<1>1. Net(r) \in Int
  BY <1>0 DEF Net
<1>2. Zero \in [Account -> Int]
  BY DEF Zero
<1>3. ForScheduled(r) \in [Account -> Int]
  BY <1>0, <1>1 DEF ForScheduled, Zero, Account
<1>4. ForAnticipation(r) \in [Account -> Int]
  BY <1>0, <1>1 DEF ForAnticipation, Zero, Account
<1>5. ForSettlement(r) \in [Account -> Int]
  BY <1>0, <1>1 DEF ForSettlement, Zero, Account
<1>6. ForChargeback(r) \in [Account -> Int]
  BY <1>0, <1>1 DEF ForChargeback, Zero, Account
<1>7. ForChargebackAnticipated(r) \in [Account -> Int]
  BY <1>0, <1>1 DEF ForChargebackAnticipated, Zero, Account
<1>8. QED
  BY <1>1, <1>3, <1>4, <1>5, <1>6, <1>7

-----------------------------------------------------------------------------
(* Type correctness *)

\* Each step preserves the types: one case per action.
LEMMA TypePreserved ==
  ASSUME TypeOK, [Next]_vars
  PROVE  TypeOK'
<1> USE AgendaAssumption
<1> USE DEF saleVars, bookVars, workerVars, consumerVars, registryVars
<1>1. ASSUME NEW t \in Tx, Authorize(t) PROVE TypeOK'
  <2>1. tx' \in [Tx -> TxStatus]
    BY <1>1 DEF TypeOK, Authorize, MoveTx, TxStatus
  <2>2. outbox' \subseteq TxEvent \cup BatchEvent
    BY <1>1, TxEventsTyped, TxEventTypes DEF TypeOK, Authorize
  <2>3. QED
    BY <1>1, <2>1, <2>2 DEF TypeOK, Authorize
<1>2. ASSUME NEW t \in Tx, Capture(t) PROVE TypeOK'
  <2>1. tx' \in [Tx -> TxStatus]
    BY <1>2 DEF TypeOK, Capture, MoveTx, TxStatus
  <2>2. outbox' \subseteq TxEvent \cup BatchEvent
    BY <1>2, TxEventsTyped, TxEventTypes DEF TypeOK, Capture, Captured
  <2>3. QED
    BY <1>2, <2>1, <2>2 DEF TypeOK, Capture
<1>3. ASSUME NEW t \in Tx, Cancel(t) PROVE TypeOK'
  <2>1. tx' \in [Tx -> TxStatus]
    BY <1>3 DEF TypeOK, Cancel, MoveTx, TxStatus
  <2>2. outbox' \subseteq TxEvent \cup BatchEvent
    BY <1>3, TxEventsTyped, TxEventTypes DEF TypeOK, Cancel, Canceled
  <2>3. QED
    BY <1>3, <2>1, <2>2 DEF TypeOK, Cancel
<1>4. ASSUME NEW t \in Tx, OpenChargeback(t) PROVE TypeOK'
  <2> DEFINE open == {r \in Installments(t) : rcv[r] \in {"SCHEDULED", "ANTICIPATED"}}
             E == [r \in open |-> IF rcv[r] = "SCHEDULED" THEN ForChargeback(r)
                                  ELSE ForChargebackAnticipated(r)]
  <2>1. tx' \in [Tx -> TxStatus]
    BY <1>4 DEF TypeOK, OpenChargeback, MoveTx, TxStatus
  <2>2. outbox' \subseteq TxEvent \cup BatchEvent
    BY <1>4, TxEventsTyped, TxEventTypes DEF TypeOK, OpenChargeback
  <2>3. \A r \in Rcv : r \in open => E[r] \in [Account -> Int]
    BY EntriesTyped
  <2>4. /\ rcv' = [r \in Rcv |-> IF r \in open THEN "CHARGEBACKED" ELSE rcv[r]]
        /\ ledger' = [r \in Rcv |-> [a \in Account |->
                        ledger[r][a] + (IF r \in open THEN E[r][a] ELSE 0)]]
    BY <1>4, Zenon DEF OpenChargeback, Move
  <2> HIDE DEF open, E
  <2>5. rcv' \in [Rcv -> RcvStatus] /\ ledger' \in [Rcv -> [Account -> Int]]
    BY <2>3, <2>4 DEF TypeOK, RcvStatus
  <2>6. QED
    BY <1>4, <2>1, <2>2, <2>5 DEF TypeOK, OpenChargeback
<1>5. ASSUME NEW w \in Worker, NEW t \in Tx, ReadCaptured(w, t) PROVE TypeOK'
  BY <1>5 DEF TypeOK, ReadCaptured
<1>6. ASSUME NEW w \in Worker, NEW t \in Tx, RejectCaptured(w, t) PROVE TypeOK'
  BY <1>6, TxEventsTyped, TxEventTypes DEF TypeOK, RejectCaptured, Bury, Loses, Captured
<1>7. ASSUME NEW w \in Worker, NEW t \in Tx, CommitSchedule(w, t) PROVE TypeOK'
  <2> DEFINE E == [r \in Rcv |-> ForScheduled(r)]
  <2>1. processed' \subseteq TxEvent
    BY <1>7, TxEventsTyped, TxEventTypes DEF TypeOK, CommitSchedule, Captured
  <2>2. outbox' \subseteq TxEvent \cup BatchEvent
    BY <1>7, TxEventsTyped, TxEventTypes DEF TypeOK, CommitSchedule
  <2>3. E \in [Rcv -> [Account -> Int]]
    BY EntriesTyped
  <2>4. /\ rcv' = [r \in Rcv |-> IF r \in Installments(t) THEN "SCHEDULED" ELSE rcv[r]]
        /\ ledger' = [r \in Rcv |-> [a \in Account |->
                        ledger[r][a] + (IF r \in Installments(t) THEN E[r][a] ELSE 0)]]
    BY <1>7 DEF CommitSchedule, Installments
  <2> HIDE DEF E
  <2>5. rcv' \in [Rcv -> RcvStatus] /\ ledger' \in [Rcv -> [Account -> Int]]
    BY <2>3, <2>4 DEF TypeOK, RcvStatus
  <2>6. QED
    BY <1>7, <2>1, <2>2, <2>5 DEF TypeOK, CommitSchedule
<1>8. ASSUME NEW w \in Worker, NEW t \in Tx, HandleCanceled(w, t) PROVE TypeOK'
  <2> DEFINE scheduled == {r \in Installments(t) : rcv[r] = "SCHEDULED"}
             E == [r \in Rcv |-> ForChargeback(r)]
  <2>1. processed' \subseteq TxEvent
    BY <1>8, TxEventsTyped, TxEventTypes DEF TypeOK, HandleCanceled, Canceled
  <2>2. E \in [Rcv -> [Account -> Int]]
    BY EntriesTyped
  <2>3. /\ rcv' = [r \in Rcv |-> IF r \in scheduled THEN "CANCELED" ELSE rcv[r]]
        /\ ledger' = [r \in Rcv |-> [a \in Account |->
                        ledger[r][a] + (IF r \in scheduled THEN E[r][a] ELSE 0)]]
    BY <1>8, Zenon DEF HandleCanceled, Move
  <2> HIDE DEF scheduled, E
  <2>4. rcv' \in [Rcv -> RcvStatus] /\ ledger' \in [Rcv -> [Account -> Int]]
    BY <2>2, <2>3 DEF TypeOK, RcvStatus
  <2>5. QED
    BY <1>8, <2>1, <2>4 DEF TypeOK, HandleCanceled
<1>9. ASSUME NEW w \in Worker, NEW t \in Tx, Rollback(w, t) PROVE TypeOK'
  BY <1>9 DEF TypeOK, Rollback, Loses
<1>10. ASSUME NEW w \in Worker, NEW t \in Tx,
              GiveUp(w, Captured(t)) \/ GiveUp(w, Canceled(t))
       PROVE TypeOK'
  BY <1>10, TxEventsTyped, TxEventTypes DEF TypeOK, GiveUp, Bury, Loses, Captured, Canceled
<1>11. ASSUME NEW m \in Merchant, NEW S \in SUBSET Rcv, Anticipate(m, S) PROVE TypeOK'
  <2> DEFINE E == [r \in Rcv |-> ForAnticipation(r)]
  <2>1. outbox' \subseteq TxEvent \cup BatchEvent
    BY <1>11 DEF TypeOK, Anticipate, BatchEvent, BatchEv
  <2>2. E \in [Rcv -> [Account -> Int]]
    BY EntriesTyped
  <2>3. /\ rcv' = [r \in Rcv |-> IF r \in S THEN "ANTICIPATED" ELSE rcv[r]]
        /\ ledger' = [r \in Rcv |-> [a \in Account |->
                        ledger[r][a] + (IF r \in S THEN E[r][a] ELSE 0)]]
    BY <1>11 DEF Anticipate, Move
  <2> HIDE DEF E
  <2>4. rcv' \in [Rcv -> RcvStatus] /\ ledger' \in [Rcv -> [Account -> Int]]
    BY <2>2, <2>3 DEF TypeOK, RcvStatus
  <2>5. QED
    BY <1>11, <2>1, <2>4 DEF TypeOK, Anticipate
<1>12. ASSUME NEW m \in Merchant, NEW S \in SUBSET Rcv, Settle(m, S) PROVE TypeOK'
  <2> DEFINE E == [r \in Rcv |-> ForSettlement(r)]
  <2>1. outbox' \subseteq TxEvent \cup BatchEvent
    BY <1>12 DEF TypeOK, Settle, BatchEvent, BatchEv
  <2>2. E \in [Rcv -> [Account -> Int]]
    BY EntriesTyped
  <2>3. /\ rcv' = [r \in Rcv |-> IF r \in S THEN "SETTLED" ELSE rcv[r]]
        /\ ledger' = [r \in Rcv |-> [a \in Account |->
                        ledger[r][a] + (IF r \in S THEN E[r][a] ELSE 0)]]
    BY <1>12 DEF Settle, Move
  <2> HIDE DEF E
  <2>4. rcv' \in [Rcv -> RcvStatus] /\ ledger' \in [Rcv -> [Account -> Int]]
    BY <2>2, <2>3 DEF TypeOK, RcvStatus
  <2>5. QED
    BY <1>12, <2>1, <2>4 DEF TypeOK, Settle
<1>13. CASE NextDay
  BY <1>13 DEF TypeOK, NextDay
<1>14. CASE UNCHANGED vars
  BY <1>14 DEF TypeOK, vars
<1>15. ASSUME NEW w \in Worker, NEW t \in Tx, RefuseSchedule(w, t)
       PROVE  TypeOK'
  BY <1>15, TxEventsTyped, TxEventTypes DEF TypeOK, RefuseSchedule, Bury, Loses, Captured
<1>16. QED
  BY <1>1, <1>2, <1>3, <1>4, <1>5, <1>6, <1>7, <1>8, <1>9, <1>10, <1>11, <1>12, <1>13, <1>14, <1>15
     DEF Next, Sale, Schedule

\* Every state the system reaches is well typed: statuses of the two tables, days
\* within the calendar, events and marks of known sales.
THEOREM TypeCorrect == Spec => []TypeOK
<1>1. Init => TypeOK
  BY AgendaAssumption DEF Init, TypeOK, TxStatus, RcvStatus, Zero
<1>2. TypeOK /\ [Next]_vars => TypeOK'
  BY TypePreserved
<1>3. QED
  BY <1>1, <1>2, PTL DEF Spec

-----------------------------------------------------------------------------
(* One scheduler per sale *)

\* Two events of sales are the same only if they are of the same kind and sale, and
\* none of them is the event of a batch.
LEMMA EventsDistinct ==
  ASSUME NEW t, NEW u, NEW a, NEW b, NEW S
  PROVE  /\ Ev(a, t) = Ev(b, u) => a = b /\ t = u
         /\ a # b => Ev(a, t) # BatchEv(b, S)
<1>1. Ev(a, t).type = a /\ Ev(a, t).tx = t /\ Ev(b, u).type = b /\ Ev(b, u).tx = u
  BY DEF Ev
<1>2. BatchEv(b, S).type = b
  BY DEF BatchEv
<1>3. QED
  BY <1>1, <1>2, Zenon

\* Every state satisfies: a database transaction of onCaptured works alone, for an
\* event that is not marked, of a sale that was captured. It is inductive.
THEOREM SchedulerAlone == Spec => []OneSchedulerPerSale
<1> USE DEF saleVars, bookVars, workerVars, consumerVars, registryVars
<1>1. Init => OneSchedulerPerSale
  BY DEF Init, OneSchedulerPerSale, Marking, Deliverable
<1>2. TypeOK /\ OneSchedulerPerSale /\ [Next]_vars => OneSchedulerPerSale'
  <2> SUFFICES ASSUME TypeOK, OneSchedulerPerSale, [Next]_vars
               PROVE  OneSchedulerPerSale'
    OBVIOUS
  <2> USE DEF OneSchedulerPerSale, Marking, Deliverable
  <2>1. ASSUME NEW t \in Tx, Authorize(t) PROVE OneSchedulerPerSale'
    <3>1. \A u \in Tx : Captured(u) \in outbox' <=> Captured(u) \in outbox
      BY <2>1, EventsDistinct DEF Authorize, Captured
    <3>2. \A u \in Tx : u # t => tx'[u] = tx[u]
      BY <2>1 DEF TypeOK, Authorize, MoveTx
    <3>3. tx[t] = "PENDING"
      BY <2>1 DEF Authorize, MoveTx, TxMoves
    <3>4. QED
      BY <2>1, <3>1, <3>2, <3>3 DEF Authorize
  <2>2. ASSUME NEW t \in Tx, Capture(t) PROVE OneSchedulerPerSale'
    <3>1. \A u \in Tx : u # t => (Captured(u) \in outbox' <=> Captured(u) \in outbox)
      BY <2>2, EventsDistinct DEF Capture, Captured
    <3>2. \A u \in Tx : u # t => tx'[u] = tx[u]
      BY <2>2 DEF TypeOK, Capture, MoveTx
    <3>3. tx'[t] = "CAPTURED"
      BY <2>2 DEF TypeOK, Capture, MoveTx
    <3>4. outbox \subseteq outbox'
      BY <2>2 DEF Capture
    <3>5. QED
      BY <2>2, <3>1, <3>2, <3>3, <3>4 DEF Capture
  <2>3. ASSUME NEW t \in Tx, Cancel(t) PROVE OneSchedulerPerSale'
    <3>1. \A u \in Tx : Captured(u) \in outbox' <=> Captured(u) \in outbox
      BY <2>3, EventsDistinct DEF Cancel, Captured, Canceled
    <3>2. \A u \in Tx : u # t => tx'[u] = tx[u]
      BY <2>3 DEF TypeOK, Cancel, MoveTx
    <3>3. tx'[t] = "CANCELED"
      BY <2>3 DEF TypeOK, Cancel, MoveTx
    <3>4. QED
      BY <2>3, <3>1, <3>2, <3>3 DEF Cancel
  <2>4. ASSUME NEW t \in Tx, OpenChargeback(t) PROVE OneSchedulerPerSale'
    <3>1. \A u \in Tx : Captured(u) \in outbox' <=> Captured(u) \in outbox
      BY <2>4, EventsDistinct DEF OpenChargeback, Captured
    <3>2. \A u \in Tx : u # t => tx'[u] = tx[u]
      BY <2>4 DEF TypeOK, OpenChargeback, MoveTx
    <3>3. tx'[t] = "CHARGEBACKED"
      BY <2>4 DEF TypeOK, OpenChargeback, MoveTx
    <3>4. QED
      BY <2>4, <3>1, <3>2, <3>3 DEF OpenChargeback
  <2>5. ASSUME NEW w \in Worker, NEW t \in Tx, ReadCaptured(w, t) PROVE OneSchedulerPerSale'
    BY <2>5 DEF ReadCaptured
  <2>6. ASSUME NEW w \in Worker, NEW t \in Tx, RejectCaptured(w, t) PROVE OneSchedulerPerSale'
    BY <2>6 DEF RejectCaptured
  <2>7. ASSUME NEW w \in Worker, NEW t \in Tx, CommitSchedule(w, t) PROVE OneSchedulerPerSale'
    <3>1. \A u \in Tx : Captured(u) \in outbox' <=> Captured(u) \in outbox
      BY <2>7, EventsDistinct DEF CommitSchedule, Captured
    <3>2. \A u \in Tx : u # t => (Captured(u) \in processed' <=> Captured(u) \in processed)
      BY <2>7, EventsDistinct DEF CommitSchedule, Captured
    <3>3. \A v \in Worker : <<v, t>> \notin inflight'
      BY <2>7 DEF CommitSchedule
    <3>4. inflight' \subseteq inflight
      BY <2>7 DEF CommitSchedule
    <3>5. QED
      BY <2>7, <3>1, <3>2, <3>3, <3>4 DEF CommitSchedule
  <2>8. ASSUME NEW w \in Worker, NEW t \in Tx, HandleCanceled(w, t) PROVE OneSchedulerPerSale'
    <3>1. \A u \in Tx : Captured(u) \in processed' <=> Captured(u) \in processed
      BY <2>8, EventsDistinct DEF HandleCanceled, Captured, Canceled
    <3>2. QED
      BY <2>8, <3>1 DEF HandleCanceled
  <2>9. ASSUME NEW w \in Worker, NEW t \in Tx, Rollback(w, t) PROVE OneSchedulerPerSale'
    BY <2>9 DEF Rollback
  <2>10. ASSUME NEW w \in Worker, NEW t \in Tx,
                GiveUp(w, Captured(t)) \/ GiveUp(w, Canceled(t))
         PROVE OneSchedulerPerSale'
    BY <2>10 DEF GiveUp
  <2>11. ASSUME NEW m \in Merchant, NEW S \in SUBSET Rcv, Anticipate(m, S)
         PROVE  OneSchedulerPerSale'
    <3>1. \A u \in Tx : Captured(u) \in outbox' <=> Captured(u) \in outbox
      BY <2>11, EventsDistinct DEF Anticipate, Captured
    <3>2. QED
      BY <2>11, <3>1 DEF Anticipate
  <2>12. ASSUME NEW m \in Merchant, NEW S \in SUBSET Rcv, Settle(m, S)
         PROVE  OneSchedulerPerSale'
    <3>1. \A u \in Tx : Captured(u) \in outbox' <=> Captured(u) \in outbox
      BY <2>12, EventsDistinct DEF Settle, Captured
    <3>2. QED
      BY <2>12, <3>1 DEF Settle
  <2>13. CASE NextDay
    BY <2>13 DEF NextDay
  <2>14. CASE UNCHANGED vars
    BY <2>14 DEF vars
  <2>15. ASSUME NEW w \in Worker, NEW t \in Tx, RefuseSchedule(w, t)
         PROVE  OneSchedulerPerSale'
    BY <2>15 DEF RefuseSchedule
  <2>16. QED
    BY <2>1, <2>2, <2>3, <2>4, <2>5, <2>6, <2>7, <2>8, <2>9, <2>10, <2>11, <2>12, <2>13, <2>14, <2>15
       DEF Next, Sale, Schedule
<1>3. QED
  BY <1>1, <1>2, TypeCorrect, PTL DEF Spec

-----------------------------------------------------------------------------
(* An agenda is all or nothing *)

\* Every state satisfies: the mark of a captured event, the announcement of the agenda
\* and all its installments exist together or not at all. It needs SchedulerAlone: a
\* commit must find the event unmarked.
THEOREM AgendaAtomic == Spec => []AgendaAllOrNothing
<1> USE DEF saleVars, bookVars, workerVars, consumerVars, registryVars
<1>1. Init => AgendaAllOrNothing
  BY DEF Init, AgendaAllOrNothing, Installments
<1>2. TypeOK /\ OneSchedulerPerSale /\ AgendaAllOrNothing /\ [Next]_vars => AgendaAllOrNothing'
  <2> SUFFICES ASSUME TypeOK, OneSchedulerPerSale, AgendaAllOrNothing, [Next]_vars
               PROVE  AgendaAllOrNothing'
    OBVIOUS
  <2> USE DEF AgendaAllOrNothing
  <2>0. ASSUME \A u \in Tx : /\ Captured(u) \in processed' <=> Captured(u) \in processed
                             /\ Ev("receivable.scheduled", u) \in outbox'
                                  <=> Ev("receivable.scheduled", u) \in outbox,
               \A r \in Rcv : rcv'[r] = "NONE" <=> rcv[r] = "NONE"
        PROVE  AgendaAllOrNothing'
    BY <2>0 DEF Installments
  <2>1. ASSUME NEW t \in Tx, Authorize(t) PROVE AgendaAllOrNothing'
    BY <2>1, <2>0, EventsDistinct DEF Authorize, Captured
  <2>2. ASSUME NEW t \in Tx, Capture(t) PROVE AgendaAllOrNothing'
    BY <2>2, <2>0, EventsDistinct DEF Capture, Captured
  <2>3. ASSUME NEW t \in Tx, Cancel(t) PROVE AgendaAllOrNothing'
    BY <2>3, <2>0, EventsDistinct DEF Cancel, Captured, Canceled
  <2>4. ASSUME NEW t \in Tx, OpenChargeback(t) PROVE AgendaAllOrNothing'
    <3>1. \A r \in Rcv : rcv'[r] = "NONE" <=> rcv[r] = "NONE"
      BY <2>4 DEF OpenChargeback, Move
    <3>2. processed' = processed
      BY <2>4 DEF OpenChargeback
    <3>3. \A u \in Tx : Ev("receivable.scheduled", u) \in outbox'
                         <=> Ev("receivable.scheduled", u) \in outbox
      BY <2>4, EventsDistinct DEF OpenChargeback
    <3>4. QED
      BY <2>0, <3>1, <3>2, <3>3
  <2>5. ASSUME NEW w \in Worker, NEW t \in Tx, ReadCaptured(w, t) PROVE AgendaAllOrNothing'
    BY <2>5, <2>0 DEF ReadCaptured
  <2>6. ASSUME NEW w \in Worker, NEW t \in Tx, RejectCaptured(w, t) PROVE AgendaAllOrNothing'
    BY <2>6, <2>0 DEF RejectCaptured
  <2>7. ASSUME NEW w \in Worker, NEW t \in Tx, CommitSchedule(w, t) PROVE AgendaAllOrNothing'
    <3>1. /\ Captured(t) \in processed'
          /\ Ev("receivable.scheduled", t) \in outbox'
          /\ \A r \in Installments(t) : rcv'[r] # "NONE"
      BY <2>7 DEF CommitSchedule, Installments
    <3>2. \A u \in Tx : u # t =>
             /\ Captured(u) \in processed' <=> Captured(u) \in processed
             /\ Ev("receivable.scheduled", u) \in outbox'
                  <=> Ev("receivable.scheduled", u) \in outbox
             /\ \A r \in Installments(u) : rcv'[r] = rcv[r]
      BY <2>7, EventsDistinct DEF CommitSchedule, Captured, Installments
    <3>3. QED
      BY <3>1, <3>2
  <2>8. ASSUME NEW w \in Worker, NEW t \in Tx, HandleCanceled(w, t) PROVE AgendaAllOrNothing'
    <3>1. \A r \in Rcv : rcv'[r] = "NONE" <=> rcv[r] = "NONE"
      BY <2>8 DEF HandleCanceled, Move
    <3>2. \A u \in Tx : Captured(u) \in processed' <=> Captured(u) \in processed
      BY <2>8, EventsDistinct DEF HandleCanceled, Captured, Canceled
    <3>3. outbox' = outbox
      BY <2>8 DEF HandleCanceled
    <3>4. QED
      BY <2>0, <3>1, <3>2, <3>3
  <2>9. ASSUME NEW w \in Worker, NEW t \in Tx, Rollback(w, t) PROVE AgendaAllOrNothing'
    BY <2>9, <2>0 DEF Rollback
  <2>10. ASSUME NEW w \in Worker, NEW t \in Tx,
                GiveUp(w, Captured(t)) \/ GiveUp(w, Canceled(t))
         PROVE AgendaAllOrNothing'
    BY <2>10, <2>0 DEF GiveUp
  <2>11. ASSUME NEW m \in Merchant, NEW S \in SUBSET Rcv, Anticipate(m, S)
         PROVE  AgendaAllOrNothing'
    <3>1. \A r \in Rcv : rcv'[r] = "NONE" <=> rcv[r] = "NONE"
      BY <2>11 DEF Anticipate, Move, RcvMoves
    <3>2. processed' = processed
      BY <2>11 DEF Anticipate
    <3>3. \A u \in Tx : Ev("receivable.scheduled", u) \in outbox'
                         <=> Ev("receivable.scheduled", u) \in outbox
      BY <2>11, EventsDistinct DEF Anticipate
    <3>4. QED
      BY <2>0, <3>1, <3>2, <3>3
  <2>12. ASSUME NEW m \in Merchant, NEW S \in SUBSET Rcv, Settle(m, S)
         PROVE  AgendaAllOrNothing'
    <3>1. \A r \in Rcv : rcv'[r] = "NONE" <=> rcv[r] = "NONE"
      BY <2>12 DEF Settle, Move, RcvMoves
    <3>2. processed' = processed
      BY <2>12 DEF Settle
    <3>3. \A u \in Tx : Ev("receivable.scheduled", u) \in outbox'
                         <=> Ev("receivable.scheduled", u) \in outbox
      BY <2>12, EventsDistinct DEF Settle
    <3>4. QED
      BY <2>0, <3>1, <3>2, <3>3
  <2>13. CASE NextDay
    BY <2>13, <2>0 DEF NextDay
  <2>14. CASE UNCHANGED vars
    BY <2>14, <2>0 DEF vars
  <2>15. ASSUME NEW w \in Worker, NEW t \in Tx, RefuseSchedule(w, t)
         PROVE  AgendaAllOrNothing'
    BY <2>15, <2>0 DEF RefuseSchedule
  <2>16. QED
    BY <2>1, <2>2, <2>3, <2>4, <2>5, <2>6, <2>7, <2>8, <2>9, <2>10, <2>11, <2>12, <2>13, <2>14, <2>15
       DEF Next, Sale, Schedule
<1>3. QED
  BY <1>1, <1>2, TypeCorrect, SchedulerAlone, PTL DEF Spec

-----------------------------------------------------------------------------
(* What a step can do to one installment *)

Posted(r, entries) == ledger'[r] = [a \in Account |-> ledger[r][a] + entries[a]]

Goes(r, from, to, entries) ==
  /\ rcv[r] = from
  /\ rcv'[r] = to
  /\ Posted(r, entries)

AnticipatedNow(r) == Goes(r, "SCHEDULED", "ANTICIPATED", ForAnticipation(r))

OtherMove(r) ==
  \/ Goes(r, "NONE", "SCHEDULED", ForScheduled(r))
  \/ Goes(r, "SCHEDULED", "SETTLED", ForSettlement(r))
  \/ Goes(r, "ANTICIPATED", "SETTLED", ForSettlement(r))
  \/ Goes(r, "SCHEDULED", "CANCELED", ForChargeback(r))
  \/ Goes(r, "SCHEDULED", "CHARGEBACKED", ForChargeback(r))
  \/ Goes(r, "ANTICIPATED", "CHARGEBACKED", ForChargebackAnticipated(r))
  \/ rcv'[r] = rcv[r] /\ ledger'[r] = ledger[r]

InstallmentStep(r) ==
  \/ AnticipatedNow(r) /\ WasAnticipated(r)'
  \/ OtherMove(r) /\ (WasAnticipated(r)' <=> WasAnticipated(r))

\* Posting zero entries changes nothing.
LEMMA PostNothing ==
  ASSUME TypeOK, NEW r \in Rcv, ledger'[r] = [a \in Account |-> ledger[r][a] + 0]
  PROVE  ledger'[r] = ledger[r]
<1>1. ledger[r] \in [Account -> Int]
  BY DEF TypeOK
<1>2. \A a \in Account : ledger[r][a] + 0 = ledger[r][a]
  BY <1>1
<1>3. QED
  BY <1>1, <1>2

\* Events that are not an anticipation leave what was anticipated as it was.
LEMMA SameAnticipations ==
  ASSUME NEW r \in Rcv, outbox \subseteq outbox',
         \A e \in outbox' \ outbox : e.type # "receivable.anticipated"
  PROVE  WasAnticipated(r)' <=> WasAnticipated(r)
BY DEF WasAnticipated

\* Every step does to every installment one of the moves above, with its entries: this
\* is where each action of Agenda is looked at once for all the theorems on money.
LEMMA EveryStepMovesInstallments ==
  ASSUME TypeOK, OneSchedulerPerSale, AgendaAllOrNothing, [Next]_vars, NEW r \in Rcv
  PROVE  InstallmentStep(r)
<1> USE DEF saleVars, bookVars, workerVars, consumerVars, registryVars
<1>0. ASSUME rcv' = rcv, ledger' = ledger, WasAnticipated(r)' <=> WasAnticipated(r)
      PROVE  InstallmentStep(r)
  BY <1>0 DEF InstallmentStep, OtherMove
<1>1. ASSUME NEW t \in Tx, Authorize(t) PROVE InstallmentStep(r)
  BY <1>1, <1>0, SameAnticipations DEF Authorize, Ev
<1>2. ASSUME NEW t \in Tx, Capture(t) PROVE InstallmentStep(r)
  BY <1>2, <1>0, SameAnticipations DEF Capture, Captured, Ev
<1>3. ASSUME NEW t \in Tx, Cancel(t) PROVE InstallmentStep(r)
  BY <1>3, <1>0, SameAnticipations DEF Cancel, Canceled, Ev
<1>4. ASSUME NEW t \in Tx, OpenChargeback(t) PROVE InstallmentStep(r)
  <2> DEFINE open == {q \in Installments(t) : rcv[q] \in {"SCHEDULED", "ANTICIPATED"}}
             E == IF rcv[r] = "SCHEDULED" THEN ForChargeback(r)
                                          ELSE ForChargebackAnticipated(r)
  <2>1. WasAnticipated(r)' <=> WasAnticipated(r)
    BY <1>4, SameAnticipations DEF OpenChargeback, Ev
  <2>2. /\ rcv'[r] = IF r \in open THEN "CHARGEBACKED" ELSE rcv[r]
        /\ ledger'[r] = [a \in Account |-> ledger[r][a] + (IF r \in open THEN E[a] ELSE 0)]
    BY <1>4 DEF OpenChargeback, Move
  <2>3. CASE r \in open
    <3>1. Goes(r, rcv[r], "CHARGEBACKED", E)
      BY <2>2, <2>3 DEF Goes, Posted
    <3>2. QED
      BY <2>1, <2>3, <3>1 DEF InstallmentStep, OtherMove
  <2>4. CASE r \notin open
    BY <2>1, <2>2, <2>4, PostNothing DEF InstallmentStep, OtherMove
  <2>5. QED
    BY <2>3, <2>4
<1>5. ASSUME NEW w \in Worker, NEW t \in Tx, ReadCaptured(w, t) PROVE InstallmentStep(r)
  BY <1>5, <1>0, SameAnticipations DEF ReadCaptured
<1>6. ASSUME NEW w \in Worker, NEW t \in Tx, RejectCaptured(w, t) PROVE InstallmentStep(r)
  BY <1>6, <1>0, SameAnticipations DEF RejectCaptured
<1>7. ASSUME NEW w \in Worker, NEW t \in Tx, CommitSchedule(w, t) PROVE InstallmentStep(r)
  <2>1. WasAnticipated(r)' <=> WasAnticipated(r)
    BY <1>7, SameAnticipations DEF CommitSchedule, Ev
  <2>2. /\ rcv'[r] = IF TxOf[r] = t THEN "SCHEDULED" ELSE rcv[r]
        /\ ledger'[r] = [a \in Account |->
                           ledger[r][a] + (IF TxOf[r] = t THEN ForScheduled(r)[a] ELSE 0)]
    BY <1>7 DEF CommitSchedule
  <2>3. CASE TxOf[r] = t
    <3>1. rcv[r] = "NONE"
      BY <1>7, <2>3 DEF CommitSchedule, OneSchedulerPerSale, Marking, Deliverable,
         AgendaAllOrNothing, Installments
    <3>2. Goes(r, "NONE", "SCHEDULED", ForScheduled(r))
      BY <2>2, <2>3, <3>1 DEF Goes, Posted
    <3>3. QED
      BY <2>1, <3>2 DEF InstallmentStep, OtherMove
  <2>4. CASE TxOf[r] # t
    BY <2>1, <2>2, <2>4, PostNothing DEF InstallmentStep, OtherMove
  <2>5. QED
    BY <2>3, <2>4
<1>8. ASSUME NEW w \in Worker, NEW t \in Tx, HandleCanceled(w, t) PROVE InstallmentStep(r)
  <2> DEFINE scheduled == {q \in Installments(t) : rcv[q] = "SCHEDULED"}
  <2>1. WasAnticipated(r)' <=> WasAnticipated(r)
    BY <1>8, SameAnticipations DEF HandleCanceled
  <2>2. /\ rcv'[r] = IF r \in scheduled THEN "CANCELED" ELSE rcv[r]
        /\ ledger'[r] = [a \in Account |->
                           ledger[r][a] + (IF r \in scheduled THEN ForChargeback(r)[a] ELSE 0)]
    BY <1>8 DEF HandleCanceled, Move
  <2>3. CASE r \in scheduled
    <3>1. Goes(r, "SCHEDULED", "CANCELED", ForChargeback(r))
      BY <2>2, <2>3 DEF Goes, Posted
    <3>2. QED
      BY <2>1, <3>1 DEF InstallmentStep, OtherMove
  <2>4. CASE r \notin scheduled
    BY <2>1, <2>2, <2>4, PostNothing DEF InstallmentStep, OtherMove
  <2>5. QED
    BY <2>3, <2>4
<1>9. ASSUME NEW w \in Worker, NEW t \in Tx, Rollback(w, t) PROVE InstallmentStep(r)
  BY <1>9, <1>0, SameAnticipations DEF Rollback
<1>10. ASSUME NEW w \in Worker, NEW t \in Tx,
              GiveUp(w, Captured(t)) \/ GiveUp(w, Canceled(t))
       PROVE  InstallmentStep(r)
  BY <1>10, <1>0, SameAnticipations DEF GiveUp
<1>11. ASSUME NEW m \in Merchant, NEW S \in SUBSET Rcv, Anticipate(m, S)
       PROVE  InstallmentStep(r)
  <2>1. /\ rcv'[r] = IF r \in S THEN "ANTICIPATED" ELSE rcv[r]
        /\ ledger'[r] = [a \in Account |->
                           ledger[r][a] + (IF r \in S THEN ForAnticipation(r)[a] ELSE 0)]
    BY <1>11 DEF Anticipate, Move
  <2>2. outbox' = outbox \cup {BatchEv("receivable.anticipated", S)}
    BY <1>11 DEF Anticipate
  <2>3. CASE r \in S
    <3>1. AnticipatedNow(r)
      BY <1>11, <2>1, <2>3 DEF AnticipatedNow, Goes, Posted, Anticipate, Anticipable
    <3>2. WasAnticipated(r)'
      <4> DEFINE e == BatchEv("receivable.anticipated", S)
      <4>1. e \in outbox' /\ e.type = "receivable.anticipated" /\ r \in e.receivables
        BY <2>2, <2>3 DEF BatchEv
      <4>2. QED
        BY <4>1 DEF WasAnticipated
    <3>3. QED
      BY <3>1, <3>2 DEF InstallmentStep
  <2>4. CASE r \notin S
    <3>1. WasAnticipated(r)' <=> WasAnticipated(r)
      BY <2>2, <2>4 DEF WasAnticipated, BatchEv
    <3>2. QED
      BY <2>1, <2>4, <3>1, PostNothing DEF InstallmentStep, OtherMove
  <2>5. QED
    BY <2>3, <2>4
<1>12. ASSUME NEW m \in Merchant, NEW S \in SUBSET Rcv, Settle(m, S)
       PROVE  InstallmentStep(r)
  <2>1. WasAnticipated(r)' <=> WasAnticipated(r)
    BY <1>12, SameAnticipations DEF Settle, BatchEv
  <2>2. /\ rcv'[r] = IF r \in S THEN "SETTLED" ELSE rcv[r]
        /\ ledger'[r] = [a \in Account |->
                           ledger[r][a] + (IF r \in S THEN ForSettlement(r)[a] ELSE 0)]
    BY <1>12 DEF Settle, Move
  <2>3. CASE r \in S
    <3>1. rcv[r] \in {"SCHEDULED", "ANTICIPATED"}
      BY <1>12, <2>3 DEF Settle, Due
    <3>2. Goes(r, rcv[r], "SETTLED", ForSettlement(r))
      BY <2>2, <2>3 DEF Goes, Posted
    <3>3. QED
      BY <2>1, <3>1, <3>2 DEF InstallmentStep, OtherMove
  <2>4. CASE r \notin S
    BY <2>1, <2>2, <2>4, PostNothing DEF InstallmentStep, OtherMove
  <2>5. QED
    BY <2>3, <2>4
<1>13. CASE NextDay
  BY <1>13, <1>0, SameAnticipations DEF NextDay
<1>14. CASE UNCHANGED vars
  BY <1>14, <1>0, SameAnticipations DEF vars
<1>15. ASSUME NEW w \in Worker, NEW t \in Tx, RefuseSchedule(w, t)
       PROVE  InstallmentStep(r)
  BY <1>15, <1>0, SameAnticipations DEF RefuseSchedule
<1>16. QED
  BY <1>1, <1>2, <1>3, <1>4, <1>5, <1>6, <1>7, <1>8, <1>9, <1>10, <1>11, <1>12, <1>13, <1>14, <1>15
     DEF Next, Sale, Schedule

-----------------------------------------------------------------------------
(* Money *)

\* What the entries of an installment do to each account.
LEMMA EntryValues ==
  ASSUME NEW r \in Rcv
  PROVE  /\ ForScheduled(r)["receivable_from_issuer"] = -Gross[r]
         /\ ForScheduled(r)["payable_to_merchant"] = Net(r)
         /\ ForScheduled(r)["revenue_fees"] = Fee[r]
         /\ ForScheduled(r)["revenue_anticipation"] = 0
         /\ ForScheduled(r)["bank_outgoing"] = 0
         /\ ForScheduled(r)["chargeback_loss"] = 0
         /\ ForAnticipation(r)["receivable_from_issuer"] = 0
         /\ ForAnticipation(r)["payable_to_merchant"] = -Net(r)
         /\ ForAnticipation(r)["revenue_fees"] = 0
         /\ ForAnticipation(r)["revenue_anticipation"] = Net(r) - PV[r]
         /\ ForAnticipation(r)["bank_outgoing"] = PV[r]
         /\ ForAnticipation(r)["chargeback_loss"] = 0
         /\ ForChargeback(r)["receivable_from_issuer"] = Gross[r]
         /\ ForChargeback(r)["payable_to_merchant"] = -Net(r)
         /\ ForChargeback(r)["revenue_fees"] = -Fee[r]
         /\ ForChargeback(r)["revenue_anticipation"] = 0
         /\ ForChargeback(r)["bank_outgoing"] = 0
         /\ ForChargeback(r)["chargeback_loss"] = 0
         /\ ForChargebackAnticipated(r)["receivable_from_issuer"] = Gross[r]
         /\ ForChargebackAnticipated(r)["payable_to_merchant"] = 0
         /\ ForChargebackAnticipated(r)["revenue_fees"] = -Fee[r]
         /\ ForChargebackAnticipated(r)["revenue_anticipation"] = 0
         /\ ForChargebackAnticipated(r)["bank_outgoing"] = 0
         /\ ForChargebackAnticipated(r)["chargeback_loss"] = -Net(r)
<1>1. \A a \in Account : Zero[a] = 0
  BY DEF Zero
<1>2. DOMAIN Zero = Account
  BY DEF Zero
<1>3. QED
  BY <1>1, <1>2, SMTT(30)
     DEF ForScheduled, ForAnticipation, ForChargeback, ForChargebackAnticipated, Account

\* A settlement pays the net value of a SCHEDULED installment, and books nothing for an
\* anticipated one.
LEMMA SettlementValues ==
  ASSUME NEW r \in Rcv
  PROVE  /\ rcv[r] = "SCHEDULED" =>
              /\ ForSettlement(r)["payable_to_merchant"] = -Net(r)
              /\ ForSettlement(r)["bank_outgoing"] = Net(r)
              /\ \A a \in Account \ {"payable_to_merchant", "bank_outgoing"} :
                   ForSettlement(r)[a] = 0
         /\ rcv[r] # "SCHEDULED" => \A a \in Account : ForSettlement(r)[a] = 0
BY DEF ForSettlement, Zero, Account

\* A move adds its entries to the balances, which are whole numbers.
LEMMA Balances ==
  ASSUME TypeOK, NEW r \in Rcv, NEW a \in Account, NEW from, NEW to, NEW E,
         Goes(r, from, to, E)
  PROVE  ledger'[r][a] = ledger[r][a] + E[a] /\ ledger[r][a] \in Int
BY DEF Goes, Posted, TypeOK

\* The moves other than an anticipation, by what they do to the four accounts the
\* theorems speak of.
LEMMA MoveBalances ==
  ASSUME TypeOK, NEW r \in Rcv, InstallmentStep(r)
  PROVE  LET issuer  == "receivable_from_issuer"
             payable == "payable_to_merchant"
             bank    == "bank_outgoing"
             Adds(i, p, b) == /\ ledger'[r][issuer]  = ledger[r][issuer] + i
                              /\ ledger'[r][payable] = ledger[r][payable] + p
                              /\ ledger'[r][bank]    = ledger[r][bank] + b
         IN
         \/ /\ rcv[r] = "SCHEDULED" /\ rcv'[r] = "ANTICIPATED"
            /\ WasAnticipated(r)' /\ Adds(0, -Net(r), PV[r])
         \/ /\ WasAnticipated(r)' <=> WasAnticipated(r)
            /\ \/ rcv[r] = "NONE" /\ rcv'[r] = "SCHEDULED" /\ Adds(-Gross[r], Net(r), 0)
               \/ rcv[r] = "SCHEDULED" /\ rcv'[r] = "SETTLED" /\ Adds(0, -Net(r), Net(r))
               \/ rcv[r] = "ANTICIPATED" /\ rcv'[r] = "SETTLED" /\ Adds(0, 0, 0)
               \/ /\ rcv[r] = "SCHEDULED" /\ rcv'[r] \in {"CANCELED", "CHARGEBACKED"}
                  /\ Adds(Gross[r], -Net(r), 0)
               \/ /\ rcv[r] = "ANTICIPATED" /\ rcv'[r] = "CHARGEBACKED"
                  /\ Adds(Gross[r], 0, 0)
               \/ rcv'[r] = rcv[r] /\ Adds(0, 0, 0)
<1> DEFINE Adds(i, p, b) ==
      /\ ledger'[r]["receivable_from_issuer"] = ledger[r]["receivable_from_issuer"] + i
      /\ ledger'[r]["payable_to_merchant"] = ledger[r]["payable_to_merchant"] + p
      /\ ledger'[r]["bank_outgoing"] = ledger[r]["bank_outgoing"] + b
<1>1. /\ "receivable_from_issuer" \in Account
      /\ "payable_to_merchant" \in Account
      /\ "bank_outgoing" \in Account
  BY DEF Account
<1>2. ASSUME NEW from, NEW to, NEW E, Goes(r, from, to, E)
      PROVE  Adds(E["receivable_from_issuer"], E["payable_to_merchant"], E["bank_outgoing"])
  BY <1>1, <1>2, Balances
<1>3. ASSUME AnticipatedNow(r), WasAnticipated(r)'
      PROVE  rcv[r] = "SCHEDULED" /\ rcv'[r] = "ANTICIPATED" /\ Adds(0, -Net(r), PV[r])
  BY <1>2, <1>3, EntryValues DEF AnticipatedNow, Goes
<1>4. ASSUME OtherMove(r)
      PROVE  \/ rcv[r] = "NONE" /\ rcv'[r] = "SCHEDULED" /\ Adds(-Gross[r], Net(r), 0)
             \/ rcv[r] = "SCHEDULED" /\ rcv'[r] = "SETTLED" /\ Adds(0, -Net(r), Net(r))
             \/ rcv[r] = "ANTICIPATED" /\ rcv'[r] = "SETTLED" /\ Adds(0, 0, 0)
             \/ /\ rcv[r] = "SCHEDULED" /\ rcv'[r] \in {"CANCELED", "CHARGEBACKED"}
                /\ Adds(Gross[r], -Net(r), 0)
             \/ /\ rcv[r] = "ANTICIPATED" /\ rcv'[r] = "CHARGEBACKED"
                /\ Adds(Gross[r], 0, 0)
             \/ rcv'[r] = rcv[r] /\ Adds(0, 0, 0)
  <2>1. CASE Goes(r, "NONE", "SCHEDULED", ForScheduled(r))
    BY <1>2, <2>1, EntryValues DEF Goes
  <2>2. CASE Goes(r, "SCHEDULED", "SETTLED", ForSettlement(r))
    BY <1>2, <2>2, SettlementValues, <1>1 DEF Goes
  <2>3. CASE Goes(r, "ANTICIPATED", "SETTLED", ForSettlement(r))
    BY <1>2, <2>3, SettlementValues, <1>1 DEF Goes
  <2>4. CASE Goes(r, "SCHEDULED", "CANCELED", ForChargeback(r))
    BY <1>2, <2>4, EntryValues DEF Goes
  <2>5. CASE Goes(r, "SCHEDULED", "CHARGEBACKED", ForChargeback(r))
    BY <1>2, <2>5, EntryValues DEF Goes
  <2>6. CASE Goes(r, "ANTICIPATED", "CHARGEBACKED", ForChargebackAnticipated(r))
    BY <1>2, <2>6, EntryValues DEF Goes
  <2>7. CASE rcv'[r] = rcv[r] /\ ledger'[r] = ledger[r]
    BY <2>7, <1>1 DEF TypeOK
  <2>8. QED
    BY <1>4, <2>1, <2>2, <2>3, <2>4, <2>5, <2>6, <2>7 DEF OtherMove
<1>5. QED
  BY <1>3, <1>4 DEF InstallmentStep

\* Every state satisfies: the payable account is the open agenda. An installment that
\* leaves SCHEDULED, by any of the five operations that can take it, is debited once.
THEOREM PayableCorrect == Spec => []PayableIsOpenAgenda
<1>1. Init => PayableIsOpenAgenda
  BY DEF Init, PayableIsOpenAgenda, Zero, Account
<1>2. TypeOK /\ OneSchedulerPerSale /\ AgendaAllOrNothing /\ PayableIsOpenAgenda /\ [Next]_vars
        => PayableIsOpenAgenda'
  <2> SUFFICES ASSUME TypeOK, OneSchedulerPerSale, AgendaAllOrNothing, PayableIsOpenAgenda,
                      [Next]_vars, NEW r \in Rcv
               PROVE  ledger'[r]["payable_to_merchant"]
                        = IF rcv'[r] = "SCHEDULED" THEN Net(r) ELSE 0
    BY DEF PayableIsOpenAgenda, Net
  <2>1. InstallmentStep(r)
    BY EveryStepMovesInstallments
  <2>2. Net(r) \in Int
    BY EntriesTyped
  <2>3. QED
    BY <2>1, <2>2, MoveBalances DEF PayableIsOpenAgenda
<1>3. QED
  BY <1>1, <1>2, TypeCorrect, SchedulerAlone, AgendaAtomic, PTL DEF Spec

\* Every state satisfies: the claim on the issuer is the gross value of the live
\* installments. No redelivery, crash or race of two schedulers books it twice.
THEOREM IssuerClaimCorrect == Spec => []IssuerClaimIsLive
<1>1. Init => IssuerClaimIsLive
  BY DEF Init, IssuerClaimIsLive, Zero, Account
<1>2. TypeOK /\ OneSchedulerPerSale /\ AgendaAllOrNothing /\ IssuerClaimIsLive /\ [Next]_vars
        => IssuerClaimIsLive'
  <2> SUFFICES ASSUME TypeOK, OneSchedulerPerSale, AgendaAllOrNothing, IssuerClaimIsLive,
                      [Next]_vars, NEW r \in Rcv
               PROVE  ledger'[r]["receivable_from_issuer"] =
                        IF rcv'[r] \in {"SCHEDULED", "ANTICIPATED", "SETTLED"}
                        THEN -Gross[r] ELSE 0
    BY DEF IssuerClaimIsLive
  <2>1. InstallmentStep(r)
    BY EveryStepMovesInstallments
  <2>2. Gross[r] \in Int /\ ledger[r]["receivable_from_issuer"] \in Int
    BY AmountsTyped DEF TypeOK, Account
  <2>3. QED
    BY <2>1, <2>2, MoveBalances DEF IssuerClaimIsLive
<1>3. QED
  BY <1>1, <1>2, TypeCorrect, SchedulerAlone, AgendaAtomic, PTL DEF Spec

\* An installment waiting to be paid, never inserted or canceled was not anticipated; one
\* that is ANTICIPATED was. It is what makes PaidOnce inductive.
AnticipationsKnown ==
  \A r \in Rcv :
    /\ rcv[r] = "ANTICIPATED" => WasAnticipated(r)
    /\ rcv[r] \in {"NONE", "SCHEDULED", "CANCELED"} => ~WasAnticipated(r)

\* Every state satisfies: the bank paid an installment at most once, either its present
\* value when it was anticipated or its net value when it was settled.
THEOREM PaidOnceCorrect == Spec => []PaidOnce
<1> DEFINE IInv == AnticipationsKnown /\ PaidOnce
<1>1. Init => IInv
  BY DEF Init, PaidOnce, AnticipationsKnown, WasAnticipated, Zero, Account
<1>2. TypeOK /\ OneSchedulerPerSale /\ AgendaAllOrNothing /\ IInv /\ [Next]_vars => IInv'
  <2> SUFFICES ASSUME TypeOK, OneSchedulerPerSale, AgendaAllOrNothing, IInv,
                      [Next]_vars, NEW r \in Rcv
               PROVE  /\ rcv'[r] = "ANTICIPATED" => WasAnticipated(r)'
                      /\ rcv'[r] \in {"NONE", "SCHEDULED", "CANCELED"} => ~WasAnticipated(r)'
                      /\ ledger'[r]["bank_outgoing"] =
                           IF WasAnticipated(r)' THEN PV[r]
                           ELSE IF rcv'[r] = "SETTLED" THEN Net(r) ELSE 0
    BY DEF PaidOnce, AnticipationsKnown, WasAnticipated, Net
  <2>1. InstallmentStep(r)
    BY EveryStepMovesInstallments
  <2>2. Net(r) \in Int /\ PV[r] \in Int
    BY EntriesTyped, AgendaAssumption
  <2>3. QED
    BY <2>1, <2>2, MoveBalances DEF PaidOnce, AnticipationsKnown
<1>3. IInv => PaidOnce
  OBVIOUS
<1>4. QED
  BY <1>1, <1>2, <1>3, TypeCorrect, SchedulerAlone, AgendaAtomic, PTL DEF Spec

Total(book) ==
  book["receivable_from_issuer"] + book["payable_to_merchant"] + book["revenue_fees"]
    + book["revenue_anticipation"] + book["bank_outgoing"] + book["chargeback_loss"]

\* Each set of entries of the ledger has as many debits as credits.
LEMMA EntriesBalanced ==
  ASSUME NEW r \in Rcv
  PROVE  /\ Total(ForScheduled(r)) = 0
         /\ Total(ForAnticipation(r)) = 0
         /\ Total(ForSettlement(r)) = 0
         /\ Total(ForChargeback(r)) = 0
         /\ Total(ForChargebackAnticipated(r)) = 0
<1>1. Gross[r] \in Int /\ Fee[r] \in Int /\ PV[r] \in Int /\ Net(r) = Gross[r] - Fee[r]
  BY AmountsTyped DEF Net
<1>2. /\ Total(ForScheduled(r)) = 0
      /\ Total(ForAnticipation(r)) = 0
      /\ Total(ForChargeback(r)) = 0
      /\ Total(ForChargebackAnticipated(r)) = 0
  BY <1>1, EntryValues DEF Total
<1>3. Total(ForSettlement(r)) = 0
  BY <1>1, SettlementValues DEF Total, Account
<1>4. QED
  BY <1>2, <1>3

\* Every state satisfies: debits equal credits for each installment, hence for any set of
\* installments, so no operation of the system is ever refused by ledger.Balanced.
THEOREM DoubleEntryCorrect == Spec => []DoubleEntry
<1>1. Init => DoubleEntry
  BY DEF Init, DoubleEntry, Zero, Account
<1>2. TypeOK /\ OneSchedulerPerSale /\ AgendaAllOrNothing /\ DoubleEntry /\ [Next]_vars
        => DoubleEntry'
  <2> SUFFICES ASSUME TypeOK, OneSchedulerPerSale, AgendaAllOrNothing, DoubleEntry,
                      [Next]_vars, NEW r \in Rcv
               PROVE  Total(ledger'[r]) = 0
    BY DEF DoubleEntry, Total
  <2>1. InstallmentStep(r)
    BY EveryStepMovesInstallments
  <2>2. Total(ledger[r]) = 0
    BY DEF DoubleEntry, Total
  <2>3. ASSUME NEW from, NEW to, NEW E \in [Account -> Int], Total(E) = 0,
               Goes(r, from, to, E)
        PROVE  Total(ledger'[r]) = 0
    <3>1. \A a \in Account : /\ ledger'[r][a] = ledger[r][a] + E[a]
                             /\ ledger[r][a] \in Int
                             /\ E[a] \in Int
      BY <2>3, Balances
    <3>2. QED
      BY <2>2, <2>3, <3>1 DEF Total, Account
  <2>4. QED
    BY <2>1, <2>2, <2>3, EntriesBalanced, EntriesTyped
       DEF InstallmentStep, AnticipatedNow, OtherMove
<1>3. QED
  BY <1>1, <1>2, TypeCorrect, SchedulerAlone, AgendaAtomic, PTL DEF Spec

-----------------------------------------------------------------------------
(* What a sale paid *)

\* The fee of an installment is booked while it is live, and nothing is lost on one that
\* is not disputed.
FeesAndLosses ==
  \A r \in Rcv :
    /\ ledger[r]["revenue_fees"] =
         IF rcv[r] \in {"SCHEDULED", "ANTICIPATED", "SETTLED"} THEN Fee[r] ELSE 0
    /\ rcv[r] # "CHARGEBACKED" => ledger[r]["chargeback_loss"] = 0

\* FeesAndLosses holds in every state.
LEMMA FeesAndLossesCorrect == Spec => []FeesAndLosses
<1>1. Init => FeesAndLosses
  BY DEF Init, FeesAndLosses, Zero, Account
<1>2. TypeOK /\ OneSchedulerPerSale /\ AgendaAllOrNothing /\ FeesAndLosses /\ [Next]_vars
        => FeesAndLosses'
  <2> SUFFICES ASSUME TypeOK, OneSchedulerPerSale, AgendaAllOrNothing, FeesAndLosses,
                      [Next]_vars, NEW r \in Rcv
               PROVE  /\ ledger'[r]["revenue_fees"] =
                           IF rcv'[r] \in {"SCHEDULED", "ANTICIPATED", "SETTLED"}
                           THEN Fee[r] ELSE 0
                      /\ rcv'[r] # "CHARGEBACKED" => ledger'[r]["chargeback_loss"] = 0
    BY DEF FeesAndLosses
  <2> DEFINE Adds(f, l) ==
        /\ ledger'[r]["revenue_fees"] = ledger[r]["revenue_fees"] + f
        /\ ledger'[r]["chargeback_loss"] = ledger[r]["chargeback_loss"] + l
  <2>1. InstallmentStep(r)
    BY EveryStepMovesInstallments
  <2>2. /\ Fee[r] \in Int /\ Net(r) \in Int
        /\ ledger[r]["revenue_fees"] \in Int /\ ledger[r]["chargeback_loss"] \in Int
        /\ "revenue_fees" \in Account /\ "chargeback_loss" \in Account
    BY AmountsTyped, EntriesTyped DEF TypeOK, Account
  <2>3. ASSUME NEW from, NEW to, NEW E, Goes(r, from, to, E)
        PROVE  Adds(E["revenue_fees"], E["chargeback_loss"])
    BY <2>2, <2>3, Balances
  <2>4. /\ ledger[r]["revenue_fees"] =
             IF rcv[r] \in {"SCHEDULED", "ANTICIPATED", "SETTLED"} THEN Fee[r] ELSE 0
        /\ rcv[r] # "CHARGEBACKED" => ledger[r]["chargeback_loss"] = 0
    BY DEF FeesAndLosses
  <2>5. CASE AnticipatedNow(r)
    BY <2>2, <2>3, <2>4, <2>5, EntryValues DEF AnticipatedNow, Goes
  <2>6. CASE Goes(r, "NONE", "SCHEDULED", ForScheduled(r))
    BY <2>2, <2>3, <2>4, <2>6, EntryValues DEF Goes
  <2>7. CASE Goes(r, "SCHEDULED", "SETTLED", ForSettlement(r))
    BY <2>2, <2>3, <2>4, <2>7, SettlementValues DEF Goes
  <2>8. CASE Goes(r, "ANTICIPATED", "SETTLED", ForSettlement(r))
    BY <2>2, <2>3, <2>4, <2>8, SettlementValues DEF Goes
  <2>9. CASE Goes(r, "SCHEDULED", "CANCELED", ForChargeback(r))
    BY <2>2, <2>3, <2>4, <2>9, EntryValues DEF Goes
  <2>10. CASE Goes(r, "SCHEDULED", "CHARGEBACKED", ForChargeback(r))
    BY <2>2, <2>3, <2>4, <2>10, EntryValues DEF Goes
  <2>11. CASE Goes(r, "ANTICIPATED", "CHARGEBACKED", ForChargebackAnticipated(r))
    BY <2>2, <2>3, <2>4, <2>11, EntryValues DEF Goes
  <2>12. CASE rcv'[r] = rcv[r] /\ ledger'[r] = ledger[r]
    BY <2>4, <2>12
  <2>13. QED
    BY <2>1, <2>5, <2>6, <2>7, <2>8, <2>9, <2>10, <2>11, <2>12
       DEF InstallmentStep, OtherMove
<1>3. QED
  BY <1>1, <1>2, TypeCorrect, SchedulerAlone, AgendaAtomic, PTL DEF Spec

\* An agenda has as many installments as the sale was made in, numbered from 1.
LEMMA AgendaCounted ==
  ASSUME NEW t \in Tx
  PROVE  /\ IsFiniteSet(Installments(t))
         /\ Cardinality(Installments(t)) = InstallmentCount[t]
         /\ \E first \in Installments(t) : \A r \in Installments(t) :
              InstallmentNo[r] = 1 <=> r = first
<1> DEFINE n == InstallmentCount[t]
           I == Installments(t)
           f == [k \in 1..n |-> CHOOSE r \in I : InstallmentNo[r] = k]
<1>1. n \in Nat \ {0}
  BY AgendaAssumption
<1>2. \A k \in 1..n : \E r \in I : InstallmentNo[r] = k
  BY AgendaAssumption DEF Installments
<1>3. \A r, s \in I : InstallmentNo[r] = InstallmentNo[s] => r = s
  BY AgendaAssumption DEF Installments
<1>4. \A r \in I : InstallmentNo[r] \in 1..n
  BY AgendaAssumption DEF Installments
<1> HIDE DEF n, I
<1>5. \A k \in 1..n : f[k] \in I /\ InstallmentNo[f[k]] = k
  BY <1>2
<1>6. f \in Bijection(1..n, I)
  <2>1. f \in [1..n -> I]
    BY <1>5
  <2>2. \A a, b \in 1..n : f[a] = f[b] => a = b
    BY <1>5
  <2>3. \A r \in I : \E k \in 1..n : f[k] = r
    BY <1>3, <1>4, <1>5
  <2> HIDE DEF f
  <2>4. QED
    BY <2>1, <2>2, <2>3 DEF Bijection, Injection, IsInjective, Surjection
<1> HIDE DEF f
<1>7. ExistsBijection(1..n, I)
  BY <1>6 DEF ExistsBijection
<1>8. IsFiniteSet(I) /\ Cardinality(I) = n
  BY <1>1, <1>7, FS_NatBijection, FS_CountingElements
<1>9. PICK first \in I : InstallmentNo[first] = 1
  BY <1>1, <1>2
<1>10. \A r \in I : InstallmentNo[r] = 1 <=> r = first
  BY <1>3, <1>9
<1>11. QED
  BY <1>8, <1>9, <1>10 DEF n, I

\* The parts of an amount add up to the amount: no cent is lost or made.
LEMMA PartsAddUp ==
  ASSUME NEW total \in Int, NEW n \in Nat \ {0}
  PROVE  (total \div n) * n + (total % n) = total
OBVIOUS

\* Value and fee of an installment: the first one takes the cents that do not divide.
LEMMA ShareOfInstallment ==
  ASSUME NEW t \in Tx, NEW r \in Installments(t)
  PROVE  LET n == InstallmentCount[t]
             a == Amount[t]
             f == MdrFee(t)
         IN  IF InstallmentNo[r] = 1
             THEN Gross[r] = a \div n + (a % n) /\ Fee[r] = f \div n + (f % n)
             ELSE Gross[r] = a \div n + 0 /\ Fee[r] = f \div n + 0
<1>1. r \in Rcv /\ TxOf[r] = t /\ InstallmentNo[r] \in 1..InstallmentCount[t]
  BY AgendaAssumption DEF Installments
<1>2. QED
  BY <1>1 DEF Gross, Fee, Split

\* The fee of a sale is an amount in cents.
LEMMA MdrFeeTyped ==
  ASSUME NEW t \in Tx
  PROVE  MdrFee(t) \in Int /\ Amount[t] \in Int /\ InstallmentCount[t] \in Nat \ {0}
<1>1. Amount[t] \in Int /\ Mdr[t] \in Bps /\ InstallmentCount[t] \in Nat \ {0}
  BY AgendaAssumption
<1>2. Mdr[t] \in Int
  <2>1. Bps \subseteq Int
    BY DEF Bps
  <2>2. QED
    BY <1>1, <2>1
<1>3. Amount[t] * Mdr[t] \in Int
  BY <1>1, <1>2
<1>4. (Amount[t] * Mdr[t]) \div 10000 \in Int
  BY <1>3
<1>5. QED
  BY <1>1, <1>4 DEF MdrFee, ApplyBps

\* What the books say of a settled installment.
LEMMA SettledBooks ==
  ASSUME TypeOK, DoubleEntry, IssuerClaimIsLive, PayableIsOpenAgenda, FeesAndLosses,
         NEW r \in Rcv, rcv[r] = "SETTLED"
  PROVE  /\ ledger[r]["revenue_fees"] = Fee[r]
         /\ ledger[r]["bank_outgoing"] + ledger[r]["revenue_anticipation"] = Net(r)
         /\ ledger[r]["bank_outgoing"] \in Int
         /\ ledger[r]["revenue_anticipation"] \in Int
<1>1. /\ \A a \in Account : ledger[r][a] \in Int
      /\ Gross[r] \in Int /\ Fee[r] \in Int
  BY AmountsTyped DEF TypeOK
<1>2. /\ ledger[r]["receivable_from_issuer"] = -Gross[r]
      /\ ledger[r]["payable_to_merchant"] = 0
      /\ ledger[r]["revenue_fees"] = Fee[r]
      /\ ledger[r]["chargeback_loss"] = 0
  BY DEF IssuerClaimIsLive, PayableIsOpenAgenda, FeesAndLosses
<1>3. ledger[r]["receivable_from_issuer"] + ledger[r]["payable_to_merchant"]
        + ledger[r]["revenue_fees"] + ledger[r]["revenue_anticipation"]
        + ledger[r]["bank_outgoing"] + ledger[r]["chargeback_loss"] = 0
  BY DEF DoubleEntry
<1>4. ledger[r]["bank_outgoing"] \in Int /\ ledger[r]["revenue_anticipation"] \in Int
  BY <1>1 DEF Account
<1>5. QED
  BY <1>1, <1>2, <1>3, <1>4 DEF Net

\* Every state satisfies: a sale all of whose installments are settled paid its merchant
\* the value of the sale less the MDR, to the cent, part of it as a discount of what was
\* anticipated. The remainders of the two splits are in the first installment.
THEOREM SaleIsPaidCorrect == Spec => []SettledSaleIsPaid
<1>1. ASSUME TypeOK, DoubleEntry, IssuerClaimIsLive, PayableIsOpenAgenda, FeesAndLosses
      PROVE  SettledSaleIsPaid
  <2> SUFFICES ASSUME NEW t \in Tx, \A r \in Installments(t) : rcv[r] = "SETTLED"
               PROVE  /\ Booked(t, "revenue_fees") = MdrFee(t)
                      /\ Booked(t, "bank_outgoing") + Booked(t, "revenue_anticipation")
                           = Amount[t] - MdrFee(t)
    BY DEF SettledSaleIsPaid
  <2> DEFINE I == Installments(t)
             n == InstallmentCount[t]
             a == Amount[t]
             f == MdrFee(t)
             fees == [r \in I |-> ledger[r]["revenue_fees"]]
             bank == [r \in I |-> ledger[r]["bank_outgoing"]]
             disc == [r \in I |-> ledger[r]["revenue_anticipation"]]
             nets == [r \in I |-> Net(r)]
  <2>1. /\ IsFiniteSet(I) /\ Cardinality(I) = n
        /\ n \in Nat \ {0} /\ a \in Int /\ f \in Int
    BY AgendaCounted, MdrFeeTyped
  <2>2. PICK first \in I : \A r \in I : InstallmentNo[r] = 1 <=> r = first
    BY AgendaCounted
  <2>3. \A r \in I : /\ ledger[r]["revenue_fees"] = Fee[r]
                     /\ ledger[r]["bank_outgoing"] + ledger[r]["revenue_anticipation"] = Net(r)
                     /\ ledger[r]["bank_outgoing"] \in Int
                     /\ ledger[r]["revenue_anticipation"] \in Int
    BY <1>1, SettledBooks DEF Installments
  <2>4. \A r \in I : IF r = first
                     THEN Gross[r] = a \div n + (a % n) /\ Fee[r] = f \div n + (f % n)
                     ELSE Gross[r] = a \div n + 0 /\ Fee[r] = f \div n + 0
    BY <2>2, ShareOfInstallment
  <2> DEFINE aq == a \div n
             ar == a % n
             fq == f \div n
             fr == f % n
  <2>5. aq \in Int /\ ar \in Int /\ fq \in Int /\ fr \in Int
    BY <2>1
  <2>6. aq * n + ar = a /\ fq * n + fr = f
    BY <2>1, PartsAddUp
  <2>7. /\ Booked(t, "revenue_fees") = SumFunctionOnSet(fees, I)
        /\ Booked(t, "bank_outgoing") = SumFunctionOnSet(bank, I)
        /\ Booked(t, "revenue_anticipation") = SumFunctionOnSet(disc, I)
    BY DEF Booked, SumFunction
  <2>8. \A r \in I : fees[r] = IF r = first THEN fq + fr ELSE fq
    BY <2>1, <2>3, <2>4, <2>5
  <2>9. \A r \in I : nets[r] = IF r = first THEN (aq - fq) + (ar - fr) ELSE aq - fq
    BY <2>4, <2>5 DEF Net
  <2>10. \A r \in I : bank[r] \in Int /\ disc[r] \in Int /\ nets[r] = bank[r] + disc[r]
    BY <2>3
  <2> HIDE DEF I, n, a, f, fees, bank, disc, nets, aq, ar, fq, fr
  <2>11. SumFunctionOnSet(fees, I) = fq * n + fr
    <3>1. IsFiniteSet(I) /\ first \in I /\ fq \in Int /\ fr \in Int
      BY <2>1, <2>2, <2>5
    <3>2. SumFunctionOnSet(fees, I) = fq * Cardinality(I) + fr
      BY <2>8, <3>1, SumOfParts
    <3>3. QED
      BY <2>1, <3>2
  <2>12. SumFunctionOnSet(nets, I) = (aq - fq) * n + (ar - fr)
    <3>1. aq - fq \in Int /\ ar - fr \in Int
      BY <2>5
    <3>2. QED
      BY <2>1, <2>2, <2>9, <3>1, SumOfParts
  <2>13. SumFunctionOnSet(nets, I) = SumFunctionOnSet(bank, I) + SumFunctionOnSet(disc, I)
    BY <2>1, <2>10, SumPlus
  <2>14. (aq - fq) * n + (ar - fr) = a - f
    <3>1. (aq - fq) * n = aq * n - fq * n
      BY <2>1, <2>5
    <3>2. QED
      BY <2>1, <2>5, <2>6, <3>1
  <2>15. /\ Booked(t, "revenue_fees") = f
         /\ Booked(t, "bank_outgoing") + Booked(t, "revenue_anticipation") = a - f
    BY <2>6, <2>7, <2>11, <2>12, <2>13, <2>14
  <2>16. QED
    BY <2>15 DEF a, f
<1>2. QED
  BY <1>1, TypeCorrect, DoubleEntryCorrect, IssuerClaimCorrect, PayableCorrect,
     FeesAndLossesCorrect, PTL

-----------------------------------------------------------------------------
(* Cancellation with one replica *)

\* A canceled sale stays canceled, and no scheduler that read it before has it open once
\* its cancellation was handled.
CancelInv ==
  \A t \in Tx :
    /\ Canceled(t) \in outbox => tx[t] = "CANCELED"
    /\ Canceled(t) \in processed =>
         /\ Canceled(t) \in outbox
         /\ ~Marking(t)
         /\ \A r \in Installments(t) : rcv[r] # "SCHEDULED"

\* CancelInv holds at first and every step of a single replica keeps it.
LEMMA CancelInvKept ==
  ASSUME \A v, w \in Worker : v = w, TypeOK, CancelInv, [Next]_vars
  PROVE  CancelInv'
<1> USE DEF saleVars, bookVars, workerVars, consumerVars, registryVars
<1> SUFFICES ASSUME NEW u \in Tx
             PROVE  /\ Canceled(u) \in outbox' => tx'[u] = "CANCELED"
                    /\ Canceled(u) \in processed' =>
                         /\ Canceled(u) \in outbox'
                         /\ ~Marking(u)'
                         /\ \A r \in Installments(u) : rcv'[r] # "SCHEDULED"
  BY DEF CancelInv, Installments, Canceled, Ev
<1> DEFINE Goal == /\ Canceled(u) \in outbox' => tx'[u] = "CANCELED"
                   /\ Canceled(u) \in processed' =>
                        /\ Canceled(u) \in outbox'
                        /\ ~Marking(u)'
                        /\ \A r \in Installments(u) : rcv'[r] # "SCHEDULED"
<1> SUFFICES Goal
  OBVIOUS
<1>0. /\ Canceled(u) \in outbox => tx[u] = "CANCELED"
      /\ Canceled(u) \in processed =>
           /\ Canceled(u) \in outbox
           /\ ~Marking(u)
           /\ \A r \in Installments(u) : rcv[r] # "SCHEDULED"
      /\ \A r \in Installments(u) : r \in Rcv
  BY DEF CancelInv, Installments
\* A step that takes nothing to SCHEDULED and opens nothing for u.
<1>1. ASSUME tx[u] = "CANCELED" => tx'[u] = "CANCELED",
             outbox \subseteq outbox',
             Canceled(u) \in outbox' => Canceled(u) \in outbox \/ tx'[u] = "CANCELED",
             processed' = processed, inflight' \subseteq inflight,
             \A r \in Installments(u) : rcv'[r] = "SCHEDULED" => rcv[r] = "SCHEDULED"
      PROVE  Goal
  BY <1>0, <1>1 DEF Marking
<1>2. ASSUME NEW t \in Tx, Authorize(t) \/ Capture(t) PROVE Goal
  <2>1. /\ tx[u] = "CANCELED" => tx'[u] = "CANCELED"
        /\ outbox \subseteq outbox'
        /\ Canceled(u) \in outbox' => Canceled(u) \in outbox
    BY <1>2, EventsDistinct
    DEF Authorize, Capture, MoveTx, TxMoves, TypeOK, Canceled, Captured, Ev
  <2>2. QED
    BY <1>1, <1>2, <2>1 DEF Authorize, Capture
<1>3. ASSUME NEW t \in Tx, Cancel(t) PROVE Goal
  <2>1. /\ tx[u] = "CANCELED" => tx'[u] = "CANCELED"
        /\ outbox \subseteq outbox'
        /\ Canceled(u) \in outbox' => Canceled(u) \in outbox \/ tx'[u] = "CANCELED"
    BY <1>3, EventsDistinct DEF Cancel, MoveTx, TxMoves, TypeOK, Canceled, Ev
  <2>2. QED
    BY <1>1, <1>3, <2>1 DEF Cancel
<1>4. ASSUME NEW t \in Tx, OpenChargeback(t) PROVE Goal
  <2>1. /\ tx[u] = "CANCELED" => tx'[u] = "CANCELED"
        /\ outbox \subseteq outbox'
        /\ Canceled(u) \in outbox' => Canceled(u) \in outbox
    BY <1>4, EventsDistinct DEF OpenChargeback, MoveTx, TxMoves, TypeOK, Canceled, Ev
  <2>2. \A r \in Rcv : rcv'[r] = "SCHEDULED" => rcv[r] = "SCHEDULED"
    BY <1>4 DEF OpenChargeback, Move
  <2>3. QED
    BY <1>0, <1>1, <1>4, <2>1, <2>2 DEF OpenChargeback
<1>5. ASSUME NEW w \in Worker, NEW t \in Tx, ReadCaptured(w, t) PROVE Goal
  <2>1. CASE t = u
    <3>1. Canceled(u) \notin processed
      BY <1>0, <1>5, <2>1 DEF ReadCaptured
    <3>2. QED
      BY <1>0, <1>5, <3>1 DEF ReadCaptured
  <2>2. CASE t # u
    <3>1. Marking(u)' <=> Marking(u)
      BY <1>5, <2>2 DEF ReadCaptured, Marking
    <3>2. QED
      BY <1>0, <1>5, <3>1 DEF ReadCaptured
  <2>3. QED
    BY <2>1, <2>2
<1>6. ASSUME NEW w \in Worker, NEW t \in Tx,
             \/ RejectCaptured(w, t) \/ RefuseSchedule(w, t) \/ Rollback(w, t)
             \/ GiveUp(w, Captured(t)) \/ GiveUp(w, Canceled(t))
      PROVE  Goal
  BY <1>1, <1>6 DEF RejectCaptured, RefuseSchedule, Rollback, GiveUp
<1>7. ASSUME NEW w \in Worker, NEW t \in Tx, CommitSchedule(w, t) PROVE Goal
  <2>1. /\ Canceled(u) \in processed' => Canceled(u) \in processed
        /\ Canceled(u) \in outbox' <=> Canceled(u) \in outbox
        /\ tx' = tx /\ inflight' \subseteq inflight
    BY <1>7, EventsDistinct DEF CommitSchedule, Captured, Canceled
  <2>2. Marking(t)
    BY <1>7 DEF CommitSchedule, Marking
  <2>3. Canceled(u) \in processed => u # t
    BY <1>0, <2>2
  <2>4. u # t => \A r \in Installments(u) : rcv'[r] = rcv[r]
    BY <1>7 DEF CommitSchedule, Installments
  <2>5. ~Marking(u) => ~Marking(u)'
    BY <2>1 DEF Marking
  <2>6. QED
    BY <1>0, <2>1, <2>3, <2>4, <2>5
<1>8. ASSUME NEW w \in Worker, NEW t \in Tx, HandleCanceled(w, t) PROVE Goal
  <2>1. /\ Canceled(t) \in outbox
        /\ processed' = processed \cup {Canceled(t)}
        /\ UNCHANGED <<tx, outbox, inflight>>
        /\ Idle(w)
    BY <1>8 DEF HandleCanceled, Deliverable
  <2>2. \A r \in Rcv : rcv'[r] = "SCHEDULED" => rcv[r] = "SCHEDULED" /\ TxOf[r] # t
    BY <1>8 DEF HandleCanceled, Move, Installments
  <2>3. ~Marking(t)
    BY <2>1 DEF Idle, Marking
  <2>4. Canceled(u) \in processed' => Canceled(u) \in processed \/ u = t
    BY <2>1, EventsDistinct DEF Canceled
  <2>5. Marking(u)' <=> Marking(u)
    BY <2>1 DEF Marking
  <2>6. QED
    BY <1>0, <2>1, <2>2, <2>3, <2>4, <2>5 DEF Installments
<1>9. ASSUME NEW m \in Merchant, NEW S \in SUBSET Rcv, Anticipate(m, S) \/ Settle(m, S)
      PROVE  Goal
  <2>1. outbox \subseteq outbox' /\ (Canceled(u) \in outbox' => Canceled(u) \in outbox)
    BY <1>9, EventsDistinct DEF Anticipate, Settle, Canceled, Ev, BatchEv
  <2>2. \A r \in Rcv : rcv'[r] = "SCHEDULED" => rcv[r] = "SCHEDULED"
    BY <1>9 DEF Anticipate, Settle, Move
  <2>3. QED
    BY <1>0, <1>1, <1>9, <2>1, <2>2 DEF Anticipate, Settle
<1>10. CASE NextDay \/ UNCHANGED vars
  BY <1>1, <1>10 DEF NextDay, vars
<1>11. QED
  BY <1>2, <1>3, <1>4, <1>5, <1>6, <1>7, <1>8, <1>9, <1>10 DEF Next, Sale, Schedule

\* With one replica of the scheduler, whatever is redelivered, retried or lost, nothing of
\* a sale is waiting to be paid once its cancellation was handled. (With two it is not
\* true: the run AgendaCanceledRace.)
THEOREM CanceledClosedAlone ==
  ASSUME \A v, w \in Worker : v = w
  PROVE  Spec => []CanceledAgendaClosed
<1>1. Init => CancelInv
  BY DEF Init, CancelInv
<1>2. TypeOK /\ CancelInv /\ [Next]_vars => CancelInv'
  BY CancelInvKept
<1>3. CancelInv => CanceledAgendaClosed
  BY DEF CancelInv, CanceledAgendaClosed
<1>4. QED
  BY <1>1, <1>2, <1>3, TypeCorrect, PTL DEF Spec

-----------------------------------------------------------------------------
(* Due dates *)

\* From any day on, there is a business day at most as many days later as there are
\* closed days in the whole calendar, so NextBusinessDay is the first one.
LEMMA NextBusinessDayFirst ==
  ASSUME NEW day \in Nat
  PROVE  LET d == NextBusinessDay(day)
         IN  /\ d \in day..(day + Cardinality(Closed))
             /\ IsBusinessDay(d)
             /\ \A e \in day..(d - 1) : ~IsBusinessDay(e)
<1> DEFINE c == Cardinality(Closed)
           window == day..(day + c)
           N == {d \in window : IsBusinessDay(d)}
<1>1. c \in Nat /\ IsFiniteSet(Closed)
  BY ScheduleAssumption, FS_CardinalityType
<1>2. N # {}
  <2> SUFFICES ASSUME N = {} PROVE FALSE
    OBVIOUS
  <2>1. window \in SUBSET Closed
    BY DEF IsBusinessDay
  <2>2. Cardinality(window) = c + 1
    <3> HIDE DEF c
    <3>1. day \in Int /\ day + c \in Int /\ ~(day > day + c) /\ (day + c) - day + 1 = c + 1
      BY <1>1
    <3>2. QED
      BY <3>1, FS_Interval
  <2>3. Cardinality(window) <= c
    BY <1>1, <2>1, FS_Subset
  <2> HIDE DEF c, window
  <2>4. QED
    BY <1>1, <2>2, <2>3
<1>3. N \in SUBSET Nat
  BY <1>1
<1>4. PICK k \in N : \A d \in N : k <= d
  BY <1>2, <1>3, LeastNumber
<1>5. \A e \in day..(k - 1) : ~IsBusinessDay(e)
  <2> SUFFICES ASSUME NEW e \in day..(k - 1), IsBusinessDay(e) PROVE FALSE
    OBVIOUS
  <2> HIDE DEF c
  <2>1. k \in window /\ e \in Int /\ e < k
    BY <1>1
  <2>2. e \in window
    BY <1>1, <2>1
  <2>3. e \in N
    BY <2>2
  <2>4. QED
    BY <1>3, <1>4, <2>1, <2>3
<1>6. k \in window /\ IsBusinessDay(k)
  OBVIOUS
<1>7. \E d \in window : IsBusinessDay(d) /\ \A e \in day..(d - 1) : ~IsBusinessDay(e)
  BY <1>5, <1>6
<1>8. QED
  BY <1>7 DEF NextBusinessDay

\* An installment is due on the first business day from then on.
DueOnFirstOpenDay ==
  \A r \in Rcv :
    /\ DueDate(r) >= CountedDay(r)
    /\ IsBusinessDay(DueDate(r))
    /\ \A e \in CountedDay(r)..(DueDate(r) - 1) : ~IsBusinessDay(e)

\* Every state satisfies: no installment falls due on a closed day, before its time, or
\* later than it must, in any calendar with finitely many closed days. (What the calendar of
\* Brazil adds is proved in CalendarProofs.)
THEOREM DueDatesCorrect == Spec => []DueOnFirstOpenDay
<1>1. ASSUME TypeOK PROVE DueOnFirstOpenDay
  <2> SUFFICES ASSUME NEW r \in Rcv
               PROVE  /\ DueDate(r) >= CountedDay(r)
                      /\ IsBusinessDay(DueDate(r))
                      /\ \A e \in CountedDay(r)..(DueDate(r) - 1) : ~IsBusinessDay(e)
    BY DEF DueOnFirstOpenDay
  <2>1. /\ capturedAt[TxOf[r]] \in Nat
        /\ Period \in Nat /\ InstallmentNo[r] \in Nat
    BY AgendaAssumption, ScheduleAssumption, <1>1 DEF TypeOK
  <2>2. Period * InstallmentNo[r] \in Nat
    BY <2>1
  <2>3. CountedDay(r) \in Nat
    BY <2>1, <2>2 DEF CountedDay, TermOf, Term
  <2>4. DueDate(r) = NextBusinessDay(CountedDay(r))
    BY DEF DueDate, DueDateOf, CountedDay, TermOf
  <2>5. Cardinality(Closed) \in Nat
    BY ScheduleAssumption, FS_CardinalityType
  <2>6. /\ DueDate(r) \in CountedDay(r)..(CountedDay(r) + Cardinality(Closed))
        /\ IsBusinessDay(DueDate(r))
        /\ \A e \in CountedDay(r)..(DueDate(r) - 1) : ~IsBusinessDay(e)
    BY <2>3, <2>4, NextBusinessDayFirst
  <2>7. DueDate(r) >= CountedDay(r)
    BY <2>3, <2>5, <2>6
  <2>8. QED
    BY <2>6, <2>7
<1>2. QED
  BY <1>1, TypeCorrect, PTL

-----------------------------------------------------------------------------
(* Refinement *)

\* Every behaviour of the agenda, with its events, replicas and ledger, is a behaviour
\* of Payout: opened once, paid once, and nothing after it is settled or void.
THEOREM AgendaImplementsPayout == Spec => KeepsPromise
<1> USE DEF promised, paid
<1>1. Init => Promise!Init
  BY DEF Init, Promise!Init, Zero, Account
<1>2. TypeOK /\ OneSchedulerPerSale /\ AgendaAllOrNothing /\ [Next]_vars
        => [Promise!Next]_<<promised, paid>>
  <2> SUFFICES ASSUME TypeOK, OneSchedulerPerSale, AgendaAllOrNothing, [Next]_vars, TypeOK'
               PROVE  Promise!Next
    BY TypePreserved
  <2>1. promised' \in [Rcv -> Promise!State]
    BY DEF Promise!State
  <2>2. paid' \in [Rcv -> Int]
    BY DEF TypeOK, Account
  <2>3. ASSUME NEW r \in Rcv
        PROVE  \/ Promise!Open(r) \/ Promise!Advance(r) \/ Promise!Pay(r)
               \/ Promise!Retain(r) \/ Promise!Void(r) \/ Promise!Keep(r)
    <3>1. InstallmentStep(r)
      BY EveryStepMovesInstallments
    <3>2. Net(r) \in Int /\ PV[r] \in Int /\ ledger[r]["bank_outgoing"] \in Int
      BY EntriesTyped, AgendaAssumption DEF TypeOK, Account
    <3>3. QED
      BY <3>1, <3>2, MoveBalances
         DEF Promise!Open, Promise!Advance, Promise!Pay, Promise!Retain, Promise!Void,
             Promise!Keep, Promise!Becomes
  <2>4. QED
    BY <2>1, <2>2, <2>3 DEF Promise!Next
<1>3. QED
  BY <1>1, <1>2, TypeCorrect, SchedulerAlone, AgendaAtomic, PTL
     DEF Spec, KeepsPromise, Promise!Spec
=============================================================================
