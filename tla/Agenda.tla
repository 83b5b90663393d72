------------------------------- MODULE Agenda -------------------------------
(***************************************************************************)
(* The agenda of receivables: card transactions, the scheduler that turns  *)
(* a captured sale into installments, and every operation that later moves *)
(* an installment and books it in the ledger (anticipation, settlement,    *)
(* cancellation, chargeback).                                              *)
(*                                                                         *)
(* One action is one committed database transaction of the code, with one  *)
(* exception: Scheduler.onCaptured reads the sale without locking it, so   *)
(* it is two actions (ReadCaptured, CommitSchedule) with an open database  *)
(* transaction between them.                                               *)
(*                                                                         *)
(* The ledger keeps, for each receivable and account, credits - debits of  *)
(* the entries booked for that receivable. Entries that the code books for *)
(* a whole batch (an anticipation, a settlement) are sums over its         *)
(* receivables and are attributed to each one.                             *)
(***************************************************************************)
EXTENDS Schedule, Functions

CONSTANTS
  Tx,            \* card transactions
  Rcv,           \* their installments
  Merchant,      \* establishments (EC)
  Worker,        \* replicas of the scheduler, each handles one event at a time
  MerchantOf,    \* the merchant of a transaction
  TxOf,          \* the transaction of an installment
  ProductOf, Amount, InstallmentCount,  \* of a transaction
  Mdr,           \* the rate of its merchant's fee plan for it
  InstallmentNo, \* the place of an installment in its sale
  PV,            \* what Pricer.PresentValue offers for an installment
  LastDay,       \* bound of the calendar
  MaxLosses      \* bound on the transactions and on the events the scheduler loses

ASSUME AgendaAssumption ==
  /\ MerchantOf \in [Tx -> Merchant]
  /\ TxOf \in [Rcv -> Tx]
  /\ ProductOf \in [Tx -> Product]
  /\ Amount \in [Tx -> Nat \ {0}]
  /\ InstallmentCount \in [Tx -> Nat \ {0}]
  /\ Mdr \in [Tx -> Bps]
  /\ InstallmentNo \in [Rcv -> Nat]
  /\ PV \in [Rcv -> Int]
  /\ LastDay \in Nat
  /\ MaxLosses \in Nat
  /\ \A r \in Rcv : InstallmentNo[r] \in 1..InstallmentCount[TxOf[r]]
  /\ \A t \in Tx : \A k \in 1..InstallmentCount[t] :
       \E r \in Rcv : TxOf[r] = t /\ InstallmentNo[r] = k
  /\ \A r, s \in Rcv :
       TxOf[r] = TxOf[s] /\ InstallmentNo[r] = InstallmentNo[s] => r = s

VARIABLES
  tx,          \* status of each transaction ("PENDING": not stored yet)
  capturedAt,  \* day of the capture
  rcv,         \* status of each installment ("NONE": no such row)
  ledger,      \* balance booked for each installment, by account
  chargebacks, \* transactions with a row in chargebacks
  outbox,      \* events written with the data, never removed
  processed,   \* rows of processed_events for the consumer "scheduler"
  dlq,         \* events the consumer gave up on
  lost,        \* events it acknowledged without handling or burying them
  inflight,    \* <<w, t>>: w has read t as CAPTURED and not yet committed
  registered,  \* transactions whose units were registered
  transferred, \* installments whose ownership was transferred
  today,
  losses

saleVars   == <<tx, capturedAt>>
bookVars   == <<rcv, ledger>>
consumerVars == <<dlq, lost, losses>>
workerVars == <<processed, inflight, consumerVars>>
registryVars == <<registered, transferred>>
vars == <<saleVars, bookVars, chargebacks, outbox, workerVars, registryVars, today>>

-----------------------------------------------------------------------------
(* Domain tables *)

TxStatus == {"PENDING", "AUTHORIZED", "DENIED", "CAPTURED", "CANCELED",
             "SETTLED", "CHARGEBACKED"}

TxMoves ==
  {<<"PENDING", "AUTHORIZED">>, <<"PENDING", "DENIED">>,
   <<"AUTHORIZED", "CAPTURED">>, <<"AUTHORIZED", "CANCELED">>,
   <<"CAPTURED", "CANCELED">>, <<"CAPTURED", "SETTLED">>,
   <<"CAPTURED", "CHARGEBACKED">>, <<"SETTLED", "CHARGEBACKED">>}

RcvStatus == {"NONE", "SCHEDULED", "ANTICIPATED", "SETTLED", "CANCELED",
              "CHARGEBACKED"}

RcvMoves ==
  {<<"SCHEDULED", "ANTICIPATED">>, <<"SCHEDULED", "SETTLED">>,
   <<"SCHEDULED", "CANCELED">>, <<"SCHEDULED", "CHARGEBACKED">>,
   <<"ANTICIPATED", "SETTLED">>, <<"ANTICIPATED", "CHARGEBACKED">>}

Account == {"receivable_from_issuer", "payable_to_merchant", "revenue_fees",
            "revenue_anticipation", "bank_outgoing", "chargeback_loss"}

Installments(t) == {r \in Rcv : TxOf[r] = t}
Owned(m)        == {r \in Rcv : MerchantOf[TxOf[r]] = m}
MdrFee(t)       == ApplyBps(Amount[t], Mdr[t])
Gross ==
  [r \in Rcv |-> Split(Amount[TxOf[r]], InstallmentCount[TxOf[r]])[InstallmentNo[r]]]
Fee ==
  [r \in Rcv |-> Split(MdrFee(TxOf[r]), InstallmentCount[TxOf[r]])[InstallmentNo[r]]]
Net(r)          == Gross[r] - Fee[r]
TermOf(r)       == Term(ProductOf[TxOf[r]], InstallmentNo[r])
\* The day on which the card scheme counts the installment due.
CountedDay(r)   == capturedAt[TxOf[r]] + TermOf(r)
DueDate(r)      == DueDateOf(ProductOf[TxOf[r]], capturedAt[TxOf[r]], InstallmentNo[r])

\* The ledger refuses a negative debit or credit (CHECK of ledger_entries). Value and
\* MDR are split separately and each remainder goes to the first installment.
Bookable(t) == \A r \in Installments(t) : Gross[r] >= 0 /\ Fee[r] >= 0 /\ Net(r) >= 0

(* Events. The ones about a transaction carry it; an anticipation and a
   settlement carry the installments of their batch. *)
TxEventType == {"transaction.authorized", "transaction.denied",
                "transaction.captured", "transaction.canceled",
                "transaction.chargebacked", "chargeback.opened",
                "receivable.scheduled"}
TxEvent    == [type : TxEventType, tx : Tx]
BatchEvent == [type : {"receivable.anticipated", "settlement.completed"},
               receivables : SUBSET Rcv]
Ev(type, t)      == [type |-> type, tx |-> t]
BatchEv(type, S) == [type |-> type, receivables |-> S]

Captured(t) == Ev("transaction.captured", t)
Canceled(t) == Ev("transaction.canceled", t)

-----------------------------------------------------------------------------
(* Ledger entries, as credits - debits *)

Zero == [a \in Account |-> 0]

ForScheduled(r) ==
  [Zero EXCEPT !["receivable_from_issuer"] = -Gross[r],
               !["payable_to_merchant"]    = Net(r),
               !["revenue_fees"]           = Fee[r]]

\* Faulty variant: the bank pays the full net value in advance.
ForAnticipationUndiscounted(r) ==
  [Zero EXCEPT !["payable_to_merchant"]  = -Net(r),
               !["bank_outgoing"]        = Net(r),
               !["revenue_anticipation"] = Net(r) - PV[r]]

ForAnticipation(r) ==
  [Zero EXCEPT !["payable_to_merchant"]  = -Net(r),
               !["bank_outgoing"]        = PV[r],
               !["revenue_anticipation"] = Net(r) - PV[r]]

\* Faulty variant: retained installments are paid like the others.
ForSettlementOfAll(r) ==
  [Zero EXCEPT !["payable_to_merchant"] = -Net(r), !["bank_outgoing"] = Net(r)]

\* Only the installments that were still SCHEDULED are part of what is paid;
\* an anticipated one is retained.
ForSettlement(r) ==
  IF rcv[r] = "SCHEDULED"
  THEN [Zero EXCEPT !["payable_to_merchant"] = -Net(r),
                    !["bank_outgoing"]       = Net(r)]
  ELSE Zero

ForChargeback(r) ==
  [Zero EXCEPT !["receivable_from_issuer"] = Gross[r],
               !["payable_to_merchant"]    = -Net(r),
               !["revenue_fees"]           = -Fee[r]]

\* Faulty variant: the loss is taken from what is owed to the merchant.
ForChargebackFromPayable(r) ==
  [Zero EXCEPT !["receivable_from_issuer"] = Gross[r],
               !["payable_to_merchant"]    = -Net(r),
               !["revenue_fees"]           = -Fee[r]]

ForChargebackAnticipated(r) ==
  [Zero EXCEPT !["receivable_from_issuer"] = Gross[r],
               !["chargeback_loss"]        = -Net(r),
               !["revenue_fees"]           = -Fee[r]]

\* The installments S move to status `to`, and each is booked its entries.
Move(S, to, entries) ==
  /\ \A r \in S : <<rcv[r], to>> \in RcvMoves
  /\ rcv' = [r \in Rcv |-> IF r \in S THEN to ELSE rcv[r]]
  /\ ledger' = [r \in Rcv |-> [a \in Account |->
                  ledger[r][a] + (IF r \in S THEN entries[r][a] ELSE 0)]]

-----------------------------------------------------------------------------
(* The API: transactions *)

MoveTx(t, to) ==
  /\ <<tx[t], to>> \in TxMoves
  /\ tx' = [tx EXCEPT ![t] = to]

\* The issuer answered: the sale is stored already authorized or denied.
Authorize(t) ==
  /\ \/ /\ MoveTx(t, "AUTHORIZED")
        /\ outbox' = outbox \cup {Ev("transaction.authorized", t)}
     \/ /\ MoveTx(t, "DENIED")
        /\ outbox' = outbox \cup {Ev("transaction.denied", t)}
  /\ UNCHANGED <<capturedAt, bookVars, chargebacks, workerVars, registryVars, today>>

\* Faulty variant: the capture is dated the next day.
CaptureTomorrow(t) ==
  /\ MoveTx(t, "CAPTURED")
  /\ capturedAt' = [capturedAt EXCEPT ![t] = today + 1]
  /\ outbox' = outbox \cup {Captured(t)}
  /\ UNCHANGED <<bookVars, chargebacks, workerVars, registryVars, today>>

Capture(t) ==
  /\ MoveTx(t, "CAPTURED")
  /\ capturedAt' = [capturedAt EXCEPT ![t] = today]
  /\ outbox' = outbox \cup {Captured(t)}
  /\ UNCHANGED <<bookVars, chargebacks, workerVars, registryVars, today>>

Cancel(t) ==
  /\ MoveTx(t, "CANCELED")
  /\ outbox' = outbox \cup {Canceled(t)}
  /\ UNCHANGED <<capturedAt, bookVars, chargebacks, workerVars, registryVars, today>>

Disputable(t) == tx[t] \in {"CAPTURED", "SETTLED"}

\* The amount of the dispute is validated and stored but does not change what
\* is reversed: every installment still SCHEDULED or ANTICIPATED is, in full.
OpenChargeback(t) ==
  LET open == {r \in Installments(t) : rcv[r] \in {"SCHEDULED", "ANTICIPATED"}}
      Reversal(r) == IF rcv[r] = "SCHEDULED" THEN ForChargeback(r)
                                             ELSE ForChargebackAnticipated(r)
  IN
  /\ Disputable(t)
  /\ MoveTx(t, "CHARGEBACKED")
  /\ Move(open, "CHARGEBACKED", [r \in open |-> Reversal(r)])
  /\ chargebacks' = chargebacks \cup {t}
  /\ outbox' = outbox \cup {Ev("transaction.chargebacked", t), Ev("chargeback.opened", t)}
  /\ UNCHANGED <<capturedAt, workerVars, registryVars, today>>

-----------------------------------------------------------------------------
(* The scheduler: a consumer of transaction.captured and transaction.canceled *)

Loses == losses < MaxLosses /\ losses' = losses + 1

\* The consumer has no more attempts for e: it writes it to the DLQ and acknowledges it,
\* also if the DLQ cannot be written (the error is logged).
Bury(e) ==
  \/ /\ dlq' = dlq \cup {e}
     /\ UNCHANGED <<lost, losses>>
  \/ /\ Loses
     /\ lost' = lost \cup {e}
     /\ UNCHANGED dlq

Idle(w) == \A t \in Tx : <<w, t>> \notin inflight

\* Faulty variants: MarkIfNew forgets what was processed, or does not wait for a
\* transaction that is marking the same event.
DeliverableAgain(e) == e \in outbox
MarkingUnseen(t)    == FALSE

\* An event is delivered at least once, at any time after its commit. MarkIfNew
\* ignores one that is processed, and waits for a transaction that is marking it.
Deliverable(e) == e \in outbox \ processed
Marking(t)     == \E w \in Worker : <<w, t>> \in inflight

\* Faulty variant: Schedule does not look at the status of the sale.
ReadAnyStatus(w, t) ==
  /\ Idle(w)
  /\ Deliverable(Captured(t))
  /\ ~Marking(t)
  /\ inflight' = inflight \cup {<<w, t>>}
  /\ UNCHANGED <<saleVars, bookVars, chargebacks, outbox, processed, consumerVars,
                 registryVars, today>>

\* MarkIfNew and the read of the sale, which takes no lock.
ReadCaptured(w, t) ==
  /\ Idle(w)
  /\ Deliverable(Captured(t))
  /\ ~Marking(t)
  /\ tx[t] = "CAPTURED"
  /\ inflight' = inflight \cup {<<w, t>>}
  /\ UNCHANGED <<saleVars, bookVars, chargebacks, outbox, processed, consumerVars,
                 registryVars, today>>

\* Faulty variant: the permanent error is dropped instead of going to the DLQ.
RejectSilently(w, t) ==
  /\ Idle(w)
  /\ Deliverable(Captured(t))
  /\ ~Marking(t)
  /\ tx[t] # "CAPTURED"
  /\ UNCHANGED vars

\* The sale is not captured: Schedule fails, the error is permanent.
RejectCaptured(w, t) ==
  /\ Idle(w)
  /\ Deliverable(Captured(t))
  /\ ~Marking(t)
  /\ tx[t] # "CAPTURED"
  /\ Bury(Captured(t))
  /\ UNCHANGED <<saleVars, bookVars, chargebacks, outbox, processed, inflight, registryVars,
                 today>>

\* The agenda is inserted and the transaction commits. The registry is called
\* afterwards and a failure of that call is only logged.
CommitSchedule(w, t) ==
  /\ <<w, t>> \in inflight
  /\ Bookable(t)
  /\ inflight' = inflight \ {<<w, t>>}
  /\ processed' = processed \cup {Captured(t)}
  /\ rcv' = [r \in Rcv |-> IF TxOf[r] = t THEN "SCHEDULED" ELSE rcv[r]]
  /\ ledger' = [r \in Rcv |-> [a \in Account |->
                  ledger[r][a] + (IF TxOf[r] = t THEN ForScheduled(r)[a] ELSE 0)]]
  /\ outbox' = outbox \cup {Ev("receivable.scheduled", t)}
  /\ registered' \in {registered, registered \cup {t}}
  /\ UNCHANGED <<saleVars, chargebacks, consumerVars, transferred, today>>

\* The ledger refuses the agenda, on the last attempt too: rollback and DLQ.
RefuseSchedule(w, t) ==
  /\ <<w, t>> \in inflight
  /\ ~Bookable(t)
  /\ inflight' = inflight \ {<<w, t>>}
  /\ Bury(Captured(t))
  /\ UNCHANGED <<saleVars, bookVars, chargebacks, outbox, processed, registryVars, today>>

HandleCanceled(w, t) ==
  LET scheduled == {r \in Installments(t) : rcv[r] = "SCHEDULED"} IN
  /\ Idle(w)
  /\ Deliverable(Canceled(t))
  /\ processed' = processed \cup {Canceled(t)}
  /\ Move(scheduled, "CANCELED", [r \in scheduled |-> ForChargeback(r)])
  /\ UNCHANGED <<saleVars, chargebacks, outbox, inflight, consumerVars, registryVars, today>>

\* Faulty variant: the mark of the event is committed on its own.
RollbackKeepingMark(w, t) ==
  /\ <<w, t>> \in inflight
  /\ Loses
  /\ inflight' = inflight \ {<<w, t>>}
  /\ processed' = processed \cup {Captured(t)}
  /\ UNCHANGED <<saleVars, bookVars, chargebacks, outbox, dlq, lost, registryVars, today>>

\* A transient error or a crash loses the open transaction; the event will be
\* handled again.
Rollback(w, t) ==
  /\ <<w, t>> \in inflight
  /\ Loses
  /\ inflight' = inflight \ {<<w, t>>}
  /\ UNCHANGED <<saleVars, bookVars, chargebacks, outbox, processed, dlq, lost, registryVars,
                 today>>

\* Every attempt of one delivery failed; or the replica is shut down while it waits for
\* the next attempt, which returns like an event that was handled.
GiveUp(w, e) ==
  /\ Idle(w)
  /\ Deliverable(e)
  /\ Bury(e)
  /\ UNCHANGED <<saleVars, bookVars, chargebacks, outbox, processed, inflight, registryVars,
                 today>>

-----------------------------------------------------------------------------
(* The API: anticipation. The registry is told after the commit; a failure is
   only logged. *)
Anticipable(r) == rcv[r] = "SCHEDULED" /\ DueDate(r) > today

Anticipate(m, S) ==
  /\ S # {}
  /\ S \subseteq Owned(m)
  /\ \A r \in S : Anticipable(r)
  /\ Move(S, "ANTICIPATED", [r \in S |-> ForAnticipation(r)])
  /\ outbox' = outbox \cup {BatchEv("receivable.anticipated", S)}
  /\ transferred' \in {transferred, transferred \cup S}
  /\ UNCHANGED <<saleVars, chargebacks, workerVars, registered, today>>

(* The settlement job: one merchant of one batch whose orders the bank accepted.
   A batch takes the rows due on that day that nobody has locked, up to a limit:
   any subset. The job runs for today, or for an earlier day set by the operator. *)
Due(day) == {r \in Rcv : rcv[r] \in {"SCHEDULED", "ANTICIPATED"} /\ DueDate(r) = day}

Settle(m, S) ==
  /\ S # {}
  /\ S \subseteq Owned(m)
  /\ \E day \in 0..today : S \subseteq Due(day)
  /\ Move(S, "SETTLED", [r \in S |-> ForSettlement(r)])
  /\ outbox' = outbox \cup {BatchEv("settlement.completed", S)}
  /\ UNCHANGED <<saleVars, chargebacks, workerVars, registryVars, today>>

NextDay ==
  /\ today < LastDay
  /\ today' = today + 1
  /\ UNCHANGED <<saleVars, bookVars, chargebacks, outbox, workerVars, registryVars>>

-----------------------------------------------------------------------------
Init ==
  /\ tx = [t \in Tx |-> "PENDING"]
  /\ capturedAt = [t \in Tx |-> 0]
  /\ rcv = [r \in Rcv |-> "NONE"]
  /\ ledger = [r \in Rcv |-> Zero]
  /\ chargebacks = {}
  /\ outbox = {}
  /\ processed = {}
  /\ dlq = {}
  /\ lost = {}
  /\ inflight = {}
  /\ registered = {}
  /\ transferred = {}
  /\ today = 0
  /\ losses = 0

Sale(t) == Authorize(t) \/ Capture(t) \/ Cancel(t) \/ OpenChargeback(t)

Schedule(w, t) ==
  \/ ReadCaptured(w, t)
  \/ RejectCaptured(w, t)
  \/ CommitSchedule(w, t)
  \/ RefuseSchedule(w, t)
  \/ HandleCanceled(w, t)
  \/ Rollback(w, t)
  \/ GiveUp(w, Captured(t))
  \/ GiveUp(w, Canceled(t))

Next ==
  \/ \E t \in Tx : Sale(t)
  \/ \E w \in Worker, t \in Tx : Schedule(w, t)
  \/ \E m \in Merchant, S \in SUBSET Rcv : Anticipate(m, S) \/ Settle(m, S)
  \/ NextDay

Spec == Init /\ [][Next]_vars

(* The consumer loop never stops and fetches events in the order of the log: one
   that is not acknowledged gets its turn (strong fairness, since the worker may be busy
   with another event now and then), and a database transaction ends. *)
Open(e) == e \notin dlq \cup lost

Fairness ==
  \A t \in Tx :
    /\ SF_vars(\E w \in Worker : Open(Captured(t)) /\ ReadCaptured(w, t))
    /\ SF_vars(\E w \in Worker : Open(Captured(t)) /\ RejectCaptured(w, t))
    /\ WF_vars(\E w \in Worker : CommitSchedule(w, t) \/ RefuseSchedule(w, t))
    /\ SF_vars(\E w \in Worker : Open(Canceled(t)) /\ HandleCanceled(w, t))

FairSpec == Spec /\ Fairness

-----------------------------------------------------------------------------
(* Properties *)

TypeOK ==
  /\ tx \in [Tx -> TxStatus]
  /\ capturedAt \in [Tx -> 0..LastDay]
  /\ rcv \in [Rcv -> RcvStatus]
  /\ ledger \in [Rcv -> [Account -> Int]]
  /\ chargebacks \subseteq Tx
  /\ outbox \subseteq TxEvent \cup BatchEvent
  /\ processed \subseteq TxEvent
  /\ dlq \subseteq TxEvent
  /\ lost \subseteq TxEvent
  /\ inflight \subseteq Worker \X Tx
  /\ registered \subseteq Tx
  /\ transferred \subseteq Rcv
  /\ today \in 0..LastDay
  /\ losses \in 0..MaxLosses

\* What the ledger says is owed to merchants is exactly the net value of the
\* installments still SCHEDULED, whichever of the scheduler, the anticipation, the
\* settlement, the cancellation and the chargeback touched them and in which order.
PayableIsOpenAgenda ==
  \A r \in Rcv :
    ledger[r]["payable_to_merchant"] = IF rcv[r] = "SCHEDULED" THEN Net(r) ELSE 0

WasAnticipated(r) ==
  \E e \in outbox : e.type = "receivable.anticipated" /\ r \in e.receivables

\* Money leaves the bank for an installment once at most: the present value if an
\* anticipation of it was announced, else the net value if it is SETTLED.
PaidOnce ==
  \A r \in Rcv :
    ledger[r]["bank_outgoing"] =
      IF WasAnticipated(r) THEN PV[r]
      ELSE IF rcv[r] = "SETTLED" THEN Net(r) ELSE 0

\* The asset booked against the issuer is the gross value of the installments that
\* were neither canceled nor charged back: an event handled twice, or an agenda
\* inserted twice, would count it twice.
IssuerClaimIsLive ==
  \A r \in Rcv :
    ledger[r]["receivable_from_issuer"] =
      IF rcv[r] \in {"SCHEDULED", "ANTICIPATED", "SETTLED"} THEN -Gross[r] ELSE 0

\* Debits equal credits after every operation (ledger.Balanced).
DoubleEntry ==
  \A r \in Rcv :
    ledger[r]["receivable_from_issuer"] + ledger[r]["payable_to_merchant"]
      + ledger[r]["revenue_fees"] + ledger[r]["revenue_anticipation"]
      + ledger[r]["bank_outgoing"] + ledger[r]["chargeback_loss"] = 0

Booked(t, account) ==
  SumFunction([r \in Installments(t) |-> ledger[r][account]])

\* Once the last installment of a sale is settled, its merchant has received the value
\* of the sale less the MDR, and less the discount of what was anticipated: splitting
\* value and fee apart, and paying the parts by different ways, loses no cent.
SettledSaleIsPaid ==
  \A t \in Tx :
    (\A r \in Installments(t) : rcv[r] = "SETTLED") =>
      /\ Booked(t, "revenue_fees") = MdrFee(t)
      /\ Booked(t, "bank_outgoing") + Booked(t, "revenue_anticipation")
           = Amount[t] - MdrFee(t)

\* An agenda is all or nothing, and goes with the mark of its event and with the
\* announcement of it: no crash or retry leaves one without the others.
AgendaAllOrNothing ==
  \A t \in Tx :
    \/ /\ Captured(t) \in processed
       /\ Ev("receivable.scheduled", t) \in outbox
       /\ \A r \in Installments(t) : rcv[r] # "NONE"
    \/ /\ Captured(t) \notin processed
       /\ Ev("receivable.scheduled", t) \notin outbox
       /\ \A r \in Installments(t) : rcv[r] = "NONE"

\* A database transaction that schedules an agenda is the only one doing it, works
\* for an event not yet marked, and for a sale that was captured at some time: the
\* row lock of MarkIfNew is what makes two deliveries of one event safe.
OneSchedulerPerSale ==
  \A t \in Tx :
    /\ Captured(t) \in outbox => tx[t] \in {"CAPTURED", "CANCELED", "CHARGEBACKED"}
    /\ Marking(t) => Deliverable(Captured(t))
    /\ \A v, w \in Worker : <<v, t>> \in inflight /\ <<w, t>> \in inflight => v = w

\* Once the cancellation of a sale was handled, nothing of its agenda is waiting to
\* be paid. Scheduler.onCaptured reads the sale without a lock, so this depends on
\* how many replicas handle events.
CanceledAgendaClosed ==
  \A t \in Tx :
    Canceled(t) \in processed =>
      \A r \in Installments(t) : rcv[r] # "SCHEDULED"

\* Each event of the scheduler is handled, or ends in the DLQ, or was acknowledged by one
\* of the two steps that lose it (a DLQ that cannot be written, a shutdown between two
\* attempts); none is forgotten in another way, even if replicas crash in the middle and
\* whatever happens to the sale meanwhile.
EveryEventHandled ==
  \A t \in Tx : \A e \in {Captured(t), Canceled(t)} :
    e \in outbox ~> e \in processed \cup dlq \cup lost

-----------------------------------------------------------------------------
(* The abstract promise this module implements *)

promised == [r \in Rcv |->
  CASE rcv[r] = "NONE"        -> "none"
    [] rcv[r] = "SCHEDULED"   -> "open"
    [] rcv[r] = "ANTICIPATED" -> "advanced"
    [] rcv[r] = "SETTLED"     -> "settled"
    [] OTHER                  -> "void"]

paid == [r \in Rcv |-> ledger[r]["bank_outgoing"]]

Promise == INSTANCE Payout WITH
  NetValue <- [r \in Rcv |-> Net(r)], state <- promised, cash <- paid

\* Every behaviour of the agenda is one the promise to the merchant allows.
KeepsPromise == Promise!Spec
=============================================================================
