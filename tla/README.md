# Adquirente: TLA+ models, checks and proofs

The repository is a card acquirer: a merchant authorizes and captures card sales, each
captured sale becomes an agenda of receivables (installments), which are anticipated,
settled, canceled or charged back, with a double-entry ledger and events for all of it.
This directory models its core in TLA+, checks the models with TLC on small instances, and
proves the most important facts with TLAPS for every instance.

Paths below are relative to `src/`; `internal/` is left out where it is obvious.

## 1. Inventory

| Component | State it keeps | Operations | Interacts with |
|---|---|---|---|
| Transaction life cycle (`domain/transaction`, `application/transaction/lifecycle.go`) | status and version of each sale | Authorize, Deny, Capture, Cancel, Chargeback; MarkSettled is never called | outbox, receivables through events |
| Scheduler and agenda (`domain/receivable`, `application/receivable/schedule.go`, `cmd/scheduler`) | installments, their status and due date; `processed_events` | onCaptured, onCanceled | consumes events, writes ledger and outbox, calls the registry after the commit |
| Anticipation (`domain/anticipation`, `application/anticipation`) | anticipations | Quote (reads), Request | locks installments, registry (liens, ownership) |
| Chargeback (`domain/chargeback`, `application/chargeback`) | chargebacks | Open; Defend, Accept, Reverse are never called | sale, installments, ledger |
| Ledger (`domain/ledger`, `postgres/ledger_repository.go`) | entries, debit or credit | ForScheduled, ForAnticipation, ForSettlement, ForChargeback, ForChargebackAnticipated | written in the transaction of each operation |
| Settlement job (`application/settlement`, `domain/settlement`, `cmd/settlement`) | settlements, installments, files of the bank | Execute, batch, settleMerchant | Redis lock, row locks, registry (liens), bank gateway |
| Distributed lock (`redis/lock.go`) | one key per business day, its token and expiry | Acquire, Release | settlement job |
| Outbox and relay (`kafka/relay.go`, `publisher.go`, `postgres/outbox_repository.go`) | outbox rows, `published_at` | Append, publishBatch | PostgreSQL row locks, Kafka |
| Consumer (`kafka/consumer.go`) | none of its own; the group's offsets | Run, process (attempts, DLQ) | Kafka, handlers |
| Authorization saga (`application/transaction/authorize.go`, `grpcclient/issuer.go`) | the sale it stores | Execute: check, ask the issuer, reverse on timeout, store | issuer, circuit breaker, vault, outbox |
| Idempotency (`middleware/idempotency.go`, `postgres/idempotency_store.go`) | `idempotency_keys` | Begin, Complete, Abandon | every POST of the API |
| Merchants (`domain/merchant`, `application/merchant`, `gormrepo`) | merchants and versions | Onboard, Approve, Block, UpdateSettings; SetFeePlan is never called | read by most others |
| Money, calendar and pricing (`domain/shared`, `domain/anticipation/pricing.go`) | none | ApplyBps, Split, business days, due dates, present value | scheduler, settlement, anticipation |
| Notifier (`application/notification`, `webhook`, `cmd/notifier`) | none (its group's offsets are Kafka's) | Handle: sign and send a webhook | consumer, merchants |
| Unit of work (`postgres/uow.go` and the repositories) | PostgreSQL's open transactions and row locks | Do, FindForUpdate, ListByTransaction, ListDueOnForUpdate, UpdateAll | every use case that writes |
| Vault, HTTP API, JWT, simulators, configuration, observability, manifests | cards (vault only) | | |

What is hard in this code:

* **Interleaving.** Three replicas of the API, two of the scheduler, the settlement job and
  hand-started runs of it work on the same rows. Most operations lock what they change;
  `onCaptured` reads the sale without a lock. Locks are taken row by row, by id in one request
  and by number in another.
* **Failure in the middle.** Database transactions roll back after an effect outside of them
  (the file of the bank, a message to Kafka); effects after a commit (the registry) are lost.
* **Delivery.** Events are published and delivered at least once, in no order across types.
* **Timeouts.** The issuer may have approved what the acquirer gave up on; Redis may expire
  the lock of a job that still runs; a client may leave in the middle of its request.
* **Bounds.** Batches of the relay and of the settlement, attempts of the consumer.
* **Calendar.** Due dates depend on weekends, on fixed holidays and on the ones that move with
  Easter, whose algorithm has corrections that matter in few years.
* **Cents.** Value and fee of a sale are divided into installments separately, and the parts
  are then paid in different ways.

What makes each component correct: the ledger, the agenda, the events and the money agree
(agenda); an installment is paid at most once and what was paid is what the database says
(settlement); nothing is forgotten between the outbox and the handler, and nothing is applied
twice, and a webhook is not repeated without end (delivery); what is locked row by row changes
as if in one step, and nobody waits for ever (row locks); a key is executed once (not so, after
a commit whose answer is lost), its answers agree, and a sale is authorized only while its money
is held (authorization); no request overwrites a change of a merchant that it has not seen
(merchants: not so). Every hazard, at its line, is in `PROJECT.json`.

## 2. Modules

| Module | What it is |
|---|---|
| `Payout` | abstract promise about each installment: opened once, money for it at most once, nothing after it is settled or void; `Agenda` implements it as a whole, the bank's view of `Settlement` and the rows of `RowLocks` step by step |
| `Schedule` | arithmetic of an agenda: fee, split into installments, due dates over a set of closed days |
| `Calendar` | which days are closed in Brazil: weekends, fixed holidays, the ones that move with Easter, and the definition of Easter that its algorithm is compared with |
| `Agenda` | sales, scheduler, anticipation, settlement, cancellation, chargeback, ledger, events; implements `Payout` |
| `Settlement` | the settlement job of one day, its pods, lock, batches, files |
| `Inbox` | abstract promise to an event handler: each event at most once, after its data |
| `Delivery` | outbox, relays, Kafka's log and offsets, the consumers of the scheduler or of the notifier, DLQ; implements `Inbox` for the effect of the scheduler |
| `WholeRequests` | abstract promise of the row locks: a request changes all its installments in one step, by the state they have then |
| `RowLocks` | anticipation, chargeback, cancellation and settlement as sequences of row locks, with deadlocks and lost transactions; implements `WholeRequests` |
| `Authorization` | the idempotency middleware around the authorization saga |
| `Merchant` | the row of a merchant and its version under concurrent requests |
| `MCAgenda`, `MCSettlement`, `MCDelivery`, `MCRowLocks`, `MCAuthorization`, `MCMerchant` | instances for TLC |
| `Sums` | lemmas about sums over finite sets, for the modules of theorems that count money |
| `AgendaProofs`, `SettlementProofs`, `DeliveryProofs`, `RowLocksProofs`, `AuthorizationProofs`, `MerchantProofs` | theorems about the module each is named after |
| `CalendarProofs` | theorems about `Calendar`, and about the due dates that `Agenda` gets from it |

The modules meet at their promises. `Agenda` consumes events "at any time after their commit,
again after a rollback, in any order", which is what `Delivery` provides to a handler
(`Inbox`); `Agenda!Settle` is one committed merchant of a batch of `Settlement`; the
`Authorize` of `Agenda` is the `Store` of `Authorization`. That `Agenda` may let a transaction
lock all its rows in the step that changes them is what `RowLocks` shows of the code's queries
(`ActsAsWhole`). All three that change an installment keep the one promise of `Payout`.
The closed days of `Agenda` are those of `Calendar` in one week of 2026.

Definitions named `...Unlocked`, `...Forgotten` and the like, marked "Faulty variant", are
in no specification: each is a plausible mistake in the action after it, kept so that every
property can be shown to notice one.

### Agenda

One action is one committed transaction of the database, except `ReadCaptured` and
`CommitSchedule`, between which `inflight` remembers that a replica has marked the event and
read the sale. The insert into `processed_events` blocks another replica on the same event:
`Marking`. `Rollback` is any crash or error of this transaction, `GiveUp` the end of the
attempts, `RefuseSchedule` the CHECK of `ledger_entries` on a negative net. Where the consumer
has no more attempts (`Bury`), the event goes to the DLQ, or into `lost`: a DLQ that cannot be
written is logged and the offset committed, and a shutdown in the backoff returns as if the event
was handled. `ledger` is credits minus debits, for each installment and account. Batch entries
(anticipation, settlement) are attributed to their installments. The registry is told after the
commit or not at all.

Amounts, fees and due dates are computed as the code does (`Schedule`): the MDR of the sale,
both split with the remainder in the first installment, and the next business day after each
period. `Closed` stands for weekends and holidays; the instances take it from `Calendar`, from
Tuesday the 2nd of June 2026 on: Thursday (Corpus Christi) and the weekend are closed. `Period`
stands for the 30 days between installments; the instances scale it to one day so that a second
installment falls due within the bound of the calendar.

Abstracted: the present value of an anticipation is a constant (`PV`; floating point in the
code); the lock of a row is the atomicity of the action that takes it (a transaction that
locks all it reads and changes; `RowLocks` takes the locks apart); `Open.Execute` is one step, although it reads the sale first;
a lien refuses an anticipation without effect and so is no action; the job settles what is due
on a day that is not in the future. Disputes are opened only: no code resolves them.

### Calendar

A day is its number in the Gregorian calendar; `DayOf`, `Weekday` and `YearOf` are package
`time` (external). `Easter` is `easterSunday` with its names, `Holidays` and `IsClosed` are
`isNationalHoliday` and `IsBusinessDay`. `EasterByDefinition` is no code: it is the Sunday after
the ecclesiastical full moon, from the epact of the year. `DueWhenBanksOpen` compares the two in
every year from 1900 to 2199 (`CheckedYears`), looks for long runs of closed days in them, and
looks at each due date of the agenda that is in the database: the bank is open on it, and it is
at most four days after the one that the card scheme counts (`CountedDay`). The theorems of
`CalendarProofs` say the same of every year.

### Settlement

`Start` is `Acquire` (refused if somebody has the key), `ListDue` the locked query of a batch,
`Accept` and `Reject` are `settleMerchant` for one merchant, `Commit` ends the batch, `Fail` is
any error (rollback, release, exit), `Kill` the loss of the pod (rollback, the lock stays),
`LockExpires` the two hours. `Release` deletes the key only if it has the pod's own token. The
files of the bank are not rolled back. `LockRow`, `UnlockRow` and `DisputeRow` are API requests
that hold a row of the day (an anticipation that is refused, a chargeback).

Abstracted: one business day; a killed pod's row locks are released at once; liens are a
constant per merchant, applied to each batch anew as in the code; amounts are small integers.
No pod of the CronJob works longer than its lock lasts: it has `activeDeadlineSeconds: 3600`,
the lock two hours. A pod that an operator starts by hand has no deadline: those in `ByHand`
may work on after their lock expired, next to the pod that took it.

### Delivery

`RelayTake`, `RelayPublish`, `RelayBreak`, `RelayCommit` are the steps of `publishBatch`, whose
transaction holds its rows (`FOR UPDATE SKIP LOCKED`); `RelayLoss` is its rollback. A
publication that failed may be in Kafka (timeout). `Fetch`, `Handle`, `HandleFails`, `Bury`,
`BuryFails`, `Acknowledge`, `StopAcked` are `Run` and `process`. `Effect` is the transaction of
the handler with `MarkIfNew`. Kafka itself (`Assign`, `Revoke`, the log, the offsets) is
external, modelled from how the code uses it: a member that lost its partition goes on with
its message and may still write its offset. A buried event may be delivered again and then be
handled. `lost` is what the code acknowledges unhandled: a DLQ that cannot be written is
logged, and a shutdown in the backoff returns as if the message was handled.

The two groups share the log and nothing else, so a behaviour is about one of them (`group`).
The scheduler's handler is `Effect`; the notifier's is `Notify`, which posts to the webhook of
a merchant that has one (`Subscribed`) and remembers nothing: a webhook whose answer is late is
received and counted as a failure. `RepeatsAreBounded` says what its merchants may rely on:
attempts, copies of the message and assignments of its partition multiply, and nothing else.

### RowLocks

A request is idle, waits at its gate, takes rows, or has ended. The gate of a chargeback is the
row of the sale (`FindByIDForUpdate`), that of a cancellation its row in `processed_events`, on
which a second insertion waits. Rows are taken one by one in the order of the request's query
(`Place`): by id for `FindForUpdate`, by number for `ListByTransaction`. An id is a random UUID,
so the two orders have nothing to do with each other. The job takes its batch at once, without
what others hold (`SKIP LOCKED`). What was read is in `seen`; `Commit` decides by it and writes
under the version guard of `UpdateAll`. PostgreSQL's part is external: a free lock is given to
any of those that wait, and a transaction of a circle is aborted (`BreakDeadlock`), which ends an
API request and makes the consumer try again. `Lose` is any other error or crash.

Left out: the locks of foreign keys, the insertion of an agenda by `onCaptured` (new rows, that
nobody can wait for), a bank that rejects a part of a batch (`Settlement`), and the last attempt
of a consumer is any of them.

### Authorization

Requests have a key (of one merchant) and a body (method, path and body: what is hashed). An
action is a statement, a transaction or a call of the issuer. `Begin` is one action: its
INSERT decides, and what its SELECT finds is what it answers (a row that is gone by then is
answered like one in progress). `gone` are the requests whose client left; the server cancels
their context, so every later call with it fails, the ones of the middleware included; only
the reversal goes on (`context.WithoutCancel`). `CheckFails`, `AskRefused` (open breaker) and
`Refuse` are choices. The issuer decides at most once per sale and not after the deadline it
was told, but its approval may be on the way when the caller gives up. `idempotency_keys` rows
never expire: `expires_at` is written and never read.

### Merchant

`Read` is `FindByID` and the change in memory (`Allowed`, `Apply`), `Update` and `Refuse` the
two results of the guarded `UPDATE`, `Abandon` any failure before it. A request is in no
database transaction between the two. `Apply` adds one to the version for each field that is
changed (`touch`), two for a request with both settings. The row has all the columns that a
request can change; the others never change after onboarding, and `Update` writes them back
as they were.

## 3. Runs

| Run | Question | Result |
|---|---|---|
| `AgendaSafety` | one sale whose value and fee do not divide by two, the second installment moved by the calendar, two scheduler replicas, two losses, a week: do due dates, value, fees, ledger, agenda, events and `Payout` agree? | yes |
| `AgendaOneReplica` | one replica, two sales of which the ledger refuses one: is a canceled agenda closed, and is every event handled, buried, or lost by a known step (fair)? | yes |
| `AgendaCanceledRace` | two replicas: is a canceled agenda closed? | **no** |
| `Settlement` | two pods of the CronJob and one started by hand that may outlive its lock, one error, one kill and one API request anywhere: do files and database agree but for one file per lost batch, is nothing settled unsent, are creditors first, do orders add up, do the pods of the CronJob work one at a time; does a job end, and leave only what a request or a job without its lock holds (fair)? | yes |
| `SettlementRejected` | does a job end when the bank rejects a settlement? | **no** |
| `Delivery` | two relays, two consumers of either group, one failure: is nothing forgotten in the outbox, nothing skipped by the offsets, nothing applied twice, no webhook repeated without bound, and every event handled, buried, or known to be lost (fair)? | yes |
| `RowLocks` | two anticipations, a chargeback, a cancellation handled twice and the job on the three installments of one sale, one lost transaction: does each act as one step, do deadlocks need two orders of locking, does every request end (fair)? | yes |
| `AuthorizationSafety` | four requests, three on one key, two failures: executed alone, answers that agree, money held for what is authorized, at most one orphan, one repeated sale and one stuck key for each failure | yes |
| `AuthorizationPending` | is a key without a response that of a request that is running? | **no** |
| `AuthorizationTwice` | does a key authorize one sale, however often it is repeated? | **no** |
| `MerchantSafety` | three requests at a time on one merchant: does a version stand for one content, and how much can a write overwrite that it has not seen? | yes; one write, and only by a request with both settings |
| `MerchantOverwrite` | does the review of a merchant only move forward? | **no** |

What the five disagreements mean for the code is in `PROJECT.json` (`findings`):

* a sale that is canceled while its agenda is made keeps the agenda;
* a rejected settlement makes the job loop;
* a key may stay pending for ever;
* a sale whose commit was answered with an error is authorized a second time by the retry, and
  the cardholder charged twice (`RepeatedSalesAreFailures` says what is left of "executa uma vez
  só": each repetition had a failure of its own);
* a settings request may undo a review.

More was met on the way and is listed among the hazards:

* a client that leaves while the issuer decides gets no reversal: its error is not the deadline
  that `authorize.go` reverses (line 86, though the comment before it wants the reversal also for a
  client that gave up). `OrphansAreFailures` counts it as a failure and does not catch it;
* the file of a batch that is rolled back stays and is repeated (`BankMatchesBooks` bounds it);
* a sale whose installments are settled is still CAPTURED and can be canceled (`MarkSettled` is
  called by no code);
* an installment whose row an API request holds is skipped by the job of the day and, if the
  request is then refused, not selected again (`DoneLeavesOnlyLocked` says what else may be left
  behind), as is one whose event was handled after its due date;
* a settings request without a field is refused as if somebody had changed the merchant;
* a failed call of the registry is redone by no job.

**Bounds.** Every bound is a constant: `LastDay`, `MaxLosses` (Agenda), `MaxFailures`,
`MaxKills`, `MaxRequests`, `BatchSize` (Settlement), `MaxFailures`, `MaxAttempts`, `BatchSize`
(Delivery), `MaxLosses`, `BatchSize` (RowLocks), `MaxFailures` (Authorization; one is enough for
`AuthorizationPending` and `AuthorizationTwice`), `MaxVersion` (Merchant). Two replicas are
enough for a race on one row; the third pod of `Settlement` is the one by hand, whose lock a pod
of the CronJob may take while it still works. An invalid account is in `SettlementRejected`
only: for the books it does what a file that cannot be written does. Two installments due on
different days let one be settled while the other is anticipated or waits. The batch of the
settlement (three of four rows) cuts a merchant in two, which is where creditors could be passed
over. One failure in `Delivery` reaches each kind of failure at each point, with a second relay
or member that goes on meanwhile; that several do no more than is stated of each is proved.
Three installments are the fewest whose ids can be out of order while one is due today; a
deadlock of an anticipation and a chargeback happens in the instance, a circle through several
sales does not and is left to the theorem (`DeadlockCorrect`). Two failures in `Authorization`
reach a retry after a failed attempt that fails itself. Five versions of a merchant are the
whole review with a change of settings in between. `CHECK_DEADLOCK` is off everywhere: when the
calendar ends, all requests are answered or everything is published, these systems wait for the
next input.

**Symmetry** is used for identical requests, in runs of safety only.

**Fairness.** Requests, cancellations, failures and the start of a job are never fair. A
transaction that is open ends and a relay polls for ever (weak fairness). Events wait in a
consumer that may be busy with another one each time, but takes its messages in order: strong
fairness of the handling of an event in `Agenda` and of `Fetch` for a partition in `Delivery`.
`Handle`, `HandleFails`, `Bury` and `BuryFails` are fair together: `process` makes some attempt,
no attempt is promised to succeed. A running job goes on with its batches. In `RowLocks` a
request that has begun goes on (weak fairness of its steps together, the abort of a deadlock
among them): PostgreSQL queues those that wait for a row, and looks for deadlocks when somebody
has waited for a second. The event of a cancellation is delivered again until it was handled or
given up.

## 4. Proofs

All for any number of sales, installments, replicas, pods, requests, keys and any value of the
bounds, from the assumptions of each module's ASSUME (types of the constants; every sale has an
installment; the installments are finitely many). A theorem that needs more says so.

* **Sums.** Money is added up with `SumFunctionOnSet`, which the community modules define by
  recursion over sets. The library's induction theorems cannot be used here, but induction over
  the subsets of a finite set can be stated of a set of subsets instead of a predicate
  (`SubsetInduction`). From it: the recursion has a solution (`SolutionExists`), so a sum is one
  value and the sum of the rest (`SumsStep`), and sums of sums, of parts and of equal functions
  follow (`SumPlus`, `SumOfParts`, `SumRemove`, `SumsAgree`, `SumOfSome`).
* **Agenda.** `TypeOK` and `OneSchedulerPerSale` are inductive with little help; an agenda that
  exists only with its mark (`AgendaAtomic`) needs the second. For the ledger, one lemma
  (`EveryStepMovesInstallments`) shows that each step moves each installment along one of a few
  edges with the entries of that edge, or leaves it; every statement about the books, and the
  refinement of `Payout`, then follows from the values of the entries. `PaidOnce` also needs
  that an installment is ANTICIPATED only with its entries (`AnticipationsKnown`).
  For what a sale paid as a whole, the parts of `Split` add up to what was split
  (`PartsAddUp`, with the remainder in the first) and the fee of an installment is in the books
  as long as it is live (`FeesAndLosses`); each settled installment paid its net value, as money
  or as the discount of its anticipation (`SettledBooks`), and the sum of these is the sale less
  the MDR (`SaleIsPaidCorrect`). `CanceledClosedAlone` is for one replica, from `CancelInv`: once
  a cancellation was handled the sale is canceled, nobody is marking it and nothing of it is
  SCHEDULED; the step that breaks it with two replicas (the run `AgendaCanceledRace`) is a commit
  by one while the other handles the cancellation. `DueDatesCorrect` is about any calendar with
  finitely many closed days: the loop of `NextBusinessDay` stops, at the first open day.
* **Calendar.** `EasterCorrect` is about every year of the Gregorian calendar. The algorithm and
  the definition both look for the full moon and for the Sunday after it. Its `h` is the number
  of days from the 21st of March to the moon of the epact (`MoonByEpact`), a day more in the years
  in which the tables advance the moon (`Late`, `MoonOfTables`); its `l` is the way to the Sunday,
  by arithmetic modulo seven over the leap years (`SundayByWeekday`); and its last correction takes
  a week off exactly when that day makes the difference of a Sunday (`EasterOfAlgorithm`).
  For `ShortRuns`, a day is a year (`YearOfDay`) and a place before or after its 1st of March,
  Easter is at one of the places 21 to 55 (`EasterInSpring`), and every holiday is at a fixed place
  or at one counted from Easter's (`HolidayPlaces`). Two holidays are neighbours only in
  Carnival, or when Tiradentes' day meets Good Friday (`NeighbouringHolidays`), so of five days in
  a row one is neither weekend nor holiday, by the weekday of the first. With `DueDatesCorrect`
  that puts every installment on an open day at most four days late (`DueDatesInCalendar`), for
  any first day and any calendar long enough; `BanksOpenCorrect` is that for the calendar
  the runs use, with terms of at most three days, as they have (`Period` is one).
* **Settlement.** `LockInv` (holder, expired and pc fit together) gives the lock properties.
  `BatchInv` is the account of the bank: rows locked by one batch at most, what an open batch
  sent is a part of its rows, and each installment is in as many files as the database (with
  open batches) accounts for, plus at most one for each loss. That is `BankCorrect`, whatever the
  Redis lock does: row locks alone suffice. `OneJobCorrect` follows from `LockInv`, since of the
  pods whose lock expired only those started by hand still work. For the orders, one step sends
  a merchant and its creditors exactly what the part of the batch is worth (`FileIsPayable`, by
  `Sums`), so `OrdersAddUp` is inductive; `CreditorFirst` is inductive with the types, since an
  order to a merchant goes with the whole claim. For the end of the day, a batch takes something
  whenever something is free (`BatchTakesSome`), and what is not free is held by a request or by
  another job, which is then one of two of which one was started by hand (`EmptyListIsAll`); so
  the empty list that ends a job leaves only that (`DoneLeavesCorrect`), and nothing when there are
  neither requests nor jobs by hand (`DoneCorrect`, which assumes it). The abstract view is that of the bank: an
  installment is settled once it is in a file or settled in the database, and its money counts
  the files. Every step of the job is then a step of `Payout`, except one that loses a transaction,
  which takes installments back that stay paid (`SettlementStepsPay`). `SettlementImplementsPayout`
  is the case in which nothing is lost, whatever the lock of Redis does; the day begins with
  installments that are open or anticipated, so it is about steps and not about `Init`.
* **Delivery.** Three parts. For the relays: batches are disjoint, what a batch sent is in the
  log, and the copies of an event are at most one if it is marked or sent, and one for each
  counted failure. For the group: below the offset every message is over (handled, buried
  or known to be lost); so is every message below the one a member works on, whether its
  partition was taken from it or not; and the owner of a partition has nothing open behind it
  but the message it works on. So an acknowledgement skips nothing, however late it comes. For the effects: an event was applied once if it is marked and not otherwise, which
  gives the refinement of `Inbox`. `RepeatsCorrect` is an amortized count: the webhooks received
  for an event, with the attempts its jobs have left, are within a budget (`WithinBudget`) of
  attempts for each copy that the present owner of the partition has fetched and for each copy
  and failure of the group. A fetch adds to both sides, an attempt moves from the one to the
  other, and an owner that begins again from the offset was bought by a failure
  (`BudgetOfFailure`).
* **RowLocks.** `LockInv`: a lock has one owner; what was read under a lock is current; a request
  holds its gate and exactly the rows its query has come to, in its order. Then the version
  guard is true whenever it is reached, and the step of `Commit` is the step of `WholeRequests`.
  For deadlocks, take the highest row, in the common order, that a request of the circle holds:
  its owner waits for a row above it, held by another of the circle, which is a contradiction.
  So a circle has members of both orders (`DeadlockCorrect`). A step of `WholeRequests` moves
  each row along an edge of `Payout` (`WholeIsPayout`), so the steps of `RowLocks` do too, with all
  their waits, refusals, losses and repetitions (`RowLocksImplementPayout`).
* **Authorization.** `Alone`: the key of a request that is executed is pending, which no other
  request passes. `Held`: what is stored or about to be stored as authorized has its hold; only
  a request that timed out gives the hold back, and that one stores a denial. `Agreed`: once a
  final answer of a key was given, either the row has it or still waits for it from the same
  request, and nobody else executes the key. The bounds count what met a failure: `Failed`
  are the requests whose client went away, whose replica crashed, that left a hold behind, or that
  stored a sale and answered an error; `Doomed` are the keys without a response that only such
  requests work on, or nobody. A step that adds one raises `failures` (`StepCharges`,
  `StepChargesKey`), so there are no more of them than that (`FailedCounted`, `DoomedCounted`).
  Orphans and stuck keys are among them, and so are all the requests that sold for a key but the
  one that told its client.
* **Merchant.** `VersionIdentifiesRow` is inductive beside the types: a write strictly increases
  the version, so an equal version means an equal row. A write that passes the guard has a version above the row's and at most
  two above the one it read, which leaves room for one unseen write
  (`OverwriteCorrect`); if that write was one of the review it was one move (`UndoneCorrect`,
  from `OneMoveApartStep`). Without requests of two changes nothing is lost, and the status only moves forward
  (`SingleChangesKeepReview`): the optimistic lock fails for the two changes alone.

Every safety property and every step property that a passing run checks is a theorem. Left to
TLC: liveness and everything under fairness (`EveryEventHandled`, `JobEnds`,
`EveryEventSettled`, `EveryRequestEnds`), which this prover does not do, and the five
properties that the code violates, of which there is nothing to prove. The type invariants of
all six modules are proved and no longer run. Theorems that no run checks as a property
are, among others, `Payout` in `RowLocks` and in `Settlement` (there TLC tried it on instances
of the job first), and `DueDatesInCalendar`, which has its instance in
`DueWhenBanksOpen`.

## 5. Not modelled

The pricing of anticipations (floating point: `PV` is a constant), the validation of merchants
(digits, pattern matching: no state), the vault and its cryptography, JWT and routing, the
simulators of other systems, configuration, telemetry, Terraform and Kubernetes. Chargebacks are
opened only: `Defend`, `Accept`, `Reverse`, `MarkSettled` and `SetFeePlan` are called by no code.
The reasons are in `PROJECT.json`. Order of events across topics is not promised by the code and
is not assumed anywhere. The merchant's URL is read before each attempt of the notifier; that it
may have changed since the event is not told apart.

## 6. Plan

1. The capture and cancel routes under idempotency keys, composed with the life cycle: the
   version of the sale and a retry after a lost answer.
2. `Settlement` over several days: what is skipped on its day, and reruns by date.
3. `Merchant` composed with `Authorization`, which reads the merchant before it asks the issuer.
