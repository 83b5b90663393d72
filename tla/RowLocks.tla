------------------------------ MODULE RowLocks ------------------------------
(***************************************************************************)
(* The row locks of PostgreSQL (external) as the requests take them: one   *)
(* row after the other, each in the order of its query, until the database *)
(* transaction ends. An anticipation locks its installments by id (a       *)
(* random UUID), a chargeback locks the sale and then its installments by  *)
(* number, the handler of a cancellation inserts its row in                *)
(* processed_events (a second insertion waits for the first) and then      *)
(* locks the installments by number; the settlement job takes a batch of   *)
(* rows that nobody has locked and never waits (a bank that rejects part   *)
(* of a batch is in Settlement). What a request has read it writes back    *)
(* under a condition on the version.                                       *)
(***************************************************************************)
EXTENDS Integers, FiniteSets

CONSTANTS
  Sale, Row, SaleOf,   \* installments, and the sale of each
  Id, No,              \* the order of merchants and ids, the number of the installment
  Anticipation, Items, \* requests to anticipate, and the installments they name
  Chargeback, Cancellation, Of,  \* requests on a sale
  Job,                 \* runs of the settlement job
  Anticipable, Due,    \* installments due after today; due on the day of the job
  BatchSize,
  MaxLosses            \* bound on transactions lost to an error or a crash

BySale  == Chargeback \cup Cancellation
Request == Anticipation \cup BySale \cup Job

\* What can be locked besides installments: the row of a sale, and the row of
\* processed_events for its cancellation.
Gates    == {"sale", "mark"} \X Sale
Resource == Row \cup Gates

ASSUME RowLocksAssumption ==
  /\ Row \cap Gates = {}
  /\ IsFiniteSet(Row)
  /\ SaleOf \in [Row -> Sale]
  /\ Id \in [Row -> Nat]
  /\ No \in [Row -> Nat]
  /\ \A x, y \in Row : Id[x] = Id[y] => x = y
  /\ \A x, y \in Row : SaleOf[x] = SaleOf[y] /\ No[x] = No[y] => x = y
  /\ Items \in [Anticipation -> SUBSET Row]
  /\ Of \in [BySale -> Sale]
  /\ Anticipation \cap (BySale \cup Job) = {}
  /\ Chargeback \cap (Cancellation \cup Job) = {}
  /\ Cancellation \cap Job = {}
  /\ Anticipable \subseteq Row
  /\ Due \subseteq Row
  /\ BatchSize \in Nat \ {0}
  /\ MaxLosses \in Nat

VARIABLES
  sale,     \* status of each sale
  status,   \* status of each installment
  version,  \* version of each installment
  marked,   \* sales whose cancellation is in processed_events
  phase,    \* of each request: idle, gate, rows, ended
  held,     \* what the transaction of a request has locked
  todo,     \* rows its query has still to lock
  seen,     \* status and version of the rows as it read them
  losses

bookVars == <<sale, status, version, marked>>
lockVars == <<phase, held, todo, seen>>
vars == <<bookVars, lockVars, losses>>

RowState == [status : {"SCHEDULED", "ANTICIPATED", "SETTLED", "CANCELED", "CHARGEBACKED"},
             version : Nat]

-----------------------------------------------------------------------------
(* Locks *)

RowsOf(s)  == {x \in Row : SaleOf[x] = s}
Gate(r)    == <<IF r \in Chargeback THEN "sale" ELSE "mark", Of[r]>>
Free(x)    == \A q \in Request : x \notin held[q]
Current(x) == [status |-> status[x], version |-> version[x]]

\* Faulty variant: FindForUpdate without ORDER BY.
PlaceUnsorted(r, x) == IF r \in Anticipation THEN 0 ELSE No[x]

\* Its place in the order of the query: ORDER BY id, or by installment_no.
Place(r, x) == IF r \in Anticipation THEN Id[x] ELSE No[x]

NextRows(r) == {x \in todo[r] : \A y \in todo[r] : Place(r, x) <= Place(r, y)}

\* What a request asks for now.
Wants(r, x) ==
  \/ phase[r] = "gate" /\ x = Gate(r)
  \/ phase[r] = "rows" /\ x \in NextRows(r)

WaitsFor(r, q)  == r # q /\ \E x \in held[q] : Wants(r, x)
Deadlocked(D)   == D # {} /\ \A r \in D : \E q \in D : WaitsFor(r, q)
Cycle(D)        == Deadlocked(D) /\ \A E \in SUBSET D : Deadlocked(E) => E = D

\* Faulty variant: the locks outlive the transaction.
CloseHolding(r) ==
  /\ todo' = [todo EXCEPT ![r] = {}]
  /\ UNCHANGED held

\* The end of a transaction, committed or not.
Close(r) ==
  /\ todo' = [todo EXCEPT ![r] = {}]
  /\ held' = [held EXCEPT ![r] = {}]

\* The consumer tries a cancellation again, unless this was the last attempt.
Rollback(r) ==
  /\ Close(r)
  /\ \/ phase' = [phase EXCEPT ![r] = "ended"]
     \/ r \in Cancellation /\ phase' = [phase EXCEPT ![r] = "idle"]
  /\ UNCHANGED <<bookVars, seen>>

-----------------------------------------------------------------------------
(* Requests *)

Begin(r) ==
  /\ phase[r] = "idle"
  /\ r \in Cancellation => sale[Of[r]] = "CANCELED"
  /\ phase' = [phase EXCEPT ![r] = IF r \in BySale THEN "gate" ELSE "rows"]
  /\ todo' = [todo EXCEPT ![r] = IF r \in Anticipation THEN Items[r] ELSE {}]
  /\ UNCHANGED <<bookVars, held, seen, losses>>

\* Only the sale of a chargeback must be in a status that can be disputed, and a
\* cancellation be handled for the first time.
Admitted(r) ==
  IF r \in Chargeback THEN sale[Of[r]] \in {"CAPTURED", "SETTLED"} ELSE Of[r] \notin marked

\* Faulty variant: ListByTransaction skips the rows that others have locked.
PassGateSkipping(r) ==
  /\ phase[r] = "gate"
  /\ Free(Gate(r))
  /\ Admitted(r)
  /\ held' = [held EXCEPT ![r] = {Gate(r)}]
  /\ todo' = [todo EXCEPT ![r] = {x \in RowsOf(Of[r]) : Free(x)}]
  /\ phase' = [phase EXCEPT ![r] = "rows"]
  /\ UNCHANGED <<bookVars, seen, losses>>

PassGate(r) ==
  /\ phase[r] = "gate"
  /\ Free(Gate(r))
  /\ Admitted(r)
  /\ held' = [held EXCEPT ![r] = {Gate(r)}]
  /\ todo' = [todo EXCEPT ![r] = RowsOf(Of[r])]
  /\ phase' = [phase EXCEPT ![r] = "rows"]
  /\ UNCHANGED <<bookVars, seen, losses>>

StopAtGate(r) ==
  /\ phase[r] = "gate"
  /\ Free(Gate(r))
  /\ ~Admitted(r)
  /\ phase' = [phase EXCEPT ![r] = "ended"]
  /\ UNCHANGED <<bookVars, held, todo, seen, losses>>

\* Faulty variant: the rows are read without FOR UPDATE.
ReadRow(r, x) ==
  /\ phase[r] = "rows"
  /\ x \in NextRows(r)
  /\ held' = [held EXCEPT ![r] = @ \cup {x}]
  /\ todo' = [todo EXCEPT ![r] = @ \ {x}]
  /\ seen' = [seen EXCEPT ![r][x] = Current(x)]
  /\ UNCHANGED <<bookVars, phase, losses>>

\* READ COMMITTED: a row that was waited for is read as its last writer left it.
LockRow(r, x) ==
  /\ phase[r] = "rows"
  /\ x \in NextRows(r)
  /\ Free(x)
  /\ held' = [held EXCEPT ![r] = @ \cup {x}]
  /\ todo' = [todo EXCEPT ![r] = @ \ {x}]
  /\ seen' = [seen EXCEPT ![r][x] = Current(x)]
  /\ UNCHANGED <<bookVars, phase, losses>>

\* Open installments of the day that nobody has locked, the first ones by id.
Batch ==
  LET B == {x \in Due : status[x] \in {"SCHEDULED", "ANTICIPATED"} /\ Free(x)}
  IN  {x \in B : Cardinality({y \in B : Id[y] < Id[x]}) < BatchSize}

Take(r) ==
  /\ r \in Job
  /\ phase[r] = "rows"
  /\ held[r] = {}
  /\ Batch # {}
  /\ held' = [held EXCEPT ![r] = Batch]
  /\ seen' = [seen EXCEPT ![r] = [x \in Row |-> IF x \in Batch THEN Current(x) ELSE @[x]]]
  /\ UNCHANGED <<bookVars, phase, todo, losses>>

FinishJob(r) ==
  /\ r \in Job
  /\ phase[r] = "rows"
  /\ held[r] = {}
  /\ Batch = {}
  /\ phase' = [phase EXCEPT ![r] = "ended"]
  /\ UNCHANGED <<bookVars, held, todo, seen, losses>>

-----------------------------------------------------------------------------
(* Decision, UpdateAll and commit *)

Decides(r) == phase[r] = "rows" /\ todo[r] = {} /\ (r \in Job => held[r] # {})

Locked(r) == held[r] \cap Row

\* Simulate refuses the whole request for one installment it cannot anticipate.
Allowed(r) ==
  r \in Anticipation =>
    \A x \in Locked(r) : x \in Anticipable /\ seen[r][x].status = "SCHEDULED"

From(r) == IF r \in Anticipation \cup Cancellation THEN {"SCHEDULED"}
           ELSE {"SCHEDULED", "ANTICIPATED"}
To(r) == CASE r \in Anticipation -> "ANTICIPATED"
           [] r \in Chargeback   -> "CHARGEBACKED"
           [] r \in Cancellation -> "CANCELED"
           [] r \in Job          -> "SETTLED"

Changed(r) == {x \in Locked(r) : seen[r][x].status \in From(r)}

\* UPDATE ... WHERE version < the version read plus one.
Guarded(r) == \A x \in Changed(r) : version[x] < seen[r][x].version + 1

Commit(r) ==
  /\ Decides(r)
  /\ Allowed(r)
  /\ Guarded(r)
  /\ status' = [x \in Row |-> IF x \in Changed(r) THEN To(r) ELSE status[x]]
  /\ version' = [x \in Row |-> IF x \in Changed(r) THEN seen[r][x].version + 1 ELSE version[x]]
  /\ sale' = IF r \in Chargeback THEN [sale EXCEPT ![Of[r]] = "CHARGEBACKED"] ELSE sale
  /\ marked' = IF r \in Cancellation THEN marked \cup {Of[r]} ELSE marked
  /\ Close(r)
  /\ phase' = [phase EXCEPT ![r] = IF r \in Job THEN "rows" ELSE "ended"]
  /\ UNCHANGED <<seen, losses>>

\* Also for a lien, or a registry that does not answer.
Refuse(r) ==
  /\ Decides(r)
  /\ r \in Anticipation \/ ~Guarded(r)
  /\ Rollback(r)
  /\ UNCHANGED losses

\* A crash or an error of the database.
Lose(r) ==
  /\ phase[r] \in {"gate", "rows"}
  /\ losses < MaxLosses
  /\ losses' = losses + 1
  /\ Rollback(r)

\* PostgreSQL ends one transaction of a cycle.
BreakDeadlock(r) ==
  /\ todo[r] # {}
  /\ \E D \in SUBSET {q \in Request : todo[q] # {}} : r \in D /\ Cycle(D)
  /\ Rollback(r)
  /\ UNCHANGED losses

\* Lifecycle.Cancel locks nothing but the sale.
CancelSale(s) ==
  /\ Free(<<"sale", s>>)
  /\ sale[s] = "CAPTURED"
  /\ sale' = [sale EXCEPT ![s] = "CANCELED"]
  /\ UNCHANGED <<status, version, marked, lockVars, losses>>

-----------------------------------------------------------------------------
Init ==
  /\ sale = [s \in Sale |-> "CAPTURED"]
  /\ status = [x \in Row |-> "SCHEDULED"]
  /\ version = [x \in Row |-> 1]
  /\ marked = {}
  /\ phase = [r \in Request |-> "idle"]
  /\ held = [r \in Request |-> {}]
  /\ todo = [r \in Request |-> {}]
  /\ seen = [r \in Request |-> [x \in Row |-> [status |-> "SCHEDULED", version |-> 1]]]
  /\ losses = 0

Work(r) ==
  \/ PassGate(r)
  \/ StopAtGate(r)
  \/ \E x \in Row : LockRow(r, x)
  \/ Take(r)
  \/ FinishJob(r)
  \/ Commit(r)
  \/ Refuse(r)
  \/ BreakDeadlock(r)

Next ==
  \/ \E r \in Request : Begin(r) \/ Work(r) \/ Lose(r)
  \/ \E s \in Sale : CancelSale(s)

Spec == Init /\ [][Next]_vars

(* A request that has begun goes on, a lock that is free is given to one that waits,
   PostgreSQL looks for deadlocks, and the event of a cancellation is delivered. *)
Fairness ==
  /\ \A r \in Request : WF_vars(Work(r))
  /\ \A r \in Cancellation : WF_vars(Begin(r))

FairSpec == Spec /\ Fairness

-----------------------------------------------------------------------------
(* Properties *)

TypeOK ==
  /\ sale \in [Sale -> {"CAPTURED", "CANCELED", "CHARGEBACKED"}]
  /\ status \in [Row -> {"SCHEDULED", "ANTICIPATED", "SETTLED", "CANCELED", "CHARGEBACKED"}]
  /\ version \in [Row -> Nat]
  /\ marked \subseteq Sale
  /\ phase \in [Request -> {"idle", "gate", "rows", "ended"}]
  /\ held \in [Request -> SUBSET Resource]
  /\ todo \in [Request -> SUBSET Row]
  /\ seen \in [Request -> [Row -> RowState]]
  /\ losses \in Nat

\* Two requests of one kind of order never wait for each other in a circle, however many
\* there are: a deadlock has an anticipation, which locks by id, and a request on a sale,
\* which locks by number.
DeadlockNeedsTwoOrders ==
  \A D \in SUBSET Request :
    Deadlocked(D) => D \cap Anticipation # {} /\ D \cap BySale # {}

\* Whoever comes to write has read what is in the row now: under the locks the condition
\* on the version refuses nobody, so nobody is refused for a change that was not made.
VersionNeverRefuses == \A r \in Request : Decides(r) => Guarded(r)

Owed(r) == phase[r] # "idle" \/ (r \in Cancellation /\ sale[Of[r]] = "CANCELED")

\* A request that has begun ends, and a cancellation is handled: waiting for a row is
\* not for ever, also when the locks are taken in two orders.
EveryRequestEnds == \A r \in Request : Owed(r) ~> phase[r] = "ended"

Whole == INSTANCE WholeRequests

\* Locks taken one by one are as good as one step: a request changes all of its
\* installments or none, judged by the state they have at that moment.
ActsAsWhole == Whole!Spec
=============================================================================
