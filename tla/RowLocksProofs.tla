--------------------------- MODULE RowLocksProofs ---------------------------
(***************************************************************************)
(* What the row locks guarantee for any number of requests and rows.       *)
(***************************************************************************)
EXTENDS RowLocks, Sequences, WellFoundedInduction, TLAPS

(***************************************************************************)
(* The inductive invariant.                                                *)
(***************************************************************************)
Exclusive == \A q, r \in Request : q # r => held[q] \cap held[r] = {}

\* What is read under a lock stays true until the lock is given back.
SeenIsCurrent == \A r \in Request : \A x \in Locked(r) : seen[r][x] = Current(x)

\* What each request has locked and has still to lock.
Shape == \A r \in Request :
  /\ phase[r] \in {"idle", "ended", "gate"} => held[r] = {} /\ todo[r] = {}
  /\ phase[r] = "gate" => r \in BySale
  /\ phase[r] = "rows" /\ r \in BySale =>
       /\ Gate(r) \in held[r]
       /\ held[r] \cup todo[r] = {Gate(r)} \cup RowsOf(Of[r])
  /\ phase[r] = "rows" /\ r \in Anticipation => held[r] \cup todo[r] = Items[r]
  /\ phase[r] = "rows" /\ r \in Job => held[r] \subseteq Due /\ todo[r] = {}

\* A job holds rows it will settle.
JobHoldsOpen ==
  \A r \in Job : \A x \in held[r] : status[x] \in {"SCHEDULED", "ANTICIPATED"}

\* A request goes up in its order.
InOrder ==
  \A r \in Request : \A x \in Locked(r), y \in todo[r] : Place(r, x) < Place(r, y)

\* What a request was admitted for holds until it ends.
StillAdmitted == \A r \in Request :
  /\ r \in Cancellation /\ phase[r] \in {"gate", "rows"} => sale[Of[r]] = "CANCELED"
  /\ r \in BySale /\ phase[r] = "rows" => Admitted(r)

LockInv == TypeOK /\ Exclusive /\ SeenIsCurrent /\ Shape /\ JobHoldsOpen /\ InOrder /\ StillAdmitted

USE RowLocksAssumption

\* The gate of a request is no installment.
LEMMA GateFacts == \A r \in BySale : Gate(r) \in Gates /\ Gate(r) \notin Row
  BY DEF Gate, Gates

\* A request is of one kind.
LEMMA Kinds ==
  /\ \A r \in Request : r \in Anticipation => r \notin BySale /\ r \notin Job
  /\ \A r \in BySale : r \notin Job
  /\ \A r \in Chargeback : r \notin Cancellation
  /\ \A r \in Request : r \in Anticipation \/ r \in BySale \/ r \in Job
  BY DEF BySale, Request

-----------------------------------------------------------------------------
(* Initial states *)

\* LockInv holds at first.
LEMMA InitInv == Init => LockInv
<1>1. ASSUME Init PROVE TypeOK
  BY <1>1 DEF Init, TypeOK, RowState
<1>2. ASSUME Init PROVE Exclusive /\ SeenIsCurrent /\ JobHoldsOpen /\ InOrder
  BY <1>2 DEF Init, Exclusive, SeenIsCurrent, JobHoldsOpen, InOrder, Locked, Request
<1>3. ASSUME Init PROVE Shape /\ StillAdmitted
  BY <1>3 DEF Init, Shape, StillAdmitted
<1> QED BY <1>1, <1>2, <1>3 DEF LockInv

-----------------------------------------------------------------------------
(* Every step of a request keeps the invariant *)

\* A request that begins keeps LockInv: it holds nothing yet.
LEMMA BeginInv ==
  ASSUME LockInv, NEW r \in Request, Begin(r)
  PROVE  LockInv'
<1>1. TypeOK'
  BY DEF LockInv, TypeOK, RowState, Resource, Begin, bookVars, Request, BySale
<1>2. Exclusive'
  BY DEF LockInv, Exclusive, TypeOK, Begin, bookVars, Request, BySale
<1>3. SeenIsCurrent'
  BY DEF LockInv, SeenIsCurrent, Locked, Current, TypeOK, Begin, bookVars, Request, BySale
<1>4. Shape'
  BY DEF LockInv, Shape, TypeOK, Begin, bookVars, Request, BySale
<1>5. JobHoldsOpen'
  BY DEF LockInv, JobHoldsOpen, TypeOK, Begin, bookVars, Request, BySale
<1>6. InOrder'
  BY DEF LockInv, Shape, InOrder, Locked, Place, TypeOK, Begin, bookVars
<1>7. StillAdmitted'
  BY DEF LockInv, StillAdmitted, Admitted, TypeOK, Begin, bookVars, Request, BySale
<1> QED BY <1>1, <1>2, <1>3, <1>4, <1>5, <1>6, <1>7 DEF LockInv

\* A request that locks its gate keeps LockInv: the gate was free.
LEMMA PassGateInv ==
  ASSUME LockInv, NEW r \in Request, PassGate(r), r \in BySale
  PROVE  LockInv'
<1>0. held[r] = {} /\ todo[r] = {} /\ Gate(r) \in Gates /\ Gate(r) \notin Row
  BY GateFacts DEF LockInv, Shape, PassGate
<1>1. TypeOK'
  BY <1>0 DEF LockInv, TypeOK, RowState, Resource, PassGate, bookVars, RowsOf
<1>2. Exclusive'
  BY <1>0 DEF LockInv, Exclusive, TypeOK, PassGate, Free
<1>3. SeenIsCurrent'
  BY <1>0 DEF LockInv, SeenIsCurrent, Locked, Current, TypeOK, PassGate, bookVars
<1>4. Shape'
  BY <1>0, Kinds DEF LockInv, Shape, TypeOK, PassGate
<1>5. JobHoldsOpen'
  BY <1>0, Kinds DEF LockInv, JobHoldsOpen, TypeOK, PassGate, bookVars
<1>6. InOrder'
  BY <1>0 DEF LockInv, InOrder, Locked, TypeOK, PassGate
<1>7. StillAdmitted'
  BY DEF LockInv, StillAdmitted, Admitted, TypeOK, PassGate, bookVars, Free, RowsOf, Gate
<1> QED BY <1>1, <1>2, <1>3, <1>4, <1>5, <1>6, <1>7 DEF LockInv

\* A request refused at its gate keeps LockInv.
LEMMA StopAtGateInv ==
  ASSUME LockInv, NEW r \in Request, StopAtGate(r)
  PROVE  LockInv'
<1>1. TypeOK'
  BY DEF LockInv, TypeOK, RowState, Resource, StopAtGate, bookVars
<1>2. Exclusive'
  BY DEF LockInv, Exclusive, TypeOK, StopAtGate, bookVars
<1>3. SeenIsCurrent'
  BY DEF LockInv, SeenIsCurrent, Locked, Current, TypeOK, StopAtGate, bookVars
<1>4. Shape'
  BY DEF LockInv, Shape, TypeOK, StopAtGate, bookVars
<1>5. JobHoldsOpen'
  BY DEF LockInv, JobHoldsOpen, TypeOK, StopAtGate, bookVars
<1>6. InOrder'
  BY DEF LockInv, InOrder, Locked, Place, TypeOK, StopAtGate, bookVars
<1>7. StillAdmitted'
  BY DEF LockInv, StillAdmitted, Admitted, TypeOK, StopAtGate, bookVars
<1> QED BY <1>1, <1>2, <1>3, <1>4, <1>5, <1>6, <1>7 DEF LockInv

\* A request that locks its next row keeps LockInv: the row was free, and it reads it.
LEMMA LockRowInv ==
  ASSUME LockInv, NEW r \in Request, NEW x \in Row, LockRow(r, x)
  PROVE  LockInv'
<1>1. TypeOK'
  BY DEF LockInv, TypeOK, RowState, Resource, LockRow, NextRows, bookVars, Free, Current, RowsOf
<1>2. Exclusive'
  BY DEF LockInv, Exclusive, TypeOK, LockRow, NextRows, bookVars, Free, Current, RowsOf
<1>3. SeenIsCurrent'
  BY DEF LockInv, SeenIsCurrent, Locked, Current, TypeOK, LockRow, NextRows, bookVars, Free, Current, RowsOf
<1>4. Shape'
  BY DEF LockInv, Shape, TypeOK, LockRow, NextRows, bookVars, Free, Current, RowsOf
<1>5. JobHoldsOpen'
  <2>1. r \notin Job
    BY DEF LockInv, Shape, LockRow, NextRows
  <2> QED BY <2>1 DEF LockInv, JobHoldsOpen, TypeOK, LockRow, bookVars
<1>6. InOrder'
  <2>1. ASSUME NEW y \in todo[r], y # x
        PROVE  Place(r, x) < Place(r, y)
    <3>1. x \in Row /\ y \in Row /\ Place(r, x) <= Place(r, y)
      BY <2>1 DEF LockInv, TypeOK, LockRow, NextRows
    <3>2. CASE r \in Anticipation
      BY <2>1, <3>1, <3>2 DEF Place
    <3>3. CASE r \in BySale
      <4>1. SaleOf[x] = SaleOf[y]
        BY <2>1, <3>3, GateFacts DEF LockInv, Shape, TypeOK, LockRow, NextRows, RowsOf
      <4> QED BY <2>1, <3>1, <3>3, <4>1, Kinds DEF Place
    <3>4. r \notin Job
      BY <2>1 DEF LockInv, Shape, LockRow
    <3> QED BY <3>2, <3>3, <3>4, Kinds
  <2>2. ASSUME NEW y \in todo[r] \ {x}, NEW z \in (held[r] \cup {x}) \cap Row
        PROVE  Place(r, z) < Place(r, y)
    BY <2>1, <2>2 DEF LockInv, InOrder, Locked
  <2>3. \A q \in Request : \A a, b : Place(q, a)' = Place(q, a)
    BY DEF Place
  <2> QED BY <2>2 DEF LockInv, InOrder, Locked, Place, TypeOK, LockRow
<1>7. StillAdmitted'
  BY DEF LockInv, StillAdmitted, Admitted, TypeOK, LockRow, NextRows, bookVars, Free, Current, RowsOf
<1> QED BY <1>1, <1>2, <1>3, <1>4, <1>5, <1>6, <1>7 DEF LockInv

\* A job that takes a batch keeps LockInv: it skips what is locked.
LEMMA TakeInv ==
  ASSUME LockInv, NEW r \in Request, Take(r)
  PROVE  LockInv'
<1>1. TypeOK'
  BY DEF LockInv, TypeOK, RowState, Resource, Take, Batch, bookVars, Free, Current
<1>2. Exclusive'
  BY DEF LockInv, Exclusive, TypeOK, Take, Batch, bookVars, Free, Current
<1>3. SeenIsCurrent'
  BY DEF LockInv, SeenIsCurrent, Locked, Current, TypeOK, Take, Batch, bookVars, Free, Current
<1>4. Shape'
  BY DEF LockInv, Shape, TypeOK, Take, Batch, bookVars, Free, Current
<1>5. JobHoldsOpen'
  BY DEF LockInv, JobHoldsOpen, TypeOK, Take, Batch, bookVars, Free, Current
<1>6. InOrder'
  BY DEF LockInv, Shape, InOrder, Locked, Place, TypeOK, Take
<1>7. StillAdmitted'
  BY DEF LockInv, StillAdmitted, Admitted, TypeOK, Take, Batch, bookVars, Free, Current
<1> QED BY <1>1, <1>2, <1>3, <1>4, <1>5, <1>6, <1>7 DEF LockInv

\* A job that finds nothing keeps LockInv.
LEMMA FinishJobInv ==
  ASSUME LockInv, NEW r \in Request, FinishJob(r)
  PROVE  LockInv'
<1>1. TypeOK'
  BY DEF LockInv, TypeOK, RowState, Resource, FinishJob, bookVars
<1>2. Exclusive'
  BY DEF LockInv, Exclusive, TypeOK, FinishJob, bookVars
<1>3. SeenIsCurrent'
  BY DEF LockInv, SeenIsCurrent, Locked, Current, TypeOK, FinishJob, bookVars
<1>4. Shape'
  BY DEF LockInv, Shape, TypeOK, FinishJob, bookVars
<1>5. JobHoldsOpen'
  BY DEF LockInv, JobHoldsOpen, TypeOK, FinishJob, bookVars
<1>6. InOrder'
  BY DEF LockInv, InOrder, Locked, Place, TypeOK, FinishJob, bookVars
<1>7. StillAdmitted'
  BY DEF LockInv, StillAdmitted, Admitted, TypeOK, FinishJob, bookVars
<1> QED BY <1>1, <1>2, <1>3, <1>4, <1>5, <1>6, <1>7 DEF LockInv

\* A request that is rolled back keeps LockInv: it wrote nothing.
LEMMA RollbackInv ==
  ASSUME LockInv, NEW r \in Request, Rollback(r), losses' \in Nat
  PROVE  LockInv'
<1>1. TypeOK'
  BY DEF LockInv, TypeOK, RowState, Resource, Rollback, Close, bookVars
<1>2. Exclusive'
  BY DEF LockInv, Exclusive, TypeOK, Rollback, Close, bookVars
<1>3. SeenIsCurrent'
  BY DEF LockInv, SeenIsCurrent, Locked, Current, TypeOK, Rollback, Close, bookVars
<1>4. Shape'
  BY DEF LockInv, Shape, TypeOK, Rollback, Close, bookVars
<1>5. JobHoldsOpen'
  BY DEF LockInv, JobHoldsOpen, TypeOK, Rollback, Close, bookVars
<1>6. InOrder'
  BY DEF LockInv, InOrder, Locked, Place, TypeOK, Rollback, Close, bookVars
<1>7. StillAdmitted'
  BY DEF LockInv, StillAdmitted, Admitted, TypeOK, Rollback, Close, bookVars
<1> QED BY <1>1, <1>2, <1>3, <1>4, <1>5, <1>6, <1>7 DEF LockInv

\* A request that commits keeps LockInv: what it writes nobody else has read.
LEMMA CommitInv ==
  ASSUME LockInv, NEW r \in Request, Commit(r)
  PROVE  LockInv'
<1>a. To(r) \in {"ANTICIPATED", "CHARGEBACKED", "CANCELED", "SETTLED"}
  BY DEF To, Request, BySale
<1>b. Changed(r) \subseteq held[r] \cap Row
  BY DEF Changed, Locked
<1>c. ASSUME NEW q \in Request, q # r, NEW x \in held[q]
      PROVE  x \notin Changed(r)
  BY <1>b, <1>c DEF LockInv, Exclusive
<1>d. r \in BySale => Of[r] \in Sale
  OBVIOUS
<1>1. TypeOK'
  <2>1. sale' \in [Sale -> {"CAPTURED", "CANCELED", "CHARGEBACKED"}] /\ marked' \subseteq Sale
    BY <1>d DEF LockInv, TypeOK, Commit, BySale
  <2>2. status' \in [Row -> {"SCHEDULED", "ANTICIPATED", "SETTLED", "CANCELED", "CHARGEBACKED"}]
    BY <1>a DEF LockInv, TypeOK, Commit
  <2>3. version' \in [Row -> Nat]
    BY DEF LockInv, TypeOK, RowState, Commit
  <2> QED BY <2>1, <2>2, <2>3 DEF LockInv, TypeOK, Commit, Close
<1>2. Exclusive'
  BY DEF LockInv, Exclusive, TypeOK, Commit, Decides, Close, Changed, From, To, Locked, Current
<1>3. SeenIsCurrent'
  BY <1>c DEF LockInv, SeenIsCurrent, Locked, Current, TypeOK, Commit, Close
<1>4. Shape'
  BY Kinds DEF LockInv, Shape, TypeOK, Commit, Decides, Close
<1>5. JobHoldsOpen'
  <2> SUFFICES ASSUME NEW q \in Job, NEW x \in held'[q]
               PROVE  status'[x] \in {"SCHEDULED", "ANTICIPATED"}
    BY DEF JobHoldsOpen
  <2>1. q \in Request /\ q # r /\ x \in held[q]
    BY DEF LockInv, TypeOK, Commit, Close, Request
  <2>2. x \in Row
    BY <2>1 DEF LockInv, Shape, TypeOK
  <2> QED BY <1>c, <2>1, <2>2 DEF LockInv, JobHoldsOpen, Commit
<1>6. InOrder'
  BY DEF LockInv, InOrder, Locked, Place, TypeOK, Commit, Decides, Close, Changed, From, To, Locked, Current
<1>7. StillAdmitted'
  <2> SUFFICES ASSUME NEW q \in Request, q # r, phase[q] \in {"gate", "rows"}
               PROVE  /\ q \in Cancellation => sale'[Of[q]] = "CANCELED"
                      /\ q \in BySale /\ phase[q] = "rows" => Admitted(q)'
    BY Kinds DEF StillAdmitted, LockInv, TypeOK, Commit, Decides, BySale
  <2>1. q \in BySale => Of[q] \in Sale
    OBVIOUS
  <2>2. ASSUME q \in BySale, phase[q] = "rows", r \in BySale
        PROVE  Gate(q) # Gate(r)
    BY <2>2 DEF LockInv, Shape, Exclusive, Commit, Decides
  <2>3. r \in Chargeback => sale[Of[r]] \in {"CAPTURED", "SETTLED"}
    BY DEF LockInv, StillAdmitted, Admitted, Commit, Decides, BySale
  <2>4. q \in Cancellation => sale'[Of[q]] = "CANCELED"
    BY <2>1, <2>3 DEF LockInv, StillAdmitted, TypeOK, Commit, BySale
  <2>5. ASSUME q \in BySale, phase[q] = "rows" PROVE Admitted(q)'
    <3>1. Admitted(q)
      BY <2>5 DEF LockInv, StillAdmitted
    <3>2. CASE q \in Chargeback
      BY <2>1, <2>2, <2>5, <3>1, <3>2, Kinds DEF Admitted, Gate, LockInv, TypeOK, Commit, BySale
    <3>3. CASE q \in Cancellation
      BY <2>1, <2>2, <2>5, <3>1, <3>3, Kinds DEF Admitted, Gate, LockInv, TypeOK, Commit, BySale
    <3> QED BY <2>5, <3>2, <3>3 DEF BySale
  <2> QED BY <2>4, <2>5
<1> QED BY <1>1, <1>2, <1>3, <1>4, <1>5, <1>6, <1>7 DEF LockInv

\* The cancellation of a sale keeps LockInv.
LEMMA CancelSaleInv ==
  ASSUME LockInv, NEW s \in Sale, CancelSale(s)
  PROVE  LockInv'
<1> USE DEF lockVars
<1>1. TypeOK'
  BY DEF LockInv, TypeOK, CancelSale
<1>2. Exclusive' /\ SeenIsCurrent' /\ Shape' /\ JobHoldsOpen' /\ InOrder'
  BY DEF LockInv, Exclusive, SeenIsCurrent, Shape, JobHoldsOpen, InOrder, Locked, Current, Place,
         CancelSale
<1>3. StillAdmitted'
  <2>1. \A r \in Chargeback : phase[r] = "rows" => Of[r] # s
    BY DEF LockInv, Shape, CancelSale, Free, Gate, Request, BySale
  <2> QED BY <2>1, Kinds DEF LockInv, StillAdmitted, Admitted, TypeOK, CancelSale, BySale
<1> QED BY <1>1, <1>2, <1>3 DEF LockInv

\* Every step keeps LockInv.
LEMMA NextInv == LockInv /\ [Next]_vars => LockInv'
<1> SUFFICES ASSUME LockInv, [Next]_vars PROVE LockInv'
  OBVIOUS
<1>1. ASSUME NEW r \in Request, Begin(r) PROVE LockInv'
  BY <1>1, BeginInv
<1>2. ASSUME NEW r \in Request, PassGate(r) PROVE LockInv'
  <2>1. r \in BySale
    BY <1>2 DEF LockInv, Shape, PassGate
  <2> QED BY <1>2, <2>1, PassGateInv
<1>3. ASSUME NEW r \in Request, StopAtGate(r) PROVE LockInv'
  BY <1>3, StopAtGateInv
<1>4. ASSUME NEW r \in Request, NEW x \in Row, LockRow(r, x) PROVE LockInv'
  BY <1>4, LockRowInv
<1>5. ASSUME NEW r \in Request, Take(r) PROVE LockInv'
  BY <1>5, TakeInv
<1>6. ASSUME NEW r \in Request, FinishJob(r) PROVE LockInv'
  BY <1>6, FinishJobInv
<1>7. ASSUME NEW r \in Request, Commit(r) PROVE LockInv'
  BY <1>7, CommitInv
<1>8. ASSUME NEW r \in Request, Rollback(r), losses' \in {losses, losses + 1} PROVE LockInv'
  <2>1. losses' \in Nat
    BY <1>8 DEF LockInv, TypeOK
  <2> QED BY <1>8, <2>1, RollbackInv
<1>9. ASSUME NEW r \in Request, Refuse(r) \/ BreakDeadlock(r) \/ Lose(r) PROVE LockInv'
  BY <1>8, <1>9 DEF Refuse, BreakDeadlock, Lose
<1>10. ASSUME NEW s \in Sale, CancelSale(s) PROVE LockInv'
  BY <1>10, CancelSaleInv
<1>11. CASE UNCHANGED vars
  BY <1>11 DEF vars, bookVars, lockVars, LockInv, TypeOK, Exclusive, SeenIsCurrent, Shape, JobHoldsOpen,
               InOrder, StillAdmitted, Locked, Current, Place, Admitted
<1> QED BY <1>1, <1>2, <1>3, <1>4, <1>5, <1>6, <1>7, <1>9, <1>10, <1>11 DEF Next, Work

\* The inductive invariant: locks exclude each other, what was read under a lock is
\* current, every request holds what its query has come to and goes up in its order.
THEOREM LockInvariant == Spec => []LockInv
  BY InitInv, NextInv, PTL DEF Spec

\* The variables stay in their types.
THEOREM TypeCorrect == Spec => []TypeOK
<1>1. LockInv => TypeOK
  BY DEF LockInv
<1> QED BY <1>1, LockInvariant, PTL

-----------------------------------------------------------------------------
(* The condition on the version *)

\* Status and version of a locked row are what was read of them.
LEMMA SeenFields ==
  ASSUME LockInv, NEW r \in Request, NEW x \in Locked(r)
  PROVE  /\ seen[r][x].status = status[x]
         /\ seen[r][x].version = version[x]
         /\ version[x] \in Nat
<1>1. seen[r][x] = [status |-> status[x], version |-> version[x]]
  BY DEF LockInv, SeenIsCurrent, Current
<1>2. x \in Row
  BY DEF Locked
<1> QED BY <1>1, <1>2 DEF LockInv, TypeOK

\* For any number of requests: the condition `version < ...` of UpdateAll never refuses
\* a request that has locked the rows it read.
THEOREM VersionCorrect == Spec => []VersionNeverRefuses
<1>1. LockInv => VersionNeverRefuses
  BY SeenFields DEF VersionNeverRefuses, Guarded, Changed
<1> QED BY <1>1, LockInvariant, PTL

-----------------------------------------------------------------------------
(* Requests act as a whole *)

\* A commit is a step of the whole request.
LEMMA CommitIsWhole ==
  ASSUME LockInv, NEW r \in Request, Commit(r)
  PROVE  Whole!Next
<1> USE DEF Whole!Move, Whole!Open, Whole!Disputable, Whole!RowsOf
<1>1. Changed(r) = {x \in Locked(r) : status[x] \in From(r)}
  BY SeenFields DEF Changed
<1>2. status' = [x \in Row |-> IF x \in Locked(r) /\ status[x] \in From(r) THEN To(r) ELSE status[x]]
  BY <1>1 DEF Commit
<1>3. CASE r \in Anticipation
  <2>1. Locked(r) = Items[r]
    BY <1>3, Kinds DEF LockInv, Shape, Locked, Commit, Decides
  <2>2. \A x \in Items[r] : x \in Anticipable /\ status[x] = "SCHEDULED"
    BY <1>3, <2>1, SeenFields DEF Commit, Allowed
  <2>3. From(r) = {"SCHEDULED"} /\ To(r) = "ANTICIPATED"
    BY <1>3, Kinds DEF From, To, BySale
  <2>4. UNCHANGED <<sale, marked>>
    BY <1>3, Kinds DEF Commit, BySale
  <2>5. Whole!Anticipate(r)
    BY <1>2, <2>1, <2>2, <2>3, <2>4 DEF Whole!Anticipate
  <2> QED BY <1>3, <2>5 DEF Whole!Next
<1>4. CASE r \in BySale
  <2>1. Locked(r) = RowsOf(Of[r]) /\ Of[r] \in Sale
    BY <1>4, GateFacts DEF LockInv, Shape, Locked, Commit, Decides, RowsOf
  <2>2. Admitted(r)
    BY <1>4 DEF LockInv, StillAdmitted, Commit, Decides
  <2>3. CASE r \in Chargeback
    <3>1. From(r) = {"SCHEDULED", "ANTICIPATED"} /\ To(r) = "CHARGEBACKED"
      BY <2>3, Kinds DEF From, To, BySale, Request
    <3>2. Whole!Dispute(Of[r])
      BY <1>2, <2>1, <2>2, <2>3, <3>1, Kinds DEF Whole!Dispute, Admitted, Commit, RowsOf
    <3> QED BY <2>1, <3>2 DEF Whole!Next
  <2>4. CASE r \in Cancellation
    <3>0. r \notin Chargeback /\ r \notin Anticipation
      BY <2>4, Kinds DEF BySale, Request
    <3>1. From(r) = {"SCHEDULED"} /\ To(r) = "CANCELED"
      BY <2>4, <3>0 DEF From, To
    <3>2. sale[Of[r]] = "CANCELED"
      BY <2>4 DEF LockInv, StillAdmitted, Commit, Decides
    <3>3. Whole!CloseAgenda(Of[r])
      BY <1>2, <2>1, <2>2, <2>4, <3>0, <3>1, <3>2 DEF Whole!CloseAgenda, Admitted, Commit, RowsOf
    <3> QED BY <2>1, <3>3 DEF Whole!Next
  <2> QED BY <1>4, <2>3, <2>4 DEF BySale
<1>5. CASE r \in Job
  <2>0. r \notin Anticipation /\ r \notin Chargeback /\ r \notin Cancellation
    BY <1>5, Kinds DEF BySale
  <2>1. Locked(r) = held[r] /\ held[r] \in SUBSET Due
    BY <1>5 DEF LockInv, Shape, Locked, Commit, Decides
  <2>2. \A x \in held[r] : status[x] \in {"SCHEDULED", "ANTICIPATED"}
    BY <1>5 DEF LockInv, JobHoldsOpen
  <2>3. From(r) = {"SCHEDULED", "ANTICIPATED"} /\ To(r) = "SETTLED"
    BY <1>5, <2>0 DEF From, To
  <2>4. Whole!Settle(held[r])
    BY <1>2, <2>0, <2>1, <2>2, <2>3 DEF Whole!Settle, Commit
  <2> QED BY <2>1, <2>4 DEF Whole!Next
<1> QED BY <1>3, <1>4, <1>5, Kinds

\* Every step is one of the whole requests, or changes nothing of theirs.
LEMMA StepIsWhole == LockInv /\ [Next]_vars => [Whole!Next]_(Whole!vars)
<1> SUFFICES ASSUME LockInv, [Next]_vars PROVE Whole!Next \/ UNCHANGED Whole!vars
  OBVIOUS
<1> USE DEF Whole!vars
<1>1. ASSUME NEW r \in Request, Commit(r) PROVE Whole!Next
  BY <1>1, CommitIsWhole
<1>2. ASSUME NEW s \in Sale, CancelSale(s) PROVE Whole!Next
  BY <1>2 DEF CancelSale, Whole!CancelSale, Whole!Next
<1>3. ASSUME NEW r \in Request, Rollback(r) PROVE UNCHANGED Whole!vars
  BY <1>3 DEF Rollback, bookVars
<1>4. ASSUME NEW r \in Request,
             \/ Begin(r) \/ PassGate(r) \/ StopAtGate(r) \/ Take(r) \/ FinishJob(r)
             \/ \E x \in Row : LockRow(r, x)
      PROVE  UNCHANGED Whole!vars
  BY <1>4 DEF Begin, PassGate, StopAtGate, Take, FinishJob, LockRow, bookVars
<1>5. CASE UNCHANGED vars
  BY <1>5 DEF vars, bookVars
<1> QED BY <1>1, <1>2, <1>3, <1>4, <1>5 DEF Next, Work, Refuse, Lose, BreakDeadlock

\* Locking row by row, for any number of requests and rows, changes rows as if every
\* request took one step.
THEOREM WholeCorrect == Spec => ActsAsWhole
<1>1. Init => Whole!Init
  BY DEF Init, Whole!Init
<1> QED BY <1>1, StepIsWhole, LockInvariant, PTL DEF Spec, ActsAsWhole, Whole!Spec

-----------------------------------------------------------------------------
(* The promise to the merchant (Payout), its amounts left aside: this module has no money. *)

rowState == [x \in Row |->
  CASE status[x] = "SCHEDULED"   -> "open"
    [] status[x] = "ANTICIPATED" -> "advanced"
    [] status[x] = "SETTLED"     -> "settled"
    [] OTHER                     -> "void"]

noCash == [x \in Row |-> 0]

Life == INSTANCE Payout WITH
  Rcv <- Row, NetValue <- noCash, PV <- noCash, state <- rowState, cash <- noCash

\* What a request that acts as a whole may do with a row.
LEMMA WholeMovesRow ==
  ASSUME TypeOK, Whole!Next, NEW x \in Row
  PROVE  \/ status'[x] = status[x]
         \/ /\ status[x] = "SCHEDULED"
            /\ status'[x] \in {"ANTICIPATED", "SETTLED", "CHARGEBACKED", "CANCELED"}
         \/ status[x] = "ANTICIPATED" /\ status'[x] \in {"SETTLED", "CHARGEBACKED"}
<1> USE DEF Whole!Move, Whole!Open
<1>1. ASSUME NEW r \in Anticipation, Whole!Anticipate(r)
      PROVE  \/ status'[x] = status[x]
             \/ status[x] = "SCHEDULED" /\ status'[x] = "ANTICIPATED"
  BY <1>1 DEF Whole!Anticipate
<1>2. ASSUME NEW s \in Sale, Whole!Dispute(s)
      PROVE  \/ status'[x] = status[x]
             \/ status[x] \in {"SCHEDULED", "ANTICIPATED"} /\ status'[x] = "CHARGEBACKED"
  BY <1>2 DEF Whole!Dispute
<1>3. ASSUME NEW s \in Sale, Whole!CloseAgenda(s)
      PROVE  \/ status'[x] = status[x]
             \/ status[x] = "SCHEDULED" /\ status'[x] = "CANCELED"
  BY <1>3 DEF Whole!CloseAgenda
<1>4. ASSUME NEW S \in SUBSET Due, Whole!Settle(S)
      PROVE  \/ status'[x] = status[x]
             \/ status[x] \in {"SCHEDULED", "ANTICIPATED"} /\ status'[x] = "SETTLED"
  BY <1>4 DEF Whole!Settle
<1>5. ASSUME NEW s \in Sale, Whole!CancelSale(s) PROVE status'[x] = status[x]
  BY <1>5 DEF Whole!CancelSale
<1>6. QED
  BY <1>1, <1>2, <1>3, <1>4, <1>5 DEF Whole!Next

\* A request that acts as a whole does with every row what Payout allows.
LEMMA WholeIsPayout ==
  ASSUME TypeOK, Whole!Next
  PROVE  Life!Next
<1>1. rowState' \in [Row -> Life!State]
  BY DEF rowState, Life!State
<1>2. noCash \in [Row -> Int] /\ noCash' = noCash
  BY DEF noCash
<1>3. ASSUME NEW x \in Row
      PROVE  \/ Life!Open(x) \/ Life!Advance(x) \/ Life!Pay(x)
             \/ Life!Retain(x) \/ Life!Void(x) \/ Life!Keep(x)
  <2>1. noCash[x] = 0 /\ noCash'[x] = 0
    BY DEF noCash
  <2>2. CASE status'[x] = status[x]
    BY <2>1, <2>2 DEF rowState, Life!Keep
  <2>3. CASE status[x] = "SCHEDULED" /\ status'[x] = "ANTICIPATED"
    BY <2>1, <2>3 DEF rowState, Life!Advance, Life!Becomes
  <2>4. CASE status[x] = "SCHEDULED" /\ status'[x] = "SETTLED"
    BY <2>1, <2>4 DEF rowState, Life!Pay, Life!Becomes
  <2>5. CASE status[x] = "ANTICIPATED" /\ status'[x] = "SETTLED"
    BY <2>1, <2>5 DEF rowState, Life!Retain, Life!Becomes
  <2>6. CASE /\ status[x] \in {"SCHEDULED", "ANTICIPATED"}
             /\ status'[x] \in {"CHARGEBACKED", "CANCELED"}
    BY <2>1, <2>6 DEF rowState, Life!Void, Life!Becomes
  <2>7. QED
    BY <2>2, <2>3, <2>4, <2>5, <2>6, WholeMovesRow
<1>4. QED
  BY <1>1, <1>2, <1>3 DEF Life!Next

\* Whatever requests take their locks, wait, are refused, lost, repeated or broken out of a
\* deadlock, in any order, no row leaves the way of Payout: paid for once in advance or on
\* its day, and nothing after it is settled or void. (Init has every row open.)
THEOREM RowLocksImplementPayout == Spec => [][Life!Next]_<<rowState, noCash>>
<1>1. LockInv /\ [Next]_vars => [Life!Next]_<<rowState, noCash>>
  <2> SUFFICES ASSUME LockInv, [Next]_vars
               PROVE  Life!Next \/ UNCHANGED <<rowState, noCash>>
    OBVIOUS
  <2>1. Whole!Next \/ UNCHANGED Whole!vars
    BY StepIsWhole
  <2>2. CASE Whole!Next
    BY <2>2, WholeIsPayout DEF LockInv
  <2>3. CASE UNCHANGED Whole!vars
    BY <2>3 DEF Whole!vars, rowState, noCash
  <2>4. QED
    BY <2>1, <2>2, <2>3
<1> QED BY <1>1, LockInvariant, PTL DEF Spec

-----------------------------------------------------------------------------
(* Deadlocks *)

\* The least number with a property, from the well-founded order of the naturals.
LEMMA Least ==
  ASSUME NEW T \in SUBSET Nat, T # {}
  PROVE  \E k \in T : \A j \in T : k <= j
<1> DEFINE Less == {p \in Nat \X Nat : p[1] < p[2]}
<1>1. IsWellFoundedOn(Less, Nat)
  BY NatLessThanWellFounded DEF OpToRel
<1>2. \E k \in T : \A j \in T : <<j, k>> \notin Less
  BY <1>1, WFMin
<1>3. \A j, k \in Nat : j < k => <<j, k>> \in Less
  OBVIOUS
<1> HIDE DEF Less
<1>4. PICK k \in T : \A j \in T : <<j, k>> \notin Less
  BY <1>2
<1>5. \A j \in T : ~(j < k)
  BY <1>3, <1>4, Zenon
<1> QED BY <1>5

\* The values of a function on a finite set are bounded.
LEMMA Bounded ==
  ASSUME NEW f \in [Row -> Nat]
  PROVE  \E b \in Nat : \A x \in Row : f[x] <= b
<1>1. PICK s \in Seq(Row) : \A x \in Row : \E n \in 1..Len(s) : s[n] = x
  BY DEF IsFiniteSet
<1> DEFINE Under(k, b) == \A n \in 1..Len(s) : n <= k => f[s[n]] <= b
           Bad == {k \in Nat : ~ \E b \in Nat : Under(k, b)}
<1>2. \A n \in 1..Len(s) : f[s[n]] \in Nat
  OBVIOUS
<1>3. Under(0, 0)
  OBVIOUS
<1>4. ASSUME NEW k \in Nat \ {0}, NEW b \in Nat, Under(k - 1, b)
      PROVE  \E c \in Nat : Under(k, c)
  <2>1. CASE k \in 1..Len(s)
    <3> DEFINE c == IF f[s[k]] <= b THEN b ELSE f[s[k]]
    <3>1. c \in Nat /\ b <= c /\ f[s[k]] <= c
      BY <1>2, <2>1
    <3>2. ASSUME NEW n \in 1..Len(s), n <= k PROVE f[s[n]] <= c
      <4>1. CASE n = k
        BY <3>1, <4>1
      <4>2. CASE n # k
        <5>1. n <= k - 1
          BY <3>2, <4>2
        <5>2. f[s[n]] <= b /\ f[s[n]] \in Nat
          BY <1>2, <1>4, <5>1
        <5> QED BY <3>1, <5>2
      <4> QED BY <4>1, <4>2
    <3> QED BY <3>1, <3>2
  <2>2. CASE k \notin 1..Len(s)
    <3>1. \A n \in 1..Len(s) : n <= k => n <= k - 1
      BY <2>2
    <3>2. Under(k, b)
      BY <1>4, <3>1
    <3> QED BY <3>2
  <2> QED BY <2>1, <2>2
<1>5. Bad = {}
  <2> SUFFICES ASSUME Bad # {} PROVE FALSE
    OBVIOUS
  <2>1. PICK k \in Bad : \A j \in Bad : k <= j
    BY Least
  <2>2. k \in Nat \ {0}
    BY <1>3
  <2>3. k - 1 \in Nat /\ ~(k <= k - 1)
    BY <2>2
  <2>4. PICK b \in Nat : Under(k - 1, b)
    BY <2>1, <2>3
  <2>5. \E c \in Nat : Under(k, c)
    BY <1>4, <2>2, <2>4
  <2> QED BY <2>2, <2>5
<1>6. Len(s) \in Nat
  OBVIOUS
<1>7. PICK b \in Nat : Under(Len(s), b)
  BY <1>5, <1>6
<1>8. \A x \in Row : f[x] <= b
  <2> TAKE x \in Row
  <2>1. PICK n \in 1..Len(s) : s[n] = x
    BY <1>1
  <2>2. n <= Len(s)
    BY <1>6
  <2> QED BY <1>7, <2>1, <2>2
<1> QED BY <1>8

\* Among finitely many rows no value is topped by another for ever.
LEMMA Topped ==
  ASSUME NEW f \in [Row -> Nat], NEW T \in SUBSET Row, T # {},
         \A x \in T : \E y \in T : f[x] < f[y]
  PROVE  FALSE
<1>1. PICK b \in Nat : \A x \in Row : f[x] <= b
  BY Bounded
<1> DEFINE Gaps == {b - f[x] : x \in T}
<1>2. Gaps \in SUBSET Nat /\ Gaps # {}
  BY <1>1
<1>3. PICK k \in Gaps : \A j \in Gaps : k <= j
  BY <1>2, Least
<1>4. PICK x \in T, y \in T : k = b - f[x] /\ f[x] < f[y]
  OBVIOUS
<1>5. b - f[y] \in Gaps
  OBVIOUS
<1> HIDE DEF Gaps
<1>6. k <= b - f[y]
  BY <1>3, <1>5
<1> QED BY <1>4, <1>6

\* Who holds a row and waits, waits for a row that is further in its order.
LEMMA WaitsFurther ==
  ASSUME LockInv, NEW D \in SUBSET Request, Deadlocked(D),
         NEW q \in D, NEW x \in held[q]
  PROVE  /\ q \notin Job
         /\ \E y \in Row : /\ x \in Row => Place(q, x) < Place(q, y)
                          /\ \E p \in D : y \in held[p]
<1>1. phase[q] = "rows"
  BY DEF LockInv, Shape, TypeOK
<1>2. PICK p \in D : \E z \in held[p] : Wants(q, z)
  BY DEF Deadlocked, WaitsFor
<1>a. PICK y \in held[p] : Wants(q, y)
  BY <1>2
<1>3. y \in todo[q] /\ y \in Row
  BY <1>1, <1>a DEF Wants, NextRows, LockInv, TypeOK
<1>4. q \notin Job
  BY <1>1, <1>3 DEF LockInv, Shape
<1>5. x \in Row => Place(q, x) < Place(q, y)
  BY <1>3 DEF LockInv, InOrder, Locked
<1> QED BY <1>a, <1>3, <1>4, <1>5

\* For any number of requests, sales and installments: requests that lock in the same
\* order do not deadlock among themselves; the job never waits.
THEOREM DeadlockCorrect == Spec => []DeadlockNeedsTwoOrders
<1>1. ASSUME LockInv, NEW D \in SUBSET Request, Deadlocked(D),
             NEW f \in [Row -> Nat], \A q \in D \ Job : \A x \in Row : Place(q, x) = f[x]
      PROVE  FALSE
  <2> DEFINE T == {x \in Row : \E q \in D : x \in held[q]}
  <2>1. T # {}
    <3>1. PICK q \in D : TRUE
      BY <1>1 DEF Deadlocked
    <3>2. PICK p \in D : held[p] # {}
      BY <1>1, <3>1 DEF Deadlocked, WaitsFor
    <3> QED BY <1>1, <3>2, WaitsFurther
  <2>2. ASSUME NEW x \in T PROVE \E y \in T : f[x] < f[y]
    <3>1. PICK q \in D : x \in held[q]
      BY <2>2
    <3>2. q \notin Job
      BY <1>1, <3>1, WaitsFurther
    <3>3. PICK y \in Row : Place(q, x) < Place(q, y) /\ \E p \in D : y \in held[p]
      BY <1>1, <3>1, WaitsFurther
    <3>4. f[x] < f[y]
      BY <1>1, <3>2, <3>3
    <3> QED BY <3>3, <3>4
  <2> HIDE DEF T
  <2>3. T \in SUBSET Row
    BY DEF T
  <2> QED BY <1>1, <2>1, <2>2, <2>3, Topped
<1>2. ASSUME LockInv, NEW D \in SUBSET Request, Deadlocked(D)
      PROVE  D \cap Anticipation # {} /\ D \cap BySale # {}
  <2>1. ASSUME D \cap Anticipation = {} PROVE FALSE
    <3>1. \A q \in D \ Job : \A x \in Row : Place(q, x) = No[x]
      BY <2>1 DEF Place
    <3> QED BY <1>1, <1>2, <3>1
  <2>2. ASSUME D \cap BySale = {} PROVE FALSE
    <3>1. \A q \in D \ Job : \A x \in Row : Place(q, x) = Id[x]
      BY <2>2, Kinds DEF Place
    <3> QED BY <1>1, <1>2, <3>1
  <2> QED BY <2>1, <2>2
<1>3. LockInv => DeadlockNeedsTwoOrders
  BY <1>2 DEF DeadlockNeedsTwoOrders
<1> QED BY <1>3, LockInvariant, PTL

=============================================================================
