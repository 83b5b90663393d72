-------------------------- MODULE SettlementProofs --------------------------
(***************************************************************************)
(* Theorems about Settlement, for any number of pods, merchants and        *)
(* installments, any amounts, claims and batch size, and any number of     *)
(* failures.                                                               *)
(*                                                                         *)
(* Two invariants carry them. LockInv is about the lock of Redis alone.    *)
(* BatchInv is about the row locks of the database and needs nothing of    *)
(* the lock of Redis: it holds with any number of jobs at work.            *)
(***************************************************************************)
EXTENDS Settlement, Sums

-----------------------------------------------------------------------------
(* The lock of the day *)

\* The pod in the lock has started, and so has one whose lock expired; of these, only
\* one started by hand still works.
LockInv ==
  /\ pc \in [Pod -> PodState]
  /\ holder \in Pod \cup {NoPod}
  /\ \A p \in Pod : holder = p => pc[p] # "idle"
  /\ \A p \in Pod : p \in expired => pc[p] # "idle"
  /\ \A p \in Pod \ ByHand : p \in expired => ~Working(p)
  /\ LockHeldWhileWorking

\* LockInv holds at first and every step keeps it.
LEMMA LockInvInductive ==
  /\ Init => LockInv
  /\ LockInv /\ [Next]_vars => LockInv'
<1> USE SettlementAssumption DEF LockInv, LockHeldWhileWorking, Working, PodState
<1>1. Init => LockInv
  BY DEF Init
<1>2. ASSUME LockInv, [Next]_vars PROVE LockInv'
  <2> USE <1>2
  <2>1. ASSUME NEW p \in Pod, Start(p) PROVE LockInv'
    BY <2>1 DEF Start
  <2>2. ASSUME NEW p \in Pod, ListDue(p) PROVE LockInv'
    <3>1. CASE pc' = [pc EXCEPT ![p] = "batch"] /\ UNCHANGED holder
      BY <2>2, <3>1 DEF ListDue
    <3>2. CASE pc' = [pc EXCEPT ![p] = "done"] /\ Release(p)
      BY <2>2, <3>2 DEF ListDue, Release
    <3>3. QED
      BY <2>2, <3>1, <3>2 DEF ListDue
  <2>3. ASSUME NEW p \in Pod, NEW m \in Merchant, Accept(p, m) PROVE LockInv'
    BY <2>3 DEF Accept, lockVars
  <2>4. ASSUME NEW p \in Pod, NEW m \in Merchant, Reject(p, m) PROVE LockInv'
    BY <2>4 DEF Reject, lockVars
  <2>5. ASSUME NEW p \in Pod, Commit(p) PROVE LockInv'
    BY <2>5 DEF Commit, lockVars
  <2>6. ASSUME NEW p \in Pod, Fail(p) PROVE LockInv'
    BY <2>6 DEF Fail, Release
  <2>7. ASSUME NEW p \in Pod, Kill(p) PROVE LockInv'
    BY <2>7 DEF Kill, lockVars
  <2>8. CASE LockExpires
    BY <2>8 DEF LockExpires, podVars
  <2>9. ASSUME NEW r \in Rcv, Api(r) PROVE LockInv'
    BY <2>9 DEF Api, LockRow, UnlockRow, DisputeRow, lockVars, podVars
  <2>10. CASE UNCHANGED vars
    BY <2>10 DEF vars, lockVars, podVars
  <2>11. QED
    BY <2>1, <2>2, <2>3, <2>4, <2>5, <2>6, <2>7, <2>8, <2>9, <2>10 DEF Next, Job
<1>3. QED
  BY <1>1, <1>2

\* Whatever pods are started, fail or are killed, a job at work holds the lock of the
\* day or lost it to its two hours: Release never deletes the lock of another pod.
THEOREM LockCorrect == Spec => []LockHeldWhileWorking
<1>1. LockInv => LockHeldWhileWorking
  BY DEF LockInv
<1>2. QED
  BY <1>1, LockInvInductive, PTL DEF Spec

\* Two pods of the CronJob, whose deadline is one hour while the lock lasts two, never
\* settle the same day at the same time, whatever a pod started by hand does.
THEOREM OneJobCorrect == Spec => []OneJobAtATime
<1>1. LockInv => OneJobAtATime
  BY SettlementAssumption DEF LockInv, LockHeldWhileWorking, OneJobAtATime
<1>2. QED
  BY <1>1, LockInvInductive, PTL DEF Spec

-----------------------------------------------------------------------------
(* The batches *)

\* A row is in one open batch at most, unsettled, and not locked by the API.
RowLocks ==
  /\ \A p, q \in Pod : p # q => rows[p] \cap rows[q] = {}
  /\ \A p \in Pod : rows[p] \cap apiRows = {}
  /\ \A p \in Pod : \A r \in rows[p] : status[r] \in Unsettled
  /\ \A p \in Pod : pc[p] # "batch" => rows[p] = {} /\ open[p] = {}

\* A settlement of an open batch is about the rows of its merchant in that batch.
OpenIsPart ==
  \A p \in Pod : \A s \in open[p] : s.receivables = Part(p, s.merchant)

\* An installment is ANTICIPATED, while it is unsettled, if it was when the day began.
AnticipatedStays ==
  \A r \in Rcv : /\ status[r] = "SCHEDULED" => r \notin Anticipated
                 /\ status[r] = "ANTICIPATED" => r \in Anticipated

BatchTypes ==
  /\ status \in [Rcv -> RcvStatus]
  /\ paidTimes \in [Rcv -> Nat]
  /\ pc \in [Pod -> PodState]
  /\ rows \in [Pod -> SUBSET Rcv]
  /\ open \in [Pod -> SUBSET SettlementRow]
  /\ failures \in 0..MaxFailures
  /\ kills \in 0..MaxKills

SettledHasRow ==
  \A r \in Rcv : status[r] = "SETTLED" => r \in Confirmed(settlements)

BatchInv ==
  /\ BatchTypes
  /\ RowLocks
  /\ OpenIsPart
  /\ AnticipatedStays
  /\ BankMatchesBooks
  /\ SettledHasRow

\* What is sent in an open batch are rows of that batch.
LEMMA SentRowsLocked ==
  ASSUME BatchTypes, OpenIsPart, NEW p \in Pod
  PROVE  SentBy(p) \subseteq rows[p]
BY DEF OpenIsPart, SentBy, Confirmed, Part

\* The initial state satisfies BatchInv.
LEMMA BatchInvInit == Init => BatchInv
<1> SUFFICES ASSUME Init PROVE BatchInv
  OBVIOUS
<1> USE SettlementAssumption DEF Init
<1>1. BatchTypes
  BY DEF BatchTypes, RcvStatus, PodState
<1>2. RowLocks /\ OpenIsPart /\ AnticipatedStays /\ SettledHasRow
  BY DEF RowLocks, OpenIsPart, AnticipatedStays, SettledHasRow
<1>3. \A r \in Rcv : Accounted(r) = 0
  BY DEF Accounted, SentBy, Confirmed
<1>4. BankMatchesBooks
  BY <1>3 DEF BankMatchesBooks
<1>5. QED
  BY <1>1, <1>2, <1>4 DEF BatchInv

\* A step that leaves the tables, the bank and the batches alone keeps BatchInv.
LEMMA BatchInvUnchanged ==
  ASSUME BatchInv, UNCHANGED <<dbVars, bankVars, rows, open, failures, kills>>,
         pc' \in [Pod -> PodState], apiRows' \in SUBSET apiRows,
         \A p \in Pod : pc'[p] # "batch" => rows[p] = {} /\ open[p] = {}
  PROVE  BatchInv'
<1> USE DEF BatchInv, dbVars, bankVars
<1>1. BatchTypes'
  BY DEF BatchTypes
<1>2. RowLocks'
  BY DEF RowLocks
<1>3. OpenIsPart' /\ AnticipatedStays' /\ SettledHasRow'
  BY DEF OpenIsPart, AnticipatedStays, SettledHasRow, Part
<1>4. BankMatchesBooks'
  BY DEF BankMatchesBooks, Accounted, SentBy
<1>5. QED
  BY <1>1, <1>2, <1>3, <1>4

\* Rows are locked only if nobody has them.
LEMMA ListDueKeeps ==
  ASSUME BatchInv, NEW p \in Pod, ListDue(p)
  PROVE  BatchInv'
<1>1. CASE Batch = {}
  <2>1. pc' \in [Pod -> PodState] /\ UNCHANGED rows
    BY <1>1 DEF ListDue, BatchInv, BatchTypes, PodState
  <2>2. \A q \in Pod : pc'[q] # "batch" => rows[q] = {} /\ open[q] = {}
    BY <1>1 DEF ListDue, BatchInv, BatchTypes, RowLocks
  <2>3. QED
    BY <1>1, <2>1, <2>2, BatchInvUnchanged DEF ListDue, countVars
<1>2. CASE Batch # {}
  <2> DEFINE B == Batch
  <2>1. B \subseteq Free
    BY DEF Batch
  <2>2. /\ rows' = [rows EXCEPT ![p] = B]
        /\ pc' = [pc EXCEPT ![p] = "batch"]
        /\ UNCHANGED <<dbVars, bankVars, open, apiRows, failures, kills>>
    BY <1>2 DEF ListDue, countVars
  <2>3. rows[p] = {} /\ open[p] = {}
    BY DEF BatchInv, RowLocks, ListDue
  <2> HIDE DEF B
  <2> USE <2>2 DEF BatchInv, dbVars, bankVars
  <2>4. BatchTypes'
    BY <2>1 DEF BatchTypes, PodState, Free
  <2>5. RowLocks'
    BY <2>1, <2>4 DEF RowLocks, Free, Locked, BatchTypes
  <2>6. OpenIsPart'
    BY <2>3 DEF OpenIsPart, Part, BatchTypes
  <2>7. AnticipatedStays' /\ SettledHasRow'
    BY DEF AnticipatedStays, SettledHasRow
  <2>8. BankMatchesBooks'
    BY DEF BankMatchesBooks, Accounted, SentBy
  <2>9. QED
    BY <2>4, <2>5, <2>6, <2>7, <2>8
<1>3. QED
  BY <1>1, <1>2

\* A settlement accepted by the bank: its rows were in no file before that the database
\* accounts for, since their merchant is still pending in this batch.
LEMMA AcceptSends ==
  ASSUME BatchInv, NEW p \in Pod, NEW m \in Merchant, Accept(p, m)
  PROVE  LET S   == Part(p, m)
             row == Row(m, S, "CONFIRMED")
         IN  /\ S \subseteq rows[p] /\ S \subseteq Rcv
             /\ open' = [open EXCEPT ![p] = open[p] \cup {row}]
             /\ paidTimes' = [r \in Rcv |-> IF r \in Scheduled(S) THEN paidTimes[r] + 1
                                                                   ELSE paidTimes[r]]
             /\ UNCHANGED <<dbVars, pc, rows, apiRows, failures, kills>>
             /\ pc[p] = "batch"
             /\ row \in SettlementRow
             /\ row.status = "CONFIRMED" /\ row.receivables = S /\ row.merchant = m
             /\ \A r \in S : status[r] \in Unsettled /\ \A q \in Pod : r \notin SentBy(q)
             /\ \A q \in Pod : SentBy(q)' = IF q = p THEN SentBy(q) \cup S ELSE SentBy(q)
<1> DEFINE S == Part(p, m)
           row == Row(m, S, "CONFIRMED")
<1>1. /\ S \subseteq rows[p]
      /\ open' = [open EXCEPT ![p] = open[p] \cup {row}]
      /\ paidTimes' = [r \in Rcv |-> IF r \in Scheduled(S) THEN paidTimes[r] + 1
                                                            ELSE paidTimes[r]]
      /\ UNCHANGED <<dbVars, pc, rows, apiRows, failures, kills>>
      /\ pc[p] = "batch"
  BY DEF Accept, Part, countVars
<1>2. row \in SettlementRow
  BY <1>1 DEF Row, SettlementRow, BatchInv, BatchTypes
<1>3. row.status = "CONFIRMED" /\ row.receivables = S /\ row.merchant = m
  BY DEF Row
<1>4. \A r \in S : r \notin SentBy(p)
  <2> SUFFICES ASSUME NEW r \in S, NEW s \in open[p], r \in s.receivables
               PROVE  FALSE
    BY DEF SentBy, Confirmed
  <2>1. s.merchant = MerchantOf[r]
    BY DEF BatchInv, OpenIsPart, Part
  <2>2. MerchantOf[r] = m
    BY DEF Part
  <2>3. QED
    BY <2>1, <2>2 DEF Accept, Pending
<1>5. \A r \in S : \A q \in Pod : r \notin SentBy(q)
  BY <1>1, <1>4, SentRowsLocked DEF BatchInv, RowLocks
<1>6. \A q \in Pod : SentBy(q)' = IF q = p THEN SentBy(q) \cup S ELSE SentBy(q)
  <2> SUFFICES ASSUME NEW q \in Pod
               PROVE  SentBy(q)' = IF q = p THEN SentBy(q) \cup S ELSE SentBy(q)
    OBVIOUS
  <2>1. CASE q = p
    <3>1. open'[p] = open[p] \cup {row}
      BY <1>1 DEF BatchInv, BatchTypes
    <3> HIDE DEF row
    <3>2. QED
      BY <2>1, <3>1, <1>3 DEF SentBy, Confirmed
  <2>2. CASE q # p
    BY <2>2, <1>1 DEF SentBy, Confirmed, BatchInv, BatchTypes
  <2>3. QED
    BY <2>1, <2>2
<1>7. \A r \in S : status[r] \in Unsettled
  BY <1>1 DEF BatchInv, RowLocks
<1>8. S \subseteq Rcv
  BY DEF Part, BatchInv, BatchTypes
<1>9. QED
  BY <1>1, <1>2, <1>3, <1>5, <1>6, <1>7, <1>8

\* It keeps BatchInv.
LEMMA AcceptKeeps ==
  ASSUME BatchInv, NEW p \in Pod, NEW m \in Merchant, Accept(p, m)
  PROVE  BatchInv'
<1> DEFINE S == Part(p, m)
           row == Row(m, S, "CONFIRMED")
<1>1. /\ S \subseteq rows[p]
      /\ open' = [open EXCEPT ![p] = open[p] \cup {row}]
      /\ paidTimes' = [r \in Rcv |-> IF r \in Scheduled(S) THEN paidTimes[r] + 1
                                                            ELSE paidTimes[r]]
      /\ UNCHANGED <<dbVars, pc, rows, apiRows, failures, kills>>
      /\ pc[p] = "batch"
  BY AcceptSends
<1>2. row \in SettlementRow
  BY AcceptSends
<1>3. row.status = "CONFIRMED" /\ row.receivables = S /\ row.merchant = m
  BY AcceptSends
<1>4. /\ \A r \in S : status[r] \in Unsettled /\ \A q \in Pod : r \notin SentBy(q)
      /\ \A q \in Pod : SentBy(q)' = IF q = p THEN SentBy(q) \cup S ELSE SentBy(q)
  BY AcceptSends
<1>5. BatchTypes'
  <2>1. paidTimes' \in [Rcv -> Nat]
    BY <1>1 DEF BatchInv, BatchTypes
  <2>2. open' \in [Pod -> SUBSET SettlementRow]
    BY <1>1, <1>2 DEF BatchInv, BatchTypes
  <2>3. QED
    BY <1>1, <2>1, <2>2 DEF BatchInv, BatchTypes, dbVars
<1>6. RowLocks'
  BY <1>1 DEF BatchInv, RowLocks, BatchTypes, dbVars
<1>7. OpenIsPart'
  <2> HIDE DEF row
  <2>1. QED
    BY <1>1, <1>3 DEF BatchInv, OpenIsPart, Part, BatchTypes
<1>8. AnticipatedStays' /\ SettledHasRow'
  BY <1>1 DEF BatchInv, AnticipatedStays, SettledHasRow, dbVars
<1>9. BankMatchesBooks'
  <2> SUFFICES ASSUME NEW r \in Rcv
               PROVE  /\ Accounted(r)' <= paidTimes'[r]
                      /\ paidTimes'[r] <= Accounted(r)' + failures + kills
    BY <1>1 DEF BankMatchesBooks
  <2>1. /\ paidTimes[r] \in Nat /\ failures \in Nat /\ kills \in Nat
        /\ Accounted(r) <= paidTimes[r]
        /\ paidTimes[r] <= Accounted(r) + failures + kills
    BY SettlementAssumption DEF BatchInv, BankMatchesBooks, BatchTypes
  <2>2. status' = status
    BY <1>1 DEF dbVars
  <2> HIDE DEF S, row
  <2>3. CASE r \in Scheduled(S)
    <3>1. r \in S /\ r \notin Anticipated
      BY <2>3 DEF Scheduled, BatchInv, AnticipatedStays
    <3>2. Accounted(r) = 0
      BY <3>1, <1>4 DEF Accounted, Unsettled
    <3>3. Accounted(r)' = 1
      BY <3>1, <1>4 DEF Accounted
    <3>4. paidTimes'[r] = paidTimes[r] + 1
      BY <1>1, <2>3
    <3>5. QED
      BY <2>1, <3>2, <3>3, <3>4
  <2>4. CASE r \notin Scheduled(S)
    <3>1. paidTimes'[r] = paidTimes[r]
      BY <1>1, <2>4
    <3>2. r \in S => r \in Anticipated
      BY <2>4, <1>4 DEF Scheduled, Unsettled, BatchInv, AnticipatedStays
    <3>3. Accounted(r)' = Accounted(r)
      BY <2>2, <3>2, <1>4 DEF Accounted
    <3>4. QED
      BY <2>1, <3>1, <3>3
  <2>5. QED
    BY <2>3, <2>4
<1>10. QED
  BY <1>5, <1>6, <1>7, <1>8, <1>9 DEF BatchInv

\* A rejected settlement sends and settles nothing.
LEMMA RejectKeeps ==
  ASSUME BatchInv, NEW p \in Pod, NEW m \in Merchant, Reject(p, m)
  PROVE  BatchInv'
<1> DEFINE S == Part(p, m)
           row == Row(m, S, "FAILED")
<1>1. /\ open' = [open EXCEPT ![p] = open[p] \cup {row}]
      /\ UNCHANGED <<dbVars, bankVars, pc, rows, apiRows, kills>>
      /\ failures' \in {failures, failures + 1}
      /\ failures' \in 0..MaxFailures
      /\ pc[p] = "batch"
  BY SettlementAssumption DEF Reject, BatchInv, BatchTypes
<1>2. row \in SettlementRow
  BY DEF Row, SettlementRow, BatchInv, BatchTypes, Part
<1>3. row.status = "FAILED" /\ row.receivables = S /\ row.merchant = m
  BY DEF Row
<1> HIDE DEF row
<1>4. \A q \in Pod : SentBy(q)' = SentBy(q)
  BY <1>1, <1>3 DEF SentBy, Confirmed, BatchInv, BatchTypes
<1>5. BatchTypes'
  BY <1>1, <1>2 DEF BatchInv, BatchTypes, dbVars, bankVars
<1>6. RowLocks'
  BY <1>1 DEF BatchInv, RowLocks, BatchTypes, dbVars
<1>7. OpenIsPart'
  BY <1>1, <1>3 DEF BatchInv, OpenIsPart, Part, BatchTypes
<1>8. AnticipatedStays' /\ SettledHasRow'
  BY <1>1 DEF BatchInv, AnticipatedStays, SettledHasRow, dbVars
<1>9. BankMatchesBooks'
  <2>1. \A r \in Rcv : Accounted(r)' = Accounted(r)
    BY <1>1, <1>4 DEF Accounted, dbVars
  <2>2. \A r \in Rcv : Accounted(r) \in {0, 1} /\ paidTimes[r] \in Nat
    BY DEF Accounted, BatchInv, BatchTypes
  <2>3. failures \in Nat /\ kills \in Nat /\ paidTimes' = paidTimes
    BY <1>1, SettlementAssumption DEF BatchInv, BatchTypes, bankVars
  <2>4. QED
    BY <1>1, <2>1, <2>2, <2>3 DEF BatchInv, BankMatchesBooks
<1>10. QED
  BY <1>5, <1>6, <1>7, <1>8, <1>9 DEF BatchInv

\* The commit marks exactly what the batch sent, and records its settlements.
LEMMA CommitKeeps ==
  ASSUME BatchInv, NEW p \in Pod, Commit(p)
  PROVE  BatchInv'
<1>1. /\ status' = [r \in Rcv |-> IF r \in SentBy(p) THEN "SETTLED" ELSE status[r]]
      /\ settlements' = settlements \cup open[p]
      /\ pc' = [pc EXCEPT ![p] = "running"]
      /\ rows' = [rows EXCEPT ![p] = {}]
      /\ open' = [open EXCEPT ![p] = {}]
      /\ UNCHANGED <<bankVars, apiRows, failures, kills>>
  BY DEF Commit, SentBy, countVars
<1>2. \A q \in Pod : SentBy(q)' = IF q = p THEN {} ELSE SentBy(q)
  BY <1>1 DEF SentBy, Confirmed, BatchInv, BatchTypes
<1>3. BatchTypes'
  BY <1>1 DEF BatchInv, BatchTypes, RcvStatus, PodState, bankVars
<1>4. RowLocks'
  <2>1. \A q \in Pod : \A r \in rows'[q] : r \notin SentBy(p)
    BY <1>1, SentRowsLocked DEF BatchInv, RowLocks, BatchTypes
  <2>2. QED
    BY <1>1, <2>1 DEF BatchInv, RowLocks, BatchTypes
<1>5. OpenIsPart'
  BY <1>1 DEF BatchInv, OpenIsPart, Part, BatchTypes
<1>6. AnticipatedStays'
  BY <1>1 DEF BatchInv, AnticipatedStays
<1>7. SettledHasRow'
  <2> SUFFICES ASSUME NEW r \in Rcv, status'[r] = "SETTLED"
               PROVE  r \in Confirmed(settlements')
    BY DEF SettledHasRow, Confirmed
  <2>1. CASE r \in SentBy(p)
    BY <1>1, <2>1 DEF SentBy, Confirmed
  <2>2. CASE r \notin SentBy(p)
    BY <1>1, <2>2 DEF BatchInv, SettledHasRow, Confirmed
  <2>3. QED
    BY <2>1, <2>2
<1>8. BankMatchesBooks'
  <2>1. ASSUME NEW r \in Rcv PROVE Accounted(r)' = Accounted(r)
    <3>1. status'[r] = IF r \in SentBy(p) THEN "SETTLED" ELSE status[r]
      BY <1>1
    <3>2. QED
      BY <1>2, <3>1 DEF Accounted
  <2>2. QED
    BY <1>1, <2>1 DEF BatchInv, BankMatchesBooks, bankVars
<1>9. QED
  BY <1>3, <1>4, <1>5, <1>6, <1>7, <1>8 DEF BatchInv

\* A transaction that is lost after the files of its batch were written leaves each of
\* its rows with one file more than the database accounts for.
LEMMA LossKeeps ==
  ASSUME BatchInv, NEW p \in Pod, Fail(p) \/ Kill(p)
  PROVE  BatchInv'
<1>1. /\ pc' = [pc EXCEPT ![p] = "failed"] \/ pc' = [pc EXCEPT ![p] = "killed"]
      /\ rows' = [rows EXCEPT ![p] = {}]
      /\ open' = [open EXCEPT ![p] = {}]
      /\ UNCHANGED <<dbVars, bankVars, apiRows>>
  BY DEF Fail, Kill
<1>2. /\ failures \in Nat /\ kills \in Nat
      /\ failures' \in Nat /\ kills' \in Nat
      /\ failures' + kills' = failures + kills + 1
      /\ failures' \in 0..MaxFailures /\ kills' \in 0..MaxKills
  BY SettlementAssumption DEF Fail, Kill, BatchInv, BatchTypes
<1>3. \A q \in Pod : SentBy(q)' = IF q = p THEN {} ELSE SentBy(q)
  BY <1>1 DEF SentBy, Confirmed, BatchInv, BatchTypes
<1>4. BatchTypes'
  BY <1>1, <1>2 DEF BatchInv, BatchTypes, PodState, dbVars, bankVars
<1>5. RowLocks'
  BY <1>1 DEF BatchInv, RowLocks, BatchTypes, dbVars
<1>6. OpenIsPart'
  BY <1>1 DEF BatchInv, OpenIsPart, Part, BatchTypes
<1>7. AnticipatedStays' /\ SettledHasRow'
  BY <1>1 DEF BatchInv, AnticipatedStays, SettledHasRow, dbVars
<1>8. BankMatchesBooks'
  <2> SUFFICES ASSUME NEW r \in Rcv
               PROVE  /\ Accounted(r)' <= paidTimes'[r]
                      /\ paidTimes'[r] <= Accounted(r)' + failures' + kills'
    BY DEF BankMatchesBooks
  <2>1. /\ Accounted(r) \in {0, 1} /\ Accounted(r)' \in {0, 1}
        /\ Accounted(r)' <= Accounted(r)
    BY <1>1, <1>3 DEF Accounted, dbVars
  <2>2. /\ paidTimes[r] \in Nat /\ paidTimes'[r] = paidTimes[r]
        /\ Accounted(r) <= paidTimes[r]
        /\ paidTimes[r] <= Accounted(r) + failures + kills
    BY <1>1 DEF BatchInv, BankMatchesBooks, BatchTypes, bankVars
  <2>3. /\ failures \in Nat /\ kills \in Nat /\ failures' \in Nat /\ kills' \in Nat
        /\ failures' + kills' = failures + kills + 1
    BY <1>2
  <2>4. paidTimes[r] <= 1 + failures + kills
    BY <1>2, <2>1, <2>2
  <2>5. paidTimes[r] <= failures' + kills'
    BY <2>2, <2>3, <2>4
  <2>6. QED
    BY <2>1, <2>2, <2>3, <2>5
<1>9. QED
  BY <1>4, <1>5, <1>6, <1>7, <1>8 DEF BatchInv

\* An API request locks a row nobody has, and a dispute takes one that no batch has.
LEMMA ApiKeeps ==
  ASSUME BatchInv, NEW r \in Rcv, Api(r)
  PROVE  BatchInv'
<1>1. CASE LockRow(r)
  <2>1. /\ apiRows' = apiRows \cup {r}
        /\ r \notin Locked
        /\ UNCHANGED <<dbVars, bankVars, pc, rows, open, failures, kills>>
    BY <1>1 DEF LockRow, podVars
  <2>2. RowLocks'
    BY <2>1 DEF BatchInv, RowLocks, Locked, dbVars
  <2>3. /\ BatchTypes' /\ OpenIsPart' /\ AnticipatedStays' /\ SettledHasRow'
    BY <2>1 DEF BatchInv, BatchTypes, OpenIsPart, Part, AnticipatedStays, SettledHasRow,
                dbVars, bankVars
  <2>4. BankMatchesBooks'
    BY <2>1 DEF BatchInv, BankMatchesBooks, Accounted, SentBy, dbVars, bankVars
  <2>5. QED
    BY <2>2, <2>3, <2>4 DEF BatchInv
<1>2. CASE UnlockRow(r)
  <2>1. /\ apiRows' \in SUBSET apiRows
        /\ UNCHANGED <<dbVars, bankVars, pc, rows, open, failures, kills>>
    BY <1>2 DEF UnlockRow, podVars, countVars
  <2>2. pc' \in [Pod -> PodState]
        /\ \A p \in Pod : pc'[p] # "batch" => rows[p] = {} /\ open[p] = {}
    BY <2>1 DEF BatchInv, BatchTypes, RowLocks
  <2>3. QED
    BY <2>1, <2>2, BatchInvUnchanged
<1>3. CASE DisputeRow(r)
  <2>1. /\ apiRows' = apiRows \ {r}
        /\ status' = [status EXCEPT ![r] = "CHARGEBACKED"]
        /\ status[r] \in Unsettled
        /\ UNCHANGED <<settlements, bankVars, pc, rows, open, failures, kills>>
    BY <1>3 DEF DisputeRow, podVars, countVars
  <2>2. \A p \in Pod : r \notin rows[p]
    BY <1>3 DEF DisputeRow, BatchInv, RowLocks
  <2>3. \A p \in Pod : r \notin SentBy(p)
    BY <2>2, SentRowsLocked DEF BatchInv
  <2>4. BatchTypes'
    BY <2>1 DEF BatchInv, BatchTypes, RcvStatus, bankVars
  <2>5. RowLocks'
    BY <2>1, <2>2 DEF BatchInv, RowLocks, BatchTypes
  <2>6. OpenIsPart' /\ AnticipatedStays' /\ SettledHasRow'
    BY <2>1 DEF BatchInv, OpenIsPart, Part, AnticipatedStays, SettledHasRow, BatchTypes
  <2>7. ASSUME NEW x \in Rcv PROVE Accounted(x)' = Accounted(x)
    <3>1. status'[x] = "SETTLED" <=> status[x] = "SETTLED"
      BY <2>1 DEF BatchInv, BatchTypes, Unsettled
    <3>2. QED
      BY <2>1, <3>1 DEF Accounted, SentBy
  <2>8. BankMatchesBooks'
    BY <2>1, <2>7 DEF BatchInv, BankMatchesBooks, bankVars
  <2>9. QED
    BY <2>4, <2>5, <2>6, <2>8 DEF BatchInv
<1>4. QED
  BY <1>1, <1>2, <1>3 DEF Api

\* Every step keeps BatchInv.
LEMMA BatchInvKept == BatchInv /\ [Next]_vars => BatchInv'
<1> SUFFICES ASSUME BatchInv, [Next]_vars PROVE BatchInv'
  OBVIOUS
<1>0. pc \in [Pod -> PodState] /\ \A p \in Pod : pc[p] # "batch" => rows[p] = {} /\ open[p] = {}
  BY DEF BatchInv, BatchTypes, RowLocks
<1>1. ASSUME NEW p \in Pod, Start(p) PROVE BatchInv'
  <2>1. /\ UNCHANGED <<dbVars, bankVars, rows, open, apiRows, failures, kills>>
        /\ pc' = [pc EXCEPT ![p] = "running"] \/ pc' = [pc EXCEPT ![p] = "refused"]
        /\ pc[p] = "idle"
    BY <1>1 DEF Start, countVars
  <2>2. /\ pc' \in [Pod -> PodState]
        /\ \A q \in Pod : pc'[q] # "batch" => rows[q] = {} /\ open[q] = {}
    BY <1>0, <2>1 DEF PodState
  <2>3. QED
    BY <2>1, <2>2, BatchInvUnchanged
<1>2. ASSUME NEW p \in Pod, ListDue(p) PROVE BatchInv'
  BY <1>2, ListDueKeeps
<1>3. ASSUME NEW p \in Pod, NEW m \in Merchant, Accept(p, m) PROVE BatchInv'
  BY <1>3, AcceptKeeps
<1>4. ASSUME NEW p \in Pod, NEW m \in Merchant, Reject(p, m) PROVE BatchInv'
  BY <1>4, RejectKeeps
<1>5. ASSUME NEW p \in Pod, Commit(p) PROVE BatchInv'
  BY <1>5, CommitKeeps
<1>6. ASSUME NEW p \in Pod, Fail(p) \/ Kill(p) PROVE BatchInv'
  BY <1>6, LossKeeps
<1>7. CASE LockExpires
  BY <1>0, <1>7, BatchInvUnchanged DEF LockExpires, podVars, countVars
<1>8. ASSUME NEW r \in Rcv, Api(r) PROVE BatchInv'
  BY <1>8, ApiKeeps
<1>9. CASE UNCHANGED vars
  BY <1>0, <1>9, BatchInvUnchanged DEF vars, podVars, countVars
<1>10. QED
  BY <1>1, <1>2, <1>3, <1>4, <1>5, <1>6, <1>7, <1>8, <1>9 DEF Next, Job

\* BatchInv holds in every state.
LEMMA BatchInvCorrect == Spec => []BatchInv
<1>1. QED
  BY BatchInvInit, BatchInvKept, PTL DEF Spec

\* What the database calls SETTLED was sent to the bank (or had been anticipated) and
\* has a CONFIRMED settlement, whatever fails.
THEOREM SettledCorrect == Spec => []SettledWasSent
<1>1. ASSUME BatchInv PROVE SettledWasSent
  <2> SUFFICES ASSUME NEW r \in Rcv, status[r] = "SETTLED"
               PROVE  /\ r \in Anticipated \/ paidTimes[r] >= 1
                      /\ r \in Confirmed(settlements)
    BY DEF SettledWasSent
  <2>1. r \in Confirmed(settlements)
    BY <1>1 DEF BatchInv, SettledHasRow
  <2>2. ASSUME r \notin Anticipated PROVE paidTimes[r] >= 1
    <3>1. Accounted(r) = 1
      BY <2>2 DEF Accounted
    <3>2. QED
      BY <1>1, <3>1 DEF BatchInv, BankMatchesBooks, BatchTypes
  <2>3. QED
    BY <2>1, <2>2
<1>2. QED
  BY <1>1, BatchInvCorrect, PTL

\* The files of the bank agree with the database but for one file more for each
\* transaction that was lost, even if the lock of Redis expires and several jobs work on
\* the day at the same time: the row locks suffice.
THEOREM BankCorrect == Spec => []BankMatchesBooks
<1>1. BatchInv => BankMatchesBooks
  BY DEF BatchInv
<1>2. QED
  BY <1>1, BatchInvCorrect, PTL

-----------------------------------------------------------------------------
(* What a merchant and its creditors are sent *)

\* The shares of a part of a batch are amounts, and the merchant has one only if its
\* creditors have their whole claim.
LEMMA Shares ==
  ASSUME status \in [Rcv -> RcvStatus], NEW m \in Merchant, NEW S \in SUBSET Rcv
  PROVE  /\ CreditorShare(m, S) \in Nat
         /\ MerchantShare(m, S) \in Nat
         /\ MerchantShare(m, S) > 0 => CreditorShare(m, S) = Lien[m]
<1>1. Scheduled(S) \in SUBSET Rcv
  BY DEF Scheduled
<1>2. IsFiniteSet(Scheduled(S)) /\ \A r \in Scheduled(S) : Net[r] \in Nat
  BY <1>1, SettlementAssumption, FS_Subset
<1>3. Payable(S) \in Nat
  BY <1>2, SumTyped DEF Payable
<1>4. Lien[m] \in Nat
  BY SettlementAssumption
<1>5. QED
  BY <1>3, <1>4 DEF CreditorShare, MerchantShare

\* What merchants and creditors are sent only grows, and a merchant's first order goes
\* with the whole claim of its creditors, so this is inductive together with the types.
ShareInv == TypeOK /\ CreditorFirst

\* ShareInv holds at first.
LEMMA ShareInvInit == Init => ShareInv
<1> SUFFICES ASSUME Init PROVE ShareInv
  OBVIOUS
<1> USE SettlementAssumption DEF Init
<1>1. TypeOK
  BY DEF TypeOK, RcvStatus, PodState
<1>2. CreditorFirst
  BY DEF CreditorFirst
<1>3. QED
  BY <1>1, <1>2 DEF ShareInv

\* Every step keeps ShareInv.
LEMMA ShareInvKept == ShareInv /\ [Next]_vars => ShareInv'
<1> SUFFICES ASSUME ShareInv, [Next]_vars PROVE ShareInv'
  OBVIOUS
<1> USE SettlementAssumption DEF ShareInv, dbVars, bankVars, podVars, lockVars, countVars
<1>1. ASSUME UNCHANGED bankVars, TypeOK' PROVE ShareInv'
  BY <1>1 DEF CreditorFirst
<1>2. ASSUME NEW p \in Pod, Start(p) PROVE ShareInv'
  BY <1>1, <1>2 DEF Start, TypeOK, PodState
<1>3. ASSUME NEW p \in Pod, ListDue(p) PROVE ShareInv'
  <2>1. CASE Batch = {}
    BY <1>1, <1>3, <2>1 DEF ListDue, Release, TypeOK, PodState
  <2>2. CASE Batch # {}
    <3>1. Batch \in SUBSET Rcv
      BY DEF Batch, Free
    <3>2. QED
      BY <1>1, <1>3, <2>2, <3>1 DEF ListDue, TypeOK, PodState
  <2>3. QED
    BY <2>1, <2>2
<1>4. ASSUME NEW p \in Pod, NEW m \in Merchant, Accept(p, m) PROVE ShareInv'
  <2> DEFINE S == Part(p, m)
             cs == CreditorShare(m, S)
             ms == MerchantShare(m, S)
             row == Row(m, S, "CONFIRMED")
  <2>1. S \in SUBSET Rcv
    BY DEF Part, TypeOK
  <2>2. cs \in Nat /\ ms \in Nat /\ (ms > 0 => cs = Lien[m])
    BY <2>1, Shares DEF TypeOK
  <2>3. row \in SettlementRow
    BY <2>1 DEF Row, SettlementRow
  <2>4. /\ toCreditors' = [toCreditors EXCEPT ![m] = toCreditors[m] + cs]
        /\ toMerchant' = [toMerchant EXCEPT ![m] = toMerchant[m] + ms]
        /\ open' = [open EXCEPT ![p] = open[p] \cup {row}]
        /\ paidTimes' = [r \in Rcv |-> IF r \in Scheduled(S) THEN paidTimes[r] + 1
                                                             ELSE paidTimes[r]]
        /\ UNCHANGED <<dbVars, lockVars, pc, rows, apiRows, countVars>>
    BY <1>4 DEF Accept
  <2> HIDE DEF cs, ms, row, S
  <2>5. TypeOK'
    <3>1. /\ toCreditors' \in [Merchant -> Nat] /\ toMerchant' \in [Merchant -> Nat]
      BY <2>2, <2>4 DEF TypeOK
    <3>2. paidTimes' \in [Rcv -> Nat]
      BY <2>4 DEF TypeOK
    <3>3. open' \in [Pod -> SUBSET SettlementRow]
      BY <2>3, <2>4 DEF TypeOK
    <3>4. QED
      BY <2>4, <3>1, <3>2, <3>3 DEF TypeOK
  <2>6. CreditorFirst'
    <3> SUFFICES ASSUME NEW n \in Merchant, toMerchant'[n] > 0
                 PROVE  toCreditors'[n] >= Lien[n]
      BY DEF CreditorFirst
    <3>1. /\ toMerchant[n] \in Nat /\ toCreditors[n] \in Nat /\ Lien[n] \in Nat
          /\ toMerchant[n] > 0 => toCreditors[n] >= Lien[n]
      BY DEF TypeOK, CreditorFirst
    <3>2. CASE n # m
      BY <2>4, <3>1, <3>2 DEF TypeOK
    <3>3. CASE n = m
      <4>1. toMerchant'[m] = toMerchant[m] + ms /\ toCreditors'[m] = toCreditors[m] + cs
        BY <2>4 DEF TypeOK
      <4>2. QED
        BY <2>2, <3>1, <3>3, <4>1
    <3>4. QED
      BY <3>2, <3>3
  <2>7. QED
    BY <2>5, <2>6
<1>5. ASSUME NEW p \in Pod, NEW m \in Merchant, Reject(p, m) PROVE ShareInv'
  <2> DEFINE row == Row(m, Part(p, m), "FAILED")
  <2>1. row \in SettlementRow
    BY DEF Row, SettlementRow, Part, TypeOK
  <2>2. /\ open' = [open EXCEPT ![p] = open[p] \cup {row}]
        /\ failures' \in 0..MaxFailures
        /\ UNCHANGED <<dbVars, bankVars, lockVars, pc, rows, apiRows, kills, requests>>
    BY <1>5 DEF Reject, TypeOK
  <2> HIDE DEF row
  <2>3. QED
    BY <1>1, <2>1, <2>2 DEF TypeOK
<1>6. ASSUME NEW p \in Pod, Commit(p) PROVE ShareInv'
  BY <1>1, <1>6 DEF Commit, TypeOK, RcvStatus, PodState
<1>7. ASSUME NEW p \in Pod, Fail(p) PROVE ShareInv'
  BY <1>1, <1>7 DEF Fail, Release, TypeOK, PodState
<1>8. ASSUME NEW p \in Pod, Kill(p) PROVE ShareInv'
  BY <1>1, <1>8 DEF Kill, TypeOK, PodState
<1>9. CASE LockExpires
  BY <1>1, <1>9 DEF LockExpires, TypeOK
<1>10. ASSUME NEW r \in Rcv, Api(r) PROVE ShareInv'
  BY <1>1, <1>10 DEF Api, LockRow, UnlockRow, DisputeRow, TypeOK, RcvStatus
<1>11. CASE UNCHANGED vars
  BY <1>1, <1>11 DEF vars, TypeOK
<1>12. QED
  BY <1>2, <1>3, <1>4, <1>5, <1>6, <1>7, <1>8, <1>9, <1>10, <1>11 DEF Next, Job

\* The variables of the job have their types: what is sent to merchants and creditors
\* is never negative and is a number of cents, whatever is cut into batches.
THEOREM SettlementTypes == Spec => []TypeOK
<1>1. ShareInv => TypeOK
  BY DEF ShareInv
<1>2. QED
  BY <1>1, ShareInvInit, ShareInvKept, PTL DEF Spec

\* A merchant is sent money only on a day on which its creditors were sent their whole
\* claim, in whatever batches, by however many jobs, and whatever is lost.
THEOREM CreditorsCorrect == Spec => []CreditorFirst
<1>1. ShareInv => CreditorFirst
  BY DEF ShareInv
<1>2. QED
  BY <1>1, ShareInvInit, ShareInvKept, PTL DEF Spec

\* What the files of a merchant are worth.
OwnedBy(m)  == {q \in Rcv : MerchantOf[q] = m}
FilesOf(m)  == [r \in OwnedBy(m) |-> paidTimes[r] * Net[r]]
WorthOf(m)  == SumFunctionOnSet(FilesOf(m), OwnedBy(m))

\* OrdersAddUp in these terms, before and after a step.
LEMMA OrdersByWorth ==
  /\ OrdersAddUp <=> \A m \in Merchant : toCreditors[m] + toMerchant[m] = WorthOf(m)
  /\ OrdersAddUp' <=> \A m \in Merchant : toCreditors'[m] + toMerchant'[m] = WorthOf(m)'
BY DEF OrdersAddUp, WorthOf, FilesOf, OwnedBy, SumFunction

\* A file is worth what there is to pay for the part of the batch it is about.
LEMMA FileIsPayable ==
  ASSUME TypeOK, NEW p \in Pod, NEW m \in Merchant, Accept(p, m)
  PROVE  /\ WorthOf(m)' = WorthOf(m) + Payable(Part(p, m))
         /\ \A n \in Merchant \ {m} : WorthOf(n)' = WorthOf(n)
         /\ \A n \in Merchant : WorthOf(n) \in Int
         /\ Payable(Part(p, m)) \in Int
<1> DEFINE S == Scheduled(Part(p, m))
           extra == [r \in OwnedBy(m) |-> IF r \in S THEN Net[r] ELSE 0]
<1>1. /\ \A n \in Merchant : OwnedBy(n) \in SUBSET Rcv /\ IsFiniteSet(OwnedBy(n))
      /\ S \in SUBSET OwnedBy(m)
  <2>1. \A n \in Merchant : OwnedBy(n) \in SUBSET Rcv
    BY DEF OwnedBy
  <2>2. S \in SUBSET OwnedBy(m)
    BY DEF Scheduled, Part, OwnedBy, TypeOK
  <2>3. QED
    BY <2>1, <2>2, SettlementAssumption, FS_Subset
<1>2. /\ \A r \in Rcv : Net[r] \in Int /\ paidTimes[r] \in Int
      /\ \A r \in Rcv : paidTimes[r] * Net[r] \in Int
  BY SettlementAssumption DEF TypeOK
<1>3. \A r \in Rcv : paidTimes'[r] = IF r \in S THEN paidTimes[r] + 1 ELSE paidTimes[r]
  BY DEF Accept
<1> HIDE DEF S
<1>4. ASSUME NEW n \in Merchant PROVE WorthOf(n) \in Int
  <2>1. \A r \in OwnedBy(n) : FilesOf(n)[r] \in Int
    BY <1>1, <1>2 DEF FilesOf
  <2>2. QED
    BY <1>1, <2>1, SumTyped DEF WorthOf
<1>5. SumFunctionOnSet(extra, OwnedBy(m)) = SumFunctionOnSet(Net, S)
  <2>1. \A r \in OwnedBy(m) : extra[r] = IF r \in S THEN Net[r] ELSE 0
    OBVIOUS
  <2>2. \A r \in S : Net[r] \in Int
    BY <1>1, <1>2
  <2> HIDE DEF extra
  <2>3. QED
    BY <1>1, <2>1, <2>2, SumOfSome
<1>6. WorthOf(m)' = WorthOf(m) + SumFunctionOnSet(Net, S)
  <2> DEFINE before == FilesOf(m)
             after == [r \in OwnedBy(m) |-> paidTimes'[r] * Net[r]]
  <2>1. ASSUME NEW r \in OwnedBy(m)
        PROVE  before[r] \in Int /\ extra[r] \in Int /\ after[r] = before[r] + extra[r]
    <3>1. r \in Rcv /\ Net[r] \in Int /\ paidTimes[r] \in Int
      BY <1>1, <1>2
    <3>2. (paidTimes[r] + 1) * Net[r] = paidTimes[r] * Net[r] + Net[r]
      BY <3>1
    <3>3. QED
      BY <1>2, <1>3, <3>1, <3>2 DEF FilesOf
  <2>2. WorthOf(m)' = SumFunctionOnSet(after, OwnedBy(m))
    BY DEF WorthOf, FilesOf, OwnedBy
  <2>3. WorthOf(m) = SumFunctionOnSet(before, OwnedBy(m))
    BY DEF WorthOf
  <2> HIDE DEF before, after, extra
  <2>4. SumFunctionOnSet(after, OwnedBy(m))
          = SumFunctionOnSet(before, OwnedBy(m)) + SumFunctionOnSet(extra, OwnedBy(m))
    BY <1>1, <2>1, SumPlus
  <2>5. QED
    BY <1>5, <2>2, <2>3, <2>4
<1>7. ASSUME NEW n \in Merchant \ {m} PROVE WorthOf(n)' = WorthOf(n)
  <2>1. \A r \in OwnedBy(n) : r \in Rcv /\ r \notin S
    BY <1>1, <1>7 DEF OwnedBy
  <2>2. \A r \in OwnedBy(n) : paidTimes'[r] = paidTimes[r]
    BY <1>3, <2>1
  <2>3. [r \in OwnedBy(n) |-> paidTimes'[r] * Net[r]]
          = [r \in OwnedBy(n) |-> paidTimes[r] * Net[r]]
    BY <2>2
  <2>4. WorthOf(n)' = SumFunctionOnSet([r \in OwnedBy(n) |-> paidTimes'[r] * Net[r]], OwnedBy(n))
    BY DEF WorthOf, FilesOf, OwnedBy
  <2>5. QED
    BY <2>3, <2>4 DEF WorthOf, FilesOf
<1>8. Payable(Part(p, m)) = SumFunctionOnSet(Net, S) /\ SumFunctionOnSet(Net, S) \in Int
  <2>1. IsFiniteSet(S) /\ \A r \in S : Net[r] \in Int
    BY <1>1, <1>2, FS_Subset
  <2>2. QED
    BY <2>1, SumTyped DEF Payable, S
<1>9. QED
  BY <1>4, <1>6, <1>7, <1>8

\* Every state satisfies: the orders of a merchant and of its creditors add up to the
\* installments in the files, whatever is lost and sent again.
THEOREM OrdersCorrect == Spec => []OrdersAddUp
<1>1. Init => OrdersAddUp
  <2> SUFFICES ASSUME Init, NEW m \in Merchant
               PROVE  toCreditors[m] + toMerchant[m] = WorthOf(m)
    BY OrdersByWorth
  <2>1. toCreditors[m] = 0 /\ toMerchant[m] = 0
    BY DEF Init
  <2>2. OwnedBy(m) \in SUBSET Rcv /\ IsFiniteSet(OwnedBy(m))
    BY SettlementAssumption, FS_Subset DEF OwnedBy
  <2>3. \A r \in OwnedBy(m) : FilesOf(m)[r] = IF r \in {} THEN FilesOf(m)[r] ELSE 0
    BY <2>2, SettlementAssumption DEF Init, FilesOf
  <2>4. SumFunctionOnSet(FilesOf(m), OwnedBy(m)) = SumFunctionOnSet(FilesOf(m), {})
    BY <2>2, <2>3, SumOfSome
  <2>5. SumFunctionOnSet(FilesOf(m), {}) = 0
    BY FS_EmptySet, SumIsSolution, SumsStep
  <2>6. QED
    BY <2>1, <2>4, <2>5 DEF WorthOf
<1>2. TypeOK /\ OrdersAddUp /\ [Next]_vars => OrdersAddUp'
  <2> SUFFICES ASSUME TypeOK, OrdersAddUp, [Next]_vars PROVE OrdersAddUp'
    OBVIOUS
  <2>1. CASE UNCHANGED bankVars
    BY <2>1 DEF OrdersAddUp, bankVars
  <2>2. ASSUME NEW p \in Pod, NEW m \in Merchant, Accept(p, m) PROVE OrdersAddUp'
    <3> DEFINE S == Part(p, m)
               cs == CreditorShare(m, S)
               ms == MerchantShare(m, S)
    <3>1. /\ WorthOf(m)' = WorthOf(m) + Payable(S)
          /\ \A n \in Merchant \ {m} : WorthOf(n)' = WorthOf(n)
          /\ WorthOf(m) \in Int /\ Payable(S) \in Int
      BY <2>2, FileIsPayable
    <3>2. S \in SUBSET Rcv
      BY DEF Part, TypeOK
    <3>3. cs \in Nat /\ ms \in Nat
      BY <3>2, Shares DEF TypeOK
    <3>4. ms = Payable(S) - cs
      BY DEF MerchantShare
    <3>5. /\ toCreditors' = [toCreditors EXCEPT ![m] = toCreditors[m] + cs]
          /\ toMerchant' = [toMerchant EXCEPT ![m] = toMerchant[m] + ms]
      BY <2>2 DEF Accept
    <3>6. \A n \in Merchant : toCreditors[n] + toMerchant[n] = WorthOf(n)
      BY OrdersByWorth
    <3> HIDE DEF S, cs, ms
    <3>7. ASSUME NEW n \in Merchant PROVE toCreditors'[n] + toMerchant'[n] = WorthOf(n)'
      <4>1. CASE n = m
        <5>1. /\ toCreditors'[m] = toCreditors[m] + cs /\ toMerchant'[m] = toMerchant[m] + ms
              /\ toCreditors[m] \in Nat /\ toMerchant[m] \in Nat
          BY <3>5 DEF TypeOK
        <5>2. cs + ms = Payable(S)
          BY <3>1, <3>3, <3>4
        <5>3. QED
          BY <3>1, <3>3, <3>6, <4>1, <5>1, <5>2
      <4>2. CASE n # m
        <5>1. toCreditors'[n] = toCreditors[n] /\ toMerchant'[n] = toMerchant[n]
          BY <3>5, <4>2 DEF TypeOK
        <5>2. QED
          BY <3>1, <3>6, <4>2, <5>1
      <4>3. QED
        BY <4>1, <4>2
    <3>8. QED
      BY <3>7, OrdersByWorth
  <2>3. QED
    BY <2>1, <2>2
    DEF Next, Job, Api, Start, ListDue, Reject, Commit, Fail, Kill, LockExpires,
        LockRow, UnlockRow, DisputeRow, vars
<1>3. QED
  BY <1>1, <1>2, SettlementTypes, PTL DEF Spec

-----------------------------------------------------------------------------
(* The end of the day *)

\* A batch takes something whenever something is free: the row of the lowest rank has
\* none before it.
LEMMA BatchTakesSome ==
  ASSUME Free # {}
  PROVE  Batch # {}
<1> DEFINE N == {Rank[r] : r \in Free}
<1>1. Free \in SUBSET Rcv
  BY DEF Free
<1>2. N \in SUBSET Nat /\ N # {}
  BY <1>1, SettlementAssumption
<1>3. PICK k \in N : \A n \in N : k <= n
  BY <1>2, LeastNumber
<1>4. PICK r \in Free : k = Rank[r]
  OBVIOUS
<1> DEFINE before == {q \in Free : Rank[q] < Rank[r]}
<1>5. before = {}
  <2> SUFFICES ASSUME NEW q \in Free, Rank[q] < Rank[r] PROVE FALSE
    OBVIOUS
  <2>1. Rank[q] \in N /\ Rank[q] \in Nat /\ Rank[r] \in Nat
    BY <1>1, SettlementAssumption
  <2>2. Rank[r] <= Rank[q]
    BY <1>3, <1>4, <2>1
  <2>3. QED
    BY <2>1, <2>2
<1>6. Cardinality(before) = 0
  <2> HIDE DEF before
  <2>1. QED
    BY <1>5, FS_EmptySet
<1>7. Cardinality(before) < BatchSize
  <2> HIDE DEF before
  <2>1. QED
    BY <1>6, SettlementAssumption
<1>8. r \in Batch
  BY <1>7 DEF Batch
<1>9. QED
  BY <1>8

\* An installment that is not unsettled stays that way.
LEMMA SettledStays ==
  ASSUME BatchInv, [Next]_vars, NEW r \in Rcv, status[r] \notin Unsettled
  PROVE  status'[r] \notin Unsettled
<1> USE DEF Unsettled
<1>1. CASE UNCHANGED status
  BY <1>1
<1>2. ASSUME NEW p \in Pod, Commit(p) PROVE status'[r] \notin Unsettled
  BY <1>2 DEF Commit, BatchInv, BatchTypes
<1>3. ASSUME NEW q \in Rcv, DisputeRow(q) PROVE status'[r] \notin Unsettled
  BY <1>3 DEF DisputeRow, BatchInv, BatchTypes
<1>4. QED
  BY <1>1, <1>2, <1>3
  DEF Next, Job, Api, Start, ListDue, Accept, Reject, Fail, Kill, LockExpires,
      LockRow, UnlockRow, vars, dbVars

\* A job that finds nothing to list leaves nothing but the rows that requests hold, and
\* those of an open batch if it or the job of the batch was started by hand.
LEMMA EmptyListIsAll ==
  ASSUME LockInv, BatchInv, NEW p \in Pod, pc[p] = "running", Batch = {},
         NEW r \in Rcv, status[r] \in Unsettled
  PROVE  \/ r \in apiRows
         \/ \E q \in Pod : r \in rows[q] /\ {p, q} \cap ByHand # {}
<1>1. Free = {}
  BY BatchTakesSome
<1>2. r \in apiRows \/ \E q \in Pod : r \in rows[q]
  BY <1>1 DEF Free, Locked
<1>3. ASSUME NEW q \in Pod, r \in rows[q] PROVE {p, q} \cap ByHand # {}
  <2>1. pc[q] = "batch"
    BY <1>3 DEF BatchInv, RowLocks
  <2>2. p # q /\ Working(p) /\ Working(q)
    BY <2>1 DEF Working
  <2>3. QED
    BY <2>2, SettlementAssumption DEF LockInv, LockHeldWhileWorking
<1>4. QED
  BY <1>2, <1>3

\* Only an empty list ends a job with success.
LEMMA OnlyListEnds ==
  ASSUME LockInv, [Next]_vars, NEW p \in Pod, pc[p] # "done", pc'[p] = "done"
  PROVE  pc[p] = "running" /\ Batch = {}
BY DEF LockInv, Next, Job, Api, Start, ListDue, Accept, Reject, Commit,
       Fail, Kill, LockExpires, LockRow, UnlockRow, DisputeRow, vars, podVars

\* A job that ends with success leaves nothing of the day unsettled but the rows that API
\* requests hold at that moment, and what a job started by hand is working on or leaves
\* to the one that took its lock; whatever failed or was killed before and however many
\* requests there are.
THEOREM DoneLeavesCorrect == Spec => DoneLeavesOnlyLocked
<1> DEFINE Held(p, r) == \/ r \in apiRows
                         \/ \E q \in Pod : r \in rows[q] /\ {p, q} \cap ByHand # {}
           Leaves == \A p \in Pod : pc[p] # "done" /\ pc'[p] = "done" =>
                       \A r \in Rcv : status'[r] \in Unsettled => Held(p, r)
<1>1. LockInv /\ BatchInv /\ [Next]_vars => [Leaves]_vars
  <2> SUFFICES ASSUME LockInv, BatchInv, [Next]_vars, NEW p \in Pod,
                      pc[p] # "done", pc'[p] = "done",
                      NEW r \in Rcv, status'[r] \in Unsettled
               PROVE  Held(p, r)
    OBVIOUS
  <2>1. pc[p] = "running" /\ Batch = {}
    BY OnlyListEnds
  <2>2. status[r] \in Unsettled
    BY SettledStays
  <2>3. QED
    BY <2>1, <2>2, EmptyListIsAll
<1>2. Spec => []LockInv
  BY LockInvInductive, PTL DEF Spec
<1>3. Spec => [][Leaves]_vars
  <2> HIDE DEF Leaves
  <2>1. QED
    BY <1>1, <1>2, BatchInvCorrect, PTL DEF Spec
<1>4. QED
  BY <1>3 DEF DoneLeavesOnlyLocked

\* No API request locks a row, and what a job left settled stays so.
DayInv ==
  /\ LockInv
  /\ BatchInv
  /\ requests = 0
  /\ apiRows = {}
  /\ DoneMeansSettled

\* DayInv holds at first and every step keeps it.
LEMMA DayInvInductive ==
  ASSUME ByHand = {}, MaxRequests = 0
  PROVE  /\ Init => DayInv
         /\ DayInv /\ [Next]_vars => DayInv'
<1>1. Init => DayInv
  <2>1. Init => DoneMeansSettled
    BY DEF Init, DoneMeansSettled
  <2>2. QED
    BY <2>1, LockInvInductive, BatchInvInit DEF Init, DayInv
<1>2. ASSUME DayInv, [Next]_vars PROVE DayInv'
  <2>1. LockInv' /\ BatchInv'
    BY <1>2, LockInvInductive, BatchInvKept DEF DayInv
  <2>2. requests' = 0 /\ apiRows' = {}
    BY <1>2, SettlementAssumption
    DEF DayInv, Next, Job, Api, Start, ListDue, Accept, Reject, Commit, Fail, Kill,
        LockExpires, LockRow, UnlockRow, DisputeRow, vars, countVars
  <2>3. DoneMeansSettled'
    <3> SUFFICES ASSUME NEW p \in Pod, pc'[p] = "done", NEW r \in Rcv
                 PROVE  status'[r] \notin Unsettled
      BY DEF DoneMeansSettled, Unsettled
    <3>1. CASE pc[p] = "done"
      <4>1. status[r] \notin Unsettled
        BY <1>2, <3>1 DEF DayInv, DoneMeansSettled
      <4>2. QED
        BY <1>2, <4>1, SettledStays DEF DayInv
    <3>2. CASE pc[p] # "done"
      <4>1. pc[p] = "running" /\ Batch = {}
        BY <1>2, <3>2, OnlyListEnds DEF DayInv
      <4>2. status[r] \notin Unsettled
        BY <1>2, <4>1, EmptyListIsAll DEF DayInv
      <4>3. QED
        BY <1>2, <4>2, SettledStays DEF DayInv
    <3>3. QED
      BY <3>1, <3>2
  <2>4. QED
    BY <2>1, <2>2, <2>3 DEF DayInv
<1>3. QED
  BY <1>1, <1>2

\* If no job is started by hand and no API request holds a row of the day, a job that
\* ends with success leaves nothing of the day unsettled, whatever failed or was killed
\* before it: ListDue finds nothing only if there is nothing.
THEOREM DoneCorrect ==
  ASSUME ByHand = {}, MaxRequests = 0
  PROVE  Spec => []DoneMeansSettled
<1>1. DayInv => DoneMeansSettled
  BY DEF DayInv
<1>2. QED
  BY <1>1, DayInvInductive, PTL DEF Spec

-----------------------------------------------------------------------------
(* The promise to the merchant (Payout), as the bank sees it: an installment is settled
   once the file of its settlement is written, even if the batch has not committed, and
   what was paid for it is what the files of the bank pay. Nothing is anticipated on the
   day on which it is due, so PV plays no part. *)

bankState == [r \in Rcv |->
  IF status[r] = "SETTLED" \/ \E p \in Pod : r \in SentBy(p) THEN "settled"
  ELSE IF status[r] = "CHARGEBACKED" THEN "void"
  ELSE IF status[r] = "ANTICIPATED" THEN "advanced"
  ELSE "open"]

bankPaid == [r \in Rcv |-> paidTimes[r] * Net[r]]

Bank == INSTANCE Payout WITH
  NetValue <- Net, PV <- [r \in Rcv |-> 0], state <- bankState, cash <- bankPaid

\* A transaction of the job is lost.
Loses == \E p \in Pod : Fail(p) \/ Kill(p)

\* What a loss undoes is a step of Payout backwards, without its money.
TakesBack ==
  /\ bankPaid' = bankPaid
  /\ \A r \in Rcv :
       bankState'[r] # bankState[r] =>
         /\ bankState[r] = "settled"
         /\ bankState'[r] = IF r \in Anticipated THEN "advanced" ELSE "open"

\* What the bank can see of an installment does not change.
LEMMA BankIdle ==
  ASSUME NEW r \in Rcv, status'[r] = status[r], paidTimes'[r] = paidTimes[r],
         (\E p \in Pod : r \in SentBy(p)') <=> (\E p \in Pod : r \in SentBy(p))
  PROVE  Bank!Keep(r)
<1>1. bankState'[r] = bankState[r]
  BY DEF bankState
<1>2. bankPaid'[r] = bankPaid[r]
  BY DEF bankPaid
<1>3. QED
  BY <1>1, <1>2 DEF Bank!Keep

\* A settlement that the bank accepts pays its scheduled rows and retains its anticipated
\* ones, and no other job has sent them.
LEMMA AcceptPays ==
  ASSUME BatchInv, NEW p \in Pod, NEW m \in Merchant, Accept(p, m), NEW r \in Rcv
  PROVE  Bank!Pay(r) \/ Bank!Retain(r) \/ Bank!Keep(r)
<1> DEFINE S == Part(p, m)
<1>1. /\ paidTimes' = [x \in Rcv |-> IF x \in Scheduled(S) THEN paidTimes[x] + 1
                                                          ELSE paidTimes[x]]
      /\ status' = status
      /\ \A x \in S : status[x] \in Unsettled /\ \A q \in Pod : x \notin SentBy(q)
      /\ \A q \in Pod : SentBy(q)' = IF q = p THEN SentBy(q) \cup S ELSE SentBy(q)
  BY AcceptSends DEF dbVars
<1>2. paidTimes[r] \in Nat /\ Net[r] \in Nat
  BY SettlementAssumption DEF BatchInv, BatchTypes
<1> HIDE DEF S
<1>3. CASE r \in S
  <2>1. bankState'[r] = "settled"
    BY <1>1, <1>3 DEF bankState
  <2>2. status[r] = "SCHEDULED" \/ status[r] = "ANTICIPATED"
    BY <1>1, <1>3 DEF Unsettled
  <2>3. CASE status[r] = "SCHEDULED"
    <3>1. bankState[r] = "open"
      BY <1>1, <1>3, <2>3 DEF bankState
    <3>2. paidTimes'[r] = paidTimes[r] + 1
      BY <1>1, <1>3, <2>3 DEF Scheduled
    <3>3. (paidTimes[r] + 1) * Net[r] = paidTimes[r] * Net[r] + Net[r]
      BY <1>2
    <3>4. bankPaid'[r] = bankPaid[r] + Net[r]
      BY <3>2, <3>3 DEF bankPaid
    <3>5. QED
      BY <2>1, <3>1, <3>4 DEF Bank!Pay, Bank!Becomes
  <2>4. CASE status[r] = "ANTICIPATED"
    <3>1. bankState[r] = "advanced"
      BY <1>1, <1>3, <2>4 DEF bankState
    <3>2. paidTimes'[r] = paidTimes[r]
      BY <1>1, <2>4 DEF Scheduled
    <3>3. paidTimes[r] * Net[r] \in Int
      BY <1>2
    <3>4. bankPaid'[r] = bankPaid[r] + 0
      BY <3>2, <3>3 DEF bankPaid
    <3>5. QED
      BY <2>1, <3>1, <3>4 DEF Bank!Retain, Bank!Becomes
  <2>5. QED
    BY <2>2, <2>3, <2>4
<1>4. CASE r \notin S
  BY <1>1, <1>4, BankIdle DEF Scheduled
<1>5. QED
  BY <1>3, <1>4

\* The commit shows the bank nothing new: what it marks was sent.
LEMMA CommitIdle ==
  ASSUME BatchInv, NEW p \in Pod, Commit(p), NEW r \in Rcv
  PROVE  Bank!Keep(r)
<1>1. /\ status' = [x \in Rcv |-> IF x \in SentBy(p) THEN "SETTLED" ELSE status[x]]
      /\ open' = [open EXCEPT ![p] = {}]
      /\ paidTimes' = paidTimes
  BY DEF Commit, SentBy, bankVars
<1>2. \A q \in Pod : SentBy(q)' = IF q = p THEN {} ELSE SentBy(q)
  BY <1>1 DEF SentBy, Confirmed, BatchInv, BatchTypes
<1>3. bankPaid'[r] = bankPaid[r]
  BY <1>1 DEF bankPaid
<1>4. bankState'[r] = bankState[r]
  <2>1. CASE r \in SentBy(p)
    BY <1>1, <2>1 DEF bankState
  <2>2. CASE r \notin SentBy(p)
    BY <1>1, <1>2, <2>2 DEF bankState
  <2>3. QED
    BY <2>1, <2>2
<1>5. QED
  BY <1>3, <1>4 DEF Bank!Keep

\* A dispute voids a row that no job has sent.
LEMMA DisputeVoids ==
  ASSUME BatchInv, NEW x \in Rcv, DisputeRow(x), NEW r \in Rcv
  PROVE  Bank!Void(r) \/ Bank!Keep(r)
<1>1. /\ status' = [status EXCEPT ![x] = "CHARGEBACKED"]
      /\ status[x] \in Unsettled /\ x \in apiRows
      /\ UNCHANGED <<paidTimes, open>>
  BY DEF DisputeRow, bankVars, podVars
<1>2. status \in [Rcv -> RcvStatus] /\ paidTimes[r] \in Nat /\ Net[r] \in Nat
  BY SettlementAssumption DEF BatchInv, BatchTypes
<1>3. \A q \in Pod : SentBy(q)' = SentBy(q)
  BY <1>1 DEF SentBy
<1>4. CASE r = x
  <2>1. \A q \in Pod : r \notin SentBy(q)
    BY <1>1, <1>4, SentRowsLocked DEF BatchInv, RowLocks
  <2>2. bankState[r] = "open" \/ bankState[r] = "advanced"
    BY <1>1, <1>4, <2>1 DEF bankState, Unsettled
  <2>3. bankState'[r] = "void"
    BY <1>1, <1>2, <1>3, <1>4, <2>1 DEF bankState
  <2>4. paidTimes[r] * Net[r] \in Int
    BY <1>2
  <2>5. bankPaid'[r] = bankPaid[r] + 0
    BY <1>1, <2>4 DEF bankPaid
  <2>6. QED
    BY <2>2, <2>3, <2>5 DEF Bank!Void, Bank!Becomes
<1>5. CASE r # x
  BY <1>1, <1>2, <1>3, <1>5, BankIdle
<1>6. QED
  BY <1>4, <1>5

\* A step that loses nothing is a step of Payout.
LEMMA BankStep ==
  ASSUME BatchInv, [Next]_vars, ~Loses
  PROVE  Bank!Next
<1>1. BatchInv'
  BY BatchInvKept
<1>2. bankState' \in [Rcv -> Bank!State]
  BY DEF bankState, Bank!State
<1>3. bankPaid' \in [Rcv -> Int]
  <2>1. paidTimes' \in [Rcv -> Nat] /\ Net \in [Rcv -> Nat]
    BY <1>1, SettlementAssumption DEF BatchInv, BatchTypes
  <2>2. \A r \in Rcv : paidTimes'[r] * Net[r] \in Int
    BY <2>1
  <2>3. QED
    BY <2>2 DEF bankPaid
<1>4. ASSUME NEW r \in Rcv
      PROVE  \/ Bank!Open(r) \/ Bank!Advance(r) \/ Bank!Pay(r)
             \/ Bank!Retain(r) \/ Bank!Void(r) \/ Bank!Keep(r)
  <2>1. CASE UNCHANGED <<status, paidTimes, open>>
    BY <2>1, BankIdle DEF SentBy
  <2>2. ASSUME NEW p \in Pod, NEW m \in Merchant, Accept(p, m)
        PROVE  Bank!Pay(r) \/ Bank!Retain(r) \/ Bank!Keep(r)
    BY <2>2, AcceptPays
  <2>3. ASSUME NEW p \in Pod, NEW m \in Merchant, Reject(p, m)
        PROVE  Bank!Keep(r)
    <3>1. /\ open' = [open EXCEPT ![p] = open[p] \cup {Row(m, Part(p, m), "FAILED")}]
          /\ status' = status /\ paidTimes' = paidTimes
      BY <2>3 DEF Reject, dbVars, bankVars
    <3>2. Row(m, Part(p, m), "FAILED").status = "FAILED"
      BY DEF Row
    <3>3. \A q \in Pod : SentBy(q)' = SentBy(q)
      BY <3>1, <3>2 DEF SentBy, Confirmed, BatchInv, BatchTypes
    <3>4. QED
      BY <3>1, <3>3, BankIdle
  <2>4. ASSUME NEW p \in Pod, Commit(p) PROVE Bank!Keep(r)
    BY <2>4, CommitIdle
  <2>5. ASSUME NEW x \in Rcv, DisputeRow(x) PROVE Bank!Void(r) \/ Bank!Keep(r)
    BY <2>5, DisputeVoids
  <2>6. ASSUME NEW p \in Pod, Start(p) \/ ListDue(p) PROVE UNCHANGED <<status, paidTimes, open>>
    BY <2>6 DEF Start, ListDue, dbVars, bankVars
  <2>7. ASSUME NEW x \in Rcv, LockRow(x) \/ UnlockRow(x)
        PROVE  UNCHANGED <<status, paidTimes, open>>
    BY <2>7 DEF LockRow, UnlockRow, dbVars, bankVars, podVars
  <2>8. LockExpires \/ UNCHANGED vars => UNCHANGED <<status, paidTimes, open>>
    BY DEF LockExpires, vars, dbVars, bankVars, podVars
  <2>9. QED
    BY <2>1, <2>2, <2>3, <2>4, <2>5, <2>6, <2>7, <2>8 DEF Next, Job, Api, Loses
<1>5. QED
  BY <1>2, <1>3, <1>4 DEF Bank!Next

\* A loss undoes what its batch sent, for the database only.
LEMMA LossTakesBack ==
  ASSUME BatchInv, NEW p \in Pod, Fail(p) \/ Kill(p)
  PROVE  TakesBack
<1>1. open' = [open EXCEPT ![p] = {}] /\ status' = status /\ paidTimes' = paidTimes
  BY DEF Fail, Kill, dbVars, bankVars
<1>2. \A q \in Pod : SentBy(q)' = IF q = p THEN {} ELSE SentBy(q)
  BY <1>1 DEF SentBy, Confirmed, BatchInv, BatchTypes
<1>3. bankPaid' = bankPaid
  BY <1>1 DEF bankPaid
<1>4. ASSUME NEW r \in Rcv, bankState'[r] # bankState[r]
      PROVE  /\ bankState[r] = "settled"
             /\ bankState'[r] = IF r \in Anticipated THEN "advanced" ELSE "open"
  <2>1. status[r] # "SETTLED" /\ r \in SentBy(p) /\ \A q \in Pod : r \notin SentBy(q)'
    BY <1>1, <1>2, <1>4 DEF bankState
  <2>2. status[r] \in Unsettled
    BY <2>1, SentRowsLocked DEF BatchInv, RowLocks
  <2>3. (status[r] = "ANTICIPATED" <=> r \in Anticipated) /\ status[r] # "CHARGEBACKED"
    BY <2>2 DEF BatchInv, AnticipatedStays, Unsettled
  <2>4. bankState[r] = "settled"
    BY <2>1 DEF bankState
  <2>5. bankState'[r] = IF r \in Anticipated THEN "advanced" ELSE "open"
    BY <1>1, <2>1, <2>3 DEF bankState
  <2>6. QED
    BY <2>4, <2>5
<1>5. QED
  BY <1>3, <1>4 DEF TakesBack

\* Any number of jobs, batches and API requests at the same time, with or without the lock
\* of Redis, and whatever the bank rejects: each step does with every installment what
\* Payout allows, as the bank sees it. The only exception is a step that loses a
\* transaction, and that one takes the installments back which the transaction had sent,
\* but not the money.
KeepsPromiseUnlessLost == [][IF Loses THEN TakesBack ELSE Bank!Next]_vars

\* Every behaviour of the job satisfies KeepsPromiseUnlessLost.
THEOREM SettlementStepsPay == Spec => KeepsPromiseUnlessLost
<1> DEFINE A == IF Loses THEN TakesBack ELSE Bank!Next
<1>1. BatchInv /\ [Next]_vars => A
  BY BankStep, LossTakesBack DEF Loses
<1> HIDE DEF A
<1>2. Spec => [][A]_vars
  BY <1>1, BatchInvCorrect, PTL DEF Spec
<1>3. QED
  BY <1>2 DEF A, KeepsPromiseUnlessLost

\* So while nothing is lost, the job refines Payout step by step.
THEOREM SettlementImplementsPayout ==
  ASSUME MaxFailures = 0, MaxKills = 0
  PROVE  Spec => [][Bank!Next]_<<bankState, bankPaid>>
<1>1. BatchInv /\ [Next]_vars => [Bank!Next]_<<bankState, bankPaid>>
  <2> SUFFICES ASSUME BatchInv, [Next]_vars PROVE Bank!Next
    OBVIOUS
  <2>1. ~Loses
    BY DEF Loses, Fail, Kill, BatchInv, BatchTypes
  <2>2. QED
    BY <2>1, BankStep
<1>2. QED
  BY <1>1, BatchInvCorrect, PTL DEF Spec
=============================================================================
