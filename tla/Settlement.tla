----------------------------- MODULE Settlement -----------------------------
(***************************************************************************)
(* The settlement job (SettleDue) for one business day, run by several     *)
(* pods: the CronJob's, its retries, and one an operator starts by hand.   *)
(* A pod takes the day's lock in Redis, then works in batches. A batch is  *)
(* one database transaction that locks the first due installments nobody   *)
(* has locked (ORDER BY merchant_id, id LIMIT n FOR UPDATE SKIP LOCKED),   *)
(* builds one settlement per merchant, writes the bank's file for it and   *)
(* marks the installments, all before the commit.                          *)
(*                                                                         *)
(* What a database transaction wrote is in `open` until it commits; the    *)
(* files of the bank are outside of it.                                    *)
(***************************************************************************)
EXTENDS Integers, FiniteSets, Functions

CONSTANTS
  Pod,             \* runs of the job for this day
  NoPod,           \* nobody has the day's lock
  Merchant,
  Rcv,             \* installments due on this day
  MerchantOf,      \* the merchant of an installment
  Rank,            \* place of an installment in ORDER BY merchant_id, id
  Net,             \* net value of an installment
  Anticipated,     \* installments anticipated before this day
  Lien,            \* what the creditors of a merchant may claim on this day
  BadAccount,      \* <<m, kind>>: orders of that kind for m go to an invalid account
  BatchSize,
  ByHand,          \* pods started by hand, which no deadline ends before the lock's
  MaxFailures,     \* bound on the errors of the database and of the disk
  MaxKills,        \* bound on the pods that are killed
  MaxRequests      \* bound on the API requests that lock one of these rows

OrderKind == {"TO_MERCHANT", "TO_CREDITOR"}

ASSUME SettlementAssumption ==
  /\ NoPod \notin Pod
  /\ IsFiniteSet(Rcv)
  /\ MerchantOf \in [Rcv -> Merchant]
  /\ Rank \in [Rcv -> Nat]
  /\ Net \in [Rcv -> Nat]
  /\ Anticipated \subseteq Rcv
  /\ Lien \in [Merchant -> Nat]
  /\ BadAccount \subseteq Merchant \X OrderKind
  /\ BatchSize \in Nat \ {0}
  /\ ByHand \subseteq Pod
  /\ MaxFailures \in Nat /\ MaxKills \in Nat /\ MaxRequests \in Nat

VARIABLES
  status,      \* of each installment
  settlements, \* rows of settlements
  paidTimes,   \* how many files of the bank pay an installment
  toCreditors, \* sum of the orders sent to the creditors of a merchant
  toMerchant,  \* sum of the orders sent to a merchant
  holder,      \* the pod whose token is in the day's lock, or NoPod
  expired,     \* pods whose lock expired before they released it
  pc,          \* what each pod does
  rows,        \* rows a pod has locked in its open batch
  open,        \* settlements a pod has written in its open batch
  apiRows,     \* rows locked by an API request (anticipation, chargeback)
  failures, kills, requests

bankVars  == <<paidTimes, toCreditors, toMerchant>>
dbVars    == <<status, settlements>>
podVars   == <<pc, rows, open>>
lockVars  == <<holder, expired>>
countVars == <<failures, kills, requests>>
vars == <<dbVars, bankVars, lockVars, podVars, apiRows, countVars>>

-----------------------------------------------------------------------------
RcvStatus     == {"SCHEDULED", "ANTICIPATED", "SETTLED", "CHARGEBACKED"}
Unsettled     == {"SCHEDULED", "ANTICIPATED"}
SettlementRow == [merchant : Merchant, receivables : SUBSET Rcv,
                  status : {"CONFIRMED", "FAILED"}]
PodState == {"idle", "running", "batch", "done", "refused", "failed", "killed"}

Working(p) == pc[p] \in {"running", "batch"}
Locked     == apiRows \cup UNION {rows[p] : p \in Pod}
Free       == {r \in Rcv \ Locked : status[r] \in Unsettled}

\* Faulty variant: FOR UPDATE SKIP LOCKED is missing from the query.
BatchUnlocked ==
  LET due == {r \in Rcv : status[r] \in Unsettled}
  IN {r \in due : Cardinality({q \in due : Rank[q] < Rank[r]}) < BatchSize}

\* Faulty variant: the query selects the SCHEDULED installments only.
BatchOfScheduled ==
  LET due == {r \in Free : status[r] = "SCHEDULED"}
  IN {r \in due : Cardinality({q \in due : Rank[q] < Rank[r]}) < BatchSize}

Batch == {r \in Free : Cardinality({q \in Free : Rank[q] < Rank[r]}) < BatchSize}

-----------------------------------------------------------------------------
(* Settlement.Build: creditors first, then the merchant; installments that were
   anticipated are retained. *)
Scheduled(S) == {r \in S : status[r] = "SCHEDULED"}

\* Faulty variant: what was anticipated is not retained.
PayableOfAll(S) == SumFunctionOnSet(Net, S)

Payable(S)   == SumFunctionOnSet(Net, Scheduled(S))

\* Faulty variant: the merchant is paid before its creditors.
CreditorShareLast(m, S) == 0

\* Several creditors: each takes its claim while there is something left, in sum the
\* total of their claims or all there is.
CreditorShare(m, S) == IF Lien[m] < Payable(S) THEN Lien[m] ELSE Payable(S)

MerchantShare(m, S) == Payable(S) - CreditorShare(m, S)

Orders(m, S) ==
  {k \in OrderKind : \/ k = "TO_CREDITOR" /\ CreditorShare(m, S) > 0
                     \/ k = "TO_MERCHANT" /\ MerchantShare(m, S) > 0}

InvalidAccount(m, S) == \E k \in Orders(m, S) : <<m, k>> \in BadAccount

\* The merchant's part of the open batch of p.
Part(p, m) == {r \in rows[p] : MerchantOf[r] = m}
Pending(p, m) == Part(p, m) # {} /\ \A s \in open[p] : s.merchant # m

Row(m, S, st) == [merchant |-> m, receivables |-> S, status |-> st]
Confirmed(S)  == UNION {s.receivables : s \in {x \in S : x.status = "CONFIRMED"}}

\* Faulty variant: the lock is deleted whoever's token it holds.
ReleaseAny(p) == holder' = NoPod

\* Release runs a script that deletes the key only if it holds the pod's token.
Release(p) == holder' = IF holder = p THEN NoPod ELSE holder

\* Faulty variant: the lock is taken even if another pod has it.
StartAnyway(p) ==
  /\ pc[p] = "idle"
  /\ holder' = p
  /\ pc' = [pc EXCEPT ![p] = "running"]
  /\ UNCHANGED <<dbVars, bankVars, expired, rows, open, apiRows, countVars>>

\* SETNX: taken if nobody has it, else ErrAlreadyRunning.
Start(p) ==
  /\ pc[p] = "idle"
  /\ \/ /\ holder = NoPod
        /\ holder' = p
        /\ pc' = [pc EXCEPT ![p] = "running"]
     \/ /\ holder # NoPod
        /\ pc' = [pc EXCEPT ![p] = "refused"]
        /\ UNCHANGED holder
  /\ UNCHANGED <<dbVars, bankVars, expired, rows, open, apiRows, countVars>>

\* Faulty variant: an empty list does not end the loop.
ListDueForever(p) ==
  /\ pc[p] = "running"
  /\ IF Batch = {}
     THEN UNCHANGED <<pc, rows>>
     ELSE /\ pc' = [pc EXCEPT ![p] = "batch"]
          /\ rows' = [rows EXCEPT ![p] = Batch]
  /\ UNCHANGED <<dbVars, bankVars, lockVars, open, apiRows, countVars>>

\* ListDueOnForUpdate at the start of a batch; an empty list ends the job.
ListDue(p) ==
  /\ pc[p] = "running"
  /\ \/ /\ Batch # {}
        /\ pc' = [pc EXCEPT ![p] = "batch"]
        /\ rows' = [rows EXCEPT ![p] = Batch]
        /\ UNCHANGED holder
     \/ /\ Batch = {}
        /\ pc' = [pc EXCEPT ![p] = "done"]
        /\ Release(p)
        /\ UNCHANGED rows
  /\ UNCHANGED <<dbVars, bankVars, expired, open, apiRows, countVars>>

\* The file of the settlement is written while the transaction is open.
Accept(p, m) ==
  LET S == Part(p, m) IN
  /\ pc[p] = "batch"
  /\ Pending(p, m)
  /\ ~InvalidAccount(m, S)
  /\ paidTimes' = [r \in Rcv |-> IF r \in Scheduled(S) THEN paidTimes[r] + 1
                                                       ELSE paidTimes[r]]
  /\ toCreditors' = [toCreditors EXCEPT ![m] = @ + CreditorShare(m, S)]
  /\ toMerchant' = [toMerchant EXCEPT ![m] = @ + MerchantShare(m, S)]
  /\ open' = [open EXCEPT ![p] = @ \cup {Row(m, S, "CONFIRMED")}]
  /\ UNCHANGED <<dbVars, lockVars, pc, rows, apiRows, countVars>>

\* An invalid account, or the file cannot be written: the settlement is FAILED,
\* its installments stay as they are and the batch goes on.
Reject(p, m) ==
  LET S == Part(p, m) IN
  /\ pc[p] = "batch"
  /\ Pending(p, m)
  /\ \/ InvalidAccount(m, S) /\ UNCHANGED failures
     \/ /\ ~InvalidAccount(m, S)
        /\ failures < MaxFailures
        /\ failures' = failures + 1
  /\ open' = [open EXCEPT ![p] = @ \cup {Row(m, S, "FAILED")}]
  /\ UNCHANGED <<dbVars, bankVars, lockVars, pc, rows, apiRows, kills, requests>>

\* Faulty variant: what was sent is recorded, the installments are not marked.
CommitUnmarked(p) ==
  /\ pc[p] = "batch"
  /\ \A m \in Merchant : ~Pending(p, m)
  /\ settlements' = settlements \cup open[p]
  /\ pc' = [pc EXCEPT ![p] = "running"]
  /\ rows' = [rows EXCEPT ![p] = {}]
  /\ open' = [open EXCEPT ![p] = {}]
  /\ UNCHANGED <<status, bankVars, lockVars, apiRows, countVars>>

\* Faulty variant: the installments of rejected settlements are marked too.
CommitAll(p) ==
  /\ pc[p] = "batch"
  /\ \A m \in Merchant : ~Pending(p, m)
  /\ status' = [r \in Rcv |-> IF r \in rows[p] THEN "SETTLED" ELSE status[r]]
  /\ settlements' = settlements \cup open[p]
  /\ pc' = [pc EXCEPT ![p] = "running"]
  /\ rows' = [rows EXCEPT ![p] = {}]
  /\ open' = [open EXCEPT ![p] = {}]
  /\ UNCHANGED <<bankVars, lockVars, apiRows, countVars>>

\* Every merchant of the batch was handled.
Commit(p) ==
  /\ pc[p] = "batch"
  /\ \A m \in Merchant : ~Pending(p, m)
  /\ status' = [r \in Rcv |-> IF r \in Confirmed(open[p]) THEN "SETTLED" ELSE status[r]]
  /\ settlements' = settlements \cup open[p]
  /\ pc' = [pc EXCEPT ![p] = "running"]
  /\ rows' = [rows EXCEPT ![p] = {}]
  /\ open' = [open EXCEPT ![p] = {}]
  /\ UNCHANGED <<bankVars, lockVars, apiRows, countVars>>

\* Any other error, or SIGTERM: rollback, the lock is released, exit code 1.
Fail(p) ==
  /\ Working(p)
  /\ failures < MaxFailures
  /\ failures' = failures + 1
  /\ pc' = [pc EXCEPT ![p] = "failed"]
  /\ rows' = [rows EXCEPT ![p] = {}]
  /\ open' = [open EXCEPT ![p] = {}]
  /\ Release(p)
  /\ UNCHANGED <<dbVars, bankVars, expired, apiRows, kills, requests>>

\* The pod disappears: the database rolls back, the lock stays.
Kill(p) ==
  /\ Working(p)
  /\ kills < MaxKills
  /\ kills' = kills + 1
  /\ pc' = [pc EXCEPT ![p] = "killed"]
  /\ rows' = [rows EXCEPT ![p] = {}]
  /\ open' = [open EXCEPT ![p] = {}]
  /\ UNCHANGED <<dbVars, bankVars, lockVars, apiRows, failures, requests>>

\* Two hours after SETNX. A pod of the CronJob is ended after one
\* (activeDeadlineSeconds), so only one started by hand can still be working.
LockExpires ==
  /\ holder \in Pod
  /\ Working(holder) => holder \in ByHand
  /\ expired' = expired \cup {holder}
  /\ holder' = NoPod
  /\ UNCHANGED <<dbVars, bankVars, podVars, apiRows, countVars>>

-----------------------------------------------------------------------------
(* API requests that lock a row of this day: an anticipation (refused, the
   installment is not due later than today) or a chargeback. *)
LockRow(r) ==
  /\ r \notin Locked
  /\ requests < MaxRequests
  /\ requests' = requests + 1
  /\ apiRows' = apiRows \cup {r}
  /\ UNCHANGED <<dbVars, bankVars, lockVars, podVars, failures, kills>>

\* The request is refused or fails.
UnlockRow(r) ==
  /\ r \in apiRows
  /\ apiRows' = apiRows \ {r}
  /\ UNCHANGED <<dbVars, bankVars, lockVars, podVars, countVars>>

\* The request is a chargeback of its sale. What is already settled stays.
DisputeRow(r) ==
  /\ r \in apiRows
  /\ status[r] \in Unsettled
  /\ status' = [status EXCEPT ![r] = "CHARGEBACKED"]
  /\ apiRows' = apiRows \ {r}
  /\ UNCHANGED <<settlements, bankVars, lockVars, podVars, countVars>>

-----------------------------------------------------------------------------
Init ==
  /\ status = [r \in Rcv |-> IF r \in Anticipated THEN "ANTICIPATED" ELSE "SCHEDULED"]
  /\ settlements = {}
  /\ paidTimes = [r \in Rcv |-> 0]
  /\ toCreditors = [m \in Merchant |-> 0]
  /\ toMerchant = [m \in Merchant |-> 0]
  /\ holder = NoPod
  /\ expired = {}
  /\ pc = [p \in Pod |-> "idle"]
  /\ rows = [p \in Pod |-> {}]
  /\ open = [p \in Pod |-> {}]
  /\ apiRows = {}
  /\ failures = 0
  /\ kills = 0
  /\ requests = 0

Job(p) ==
  \/ Start(p)
  \/ ListDue(p)
  \/ \E m \in Merchant : Accept(p, m) \/ Reject(p, m)
  \/ Commit(p)
  \/ Fail(p)
  \/ Kill(p)

Api(r) == LockRow(r) \/ UnlockRow(r) \/ DisputeRow(r)

Next == (\E p \in Pod : Job(p)) \/ LockExpires \/ (\E r \in Rcv : Api(r))

Spec == Init /\ [][Next]_vars

(* A pod that runs goes on with its batches; nothing makes it start. *)
Fairness ==
  \A p \in Pod :
    /\ WF_vars(ListDue(p))
    /\ WF_vars(\E m \in Merchant : Accept(p, m) \/ Reject(p, m))
    /\ WF_vars(Commit(p))

FairSpec == Spec /\ Fairness

-----------------------------------------------------------------------------
(* Properties *)

TypeOK ==
  /\ status \in [Rcv -> RcvStatus]
  /\ settlements \subseteq SettlementRow
  /\ paidTimes \in [Rcv -> Nat]
  /\ toCreditors \in [Merchant -> Nat]
  /\ toMerchant \in [Merchant -> Nat]
  /\ holder \in Pod \cup {NoPod}
  /\ expired \subseteq Pod
  /\ pc \in [Pod -> PodState]
  /\ rows \in [Pod -> SUBSET Rcv]
  /\ open \in [Pod -> SUBSET SettlementRow]
  /\ apiRows \subseteq Rcv
  /\ failures \in 0..MaxFailures
  /\ kills \in 0..MaxKills
  /\ requests \in 0..MaxRequests

\* What p has sent for the batch it has not committed.
SentBy(p) == Confirmed(open[p])

\* The files that the database accounts for.
Accounted(r) ==
  IF r \notin Anticipated /\ (status[r] = "SETTLED" \/ \E p \in Pod : r \in SentBy(p))
  THEN 1 ELSE 0

\* The files of the bank agree with the database: an installment is in exactly one file
\* if it is settled (or about to be, in the batch that sent it) and was not anticipated,
\* and in none otherwise, disputed ones included. Only a transaction that is lost after
\* its file was written makes a difference, of one file: neither several jobs at the same
\* time, with a lock that expired, nor API requests on the same rows do.
BankMatchesBooks ==
  \A r \in Rcv : /\ Accounted(r) <= paidTimes[r]
                 /\ paidTimes[r] <= Accounted(r) + failures + kills

\* Nothing is SETTLED unless it was in a file of the bank or had been anticipated,
\* and nothing is without a settlement that is CONFIRMED, whatever fails or is killed.
SettledWasSent ==
  \A r \in Rcv :
    status[r] = "SETTLED" =>
      /\ r \in Anticipated \/ paidTimes[r] >= 1
      /\ r \in Confirmed(settlements)

\* A merchant receives nothing on a day its creditors did not receive their claim in
\* full, however its installments are cut into batches.
CreditorFirst ==
  \A m \in Merchant : toMerchant[m] > 0 => toCreditors[m] >= Lien[m]

\* What a merchant and its creditors are sent adds up to the net value of the merchant's
\* installments in the files of the bank, however the day is cut into batches and shares
\* and whatever is rejected, lost and sent again: no cent is lost, none is paid for an
\* installment that is retained.
OrdersAddUp ==
  \A m \in Merchant :
    toCreditors[m] + toMerchant[m] =
      SumFunction([r \in {q \in Rcv : MerchantOf[q] = m} |-> paidTimes[r] * Net[r]])

\* A job that works holds the lock of the day, unless the lock expired under it: no
\* other job takes it or deletes it.
LockHeldWhileWorking ==
  \A p \in Pod : Working(p) => holder = p \/ p \in expired

\* "NUNCA duas liquidacoes ao mesmo tempo" (settlement-cronjob.yaml), of the pods of the
\* CronJob and with the lock of Redis alone: whatever a pod started by hand does, and
\* after a pod was killed or failed.
OneJobAtATime ==
  \A p, q \in Pod \ ByHand : Working(p) /\ Working(q) => p = q

\* A job that ends with success leaves nothing of the day unsettled but the rows that an
\* API request holds at that moment, for SKIP LOCKED passes them over; a job started by
\* hand, which may outlive its lock, and the one that took that lock may leave each
\* other's open batch.
DoneLeavesOnlyLocked ==
  [][\A p \in Pod : pc[p] # "done" /\ pc'[p] = "done" =>
       \A r \in Rcv : status'[r] \in Unsettled =>
         \/ r \in apiRows
         \/ \E q \in Pod : r \in rows[q] /\ {p, q} \cap ByHand # {}]_vars

\* So it leaves nothing unsettled if there are no such requests and no such job.
DoneMeansSettled ==
  (\E p \in Pod : pc[p] = "done") => \A r \in Rcv : status[r] \notin Unsettled

\* A job that started ends: done, failed or killed.
JobEnds == \A p \in Pod : Working(p) ~> ~Working(p)
=============================================================================
