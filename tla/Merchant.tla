------------------------------ MODULE Merchant ------------------------------
(***************************************************************************)
(* The registration of merchants: onboarding, review (approve, block) and  *)
(* settings. A request reads the row of a merchant, changes its copy and   *)
(* writes all of it back, in separate statements and without a database    *)
(* transaction; a version guards the write ("lock otimista"). Each change  *)
(* of a field adds one to the version of the copy.                         *)
(***************************************************************************)
EXTENDS Integers

CONSTANTS
  Document,    \* what identifies a merchant
  Url,         \* webhooks that SetWebhook accepts
  NoUrl,
  Request,     \* requests of the API that run at the same time
  NoRow, NoWork,
  Same,        \* "leave this field as it is"
  MaxVersion   \* bound: no request reads a row of this version

ASSUME MerchantAssumption ==
  /\ NoUrl \notin Url
  /\ Same \notin Url
  /\ Same \notin BOOLEAN
  /\ Same \notin {"UNDER_REVIEW", "ACTIVE", "BLOCKED"}
  /\ MaxVersion \in Nat

Status == {"UNDER_REVIEW", "ACTIVE", "BLOCKED"}

Moves == {<<"UNDER_REVIEW", "ACTIVE">>, <<"ACTIVE", "BLOCKED">>}

Row == [status : Status, webhook : Url \cup {NoUrl}, auto : BOOLEAN, version : Nat]

(* What a request asks for: a new status, or new settings. *)
Review   == [status : {"ACTIVE", "BLOCKED"}, webhook : {Same}, auto : {Same}]
Settings == [status : {Same}, webhook : Url \cup {Same}, auto : BOOLEAN \cup {Same}]
Change   == Review \cup Settings

Work == [merchant : Document, read : Row, change : Change]

ASSUME AbsentAssumption == NoRow \notin Row /\ NoWork \notin Work

VARIABLES
  row,   \* the table: one row for each document
  work   \* what each request has read and wants to change

vars == <<row, work>>

-----------------------------------------------------------------------------
(* The merchant in the memory of a request *)

Touch(new)       == IF new = Same THEN 0 ELSE 1
Touches(c)       == Touch(c.status) + Touch(c.webhook) + Touch(c.auto)
Chosen(old, new) == IF new = Same THEN old ELSE new

\* Faulty variant: Approve accepts a merchant that is blocked.
AllowedAgain(x, c) ==
  c.status # Same => <<x.status, c.status>> \in Moves \cup {<<"BLOCKED", "ACTIVE">>}

Allowed(x, c) == c.status # Same => <<x.status, c.status>> \in Moves

\* Faulty variant: the settings that were not sent are overwritten.
ApplyAll(x, c) ==
  [status  |-> Chosen(x.status, c.status),
   webhook |-> c.webhook,
   auto    |-> c.auto,
   version |-> x.version + Touches(c)]

Apply(x, c) ==
  [status  |-> Chosen(x.status, c.status),
   webhook |-> Chosen(x.webhook, c.webhook),
   auto    |-> Chosen(x.auto, c.auto),
   version |-> x.version + Touches(c)]

Draft(r) == Apply(work[r].read, work[r].change)

\* Faulty variant: the row may have any version.
NewerAlways(r) == TRUE

\* The condition of the UPDATE (WHERE version < ...).
Newer(r) == row[work[r].merchant].version < Draft(r).version

-----------------------------------------------------------------------------
Registered(m) == row[m] # NoRow
Busy(r)       == work[r] # NoWork
Done(r)       == work' = [work EXCEPT ![r] = NoWork]

\* A new merchant has version 1; the webhook of its onboarding counts as a change.
New(url) ==
  [status |-> "UNDER_REVIEW", webhook |-> url, auto |-> FALSE,
   version |-> IF url = NoUrl THEN 1 ELSE 2]

\* A document is onboarded once (UNIQUE).
Onboard(m, url) ==
  /\ ~Registered(m)
  /\ row' = [row EXCEPT ![m] = New(url)]
  /\ UNCHANGED work

\* FindByID and the change; a change that is refused ends the request without effect.
Read(r, m, c) ==
  /\ ~Busy(r)
  /\ Registered(m)
  /\ row[m].version < MaxVersion
  /\ Allowed(row[m], c)
  /\ work' = [work EXCEPT ![r] = [merchant |-> m, read |-> row[m], change |-> c]]
  /\ UNCHANGED row

\* Update writes every column, whatever the request changed.
Update(r) ==
  /\ Busy(r)
  /\ Newer(r)
  /\ row' = [row EXCEPT ![work[r].merchant] = Draft(r)]
  /\ Done(r)

\* No row matched: ErrConcurrentUpdate, 409. A settings request without a field gets it
\* too, whoever wrote the row.
Refuse(r) ==
  /\ Busy(r)
  /\ ~Newer(r)
  /\ Done(r)
  /\ UNCHANGED row

\* The client leaves, the database fails or the replica stops before the UPDATE.
Abandon(r) ==
  /\ Busy(r)
  /\ Done(r)
  /\ UNCHANGED row

Init ==
  /\ row = [m \in Document |-> NoRow]
  /\ work = [r \in Request |-> NoWork]

Serve(r) ==
  \/ \E m \in Document, c \in Change : Read(r, m, c)
  \/ Update(r)
  \/ Refuse(r)
  \/ Abandon(r)

Next ==
  \/ \E m \in Document, url \in Url \cup {NoUrl} : Onboard(m, url)
  \/ \E r \in Request : Serve(r)

Spec == Init /\ [][Next]_vars

-----------------------------------------------------------------------------
(* Properties *)

TypeOK ==
  /\ row \in [Document -> Row \cup {NoRow}]
  /\ work \in [Request -> Work \cup {NoWork}]

\* A version number stands for one content: a request that finds the version it has
\* read finds the row it has read, also after any number of other writes.
VersionIdentifiesRow ==
  \A r \in Request :
    Busy(r) => LET now == row[work[r].merchant]
               IN  /\ now \in Row
                   /\ work[r].read.version <= now.version
                   /\ work[r].read.version = now.version => work[r].read = now

\* r is the request that ended with this step, by writing the row of m.
Wrote(r, m) ==
  /\ Busy(r)
  /\ work[r].merchant = m
  /\ work'[r] = NoWork
  /\ row'[m] = Draft(r)

\* A write replaces the row that was read. The exception is a request that changes both
\* settings: its copy is two versions ahead, and the row may be one ahead of what it has
\* read. Then what it overwrites unseen is the one write that brought the row to that
\* version (which may be of another request with both settings, from an older copy).
OverwritesOneChangeAtMost ==
  [][\A m \in Document : Registered(m) /\ row'[m] # row[m] =>
       \E r \in Request :
         /\ Wrote(r, m)
         /\ \/ work[r].read = row[m]
            \/ /\ Touches(work[r].change) = 2
               /\ row[m].version = work[r].read.version + 1]_vars

\* What such a request undoes of the review is one move: it puts back the status it has
\* read, from which the merchant was approved or blocked meanwhile.
OneMoveUndoneAtMost ==
  [][\A m \in Document : Registered(m) =>
       \/ row'[m].status = row[m].status
       \/ <<row[m].status, row'[m].status>> \in Moves
       \/ \E r \in Request :
            /\ Wrote(r, m)
            /\ Touches(work[r].change) = 2
            /\ <<row'[m].status, row[m].status>> \in Moves]_vars

\* Review moves a merchant from review to active to blocked, and no request moves it
\* back ("lock otimista", migrations/000001_merchants.up.sql).
StatusMachine ==
  [][\A m \in Document : Registered(m) =>
       \/ row'[m].status = row[m].status
       \/ <<row[m].status, row'[m].status>> \in Moves]_vars
=============================================================================
