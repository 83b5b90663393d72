--------------------------- MODULE MerchantProofs ---------------------------
(***************************************************************************)
(* Proofs about Merchant, for any number of merchants, webhooks and        *)
(* requests: what the version of a row identifies, what a write overwrites *)
(* at most, and that the review is never undone if no request changes two  *)
(* settings.                                                               *)
(***************************************************************************)
EXTENDS Merchant, TLAPS

\* A change adds up to two to the version, a review exactly one; what it makes of a row
\* is a row.
LEMMA ChangeTyped ==
  ASSUME NEW x \in Row, NEW c \in Change
  PROVE  /\ Touches(c) \in 0..2
         /\ c \in Review => Touches(c) = 1
         /\ Apply(x, c) \in Row
         /\ Apply(x, c).version = x.version + Touches(c)
         /\ Apply(x, c).status = Chosen(x.status, c.status)
<1>1. Touches(c) \in 0..2
  BY DEF Touches, Touch, Change, Review, Settings
<1>2. c \in Review => Touches(c) = 1
  BY MerchantAssumption DEF Touches, Touch, Review
<1>3. Apply(x, c) \in Row
  <2>1. Chosen(x.status, c.status) \in Status
    BY DEF Chosen, Change, Review, Settings, Row, Status
  <2>2. Chosen(x.webhook, c.webhook) \in Url \cup {NoUrl}
    BY DEF Chosen, Change, Review, Settings, Row
  <2>3. Chosen(x.auto, c.auto) \in BOOLEAN
    BY DEF Chosen, Change, Review, Settings, Row
  <2>4. x.version + Touches(c) \in Nat
    BY <1>1 DEF Row
  <2>5. QED
    BY <2>1, <2>2, <2>3, <2>4 DEF Apply, Row
<1>4. QED
  BY <1>1, <1>2, <1>3 DEF Apply

\* A document that is registered has a row; a request that is busy has its work.
LEMMA Present ==
  ASSUME TypeOK
  PROVE  /\ \A m \in Document : Registered(m) <=> row[m] \in Row
         /\ \A r \in Request : Busy(r) <=> work[r] \in Work
BY AbsentAssumption DEF TypeOK, Registered, Busy

\* What a request writes is a row, with the version and the status its changes make.
LEMMA DraftTyped ==
  ASSUME TypeOK, NEW r \in Request, Busy(r)
  PROVE  /\ work[r].merchant \in Document
         /\ work[r].read \in Row
         /\ work[r].change \in Change
         /\ Draft(r) \in Row
         /\ Draft(r).version = work[r].read.version + Touches(work[r].change)
         /\ Draft(r).status = Chosen(work[r].read.status, work[r].change.status)
<1>1. work[r] \in Work
  BY Present
<1>2. QED
  BY <1>1, ChangeTyped DEF Work, Draft

-----------------------------------------------------------------------------
(* Type correctness *)

\* Every step keeps the types.
LEMMA TypeStep == TypeOK /\ [Next]_vars => TypeOK'
<1> SUFFICES ASSUME TypeOK, [Next]_vars PROVE TypeOK'
  OBVIOUS
<1>1. ASSUME NEW m \in Document, NEW url \in Url \cup {NoUrl}, Onboard(m, url) PROVE TypeOK'
  <2>1. New(url) \in Row
    BY DEF New, Row, Status
  <2>2. QED
    BY <1>1, <2>1 DEF Onboard, TypeOK
<1>2. ASSUME NEW r \in Request, NEW m \in Document, NEW c \in Change, Read(r, m, c)
      PROVE  TypeOK'
  <2>1. row[m] \in Row
    BY <1>2, Present DEF Read
  <2>2. [merchant |-> m, read |-> row[m], change |-> c] \in Work
    BY <2>1 DEF Work
  <2>3. QED
    BY <1>2, <2>2 DEF Read, TypeOK
<1>3. ASSUME NEW r \in Request, Update(r) PROVE TypeOK'
  <2>1. Draft(r) \in Row /\ work[r].merchant \in Document
    BY <1>3, DraftTyped DEF Update
  <2>2. QED
    BY <1>3, <2>1 DEF Update, Done, TypeOK
<1>4. ASSUME NEW r \in Request, Refuse(r) \/ Abandon(r) PROVE TypeOK'
  BY <1>4 DEF Refuse, Abandon, Done, TypeOK
<1>5. CASE UNCHANGED vars
  BY <1>5 DEF vars, TypeOK
<1>6. QED
  BY <1>1, <1>2, <1>3, <1>4, <1>5 DEF Next, Serve

\* Every row and every request's work stay in their types.
THEOREM TypeCorrect == Spec => []TypeOK
<1>1. Init => TypeOK
  BY DEF Init, TypeOK
<1>2. QED
  BY <1>1, TypeStep, PTL DEF Spec

-----------------------------------------------------------------------------
(* Versions *)

\* Every step keeps VersionIdentifiesRow: only a write makes rows, and it raises the version.
LEMMA VersionStep ==
  TypeOK /\ VersionIdentifiesRow /\ [Next]_vars => VersionIdentifiesRow'
<1> SUFFICES ASSUME TypeOK, VersionIdentifiesRow, [Next]_vars,
                    NEW q \in Request, Busy(q)'
             PROVE  /\ row'[work'[q].merchant] \in Row
                    /\ work'[q].read.version <= row'[work'[q].merchant].version
                    /\ work'[q].read.version = row'[work'[q].merchant].version
                         => work'[q].read = row'[work'[q].merchant]
  BY DEF VersionIdentifiesRow
<1> DEFINE Goal == /\ row'[work'[q].merchant] \in Row
                   /\ work'[q].read.version <= row'[work'[q].merchant].version
                   /\ work'[q].read.version = row'[work'[q].merchant].version
                        => work'[q].read = row'[work'[q].merchant]
<1>t. TypeOK'
  BY TypeStep
<1>0. Busy(q) => /\ work[q].merchant \in Document
                 /\ work[q].read \in Row
                 /\ row[work[q].merchant] \in Row
                 /\ work[q].read.version <= row[work[q].merchant].version
                 /\ work[q].read.version = row[work[q].merchant].version
                      => work[q].read = row[work[q].merchant]
  BY DraftTyped DEF VersionIdentifiesRow
<1>1. ASSUME NEW m \in Document, NEW url \in Url \cup {NoUrl}, Onboard(m, url) PROVE Goal
  <2>1. Busy(q) /\ work'[q] = work[q]
    BY <1>1 DEF Onboard, Busy
  <2>2. work[q].merchant # m
    BY <1>0, <1>1, <2>1, AbsentAssumption DEF Onboard, Registered
  <2>3. row'[work[q].merchant] = row[work[q].merchant]
    BY <1>0, <1>1, <2>1, <2>2 DEF Onboard, TypeOK
  <2>4. QED
    BY <1>0, <2>1, <2>3
<1>2. ASSUME NEW r \in Request, NEW m \in Document, NEW c \in Change, Read(r, m, c)
      PROVE  Goal
  <2>1. CASE q = r
    <3>1. work'[q] = [merchant |-> m, read |-> row[m], change |-> c] /\ row' = row
      BY <1>2, <2>1 DEF Read, TypeOK
    <3>2. row[m] \in Row
      BY <1>2, Present DEF Read
    <3>3. QED
      BY <3>1, <3>2 DEF Row
  <2>2. CASE q # r
    <3>1. Busy(q) /\ work'[q] = work[q] /\ row' = row
      BY <1>2, <2>2 DEF Read, Busy, TypeOK
    <3>2. QED
      BY <1>0, <3>1
  <2>3. QED
    BY <2>1, <2>2
<1>3. ASSUME NEW r \in Request, Update(r) PROVE Goal
  <2>1. q # r /\ Busy(q) /\ work'[q] = work[q]
    BY <1>3 DEF Update, Done, Busy, TypeOK
  <2>2. /\ Draft(r) \in Row
        /\ row' = [row EXCEPT ![work[r].merchant] = Draft(r)]
        /\ row[work[r].merchant].version < Draft(r).version
    BY <1>3, DraftTyped DEF Update, Newer
  <2>3. CASE work[q].merchant = work[r].merchant
    <3>1. row'[work[q].merchant] = Draft(r)
      BY <1>0, <2>1, <2>2, <2>3 DEF TypeOK
    <3>2. work[q].read.version < Draft(r).version
      BY <1>0, <2>1, <2>2, <2>3 DEF Row
    <3>3. QED
      BY <1>0, <2>1, <2>2, <3>1, <3>2 DEF Row
  <2>4. CASE work[q].merchant # work[r].merchant
    <3>1. row'[work[q].merchant] = row[work[q].merchant]
      BY <1>0, <2>1, <2>2, <2>4 DEF TypeOK
    <3>2. QED
      BY <1>0, <2>1, <3>1
  <2>5. QED
    BY <2>3, <2>4
<1>4. ASSUME NEW r \in Request, Refuse(r) \/ Abandon(r) PROVE Goal
  <2>1. Busy(q) /\ work'[q] = work[q] /\ row' = row
    BY <1>4 DEF Refuse, Abandon, Done, Busy, TypeOK
  <2>2. QED
    BY <1>0, <2>1
<1>5. CASE UNCHANGED vars
  BY <1>0, <1>5 DEF vars, Busy
<1>6. QED
  BY <1>1, <1>2, <1>3, <1>4, <1>5 DEF Next, Serve

\* A request that finds the version it has read finds the row it has read.
THEOREM VersionCorrect == Spec => []VersionIdentifiesRow
<1>1. Init => TypeOK /\ VersionIdentifiesRow
  BY DEF Init, TypeOK, VersionIdentifiesRow, Busy
<1>2. QED
  BY <1>1, TypeStep, VersionStep, PTL DEF Spec

-----------------------------------------------------------------------------
(* What a write overwrites *)

\* A write replaces the row that was read or, two settings at a time, one that is a
\* single version younger.
LEMMA WriteReplaces ==
  ASSUME TypeOK, VersionIdentifiesRow, NEW r \in Request, Update(r)
  PROVE  LET now == row[work[r].merchant]
         IN  \/ work[r].read = now
             \/ Touches(work[r].change) = 2 /\ now.version = work[r].read.version + 1
<1> DEFINE now == row[work[r].merchant]
           k   == Touches(work[r].change)
           v   == work[r].read.version
<1>1. /\ now \in Row
      /\ v <= now.version
      /\ v = now.version => work[r].read = now
  BY DEF Update, VersionIdentifiesRow
<1>2. work[r].read \in Row /\ k \in 0..2 /\ now.version < v + k
  BY DraftTyped, ChangeTyped DEF Update, Newer
<1>3. v \in Int /\ now.version \in Int
  BY <1>1, <1>2 DEF Row
<1> HIDE DEF now, k, v
<1>4. v = now.version \/ (k = 2 /\ now.version = v + 1)
  BY <1>1, <1>2, <1>3
<1>5. QED
  BY <1>1, <1>4 DEF now, k, v

\* Only a write changes the row of a registered merchant.
LEMMA OnlyWritesChange ==
  ASSUME TypeOK, [Next]_vars, NEW m \in Document, Registered(m), row'[m] # row[m]
  PROVE  \E r \in Request : Update(r) /\ work[r].merchant = m /\ row'[m] = Draft(r)
<1>1. ASSUME NEW n \in Document, NEW url \in Url \cup {NoUrl}, Onboard(n, url) PROVE FALSE
  BY <1>1 DEF Onboard, TypeOK
<1>2. ASSUME NEW r \in Request, NEW n \in Document, NEW c \in Change, Read(r, n, c)
      PROVE  FALSE
  BY <1>2 DEF Read
<1>3. ASSUME NEW r \in Request, Refuse(r) \/ Abandon(r) PROVE FALSE
  BY <1>3 DEF Refuse, Abandon
<1>4. ASSUME NEW r \in Request, Update(r)
      PROVE  work[r].merchant = m /\ row'[m] = Draft(r)
  BY <1>4, DraftTyped DEF Update, TypeOK
<1>5. ~UNCHANGED vars
  BY DEF vars
<1>6. QED
  BY <1>1, <1>2, <1>3, <1>4, <1>5 DEF Next, Serve

\* A request writes once.
LEMMA WriterDone ==
  ASSUME TypeOK, NEW r \in Request, Update(r)
  PROVE  Busy(r) /\ work'[r] = NoWork
BY DEF Update, Done, TypeOK

\* A write overwrites at most one change that its request has not seen.
THEOREM OverwriteCorrect == Spec => OverwritesOneChangeAtMost
<1> DEFINE Safe == \A m \in Document : Registered(m) /\ row'[m] # row[m] =>
                     \E r \in Request :
                       /\ Wrote(r, m)
                       /\ \/ work[r].read = row[m]
                          \/ /\ Touches(work[r].change) = 2
                             /\ row[m].version = work[r].read.version + 1
<1>1. TypeOK /\ VersionIdentifiesRow /\ [Next]_vars => Safe
  <2> SUFFICES ASSUME TypeOK, VersionIdentifiesRow, [Next]_vars,
                      NEW m \in Document, Registered(m), row'[m] # row[m]
               PROVE  \E r \in Request :
                        /\ Wrote(r, m)
                        /\ \/ work[r].read = row[m]
                           \/ /\ Touches(work[r].change) = 2
                              /\ row[m].version = work[r].read.version + 1
    OBVIOUS
  <2>1. PICK r \in Request : Update(r) /\ work[r].merchant = m /\ row'[m] = Draft(r)
    BY OnlyWritesChange
  <2>2. Wrote(r, m)
    BY <2>1, WriterDone DEF Wrote
  <2>3. QED
    BY <2>1, <2>2, WriteReplaces
<1>2. QED
  BY <1>1, TypeCorrect, VersionCorrect, PTL DEF Spec, OverwritesOneChangeAtMost

-----------------------------------------------------------------------------
(* The review *)

\* The status a request writes is that of the row it has read, or one move from it.
LEMMA DraftMoves ==
  ASSUME TypeOK, NEW r \in Request, Busy(r),
         \A q \in Request : Busy(q) => Allowed(work[q].read, work[q].change)
  PROVE  \/ Draft(r).status = work[r].read.status
         \/ /\ <<work[r].read.status, Draft(r).status>> \in Moves
            /\ Touches(work[r].change) = 1
<1>1. /\ Draft(r).status = Chosen(work[r].read.status, work[r].change.status)
      /\ work[r].change \in Change
  BY DraftTyped
<1>2. CASE work[r].change.status = Same
  BY <1>1, <1>2 DEF Chosen
<1>3. CASE work[r].change.status # Same
  <2>1. work[r].change \in Review
    BY <1>1, <1>3 DEF Change, Settings
  <2>2. Touches(work[r].change) = 1
    BY <1>1, <2>1, DraftTyped, ChangeTyped
  <2>3. QED
    BY <1>1, <1>3, <2>2 DEF Chosen, Allowed
<1>4. QED
  BY <1>2, <1>3

\* What a request wants is allowed from the row it has read.
WorkAllowed == \A r \in Request : Busy(r) => Allowed(work[r].read, work[r].change)

\* Every step keeps WorkAllowed: a change is checked against the row that was read.
LEMMA WorkAllowedStep == TypeOK /\ WorkAllowed /\ [Next]_vars => WorkAllowed'
<1> SUFFICES ASSUME TypeOK, WorkAllowed, [Next]_vars, NEW q \in Request, Busy(q)'
             PROVE  Allowed(work'[q].read, work'[q].change)
  BY DEF WorkAllowed, Allowed
<1>1. ASSUME NEW r \in Request, NEW m \in Document, NEW c \in Change, Read(r, m, c)
      PROVE  Allowed(work'[q].read, work'[q].change)
  <2>1. CASE q = r
    BY <1>1, <2>1 DEF Read, TypeOK
  <2>2. CASE q # r
    BY <1>1, <2>2 DEF Read, TypeOK, Busy, WorkAllowed
  <2>3. QED
    BY <2>1, <2>2
<1>2. ASSUME \/ \E m \in Document, url \in Url \cup {NoUrl} : Onboard(m, url)
             \/ \E r \in Request : Update(r) \/ Refuse(r) \/ Abandon(r)
             \/ UNCHANGED vars
      PROVE  Allowed(work'[q].read, work'[q].change)
  <2>1. Busy(q) /\ work'[q] = work[q]
    BY <1>2 DEF Onboard, Update, Refuse, Abandon, Done, TypeOK, Busy, vars
  <2>2. QED
    BY <2>1 DEF WorkAllowed
<1>3. QED
  BY <1>1, <1>2 DEF Next, Serve

\* WorkAllowed holds in every state.
LEMMA WorkIsAllowed == Spec => []WorkAllowed
<1>1. Init => WorkAllowed
  BY DEF Init, WorkAllowed, Busy
<1>2. QED
  BY <1>1, TypeCorrect, WorkAllowedStep, PTL DEF Spec

SingleChanges == \A r \in Request : Busy(r) => Touches(work[r].change) < 2

\* As long as no request changes two settings at once, the review is never undone: the
\* optimistic lock works for requests that add one to the version.
THEOREM SingleChangesKeepReview == Spec /\ []SingleChanges => StatusMachine
<1> DEFINE Safe == \A m \in Document : Registered(m) =>
                     \/ row'[m].status = row[m].status
                     \/ <<row[m].status, row'[m].status>> \in Moves
<1>1. TypeOK /\ VersionIdentifiesRow /\ WorkAllowed /\ SingleChanges /\ [Next]_vars => Safe
  <2> SUFFICES ASSUME TypeOK, VersionIdentifiesRow, WorkAllowed, SingleChanges, [Next]_vars,
                      NEW m \in Document, Registered(m), row'[m] # row[m]
               PROVE  \/ row'[m].status = row[m].status
                      \/ <<row[m].status, row'[m].status>> \in Moves
    OBVIOUS
  <2>1. PICK r \in Request : Update(r) /\ work[r].merchant = m /\ row'[m] = Draft(r)
    BY OnlyWritesChange
  <2>2. Busy(r) /\ Touches(work[r].change) # 2
    BY <2>1 DEF Update, SingleChanges
  <2>3. work[r].read = row[m]
    BY <2>1, <2>2, WriteReplaces
  <2>4. QED
    BY <2>1, <2>2, <2>3, DraftMoves DEF WorkAllowed
<1>2. QED
  BY <1>1, TypeCorrect, VersionCorrect, WorkIsAllowed, PTL DEF Spec, StatusMachine

-----------------------------------------------------------------------------
(* Any requests: what a row that is one version younger may be *)

Near(s, t) == s = t \/ <<s, t>> \in Moves \/ <<t, s>> \in Moves

\* The row that a request of two settings may overwrite without having seen it is one
\* move away from what it has read, in one direction or the other.
OneMoveApart ==
  \A r \in Request :
    Busy(r) => LET now == row[work[r].merchant]
               IN  now.version = work[r].read.version + 1 => Near(work[r].read.status, now.status)

\* The step of the property, for a single merchant.
UndoneStep(m) ==
  \/ row'[m].status = row[m].status
  \/ <<row[m].status, row'[m].status>> \in Moves
  \/ \E r \in Request :
       /\ Wrote(r, m)
       /\ Touches(work[r].change) = 2
       /\ <<row'[m].status, row[m].status>> \in Moves

\* No step undoes more than one move of the review.
LEMMA UndoneAtMost ==
  ASSUME TypeOK, VersionIdentifiesRow, WorkAllowed, OneMoveApart, [Next]_vars,
         NEW m \in Document, Registered(m)
  PROVE  UndoneStep(m)
<1>1. CASE row'[m] = row[m]
  BY <1>1 DEF UndoneStep
<1>2. CASE row'[m] # row[m]
  <2>1. PICK r \in Request : Update(r) /\ work[r].merchant = m /\ row'[m] = Draft(r)
    BY <1>2, OnlyWritesChange
  <2>2. Busy(r) /\ Wrote(r, m)
    BY <2>1, WriterDone DEF Wrote
  <2>3. \/ Draft(r).status = work[r].read.status
        \/ /\ <<work[r].read.status, Draft(r).status>> \in Moves
           /\ Touches(work[r].change) = 1
    BY <2>2, DraftMoves DEF WorkAllowed
  <2>4. CASE work[r].read = row[m]
    BY <2>1, <2>3, <2>4 DEF UndoneStep
  <2>5. CASE Touches(work[r].change) = 2 /\ row[m].version = work[r].read.version + 1
    <3>1. Near(work[r].read.status, row[m].status)
      BY <2>1, <2>2, <2>5 DEF OneMoveApart
    <3>2. row'[m].status = work[r].read.status
      BY <2>1, <2>3, <2>5
    <3>3. QED
      BY <2>2, <2>5, <3>1, <3>2 DEF Near, UndoneStep
  <2>6. QED
    BY <2>1, <2>4, <2>5, WriteReplaces
<1>3. QED
  BY <1>1, <1>2

\* Every step keeps OneMoveApart.
LEMMA OneMoveApartStep ==
  TypeOK /\ VersionIdentifiesRow /\ WorkAllowed /\ OneMoveApart /\ [Next]_vars
    => OneMoveApart'
<1> SUFFICES ASSUME TypeOK, VersionIdentifiesRow, WorkAllowed, OneMoveApart, [Next]_vars,
                    NEW q \in Request, Busy(q)',
                    row'[work'[q].merchant].version = work'[q].read.version + 1
             PROVE  Near(work'[q].read.status, row'[work'[q].merchant].status)
  BY DEF OneMoveApart, Near
<1>1. CASE work'[q] # work[q]
  <2>1. \E m \in Document : \E c \in Change : Read(q, m, c)
    BY <1>1 DEF Next, Serve, Onboard, Read, Update, Refuse, Abandon, Done, TypeOK, Busy, vars
  <2>2. PICK m \in Document : row[m] \in Row /\ work'[q].merchant = m
                              /\ work'[q].read = row[m] /\ row' = row
    BY <2>1, Present DEF Read, TypeOK
  <2>3. QED
    BY <2>2 DEF Near
<1>2. CASE work'[q] = work[q]
  <2> DEFINE m == work[q].merchant
             x == work[q].read
  <2>1. /\ Busy(q)
        /\ m \in Document /\ x \in Row /\ row[m] \in Row
        /\ x.version <= row[m].version
        /\ x.version = row[m].version => x = row[m]
    BY <1>2, DraftTyped DEF Busy, VersionIdentifiesRow
  <2>2. Registered(m)
    BY <2>1, Present
  <2>3. CASE row'[m] = row[m]
    BY <1>2, <2>1, <2>3 DEF OneMoveApart
  <2>4. CASE row'[m] # row[m]
    <3>1. PICK r \in Request : Update(r) /\ work[r].merchant = m /\ row'[m] = Draft(r)
      BY <2>1, <2>2, <2>4, OnlyWritesChange
    <3>2. row[m].version < row'[m].version
      BY <3>1 DEF Update, Newer
    <3>3. row'[m].version = x.version + 1
      BY <1>2
    <3>4. x = row[m]
      <4>1. x.version \in Int /\ row[m].version \in Int
        BY <2>1 DEF Row
      <4> HIDE DEF x, m
      <4>2. QED
        BY <2>1, <3>2, <3>3, <4>1
    <3>5. UndoneStep(m)
      BY <2>1, <2>2, UndoneAtMost
    <3>6. QED
      BY <1>2, <3>4, <3>5 DEF UndoneStep, Near
  <2>5. QED
    BY <2>3, <2>4
<1>3. QED
  BY <1>1, <1>2

\* A request that overwrites a change it has not seen undoes one move of the review at
\* most, and only if it changes two settings.
THEOREM UndoneCorrect == Spec => OneMoveUndoneAtMost
<1>1. Init => OneMoveApart
  BY DEF Init, OneMoveApart, Busy
<1>2. Spec => []OneMoveApart
  BY <1>1, TypeCorrect, VersionCorrect, WorkIsAllowed, OneMoveApartStep, PTL DEF Spec
<1>3. TypeOK /\ VersionIdentifiesRow /\ WorkAllowed /\ OneMoveApart /\ [Next]_vars
        => \A m \in Document : Registered(m) => UndoneStep(m)
  BY UndoneAtMost
<1>4. QED
  BY <1>2, <1>3, TypeCorrect, VersionCorrect, WorkIsAllowed, PTL
     DEF Spec, OneMoveUndoneAtMost, UndoneStep
=============================================================================
