--------------------------- MODULE DeliveryProofs ---------------------------
(***************************************************************************)
(* Delivery for any number of events, partitions, relays, consumers and    *)
(* failures.                                                               *)
(***************************************************************************)
EXTENDS Delivery, FiniteSetTheorems, TLAPS

(***************************************************************************)
(* The inductive invariant, in the parts that the relays and the group     *)
(* can each disturb.                                                       *)
(***************************************************************************)
Sent(e) == e \in published \/ \E r \in Relay : e \in sent[r]

\* Each row is in one batch at most, and a batch is of rows without published_at.
Batches ==
  /\ published \subseteq outbox
  /\ \A r \in Relay : taken[r] \subseteq outbox \ published /\ sent[r] \subseteq taken[r]
  /\ \A q, r \in Relay : q # r => taken[q] \cap taken[r] = {}

\* What a relay sent or marked is in the log.
SentIsLogged == \A e \in Event : Sent(e) => Logged(e)

\* The log has nothing that was not emitted.
LogIsWritten == \A p \in Partition : \A i \in DOMAIN log[p] : log[p][i] \in outbox

\* An event has a copy if it was sent, and one for each failure.
CopiesCounted == \A e \in Event : Copies(e) <= relayFailures + (IF Sent(e) THEN 1 ELSE 0)

RelayInv == Batches /\ SentIsLogged /\ LogIsWritten /\ CopiesCounted

Over(p, i)   == Settled(log[p][i]) \/ log[p][i] \in lost
Passed(p, n) == n <= Len(log[p]) /\ \A i \in 1..n : Over(p, i)

\* A member works on the first message that is not over, unless somebody else was
\* there before it.
JobsAreNext ==
  \A m \in Member : Working(m) =>
    /\ job[m].at <= Len(log[job[m].partition])
    /\ Passed(job[m].partition, job[m].at - 1)
    /\ job[m].handled => Over(job[m].partition, job[m].at)

\* The owner of a partition has nothing open behind it but the message it works on.
FetchedIsPassed ==
  \A p \in Partition : owner[p] \in Member =>
    \/ Passed(p, fetched[p])
    \/ /\ Working(owner[p])
       /\ job[owner[p]].partition = p
       /\ job[owner[p]].at = fetched[p]

\* Below the offset, below a job and below a fetch everything is over.
GroupInv ==
  /\ \A p \in Partition : Passed(p, committed[p])
  /\ JobsAreNext
  /\ FetchedIsPassed

\* An effect and its mark go together.
EffectInv == \A e \in Event : applied[e] = IF e \in processed THEN 1 ELSE 0

DeliveryInv == TypeOK /\ RelayInv /\ GroupInv /\ EffectInv

USE DeliveryAssumption

-----------------------------------------------------------------------------
(* Facts about the log and about jobs *)

\* A batch of the relay is made of rows that are there.
LEMMA FirstIsSubset == \A S, n : First(S, n) \subseteq S
  BY DEF First

\* A counter that is increased still counts.
LEMMA CountedUp ==
  ASSUME NEW S, NEW f \in [S -> Nat], NEW x \in S
  PROVE  [f EXCEPT ![x] = @ + 1] \in [S -> Nat]
<1> DEFINE n == f[x] + 1
<1>1. n \in Nat
  OBVIOUS
<1> HIDE DEF n
<1>2. [f EXCEPT ![x] = n] \in [S -> Nat]
  BY <1>1
<1> QED BY <1>2 DEF n

\* The copies of an event in the log can be counted.
LEMMA CopiesType ==
  ASSUME TypeOK, NEW e \in Event
  PROVE  Copies(e) \in Nat
<1> DEFINE I == {i \in DOMAIN log[PartitionOf[e]] : log[PartitionOf[e]][i] = e}
           n == Len(log[PartitionOf[e]])
<1>1. log[PartitionOf[e]] \in Seq(Event)
  BY DEF TypeOK
<1>2. n \in Nat /\ I \in SUBSET (1..n)
  BY <1>1
<1>3. IsFiniteSet(1..n)
  BY <1>2, FS_Interval
<1>4. IsFiniteSet(I)
  BY <1>2, <1>3, FS_Subset
<1> QED BY <1>4, FS_CardinalityType DEF Copies

\* What a publication does to the log.
LEMMA WriteFacts ==
  ASSUME TypeOK, NEW e \in Event, Write(PartitionOf[e], e)
  PROVE  /\ log' \in [Partition -> Seq(Event)]
         /\ \A p \in Partition : \A i \in DOMAIN log[p] : i \in DOMAIN log'[p] /\ log'[p][i] = log[p][i]
         /\ \A p \in Partition : Len(log[p]) <= Len(log'[p])
         /\ \A p \in Partition : \A i \in DOMAIN log'[p] : i \in DOMAIN log[p] \/ log'[p][i] = e
         /\ Logged(e)'
         /\ Copies(e)' = Copies(e) + 1
         /\ \A f \in Event : f # e => Copies(f)' = Copies(f)
<1> DEFINE p0 == PartitionOf[e]
           n  == Len(log[p0])
<1>1. p0 \in Partition /\ log[p0] \in Seq(Event) /\ n \in Nat
  BY DEF TypeOK
<1>2. log' = [log EXCEPT ![p0] = Append(@, e)]
  BY DEF Write
<1>3. log'[p0] = Append(log[p0], e) /\ \A p \in Partition : p # p0 => log'[p] = log[p]
  BY <1>1, <1>2 DEF TypeOK
<1>4. /\ DOMAIN log[p0] = 1..n
      /\ DOMAIN log'[p0] = 1..(n + 1)
      /\ Len(log'[p0]) = n + 1
      /\ log'[p0][n + 1] = e
      /\ \A i \in 1..n : log'[p0][i] = log[p0][i]
  BY <1>1, <1>3
<1>5. log' \in [Partition -> Seq(Event)]
  BY <1>1, <1>2 DEF TypeOK
<1>6. \A p \in Partition : \A i \in DOMAIN log[p] : i \in DOMAIN log'[p] /\ log'[p][i] = log[p][i]
  <2>1. \A i \in 1..n : i \in 1..(n + 1)
    BY <1>1
  <2> QED BY <1>3, <1>4, <2>1
<1>7. \A p \in Partition : Len(log[p]) <= Len(log'[p])
  <2>1. \A p \in Partition : Len(log[p]) \in Nat
    BY DEF TypeOK
  <2> QED BY <1>1, <1>3, <1>4, <2>1
<1>8. \A p \in Partition : \A i \in DOMAIN log'[p] : i \in DOMAIN log[p] \/ log'[p][i] = e
  BY <1>1, <1>3, <1>4
<1>9. Logged(e)'
  BY <1>1, <1>4 DEF Logged
<1>10. Copies(e)' = Copies(e) + 1
  <2> DEFINE I == {i \in DOMAIN log[p0] : log[p0][i] = e}
             J == {i \in DOMAIN log'[p0] : log'[p0][i] = e}
  <2>1. J = I \cup {n + 1} /\ n + 1 \notin I /\ I \in SUBSET (1..n)
    BY <1>1, <1>4
  <2>2. IsFiniteSet(I)
    <3>1. IsFiniteSet(1..n)
      BY <1>1, FS_Interval
    <3> QED BY <2>1, <3>1, FS_Subset
  <2> HIDE DEF I, J
  <2>3. Cardinality(J) = Cardinality(I) + 1
    BY <2>1, <2>2, FS_AddElement
  <2> QED BY <2>3 DEF Copies, I, J
<1>11. ASSUME NEW f \in Event, f # e PROVE Copies(f)' = Copies(f)
  <2>1. CASE PartitionOf[f] # p0
    BY <1>3, <2>1 DEF Copies
  <2>2. CASE PartitionOf[f] = p0
    <3>1. \A i : i \in 1..(n + 1) <=> i \in 1..n \/ i = n + 1
      BY <1>1
    <3>2. {i \in 1..(n + 1) : log'[p0][i] = f} = {i \in 1..n : log[p0][i] = f}
      BY <1>4, <1>11, <3>1
    <3> QED BY <1>4, <2>2, <3>2 DEF Copies
  <2> QED BY <2>1, <2>2
<1> QED BY <1>5, <1>6, <1>7, <1>8, <1>9, <1>10, <1>11

\* A member that works does so on a message of the log whose event was emitted.
LEMMA JobFacts ==
  ASSUME DeliveryInv, NEW m \in Member, Working(m)
  PROVE  /\ job[m] \in Job
         /\ job[m].partition \in Partition /\ job[m].at \in Nat \ {0}
         /\ job[m].at \in 1..Len(log[job[m].partition])
         /\ EventOf(job[m]) \in Event /\ EventOf(job[m]) \in outbox
<1>1. job[m] \in Job
  BY DEF DeliveryInv, TypeOK, Working
<1>2. job[m].partition \in Partition /\ job[m].at \in Nat \ {0}
  BY <1>1 DEF Job
<1>3. log[job[m].partition] \in Seq(Event)
  BY <1>2 DEF DeliveryInv, TypeOK
<1>4. job[m].at \in 1..Len(log[job[m].partition])
  BY <1>2, <1>3 DEF DeliveryInv, GroupInv, JobsAreNext
<1>5. EventOf(job[m]) \in Event /\ EventOf(job[m]) \in outbox
  BY <1>2, <1>3, <1>4 DEF EventOf, DeliveryInv, RelayInv, LogIsWritten
<1> QED BY <1>1, <1>2, <1>4, <1>5

-----------------------------------------------------------------------------
(* Steps that leave a part alone *)

\* RelayInv is about the outbox, the batches and the log alone.
LEMMA RelaySame ==
  ASSUME DeliveryInv, UNCHANGED <<outbox, published, relayVars, log, relayFailures>>
  PROVE  RelayInv'
  BY DEF DeliveryInv, RelayInv, Batches, SentIsLogged, LogIsWritten, CopiesCounted, Sent, Logged,
         Copies, relayVars

\* GroupInv is not disturbed by what is written at the end of the log.
LEMMA GroupSame ==
  ASSUME DeliveryInv, UNCHANGED <<groupVars, processed, notified, dead, lost>>,
         UNCHANGED log \/ \E e \in Event : Write(PartitionOf[e], e)
  PROVE  GroupInv'
<1>1. /\ \A p \in Partition : \A i \in DOMAIN log[p] : log'[p][i] = log[p][i]
      /\ \A p \in Partition : Len(log[p]) <= Len(log'[p])
      /\ \A p \in Partition : Len(log'[p]) \in Nat
  <2>1. TypeOK /\ \A p \in Partition : Len(log[p]) \in Nat
    BY DEF DeliveryInv, TypeOK
  <2>2. CASE UNCHANGED log
    BY <2>1, <2>2
  <2>3. ASSUME NEW e \in Event, Write(PartitionOf[e], e)
        PROVE  /\ log' \in [Partition -> Seq(Event)]
               /\ \A p \in Partition : \A i \in DOMAIN log[p] : log'[p][i] = log[p][i]
               /\ \A p \in Partition : Len(log[p]) <= Len(log'[p])
    BY <2>1, <2>3, WriteFacts
  <2> QED BY <2>2, <2>1, <2>3
<1>2. ASSUME NEW p \in Partition, NEW n \in Int, Passed(p, n) PROVE Passed(p, n)'
  <2>1. log[p] \in Seq(Event) /\ Len(log[p]) \in Nat
    BY DEF DeliveryInv, TypeOK
  <2>2. \A i \in 1..n : i \in DOMAIN log[p]
    BY <1>2, <2>1 DEF Passed
  <2>3. n <= Len(log'[p])
    BY <1>1, <1>2, <2>1 DEF Passed
  <2> QED BY <1>1, <1>2, <2>2, <2>3 DEF Passed, Over, Settled
<1>3. \A p \in Partition : committed[p] \in Int /\ fetched[p] \in Int
  BY DEF DeliveryInv, TypeOK
<1>4. \A p \in Partition : Passed(p, committed[p])'
  BY <1>2, <1>3 DEF DeliveryInv, GroupInv, groupVars
<1>5. JobsAreNext'
  <2> SUFFICES ASSUME NEW m \in Member, Working(m)
               PROVE  /\ job[m].at <= Len(log'[job[m].partition])
                      /\ Passed(job[m].partition, job[m].at - 1)'
                      /\ job[m].handled => Over(job[m].partition, job[m].at)'
    BY DEF JobsAreNext, Working, groupVars, Passed, Over, Settled
  <2>1. /\ job[m].partition \in Partition /\ job[m].at \in Nat \ {0}
        /\ job[m].at \in 1..Len(log[job[m].partition])
    BY JobFacts
  <2>2. log[job[m].partition] \in Seq(Event)
    BY <2>1 DEF DeliveryInv, TypeOK
  <2>3. job[m].at <= Len(log'[job[m].partition])
    BY <1>1, <2>1, <2>2
  <2>4. Passed(job[m].partition, job[m].at - 1)'
    <3>1. Passed(job[m].partition, job[m].at - 1) /\ job[m].at - 1 \in Int
      BY <2>1 DEF DeliveryInv, GroupInv, JobsAreNext
    <3>2. job' = job
      BY DEF groupVars
    <3> QED BY <1>2, <2>1, <3>1, <3>2
  <2>5. job[m].handled => Over(job[m].partition, job[m].at)'
    <3>1. job[m].at \in DOMAIN log[job[m].partition]
      BY <2>1, <2>2
    <3> QED BY <1>1, <2>1, <3>1 DEF DeliveryInv, GroupInv, JobsAreNext, Over, Settled, groupVars
  <2> QED BY <2>3, <2>4, <2>5
<1>6. FetchedIsPassed'
  BY <1>2, <1>3 DEF DeliveryInv, GroupInv, FetchedIsPassed, groupVars, Working
<1> QED BY <1>4, <1>5, <1>6 DEF GroupInv

\* What is over stays over.
LEMMA PassedGrows ==
  ASSUME DeliveryInv, UNCHANGED log, processed \subseteq processed', notified \subseteq notified',
         dead \subseteq dead', lost \subseteq lost'
  PROVE  /\ \A p, i : Over(p, i) => Over(p, i)'
         /\ \A p, n : Passed(p, n) => Passed(p, n)'
  BY DEF Passed, Over, Settled

\* EffectInv is about marks and effects alone.
LEMMA EffectSame ==
  ASSUME DeliveryInv, UNCHANGED <<processed, applied>>
  PROVE  EffectInv'
  BY DEF DeliveryInv, EffectInv

-----------------------------------------------------------------------------
(* The relays *)

\* A new row of the outbox keeps DeliveryInv.
LEMMA EmitInv ==
  ASSUME DeliveryInv, NEW e \in Event, Emit(e)
  PROVE  DeliveryInv'
<1>1. TypeOK'
  BY DEF DeliveryInv, TypeOK, Emit, relayVars, groupVars, handlerVars, effectVars, countVars
<1>2. RelayInv'
  BY DEF DeliveryInv, RelayInv, Batches, SentIsLogged, LogIsWritten, CopiesCounted, Sent, Logged,
         Copies, Emit, relayVars, countVars
<1>3. GroupInv' /\ EffectInv'
  BY GroupSame, EffectSame DEF Emit, handlerVars, effectVars
<1> QED BY <1>1, <1>2, <1>3 DEF DeliveryInv

\* A relay that takes a batch keeps DeliveryInv: it locks what no other has.
LEMMA RelayTakeInv ==
  ASSUME DeliveryInv, NEW r \in Relay, RelayTake(r)
  PROVE  DeliveryInv'
<1>1. Batch \subseteq (outbox \ published) \ UNION {taken[q] : q \in Relay}
  BY FirstIsSubset DEF Batch
<1>2. TypeOK'
  BY <1>1 DEF DeliveryInv, TypeOK, RelayTake, groupVars, handlerVars, effectVars, countVars
<1>3. Batches'
  BY <1>1 DEF DeliveryInv, TypeOK, RelayInv, Batches, RelayTake
<1>4. RelayInv'
  BY <1>3 DEF DeliveryInv, RelayInv, SentIsLogged, LogIsWritten, CopiesCounted, Sent, Logged,
         Copies, RelayTake, countVars
<1>5. GroupInv' /\ EffectInv'
  BY GroupSame, EffectSame DEF RelayTake, handlerVars, effectVars
<1> QED BY <1>2, <1>4, <1>5 DEF DeliveryInv

\* What a relay has still to send is of its batch and was sent by nobody.
LEMMA ToSendFacts ==
  ASSUME DeliveryInv, NEW r \in Relay, NEW e \in ToSend(r)
  PROVE  e \in taken[r] /\ e \in outbox /\ ~Sent(e)
<1>1. e \in taken[r] /\ e \notin sent[r]
  BY FirstIsSubset DEF ToSend
<1> QED BY <1>1 DEF DeliveryInv, RelayInv, Batches, Sent

\* A publication keeps DeliveryInv: the copy it adds is the one its batch accounts for.
LEMMA RelayPublishInv ==
  ASSUME DeliveryInv, NEW r \in Relay, NEW e \in Event, RelayPublish(r, e)
  PROVE  DeliveryInv'
<1> Write(PartitionOf[e], e)
  BY DEF RelayPublish
<1> TypeOK
  BY DEF DeliveryInv
<1>1. e \in taken[r] /\ e \in outbox /\ ~Sent(e)
  BY ToSendFacts DEF RelayPublish
<1>2. /\ log' \in [Partition -> Seq(Event)]
      /\ \A p \in Partition : \A i \in DOMAIN log[p] : i \in DOMAIN log'[p] /\ log'[p][i] = log[p][i]
      /\ \A p \in Partition : \A i \in DOMAIN log'[p] : i \in DOMAIN log[p] \/ log'[p][i] = e
      /\ Logged(e)'
      /\ Copies(e)' = Copies(e) + 1
      /\ \A f \in Event : f # e => Copies(f)' = Copies(f)
  BY WriteFacts
<1>3. TypeOK'
  BY <1>2 DEF TypeOK, RelayPublish, groupVars, handlerVars, effectVars, countVars
<1>4. Batches'
  BY <1>1 DEF TypeOK, DeliveryInv, RelayInv, Batches, RelayPublish
<1>5. \A f \in Event : Sent(f)' <=> (Sent(f) \/ f = e)
  BY DEF TypeOK, RelayPublish, Sent
<1>6. SentIsLogged'
  BY <1>2, <1>5 DEF DeliveryInv, RelayInv, SentIsLogged, Logged
<1>7. LogIsWritten'
  BY <1>1, <1>2 DEF DeliveryInv, RelayInv, LogIsWritten, RelayPublish
<1>8. CopiesCounted'
  <2>1. \A f \in Event : Copies(f) \in Nat
    BY CopiesType
  <2>2. relayFailures' = relayFailures /\ relayFailures \in Nat
    BY DEF RelayPublish, countVars, TypeOK
  <2> SUFFICES ASSUME NEW f \in Event
               PROVE  Copies(f)' <= relayFailures' + (IF Sent(f)' THEN 1 ELSE 0)
    BY DEF CopiesCounted
  <2>3. Copies(f) <= relayFailures + (IF Sent(f) THEN 1 ELSE 0)
    BY DEF DeliveryInv, RelayInv, CopiesCounted
  <2>4. CASE f = e
    BY <1>1, <1>2, <1>5, <2>1, <2>2, <2>3, <2>4
  <2>5. CASE f # e
    BY <1>2, <1>5, <2>1, <2>2, <2>3, <2>5
  <2> QED BY <2>4, <2>5
<1>9. GroupInv' /\ EffectInv'
  BY GroupSame, EffectSame DEF RelayPublish, handlerVars, effectVars
<1> QED BY <1>3, <1>4, <1>6, <1>7, <1>8, <1>9 DEF DeliveryInv, RelayInv

\* A publication that fails keeps DeliveryInv: the copy it may leave is counted.
LEMMA RelayBreakInv ==
  ASSUME DeliveryInv, NEW r \in Relay, NEW e \in Event, RelayBreak(r, e)
  PROVE  DeliveryInv'
<1> TypeOK
  BY DEF DeliveryInv
<1>1. e \in outbox /\ ~Sent(e)
  BY ToSendFacts DEF RelayBreak
<1>2. \A f \in Event : Copies(f) \in Nat
  BY CopiesType
<1>3. /\ log' \in [Partition -> Seq(Event)]
      /\ \A p \in Partition : \A i \in DOMAIN log[p] : i \in DOMAIN log'[p] /\ log'[p][i] = log[p][i]
      /\ \A p \in Partition : \A i \in DOMAIN log'[p] : i \in DOMAIN log[p] \/ log'[p][i] = e
      /\ \A f \in Event : Copies(f)' \in {Copies(f), Copies(f) + 1}
  <2>1. CASE Write(PartitionOf[e], e)
    BY <2>1, WriteFacts
  <2>2. CASE UNCHANGED log
    BY <2>2 DEF TypeOK, Copies
  <2> QED BY <2>1, <2>2 DEF RelayBreak
<1>4. relayFailures' = relayFailures + 1 /\ relayFailures \in Nat /\ groupFailures' = groupFailures
  BY DEF TypeOK, RelayBreak, RelayFails
<1>5. TypeOK'
  BY <1>3, <1>4 DEF TypeOK, RelayBreak, groupVars, handlerVars, effectVars
<1>6. \A f \in Event : Sent(f)' <=> Sent(f)
  BY DEF RelayBreak, Sent
<1>7. Batches' /\ LogIsWritten'
  BY <1>1, <1>3 DEF DeliveryInv, RelayInv, Batches, LogIsWritten, RelayBreak
<1>8. SentIsLogged'
  BY <1>3, <1>6 DEF DeliveryInv, RelayInv, SentIsLogged, Logged
<1>9. CopiesCounted'
  <2> SUFFICES ASSUME NEW f \in Event
               PROVE  Copies(f)' <= relayFailures' + (IF Sent(f)' THEN 1 ELSE 0)
    BY DEF CopiesCounted
  <2>1. Copies(f) <= relayFailures + (IF Sent(f) THEN 1 ELSE 0)
    BY DEF DeliveryInv, RelayInv, CopiesCounted
  <2>2. Copies(f) \in Nat /\ Copies(f)' \in {Copies(f), Copies(f) + 1} /\ (Sent(f)' <=> Sent(f))
    BY <1>2, <1>3, <1>6
  <2>3. CASE Sent(f)
    BY <1>4, <2>1, <2>2, <2>3
  <2>4. CASE ~Sent(f)
    BY <1>4, <2>1, <2>2, <2>4
  <2> QED BY <2>3, <2>4
<1>10. GroupInv' /\ EffectInv'
  BY GroupSame, EffectSame DEF RelayBreak, handlerVars, effectVars
<1> QED BY <1>5, <1>7, <1>8, <1>9, <1>10 DEF DeliveryInv, RelayInv

\* The mark of a batch keeps DeliveryInv: what it marks was sent.
LEMMA RelayCommitInv ==
  ASSUME DeliveryInv, NEW r \in Relay, RelayCommit(r)
  PROVE  DeliveryInv'
<1> TypeOK
  BY DEF DeliveryInv
<1>1. TypeOK'
  BY DEF TypeOK, RelayCommit, CloseBatch, groupVars, handlerVars, effectVars, countVars
<1>2. Batches'
  BY DEF TypeOK, DeliveryInv, RelayInv, Batches, RelayCommit, CloseBatch
<1>3. \A e \in Event : Sent(e)' <=> Sent(e)
  BY DEF TypeOK, Sent, RelayCommit, CloseBatch
<1>4. SentIsLogged' /\ LogIsWritten' /\ CopiesCounted'
  BY <1>3 DEF DeliveryInv, RelayInv, SentIsLogged, LogIsWritten, CopiesCounted, Logged, Copies,
              RelayCommit, countVars
<1>5. GroupInv' /\ EffectInv'
  BY GroupSame, EffectSame DEF RelayCommit, handlerVars, effectVars
<1> QED BY <1>1, <1>2, <1>4, <1>5 DEF DeliveryInv, RelayInv

\* A lost batch keeps DeliveryInv: what it had sent was one copy of each event.
LEMMA RelayLossInv ==
  ASSUME DeliveryInv, NEW r \in Relay, RelayLoss(r)
  PROVE  DeliveryInv'
<1> TypeOK
  BY DEF DeliveryInv
<1>1. relayFailures' = relayFailures + 1 /\ relayFailures \in Nat /\ groupFailures' = groupFailures
  BY DEF TypeOK, RelayLoss, RelayFails
<1>2. TypeOK'
  BY <1>1 DEF TypeOK, RelayLoss, CloseBatch, groupVars, handlerVars, effectVars
<1>3. Batches'
  BY DEF TypeOK, DeliveryInv, RelayInv, Batches, RelayLoss, CloseBatch
<1>4. \A e \in Event : Sent(e)' => Sent(e)
  BY DEF TypeOK, Sent, RelayLoss, CloseBatch
<1>5. SentIsLogged' /\ LogIsWritten'
  BY <1>4 DEF DeliveryInv, RelayInv, SentIsLogged, LogIsWritten, Logged, RelayLoss
<1>6. CopiesCounted'
  <2> SUFFICES ASSUME NEW f \in Event
               PROVE  Copies(f)' <= relayFailures' + (IF Sent(f)' THEN 1 ELSE 0)
    BY DEF CopiesCounted
  <2>1. Copies(f) <= relayFailures + 1 /\ Copies(f) \in Nat
    BY <1>1, CopiesType DEF DeliveryInv, RelayInv, CopiesCounted
  <2>2. Copies(f)' = Copies(f)
    BY DEF Copies, RelayLoss
  <2> QED BY <1>1, <2>1, <2>2
<1>7. GroupInv' /\ EffectInv'
  BY GroupSame, EffectSame DEF RelayLoss, handlerVars, effectVars
<1> QED BY <1>2, <1>3, <1>5, <1>6, <1>7 DEF DeliveryInv, RelayInv

-----------------------------------------------------------------------------
(* The group *)

\* A new owner of a partition begins at the offset, which keeps DeliveryInv.
LEMMA AssignInv ==
  ASSUME DeliveryInv, NEW p \in Partition, NEW m \in Member, Assign(p, m)
  PROVE  DeliveryInv'
<1>1. TypeOK'
  BY DEF DeliveryInv, TypeOK, Assign, relayVars, handlerVars, effectVars, countVars
<1>2. RelayInv' /\ EffectInv'
  BY RelaySame, EffectSame DEF Assign, handlerVars, effectVars, countVars
<1>3. \A q \in Partition : \A n : Passed(q, n)' <=> Passed(q, n)
  BY DEF Assign, Passed, Over, Settled, handlerVars, effectVars
<1>4. JobsAreNext' /\ \A q \in Partition : Passed(q, committed[q])'
  BY <1>3 DEF DeliveryInv, GroupInv, JobsAreNext, Assign, Working, Passed, Over, Settled,
              handlerVars, effectVars
<1>5. FetchedIsPassed'
  <2> SUFFICES ASSUME NEW q \in Partition, owner'[q] \in Member
               PROVE  \/ Passed(q, fetched'[q])
                      \/ /\ Working(owner'[q])
                         /\ job[owner'[q]].partition = q
                         /\ job[owner'[q]].at = fetched'[q]
    BY <1>3 DEF FetchedIsPassed, Assign, Working, TypeOK, DeliveryInv, Passed, Over, Settled,
                handlerVars, effectVars
  <2>1. CASE q = p
    BY <2>1 DEF DeliveryInv, TypeOK, GroupInv, Assign
  <2>2. CASE q # p
    BY <2>2 DEF DeliveryInv, TypeOK, GroupInv, FetchedIsPassed, Assign
  <2> QED BY <2>1, <2>2
<1>6. GroupInv'
  BY <1>4, <1>5 DEF GroupInv, Assign, Passed, Over, Settled, handlerVars, effectVars
<1> QED BY <1>1, <1>2, <1>6 DEF DeliveryInv

\* A partition without an owner keeps DeliveryInv.
LEMMA RevokeInv ==
  ASSUME DeliveryInv, NEW p \in Partition, Revoke(p)
  PROVE  DeliveryInv'
<1>1. TypeOK'
  BY DEF DeliveryInv, TypeOK, Revoke, GroupFails, relayVars, handlerVars, effectVars
<1>2. RelayInv' /\ EffectInv'
  BY RelaySame, EffectSame DEF Revoke, GroupFails, handlerVars, effectVars
<1>3. GroupInv'
  BY DEF DeliveryInv, TypeOK, GroupInv, JobsAreNext, FetchedIsPassed, Passed, Over, Settled, Working,
         Revoke, handlerVars, effectVars
<1> QED BY <1>1, <1>2, <1>3 DEF DeliveryInv

\* A member that crashes leaves its message, which keeps DeliveryInv.
LEMMA CrashInv ==
  ASSUME DeliveryInv, NEW m \in Member, Crash(m)
  PROVE  DeliveryInv'
<1>1. TypeOK'
  BY DEF DeliveryInv, TypeOK, Crash, GroupFails, Leave, relayVars, handlerVars, effectVars
<1>2. RelayInv' /\ EffectInv'
  BY RelaySame, EffectSame DEF Crash, GroupFails, handlerVars, effectVars
<1>3. GroupInv'
  BY DEF DeliveryInv, TypeOK, GroupInv, JobsAreNext, FetchedIsPassed, Passed, Over, Settled, Working,
         Crash, Leave, handlerVars, effectVars
<1> QED BY <1>1, <1>2, <1>3 DEF DeliveryInv

\* A member that fetches has nothing open behind it, which keeps DeliveryInv.
LEMMA FetchInv ==
  ASSUME DeliveryInv, NEW m \in Member, NEW p \in Partition, Fetch(m, p)
  PROVE  DeliveryInv'
<1> DEFINE j == [partition |-> p, at |-> fetched[p] + 1, tries |-> 0, handled |-> FALSE]
<1>0. fetched[p] < Len(log[p]) /\ fetched' = [fetched EXCEPT ![p] = @ + 1]
  BY DEF Fetch
<1>1. fetched[p] \in Nat /\ Len(log[p]) \in Nat
  BY DEF DeliveryInv, TypeOK
<1>2. j \in Job
  BY <1>1 DEF Job
<1>3. job' = [job EXCEPT ![m] = j] /\ j # NoJob
  BY <1>2 DEF Fetch
<1> HIDE DEF j
<1>4. TypeOK'
  <2>1. job' \in [Member -> Job \cup {NoJob}]
    BY <1>2, <1>3 DEF DeliveryInv, TypeOK
  <2>2. fetched' \in [Partition -> Nat]
    BY <1>0, CountedUp DEF DeliveryInv, TypeOK
  <2>3. UNCHANGED <<group, outbox, published, relayVars, log, committed, owner, handlerVars, countVars>>
    BY DEF Fetch
  <2> QED BY <2>1, <2>2, <2>3 DEF DeliveryInv, TypeOK, relayVars, handlerVars, effectVars, countVars
<1>5. RelayInv' /\ EffectInv'
  BY RelaySame, EffectSame DEF Fetch, handlerVars, effectVars, countVars
<1>6. \A q, n : (Passed(q, n)' <=> Passed(q, n)) /\ (Over(q, n)' <=> Over(q, n))
  BY DEF Fetch, Passed, Over, Settled, handlerVars, effectVars
<1>7. j.partition = p /\ j.at = fetched[p] + 1 /\ j.handled = FALSE
  BY DEF j
<1>8. Passed(p, fetched[p])
  BY DEF DeliveryInv, GroupInv, FetchedIsPassed, Fetch
<1>9. JobsAreNext'
  <2> SUFFICES ASSUME NEW k \in Member, Working(k)'
               PROVE  /\ job'[k].at <= Len(log[job'[k].partition])
                      /\ Passed(job'[k].partition, job'[k].at - 1)
                      /\ job'[k].handled => Over(job'[k].partition, job'[k].at)
    BY <1>6 DEF JobsAreNext, Fetch
  <2>1. CASE k = m
    <3>1. job'[k] = j
      BY <1>3, <2>1 DEF DeliveryInv, TypeOK
    <3>2. j.at - 1 = fetched[p] /\ j.at <= Len(log[p])
      BY <1>0, <1>1, <1>7
    <3> QED BY <1>7, <1>8, <3>1, <3>2
  <2>2. CASE k # m
    BY <1>3, <2>2 DEF DeliveryInv, TypeOK, GroupInv, JobsAreNext, Working
  <2> QED BY <2>1, <2>2
<1>10. FetchedIsPassed'
  <2> SUFFICES ASSUME NEW q \in Partition, owner[q] \in Member
               PROVE  \/ Passed(q, fetched'[q])
                      \/ /\ Working(owner[q])'
                         /\ job'[owner[q]].partition = q
                         /\ job'[owner[q]].at = fetched'[q]
    BY <1>6 DEF FetchedIsPassed, Fetch, Working
  <2>1. CASE q = p
    BY <1>3, <1>7, <2>1 DEF DeliveryInv, TypeOK, Fetch, Working
  <2>2. CASE q # p
    BY <1>3, <2>2 DEF DeliveryInv, TypeOK, GroupInv, FetchedIsPassed, Fetch, Working
  <2> QED BY <2>1, <2>2
<1>11. GroupInv'
  BY <1>6, <1>9, <1>10 DEF DeliveryInv, GroupInv, Fetch
<1> QED BY <1>4, <1>5, <1>11 DEF DeliveryInv

\* What the handler of either group does for an event: one effect, with its mark.
LEMMA DoFacts ==
  ASSUME DeliveryInv, NEW e \in Event, Do(e)
  PROVE  /\ processed \subseteq processed' /\ processed' \subseteq Event
         /\ applied' \in [Event -> Nat] /\ received' \in [Event -> Nat]
         /\ EffectInv'
         /\ e \in processed' \/ group = "notifier"
         /\ \/ UNCHANGED applied
            \/ applied[e] = 0 /\ applied' = [applied EXCEPT ![e] = 1]
<1> USE DEF DeliveryInv, TypeOK, EffectInv
<1>1. CASE group = "scheduler" /\ e \notin processed
  BY <1>1 DEF Do, Effect
<1>2. CASE group = "scheduler" /\ e \in processed
  BY <1>2 DEF Do, Effect
<1>3. CASE group = "notifier"
  <2>1. UNCHANGED <<processed, applied>>
    BY <1>3 DEF Do
  <2>2. received' \in [Event -> Nat]
    <3>1. received' = [received EXCEPT ![e] = @ + 1] \/ received' = received
      BY <1>3 DEF Do, Notify
    <3>2. received \in [Event -> Nat]
      OBVIOUS
    <3>3. [received EXCEPT ![e] = @ + 1] \in [Event -> Nat]
      BY <3>2, CountedUp
    <3> QED BY <3>1, <3>2, <3>3
  <2> QED BY <1>3, <2>1, <2>2
<1> QED BY <1>1, <1>2, <1>3 DEF Do

\* A member that works on its message, with anything that makes the message over before
\* it counts as handled.
LEMMA WorkKeepsGroup ==
  ASSUME DeliveryInv, NEW m \in Member, Working(m), NEW j \in Job,
         job' = [job EXCEPT ![m] = j],
         j.partition = job[m].partition, j.at = job[m].at,
         UNCHANGED <<log, committed, owner, fetched>>,
         processed \subseteq processed', notified \subseteq notified',
         dead \subseteq dead', lost \subseteq lost',
         j.handled => Over(j.partition, j.at)'
  PROVE  GroupInv'
<1>1. /\ \A q, n : Over(q, n) => Over(q, n)'
      /\ \A q, n : Passed(q, n) => Passed(q, n)'
  BY PassedGrows
<1>2. j # NoJob
  OBVIOUS
<1>3. JobsAreNext'
  <2> SUFFICES ASSUME NEW k \in Member, Working(k)'
               PROVE  /\ job'[k].at <= Len(log'[job'[k].partition])
                      /\ Passed(job[k].partition, job[k].at - 1)'
                      /\ job'[k].handled => Over(job[k].partition, job[k].at)'
    BY DEF JobsAreNext
  <2>1. CASE k = m
    <3>1. job'[k] = j
      BY <2>1 DEF DeliveryInv, TypeOK
    <3>2. /\ job[m].at <= Len(log[job[m].partition])
          /\ Passed(job[m].partition, job[m].at - 1)
      BY DEF DeliveryInv, GroupInv, JobsAreNext
    <3> QED BY <1>1, <2>1, <3>1, <3>2 DEF Passed, Over, Settled
  <2>2. CASE k # m
    <3>1. job'[k] = job[k] /\ Working(k)
      BY <2>2 DEF DeliveryInv, TypeOK, Working
    <3> QED BY <1>1, <3>1 DEF DeliveryInv, GroupInv, JobsAreNext, Passed, Over, Settled
  <2> QED BY <2>1, <2>2
<1>4. FetchedIsPassed'
  <2> SUFFICES ASSUME NEW q \in Partition, owner[q] \in Member
               PROVE  \/ Passed(q, fetched[q])'
                      \/ /\ Working(owner[q])'
                         /\ job'[owner[q]].partition = q
                         /\ job'[owner[q]].at = fetched[q]
    BY DEF FetchedIsPassed, Working, Passed, Over, Settled
  <2> QED BY <1>1, <1>2 DEF DeliveryInv, TypeOK, GroupInv, FetchedIsPassed, Working
<1>5. \A q \in Partition : Passed(q, committed[q])'
  BY <1>1 DEF DeliveryInv, GroupInv
<1> QED BY <1>3, <1>4, <1>5 DEF GroupInv

\* The job of a member that has finished its message.
LEMMA FinishFacts ==
  ASSUME DeliveryInv, NEW m \in Member, Working(m), Finish(m)
  PROVE  \E j \in Job : /\ job' = [job EXCEPT ![m] = j]
                       /\ j.partition = job[m].partition /\ j.at = job[m].at /\ j.handled
<1> DEFINE j == [job[m] EXCEPT !.handled = TRUE]
<1>1. job[m] \in Job
  BY JobFacts
<1>2. j \in Job /\ j.partition = job[m].partition /\ j.at = job[m].at /\ j.handled
  BY <1>1 DEF Job
<1>3. job' = [job EXCEPT ![m] = j]
  BY DEF Finish
<1> QED BY <1>2, <1>3

\* A message that is handled is over, which keeps DeliveryInv.
LEMMA HandleInv ==
  ASSUME DeliveryInv, NEW m \in Member, Handle(m)
  PROVE  DeliveryInv'
<1> DEFINE e == EventOf(job[m])
<1>1. Working(m) /\ e \in Event
  BY JobFacts DEF Handle, Handling
<1>2. /\ processed \subseteq processed' /\ processed' \subseteq Event
      /\ applied' \in [Event -> Nat] /\ received' \in [Event -> Nat]
      /\ EffectInv'
      /\ e \in processed' \/ group = "notifier"
  BY <1>1, DoFacts DEF Handle
<1>3. PICK j \in Job : /\ job' = [job EXCEPT ![m] = j]
                      /\ j.partition = job[m].partition /\ j.at = job[m].at /\ j.handled
  BY <1>1, FinishFacts DEF Handle
<1>4. notified \subseteq notified' /\ notified' \subseteq Event /\ e \in processed' \cup notified'
  BY <1>1, <1>2 DEF Handle, DeliveryInv, TypeOK
<1>5. TypeOK'
  BY <1>2, <1>3, <1>4 DEF DeliveryInv, TypeOK, Handle, relayVars, countVars
<1>6. RelayInv'
  BY RelaySame DEF Handle, countVars
<1>7. Over(j.partition, j.at)'
  <2>1. log'[j.partition][j.at] = e
    BY <1>3 DEF EventOf, Handle
  <2> QED BY <1>3, <1>4, <2>1 DEF Over, Settled
<1>8. GroupInv'
  BY <1>1, <1>2, <1>3, <1>4, <1>7, WorkKeepsGroup DEF Handle
<1> QED BY <1>2, <1>5, <1>6, <1>8 DEF DeliveryInv

\* An attempt that fails keeps DeliveryInv, whether the handler had done its work or not.
LEMMA HandleFailsInv ==
  ASSUME DeliveryInv, NEW m \in Member, HandleFails(m)
  PROVE  DeliveryInv'
<1> DEFINE e == EventOf(job[m])
           j == [job[m] EXCEPT !.tries = @ + 1]
<1>1. Working(m) /\ e \in Event /\ job[m] \in Job
  BY JobFacts DEF HandleFails, Handling
<1>2. /\ processed \subseteq processed' /\ processed' \subseteq Event
      /\ applied' \in [Event -> Nat] /\ received' \in [Event -> Nat]
      /\ EffectInv'
  <2>1. CASE Do(e)
    BY <1>1, <2>1, DoFacts
  <2>2. CASE UNCHANGED effectVars
    BY <2>2, EffectSame DEF effectVars, DeliveryInv, TypeOK
  <2> QED BY <2>1, <2>2 DEF HandleFails
<1>3. j \in Job /\ j.partition = job[m].partition /\ j.at = job[m].at /\ j.handled = job[m].handled
  <2>1. job[m].tries \in 0..MaxAttempts /\ job[m].tries < MaxAttempts
    BY <1>1 DEF Job, HandleFails
  <2>2. job[m].tries + 1 \in 0..MaxAttempts
    BY <2>1
  <2> QED BY <1>1, <2>2 DEF Job
<1>4. job' = [job EXCEPT ![m] = j] /\ ~j.handled
  BY <1>3 DEF HandleFails, Handling
<1> HIDE DEF j
<1>5. TypeOK'
  <2>1. job' \in [Member -> Job \cup {NoJob}]
    BY <1>3, <1>4 DEF DeliveryInv, TypeOK
  <2>2. UNCHANGED <<group, outbox, published, relayVars, log, committed, owner, fetched, notified,
                    dead, lost, countVars>>
    BY DEF HandleFails
  <2> QED BY <1>2, <2>1, <2>2 DEF DeliveryInv, TypeOK, relayVars, countVars
<1>6. RelayInv'
  BY RelaySame DEF HandleFails, countVars
<1>7. GroupInv'
  BY <1>1, <1>2, <1>3, <1>4, WorkKeepsGroup DEF HandleFails
<1> QED BY <1>2, <1>5, <1>6, <1>7 DEF DeliveryInv

\* The DLQ, written or not, keeps DeliveryInv.
LEMMA BuryInv ==
  ASSUME DeliveryInv, NEW m \in Member, Bury(m) \/ BuryFails(m)
  PROVE  DeliveryInv'
<1> DEFINE e == EventOf(job[m])
<1>1. Working(m) /\ e \in Event
  BY JobFacts DEF Bury, BuryFails, Handling
<1>2. PICK j \in Job : /\ job' = [job EXCEPT ![m] = j]
                      /\ j.partition = job[m].partition /\ j.at = job[m].at /\ j.handled
  BY <1>1, FinishFacts DEF Bury, BuryFails
<1>3. /\ dead \subseteq dead' /\ dead' \subseteq Event
      /\ lost \subseteq lost' /\ lost' \subseteq Event
      /\ e \in dead' \cup lost'
  BY <1>1 DEF Bury, BuryFails, DeliveryInv, TypeOK
<1>4. groupFailures' \in Nat /\ relayFailures' = relayFailures
  BY DEF Bury, BuryFails, GroupFails, countVars, DeliveryInv, TypeOK
<1>5. /\ UNCHANGED <<group, outbox, published, relayVars, log, committed, owner, fetched>>
      /\ UNCHANGED <<effectVars, notified>>
  BY DEF Bury, BuryFails
<1>6. TypeOK'
  BY <1>2, <1>3, <1>4, <1>5 DEF DeliveryInv, TypeOK, relayVars, effectVars
<1>7. RelayInv' /\ EffectInv'
  BY <1>4, <1>5, RelaySame, EffectSame DEF effectVars
<1>8. Over(j.partition, j.at)'
  <2>1. log'[j.partition][j.at] = e
    BY <1>2, <1>5 DEF EventOf
  <2> QED BY <1>3, <2>1 DEF Over, Settled
<1>9. GroupInv'
  BY <1>1, <1>2, <1>3, <1>5, <1>8, WorkKeepsGroup DEF effectVars
<1> QED BY <1>6, <1>7, <1>9 DEF DeliveryInv

\* An acknowledgement keeps DeliveryInv, however late: all below it is over.
LEMMA AcknowledgeInv ==
  ASSUME DeliveryInv, NEW m \in Member, Acknowledge(m)
  PROVE  DeliveryInv'
<1>1. /\ Working(m) /\ job[m].handled
      /\ job[m] \in Job /\ job[m].partition \in Partition /\ job[m].at \in Nat \ {0}
      /\ job[m].at \in 1..Len(log[job[m].partition])
  BY JobFacts DEF Acknowledge
<1>2. Passed(job[m].partition, job[m].at)
  <2>1. /\ Passed(job[m].partition, job[m].at - 1)
        /\ Over(job[m].partition, job[m].at)
        /\ job[m].at <= Len(log[job[m].partition])
    BY <1>1 DEF DeliveryInv, GroupInv, JobsAreNext
  <2>2. \A i \in 1..job[m].at : i = job[m].at \/ i \in 1..(job[m].at - 1)
    BY <1>1
  <2> QED BY <2>1, <2>2 DEF Passed
<1>3. \A q, n : (Passed(q, n)' <=> Passed(q, n)) /\ (Over(q, n)' <=> Over(q, n))
  BY DEF Acknowledge, Passed, Over, Settled, handlerVars, effectVars
<1>4. TypeOK'
  BY <1>1 DEF DeliveryInv, TypeOK, Acknowledge, relayVars, handlerVars, effectVars, countVars
<1>5. RelayInv' /\ EffectInv'
  BY RelaySame, EffectSame DEF Acknowledge, handlerVars, effectVars, countVars
<1>6. \A q \in Partition : Passed(q, committed'[q])
  BY <1>1, <1>2 DEF DeliveryInv, TypeOK, GroupInv, Acknowledge
<1>7. JobsAreNext'
  BY <1>3 DEF DeliveryInv, TypeOK, GroupInv, JobsAreNext, Working, Acknowledge
<1>8. FetchedIsPassed'
  <2> SUFFICES ASSUME NEW q \in Partition, owner[q] \in Member
               PROVE  \/ Passed(q, fetched[q])
                      \/ /\ Working(owner[q])'
                         /\ job'[owner[q]].partition = q
                         /\ job'[owner[q]].at = fetched[q]
    BY <1>3 DEF FetchedIsPassed, Acknowledge, Working
  <2>1. CASE owner[q] = m
    BY <1>2, <2>1 DEF DeliveryInv, GroupInv, FetchedIsPassed
  <2>2. CASE owner[q] # m
    BY <2>2 DEF DeliveryInv, TypeOK, GroupInv, FetchedIsPassed, Working, Acknowledge
  <2> QED BY <2>1, <2>2
<1>9. GroupInv'
  BY <1>3, <1>6, <1>7, <1>8 DEF GroupInv
<1> QED BY <1>4, <1>5, <1>9 DEF DeliveryInv

\* A shutdown in the backoff keeps DeliveryInv: what it acknowledges is known to be lost.
LEMMA StopAckedInv ==
  ASSUME DeliveryInv, NEW m \in Member, StopAcked(m)
  PROVE  DeliveryInv'
<1>1. PICK p \in Partition, n \in Nat \ {0}, e \in Event :
        /\ p = job[m].partition /\ n = job[m].at /\ e = log[p][n]
        /\ n \in 1..Len(log[p])
        /\ Working(m)
  BY JobFacts DEF StopAcked, Handling, EventOf
<1>2. /\ lost' = lost \cup {e}
      /\ committed' = [committed EXCEPT ![p] = n]
      /\ UNCHANGED <<log, processed, notified, dead, fetched, applied, received>>
  BY <1>1 DEF StopAcked, EventOf, effectVars
<1>3. /\ \A q, k : Over(q, k) => Over(q, k)'
      /\ \A q, k : Passed(q, k) => Passed(q, k)'
  BY <1>2, PassedGrows
<1>4. TypeOK'
  <2>1. committed' \in [Partition -> Nat] /\ lost' \subseteq Event
    BY <1>1, <1>2 DEF DeliveryInv, TypeOK
  <2>2. groupFailures' \in Nat /\ relayFailures' = relayFailures
    BY DEF StopAcked, GroupFails, DeliveryInv, TypeOK
  <2>3. job' \in [Member -> Job \cup {NoJob}] /\ owner' \in [Partition -> Member \cup {NoMember}]
    BY DEF StopAcked, Leave, DeliveryInv, TypeOK
  <2>4. UNCHANGED <<group, outbox, published, relayVars, notified>>
    BY DEF StopAcked
  <2> QED BY <1>2, <2>1, <2>2, <2>3, <2>4 DEF DeliveryInv, TypeOK, relayVars
<1>5. RelayInv' /\ EffectInv'
  BY RelaySame, EffectSame DEF StopAcked, GroupFails, effectVars
<1>6. Passed(p, n)'
  <2>1. Passed(p, n - 1) /\ n <= Len(log[p])
    BY <1>1 DEF DeliveryInv, GroupInv, JobsAreNext
  <2>2. \A i \in 1..n : i = n \/ i \in 1..(n - 1)
    OBVIOUS
  <2>3. Over(p, n)' /\ Passed(p, n - 1)'
    BY <1>1, <1>2, <1>3, <2>1 DEF Over
  <2> QED BY <1>2, <2>1, <2>2, <2>3 DEF Passed
<1>7. \A q \in Partition : Passed(q, committed[q])'
  <2> SUFFICES ASSUME NEW q \in Partition PROVE Passed(q, committed[q])'
    OBVIOUS
  <2>1. CASE q = p
    <3>1. committed'[q] = n
      BY <1>2, <2>1 DEF DeliveryInv, TypeOK
    <3> QED BY <1>6, <2>1, <3>1
  <2>2. CASE q # p
    <3>1. committed'[q] = committed[q] /\ Passed(q, committed[q])
      BY <1>2, <2>2 DEF DeliveryInv, TypeOK, GroupInv
    <3> QED BY <1>3, <3>1
  <2> QED BY <2>1, <2>2
<1>8. JobsAreNext'
  <2> SUFFICES ASSUME NEW k \in Member, Working(k)'
               PROVE  /\ job'[k].at <= Len(log[job'[k].partition])
                      /\ Passed(job[k].partition, job[k].at - 1)'
                      /\ job'[k].handled => Over(job[k].partition, job[k].at)'
    BY <1>2 DEF JobsAreNext
  <2>1. job'[k] = job[k] /\ Working(k)
    BY DEF DeliveryInv, TypeOK, StopAcked, Leave, Working
  <2>2. /\ job[k].at <= Len(log[job[k].partition])
        /\ Passed(job[k].partition, job[k].at - 1)
        /\ job[k].handled => Over(job[k].partition, job[k].at)
    BY <2>1 DEF DeliveryInv, GroupInv, JobsAreNext
  <2> QED BY <1>2, <1>3, <2>1, <2>2 DEF Passed, Over, Settled
<1>9. FetchedIsPassed'
  BY <1>2, <1>3 DEF DeliveryInv, TypeOK, GroupInv, FetchedIsPassed, Working, StopAcked, Leave,
                    Passed, Over, Settled
<1> QED BY <1>4, <1>5, <1>7, <1>8, <1>9 DEF DeliveryInv, GroupInv

-----------------------------------------------------------------------------
(* The inductive invariant *)

\* DeliveryInv holds at first.
LEMMA InitInv == Init => DeliveryInv
<1> SUFFICES ASSUME Init PROVE DeliveryInv
  OBVIOUS
<1>1. TypeOK
  BY DEF Init, TypeOK
<1>2. Batches /\ LogIsWritten /\ \A e \in Event : ~Sent(e)
  BY DEF Init, Batches, LogIsWritten, Sent
<1>3. CopiesCounted
  <2>1. ASSUME NEW e \in Event PROVE Copies(e) = 0
    <3>1. {i \in DOMAIN log[PartitionOf[e]] : log[PartitionOf[e]][i] = e} = {}
      BY DEF Init
    <3> QED BY <3>1, FS_EmptySet DEF Copies
  <2> QED BY <1>2, <2>1 DEF CopiesCounted, Init
<1>4. RelayInv
  BY <1>2, <1>3 DEF RelayInv, SentIsLogged
<1>5. GroupInv /\ EffectInv
  BY DEF Init, GroupInv, EffectInv, JobsAreNext, FetchedIsPassed, Passed, Working
<1> QED BY <1>1, <1>4, <1>5 DEF DeliveryInv

\* Every step keeps DeliveryInv.
LEMMA NextInv == DeliveryInv /\ [Next]_vars => DeliveryInv'
<1> SUFFICES ASSUME DeliveryInv, [Next]_vars PROVE DeliveryInv'
  OBVIOUS
<1>1. ASSUME NEW e \in Event, Emit(e) PROVE DeliveryInv'
  BY <1>1, EmitInv
<1>2. ASSUME NEW r \in Relay, Publishing(r) PROVE DeliveryInv'
  BY <1>2, RelayTakeInv, RelayPublishInv, RelayBreakInv, RelayCommitInv, RelayLossInv DEF Publishing
<1>3. ASSUME NEW m \in Member, Consuming(m) PROVE DeliveryInv'
  BY <1>3, FetchInv, HandleInv, HandleFailsInv, BuryInv, AcknowledgeInv, StopAckedInv, CrashInv
     DEF Consuming
<1>4. ASSUME NEW p \in Partition, Rebalancing(p) PROVE DeliveryInv'
  BY <1>4, RevokeInv, AssignInv DEF Rebalancing
<1>5. CASE UNCHANGED vars
  <2>1. TypeOK'
    BY <1>5 DEF DeliveryInv, TypeOK, vars, relayVars, groupVars, handlerVars, effectVars, countVars
  <2>2. RelayInv' /\ GroupInv' /\ EffectInv'
    BY <1>5, RelaySame, GroupSame, EffectSame DEF vars, handlerVars, effectVars, countVars
  <2> QED BY <2>1, <2>2 DEF DeliveryInv
<1> QED BY <1>1, <1>2, <1>3, <1>4, <1>5 DEF Next

\* The inductive invariant: what the relays have published is in the log, and nobody
\* acknowledges past a message that is not over.
THEOREM DeliveryInvariant == Spec => []DeliveryInv
  BY InitInv, NextInv, PTL DEF Spec

\* The variables stay in their types.
THEOREM TypeCorrect == Spec => []TypeOK
<1>1. DeliveryInv => TypeOK
  BY DEF DeliveryInv
<1> QED BY <1>1, DeliveryInvariant, PTL

-----------------------------------------------------------------------------
(* What delivery guarantees *)

\* For any number of relays and failures, an event with published_at is in Kafka.
THEOREM MarkedCorrect == Spec => []MarkedIsLogged
<1>1. DeliveryInv => MarkedIsLogged
  BY DEF DeliveryInv, TypeOK, RelayInv, SentIsLogged, Sent, MarkedIsLogged
<1> QED BY <1>1, DeliveryInvariant, PTL

\* For any number of relays, an event is in Kafka once more than there were failures, at
\* most.
THEOREM CopiesCorrect == Spec => []CopiesOnlyAfterFailure
<1>1. ASSUME DeliveryInv, NEW e \in Event PROVE Copies(e) <= 1 + relayFailures
  <2>1. TypeOK /\ relayFailures \in Nat
    BY <1>1 DEF DeliveryInv, TypeOK
  <2>2. Copies(e) \in Nat
    BY <2>1, CopiesType
  <2>3. Copies(e) <= relayFailures + (IF Sent(e) THEN 1 ELSE 0)
    BY <1>1 DEF DeliveryInv, RelayInv, CopiesCounted
  <2> QED BY <2>1, <2>2, <2>3
<1>2. DeliveryInv => CopiesOnlyAfterFailure
  BY <1>1 DEF CopiesOnlyAfterFailure
<1> QED BY <1>2, DeliveryInvariant, PTL

\* For any number of consumers, partitions and rebalances, what is below the offset of
\* the group is over.
THEOREM PassedCorrect == Spec => []PassedIsSettled
<1>1. DeliveryInv => PassedIsSettled
  BY DEF DeliveryInv, GroupInv, Passed, Over, PassedIsSettled
<1> QED BY <1>1, DeliveryInvariant, PTL

\* Every step is one of the inbox, or changes nothing of it.
LEMMA StepIsInbox == DeliveryInv /\ [Next]_vars => [Handler!Next]_<<outbox, applied>>
<1> SUFFICES ASSUME DeliveryInv, [Next]_vars
             PROVE  Handler!Next \/ UNCHANGED <<outbox, applied>>
  OBVIOUS
<1>1. ASSUME NEW e \in Event, Emit(e) PROVE Handler!Next
  BY <1>1 DEF Emit, handlerVars, effectVars, Handler!Next, Handler!Emit
<1>2. ASSUME NEW e \in Event, e \in outbox, Do(e), UNCHANGED outbox
      PROVE  Handler!Next \/ UNCHANGED <<outbox, applied>>
  BY <1>2, DoFacts DEF Handler!Next, Handler!Apply
<1>3. ASSUME NEW m \in Member, Handle(m) \/ HandleFails(m)
      PROVE  Handler!Next \/ UNCHANGED <<outbox, applied>>
  <2>1. EventOf(job[m]) \in Event /\ EventOf(job[m]) \in outbox
    BY <1>3, JobFacts DEF Handle, HandleFails, Handling
  <2> QED BY <1>2, <1>3, <2>1 DEF Handle, HandleFails, effectVars
<1>4. ASSUME NEW r \in Relay, Publishing(r) PROVE UNCHANGED <<outbox, applied>>
  BY <1>4 DEF Publishing, RelayTake, RelayPublish, RelayBreak, RelayCommit, RelayLoss, handlerVars,
              effectVars
<1>5. ASSUME NEW m \in Member,
             \/ \E p \in Partition : Fetch(m, p)
             \/ Bury(m) \/ BuryFails(m) \/ Acknowledge(m) \/ StopAcked(m) \/ Crash(m)
      PROVE  UNCHANGED <<outbox, applied>>
  BY <1>5 DEF Fetch, Bury, BuryFails, Acknowledge, StopAcked, Crash, handlerVars, effectVars
<1>6. ASSUME NEW p \in Partition, Rebalancing(p) PROVE UNCHANGED <<outbox, applied>>
  BY <1>6 DEF Rebalancing, Revoke, Assign, handlerVars, effectVars
<1>7. CASE UNCHANGED vars
  BY <1>7 DEF vars, handlerVars, effectVars
<1> QED BY <1>1, <1>3, <1>4, <1>5, <1>6, <1>7 DEF Next, Consuming

\* For any number of copies, consumers and failures, an event has one effect at most,
\* after its data was committed.
THEOREM AppliedCorrect == Spec => AppliedOnce
<1>1. Init => Handler!Init
  BY DEF Init, Handler!Init
<1> QED BY <1>1, StepIsInbox, DeliveryInvariant, PTL DEF Spec, AppliedOnce, Handler!Spec

-----------------------------------------------------------------------------
(* How often a webhook is repeated. Each job has a number of attempts left; a job is made
   of one message that the owner of the partition fetches; an owner fetches a message
   once; and a partition gets another owner after a failure only. *)

\* The attempts that are left for an event, by member.
Attempts(e) ==
  {a \in Member \X (1..MaxAttempts) :
     Handling(a[1]) /\ EventOf(job[a[1]]) = e /\ job[a[1]].tries < a[2]}

\* Where an event is among the first n messages of its partition.
Places(e, n) == {i \in 1..n : log[PartitionOf[e]][i] = e}

\* The copies of an event that the owner of its partition has fetched.
Reached(e) ==
  IF owner[PartitionOf[e]] \in Member THEN Cardinality(Places(e, fetched[PartitionOf[e]])) ELSE 0

\* How often an event may have been attempted by now.
Budget(e) == MaxAttempts * (groupFailures * Copies(e) + Reached(e))

\* A message is in the partition of its event.
Home == \A p \in Partition : \A i \in DOMAIN log[p] : PartitionOf[log[p][i]] = p

\* Nobody fetches beyond the end of the log.
FetchedIsLogged == \A p \in Partition : fetched[p] <= Len(log[p])

\* The attempts made and those left are within the budget.
WithinBudget ==
  \A e \in Event :
    /\ IsFiniteSet(Attempts(e))
    /\ received[e] + Cardinality(Attempts(e)) <= Budget(e)

\* What carries RepeatsAreBounded, beside DeliveryInv.
RepeatInv == Home /\ FetchedIsLogged /\ WithinBudget

\* Multiplication is monotone (the provers are not told).
LEMMA TimesMonotone ==
  ASSUME NEW a \in Nat, NEW b \in Nat, NEW c \in Nat, a <= b
  PROVE  c * a <= c * b
<1> DEFINE d == b - a
<1>1. d \in Nat /\ b = a + d
  OBVIOUS
<1> HIDE DEF d
<1>2. c * d \in Nat /\ c * a \in Nat
  BY <1>1
<1>3. c * b = c * a + c * d
  BY <1>1
<1> QED BY <1>2, <1>3

\* The places of an event in a part of the log are finitely many, and no more than in all of it.
LEMMA PlacesFacts ==
  ASSUME NEW l \in Seq(Event), NEW e, NEW n \in Nat, n <= Len(l)
  PROVE  /\ Cardinality({i \in 1..n : l[i] = e}) \in Nat
         /\ Cardinality({i \in DOMAIN l : l[i] = e}) \in Nat
         /\ Cardinality({i \in 1..n : l[i] = e}) <= Cardinality({i \in DOMAIN l : l[i] = e})
<1> DEFINE S == {i \in 1..n : l[i] = e}
           T == {i \in DOMAIN l : l[i] = e}
<1>1. DOMAIN l = 1..Len(l) /\ Len(l) \in Nat
  OBVIOUS
<1>2. S \subseteq T /\ T \subseteq 1..Len(l)
  BY <1>1
<1>3. IsFiniteSet(T)
  <2>1. IsFiniteSet(1..Len(l))
    BY <1>1, FS_Interval
  <2> QED BY <1>2, <2>1, FS_Subset
<1> HIDE DEF S, T
<1>4. IsFiniteSet(S) /\ Cardinality(S) <= Cardinality(T)
  BY <1>2, <1>3, FS_Subset
<1>5. Cardinality(S) \in Nat /\ Cardinality(T) \in Nat
  BY <1>3, <1>4, FS_CardinalityType
<1> QED BY <1>4, <1>5 DEF S, T

\* No more copies are fetched than there are.
LEMMA ReachedType ==
  ASSUME TypeOK, FetchedIsLogged, NEW e \in Event
  PROVE  Reached(e) \in Nat /\ Copies(e) \in Nat /\ Reached(e) <= Copies(e)
<1> DEFINE l == log[PartitionOf[e]]
           n == fetched[PartitionOf[e]]
<1>1. l \in Seq(Event) /\ n \in Nat /\ n <= Len(l)
  BY DEF TypeOK, FetchedIsLogged
<1>2. Reached(e) = Cardinality({i \in 1..n : l[i] = e}) \/ Reached(e) = 0
  BY DEF Reached, Places
<1>3. Copies(e) = Cardinality({i \in DOMAIN l : l[i] = e})
  BY DEF Copies
<1> HIDE DEF l, n
<1>4. /\ Cardinality({i \in 1..n : l[i] = e}) \in Nat
      /\ Cardinality({i \in DOMAIN l : l[i] = e}) \in Nat
      /\ Cardinality({i \in 1..n : l[i] = e}) <= Cardinality({i \in DOMAIN l : l[i] = e})
  BY <1>1, PlacesFacts
<1> QED BY <1>2, <1>3, <1>4

\* The same after a step.
LEMMA ReachedTypeNext ==
  ASSUME TypeOK', FetchedIsLogged', NEW e \in Event
  PROVE  Reached(e)' \in Nat /\ Copies(e)' \in Nat /\ Reached(e)' <= Copies(e)'
<1> DEFINE l == log'[PartitionOf[e]]
           n == fetched'[PartitionOf[e]]
<1>1. l \in Seq(Event) /\ n \in Nat /\ n <= Len(l)
  BY DEF TypeOK, FetchedIsLogged
<1>2. Reached(e)' = Cardinality({i \in 1..n : l[i] = e}) \/ Reached(e)' = 0
  BY DEF Reached, Places
<1>3. Copies(e)' = Cardinality({i \in DOMAIN l : l[i] = e})
  BY DEF Copies
<1> HIDE DEF l, n
<1>4. /\ Cardinality({i \in 1..n : l[i] = e}) \in Nat
      /\ Cardinality({i \in DOMAIN l : l[i] = e}) \in Nat
      /\ Cardinality({i \in 1..n : l[i] = e}) <= Cardinality({i \in DOMAIN l : l[i] = e})
  BY <1>1, PlacesFacts
<1> QED BY <1>2, <1>3, <1>4

\* An attempt is taken from those that are left.
LEMMA AttemptSpent ==
  ASSUME NEW S, NEW T, NEW x, NEW r \in Nat, NEW q \in Nat, NEW b \in Nat, IsFiniteSet(S),
         r + Cardinality(S) <= b,
         (T \subseteq S /\ q = r) \/ (x \in S /\ T \subseteq S \ {x} /\ q = r + 1)
  PROVE  IsFiniteSet(T) /\ q + Cardinality(T) <= b
<1>0. Cardinality(S) \in Nat
  BY FS_CardinalityType
<1>1. CASE T \subseteq S /\ q = r
  <2>1. IsFiniteSet(T) /\ Cardinality(T) <= Cardinality(S)
    BY <1>1, FS_Subset
  <2>2. Cardinality(T) \in Nat
    BY <2>1, FS_CardinalityType
  <2> QED BY <1>0, <1>1, <2>1, <2>2
<1>2. CASE x \in S /\ T \subseteq S \ {x} /\ q = r + 1
  <2>1. IsFiniteSet(S \ {x}) /\ Cardinality(S \ {x}) = Cardinality(S) - 1
    BY <1>2, FS_RemoveElement
  <2>2. IsFiniteSet(T) /\ Cardinality(T) <= Cardinality(S \ {x})
    BY <1>2, <2>1, FS_Subset
  <2>3. Cardinality(T) \in Nat
    BY <2>2, FS_CardinalityType
  <2> QED BY <1>0, <1>2, <2>1, <2>2, <2>3
<1> QED BY <1>1, <1>2

\* A step that takes no attempt but what it spends, and lowers no budget.
LEMMA BudgetKept ==
  ASSUME DeliveryInv, DeliveryInv', RepeatInv, NEW e \in Event, NEW x,
         \/ Attempts(e)' \subseteq Attempts(e) /\ received'[e] = received[e]
         \/ /\ x \in Attempts(e) /\ Attempts(e)' \subseteq Attempts(e) \ {x}
            /\ received'[e] = received[e] + 1,
         Budget(e) <= Budget(e)', Budget(e) \in Nat, Budget(e)' \in Nat
  PROVE  /\ IsFiniteSet(Attempts(e)')
         /\ received'[e] + Cardinality(Attempts(e)') <= Budget(e)'
<1> DEFINE S == Attempts(e)
           T == Attempts(e)'
           r == received[e]
           q == received'[e]
           b == Budget(e)
           c == Budget(e)'
<1>1. r \in Nat /\ q \in Nat
  BY DEF DeliveryInv, TypeOK
<1>2. IsFiniteSet(S) /\ r + Cardinality(S) <= b
  BY DEF RepeatInv, WithinBudget
<1>3. (T \subseteq S /\ q = r) \/ (x \in S /\ T \subseteq S \ {x} /\ q = r + 1)
  OBVIOUS
<1>4. b \in Nat /\ c \in Nat /\ b <= c
  OBVIOUS
<1> HIDE DEF S, T, r, q, b, c
<1>5. IsFiniteSet(T) /\ q + Cardinality(T) <= b
  BY <1>1, <1>2, <1>3, <1>4, AttemptSpent
<1>6. Cardinality(T) \in Nat
  BY <1>5, FS_CardinalityType
<1>7. q + Cardinality(T) <= c
  BY <1>1, <1>4, <1>5, <1>6
<1> QED BY <1>5, <1>7 DEF T, q, c

\* More failures, copies and fetched copies make a larger budget.
LEMMA BudgetMonotone ==
  ASSUME TypeOK, TypeOK', FetchedIsLogged, FetchedIsLogged', NEW e \in Event,
         groupFailures <= groupFailures', Copies(e) <= Copies(e)', Reached(e) <= Reached(e)'
  PROVE  Budget(e) \in Nat /\ Budget(e)' \in Nat /\ Budget(e) <= Budget(e)'
<1> DEFINE g == groupFailures
           h == groupFailures'
           c == Copies(e)
           d == Copies(e)'
           r == Reached(e)
           s == Reached(e)'
<1>1. g \in Nat /\ h \in Nat /\ MaxAttempts \in Nat
  BY DEF TypeOK
<1>2. r \in Nat /\ c \in Nat
  BY ReachedType
<1>3. s \in Nat /\ d \in Nat
  BY ReachedTypeNext
<1>4. g <= h /\ c <= d /\ r <= s
  OBVIOUS
<1>5. Budget(e) = MaxAttempts * (g * c + r) /\ Budget(e)' = MaxAttempts * (h * d + s)
  BY DEF Budget
<1> HIDE DEF g, h, c, d, r, s
<1>6. g * c <= g * d /\ d * g <= d * h
  BY <1>1, <1>2, <1>3, <1>4, TimesMonotone
<1>7. g * c \in Nat /\ g * d \in Nat /\ h * d \in Nat /\ d * g = g * d /\ d * h = h * d
  BY <1>1, <1>2, <1>3
<1>8. g * c + r \in Nat /\ h * d + s \in Nat /\ g * c + r <= h * d + s
  BY <1>2, <1>3, <1>4, <1>6, <1>7
<1> QED BY <1>1, <1>5, <1>8, TimesMonotone

\* A failure pays for what its partition's owner had fetched.
LEMMA BudgetOfFailure ==
  ASSUME TypeOK, TypeOK', FetchedIsLogged, FetchedIsLogged', NEW e \in Event,
         groupFailures' = groupFailures + 1, Copies(e)' = Copies(e)
  PROVE  Budget(e) \in Nat /\ Budget(e)' \in Nat /\ Budget(e) <= Budget(e)'
<1> DEFINE g == groupFailures
           c == Copies(e)
           r == Reached(e)
           s == Reached(e)'
<1>1. g \in Nat /\ MaxAttempts \in Nat
  BY DEF TypeOK
<1>2. r \in Nat /\ c \in Nat /\ r <= c
  BY ReachedType
<1>3. s \in Nat
  BY ReachedTypeNext
<1>4. Budget(e) = MaxAttempts * (g * c + r) /\ Budget(e)' = MaxAttempts * ((g + 1) * c + s)
  BY DEF Budget
<1> HIDE DEF g, c, r, s
<1>5. g * c \in Nat /\ (g + 1) * c = g * c + c
  BY <1>1, <1>2
<1>6. g * c + r \in Nat /\ (g + 1) * c + s \in Nat /\ g * c + r <= (g + 1) * c + s
  BY <1>2, <1>3, <1>5
<1> QED BY <1>1, <1>4, <1>6, TimesMonotone

\* A step that leaves the group alone.
LEMMA RepeatQuiet ==
  ASSUME DeliveryInv, DeliveryInv', RepeatInv,
         UNCHANGED <<groupVars, received, groupFailures>>,
         UNCHANGED log \/ \E e \in Event : Write(PartitionOf[e], e)
  PROVE  RepeatInv'
<1>1. TypeOK /\ TypeOK' /\ FetchedIsLogged
  BY DEF DeliveryInv, RepeatInv
<1>2. /\ \A p \in Partition : \A i \in DOMAIN log[p] : log'[p][i] = log[p][i]
      /\ \A p \in Partition : Len(log[p]) <= Len(log'[p])
      /\ \A e \in Event : Copies(e)' \in {Copies(e), Copies(e) + 1}
      /\ Home'
  <2>1. CASE UNCHANGED log
    BY <1>1, <2>1 DEF TypeOK, Copies, RepeatInv, Home
  <2>2. ASSUME NEW e \in Event, Write(PartitionOf[e], e)
        PROVE  /\ \A p \in Partition : \A i \in DOMAIN log[p] : log'[p][i] = log[p][i]
               /\ \A p \in Partition : Len(log[p]) <= Len(log'[p])
               /\ \A f \in Event : Copies(f)' \in {Copies(f), Copies(f) + 1}
               /\ Home'
    <3>1. /\ \A p \in Partition : \A i \in DOMAIN log[p] : log'[p][i] = log[p][i]
          /\ \A p \in Partition : Len(log[p]) <= Len(log'[p])
          /\ \A p \in Partition : \A i \in DOMAIN log'[p] : i \in DOMAIN log[p] \/ log'[p][i] = e
          /\ \A f \in Event : Copies(f)' \in {Copies(f), Copies(f) + 1}
      BY <1>1, <2>2, WriteFacts
    <3>2. \A p \in Partition : p # PartitionOf[e] => log'[p] = log[p]
      BY <1>1, <2>2 DEF Write, TypeOK
    <3>3. Home'
      BY <3>1, <3>2 DEF RepeatInv, Home
    <3> QED BY <3>1, <3>3
  <2> QED BY <2>1, <2>2
<1>3. \A p \in Partition : /\ Len(log[p]) \in Nat /\ Len(log'[p]) \in Nat /\ fetched[p] \in Nat
                           /\ DOMAIN log[p] = 1..Len(log[p]) /\ fetched[p] <= Len(log[p])
  BY <1>1 DEF TypeOK, FetchedIsLogged
<1>4. FetchedIsLogged'
  BY <1>2, <1>3 DEF FetchedIsLogged, groupVars
<1>5. ASSUME NEW e \in Event
      PROVE  /\ IsFiniteSet(Attempts(e)')
             /\ received'[e] + Cardinality(Attempts(e)') <= Budget(e)'
  <2>1. Attempts(e)' \subseteq Attempts(e)
    <3> SUFFICES ASSUME NEW m \in Member, Handling(m), EventOf(job[m])' = e
                 PROVE  EventOf(job[m]) = e
      BY DEF Attempts, Handling, Working, groupVars
    <3>1. job[m].partition \in Partition /\ job[m].at \in 1..Len(log[job[m].partition])
      BY JobFacts DEF Handling
    <3>2. log'[job[m].partition][job[m].at] = log[job[m].partition][job[m].at]
      BY <1>2, <1>3, <3>1
    <3>3. job' = job
      BY DEF groupVars
    <3> QED BY <3>2, <3>3 DEF EventOf
  <2>2. Reached(e)' = Reached(e)
    <3> DEFINE p == PartitionOf[e]
               n == fetched[p]
    <3>1. \A i \in 1..n : log'[p][i] = log[p][i]
      BY <1>2, <1>3
    <3>2. {i \in 1..n : log'[p][i] = e} = {i \in 1..n : log[p][i] = e}
      BY <3>1
    <3> QED BY <3>2 DEF Reached, Places, groupVars
  <2>3. Copies(e) <= Copies(e)' /\ Reached(e) <= Reached(e)' /\ groupFailures <= groupFailures'
    <3>1. Copies(e) \in Nat /\ Reached(e) \in Nat
      BY <1>1, ReachedType
    <3>2. groupFailures \in Nat /\ groupFailures' = groupFailures
      BY <1>1 DEF TypeOK
    <3>3. Copies(e)' \in {Copies(e), Copies(e) + 1}
      BY <1>2
    <3> QED BY <2>2, <3>1, <3>2, <3>3
  <2>4. Budget(e) <= Budget(e)' /\ Budget(e) \in Nat /\ Budget(e)' \in Nat
    BY <1>1, <1>4, <2>3, BudgetMonotone
  <2> QED BY <2>1, <2>4, BudgetKept
<1> QED BY <1>2, <1>4, <1>5 DEF RepeatInv, WithinBudget

\* What the handler does for an event is received once at most, and by its merchant only.
LEMMA DoReceives ==
  ASSUME DeliveryInv, NEW e \in Event, Do(e) \/ UNCHANGED effectVars
  PROVE  /\ \A f \in Event : f # e => received'[f] = received[f]
         /\ received'[e] \in {received[e], received[e] + 1}
<1>1. received \in [Event -> Nat]
  BY DEF DeliveryInv, TypeOK
<1>2. received' = received \/ received' = [received EXCEPT ![e] = @ + 1]
  BY DEF Do, Notify, effectVars
<1> QED BY <1>1, <1>2

\* A step of a member that works: it spends an attempt if the merchant may have received
\* the webhook, and makes no new one.
LEMMA RepeatWork ==
  ASSUME DeliveryInv, DeliveryInv', RepeatInv, NEW m \in Member, NEW j \in Job \cup {NoJob},
         Working(m), job' = [job EXCEPT ![m] = j], UNCHANGED <<log, fetched>>,
         \/ UNCHANGED <<owner, groupFailures>>
         \/ groupFailures' = groupFailures + 1,
         \/ /\ UNCHANGED received
            /\ j = NoJob \/ j.handled
         \/ /\ Handling(m) /\ job[m].tries < MaxAttempts
            /\ \A f \in Event : f # EventOf(job[m]) => received'[f] = received[f]
            /\ received'[EventOf(job[m])] \in {received[EventOf(job[m])], received[EventOf(job[m])] + 1}
            /\ j # NoJob /\ j.partition = job[m].partition /\ j.at = job[m].at
            /\ j.handled \/ j.tries = job[m].tries + 1
  PROVE  RepeatInv'
<1>1. TypeOK /\ TypeOK' /\ FetchedIsLogged /\ FetchedIsLogged' /\ Home'
  BY DEF DeliveryInv, RepeatInv, FetchedIsLogged, Home
<1>2. ASSUME NEW e \in Event PROVE Budget(e) \in Nat /\ Budget(e)' \in Nat /\ Budget(e) <= Budget(e)'
  <2>1. Copies(e)' = Copies(e) /\ Copies(e) \in Nat /\ Reached(e) \in Nat /\ groupFailures \in Nat
    BY <1>1, ReachedType DEF Copies, TypeOK
  <2>2. CASE UNCHANGED <<owner, groupFailures>>
    <3>1. Reached(e)' = Reached(e)
      BY <2>2 DEF Reached, Places
    <3>2. groupFailures <= groupFailures' /\ Copies(e) <= Copies(e)' /\ Reached(e) <= Reached(e)'
      BY <2>1, <2>2, <3>1
    <3> QED BY <1>1, <3>2, BudgetMonotone
  <2>3. CASE groupFailures' = groupFailures + 1
    BY <1>1, <2>1, <2>3, BudgetOfFailure
  <2> QED BY <2>2, <2>3
<1>3. /\ job'[m] = j /\ \A k \in Member \ {m} : job'[k] = job[k]
      /\ \A k \in Member \ {m} : Handling(k)' <=> Handling(k)
  BY <1>1 DEF TypeOK, Handling, Working
<1>4. job[m] \in Job /\ job[m].tries \in Nat /\ EventOf(job[m]) \in Event
  <2>1. job[m] \in Job /\ EventOf(job[m]) \in Event
    BY JobFacts
  <2> QED BY <2>1 DEF Job
<1>5. ASSUME NEW e \in Event
      PROVE  /\ IsFiniteSet(Attempts(e)')
             /\ received'[e] + Cardinality(Attempts(e)') <= Budget(e)'
  <2>0. \A a \in Attempts(e)' : a[1] # m => a \in Attempts(e)
    BY <1>3 DEF Attempts, EventOf
  <2>1. CASE UNCHANGED received /\ (j = NoJob \/ j.handled)
    <3>1. ~Handling(m)'
      BY <1>3, <2>1 DEF Handling, Working
    <3>2. Attempts(e)' \subseteq Attempts(e)
      BY <2>0, <3>1 DEF Attempts
    <3> QED BY <1>2, <2>1, <3>2, BudgetKept
  <2>2. CASE /\ Handling(m) /\ job[m].tries < MaxAttempts
             /\ \A f \in Event : f # EventOf(job[m]) => received'[f] = received[f]
             /\ received'[EventOf(job[m])] \in {received[EventOf(job[m])], received[EventOf(job[m])] + 1}
             /\ j # NoJob /\ j.partition = job[m].partition /\ j.at = job[m].at
             /\ j.handled \/ j.tries = job[m].tries + 1
    <3> DEFINE x == <<m, job[m].tries + 1>>
    <3>1. EventOf(job[m])' = EventOf(job[m])
      BY <1>3, <2>2 DEF EventOf
    <3>2. x \in Member \X (1..MaxAttempts)
      BY <1>4, <2>2
    <3>3. ASSUME NEW a \in Attempts(e)', a[1] = m PROVE a \in Attempts(e) /\ a # x
      <4>1. a \in Member \X (1..MaxAttempts) /\ EventOf(job[m]) = e
        BY <3>1, <3>3 DEF Attempts
      <4>2. ~j.handled /\ j.tries < a[2]
        BY <1>3, <3>3 DEF Attempts, Handling
      <4>3. j.tries = job[m].tries + 1 /\ a[2] \in Nat
        BY <2>2, <4>1, <4>2
      <4>4. job[m].tries < a[2] /\ a[2] # job[m].tries + 1
        BY <1>4, <4>2, <4>3
      <4> QED BY <2>2, <3>3, <4>1, <4>4 DEF Attempts
    <3>4. x[1] = m
      OBVIOUS
    <3>5. Attempts(e)' \subseteq Attempts(e) \ {x}
      BY <2>0, <3>3 DEF Attempts
    <3>6. CASE e = EventOf(job[m])
      <4>1. x \in Attempts(e)
        BY <1>4, <2>2, <3>2, <3>6 DEF Attempts
      <4>2. \/ Attempts(e)' \subseteq Attempts(e) /\ received'[e] = received[e]
            \/ /\ x \in Attempts(e) /\ Attempts(e)' \subseteq Attempts(e) \ {x}
               /\ received'[e] = received[e] + 1
        BY <2>2, <3>5, <3>6, <4>1
      <4> HIDE DEF x
      <4> QED BY <1>2, <4>2, BudgetKept
    <3>7. CASE e # EventOf(job[m])
      <4>1. Attempts(e)' \subseteq Attempts(e) /\ received'[e] = received[e]
        BY <2>2, <3>5, <3>7
      <4> QED BY <1>2, <4>1, BudgetKept
    <3> QED BY <3>6, <3>7
  <2> QED BY <2>1, <2>2
<1> QED BY <1>1, <1>5 DEF RepeatInv, WithinBudget

\* A failure of the group that touches no message.
LEMMA RepeatRevoke ==
  ASSUME DeliveryInv, DeliveryInv', RepeatInv, NEW p \in Partition, Revoke(p)
  PROVE  RepeatInv'
<1>1. UNCHANGED <<log, fetched, job, received>> /\ groupFailures' = groupFailures + 1
  BY DEF Revoke, GroupFails, handlerVars, effectVars
<1>2. TypeOK /\ TypeOK' /\ FetchedIsLogged /\ FetchedIsLogged' /\ Home'
  BY <1>1 DEF DeliveryInv, RepeatInv, FetchedIsLogged, Home
<1>3. ASSUME NEW e \in Event
      PROVE  /\ IsFiniteSet(Attempts(e)')
             /\ received'[e] + Cardinality(Attempts(e)') <= Budget(e)'
  <2>1. Copies(e)' = Copies(e)
    BY <1>1 DEF Copies
  <2>2. Budget(e) \in Nat /\ Budget(e)' \in Nat /\ Budget(e) <= Budget(e)'
    BY <1>1, <1>2, <2>1, BudgetOfFailure
  <2>3. Attempts(e)' \subseteq Attempts(e) /\ received'[e] = received[e]
    BY <1>1 DEF Attempts, Handling, Working, EventOf
  <2> QED BY <2>2, <2>3, BudgetKept
<1> QED BY <1>2, <1>3 DEF RepeatInv, WithinBudget

\* A new owner has reached nothing before it is assigned.
LEMMA RepeatAssign ==
  ASSUME DeliveryInv, DeliveryInv', RepeatInv, NEW p \in Partition, NEW m \in Member, Assign(p, m)
  PROVE  RepeatInv'
<1>1. /\ UNCHANGED <<log, job, received, groupFailures>>
      /\ owner[p] = NoMember
      /\ owner' = [owner EXCEPT ![p] = m]
      /\ fetched' = [fetched EXCEPT ![p] = committed[p]]
  BY DEF Assign, handlerVars, effectVars, countVars
<1>2. TypeOK /\ TypeOK' /\ FetchedIsLogged /\ Home'
  BY <1>1 DEF DeliveryInv, RepeatInv, Home
<1>3. FetchedIsLogged'
  BY <1>1, <1>2 DEF DeliveryInv, GroupInv, Passed, FetchedIsLogged, TypeOK
<1>4. ASSUME NEW e \in Event
      PROVE  /\ IsFiniteSet(Attempts(e)')
             /\ received'[e] + Cardinality(Attempts(e)') <= Budget(e)'
  <2>1. Copies(e)' = Copies(e)
    BY <1>1 DEF Copies
  <2>2. Reached(e) <= Reached(e)'
    <3>1. Reached(e) \in Nat /\ Reached(e)' \in Nat
      BY <1>2, <1>3, ReachedType, ReachedTypeNext
    <3>2. CASE PartitionOf[e] = p
      <4>1. Reached(e) = 0
        BY <1>1, <3>2 DEF Reached
      <4> QED BY <3>1, <4>1
    <3>3. CASE PartitionOf[e] # p
      <4>1. owner'[PartitionOf[e]] = owner[PartitionOf[e]] /\ fetched'[PartitionOf[e]] = fetched[PartitionOf[e]]
        BY <1>1, <1>2, <3>3 DEF TypeOK
      <4>2. Places(e, fetched[PartitionOf[e]])' = Places(e, fetched[PartitionOf[e]])
        BY <1>1, <4>1 DEF Places
      <4>3. Reached(e)' = Reached(e)
        BY <4>1, <4>2 DEF Reached
      <4> QED BY <3>1, <4>3
    <3> QED BY <3>2, <3>3
  <2>3. groupFailures <= groupFailures' /\ Copies(e) <= Copies(e)'
    <3>1. Copies(e) \in Nat /\ groupFailures \in Nat
      BY <1>2, ReachedType DEF TypeOK
    <3> QED BY <1>1, <2>1, <3>1
  <2>4. Budget(e) \in Nat /\ Budget(e)' \in Nat /\ Budget(e) <= Budget(e)'
    BY <1>2, <1>3, <2>2, <2>3, BudgetMonotone
  <2>5. Attempts(e)' \subseteq Attempts(e) /\ received'[e] = received[e]
    BY <1>1 DEF Attempts, Handling, Working, EventOf
  <2> QED BY <2>4, <2>5, BudgetKept
<1> QED BY <1>2, <1>3, <1>4 DEF RepeatInv, WithinBudget

\* A message that is fetched is one more place its owner has reached, and is given all the
\* attempts of one job.
LEMMA RepeatFetch ==
  ASSUME DeliveryInv, DeliveryInv', RepeatInv, NEW m \in Member, NEW p \in Partition, Fetch(m, p)
  PROVE  RepeatInv'
<1> DEFINE n == fetched[p]
           f == log[p][n + 1]
           j == [partition |-> p, at |-> n + 1, tries |-> 0, handled |-> FALSE]
<1>1. /\ UNCHANGED <<log, owner, received, groupFailures>>
      /\ owner[p] = m /\ ~Working(m) /\ n < Len(log[p])
      /\ fetched' = [fetched EXCEPT ![p] = n + 1]
      /\ job' = [job EXCEPT ![m] = j]
  BY DEF Fetch, handlerVars, effectVars, countVars
<1>2. TypeOK /\ TypeOK' /\ FetchedIsLogged /\ Home /\ Home'
  BY <1>1 DEF DeliveryInv, RepeatInv, Home
<1>3. n \in Nat /\ Len(log[p]) \in Nat /\ n + 1 \in DOMAIN log[p]
  <2>1. n \in Nat /\ log[p] \in Seq(Event)
    BY <1>2 DEF TypeOK
  <2> QED BY <1>1, <2>1
<1>4. FetchedIsLogged'
  BY <1>1, <1>2, <1>3 DEF FetchedIsLogged, TypeOK
<1>5. PartitionOf[f] = p
  BY <1>2, <1>3 DEF Home
<1>6. /\ job'[m] = j /\ \A k \in Member \ {m} : job'[k] = job[k]
      /\ fetched'[p] = n + 1 /\ \A q \in Partition \ {p} : fetched'[q] = fetched[q]
  BY <1>1, <1>2 DEF TypeOK
<1>7. EventOf(job[m])' = f /\ j.tries = 0
  BY <1>1, <1>6 DEF EventOf
<1> HIDE DEF j
<1>8. ASSUME NEW e \in Event
      PROVE  /\ IsFiniteSet(Attempts(e)')
             /\ received'[e] + Cardinality(Attempts(e)') <= Budget(e)'
  <2>1. Copies(e)' = Copies(e)
    BY <1>1 DEF Copies
  <2>2. CASE e # f
    <3>1. Attempts(e)' \subseteq Attempts(e) /\ received'[e] = received[e]
      <4>1. \A a \in Attempts(e)' : a[1] # m
        BY <1>7, <2>2 DEF Attempts
      <4> QED BY <1>1, <1>6, <4>1 DEF Attempts, Handling, Working, EventOf
    <3>2. Reached(e)' = Reached(e)
      <4>1. CASE PartitionOf[e] # p
        BY <1>1, <1>6, <4>1 DEF Reached, Places
      <4>2. CASE PartitionOf[e] = p
        <5>1. \A i \in 1..(n + 1) : i \in 1..n \/ i = n + 1
          BY <1>3
        <5>2. {i \in 1..(n + 1) : log[p][i] = e} = {i \in 1..n : log[p][i] = e}
          BY <1>3, <2>2, <5>1
        <5>3. Places(e, fetched[p])' = Places(e, fetched[p])
          BY <1>1, <1>6, <4>2, <5>2 DEF Places
        <5> QED BY <1>1, <4>2, <5>3 DEF Reached
      <4> QED BY <4>1, <4>2
    <3>3. Copies(e) \in Nat /\ Reached(e) \in Nat /\ groupFailures \in Nat
      BY <1>2, ReachedType DEF TypeOK
    <3>4. groupFailures <= groupFailures' /\ Copies(e) <= Copies(e)' /\ Reached(e) <= Reached(e)'
      BY <1>1, <2>1, <3>2, <3>3
    <3>5. Budget(e) \in Nat /\ Budget(e)' \in Nat /\ Budget(e) <= Budget(e)'
      BY <1>2, <1>4, <3>4, BudgetMonotone
    <3> QED BY <3>1, <3>5, BudgetKept
  <2>3. CASE e = f
    <3>1. Reached(e)' = Reached(e) + 1
      <4> DEFINE S == {i \in 1..n : log[p][i] = e}
                 T == {i \in 1..(n + 1) : log[p][i] = e}
      <4>1. \A i : i \in 1..(n + 1) <=> i \in 1..n \/ i = n + 1
        BY <1>3
      <4>2. T = S \cup {n + 1} /\ n + 1 \notin S
        BY <1>3, <2>3, <4>1
      <4>3. IsFiniteSet(S)
        <5>1. S \subseteq 1..n
          OBVIOUS
        <5> HIDE DEF S
        <5>2. n \in Int /\ 1 \in Int
          BY <1>3
        <5>3. IsFiniteSet(1..n)
          BY <5>2, FS_Interval
        <5> QED BY <5>1, <5>3, FS_Subset
      <4>4. Places(e, fetched[p]) = S /\ Places(e, fetched[p])' = T
        BY <1>1, <1>5, <1>6, <2>3 DEF Places
      <4>5. Reached(e) = Cardinality(S) /\ Reached(e)' = Cardinality(T)
        BY <1>1, <1>5, <2>3, <4>4 DEF Reached
      <4> HIDE DEF S, T
      <4> QED BY <4>2, <4>3, <4>5, FS_AddElement
    <3>2. Budget(e)' = Budget(e) + MaxAttempts /\ Budget(e) \in Nat
      <4> DEFINE g == groupFailures
                 c == Copies(e)
                 r == Reached(e)
      <4>1. g \in Nat /\ c \in Nat /\ r \in Nat /\ MaxAttempts \in Nat
        BY <1>2, ReachedType DEF TypeOK
      <4>2. Budget(e) = MaxAttempts * (g * c + r) /\ Budget(e)' = MaxAttempts * (g * c + (r + 1))
        BY <1>1, <2>1, <3>1 DEF Budget
      <4> HIDE DEF g, c, r
      <4>3. g * c + r \in Nat /\ g * c + (r + 1) = (g * c + r) + 1
        BY <4>1
      <4>4. MaxAttempts * ((g * c + r) + 1) = MaxAttempts * (g * c + r) + MaxAttempts
        BY <4>1, <4>3
      <4> QED BY <4>1, <4>2, <4>3, <4>4
    <3> DEFINE N == {m} \X (1..MaxAttempts)
               A == Attempts(e)
               B == Attempts(e)'
               u == received[e]
               b == Budget(e)
    <3>3. B \subseteq A \cup N
      <4> SUFFICES ASSUME NEW a \in B, a[1] # m PROVE a \in A
        BY DEF Attempts
      <4>1. a \in Member \X (1..MaxAttempts)
        BY DEF Attempts
      <4> QED BY <1>1, <1>6, <4>1 DEF Attempts, Handling, Working, EventOf
    <3>4. IsFiniteSet(N) /\ Cardinality(N) = MaxAttempts
      <4>1. IsFiniteSet({m}) /\ Cardinality({m}) = 1
        BY FS_Singleton
      <4>2. IsFiniteSet(1..MaxAttempts) /\ Cardinality(1..MaxAttempts) = MaxAttempts
        BY FS_Interval
      <4>3. IsFiniteSet(N) /\ Cardinality(N) = Cardinality({m}) * Cardinality(1..MaxAttempts)
        BY <4>1, <4>2, FS_Product
      <4> QED BY <4>1, <4>2, <4>3
    <3>5. IsFiniteSet(A) /\ u + Cardinality(A) <= b /\ u \in Nat
      BY <1>2 DEF RepeatInv, WithinBudget, TypeOK
    <3> HIDE DEF N, A, B, u, b
    <3>6. IsFiniteSet(A \cup N) /\ Cardinality(A \cup N) <= Cardinality(A) + Cardinality(N)
      <4>1. IsFiniteSet(A \cap N) /\ Cardinality(A \cap N) \in Nat
        <5>1. A \cap N \subseteq A
          OBVIOUS
        <5>2. IsFiniteSet(A \cap N)
          BY <3>5, <5>1, FS_Subset
        <5> QED BY <5>2, FS_CardinalityType
      <4>2. /\ IsFiniteSet(A \cup N)
            /\ Cardinality(A \cup N) = Cardinality(A) + Cardinality(N) - Cardinality(A \cap N)
        BY <3>4, <3>5, FS_Union
      <4>3. Cardinality(A) \in Nat /\ Cardinality(N) \in Nat
        BY <3>4, <3>5, FS_CardinalityType
      <4> QED BY <4>1, <4>2, <4>3
    <3>7. IsFiniteSet(B) /\ Cardinality(B) <= Cardinality(A \cup N)
      BY <3>3, <3>6, FS_Subset
    <3>8. /\ Cardinality(A) \in Nat /\ Cardinality(B) \in Nat /\ Cardinality(A \cup N) \in Nat
      BY <3>5, <3>6, <3>7, FS_CardinalityType
    <3>9. b \in Nat /\ Budget(e)' = b + MaxAttempts
      BY <3>2 DEF b
    <3>10. u + Cardinality(B) <= b + MaxAttempts
      BY <3>4, <3>5, <3>6, <3>7, <3>8, <3>9
    <3> QED BY <1>1, <3>7, <3>9, <3>10 DEF B, u
  <2> QED BY <2>2, <2>3
<1> QED BY <1>2, <1>4, <1>8 DEF RepeatInv, WithinBudget

\* Every step keeps it.
LEMMA RepeatStep == DeliveryInv /\ DeliveryInv' /\ RepeatInv /\ [Next]_vars => RepeatInv'
<1> SUFFICES ASSUME DeliveryInv, DeliveryInv', RepeatInv, [Next]_vars PROVE RepeatInv'
  OBVIOUS
<1> USE DEF handlerVars, effectVars, countVars
<1>1. CASE (\E e \in Event : Emit(e)) \/ UNCHANGED vars
  BY <1>1, RepeatQuiet DEF Emit, vars
<1>2. ASSUME NEW r \in Relay, Publishing(r) PROVE RepeatInv'
  BY <1>2, RepeatQuiet DEF Publishing, RelayTake, RelayPublish, RelayBreak, RelayCommit, RelayLoss,
                           RelayFails
<1>3. ASSUME NEW p \in Partition, Rebalancing(p) PROVE RepeatInv'
  BY <1>3, RepeatRevoke, RepeatAssign DEF Rebalancing
<1>4. ASSUME NEW m \in Member, Consuming(m) PROVE RepeatInv'
  <2>1. CASE \E p \in Partition : Fetch(m, p)
    BY <2>1, RepeatFetch
  <2>2. CASE Handle(m)
    <3>1. Working(m) /\ EventOf(job[m]) \in Event
      BY <2>2, JobFacts DEF Handle, Handling
    <3>2. PICK j \in Job : /\ job' = [job EXCEPT ![m] = j]
                          /\ j.partition = job[m].partition /\ j.at = job[m].at /\ j.handled
      BY <2>2, <3>1, FinishFacts DEF Handle
    <3>3. /\ \A f \in Event : f # EventOf(job[m]) => received'[f] = received[f]
          /\ received'[EventOf(job[m])] \in {received[EventOf(job[m])], received[EventOf(job[m])] + 1}
      BY <2>2, <3>1, DoReceives DEF Handle
    <3>4. Handling(m) /\ job[m].tries < MaxAttempts /\ UNCHANGED <<log, fetched, owner, groupFailures>>
      BY <2>2 DEF Handle
    <3>5. j # NoJob
      OBVIOUS
    <3> QED BY <3>1, <3>2, <3>3, <3>4, <3>5, RepeatWork
  <2>3. CASE HandleFails(m)
    <3> DEFINE j == [job[m] EXCEPT !.tries = @ + 1]
    <3>1. Working(m) /\ EventOf(job[m]) \in Event /\ job[m] \in Job
      BY <2>3, JobFacts DEF HandleFails, Handling
    <3>2. job[m].tries \in 0..MaxAttempts /\ job[m].tries < MaxAttempts
      BY <2>3, <3>1 DEF HandleFails, Job
    <3>3. job[m].tries + 1 \in 0..MaxAttempts
      BY <3>2
    <3>4. /\ j \in Job /\ j # NoJob /\ j.partition = job[m].partition /\ j.at = job[m].at
          /\ j.tries = job[m].tries + 1
      BY <3>1, <3>3 DEF Job
    <3>5. job' = [job EXCEPT ![m] = j]
      BY <2>3 DEF HandleFails
    <3>6. /\ \A f \in Event : f # EventOf(job[m]) => received'[f] = received[f]
          /\ received'[EventOf(job[m])] \in {received[EventOf(job[m])], received[EventOf(job[m])] + 1}
      BY <2>3, <3>1, DoReceives DEF HandleFails
    <3>7. Handling(m) /\ UNCHANGED <<log, fetched, owner, groupFailures>>
      BY <2>3 DEF HandleFails
    <3> HIDE DEF j
    <3> QED BY <3>1, <3>2, <3>4, <3>5, <3>6, <3>7, RepeatWork
  <2>4. CASE Bury(m) \/ BuryFails(m)
    <3>1. Working(m)
      BY <2>4 DEF Bury, BuryFails, Handling
    <3>2. PICK j \in Job : job' = [job EXCEPT ![m] = j] /\ j.handled
      BY <2>4, <3>1, FinishFacts DEF Bury, BuryFails
    <3>3. UNCHANGED <<log, fetched, received, owner>> /\ groupFailures' \in {groupFailures, groupFailures + 1}
      BY <2>4 DEF Bury, BuryFails, GroupFails
    <3> QED BY <3>1, <3>2, <3>3, RepeatWork
  <2>5. CASE Acknowledge(m) \/ StopAcked(m) \/ Crash(m)
    <3>1. Working(m) /\ job' = [job EXCEPT ![m] = NoJob] /\ UNCHANGED <<log, fetched, received>>
      BY <2>5 DEF Acknowledge, StopAcked, Crash, Handling, Leave
    <3>2. UNCHANGED <<owner, groupFailures>> \/ groupFailures' = groupFailures + 1
      BY <2>5 DEF Acknowledge, StopAcked, Crash, GroupFails
    <3> QED BY <3>1, <3>2, RepeatWork
  <2> QED BY <1>4, <2>1, <2>2, <2>3, <2>4, <2>5 DEF Consuming
<1> QED BY <1>1, <1>2, <1>3, <1>4 DEF Next

\* RepeatInv holds at first.
LEMMA RepeatInit == Init => RepeatInv
<1> SUFFICES ASSUME Init PROVE RepeatInv
  OBVIOUS
<1>1. Home /\ FetchedIsLogged
  BY DEF Init, Home, FetchedIsLogged
<1>2. ASSUME NEW e \in Event
      PROVE  IsFiniteSet(Attempts(e)) /\ received[e] + Cardinality(Attempts(e)) <= Budget(e)
  <2>1. TypeOK
    BY InitInv DEF DeliveryInv
  <2>2. Attempts(e) = {} /\ received[e] = 0 /\ groupFailures = 0
    BY DEF Init, Attempts, Handling, Working
  <2>3. IsFiniteSet(Attempts(e)) /\ Cardinality(Attempts(e)) = 0
    BY <2>2, FS_EmptySet
  <2>4. Copies(e) \in Nat /\ Reached(e) = 0
    BY <1>1, <2>1, ReachedType DEF Reached, Init
  <2>5. Budget(e) = 0
    <3>1. groupFailures * Copies(e) + Reached(e) = 0
      BY <2>2, <2>4
    <3> QED BY <3>1 DEF Budget
  <2> QED BY <2>2, <2>3, <2>5
<1> QED BY <1>1, <1>2 DEF RepeatInv, WithinBudget

\* For any number of copies, consumers and failures, a webhook is received at most as often
\* as each copy may be attempted, by each of the owners its partition had.
THEOREM RepeatsCorrect == Spec => []RepeatsAreBounded
<1>1. ASSUME DeliveryInv, RepeatInv, NEW e \in Event
      PROVE  received[e] <= MaxAttempts * (1 + relayFailures) * (1 + groupFailures)
  <2> DEFINE g == groupFailures
             h == relayFailures
             c == Copies(e)
             r == Reached(e)
             a == Cardinality(Attempts(e))
             u == received[e]
  <2>1. g \in Nat /\ h \in Nat /\ u \in Nat /\ MaxAttempts \in Nat
    BY <1>1 DEF DeliveryInv, TypeOK
  <2>2. TypeOK /\ FetchedIsLogged
    BY <1>1 DEF DeliveryInv, RepeatInv
  <2>3. c \in Nat /\ r \in Nat /\ r <= c
    BY <2>2, ReachedType
  <2>4. c <= 1 + h
    <3>1. c <= h + (IF Sent(e) THEN 1 ELSE 0)
      BY <1>1 DEF DeliveryInv, RelayInv, CopiesCounted
    <3> HIDE DEF c, h
    <3> QED BY <2>1, <2>3, <3>1
  <2>5. u + a <= MaxAttempts * (g * c + r) /\ a \in Nat
    <3>1. IsFiniteSet(Attempts(e)) /\ u + a <= Budget(e)
      BY <1>1 DEF RepeatInv, WithinBudget
    <3> QED BY <3>1, FS_CardinalityType DEF Budget
  <2> HIDE DEF g, h, c, r, a, u
  <2>6. g * c + r <= (1 + g) * c /\ (1 + g) * c <= (1 + g) * (1 + h)
    <3>1. (1 + g) * c = g * c + c /\ g * c \in Nat
      BY <2>1, <2>3
    <3>2. (1 + g) * c <= (1 + g) * (1 + h)
      BY <2>1, <2>3, <2>4, TimesMonotone
    <3> QED BY <2>3, <3>1, <3>2
  <2>7. g * c + r \in Nat /\ (1 + g) * (1 + h) \in Nat /\ (1 + g) * c \in Nat
    BY <2>1, <2>3
  <2>8. MaxAttempts * (g * c + r) <= MaxAttempts * ((1 + g) * (1 + h))
    BY <2>1, <2>6, <2>7, TimesMonotone
  <2>9. MaxAttempts * ((1 + g) * (1 + h)) = MaxAttempts * (1 + h) * (1 + g)
    BY <2>1
  <2>10. MaxAttempts * (g * c + r) \in Nat /\ MaxAttempts * (1 + h) * (1 + g) \in Nat
    BY <2>1, <2>7
  <2>11. u <= MaxAttempts * (1 + h) * (1 + g)
    BY <2>1, <2>5, <2>8, <2>9, <2>10
  <2> QED BY <2>11 DEF u, g, h
<1>2. DeliveryInv /\ RepeatInv => RepeatsAreBounded
  BY <1>1 DEF RepeatsAreBounded
<1> QED BY <1>2, RepeatInit, RepeatStep, DeliveryInvariant, PTL DEF Spec

=============================================================================
