------------------------------ MODULE Delivery ------------------------------
(***************************************************************************)
(* How an event reaches its handler: it is written to the outbox with the  *)
(* data it tells of; the relays, one in each replica of the API, publish   *)
(* the outbox to Kafka; the members of a consumer group fetch, handle and  *)
(* acknowledge it. There are two groups, the scheduler and the notifier,   *)
(* which have their own offsets and share nothing but the log: a behaviour *)
(* is about one of them.                                                   *)
(*                                                                         *)
(* A batch of a relay is one database transaction that holds the locks of  *)
(* its rows while it publishes; what it has published so far is in `sent`  *)
(* until the transaction commits. The scheduler handles an event in one    *)
(* database transaction that inserts it in processed_events and applies    *)
(* its effect; the notifier posts it to the webhook of the merchant and    *)
(* remembers nothing. Kafka is external: a log per partition, a committed  *)
(* offset per partition, and an assignment of partitions to members.       *)
(***************************************************************************)
EXTENDS Integers, Sequences, FiniteSets

CONSTANTS
  Event,
  Id,                  \* the outbox id of an event (its place in ORDER BY id)
  Subscribed,          \* events of merchants that have a webhook
  Partition,
  PartitionOf,         \* of the topic and the key of an event
  Relay,
  BatchSize,           \* rows a relay takes at a time
  Member,              \* consumers of the group
  NoMember, NoJob,
  MaxAttempts,
  MaxFailures          \* bound on all the failures, of the relays and of the group

Group == {"scheduler", "notifier"}

Job == [partition : Partition, at : Nat \ {0}, tries : 0..MaxAttempts, handled : BOOLEAN]

ASSUME DeliveryAssumption ==
  /\ Id \in [Event -> Nat]
  /\ Subscribed \subseteq Event
  /\ PartitionOf \in [Event -> Partition]
  /\ BatchSize \in Nat \ {0}
  /\ NoMember \notin Member
  /\ NoJob \notin Job
  /\ MaxAttempts \in Nat \ {0}
  /\ MaxFailures \in Nat

VARIABLES
  group,      \* the group whose members are modelled
  outbox,     \* events committed to the outbox
  published,  \* those with published_at
  taken,      \* rows a relay has locked in its open transaction
  sent,       \* those of them it has published
  broken,     \* the relay stops at the first event it cannot publish
  log,        \* the messages of each partition
  committed,  \* the group's offset in each partition: messages acknowledged
  owner,      \* the member a partition is assigned to
  fetched,    \* messages of the partition its owner has fetched, or skipped
  job,        \* the message a member works on
  processed,  \* rows of processed_events
  applied,    \* how many times the effect of an event was committed
  received,   \* how many times the merchant received the webhook of an event
  notified,   \* events the notifier handled without an error
  dead,       \* events in the DLQ
  lost,       \* events acknowledged neither handled nor in the DLQ
  relayFailures,  \* publications that failed or were rolled back
  groupFailures   \* rebalances, crashed members, messages acknowledged unhandled

relayVars == <<taken, sent, broken>>
groupVars == <<committed, owner, fetched, job>>
effectVars == <<processed, applied, received>>
handlerVars == <<effectVars, notified, dead, lost>>
countVars == <<relayFailures, groupFailures>>
vars == <<group, outbox, published, relayVars, log, groupVars, handlerVars, countVars>>

-----------------------------------------------------------------------------
RelayFails ==
  /\ relayFailures + groupFailures < MaxFailures
  /\ relayFailures' = relayFailures + 1
  /\ UNCHANGED groupFailures

GroupFails ==
  /\ relayFailures + groupFailures < MaxFailures
  /\ groupFailures' = groupFailures + 1
  /\ UNCHANGED relayFailures

(* The outbox and its relays *)

Write(p, e) == log' = [log EXCEPT ![p] = Append(@, e)]

\* The use cases write events with their data; ids may commit out of order.
Emit(e) ==
  /\ e \notin outbox
  /\ outbox' = outbox \cup {e}
  /\ UNCHANGED <<group, published, relayVars, log, groupVars, handlerVars, countVars>>

First(S, n) == {e \in S : Cardinality({f \in S : Id[f] < Id[e]}) < n}

\* Faulty variant: FOR UPDATE SKIP LOCKED is missing from the query.
BatchUnlocked == First(outbox \ published, BatchSize)

Batch == First((outbox \ published) \ UNION {taken[r] : r \in Relay}, BatchSize)

RelayTake(r) ==
  /\ taken[r] = {}
  /\ Batch # {}
  /\ taken' = [taken EXCEPT ![r] = Batch]
  /\ UNCHANGED <<group, outbox, published, sent, broken, log, groupVars, handlerVars, countVars>>

ToSend(r) == IF broken[r] THEN {} ELSE First(taken[r] \ sent[r], 1)

RelayPublish(r, e) ==
  /\ e \in ToSend(r)
  /\ Write(PartitionOf[e], e)
  /\ sent' = [sent EXCEPT ![r] = @ \cup {e}]
  /\ UNCHANGED <<group, outbox, published, taken, broken, groupVars, handlerVars, countVars>>

\* An error of the broker; after a timeout the message may be in the log. The
\* events that follow are left for the next batch.
RelayBreak(r, e) ==
  /\ e \in ToSend(r)
  /\ RelayFails
  /\ Write(PartitionOf[e], e) \/ UNCHANGED log
  /\ broken' = [broken EXCEPT ![r] = TRUE]
  /\ UNCHANGED <<group, outbox, published, taken, sent, groupVars, handlerVars>>

CloseBatch(r) ==
  /\ taken' = [taken EXCEPT ![r] = {}]
  /\ sent' = [sent EXCEPT ![r] = {}]
  /\ broken' = [broken EXCEPT ![r] = FALSE]

\* Faulty variant: the whole batch is marked as published.
RelayCommitAll(r) ==
  /\ taken[r] # {}
  /\ ToSend(r) = {}
  /\ published' = published \cup taken[r]
  /\ CloseBatch(r)
  /\ UNCHANGED <<group, outbox, log, groupVars, handlerVars, countVars>>

RelayCommit(r) ==
  /\ taken[r] # {}
  /\ ToSend(r) = {}
  /\ published' = published \cup sent[r]
  /\ CloseBatch(r)
  /\ UNCHANGED <<group, outbox, log, groupVars, handlerVars, countVars>>

\* The replica crashes, or the mark or the commit fails: rollback.
RelayLoss(r) ==
  /\ taken[r] # {}
  /\ RelayFails
  /\ CloseBatch(r)
  /\ UNCHANGED <<group, outbox, published, log, groupVars, handlerVars>>

-----------------------------------------------------------------------------
(* The consumer group *)

Working(m)  == job[m] # NoJob
Handling(m) == Working(m) /\ ~job[m].handled
EventOf(j)  == log[j.partition][j.at]

\* The new owner starts from the group's offset.
Assign(p, m) ==
  /\ owner[p] = NoMember
  /\ owner' = [owner EXCEPT ![p] = m]
  /\ fetched' = [fetched EXCEPT ![p] = committed[p]]
  /\ UNCHANGED <<group, outbox, published, relayVars, log, committed, job, handlerVars, countVars>>

\* A rebalance takes the partition away; its member goes on with its message.
Revoke(p) ==
  /\ owner[p] \in Member
  /\ GroupFails
  /\ owner' = [owner EXCEPT ![p] = NoMember]
  /\ UNCHANGED <<group, outbox, published, relayVars, log, committed, fetched, job, handlerVars>>

Leave(m) ==
  /\ job' = [job EXCEPT ![m] = NoJob]
  /\ owner' = [p \in Partition |-> IF owner[p] = m THEN NoMember ELSE owner[p]]

\* A crash in the middle of a message: what its transaction did is rolled back.
Crash(m) ==
  /\ Working(m)
  /\ GroupFails
  /\ Leave(m)
  /\ UNCHANGED <<group, outbox, published, relayVars, log, committed, fetched, handlerVars>>

\* Faulty variant: the message is acknowledged when it is fetched.
FetchAcked(m, p) ==
  /\ owner[p] = m
  /\ ~Working(m)
  /\ fetched[p] < Len(log[p])
  /\ fetched' = [fetched EXCEPT ![p] = @ + 1]
  /\ committed' = [committed EXCEPT ![p] = fetched[p] + 1]
  /\ job' = [job EXCEPT ![m] = [partition |-> p, at |-> fetched[p] + 1,
                                tries |-> 0, handled |-> FALSE]]
  /\ UNCHANGED <<group, outbox, published, relayVars, log, owner, handlerVars, countVars>>

Fetch(m, p) ==
  /\ owner[p] = m
  /\ ~Working(m)
  /\ fetched[p] < Len(log[p])
  /\ fetched' = [fetched EXCEPT ![p] = @ + 1]
  /\ job' = [job EXCEPT ![m] = [partition |-> p, at |-> fetched[p] + 1,
                                tries |-> 0, handled |-> FALSE]]
  /\ UNCHANGED <<group, outbox, published, relayVars, log, committed, owner, handlerVars, countVars>>

\* Faulty variant: the handler does not look at processed_events.
EffectUnmarked(e) ==
  /\ processed' = processed \cup {e}
  /\ applied' = [applied EXCEPT ![e] = @ + 1]

\* MarkIfNew and what depends on it, in one transaction.
Effect(e) ==
  \/ /\ e \notin processed
     /\ processed' = processed \cup {e}
     /\ applied' = [applied EXCEPT ![e] = @ + 1]
  \/ e \in processed /\ UNCHANGED <<processed, applied>>

\* Notifier.Handle: a merchant without a webhook needs nothing.
Notify(e) ==
  received' = IF e \in Subscribed THEN [received EXCEPT ![e] = @ + 1] ELSE received

\* What the handler of the group does for an event.
Do(e) ==
  \/ group = "scheduler" /\ Effect(e) /\ UNCHANGED received
  \/ group = "notifier" /\ Notify(e) /\ UNCHANGED <<processed, applied>>

Finish(m) == job' = [job EXCEPT ![m].handled = TRUE]

Handle(m) ==
  /\ Handling(m)
  /\ job[m].tries < MaxAttempts
  /\ Do(EventOf(job[m]))
  /\ notified' = IF group = "notifier" THEN notified \cup {EventOf(job[m])} ELSE notified
  /\ Finish(m)
  /\ UNCHANGED <<group, outbox, published, relayVars, log, committed, owner, fetched, dead,
                 lost, countVars>>

\* Faulty variant: there is no last attempt.
HandleFailsAgain(m) ==
  /\ Handling(m)
  /\ Do(EventOf(job[m])) \/ UNCHANGED effectVars
  /\ job' = [job EXCEPT ![m].tries = @ + 1]
  /\ UNCHANGED <<group, outbox, published, relayVars, log, committed, owner, fetched, notified,
                 dead, lost, countVars>>

\* An error that may be transient, also one of a commit that did take place, or of a
\* webhook that the merchant received and did not answer in time.
HandleFails(m) ==
  /\ Handling(m)
  /\ job[m].tries < MaxAttempts
  /\ Do(EventOf(job[m])) \/ UNCHANGED effectVars
  /\ job' = [job EXCEPT ![m].tries = @ + 1]
  /\ UNCHANGED <<group, outbox, published, relayVars, log, committed, owner, fetched, notified,
                 dead, lost, countVars>>

\* After the last attempt, or at once if the error is permanent.
Bury(m) ==
  /\ Handling(m)
  /\ dead' = dead \cup {EventOf(job[m])}
  /\ Finish(m)
  /\ UNCHANGED <<group, outbox, published, relayVars, log, committed, owner, fetched,
                 effectVars, notified, lost, countVars>>

\* The DLQ cannot be written: the error is logged and the message acknowledged.
BuryFails(m) ==
  /\ Handling(m)
  /\ GroupFails
  /\ lost' = lost \cup {EventOf(job[m])}
  /\ Finish(m)
  /\ UNCHANGED <<group, outbox, published, relayVars, log, committed, owner, fetched,
                 effectVars, notified, dead>>

\* CommitMessages with the offset that follows this message, whoever has the
\* partition now; an error is only logged.
Acknowledge(m) ==
  /\ Working(m)
  /\ job[m].handled
  /\ \/ committed' = [committed EXCEPT ![job[m].partition] = job[m].at]
     \/ UNCHANGED committed
  /\ job' = [job EXCEPT ![m] = NoJob]
  /\ UNCHANGED <<group, outbox, published, relayVars, log, owner, fetched, handlerVars, countVars>>

\* SIGTERM while the member waits to try again: process returns, CommitMessages gets
\* a context that is canceled, and may still send the offset before the member leaves.
StopAcked(m) ==
  /\ Handling(m)
  /\ job[m].tries > 0
  /\ GroupFails
  /\ lost' = lost \cup {EventOf(job[m])}
  /\ committed' = [committed EXCEPT ![job[m].partition] = job[m].at]
  /\ Leave(m)
  /\ UNCHANGED <<group, outbox, published, relayVars, log, fetched, effectVars, notified, dead>>

-----------------------------------------------------------------------------
Init ==
  /\ group \in Group
  /\ outbox = {}
  /\ published = {}
  /\ taken = [r \in Relay |-> {}]
  /\ sent = [r \in Relay |-> {}]
  /\ broken = [r \in Relay |-> FALSE]
  /\ log = [p \in Partition |-> << >>]
  /\ committed = [p \in Partition |-> 0]
  /\ owner = [p \in Partition |-> NoMember]
  /\ fetched = [p \in Partition |-> 0]
  /\ job = [m \in Member |-> NoJob]
  /\ processed = {}
  /\ applied = [e \in Event |-> 0]
  /\ received = [e \in Event |-> 0]
  /\ notified = {}
  /\ dead = {}
  /\ lost = {}
  /\ relayFailures = 0
  /\ groupFailures = 0

Publishing(r) ==
  \/ RelayTake(r)
  \/ \E e \in Event : RelayPublish(r, e) \/ RelayBreak(r, e)
  \/ RelayCommit(r)
  \/ RelayLoss(r)

Consuming(m) ==
  \/ \E p \in Partition : Fetch(m, p)
  \/ Handle(m)
  \/ HandleFails(m)
  \/ Bury(m)
  \/ BuryFails(m)
  \/ Acknowledge(m)
  \/ StopAcked(m)
  \/ Crash(m)

Rebalancing(p) == Revoke(p) \/ \E m \in Member : Assign(p, m)

Next ==
  \/ \E e \in Event : Emit(e)
  \/ \E r \in Relay : Publishing(r)
  \/ \E m \in Member : Consuming(m)
  \/ \E p \in Partition : Rebalancing(p)

Spec == Init /\ [][Next]_vars

(* The relays poll for ever, the group's coordinator assigns what nobody has, and a
   member that is not stopped goes on; it takes messages from its partitions in turn,
   so each gets one (strong fairness of Fetch). *)
Fairness ==
  /\ \A r \in Relay :
       /\ WF_vars(RelayTake(r))
       /\ WF_vars(\E e \in Event : RelayPublish(r, e))
       /\ WF_vars(RelayCommit(r))
  /\ \A m \in Member :
       /\ WF_vars(Handle(m) \/ HandleFails(m) \/ Bury(m) \/ BuryFails(m))
       /\ WF_vars(Acknowledge(m))
  /\ \A p \in Partition :
       /\ SF_vars(\E m \in Member : Fetch(m, p))
       /\ WF_vars(\E m \in Member : Assign(p, m))

FairSpec == Spec /\ Fairness

-----------------------------------------------------------------------------
(* Properties *)

TypeOK ==
  /\ group \in Group
  /\ outbox \subseteq Event
  /\ published \subseteq Event
  /\ taken \in [Relay -> SUBSET Event]
  /\ sent \in [Relay -> SUBSET Event]
  /\ broken \in [Relay -> BOOLEAN]
  /\ log \in [Partition -> Seq(Event)]
  /\ committed \in [Partition -> Nat]
  /\ owner \in [Partition -> Member \cup {NoMember}]
  /\ fetched \in [Partition -> Nat]
  /\ job \in [Member -> Job \cup {NoJob}]
  /\ processed \subseteq Event
  /\ applied \in [Event -> Nat]
  /\ received \in [Event -> Nat]
  /\ notified \subseteq Event
  /\ dead \subseteq Event
  /\ lost \subseteq Event
  /\ relayFailures \in Nat
  /\ groupFailures \in Nat

Logged(e)  == \E i \in DOMAIN log[PartitionOf[e]] : log[PartitionOf[e]][i] = e
Settled(e) == e \in processed \cup notified \cup dead
Copies(e)  == Cardinality({i \in DOMAIN log[PartitionOf[e]] : log[PartitionOf[e]][i] = e})

\* An event marked as published is in Kafka, also when the batch was cut short by an
\* error and another relay works next to this one: nothing is forgotten in the outbox.
MarkedIsLogged == \A e \in published : Logged(e)

\* An event is in Kafka once, plus once for each publication that failed or was rolled
\* back: the replicas do not publish each other's rows (SKIP LOCKED).
CopiesOnlyAfterFailure == \A e \in Event : Copies(e) <= 1 + relayFailures

\* What is below the group's offset is handled or in the DLQ, except what the consumer
\* acknowledged unhandled: a crash or a rebalance at any moment, and an offset that an
\* earlier owner writes late, skip nothing.
PassedIsSettled ==
  \A p \in Partition : \A i \in 1..committed[p] :
    Settled(log[p][i]) \/ log[p][i] \in lost

\* Every event written with its data is handled in the end, or in the DLQ, or was one
\* the consumer acknowledged unhandled.
EveryEventSettled == \A e \in Event : e \in outbox ~> (Settled(e) \/ e \in lost)

\* A merchant receives the webhook of an event at most as often as the consumer makes
\* attempts, for each copy of the event in Kafka and each time a partition is assigned
\* again: the notifier has no processed_events, but nothing is repeated without end.
RepeatsAreBounded ==
  \A e \in Event :
    received[e] <= MaxAttempts * (1 + relayFailures) * (1 + groupFailures)

Handler == INSTANCE Inbox WITH emitted <- outbox

\* For the scheduler, at-least-once delivery is at most one effect of each event, after
\* its data was committed.
AppliedOnce == Handler!Spec
=============================================================================
