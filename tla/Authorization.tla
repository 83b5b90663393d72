---------------------------- MODULE Authorization ----------------------------
(***************************************************************************)
(* POST /v1/transactions: the idempotency middleware around Authorize,     *)
(* which asks the issuer and stores the sale. Each request is handled by   *)
(* one replica of the API; a client that retries sends another request     *)
(* with the same key. The sale of a request is named by the request.       *)
(*                                                                         *)
(* One action is one statement or transaction of the database, or one call *)
(* of the issuer. Begin is two statements (INSERT, then SELECT if the key  *)
(* is there); what its SELECT finds is what counts, and a row that is gone *)
(* by then is answered like one that was still in progress.                *)
(*                                                                         *)
(* The issuer is external. It learns the caller's deadline and does not    *)
(* answer after it, but an approval may be on its way when the caller      *)
(* gives up.                                                               *)
(***************************************************************************)
EXTENDS Integers, FiniteSets

CONSTANTS
  Request,
  Key, KeyOf,     \* Idempotency-Key (of one merchant)
  Body, BodyOf,   \* method, path and body: what the hash is of
  NoRow, NoAnswer,
  MaxFailures     \* bound on errors, crashes and clients that go away

Outcome == {"AUTHORIZED", "DENIED", "refused", "error"}
Answer  == [by : Request, is : Outcome \cup {"conflict", "in progress"}]
KeyRow  == [hash : Body, response : Answer \cup {NoAnswer}]

ASSUME AuthorizationAssumption ==
  /\ KeyOf \in [Request -> Key]
  /\ BodyOf \in [Request -> Body]
  /\ NoRow \notin KeyRow
  /\ NoAnswer \notin Answer
  /\ MaxFailures \in Nat

VARIABLES
  pc,       \* where each request is
  row,      \* idempotency_keys
  decision, \* what the issuer decided for a request
  hold,     \* requests for which the issuer holds the cardholder's money
  stored,   \* the sale in the database, by status
  outcome,  \* what the handler answers
  answer,   \* what the client got
  gone,     \* requests whose client went away: their context is canceled
  failures

saleVars   == <<decision, hold, stored>>
answerVars == <<outcome, answer>>
vars == <<pc, row, saleVars, answerVars, gone, failures>>

-----------------------------------------------------------------------------
State == {"new", "checking", "asking", "reversing", "storing", "answering", "done", "crashed"}

Executing(q) == pc[q] \in {"checking", "asking", "reversing", "storing", "answering"}
Pending(k)   == row[k] # NoRow /\ row[k].response = NoAnswer
Reply(q, is) == [by |-> q, is |-> is]

GoTo(q, s)       == pc' = [pc EXCEPT ![q] = s]
Decide(q, is)    == outcome' = [outcome EXCEPT ![q] = is]
Respond(q, a)    == answer' = [answer EXCEPT ![q] = a]
SetRow(q, value) == row' = [row EXCEPT ![KeyOf[q]] = value]

\* The handler writes its answer; the key is closed afterwards.
Conclude(q, is) ==
  /\ Decide(q, is)
  /\ Respond(q, Reply(q, is))
  /\ GoTo(q, "answering")

Failure == failures < MaxFailures /\ failures' = failures + 1

\* A call with a canceled context fails; any other call may.
CallFails(q) ==
  \/ q \in gone /\ UNCHANGED failures
  \/ q \notin gone /\ Failure

CallWorks(q) == q \notin gone /\ UNCHANGED failures

-----------------------------------------------------------------------------
(* The middleware, before the handler *)

\* Faulty variant: a row without a response does not stop a request.
ReserveAgain(q) ==
  /\ pc[q] = "new"
  /\ row[KeyOf[q]] = NoRow \/ Pending(KeyOf[q])
  /\ CallWorks(q)
  /\ SetRow(q, [hash |-> BodyOf[q], response |-> NoAnswer])
  /\ GoTo(q, "checking")
  /\ UNCHANGED <<saleVars, answerVars, gone>>

Reserve(q) ==
  /\ pc[q] = "new"
  /\ row[KeyOf[q]] = NoRow
  /\ CallWorks(q)
  /\ SetRow(q, [hash |-> BodyOf[q], response |-> NoAnswer])
  /\ GoTo(q, "checking")
  /\ UNCHANGED <<saleVars, answerVars, gone>>

\* What a request gets when its key is there.
Repeated(q) ==
  CASE row[KeyOf[q]].hash # BodyOf[q]        -> Reply(q, "conflict")
    [] row[KeyOf[q]].response = NoAnswer     -> Reply(q, "in progress")
    [] OTHER                                 -> row[KeyOf[q]].response

Repeat(q) ==
  /\ pc[q] = "new"
  /\ row[KeyOf[q]] # NoRow
  /\ CallWorks(q)
  /\ Respond(q, Repeated(q))
  /\ GoTo(q, "done")
  /\ UNCHANGED <<row, saleVars, outcome, gone>>

\* The answer to the INSERT is lost; the row may be there.
ReserveFails(q) ==
  /\ pc[q] = "new"
  /\ CallFails(q)
  /\ \/ UNCHANGED row
     \/ row[KeyOf[q]] = NoRow /\ SetRow(q, [hash |-> BodyOf[q], response |-> NoAnswer])
  /\ Respond(q, Reply(q, "error"))
  /\ GoTo(q, "done")
  /\ UNCHANGED <<saleVars, outcome, gone>>

-----------------------------------------------------------------------------
(* Authorize *)

\* The merchant, the card, the plan or a rule refuses the sale: a 4xx.
Refuse(q) ==
  /\ pc[q] = "checking"
  /\ Conclude(q, "refused")
  /\ UNCHANGED <<row, saleVars, gone, failures>>

\* The database or the vault cannot be read.
CheckFails(q) ==
  /\ pc[q] = "checking"
  /\ CallFails(q)
  /\ Conclude(q, "error")
  /\ UNCHANGED <<row, saleVars, gone>>

\* The circuit breaker is open (external): 503 at once, the issuer is not called.
AskRefused(q) ==
  /\ pc[q] = "checking"
  /\ Conclude(q, "error")
  /\ UNCHANGED <<row, saleVars, gone, failures>>

Ask(q) ==
  /\ pc[q] = "checking"
  /\ CallWorks(q)
  /\ GoTo(q, "asking")
  /\ UNCHANGED <<row, saleVars, answerVars, gone>>

IssuerDecides(q) ==
  /\ pc[q] = "asking"
  /\ decision[q] = "none"
  /\ \/ /\ decision' = [decision EXCEPT ![q] = "approved"]
        /\ hold' = hold \cup {q}
     \/ /\ decision' = [decision EXCEPT ![q] = "denied"]
        /\ UNCHANGED hold
  /\ UNCHANGED <<pc, row, stored, answerVars, gone, failures>>

Hear(q) ==
  /\ pc[q] = "asking"
  /\ decision[q] # "none"
  /\ CallWorks(q)
  /\ Decide(q, IF decision[q] = "approved" THEN "AUTHORIZED" ELSE "DENIED")
  /\ GoTo(q, "storing")
  /\ UNCHANGED <<row, saleVars, answer, gone>>

\* Faulty variant: a timeout denies the sale without a reversal.
TimesOutUnreversed(q) ==
  /\ pc[q] = "asking"
  /\ CallWorks(q)
  /\ Decide(q, "DENIED")
  /\ GoTo(q, "storing")
  /\ UNCHANGED <<row, saleVars, answer, gone>>

\* The deadline of the issuer's call, whatever the issuer has decided.
TimesOut(q) ==
  /\ pc[q] = "asking"
  /\ CallWorks(q)
  /\ GoTo(q, "reversing")
  /\ UNCHANGED <<row, saleVars, answerVars, gone>>

\* The reversal does not use the request's context. Its error is ignored.
Reverse(q) ==
  /\ pc[q] = "reversing"
  /\ \/ hold' = hold \ {q} /\ UNCHANGED failures
     \/ Failure /\ UNCHANGED hold
  /\ Decide(q, "DENIED")
  /\ GoTo(q, "storing")
  /\ UNCHANGED <<row, decision, stored, answer, gone>>

\* Faulty variant: the error is not returned.
AskFailsUnnoticed(q) ==
  /\ pc[q] = "asking"
  /\ CallFails(q)
  /\ Decide(q, "error")
  /\ GoTo(q, "storing")
  /\ UNCHANGED <<row, saleVars, answer, gone>>

\* Any other error of the call, the cancellation included: no reversal, 503.
AskFails(q) ==
  /\ pc[q] = "asking"
  /\ CallFails(q)
  /\ Conclude(q, "error")
  /\ UNCHANGED <<row, saleVars, gone>>

\* Faulty variant: the sale is stored as the issuer decided it, timed out or not.
StoreDecision(q) ==
  /\ pc[q] = "storing"
  /\ CallWorks(q)
  /\ stored' = [stored EXCEPT ![q] = IF decision[q] = "approved" THEN "AUTHORIZED" ELSE "DENIED"]
  /\ Conclude(q, outcome[q])
  /\ UNCHANGED <<row, decision, hold, gone>>

Store(q) ==
  /\ pc[q] = "storing"
  /\ CallWorks(q)
  /\ stored' = [stored EXCEPT ![q] = outcome[q]]
  /\ Conclude(q, outcome[q])
  /\ UNCHANGED <<row, decision, hold, gone>>

\* The transaction fails; or it commits and the answer to the commit is lost.
StoreFails(q) ==
  /\ pc[q] = "storing"
  /\ CallFails(q)
  /\ \/ UNCHANGED stored
     \/ q \notin gone /\ stored' = [stored EXCEPT ![q] = outcome[q]]
  /\ Conclude(q, "error")
  /\ UNCHANGED <<row, decision, hold, gone>>

-----------------------------------------------------------------------------
(* The middleware, after the handler. *)

Finish(q) ==
  /\ GoTo(q, "done")
  /\ UNCHANGED <<saleVars, answerVars, gone>>

\* Faulty variant: the key is freed whatever the handler answered.
CompleteForgets(q) ==
  /\ pc[q] = "answering"
  /\ outcome[q] # "error"
  /\ CallWorks(q)
  /\ SetRow(q, NoRow)
  /\ Finish(q)

Complete(q) ==
  /\ pc[q] = "answering"
  /\ outcome[q] # "error"
  /\ CallWorks(q)
  /\ row' = [row EXCEPT ![KeyOf[q]] =
               IF @ = NoRow THEN NoRow ELSE [@ EXCEPT !.response = Reply(q, outcome[q])]]
  /\ Finish(q)

\* Faulty variant: a 5xx leaves the key as it is.
AbandonForgotten(q) ==
  /\ pc[q] = "answering"
  /\ outcome[q] = "error"
  /\ CallWorks(q)
  /\ UNCHANGED row
  /\ Finish(q)

Abandon(q) ==
  /\ pc[q] = "answering"
  /\ outcome[q] = "error"
  /\ CallWorks(q)
  /\ row' = [row EXCEPT ![KeyOf[q]] =
               IF Pending(KeyOf[q]) THEN NoRow ELSE @]
  /\ Finish(q)

\* The error of Complete is logged, that of Abandon ignored.
CloseFails(q) ==
  /\ pc[q] = "answering"
  /\ CallFails(q)
  /\ UNCHANGED row
  /\ Finish(q)

-----------------------------------------------------------------------------
Crash(q) ==
  /\ Executing(q)
  /\ Failure
  /\ GoTo(q, "crashed")
  /\ UNCHANGED <<row, saleVars, answerVars, gone>>

\* The client disconnects: the server cancels the context of the request.
GoAway(q) ==
  /\ Executing(q)
  /\ q \notin gone
  /\ Failure
  /\ gone' = gone \cup {q}
  /\ UNCHANGED <<pc, row, saleVars, answerVars>>

Init ==
  /\ pc = [q \in Request |-> "new"]
  /\ row = [k \in Key |-> NoRow]
  /\ decision = [q \in Request |-> "none"]
  /\ hold = {}
  /\ stored = [q \in Request |-> "none"]
  /\ outcome = [q \in Request |-> "error"]
  /\ answer = [q \in Request |-> NoAnswer]
  /\ gone = {}
  /\ failures = 0

Middleware(q) ==
  \/ Reserve(q)
  \/ Repeat(q)
  \/ ReserveFails(q)
  \/ Complete(q)
  \/ Abandon(q)
  \/ CloseFails(q)

Execute(q) ==
  \/ Refuse(q)
  \/ CheckFails(q)
  \/ AskRefused(q)
  \/ Ask(q)
  \/ Hear(q)
  \/ TimesOut(q)
  \/ Reverse(q)
  \/ AskFails(q)
  \/ Store(q)
  \/ StoreFails(q)

Next == \E q \in Request :
          Middleware(q) \/ Execute(q) \/ IssuerDecides(q) \/ Crash(q) \/ GoAway(q)

Spec == Init /\ [][Next]_vars

-----------------------------------------------------------------------------
(* Properties *)

TypeOK ==
  /\ pc \in [Request -> State]
  /\ row \in [Key -> KeyRow \cup {NoRow}]
  /\ decision \in [Request -> {"none", "approved", "denied"}]
  /\ hold \subseteq Request
  /\ stored \in [Request -> {"none", "AUTHORIZED", "DENIED"}]
  /\ outcome \in [Request -> Outcome]
  /\ answer \in [Request -> Answer \cup {NoAnswer}]
  /\ gone \subseteq Request
  /\ failures \in 0..MaxFailures

\* Two requests with one key are never executed at the same time.
ExecutesAlone ==
  \A p, q \in Request :
    Executing(p) /\ Executing(q) /\ KeyOf[p] = KeyOf[q] => p = q

Final(a) == a # NoAnswer /\ a.is \in {"AUTHORIZED", "DENIED", "refused"}

\* "a mesma requisicao, repetida, produz a mesma resposta" (idempotency.go): all the
\* answers of a key that are not errors are equal, whichever request got them, and
\* tell of a sale that is stored as they say.
AnswersAgree ==
  \A p, q \in Request :
    KeyOf[p] = KeyOf[q] /\ Final(answer[p]) /\ Final(answer[q]) =>
      /\ answer[p] = answer[q]
      /\ answer[p].is = "refused" \/ stored[answer[p].by] = answer[p].is

\* A sale is AUTHORIZED only while the issuer holds the money for it: a timeout that
\* hides an approval never ends in an authorized sale whose hold was reversed.
AuthorizedIsHeld == \A q \in Request : stored[q] = "AUTHORIZED" => q \in hold

\* The issuer holds money for a sale that nobody works on any more, and that is not
\* AUTHORIZED, only if something failed, and for one sale by failure: a timeout alone is
\* always reversed. Among the failures is a client that leaves while the issuer decides:
\* it ends the call with an error that is no deadline, and no reversal is sent.
Orphans == {q \in hold : ~Executing(q) /\ stored[q] # "AUTHORIZED"}
OrphansAreFailures == Cardinality(Orphans) <= failures

SalesOf(k) == {q \in Request : KeyOf[q] = k /\ stored[q] # "none"}

\* "a mesma requisicao, repetida, (...) executa uma vez so" (idempotency.go): however
\* often it is repeated, a key authorizes one sale.
ChargedOnce ==
  \A k \in Key : Cardinality({q \in SalesOf(k) : stored[q] = "AUTHORIZED"}) <= 1

\* What the code keeps of that: each sale of a key after the first was bought by a
\* failure of its own (a commit whose answer is lost is answered with a 5xx, which frees
\* the key, and the retry is executed again). Neither concurrent retries nor replays,
\* timeouts or another body add one.
RepeatedSalesAreFailures == \A k \in Key : Cardinality(SalesOf(k)) <= 1 + failures

\* A row without a response is that of a request that is running (migration 000006, and
\* the answer REQUEST_IN_PROGRESS).
PendingIsRunning ==
  \A k \in Key : Pending(k) => \E q \in Request : KeyOf[q] = k /\ Executing(q)

\* A key is left without a response by nobody but a request that met a failure, and
\* one failure leaves one key.
Stuck == {k \in Key : Pending(k) /\ \A q \in Request : KeyOf[q] = k => ~Executing(q)}
StuckAreFailures == Cardinality(Stuck) <= failures
=============================================================================
