------------------------- MODULE AuthorizationProofs -------------------------
(***************************************************************************)
(* Proofs about Authorization, for any number of requests, keys and        *)
(* failures.                                                               *)
(***************************************************************************)
EXTENDS Authorization, FiniteSetTheorems, TLAPS

-----------------------------------------------------------------------------
(* Types *)

\* What is stored and answered was decided before.
Decided ==
  \A q \in Request :
    /\ pc[q] = "storing" => outcome[q] \in {"AUTHORIZED", "DENIED"}
    /\ pc[q] = "answering" => answer[q] = Reply(q, outcome[q])

TypeInv == TypeOK /\ Decided

\* What the steps below write to a row and give as an answer is of the right type.
LEMMA Values ==
  ASSUME NEW q \in Request
  PROVE  /\ [hash |-> BodyOf[q], response |-> NoAnswer] \in KeyRow
         /\ Reply(q, "AUTHORIZED") \in Answer /\ Reply(q, "DENIED") \in Answer
         /\ Reply(q, "refused") \in Answer /\ Reply(q, "error") \in Answer
         /\ Reply(q, "conflict") \in Answer /\ Reply(q, "in progress") \in Answer
         /\ KeyOf[q] \in Key
BY AuthorizationAssumption DEF KeyRow, Answer, Outcome, Reply

\* A row of a key that gets its response is a row, and has it.
LEMMA Responded ==
  ASSUME NEW w \in KeyRow, NEW a \in Answer
  PROVE  /\ [w EXCEPT !.response = a] \in KeyRow
         /\ [w EXCEPT !.response = a].response = a
         /\ [w EXCEPT !.response = a] # NoRow
BY AuthorizationAssumption DEF KeyRow

\* The answer a repeated request gets is an answer.
LEMMA RepeatedAnswers ==
  ASSUME TypeOK, NEW q \in Request, row[KeyOf[q]] # NoRow
  PROVE  Repeated(q) \in Answer
<1> DEFINE w == row[KeyOf[q]]
<1>1. w \in KeyRow
  BY AuthorizationAssumption DEF TypeOK
<1>2. w.response \in Answer \cup {NoAnswer}
  BY <1>1 DEF KeyRow
<1>3. Reply(q, "conflict") \in Answer /\ Reply(q, "in progress") \in Answer
  BY Values
<1> QED
  BY <1>2, <1>3 DEF Repeated

\* The bound on failures is kept.
LEMMA Counted ==
  ASSUME failures \in 0..MaxFailures
  PROVE  /\ Failure => failures' \in 0..MaxFailures
         /\ \A q : CallFails(q) => failures' \in 0..MaxFailures
BY AuthorizationAssumption DEF Failure, CallFails

\* Initially.
LEMMA TypeInit == Init => TypeInv
BY AuthorizationAssumption DEF Init, TypeInv, TypeOK, Decided, State, Outcome

\* Every step keeps the types.
LEMMA TypeStep == TypeInv /\ [Next]_vars => TypeInv'
<1> SUFFICES ASSUME TypeInv, [Next]_vars PROVE TypeInv'
  OBVIOUS
<1> USE AuthorizationAssumption
    DEF TypeInv, TypeOK, Decided, saleVars, answerVars, GoTo, Decide, Respond, SetRow,
        CallWorks, Conclude, Finish, State
<1>1. CASE UNCHANGED vars
  BY <1>1 DEF vars
<1>2. ASSUME NEW q \in Request, Middleware(q) PROVE TypeInv'
  <2>1. CASE Reserve(q)
    BY <2>1, Values DEF Reserve
  <2>2. CASE Repeat(q)
    BY <2>2, RepeatedAnswers DEF Repeat
  <2>3. CASE ReserveFails(q)
    <3>1. TypeOK'
      <4>1. failures' \in 0..MaxFailures
        BY <2>3, Counted DEF ReserveFails
      <4>2. row' \in [Key -> KeyRow \cup {NoRow}]
        <5>1. CASE UNCHANGED row
          BY <5>1
        <5>2. CASE SetRow(q, [hash |-> BodyOf[q], response |-> NoAnswer])
          BY <5>2, Values
        <5> QED
          BY <2>3, <5>1, <5>2 DEF ReserveFails
      <4> QED
        BY <2>3, <4>1, <4>2, Values DEF ReserveFails
    <3>2. Decided'
      BY <2>3 DEF ReserveFails
    <3> QED
      BY <3>1, <3>2
  <2>4. CASE Complete(q)
    <3>1. row' \in [Key -> KeyRow \cup {NoRow}]
      <4> DEFINE w == row[KeyOf[q]]
                 a == Reply(q, outcome[q])
                 v == IF w = NoRow THEN NoRow ELSE [w EXCEPT !.response = a]
      <4>1. a \in Answer
        BY Values DEF Outcome
      <4>2. w \in KeyRow \cup {NoRow}
        BY Values
      <4>3. v \in KeyRow \cup {NoRow}
        BY <4>1, <4>2, Responded
      <4>4. row' = [row EXCEPT ![KeyOf[q]] = v]
        BY <2>4 DEF Complete
      <4> HIDE DEF v
      <4> QED
        BY <4>3, <4>4
    <3> QED
      BY <2>4, <3>1 DEF Complete
  <2>5. CASE Abandon(q)
    BY <2>5, Values DEF Abandon
  <2>6. CASE CloseFails(q)
    BY <2>6, Counted DEF CloseFails
  <2> QED
    BY <1>2, <2>1, <2>2, <2>3, <2>4, <2>5, <2>6 DEF Middleware
<1>3. ASSUME NEW q \in Request, Execute(q) PROVE TypeInv'
  <2>1. CASE Refuse(q)
    <3>1. TypeOK'
      BY <2>1, Values DEF Refuse, Outcome
    <3>2. Decided'
      BY <2>1 DEF Refuse
    <3> QED
      BY <3>1, <3>2
  <2>2. CASE CheckFails(q)
    <3>1. TypeOK'
      BY <2>2, Values, Counted DEF CheckFails, Outcome
    <3>2. Decided'
      BY <2>2 DEF CheckFails
    <3> QED
      BY <3>1, <3>2
  <2>3. CASE AskRefused(q)
    <3>1. TypeOK'
      BY <2>3, Values DEF AskRefused, Outcome
    <3>2. Decided'
      BY <2>3 DEF AskRefused
    <3> QED
      BY <3>1, <3>2
  <2>4. CASE Ask(q)
    <3>1. TypeOK'
      BY <2>4, Values DEF Ask, Outcome
    <3>2. Decided'
      BY <2>4 DEF Ask
    <3> QED
      BY <3>1, <3>2
  <2>5. CASE Hear(q)
    <3>1. TypeOK'
      BY <2>5, Values DEF Hear, Outcome
    <3>2. Decided'
      BY <2>5 DEF Hear
    <3> QED
      BY <3>1, <3>2
  <2>6. CASE TimesOut(q)
    <3>1. TypeOK'
      BY <2>6, Values DEF TimesOut, Outcome
    <3>2. Decided'
      BY <2>6 DEF TimesOut
    <3> QED
      BY <3>1, <3>2
  <2>7. CASE Reverse(q)
    <3>1. TypeOK'
      BY <2>7, Values, Counted DEF Reverse, Outcome
    <3>2. Decided'
      BY <2>7 DEF Reverse
    <3> QED
      BY <3>1, <3>2
  <2>8. CASE AskFails(q)
    <3>1. TypeOK'
      BY <2>8, Values, Counted DEF AskFails, Outcome
    <3>2. Decided'
      BY <2>8 DEF AskFails
    <3> QED
      BY <3>1, <3>2
  <2>9. CASE Store(q)
    <3>1. TypeOK'
      BY <2>9, Values DEF Store, Outcome
    <3>2. Decided'
      BY <2>9 DEF Store
    <3> QED
      BY <3>1, <3>2
  <2>10. CASE StoreFails(q)
    <3>1. TypeOK'
      <4>1. failures' \in 0..MaxFailures
        BY <2>10, Counted DEF StoreFails
      <4>2. stored' \in [Request -> {"none", "AUTHORIZED", "DENIED"}]
        BY <2>10 DEF StoreFails
      <4> QED
        BY <2>10, <4>1, <4>2, Values DEF StoreFails, Outcome
    <3>2. Decided'
      BY <2>10 DEF StoreFails
    <3> QED
      BY <3>1, <3>2
  <2> QED
    BY <1>3, <2>1, <2>2, <2>3, <2>4, <2>5, <2>6, <2>7, <2>8, <2>9, <2>10 DEF Execute
<1>4. ASSUME NEW q \in Request, IssuerDecides(q) \/ Crash(q) \/ GoAway(q) PROVE TypeInv'
  BY <1>4, Counted DEF IssuerDecides, Crash, GoAway
<1> QED
  BY <1>1, <1>2, <1>3, <1>4 DEF Next

\* Every variable stays in its type.
THEOREM TypeCorrect == Spec => []TypeOK
<1>1. TypeInv => TypeOK
  BY DEF TypeInv
<1> QED
  BY <1>1, TypeInit, TypeStep, PTL DEF Spec

-----------------------------------------------------------------------------
(* One request at a time. The key of a request that is executed is pending, and a
   pending key lets no other request in. *)

Alone ==
  /\ ExecutesAlone
  /\ \A q \in Request : Executing(q) => Pending(KeyOf[q])

\* A step that changes no row and starts no request keeps it.
LEMMA AloneKept ==
  ASSUME Alone, UNCHANGED row, \A q \in Request : Executing(q)' => Executing(q)
  PROVE  Alone'
BY DEF Alone, ExecutesAlone, Pending

\* Every step keeps it.
LEMMA AloneStep == TypeOK /\ Alone /\ [Next]_vars => Alone'
<1> SUFFICES ASSUME TypeOK, Alone, [Next]_vars PROVE Alone'
  OBVIOUS
<1> USE DEF TypeOK, GoTo, Conclude
<1>1. CASE UNCHANGED vars
  BY <1>1, AloneKept DEF vars, Executing
<1>2. ASSUME NEW q \in Request, Middleware(q) PROVE Alone'
  <2>1. CASE Reserve(q)
    <3>1. \A p \in Request : KeyOf[p] = KeyOf[q] => ~Executing(p)
      BY <2>1 DEF Reserve, Alone, Pending
    <3>2. \A p \in Request \ {q} : Executing(p)' => Executing(p)
      BY <2>1 DEF Reserve, Executing
    <3>3. row' = [row EXCEPT ![KeyOf[q]] = [hash |-> BodyOf[q], response |-> NoAnswer]]
      BY <2>1 DEF Reserve, SetRow
    <3>4. row'[KeyOf[q]] # NoRow /\ row'[KeyOf[q]].response = NoAnswer
      BY <3>3, Values, AuthorizationAssumption
    <3>5. \A p \in Request : KeyOf[p] # KeyOf[q] => row'[KeyOf[p]] = row[KeyOf[p]]
      BY <3>3, AuthorizationAssumption
    <3> QED
      BY <3>1, <3>2, <3>4, <3>5 DEF Alone, ExecutesAlone, Pending
  <2>2. CASE Repeat(q)
    BY <2>2, AloneKept DEF Repeat, Executing
  <2>3. CASE ReserveFails(q)
    <3>1. \A p \in Request : Executing(p)' => Executing(p)
      BY <2>3 DEF ReserveFails, Executing
    <3>2. \A p \in Request : Executing(p) => row'[KeyOf[p]] = row[KeyOf[p]]
      BY <2>3, AuthorizationAssumption DEF ReserveFails, SetRow, Alone, Pending
    <3> QED
      BY <3>1, <3>2 DEF Alone, ExecutesAlone, Pending
  <2>4. CASE Complete(q) \/ Abandon(q)
    <3>1. Executing(q) /\ ~Executing(q)'
      BY <2>4 DEF Complete, Abandon, Finish, Executing
    <3>2. \A p \in Request \ {q} : Executing(p)' = Executing(p)
      BY <2>4 DEF Complete, Abandon, Finish, Executing
    <3>3. \A p \in Request : KeyOf[p] # KeyOf[q] => row'[KeyOf[p]] = row[KeyOf[p]]
      BY <2>4, AuthorizationAssumption DEF Complete, Abandon
    <3>4. \A p \in Request \ {q} : Executing(p) => KeyOf[p] # KeyOf[q]
      BY <3>1 DEF Alone, ExecutesAlone
    <3> QED
      BY <3>1, <3>2, <3>3, <3>4 DEF Alone, ExecutesAlone, Pending
  <2>5. CASE CloseFails(q)
    BY <2>5, AloneKept DEF CloseFails, Finish, Executing
  <2> QED
    BY <1>2, <2>1, <2>2, <2>3, <2>4, <2>5 DEF Middleware
<1>3. ASSUME NEW q \in Request, Execute(q) PROVE Alone'
  <2>1. UNCHANGED row /\ pc[q] \in {"checking", "asking", "reversing", "storing"}
    BY <1>3 DEF Execute, Refuse, CheckFails, AskRefused, Ask, Hear, TimesOut, Reverse, AskFails,
                Store, StoreFails
  <2>2. \A p \in Request \ {q} : pc'[p] = pc[p]
    BY <1>3 DEF Execute, Refuse, CheckFails, AskRefused, Ask, Hear, TimesOut, Reverse, AskFails,
                Store, StoreFails
  <2> QED
    BY <2>1, <2>2, AloneKept DEF Executing
<1>4. ASSUME NEW q \in Request, IssuerDecides(q) \/ Crash(q) \/ GoAway(q) PROVE Alone'
  BY <1>4, AloneKept DEF IssuerDecides, Crash, GoAway, Executing
<1> QED
  BY <1>1, <1>2, <1>3, <1>4 DEF Next

\* Alone is an invariant.
LEMMA AloneInvariant == Spec => []Alone
<1>1. Init => Alone
  BY DEF Init, Alone, ExecutesAlone, Executing
<1> QED
  BY <1>1, TypeCorrect, AloneStep, PTL DEF Spec

\* Two requests with one key are never executed at the same time.
THEOREM AloneCorrect == Spec => []ExecutesAlone
<1>1. Alone => ExecutesAlone
  BY DEF Alone
<1> QED
  BY <1>1, AloneInvariant, PTL

-----------------------------------------------------------------------------
(* An authorized sale has its money held. Only a request that timed out gives the
   hold back, and that one is not stored as authorized. *)

After == {"answering", "done", "crashed"}

Held ==
  \A q \in Request :
    /\ stored[q] = "AUTHORIZED" => q \in hold
    /\ pc[q] = "storing" /\ outcome[q] = "AUTHORIZED" => q \in hold
    /\ pc[q] = "asking" /\ decision[q] = "approved" => q \in hold
    /\ stored[q] # "none" => pc[q] \in After

\* Nothing is decided for a request before the issuer is asked.
Undecided ==
  \A q \in Request : pc[q] \in {"new", "checking"} => decision[q] = "none"

\* Every step keeps it.
LEMMA HeldStep == TypeOK /\ Held /\ Undecided /\ [Next]_vars => Held' /\ Undecided'
<1> SUFFICES ASSUME TypeOK, Held, Undecided, [Next]_vars PROVE Held' /\ Undecided'
  OBVIOUS
<1> USE DEF TypeOK, Held, Undecided, After, GoTo, Decide, Conclude, saleVars, answerVars
<1>1. CASE UNCHANGED vars
  BY <1>1 DEF vars
<1>2. ASSUME NEW q \in Request, Middleware(q) PROVE Held' /\ Undecided'
  BY <1>2 DEF Middleware, Reserve, Repeat, ReserveFails, Complete, Abandon, CloseFails, Finish
<1>3. ASSUME NEW q \in Request, Execute(q) PROVE Held' /\ Undecided'
  <2>1. CASE Refuse(q) \/ CheckFails(q) \/ AskRefused(q) \/ Ask(q)
    BY <2>1 DEF Refuse, CheckFails, AskRefused, Ask
  <2>2. CASE Hear(q)
    BY <2>2 DEF Hear
  <2>3. CASE TimesOut(q) \/ AskFails(q)
    BY <2>3 DEF TimesOut, AskFails
  <2>4. CASE Reverse(q)
    BY <2>4 DEF Reverse
  <2>5. CASE Store(q)
    BY <2>5 DEF Store
  <2>6. CASE StoreFails(q)
    BY <2>6 DEF StoreFails
  <2> QED
    BY <1>3, <2>1, <2>2, <2>3, <2>4, <2>5, <2>6 DEF Execute
<1>4. ASSUME NEW q \in Request, IssuerDecides(q) \/ Crash(q) \/ GoAway(q)
      PROVE  Held' /\ Undecided'
  BY <1>4 DEF IssuerDecides, Crash, GoAway, Executing
<1> QED
  BY <1>1, <1>2, <1>3, <1>4 DEF Next

\* A sale is AUTHORIZED only while the issuer holds the money for it.
THEOREM HeldCorrect == Spec => []AuthorizedIsHeld
<1>1. Init => Held /\ Undecided
  BY DEF Init, Held, Undecided
<1>2. Held => AuthorizedIsHeld
  BY DEF Held, AuthorizedIsHeld
<1> QED
  BY <1>1, <1>2, TypeCorrect, HeldStep, PTL DEF Spec

-----------------------------------------------------------------------------
(* The answers of a key agree. Once a final answer was given, either the row has it, or
   nobody will ever execute the key again. *)

Truthful(a) ==
  /\ pc[a.by] \in After
  /\ a.is = "refused" \/ stored[a.by] = a.is

Closed(q) ==
  LET k == KeyOf[q] IN
  /\ Truthful(answer[q])
  /\ row[k] # NoRow
  /\ row[k].response \in {NoAnswer, answer[q]}
  /\ \A r \in Request : KeyOf[r] = k /\ Executing(r) => r = q /\ pc[r] = "answering"

Agreed ==
  /\ \A p, q \in Request :
       KeyOf[p] = KeyOf[q] /\ Final(answer[p]) /\ Final(answer[q]) => answer[p] = answer[q]
  /\ \A q \in Request : Final(answer[q]) => Closed(q)
  /\ \A k \in Key : row[k] # NoRow /\ row[k].response # NoAnswer =>
       Final(row[k].response) /\ Truthful(row[k].response)

\* What was once true of a sale stays so.
LEMMA TruthfulKept ==
  ASSUME TypeOK, NEW a, Truthful(a), a.by \in Request,
         \A q \in Request : pc[q] \in After => pc'[q] \in After /\ stored'[q] = stored[q]
  PROVE  Truthful(a)'
BY DEF Truthful

\* Final answers name a request.
LEMMA FinalBy ==
  ASSUME TypeOK
  PROVE  /\ \A q \in Request : Final(answer[q]) => answer[q].by \in Request
         /\ \A k \in Key : row[k] # NoRow /\ row[k].response # NoAnswer =>
              row[k].response.by \in Request
<1>1. \A a \in Answer : a.by \in Request
  BY DEF Answer
<1>2. \A w \in KeyRow : w.response # NoAnswer => w.response \in Answer
  BY DEF KeyRow
<1> QED
  BY <1>1, <1>2 DEF TypeOK, Final

\* A step of a request that leaves the rows and the answers alone.
LEMMA AgreedKept ==
  ASSUME TypeOK, Agreed, UNCHANGED <<row, answer>>,
         \A q \in Request : pc[q] \in After => pc'[q] \in After /\ stored'[q] = stored[q],
         \A q \in Request : Executing(q)' => Executing(q) /\ (pc[q] = "answering" => pc'[q] = pc[q])
  PROVE  Agreed'
<1>1. \A q \in Request : Final(answer'[q]) => Closed(q)'
  <2> SUFFICES ASSUME NEW q \in Request, Final(answer[q]) PROVE Closed(q)'
    OBVIOUS
  <2>1. Closed(q) /\ answer[q].by \in Request
    BY FinalBy DEF Agreed
  <2>2. Truthful(answer[q])'
    BY <2>1, TruthfulKept DEF Closed, Truthful
  <2> QED
    BY <2>1, <2>2 DEF Closed
<1>2. \A k \in Key : row'[k] # NoRow /\ row'[k].response # NoAnswer =>
        Final(row'[k].response) /\ Truthful(row[k].response)'
  BY FinalBy, TruthfulKept DEF Agreed, Truthful
<1> QED
  BY <1>1, <1>2 DEF Agreed

\* The steps of one request touch its own answer and the row of its key.
Local(q) ==
  /\ \A p \in Request : pc[p] \in After => pc'[p] \in After /\ stored'[p] = stored[p]
  /\ \A p \in Request \ {q} : answer'[p] = answer[p] /\ pc'[p] = pc[p]
  /\ \A k \in Key \ {KeyOf[q]} : row'[k] = row[k]

AgreedOf(k) ==
  /\ \A p, q \in Request :
       KeyOf[p] = k /\ KeyOf[q] = k /\ Final(answer[p]) /\ Final(answer[q]) =>
         answer[p] = answer[q]
  /\ \A p \in Request : KeyOf[p] = k /\ Final(answer[p]) => Closed(p)
  /\ row[k] # NoRow /\ row[k].response # NoAnswer =>
       Final(row[k].response) /\ Truthful(row[k].response)

\* So the other keys still agree.
LEMMA AgreedLocal ==
  ASSUME TypeOK, Agreed, NEW q \in Request, Local(q), AgreedOf(KeyOf[q])'
  PROVE  Agreed'
<1>0. \A p \in Request : KeyOf[p] \in Key
  BY AuthorizationAssumption
<1>1. \A p \in Request : KeyOf[p] # KeyOf[q] =>
        answer'[p] = answer[p] /\ pc'[p] = pc[p] /\ row'[KeyOf[p]] = row[KeyOf[p]]
  BY <1>0 DEF Local
<1>2. ASSUME NEW p \in Request, KeyOf[p] # KeyOf[q], Final(answer'[p]) PROVE Closed(p)'
  <2>1. Closed(p) /\ answer[p].by \in Request /\ answer'[p] = answer[p]
    BY <1>1, <1>2, FinalBy DEF Agreed
  <2>2. Truthful(answer[p])'
    BY <2>1, TruthfulKept DEF Closed, Local, Truthful
  <2>3. \A r \in Request : KeyOf[r] = KeyOf[p] => Executing(r)' = Executing(r) /\ pc'[r] = pc[r]
    BY <1>1, <1>2 DEF Executing
  <2> QED
    BY <1>1, <1>2, <2>1, <2>2, <2>3 DEF Closed
<1>3. \A k \in Key : row'[k] # NoRow /\ row'[k].response # NoAnswer =>
        Final(row'[k].response) /\ Truthful(row[k].response)'
  <2> SUFFICES ASSUME NEW k \in Key, row'[k] # NoRow, row'[k].response # NoAnswer
               PROVE  Final(row'[k].response) /\ Truthful(row[k].response)'
    OBVIOUS
  <2>1. CASE k = KeyOf[q]
    BY <2>1 DEF AgreedOf, Truthful
  <2>2. CASE k # KeyOf[q]
    <3>1. row'[k] = row[k]
      BY <2>2 DEF Local
    <3>2. Final(row[k].response) /\ Truthful(row[k].response) /\ row[k].response.by \in Request
      BY <3>1, FinalBy DEF Agreed
    <3> QED
      BY <3>1, <3>2, TruthfulKept DEF Local, Truthful
  <2> QED
    BY <2>1, <2>2
<1>4. \A p \in Request : Final(answer'[p]) => Closed(p)'
  BY <1>2 DEF AgreedOf
<1>5. ASSUME NEW p \in Request, NEW r \in Request, KeyOf[p] = KeyOf[r],
             Final(answer'[p]), Final(answer'[r])
      PROVE  answer'[p] = answer'[r]
  BY <1>1, <1>5 DEF AgreedOf, Agreed
<1> QED
  BY <1>3, <1>4, <1>5 DEF Agreed, Truthful

\* While a request is executed and has not answered, its key has no final answer.
LEMMA NoneBefore ==
  ASSUME Agreed, NEW q \in Request, NEW p \in Request, KeyOf[p] = KeyOf[q],
         \/ Executing(q) /\ pc[q] # "answering"
         \/ Executing(q) /\ ~Final(answer[q])
         \/ row[KeyOf[q]] = NoRow
  PROVE  ~Final(answer[p])
BY DEF Agreed, Closed

\* A step that gives no final answer while the key has none, and leaves its row pending
\* or absent.
LEMMA AgreedWithout ==
  ASSUME TypeOK, Agreed, NEW q \in Request, Local(q), ~Final(answer'[q]),
         \A p \in Request : KeyOf[p] = KeyOf[q] => ~Final(answer[p]),
         row'[KeyOf[q]] # NoRow => row'[KeyOf[q]].response = NoAnswer
  PROVE  Agreed'
<1>1. \A p \in Request : KeyOf[p] = KeyOf[q] => ~Final(answer'[p])
  BY DEF Local
<1>2. AgreedOf(KeyOf[q])'
  BY <1>1 DEF AgreedOf
<1> QED
  BY <1>2, AgreedLocal

\* A step that gives the first final answer of the key, a true one, of a request that is
\* executed alone.
LEMMA AgreedFirst ==
  ASSUME TypeOK, Alone, Agreed, NEW q \in Request, Local(q), UNCHANGED row,
         Executing(q), pc'[q] = "answering", Truthful(answer[q])',
         \A p \in Request : KeyOf[p] = KeyOf[q] => ~Final(answer[p])
  PROVE  Agreed'
<1> DEFINE k == KeyOf[q]
<1>1. \A p \in Request \ {q} : KeyOf[p] = k => ~Final(answer'[p]) /\ ~Executing(p)'
  BY DEF Local, Alone, ExecutesAlone, Executing
<1>2. row'[k] # NoRow /\ row'[k].response = NoAnswer
  BY DEF Alone, Pending
<1>3. Closed(q)'
  BY <1>1, <1>2 DEF Closed
<1>4. AgreedOf(k)'
  BY <1>1, <1>2, <1>3 DEF AgreedOf
<1> QED
  BY <1>4, AgreedLocal

\* A request that is not executed is answered: not finally, or with what the row has.
LEMMA AgreedRepeated ==
  ASSUME TypeOK, Alone, Agreed, NEW q \in Request, Local(q), UNCHANGED <<row, stored>>,
         pc[q] = "new", pc'[q] = "done",
         \/ ~Final(answer'[q])
         \/ /\ row[KeyOf[q]] # NoRow /\ row[KeyOf[q]].response # NoAnswer
            /\ answer'[q] = row[KeyOf[q]].response
  PROVE  Agreed'
<1> DEFINE k == KeyOf[q]
<1>0. k \in Key
  BY AuthorizationAssumption
<1>1. \A p \in Request : Executing(p)' => Executing(p) /\ pc'[p] = pc[p]
  BY DEF Local, Executing
<1>2. ASSUME NEW p \in Request \ {q}, KeyOf[p] = k, Final(answer'[p])
      PROVE  Closed(p)' /\ Closed(p) /\ answer'[p] = answer[p]
  <2>1. answer'[p] = answer[p]
    BY DEF Local
  <2>2. Closed(p) /\ answer[p].by \in Request
    BY <1>2, <2>1, FinalBy DEF Agreed
  <2>3. Truthful(answer[p])'
    BY <2>2, TruthfulKept DEF Closed, Local, Truthful
  <2> QED
    BY <1>1, <2>1, <2>2, <2>3 DEF Closed
<1>3. row[k] # NoRow /\ row[k].response # NoAnswer =>
        Final(row[k].response) /\ Truthful(row[k].response)'
  <2> SUFFICES ASSUME row[k] # NoRow, row[k].response # NoAnswer
               PROVE  Final(row[k].response) /\ Truthful(row[k].response)'
    OBVIOUS
  <2>1. Final(row[k].response) /\ Truthful(row[k].response) /\ row[k].response.by \in Request
    BY <1>0, FinalBy DEF Agreed
  <2> QED
    BY <2>1, TruthfulKept DEF Local, Truthful
<1>4. CASE ~Final(answer'[q])
  <2>1. AgreedOf(k)'
    BY <1>2, <1>3, <1>4 DEF AgreedOf, Agreed, Truthful
  <2> QED
    BY <2>1, AgreedLocal
<1>5. CASE /\ row[k] # NoRow /\ row[k].response # NoAnswer
           /\ answer'[q] = row[k].response
  <2>1. \A r \in Request : KeyOf[r] = k => ~Executing(r)'
    BY <1>1, <1>5 DEF Alone, Pending
  <2>2. Closed(q)'
    BY <1>3, <1>5, <2>1 DEF Closed, Truthful
  <2>3. \A p \in Request : KeyOf[p] = k /\ Final(answer'[p]) =>
          answer'[p] = row[k].response /\ Closed(p)'
    BY <1>2, <1>5, <2>2 DEF Closed
  <2>4. AgreedOf(k)'
    BY <1>3, <2>3 DEF AgreedOf, Truthful
  <2> QED
    BY <2>4, AgreedLocal
<1> QED
  BY <1>4, <1>5

\* The answer of a request that was executed is kept in the row.
LEMMA AgreedCompleted ==
  ASSUME TypeOK, Alone, Agreed, NEW q \in Request, Local(q), UNCHANGED <<answer, stored>>,
         pc[q] = "answering", pc'[q] = "done", Final(answer[q]),
         row'[KeyOf[q]] # NoRow, row'[KeyOf[q]].response = answer[q]
  PROVE  Agreed'
<1> DEFINE k == KeyOf[q]
<1>1. Closed(q) /\ answer[q].by \in Request
  BY FinalBy DEF Agreed
<1>2. Truthful(answer[q])'
  BY <1>1, TruthfulKept DEF Closed, Local, Truthful
<1>3. \A p \in Request : KeyOf[p] = k /\ Final(answer[p]) => answer[p] = answer[q]
  BY DEF Agreed
<1>4. \A r \in Request : KeyOf[r] = k => ~Executing(r)'
  BY DEF Alone, ExecutesAlone, Local, Executing
<1>5. \A p \in Request : KeyOf[p] = k /\ Final(answer[p]) => Closed(p)'
  BY <1>2, <1>3, <1>4 DEF Closed, Truthful
<1>6. AgreedOf(k)'
  BY <1>2, <1>3, <1>5 DEF AgreedOf, Truthful
<1> QED
  BY <1>6, AgreedLocal

\* Every step keeps it.
LEMMA AgreedStep == TypeInv /\ Alone /\ Agreed /\ [Next]_vars => Agreed'
<1> SUFFICES ASSUME TypeInv, Alone, Agreed, [Next]_vars PROVE Agreed'
  OBVIOUS
<1>0. TypeOK /\ Decided
  BY DEF TypeInv
<1> USE DEF GoTo, Decide, Respond, Conclude, saleVars, answerVars
<1>1. CASE UNCHANGED vars
  BY <1>0, <1>1, AgreedKept DEF vars, Executing
<1>2. ASSUME NEW q \in Request, Middleware(q) PROVE Agreed'
  <2>1. Local(q)
    <3>1. \A k \in Key \ {KeyOf[q]} : row'[k] = row[k]
      BY <1>0, <1>2 DEF Middleware, Reserve, Repeat, ReserveFails, Complete, Abandon, CloseFails,
                        SetRow, TypeOK
    <3>2. UNCHANGED stored /\ pc' = [pc EXCEPT ![q] = pc'[q]] /\ (pc[q] \in After => pc'[q] \in After)
      BY <1>0, <1>2 DEF Middleware, Reserve, Repeat, ReserveFails, Complete, Abandon, CloseFails,
                        Finish, TypeOK, After
    <3>3. \A p \in Request \ {q} : answer'[p] = answer[p]
      BY <1>0, <1>2 DEF Middleware, Reserve, Repeat, ReserveFails, Complete, Abandon, CloseFails,
                        Finish, TypeOK
    <3> QED
      BY <1>0, <3>1, <3>2, <3>3 DEF Local, TypeOK
  <2>2. CASE Reserve(q)
    <3>1. row'[KeyOf[q]].response = NoAnswer /\ row[KeyOf[q]] = NoRow /\ UNCHANGED answer
      BY <1>0, <2>2, AuthorizationAssumption DEF Reserve, SetRow, TypeOK
    <3> QED
      BY <1>0, <2>1, <3>1, NoneBefore, AgreedWithout
  <2>3. CASE Repeat(q)
    <3>1. UNCHANGED <<row, stored>> /\ pc[q] = "new" /\ pc'[q] = "done" /\ answer'[q] = Repeated(q)
      BY <1>0, <2>3 DEF Repeat, TypeOK
    <3>2. \/ ~Final(Repeated(q))
          \/ row[KeyOf[q]].response # NoAnswer /\ Repeated(q) = row[KeyOf[q]].response
      BY DEF Repeated, Final, Reply
    <3>3. row[KeyOf[q]] # NoRow
      BY <2>3 DEF Repeat
    <3> QED
      BY <1>0, <2>1, <3>1, <3>2, <3>3, AgreedRepeated
  <2>4. CASE ReserveFails(q)
    <3>1. pc[q] = "new" /\ pc'[q] = "done" /\ UNCHANGED stored /\ ~Final(answer'[q])
      BY <1>0, <2>4 DEF ReserveFails, TypeOK, Reply, Final
    <3>2. CASE UNCHANGED row
      BY <1>0, <2>1, <3>1, <3>2, AgreedRepeated
    <3>3. CASE row[KeyOf[q]] = NoRow /\ SetRow(q, [hash |-> BodyOf[q], response |-> NoAnswer])
      <4>1. row'[KeyOf[q]].response = NoAnswer
        BY <1>0, <3>3, AuthorizationAssumption DEF SetRow, TypeOK
      <4> QED
        BY <1>0, <2>1, <3>1, <3>3, <4>1, NoneBefore, AgreedWithout
    <3> QED
      BY <2>4, <3>2, <3>3 DEF ReserveFails
  <2>5. CASE Complete(q)
    <3>1. /\ pc[q] = "answering" /\ pc'[q] = "done" /\ UNCHANGED <<answer, stored>>
          /\ Executing(q) /\ outcome[q] \in {"AUTHORIZED", "DENIED", "refused"}
      BY <1>0, <2>5 DEF Complete, Finish, TypeOK, Outcome, Executing
    <3>2. answer[q] = Reply(q, outcome[q]) /\ Reply(q, outcome[q]) \in Answer
      BY <1>0, <3>1, Values DEF Decided
    <3>3. Final(answer[q])
      BY <3>1, <3>2, AuthorizationAssumption DEF Final, Reply
    <3>4. row[KeyOf[q]] # NoRow /\ row[KeyOf[q]] \in KeyRow
      BY <1>0, <3>1, AuthorizationAssumption DEF Alone, Pending, TypeOK
    <3>5. row'[KeyOf[q]] = [row[KeyOf[q]] EXCEPT !.response = answer[q]]
      BY <1>0, <2>5, <3>2, <3>4, AuthorizationAssumption DEF Complete, TypeOK
    <3>6. row'[KeyOf[q]] # NoRow /\ row'[KeyOf[q]].response = answer[q]
      BY <3>2, <3>4, <3>5, Responded
    <3> QED
      BY <1>0, <2>1, <3>1, <3>3, <3>6, AgreedCompleted
  <2>6. CASE Abandon(q)
    <3>0. pc[q] = "answering" /\ outcome[q] = "error" /\ UNCHANGED answer
      BY <2>6 DEF Abandon, Finish
    <3>1. Executing(q) /\ ~Final(answer[q]) /\ ~Final(answer'[q])
      <4>1. answer[q] = Reply(q, "error")
        BY <1>0, <3>0 DEF Decided
      <4>2. Executing(q) /\ Reply(q, "error").is = "error"
        BY <3>0 DEF Executing, Reply
      <4> QED
        BY <3>0, <4>1, <4>2 DEF Final
    <3>2. row'[KeyOf[q]] = NoRow
      <4>1. Pending(KeyOf[q]) /\ KeyOf[q] \in Key
        BY <3>1, Values DEF Alone
      <4>2. row' = [row EXCEPT ![KeyOf[q]] = NoRow]
        BY <2>6, <4>1 DEF Abandon
      <4> QED
        BY <1>0, <4>1, <4>2 DEF TypeOK
    <3> QED
      BY <1>0, <2>1, <3>1, <3>2, NoneBefore, AgreedWithout
  <2>7. CASE CloseFails(q)
    BY <1>0, <2>7, AgreedKept DEF CloseFails, Finish, Executing, After, TypeOK
  <2> QED
    BY <1>2, <2>2, <2>3, <2>4, <2>5, <2>6, <2>7 DEF Middleware
<1>3. ASSUME NEW q \in Request, Execute(q) PROVE Agreed'
  <2>1. CASE Ask(q) \/ Hear(q) \/ TimesOut(q) \/ Reverse(q)
    BY <1>0, <2>1, AgreedKept DEF Ask, Hear, TimesOut, Reverse, Executing, After, TypeOK
  <2>2. CASE Refuse(q) \/ CheckFails(q) \/ AskRefused(q) \/ AskFails(q) \/ Store(q) \/ StoreFails(q)
    <3>1. Executing(q) /\ pc[q] \notin After /\ pc'[q] = "answering" /\ UNCHANGED row
      BY <1>0, <2>2 DEF Refuse, CheckFails, AskRefused, AskFails, Store, StoreFails, Executing,
                        After, TypeOK
    <3>2. \A p \in Request \ {q} :
            answer'[p] = answer[p] /\ pc'[p] = pc[p] /\ stored'[p] = stored[p]
      BY <1>0, <2>2 DEF Refuse, CheckFails, AskRefused, AskFails, Store, StoreFails, TypeOK
    <3>3. Local(q)
      BY <3>1, <3>2 DEF Local
    <3>4. \A p \in Request : KeyOf[p] = KeyOf[q] => ~Final(answer[p])
      BY <3>1, NoneBefore DEF After
    <3>5. CASE Truthful(answer[q])'
      BY <1>0, <3>1, <3>3, <3>4, <3>5, AgreedFirst
    <3>6. CASE ~Final(answer'[q])
      <4>1. row[KeyOf[q]].response = NoAnswer
        BY <3>1 DEF Alone, Pending
      <4> QED
        BY <1>0, <3>1, <3>3, <3>4, <3>6, <4>1, AgreedWithout
    <3>7. CASE Refuse(q) \/ Store(q)
      <4>1. answer'[q].by = q
        BY <1>0, <3>7 DEF Refuse, Store, TypeOK, Reply
      <4>2. answer'[q].is = "refused" \/ stored'[q] = answer'[q].is
        BY <1>0, <3>7 DEF Refuse, Store, TypeOK, Reply
      <4> QED
        BY <3>1, <3>5, <4>1, <4>2 DEF Truthful, After
    <3>8. CASE CheckFails(q) \/ AskRefused(q) \/ AskFails(q) \/ StoreFails(q)
      BY <1>0, <3>6, <3>8 DEF CheckFails, AskRefused, AskFails, StoreFails, TypeOK, Reply, Final
    <3> QED
      BY <2>2, <3>7, <3>8
  <2> QED
    BY <1>3, <2>1, <2>2 DEF Execute
<1>4. ASSUME NEW q \in Request, IssuerDecides(q) \/ Crash(q) \/ GoAway(q) PROVE Agreed'
  BY <1>0, <1>4, AgreedKept DEF IssuerDecides, Crash, GoAway, Executing, After, TypeOK
<1> QED
  BY <1>1, <1>2, <1>3, <1>4 DEF Next

\* The final answers of a key are equal, and tell of a sale that is stored as they say.
THEOREM AnswersCorrect == Spec => []AnswersAgree
<1>1. Init => Agreed
  BY AuthorizationAssumption DEF Init, Agreed, Final
<1>2. Agreed => AnswersAgree
  BY DEF Agreed, AnswersAgree, Closed, Truthful
<1>3. Spec => []TypeInv
  BY TypeInit, TypeStep, PTL DEF Spec
<1> QED
  BY <1>1, <1>2, <1>3, AloneInvariant, AgreedStep, PTL DEF Spec

-----------------------------------------------------------------------------
(* What failures leave behind is counted. Each failure is one of one request, and of one
   key, and a set that grows by at most one element whenever a failure is counted never
   has more elements than there were failures. *)

\* A set that grows by one element at most, and only with the number.
LEMMA Grows ==
  ASSUME NEW S, NEW T, NEW x, NEW n \in Nat, NEW m \in Nat,
         IsFiniteSet(S), Cardinality(S) <= n,
         (T \subseteq S /\ n <= m) \/ (T \subseteq S \cup {x} /\ m = n + 1)
  PROVE  IsFiniteSet(T) /\ Cardinality(T) <= m
<1>0. Cardinality(S) \in Nat
  BY FS_CardinalityType
<1>1. CASE T \subseteq S /\ n <= m
  <2>1. IsFiniteSet(T) /\ Cardinality(T) <= Cardinality(S)
    BY <1>1, FS_Subset
  <2>2. Cardinality(T) \in Nat
    BY <2>1, FS_CardinalityType
  <2> QED
    BY <1>0, <1>1, <2>1, <2>2
<1>2. CASE T \subseteq S \cup {x} /\ m = n + 1
  <2>1. IsFiniteSet(S \cup {x}) /\ Cardinality(S \cup {x}) <= Cardinality(S) + 1
    BY <1>0, FS_AddElement
  <2>2. IsFiniteSet(T) /\ Cardinality(T) <= Cardinality(S \cup {x})
    BY <1>2, <2>1, FS_Subset
  <2>3. Cardinality(T) \in Nat /\ Cardinality(S \cup {x}) \in Nat
    BY <2>1, <2>2, FS_CardinalityType
  <2> QED
    BY <1>0, <1>2, <2>1, <2>2, <2>3
<1> QED
  BY <1>1, <1>2

\* A request that met a failure: its client went away, its replica crashed, its hold was
\* left behind, or its sale was stored and it answered an error.
Hurt(q) ==
  \/ q \in gone
  \/ pc[q] = "crashed"
  \/ /\ q \in hold
     /\ stored[q] # "AUTHORIZED"
     /\ pc[q] \in After \/ (pc[q] = "storing" /\ outcome[q] = "DENIED")
  \/ stored[q] # "none" /\ answer[q] = Reply(q, "error")

Failed == {q \in Request : Hurt(q)}

\* What the steps below need to know of a request.
Sold ==
  \A q \in Request :
    /\ q \in hold => decision[q] = "approved"
    /\ q \in gone => pc[q] # "new"
    /\ stored[q] # "none" => answer[q] \in {Reply(q, stored[q]), Reply(q, "error")}

\* The steps of one request are counted, and leave the others as they were.
Charges(q) ==
  /\ \A p \in Request \ {q} : Hurt(p)' => Hurt(p)
  /\ failures' = failures \/ failures' = failures + 1
  /\ Hurt(q)' => Hurt(q) \/ failures' = failures + 1

\* Every step keeps what is known of a request.
LEMMA SoldStep == TypeOK /\ Held /\ Undecided /\ Sold /\ [Next]_vars => Sold'
<1> SUFFICES ASSUME TypeOK, Held, Undecided, Sold, [Next]_vars PROVE Sold'
  OBVIOUS
<1> USE DEF TypeOK, Held, Undecided, Sold, After, GoTo, Decide, Conclude, Respond,
            saleVars, answerVars
<1>1. CASE UNCHANGED vars
  BY <1>1 DEF vars
<1>2. ASSUME NEW q \in Request, Middleware(q) PROVE Sold'
  BY <1>2 DEF Middleware, Reserve, Repeat, ReserveFails, Complete, Abandon, CloseFails, Finish
<1>3. ASSUME NEW q \in Request, Execute(q) PROVE Sold'
  <2>1. CASE Refuse(q) \/ CheckFails(q) \/ AskRefused(q) \/ Ask(q)
    BY <2>1 DEF Refuse, CheckFails, AskRefused, Ask
  <2>2. CASE Hear(q) \/ TimesOut(q) \/ AskFails(q)
    BY <2>2 DEF Hear, TimesOut, AskFails
  <2>3. CASE Reverse(q)
    BY <2>3 DEF Reverse
  <2>4. CASE Store(q)
    BY <2>4 DEF Store
  <2>5. CASE StoreFails(q)
    BY <2>5 DEF StoreFails
  <2> QED
    BY <1>3, <2>1, <2>2, <2>3, <2>4, <2>5 DEF Execute
<1>4. ASSUME NEW q \in Request, IssuerDecides(q) \/ Crash(q) \/ GoAway(q) PROVE Sold'
  BY <1>4 DEF IssuerDecides, Crash, GoAway, Executing
<1> QED
  BY <1>1, <1>2, <1>3, <1>4 DEF Next

\* Every step of a request is counted.
LEMMA StepCharges ==
  ASSUME TypeInv, Held, Undecided, Sold, NEW q \in Request,
         Middleware(q) \/ Execute(q) \/ IssuerDecides(q) \/ Crash(q) \/ GoAway(q)
  PROVE  Charges(q)
<1> USE DEF TypeInv, TypeOK, Decided, Held, Undecided, Sold, Hurt, Charges, After, GoTo, Decide,
            Conclude, Respond, saleVars, answerVars, CallFails, CallWorks, Failure
<1>1. CASE Middleware(q)
  BY <1>1 DEF Middleware, Reserve, Repeat, ReserveFails, Complete, Abandon, CloseFails, Finish
<1>2. CASE Refuse(q) \/ CheckFails(q) \/ AskRefused(q) \/ Ask(q)
  BY <1>2 DEF Refuse, CheckFails, AskRefused, Ask
<1>3. CASE Hear(q)
  BY <1>3 DEF Hear
<1>4. CASE TimesOut(q) \/ AskFails(q)
  BY <1>4 DEF TimesOut, AskFails
<1>5. CASE Reverse(q)
  BY <1>5 DEF Reverse
<1>6. CASE Store(q)
  BY <1>6 DEF Store, Reply
<1>7. CASE StoreFails(q)
  BY <1>7 DEF StoreFails
<1>8. CASE IssuerDecides(q) \/ Crash(q) \/ GoAway(q)
  BY <1>8 DEF IssuerDecides, Crash, GoAway, Executing
<1> QED
  BY <1>1, <1>2, <1>3, <1>4, <1>5, <1>6, <1>7, <1>8 DEF Execute

FailedCounted == IsFiniteSet(Failed) /\ Cardinality(Failed) <= failures

\* Every step keeps the count of the requests that met a failure.
LEMMA FailedStep ==
  TypeInv /\ Held /\ Undecided /\ Sold /\ FailedCounted /\ [Next]_vars => FailedCounted'
<1> SUFFICES ASSUME TypeInv, Held, Undecided, Sold, FailedCounted, [Next]_vars
             PROVE  FailedCounted'
  OBVIOUS
<1>1. CASE UNCHANGED vars
  BY <1>1 DEF vars, saleVars, answerVars, FailedCounted, Failed, Hurt
<1>2. ASSUME NEW q \in Request,
             Middleware(q) \/ Execute(q) \/ IssuerDecides(q) \/ Crash(q) \/ GoAway(q)
      PROVE  FailedCounted'
  <2>1. Charges(q)
    BY <1>2, StepCharges
  <2>2. failures \in Nat /\ failures' \in Nat
    BY <2>1 DEF Charges, TypeInv, TypeOK
  <2>3. \/ Failed' \subseteq Failed /\ failures <= failures'
        \/ Failed' \subseteq Failed \cup {q} /\ failures' = failures + 1
    BY <2>1, <2>2 DEF Charges, Failed
  <2> QED
    BY <2>2, <2>3, Grows DEF FailedCounted
<1> QED
  BY <1>1, <1>2 DEF Next

\* At any time, no more requests met a failure than there were failures.
LEMMA FailedInvariant == Spec => [](TypeInv /\ Held /\ Undecided /\ Sold /\ FailedCounted)
<1>1. Init => Held /\ Undecided /\ Sold
  BY DEF Init, Held, Undecided, Sold
<1>2. Init => FailedCounted
  <2> SUFFICES ASSUME Init PROVE FailedCounted
    OBVIOUS
  <2>1. Failed = {}
    BY DEF Init, Failed, Hurt, After
  <2> QED
    BY <2>1, FS_EmptySet DEF Init, FailedCounted
<1>3. TypeInv => TypeOK
  BY DEF TypeInv
<1> QED
  BY <1>1, <1>2, <1>3, TypeInit, TypeStep, HeldStep, SoldStep, FailedStep, PTL DEF Spec

\* The issuer holds money for a sale that nobody works on and that is not AUTHORIZED only
\* if something failed, and for one sale by failure.
THEOREM OrphansCorrect == Spec => []OrphansAreFailures
<1>1. TypeInv /\ Held /\ Undecided /\ Sold /\ FailedCounted => OrphansAreFailures
  <2> SUFFICES ASSUME TypeInv, Held, Undecided, Sold, FailedCounted PROVE OrphansAreFailures
    OBVIOUS
  <2>1. Orphans \subseteq Failed
    BY DEF Orphans, Failed, Hurt, Sold, Undecided, Executing, TypeInv, TypeOK, State, After
  <2>2. IsFiniteSet(Orphans) /\ Cardinality(Orphans) <= Cardinality(Failed)
    BY <2>1, FS_Subset DEF FailedCounted
  <2>3. Cardinality(Orphans) \in Nat /\ Cardinality(Failed) \in Nat /\ failures \in Nat
    BY <2>2, FS_CardinalityType DEF FailedCounted, TypeInv, TypeOK
  <2> QED
    BY <2>2, <2>3 DEF OrphansAreFailures, FailedCounted
<1> QED
  BY <1>1, FailedInvariant, PTL

\* Each sale of a key after the first was bought by a failure of its own.
THEOREM SalesCorrect == Spec => []RepeatedSalesAreFailures
<1>1. TypeInv /\ Sold /\ FailedCounted /\ AnswersAgree => RepeatedSalesAreFailures
  <2> SUFFICES ASSUME TypeInv, Sold, FailedCounted, AnswersAgree, NEW k \in Key
               PROVE  Cardinality(SalesOf(k)) <= 1 + failures
    BY DEF RepeatedSalesAreFailures
  <2> DEFINE Told(q) == KeyOf[q] = k /\ stored[q] # "none" /\ answer[q] = Reply(q, stored[q])
  <2>1. \A p, q \in Request : Told(p) /\ Told(q) => p = q
    <3> SUFFICES ASSUME NEW p \in Request, NEW q \in Request, Told(p), Told(q) PROVE p = q
      OBVIOUS
    <3>1. stored[p] \in {"AUTHORIZED", "DENIED"} /\ stored[q] \in {"AUTHORIZED", "DENIED"}
      BY DEF TypeInv, TypeOK
    <3>2. Final(answer[p]) /\ Final(answer[q])
      <4>1. answer[p] # NoAnswer /\ answer[q] # NoAnswer
        BY <3>1, Values, AuthorizationAssumption
      <4>2. answer[p].is = stored[p] /\ answer[q].is = stored[q]
        BY DEF Reply
      <4> QED
        BY <3>1, <4>1, <4>2 DEF Final
    <3>3. answer[p] = answer[q]
      BY <3>2 DEF AnswersAgree
    <3>4. answer[p].by = p /\ answer[q].by = q
      BY DEF Reply
    <3> QED
      BY <3>3, <3>4
  <2>2. PICK x : \A q \in Request : Told(q) => q = x
    BY <2>1
  <2>3. SalesOf(k) \subseteq Failed \cup {x}
    BY <2>2 DEF SalesOf, Failed, Hurt, Sold
  <2>4. failures \in Nat /\ failures + 1 \in Nat
    BY DEF TypeInv, TypeOK
  <2>5. IsFiniteSet(Failed) /\ Cardinality(Failed) <= failures
    BY DEF FailedCounted
  <2>6. Cardinality(SalesOf(k)) <= failures + 1
    BY <2>3, <2>4, <2>5, Grows
  <2> QED
    BY <2>4, <2>6
<1> QED
  BY <1>1, FailedInvariant, AnswersCorrect, PTL

\* A key without a response whose executions, if any, have lost their client: nobody will
\* close it for sure.
Doomed ==
  {k \in Key : Pending(k) /\ \A q \in Request : KeyOf[q] = k /\ Executing(q) => q \in gone}

DoomedCounted == IsFiniteSet(Doomed) /\ Cardinality(Doomed) <= failures

\* The steps of a request are counted for its key, and leave the others as they were.
ChargesKey(q) ==
  /\ failures' = failures \/ failures' = failures + 1
  /\ Doomed' \subseteq Doomed \cup {KeyOf[q]}
  /\ KeyOf[q] \in Doomed' => KeyOf[q] \in Doomed \/ failures' = failures + 1

\* A step of q dooms no key but its own.
LEMMA DoomsItsKey ==
  ASSUME NEW q \in Request, gone' \subseteq gone \cup {q},
         \A k \in Key \ {KeyOf[q]} : row'[k] = row[k],
         \A p \in Request \ {q} : pc'[p] = pc[p]
  PROVE  Doomed' \subseteq Doomed \cup {KeyOf[q]}
BY DEF Doomed, Pending, Executing

\* Every step of a request is counted for its key.
LEMMA StepChargesKey ==
  ASSUME TypeOK, Alone, Sold, NEW q \in Request,
         Middleware(q) \/ Execute(q) \/ IssuerDecides(q) \/ Crash(q) \/ GoAway(q)
  PROVE  ChargesKey(q)
<1> USE DEF TypeOK, GoTo, Conclude, saleVars, answerVars, CallFails, CallWorks, Failure
<1>0. KeyOf[q] \in Key
  BY Values
<1>1. failures' = failures \/ failures' = failures + 1
  BY DEF Middleware, Reserve, Repeat, ReserveFails, Complete, Abandon, CloseFails, Finish,
         Execute, Refuse, CheckFails, AskRefused, Ask, Hear, TimesOut, Reverse, AskFails, Store,
         StoreFails, IssuerDecides, Crash, GoAway
<1>2. Doomed' \subseteq Doomed \cup {KeyOf[q]}
  <2>1. gone' \subseteq gone \cup {q}
    BY DEF Middleware, Reserve, Repeat, ReserveFails, Complete, Abandon, CloseFails, Finish,
           Execute, Refuse, CheckFails, AskRefused, Ask, Hear, TimesOut, Reverse, AskFails, Store,
           StoreFails, IssuerDecides, Crash, GoAway
  <2>2. \A k \in Key \ {KeyOf[q]} : row'[k] = row[k]
    BY <1>0 DEF Middleware, Reserve, Repeat, ReserveFails, Complete, Abandon, CloseFails, Finish,
           SetRow, Execute, Refuse, CheckFails, AskRefused, Ask, Hear, TimesOut, Reverse, AskFails,
           Store, StoreFails, IssuerDecides, Crash, GoAway
  <2>3. \A p \in Request \ {q} : pc'[p] = pc[p]
    BY DEF Middleware, Reserve, Repeat, ReserveFails, Complete, Abandon, CloseFails, Finish,
           Execute, Refuse, CheckFails, AskRefused, Ask, Hear, TimesOut, Reverse, AskFails, Store,
           StoreFails, IssuerDecides, Crash, GoAway
  <2> QED
    BY <2>1, <2>2, <2>3, DoomsItsKey
<1>3. ASSUME KeyOf[q] \in Doomed', failures' = failures PROVE KeyOf[q] \in Doomed
  <2>1. CASE Reserve(q)
    <3>1. pc'[q] = "checking" /\ q \notin gone'
      BY <2>1 DEF Reserve
    <3> QED
      BY <1>3, <3>1 DEF Doomed, Executing
  <2>2. CASE Repeat(q)
    BY <1>3, <2>2 DEF Repeat, Doomed, Pending, Executing
  <2>3. CASE ReserveFails(q)
    BY <1>3, <2>3 DEF ReserveFails, Sold
  <2>4. CASE Complete(q) \/ Abandon(q)
    <3>1. Executing(q) /\ Pending(KeyOf[q])
      BY <2>4 DEF Complete, Abandon, Executing, Alone
    <3>2. CASE Complete(q)
      <4>1. row'[KeyOf[q]] = [row[KeyOf[q]] EXCEPT !.response = Reply(q, outcome[q])]
        BY <1>0, <3>1, <3>2 DEF Complete, Pending
      <4>2. Reply(q, outcome[q]) \in Answer /\ row[KeyOf[q]] \in KeyRow
        BY <1>0, <3>1, Values DEF Pending, Outcome
      <4>3. row'[KeyOf[q]].response # NoAnswer
        BY <4>1, <4>2, Responded, AuthorizationAssumption
      <4> QED
        BY <1>3, <4>3 DEF Doomed, Pending
    <3>3. CASE Abandon(q)
      <4>1. row'[KeyOf[q]] = NoRow
        BY <1>0, <3>1, <3>3 DEF Abandon
      <4> QED
        BY <1>3, <4>1 DEF Doomed, Pending
    <3> QED
      BY <2>4, <3>2, <3>3
  <2>5. CASE CloseFails(q)
    <3>1. q \in gone /\ UNCHANGED <<row, gone>>
      BY <1>3, <2>5 DEF CloseFails, Finish
    <3>2. \A p \in Request : Executing(p) => Executing(p)' \/ p = q
      BY <2>5 DEF CloseFails, Finish, Executing
    <3> QED
      BY <1>3, <3>1, <3>2 DEF Doomed, Pending
  <2>6. CASE Execute(q) \/ IssuerDecides(q)
    <3>1. UNCHANGED <<row, gone>>
      BY <2>6 DEF Execute, Refuse, CheckFails, AskRefused, Ask, Hear, TimesOut, Reverse, AskFails,
                  Store, StoreFails, IssuerDecides
    <3>2. \A p \in Request : Executing(p) => Executing(p)'
      BY <2>6 DEF Execute, Refuse, CheckFails, AskRefused, Ask, Hear, TimesOut, Reverse, AskFails,
                  Store, StoreFails, IssuerDecides, Executing
    <3> QED
      BY <1>3, <3>1, <3>2 DEF Doomed, Pending
  <2>7. CASE Crash(q) \/ GoAway(q)
    BY <1>3, <2>7 DEF Crash, GoAway
  <2> QED
    BY <2>1, <2>2, <2>3, <2>4, <2>5, <2>6, <2>7 DEF Middleware
<1> QED
  BY <1>1, <1>2, <1>3 DEF ChargesKey

\* Every step keeps the count of the doomed keys.
LEMMA DoomedStep == TypeOK /\ TypeOK' /\ Alone /\ Sold /\ DoomedCounted /\ [Next]_vars => DoomedCounted'
<1> SUFFICES ASSUME TypeOK, TypeOK', Alone, Sold, DoomedCounted, [Next]_vars
             PROVE  DoomedCounted'
  OBVIOUS
<1>1. CASE UNCHANGED vars
  BY <1>1 DEF vars, DoomedCounted, Doomed, Pending, Executing
<1>2. ASSUME NEW q \in Request,
             Middleware(q) \/ Execute(q) \/ IssuerDecides(q) \/ Crash(q) \/ GoAway(q)
      PROVE  DoomedCounted'
  <2>1. ChargesKey(q)
    BY <1>2, StepChargesKey
  <2>2. failures \in Nat /\ failures' \in Nat
    BY DEF TypeOK
  <2>3. \/ Doomed' \subseteq Doomed /\ failures <= failures'
        \/ Doomed' \subseteq Doomed \cup {KeyOf[q]} /\ failures' = failures + 1
    BY <2>1, <2>2 DEF ChargesKey
  <2> QED
    BY <2>2, <2>3, Grows DEF DoomedCounted
<1> QED
  BY <1>1, <1>2 DEF Next

\* No more keys are left without a response, with nobody at work, than there were failures.
THEOREM StuckCorrect == Spec => []StuckAreFailures
<1>1. Init => DoomedCounted
  <2> SUFFICES ASSUME Init PROVE DoomedCounted
    OBVIOUS
  <2>1. Doomed = {}
    BY DEF Init, Doomed, Pending
  <2> QED
    BY <2>1, FS_EmptySet DEF Init, DoomedCounted
<1>2. TypeOK /\ DoomedCounted => StuckAreFailures
  <2> SUFFICES ASSUME TypeOK, DoomedCounted PROVE StuckAreFailures
    OBVIOUS
  <2>1. Stuck \subseteq Doomed
    BY DEF Stuck, Doomed
  <2>2. IsFiniteSet(Stuck) /\ Cardinality(Stuck) <= Cardinality(Doomed)
    BY <2>1, FS_Subset DEF DoomedCounted
  <2>3. Cardinality(Stuck) \in Nat /\ Cardinality(Doomed) \in Nat /\ failures \in Nat
    BY <2>2, FS_CardinalityType DEF DoomedCounted, TypeOK
  <2> QED
    BY <2>2, <2>3 DEF StuckAreFailures, DoomedCounted
<1> QED
  BY <1>1, <1>2, TypeCorrect, AloneInvariant, FailedInvariant, DoomedStep, PTL DEF Spec
=============================================================================
