------------------------------- MODULE Inbox -------------------------------
(***************************************************************************)
(* What an event handler sees of the delivery of events: an event exists   *)
(* once the data it tells of is committed, and it is applied at most once, *)
(* never before it exists. An event may also be refused: not applied.      *)
(***************************************************************************)
EXTENDS Naturals

CONSTANT Event

VARIABLES emitted, applied

Init ==
  /\ emitted = {}
  /\ applied = [e \in Event |-> 0]

Emit(e) ==
  /\ e \notin emitted
  /\ emitted' = emitted \cup {e}
  /\ UNCHANGED applied

Apply(e) ==
  /\ e \in emitted
  /\ applied[e] = 0
  /\ applied' = [applied EXCEPT ![e] = 1]
  /\ UNCHANGED emitted

Next == \E e \in Event : Emit(e) \/ Apply(e)

Spec == Init /\ [][Next]_<<emitted, applied>>
=============================================================================
