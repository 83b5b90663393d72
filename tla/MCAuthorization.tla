--------------------------- MODULE MCAuthorization ---------------------------
(***************************************************************************)
(* Instances of Authorization for TLC: three requests with one key, the    *)
(* last of them with another body, and one with a key of its own.          *)
(***************************************************************************)
EXTENDS Authorization, TLC

CONSTANTS q1, q2, q3, q4, k1, k2, b1, b2

MCKeyOf  == [q \in Request |-> IF q = q4 THEN k2 ELSE k1]
MCBodyOf == [q \in Request |-> IF q = q3 THEN b2 ELSE b1]

Symmetry == Permutations({q1, q2})
=============================================================================
