-------------------------------- MODULE Sums --------------------------------
(***************************************************************************)
(* Facts about the sum of a function over a finite set (SumFunctionOnSet   *)
(* of the community modules), which its definition gives as a recursion    *)
(* over the subsets: a set without elements adds up to 0, any other to the *)
(* value of one element, whichever CHOOSE takes, and the sum of the rest.  *)
(*                                                                         *)
(* The induction is over sets of sets: where the usual principle speaks of *)
(* a property, SubsetInduction speaks of the set G of the subsets that     *)
(* have it.                                                                *)
(***************************************************************************)
EXTENDS Integers, FiniteSets, FiniteSetsExt, FiniteSetTheorems, TLAPS

-----------------------------------------------------------------------------
(* Induction *)

\* A set of numbers that is not empty has a least element.
LEMMA LeastNumber ==
  ASSUME NEW N \in SUBSET Nat, N # {}
  PROVE  \E k \in N : \A n \in N : k <= n
<1> DEFINE Less == OpToRel(<, Nat)
<1>1. IsWellFoundedOn(Less, Nat)
  BY NatLessThanWellFounded
<1>2. \E k \in N : \A n \in N : <<n, k>> \notin Less
  BY <1>1, WFMin
<1>3. \A n, k \in Nat : n < k => <<n, k>> \in Less
  BY DEF OpToRel
<1> HIDE DEF Less
<1>4. PICK k \in N : \A n \in N : <<n, k>> \notin Less
  BY <1>2
<1>5. \A n \in N : ~(n < k)
  BY <1>3, <1>4, Zenon
<1>6. QED
  BY <1>5

\* The element that a sum takes first.
Any(s) == CHOOSE x \in s : TRUE

\* Taking it leaves a smaller set.
LEMMA AnyFirst ==
  ASSUME NEW s, IsFiniteSet(s), s # {}
  PROVE  /\ Any(s) \in s
         /\ IsFiniteSet(s \ {Any(s)})
         /\ Cardinality(s) \in Nat
         /\ Cardinality(s \ {Any(s)}) = Cardinality(s) - 1
         /\ Cardinality(s \ {Any(s)}) \in Nat
<1>1. Any(s) \in s
  BY DEF Any
<1>2. QED
  BY <1>1, FS_RemoveElement, FS_CardinalityType

\* What holds of a subset of a finite set whenever it holds of the smaller ones holds of
\* all of them.
LEMMA SmallerInduction ==
  ASSUME NEW S, IsFiniteSet(S), NEW G,
         \A s \in SUBSET S :
           (\A u \in SUBSET S : Cardinality(u) < Cardinality(s) => u \in G) => s \in G
  PROVE  \A s \in SUBSET S : s \in G
<1> DEFINE N == {Cardinality(s) : s \in (SUBSET S) \ G}
<1> SUFFICES ASSUME (SUBSET S) \ G # {} PROVE FALSE
  OBVIOUS
<1>1. \A s \in SUBSET S : Cardinality(s) \in Nat
  BY FS_Subset, FS_CardinalityType
<1>2. N \in SUBSET Nat /\ N # {}
  BY <1>1
<1>3. PICK k \in N : \A n \in N : k <= n
  BY <1>2, LeastNumber
<1>4. PICK s \in (SUBSET S) \ G : k = Cardinality(s)
  OBVIOUS
<1>5. ASSUME NEW u \in SUBSET S, Cardinality(u) < Cardinality(s) PROVE u \in G
  <2> SUFFICES ASSUME u \notin G PROVE FALSE
    OBVIOUS
  <2>1. Cardinality(u) \in N
    OBVIOUS
  <2>2. Cardinality(u) \in Nat /\ Cardinality(s) \in Nat
    BY <1>1
  <2>3. Cardinality(s) <= Cardinality(u)
    BY <1>3, <1>4, <2>1
  <2>4. QED
    BY <1>5, <2>2, <2>3
<1>6. QED
  BY <1>4, <1>5

\* What holds of the empty set, and of a subset whenever it holds of that subset
\* without the element taken first, holds of all subsets of a finite set.
LEMMA SubsetInduction ==
  ASSUME NEW S, IsFiniteSet(S), NEW G, {} \in G,
         \A s \in SUBSET S : s # {} /\ s \ {Any(s)} \in G => s \in G
  PROVE  \A s \in SUBSET S : s \in G
<1>1. ASSUME NEW s \in SUBSET S,
             \A u \in SUBSET S : Cardinality(u) < Cardinality(s) => u \in G
      PROVE  s \in G
  <2>1. CASE s = {}
    BY <2>1
  <2>2. CASE s # {}
    <3>1. IsFiniteSet(s)
      BY FS_Subset
    <3>2. Cardinality(s \ {Any(s)}) < Cardinality(s)
      <4> DEFINE n == Cardinality(s)
                 k == Cardinality(s \ {Any(s)})
      <4>1. n \in Nat /\ k = n - 1
        BY <2>2, <3>1, AnyFirst, Zenon
      <4> HIDE DEF n, k
      <4>2. k < n
        BY <4>1
      <4>3. QED
        BY <4>2 DEF n, k
    <3>3. s \ {Any(s)} \in SUBSET S
      OBVIOUS
    <3>4. s \ {Any(s)} \in G
      BY <1>1, <3>2, <3>3
    <3>5. QED
      BY <2>2, <3>4
  <2>3. QED
    BY <2>1, <2>2
<1>2. QED
  BY <1>1, SmallerInduction

-----------------------------------------------------------------------------
(* The recursion *)

\* The equation of the sums of g over the subsets of S.
Unfolds(g, S, it) ==
  it = [s \in SUBSET S |-> IF s = {} THEN 0 ELSE g[Any(s)] + it[s \ {Any(s)}]]

\* Its solution.
SumsOf(g, S) == CHOOSE it : Unfolds(g, S, it)

\* The sum over S is that solution at S.
LEMMA SumIsSolution ==
  ASSUME NEW g, NEW S
  PROVE  SumFunctionOnSet(g, S) = SumsOf(g, S)[S]
BY DEF SumFunctionOnSet, FoldFunctionOnSet, MapThenFoldSet, Any, SumsOf, Unfolds

\* The equation has a solution: one that is right up to n elements gives one that is
\* right up to n + 1.
LEMMA SolutionExists ==
  ASSUME NEW g, NEW S, IsFiniteSet(S)
  PROVE  Unfolds(g, S, SumsOf(g, S))
<1> DEFINE Body(f, s) == IF s = {} THEN 0 ELSE g[Any(s)] + f[s \ {Any(s)}]
           Right(f, n) == \A s \in SUBSET S : Cardinality(s) <= n => f[s] = Body(f, s)
           Good == {n \in Nat : \E f : Right(f, n)}
<1>1. \A s \in SUBSET S : IsFiniteSet(s) /\ Cardinality(s) \in Nat
  BY FS_Subset, FS_CardinalityType
<1>2. 0 \in Good
  <2>1. Right([s \in SUBSET S |-> 0], 0)
    <3>1. \A s \in SUBSET S : Cardinality(s) <= 0 => s = {}
      BY <1>1, FS_EmptySet
    <3>2. QED
      BY <3>1
  <2>2. QED
    BY <2>1
<1>3. ASSUME NEW n \in Good PROVE n + 1 \in Good
  <2>1. PICK f : Right(f, n)
    OBVIOUS
  <2> DEFINE h == [s \in SUBSET S |-> Body(f, s)]
  <2>2. ASSUME NEW s \in SUBSET S, Cardinality(s) <= n + 1 PROVE h[s] = Body(h, s)
    <3>1. CASE s = {}
      BY <3>1
    <3>2. CASE s # {}
      <4> DEFINE rest == s \ {Any(s)}
      <4>1. rest \in SUBSET S /\ Cardinality(rest) <= n
        BY <1>1, <2>2, <3>2, AnyFirst
      <4>2. f[rest] = Body(f, rest)
        BY <2>1, <4>1
      <4>3. h[rest] = f[rest]
        BY <4>1, <4>2
      <4>4. QED
        BY <3>2, <4>3
    <3>3. QED
      BY <3>1, <3>2
  <2>3. Right(h, n + 1)
    BY <2>2
  <2> HIDE DEF h, Right
  <2>4. \E x : Right(x, n + 1)
    BY <2>3
  <2>5. QED
    BY <2>4
<1>4. Cardinality(S) \in Good
  <2> HIDE DEF Good
  <2>1. Good \in SUBSET Nat
    BY DEF Good
  <2> SUFFICES ASSUME Cardinality(S) \notin Good PROVE FALSE
    OBVIOUS
  <2> DEFINE N == Nat \ Good
  <2>2. N \in SUBSET Nat /\ N # {}
    BY <1>1
  <2>3. PICK k \in N : \A n \in N : k <= n
    BY <2>2, LeastNumber
  <2>4. k # 0 /\ k \in Nat
    BY <1>2
  <2>5. k - 1 \in Good
    BY <2>3, <2>4
  <2>6. QED
    BY <1>3, <2>4, <2>5
<1>5. PICK f : Right(f, Cardinality(S))
  BY <1>4
<1> DEFINE h == [s \in SUBSET S |-> Body(f, s)]
<1>6. \A s \in SUBSET S : Cardinality(s) <= Cardinality(S)
  BY FS_Subset
<1>7. \A s \in SUBSET S : f[s] = Body(f, s)
  BY <1>5, <1>6
<1>8. \A s \in SUBSET S : h[s] = Body(h, s)
  <2> SUFFICES ASSUME NEW s \in SUBSET S PROVE h[s] = Body(h, s)
    OBVIOUS
  <2>1. s \ {Any(s)} \in SUBSET S
    OBVIOUS
  <2>2. h[s \ {Any(s)}] = f[s \ {Any(s)}]
    BY <1>7, <2>1
  <2>3. QED
    BY <2>2
<1>9. Unfolds(g, S, h)
  BY <1>8 DEF Unfolds
<1> HIDE DEF h
<1>10. QED
  BY <1>9 DEF SumsOf

\* So the sums of the subsets obey the recursion.
LEMMA SumsStep ==
  ASSUME NEW g, NEW S, IsFiniteSet(S)
  PROVE  /\ SumsOf(g, S)[{}] = 0
         /\ \A s \in SUBSET S :
              s # {} => SumsOf(g, S)[s] = g[Any(s)] + SumsOf(g, S)[s \ {Any(s)}]
<1> DEFINE it == SumsOf(g, S)
<1>1. Unfolds(g, S, it)
  BY SolutionExists
<1> HIDE DEF it
<1>2. it = [s \in SUBSET S |-> IF s = {} THEN 0 ELSE g[Any(s)] + it[s \ {Any(s)}]]
  BY <1>1 DEF Unfolds
<1>3. \A s \in SUBSET S : it[s] = IF s = {} THEN 0 ELSE g[Any(s)] + it[s \ {Any(s)}]
  BY <1>2
<1>4. {} \in SUBSET S
  OBVIOUS
<1>5. it[{}] = 0
  BY <1>3, <1>4
<1>6. QED
  BY <1>3, <1>5 DEF it

\* The sums of a set and those of a part of it agree on the subsets of the part.
LEMMA SumsAgree ==
  ASSUME NEW g, NEW S, IsFiniteSet(S), NEW T \in SUBSET S
  PROVE  SumsOf(g, S)[T] = SumFunctionOnSet(g, T)
<1> DEFINE F == SumsOf(g, S)
           E == SumsOf(g, T)
           G == {s \in SUBSET T : F[s] = E[s]}
<1>1. IsFiniteSet(T)
  BY FS_Subset
<1>2. /\ F[{}] = 0
      /\ \A s \in SUBSET S : s # {} => F[s] = g[Any(s)] + F[s \ {Any(s)}]
  BY SumsStep
<1>3. /\ E[{}] = 0
       /\ \A s \in SUBSET T : s # {} => E[s] = g[Any(s)] + E[s \ {Any(s)}]
  BY <1>1, SumsStep
<1> HIDE DEF F, E
<1>4. {} \in G
  BY <1>2, <1>3
<1>5. ASSUME NEW s \in SUBSET T, s # {}, s \ {Any(s)} \in G PROVE s \in G
  BY <1>2, <1>3, <1>5
<1>6. \A s \in SUBSET T : s \in G
  <2> HIDE DEF G
  <2>1. QED
    BY <1>1, <1>4, <1>5, SubsetInduction
<1>7. QED
  BY <1>6, SumIsSolution DEF F, E

-----------------------------------------------------------------------------
(* What sums do *)

\* A sum of integers is an integer, a sum of amounts an amount.
LEMMA SumTyped ==
  ASSUME NEW g, NEW S, IsFiniteSet(S), NEW T \in {Nat, Int}, \A x \in S : g[x] \in T
  PROVE  SumFunctionOnSet(g, S) \in T
<1> DEFINE it == SumsOf(g, S)
           G == {s \in SUBSET S : it[s] \in T}
<1>0. \A s \in SUBSET S : s # {} => it[s] = g[Any(s)] + it[s \ {Any(s)}]
  BY SumsStep
<1>1. {} \in G
  <2>1. it[{}] = 0
    BY SumsStep
  <2>2. QED
    BY <2>1
<1>2. ASSUME NEW s \in SUBSET S, s # {}, s \ {Any(s)} \in G PROVE s \in G
  <2>1. it[s] = g[Any(s)] + it[s \ {Any(s)}]
    BY <1>0, <1>2
  <2>2. Any(s) \in S
    BY <1>2 DEF Any
  <2>3. g[Any(s)] \in T /\ it[s \ {Any(s)}] \in T
    BY <1>2, <2>2
  <2> HIDE DEF it
  <2>4. it[s] \in T
    BY <2>1, <2>3
  <2>5. QED
    BY <2>4
<1>3. \A s \in SUBSET S : s \in G
  <2> HIDE DEF G
  <2>1. QED
    BY <1>1, <1>2, SubsetInduction
<1>4. QED
  BY <1>3, SumIsSolution

\* Sums of two functions add up.
LEMMA SumPlus ==
  ASSUME NEW S, IsFiniteSet(S), NEW f, NEW g, NEW h,
         \A x \in S : f[x] \in Int /\ g[x] \in Int /\ h[x] = f[x] + g[x]
  PROVE  SumFunctionOnSet(h, S) = SumFunctionOnSet(f, S) + SumFunctionOnSet(g, S)
<1> DEFINE F == SumsOf(f, S)
           E == SumsOf(g, S)
           H == SumsOf(h, S)
           G == {s \in SUBSET S : F[s] \in Int /\ E[s] \in Int /\ H[s] = F[s] + E[s]}
<1>0. \A s \in SUBSET S : s # {} =>
        /\ F[s] = f[Any(s)] + F[s \ {Any(s)}]
        /\ E[s] = g[Any(s)] + E[s \ {Any(s)}]
        /\ H[s] = h[Any(s)] + H[s \ {Any(s)}]
  BY SumsStep
<1>1. {} \in G
  <2>1. F[{}] = 0 /\ E[{}] = 0 /\ H[{}] = 0
    BY SumsStep
  <2>2. QED
    BY <2>1
<1>2. ASSUME NEW s \in SUBSET S, s # {}, s \ {Any(s)} \in G PROVE s \in G
  <2>1. /\ F[s] = f[Any(s)] + F[s \ {Any(s)}]
        /\ E[s] = g[Any(s)] + E[s \ {Any(s)}]
        /\ H[s] = h[Any(s)] + H[s \ {Any(s)}]
    BY <1>0, <1>2
  <2>2. Any(s) \in S
    BY <1>2 DEF Any
  <2>3. f[Any(s)] \in Int /\ g[Any(s)] \in Int /\ h[Any(s)] = f[Any(s)] + g[Any(s)]
    BY <2>2
  <2>4. /\ F[s \ {Any(s)}] \in Int /\ E[s \ {Any(s)}] \in Int
        /\ H[s \ {Any(s)}] = F[s \ {Any(s)}] + E[s \ {Any(s)}]
    BY <1>2
  <2> HIDE DEF F, E, H
  <2>5. F[s] \in Int /\ E[s] \in Int /\ H[s] = F[s] + E[s]
    BY <2>1, <2>3, <2>4
  <2>6. QED
    BY <2>5
<1>3. \A s \in SUBSET S : s \in G
  <2> HIDE DEF G
  <2>1. QED
    BY <1>1, <1>2, SubsetInduction
<1>4. QED
  BY <1>3, SumIsSolution

\* If every element counts b, and one of them c more, the sum is c more than b for each
\* element.
LEMMA SumOfParts ==
  ASSUME NEW S, IsFiniteSet(S), NEW first \in S, NEW b \in Int, NEW c \in Int, NEW g,
         \A x \in S : g[x] = IF x = first THEN b + c ELSE b
  PROVE  SumFunctionOnSet(g, S) = b * Cardinality(S) + c
<1> DEFINE it == SumsOf(g, S)
           Extra(s) == IF first \in s THEN c ELSE 0
           G == {s \in SUBSET S : it[s] = b * Cardinality(s) + Extra(s)}
<1>0. /\ \A s \in SUBSET S : s # {} => it[s] = g[Any(s)] + it[s \ {Any(s)}]
      /\ \A s \in SUBSET S : IsFiniteSet(s)
  BY SumsStep, FS_Subset
<1>1. {} \in G
  <2>1. it[{}] = 0 /\ Cardinality({}) = 0
    BY SumsStep, FS_EmptySet
  <2> HIDE DEF it
  <2>2. QED
    BY <2>1
<1>2. ASSUME NEW s \in SUBSET S, s # {}, s \ {Any(s)} \in G PROVE s \in G
  <2> DEFINE a == Any(s)
             rest == s \ {Any(s)}
             k == Cardinality(rest)
  <2>1. it[s] = g[a] + it[rest]
    BY <1>0, <1>2
  <2>2. a \in S /\ a \in s
    BY <1>2 DEF Any
  <2>3. g[a] = IF a = first THEN b + c ELSE b
    BY <2>2
  <2>4. it[rest] = b * k + Extra(rest)
    BY <1>2
  <2>5. Cardinality(s) = k + 1 /\ k \in Nat
    <3>1. IsFiniteSet(s) /\ s # {}
      BY <1>0, <1>2
    <3> HIDE DEF G
    <3>2. Cardinality(s) \in Nat /\ k = Cardinality(s) - 1 /\ k \in Nat
      BY <3>1, AnyFirst, Zenon
    <3> HIDE DEF k
    <3>3. QED
      BY <3>2
  <2>6. Extra(s) = IF a = first THEN c ELSE Extra(rest)
    BY <2>2
  <2>7. a = first => Extra(rest) = 0
    OBVIOUS
  <2>8. Extra(rest) \in Int
    OBVIOUS
  <2> HIDE DEF it, a, rest, k, Extra
  <2>9. b * (k + 1) = b * k + b /\ b * k \in Int
    BY <2>5
  <2>10. it[s] = b * (k + 1) + Extra(s)
    BY <2>1, <2>3, <2>4, <2>6, <2>7, <2>8, <2>9
  <2>11. QED
    BY <2>5, <2>10
<1>3. \A s \in SUBSET S : s \in G
  <2> HIDE DEF G
  <2>1. QED
    BY <1>1, <1>2, SubsetInduction
<1>4. QED
  BY <1>3, SumIsSolution

\* A sum is the value of any one element and the sum of the others: the order in which
\* CHOOSE takes them does not matter.
LEMMA SumRemove ==
  ASSUME NEW g, NEW S, IsFiniteSet(S), \A x \in S : g[x] \in Int, NEW e \in S
  PROVE  SumFunctionOnSet(g, S) = g[e] + SumFunctionOnSet(g, S \ {e})
<1> DEFINE F == SumsOf(g, S)
           G == {s \in SUBSET S : \A x \in s : F[s] = g[x] + F[s \ {x}]}
<1>1. \A s \in SUBSET S : /\ s # {} => F[s] = g[Any(s)] + F[s \ {Any(s)}]
                          /\ F[s] \in Int
  <2>1. ASSUME NEW s \in SUBSET S PROVE F[s] \in Int
    <3>1. IsFiniteSet(s) /\ \A x \in s : g[x] \in Int
      BY FS_Subset
    <3>2. SumFunctionOnSet(g, s) \in Int
      BY <3>1, SumTyped
    <3>3. QED
      BY <3>2, SumsAgree
  <2>2. \A s \in SUBSET S : s # {} => F[s] = g[Any(s)] + F[s \ {Any(s)}]
    BY SumsStep
  <2> HIDE DEF F
  <2>3. QED
    BY <2>1, <2>2
<1>2. \A s \in SUBSET S : \A x \in s : Cardinality(s \ {x}) < Cardinality(s)
  <2> SUFFICES ASSUME NEW s \in SUBSET S, NEW x \in s
               PROVE  Cardinality(s \ {x}) < Cardinality(s)
    OBVIOUS
  <2>1. IsFiniteSet(s)
    BY FS_Subset
  <2>2. Cardinality(s) \in Nat /\ Cardinality(s \ {x}) = Cardinality(s) - 1
    BY <2>1, FS_RemoveElement, FS_CardinalityType
  <2>3. QED
    BY <2>2
<1> HIDE DEF F
<1>3. ASSUME NEW s \in SUBSET S,
             \A u \in SUBSET S : Cardinality(u) < Cardinality(s) => u \in G
      PROVE  s \in G
  <2> SUFFICES ASSUME NEW x \in s PROVE F[s] = g[x] + F[s \ {x}]
    OBVIOUS
  <2> DEFINE a == Any(s)
             both == s \ {a, x}
  <2>1. a \in s /\ F[s] = g[a] + F[s \ {a}]
    BY <1>1 DEF Any
  <2>2. CASE a = x
    BY <2>1, <2>2
  <2>3. CASE a # x
    <3>1. s \ {a} \in G /\ s \ {x} \in G
      BY <1>2, <1>3, <2>1
    <3>2. F[s \ {a}] = g[x] + F[(s \ {a}) \ {x}]
      BY <2>3, <3>1
    <3>3. F[s \ {x}] = g[a] + F[(s \ {x}) \ {a}]
      BY <2>1, <2>3, <3>1
    <3>4. (s \ {a}) \ {x} = both /\ (s \ {x}) \ {a} = both /\ both \in SUBSET S
      OBVIOUS
    <3>5. g[a] \in Int /\ g[x] \in Int /\ F[both] \in Int
      BY <1>1, <2>1, <3>4
    <3> HIDE DEF a, both
    <3>6. QED
      BY <2>1, <3>2, <3>3, <3>4, <3>5
  <2>4. QED
    BY <2>2, <2>3
<1>4. \A s \in SUBSET S : s \in G
  <2> HIDE DEF G
  <2>1. QED
    BY <1>3, SmallerInduction
<1>5. F[S] = g[e] + F[S \ {e}]
  BY <1>4
<1>6. F[S] = SumFunctionOnSet(g, S) /\ F[S \ {e}] = SumFunctionOnSet(g, S \ {e})
  BY SumsAgree DEF F
<1>7. QED
  BY <1>5, <1>6

\* A function that is 0 outside of T adds up to its sum over T.
LEMMA SumOfSome ==
  ASSUME NEW S, IsFiniteSet(S), NEW T \in SUBSET S, NEW g, NEW h,
         \A x \in S : g[x] = IF x \in T THEN h[x] ELSE 0,
         \A x \in T : h[x] \in Int
  PROVE  SumFunctionOnSet(g, S) = SumFunctionOnSet(h, T)
<1> DEFINE E(s) == SumFunctionOnSet(g, s)
           H(s) == SumFunctionOnSet(h, s \cap T)
           G == {s \in SUBSET S : E(s) = H(s)}
<1>1. \A s \in SUBSET S : IsFiniteSet(s) /\ IsFiniteSet(s \cap T)
  BY FS_Subset
<1>2. {} \in G
  <2>1. SumFunctionOnSet(g, {}) = 0 /\ SumFunctionOnSet(h, {}) = 0
    BY FS_EmptySet, SumIsSolution, SumsStep
  <2>2. {} \cap T = {}
    OBVIOUS
  <2>3. QED
    BY <2>1, <2>2
<1>3. ASSUME NEW s \in SUBSET S, s # {}, s \ {Any(s)} \in G PROVE s \in G
  <2> DEFINE a == Any(s)
             rest == s \ {a}
  <2>1. a \in s /\ a \in S
    BY <1>3 DEF Any
  <2>2. \A x \in S : g[x] \in Int
    OBVIOUS
  <2>3. E(s) = g[a] + E(rest)
    BY <1>1, <2>1, <2>2, SumRemove
  <2>4. E(rest) = H(rest)
    BY <1>3
  <2>5. CASE a \in T
    <3>1. H(s) = h[a] + SumFunctionOnSet(h, (s \cap T) \ {a})
      BY <1>1, <2>1, <2>5, SumRemove
    <3>2. (s \cap T) \ {a} = rest \cap T
      OBVIOUS
    <3>3. g[a] = h[a]
      BY <2>1, <2>5
    <3>4. E(s) = H(s)
      BY <2>3, <2>4, <3>1, <3>2, <3>3
    <3>5. QED
      BY <3>4
  <2>6. CASE a \notin T
    <3>1. s \cap T = rest \cap T
      BY <2>6
    <3>2. g[a] = 0
      BY <2>1, <2>6
    <3>3. E(rest) \in Int
      <4>1. IsFiniteSet(rest) /\ \A x \in rest : g[x] \in Int
        BY <1>1, <2>2
      <4>2. QED
        BY <4>1, SumTyped
    <3>4. E(s) = E(rest)
      <4> HIDE DEF E, rest
      <4>1. QED
        BY <2>3, <3>2, <3>3
    <3>5. H(s) = H(rest)
      BY <3>1
    <3>6. QED
      BY <2>4, <3>4, <3>5
  <2>7. QED
    BY <2>5, <2>6
<1>4. \A s \in SUBSET S : s \in G
  <2> HIDE DEF G
  <2>1. QED
    BY <1>2, <1>3, SubsetInduction
<1>5. S \cap T = T
  OBVIOUS
<1>6. QED
  BY <1>4, <1>5
=============================================================================
