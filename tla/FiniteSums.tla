------------------------------ MODULE FiniteSums ------------------------------
(***************************************************************************)
(* Sums over finite sets, as MapThenSumSet of the community modules folds   *)
(* them, and what the proofs about the sizes of files and replies need of  *)
(* them.  The library's induction theorems have an operator for parameter; *)
(* the induction used here speaks of a set instead, and rests on the       *)
(* library's theorem that a well-founded relation has minimal elements.    *)
(***************************************************************************)
EXTENDS Integers, FiniteSets, FiniteSetTheorems, WellFoundedInduction, TLAPS

\* The element the fold takes first.
Pick(s) == CHOOSE x \in s : TRUE

\* it is the recursive function of the fold of f over the subsets of S.
Folding(it, f, S) ==
  it = [s \in SUBSET S |->
          IF s = {} THEN 0 ELSE f[Pick(s)] + it[s \ {Pick(s)}]]

Sum(f, S) == (CHOOSE it : Folding(it, f, S))[S]

-----------------------------------------------------------------------------
(* Induction.                                                              *)

\* The order of the natural numbers as a relation.
LEMMA NatOrder ==
  \E R : IsWellFoundedOn(R, Nat) /\ \A x, y \in Nat : (<<x, y>> \in R) <=> (x < y)
<1>1. IsWellFoundedOn(OpToRel(<, Nat), Nat)
  BY NatLessThanWellFounded
<1>2. \A x, y \in Nat : (<<x, y>> \in OpToRel(<, Nat)) <=> (x < y)
  BY DEF OpToRel
<1> QED
  BY <1>1, <1>2

\* A set of natural numbers has a least element.
LEMMA LeastNumber ==
  ASSUME NEW T, T \subseteq Nat, T # {}
  PROVE  \E n \in T : \A k \in T : n <= k
<1>1. PICK R : IsWellFoundedOn(R, Nat) /\ \A x, y \in Nat : (<<x, y>> \in R) <=> (x < y)
  BY NatOrder
<1>2. IsWellFoundedOn(R, Nat)
  BY <1>1
<1>3. \E x \in T : \A y \in T : ~(<<y, x>> \in R)
  BY <1>2, WFMin
<1>4. \A x, y \in Nat : (<<x, y>> \in R) <=> (x < y)
  BY <1>1
<1>5. \E x \in T : \A y \in T : ~(y < x)
  BY <1>3, <1>4, Zenon
<1> QED
  BY <1>5

\* A set of subsets of a finite set that holds each one whose proper subsets
\* it holds, holds them all.
LEMMA SubsetInduction ==
  ASSUME NEW S, IsFiniteSet(S), NEW U,
         \A R \in SUBSET S : (\A Q \in SUBSET R : Q # R => Q \in U) => R \in U
  PROVE  \A R \in SUBSET S : R \in U
<1> SUFFICES ASSUME NEW R0 \in SUBSET S, R0 \notin U PROVE FALSE
  OBVIOUS
<1> DEFINE T == {Cardinality(R) : R \in {Q \in SUBSET S : Q \notin U}}
<1>1. \A R \in SUBSET S : IsFiniteSet(R) /\ Cardinality(R) \in Nat
  BY FS_Subset, FS_CardinalityType
<1>2. T \subseteq Nat /\ T # {}
  BY <1>1
<1>3. PICK n \in T : \A k \in T : n <= k
  <2> HIDE DEF T
  <2> QED
    BY <1>2, LeastNumber
<1>4. PICK R \in SUBSET S : R \notin U /\ n = Cardinality(R)
  OBVIOUS
<1>5. ASSUME NEW Q \in SUBSET R, Q # R, Q \notin U PROVE FALSE
  <2>1. Cardinality(Q) \in T
    BY <1>5
  <2>2. Cardinality(Q) < Cardinality(R)
    BY <1>1, <1>5, FS_Subset
  <2>3. n <= Cardinality(Q) /\ n \in Nat /\ Cardinality(Q) \in Nat
    BY <1>1, <1>2, <1>3, <2>1
  <2> HIDE DEF T
  <2> QED
    BY <1>4, <2>2, <2>3
<1> QED
  BY <1>4, <1>5

-----------------------------------------------------------------------------
(* The fold is what its recursive definition says.                         *)

LEMMA PickIn == \A s : s # {} => Pick(s) \in s
  BY DEF Pick

\* A fold over a set is one over its subsets.
LEMMA FoldingRestricts ==
  ASSUME NEW f, NEW S, NEW it, Folding(it, f, S), NEW R \in SUBSET S
  PROVE  Folding([s \in SUBSET R |-> it[s]], f, R)
<1> DEFINE g == [s \in SUBSET R |-> it[s]]
<1>1. ASSUME NEW s \in SUBSET R
      PROVE  g[s] = IF s = {} THEN 0 ELSE f[Pick(s)] + g[s \ {Pick(s)}]
  <2>1. g[s \ {Pick(s)}] = it[s \ {Pick(s)}] /\ g[s] = it[s]
    OBVIOUS
  <2>2. it[s] = IF s = {} THEN 0 ELSE f[Pick(s)] + it[s \ {Pick(s)}]
    BY DEF Folding
  <2> QED
    BY <2>1, <2>2
<1>2. g = [s \in SUBSET R |-> IF s = {} THEN 0 ELSE f[Pick(s)] + g[s \ {Pick(s)}]]
  BY <1>1
<1> QED
  BY <1>2 DEF Folding

\* There is only one.
LEMMA FoldingUnique ==
  ASSUME NEW f, NEW S, IsFiniteSet(S), NEW g, Folding(g, f, S), NEW h, Folding(h, f, S)
  PROVE  g = h
<1> DEFINE U == {s \in SUBSET S : g[s] = h[s]}
<1>1. ASSUME NEW R \in SUBSET S, \A Q \in SUBSET R : Q # R => Q \in U
      PROVE  R \in U
  <2>1. /\ g[R] = IF R = {} THEN 0 ELSE f[Pick(R)] + g[R \ {Pick(R)}]
        /\ h[R] = IF R = {} THEN 0 ELSE f[Pick(R)] + h[R \ {Pick(R)}]
    BY DEF Folding
  <2>2. R # {} => g[R \ {Pick(R)}] = h[R \ {Pick(R)}]
    BY <1>1, PickIn
  <2> QED
    BY <2>1, <2>2
<1>2. \A R \in SUBSET S : R \in U
  <2> HIDE DEF U
  <2> QED
    BY <1>1, SubsetInduction
<1>3. /\ g = [s \in SUBSET S |-> g[s]]
      /\ h = [s \in SUBSET S |-> h[s]]
  BY DEF Folding
<1> QED
  BY <1>2, <1>3

\* There is one.
LEMMA FoldingExists ==
  ASSUME NEW f, NEW S, IsFiniteSet(S)
  PROVE  \E it : Folding(it, f, S)
<1> DEFINE U == {R \in SUBSET S : \E it : Folding(it, f, R)}
<1>1. ASSUME NEW R \in SUBSET S, \A Q \in SUBSET R : Q # R => Q \in U
      PROVE  R \in U
  <2> DEFINE it == [s \in SUBSET R |->
                      IF s = {} THEN 0 ELSE f[Pick(s)] + Sum(f, s \ {Pick(s)})]
  <2>1. ASSUME NEW Q \in SUBSET R, Q # R
        PROVE  it[Q] = Sum(f, Q)
    <3> DEFINE g == CHOOSE x : Folding(x, f, Q)
    <3>1. Folding(g, f, Q) /\ Sum(f, Q) = g[Q]
      BY <1>1, <2>1 DEF Sum
    <3> HIDE DEF g
    <3>2. g[Q] = IF Q = {} THEN 0 ELSE f[Pick(Q)] + g[Q \ {Pick(Q)}]
      BY <3>1 DEF Folding
    <3>3. CASE Q = {}
      BY <3>1, <3>2, <3>3
    <3>4. CASE Q # {}
      <4> DEFINE P == Q \ {Pick(Q)}
                 r == [s \in SUBSET P |-> g[s]]
                 h == CHOOSE x : Folding(x, f, P)
      <4>1. P \in SUBSET Q /\ P \in SUBSET R /\ P # R /\ IsFiniteSet(P)
        BY <2>1, FS_Subset
      <4>2. Folding(r, f, P)
        BY <3>1, <4>1, FoldingRestricts
      <4>3. Folding(h, f, P) /\ Sum(f, P) = h[P]
        <5> HIDE DEF r, P
        <5> QED
          BY <4>2 DEF Sum
      <4>4. r = h
        <5> HIDE DEF r, h, P
        <5> QED
          BY <4>1, <4>2, <4>3, FoldingUnique
      <4>5. r[P] = g[P]
        OBVIOUS
      <4>6. Sum(f, P) = g[P]
        <5> HIDE DEF r, h, P
        <5> QED
          BY <4>3, <4>4, <4>5
      <4>7. it[Q] = f[Pick(Q)] + Sum(f, P)
        BY <3>4
      <4> QED
        BY <3>1, <3>2, <3>4, <4>6, <4>7
    <3> QED
      BY <3>3, <3>4
  <2>2. ASSUME NEW s \in SUBSET R
        PROVE  it[s] = IF s = {} THEN 0 ELSE f[Pick(s)] + it[s \ {Pick(s)}]
    <3>1. CASE s = {}
      BY <3>1
    <3>2. CASE s # {}
      <4>1. s \ {Pick(s)} \in SUBSET R /\ s \ {Pick(s)} # R
        BY <3>2, PickIn
      <4>2. it[s \ {Pick(s)}] = Sum(f, s \ {Pick(s)})
        <5> HIDE DEF it
        <5> QED
          BY <2>1, <4>1
      <4>3. it[s] = f[Pick(s)] + Sum(f, s \ {Pick(s)})
        BY <3>2
      <4> QED
        BY <3>2, <4>2, <4>3
    <3> QED
      BY <3>1, <3>2
  <2>3. it = [s \in SUBSET R |-> it[s]]
    OBVIOUS
  <2>4. Folding(it, f, R)
    <3> HIDE DEF it
    <3>1. it = [s \in SUBSET R |-> IF s = {} THEN 0 ELSE f[Pick(s)] + it[s \ {Pick(s)}]]
      BY <2>2, <2>3
    <3> QED
      BY <3>1 DEF Folding
  <2> QED
    BY <2>4
<1>2. \A R \in SUBSET S : R \in U
  <2> HIDE DEF U
  <2> QED
    BY <1>1, SubsetInduction
<1> QED
  BY <1>2

-----------------------------------------------------------------------------
(* What a sum is.                                                          *)

\* The equation of the fold.
LEMMA SumFolds ==
  ASSUME NEW f, NEW S, IsFiniteSet(S)
  PROVE  Sum(f, S) = IF S = {} THEN 0 ELSE f[Pick(S)] + Sum(f, S \ {Pick(S)})
<1> DEFINE g == CHOOSE x : Folding(x, f, S)
           P == S \ {Pick(S)}
           h == CHOOSE x : Folding(x, f, P)
           r == [s \in SUBSET P |-> g[s]]
<1>1. Folding(g, f, S) /\ Sum(f, S) = g[S]
  BY FoldingExists DEF Sum
<1>2. IsFiniteSet(P) /\ P \in SUBSET S
  BY FS_Subset
<1>3. Folding(h, f, P) /\ Sum(f, P) = h[P]
  <2> HIDE DEF P
  <2> QED
    BY <1>2, FoldingExists DEF Sum
<1>4. Folding(r, f, P)
  <2> HIDE DEF P, g
  <2> QED
    BY <1>1, <1>2, FoldingRestricts
<1>5. r[P] = g[P]
  OBVIOUS
<1>6. r = h
  <2> HIDE DEF r, h, P
  <2> QED
    BY <1>2, <1>3, <1>4, FoldingUnique
<1>7. g[S] = IF S = {} THEN 0 ELSE f[Pick(S)] + g[P]
  <2> HIDE DEF g
  <2> QED
    BY <1>1 DEF Folding
<1> HIDE DEF g, h, r
<1> QED
  BY <1>1, <1>3, <1>5, <1>6, <1>7

\* The sum over nothing.
LEMMA SumEmpty == \A f : Sum(f, {}) = 0
  BY SumFolds, FS_EmptySet

\* A sum of natural numbers is one.
LEMMA SumType ==
  ASSUME NEW f, NEW S, IsFiniteSet(S), \A x \in S : f[x] \in Nat
  PROVE  Sum(f, S) \in Nat
<1> DEFINE U == {R \in SUBSET S : Sum(f, R) \in Nat}
<1>1. ASSUME NEW R \in SUBSET S, \A Q \in SUBSET R : Q # R => Q \in U
      PROVE  R \in U
  <2>1. IsFiniteSet(R)
    BY FS_Subset
  <2>2. CASE R = {}
    BY <2>2, SumEmpty
  <2>3. CASE R # {}
    <3>1. Pick(R) \in R /\ Sum(f, R \ {Pick(R)}) \in Nat
      BY <1>1, <2>3, PickIn
    <3>2. Sum(f, R) = f[Pick(R)] + Sum(f, R \ {Pick(R)})
      BY <2>1, <2>3, SumFolds
    <3>3. f[Pick(R)] \in Nat
      BY <3>1
    <3> QED
      BY <3>1, <3>2, <3>3
  <2> QED
    BY <2>2, <2>3
<1>2. \A R \in SUBSET S : R \in U
  <2> HIDE DEF U
  <2> QED
    BY <1>1, SubsetInduction
<1> QED
  BY <1>2

\* The order of the summands does not matter: any of them may be taken first.
LEMMA SumRemove ==
  ASSUME NEW f, NEW S, IsFiniteSet(S), \A x \in S : f[x] \in Nat, NEW y \in S
  PROVE  Sum(f, S) = f[y] + Sum(f, S \ {y})
<1> DEFINE U == {R \in SUBSET S : \A x \in R : Sum(f, R) = f[x] + Sum(f, R \ {x})}
<1>1. ASSUME NEW R \in SUBSET S, \A Q \in SUBSET R : Q # R => Q \in U
      PROVE  R \in U
  <2>1. IsFiniteSet(R) /\ \A Q \in SUBSET R : Sum(f, Q) \in Nat
    <3>1. \A Q \in SUBSET S : IsFiniteSet(Q)
      BY FS_Subset
    <3> QED
      BY <3>1, SumType
  <2>2. ASSUME NEW x \in R
        PROVE  Sum(f, R) = f[x] + Sum(f, R \ {x})
    <3> DEFINE c == Pick(R)
    <3>1. c \in R /\ Sum(f, R) = f[c] + Sum(f, R \ {c})
      BY <2>1, PickIn, SumFolds
    <3> HIDE DEF c
    <3>2. CASE x = c
      BY <3>1, <3>2
    <3>3. CASE x # c
      <4>1. /\ R \ {c} \in U /\ R \ {x} \in U
            /\ x \in R \ {c} /\ c \in R \ {x}
        BY <1>1, <3>1, <3>3
      <4>2. /\ Sum(f, R \ {c}) = f[x] + Sum(f, (R \ {c}) \ {x})
            /\ Sum(f, R \ {x}) = f[c] + Sum(f, (R \ {x}) \ {c})
        BY <4>1
      <4>3. (R \ {c}) \ {x} = (R \ {x}) \ {c}
        OBVIOUS
      <4>4. f[x] \in Nat /\ f[c] \in Nat /\ Sum(f, (R \ {c}) \ {x}) \in Nat
        BY <2>1, <3>1
      <4> HIDE DEF U
      <4> QED
        BY <3>1, <4>2, <4>3, <4>4
    <3> QED
      BY <3>2, <3>3
  <2> QED
    BY <2>2
<1>2. \A R \in SUBSET S : R \in U
  <2> HIDE DEF U
  <2> QED
    BY <1>1, SubsetInduction
<1> QED
  BY <1>2

\* Adding an element adds its summand.
LEMMA SumAdd ==
  ASSUME NEW f, NEW S, IsFiniteSet(S), NEW y, y \notin S,
         \A x \in S \union {y} : f[x] \in Nat
  PROVE  Sum(f, S \union {y}) = Sum(f, S) + f[y]
<1>1. IsFiniteSet(S \union {y}) /\ (S \union {y}) \ {y} = S
  BY FS_AddElement
<1>2. Sum(f, S \union {y}) = f[y] + Sum(f, (S \union {y}) \ {y})
  BY <1>1, SumRemove
<1>3. Sum(f, S) \in Nat /\ f[y] \in Nat
  BY SumType
<1> QED
  BY <1>1, <1>2, <1>3

\* A sum grows with its summands.
LEMMA SumMonotone ==
  ASSUME NEW f, NEW g, NEW S, IsFiniteSet(S),
         \A x \in S : f[x] \in Nat /\ g[x] \in Nat /\ f[x] <= g[x]
  PROVE  Sum(f, S) <= Sum(g, S)
<1> DEFINE U == {R \in SUBSET S : Sum(f, R) <= Sum(g, R)}
<1>1. ASSUME NEW R \in SUBSET S, \A Q \in SUBSET R : Q # R => Q \in U
      PROVE  R \in U
  <2>1. IsFiniteSet(R)
    BY FS_Subset
  <2>2. CASE R = {}
    BY <2>2, SumEmpty
  <2>3. CASE R # {}
    <3> DEFINE P == R \ {Pick(R)}
    <3>1. Pick(R) \in R /\ Sum(f, P) <= Sum(g, P)
      BY <1>1, <2>3, PickIn
    <3>2. Sum(f, R) = f[Pick(R)] + Sum(f, P) /\ Sum(g, R) = g[Pick(R)] + Sum(g, P)
      BY <2>1, <2>3, SumFolds
    <3>3. IsFiniteSet(P) /\ P \subseteq S
      BY FS_Subset
    <3>4. Sum(f, P) \in Nat /\ Sum(g, P) \in Nat
      <4> HIDE DEF P
      <4> QED
        BY <3>3, SumType
    <3>5. f[Pick(R)] \in Nat /\ g[Pick(R)] \in Nat /\ f[Pick(R)] <= g[Pick(R)]
      BY <3>1
    <3> HIDE DEF P
    <3>6. Sum(f, R) <= Sum(g, R)
      BY <3>1, <3>2, <3>4, <3>5
    <3> QED
      BY <3>6
  <2> QED
    BY <2>2, <2>3
<1>2. \A R \in SUBSET S : R \in U
  <2> HIDE DEF U
  <2> QED
    BY <1>1, SubsetInduction
<1> QED
  BY <1>2
=============================================================================
