----------------------------- MODULE SumLemmas -----------------------------
(***************************************************************************)
(* What the sum over a function of natural numbers is, as the community    *)
(* modules define it: FoldFunction takes the elements of the domain one by *)
(* one, in an order that CHOOSE picks, by a function that calls itself on  *)
(* smaller sets.  The lemmas show that this function exists, that there is *)
(* only one, and how the sum changes with one of the numbers.              *)
(*                                                                         *)
(* Induction is on the size of a set, as the search for a smallest         *)
(* counterexample: NatLessThanWellFounded and WFMin.                       *)
(***************************************************************************)
EXTENDS Integers, FiniteSetTheorems, WellFoundedInduction, Functions, TLAPS

SumOf(f) == FoldFunction(LAMBDA x, y : x + y, 0, f)

(* The element of s that the fold takes next. *)
Pick(s) == CHOOSE x \in s : TRUE

(* g[s] is what the fold of f returns for the part s of its domain. *)
SumAt(f, g, s) == IF s = {} THEN 0 ELSE f[Pick(s)] + g[s \ {Pick(s)}]

Sums(f, S, g) == g = [s \in SUBSET S |-> SumAt(f, g, s)]

(* ... and for the sets of at most n elements only. *)
SumsTo(f, S, g, n) ==
  \A s \in SUBSET S : Cardinality(s) <= n => g[s] = SumAt(f, g, s)

(* e is f with d more at a. *)
Raised(f, S, a, d, e) ==
  /\ e \in [S -> Nat]
  /\ \A x \in S : e[x] = IF x = a THEN f[x] + d ELSE f[x]
-----------------------------------------------------------------------------
(* The rest of a set is finite, with one element less. *)
LEMMA PickFacts ==
  ASSUME NEW S, IsFiniteSet(S), NEW s \in SUBSET S, s # {}
  PROVE  /\ Pick(s) \in s
         /\ s \ {Pick(s)} \in SUBSET S
         /\ IsFiniteSet(s) /\ Cardinality(s) \in Nat
         /\ Cardinality(s \ {Pick(s)}) = Cardinality(s) - 1
         /\ Cardinality(s \ {Pick(s)}) \in Nat
<1>1. Pick(s) \in s
  BY DEF Pick
<1>2. IsFiniteSet(s) /\ Cardinality(s) \in Nat
  BY FS_Subset, FS_CardinalityType
<1>3. /\ IsFiniteSet(s \ {Pick(s)})
      /\ Cardinality(s \ {Pick(s)}) = Cardinality(s) - 1
  BY <1>1, <1>2, FS_RemoveElement
<1> QED
  BY <1>1, <1>2, <1>3, FS_CardinalityType

(* A set of numbers that is not empty has a least element. *)
LEMMA LeastNat ==
  ASSUME NEW T, T \subseteq Nat, T # {}
  PROVE  \E n \in T : \A m \in T : n <= m
<1> DEFINE R == {ss \in Nat \X Nat : ss[1] < ss[2]}
<1>1. OpToRel(<, Nat) = R
  BY DEF OpToRel
<1>2. IsWellFoundedOn(R, Nat)
  BY <1>1, NatLessThanWellFounded
<1>3. \A m, n \in Nat : <<m, n>> \in R <=> m < n
  OBVIOUS
<1> HIDE DEF R
<1>4. \E n \in T : \A m \in T : ~ (<<m, n>> \in R)
  BY <1>2, WFMin
<1>5. PICK n \in T : \A m \in T : ~ (<<m, n>> \in R)
  BY <1>4
<1>6. ASSUME NEW m \in T PROVE n <= m
  <2>1. m \in Nat /\ n \in Nat
    OBVIOUS
  <2>2. ~ (m < n)
    BY <1>3, <1>5, <2>1
  <2> QED
    BY <2>1, <2>2
<1> QED
  BY <1>6

(* The fold's function is defined on all sets up to any size. *)
LEMMA SumsUpTo ==
  ASSUME NEW S, IsFiniteSet(S), NEW f \in [S -> Nat]
  PROVE  \A n \in Nat : \E g \in [SUBSET S -> Nat] : SumsTo(f, S, g, n)
<1> DEFINE Def(k) == \E g \in [SUBSET S -> Nat] : SumsTo(f, S, g, k)
           Bad == {k \in Nat : ~Def(k)}
<1>1. Def(0)
  <2> DEFINE g == [s \in SUBSET S |-> 0]
  <2>1. g \in [SUBSET S -> Nat]
    OBVIOUS
  <2>2. ASSUME NEW s \in SUBSET S, Cardinality(s) <= 0
        PROVE  g[s] = SumAt(f, g, s)
    <3>1. s = {}
      <4>1. IsFiniteSet(s) /\ Cardinality(s) \in Nat
        BY FS_Subset, FS_CardinalityType
      <4> QED
        BY <2>2, <4>1, FS_EmptySet
    <3> QED
      BY <3>1 DEF SumAt
  <2> QED
    BY <2>1, <2>2 DEF SumsTo
<1>2. ASSUME NEW k \in Nat, Def(k) PROVE Def(k + 1)
  <2>1. PICK g \in [SUBSET S -> Nat] : SumsTo(f, S, g, k)
    BY <1>2
  <2> DEFINE h == [s \in SUBSET S |->
                     IF Cardinality(s) <= k THEN g[s] ELSE SumAt(f, g, s)]
  <2>2. ASSUME NEW s \in SUBSET S PROVE SumAt(f, g, s) \in Nat
    <3>1. CASE s = {}
      BY <3>1 DEF SumAt
    <3>2. CASE s # {}
      <4>1. Pick(s) \in S /\ s \ {Pick(s)} \in SUBSET S
        BY <3>2, PickFacts
      <4> QED
        BY <3>2, <4>1 DEF SumAt
    <3> QED
      BY <3>1, <3>2
  <2>3. h \in [SUBSET S -> Nat]
    BY <2>2
  <2>4. ASSUME NEW s \in SUBSET S, Cardinality(s) <= k + 1
        PROVE  h[s] = SumAt(f, h, s)
    <3>1. h[s] = SumAt(f, g, s)
      BY <2>1 DEF SumsTo
    <3>2. CASE s = {}
      BY <3>1, <3>2 DEF SumAt
    <3>3. CASE s # {}
      <4>1. Cardinality(s \ {Pick(s)}) <= k /\ s \ {Pick(s)} \in SUBSET S
        BY <2>4, <3>3, PickFacts
      <4>2. h[s \ {Pick(s)}] = g[s \ {Pick(s)}]
        BY <4>1
      <4> HIDE DEF h
      <4> QED
        BY <3>1, <3>3, <4>2 DEF SumAt
    <3> QED
      BY <3>2, <3>3
  <2> HIDE DEF h
  <2> QED
    BY <2>3, <2>4 DEF SumsTo
<1> HIDE DEF Def
<1>3. Bad = {}
  <2> SUFFICES ASSUME Bad # {} PROVE FALSE
    OBVIOUS
  <2>1. PICK k \in Bad : \A m \in Bad : k <= m
    BY LeastNat
  <2>2. k \in Nat /\ k # 0
    BY <1>1
  <2>3. k - 1 \in Nat /\ k - 1 \notin Bad
    BY <2>1, <2>2
  <2>4. Def(k - 1)
    BY <2>3
  <2>5. Def((k - 1) + 1)
    BY <1>2, <2>3, <2>4
  <2>6. Def(k)
    <3>1. (k - 1) + 1 = k
      BY <2>2
    <3> QED
      BY <2>5, <3>1
  <2> QED
    BY <2>6
<1>4. \A n \in Nat : Def(n)
  BY <1>3
<1> QED
  BY <1>4 DEF Def

(* The fold's function exists. *)
LEMMA SumsExist ==
  ASSUME NEW S, IsFiniteSet(S), NEW f \in [S -> Nat]
  PROVE  \E g \in [SUBSET S -> Nat] : Sums(f, S, g)
<1>1. Cardinality(S) \in Nat
  BY FS_CardinalityType
<1>2. \A s \in SUBSET S : Cardinality(s) <= Cardinality(S)
  BY FS_Subset
<1>3. PICK g \in [SUBSET S -> Nat] : SumsTo(f, S, g, Cardinality(S))
  <2>1. \A n \in Nat : \E g \in [SUBSET S -> Nat] : SumsTo(f, S, g, n)
    BY SumsUpTo
  <2> QED
    BY <1>1, <2>1
<1>4. g = [s \in SUBSET S |-> SumAt(f, g, s)]
  BY <1>2, <1>3 DEF SumsTo
<1> QED
  BY <1>4 DEF Sums

(* Adding d to one number adds d to the sums of the sets it is in. *)
LEMMA SumsAdd ==
  ASSUME NEW S, IsFiniteSet(S), NEW f \in [S -> Nat],
         NEW a \in S, NEW d \in Nat, NEW e, Raised(f, S, a, d, e),
         NEW g \in [SUBSET S -> Nat], Sums(f, S, g),
         NEW h, Sums(e, S, h)
  PROVE  \A s \in SUBSET S : h[s] = IF a \in s THEN g[s] + d ELSE g[s]
<1> DEFINE Good(t) == h[t] = IF a \in t THEN g[t] + d ELSE g[t]
           Bad == {n \in Nat : \E t \in SUBSET S : Cardinality(t) = n /\ ~Good(t)}
<1>1. ASSUME NEW t \in SUBSET S
      PROVE  g[t] = SumAt(f, g, t) /\ h[t] = SumAt(e, h, t)
  BY DEF Sums
<1>2. Bad = {}
  <2> SUFFICES ASSUME Bad # {} PROVE FALSE
    OBVIOUS
  <2>1. PICK n \in Bad : \A m \in Bad : n <= m
    BY LeastNat
  <2>2. PICK t \in SUBSET S : Cardinality(t) = n /\ ~Good(t)
    BY <2>1
  <2>3. CASE t = {}
    BY <1>1, <2>2, <2>3 DEF SumAt
  <2>4. CASE t # {}
    <3> DEFINE p == Pick(t)
               u == t \ {p}
    <3>1. /\ p \in t /\ p \in S /\ u \in SUBSET S
          /\ Cardinality(u) \in Nat /\ Cardinality(u) < n
      BY <2>2, <2>4, PickFacts
    <3>2. Good(u)
      BY <2>1, <3>1
    <3>3. g[t] = f[p] + g[u] /\ h[t] = e[p] + h[u]
      BY <1>1, <2>4 DEF SumAt
    <3>4. g[u] \in Nat /\ f[p] \in Nat /\ e[p] = IF p = a THEN f[p] + d ELSE f[p]
      BY <3>1 DEF Raised
    <3>5. a \in t <=> (p = a \/ a \in u)
      BY <3>1
    <3>6. ~(p = a /\ a \in u)
      OBVIOUS
    <3> HIDE DEF p, u
    <3> QED
      BY <2>2, <3>2, <3>3, <3>4, <3>5, <3>6
  <2> QED
    BY <2>3, <2>4
<1> QED
  <2>1. \A s \in SUBSET S : Cardinality(s) \in Nat
    BY FS_Subset, FS_CardinalityType
  <2> QED
    BY <1>2, <2>1

(* There is one such function at most. *)
LEMMA SumsUnique ==
  ASSUME NEW S, IsFiniteSet(S), NEW f \in [S -> Nat],
         NEW g \in [SUBSET S -> Nat], Sums(f, S, g), NEW h, Sums(f, S, h)
  PROVE  h[S] = g[S]
<1>1. CASE S = {}
  BY <1>1 DEF Sums, SumAt
<1>2. CASE S # {}
  <2>1. PICK a \in S, d \in Nat : d = 0
    BY <1>2
  <2>2. Raised(f, S, a, d, f)
    BY <2>1 DEF Raised
  <2>3. \A s \in SUBSET S : h[s] = IF a \in s THEN g[s] + d ELSE g[s]
    BY <2>2, SumsAdd
  <2> QED
    BY <2>1, <2>3
<1> QED
  BY <1>1, <1>2

-----------------------------------------------------------------------------
(* SumOf is the fold's function at the whole domain. *)
LEMMA SumOfSums ==
  ASSUME NEW S, IsFiniteSet(S), NEW f \in [S -> Nat]
  PROVE  \E g \in [SUBSET S -> Nat] : Sums(f, S, g) /\ SumOf(f) = g[S]
<1> DEFINE c == CHOOSE g : g = [s \in SUBSET S |-> SumAt(f, g, s)]
<1>1. SumOf(f) = c[S]
  BY DEF SumOf, FoldFunction, FoldFunctionOnSet, MapThenFoldSet, SumAt, Pick
<1>2. PICK g \in [SUBSET S -> Nat] : Sums(f, S, g)
  BY SumsExist
<1>3. c = [s \in SUBSET S |-> SumAt(f, c, s)]
  <2>1. g = [s \in SUBSET S |-> SumAt(f, g, s)]
    BY <1>2 DEF Sums
  <2> QED
    BY <2>1
<1> HIDE DEF c
<1>4. Sums(f, S, c)
  BY <1>3 DEF Sums
<1>5. c[S] = g[S]
  BY <1>2, <1>4, SumsUnique
<1> QED
  BY <1>1, <1>2, <1>5

(* The sum is a number. *)
LEMMA SumOfType ==
  ASSUME NEW S, IsFiniteSet(S), NEW f \in [S -> Nat]
  PROVE  SumOf(f) \in Nat
<1>1. PICK g \in [SUBSET S -> Nat] : Sums(f, S, g) /\ SumOf(f) = g[S]
  BY SumOfSums
<1> QED
  BY <1>1

(* Adding d to one number adds d to the sum. *)
LEMMA SumOfAdd ==
  ASSUME NEW S, IsFiniteSet(S), NEW f \in [S -> Nat], NEW a \in S, NEW d \in Nat
  PROVE  SumOf([f EXCEPT ![a] = f[a] + d]) = SumOf(f) + d
<1> DEFINE e == [f EXCEPT ![a] = f[a] + d]
<1>1. e \in [S -> Nat] /\ Raised(f, S, a, d, e)
  BY DEF Raised
<1> HIDE DEF e
<1>2. PICK g \in [SUBSET S -> Nat] : Sums(f, S, g) /\ SumOf(f) = g[S]
  BY SumOfSums
<1>3. PICK h \in [SUBSET S -> Nat] : Sums(e, S, h) /\ SumOf(e) = h[S]
  BY <1>1, SumOfSums
<1>4. \A s \in SUBSET S : h[s] = IF a \in s THEN g[s] + d ELSE g[s]
  BY <1>1, <1>2, <1>3, SumsAdd
<1> QED
  BY <1>2, <1>3, <1>4 DEF e

(* A sum of zeros is zero. *)
LEMMA SumOfZero ==
  ASSUME NEW S, IsFiniteSet(S)
  PROVE  SumOf([x \in S |-> 0]) = 0
<1> DEFINE z == [x \in S |-> 0]
           g == [s \in SUBSET S |-> 0]
<1>1. z \in [S -> Nat] /\ g \in [SUBSET S -> Nat]
  OBVIOUS
<1>2. Sums(z, S, g)
  <2>1. ASSUME NEW s \in SUBSET S PROVE SumAt(z, g, s) = 0
    BY PickFacts DEF SumAt
  <2> QED
    BY <2>1 DEF Sums
<1>3. g[S] = 0
  OBVIOUS
<1> HIDE DEF g
<1>4. PICK h \in [SUBSET S -> Nat] : Sums(z, S, h) /\ SumOf(z) = h[S]
  BY <1>1, SumOfSums
<1>5. h[S] = g[S]
  <2> HIDE DEF z
  <2> QED
    BY <1>1, <1>2, <1>4, SumsUnique
<1> QED
  BY <1>3, <1>4, <1>5
=============================================================================
