----------------------------- MODULE DataTheorems ----------------------------
(***************************************************************************)
(* Induction over the natural numbers and over finite sets, for sets given *)
(* by a predicate, and what follows from it for the sums and folds of the  *)
(* community modules: they exist, and a sum does not depend on the order   *)
(* of summation.  Then the elements, prefixes and suffixes of sequences.   *)
(***************************************************************************)
EXTENDS Integers, SequencesExt, FiniteSetTheorems,
        SequenceTheorems, WellFoundedInduction, TLAPS

LEMMA LeastNatural ==
  ASSUME NEW T \in SUBSET Nat, T # {}
  PROVE  \E x \in T : \A y \in T : x <= y
<1>1. \E x \in T : \A y \in T : ~(<<y, x>> \in OpToRel(<, Nat))
  BY NatLessThanWellFounded, WFMin
<1>2. PICK x \in T : \A y \in T : ~(<<y, x>> \in OpToRel(<, Nat))
  BY <1>1
<1>3. \A y \in Nat : y < x => <<y, x>> \in OpToRel(<, Nat)
  BY DEF OpToRel
<1>4. \A y \in T : ~(y < x)
  BY <1>2, <1>3, Zenon
<1>5. \A y \in T : x <= y
  BY <1>4
<1>6. QED
  BY <1>5

LEMMA MinNatural ==
  ASSUME NEW s \in SUBSET Nat, s # {}
  PROVE  Min(s) \in s /\ \A y \in s : Min(s) <= y
<1>1. \E x \in s : \A y \in s : x <= y
  BY LeastNatural
<1>2. QED
  BY <1>1 DEF Min

LEMMA MinOfTwo == \A a, b \in Int : Min({a, b}) = IF a <= b THEN a ELSE b
<1> SUFFICES ASSUME NEW a \in Int, NEW b \in Int
             PROVE  Min({a, b}) = IF a <= b THEN a ELSE b
  OBVIOUS
<1>1. \E x \in {a, b} : \A y \in {a, b} : x <= y
  <2>1. a <= b \/ b <= a
    OBVIOUS
  <2>2. QED
    BY <2>1
<1>2. Min({a, b}) \in {a, b} /\ \A y \in {a, b} : Min({a, b}) <= y
  BY <1>1 DEF Min
<1>3. QED
  BY <1>2

LEMMA MaxOfTwo == \A a, b \in Int : Max({a, b}) = IF a >= b THEN a ELSE b
<1> SUFFICES ASSUME NEW a \in Int, NEW b \in Int
             PROVE  Max({a, b}) = IF a >= b THEN a ELSE b
  OBVIOUS
<1>1. \E x \in {a, b} : \A y \in {a, b} : x >= y
  <2>1. a >= b \/ b >= a
    OBVIOUS
  <2>2. QED
    BY <2>1
<1>2. Max({a, b}) \in {a, b} /\ \A y \in {a, b} : Max({a, b}) >= y
  BY <1>1 DEF Max
<1>3. QED
  BY <1>2

LEMMA NatInduct ==
  ASSUME NEW T, 0 \in T, \A n \in Nat : n \in T => n + 1 \in T
  PROVE  Nat \subseteq T
<1>1. SUFFICES ASSUME Nat \ T # {} PROVE FALSE
  OBVIOUS
<1>2. PICK x \in Nat \ T : \A y \in Nat \ T : x <= y
  BY <1>1, LeastNatural
<1>3. x # 0 /\ x - 1 \in Nat
  BY <1>2
<1>4. x - 1 \in T
  BY <1>2, <1>3
<1>5. QED
  BY <1>2, <1>3, <1>4

\* A function defined by recursion over the numbers up to n.
IsRecursion(g, n, V, base, step) ==
  g \in [0..n -> V] /\ g[0] = base /\ \A k \in 1..n : g[k] = step[g[k - 1]]

LEMMA RecursionExists ==
  ASSUME NEW n \in Nat, NEW V, NEW base \in V, NEW step \in [V -> V]
  PROVE  \E g : IsRecursion(g, n, V, base, step)
<1> DEFINE Solves(g, m) ==
             g \in [0..m -> V] /\ g[0] = base /\ \A k \in 1..m : g[k] = step[g[k - 1]]
           T == {m \in Nat : \E g : Solves(g, m)}
<1>1. 0 \in T
  <2>1. Solves([k \in 0..0 |-> base], 0)
    OBVIOUS
  <2> HIDE DEF Solves
  <2>2. QED
    BY <2>1
<1>2. ASSUME NEW m \in Nat, m \in T PROVE m + 1 \in T
  <2>1. PICK g : Solves(g, m)
    BY <1>2
  <2> DEFINE h == [k \in 0..(m + 1) |-> IF k = m + 1 THEN step[g[m]] ELSE g[k]]
  <2>2. h \in [0..(m + 1) -> V]
    <3>1. step[g[m]] \in V
      BY <2>1
    <3>2. \A k \in 0..(m + 1) : k # m + 1 => k \in 0..m
      OBVIOUS
    <3>3. QED
      BY <2>1, <3>1, <3>2
  <2>3. h[0] = base
    BY <2>1
  <2>4. ASSUME NEW k \in 1..(m + 1) PROVE h[k] = step[h[k - 1]]
    <3>1. CASE k = m + 1
      BY <3>1
    <3>2. CASE k # m + 1
      <4>1. k \in 1..m /\ k - 1 \in 0..m /\ k - 1 # m + 1
        BY <3>2
      <4>2. QED
        BY <2>1, <4>1
    <3>3. QED
      BY <3>1, <3>2
  <2>5. Solves(h, m + 1)
    BY <2>2, <2>3, <2>4
  <2> HIDE DEF Solves
  <2>6. QED
    BY <2>5
<1>3. Nat \subseteq T
  <2> HIDE DEF T
  <2>1. QED
    BY <1>1, <1>2, NatInduct
<1>4. QED
  BY <1>3 DEF IsRecursion

LEMMA SubsetInduct ==
  ASSUME NEW S, IsFiniteSet(S), NEW T,
         \A s \in SUBSET S : (\A r \in SUBSET s : r # s => r \in T) => s \in T
  PROVE  SUBSET S \subseteq T
<1> DEFINE U == {n \in Nat : \A s \in SUBSET S : Cardinality(s) <= n => s \in T}
<1>1. \A s \in SUBSET S : IsFiniteSet(s) /\ Cardinality(s) \in Nat
  BY FS_Subset, FS_CardinalityType
<1>2. 0 \in U
  <2>1. ASSUME NEW s \in SUBSET S, Cardinality(s) <= 0 PROVE s \in T
    <3>1. s = {}
      BY <1>1, <2>1, FS_EmptySet
    <3>2. QED
      BY <3>1
  <2>2. QED
    BY <2>1
<1>3. ASSUME NEW n \in Nat, n \in U PROVE n + 1 \in U
  <2>1. ASSUME NEW s \in SUBSET S, Cardinality(s) <= n + 1 PROVE s \in T
    <3>1. ASSUME NEW r \in SUBSET s, r # s PROVE r \in T
      <4>1. Cardinality(r) <= Cardinality(s) /\ Cardinality(r) # Cardinality(s)
        BY <1>1, <3>1, FS_Subset
      <4>2. r \in SUBSET S /\ Cardinality(r) \in Nat /\ Cardinality(s) \in Nat
        BY <1>1
      <4>3. Cardinality(r) <= n
        BY <2>1, <4>1, <4>2
      <4>4. QED
        BY <1>3, <4>2, <4>3
    <3>2. QED
      BY <3>1
  <2>2. QED
    BY <2>1
<1>4. Nat \subseteq U
  <2> HIDE DEF U
  <2>1. QED
    BY <1>2, <1>3, NatInduct
<1>5. ASSUME NEW s \in SUBSET S PROVE s \in T
  <2>1. Cardinality(s) \in Nat /\ Cardinality(s) <= Cardinality(s)
    BY <1>1
  <2>2. QED
    BY <1>4, <2>1
<1>6. QED
  BY <1>5

-----------------------------------------------------------------------------
(* recursion over a finite set *)

Picks(pick, S) == \A s \in SUBSET S : s # {} => pick[s] \in s

\* g, on the subsets of S, takes the elements off one by one in the order given
\* by pick.
IsFold(g, S, V, base, step, pick) ==
  /\ g \in [SUBSET S -> V]
  /\ \A s \in SUBSET S :
       g[s] = IF s = {} THEN base ELSE step[pick[s]][g[s \ {pick[s]}]]

LEMMA FoldExists ==
  ASSUME NEW S, IsFiniteSet(S), NEW V, NEW base \in V, NEW step \in [S -> [V -> V]],
         NEW pick, Picks(pick, S)
  PROVE  \E g : IsFold(g, S, V, base, step, pick)
<1> DEFINE Small(n) == {s \in SUBSET S : Cardinality(s) <= n}
           Rest(s) == s \ {pick[s]}
           Solves(g, n) ==
             /\ g \in [Small(n) -> V]
             /\ \A s \in Small(n) :
                  g[s] = IF s = {} THEN base ELSE step[pick[s]][g[Rest(s)]]
           U == {n \in Nat : \E g : Solves(g, n)}
<1>1. \A s \in SUBSET S : IsFiniteSet(s) /\ Cardinality(s) \in Nat
  BY FS_Subset, FS_CardinalityType
<1>2. 0 \in U
  <2>1. \A s \in Small(0) : s = {}
    BY <1>1, FS_EmptySet
  <2>2. Solves([s \in Small(0) |-> base], 0)
    BY <2>1
  <2> HIDE DEF Solves
  <2>3. QED
    BY <2>2
<1>3. ASSUME NEW n \in Nat, n \in U PROVE n + 1 \in U
  <2>1. PICK g : Solves(g, n)
    BY <1>3
  <2> DEFINE h == [s \in Small(n + 1) |->
                     IF s = {} THEN base ELSE step[pick[s]][g[Rest(s)]]]
  <2>2. ASSUME NEW s \in Small(n + 1), s # {}
        PROVE  pick[s] \in S /\ Rest(s) \in Small(n) /\ Rest(s) \in Small(n + 1)
    <3>1. pick[s] \in s
      BY <2>2 DEF Picks
    <3>2. Cardinality(Rest(s)) = Cardinality(s) - 1
      BY <1>1, <3>1, FS_RemoveElement
    <3>3. Cardinality(s) \in Nat /\ Rest(s) \in SUBSET S
      BY <1>1
    <3>4. QED
      BY <3>1, <3>2, <3>3
  <2>3. h \in [Small(n + 1) -> V]
    <3>1. ASSUME NEW s \in Small(n + 1), s # {}
          PROVE  step[pick[s]][g[Rest(s)]] \in V
      BY <2>1, <2>2, <3>1
    <3>2. QED
      BY <3>1
  <2>4. ASSUME NEW s \in Small(n + 1)
        PROVE  h[s] = IF s = {} THEN base ELSE step[pick[s]][h[Rest(s)]]
    <3>1. s # {} => h[Rest(s)] = g[Rest(s)]
      BY <2>1, <2>2
    <3>2. QED
      BY <3>1
  <2>5. Solves(h, n + 1)
    BY <2>3, <2>4
  <2> HIDE DEF Solves
  <2>6. QED
    BY <2>5
<1>4. Nat \subseteq U
  <2> HIDE DEF U
  <2>1. QED
    BY <1>2, <1>3, NatInduct
<1>5. PICK g : Solves(g, Cardinality(S))
  BY <1>1, <1>4
<1>6. Small(Cardinality(S)) = SUBSET S
  BY <1>1, FS_Subset
<1>7. QED
  BY <1>5, <1>6 DEF IsFold

-----------------------------------------------------------------------------
(* folds of a sequence, which start from its last position *)

LEMMA MaxNatural ==
  ASSUME NEW n \in Nat, NEW s \in SUBSET (1..n), s # {}
  PROVE  Max(s) \in s /\ \A y \in s : y <= Max(s)
<1> DEFINE T == {n - y : y \in s}
<1>1. T \in SUBSET Nat /\ T # {}
  <2>1. \A y \in s : n - y \in Nat
    OBVIOUS
  <2>2. QED
    BY <2>1
<1>2. PICK z \in T : \A t \in T : z <= t
  <2> HIDE DEF T
  <2>1. QED
    BY <1>1, LeastNatural
<1>3. PICK x \in s : z = n - x
  OBVIOUS
<1>4. \A y \in s : x >= y
  <2>1. \A y \in s : n - x <= n - y
    BY <1>2, <1>3
  <2>2. QED
    BY <2>1
<1>5. Max(s) \in s /\ \A y \in s : Max(s) >= y
  BY <1>4 DEF Max
<1>6. QED
  BY <1>5

\* g takes the positions of a sequence of length n off one by one, the last
\* first, as FoldLeft does.
IsLeftFold(g, n, V, base, step) ==
  /\ g \in [SUBSET (1..n) -> V]
  /\ g[{}] = base
  /\ \A d \in SUBSET (1..n) : d # {} =>
       Max(d) \in 1..n /\ g[d] = step[Max(d)][g[d \ {Max(d)}]]

LEMMA LeftFoldExists ==
  ASSUME NEW n \in Nat, NEW V, NEW base \in V, NEW step \in [1..n -> [V -> V]]
  PROVE  \E g : IsLeftFold(g, n, V, base, step)
<1> DEFINE last == [d \in SUBSET (1..n) |-> Max(d)]
<1>1. \A d \in SUBSET (1..n) : d # {} => Max(d) \in d
  BY MaxNatural
<1>2. Picks(last, 1..n)
  BY <1>1 DEF Picks
<1>3. IsFiniteSet(1..n)
  BY FS_Interval
<1>4. PICK g : IsFold(g, 1..n, V, base, step, last)
  <2> HIDE DEF last
  <2>1. QED
    BY <1>2, <1>3, FoldExists, Zenon
<1>5. ASSUME NEW d \in SUBSET (1..n), d # {}
      PROVE  Max(d) \in 1..n /\ g[d] = step[Max(d)][g[d \ {Max(d)}]]
  BY <1>1, <1>4, <1>5 DEF IsFold
<1>6. g \in [SUBSET (1..n) -> V] /\ g[{}] = base
  BY <1>4 DEF IsFold
<1>7. QED
  BY <1>5, <1>6 DEF IsLeftFold

\* The last position of a prefix, and what is left without it.
LEMMA LastPosition ==
  ASSUME NEW k \in Nat \ {0}
  PROVE  1..k # {} /\ Max(1..k) = k /\ (1..k) \ {k} = 1..(k - 1)
<1>1. k \in 1..k /\ 1..k \in SUBSET (1..k)
  OBVIOUS
<1>2. Max(1..k) \in 1..k /\ k <= Max(1..k)
  BY <1>1, MaxNatural
<1>3. QED
  BY <1>1, <1>2

-----------------------------------------------------------------------------
(* what SumFunctionOnSet computes *)

\* The element a sum takes off a set first.
First(s) == CHOOSE x \in s : TRUE

LEMMA FirstIn == ASSUME NEW s, s # {} PROVE First(s) \in s
BY DEF First

\* The recursive function inside SumFunctionOnSet.
IsSums(g, f, S) ==
  g = [s \in SUBSET S |->
         IF s = {} THEN 0 ELSE f[First(s)] + g[s \ {First(s)}]]

Sums(f, S) == CHOOSE g : IsSums(g, f, S)

LEMMA SumIsSums == \A f, S : SumFunctionOnSet(f, S) = Sums(f, S)[S]
BY DEF SumFunctionOnSet, FoldFunctionOnSet, MapThenFoldSet, Sums, IsSums, First

Summable(f, S) == \A x \in S : f[x] \in Nat

\* The recursion of Sums has a solution on a finite set.
LEMMA SumsExist ==
  ASSUME NEW f, NEW S, IsFiniteSet(S), Summable(f, S)
  PROVE  \E g : IsSums(g, f, S)
<1> DEFINE add == [x \in S |-> [n \in Nat |-> f[x] + n]]
           first == [s \in SUBSET S |-> First(s)]
<1>1. add \in [S -> [Nat -> Nat]]
  BY DEF Summable
<1>2. Picks(first, S)
  BY FirstIn DEF Picks
<1>3. PICK g : IsFold(g, S, Nat, 0, add, first)
  <2>1. 0 \in Nat
    OBVIOUS
  <2> HIDE DEF add, first
  <2>2. QED
    BY <1>1, <1>2, <2>1, FoldExists, Zenon
<1>4. ASSUME NEW s \in SUBSET S
      PROVE  g[s] = IF s = {} THEN 0 ELSE f[First(s)] + g[s \ {First(s)}]
  BY <1>3, FirstIn DEF IsFold
<1>5. g = [s \in SUBSET S |->
             IF s = {} THEN 0 ELSE f[First(s)] + g[s \ {First(s)}]]
  BY <1>3, <1>4 DEF IsFold
<1>6. QED
  BY <1>5 DEF IsSums

LEMMA SumsEquation ==
  ASSUME NEW f, NEW S, IsFiniteSet(S), Summable(f, S), NEW s \in SUBSET S
  PROVE  Sums(f, S)[s] =
           IF s = {} THEN 0 ELSE f[First(s)] + Sums(f, S)[s \ {First(s)}]
<1>1. IsSums(Sums(f, S), f, S)
  BY SumsExist DEF Sums
<1>2. QED
  BY <1>1 DEF IsSums

\* On the sets where two functions agree, their sums agree; which larger set
\* the recursion started from does not matter.
LEMMA SumsAgree ==
  ASSUME NEW f, NEW g, NEW R, NEW S, IsFiniteSet(R), IsFiniteSet(S),
         Summable(f, R), Summable(g, S)
  PROVE  \A s \in SUBSET (R \cap S) :
           (\A x \in s : f[x] = g[x]) => Sums(f, R)[s] = Sums(g, S)[s]
<1> DEFINE Both == R \cap S
           T == {s \in SUBSET Both :
                   (\A x \in s : f[x] = g[x]) => Sums(f, R)[s] = Sums(g, S)[s]}
<1>1. ASSUME NEW s \in SUBSET Both,
             \A r \in SUBSET s : r # s => r \in T,
             \A x \in s : f[x] = g[x]
      PROVE  Sums(f, R)[s] = Sums(g, S)[s]
  <2>1. CASE s = {}
    BY <2>1, SumsEquation
  <2>2. CASE s # {}
    <3>1. First(s) \in s
      BY <2>2, FirstIn
    <3>2. s \ {First(s)} \in T
      BY <1>1, <3>1
    <3>3. Sums(f, R)[s \ {First(s)}] = Sums(g, S)[s \ {First(s)}]
      BY <1>1, <3>2
    <3>4. Sums(f, R)[s] = f[First(s)] + Sums(f, R)[s \ {First(s)}]
      BY <2>2, SumsEquation
    <3>5. Sums(g, S)[s] = g[First(s)] + Sums(g, S)[s \ {First(s)}]
      BY <2>2, SumsEquation
    <3>6. QED
      BY <1>1, <3>1, <3>3, <3>4, <3>5
  <2>3. QED
    BY <2>1, <2>2
<1>2. IsFiniteSet(Both)
  BY FS_Subset
<1>3. SUBSET Both \subseteq T
  <2>1. \A s \in SUBSET Both :
          (\A r \in SUBSET s : r # s => r \in T) => s \in T
    BY <1>1
  <2> HIDE DEF T, Both
  <2>2. QED
    BY <1>2, <2>1, SubsetInduct
<1>4. QED
  BY <1>3
-----------------------------------------------------------------------------
(* the sum of a function over a set *)

LEMMA SumEmpty == \A f : SumFunctionOnSet(f, {}) = 0
<1> SUFFICES ASSUME NEW f PROVE SumFunctionOnSet(f, {}) = 0
  OBVIOUS
<1>1. IsFiniteSet({}) /\ Summable(f, {})
  BY FS_EmptySet DEF Summable
<1>2. {} \in SUBSET {}
  OBVIOUS
<1>3. Sums(f, {})[{}] = 0
  BY <1>1, <1>2, SumsEquation
<1>4. QED
  BY <1>3, SumIsSums

LEMMA SumStep ==
  ASSUME NEW f, NEW S, IsFiniteSet(S), Summable(f, S), S # {}
  PROVE  SumFunctionOnSet(f, S) = f[First(S)] + SumFunctionOnSet(f, S \ {First(S)})
<1> DEFINE R == S \ {First(S)}
<1>1. IsFiniteSet(R) /\ Summable(f, R) /\ R \subseteq S
  BY FS_Subset DEF Summable
<1>2. Sums(f, S)[R] = Sums(f, R)[R]
  <2>1. R \in SUBSET (S \cap R)
    BY <1>1
  <2> HIDE DEF R
  <2>2. QED
    BY <1>1, <2>1, SumsAgree
<1>3. Sums(f, S)[S] = f[First(S)] + Sums(f, S)[R]
  BY SumsEquation
<1>4. QED
  BY <1>2, <1>3, SumIsSums

\* Functions that agree on a set have the same sum over it.
LEMMA SumSame ==
  ASSUME NEW f, NEW g, NEW S, IsFiniteSet(S), Summable(f, S), \A x \in S : f[x] = g[x]
  PROVE  SumFunctionOnSet(f, S) = SumFunctionOnSet(g, S)
<1>1. Summable(g, S) /\ S \in SUBSET (S \cap S)
  BY DEF Summable
<1>2. Sums(f, S)[S] = Sums(g, S)[S]
  BY <1>1, SumsAgree
<1>3. QED
  BY <1>2, SumIsSums

LEMMA SumType ==
  ASSUME NEW f, NEW S, IsFiniteSet(S), Summable(f, S)
  PROVE  SumFunctionOnSet(f, S) \in Nat
<1> DEFINE T == {s \in SUBSET S : SumFunctionOnSet(f, s) \in Nat}
<1>1. ASSUME NEW s \in SUBSET S, \A r \in SUBSET s : r # s => r \in T
      PROVE  s \in T
  <2>1. CASE s = {}
    BY <2>1, SumEmpty
  <2>2. CASE s # {}
    <3>1. First(s) \in s /\ f[First(s)] \in Nat
      BY <2>2, FirstIn DEF Summable
    <3>2. SumFunctionOnSet(f, s \ {First(s)}) \in Nat
      BY <1>1, <3>1
    <3>3. IsFiniteSet(s) /\ Summable(f, s)
      BY FS_Subset DEF Summable
    <3>4. QED
      BY <2>2, <3>1, <3>2, <3>3, SumStep
  <2>3. QED
    BY <2>1, <2>2
<1>2. SUBSET S \subseteq T
  <2> HIDE DEF T
  <2>1. QED
    BY <1>1, SubsetInduct
<1>3. QED
  BY <1>2

\* Any element can be taken off first: the order of summation is immaterial.
LEMMA SumRemove ==
  ASSUME NEW f, NEW S, IsFiniteSet(S), Summable(f, S), NEW a \in S
  PROVE  SumFunctionOnSet(f, S) = f[a] + SumFunctionOnSet(f, S \ {a})
<1> DEFINE Sum(s) == SumFunctionOnSet(f, s)
           T == {s \in SUBSET S : \A x \in s : Sum(s) = f[x] + Sum(s \ {x})}
<1>1. \A s \in SUBSET S : IsFiniteSet(s) /\ Summable(f, s) /\ Sum(s) \in Nat
  BY FS_Subset, SumType DEF Summable
<1>2. ASSUME NEW s \in SUBSET S, \A r \in SUBSET s : r # s => r \in T,
             NEW x \in s
      PROVE  Sum(s) = f[x] + Sum(s \ {x})
  <2> DEFINE p == First(s)
  <2>1. p \in s
    BY FirstIn
  <2>2. Sum(s) = f[p] + Sum(s \ {p})
    BY <1>1, SumStep
  <2>3. CASE x = p
    BY <2>2, <2>3
  <2>4. CASE x # p
    <3>1. Sum(s \ {p}) = f[x] + Sum((s \ {p}) \ {x})
      BY <1>2, <2>1, <2>4
    <3>2. Sum(s \ {x}) = f[p] + Sum((s \ {x}) \ {p})
      BY <1>2, <2>1, <2>4
    <3>3. (s \ {p}) \ {x} = (s \ {x}) \ {p}
      OBVIOUS
    <3> DEFINE rest == Sum((s \ {x}) \ {p})
    <3>4. f[x] \in Nat /\ f[p] \in Nat /\ rest \in Nat
      BY <1>1, <2>1 DEF Summable
    <3>5. Sum(s) = f[p] + (f[x] + rest)
      BY <2>2, <3>1, <3>3
    <3>6. f[x] + Sum(s \ {x}) = f[x] + (f[p] + rest)
      BY <3>2
    <3> HIDE DEF Sum, p, rest
    <3>7. QED
      BY <3>4, <3>5, <3>6
  <2>5. QED
    BY <2>3, <2>4
<1>3. SUBSET S \subseteq T
  <2>1. \A s \in SUBSET S : (\A r \in SUBSET s : r # s => r \in T) => s \in T
    BY <1>2
  <2> HIDE DEF T
  <2>2. QED
    BY <2>1, SubsetInduct
<1>4. QED
  BY <1>3

LEMMA SumAdd ==
  ASSUME NEW f, NEW S, IsFiniteSet(S), NEW a, a \notin S, Summable(f, S \cup {a})
  PROVE  SumFunctionOnSet(f, S \cup {a}) = SumFunctionOnSet(f, S) + f[a]
<1>1. IsFiniteSet(S \cup {a})
  BY FS_AddElement
<1>2. (S \cup {a}) \ {a} = S /\ a \in S \cup {a}
  OBVIOUS
<1>3. SumFunctionOnSet(f, S \cup {a}) = f[a] + SumFunctionOnSet(f, S)
  BY <1>1, <1>2, SumRemove
<1>4. f[a] \in Nat /\ SumFunctionOnSet(f, S) \in Nat
  BY SumType DEF Summable
<1>5. QED
  BY <1>3, <1>4

\* A sum can be taken over the images of the indices under an injection.
LEMMA SumImage ==
  ASSUME NEW S, IsFiniteSet(S), NEW h, NEW f, NEW g,
         \A x, y \in S : h[x] = h[y] => x = y,
         \A x \in S : g[x] = f[h[x]] /\ f[h[x]] \in Nat
  PROVE  SumFunctionOnSet(g, S) = SumFunctionOnSet(f, {h[x] : x \in S})
<1> DEFINE Image(s) == {h[x] : x \in s}
           T == {s \in SUBSET S : /\ IsFiniteSet(Image(s))
                                  /\ SumFunctionOnSet(g, s) = SumFunctionOnSet(f, Image(s))}
<1>1. ASSUME NEW s \in SUBSET S, \A r \in SUBSET s : r # s => r \in T
      PROVE  s \in T
  <2>1. CASE s = {}
    <3>1. Image(s) = {}
      BY <2>1
    <3>2. QED
      BY <2>1, <3>1, SumEmpty, FS_EmptySet
  <2>2. CASE s # {}
    <3> DEFINE a == First(s)
               r == s \ {a}
    <3>1. a \in s
      BY <2>2, FirstIn
    <3>2. r \in T
      BY <1>1, <3>1
    <3>3. Image(s) = Image(r) \cup {h[a]} /\ h[a] \notin Image(r)
      BY <3>1
    <3>4. Summable(g, s) /\ Summable(f, Image(s)) /\ IsFiniteSet(s)
      BY FS_Subset DEF Summable
    <3> HIDE DEF a, r
    <3>5. SumFunctionOnSet(g, s) = g[a] + SumFunctionOnSet(g, r)
      BY <3>1, <3>4, SumRemove DEF r
    <3>6. IsFiniteSet(Image(r)) /\ SumFunctionOnSet(g, r) = SumFunctionOnSet(f, Image(r))
      BY <3>2
    <3>7. /\ SumFunctionOnSet(f, Image(s)) = SumFunctionOnSet(f, Image(r)) + f[h[a]]
          /\ SumFunctionOnSet(f, Image(r)) \in Nat
      <4>1. Summable(f, Image(r) \cup {h[a]}) /\ Summable(f, Image(r))
        BY <3>3, <3>4 DEF Summable
      <4> HIDE DEF Image
      <4>2. QED
        BY <3>3, <3>6, <4>1, SumAdd, SumType
    <3>8. IsFiniteSet(Image(s))
      <4> HIDE DEF Image
      <4>1. QED
        BY <3>3, <3>6, FS_AddElement
    <3>9. g[a] = f[h[a]] /\ f[h[a]] \in Nat
      BY <3>1
    <3> HIDE DEF Image
    <3>10. SumFunctionOnSet(g, s) = SumFunctionOnSet(f, Image(s))
      BY <3>5, <3>6, <3>7, <3>9
    <3>11. QED
      BY <3>8, <3>10
  <2>3. QED
    BY <2>1, <2>2
<1>2. SUBSET S \subseteq T
  <2> HIDE DEF T
  <2>1. QED
    BY <1>1, SubsetInduct
<1>3. QED
  BY <1>2

\* The sum of a sequence that has got one more number.
LEMMA SumAppend ==
  ASSUME NEW n \in Nat, NEW f, NEW g, DOMAIN f = 1..n, DOMAIN g = 1..(n + 1),
         Summable(g, 1..(n + 1)), \A i \in 1..n : f[i] = g[i]
  PROVE  /\ SumFunction(f) \in Nat
         /\ SumFunction(g) = SumFunction(f) + g[n + 1]
<1>1. IsFiniteSet(1..n)
  BY FS_Interval
<1>2. 1..(n + 1) = (1..n) \cup {n + 1} /\ n + 1 \notin 1..n
  OBVIOUS
<1>3. SumFunctionOnSet(g, 1..(n + 1)) = SumFunctionOnSet(g, 1..n) + g[n + 1]
  BY <1>1, <1>2, SumAdd
<1>4. Summable(f, 1..n)
  BY <1>2 DEF Summable
<1>5. SumFunctionOnSet(f, 1..n) = SumFunctionOnSet(g, 1..n)
  BY <1>1, <1>4, SumSame
<1>6. QED
  BY <1>1, <1>3, <1>4, <1>5, SumType DEF SumFunction

\* A part of a sum is no larger.
LEMMA SumSubset ==
  ASSUME NEW f, NEW S, IsFiniteSet(S), Summable(f, S), NEW R \in SUBSET S
  PROVE  SumFunctionOnSet(f, R) <= SumFunctionOnSet(f, S)
<1> DEFINE T == {s \in SUBSET S : SumFunctionOnSet(f, s \cap R) <= SumFunctionOnSet(f, s)}
<1>1. ASSUME NEW s \in SUBSET S, \A r \in SUBSET s : r # s => r \in T
      PROVE  s \in T
  <2>1. CASE s = {}
    <3>1. s \cap R = {} /\ SumFunctionOnSet(f, {}) = 0
      BY <2>1, SumEmpty
    <3>2. QED
      BY <2>1, <3>1
  <2>2. CASE s # {}
    <3> DEFINE a == First(s)
               r == s \ {a}
    <3>1. a \in s /\ r \in T
      BY <1>1, <2>2, FirstIn
    <3>2. IsFiniteSet(s) /\ Summable(f, s) /\ IsFiniteSet(s \cap R) /\ Summable(f, s \cap R)
          /\ IsFiniteSet(r) /\ Summable(f, r) /\ IsFiniteSet(r \cap R) /\ Summable(f, r \cap R)
      BY FS_Subset DEF Summable
    <3> HIDE DEF a
    <3>3. SumFunctionOnSet(f, s) = f[a] + SumFunctionOnSet(f, r)
      BY <3>1, <3>2, SumRemove
    <3>4. /\ SumFunctionOnSet(f, r) \in Nat /\ SumFunctionOnSet(f, r \cap R) \in Nat
          /\ SumFunctionOnSet(f, r \cap R) <= SumFunctionOnSet(f, r) /\ f[a] \in Nat
      BY <3>1, <3>2, SumType DEF Summable
    <3>5. CASE a \in R
      <4>1. a \in s \cap R /\ (s \cap R) \ {a} = r \cap R
        BY <3>1, <3>5
      <4>2. SumFunctionOnSet(f, s \cap R) = f[a] + SumFunctionOnSet(f, (s \cap R) \ {a})
        BY <3>2, <4>1, SumRemove
      <4>3. SumFunctionOnSet(f, s \cap R) = f[a] + SumFunctionOnSet(f, r \cap R)
        BY <4>1, <4>2
      <4>4. SumFunctionOnSet(f, s \cap R) <= SumFunctionOnSet(f, s)
        BY <3>3, <3>4, <4>3
      <4>5. QED
        BY <4>4
    <3>6. CASE a \notin R
      <4>1. s \cap R = r \cap R
        BY <3>6
      <4>2. SumFunctionOnSet(f, s \cap R) <= SumFunctionOnSet(f, s)
        BY <3>3, <3>4, <4>1
      <4>3. QED
        BY <4>2
    <3>7. QED
      BY <3>5, <3>6
  <2>3. QED
    BY <2>1, <2>2
<1>2. SUBSET S \subseteq T
  <2> HIDE DEF T
  <2>1. QED
    BY <1>1, SubsetInduct
<1>3. S \cap R = R
  OBVIOUS
<1>4. QED
  BY <1>2, <1>3

-----------------------------------------------------------------------------
(* elements, prefixes and suffixes of a sequence *)

\* The elements of a list are finitely many.
LEMMA ListSet ==
  ASSUME NEW D, NEW s \in Seq(D) PROVE ToSet(s) \subseteq D /\ IsFiniteSet(ToSet(s))
<1> DEFINE n == Len(s)
           f == [i \in 1..n |-> s[i]]
<1>1. DOMAIN s = 1..n /\ n \in Nat /\ \A i \in 1..n : s[i] \in D
  OBVIOUS
<1>2. f \in Surjection(1..n, ToSet(s)) /\ ToSet(s) \subseteq D
  BY <1>1 DEF ToSet, Surjection
<1>3. IsFiniteSet(1..n)
  BY <1>1, FS_Interval
<1> HIDE DEF f, n
<1>4. QED
  BY <1>2, <1>3, FS_Surjection

LEMMA AppendedSet ==
  ASSUME NEW D, NEW s \in Seq(D), NEW x \in D
  PROVE  ToSet(Append(s, x)) = ToSet(s) \cup {x}
<1> DEFINE t == Append(s, x)
<1>1. /\ DOMAIN s = 1..Len(s) /\ DOMAIN t = 1..(Len(s) + 1) /\ Len(s) \in Nat
      /\ t[Len(s) + 1] = x /\ \A i \in 1..Len(s) : t[i] = s[i]
  OBVIOUS
<1> HIDE DEF t
<1>2. ASSUME NEW y \in ToSet(t) PROVE y \in ToSet(s) \cup {x}
  <2>1. PICK i \in 1..(Len(s) + 1) : y = t[i]
    BY <1>1, <1>2 DEF ToSet
  <2>2. QED
    BY <1>1, <2>1 DEF ToSet
<1>3. ASSUME NEW y \in ToSet(s) \cup {x} PROVE y \in ToSet(t)
  <2>1. CASE y = x
    BY <1>1, <2>1 DEF ToSet
  <2>2. CASE y \in ToSet(s)
    <3>1. PICK i \in 1..Len(s) : y = s[i]
      BY <1>1, <2>2 DEF ToSet
    <3>2. QED
      BY <1>1, <3>1 DEF ToSet
  <2>3. QED
    BY <1>3, <2>1, <2>2
<1>4. QED
  BY <1>2, <1>3 DEF t

LEMMA PrefixGrows ==
  ASSUME NEW D, NEW s \in Seq(D), NEW n \in 0..(Len(s) - 1)
  PROVE  Append(SubSeq(s, 1, n), s[n + 1]) = SubSeq(s, 1, n + 1)
<1>1. n + 1 \in 1..Len(s) /\ 1 \in 1..Len(s) /\ (n + 1) - 1 = n /\ s[n + 1] \in D
  OBVIOUS
<1>2. SubSeq(s, 1, n + 1) = SubSeq(s, 1, (n + 1) - 1) \o <<s[n + 1]>>
  BY <1>1, SubSeqRecursiveSecond
<1>3. SubSeq(s, 1, n) \in Seq(D)
  <2>1. \A i \in 1..n : s[i] \in D
    OBVIOUS
  <2>2. QED
    BY <2>1, SubSeqProperties
<1>4. Append(SubSeq(s, 1, n), s[n + 1]) = SubSeq(s, 1, n) \o <<s[n + 1]>>
  BY <1>1, <1>3, AppendIsConcat
<1>5. QED
  BY <1>1, <1>2, <1>4

LEMMA SuffixByElements ==
  ASSUME NEW D, NEW s \in Seq(D), NEW t \in Seq(D), Len(s) <= Len(t),
         \A i \in 1..Len(s) : s[(Len(s) - i) + 1] = t[(Len(t) - i) + 1]
  PROVE  IsSuffix(s, t)
<1> DEFINE n == Len(s)
           r == Reverse(s)
           u == Reverse(t)
<1>1. n \in Nat /\ Len(t) \in Nat /\ n <= Len(t)
  OBVIOUS
<1>2. r \in Seq(D) /\ Len(r) = n /\ \A i \in 1..n : r[i] = s[(n - i) + 1]
  BY DEF Reverse
<1>3. u \in Seq(D) /\ Len(u) = Len(t) /\ \A i \in 1..n : u[i] = t[(Len(t) - i) + 1]
  BY DEF Reverse
<1>4. \A i \in 1..n : r[i] = u[i] /\ r[i] \in D
  BY <1>2, <1>3
<1> HIDE DEF r, u, n
<1>5. /\ SubSeq(r, 1, n) \in Seq(D) /\ Len(SubSeq(r, 1, n)) = n
      /\ \A i \in 1..n : SubSeq(r, 1, n)[i] = r[i]
  BY <1>1, <1>4, SubSeqProperties
<1>6. /\ SubSeq(u, 1, n) \in Seq(D) /\ Len(SubSeq(u, 1, n)) = n
      /\ \A i \in 1..n : SubSeq(u, 1, n)[i] = u[i]
  BY <1>1, <1>4, SubSeqProperties
<1>7. SubSeq(r, 1, n) = SubSeq(u, 1, n)
  BY <1>4, <1>5, <1>6, SeqEqual
<1>8. QED
  BY <1>1, <1>2, <1>3, <1>7 DEF IsSuffix, IsPrefix, r, u, n

LEMMA EmptyIsSuffix == ASSUME NEW D, NEW t \in Seq(D) PROVE IsSuffix(<<>>, t)
<1> DEFINE s == <<>>
<1>1. s \in Seq(D) /\ Len(s) = 0
  OBVIOUS
<1> HIDE DEF s
<1>2. Len(s) <= Len(t) /\ 1..Len(s) = {}
  BY <1>1
<1>3. IsSuffix(s, t)
  BY <1>1, <1>2, SuffixByElements
<1>4. QED
  BY <1>3 DEF s

\* The part of s from position b on.
SuffixFrom(s, b) == SubSeq(s, b, Len(s))

LEMMA FromElements ==
  ASSUME NEW D, NEW s \in Seq(D), NEW b \in 1..Len(s)
  PROVE  /\ SuffixFrom(s, b) \in Seq(D) /\ Len(SuffixFrom(s, b)) = (Len(s) - b) + 1
         /\ \A i \in 1..((Len(s) - b) + 1) : SuffixFrom(s, b)[i] = s[(b + i) - 1]
<1>1. \A i \in b..Len(s) : s[i] \in D
  OBVIOUS
<1>2. b \in Int /\ Len(s) \in Int /\ b <= Len(s)
  OBVIOUS
<1>3. /\ SuffixFrom(s, b) \in Seq(D) /\ Len(SuffixFrom(s, b)) = Len(s) - b + 1
      /\ \A i \in 1..(Len(s) - b + 1) : SuffixFrom(s, b)[i] = s[b + i - 1]
  BY <1>1, <1>2, SubSeqProperties DEF SuffixFrom
<1>4. QED
  BY <1>3

LEMMA FromIsSuffix ==
  ASSUME NEW D, NEW s \in Seq(D), NEW b \in 1..Len(s)
  PROVE  IsSuffix(SuffixFrom(s, b), s)
<1> DEFINE t == SuffixFrom(s, b)
<1>1. /\ t \in Seq(D) /\ Len(t) = (Len(s) - b) + 1
      /\ \A i \in 1..((Len(s) - b) + 1) : t[i] = s[(b + i) - 1]
  BY FromElements
<1>2. Len(s) \in Nat /\ b \in Nat /\ 1 <= b /\ b <= Len(s)
  OBVIOUS
<1> HIDE DEF t
<1>3. ASSUME NEW i \in 1..Len(t)
      PROVE  t[(Len(t) - i) + 1] = s[(Len(s) - i) + 1]
  <2>1. (Len(t) - i) + 1 \in 1..((Len(s) - b) + 1)
    BY <1>1, <1>2
  <2>2. (b + ((Len(t) - i) + 1)) - 1 = (Len(s) - i) + 1
    BY <1>1, <1>2
  <2>3. QED
    BY <1>1, <2>1, <2>2
<1>4. Len(t) <= Len(s)
  BY <1>1, <1>2
<1>5. IsSuffix(t, s)
  BY <1>1, <1>3, <1>4, SuffixByElements
<1>6. QED
  BY <1>5 DEF t

LEMMA FromFrom ==
  ASSUME NEW D, NEW s \in Seq(D), NEW a \in 1..Len(s), NEW k \in 1..((Len(s) - a) + 1)
  PROVE  SuffixFrom(SuffixFrom(s, a), k) = SuffixFrom(s, (a + k) - 1) /\ (a + k) - 1 \in 1..Len(s)
<1> DEFINE t == SuffixFrom(s, a)
           b == (a + k) - 1
<1>1. /\ t \in Seq(D) /\ Len(t) = (Len(s) - a) + 1
      /\ \A i \in 1..((Len(s) - a) + 1) : t[i] = s[(a + i) - 1]
  BY FromElements
<1>2. b \in 1..Len(s) /\ k \in 1..Len(t) /\ Len(s) \in Nat /\ a \in Nat /\ k \in Nat
  BY <1>1
<1> HIDE DEF t
<1>3. /\ SuffixFrom(t, k) \in Seq(D) /\ Len(SuffixFrom(t, k)) = (Len(t) - k) + 1
      /\ \A i \in 1..((Len(t) - k) + 1) : SuffixFrom(t, k)[i] = t[(k + i) - 1]
  <2>1. t \in Seq(D) /\ k \in 1..Len(t)
    BY <1>1, <1>2
  <2>2. QED
    BY ONLY <2>1, FromElements, Zenon
<1>4. /\ SuffixFrom(s, b) \in Seq(D) /\ Len(SuffixFrom(s, b)) = (Len(s) - b) + 1
      /\ \A i \in 1..((Len(s) - b) + 1) : SuffixFrom(s, b)[i] = s[(b + i) - 1]
  <2> HIDE DEF b
  <2>1. QED
    BY <1>2, FromElements
<1>5. ASSUME NEW i \in 1..((Len(t) - k) + 1)
      PROVE  SuffixFrom(t, k)[i] = SuffixFrom(s, b)[i]
  <2>1. (k + i) - 1 \in 1..((Len(s) - a) + 1) /\ i \in 1..((Len(s) - b) + 1)
    <3> DEFINE n == Len(s)
               m == Len(t)
    <3>1. /\ n \in Nat /\ a \in Nat /\ k \in Nat /\ m = (n - a) + 1 /\ k >= 1
          /\ i \in 1..((m - k) + 1)
      BY <1>1, <1>2
    <3> HIDE DEF n, m
    <3>2. (k + i) - 1 \in 1..((n - a) + 1) /\ i \in 1..((n - b) + 1)
      BY <3>1
    <3>3. QED
      BY <3>2 DEF n
  <2>2. (a + ((k + i) - 1)) - 1 = (b + i) - 1
    BY <1>2
  <2>3. SuffixFrom(t, k)[i] = t[(k + i) - 1]
    BY <1>3
  <2>4. t[(k + i) - 1] = s[(a + ((k + i) - 1)) - 1]
    <3> DEFINE m == (k + i) - 1
    <3>1. m \in 1..((Len(s) - a) + 1)
      BY <2>1
    <3> HIDE DEF m
    <3>2. t[m] = s[(a + m) - 1]
      BY <1>1, <3>1
    <3>3. QED
      BY <3>2 DEF m
  <2>5. SuffixFrom(s, b)[i] = s[(b + i) - 1]
    BY <1>4, <2>1
  <2>6. QED
    BY <2>2, <2>3, <2>4, <2>5
<1>6. (Len(t) - k) + 1 = (Len(s) - b) + 1
  BY <1>1, <1>2
<1>7. SuffixFrom(t, k) = SuffixFrom(s, b)
  <2> HIDE DEF b
  <2>1. QED
    BY <1>3, <1>4, <1>5, <1>6, SeqEqual
<1>8. QED
  BY <1>2, <1>7 DEF t
=============================================================================
