----------------------------- MODULE FoldProofs -----------------------------
(***************************************************************************)
(* Folds over finite sets: what MapThenFoldSet computes when it takes the  *)
(* elements in some order, that a sum does not depend on the order, and    *)
(* what sums are modulo n.                                                 *)
(***************************************************************************)
EXTENDS Integers, FiniteSetsExt, FiniteSetTheorems, WellFoundedInduction, TLAPS

\* Induction over the subsets of a finite set, for a set of good ones.
LEMMA SubsetInduction ==
    ASSUME NEW S, IsFiniteSet(S), NEW Good,
           \A U \in SUBSET S : (\A W \in SUBSET U : W # U => W \in Good) => U \in Good
    PROVE  \A U \in SUBSET S : U \in Good
<1> SUFFICES ASSUME NEW U0 \in SUBSET S, U0 \notin Good PROVE FALSE
  OBVIOUS
<1> DEFINE Bad == {U \in SUBSET S : U \notin Good}
<1> DEFINE Order == StrictSubsetOrdering(S)
<1>1. IsWellFoundedOn(Order, FiniteSubsetsOf(S))
  BY FS_StrictSubsetOrderingWellFounded
<1>2. Bad \subseteq FiniteSubsetsOf(S) /\ Bad # {}
  BY FS_FiniteSubsetsOfFinite
<1> HIDE DEF Bad, Order
<1>3. PICK U \in Bad : \A W \in Bad : ~ (<<W, U>> \in Order)
  BY ONLY <1>1, <1>2, WFMin
<1>4. \A W \in SUBSET U : W # U => W \in Good
  BY <1>3 DEF StrictSubsetOrdering, Order, Bad
<1> QED
  BY <1>3, <1>4 DEF Bad

\* it folds the subsets of S with step, taking c[s] from s first.
IsFold(it, S, base, step, c) ==
    it = [s \in SUBSET S |-> IF s = {} THEN base ELSE step[c[s]][it[s \ {c[s]}]]]

IsChoice(c, S) == \A s \in SUBSET S : s # {} => c[s] \in s

\* Two folds agree on the subsets that both know.
LEMMA FoldUnique ==
    ASSUME NEW S, IsFiniteSet(S), NEW T, S \subseteq T, NEW base, NEW step, NEW c, IsChoice(c, S),
           NEW f, IsFold(f, S, base, step, c), NEW g, IsFold(g, T, base, step, c)
    PROVE  \A U \in SUBSET S : f[U] = g[U]
<1> DEFINE Good == {U \in SUBSET S : f[U] = g[U]}
<1>1. ASSUME NEW U \in SUBSET S, \A W \in SUBSET U : W # U => W \in Good
      PROVE  U \in Good
  <2>1. CASE U = {}
    BY <2>1 DEF IsFold
  <2>2. CASE U # {}
    <3>1. c[U] \in U
      BY <2>2 DEF IsChoice
    <3>2. f[U \ {c[U]}] = g[U \ {c[U]}]
      BY <1>1, <3>1
    <3>3. f[U] = step[c[U]][f[U \ {c[U]}]]
      BY <2>2 DEF IsFold
    <3>4. g[U] = step[c[U]][g[U \ {c[U]}]]
      BY <2>2 DEF IsFold
    <3> QED
      BY <3>2, <3>3, <3>4
  <2> QED
    BY <2>1, <2>2
<1> HIDE DEF Good
<1>2. \A U \in SUBSET S : U \in Good
  BY <1>1, SubsetInduction
<1> QED
  BY <1>2 DEF Good

\* A fold exists, so it is what a recursive function defined that way is.
LEMMA FoldExists ==
    ASSUME NEW S, IsFiniteSet(S), NEW V, NEW base \in V, NEW step \in [S -> [V -> V]],
           NEW c, IsChoice(c, S)
    PROVE  \E it \in [SUBSET S -> V] : IsFold(it, S, base, step, c)
<1> DEFINE Good == {U \in SUBSET S : \E it \in [SUBSET U -> V] : IsFold(it, U, base, step, c)}
           F(U) == CHOOSE it \in [SUBSET U -> V] : IsFold(it, U, base, step, c)
<1>1. ASSUME NEW U \in SUBSET S, \A W \in SUBSET U : W # U => W \in Good
      PROVE  U \in Good
  <2>1. \A W \in SUBSET U : W # U => F(W) \in [SUBSET W -> V] /\ IsFold(F(W), W, base, step, c)
    BY <1>1
  <2>2. \A W \in SUBSET U : IsFiniteSet(W) /\ IsChoice(c, W)
    BY FS_Subset DEF IsChoice
  <2> DEFINE val(s) == IF s = {} THEN base ELSE step[c[s]][F(s \ {c[s]})[s \ {c[s]}]]
             it == [s \in SUBSET U |-> val(s)]
  <2>3. \A s \in SUBSET U : s # {} => /\ c[s] \in s /\ c[s] \in S
                                      /\ s \ {c[s]} \in SUBSET U /\ s \ {c[s]} # U
    BY DEF IsChoice
  <2>4. it \in [SUBSET U -> V]
    <3> SUFFICES ASSUME NEW s \in SUBSET U, s # {} PROVE val(s) \in V
      OBVIOUS
    <3>1. F(s \ {c[s]})[s \ {c[s]}] \in V
      BY <2>1, <2>3
    <3>2. step[c[s]] \in [V -> V]
      BY <2>3
    <3> HIDE DEF F
    <3> QED
      BY <3>1, <3>2
  <2>5. ASSUME NEW W \in SUBSET U, W # U PROVE F(W)[W] = val(W)
    <3>1. IsFold(F(W), W, base, step, c)
      BY <2>1, <2>5
    <3>2. F(W)[W] = IF W = {} THEN base ELSE step[c[W]][F(W)[W \ {c[W]}]]
      BY <3>1 DEF IsFold
    <3>3. ASSUME W # {} PROVE F(W)[W \ {c[W]}] = F(W \ {c[W]})[W \ {c[W]}]
      <4> DEFINE X == W \ {c[W]}
      <4>1. X \in SUBSET U /\ X # U /\ X \subseteq W
        BY <2>3, <3>3
      <4>2. IsFold(F(X), X, base, step, c) /\ IsFiniteSet(X) /\ IsChoice(c, X)
        BY <2>1, <2>2, <4>1
      <4> HIDE DEF X, F
      <4>3. \A Y \in SUBSET X : F(X)[Y] = F(W)[Y]
        BY <3>1, <4>1, <4>2, FoldUnique
      <4> QED
        BY <4>3 DEF X
    <3> HIDE DEF F
    <3> QED
      BY <3>2, <3>3
  <2> HIDE DEF F
  <2>6. \A s \in SUBSET U : it[s] = IF s = {} THEN base ELSE step[c[s]][it[s \ {c[s]}]]
    <3> SUFFICES ASSUME NEW s \in SUBSET U, s # {} PROVE it[s] = step[c[s]][it[s \ {c[s]}]]
      OBVIOUS
    <3>1. it[s \ {c[s]}] = F(s \ {c[s]})[s \ {c[s]}]
      BY <2>3, <2>5
    <3> QED
      BY <3>1
  <2> HIDE DEF it
  <2>7. IsFold(it, U, base, step, c)
    BY <2>4, <2>6 DEF IsFold
  <2> QED
    BY <2>4, <2>7
<1> HIDE DEF Good
<1>2. \A U \in SUBSET S : U \in Good
  BY <1>1, SubsetInduction
<1> QED
  BY <1>2 DEF Good

-----------------------------------------------------------------------------
(* Sums *)

\* it adds the values of f over the subsets of S, in the order of c.
Adds(it, S, f, c) ==
    it = [s \in SUBSET S |-> IF s = {} THEN 0 ELSE f[c[s]] + it[s \ {c[s]}]]

AddsInAnyOrder(it, S, f) ==
    \A U \in SUBSET S : \A x \in U : it[U] = f[x] + it[U \ {x}]

\* A function that adds the values of f, in the order of c, adds them in any order.
LEMMA SumAnyOrder ==
    ASSUME NEW S, IsFiniteSet(S), NEW f, \A x \in S : f[x] \in Int, NEW c, IsChoice(c, S),
           NEW it \in [SUBSET S -> Int], Adds(it, S, f, c)
    PROVE  AddsInAnyOrder(it, S, f)
<1> DEFINE Good == {U \in SUBSET S : \A x \in U : it[U] = f[x] + it[U \ {x}]}
<1>1. ASSUME NEW U \in SUBSET S, \A W \in SUBSET U : W # U => W \in Good
      PROVE  U \in Good
  <2> SUFFICES ASSUME NEW x \in U PROVE it[U] = f[x] + it[U \ {x}]
    OBVIOUS
  <2> DEFINE y == c[U]
  <2>1. y \in U /\ it[U] = f[y] + it[U \ {y}]
    BY DEF IsChoice, Adds
  <2> HIDE DEF y
  <2>2. CASE x = y
    BY <2>1, <2>2
  <2>3. CASE x # y
    <3>1. it[U \ {y}] = f[x] + it[(U \ {y}) \ {x}]
      <4>1. U \ {y} \in Good /\ x \in U \ {y}
        BY <1>1, <2>1, <2>3
      <4> QED
        BY <4>1
    <3>2. it[U \ {x}] = f[y] + it[(U \ {x}) \ {y}]
      <4>1. U \ {x} \in Good /\ y \in U \ {x}
        BY <1>1, <2>1, <2>3
      <4> QED
        BY <4>1
    <3> DEFINE Z == (U \ {x}) \ {y}
    <3>3. (U \ {y}) \ {x} = Z /\ Z \in SUBSET S
      OBVIOUS
    <3> HIDE DEF Z
    <3>4. f[x] \in Int /\ f[y] \in Int /\ it[Z] \in Int
      BY <2>1, <3>3
    <3>5. it[U] = f[y] + (f[x] + it[Z])
      BY <2>1, <3>1, <3>3
    <3>6. it[U \ {x}] = f[y] + it[Z]
      BY <3>2 DEF Z
    <3> QED
      BY <3>4, <3>5, <3>6
  <2> QED
    BY <2>2, <2>3
<1> HIDE DEF Good
<1>2. \A U \in SUBSET S : U \in Good
  BY <1>1, SubsetInduction
<1> QED
  BY <1>2 DEF Good, AddsInAnyOrder

LEMMA SumExists ==
    ASSUME NEW S, IsFiniteSet(S), NEW f, \A x \in S : f[x] \in Int, NEW c, IsChoice(c, S)
    PROVE  \E it \in [SUBSET S -> Int] : Adds(it, S, f, c)
<1> DEFINE step == [x \in S |-> [v \in Int |-> f[x] + v]]
<1>1. step \in [S -> [Int -> Int]]
  OBVIOUS
<1> HIDE DEF step
<1>a. IsFiniteSet(S) /\ IsChoice(c, S) /\ 0 \in Int
  OBVIOUS
<1>2. PICK it \in [SUBSET S -> Int] : IsFold(it, S, 0, step, c)
  BY ONLY <1>1, <1>a, FoldExists, Zenon
<1>3. \A s \in SUBSET S : it[s] = IF s = {} THEN 0 ELSE f[c[s]] + it[s \ {c[s]}]
  <2> SUFFICES ASSUME NEW s \in SUBSET S, s # {} PROVE it[s] = f[c[s]] + it[s \ {c[s]}]
    BY <1>2 DEF IsFold
  <2>1. it[s] = step[c[s]][it[s \ {c[s]}]]
    BY <1>2 DEF IsFold
  <2>2. c[s] \in S /\ it[s \ {c[s]}] \in Int
    BY DEF IsChoice
  <2> QED
    BY <2>1, <2>2 DEF step
<1> QED
  BY <1>3 DEF Adds

LEMMA SumUnique ==
    ASSUME NEW S, IsFiniteSet(S), NEW T, S \subseteq T, NEW c, IsChoice(c, S),
           NEW f, NEW a, Adds(a, S, f, c), NEW g, NEW b, Adds(b, T, g, c), \A x \in S : f[x] = g[x]
    PROVE  \A U \in SUBSET S : a[U] = b[U]
<1> DEFINE Good == {U \in SUBSET S : a[U] = b[U]}
<1>1. ASSUME NEW U \in SUBSET S, \A W \in SUBSET U : W # U => W \in Good
      PROVE  U \in Good
  <2>1. CASE U = {}
    BY <2>1 DEF Adds
  <2>2. CASE U # {}
    <3>1. c[U] \in U
      BY <2>2 DEF IsChoice
    <3>2. a[U \ {c[U]}] = b[U \ {c[U]}]
      BY <1>1, <3>1
    <3>3. a[U] = f[c[U]] + a[U \ {c[U]}]
      BY <2>2 DEF Adds
    <3>4. b[U] = g[c[U]] + b[U \ {c[U]}]
      BY <2>2 DEF Adds
    <3> QED
      BY <3>1, <3>2, <3>3, <3>4
  <2> QED
    BY <2>1, <2>2
<1> HIDE DEF Good
<1>2. \A U \in SUBSET S : U \in Good
  BY <1>1, SubsetInduction
<1> QED
  BY <1>2 DEF Good

-----------------------------------------------------------------------------
(* Total(f, S) is the sum of the values of f on a finite set S. *)

Total(f, S) == MapThenSumSet(LAMBDA x : f[x], S)

First(S) == [s \in SUBSET S |-> CHOOSE x \in s : TRUE]

LEMMA TotalIsSum ==
    ASSUME NEW S, IsFiniteSet(S), NEW f, \A x \in S : f[x] \in Int
    PROVE  \E it \in [SUBSET S -> Int] : it[S] = Total(f, S) /\ Adds(it, S, f, First(S))
<1> DEFINE I(it) == it = [s \in SUBSET S |-> IF s = {} THEN 0
                      ELSE f[CHOOSE x \in s : TRUE] + it[s \ {CHOOSE x \in s : TRUE}]]
<1>1. IsChoice(First(S), S)
  BY DEF IsChoice, First
<1>2. \A it : Adds(it, S, f, First(S)) <=> I(it)
  BY DEF First, Adds
<1>a. IsFiniteSet(S) /\ \A x \in S : f[x] \in Int
  OBVIOUS
<1>4. PICK it \in [SUBSET S -> Int] : Adds(it, S, f, First(S))
  BY ONLY <1>1, <1>a, SumExists, Zenon
<1>5. Total(f, S) = (CHOOSE i : I(i))[S]
  BY DEF Total, MapThenSumSet, MapThenFoldSet
<1> DEFINE sum == CHOOSE i : I(i)
<1>6. Adds(sum, S, f, First(S))
  <2>1. I(sum)
    <3>1. I(it)
      BY <1>2, <1>4
    <3> QED
      BY <3>1, Zenon
  <2> HIDE DEF sum
  <2> QED
    BY <2>1, <1>2
<1> HIDE DEF sum
<1>7. it[S] = sum[S]
  <2>1. S \subseteq S /\ S \in SUBSET S /\ \A x \in S : f[x] = f[x]
    OBVIOUS
  <2> QED
    BY ONLY <1>1, <1>a, <1>4, <1>6, <2>1, SumUnique
<1> QED
  BY <1>4, <1>5, <1>7 DEF sum

\* A sum only depends on the values of the elements.
LEMMA TotalEqual ==
    ASSUME NEW S, IsFiniteSet(S), NEW f, NEW g, \A x \in S : f[x] \in Int /\ g[x] = f[x]
    PROVE  Total(f, S) = Total(g, S)
<1>1. PICK a : a[S] = Total(f, S) /\ Adds(a, S, f, First(S))
  BY TotalIsSum
<1>2. PICK b : b[S] = Total(g, S) /\ Adds(b, S, g, First(S))
  BY TotalIsSum
<1>3. /\ IsChoice(First(S), S) /\ S \subseteq S /\ S \in SUBSET S /\ IsFiniteSet(S)
      /\ \A x \in S : f[x] = g[x]
  BY DEF IsChoice, First
<1>4. a[S] = b[S]
  BY ONLY <1>1, <1>2, <1>3, SumUnique
<1> QED
  BY <1>1, <1>2, <1>4

\* The sum over nothing is zero, and a sum is an element and the rest, whatever
\* the element.
LEMMA TotalStep ==
    ASSUME NEW S, IsFiniteSet(S), NEW f, \A x \in S : f[x] \in Int
    PROVE  /\ Total(f, S) \in Int
           /\ S = {} => Total(f, S) = 0
           /\ \A x \in S : Total(f, S) = f[x] + Total(f, S \ {x})
<1>1. PICK it \in [SUBSET S -> Int] : it[S] = Total(f, S) /\ Adds(it, S, f, First(S))
  BY TotalIsSum
<1>3. IsChoice(First(S), S)
  BY DEF IsChoice, First
<1>4. ASSUME NEW x \in S
      PROVE  Total(f, S) = f[x] + Total(f, S \ {x})
  <2> DEFINE T == S \ {x}
  <2>1. IsFiniteSet(T) /\ T \subseteq S /\ \A y \in T : f[y] \in Int
    BY FS_Subset
  <2> HIDE DEF T
  <2>2. PICK b \in [SUBSET T -> Int] : b[T] = Total(f, T) /\ Adds(b, T, f, First(T))
    BY <2>1, TotalIsSum
  <2>3. Adds(b, T, f, First(S)) /\ IsChoice(First(S), T) /\ T \in SUBSET T
    BY <2>1, <2>2 DEF Adds, First, IsChoice
  <2>4. \A y \in T : f[y] = f[y]
    OBVIOUS
  <2>5. b[T] = it[T]
    BY ONLY <2>1, <2>3, <2>4, <1>1, SumUnique
  <2>6. /\ IsFiniteSet(S) /\ S \in SUBSET S /\ \A y \in S : f[y] \in Int
        /\ it \in [SUBSET S -> Int]
    OBVIOUS
  <2> DEFINE c == First(S)
  <2>7. IsChoice(c, S) /\ Adds(it, S, f, c)
    BY <1>1, <1>3
  <2> HIDE DEF c
  <2>8. AddsInAnyOrder(it, S, f)
    BY ONLY <2>6, <2>7, SumAnyOrder, Zenon
  <2> QED
    BY <1>1, <2>2, <2>5, <2>8 DEF T, AddsInAnyOrder
<1>5. S = {} => it[S] = 0
  BY <1>1 DEF Adds
<1> QED
  BY <1>1, <1>4, <1>5

\* Adding an element to a set adds its value.
LEMMA TotalAdd ==
    ASSUME NEW S, IsFiniteSet(S), NEW x, x \notin S, NEW f, \A y \in S \union {x} : f[y] \in Int
    PROVE  Total(f, S \union {x}) = f[x] + Total(f, S)
<1>1. IsFiniteSet(S \union {x}) /\ x \in S \union {x} /\ (S \union {x}) \ {x} = S
  BY FS_AddElement
<1> QED
  BY <1>1, TotalStep

\* The sum over two sets that share nothing.
LEMMA TotalUnion ==
    ASSUME NEW S, IsFiniteSet(S), NEW T, IsFiniteSet(T), S \cap T = {},
           NEW f, \A y \in S \union T : f[y] \in Int
    PROVE  Total(f, S \union T) = Total(f, S) + Total(f, T)
<1> DEFINE Good == {U \in SUBSET T : Total(f, S \union U) = Total(f, S) + Total(f, U)}
<1>1. ASSUME NEW U \in SUBSET T, \A W \in SUBSET U : W # U => W \in Good
      PROVE  U \in Good
  <2>1. /\ IsFiniteSet(U) /\ IsFiniteSet(S \union U) /\ Total(f, S) \in Int
        /\ \A y \in S \union U : f[y] \in Int
    BY FS_Subset, FS_Union, TotalStep
  <2>2. CASE U = {}
    BY <2>1, <2>2, TotalStep
  <2>3. CASE U # {}
    <3>1. PICK x \in U : TRUE
      BY <2>3
    <3> DEFINE W == U \ {x}
    <3>2. W \in Good /\ IsFiniteSet(W)
      BY <1>1, <2>1, FS_Subset
    <3>3. Total(f, S \union U) = f[x] + Total(f, S \union W)
      <4>1. x \in S \union U /\ (S \union U) \ {x} = S \union W
        OBVIOUS
      <4> QED
        BY <2>1, <4>1, TotalStep
    <3>4. Total(f, U) = f[x] + Total(f, W) /\ Total(f, W) \in Int /\ f[x] \in Int
      BY <2>1, <3>2, TotalStep
    <3> QED
      BY <2>1, <3>2, <3>3, <3>4
  <2> QED
    BY <2>2, <2>3
<1> HIDE DEF Good
<1>2. \A U \in SUBSET T : U \in Good
  BY <1>1, SubsetInduction
<1> QED
  BY <1>2 DEF Good

\* Changing the value of one element.
LEMMA TotalChange ==
    ASSUME NEW S, IsFiniteSet(S), NEW x \in S, NEW f, NEW g, f[x] \in Int, g[x] \in Int,
           \A y \in S \ {x} : f[y] \in Int /\ g[y] = f[y]
    PROVE  Total(g, S) = Total(f, S) - f[x] + g[x]
<1> DEFINE R == S \ {x}
<1>1. IsFiniteSet(R) /\ \A y \in R : f[y] \in Int /\ g[y] = f[y]
  BY FS_Subset
<1>2. \A y \in S : f[y] \in Int /\ g[y] \in Int
  OBVIOUS
<1>3. Total(f, S) = f[x] + Total(f, R) /\ Total(g, S) = g[x] + Total(g, R)
  BY <1>2, TotalStep
<1> HIDE DEF R
<1>4. Total(f, R) = Total(g, R) /\ Total(f, R) \in Int
  BY <1>1, TotalEqual, TotalStep
<1> QED
  BY <1>3, <1>4

LEMMA TotalZero ==
    ASSUME NEW S, IsFiniteSet(S), NEW f, \A y \in S : f[y] = 0
    PROVE  Total(f, S) = 0
<1> DEFINE Good == {U \in SUBSET S : Total(f, U) = 0}
<1>1. ASSUME NEW U \in SUBSET S, \A W \in SUBSET U : W # U => W \in Good
      PROVE  U \in Good
  <2>1. IsFiniteSet(U) /\ \A y \in U : f[y] \in Int
    BY FS_Subset
  <2>2. CASE U = {}
    BY <2>1, <2>2, TotalStep
  <2>3. CASE U # {}
    <3>1. PICK x \in U : TRUE
      BY <2>3
    <3>2. U \ {x} \in Good
      BY <1>1
    <3>3. Total(f, U) = f[x] + Total(f, U \ {x})
      BY <2>1, TotalStep
    <3> QED
      BY <3>2, <3>3
  <2> QED
    BY <2>2, <2>3
<1> HIDE DEF Good
<1>2. \A U \in SUBSET S : U \in Good
  BY <1>1, SubsetInduction
<1> QED
  BY <1>2 DEF Good

\* The sum of two functions.
LEMMA TotalPlus ==
    ASSUME NEW S, IsFiniteSet(S), NEW f, NEW g, NEW h,
           \A y \in S : f[y] \in Int /\ g[y] \in Int /\ h[y] = f[y] + g[y]
    PROVE  Total(h, S) = Total(f, S) + Total(g, S)
<1> DEFINE Good == {U \in SUBSET S : Total(h, U) = Total(f, U) + Total(g, U)}
<1>1. ASSUME NEW U \in SUBSET S, \A W \in SUBSET U : W # U => W \in Good
      PROVE  U \in Good
  <2>1. /\ IsFiniteSet(U)
        /\ \A y \in U : f[y] \in Int
        /\ \A y \in U : g[y] \in Int
        /\ \A y \in U : h[y] \in Int
    BY FS_Subset
  <2>2. CASE U = {}
    <3>1. Total(f, U) = 0 /\ Total(g, U) = 0 /\ Total(h, U) = 0
      BY <2>1, <2>2, TotalStep
    <3> QED
      BY <3>1
  <2>3. CASE U # {}
    <3>1. PICK x \in U : TRUE
      BY <2>3
    <3> DEFINE W == U \ {x}
    <3>2. W \in Good /\ IsFiniteSet(W)
      BY <1>1, <2>1, FS_Subset
    <3>3. /\ Total(f, U) = f[x] + Total(f, W) /\ Total(g, U) = g[x] + Total(g, W)
          /\ Total(h, U) = h[x] + Total(h, W)
      BY <2>1, TotalStep
    <3>4. Total(f, W) \in Int /\ Total(g, W) \in Int
      BY <2>1, <3>2, TotalStep
    <3>5. Total(h, W) = Total(f, W) + Total(g, W)
      BY <3>2
    <3>6. h[x] = f[x] + g[x] /\ f[x] \in Int /\ g[x] \in Int
      BY <3>1
    <3> QED
      BY <3>3, <3>4, <3>5, <3>6
  <2> QED
    BY <2>2, <2>3
<1> HIDE DEF Good
<1>2. \A U \in SUBSET S : U \in Good
  BY <1>1, SubsetInduction
<1> QED
  BY <1>2 DEF Good

\* A sum of natural numbers is one, and no smaller than any of them.
LEMMA TotalNat ==
    ASSUME NEW S, IsFiniteSet(S), NEW f, \A y \in S : f[y] \in Nat
    PROVE  Total(f, S) \in Nat /\ \A x \in S : f[x] <= Total(f, S)
<1> DEFINE Good == {U \in SUBSET S : Total(f, U) \in Nat}
<1>1. ASSUME NEW U \in SUBSET S, \A W \in SUBSET U : W # U => W \in Good
      PROVE  U \in Good
  <2>1. IsFiniteSet(U) /\ \A y \in U : f[y] \in Int /\ f[y] \in Nat
    BY FS_Subset
  <2>2. CASE U = {}
    BY <2>1, <2>2, TotalStep
  <2>3. CASE U # {}
    <3>1. PICK x \in U : TRUE
      BY <2>3
    <3>2. U \ {x} \in Good
      BY <1>1
    <3>3. Total(f, U) = f[x] + Total(f, U \ {x})
      BY <2>1, TotalStep
    <3> QED
      BY <2>1, <3>2, <3>3
  <2> QED
    BY <2>2, <2>3
<1> HIDE DEF Good
<1>2. \A U \in SUBSET S : U \in Good
  BY <1>1, SubsetInduction
<1>3. \A U \in SUBSET S : Total(f, U) \in Nat
  BY <1>2 DEF Good
<1>4. ASSUME NEW x \in S PROVE f[x] <= Total(f, S)
  <2>1. Total(f, S) = f[x] + Total(f, S \ {x})
    BY TotalStep
  <2>2. Total(f, S \ {x}) \in Nat /\ f[x] \in Nat
    BY <1>3
  <2> QED
    BY <2>1, <2>2
<1> QED
  BY <1>3, <1>4
-----------------------------------------------------------------------------
(* Arithmetic modulo n *)

LEMMA ModQuotient ==
    ASSUME NEW n \in Nat \ {0}, NEW a \in Int
    PROVE  \E q \in Int : \E r \in 0 .. n - 1 : a = q * n + r /\ a % n = r
<1> DEFINE q == a \div n
           r == a % n
<1>1. r = a - n * q /\ q \in Int
  OBVIOUS
<1>2. r \in 0 .. n - 1
  OBVIOUS
<1> HIDE DEF q, r
<1>3. a = q * n + r
  BY <1>1, <1>2
<1> QED
  BY <1>1, <1>2, <1>3 DEF r

LEMMA ModUnique ==
    ASSUME NEW n \in Nat \ {0}, NEW q \in Int, NEW r \in 0 .. n - 1, NEW a \in Int, a = q * n + r
    PROVE  a % n = r
OBVIOUS

\* What is added may be reduced first.
LEMMA ModSum ==
    ASSUME NEW n \in Nat \ {0}, NEW a \in Int, NEW b \in Int
    PROVE  (a + (b % n)) % n = (a + b) % n
<1>1. PICK q \in Int, r \in 0 .. n - 1 : b = q * n + r /\ b % n = r
  BY ModQuotient
<1>a. a + r \in Int
  OBVIOUS
<1>2. PICK p \in Int, s \in 0 .. n - 1 : a + r = p * n + s /\ (a + r) % n = s
  BY <1>a, ModQuotient
<1> DEFINE c == a + b
           k == p + q
<1>3. c = k * n + s /\ k \in Int /\ c \in Int
  BY <1>1, <1>2
<1> HIDE DEF c, k
<1>4. c % n = s
  BY <1>3, ModUnique
<1> QED
  BY <1>1, <1>2, <1>4 DEF c

LEMMA ModSmall ==
    ASSUME NEW n \in Nat \ {0}, NEW a \in 0 .. n - 1
    PROVE  a % n = a
OBVIOUS
=============================================================================
