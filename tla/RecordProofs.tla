---------------------------- MODULE RecordProofs ----------------------------
(***************************************************************************)
(* What is written is read back: messages from a stream, in whatever       *)
(* pieces it delivers them, and accounts and blocks from the databases.    *)
(***************************************************************************)
EXTENDS Framing, Storage, FoldProofs, SequenceTheorems

-----------------------------------------------------------------------------
(* Induction, and folds of sequences *)

LEMMA UpwardInduction ==
    ASSUME NEW Good, 0 \in Good, \A k \in Nat : k \in Good => k + 1 \in Good
    PROVE  \A n \in Nat : n \in Good
<1> SUFFICES ASSUME NEW n \in Nat PROVE n \in Good
  OBVIOUS
<1> DEFINE S == 1 .. n
           Lasts == {U \in SUBSET S : \A k \in 0 .. n : U = 1 .. k => k \in Good}
<1>1. ASSUME NEW U \in SUBSET S, \A W \in SUBSET U : W # U => W \in Lasts
      PROVE  U \in Lasts
  <2> SUFFICES ASSUME NEW k \in 0 .. n, U = 1 .. k PROVE k \in Good
    OBVIOUS
  <2>1. CASE k = 0
    BY <2>1
  <2>2. CASE k # 0
    <3>1. k - 1 \in 0 .. n /\ k - 1 \in Nat /\ (k - 1) + 1 = k /\ k \in U /\ k \notin 1 .. (k - 1)
      BY <2>2
    <3>2. 1 .. (k - 1) \in SUBSET U
      BY <3>1
    <3>3. 1 .. (k - 1) \in Lasts
      BY <1>1, <3>1, <3>2
    <3>4. k - 1 \in Good
      BY <3>1, <3>3
    <3> QED
      BY <3>1, <3>4
  <2> QED
    BY <2>1, <2>2
<1>2. IsFiniteSet(S)
  BY FS_Interval
<1> HIDE DEF Lasts, S
<1>3. S \in Lasts
  BY <1>1, <1>2, SubsetInduction
<1> QED
  BY <1>3 DEF Lasts, S

\* The choice that FoldLeft makes among the places that are left.
Latest(n) == [s \in SUBSET (1 .. n) |-> Max(s)]

LEMMA MaxUpTo ==
    ASSUME NEW k \in Nat \ {0}
    PROVE  Max(1 .. k) = k /\ (1 .. k) \ {k} = 1 .. (k - 1)
<1>1. k \in 1 .. k /\ \A y \in 1 .. k : k >= y
  OBVIOUS
<1>2. \A x \in 1 .. k : (\A y \in 1 .. k : x >= y) => x = k
  OBVIOUS
<1>3. Max(1 .. k) = k
  BY <1>1, <1>2 DEF Max
<1>4. (1 .. k) \ {k} = 1 .. (k - 1)
  OBVIOUS
<1> QED
  BY <1>3, <1>4

LEMMA LatestIsChoice ==
    ASSUME NEW n \in Nat
    PROVE  IsChoice(Latest(n), 1 .. n)
<1> SUFFICES ASSUME NEW s \in SUBSET (1 .. n), s # {} PROVE Max(s) \in s
  BY DEF IsChoice, Latest
<1> DEFINE Good == {k \in Nat : \A u \in SUBSET (1 .. k) :
                        u # {} => \E x \in u : \A y \in u : x >= y}
<1>1. 0 \in Good
  <2>1. \A u \in SUBSET (1 .. 0) : u = {}
    OBVIOUS
  <2> QED
    BY <2>1
<1>2. ASSUME NEW k \in Nat, k \in Good PROVE k + 1 \in Good
  <2> SUFFICES ASSUME NEW u \in SUBSET (1 .. k + 1), u # {}
               PROVE  \E x \in u : \A y \in u : x >= y
    OBVIOUS
  <2>1. CASE k + 1 \in u
    <3>1. \A y \in u : k + 1 >= y
      OBVIOUS
    <3> QED
      BY <2>1, <3>1
  <2>2. CASE k + 1 \notin u
    <3>1. u \in SUBSET (1 .. k)
      BY <2>2
    <3> QED
      BY <1>2, <3>1
  <2> QED
    BY <2>1, <2>2
<1> HIDE DEF Good
<1>3. n \in Good
  BY <1>1, <1>2, UpwardInduction
<1>4. PICK x \in s : \A y \in s : x >= y
  BY <1>3 DEF Good
<1> QED
  BY <1>4 DEF Max

\* What a fold has come to after each of n places.
Stages(it, n, base, move) ==
    /\ it[1 .. 0] = base
    /\ \A k \in 1 .. n : it[1 .. k] = move[k][it[1 .. (k - 1)]]

LEMMA FoldStates ==
    ASSUME NEW n \in Nat, NEW base, NEW move, NEW it, IsFold(it, 1 .. n, base, move, Latest(n))
    PROVE  Stages(it, n, base, move)
<1>1. 1 .. 0 = {} /\ {} \in SUBSET (1 .. n)
  OBVIOUS
<1>2. it[1 .. 0] = base
  BY <1>1 DEF IsFold
<1>3. ASSUME NEW k \in 1 .. n PROVE it[1 .. k] = move[k][it[1 .. (k - 1)]]
  <2>1. 1 .. k \in SUBSET (1 .. n) /\ 1 .. k # {}
    OBVIOUS
  <2>2. Latest(n)[1 .. k] = k /\ (1 .. k) \ {k} = 1 .. (k - 1)
    BY <2>1, MaxUpTo DEF Latest
  <2>3. it[1 .. k] = move[Latest(n)[1 .. k]][it[(1 .. k) \ {Latest(n)[1 .. k]}]]
    BY <2>1 DEF IsFold
  <2> QED
    BY <2>2, <2>3
<1> QED
  BY <1>2, <1>3 DEF Stages

\* st is what the moves have made of base, one after the other.
States(st, n, base, move) == st[0] = base /\ \A k \in 1 .. n : st[k] = move[k][st[k - 1]]

LEMMA StatesExist ==
    ASSUME NEW n \in Nat, NEW V, NEW base \in V, NEW move \in [1 .. n -> [V -> V]]
    PROVE  \E st \in [0 .. n -> V] : States(st, n, base, move)
<1>1. IsFiniteSet(1 .. n) /\ IsChoice(Latest(n), 1 .. n)
  BY FS_Interval, LatestIsChoice
<1>2. PICK it \in [SUBSET (1 .. n) -> V] : IsFold(it, 1 .. n, base, move, Latest(n))
  BY ONLY <1>1, FoldExists, base \in V, move \in [1 .. n -> [V -> V]]
<1> DEFINE st == [k \in 0 .. n |-> it[1 .. k]]
<1>3. st \in [0 .. n -> V]
  BY <1>2
<1>f. n \in Nat /\ IsFold(it, 1 .. n, base, move, Latest(n))
  BY <1>2
<1>g. Stages(it, n, base, move)
  BY ONLY <1>f, FoldStates
<1>s. /\ it[1 .. 0] = base
      /\ \A k \in 1 .. n : it[1 .. k] = move[k][it[1 .. (k - 1)]]
  BY <1>g DEF Stages
<1>4. st[0] = base
  BY <1>s
<1>5. ASSUME NEW k \in 1 .. n PROVE st[k] = move[k][st[k - 1]]
  <2>1. it[1 .. k] = move[k][it[1 .. (k - 1)]]
    BY <1>s
  <2>2. k - 1 \in 0 .. n /\ k \in 0 .. n
    OBVIOUS
  <2> QED
    BY <2>1, <2>2
<1> HIDE DEF st
<1> QED
  BY <1>3, <1>4, <1>5 DEF States

-----------------------------------------------------------------------------
(* Sequences of sequences *)

\* at[i] cells of flat are those of the first i of n parts.
Places(at, n, parts, flat) ==
    /\ at \in [0 .. n -> Nat]
    /\ at[0] = 0 /\ at[n] = Len(flat)
    /\ \A i \in 1 .. n : /\ at[i] = at[i - 1] + Len(parts[i])
                         /\ at[i] <= at[n]
                         /\ \A k \in 1 .. Len(parts[i]) : flat[at[i - 1] + k] = parts[i][k]

\* Where the parts of a sequence are when they are put one after the other.
LEMMA Flattened ==
    ASSUME NEW S, NEW n \in Nat, NEW parts \in [1 .. n -> Seq(S)]
    PROVE  /\ FlattenSeq(parts) \in Seq(S)
           /\ \E at : Places(at, n, parts, FlattenSeq(parts))
<1> DEFINE move == [i \in 1 .. n |-> [v \in Seq(S) |-> v \o parts[i]]]
<1>1. move \in [1 .. n -> [Seq(S) -> Seq(S)]] /\ <<>> \in Seq(S)
  BY ConcatProperties, EmptySeq
<1> DEFINE V == Seq(S)
           none == <<>>
<1>v. n \in Nat /\ none \in V /\ move \in [1 .. n -> [V -> V]]
  BY <1>1
<1> HIDE DEF move, V, none
<1>w. PICK st \in [0 .. n -> V] : States(st, n, none, move)
  BY ONLY <1>v, StatesExist
<1>2. /\ st \in [0 .. n -> Seq(S)]
      /\ st[0] = <<>> /\ \A k \in 1 .. n : st[k] = move[k][st[k - 1]]
  BY <1>w DEF V, none, States
<1>3. ASSUME NEW k \in 1 .. n
      PROVE  /\ st[k] = st[k - 1] \o parts[k] /\ st[k] \in Seq(S) /\ st[k - 1] \in Seq(S)
             /\ Len(st[k]) = Len(st[k - 1]) + Len(parts[k]) /\ Len(st[k - 1]) \in Nat
             /\ Len(parts[k]) \in Nat /\ parts[k] \in Seq(S)
  <2>1. k - 1 \in 0 .. n /\ k \in 0 .. n
    OBVIOUS
  <2>2. st[k] \in Seq(S) /\ st[k - 1] \in Seq(S) /\ parts[k] \in Seq(S)
    BY <1>2, <2>1
  <2>3. st[k] = st[k - 1] \o parts[k]
    BY <1>2, <2>2 DEF move
  <2> QED
    BY <2>2, <2>3, ConcatProperties, LenProperties
<1>4. FlattenSeq(parts) = st[n]
  <2>1. Len(parts) = n /\ DOMAIN parts = 1 .. n
    OBVIOUS
  <2>2. CASE n = 0
    <3>1. parts = <<>> /\ Len(parts) = 0
      BY <2>1, <2>2
    <3> QED
      BY <1>2, <2>2, <3>1 DEF FlattenSeq
  <2>3. CASE n # 0
    <3> DEFINE I(f) == f = [i \in 1 .. n |-> IF i = 1 THEN parts[i] ELSE f[i - 1] \o parts[i]]
               flat == CHOOSE f : I(f)
    <3>1. I([i \in 1 .. n |-> st[i]])
      <4> SUFFICES ASSUME NEW i \in 1 .. n
                   PROVE  st[i] = IF i = 1 THEN parts[i]
                                  ELSE [m \in 1 .. n |-> st[m]][i - 1] \o parts[i]
        OBVIOUS
      <4>1. CASE i = 1
        <5>1. st[i - 1] = <<>>
          BY <1>2, <4>1
        <5> QED
          BY <1>3, <4>1, <5>1, ConcatEmptySeq
      <4>2. CASE i # 1
        <5>1. i - 1 \in 1 .. n
          BY <4>2
        <5> QED
          BY <1>3, <4>2, <5>1
      <4> QED
        BY <4>1, <4>2
    <3>2. I(flat)
      BY <3>1, Zenon
    <3>3. FlattenSeq(parts) = flat[n]
      BY <2>1, <2>3 DEF FlattenSeq
    <3> HIDE DEF flat
    <3> DEFINE Good == {k \in Nat : k \in 1 .. n => flat[k] = st[k]}
    <3>4. 0 \in Good
      OBVIOUS
    <3>5. ASSUME NEW k \in Nat, k \in Good PROVE k + 1 \in Good
      <4> SUFFICES ASSUME k + 1 \in 1 .. n PROVE flat[k + 1] = st[k + 1]
        OBVIOUS
      <4>0. (k + 1) - 1 = k
        OBVIOUS
      <4>1. CASE k = 0
        <5>1. st[k] = <<>>
          BY <1>2, <4>1
        <5>2. flat[k + 1] = parts[k + 1]
          BY <3>2, <4>1
        <5>3. st[k + 1] = st[k] \o parts[k + 1] /\ parts[k + 1] \in Seq(S)
          BY <1>3, <4>0
        <5> QED
          BY <5>1, <5>2, <5>3, ConcatEmptySeq
      <4>2. CASE k # 0
        <5>1. k \in 1 .. n /\ k + 1 # 1
          BY <4>2
        <5>2. flat[k + 1] = flat[(k + 1) - 1] \o parts[k + 1]
          BY <3>2, <5>1
        <5>3. st[k + 1] = st[k] \o parts[k + 1]
          BY <1>3, <4>0
        <5> QED
          BY <3>5, <4>0, <5>1, <5>2, <5>3
      <4> QED
        BY <4>1, <4>2
    <3> HIDE DEF Good
    <3>6. n \in Good
      BY <3>4, <3>5, UpwardInduction
    <3> QED
      BY <2>3, <3>3, <3>6 DEF Good
  <2> QED
    BY <2>2, <2>3
<1> DEFINE Good == {m \in Nat : m \in 0 .. n =>
                        \A i \in 1 .. m : /\ Len(st[i]) <= Len(st[m])
                                          /\ \A x \in 1 .. Len(st[i]) : st[m][x] = st[i][x]}
<1>5. 0 \in Good
  OBVIOUS
<1>6. ASSUME NEW m \in Nat, m \in Good PROVE m + 1 \in Good
  <2> SUFFICES ASSUME m + 1 \in 0 .. n, NEW i \in 1 .. m + 1
               PROVE  /\ Len(st[i]) <= Len(st[m + 1])
                      /\ \A x \in 1 .. Len(st[i]) : st[m + 1][x] = st[i][x]
    OBVIOUS
  <2>1. m + 1 \in 1 .. n /\ (m + 1) - 1 = m /\ m \in 0 .. n /\ i \in 1 .. n
    OBVIOUS
  <2>2. Len(st[i]) \in Nat
    BY <1>3, <2>1, LenProperties
  <2>3. CASE i = m + 1
    BY <2>2, <2>3
  <2>4. CASE i \in 1 .. m
    <3>1. Len(st[i]) <= Len(st[m]) /\ \A x \in 1 .. Len(st[i]) : st[m][x] = st[i][x]
      BY <1>6, <2>1, <2>4
    <3>2. /\ st[m + 1] = st[m] \o parts[m + 1] /\ st[m] \in Seq(S) /\ parts[m + 1] \in Seq(S)
          /\ Len(st[m]) \in Nat /\ Len(parts[m + 1]) \in Nat
          /\ Len(st[m + 1]) = Len(st[m]) + Len(parts[m + 1])
      BY <1>3, <2>1
    <3>3. \A x \in 1 .. Len(st[m]) : st[m + 1][x] = st[m][x]
      <4>1. \A x \in 1 .. Len(st[m]) + Len(parts[m + 1]) :
                (st[m] \o parts[m + 1])[x] =
                    IF x <= Len(st[m]) THEN st[m][x] ELSE parts[m + 1][x - Len(st[m])]
        BY <3>2, ConcatProperties
      <4>2. \A a, b \in Nat : \A x \in 1 .. a : x \in 1 .. a + b /\ x <= a
        OBVIOUS
      <4>3. \A x \in 1 .. Len(st[m]) : x \in 1 .. Len(st[m]) + Len(parts[m + 1]) /\ x <= Len(st[m])
        BY <3>2, <4>2
      <4> QED
        BY <3>2, <4>1, <4>3
    <3>4. Len(st[i]) <= Len(st[m + 1]) /\ \A x \in 1 .. Len(st[i]) : x \in 1 .. Len(st[m])
      <4>1. \A a, b, c \in Nat : a <= b => a <= b + c /\ \A x \in 1 .. a : x \in 1 .. b
        OBVIOUS
      <4> QED
        BY <2>2, <3>1, <3>2, <4>1
    <3> QED
      BY <3>1, <3>3, <3>4
  <2> QED
    BY <2>1, <2>3, <2>4
<1> HIDE DEF Good
<1>7. n \in Good
  BY <1>5, <1>6, UpwardInduction
<1> DEFINE at == [k \in 0 .. n |-> Len(st[k])]
<1>8. /\ at \in [0 .. n -> Nat] /\ at[0] = 0 /\ at[n] = Len(st[n])
      /\ \A k \in 1 .. n : at[k] = Len(st[k]) /\ at[k - 1] = Len(st[k - 1])
  <2>1. \A k \in 0 .. n : Len(st[k]) \in Nat
    BY <1>2, LenProperties
  <2>2. 0 \in 0 .. n /\ n \in 0 .. n /\ \A k \in 1 .. n : k \in 0 .. n /\ k - 1 \in 0 .. n
    OBVIOUS
  <2>3. Len(st[0]) = 0
    BY <1>2
  <2> QED
    BY <2>1, <2>2, <2>3
<1> HIDE DEF at
<1>9. ASSUME NEW i \in 1 .. n
      PROVE  /\ at[i] = at[i - 1] + Len(parts[i]) /\ at[i] <= at[n]
             /\ \A k \in 1 .. Len(parts[i]) : st[n][at[i - 1] + k] = parts[i][k]
  <2>1. /\ Len(st[i]) = Len(st[i - 1]) + Len(parts[i]) /\ st[i] = st[i - 1] \o parts[i]
        /\ st[i - 1] \in Seq(S) /\ parts[i] \in Seq(S)
        /\ Len(st[i - 1]) \in Nat /\ Len(parts[i]) \in Nat
    BY <1>3
  <2>2. Len(st[i]) <= Len(st[n]) /\ \A x \in 1 .. Len(st[i]) : st[n][x] = st[i][x]
    BY <1>7 DEF Good
  <2>3. ASSUME NEW k \in 1 .. Len(parts[i]) PROVE st[n][at[i - 1] + k] = parts[i][k]
    <3>1. /\ Len(st[i - 1]) + k \in 1 .. Len(st[i - 1]) + Len(parts[i])
          /\ ~ (Len(st[i - 1]) + k <= Len(st[i - 1])) /\ (Len(st[i - 1]) + k) - Len(st[i - 1]) = k
      BY <2>1
    <3>2. (st[i - 1] \o parts[i])[Len(st[i - 1]) + k] = parts[i][k]
      BY <2>1, <3>1, ConcatProperties
    <3> QED
      BY <1>8, <2>1, <2>2, <3>1, <3>2
  <2> QED
    BY <1>8, <2>1, <2>2, <2>3
<1>10. st[n] \in Seq(S)
  BY <1>2
<1>11. Places(at, n, parts, st[n])
  BY <1>8, <1>9 DEF Places
<1> QED
  BY <1>4, <1>10, <1>11

-----------------------------------------------------------------------------
(* Transactions in their order *)

\* Of finitely many transactions with numbers for data one is the last.
LEMMA LastExists ==
    ASSUME NEW T, IsFiniteSet(T), \A t \in T : t.data \in Nat
    PROVE  \A U \in SUBSET T : U # {} => \E m \in U : \A t \in U : t.data <= m.data
<1> DEFINE Good == {U \in SUBSET T : U # {} => \E m \in U : \A t \in U : t.data <= m.data}
<1>1. ASSUME NEW U \in SUBSET T, \A W \in SUBSET U : W # U => W \in Good
      PROVE  U \in Good
  <2> SUFFICES ASSUME NEW x \in U PROVE \E m \in U : \A t \in U : t.data <= m.data
    OBVIOUS
  <2>1. x.data \in Nat /\ \A t \in U : t.data \in Nat
    OBVIOUS
  <2>2. CASE U = {x}
    BY <2>1, <2>2
  <2>3. CASE U # {x}
    <3>1. U \ {x} \in Good /\ U \ {x} # {}
      BY <1>1, <2>3
    <3>2. PICK m \in U \ {x} : \A t \in U \ {x} : t.data <= m.data
      BY <3>1
    <3>3. CASE x.data <= m.data
      BY <3>2, <3>3
    <3>4. CASE ~ (x.data <= m.data)
      <4>1. \A t \in U : t.data <= x.data
        BY <2>1, <3>2, <3>4
      <4> QED
        BY <4>1
    <3> QED
      BY <3>3, <3>4
  <2> QED
    BY <2>2, <2>3
<1> HIDE DEF Good
<1>2. \A U \in SUBSET T : U \in Good
  BY <1>1, SubsetInduction
<1> QED
  BY <1>2 DEF Good

Ordered(order, T) ==
    /\ order \in [1 .. Cardinality(T) -> T]
    /\ \A i, k \in 1 .. Cardinality(T) : i < k => order[i].data < order[k].data

LEMMA OrderExists ==
    ASSUME NEW T, IsFiniteSet(T), \A t \in T : t.data \in Nat,
           \A t, u \in T : t.data = u.data => t = u
    PROVE  \E order : Ordered(order, T)
<1> DEFINE Good == {U \in SUBSET T : \E order : Ordered(order, U)}
<1>1. ASSUME NEW U \in SUBSET T, \A W \in SUBSET U : W # U => W \in Good
      PROVE  U \in Good
  <2>1. CASE U = {}
    <3>1. Cardinality(U) = 0 /\ Ordered(<<>>, U)
      BY <2>1, FS_EmptySet DEF Ordered
    <3> QED
      BY <3>1
  <2>2. CASE U # {}
    <3>1. PICK m \in U : \A t \in U : t.data <= m.data
      BY <2>2, LastExists
    <3> DEFINE W == U \ {m}
               n == Cardinality(W)
    <3>2. IsFiniteSet(W) /\ n \in Nat /\ Cardinality(U) = n + 1
      <4>1. IsFiniteSet(U) /\ Cardinality(U) \in Nat
        BY FS_Subset, FS_CardinalityType
      <4>2. IsFiniteSet(W) /\ n = Cardinality(U) - 1 /\ n \in Nat
        BY <4>1, FS_RemoveElement, FS_CardinalityType
      <4> QED
        BY <4>1, <4>2
    <3>3. W \in Good
      BY <1>1
    <3>4. PICK order : Ordered(order, W)
      BY <3>3
    <3> DEFINE longer == [i \in 1 .. n + 1 |-> IF i <= n THEN order[i] ELSE m]
    <3>5. \A t \in W : t.data < m.data /\ t.data \in Nat /\ m.data \in Nat
      BY <3>1
    <3>6. \A i \in 1 .. n : order[i] \in W
      BY <3>4 DEF Ordered
    <3> HIDE DEF n
    <3>7. longer \in [1 .. n + 1 -> U]
      BY <3>2, <3>6
    <3>8. ASSUME NEW i \in 1 .. n + 1, NEW k \in 1 .. n + 1, i < k
          PROVE  longer[i].data < longer[k].data
      <4>1. i \in 1 .. n /\ longer[i] = order[i]
        BY <3>2, <3>8
      <4>2. CASE k = n + 1
        BY <3>2, <3>5, <3>6, <4>1, <4>2
      <4>3. CASE k \in 1 .. n
        <5>1. longer[k] = order[k]
          BY <3>2, <4>3
        <5> QED
          BY <3>4, <3>8, <4>1, <4>3, <5>1 DEF Ordered, n
      <4> QED
        BY <3>2, <4>2, <4>3
    <3> HIDE DEF longer, W
    <3>9. Ordered(longer, U)
      BY <3>2, <3>7, <3>8 DEF Ordered
    <3> QED
      BY <3>9
  <2> QED
    BY <2>1, <2>2
<1> HIDE DEF Good
<1>2. T \in Good
  BY <1>1, SubsetInduction
<1> QED
  BY <1>2 DEF Good

\* InOrder has every transaction once.
LEMMA InOrderFacts ==
    ASSUME NEW T, IsFiniteSet(T), \A t \in T : t.data \in Nat,
           \A t, u \in T : t.data = u.data => t = u
    PROVE  /\ Cardinality(T) \in Nat
           /\ InOrder(T) \in [1 .. Cardinality(T) -> T]
           /\ Len(InOrder(T)) = Cardinality(T)
           /\ \A i, k \in 1 .. Cardinality(T) : i # k => InOrder(T)[i].data # InOrder(T)[k].data
           /\ T = {InOrder(T)[i] : i \in 1 .. Cardinality(T)}
<1> DEFINE n == Cardinality(T)
           order == InOrder(T)
<1>1. n \in Nat
  BY FS_CardinalityType
<1>2. Ordered(order, T)
  <2>1. PICK o : Ordered(o, T)
    BY OrderExists
  <2>2. /\ o \in [1 .. n -> T]
        /\ \A i, k \in 1 .. n : i < k => o[i].data < o[k].data
    BY <2>1 DEF Ordered
  <2>3. order = CHOOSE f \in [1 .. n -> T] : \A i, k \in 1 .. n : i < k => f[i].data < f[k].data
    BY DEF InOrder
  <2> HIDE DEF order, n
  <2>4. /\ order \in [1 .. n -> T]
        /\ \A i, k \in 1 .. n : i < k => order[i].data < order[k].data
    BY <2>2, <2>3, Zenon
  <2> QED
    BY <2>4 DEF Ordered, n
<1>3. /\ order \in [1 .. n -> T]
      /\ \A i, k \in 1 .. n : i < k => order[i].data < order[k].data
  BY <1>2 DEF Ordered
<1> HIDE DEF order, n
<1>4. Len(order) = n
  BY <1>1, <1>3
<1>5. \A i \in 1 .. n : order[i] \in T /\ order[i].data \in Nat
  BY <1>3
<1>6. \A i, k \in 1 .. n : i # k => order[i].data # order[k].data
  <2> SUFFICES ASSUME NEW i \in 1 .. n, NEW k \in 1 .. n, i # k
               PROVE  order[i].data # order[k].data
    OBVIOUS
  <2>1. i < k \/ k < i
    BY <1>1
  <2> QED
    BY <1>3, <1>5, <2>1
<1>7. T = {order[i] : i \in 1 .. n}
  <2>1. order \in Injection(1 .. n, T)
    BY <1>3, <1>6 DEF Injection, IsInjective
  <2>2. IsFiniteSet(T) /\ Cardinality(1 .. n) = n /\ Cardinality(T) = n
    BY <1>1, FS_Interval DEF n
  <2>3. order \in Surjection(1 .. n, T)
    BY <2>1, <2>2, FS_Injection
  <2> QED
    BY <1>3, <2>3 DEF Surjection
<1> QED
  BY <1>1, <1>3, <1>4, <1>6, <1>7 DEF order, n

-----------------------------------------------------------------------------
(* Transactions and blocks *)

\* The cells are in the buffer, from the offset on.
Holds(buffer, offset, cells) ==
    /\ offset + Len(cells) <= Len(buffer)
    /\ \A k \in 1 .. Len(cells) : buffer[offset + k] = cells[k]

LEMMA FieldHeld ==
    ASSUME NEW buffer, NEW offset \in Nat, NEW cells, Len(buffer) \in Nat, Len(cells) \in Nat,
           Holds(buffer, offset, cells), NEW k \in Nat, k < Len(cells)
    PROVE  Field(buffer, offset + k) = cells[k + 1]
<1>1. offset + k < Len(buffer) /\ k + 1 \in 1 .. Len(cells) /\ (offset + k) + 1 = offset + (k + 1)
  BY DEF Holds
<1>2. buffer[offset + (k + 1)] = cells[k + 1]
  BY <1>1 DEF Holds
<1> QED
  BY <1>1, <1>2 DEF Field

\* The first fields of what is held.
LEMMA FieldsHeld ==
    ASSUME NEW S, NEW cells \in Seq(S), NEW buffer, Len(buffer) \in Nat, NEW offset \in Nat,
           Holds(buffer, offset, cells)
    PROVE  /\ Len(cells) > 0 => Field(buffer, offset) = cells[1]
           /\ Len(cells) > 1 => Field(buffer, offset + 1) = cells[2]
           /\ Len(cells) > 2 => Field(buffer, offset + 2) = cells[3]
           /\ Len(cells) > 3 => Field(buffer, offset + 3) = cells[4]
           /\ Len(cells) > 4 => Field(buffer, offset + 4) = cells[5]
<1>1. Len(cells) \in Nat
  BY LenProperties
<1>2. ASSUME NEW k \in Nat, k < Len(cells) PROVE Field(buffer, offset + k) = cells[k + 1]
  BY <1>1, <1>2, FieldHeld
<1>3. /\ Len(cells) > 0 => Field(buffer, offset + 0) = cells[0 + 1]
      /\ Len(cells) > 1 => Field(buffer, offset + 1) = cells[1 + 1]
      /\ Len(cells) > 2 => Field(buffer, offset + 2) = cells[2 + 1]
      /\ Len(cells) > 3 => Field(buffer, offset + 3) = cells[3 + 1]
      /\ Len(cells) > 4 => Field(buffer, offset + 4) = cells[4 + 1]
  BY <1>1, <1>2
<1>4. offset + 0 = offset /\ 0 + 1 = 1 /\ 1 + 1 = 2 /\ 2 + 1 = 3 /\ 3 + 1 = 4 /\ 4 + 1 = 5
  OBVIOUS
<1> QED
  BY <1>3, <1>4

\* Cells that follow others in what is held are held too.
LEMMA HoldsParts ==
    ASSUME NEW S, NEW a \in Seq(S), NEW b \in Seq(S), NEW buffer, Len(buffer) \in Nat,
           NEW offset \in Nat, Holds(buffer, offset, a \o b)
    PROVE  Holds(buffer, offset, a) /\ Holds(buffer, offset + Len(a), b)
<1>1. /\ Len(a) \in Nat /\ Len(b) \in Nat /\ Len(a \o b) = Len(a) + Len(b)
      /\ \A i \in 1 .. Len(a) + Len(b) :
            (a \o b)[i] = IF i <= Len(a) THEN a[i] ELSE b[i - Len(a)]
  <2>1. Len(a) \in Nat /\ Len(b) \in Nat
    BY LenProperties
  <2> QED
    BY <2>1, ConcatProperties
<1> DEFINE c == a \o b
<1>2. /\ offset + Len(c) <= Len(buffer)
      /\ \A k \in 1 .. Len(c) : buffer[offset + k] = c[k]
  BY DEF Holds
<1>3. Len(c) = Len(a) + Len(b)
  BY <1>1
<1>4. \A i \in 1 .. Len(a) + Len(b) : c[i] = IF i <= Len(a) THEN a[i] ELSE b[i - Len(a)]
  BY <1>1
<1> HIDE DEF c
<1>5. Holds(buffer, offset, a)
  <2>1. offset + Len(a) <= Len(buffer)
    BY <1>1, <1>2, <1>3
  <2>2. ASSUME NEW k \in 1 .. Len(a) PROVE buffer[offset + k] = a[k]
    <3>1. k \in 1 .. Len(a) + Len(b) /\ k <= Len(a)
      BY <1>1
    <3> QED
      BY <1>2, <1>3, <1>4, <3>1
  <2> QED
    BY <2>1, <2>2 DEF Holds
<1>6. Holds(buffer, offset + Len(a), b)
  <2>1. (offset + Len(a)) + Len(b) <= Len(buffer)
    BY <1>1, <1>2, <1>3
  <2>2. ASSUME NEW k \in 1 .. Len(b) PROVE buffer[(offset + Len(a)) + k] = b[k]
    <3>1. /\ Len(a) + k \in 1 .. Len(a) + Len(b) /\ ~ (Len(a) + k <= Len(a))
          /\ (Len(a) + k) - Len(a) = k /\ offset + (Len(a) + k) = (offset + Len(a)) + k
      BY <1>1
    <3>2. c[Len(a) + k] = b[k]
      BY <1>4, <3>1
    <3>3. buffer[offset + (Len(a) + k)] = c[Len(a) + k]
      BY <1>2, <1>3, <3>1
    <3> QED
      BY <3>1, <3>2, <3>3
  <2> QED
    BY <2>1, <2>2 DEF Holds
<1> QED
  BY <1>5, <1>6

\* A signature is read as long as it was written.
LEMMA CellsHeld ==
    ASSUME NEW S, NEW cells \in Seq(S), NEW buffer, NEW offset \in Nat, Len(buffer) \in Nat,
           Holds(buffer, offset, cells)
    PROVE  Cells(buffer, offset, Len(cells)) = cells
<1>1. Len(cells) \in Nat /\ cells = [i \in 1 .. Len(cells) |-> cells[i]]
  BY LenProperties
<1>2. ASSUME NEW i \in 1 .. Len(cells) PROVE Field(buffer, offset + i - 1) = cells[i]
  <2>1. i - 1 \in Nat /\ i - 1 < Len(cells) /\ (i - 1) + 1 = i /\ offset + (i - 1) = offset + i - 1
    BY <1>1
  <2>2. Field(buffer, offset + (i - 1)) = cells[(i - 1) + 1]
    BY <1>1, <2>1, FieldHeld
  <2> QED
    BY <2>1, <2>2
<1> QED
  BY <1>1, <1>2 DEF Cells

LEMMA TransactionWritten ==
    ASSUME NEW tx \in TxRecord
    PROVE  /\ WriteTransaction(tx) \in Seq(Nat)
           /\ Len(WriteTransaction(tx)) = TransactionSize(tx) /\ TransactionSize(tx) \in Nat
<1>1. tx.signature \in Seq(Nat) /\ tx.data \in Nat /\ tx.IDHash \in Nat
  BY DEF TxRecord
<1>2. Len(tx.signature) \in Nat
  BY <1>1, LenProperties
<1> DEFINE first == <<tx.data, tx.IDHash, Len(tx.signature)>>
<1>3. first \in Seq(Nat) /\ Len(first) = 3
  BY <1>1, <1>2
<1> HIDE DEF first
<1>4. WriteTransaction(tx) = first \o tx.signature
  BY DEF WriteTransaction, first
<1>5. /\ first \o tx.signature \in Seq(Nat)
      /\ Len(first \o tx.signature) = Len(first) + Len(tx.signature)
  BY <1>1, <1>3, ConcatProperties
<1> QED
  BY <1>2, <1>3, <1>4, <1>5 DEF TransactionSize

\* A transaction is read back where it was written.
LEMMA TransactionRead ==
    ASSUME NEW tx \in TxRecord, NEW buffer, Len(buffer) \in Nat, NEW offset \in Nat,
           Holds(buffer, offset, WriteTransaction(tx))
    PROVE  ReadTransaction(buffer, offset) = Read(tx, offset + TransactionSize(tx))
<1>1. tx.signature \in Seq(Nat) /\ tx.data \in Nat /\ tx.IDHash \in Nat
  BY DEF TxRecord
<1>2. Len(tx.signature) \in Nat
  BY <1>1, LenProperties
<1> DEFINE first == <<tx.data, tx.IDHash, Len(tx.signature)>>
<1>3. first \in Seq(Nat) /\ Len(first) = 3
  BY <1>1, <1>2
<1>4. first[1] = tx.data /\ first[2] = tx.IDHash /\ first[3] = Len(tx.signature)
  OBVIOUS
<1> HIDE DEF first
<1>5. Holds(buffer, offset, first) /\ Holds(buffer, offset + 3, tx.signature)
  <2>1. Holds(buffer, offset, first \o tx.signature)
    BY DEF WriteTransaction, first
  <2> QED
    BY <1>1, <1>3, <2>1, HoldsParts
<1>6. /\ Field(buffer, offset) = tx.data
      /\ Field(buffer, offset + 1) = tx.IDHash
      /\ Field(buffer, offset + 2) = Len(tx.signature)
  <2>1. Len(first) > 0 /\ Len(first) > 1 /\ Len(first) > 2
    BY <1>3
  <2> QED
    BY <1>3, <1>4, <1>5, <2>1, FieldsHeld
<1>7. ~ (Left(buffer, offset) < 3) /\ ~ (Left(buffer, offset + 3) < Len(tx.signature))
  <2> DEFINE n == Len(tx.signature)
  <2>1. n \in Nat /\ (offset + 3) + n <= Len(buffer)
    BY <1>2, <1>3, <1>5 DEF Holds
  <2> HIDE DEF n
  <2>2. ~ (Len(buffer) - offset < 3) /\ ~ (Len(buffer) - (offset + 3) < n)
    BY <2>1
  <2> QED
    BY <2>2 DEF Left, n
<1>8. Cells(buffer, offset + 3, Len(tx.signature)) = tx.signature
  BY <1>1, <1>5, CellsHeld
<1>9. tx = [data |-> tx.data, IDHash |-> tx.IDHash, signature |-> tx.signature]
  BY DEF TxRecord
<1> QED
  BY <1>2, <1>6, <1>7, <1>8, <1>9 DEF ReadTransaction, TransactionSize

LEMMA HeaderRead ==
    ASSUME NEW header, NEW buffer, Len(buffer) \in Nat, NEW offset \in Nat,
           Holds(buffer, offset, WriteBlockHeader(header)),
           header = [info |-> header.info, txRoot |-> header.txRoot,
                     previous |-> header.previous, accRoot |-> header.accRoot]
    PROVE  ReadBlockHeader(buffer, offset) = Read(header, offset + HeaderSize)
<1> DEFINE cells == WriteBlockHeader(header)
<1>1. /\ Len(cells) = 4 /\ cells[1] = header.info /\ cells[2] = header.txRoot
      /\ cells[3] = header.previous /\ cells[4] = header.accRoot
  BY DEF WriteBlockHeader
<1> HIDE DEF cells
<1>2. Holds(buffer, offset, cells)
  BY DEF cells
<1>3. cells \in Seq({header.info, header.txRoot, header.previous, header.accRoot})
  BY DEF cells, WriteBlockHeader
<1>4. /\ Field(buffer, offset) = cells[1] /\ Field(buffer, offset + 1) = cells[2]
      /\ Field(buffer, offset + 2) = cells[3] /\ Field(buffer, offset + 3) = cells[4]
  <2>1. Len(cells) > 0 /\ Len(cells) > 1 /\ Len(cells) > 2 /\ Len(cells) > 3
    BY <1>1
  <2> QED
    BY <1>2, <1>3, <2>1, FieldsHeld
<1>5. ~ (Left(buffer, offset) < HeaderSize)
  BY <1>1, <1>2 DEF Holds, Left, HeaderSize
<1> QED
  BY <1>1, <1>4, <1>5 DEF ReadBlockHeader, HeaderSize

-----------------------------------------------------------------------------
(* Bodies of blocks *)

\* The size of each transaction of a set.
Sizes(T) == [t \in T |-> TransactionSize(t)]

LEMMA SizesAreTotal ==
    ASSUME NEW T, IsFiniteSet(T), T \subseteq TxRecord
    PROVE  MapThenSumSet(TransactionSize, T) = Total(Sizes(T), T)
<1> DEFINE I(it) == it = [s \in SUBSET T |-> IF s = {} THEN 0
                      ELSE TransactionSize(CHOOSE x \in s : TRUE) + it[s \ {CHOOSE x \in s : TRUE}]]
           f == Sizes(T)
<1>1. \A x \in T : f[x] \in Int /\ f[x] = TransactionSize(x)
  <2>1. \A x \in T : TransactionSize(x) \in Nat
    BY TransactionWritten
  <2> QED
    BY <2>1 DEF Sizes
<1>2. IsChoice(First(T), T) /\ \A s \in SUBSET T : s # {} => (CHOOSE x \in s : TRUE) \in T
  BY DEF IsChoice, First
<1> HIDE DEF f
<1>3. ASSUME NEW it
      PROVE  Adds(it, T, f, First(T)) <=> I(it)
  <2>1. \A s \in SUBSET T : s # {} =>
           f[First(T)[s]] + it[s \ {First(T)[s]}]
             = TransactionSize(CHOOSE x \in s : TRUE) + it[s \ {CHOOSE x \in s : TRUE}]
    BY <1>1, <1>2 DEF First
  <2> QED
    BY <2>1, ZenonT(60) DEF Adds
<1>4. PICK it \in [SUBSET T -> Int] : it[T] = Total(f, T) /\ Adds(it, T, f, First(T))
  BY <1>1, TotalIsSum
<1>5. MapThenSumSet(TransactionSize, T) = (CHOOSE i : I(i))[T]
  BY DEF MapThenSumSet, MapThenFoldSet
<1> DEFINE sum == CHOOSE i : I(i)
<1>6. Adds(sum, T, f, First(T))
  <2>1. I(sum)
    <3>1. I(it)
      BY <1>3, <1>4
    <3> QED
      BY <3>1, ZenonT(60)
  <2> HIDE DEF sum
  <2> QED
    BY <2>1, <1>3
<1> HIDE DEF sum
<1>7. it[T] = sum[T]
  <2>1. /\ T \subseteq T /\ T \in SUBSET T /\ IsFiniteSet(T)
        /\ \A x \in T : f[x] = f[x]
    OBVIOUS
  <2> QED
    BY ONLY <1>2, <1>4, <1>6, <2>1, SumUnique
<1> QED
  BY <1>4, <1>5, <1>7 DEF sum, f

\* The cells of every transaction of a body, in their order.
Parts(T) == [i \in 1 .. Len(InOrder(T)) |-> WriteTransaction(InOrder(T)[i])]

LEMMA PartsFacts ==
    ASSUME NEW body, IsBlockBody(body)
    PROVE  LET T == body.txSet
               n == Cardinality(T)
           IN  /\ n \in Nat /\ body.count = n /\ IsFiniteSet(T) /\ T \subseteq TxRecord
               /\ Parts(T) \in [1 .. n -> Seq(Nat)]
               /\ \A i \in 1 .. n : /\ InOrder(T)[i] \in T
                                    /\ Parts(T)[i] = WriteTransaction(InOrder(T)[i])
                                    /\ Len(Parts(T)[i]) = TransactionSize(InOrder(T)[i])
               /\ \A i, k \in 1 .. n : i # k => InOrder(T)[i].data # InOrder(T)[k].data
               /\ T = {InOrder(T)[i] : i \in 1 .. n}
               /\ body = [count |-> n, txSet |-> T]
<1> DEFINE T == body.txSet
           n == Cardinality(T)
           order == InOrder(T)
<1>1. /\ IsFiniteSet(T) /\ T \subseteq TxRecord /\ body.count = n
      /\ body = [count |-> n, txSet |-> T]
      /\ \A t, u \in T : t.data = u.data => t = u
  BY DEF IsBlockBody
<1>2. \A t \in T : t.data \in Nat
  BY <1>1 DEF TxRecord
<1> HIDE DEF T
<1>3. /\ n \in Nat /\ order \in [1 .. n -> T] /\ Len(order) = n
      /\ \A i, k \in 1 .. n : i # k => order[i].data # order[k].data
      /\ T = {order[i] : i \in 1 .. n}
  BY <1>1, <1>2, InOrderFacts
<1>p. Parts(T) = [i \in 1 .. n |-> WriteTransaction(order[i])]
  BY <1>3 DEF Parts
<1> HIDE DEF n, order
<1>4. ASSUME NEW i \in 1 .. n
      PROVE  /\ order[i] \in T /\ WriteTransaction(order[i]) \in Seq(Nat)
             /\ Len(WriteTransaction(order[i])) = TransactionSize(order[i])
  <2>1. order[i] \in T /\ order[i] \in TxRecord
    BY <1>1, <1>3
  <2> QED
    BY <2>1, TransactionWritten
<1> QED
  BY <1>1, <1>3, <1>4, <1>p DEF T, n, order

\* A body is written into as many cells as are counted for it.
LEMMA BodyWritten ==
    ASSUME NEW body, IsBlockBody(body)
    PROVE  /\ WriteBlockBody(body) \in Seq(Nat) /\ BlockBodySize(body) \in Nat
           /\ Len(WriteBlockBody(body)) = BlockBodySize(body)
           /\ WriteBlockBody(body) = <<body.count>> \o FlattenSeq(Parts(body.txSet))
           /\ FlattenSeq(Parts(body.txSet)) \in Seq(Nat)
           /\ BlockBodySize(body) = 1 + Len(FlattenSeq(Parts(body.txSet)))
           /\ Len(FlattenSeq(Parts(body.txSet))) \in Nat
<1> DEFINE T == body.txSet
           n == Cardinality(T)
           order == InOrder(T)
           parts == Parts(T)
           flat == FlattenSeq(parts)
           f == Sizes(T)
           upTo(k) == {order[i] : i \in 1 .. k}
<1>1. /\ n \in Nat /\ body.count = n /\ IsFiniteSet(T) /\ T \subseteq TxRecord
      /\ parts \in [1 .. n -> Seq(Nat)]
      /\ \A i \in 1 .. n : /\ order[i] \in T
                           /\ Len(parts[i]) = TransactionSize(order[i])
      /\ \A i, k \in 1 .. n : i # k => order[i].data # order[k].data
      /\ T = upTo(n)
  BY PartsFacts
<1>w. WriteBlockBody(body) = <<body.count>> \o flat
  BY DEF WriteBlockBody, Parts
<1>s. BlockBodySize(body) = 1 + Total(f, T)
  BY <1>1, SizesAreTotal DEF BlockBodySize
<1>f. \A t \in T : f[t] = TransactionSize(t) /\ f[t] \in Nat
  BY <1>1, TransactionWritten DEF Sizes
<1> HIDE DEF T, n, order, parts, f
<1>2. n \in Nat /\ parts \in [1 .. n -> Seq(Nat)]
  BY <1>1
<1>3. flat \in Seq(Nat) /\ \E at : Places(at, n, parts, flat)
  BY ONLY <1>2, Flattened
<1>p. PICK at : Places(at, n, parts, flat)
  BY <1>3
<1>a. /\ at \in [0 .. n -> Nat] /\ at[0] = 0 /\ at[n] = Len(flat)
      /\ \A i \in 1 .. n : at[i] = at[i - 1] + Len(parts[i])
  BY <1>p DEF Places
<1> HIDE DEF flat
<1>n. n \in Nat
  BY <1>1
<1> DEFINE Good == {k \in Nat : k \in 0 .. n => at[k] = Total(f, upTo(k))}
<1>4. 0 \in Good
  <2>1. upTo(0) = {} /\ IsFiniteSet({})
    BY FS_EmptySet
  <2>2. Total(f, {}) = 0
    BY <2>1, TotalStep
  <2> QED
    BY <1>a, <2>1, <2>2
<1>5. ASSUME NEW k \in Nat, k \in Good PROVE k + 1 \in Good
  <2> SUFFICES ASSUME k + 1 \in 0 .. n PROVE at[k + 1] = Total(f, upTo(k + 1))
    OBVIOUS
  <2>1. k + 1 \in 1 .. n /\ (k + 1) - 1 = k /\ k \in 0 .. n
    BY <1>1
  <2>2. at[k + 1] = at[k] + TransactionSize(order[k + 1])
    BY <1>1, <1>a, <2>1
  <2>3. upTo(k + 1) = upTo(k) \union {order[k + 1]}
    <3>1. 1 .. k + 1 = (1 .. k) \union {k + 1}
      OBVIOUS
    <3> QED
      BY <3>1
  <2>4. order[k + 1] \notin upTo(k)
    <3>1. \A i \in 1 .. k : i \in 1 .. n /\ i # k + 1
      BY <1>n, <2>1
    <3>2. \A i \in 1 .. k : order[i].data # order[k + 1].data
      BY <1>1, <2>1, <3>1
    <3> QED
      BY <3>2
  <2>5. upTo(k) \subseteq T /\ order[k + 1] \in T
    <3>1. \A i \in 1 .. k : i \in 1 .. n
      BY <1>n, <2>1
    <3> QED
      BY <1>1, <2>1, <3>1
  <2> HIDE DEF upTo
  <2>6. IsFiniteSet(upTo(k)) /\ \A y \in upTo(k) \union {order[k + 1]} : f[y] \in Int
    BY <1>1, <1>f, <2>5, FS_Subset
  <2>7. Total(f, upTo(k) \union {order[k + 1]}) = f[order[k + 1]] + Total(f, upTo(k))
    BY ONLY <2>4, <2>6, TotalAdd
  <2>8. at[k] = Total(f, upTo(k)) /\ at[k] \in Nat
    BY <1>a, <1>5, <2>1
  <2>9. f[order[k + 1]] = TransactionSize(order[k + 1]) /\ f[order[k + 1]] \in Nat
    BY <1>f, <2>5
  <2>10. at[k + 1] = Total(f, upTo(k) \union {order[k + 1]})
    BY ONLY <2>2, <2>7, <2>8, <2>9
  <2> QED
    BY ONLY <2>3, <2>10
<1> HIDE DEF Good, upTo
<1>6. n \in Good
  BY <1>1, <1>4, <1>5, UpwardInduction
<1>7. at[n] = Total(f, T) /\ at[n] \in Nat
  BY <1>1, <1>a, <1>6 DEF Good
<1>8. BlockBodySize(body) = 1 + Len(flat) /\ Len(flat) \in Nat /\ flat \in Seq(Nat)
  BY <1>3, <1>a, <1>7, <1>s
<1>9. <<body.count>> \in Seq(Nat) /\ Len(<<body.count>>) = 1
  BY <1>1
<1>10. <<body.count>> \o flat \in Seq(Nat) /\ Len(<<body.count>> \o flat) = 1 + Len(flat)
  BY <1>8, <1>9, ConcatProperties
<1> QED
  BY <1>8, <1>10, <1>w DEF flat, parts, T

\* A part is held where the places say.
LEMMA PartHeld ==
    ASSUME NEW buffer, Len(buffer) \in Nat, NEW offset \in Nat, NEW flat \in Seq(Nat),
           Holds(buffer, offset, flat), NEW n \in Nat, NEW parts, NEW at,
           Places(at, n, parts, flat), NEW i \in 1 .. n, Len(parts[i]) \in Nat
    PROVE  /\ Holds(buffer, offset + at[i - 1], parts[i])
           /\ at[i - 1] \in Nat /\ at[i] \in Nat /\ at[i] = at[i - 1] + Len(parts[i])
<1>1. at[i] = at[i - 1] + Len(parts[i]) /\ at[i] <= at[n] /\ at[n] = Len(flat)
  BY DEF Places
<1>p. \A k \in 1 .. Len(parts[i]) : flat[at[i - 1] + k] = parts[i][k]
  BY DEF Places
<1>2. at[i - 1] \in Nat /\ at[i] \in Nat /\ at[n] \in Nat
  <2>1. i - 1 \in 0 .. n /\ i \in 0 .. n /\ n \in 0 .. n
    OBVIOUS
  <2> QED
    BY <2>1 DEF Places
<1>3. /\ offset + Len(flat) <= Len(buffer)
      /\ \A k \in 1 .. Len(flat) : buffer[offset + k] = flat[k]
  BY DEF Holds
<1>a. offset \in Nat /\ Len(buffer) \in Nat /\ Len(parts[i]) \in Nat
  OBVIOUS
<1>4. (offset + at[i - 1]) + Len(parts[i]) <= Len(buffer)
  BY ONLY <1>1, <1>2, <1>3, <1>a
<1>5. ASSUME NEW k \in 1 .. Len(parts[i]) PROVE buffer[(offset + at[i - 1]) + k] = parts[i][k]
  <2>1. k \in 1 .. Len(parts[i])
    OBVIOUS
  <2>2. (offset + at[i - 1]) + k = offset + (at[i - 1] + k) /\ at[i - 1] + k \in 1 .. Len(flat)
    <3>1. /\ at[i] = at[i - 1] + Len(parts[i]) /\ at[i] <= Len(flat)
          /\ at[i - 1] \in Nat /\ at[i] \in Nat /\ Len(flat) \in Nat
      BY ONLY <1>1, <1>2
    <3> DEFINE a == at[i - 1]
               b == at[i]
               c == Len(flat)
               m == Len(parts[i])
    <3>2. /\ a \in Nat /\ b \in Nat /\ c \in Nat /\ m \in Nat /\ k \in 1 .. m
          /\ b = a + m /\ b <= c /\ offset \in Nat
      BY <1>a, <3>1
    <3> HIDE DEF a, b, c, m
    <3>3. (offset + a) + k = offset + (a + k) /\ a + k \in 1 .. c
      BY ONLY <3>2
    <3> QED
      BY <3>3 DEF a, c
  <2>3. buffer[offset + (at[i - 1] + k)] = flat[at[i - 1] + k]
    BY <1>3, <2>2
  <2> QED
    BY <1>p, <2>2, <2>3
<1> QED
  BY <1>1, <1>2, <1>4, <1>5 DEF Holds

\* A fold that looks at how many it has folded, and not at which.
Counted(n, st) == [s \in SUBSET (1 .. n) |-> st[Cardinality(s)]]

CountsUp(it, n, st) ==
    /\ it[{}] = st[0]
    /\ \A s \in SUBSET (1 .. n) : s # {} =>
        /\ Max(s) \in s
        /\ \E k \in 1 .. n : it[s] = st[k] /\ it[s \ {Max(s)}] = st[k - 1]

LEMMA CountedFold ==
    ASSUME NEW n \in Nat, NEW st
    PROVE  CountsUp(Counted(n, st), n, st)
<1> DEFINE it == [s \in SUBSET (1 .. n) |-> st[Cardinality(s)]]
<1>1. it[{}] = st[0]
  BY FS_EmptySet
<1>2. ASSUME NEW s \in SUBSET (1 .. n), s # {}
      PROVE  /\ Max(s) \in s
             /\ \E k \in 1 .. n : it[s] = st[k] /\ it[s \ {Max(s)}] = st[k - 1]
  <2>1. Max(s) \in s
    BY <1>2, LatestIsChoice DEF IsChoice, Latest
  <2>2. IsFiniteSet(1 .. n) /\ Cardinality(1 .. n) = n
    BY FS_Interval
  <2>3. IsFiniteSet(s) /\ Cardinality(s) <= n /\ Cardinality(s) \in Nat
    BY <2>2, FS_Subset, FS_CardinalityType
  <2>4. Cardinality(s) # 0
    BY <1>2, <2>3, FS_EmptySet
  <2> DEFINE m == Max(s)
  <2> HIDE DEF m
  <2>m. m \in s
    BY <2>1 DEF m
  <2>5. Cardinality(s \ {m}) = Cardinality(s) - 1
    BY <2>3, <2>m, FS_RemoveElement
  <2>6. it[s] = st[Cardinality(s)] /\ it[s \ {m}] = st[Cardinality(s) - 1]
    BY <2>5
  <2> HIDE DEF it
  <2>7. Cardinality(s) \in 1 .. n
    BY <2>3, <2>4
  <2> QED
    BY <2>1, <2>6, <2>7 DEF m
<1> QED
  BY <1>1, <1>2 DEF Counted, CountsUp

\* Counting the states of a fold from below.
LEMMA StatesOfFold ==
    ASSUME NEW n \in Nat, NEW it, NEW st, it[{}] = st[0],
           \A k \in 1 .. n : it[1 .. (k - 1)] = st[k - 1] => it[1 .. k] = st[k]
    PROVE  it[1 .. n] = st[n]
<1> DEFINE Good == {k \in Nat : k \in 0 .. n => it[1 .. k] = st[k]}
<1>1. 0 \in Good
  <2>1. 1 .. 0 = {}
    OBVIOUS
  <2> QED
    BY <2>1
<1>2. ASSUME NEW k \in Nat, k \in Good PROVE k + 1 \in Good
  <2> SUFFICES ASSUME k + 1 \in 0 .. n PROVE it[1 .. k + 1] = st[k + 1]
    OBVIOUS
  <2>1. k + 1 \in 1 .. n /\ (k + 1) - 1 = k /\ k \in 0 .. n
    OBVIOUS
  <2>2. it[1 .. k] = st[k]
    BY <1>2, <2>1
  <2> QED
    BY <2>1, <2>2
<1> HIDE DEF Good
<1>3. n \in Good
  BY <1>1, <1>2, UpwardInduction
<1> QED
  BY <1>3 DEF Good

\* The body of a block is read back where it was written.
LEMMA BodyRead ==
    ASSUME NEW body, IsBlockBody(body), NEW buffer, Len(buffer) \in Nat, NEW offset \in Nat,
           Holds(buffer, offset, WriteBlockBody(body))
    PROVE  ReadBlockBody(buffer, offset) = Read(body, offset + BlockBodySize(body))
<1> DEFINE T == body.txSet
           n == Cardinality(T)
           order == InOrder(T)
           parts == Parts(T)
           flat == FlattenSeq(parts)
           upTo(k) == {order[i] : i \in 1 .. k}
<1>1. /\ n \in Nat /\ body.count = n /\ T \subseteq TxRecord
      /\ parts \in [1 .. n -> Seq(Nat)]
      /\ \A i \in 1 .. n : /\ order[i] \in T
                           /\ parts[i] = WriteTransaction(order[i])
                           /\ Len(parts[i]) = TransactionSize(order[i])
      /\ \A i, k \in 1 .. n : i # k => order[i].data # order[k].data
      /\ T = upTo(n) /\ body = [count |-> n, txSet |-> T]
  BY PartsFacts
<1>2. /\ WriteBlockBody(body) = <<body.count>> \o flat /\ flat \in Seq(Nat)
      /\ BlockBodySize(body) = 1 + Len(flat) /\ Len(flat) \in Nat
  BY BodyWritten
<1> HIDE DEF T, n, order, parts
<1>3. n \in Nat /\ parts \in [1 .. n -> Seq(Nat)]
  BY <1>1
<1>4. \E at : Places(at, n, parts, flat)
  BY ONLY <1>3, Flattened
<1> HIDE DEF flat
<1>5. PICK at : Places(at, n, parts, flat)
  BY <1>4
<1>6. at[0] = 0 /\ at[n] = Len(flat)
  BY <1>5 DEF Places
<1>7. /\ Holds(buffer, offset, <<n>>) /\ Holds(buffer, offset + 1, flat)
      /\ <<n>> \in Seq(Nat) /\ Len(<<n>>) = 1 /\ <<n>>[1] = n
  <2>0. <<n>> \in Seq(Nat) /\ Len(<<n>>) = 1 /\ <<n>>[1] = n
    BY <1>1
  <2>1. Holds(buffer, offset, <<n>> \o flat)
    BY <1>1, <1>2, Zenon
  <2> DEFINE one == <<n>>
  <2> HIDE DEF one
  <2>2. one \in Seq(Nat) /\ Len(one) = 1 /\ Holds(buffer, offset, one \o flat) /\ one[1] = n
    BY <2>0, <2>1 DEF one
  <2>3. Holds(buffer, offset, one) /\ Holds(buffer, offset + Len(one), flat)
    BY <1>2, <2>2, HoldsParts
  <2> QED
    BY <2>2, <2>3 DEF one
<1>8. Field(buffer, offset) = n /\ ~ (Left(buffer, offset) < 1)
  <2> DEFINE one == <<n>>
  <2> HIDE DEF one
  <2>1. Holds(buffer, offset, one) /\ one \in Seq(Nat) /\ Len(one) = 1 /\ one[1] = n
    BY <1>7 DEF one
  <2>2. Len(one) > 0
    BY <2>1
  <2>3. Field(buffer, offset) = n
    BY <2>1, <2>2, FieldsHeld
  <2>4. offset + 1 <= Len(buffer)
    BY <2>1 DEF Holds
  <2> QED
    BY <2>3, <2>4 DEF Left
<1> DEFINE next(soFar, i) ==
               IF ~ soFar.ok THEN Thrown
               ELSE LET tx == ReadTransaction(buffer, soFar.next)
                    IN  IF ~ tx.ok THEN Thrown
                        ELSE Read([soFar.value EXCEPT !.txSet = InsertTransaction(@, tx.value)],
                                  tx.next)
           st == [k \in 0 .. n |-> Read([count |-> n, txSet |-> upTo(k)], offset + 1 + at[k])]
           base == Read([count |-> n, txSet |-> {}], offset + 1)
           I(it) == it = [s \in SUBSET (1 .. n) |->
                            IF s = {} THEN base ELSE next(it[s \ {Max(s)}], Max(s))]
<1>9. ASSUME NEW k \in 1 .. n, NEW i PROVE next(st[k - 1], i) = st[k]
  <2>1. k - 1 \in 0 .. n /\ k \in 0 .. n
    BY <1>3
  <2>2. /\ st[k - 1] = Read([count |-> n, txSet |-> upTo(k - 1)], offset + 1 + at[k - 1])
        /\ st[k] = Read([count |-> n, txSet |-> upTo(k)], offset + 1 + at[k])
    BY <2>1
  <2>3. Len(parts[k]) \in Nat /\ order[k] \in TxRecord /\ parts[k] = WriteTransaction(order[k])
    <3>1. parts[k] \in Seq(Nat) /\ order[k] \in TxRecord /\ parts[k] = WriteTransaction(order[k])
      BY <1>1
    <3> QED
      BY <3>1, LenProperties
  <2>4. /\ Holds(buffer, offset + 1 + at[k - 1], parts[k])
        /\ at[k - 1] \in Nat /\ at[k] = at[k - 1] + Len(parts[k])
    <3>1. offset + 1 \in Nat /\ Holds(buffer, offset + 1, flat) /\ flat \in Seq(Nat)
      BY <1>2, <1>7
    <3> QED
      BY <1>3, <1>5, <2>3, <3>1, PartHeld
  <2>5. ReadTransaction(buffer, offset + 1 + at[k - 1])
            = Read(order[k], offset + 1 + at[k - 1] + TransactionSize(order[k]))
    BY <2>3, <2>4, TransactionRead
  <2>6. offset + 1 + at[k - 1] + TransactionSize(order[k]) = offset + 1 + at[k]
    BY <1>1, <2>3, <2>4
  <2>7. InsertTransaction(upTo(k - 1), order[k]) = upTo(k)
    <3>1. \A x \in 1 .. k - 1 : x \in 1 .. n /\ x # k
      BY <1>3
    <3>2. \A x \in 1 .. k - 1 : order[x].data # order[k].data
      BY <1>1, <3>1
    <3>3. 1 .. k = (1 .. k - 1) \union {k}
      BY <1>3
    <3>4. upTo(k) = upTo(k - 1) \union {order[k]}
      BY <3>3
    <3> QED
      BY <3>2, <3>4 DEF InsertTransaction
  <2> DEFINE before == st[k - 1]
             U == upTo(k - 1)
             W == upTo(k)
             tx == ReadTransaction(buffer, offset + 1 + at[k - 1])
  <2>8. /\ before.ok /\ before.next = offset + 1 + at[k - 1]
        /\ before.value = [count |-> n, txSet |-> U]
    <3> HIDE DEF st, upTo
    <3> QED
      BY <2>2 DEF Read
  <2>9. tx.ok /\ tx.value = order[k] /\ tx.next = offset + 1 + at[k]
    BY <2>5, <2>6 DEF Read
  <2> HIDE DEF upTo, U, W
  <2>10. [[count |-> n, txSet |-> U] EXCEPT !.txSet = InsertTransaction(@, order[k])]
            = [count |-> n, txSet |-> W]
    BY <2>7 DEF U, W
  <2>11. next(before, i)
            = Read([before.value EXCEPT !.txSet = InsertTransaction(@, tx.value)], tx.next)
    <3> HIDE DEF before, st
    <3> QED
      BY <2>8, <2>9
  <2> HIDE DEF st, next, before, tx
  <2>12. next(before, i) = Read([count |-> n, txSet |-> W], offset + 1 + at[k])
    BY <2>8, <2>9, <2>10, <2>11
  <2> QED
    BY <2>2, <2>12 DEF W, before
<1>10. st[0] = base
  <2>1. 0 \in 0 .. n /\ upTo(0) = {} /\ offset + 1 + at[0] = offset + 1
    BY <1>3, <1>6
  <2> HIDE DEF upTo
  <2> QED
    BY <2>1
<1>11. ReadBlockBody(buffer, offset) = (CHOOSE it : I(it))[1 .. n]
  <2>1. ReadBlockBody(buffer, offset) = FoldLeft(next, base, [i \in 1 .. n |-> i])
    BY <1>8 DEF ReadBlockBody
  <2> QED
    BY <2>1 DEF FoldLeft, MapThenFoldSet
<1>12. \E it : I(it)
  <2> DEFINE it == Counted(n, st)
  <2>1. /\ it[{}] = st[0]
        /\ \A s \in SUBSET (1 .. n) : s # {} =>
             /\ Max(s) \in s
             /\ \E k \in 1 .. n : it[s] = st[k] /\ it[s \ {Max(s)}] = st[k - 1]
    <3> HIDE DEF st
    <3>1. n \in Nat
      BY <1>3
    <3>2. CountsUp(Counted(n, st), n, st)
      BY <3>1, CountedFold
    <3> QED
      BY <3>2 DEF CountsUp
  <2>2. ASSUME NEW s \in SUBSET (1 .. n)
        PROVE  it[s] = IF s = {} THEN base ELSE next(it[s \ {Max(s)}], Max(s))
    <3> HIDE DEF it, st, base
    <3>1. CASE s = {}
      BY <1>10, <2>1, <3>1
    <3>2. CASE s # {}
      <4>1. PICK k \in 1 .. n : it[s] = st[k] /\ it[s \ {Max(s)}] = st[k - 1]
        BY <2>1, <3>2
      <4>2. next(st[k - 1], Max(s)) = st[k]
        BY <1>9
      <4> HIDE DEF next
      <4> QED
        BY <3>2, <4>1, <4>2
    <3> QED
      BY <3>1, <3>2
  <2>3. it = [s \in SUBSET (1 .. n) |-> it[s]]
    BY DEF Counted
  <2> HIDE DEF it, next, base
  <2> QED
    BY <2>2, <2>3
<1> DEFINE fold == CHOOSE it : I(it)
<1>13. I(fold)
  BY <1>12, Zenon
<1> HIDE DEF fold
<1>14. fold[1 .. n] = st[n]
  <2> HIDE DEF st, base
  <2>1. fold[{}] = st[0]
    BY <1>10, <1>13
  <2>2. ASSUME NEW k \in 1 .. n, fold[1 .. (k - 1)] = st[k - 1] PROVE fold[1 .. k] = st[k]
    <3>1. /\ Max(1 .. k) = k /\ (1 .. k) \ {k} = 1 .. (k - 1)
          /\ 1 .. k # {} /\ 1 .. k \in SUBSET (1 .. n)
      <4>n. n \in Nat
        BY <1>3
      <4>1. k \in Nat \ {0} /\ \A x \in 1 .. k : x \in 1 .. n
        BY <4>n
      <4>2. 1 .. k # {}
        <5>1. k \in 1 .. k
          BY <4>1
        <5> QED
          BY <5>1
      <4> QED
        BY <4>1, <4>2, MaxUpTo
    <3>2. next(st[k - 1], k) = st[k]
      BY <1>9
    <3> HIDE DEF next
    <3>3. fold[1 .. k] = next(fold[(1 .. k) \ {Max(1 .. k)}], Max(1 .. k))
      BY <1>13, <3>1
    <3> QED
      BY <2>2, <3>1, <3>2, <3>3
  <2>3. n \in Nat
    BY <1>3
  <2> QED
    BY ONLY <2>1, <2>2, <2>3, StatesOfFold
<1>15. st[n] = Read(body, offset + BlockBodySize(body))
  <2>1. n \in 0 .. n
    BY <1>3
  <2>2. st[n] = Read([count |-> n, txSet |-> upTo(n)], offset + 1 + at[n])
    BY <2>1
  <2>3. offset + 1 + at[n] = offset + BlockBodySize(body)
    BY <1>2, <1>6
  <2> QED
    BY <1>1, <2>2, <2>3
<1> QED
  BY <1>11, <1>14, <1>15 DEF fold

\* What is written alone is held from the first cell on, also with zeros behind it.
LEMMA HoldsItself ==
    ASSUME NEW S, NEW cells \in Seq(S)
    PROVE  Holds(cells, 0, cells)
<1>1. Len(cells) \in Nat
  BY LenProperties
<1> QED
  BY <1>1 DEF Holds

LEMMA HoldsPadded ==
    ASSUME NEW S, NEW cells \in Seq(S), NEW size \in Nat, Len(cells) <= size
    PROVE  LET buffer == [i \in 1 .. size |-> Field(cells, i - 1)]
           IN  Holds(buffer, 0, cells) /\ Len(buffer) = size
<1> DEFINE buffer == [i \in 1 .. size |-> Field(cells, i - 1)]
<1>1. Len(cells) \in Nat /\ Len(buffer) = size
  BY LenProperties
<1>2. ASSUME NEW k \in 1 .. Len(cells) PROVE buffer[0 + k] = cells[k]
  <2>1. k \in 1 .. size /\ 0 + k = k /\ k - 1 < Len(cells) /\ (k - 1) + 1 = k
    BY <1>1
  <2> QED
    BY <2>1 DEF Field
<1> HIDE DEF buffer
<1>3. Holds(buffer, 0, cells)
  BY <1>1, <1>2 DEF Holds
<1> QED
  BY <1>1, <1>3 DEF buffer

HeaderCells(header) == Nat \union {header.info, header.txRoot, header.previous, header.accRoot}

IsHeader(header) ==
    header = [info |-> header.info, txRoot |-> header.txRoot,
              previous |-> header.previous, accRoot |-> header.accRoot]

LEMMA HeaderWritten ==
    ASSUME NEW header
    PROVE  /\ WriteBlockHeader(header) \in Seq(HeaderCells(header))
           /\ Len(WriteBlockHeader(header)) = HeaderSize
           /\ header \in HeaderRecord => WriteBlockHeader(header) \in Seq(Nat) /\ IsHeader(header)
  BY DEF WriteBlockHeader, HeaderCells, HeaderSize, HeaderRecord, IsHeader

LEMMA MoreCells ==
    ASSUME NEW S, NEW U, S \subseteq U, NEW cells \in Seq(S)
    PROVE  cells \in Seq(U)
<1>1. Len(cells) \in Nat /\ cells \in [1 .. Len(cells) -> S]
  BY LenProperties
<1>2. cells \in [1 .. Len(cells) -> U]
  BY <1>1
<1> QED
  BY <1>1, <1>2, SeqDef

LEMMA BlockWritten ==
    ASSUME NEW block, IsBlockBody(block.body)
    PROVE  /\ WriteBlock(block) \in Seq(HeaderCells(block.header))
           /\ block.header \in HeaderRecord => WriteBlock(block) \in Seq(Nat)
           /\ Len(WriteBlock(block)) = BlockSize(block) /\ BlockSize(block) \in Nat
<1> DEFINE header == WriteBlockHeader(block.header)
           body == WriteBlockBody(block.body)
           U == HeaderCells(block.header)
<1>1. header \in Seq(U) /\ Len(header) = 4 /\ (block.header \in HeaderRecord => header \in Seq(Nat))
  BY HeaderWritten DEF HeaderSize
<1>2. body \in Seq(Nat) /\ Len(body) = BlockBodySize(block.body) /\ BlockBodySize(block.body) \in Nat
  BY BodyWritten
<1>3. Nat \subseteq U
  BY DEF HeaderCells
<1> HIDE DEF header, body, U
<1>4. body \in Seq(U)
  BY <1>2, <1>3, MoreCells
<1>5. header \o body \in Seq(U) /\ Len(header \o body) = 4 + BlockBodySize(block.body)
  <2>1. /\ header \o body \in Seq(U)
        /\ Len(header \o body) = Len(header) + Len(body)
    BY <1>1, <1>4, ConcatProperties
  <2> QED
    BY <1>1, <1>2, <2>1
<1>6. block.header \in HeaderRecord => header \o body \in Seq(Nat)
  BY <1>1, <1>2, ConcatProperties
<1> QED
  BY <1>2, <1>5, <1>6 DEF WriteBlock, BlockSize, HeaderSize, header, body, U

\* A block is read back where it was written.
LEMMA BlockRead ==
    ASSUME NEW block, block = [header |-> block.header, body |-> block.body],
           IsHeader(block.header), IsBlockBody(block.body),
           NEW buffer, Len(buffer) \in Nat, NEW offset \in Nat,
           Holds(buffer, offset, WriteBlock(block))
    PROVE  ReadBlock(buffer, offset) = Read(block, offset + BlockSize(block))
<1> DEFINE header == WriteBlockHeader(block.header)
           body == WriteBlockBody(block.body)
           U == HeaderCells(block.header)
<1>1. header \in Seq(U) /\ Len(header) = HeaderSize
  BY HeaderWritten
<1>2. body \in Seq(Nat) /\ BlockBodySize(block.body) \in Nat
  BY BodyWritten
<1>3. Nat \subseteq U
  BY DEF HeaderCells
<1>4. Holds(buffer, offset, header \o body)
  BY DEF WriteBlock
<1> HIDE DEF header, body, U
<1>5. body \in Seq(U)
  BY <1>2, <1>3, MoreCells
<1>6. Holds(buffer, offset, header) /\ Holds(buffer, offset + HeaderSize, body)
  BY <1>1, <1>4, <1>5, HoldsParts
<1>7. ReadBlockHeader(buffer, offset) = Read(block.header, offset + HeaderSize)
  BY <1>6, HeaderRead DEF IsHeader, header
<1>8. ReadBlockBody(buffer, offset + HeaderSize)
        = Read(block.body, (offset + HeaderSize) + BlockBodySize(block.body))
  <2>1. offset + HeaderSize \in Nat
    BY DEF HeaderSize
  <2> QED
    BY <1>6, <2>1, BodyRead DEF body
<1>9. (offset + HeaderSize) + BlockBodySize(block.body) = offset + BlockSize(block)
  BY <1>2 DEF HeaderSize, BlockSize
<1> DEFINE h == ReadBlockHeader(buffer, offset)
           b == ReadBlockBody(buffer, h.next)
<1>10. h.ok /\ h.value = block.header /\ h.next = offset + HeaderSize
  BY <1>7 DEF Read
<1>11. b.ok /\ b.value = block.body /\ b.next = offset + BlockSize(block)
  <2> HIDE DEF h
  <2> QED
    BY <1>8, <1>9, <1>10 DEF Read
<1>12. ReadBlock(buffer, offset) = IF ~ h.ok THEN Thrown ELSE IF ~ b.ok THEN Thrown
                                   ELSE Read([header |-> h.value, body |-> b.value], b.next)
  BY DEF ReadBlock
<1> HIDE DEF h, b
<1> QED
  BY <1>10, <1>11, <1>12

-----------------------------------------------------------------------------
(* Accounts *)

Address == Seq(Nat \ {0})

\* An address is read up to the mark that was written behind it.
LEMMA AddressRead ==
    ASSUME NEW address \in Address, NEW buffer, Len(buffer) \in Nat, NEW offset \in Nat,
           Holds(buffer, offset, Append(address, 0))
    PROVE  AddressAt(buffer, offset) = address
<1> DEFINE n == Len(address)
           all == Append(address, 0)
           I(i) == /\ Field(buffer, i) = 0
                   /\ \A j \in offset .. i - 1 : Field(buffer, j) # 0
           mark == CHOOSE i \in offset .. offset + Len(buffer) : I(i)
<1>1. /\ n \in Nat /\ address \in Seq(Nat) /\ address \in Seq(Nat \ {0})
      /\ \A k \in 1 .. n : address[k] # 0
  <2>1. n \in Nat /\ address \in [1 .. n -> Nat \ {0}] /\ address \in Seq(Nat \ {0})
    BY LenProperties DEF Address
  <2>2. \A k \in 1 .. n : address[k] # 0
    BY <2>1
  <2> QED
    BY <2>1, <2>2, MoreCells
<1>2. /\ Len(all) = n + 1 /\ all[n + 1] = 0
      /\ \A k \in 1 .. n : all[k] = address[k]
  BY <1>1, AppendProperties
<1>3. /\ offset + (n + 1) <= Len(buffer)
      /\ \A k \in 1 .. n + 1 : buffer[offset + k] = all[k]
  BY <1>2 DEF Holds
<1>h. Holds(buffer, offset, address)
  <2>1. offset + n <= Len(buffer)
    BY <1>1, <1>3
  <2>2. \A k \in 1 .. n : k \in 1 .. n + 1
    BY <1>1
  <2> HIDE DEF all
  <2>3. \A k \in 1 .. n : buffer[offset + k] = address[k]
    BY <1>2, <1>3, <2>2
  <2> QED
    BY <2>1, <2>3 DEF Holds
<1> HIDE DEF all
<1>4. Field(buffer, offset + n) = 0
  <2>1. offset + n < Len(buffer) /\ (offset + n) + 1 = offset + (n + 1) /\ n + 1 \in 1 .. n + 1
    BY <1>1, <1>3
  <2> QED
    BY <1>2, <1>3, <2>1 DEF Field
<1>5. \A j \in offset .. (offset + n) - 1 : Field(buffer, j) # 0
  <2> SUFFICES ASSUME NEW j \in offset .. (offset + n) - 1 PROVE Field(buffer, j) # 0
    OBVIOUS
  <2> DEFINE k == (j - offset) + 1
  <2>1. k \in 1 .. n /\ k \in 1 .. n + 1 /\ j < Len(buffer) /\ j + 1 = offset + k
    BY <1>1, <1>3
  <2> HIDE DEF k
  <2>2. buffer[offset + k] = address[k]
    BY <1>2, <1>3, <2>1
  <2> QED
    BY <1>1, <2>1, <2>2 DEF Field
<1>6. offset + n \in offset .. offset + Len(buffer)
  BY <1>1, <1>3
<1>7. \A i \in offset .. offset + Len(buffer) : I(i) => i = offset + n
  <2> SUFFICES ASSUME NEW i \in offset .. offset + Len(buffer), I(i), i # offset + n PROVE FALSE
    OBVIOUS
  <2>1. i < offset + n \/ offset + n < i
    BY <1>1
  <2>2. CASE i < offset + n
    <3>1. i \in offset .. (offset + n) - 1
      BY <1>1, <2>2
    <3> QED
      BY <1>5, <3>1
  <2>3. CASE offset + n < i
    <3>1. offset + n \in offset .. i - 1
      BY <1>1, <2>3
    <3> QED
      BY <1>4, <3>1
  <2> QED
    BY <2>1, <2>2, <2>3
<1>8. mark = offset + n
  <2>1. I(offset + n)
    BY <1>4, <1>5
  <2> HIDE DEF I
  <2> QED
    BY <1>6, <1>7, <2>1
<1>9. AddressAt(buffer, offset) = Cells(buffer, offset, mark - offset)
  BY DEF AddressAt
<1> HIDE DEF mark
<1>10. mark - offset = n
  BY <1>1, <1>8
<1> QED
  BY <1>1, <1>9, <1>10, <1>h, CellsHeld

AddressParts(list) == [i \in 1 .. Len(Written(list)) |-> Append(list[i], 0)]

LEMMA WrittenFacts ==
    ASSUME NEW list \in Seq(Address)
    PROVE  LET n == Len(Written(list))
           IN  /\ n \in Nat /\ n <= MaxAddresses /\ n <= Len(list) /\ Len(list) \in Nat
               /\ Written(list) = [i \in 1 .. n |-> list[i]]
               /\ AddressParts(list) \in [1 .. n -> Seq(Nat)]
               /\ \A i \in 1 .. Len(list) : list[i] \in Address /\ Len(list[i]) \in Nat
               /\ \A i \in 1 .. n : /\ i \in 1 .. Len(list) /\ list[i] \in Address
                                    /\ AddressParts(list)[i] = Append(list[i], 0)
                                    /\ Len(AddressParts(list)[i]) = Len(list[i]) + 1
<1> DEFINE m == IF Len(list) > MaxAddresses THEN MaxAddresses ELSE Len(list)
           n == Len(Written(list))
<1>1. Len(list) \in Nat /\ \A i \in 1 .. Len(list) : list[i] \in Address
  BY LenProperties, ElementOfSeq
<1>2. m \in Nat /\ m <= MaxAddresses /\ m <= Len(list)
  BY <1>1, AddressesAssumption
<1> HIDE DEF m
<1>3. Written(list) = [i \in 1 .. m |-> list[i]]
  <2>1. Written(list) = SubSeq(list, 1, m)
    BY DEF Written, m
  <2>2. SubSeq(list, 1, m) = [i \in 1 .. m |-> list[i]]
    BY <1>1, <1>2
  <2> QED
    BY <2>1, <2>2
<1>4. n = m
  BY <1>2, <1>3
<1>5. ASSUME NEW i \in 1 .. Len(list)
      PROVE  /\ list[i] \in Address /\ Len(list[i]) \in Nat
             /\ Append(list[i], 0) \in Seq(Nat) /\ Len(Append(list[i], 0)) = Len(list[i]) + 1
  <2>1. list[i] \in Seq(Nat \ {0})
    BY <1>1 DEF Address
  <2>2. list[i] \in Seq(Nat)
    BY <2>1, MoreCells
  <2> QED
    BY <1>1, <2>2, LenProperties, AppendProperties
<1>6. \A i \in 1 .. m : i \in 1 .. Len(list)
  BY <1>1, <1>2
<1> HIDE DEF n
<1>7. AddressParts(list) = [i \in 1 .. m |-> Append(list[i], 0)]
  BY <1>4 DEF AddressParts, n
<1>8. AddressParts(list) \in [1 .. m -> Seq(Nat)]
  BY <1>5, <1>6, <1>7
<1> QED
  BY <1>1, <1>2, <1>3, <1>4, <1>5, <1>6, <1>7, <1>8 DEF n

\* The addresses that are written fit into the room for all addresses.
LEMMA AddressesWritten ==
    ASSUME NEW list \in Seq(Address)
    PROVE  /\ WriteAccountAddress(list) \in Seq(Nat)
           /\ WriteAccountAddress(list)
                = <<Len(Written(list))>> \o FlattenSeq(AddressParts(list))
           /\ FlattenSeq(AddressParts(list)) \in Seq(Nat)
           /\ Len(WriteAccountAddress(list)) <= AccountAddressSize(list)
           /\ AccountAddressSize(list) \in Nat
<1> DEFINE n == Len(Written(list))
           parts == AddressParts(list)
           flat == FlattenSeq(parts)
           m == Len(list)
           whole == FlattenSeq(list)
<1>1. /\ n \in Nat /\ n <= m /\ m \in Nat /\ parts \in [1 .. n -> Seq(Nat)]
      /\ \A i \in 1 .. m : Len(list[i]) \in Nat
      /\ \A i \in 1 .. n : i \in 1 .. m /\ Len(parts[i]) = Len(list[i]) + 1
  BY WrittenFacts
<1>w. WriteAccountAddress(list) = <<n>> \o flat
  BY DEF WriteAccountAddress, AddressParts
<1>2. list \in [1 .. m -> Seq(Nat \ {0})]
  BY LenProperties DEF Address
<1>z. AccountAddressSize(list) = 1 + Len(whole) + m
  BY DEF AccountAddressSize
<1> HIDE DEF n, parts, m
<1>3. n \in Nat /\ parts \in [1 .. n -> Seq(Nat)] /\ m \in Nat
  BY <1>1
<1>4. flat \in Seq(Nat) /\ \E at : Places(at, n, parts, flat)
  BY ONLY <1>3, Flattened
<1>5. \E at : Places(at, m, list, whole)
  BY ONLY <1>2, <1>3, Flattened
<1> HIDE DEF flat, whole
<1>6. PICK at : Places(at, n, parts, flat)
  BY <1>4
<1>7. PICK full : Places(full, m, list, whole)
  BY <1>5
<1>8. /\ at[0] = 0 /\ at[n] = Len(flat)
      /\ \A i \in 1 .. n : at[i] = at[i - 1] + Len(parts[i])
  BY <1>6 DEF Places
<1>9. /\ full[0] = 0 /\ full[m] = Len(whole) /\ full \in [0 .. m -> Nat]
      /\ \A i \in 1 .. m : full[i] = full[i - 1] + Len(list[i]) /\ full[i] <= full[m]
  BY <1>7 DEF Places
<1> DEFINE Good == {k \in Nat : k \in 0 .. n => at[k] = full[k] + k}
<1>10. 0 \in Good
  BY <1>8, <1>9
<1>11. ASSUME NEW k \in Nat, k \in Good PROVE k + 1 \in Good
  <2> SUFFICES ASSUME k + 1 \in 0 .. n PROVE at[k + 1] = full[k + 1] + (k + 1)
    OBVIOUS
  <2>1. k + 1 \in 1 .. n /\ (k + 1) - 1 = k /\ k \in 0 .. n
    BY <1>3
  <2>2. k + 1 \in 1 .. m /\ Len(parts[k + 1]) = Len(list[k + 1]) + 1 /\ Len(list[k + 1]) \in Nat
    BY <1>1, <2>1
  <2>3. at[k + 1] = at[k] + Len(parts[k + 1]) /\ full[k + 1] = full[k] + Len(list[k + 1])
    BY <1>8, <1>9, <2>1, <2>2
  <2>4. at[k] = full[k] + k
    BY <1>11, <2>1
  <2>5. full[k] \in Nat
    <3>1. k \in 0 .. m
      BY <1>3, <2>2
    <3> QED
      BY <1>9, <3>1
  <2>6. k \in Nat
    OBVIOUS
  <2> DEFINE a == full[k]
             b == Len(list[k + 1])
  <2>7. at[k + 1] = (a + k) + (b + 1) /\ full[k + 1] = a + b /\ a \in Nat /\ b \in Nat
    BY <2>2, <2>3, <2>4, <2>5
  <2> HIDE DEF a, b
  <2>8. (a + k) + (b + 1) = (a + b) + (k + 1)
    BY ONLY <2>6, <2>7
  <2> QED
    BY <2>7, <2>8
<1> HIDE DEF Good
<1>12. n \in Good
  BY <1>3, <1>10, <1>11, UpwardInduction
<1>13. at[n] = full[n] + n
  BY <1>3, <1>12 DEF Good
<1>14. full[n] <= full[m] /\ full[n] \in Nat /\ full[m] \in Nat
  <2>1. full[n] \in Nat /\ full[m] \in Nat
    <3>1. n \in 0 .. m /\ m \in 0 .. m
      BY <1>1
    <3> QED
      BY <1>9, <3>1
  <2>2. CASE n = 0
    BY <1>9, <2>1, <2>2
  <2>3. CASE n # 0
    <3>1. n \in 1 .. m
      BY <1>1, <2>3
    <3> QED
      BY <1>9, <2>1, <3>1
  <2> QED
    BY <2>1, <2>2, <2>3
<1>15. Len(flat) <= Len(whole) + m /\ Len(whole) \in Nat
  BY <1>1, <1>8, <1>9, <1>13, <1>14
<1>16. <<n>> \in Seq(Nat) /\ Len(<<n>>) = 1
  BY <1>1
<1>17. /\ <<n>> \o flat \in Seq(Nat) /\ Len(<<n>> \o flat) = Len(<<n>>) + Len(flat)
       /\ Len(flat) \in Nat
  BY <1>4, <1>16, ConcatProperties, LenProperties
<1>18. Len(<<n>> \o flat) <= 1 + Len(whole) + m /\ 1 + Len(whole) + m \in Nat
  BY <1>3, <1>15, <1>16, <1>17
<1> QED
  BY <1>4, <1>17, <1>18, <1>w, <1>z DEF n, flat, parts

\* The addresses that were written are read back.
LEMMA AddressesRead ==
    ASSUME NEW list \in Seq(Address), NEW buffer, Len(buffer) \in Nat, NEW offset \in Nat,
           Holds(buffer, offset, WriteAccountAddress(list))
    PROVE  \E x : ReadAccountAddress(buffer, offset) = Read(Written(list), x)
<1> DEFINE n == Len(Written(list))
           parts == AddressParts(list)
           flat == FlattenSeq(parts)
           upTo(k) == [i \in 1 .. k |-> list[i]]
<1>1. /\ n \in Nat /\ n <= MaxAddresses /\ Written(list) = upTo(n)
      /\ parts \in [1 .. n -> Seq(Nat)]
      /\ \A i \in 1 .. n : /\ list[i] \in Address /\ parts[i] = Append(list[i], 0)
                           /\ Len(parts[i]) = Len(list[i]) + 1 /\ Len(list[i]) \in Nat
  BY WrittenFacts
<1>2. WriteAccountAddress(list) = <<n>> \o flat /\ flat \in Seq(Nat)
  BY AddressesWritten
<1> HIDE DEF n, parts
<1>3. n \in Nat /\ parts \in [1 .. n -> Seq(Nat)]
  BY <1>1
<1>4. \E at : Places(at, n, parts, flat)
  BY ONLY <1>3, Flattened
<1> HIDE DEF flat
<1>5. PICK at : Places(at, n, parts, flat)
  BY <1>4
<1>6. at[0] = 0
  BY <1>5 DEF Places
<1>7. /\ Holds(buffer, offset + 1, flat)
      /\ Field(buffer, offset) = n /\ ~ (Left(buffer, offset) < 1)
  <2> DEFINE one == <<n>>
  <2>1. one \in Seq(Nat) /\ Len(one) = 1 /\ one[1] = n
    BY <1>3
  <2>2. Holds(buffer, offset, one \o flat)
    BY <1>2, Zenon
  <2> HIDE DEF one
  <2>3. Holds(buffer, offset, one) /\ Holds(buffer, offset + 1, flat)
    BY <1>2, <2>1, <2>2, HoldsParts
  <2>4. Len(one) > 0
    BY <2>1
  <2>5. Field(buffer, offset) = n
    BY <2>1, <2>3, <2>4, FieldsHeld
  <2>6. offset + 1 <= Len(buffer)
    BY <2>1, <2>3 DEF Holds
  <2> QED
    BY <2>3, <2>5, <2>6 DEF Left
<1> DEFINE next(soFar, i) ==
               LET address == AddressAt(buffer, soFar.next)
               IN  Read(Append(soFar.value, address), soFar.next + Len(address) + 1)
           st == [k \in 0 .. n |-> Read(upTo(k), offset + 1 + at[k])]
           base == Read(<<>>, offset + 1)
           I(it) == it = [s \in SUBSET (1 .. n) |->
                            IF s = {} THEN base ELSE next(it[s \ {Max(s)}], Max(s))]
<1>9. ASSUME NEW k \in 1 .. n, NEW i PROVE next(st[k - 1], i) = st[k]
  <2>1. k - 1 \in 0 .. n /\ k \in 0 .. n /\ (k - 1) + 1 = k /\ k - 1 \in Nat
    BY <1>3
  <2>2. /\ st[k - 1] = Read(upTo(k - 1), offset + 1 + at[k - 1])
        /\ st[k] = Read(upTo(k), offset + 1 + at[k])
    BY <2>1
  <2>3. /\ Len(parts[k]) \in Nat /\ list[k] \in Address /\ parts[k] = Append(list[k], 0)
        /\ Len(parts[k]) = Len(list[k]) + 1 /\ Len(list[k]) \in Nat
    BY <1>1
  <2>4. /\ Holds(buffer, offset + 1 + at[k - 1], parts[k])
        /\ at[k - 1] \in Nat /\ at[k] = at[k - 1] + Len(parts[k])
    <3>1. offset + 1 \in Nat /\ Holds(buffer, offset + 1, flat) /\ flat \in Seq(Nat)
      BY <1>2, <1>7
    <3>2. Len(buffer) \in Nat /\ k \in 1 .. n /\ n \in Nat /\ Len(parts[k]) \in Nat
      BY <1>3, <2>3
    <3>3. Places(at, n, parts, flat)
      BY <1>5
    <3> QED
      BY ONLY <3>1, <3>2, <3>3, PartHeld
  <2>5. AddressAt(buffer, offset + 1 + at[k - 1]) = list[k]
    BY <2>3, <2>4, AddressRead
  <2>6. offset + 1 + at[k - 1] + Len(list[k]) + 1 = offset + 1 + at[k]
    <3> DEFINE a == at[k - 1]
               b == Len(list[k])
    <3>1. at[k] = a + (b + 1) /\ a \in Nat /\ b \in Nat
      BY <2>3, <2>4
    <3> HIDE DEF a, b
    <3>2. offset + 1 + a + b + 1 = offset + 1 + (a + (b + 1))
      BY <3>1
    <3> QED
      BY <3>1, <3>2 DEF a, b
  <2>7. Append(upTo(k - 1), list[k]) = upTo(k)
    <3>1. Len(upTo(k - 1)) = k - 1 /\ \A x \in 1 .. k - 1 : upTo(k - 1)[x] = list[x]
      BY <2>1
    <3>2. Append(upTo(k - 1), list[k])
            = [x \in 1 .. (k - 1) + 1 |-> IF x = (k - 1) + 1 THEN list[k] ELSE upTo(k - 1)[x]]
      BY <2>1, <3>1
    <3> QED
      BY <2>1, <3>1, <3>2
  <2> DEFINE before == st[k - 1]
             U == upTo(k - 1)
             W == upTo(k)
  <2>8. before.next = offset + 1 + at[k - 1] /\ before.value = U
    <3> HIDE DEF st, upTo
    <3> QED
      BY <2>2 DEF Read
  <2>9. next(before, i) = Read(Append(U, list[k]), offset + 1 + at[k - 1] + Len(list[k]) + 1)
    <3> HIDE DEF before, st, U
    <3> QED
      BY <2>5, <2>8
  <2> HIDE DEF st, next, before, upTo
  <2>12. next(before, i) = Read(W, offset + 1 + at[k])
    BY <2>6, <2>7, <2>9
  <2> QED
    BY <2>2, <2>12 DEF before
<1>10. st[0] = base
  <2>1. 0 \in 0 .. n /\ upTo(0) = <<>> /\ offset + 1 + at[0] = offset + 1
    BY <1>3, <1>6
  <2> HIDE DEF upTo
  <2> QED
    BY <2>1
<1>11. ReadAccountAddress(buffer, offset) = (CHOOSE it : I(it))[1 .. n]
  <2>0. ~ (n > MaxAddresses)
    BY <1>1, AddressesAssumption
  <2>1. ReadAccountAddress(buffer, offset) = FoldLeft(next, base, [i \in 1 .. n |-> i])
    BY <1>7, <2>0 DEF ReadAccountAddress
  <2> QED
    BY <2>1 DEF FoldLeft, MapThenFoldSet
<1>12. \E it : I(it)
  <2> DEFINE it == Counted(n, st)
  <2>1. /\ it[{}] = st[0]
        /\ \A s \in SUBSET (1 .. n) : s # {} =>
             /\ Max(s) \in s
             /\ \E k \in 1 .. n : it[s] = st[k] /\ it[s \ {Max(s)}] = st[k - 1]
    <3> HIDE DEF st
    <3>2. CountsUp(Counted(n, st), n, st)
      BY <1>3, CountedFold
    <3> QED
      BY <3>2 DEF CountsUp
  <2>2. ASSUME NEW s \in SUBSET (1 .. n)
        PROVE  it[s] = IF s = {} THEN base ELSE next(it[s \ {Max(s)}], Max(s))
    <3> HIDE DEF it, st, base
    <3>1. CASE s = {}
      BY <1>10, <2>1, <3>1
    <3>2. CASE s # {}
      <4>1. PICK k \in 1 .. n : it[s] = st[k] /\ it[s \ {Max(s)}] = st[k - 1]
        BY <2>1, <3>2
      <4>2. next(st[k - 1], Max(s)) = st[k]
        BY <1>9
      <4> HIDE DEF next
      <4> QED
        BY <3>2, <4>1, <4>2
    <3> QED
      BY <3>1, <3>2
  <2>3. it = [s \in SUBSET (1 .. n) |-> it[s]]
    BY DEF Counted
  <2> HIDE DEF it, next, base
  <2> QED
    BY <2>2, <2>3
<1> DEFINE fold == CHOOSE it : I(it)
<1>13. I(fold)
  BY <1>12, Zenon
<1> HIDE DEF fold
<1>14. fold[1 .. n] = st[n]
  <2> HIDE DEF st, base
  <2>1. fold[{}] = st[0]
    BY <1>10, <1>13
  <2>2. ASSUME NEW k \in 1 .. n, fold[1 .. (k - 1)] = st[k - 1] PROVE fold[1 .. k] = st[k]
    <3>1. /\ Max(1 .. k) = k /\ (1 .. k) \ {k} = 1 .. (k - 1)
          /\ 1 .. k # {} /\ 1 .. k \in SUBSET (1 .. n)
      <4>n. n \in Nat
        BY <1>3
      <4>1. k \in Nat \ {0} /\ \A x \in 1 .. k : x \in 1 .. n
        BY <4>n
      <4>2. 1 .. k # {}
        <5>1. k \in 1 .. k
          BY <4>1
        <5> QED
          BY <5>1
      <4> QED
        BY <4>1, <4>2, MaxUpTo
    <3>2. next(st[k - 1], k) = st[k]
      BY <1>9
    <3> HIDE DEF next
    <3>3. fold[1 .. k] = next(fold[(1 .. k) \ {Max(1 .. k)}], Max(1 .. k))
      BY <1>13, <3>1
    <3> QED
      BY <2>2, <3>1, <3>2, <3>3
  <2>3. n \in Nat
    BY <1>3
  <2> QED
    BY ONLY <2>1, <2>2, <2>3, StatesOfFold
<1>15. st[n] = Read(Written(list), offset + 1 + at[n])
  <2>1. n \in 0 .. n
    BY <1>3
  <2>2. st[n] = Read(upTo(n), offset + 1 + at[n])
    BY <2>1
  <2> QED
    BY <1>1, <2>2
<1> HIDE DEF st
<1> QED
  BY <1>11, <1>14, <1>15 DEF fold

\* An account is written into room for all its addresses, and read back with those
\* that there may be.
LEMMA AccountWritten ==
    ASSUME NEW account \in AccountRecord
    PROVE  /\ WriteAccount(account) \in Seq(Nat)
           /\ Len(WriteAccount(account)) <= AccountSize(account) /\ AccountSize(account) \in Nat
<1> DEFINE balance == WriteAccountBalance(account)
           list == WriteAccountAddress(account.addresses)
<1>1. /\ account.publicKey \in Nat /\ account.balance \in Nat /\ account.txSequence \in Nat
      /\ account.addresses \in Seq(Address)
  BY DEF AccountRecord, Address
<1>2. balance \in Seq(Nat) /\ Len(balance) = 3
  BY <1>1 DEF WriteAccountBalance
<1>3. /\ list \in Seq(Nat) /\ Len(list) <= AccountAddressSize(account.addresses)
      /\ AccountAddressSize(account.addresses) \in Nat
  BY <1>1, AddressesWritten
<1> HIDE DEF balance, list
<1>4. /\ balance \o list \in Seq(Nat) /\ Len(balance \o list) = Len(balance) + Len(list)
      /\ Len(list) \in Nat
  BY <1>2, <1>3, ConcatProperties, LenProperties
<1>5. Len(balance \o list) <= 3 + AccountAddressSize(account.addresses)
  BY <1>2, <1>3, <1>4
<1> QED
  BY <1>3, <1>4, <1>5 DEF WriteAccount, AccountSize, balance, list

LEMMA AccountRead ==
    ASSUME NEW account \in AccountRecord, NEW buffer, Len(buffer) \in Nat, NEW offset \in Nat,
           Holds(buffer, offset, WriteAccount(account))
    PROVE  \E x : ReadAccount(buffer, offset)
                    = Read([account EXCEPT !.addresses = Written(@)], x)
<1> DEFINE balance == WriteAccountBalance(account)
           list == WriteAccountAddress(account.addresses)
<1>1. /\ account.publicKey \in Nat /\ account.balance \in Nat /\ account.txSequence \in Nat
      /\ account.addresses \in Seq(Address)
      /\ account = [publicKey |-> account.publicKey, balance |-> account.balance,
                    txSequence |-> account.txSequence, addresses |-> account.addresses]
  BY DEF AccountRecord, Address
<1>2. /\ balance \in Seq(Nat) /\ Len(balance) = 3 /\ balance[1] = account.publicKey
      /\ balance[2] = account.balance /\ balance[3] = account.txSequence
  BY <1>1 DEF WriteAccountBalance
<1>3. list \in Seq(Nat)
  BY <1>1, AddressesWritten
<1>4. Holds(buffer, offset, balance \o list)
  BY DEF WriteAccount
<1> HIDE DEF balance, list
<1>5. Holds(buffer, offset, balance) /\ Holds(buffer, offset + 3, list)
  BY <1>2, <1>3, <1>4, HoldsParts
<1>6. /\ Field(buffer, offset) = account.publicKey /\ Field(buffer, offset + 1) = account.balance
      /\ Field(buffer, offset + 2) = account.txSequence
  <2>1. Len(balance) > 0 /\ Len(balance) > 1 /\ Len(balance) > 2
    BY <1>2
  <2> QED
    BY <1>2, <1>5, <2>1, FieldsHeld
<1>7. ~ (Left(buffer, offset) < 3)
  BY <1>2, <1>5 DEF Holds, Left
<1> DEFINE b == ReadAccountBalance(buffer, offset)
           a == ReadAccountAddress(buffer, b.next)
<1>8. /\ b.ok /\ b.next = offset + 3 /\ b.value.publicKey = account.publicKey
      /\ b.value.balance = account.balance /\ b.value.txSequence = account.txSequence
  BY <1>6, <1>7 DEF ReadAccountBalance, Read
<1> HIDE DEF b
<1>9. PICK x : a = Read(Written(account.addresses), x)
  <2>1. offset + 3 \in Nat
    OBVIOUS
  <2> QED
    BY <1>1, <1>5, <1>8, <2>1, AddressesRead DEF list
<1>10. a.value = Written(account.addresses)
  BY <1>9 DEF Read
<1>11. ReadAccount(buffer, offset)
        = IF ~ b.ok THEN Thrown
          ELSE Read([publicKey |-> b.value.publicKey, balance |-> b.value.balance,
                     txSequence |-> b.value.txSequence, addresses |-> a.value], a.next)
  BY DEF ReadAccount, b
<1> HIDE DEF a
<1>12. [account EXCEPT !.addresses = Written(@)]
         = [publicKey |-> account.publicKey, balance |-> account.balance,
            txSequence |-> account.txSequence, addresses |-> Written(account.addresses)]
  BY <1>1
<1> QED
  BY <1>8, <1>10, <1>11, <1>12

-----------------------------------------------------------------------------
(* Storage *)

StepInv ==
    /\ step \in [kind : {"idle"}]
            \union [kind : {"account"}, wallet : Wallet, addresses : AddressList]
    /\ execution \in [kind : {"idle"}] \union [kind : {"block"}, txSet : SUBSET Tx]

\* What is in the databases of accounts can be read, and an account without addresses
\* is one whose second write has not come yet, or never came.
AccountsInv ==
    /\ \A wallet \in DOMAIN balances : getBalance(wallet).ok
    /\ \A wallet \in DOMAIN addresses : getAddresses(wallet).ok
    /\ \A wallet \in DOMAIN balances \ DOMAIN addresses :
        wallet \in torn \/ (step.kind = "account" /\ step.wallet = wallet)
    /\ DOMAIN addresses \subseteq DOMAIN balances
    /\ step.kind = "account" => step.wallet \in DOMAIN balances

\* What a node has asked for it does not get by any other way: an answer to it is
\* stored without another look.
WaitingInv ==
    \A wallet \in waiting :
        /\ wallet \notin DOMAIN addresses
        /\ step.kind = "account" => step.wallet # wallet

\* Who has sent has an account.
SequenceInv ==
    /\ executed \subseteq Tx
    /\ \A tx \in executed : Sender(tx) \in DOMAIN balances
    /\ \A wallet \in DOMAIN balances \ torn :
        /\ wallet \in DOMAIN opened /\ opened[wallet] \in Nat
        /\ getBalance(wallet).value.txSequence
             = Max({opened[wallet], Sequence(wallet, executed)})

\* A block of the transactions, with some root of the accounts.
BlockOf(txSet, root) ==
    [header |-> [info |-> 1, txRoot |-> ComputeTxSetMerkleRoot(txSet), previous |-> 1,
                 accRoot |-> root],
     body |-> [count |-> Cardinality(txSet), txSet |-> txSet]]

\* Every block is in the database as it was written.
BlocksInv ==
    /\ \A block \in stored : /\ block.body.txSet \in SUBSET Tx
                             /\ block = BlockOf(block.body.txSet, block.header.accRoot)
                             /\ blocks[block.header] = WriteBlock(block)
    /\ DOMAIN blocks = {block.header : block \in stored}
    /\ executed = (UNION {block.body.txSet : block \in stored}) \union unstored
                  \union (IF execution.kind = "block" THEN execution.txSet ELSE {})

StorageInv == StepInv /\ AccountsInv /\ WaitingInv /\ SequenceInv /\ BlocksInv

LEMMA LargestExists ==
    ASSUME NEW S, IsFiniteSet(S), S \subseteq Nat, S # {}
    PROVE  Max(S) \in S /\ \A y \in S : y <= Max(S)
<1> DEFINE Good == {U \in SUBSET S : U # {} => \E m \in U : \A y \in U : m >= y}
<1>1. ASSUME NEW U \in SUBSET S, \A W \in SUBSET U : W # U => W \in Good
      PROVE  U \in Good
  <2> SUFFICES ASSUME NEW x \in U PROVE \E m \in U : \A y \in U : m >= y
    OBVIOUS
  <2>1. x \in Nat /\ \A y \in U : y \in Nat
    OBVIOUS
  <2>2. CASE U = {x}
    BY <2>1, <2>2
  <2>3. CASE U # {x}
    <3>1. U \ {x} \in Good /\ U \ {x} # {}
      BY <1>1, <2>3
    <3>2. PICK m \in U \ {x} : \A y \in U \ {x} : m >= y
      BY <3>1
    <3>3. CASE m >= x
      BY <3>2, <3>3
    <3>4. CASE ~ (m >= x)
      <4>1. \A y \in U : x >= y
        BY <2>1, <3>2, <3>4
      <4> QED
        BY <4>1
    <3> QED
      BY <3>3, <3>4
  <2> QED
    BY <2>2, <2>3
<1> HIDE DEF Good
<1>2. S \in Good
  BY <1>1, SubsetInduction
<1>3. PICK m \in S : \A y \in S : m >= y
  BY <1>2 DEF Good
<1>4. Max(S) \in S /\ \A y \in S : Max(S) >= y
  BY <1>3 DEF Max
<1>5. Max(S) \in Nat /\ \A y \in S : y \in Nat
  BY <1>4
<1> QED
  BY <1>4, <1>5

\* The numbers of a wallet's transactions, and 0.
LEMMA SequenceFacts ==
    ASSUME NEW E \in SUBSET Tx, NEW wallet
    PROVE  /\ Sequence(wallet, E) \in Nat
           /\ \A t \in E : Sender(t) = wallet => Number(t) <= Sequence(wallet, E)
           /\ Sequence(wallet, E) = 0
                \/ \E t \in E : Sender(t) = wallet /\ Sequence(wallet, E) = Number(t)
<1> DEFINE F == {t \in E : Sender(t) = wallet}
           S == {Number(t) : t \in F} \union {0}
<1>1. IsFiniteSet(F)
  BY TxAssumption, FS_Subset
<1>2. IsFiniteSet({Number(t) : t \in F})
  <2> DEFINE T == {Number(t) : t \in F}
             f == [t \in F |-> Number(t)]
  <2>1. f \in Surjection(F, T)
    BY DEF Surjection
  <2> HIDE DEF f, T
  <2>2. IsFiniteSet(T)
    BY <1>1, <2>1, FS_Surjection
  <2> QED
    BY <2>2 DEF T
<1>3. IsFiniteSet(S)
  BY <1>2, FS_AddElement
<1>4. S \subseteq Nat /\ S # {}
  BY TxAssumption
<1> HIDE DEF S
<1>5. Max(S) \in S /\ \A y \in S : y <= Max(S)
  BY <1>3, <1>4, LargestExists
<1>6. Sequence(wallet, E) = Max(S)
  BY DEF Sequence, S
<1>7. \A y : y \in S <=> y = 0 \/ \E t \in E : Sender(t) = wallet /\ y = Number(t)
  BY DEF S
<1> HIDE DEF F
<1> QED
  BY <1>4, <1>5, <1>6, <1>7

LEMMA MaxOfTwo ==
    ASSUME NEW k \in Nat, NEW s \in Nat
    PROVE  Max({k, s}) = IF s > k THEN s ELSE k
<1> DEFINE S == {k, s}
<1>1. IsFiniteSet(S)
  <2>1. IsFiniteSet({k} \union {s})
    BY FS_Singleton, FS_AddElement
  <2>2. S = {k} \union {s}
    OBVIOUS
  <2> QED
    BY <2>1, <2>2
<1>2. S \subseteq Nat /\ S # {} /\ k \in S /\ s \in S /\ \A x \in S : x = k \/ x = s
  OBVIOUS
<1> HIDE DEF S
<1>3. Max(S) \in S /\ \A y \in S : y <= Max(S)
  BY <1>1, <1>2, LargestExists
<1>4. k <= Max(S) /\ s <= Max(S) /\ (Max(S) = k \/ Max(S) = s)
  BY <1>2, <1>3
<1>5. Max(S) = IF s > k THEN s ELSE k
  BY ONLY <1>4, k \in Nat, s \in Nat
<1> QED
  BY <1>5 DEF S

\* Numbers that rise keep the sequence number of an account the largest one.
LEMMA SequenceGrows ==
    ASSUME NEW E \in SUBSET Tx, NEW F \in SUBSET Tx, NEW wallet, NEW k \in Nat,
           \A t \in F : Sender(t) = wallet => Number(t) > Max({k, Sequence(wallet, E)})
    PROVE  Numbered(Max({k, Sequence(wallet, E)}), Sequence(wallet, F))
                = Max({k, Sequence(wallet, E \union F)})
<1> DEFINE e == Sequence(wallet, E)
           f == Sequence(wallet, F)
           u == Sequence(wallet, E \union F)
           old == Max({k, e})
<1>1. /\ e \in Nat /\ \A t \in E : Sender(t) = wallet => Number(t) <= e
      /\ e = 0 \/ \E t \in E : Sender(t) = wallet /\ e = Number(t)
  BY SequenceFacts
<1>2. /\ f \in Nat /\ \A t \in F : Sender(t) = wallet => Number(t) <= f
      /\ f = 0 \/ \E t \in F : Sender(t) = wallet /\ f = Number(t)
  BY SequenceFacts
<1>3. /\ u \in Nat /\ \A t \in E \union F : Sender(t) = wallet => Number(t) <= u
      /\ u = 0 \/ \E t \in E \union F : Sender(t) = wallet /\ u = Number(t)
  BY SequenceFacts
<1>4. old = IF e > k THEN e ELSE k
  BY <1>1, MaxOfTwo
<1>5. Max({k, u}) = IF u > k THEN u ELSE k
  BY <1>3, MaxOfTwo
<1>6. \A t \in F : Sender(t) = wallet => Number(t) > old
  OBVIOUS
<1>n. \A t \in E \union F : Number(t) \in Nat
  BY TxAssumption
<1> HIDE DEF e, f, u, old
<1>7. CASE \E t \in F : Sender(t) = wallet
  <2>1. PICK t \in F : Sender(t) = wallet
    BY <1>7
  <2>2. Number(t) > old /\ Number(t) <= f /\ Number(t) \in Nat
    BY <1>2, <1>6, <1>n, <2>1
  <2>3. f # 0 /\ f > old /\ old >= k /\ old >= e /\ old \in Nat
    BY ONLY <1>1, <1>2, <1>4, <2>2, k \in Nat
  <2>4. PICK v \in F : Sender(v) = wallet /\ f = Number(v)
    BY <1>2, <2>3
  <2>5. f <= u
    BY <1>3, <2>4
  <2>6. u <= f
    <3>1. CASE u = 0
      BY <1>2, <3>1
    <3>2. CASE u # 0
      <4>1. PICK w \in E \union F : Sender(w) = wallet /\ u = Number(w)
        BY <1>3, <3>2
      <4>2. CASE w \in F
        BY <1>2, <4>1, <4>2
      <4>3. CASE w \in E
        <5>1. u <= e
          BY <1>1, <4>1, <4>3
        <5> QED
          BY <1>1, <1>2, <1>3, <2>3, <5>1
      <4> QED
        BY <4>2, <4>3
    <3> QED
      BY <3>1, <3>2
  <2>7. u = f /\ u > k
    BY ONLY <1>2, <1>3, <2>3, <2>5, <2>6, k \in Nat
  <2> QED
    BY <1>5, <2>3, <2>7 DEF Numbered, e, f, u, old
<1>8. CASE ~ \E t \in F : Sender(t) = wallet
  <2>1. f = 0
    BY <1>2, <1>8
  <2>2. {t \in E \union F : Sender(t) = wallet} = {t \in E : Sender(t) = wallet}
    BY <1>8
  <2>3. u = e
    BY <2>2 DEF u, e, Sequence
  <2> QED
    BY <1>4, <1>5, <2>1, <2>3 DEF Numbered, e, f, u, old
<1> QED
  BY <1>7, <1>8

\* What is read of a balance that was written.
LEMMA BalanceRead ==
    ASSUME NEW account
    PROVE  /\ ReadAccountBalance(WriteAccountBalance(account), 0).ok
           /\ ReadAccountBalance(WriteAccountBalance(account), 0).value.txSequence
                = account.txSequence
<1> DEFINE cells == WriteAccountBalance(account)
<1>1. Len(cells) = 3 /\ cells[3] = account.txSequence
  BY DEF WriteAccountBalance
<1> HIDE DEF cells
<1>2. Left(cells, 0) = 3 /\ Field(cells, 0 + 2) = account.txSequence
  BY <1>1 DEF Left, Field
<1> QED
  BY <1>2 DEF ReadAccountBalance, Read, cells


LEMMA BalanceRecord ==
    ASSUME NEW wallet, getBalance(wallet).ok
    PROVE  /\ wallet \in DOMAIN balances
           /\ LET account == getBalance(wallet).value
              IN  account = [publicKey |-> account.publicKey, balance |-> account.balance,
                             txSequence |-> account.txSequence]
  BY DEF getBalance, ReadAccountBalance, Thrown, Read

\* The addresses that a node writes itself, or that a peer sent, can be read again.
LEMMA ListRead ==
    ASSUME NEW list \in AddressList
    PROVE  LET cells == WriteAccountAddress(list)
           IN  ReadAccountAddress([i \in 1 .. AccountAddressSize(list) |-> Field(cells, i - 1)], 0).ok
<1> DEFINE cells == WriteAccountAddress(list)
           size == AccountAddressSize(list)
           buffer == [i \in 1 .. size |-> Field(cells, i - 1)]
<1>1. list \in Seq(Address)
  <2>1. CASE list = <<>>
    BY <2>1
  <2>2. CASE list = <<<<8>>, <<9, 9>>>>
    BY <2>2 DEF Address
  <2> QED
    BY <2>1, <2>2 DEF AddressList
<1>2. cells \in Seq(Nat) /\ Len(cells) <= size /\ size \in Nat
  BY <1>1, AddressesWritten
<1> HIDE DEF cells, size
<1>3. Holds(buffer, 0, cells) /\ Len(buffer) = size
  BY <1>2, HoldsPadded
<1> HIDE DEF buffer
<1>4. \E x : ReadAccountAddress(buffer, 0) = Read(Written(list), x)
  BY <1>1, <1>2, <1>3, AddressesRead DEF cells
<1> QED
  BY <1>4 DEF Read, buffer, cells, size

LEMMA InitStorage == StorageInit => StorageInv
<1> SUFFICES ASSUME StorageInit PROVE StorageInv
  OBVIOUS
<1> USE DEF StorageInit
<1>1. DOMAIN balances = {} /\ DOMAIN addresses = {} /\ DOMAIN blocks = {}
  OBVIOUS
<1>2. StepInv
  BY DEF StepInv, Idle
<1>3. AccountsInv /\ WaitingInv
  BY <1>1 DEF AccountsInv, WaitingInv, Idle
<1>4. SequenceInv
  BY <1>1 DEF SequenceInv
<1>5. BlocksInv
  BY <1>1 DEF BlocksInv, Idle
<1> QED
  BY <1>2, <1>3, <1>4, <1>5 DEF StorageInv

\* What the consensus thread does not change of the invariant.
LEMMA SameSequences ==
    ASSUME StorageInv, UNCHANGED <<balances, opened, executed>>, torn \subseteq torn'
    PROVE  SequenceInv'
<1>1. \A v : getBalance(v)' = getBalance(v) /\ Sequence(v, executed') = Sequence(v, executed)
  BY DEF getBalance
<1>2. DOMAIN balances' \ torn' \subseteq DOMAIN balances \ torn
  OBVIOUS
<1> QED
  BY <1>1, <1>2 DEF StorageInv, SequenceInv

LEMMA AskForKeeps ==
    ASSUME StorageInv, NEW wallet \in Wallet, AskFor(wallet)
    PROVE  StorageInv' /\ balances' = balances
<1>1. /\ step = Idle /\ unknown(wallet) /\ waiting' = waiting \union {wallet}
      /\ UNCHANGED <<balances, addresses, blocks, step, execution, opened, stored, executed,
                     torn, unstored>>
  BY DEF AskFor, databases, histories
<1>b. \A v : getBalance(v)' = getBalance(v) /\ getAddresses(v)' = getAddresses(v)
  BY <1>1 DEF getBalance, getAddresses
<1>2. wallet \notin DOMAIN addresses
  BY <1>1 DEF StorageInv, AccountsInv, unknown, getAccount
<1>3. StepInv'
  BY <1>1 DEF StorageInv, StepInv
<1>4. AccountsInv'
  BY <1>1, <1>b DEF StorageInv, AccountsInv
<1>5. WaitingInv'
  BY <1>1, <1>2 DEF StorageInv, WaitingInv, Idle
<1>6. SequenceInv'
  BY <1>1, SameSequences
<1>7. BlocksInv'
  BY <1>1 DEF StorageInv, BlocksInv
<1> QED
  BY <1>1, <1>3, <1>4, <1>5, <1>6, <1>7 DEF StorageInv

LEMMA SetBalanceKeeps ==
    ASSUME StorageInv, NEW wallet \in Wallet, NEW list \in AddressList, NEW record \in Records,
           SetBalance(wallet, list, record)
    PROVE  /\ StorageInv'
           /\ \A v \in DOMAIN balances : balances'[v] # balances[v] => v \in torn
<1> DEFINE came == [publicKey |-> wallet, balance |-> record.balance,
                    txSequence |-> record.txSequence]
           account == IF wallet \notin waiting /\ getBalance(wallet).ok
                      THEN getBalance(wallet).value ELSE came
<1>1. /\ step = Idle /\ (wallet \in waiting \/ unknown(wallet))
      /\ waiting' = waiting \ {wallet}
      /\ balances' = Put(balances, wallet, WriteAccountBalance(account))
      /\ opened' = Put(opened, wallet, account.txSequence)
      /\ step' = [kind |-> "account", wallet |-> wallet, addresses |-> list]
      /\ UNCHANGED <<addresses, blocks, up, stops, execution, stored, executed, torn, unstored>>
  BY DEF SetBalance
<1> HIDE DEF account
<1>2. /\ DOMAIN balances' = DOMAIN balances \union {wallet}
      /\ balances'[wallet] = WriteAccountBalance(account)
      /\ \A v \in DOMAIN balances : v # wallet => balances'[v] = balances[v]
      /\ wallet \in DOMAIN opened' /\ opened'[wallet] = account.txSequence
      /\ \A v \in DOMAIN opened : v # wallet => v \in DOMAIN opened' /\ opened'[v] = opened[v]
  BY <1>1 DEF Put
<1>3. getBalance(wallet)'.ok /\ getBalance(wallet)'.value.txSequence = account.txSequence
  BY <1>2, BalanceRead DEF getBalance
<1>4. \A v : v # wallet => getBalance(v)' = getBalance(v)
  BY <1>2 DEF getBalance
<1>5. \A v : getAddresses(v)' = getAddresses(v)
  BY <1>1 DEF getAddresses
<1>6. step.kind = "idle" /\ step'.kind = "account" /\ step'.wallet = wallet
  BY <1>1 DEF Idle
<1>7. wallet \in DOMAIN balances => wallet \in torn
  <2> SUFFICES ASSUME wallet \in DOMAIN balances PROVE wallet \in torn
    OBVIOUS
  <2>1. getBalance(wallet).ok
    BY DEF StorageInv, AccountsInv
  <2>2. wallet \notin DOMAIN addresses
    <3>1. CASE wallet \in waiting
      BY <3>1 DEF StorageInv, WaitingInv
    <3>2. CASE unknown(wallet)
      BY <2>1, <3>2 DEF unknown, getAccount, StorageInv, AccountsInv
    <3> QED
      BY <1>1, <3>1, <3>2
  <2> QED
    BY <1>6, <2>2 DEF StorageInv, AccountsInv
<1>8. StepInv'
  BY <1>1 DEF StorageInv, StepInv
<1>9. AccountsInv'
  <2>1. \A v \in DOMAIN balances' : getBalance(v)'.ok
    BY <1>2, <1>3, <1>4 DEF StorageInv, AccountsInv
  <2>2. \A v \in DOMAIN addresses' : getAddresses(v)'.ok
    BY <1>1, <1>5 DEF StorageInv, AccountsInv
  <2>3. \A v \in DOMAIN balances' \ DOMAIN addresses' : v \in torn' \/ step'.wallet = v
    BY <1>1, <1>2, <1>6 DEF StorageInv, AccountsInv
  <2>4. DOMAIN addresses' \subseteq DOMAIN balances' /\ step'.wallet \in DOMAIN balances'
    BY <1>1, <1>2, <1>6 DEF StorageInv, AccountsInv
  <2> QED
    BY <1>6, <2>1, <2>2, <2>3, <2>4 DEF AccountsInv
<1>w. WaitingInv'
  BY <1>1, <1>6 DEF StorageInv, WaitingInv
<1>10. SequenceInv'
  <2>1. executed' \subseteq Tx /\ \A tx \in executed' : Sender(tx) \in DOMAIN balances'
    BY <1>1, <1>2 DEF StorageInv, SequenceInv
  <2>2. \A v : Sequence(v, executed') = Sequence(v, executed)
    BY <1>1
  <2>3. ASSUME NEW v \in DOMAIN balances' \ torn'
        PROVE  /\ v \in DOMAIN opened' /\ opened'[v] \in Nat
               /\ getBalance(v)'.value.txSequence
                    = Max({opened'[v], Sequence(v, executed')})
    <3>1. CASE v # wallet
      <4>1. v \in DOMAIN balances \ torn
        BY <1>1, <1>2, <3>1
      <4>2. /\ v \in DOMAIN opened /\ opened[v] \in Nat
            /\ getBalance(v).value.txSequence = Max({opened[v], Sequence(v, executed)})
        BY <4>1 DEF StorageInv, SequenceInv
      <4>3. v \in DOMAIN opened' /\ opened'[v] = opened[v]
        BY <1>2, <3>1, <4>2
      <4> QED
        BY <1>4, <2>2, <3>1, <4>2, <4>3
    <3>2. CASE v = wallet
      <4>1. wallet \notin DOMAIN balances
        BY <1>1, <1>7, <3>2
      <4>2. account.txSequence = record.txSequence /\ record.txSequence \in Nat
        BY <4>1, StorageAssumption DEF account, getBalance, Thrown
      <4>3. executed \in SUBSET Tx /\ \A tx \in executed : Sender(tx) # wallet
        BY <4>1 DEF StorageInv, SequenceInv
      <4>4. Sequence(wallet, executed) = 0
        BY <4>3, SequenceFacts
      <4>5. Max({account.txSequence, Sequence(wallet, executed)}) = account.txSequence
        BY <4>2, <4>4, MaxOfTwo
      <4> QED
        BY <1>2, <1>3, <2>2, <3>2, <4>2, <4>5
    <3> QED
      BY <3>1, <3>2
  <2> QED
    BY <2>1, <2>3 DEF SequenceInv
<1>11. BlocksInv'
  BY <1>1 DEF StorageInv, BlocksInv
<1>12. \A v \in DOMAIN balances : balances'[v] # balances[v] => v \in torn
  BY <1>2, <1>7
<1> QED
  BY <1>8, <1>9, <1>w, <1>10, <1>11, <1>12 DEF StorageInv

LEMMA SetAddressesKeeps ==
    ASSUME StorageInv, SetAddresses
    PROVE  StorageInv'
<1>0. PICK wallet : wallet = step.wallet
  OBVIOUS
<1> DEFINE cells == WriteAccountAddress(step.addresses)
           all == [i \in 1 .. AccountAddressSize(step.addresses) |-> Field(cells, i - 1)]
<1>1. /\ step.kind = "account" /\ addresses' = Put(addresses, wallet, all) /\ step' = Idle
      /\ UNCHANGED <<balances, blocks, up, stops, waiting, execution, opened, stored, executed,
                     torn, unstored>>
  BY <1>0 DEF SetAddresses, histories
<1>2. step.addresses \in AddressList
  BY <1>1 DEF StorageInv, StepInv
<1>3. ReadAccountAddress(all, 0).ok
  BY <1>2, ListRead
<1> HIDE DEF all
<1>4. /\ DOMAIN addresses' = DOMAIN addresses \union {wallet}
      /\ addresses'[wallet] = all
      /\ \A v \in DOMAIN addresses : v # wallet => addresses'[v] = addresses[v]
  BY <1>1 DEF Put
<1>5. getAddresses(wallet)'.ok
  BY <1>3, <1>4 DEF getAddresses
<1>6. \A v : v # wallet => getAddresses(v)' = getAddresses(v)
  BY <1>4 DEF getAddresses
<1>7. \A v : getBalance(v)' = getBalance(v)
  BY <1>1 DEF getBalance
<1>8. step'.kind = "idle"
  BY <1>1 DEF Idle
<1>9. StepInv'
  BY <1>1 DEF StorageInv, StepInv, Idle
<1>10. AccountsInv'
  <2>1. \A v \in DOMAIN addresses' : getAddresses(v)'.ok
    BY <1>4, <1>5, <1>6 DEF StorageInv, AccountsInv
  <2>2. \A v \in DOMAIN balances' : getBalance(v)'.ok
    BY <1>1, <1>7 DEF StorageInv, AccountsInv
  <2>3. \A v \in DOMAIN balances' \ DOMAIN addresses' : v \in torn'
    BY <1>0, <1>1, <1>4 DEF StorageInv, AccountsInv
  <2>4. DOMAIN addresses' \subseteq DOMAIN balances'
    BY <1>0, <1>1, <1>4 DEF StorageInv, AccountsInv
  <2> QED
    BY <1>8, <2>1, <2>2, <2>3, <2>4 DEF AccountsInv
<1>w. WaitingInv'
  BY <1>0, <1>1, <1>4, <1>8 DEF StorageInv, WaitingInv
<1>11. SequenceInv'
  BY <1>1, SameSequences
<1>12. BlocksInv'
  BY <1>1 DEF StorageInv, BlocksInv
<1> QED
  BY <1>9, <1>10, <1>w, <1>11, <1>12 DEF StorageInv

LEMMA ExecutedKeeps ==
    ASSUME StorageInv, NEW txSet \in SUBSET Tx, SetBalancesByAccDiffs(txSet)
    PROVE  StorageInv' /\ execution' # execution
<1> DEFINE before(w) == getBalance(w).value
           after(w) == [before(w) EXCEPT
                            !.balance = @ + Credit(w, txSet) - Debit(w, txSet),
                            !.txSequence = Numbered(@, Sequence(w, txSet))]
<1>1. /\ execution = Idle
      /\ \A w \in Touched(txSet) : getBalance(w).ok
      /\ \A tx \in txSet : Number(tx) > getBalance(Sender(tx)).value.txSequence
      /\ balances' = [w \in DOMAIN balances |->
                        IF w \in Touched(txSet) THEN WriteAccountBalance(after(w)) ELSE balances[w]]
      /\ execution' = [kind |-> "block", txSet |-> txSet]
      /\ executed' = executed \union txSet
      /\ UNCHANGED <<addresses, blocks, up, stops, waiting, step, opened, stored, torn, unstored>>
  BY DEF SetBalancesByAccDiffs
<1>2. execution.kind = "idle" /\ execution'.kind = "block" /\ execution'.txSet = txSet
  <2> HIDE DEF after
  <2> QED
    BY ONLY <1>1 DEF Idle
<1>3. \A tx \in txSet : Sender(tx) \in Touched(txSet)
  BY DEF Touched
<1>4. DOMAIN balances' = DOMAIN balances
  BY <1>1
<1>5. \A v : getAddresses(v)' = getAddresses(v)
  BY <1>1 DEF getAddresses
<1>6. ASSUME NEW w \in DOMAIN balances, w \in Touched(txSet)
      PROVE  /\ getBalance(w)'.ok
             /\ getBalance(w)'.value.txSequence = Numbered(before(w).txSequence, Sequence(w, txSet))
  <2>1. balances'[w] = WriteAccountBalance(after(w))
    BY <1>1, <1>6
  <2>2. before(w) = [publicKey |-> before(w).publicKey, balance |-> before(w).balance,
                     txSequence |-> before(w).txSequence]
    BY <1>1, <1>6, BalanceRecord
  <2>3. after(w).txSequence = Numbered(before(w).txSequence, Sequence(w, txSet))
    <3> HIDE DEF before
    <3> QED
      BY <2>2
  <2> HIDE DEF after, before
  <2>4. getBalance(w)' = ReadAccountBalance(WriteAccountBalance(after(w)), 0)
    BY <1>4, <2>1 DEF getBalance
  <2> QED
    BY <2>3, <2>4, BalanceRead
<1>7. ASSUME NEW w \in DOMAIN balances, w \notin Touched(txSet)
      PROVE  getBalance(w)' = getBalance(w)
  BY <1>1, <1>4, <1>7 DEF getBalance
<1> HIDE DEF after
<1>8. StepInv'
  <2>0. step' = step /\ execution' = [kind |-> "block", txSet |-> txSet]
    BY <1>1
  <2>1. StepInv
    BY DEF StorageInv
  <2> QED
    BY ONLY <2>0, <2>1, txSet \in SUBSET Tx DEF StepInv
<1>9. AccountsInv'
  <2>1. \A v \in DOMAIN balances' : getBalance(v)'.ok
    BY <1>4, <1>6, <1>7 DEF StorageInv, AccountsInv
  <2>2. \A v \in DOMAIN addresses' : getAddresses(v)'.ok
    BY <1>1, <1>5 DEF StorageInv, AccountsInv
  <2>3. addresses' = addresses /\ torn' = torn /\ step' = step
    BY <1>1
  <2> QED
    BY <1>4, <2>1, <2>2, <2>3 DEF StorageInv, AccountsInv
<1>w. WaitingInv'
  <2>1. addresses' = addresses /\ waiting' = waiting /\ step' = step
    BY <1>1
  <2> QED
    BY <2>1 DEF StorageInv, WaitingInv
<1>10. SequenceInv'
  <2>1. executed' \subseteq Tx
    BY <1>1 DEF StorageInv, SequenceInv
  <2>2. \A tx \in executed' : Sender(tx) \in DOMAIN balances'
    <3>1. \A tx \in txSet : Sender(tx) \in DOMAIN balances
      BY <1>1, <1>3, BalanceRecord
    <3> QED
      BY <1>1, <1>4, <3>1 DEF StorageInv, SequenceInv
  <2>3. ASSUME NEW w \in DOMAIN balances' \ torn'
        PROVE  /\ w \in DOMAIN opened' /\ opened'[w] \in Nat
               /\ getBalance(w)'.value.txSequence = Max({opened'[w], Sequence(w, executed')})
    <3>1. w \in DOMAIN balances \ torn /\ executed \in SUBSET Tx /\ opened' = opened
      BY <1>1, <1>4 DEF StorageInv, SequenceInv
    <3>2. /\ w \in DOMAIN opened /\ opened[w] \in Nat
          /\ before(w).txSequence = Max({opened[w], Sequence(w, executed)})
      BY <3>1 DEF StorageInv, SequenceInv
    <3>3. \A tx \in txSet : Sender(tx) = w => Number(tx) > Max({opened[w], Sequence(w, executed)})
      BY <1>1, <3>2
    <3>4. Numbered(before(w).txSequence, Sequence(w, txSet))
            = Max({opened[w], Sequence(w, executed \union txSet)})
      BY <3>1, <3>2, <3>3, SequenceGrows
    <3>5. Sequence(w, executed') = Sequence(w, executed \union txSet)
      BY <1>1
    <3>6. CASE w \in Touched(txSet)
      BY <1>6, <3>1, <3>2, <3>4, <3>5, <3>6
    <3>7. CASE w \notin Touched(txSet)
      <4>1. \A tx \in txSet : Sender(tx) # w
        BY <1>3, <3>7
      <4>2. Sequence(w, txSet) = 0
        BY <4>1, SequenceFacts
      <4>3. Numbered(before(w).txSequence, Sequence(w, txSet)) = before(w).txSequence
        BY <4>2 DEF Numbered
      <4>4. getBalance(w)' = getBalance(w)
        BY <1>7, <3>1, <3>7
      <4> QED
        BY <3>1, <3>2, <3>4, <3>5, <4>3, <4>4
    <3> QED
      BY <3>6, <3>7
  <2> QED
    BY <2>1, <2>2, <2>3 DEF SequenceInv
<1>11. BlocksInv'
  <2>1. executed' = (UNION {block.body.txSet : block \in stored'}) \union unstored' \union txSet
    BY <1>1, <1>2 DEF StorageInv, BlocksInv
  <2> QED
    BY <1>1, <1>2, <2>1 DEF StorageInv, BlocksInv
<1> QED
  BY <1>2, <1>8, <1>9, <1>w, <1>10, <1>11 DEF StorageInv

LEMMA SetBlockKeeps ==
    ASSUME StorageInv, SetBlock
    PROVE  StorageInv'
<1>1. PICK txSet : txSet = execution.txSet
  OBVIOUS
<1>2. PICK block : block = BlockOf(txSet, getAccountsMerkleRootHash)
  OBVIOUS
<1>3. /\ execution.kind = "block" /\ execution' = Idle
      /\ blocks' = Put(blocks, block.header, WriteBlock(block))
      /\ stored' = stored \union {block}
      /\ UNCHANGED <<balances, addresses, up, stops, waiting, step, opened, executed, torn,
                     unstored>>
  BY <1>1, <1>2 DEF SetBlock, BlockOf
<1>4. txSet \in SUBSET Tx
  BY <1>1, <1>3 DEF StorageInv, StepInv
<1>5. /\ block.body.txSet = txSet /\ block = BlockOf(txSet, block.header.accRoot)
      /\ block.header.txRoot = ComputeTxSetMerkleRoot(txSet)
  BY <1>2 DEF BlockOf
<1>6. /\ DOMAIN blocks' = DOMAIN blocks \union {block.header}
      /\ blocks'[block.header] = WriteBlock(block)
      /\ \A h \in DOMAIN blocks : h # block.header => blocks'[h] = blocks[h]
  BY <1>3 DEF Put
<1>7. \A b \in stored : b.header = block.header => b = block
  <2> SUFFICES ASSUME NEW b \in stored, b.header = block.header PROVE b = block
    OBVIOUS
  <2>1. b.body.txSet \in SUBSET Tx /\ b = BlockOf(b.body.txSet, b.header.accRoot)
    BY DEF StorageInv, BlocksInv
  <2>2. b.header.txRoot = ComputeTxSetMerkleRoot(b.body.txSet)
    BY <2>1 DEF BlockOf
  <2>3. b.body.txSet = txSet
    BY <1>4, <1>5, <2>1, <2>2, MerkleAssumption
  <2> QED
    BY <1>5, <2>1, <2>3
<1>8. execution'.kind = "idle"
  BY <1>3 DEF Idle
<1>9. StepInv'
  BY <1>3 DEF StorageInv, StepInv, Idle
<1>b. \A v : getBalance(v)' = getBalance(v) /\ getAddresses(v)' = getAddresses(v)
  BY <1>3 DEF getBalance, getAddresses
<1>10. AccountsInv' /\ WaitingInv'
  BY <1>3, <1>b DEF StorageInv, AccountsInv, WaitingInv
<1>11. SequenceInv'
  BY <1>3, SameSequences
<1>12. BlocksInv'
  <2>1. ASSUME NEW b \in stored'
        PROVE  /\ b.body.txSet \in SUBSET Tx
               /\ b = BlockOf(b.body.txSet, b.header.accRoot)
               /\ blocks'[b.header] = WriteBlock(b)
    <3>1. CASE b = block
      BY <1>4, <1>5, <1>6, <3>1
    <3>2. CASE b # block
      <4>1. b \in stored /\ b.header # block.header
        BY <1>3, <1>7, <3>2
      <4>2. b.header \in DOMAIN blocks
        BY <4>1 DEF StorageInv, BlocksInv
      <4> QED
        BY <1>6, <4>1, <4>2 DEF StorageInv, BlocksInv
    <3> QED
      BY <3>1, <3>2
  <2>2. DOMAIN blocks' = {b.header : b \in stored'}
    BY <1>3, <1>6 DEF StorageInv, BlocksInv
  <2>3. executed' = (UNION {b.body.txSet : b \in stored'}) \union unstored'
    <3>1. executed = (UNION {b.body.txSet : b \in stored}) \union unstored \union txSet
      BY <1>1, <1>3 DEF StorageInv, BlocksInv
    <3>2. UNION {b.body.txSet : b \in stored'} = (UNION {b.body.txSet : b \in stored}) \union txSet
      BY <1>3, <1>5
    <3> QED
      BY <1>3, <3>1, <3>2
  <2> QED
    BY <1>8, <2>1, <2>2, <2>3 DEF BlocksInv
<1> QED
  BY <1>9, <1>10, <1>11, <1>12 DEF StorageInv

LEMMA StopKeeps ==
    ASSUME StorageInv, Stop
    PROVE  StorageInv'
<1>1. PICK s, x : s = step /\ x = execution
  OBVIOUS
<1>2. /\ waiting' = {} /\ step' = Idle /\ execution' = Idle
      /\ torn' = IF s.kind = "account" THEN torn \union {s.wallet} ELSE torn
      /\ unstored' = IF x.kind = "block" THEN unstored \union x.txSet ELSE unstored
      /\ UNCHANGED <<balances, addresses, blocks, opened, stored, executed>>
  BY <1>1 DEF Stop, databases
<1>3. step'.kind = "idle" /\ execution'.kind = "idle"
  BY <1>2 DEF Idle
<1>b. \A v : getBalance(v)' = getBalance(v) /\ getAddresses(v)' = getAddresses(v)
  BY <1>2 DEF getBalance, getAddresses
<1>4. StepInv'
  BY <1>2 DEF StepInv, Idle
<1>5. AccountsInv' /\ WaitingInv'
  <2>1. \A v \in DOMAIN balances' \ DOMAIN addresses' : v \in torn'
    BY <1>1, <1>2 DEF StorageInv, AccountsInv
  <2> QED
    BY <1>2, <1>3, <1>b, <2>1 DEF StorageInv, AccountsInv, WaitingInv
<1>6. SequenceInv'
  <2>1. torn \subseteq torn'
    BY <1>2
  <2> QED
    BY <1>2, <2>1, SameSequences
<1>7. BlocksInv'
  <2>1. executed' = (UNION {block.body.txSet : block \in stored'}) \union unstored'
    BY <1>1, <1>2 DEF StorageInv, BlocksInv
  <2> QED
    BY <1>2, <1>3, <2>1 DEF StorageInv, BlocksInv
<1> QED
  BY <1>4, <1>5, <1>6, <1>7 DEF StorageInv

LEMMA NothingStored ==
    ASSUME StorageInv, UNCHANGED <<databases, threads, histories>>
    PROVE  StorageInv'
<1>1. UNCHANGED <<balances, addresses, blocks, waiting, step, execution, opened, stored,
                  executed, torn, unstored>>
  BY DEF databases, threads, histories
<1>b. \A v : getBalance(v)' = getBalance(v) /\ getAddresses(v)' = getAddresses(v)
  BY <1>1 DEF getBalance, getAddresses
<1>3. StepInv'
  BY <1>1 DEF StorageInv, StepInv
<1>4. AccountsInv' /\ WaitingInv'
  BY <1>1, <1>b DEF StorageInv, AccountsInv, WaitingInv
<1>5. SequenceInv'
  BY <1>1, SameSequences
<1>6. BlocksInv'
  BY <1>1 DEF StorageInv, BlocksInv
<1> QED
  BY <1>3, <1>4, <1>5, <1>6 DEF StorageInv

LEMMA StorageStep == StorageInv /\ [StorageNext]_storageVars => StorageInv'
<1> SUFFICES ASSUME StorageInv, [StorageNext]_storageVars PROVE StorageInv'
  OBVIOUS
<1>0. CASE \E wallet \in Wallet : AskFor(wallet)
  BY <1>0, AskForKeeps
<1>1. CASE \E wallet \in Wallet, list \in AddressList, record \in Records :
             SetBalance(wallet, list, record)
  BY <1>1, SetBalanceKeeps
<1>2. CASE SetAddresses
  BY <1>2, SetAddressesKeeps
<1>3. CASE \E txSet \in SUBSET Tx : SetBalancesByAccDiffs(txSet)
  BY <1>3, ExecutedKeeps
<1>4. CASE SetBlock
  BY <1>4, SetBlockKeeps
<1>5. CASE Stop
  BY <1>5, StopKeeps
<1>6. CASE OpenDatabases
  BY <1>6, NothingStored DEF OpenDatabases
<1>7. CASE UNCHANGED storageVars
  BY <1>7, NothingStored DEF storageVars
<1> QED
  BY <1>0, <1>1, <1>2, <1>3, <1>4, <1>5, <1>6, <1>7 DEF StorageNext

\* The databases are what the histories say, at every moment and after every stop:
\* the invariant that the properties of the storage follow from.
THEOREM StorageInductive == StorageSpec => []StorageInv
<1>1. StorageInit => StorageInv
  BY InitStorage
<1>2. StorageInv /\ [StorageNext]_storageVars => StorageInv'
  BY StorageStep
<1> QED
  BY <1>1, <1>2, PTL DEF StorageSpec

LEMMA StoredBody ==
    ASSUME StorageInv, NEW block \in stored
    PROVE  /\ IsBlockBody(block.body) /\ IsHeader(block.header)
           /\ block = [header |-> block.header, body |-> block.body]
           /\ getBlock(block.header) = Read(block, BlockSize(block))
<1>1. /\ block.body.txSet \in SUBSET Tx
      /\ block = BlockOf(block.body.txSet, block.header.accRoot)
      /\ blocks[block.header] = WriteBlock(block) /\ block.header \in DOMAIN blocks
  BY DEF StorageInv, BlocksInv
<1>2. block = [header |-> block.header, body |-> block.body] /\ IsHeader(block.header)
  BY <1>1 DEF BlockOf, IsHeader
<1>3. IsBlockBody(block.body)
  <2> DEFINE T == block.body.txSet
  <2>1. T \subseteq Tx
    BY <1>1
  <2>2. T \in SUBSET TxRecord /\ IsFiniteSet(T) /\ \A t, u \in T : t.data = u.data => t = u
    BY <2>1, TxAssumption, FS_Subset
  <2>3. block.body = [count |-> Cardinality(T), txSet |-> T]
    BY <1>1 DEF BlockOf
  <2> QED
    BY <2>2, <2>3 DEF IsBlockBody
<1>4. /\ WriteBlock(block) \in Seq(HeaderCells(block.header))
      /\ Len(WriteBlock(block)) = BlockSize(block) /\ BlockSize(block) \in Nat
  BY <1>3, BlockWritten
<1>5. Holds(WriteBlock(block), 0, WriteBlock(block))
  BY <1>4, HoldsItself
<1>6. ReadBlock(WriteBlock(block), 0) = Read(block, 0 + BlockSize(block))
  <2>1. Len(WriteBlock(block)) \in Nat /\ 0 \in Nat
    BY <1>4
  <2> QED
    BY <1>2, <1>3, <1>5, <2>1, BlockRead
<1>7. getBlock(block.header) = Read(block, BlockSize(block))
  BY <1>1, <1>4, <1>6 DEF getBlock
<1> QED
  BY <1>2, <1>3, <1>7

\* BlocksStorage::getBlock returns the block that was stored under its hash, with all
\* its transactions and their signatures, whatever was stored since and wherever the
\* process stopped.
THEOREM StoredBlocksReadBack == StorageSpec => []BlocksReadBack
<1>1. StorageInv => BlocksReadBack
  <2> SUFFICES ASSUME StorageInv, NEW block \in stored
               PROVE  getBlock(block.header).ok /\ getBlock(block.header).value = block
    BY DEF BlocksReadBack
  <2>1. getBlock(block.header) = Read(block, BlockSize(block))
    BY StoredBody
  <2> QED
    BY <2>1 DEF Read
<1> QED
  BY <1>1, StorageInductive, PTL

\* The transactions applied to balances are those of the blocks in the database, but
\* for the ones whose process stopped between setBalancesByAccDiffs and setBlock.
THEOREM StoredBlocksExplainBalances == StorageSpec => []BlocksExplainBalances
<1>1. StorageInv => BlocksExplainBalances
  <2> SUFFICES ASSUME StorageInv PROVE BlocksExplainBalances
    OBVIOUS
  <2>1. ASSUME NEW block \in stored PROVE getBlock(block.header).value = block
    <3>1. getBlock(block.header) = Read(block, BlockSize(block))
      BY StoredBody
    <3> QED
      BY <3>1 DEF Read
  <2>2. UNION {getBlock(header).value.body.txSet : header \in DOMAIN blocks}
            = UNION {block.body.txSet : block \in stored}
    <3>1. DOMAIN blocks = {block.header : block \in stored}
      BY DEF StorageInv, BlocksInv
    <3> QED
      BY <2>1, <3>1
  <2> QED
    BY <2>2 DEF BlocksExplainBalances, StorageInv, BlocksInv
<1> QED
  BY <1>1, StorageInductive, PTL

\* After any blocks, stops and accounts from peers, asked for or not and with whatever
\* number, the sequence number of an account is that of the last transaction of its owner
\* executed here, or the one it was taken with: setBalancesByAccDiffs never lowers it, and
\* setAccount never sets it back, but for an account of which the process once stopped
\* between the two writes.
THEOREM StoredSequenceIsLast == StorageSpec => []SequenceIsLast
<1>1. StorageInv => SequenceIsLast
  BY DEF StorageInv, SequenceInv, SequenceIsLast
<1> QED
  BY <1>1, StorageInductive, PTL

\* procAccountMessage and setAccount change no balance that is known, except for an
\* account of which only the balance had been written when the process stopped.
THEOREM StoredBalancesAreOwn == StorageSpec => PeersReplaceNoBalance
<1> DEFINE Keeps == \A wallet \in DOMAIN balances :
                        balances'[wallet] # balances[wallet] =>
                            execution' # execution \/ wallet \in torn
<1>1. StorageInv /\ [StorageNext]_storageVars => [Keeps]_storageVars
  <2> SUFFICES ASSUME StorageInv, StorageNext PROVE Keeps
    OBVIOUS
  <2>0. CASE \E wallet \in Wallet : AskFor(wallet)
    BY <2>0, AskForKeeps
  <2>1. CASE \E wallet \in Wallet, list \in AddressList, record \in Records :
               SetBalance(wallet, list, record)
    BY <2>1, SetBalanceKeeps
  <2>2. CASE SetAddresses
    BY <2>2 DEF SetAddresses
  <2>3. CASE \E txSet \in SUBSET Tx : SetBalancesByAccDiffs(txSet)
    BY <2>3, ExecutedKeeps
  <2>4. CASE SetBlock
    BY <2>4 DEF SetBlock
  <2>5. CASE Stop
    BY <2>5 DEF Stop, databases
  <2>6. CASE OpenDatabases
    BY <2>6 DEF OpenDatabases, databases
  <2> QED
    BY <2>0, <2>1, <2>2, <2>3, <2>4, <2>5, <2>6 DEF StorageNext
<1>2. PeersReplaceNoBalance <=> [][Keeps]_storageVars
  BY DEF PeersReplaceNoBalance
<1> HIDE DEF Keeps
<1> QED
  BY <1>1, <1>2, StorageInductive, PTL DEF StorageSpec

-----------------------------------------------------------------------------
(* Proposals and messages *)

LEMMA BlockProposalWritten ==
    ASSUME NEW prop \in BlockProposalRecord
    PROVE  /\ WriteBlockProposal(prop) \in Seq(Nat) /\ BlockProposalSize(prop) \in Nat
           /\ Len(WriteBlockProposal(prop)) = BlockProposalSize(prop)
<1> DEFINE first == <<prop.data, prop.issuer, prop.blockId, Len(prop.signature)>>
           sig == prop.signature
           header == WriteBlockHeader(prop.header)
<1>1. /\ prop.data \in Nat /\ prop.issuer \in Nat /\ prop.blockId \in Nat
      /\ sig \in Seq(Nat) /\ prop.header \in HeaderRecord
  BY DEF BlockProposalRecord
<1>2. Len(sig) \in Nat
  BY <1>1, LenProperties
<1>3. first \in Seq(Nat) /\ Len(first) = 4
  BY <1>1, <1>2
<1>4. header \in Seq(Nat) /\ Len(header) = 4
  BY <1>1, HeaderWritten DEF HeaderSize
<1>5. WriteBlockProposal(prop) = (first \o sig) \o header
  BY DEF WriteBlockProposal
<1>6. BlockProposalSize(prop) = 4 + Len(sig) + 4
  BY DEF BlockProposalSize, HeaderSize
<1> HIDE DEF first, sig, header
<1>7. first \o sig \in Seq(Nat) /\ Len(first \o sig) = Len(first) + Len(sig)
  BY <1>1, <1>3, ConcatProperties
<1> DEFINE both == first \o sig
<1> HIDE DEF both
<1>8. both \in Seq(Nat) /\ Len(both) = 4 + Len(sig)
  BY <1>3, <1>7 DEF both
<1>9. both \o header \in Seq(Nat) /\ Len(both \o header) = Len(both) + Len(header)
  BY <1>4, <1>8, ConcatProperties
<1> QED
  BY <1>2, <1>4, <1>5, <1>6, <1>8, <1>9 DEF both

LEMMA BlockProposalRead ==
    ASSUME NEW prop \in BlockProposalRecord, NEW buffer, Len(buffer) \in Nat, NEW offset \in Nat,
           Holds(buffer, offset, WriteBlockProposal(prop))
    PROVE  ReadBlockProposal(buffer, offset).ok /\ ReadBlockProposal(buffer, offset).value = prop
<1> DEFINE first == <<prop.data, prop.issuer, prop.blockId, Len(prop.signature)>>
           sig == prop.signature
           header == WriteBlockHeader(prop.header)
<1>1. /\ prop.data \in Nat /\ prop.issuer \in Nat /\ prop.blockId \in Nat
      /\ sig \in Seq(Nat) /\ prop.header \in HeaderRecord
      /\ prop = [data |-> prop.data, issuer |-> prop.issuer, blockId |-> prop.blockId,
                 signature |-> sig, header |-> prop.header]
  BY DEF BlockProposalRecord
<1>2. Len(sig) \in Nat
  BY <1>1, LenProperties
<1>3. /\ first \in Seq(Nat) /\ Len(first) = 4 /\ first[1] = prop.data /\ first[2] = prop.issuer
      /\ first[3] = prop.blockId /\ first[4] = Len(sig)
  BY <1>1, <1>2
<1>4. header \in Seq(Nat) /\ IsHeader(prop.header)
  BY <1>1, HeaderWritten
<1>5. Holds(buffer, offset, (first \o sig) \o header)
  BY DEF WriteBlockProposal
<1> HIDE DEF first, sig, header
<1> DEFINE both == first \o sig
<1>6. both \in Seq(Nat) /\ Len(both) = 4 + Len(sig)
  <2>1. first \o sig \in Seq(Nat) /\ Len(first \o sig) = Len(first) + Len(sig)
    BY <1>1, <1>3, ConcatProperties
  <2> QED
    BY <1>3, <2>1
<1>7. Holds(buffer, offset, both) /\ Holds(buffer, offset + Len(both), header)
  <2> HIDE DEF both
  <2>1. Holds(buffer, offset, both \o header)
    BY <1>5 DEF both
  <2> QED
    BY <1>4, <1>6, <2>1, HoldsParts
<1>8. Holds(buffer, offset, first) /\ Holds(buffer, offset + Len(first), sig)
  BY <1>1, <1>3, <1>7, HoldsParts
<1> HIDE DEF both
<1>9. /\ Field(buffer, offset) = prop.data /\ Field(buffer, offset + 1) = prop.issuer
      /\ Field(buffer, offset + 2) = prop.blockId /\ Field(buffer, offset + 3) = Len(sig)
  <2>1. Len(first) > 0 /\ Len(first) > 1 /\ Len(first) > 2 /\ Len(first) > 3
    BY <1>3
  <2> QED
    BY <1>3, <1>8, <2>1, FieldsHeld
<1>10. /\ Holds(buffer, offset + 4, sig) /\ Holds(buffer, offset + 4 + Len(sig), header)
       /\ offset + 4 \in Nat /\ offset + 4 + Len(sig) \in Nat
  <2>1. offset + Len(both) = offset + 4 + Len(sig) /\ offset + Len(first) = offset + 4
    BY <1>2, <1>3, <1>6
  <2> QED
    BY <1>2, <1>7, <1>8, <2>1
<1>11. ~ (Left(buffer, offset) < 4) /\ ~ (Left(buffer, offset + 4) < Len(sig))
  <2> DEFINE n == Len(sig)
  <2>1. n \in Nat /\ (offset + 4) + n <= Len(buffer)
    BY <1>2, <1>10 DEF Holds
  <2> HIDE DEF n
  <2>2. ~ (Len(buffer) - offset < 4) /\ ~ (Len(buffer) - (offset + 4) < n)
    BY <2>1
  <2> QED
    BY <2>2 DEF Left, n
<1>12. Cells(buffer, offset + 4, Len(sig)) = sig
  BY <1>1, <1>10, CellsHeld
<1> DEFINE h == ReadBlockHeader(buffer, offset + 4 + Len(sig))
<1>13. h = Read(prop.header, offset + 4 + Len(sig) + HeaderSize)
  BY <1>4, <1>10, HeaderRead DEF IsHeader, header
<1>14. h.ok /\ h.value = prop.header
  BY <1>13 DEF Read
<1>15. ReadBlockProposal(buffer, offset)
        = IF Left(buffer, offset) < 4 \/ Left(buffer, offset + 4) < Len(sig) THEN Thrown
          ELSE IF ~ h.ok THEN Thrown
          ELSE Read([data |-> Field(buffer, offset), issuer |-> Field(buffer, offset + 1),
                     blockId |-> Field(buffer, offset + 2),
                     signature |-> Cells(buffer, offset + 4, Len(sig)),
                     header |-> h.value], h.next)
  BY <1>9 DEF ReadBlockProposal
<1> HIDE DEF h
<1>16. ReadBlockProposal(buffer, offset) = Read(prop, h.next)
  BY <1>1, <1>9, <1>11, <1>12, <1>14, <1>15
<1> QED
  BY <1>16 DEF Read

LEMMA TxSetProposalWritten ==
    ASSUME NEW prop, IsTxSetProposal(prop)
    PROVE  /\ WriteTxSetProposal(prop) \in Seq(Nat) /\ TxSetProposalSize(prop) \in Nat
           /\ Len(WriteTxSetProposal(prop)) = TxSetProposalSize(prop)
<1> DEFINE first == <<prop.data, prop.issuer, prop.TxSetId, prop.previousBlockId,
                      Len(prop.signature)>>
           sig == prop.signature
           body == WriteBlockBody(prop.body)
<1>1. /\ prop.data \in Nat /\ prop.issuer \in Nat /\ prop.TxSetId \in Nat
      /\ prop.previousBlockId \in Nat /\ sig \in Seq(Nat) /\ IsBlockBody(prop.body)
  BY DEF IsTxSetProposal
<1>2. Len(sig) \in Nat
  BY <1>1, LenProperties
<1>3. first \in Seq(Nat) /\ Len(first) = 5
  BY <1>1, <1>2
<1>4. /\ body \in Seq(Nat) /\ Len(body) = BlockBodySize(prop.body)
      /\ BlockBodySize(prop.body) \in Nat
  BY <1>1, BodyWritten
<1>5. WriteTxSetProposal(prop) = (first \o sig) \o body
  BY DEF WriteTxSetProposal
<1>6. TxSetProposalSize(prop) = 5 + Len(sig) + BlockBodySize(prop.body)
  BY DEF TxSetProposalSize
<1> HIDE DEF first, sig, body
<1>7. first \o sig \in Seq(Nat) /\ Len(first \o sig) = Len(first) + Len(sig)
  BY <1>1, <1>3, ConcatProperties
<1> DEFINE both == first \o sig
<1> HIDE DEF both
<1>8. both \in Seq(Nat) /\ Len(both) = 5 + Len(sig)
  BY <1>3, <1>7 DEF both
<1>9. both \o body \in Seq(Nat) /\ Len(both \o body) = Len(both) + Len(body)
  BY <1>4, <1>8, ConcatProperties
<1> QED
  BY <1>2, <1>4, <1>5, <1>6, <1>8, <1>9 DEF both

LEMMA TxSetProposalRead ==
    ASSUME NEW prop, IsTxSetProposal(prop), NEW buffer, Len(buffer) \in Nat, NEW offset \in Nat,
           Holds(buffer, offset, WriteTxSetProposal(prop))
    PROVE  ReadTxSetProposal(buffer, offset).ok /\ ReadTxSetProposal(buffer, offset).value = prop
<1> DEFINE first == <<prop.data, prop.issuer, prop.TxSetId, prop.previousBlockId,
                      Len(prop.signature)>>
           sig == prop.signature
           body == WriteBlockBody(prop.body)
<1>1. /\ prop.data \in Nat /\ prop.issuer \in Nat /\ prop.TxSetId \in Nat
      /\ prop.previousBlockId \in Nat /\ sig \in Seq(Nat) /\ IsBlockBody(prop.body)
      /\ prop = [data |-> prop.data, issuer |-> prop.issuer, TxSetId |-> prop.TxSetId,
                 previousBlockId |-> prop.previousBlockId, signature |-> sig, body |-> prop.body]
  BY DEF IsTxSetProposal
<1>2. Len(sig) \in Nat
  BY <1>1, LenProperties
<1>3. /\ first \in Seq(Nat) /\ Len(first) = 5 /\ first[1] = prop.data /\ first[2] = prop.issuer
      /\ first[3] = prop.TxSetId /\ first[4] = prop.previousBlockId /\ first[5] = Len(sig)
  BY <1>1, <1>2
<1>4. body \in Seq(Nat)
  BY <1>1, BodyWritten
<1>5. Holds(buffer, offset, (first \o sig) \o body)
  BY DEF WriteTxSetProposal
<1> HIDE DEF first, sig, body
<1> DEFINE both == first \o sig
<1>6. both \in Seq(Nat) /\ Len(both) = 5 + Len(sig)
  <2>1. first \o sig \in Seq(Nat) /\ Len(first \o sig) = Len(first) + Len(sig)
    BY <1>1, <1>3, ConcatProperties
  <2> QED
    BY <1>3, <2>1
<1>7. Holds(buffer, offset, both) /\ Holds(buffer, offset + Len(both), body)
  <2> HIDE DEF both
  <2>1. Holds(buffer, offset, both \o body)
    BY <1>5 DEF both
  <2> QED
    BY <1>4, <1>6, <2>1, HoldsParts
<1>8. Holds(buffer, offset, first) /\ Holds(buffer, offset + Len(first), sig)
  BY <1>1, <1>3, <1>7, HoldsParts
<1> HIDE DEF both
<1>9. /\ Field(buffer, offset) = prop.data /\ Field(buffer, offset + 1) = prop.issuer
      /\ Field(buffer, offset + 2) = prop.TxSetId
      /\ Field(buffer, offset + 3) = prop.previousBlockId
      /\ Field(buffer, offset + 4) = Len(sig)
  <2>1. /\ Len(first) > 0 /\ Len(first) > 1 /\ Len(first) > 2 /\ Len(first) > 3
        /\ Len(first) > 4
    BY <1>3
  <2> QED
    BY <1>3, <1>8, <2>1, FieldsHeld
<1>10. /\ Holds(buffer, offset + 5, sig) /\ Holds(buffer, offset + 5 + Len(sig), body)
       /\ offset + 5 \in Nat /\ offset + 5 + Len(sig) \in Nat
  <2>1. offset + Len(both) = offset + 5 + Len(sig) /\ offset + Len(first) = offset + 5
    BY <1>2, <1>3, <1>6
  <2> QED
    BY <1>2, <1>7, <1>8, <2>1
<1>11. ~ (Left(buffer, offset) < 5) /\ ~ (Left(buffer, offset + 5) < Len(sig))
  <2> DEFINE n == Len(sig)
  <2>1. n \in Nat /\ (offset + 5) + n <= Len(buffer)
    BY <1>2, <1>10 DEF Holds
  <2> HIDE DEF n
  <2>2. ~ (Len(buffer) - offset < 5) /\ ~ (Len(buffer) - (offset + 5) < n)
    BY <2>1
  <2> QED
    BY <2>2 DEF Left, n
<1>12. Cells(buffer, offset + 5, Len(sig)) = sig
  BY <1>1, <1>10, CellsHeld
<1> DEFINE b == ReadBlockBody(buffer, offset + 5 + Len(sig))
<1>13. b = Read(prop.body, offset + 5 + Len(sig) + BlockBodySize(prop.body))
  BY <1>1, <1>10, BodyRead DEF body
<1>14. b.ok /\ b.value = prop.body
  BY <1>13 DEF Read
<1>15. ReadTxSetProposal(buffer, offset)
        = IF Left(buffer, offset) < 5 \/ Left(buffer, offset + 5) < Len(sig) THEN Thrown
          ELSE IF ~ b.ok THEN Thrown
          ELSE Read([data |-> Field(buffer, offset), issuer |-> Field(buffer, offset + 1),
                     TxSetId |-> Field(buffer, offset + 2),
                     previousBlockId |-> Field(buffer, offset + 3),
                     signature |-> Cells(buffer, offset + 5, Len(sig)),
                     body |-> b.value], b.next)
  BY <1>9 DEF ReadTxSetProposal
<1> HIDE DEF b
<1>16. ReadTxSetProposal(buffer, offset) = Read(prop, b.next)
  BY <1>1, <1>9, <1>11, <1>12, <1>14, <1>15
<1> QED
  BY <1>16 DEF Read

\* The check sum is a cell.
LEMMA CheckSumType ==
    ASSUME NEW payload \in Seq(Nat)
    PROVE  CheckSum(payload) \in Nat
<1> DEFINE n == Len(payload)
           D == 1 .. n
           next(hash, i) == (hash * HashBase + payload[i] + 1) % HashModulus
           move == [i \in D |-> [hash \in Nat |-> next(hash, i)]]
           I(it) == it = [s \in SUBSET D |-> IF s = {} THEN Magic
                                             ELSE next(it[s \ {Max(s)}], Max(s))]
<1>1. n \in Nat /\ DOMAIN payload = D /\ \A i \in D : payload[i] \in Nat
  BY LenProperties, ElementOfSeq
<1>2. CheckSum(payload) = (CHOOSE it : I(it))[D]
  BY <1>1 DEF CheckSum, FoldLeft, MapThenFoldSet
<1> HIDE DEF n
<1>3. ASSUME NEW i \in D, NEW hash \in Nat PROVE next(hash, i) \in Nat
  <2>1. HashBase \in Nat /\ HashModulus \in Nat \ {0} /\ payload[i] \in Nat
    BY <1>1, HashAssumption
  <2> DEFINE x == hash * HashBase + payload[i] + 1
  <2>2. x \in Nat
    BY <2>1
  <2> HIDE DEF x
  <2>3. x % HashModulus \in Nat
    BY <2>1, <2>2
  <2> QED
    BY <2>3 DEF x
<1> HIDE DEF next
<1>4. move \in [D -> [Nat -> Nat]] /\ Magic \in Nat
  BY <1>3, HashAssumption
<1> HIDE DEF move
<1>5. PICK it \in [SUBSET D -> Nat] : IsFold(it, D, Magic, move, Latest(n))
  <2>1. IsFiniteSet(D) /\ IsChoice(Latest(n), D)
    BY <1>1, FS_Interval, LatestIsChoice
  <2> HIDE DEF D
  <2> QED
    BY <1>4, <2>1, FoldExists
<1>6. \A s \in SUBSET D : s # {} => Max(s) \in D /\ Latest(n)[s] = Max(s)
  BY <1>1, LatestIsChoice DEF IsChoice, Latest
<1>7. I(it)
  <2>1. ASSUME NEW s \in SUBSET D
        PROVE  it[s] = IF s = {} THEN Magic ELSE next(it[s \ {Max(s)}], Max(s))
    <3>1. it[s] = IF s = {} THEN Magic
                  ELSE move[Latest(n)[s]][it[s \ {Latest(n)[s]}]]
      BY <1>5 DEF IsFold
    <3>2. CASE s = {}
      BY <3>1, <3>2
    <3>3. CASE s # {}
      <4>1. Max(s) \in D /\ Latest(n)[s] = Max(s)
        BY <1>6, <3>3
      <4>2. it[s \ {Max(s)}] \in Nat
        BY <1>5
      <4>3. move[Max(s)][it[s \ {Max(s)}]] = next(it[s \ {Max(s)}], Max(s))
        BY <4>1, <4>2 DEF move
      <4> QED
        BY <3>1, <3>3, <4>1, <4>3
    <3> QED
      BY <3>2, <3>3
  <2> QED
    BY <1>5, <2>1
<1> DEFINE fold == CHOOSE f : I(f)
<1>8. I(fold)
  BY <1>7, Zenon
<1> HIDE DEF fold
<1> DEFINE Good == {k \in Nat : k \in 0 .. n => fold[1 .. k] \in Nat}
<1>9. 0 \in Good
  <2>1. 1 .. 0 = {} /\ {} \in SUBSET D
    OBVIOUS
  <2>2. fold[{}] = Magic
    BY <1>8, <2>1
  <2> QED
    BY <2>1, <2>2, HashAssumption
<1>10. ASSUME NEW k \in Nat, k \in Good PROVE k + 1 \in Good
  <2> SUFFICES ASSUME k + 1 \in 0 .. n PROVE fold[1 .. k + 1] \in Nat
    OBVIOUS
  <2>1. /\ Max(1 .. k + 1) = k + 1 /\ (1 .. k + 1) \ {k + 1} = 1 .. k
        /\ 1 .. k + 1 \in SUBSET D /\ k + 1 \in D /\ 1 .. k + 1 # {}
    <3>1. k + 1 \in Nat \ {0} /\ (k + 1) - 1 = k /\ k + 1 \in 1 .. k + 1
      OBVIOUS
    <3>2. 1 .. k + 1 \in SUBSET D
      BY <1>1
    <3>3. /\ Max(1 .. k + 1) = k + 1 /\ (1 .. k + 1) \ {k + 1} = 1 .. k
      BY <3>1, MaxUpTo
    <3> QED
      BY <3>1, <3>2, <3>3
  <2>2. fold[1 .. k] \in Nat
    BY <1>1, <1>10
  <2>3. fold[1 .. k + 1] = next(fold[1 .. k], k + 1)
    BY <1>8, <2>1
  <2>4. next(fold[1 .. k], k + 1) \in Nat
    <3> HIDE DEF D
    <3> QED
      BY <1>3, <2>1, <2>2
  <2> QED
    BY <2>3, <2>4
<1> HIDE DEF Good
<1>11. n \in Good
  BY <1>1, <1>9, <1>10, UpwardInduction
<1>12. fold[D] \in Nat
  BY <1>1, <1>11 DEF Good
<1> QED
  BY <1>2, <1>12 DEF fold

\* The check sum of no payload.
LEMMA CheckSumEmpty == CheckSum(<<>>) = Magic
<1> DEFINE I(it) == it = [s \in SUBSET {} |-> IF s = {} THEN Magic
                            ELSE (it[s \ {Max(s)}] * HashBase + <<>>[Max(s)] + 1) % HashModulus]
<1>1. CheckSum(<<>>) = (CHOOSE it : I(it))[{}]
  BY DEF CheckSum, FoldLeft, MapThenFoldSet
<1>2. I([s \in SUBSET {} |-> Magic])
  OBVIOUS
<1> DEFINE fold == CHOOSE f : I(f)
<1>3. I(fold)
  BY <1>2, Zenon
<1> HIDE DEF fold
<1>4. fold[{}] = Magic
  BY <1>3
<1> QED
  BY <1>1, <1>4 DEF fold

\* What a message is written as, and the room for it.
LEMMA MessageWritten ==
    ASSUME NEW message, IsMessage(message)
    PROVE  /\ Serialized(message) \in Seq(Nat) /\ PayloadSize(message) \in Nat
           /\ Len(Serialized(message)) <= PayloadSize(message)
<1> DEFINE type == message.type
           content == message.content
           Fits == /\ Serialized(message) \in Seq(Nat) /\ PayloadSize(message) \in Nat
                   /\ Len(Serialized(message)) <= PayloadSize(message)
<1>1. type \in MessageType
  BY DEF IsMessage
<1> USE DEF VERSION, ACK, INV, GETDATA, TX, BLOCKPROPOSAL, TXSETPROPOSAL, ACCOUNT, BLOCK
<1>2. CASE type = VERSION
  <2>1. Serialized(message) = <<content>> /\ PayloadSize(message) = 1 /\ content \in Nat
    BY <1>2 DEF Serialized, PayloadSize, IsMessage
  <2> QED
    BY <2>1
<1>3. CASE type = ACK
  <2>1. Serialized(message) = <<>> /\ PayloadSize(message) = 0
    BY <1>3 DEF Serialized, PayloadSize
  <2> QED
    BY <2>1, EmptySeq
<1>4. CASE type \in {INV, GETDATA}
  <2>1. Serialized(message) = content /\ PayloadSize(message) = Len(content) /\ content \in Seq(Nat)
    BY <1>4 DEF Serialized, PayloadSize, IsMessage
  <2>2. Len(content) \in Nat
    BY <2>1, LenProperties
  <2> QED
    BY <2>1, <2>2
<1>5. CASE type = TX
  <2>1. /\ Serialized(message) = WriteTransaction(content)
        /\ PayloadSize(message) = TransactionSize(content) /\ content \in TxRecord
    BY <1>5 DEF Serialized, PayloadSize, IsMessage
  <2> QED
    BY <2>1, TransactionWritten
<1>6. CASE type = BLOCKPROPOSAL
  <2>1. /\ Serialized(message) = WriteBlockProposal(content)
        /\ PayloadSize(message) = BlockProposalSize(content) /\ content \in BlockProposalRecord
    BY <1>6 DEF Serialized, PayloadSize, IsMessage
  <2> QED
    BY <2>1, BlockProposalWritten
<1>7. CASE type = TXSETPROPOSAL
  <2>1. /\ Serialized(message) = WriteTxSetProposal(content)
        /\ PayloadSize(message) = TxSetProposalSize(content) /\ IsTxSetProposal(content)
    BY <1>7 DEF Serialized, PayloadSize, IsMessage
  <2> QED
    BY <2>1, TxSetProposalWritten
<1>8. CASE type = ACCOUNT
  <2>1. /\ Serialized(message) = WriteAccount(content)
        /\ PayloadSize(message) = AccountSize(content) /\ content \in AccountRecord
    BY <1>8 DEF Serialized, PayloadSize, IsMessage
  <2> QED
    BY <2>1, AccountWritten
<1>9. CASE type = BLOCK
  <2>1. /\ Serialized(message) = WriteBlock(content)
        /\ PayloadSize(message) = BlockSize(content) /\ IsBlock(content)
    BY <1>9 DEF Serialized, PayloadSize, IsMessage
  <2>2. IsBlockBody(content.body) /\ content.header \in HeaderRecord
    BY <2>1 DEF IsBlock
  <2> QED
    BY <2>1, <2>2, BlockWritten
<1> QED
  BY <1>1, <1>2, <1>3, <1>4, <1>5, <1>6, <1>7, <1>8, <1>9 DEF MessageType

\* The payload is as long as it is made, and holds what was written.
LEMMA PayloadHeld ==
    ASSUME NEW message, IsMessage(message)
    PROVE  /\ Payload(message) \in Seq(Nat) /\ Len(Payload(message)) = PayloadSize(message)
           /\ PayloadSize(message) \in Nat
           /\ Serialized(message) \in Seq(Nat)
           /\ Holds(Payload(message), 0, Serialized(message))
<1> DEFINE cells == Serialized(message)
           size == PayloadSize(message)
<1>1. cells \in Seq(Nat) /\ size \in Nat /\ Len(cells) <= size
  BY MessageWritten
<1>2. Payload(message) = [i \in 1 .. size |-> Field(cells, i - 1)]
  BY DEF Payload
<1> HIDE DEF cells, size
<1>3. ASSUME NEW i \in 1 .. size PROVE Field(cells, i - 1) \in Nat
  <2>1. CASE i - 1 < Len(cells)
    <3>1. (i - 1) + 1 = i /\ i \in 1 .. Len(cells)
      <4>1. Len(cells) \in Nat
        BY <1>1, LenProperties
      <4> QED
        BY <2>1, <4>1
    <3> QED
      BY <1>1, <2>1, <3>1, ElementOfSeq DEF Field
  <2>2. CASE ~ (i - 1 < Len(cells))
    BY <2>2 DEF Field
  <2> QED
    BY <2>1, <2>2
<1>4. [i \in 1 .. size |-> Field(cells, i - 1)] \in Seq(Nat)
  BY <1>1, <1>3, IsASeq
<1>5. LET buffer == [i \in 1 .. size |-> Field(cells, i - 1)]
      IN  Holds(buffer, 0, cells) /\ Len(buffer) = size
  BY <1>1, HoldsPadded
<1> QED
  BY <1>1, <1>2, <1>4, <1>5 DEF cells, size

\* Every message is read back from its payload.
LEMMA MessageRead ==
    ASSUME NEW message, IsMessage(message), message.type # ACK
    PROVE  /\ Deserialized(message.type, Payload(message)).ok
           /\ Deserialized(message.type, Payload(message)).value = AsRead(message)
<1> DEFINE type == message.type
           content == message.content
           buffer == Payload(message)
           cells == Serialized(message)
           back == Deserialized(type, buffer)
           Back == back.ok /\ back.value = AsRead(message)
<1> SUFFICES Back
  OBVIOUS
<1>1. type \in MessageType
  BY DEF IsMessage
<1>2. /\ buffer \in Seq(Nat) /\ Len(buffer) = PayloadSize(message) /\ Len(buffer) \in Nat
      /\ cells \in Seq(Nat) /\ Holds(buffer, 0, cells)
  BY PayloadHeld
<1> HIDE DEF buffer
<1> USE DEF VERSION, ACK, INV, GETDATA, TX, BLOCKPROPOSAL, TXSETPROPOSAL, ACCOUNT, BLOCK
<1>3. CASE type = VERSION
  <2>1. /\ cells = <<content>> /\ AsRead(message) = content
        /\ Deserialized(type, buffer) = Read(Field(buffer, 0), 1)
    BY <1>3 DEF Serialized, AsRead, Deserialized
  <2>2. Len(cells) > 0 /\ cells[1] = content
    BY <2>1
  <2> HIDE DEF cells
  <2>3. Field(buffer, 0) = content
    BY <1>2, <2>2, FieldsHeld
  <2> QED
    BY <2>1, <2>3 DEF Read
<1>4. CASE type \in {INV, GETDATA}
  <2>1. /\ cells = content /\ AsRead(message) = content
        /\ Deserialized(type, buffer) = Read(buffer, Len(buffer)) /\ Len(buffer) = Len(content)
    BY <1>2, <1>4 DEF Serialized, AsRead, Deserialized, PayloadSize
  <2>2. buffer = content
    <3>1. \A i \in 1 .. Len(content) : buffer[0 + i] = content[i] /\ 0 + i = i
      <4>1. Len(content) \in Nat
        BY <1>2, <2>1
      <4> QED
        BY <1>2, <2>1, <4>1 DEF Holds
    <3> QED
      BY <1>2, <2>1, <3>1, SeqEqual
  <2> QED
    BY <2>1, <2>2 DEF Read
<1>5. CASE type = TX
  <2>1. /\ cells = WriteTransaction(content) /\ AsRead(message) = content /\ content \in TxRecord
        /\ Deserialized(type, buffer) = ReadTransaction(buffer, 0)
    BY <1>5 DEF Serialized, AsRead, Deserialized, IsMessage
  <2>2. ReadTransaction(buffer, 0) = Read(content, 0 + TransactionSize(content))
    BY <1>2, <2>1, TransactionRead
  <2> QED
    BY <2>1, <2>2 DEF Read
<1>6. CASE type = BLOCKPROPOSAL
  <2>1. /\ cells = WriteBlockProposal(content) /\ AsRead(message) = content
        /\ content \in BlockProposalRecord
        /\ Deserialized(type, buffer) = ReadBlockProposal(buffer, 0)
    BY <1>6 DEF Serialized, AsRead, Deserialized, IsMessage
  <2>2. ReadBlockProposal(buffer, 0).ok /\ ReadBlockProposal(buffer, 0).value = content
    BY <1>2, <2>1, BlockProposalRead
  <2> QED
    BY <2>1, <2>2
<1>7. CASE type = TXSETPROPOSAL
  <2>1. /\ cells = WriteTxSetProposal(content) /\ AsRead(message) = content
        /\ IsTxSetProposal(content)
        /\ Deserialized(type, buffer) = ReadTxSetProposal(buffer, 0)
    BY <1>7 DEF Serialized, AsRead, Deserialized, IsMessage
  <2>2. ReadTxSetProposal(buffer, 0).ok /\ ReadTxSetProposal(buffer, 0).value = content
    BY <1>2, <2>1, TxSetProposalRead
  <2> QED
    BY <2>1, <2>2
<1>8. CASE type = ACCOUNT
  <2>1. /\ cells = WriteAccount(content) /\ content \in AccountRecord
        /\ AsRead(message) = [content EXCEPT !.addresses = Written(@)]
        /\ Deserialized(type, buffer) = ReadAccount(buffer, 0)
    BY <1>8 DEF Serialized, AsRead, Deserialized, IsMessage
  <2>3. Holds(buffer, 0, WriteAccount(content))
    BY <1>2, <2>1
  <2> HIDE DEF content
  <2>2. \E x : ReadAccount(buffer, 0) = Read([content EXCEPT !.addresses = Written(@)], x)
    BY <1>2, <2>1, <2>3, AccountRead
  <2> QED
    BY <2>1, <2>2 DEF Read
<1>9. CASE type = BLOCK
  <2>1. /\ cells = WriteBlock(content) /\ AsRead(message) = content /\ IsBlock(content)
        /\ Deserialized(type, buffer) = ReadBlock(buffer, 0)
    BY <1>9 DEF Serialized, AsRead, Deserialized, IsMessage
  <2>2. IsHeader(content.header)
    BY <2>1 DEF IsBlock, HeaderRecord, IsHeader
  <2>3. IsBlockBody(content.body) /\ content = [header |-> content.header, body |-> content.body]
    BY <2>1 DEF IsBlock
  <2>4. ReadBlock(buffer, 0) = Read(content, 0 + BlockSize(content))
    BY <1>2, <2>1, <2>2, <2>3, BlockRead
  <2> QED
    BY <2>1, <2>4 DEF Read
<1> QED
  BY <1>1, <1>3, <1>4, <1>5, <1>6, <1>7, <1>8, <1>9 DEF MessageType

-----------------------------------------------------------------------------
(***************************************************************************)
(* The reader in step with the writer.  sent holds the messages as they    *)
(* were written, p[i] is the number of cells of the first i of them, and   *)
(* the reader has taken the first j: rest are the cells that follow, to    *)
(* the end if the writer has not stopped.                                  *)
(***************************************************************************)
InStep(rest, wires, p, j, open) ==
    /\ p \in [0 .. Len(wires) -> Nat]
    /\ j \in 0 .. Len(wires)
    /\ \A i \in 1 .. Len(wires) : /\ p[i] = p[i - 1] + Len(wires[i])
                                  /\ p[i - 1] <= p[Len(wires)]
    /\ p[j] + Len(rest) <= p[Len(wires)]
    /\ open => p[j] + Len(rest) = p[Len(wires)]
    /\ \A i \in 1 .. Len(wires) : \A k \in 1 .. Len(wires[i]) :
        p[i - 1] + k - p[j] \in 1 .. Len(rest) => rest[p[i - 1] + k - p[j]] = wires[i][k]

LEMMA PlaceBefore ==
    ASSUME NEW a \in Nat, NEW b \in Nat, NEW c \in Nat, NEW e \in Nat, NEW k \in Nat,
           NEW m \in Nat, NEW r \in Nat, b + r = c, e <= c, e = a + m, k <= m
    PROVE  a + k - b <= r
OBVIOUS

LEMMA StepFacts ==
    ASSUME NEW rest, NEW wires \in Seq(Seq(Nat)), NEW p, NEW j, NEW open,
           InStep(rest, wires, p, j, open)
    PROVE  /\ Len(wires) \in Nat /\ j \in 0 .. Len(wires)
           /\ \A i \in 0 .. Len(wires) : p[i] \in Nat
           /\ p[j] \in Nat /\ p[Len(wires)] \in Nat
           /\ \A i \in 1 .. Len(wires) :
                /\ p[i - 1] \in Nat /\ p[i] \in Nat
                /\ p[i] = p[i - 1] + Len(wires[i])
                /\ p[i - 1] <= p[Len(wires)] /\ p[i] <= p[Len(wires)]
                /\ wires[i] \in Seq(Nat) /\ Len(wires[i]) \in Nat
<1>1. Len(wires) \in Nat /\ \A i \in 1 .. Len(wires) : wires[i] \in Seq(Nat)
  BY LenProperties, ElementOfSeq
<1>2. /\ p \in [0 .. Len(wires) -> Nat] /\ j \in 0 .. Len(wires)
      /\ \A i \in 1 .. Len(wires) : p[i] = p[i - 1] + Len(wires[i]) /\ p[i - 1] <= p[Len(wires)]
  BY DEF InStep
<1> DEFINE n == Len(wires)
<1>3. \A i \in 0 .. n : p[i] \in Nat
  BY <1>2
<1>4. n \in 0 .. n
  BY <1>1
<1> HIDE DEF n
<1>5. ASSUME NEW i \in 1 .. n
      PROVE  /\ p[i - 1] \in Nat /\ p[i] \in Nat /\ p[i] <= p[n] /\ Len(wires[i]) \in Nat
  <2>1. i - 1 \in 0 .. n /\ i \in 0 .. n
    BY <1>1 DEF n
  <2>2. Len(wires[i]) \in Nat
    BY <1>1, LenProperties DEF n
  <2>3. CASE i = n
    BY <1>3, <1>4, <2>1, <2>2, <2>3
  <2>4. CASE i + 1 \in 1 .. n
    <3>1. p[(i + 1) - 1] <= p[n]
      BY <1>2, <2>4 DEF n
    <3>2. (i + 1) - 1 = i
      OBVIOUS
    <3> QED
      BY <1>3, <2>1, <2>2, <3>1, <3>2
  <2> QED
    BY <1>1, <2>1, <2>3, <2>4 DEF n
<1> QED
  BY <1>1, <1>2, <1>3, <1>4, <1>5 DEF n

\* The writer writes one more message.
LEMMA StepExtends ==
    ASSUME NEW rest \in Seq(Nat), NEW wires \in Seq(Seq(Nat)), NEW p, NEW j,
           InStep(rest, wires, p, j, TRUE), NEW wire \in Seq(Nat)
    PROVE  \E q : InStep(rest \o wire, Append(wires, wire), q, j, TRUE)
<1> DEFINE n == Len(wires)
           q == [i \in 0 .. n + 1 |-> IF i <= n THEN p[i] ELSE p[n] + Len(wire)]
           all == Append(wires, wire)
           long == rest \o wire
<1>1. /\ n \in Nat /\ Len(all) = n + 1 /\ all[n + 1] = wire
      /\ \A i \in 1 .. n : all[i] = wires[i] /\ wires[i] \in Seq(Nat)
  <2>1. n \in Nat /\ \A i \in 1 .. n : wires[i] \in Seq(Nat)
    BY LenProperties, ElementOfSeq
  <2>2. /\ Len(all) = n + 1 /\ all[n + 1] = wire
        /\ \A i \in 1 .. n : all[i] = wires[i]
    BY AppendProperties
  <2> HIDE DEF n, all
  <2> QED
    BY <2>1, <2>2
<1>2. /\ Len(rest) \in Nat /\ Len(wire) \in Nat /\ Len(long) = Len(rest) + Len(wire)
      /\ \A x \in 1 .. Len(rest) : long[x] = rest[x]
      /\ \A x \in 1 .. Len(wire) : long[Len(rest) + x] = wire[x]
  <2>1. /\ Len(rest) \in Nat /\ Len(wire) \in Nat
    BY LenProperties
  <2>2. /\ Len(long) = Len(rest) + Len(wire)
        /\ \A x \in 1 .. Len(rest) + Len(wire) :
            long[x] = IF x <= Len(rest) THEN rest[x] ELSE wire[x - Len(rest)]
    BY ConcatProperties
  <2> HIDE DEF long
  <2>3. ASSUME NEW x \in 1 .. Len(wire) PROVE long[Len(rest) + x] = wire[x]
    <3>1. /\ Len(rest) + x \in 1 .. Len(rest) + Len(wire) /\ Len(rest) + x - Len(rest) = x
          /\ ~ (Len(rest) + x <= Len(rest))
      BY <2>1
    <3> QED
      BY <2>2, <3>1
  <2>4. \A x \in 1 .. Len(rest) : long[x] = rest[x]
    BY <2>1, <2>2
  <2> QED
    BY <2>1, <2>2, <2>3, <2>4
<1>3. /\ p \in [0 .. n -> Nat] /\ j \in 0 .. n
      /\ \A i \in 1 .. n : p[i] = p[i - 1] + Len(wires[i]) /\ p[i - 1] <= p[n]
      /\ p[j] + Len(rest) = p[n]
      /\ \A i \in 1 .. n : \A k \in 1 .. Len(wires[i]) :
          p[i - 1] + k - p[j] \in 1 .. Len(rest) => rest[p[i - 1] + k - p[j]] = wires[i][k]
  BY DEF InStep
<1>f. /\ p[j] \in Nat /\ p[n] \in Nat
      /\ \A i \in 1 .. n : /\ p[i - 1] \in Nat /\ p[i] \in Nat
                           /\ p[i - 1] <= p[n] /\ p[i] <= p[n] /\ Len(wires[i]) \in Nat
  BY StepFacts
<1> HIDE DEF n, all, long
<1>4. /\ q \in [0 .. n + 1 -> Nat] /\ j \in 0 .. n + 1
      /\ \A i \in 0 .. n : q[i] = p[i]
      /\ q[n + 1] = p[n] + Len(wire)
  BY <1>1, <1>2, <1>3
<1>5. \A i \in 1 .. n + 1 : q[i] = q[i - 1] + Len(all[i]) /\ q[i - 1] <= q[n + 1]
  <2> SUFFICES ASSUME NEW i \in 1 .. n + 1
               PROVE  q[i] = q[i - 1] + Len(all[i]) /\ q[i - 1] <= q[n + 1]
    OBVIOUS
  <2> HIDE DEF q
  <2>1. CASE i = n + 1
    <3>1. i - 1 = n /\ n \in 0 .. n
      BY <1>1, <2>1
    <3>2. q[i - 1] = p[n] /\ all[i] = wire
      BY <1>1, <1>4, <2>1, <3>1
    <3> QED
      BY <1>2, <1>4, <1>f, <2>1, <3>2
  <2>2. CASE i \in 1 .. n
    <3>1. i - 1 \in 0 .. n /\ i \in 0 .. n
      BY <1>1, <2>2
    <3>2. q[i - 1] = p[i - 1] /\ q[i] = p[i] /\ all[i] = wires[i]
      BY <1>1, <1>4, <2>2, <3>1
    <3>3. p[i] = p[i - 1] + Len(wires[i]) /\ p[i - 1] <= p[n] /\ p[i - 1] \in Nat
      BY <1>3, <1>f, <2>2
    <3> DEFINE a == p[i - 1]
               z == p[n]
    <3>4. /\ a \in Nat /\ z \in Nat /\ Len(wire) \in Nat /\ q[i - 1] = a /\ a <= z
          /\ q[n + 1] = z + Len(wire)
      BY <1>2, <1>4, <1>f, <3>2, <3>3
    <3> HIDE DEF a, z
    <3>5. q[i - 1] <= q[n + 1]
      BY ONLY <3>4
    <3> QED
      BY <3>2, <3>3, <3>5
  <2> QED
    BY <1>1, <2>1, <2>2
<1>6. q[j] = p[j] /\ q[j] + Len(long) = q[n + 1]
  <2>1. q[j] = p[j]
    BY <1>3, <1>4
  <2> HIDE DEF q
  <2> QED
    BY <1>2, <1>3, <1>4, <1>f, <2>1
<1>7. \A i \in 1 .. n + 1 : \A k \in 1 .. Len(all[i]) :
        q[i - 1] + k - q[j] \in 1 .. Len(long) => long[q[i - 1] + k - q[j]] = all[i][k]
  <2> SUFFICES ASSUME NEW i \in 1 .. n + 1, NEW k \in 1 .. Len(all[i]),
                      q[i - 1] + k - q[j] \in 1 .. Len(long)
               PROVE  long[q[i - 1] + k - q[j]] = all[i][k]
    OBVIOUS
  <2>1. i - 1 \in 0 .. n
    BY <1>1
  <2>2. q[i - 1] = p[i - 1]
    BY <1>4, <2>1
  <2> HIDE DEF q
  <2>3. CASE i = n + 1
    <3>1. i - 1 = n /\ all[i] = wire
      BY <1>1, <2>3
    <3>2. p[i - 1] + k - p[j] = Len(rest) + k /\ k \in 1 .. Len(wire)
      <4> DEFINE a == p[i - 1]
                 b == p[j]
                 r == Len(rest)
      <4>1. b + r = a /\ a \in Nat /\ b \in Nat /\ r \in Nat
        BY <1>2, <1>3, <1>f, <3>1
      <4>2. k \in 1 .. Len(wire) /\ k \in Nat
        BY <1>2, <3>1
      <4> HIDE DEF a, b, r
      <4>3. a + k - b = r + k
        BY ONLY <4>1, <4>2
      <4> QED
        BY <4>2, <4>3 DEF a, b, r
    <3> QED
      BY <1>2, <1>6, <2>2, <3>1, <3>2
  <2>4. CASE i \in 1 .. n
    <3>1. all[i] = wires[i] /\ k \in 1 .. Len(wires[i]) /\ k \in Nat
      BY <1>1, <1>f, <2>4
    <3>2. p[i] = p[i - 1] + Len(wires[i]) /\ p[i] <= p[n] /\ Len(wires[i]) \in Nat
      BY <1>3, <1>f, <2>4
    <3>3. p[i - 1] \in Nat /\ p[i] \in Nat
      BY <1>f, <2>4
    <3>4. p[i - 1] + k - p[j] <= Len(rest)
      <4>1. p[j] + Len(rest) = p[n] /\ p[j] \in Nat /\ p[n] \in Nat /\ Len(rest) \in Nat
        BY <1>2, <1>3, <1>f
      <4>2. k <= Len(wires[i]) /\ k \in Nat /\ i \in Nat /\ j \in Nat
        BY <1>1, <1>3, <3>1, <3>2
      <4> QED
        BY ONLY <4>1, <4>2, <3>1, <3>2, <3>3, PlaceBefore
    <3>5. p[i - 1] + k - p[j] \in 1 .. Len(rest)
      BY <1>2, <1>6, <2>2, <3>4
    <3> QED
      BY <1>2, <1>3, <1>6, <2>2, <2>4, <3>1, <3>5
  <2> QED
    BY <1>1, <2>3, <2>4
<1> HIDE DEF q
<1>8. InStep(long, all, q, j, TRUE)
  <2>1. /\ q \in [0 .. Len(all) -> Nat] /\ j \in 0 .. Len(all)
        /\ \A i \in 1 .. Len(all) : q[i] = q[i - 1] + Len(all[i]) /\ q[i - 1] <= q[Len(all)]
    BY <1>1, <1>4, <1>5
  <2>2. q[Len(all)] \in Nat /\ Len(all) \in 0 .. Len(all)
    BY <1>1, <2>1
  <2>3. q[j] + Len(long) = q[Len(all)] /\ q[j] + Len(long) <= q[Len(all)]
    BY <1>1, <1>6, <2>2
  <2>4. \A i \in 1 .. Len(all) : \A k \in 1 .. Len(all[i]) :
          q[i - 1] + k - q[j] \in 1 .. Len(long) => long[q[i - 1] + k - q[j]] = all[i][k]
    BY <1>1, <1>7
  <2> QED
    BY ONLY <2>1, <2>3, <2>4 DEF InStep
<1> QED
  BY <1>8 DEF long, all

\* The writer stops: what it had not written is missing.
LEMMA StepCut ==
    ASSUME NEW rest \in Seq(Nat), NEW wires \in Seq(Seq(Nat)), NEW p, NEW j, NEW open,
           InStep(rest, wires, p, j, open),
           NEW short, Len(short) \in 0 .. Len(rest), \A i \in 1 .. Len(short) : short[i] = rest[i]
    PROVE  InStep(short, wires, p, j, FALSE)
<1>1. p[j] \in Nat /\ p[Len(wires)] \in Nat /\ Len(rest) \in Nat
  BY StepFacts, LenProperties
<1>2. p[j] + Len(rest) <= p[Len(wires)]
  BY DEF InStep
<1>3. p[j] + Len(short) <= p[Len(wires)]
  BY <1>1, <1>2
<1>4. \A x : x \in 1 .. Len(short) => x \in 1 .. Len(rest) /\ short[x] = rest[x]
  BY <1>1
<1> QED
  BY <1>3, <1>4 DEF InStep

\* The next cells are those of the next message.
LEMMA StepFirst ==
    ASSUME NEW rest \in Seq(Nat), rest # <<>>, NEW wires \in Seq(Seq(Nat)), NEW p, NEW j,
           NEW open \in BOOLEAN, InStep(rest, wires, p, j, open)
    PROVE  /\ j + 1 \in 1 .. Len(wires)
           /\ \A k \in 1 .. Len(wires[j + 1]) : k <= Len(rest) => rest[k] = wires[j + 1][k]
           /\ open => Len(wires[j + 1]) <= Len(rest)
<1>1. Len(rest) \in Nat \ {0}
  BY EmptySeq
<1>2. /\ p[j] \in Nat /\ p[Len(wires)] \in Nat /\ j \in 0 .. Len(wires)
      /\ Len(wires) \in Nat
  BY StepFacts
<1>3. p[j] + Len(rest) <= p[Len(wires)]
  BY DEF InStep
<1>4. j + 1 \in 1 .. Len(wires) /\ (j + 1) - 1 = j
  BY <1>1, <1>2, <1>3
<1>5. p[j + 1] = p[j] + Len(wires[j + 1]) /\ Len(wires[j + 1]) \in Nat
  BY <1>4, StepFacts
<1>6. p[j + 1] <= p[Len(wires)] /\ p[j + 1] \in Nat
  BY <1>4, StepFacts
<1>7. open => Len(wires[j + 1]) <= Len(rest)
  <2> HAVE open
  <2>1. p[j] + Len(rest) = p[Len(wires)]
    BY DEF InStep
  <2>2. Len(rest) \in Nat
    BY <1>1
  <2> DEFINE b == p[j]
             z == p[Len(wires)]
             w == Len(wires[j + 1])
             c == p[j + 1]
  <2>3. /\ b \in Nat /\ z \in Nat /\ w \in Nat /\ c = b + w /\ c <= z /\ b + Len(rest) = z
    BY <1>2, <1>5, <1>6, <2>1
  <2> HIDE DEF b, z, w, c
  <2>4. w <= Len(rest)
    BY ONLY <2>2, <2>3
  <2> QED
    BY <2>4 DEF w
<1>8. \A k \in 1 .. Len(wires[j + 1]) : k <= Len(rest) => rest[k] = wires[j + 1][k]
  <2> SUFFICES ASSUME NEW k \in 1 .. Len(wires[j + 1]), k <= Len(rest)
               PROVE  rest[k] = wires[j + 1][k]
    OBVIOUS
  <2>1. p[(j + 1) - 1] + k - p[j] = k /\ k \in 1 .. Len(rest)
    BY <1>1, <1>2, <1>4, <1>5
  <2> QED
    BY <1>4, <2>1 DEF InStep
<1> QED
  BY <1>4, <1>7, <1>8

\* The reader has taken the cells of one message.
LEMMA StepTaken ==
    ASSUME NEW taken \in Seq(Nat), NEW rest \in Seq(Nat), NEW wires \in Seq(Seq(Nat)),
           NEW p, NEW j, NEW open \in BOOLEAN, InStep(taken \o rest, wires, p, j, open),
           taken # <<>>, Len(taken) = Len(wires[j + 1])
    PROVE  InStep(rest, wires, p, j + 1, open)
<1> DEFINE whole == taken \o rest
<1>1. /\ Len(rest) \in Nat /\ Len(taken) \in Nat \ {0} /\ Len(wires) \in Nat
      /\ whole \in Seq(Nat) /\ Len(whole) = Len(taken) + Len(rest)
      /\ \A i \in 1 .. Len(taken) + Len(rest) :
            whole[i] = IF i <= Len(taken) THEN taken[i] ELSE rest[i - Len(taken)]
  <2>1. Len(rest) \in Nat /\ Len(taken) \in Nat \ {0} /\ Len(wires) \in Nat
    BY EmptySeq, LenProperties
  <2>2. taken \in Seq(Nat) /\ rest \in Seq(Nat)
    OBVIOUS
  <2>3. /\ whole \in Seq(Nat) /\ Len(whole) = Len(taken) + Len(rest)
        /\ \A i \in 1 .. Len(taken) + Len(rest) :
            whole[i] = IF i <= Len(taken) THEN taken[i] ELSE rest[i - Len(taken)]
    BY ONLY <2>2, ConcatProperties
  <2> QED
    BY <2>1, <2>3
<1>2. whole # <<>>
  <2> HIDE DEF whole
  <2> QED
    BY <1>1, EmptySeq
<1> HIDE DEF whole
<1>3. InStep(whole, wires, p, j, open)
  BY DEF whole
<1>4. j + 1 \in 1 .. Len(wires)
  BY <1>1, <1>2, <1>3, StepFirst
<1>5. (j + 1) - 1 = j /\ j + 1 \in 0 .. Len(wires)
  <2>1. j \in 0 .. Len(wires) /\ Len(wires) \in Nat
    BY <1>3, StepFacts
  <2> QED
    BY ONLY <1>4, <2>1
<1>6. p[j + 1] = p[j] + Len(taken) /\ p[j] \in Nat /\ p[j + 1] \in Nat /\ p[Len(wires)] \in Nat
  <2>1. p[j + 1] = p[(j + 1) - 1] + Len(wires[j + 1]) /\ p[j + 1] \in Nat
    BY <1>3, <1>4, StepFacts
  <2>2. p[j] \in Nat /\ p[Len(wires)] \in Nat
    BY <1>3, StepFacts
  <2> QED
    BY <1>5, <2>1, <2>2
<1>7. /\ p[j + 1] + Len(rest) <= p[Len(wires)]
      /\ open => p[j + 1] + Len(rest) = p[Len(wires)]
  <2>1. /\ p[j] + Len(whole) <= p[Len(wires)]
        /\ open => p[j] + Len(whole) = p[Len(wires)]
    BY <1>3 DEF InStep
  <2>2. Len(whole) = Len(taken) + Len(rest) /\ Len(rest) \in Nat /\ Len(taken) \in Nat
    BY <1>1
  <2> QED
    BY ONLY <1>6, <2>1, <2>2
<1>8. \A i \in 1 .. Len(wires) : \A k \in 1 .. Len(wires[i]) :
        p[i - 1] + k - p[j + 1] \in 1 .. Len(rest) => rest[p[i - 1] + k - p[j + 1]] = wires[i][k]
  <2> SUFFICES ASSUME NEW i \in 1 .. Len(wires), NEW k \in 1 .. Len(wires[i]),
                      p[i - 1] + k - p[j + 1] \in 1 .. Len(rest)
               PROVE  rest[p[i - 1] + k - p[j + 1]] = wires[i][k]
    OBVIOUS
  <2>1. p[i - 1] \in Nat /\ Len(wires[i]) \in Nat
    BY <1>3, StepFacts
  <2>j. j \in 0 .. Len(wires)
    BY <1>3, StepFacts
  <2>2. k \in Nat /\ i \in Nat /\ j \in Nat
    BY <1>1, <2>1, <2>j
  <2> DEFINE x == p[i - 1] + k - p[j + 1]
             y == p[i - 1] + k - p[j]
  <2>a. Len(whole) = Len(taken) + Len(rest) /\ Len(rest) \in Nat /\ Len(taken) \in Nat
    BY <1>1
  <2>b. p[i - 1] + k - p[j + 1] \in 1 .. Len(rest)
    OBVIOUS
  <2>c. y = x + Len(taken) /\ y \in 1 .. Len(taken) + Len(rest)
    <3> DEFINE a == p[i - 1]
               b == p[j]
               c == p[j + 1]
               t == Len(taken)
               r == Len(rest)
    <3>1. /\ a \in Nat /\ b \in Nat /\ k \in Nat /\ t \in Nat /\ r \in Nat
          /\ c = b + t /\ a + k - c \in 1 .. r
      BY <1>6, <2>1, <2>2, <2>a, <2>b
    <3> HIDE DEF a, b, c, t, r
    <3>2. a + k - b = (a + k - c) + t /\ a + k - b \in 1 .. t + r
      BY ONLY <3>1
    <3> QED
      BY <3>2 DEF a, b, c, t, r
  <2>3. x \in 1 .. Len(rest) /\ y = x + Len(taken) /\ y \in 1 .. Len(whole)
    BY <2>a, <2>b, <2>c
  <2>4. whole[y] = wires[i][k]
    BY <1>3, <2>3 DEF InStep
  <2> HIDE DEF x, y
  <2>5. whole[y] = rest[x]
    <3>1. y \in 1 .. Len(taken) + Len(rest) /\ ~ (y <= Len(taken)) /\ y - Len(taken) = x
      BY ONLY <2>3, <2>a
    <3> QED
      BY <1>1, <3>1
  <2> QED
    BY <2>4, <2>5 DEF x
<1>9. \A i \in 1 .. Len(wires) : /\ p[i] = p[i - 1] + Len(wires[i])
                                 /\ p[i - 1] <= p[Len(wires)]
  BY <1>3 DEF InStep
<1>10. p \in [0 .. Len(wires) -> Nat]
  BY <1>3 DEF InStep
<1> QED
  BY <1>5, <1>7, <1>8, <1>9, <1>10 DEF InStep

\* The stream has ended: nothing is left, wherever the reader was.
LEMMA StepEnds ==
    ASSUME NEW rest, NEW wires \in Seq(Seq(Nat)), NEW p, NEW j, NEW open,
           InStep(rest, wires, p, j, open)
    PROVE  InStep(<<>>, wires, p, Len(wires), FALSE)
<1>1. Len(wires) \in Nat /\ Len(<<>>) = 0
  BY LenProperties
<1>2. p[Len(wires)] \in Nat /\ Len(wires) \in 0 .. Len(wires)
  BY <1>1, StepFacts
<1>3. p[Len(wires)] + Len(<<>>) = p[Len(wires)]
  BY <1>1, <1>2
<1>4. \A x : ~ (x \in 1 .. Len(<<>>))
  BY <1>1
<1> QED
  BY <1>2, <1>3, <1>4 DEF InStep

-----------------------------------------------------------------------------
(***************************************************************************)
(* The stream.  FrameInv is the inductive invariant: either the reader is  *)
(* in step with the writer, and a message under construction has the       *)
(* header that was written, or as much of it as had arrived; or a header   *)
(* was peeked half and what follows is taken from the middle of a message, *)
(* where no cell passes for the magic number.                              *)
(***************************************************************************)
Wires == [i \in 1 .. Len(sent) |-> OnWire(Sendable[sent[i]])]

\* What the reader has of the current message, and all that follows.
Seen == reading.cells \o arrived

Rest == (Seen \o stream) \o outgoing

\* No payload holds the magic number.
MagicIsApart ==
    \A m \in 1 .. Len(Sendable) :
        \A i \in 1 .. PayloadSize(Sendable[m]) : Payload(Sendable[m])[i] # Magic

HeaderCell == [magicNum : Nat, type : Nat, size : Nat, checkSum : Nat]

CellsInv ==
    /\ closed \in BOOLEAN /\ sent \in Seq(1 .. Len(Sendable))
    /\ outgoing \in Seq(Nat) /\ stream \in Seq(Nat) /\ arrived \in Seq(Nat)
    /\ reading = [cells |-> reading.cells, header |-> reading.header]
    /\ reading.cells \in Seq(Nat) /\ reading.header \in HeaderCell
    /\ Len(reading.cells) <= TotalSize
    /\ closed => outgoing = <<>>
    /\ delivered \in Seq({delivered[i] : i \in 1 .. Len(delivered)})

\* The sizes of the header are those of the message, or had not arrived.
HeaderSeen ==
    \/ Len(Seen) >= 3 /\ reading.header.type = Seen[2] /\ reading.header.size = Seen[3]
    \/ lost /\ reading.header.size = 0 /\ reading.header.checkSum = 0

\* The messages of list are among the first j of those in order.
AreAmong(list, order, j) ==
    /\ \A i \in 1 .. Len(list) : list[i].content.ok
    /\ \E place \in [1 .. Len(list) -> 1 .. j] :
        \A i \in 1 .. Len(list) :
            /\ i > 1 => place[i - 1] < place[i]
            /\ list[i].type = Sendable[order[place[i]]].type
            /\ list[i].content.value = AsRead(Sendable[order[place[i]]])

\* The reader stands in a payload, whose cells it never takes for a header.
Stuck ==
    /\ reading = NoMessage
    /\ IF Rest = <<>> THEN closed ELSE Rest[1] # Magic

FrameInv ==
    /\ CellsInv
    /\ \/ \E p, j : /\ InStep(Rest, Wires, p, j, ~ closed)
                    /\ reading = NoMessage \/ HeaderSeen
                    /\ AreAmong(delivered, sent, j)
       \/ lost /\ (MagicIsApart => Stuck /\ AreAmong(delivered, sent, Len(sent)))

\* A message on the wire.
LEMMA WireFacts ==
    ASSUME NEW m \in 1 .. Len(Sendable)
    PROVE  LET message == Sendable[m]
               wire == OnWire(message)
           IN  /\ wire \in Seq(Nat) /\ PayloadSize(message) \in Nat
               /\ Payload(message) \in Seq(Nat) /\ Len(Payload(message)) = PayloadSize(message)
               /\ Len(wire) = 4 + PayloadSize(message)
               /\ wire[1] = Magic /\ wire[2] = message.type /\ wire[3] = PayloadSize(message)
               /\ \A k \in 1 .. PayloadSize(message) : wire[4 + k] = Payload(message)[k]
<1> DEFINE message == Sendable[m]
           payload == Payload(message)
           size == PayloadSize(message)
           head == <<Magic, message.type, size, CheckSum(payload)>>
<1>1. IsMessage(message)
  BY SendableAssumption
<1>2. payload \in Seq(Nat) /\ Len(payload) = size /\ size \in Nat
  BY <1>1, PayloadHeld
<1>3. message.type \in Nat
  BY <1>1 DEF IsMessage, MessageType, VERSION, ACK, INV, GETDATA, TX, BLOCKPROPOSAL,
              TXSETPROPOSAL, ACCOUNT, BLOCK
<1>4. OnWire(message) = head \o payload
  BY DEF OnWire
<1> HIDE DEF payload, size, message
<1>5. CheckSum(payload) \in Nat /\ Magic \in Nat
  BY <1>2, CheckSumType, HashAssumption
<1>6. /\ head \in Seq(Nat) /\ Len(head) = 4
      /\ head[1] = Magic /\ head[2] = message.type /\ head[3] = size
  BY <1>2, <1>3, <1>5
<1> HIDE DEF head
<1>7. /\ head \o payload \in Seq(Nat) /\ Len(head \o payload) = Len(head) + Len(payload)
      /\ \A i \in 1 .. Len(head) + Len(payload) :
            (head \o payload)[i] = IF i <= Len(head) THEN head[i] ELSE payload[i - Len(head)]
  BY <1>2, <1>6, ConcatProperties
<1> DEFINE wire == OnWire(message)
<1>8. /\ wire \in Seq(Nat) /\ Len(wire) = 4 + size
      /\ \A i \in 1 .. 4 + size : wire[i] = IF i <= 4 THEN head[i] ELSE payload[i - 4]
  BY <1>2, <1>4, <1>6, <1>7
<1> HIDE DEF wire
<1>9. wire[1] = Magic /\ wire[2] = message.type /\ wire[3] = size
  <2>1. 1 \in 1 .. 4 + size /\ 2 \in 1 .. 4 + size /\ 3 \in 1 .. 4 + size
    BY <1>2
  <2> QED
    BY <1>6, <1>8, <2>1
<1>10. ASSUME NEW k \in 1 .. size PROVE wire[4 + k] = payload[k]
  <2>1. 4 + k \in 1 .. 4 + size /\ ~ (4 + k <= 4) /\ (4 + k) - 4 = k
    BY <1>2
  <2> QED
    BY <1>8, <2>1
<1> QED
  BY <1>2, <1>8, <1>9, <1>10 DEF wire, payload, size, message

LEMMA WiresFacts ==
    ASSUME sent \in Seq(1 .. Len(Sendable))
    PROVE  /\ Wires \in Seq(Seq(Nat)) /\ Len(Wires) = Len(sent) /\ Len(sent) \in Nat
           /\ \A i \in 1 .. Len(sent) : /\ sent[i] \in 1 .. Len(Sendable)
                                        /\ Wires[i] = OnWire(Sendable[sent[i]])
<1>1. Len(sent) \in Nat /\ \A i \in 1 .. Len(sent) : sent[i] \in 1 .. Len(Sendable)
  BY LenProperties, ElementOfSeq
<1>2. \A i \in 1 .. Len(sent) : OnWire(Sendable[sent[i]]) \in Seq(Nat)
  BY <1>1, WireFacts
<1>3. Wires \in Seq(Seq(Nat))
  BY <1>1, <1>2, IsASeq DEF Wires
<1> QED
  BY <1>1, <1>3 DEF Wires

\* What is cut off a sequence and what is left.
LEMMA CutFacts ==
    ASSUME NEW cells \in Seq(Nat), NEW n \in 0 .. Len(cells)
    PROVE  /\ SubSeq(cells, 1, n) \in Seq(Nat) /\ Len(SubSeq(cells, 1, n)) = n
           /\ Drop(cells, n) \in Seq(Nat) /\ Len(Drop(cells, n)) = Len(cells) - n
           /\ \A i \in 1 .. Len(cells) - n : Drop(cells, n)[i] = cells[n + i]
           /\ SubSeq(cells, 1, n) \o Drop(cells, n) = cells
<1> DEFINE all == Len(cells)
           a == SubSeq(cells, 1, n)
           b == SubSeq(cells, n + 1, all)
<1>1. all \in Nat /\ n \in Nat /\ \A i \in 1 .. all : cells[i] \in Nat
  BY LenProperties, ElementOfSeq
<1> HIDE DEF all
<1>2. /\ a \in Seq(Nat) /\ Len(a) = n /\ \A i \in 1 .. n : a[i] = cells[i]
  <2>1. 1 \in Int /\ n \in Int /\ \A i \in 1 .. n : cells[i] \in Nat
    BY <1>1 DEF all
  <2>2. /\ a \in Seq(Nat) /\ Len(a) = IF 1 <= n THEN n - 1 + 1 ELSE 0
        /\ \A i \in 1 .. n - 1 + 1 : a[i] = cells[1 + i - 1]
    BY <2>1, SubSeqProperties
  <2> HIDE DEF a
  <2>3. \A i \in 1 .. n : i \in 1 .. n - 1 + 1 /\ 1 + i - 1 = i
    BY <1>1
  <2> QED
    BY <1>1, <2>2, <2>3
<1>3. /\ b \in Seq(Nat) /\ Len(b) = all - n
      /\ \A i \in 1 .. all - n : b[i] = cells[n + i]
  <2>1. n + 1 \in Int /\ all \in Int /\ \A i \in n + 1 .. all : cells[i] \in Nat
    BY <1>1
  <2>2. /\ b \in Seq(Nat) /\ Len(b) = IF n + 1 <= all THEN all - (n + 1) + 1 ELSE 0
        /\ \A i \in 1 .. all - (n + 1) + 1 : b[i] = cells[(n + 1) + i - 1]
    BY <2>1, SubSeqProperties
  <2> HIDE DEF b
  <2>3. \A i \in 1 .. all - n : i \in 1 .. all - (n + 1) + 1 /\ (n + 1) + i - 1 = n + i
    BY <1>1
  <2>4. n <= all
    BY DEF all
  <2> QED
    BY <1>1, <2>2, <2>3, <2>4
<1>4. a \o b = cells
  <2> HIDE DEF a, b
  <2>1. /\ a \o b \in Seq(Nat) /\ Len(a \o b) = Len(a) + Len(b)
        /\ \A i \in 1 .. Len(a) + Len(b) :
              (a \o b)[i] = IF i <= Len(a) THEN a[i] ELSE b[i - Len(a)]
    BY <1>2, <1>3, ConcatProperties
  <2> DEFINE c == a \o b
  <2>2. c \in Seq(Nat) /\ Len(c) = all
    BY <1>1, <1>2, <1>3, <2>1
  <2>3. ASSUME NEW i \in 1 .. all PROVE c[i] = cells[i]
    <3>1. i \in 1 .. Len(a) + Len(b)
      BY <1>1, <1>2, <1>3
    <3>2. CASE i <= n
      BY <1>1, <1>2, <2>1, <3>1, <3>2
    <3>3. CASE ~ (i <= n)
      <4>1. i - n \in 1 .. all - n /\ n + (i - n) = i
        BY <1>1, <3>3
      <4>2. c[i] = b[i - n]
        BY <1>2, <2>1, <3>1, <3>3
      <4> QED
        BY <1>3, <4>1, <4>2
    <3> QED
      BY <3>2, <3>3
  <2> HIDE DEF c
  <2> QED
    BY <2>2, <2>3, SeqEqual DEF all, c
<1> QED
  BY <1>1, <1>2, <1>3, <1>4 DEF Drop, all

LEMMA LeastFacts ==
    ASSUME NEW m \in Nat, NEW n \in Nat
    PROVE  Least(m, n) \in 0 .. m /\ Least(m, n) \in 0 .. n
BY DEF Least

LEMMA HeaderFacts ==
    ASSUME NEW cells \in Seq(Nat)
    PROVE  /\ MessageHeader(cells) \in HeaderCell
           /\ Len(cells) >= 1 => MessageHeader(cells).magicNum = cells[1]
           /\ Len(cells) >= 3 => /\ MessageHeader(cells).type = cells[2]
                                 /\ MessageHeader(cells).size = cells[3]
           /\ Len(cells) < 3 => MessageHeader(cells).size = 0
           /\ Len(cells) < MessageHeaderSize => MessageHeader(cells).checkSum = 0
<1> DEFINE n == Len(cells)
<1>1. n \in Nat /\ \A i \in 1 .. n : cells[i] \in Nat
  BY LenProperties, ElementOfSeq
<1> HIDE DEF n
<1>2. ASSUME NEW i \in Nat
      PROVE  /\ Field(cells, i) \in Nat
             /\ Field(cells, i) = IF i < n THEN cells[i + 1] ELSE 0
  <2>1. i < n => i + 1 \in 1 .. n
    BY <1>1
  <2> QED
    BY <1>1, <2>1 DEF Field, n
<1>3. /\ Field(cells, 0) = IF 0 < n THEN cells[0 + 1] ELSE 0
      /\ Field(cells, 1) = IF 1 < n THEN cells[1 + 1] ELSE 0
      /\ Field(cells, 2) = IF 2 < n THEN cells[2 + 1] ELSE 0
      /\ Field(cells, 3) = IF 3 < n THEN cells[3 + 1] ELSE 0
      /\ Field(cells, 0) \in Nat /\ Field(cells, 1) \in Nat
      /\ Field(cells, 2) \in Nat /\ Field(cells, 3) \in Nat
  BY <1>2
<1>4. 0 + 1 = 1 /\ 1 + 1 = 2 /\ 2 + 1 = 3
  OBVIOUS
<1>5. MessageHeader(cells) \in HeaderCell
  BY <1>3 DEF MessageHeader, HeaderCell
<1>6. /\ MessageHeader(cells).magicNum = Field(cells, 0)
      /\ MessageHeader(cells).type = Field(cells, 1) /\ MessageHeader(cells).size = Field(cells, 2)
      /\ MessageHeader(cells).checkSum = Field(cells, 3)
  BY DEF MessageHeader
<1>7. /\ n >= 1 => MessageHeader(cells).magicNum = cells[1]
      /\ n >= 3 => MessageHeader(cells).type = cells[2] /\ MessageHeader(cells).size = cells[3]
      /\ n < 3 => MessageHeader(cells).size = 0
      /\ n < MessageHeaderSize => MessageHeader(cells).checkSum = 0
  BY <1>1, <1>3, <1>4, <1>6 DEF MessageHeaderSize
<1> QED
  BY <1>5, <1>7 DEF n

LEMMA NoMessageFacts ==
    /\ NoMessage = [cells |-> NoMessage.cells, header |-> NoMessage.header]
    /\ NoMessage.cells = <<>> /\ NoMessage.header \in HeaderCell
<1>1. <<>> \in Seq(Nat)
  BY EmptySeq
<1>2. MessageHeader(<<>>) \in HeaderCell
  BY <1>1, HeaderFacts
<1> QED
  BY <1>2 DEF NoMessage

\* What is among the first messages is among more of them.
LEMMA AmongMore ==
    ASSUME NEW list, Len(list) \in Nat, NEW order, NEW j \in Nat, AreAmong(list, order, j),
           NEW longer, NEW i \in Nat, j <= i, \A k \in 1 .. j : longer[k] = order[k]
    PROVE  AreAmong(list, longer, i)
<1>1. PICK place \in [1 .. Len(list) -> 1 .. j] :
        \A k \in 1 .. Len(list) :
            /\ k > 1 => place[k - 1] < place[k]
            /\ list[k].type = Sendable[order[place[k]]].type
            /\ list[k].content.value = AsRead(Sendable[order[place[k]]])
  BY DEF AreAmong
<1>2. place \in [1 .. Len(list) -> 1 .. i]
  <2>1. 1 .. j \subseteq 1 .. i
    OBVIOUS
  <2> QED
    BY <1>1, <2>1
<1>3. \A k \in 1 .. Len(list) : longer[place[k]] = order[place[k]]
  BY <1>1
<1>4. \A k \in 1 .. Len(list) : list[k].content.ok
  BY DEF AreAmong
<1>5. \A k \in 1 .. Len(list) :
            /\ k > 1 => place[k - 1] < place[k]
            /\ list[k].type = Sendable[longer[place[k]]].type
            /\ list[k].content.value = AsRead(Sendable[longer[place[k]]])
  BY <1>1, <1>3
<1> QED
  BY <1>2, <1>4, <1>5 DEF AreAmong

\* The message after the first j ones is delivered.
LEMMA AmongAppended ==
    ASSUME NEW S, NEW list \in Seq(S), NEW order, NEW j \in Nat, AreAmong(list, order, j),
           NEW entry, entry.content.ok, entry.type = Sendable[order[j + 1]].type,
           entry.content.value = AsRead(Sendable[order[j + 1]])
    PROVE  AreAmong(Append(list, entry), order, j + 1)
<1> DEFINE n == Len(list)
           T == S \union {entry}
           long == Append(list, entry)
<1>1. n \in Nat /\ Len(long) = n + 1 /\ long[n + 1] = entry /\ \A k \in 1 .. n : long[k] = list[k]
  <2>1. list \in Seq(T) /\ entry \in T
    BY SeqMonotonic
  <2>2. n \in Nat
    BY LenProperties
  <2> HIDE DEF T
  <2> QED
    BY <2>1, <2>2, AppendProperties
<1>2. \A k \in 1 .. n : list[k].content.ok
  BY DEF AreAmong
<1>3. PICK place \in [1 .. n -> 1 .. j] :
        \A k \in 1 .. n :
            /\ k > 1 => place[k - 1] < place[k]
            /\ list[k].type = Sendable[order[place[k]]].type
            /\ list[k].content.value = AsRead(Sendable[order[place[k]]])
  BY DEF AreAmong
<1> HIDE DEF n, long
<1> DEFINE all == [k \in 1 .. n + 1 |-> IF k = n + 1 THEN j + 1 ELSE place[k]]
<1>4. /\ all \in [1 .. n + 1 -> 1 .. j + 1] /\ all[n + 1] = j + 1
      /\ \A k \in 1 .. n : all[k] = place[k] /\ place[k] \in 1 .. j
  <2>1. ASSUME NEW k \in 1 .. n PROVE k # n + 1 /\ k \in 1 .. n + 1 /\ place[k] \in 1 .. j
    BY <1>1, <1>3
  <2>2. n + 1 \in 1 .. n + 1 /\ j + 1 \in 1 .. j + 1 /\ 1 .. j \subseteq 1 .. j + 1
    BY <1>1
  <2>3. \A k \in 1 .. n + 1 : k = n + 1 \/ k \in 1 .. n
    BY <1>1
  <2> QED
    BY <2>1, <2>2, <2>3
<1> HIDE DEF all
<1>5. ASSUME NEW k \in 1 .. n + 1
      PROVE  /\ k > 1 => all[k - 1] < all[k]
             /\ long[k].content.ok
             /\ long[k].type = Sendable[order[all[k]]].type
             /\ long[k].content.value = AsRead(Sendable[order[all[k]]])
  <2>1. CASE k = n + 1
    <3>1. ASSUME k > 1 PROVE all[k - 1] < all[k]
      <4>1. k - 1 \in 1 .. n
        BY <1>1, <2>1, <3>1
      <4>2. all[k - 1] \in 1 .. j /\ all[k] = j + 1
        BY <1>4, <2>1, <4>1
      <4> QED
        BY <4>2
    <3> QED
      BY <1>1, <1>4, <2>1, <3>1
  <2>2. CASE k \in 1 .. n
    <3>1. k > 1 => k - 1 \in 1 .. n
      BY <1>1, <2>2
    <3> QED
      BY <1>1, <1>2, <1>3, <1>4, <2>2, <3>1
  <2> QED
    BY <1>1, <2>1, <2>2
<1>6. AreAmong(long, order, j + 1)
  <2>1. \A k \in 1 .. Len(long) : long[k].content.ok
    BY <1>1, <1>5
  <2>2. /\ all \in [1 .. Len(long) -> 1 .. j + 1]
        /\ \A k \in 1 .. Len(long) :
            /\ k > 1 => all[k - 1] < all[k]
            /\ long[k].type = Sendable[order[all[k]]].type
            /\ long[k].content.value = AsRead(Sendable[order[all[k]]])
    <3>1. \A k \in 1 .. n + 1 :
            /\ k > 1 => all[k - 1] < all[k]
            /\ long[k].type = Sendable[order[all[k]]].type
            /\ long[k].content.value = AsRead(Sendable[order[all[k]]])
      BY <1>5
    <3> QED
      BY <1>1, <1>4, <3>1
  <2> QED
    BY ONLY <2>1, <2>2 DEF AreAmong
<1> QED
  BY <1>6 DEF long

LEMMA InitFrame == Init => FrameInv
<1> SUFFICES ASSUME Init PROVE FrameInv
  OBVIOUS
<1>1. /\ sent = <<>> /\ outgoing = <<>> /\ stream = <<>> /\ arrived = <<>> /\ closed = FALSE
      /\ reading = NoMessage /\ delivered = <<>>
  BY DEF Init
<1>2. /\ reading = [cells |-> reading.cells, header |-> reading.header]
      /\ reading.cells = <<>> /\ reading.header \in HeaderCell
  BY <1>1, NoMessageFacts
<1>3. CellsInv
  <2>1. TotalSize \in Nat
    BY <1>2 DEF TotalSize, MessageHeaderSize, HeaderCell
  <2>2. Len(reading.cells) <= TotalSize
    BY <1>2, <2>1, EmptySeq
  <2>3. \A S : <<>> \in Seq(S)
    BY EmptySeq
  <2> QED
    BY <1>1, <1>2, <2>2, <2>3 DEF CellsInv
<1>4. Rest = <<>> /\ Wires = <<>>
  <2>1. Rest = <<>>
    BY <1>1, <1>2 DEF Rest, Seen
  <2>2. Wires = <<>>
    BY <1>1 DEF Wires
  <2> QED
    BY <2>1, <2>2
<1> DEFINE p == [i \in 0 .. 0 |-> 0]
<1>5. InStep(<<>>, <<>>, p, 0, TRUE)
  <2>1. Len(<<>>) = 0 /\ p \in [0 .. 0 -> Nat] /\ p[0] = 0 /\ 0 \in 0 .. 0
    OBVIOUS
  <2> HIDE DEF p
  <2> QED
    BY <2>1 DEF InStep
<1>6. AreAmong(<<>>, <<>>, 0)
  <2>1. Len(<<>>) = 0 /\ 1 .. 0 = {}
    OBVIOUS
  <2>2. \E place : place \in [1 .. Len(<<>>) -> 1 .. 0]
    <3>1. [i \in 1 .. Len(<<>>) |-> 1] \in [1 .. Len(<<>>) -> 1 .. 0]
      BY <2>1
    <3> QED
      BY <3>1
  <2> QED
    BY <2>1, <2>2 DEF AreAmong
<1>7. ~ closed <=> TRUE
  BY <1>1
<1> HIDE DEF p
<1>8. \E q, j : /\ InStep(Rest, Wires, q, j, ~ closed)
                /\ reading = NoMessage \/ HeaderSeen
                /\ AreAmong(delivered, sent, j)
  <2>1. InStep(Rest, Wires, p, 0, ~ closed)
    BY <1>4, <1>5, <1>7 DEF InStep
  <2> QED
    BY <1>1, <1>6, <2>1
<1> QED
  BY <1>3, <1>8 DEF FrameInv

\* Cells move, and the reader stays where it is among the messages.
LEMMA CellsMove ==
    ASSUME FrameInv, CellsInv', sent' = sent, closed' = closed, delivered' = delivered,
           lost => lost', Rest' = Rest,
           reading = NoMessage \/ HeaderSeen => reading' = NoMessage \/ HeaderSeen',
           Stuck => reading' = NoMessage
    PROVE  FrameInv'
<1>1. Wires' = Wires
  BY DEF Wires
<1>2. CASE \E p, j : /\ InStep(Rest, Wires, p, j, ~ closed)
                     /\ reading = NoMessage \/ HeaderSeen
                     /\ AreAmong(delivered, sent, j)
  <2>1. PICK p, j : /\ InStep(Rest, Wires, p, j, ~ closed)
                    /\ AreAmong(delivered, sent, j)
    BY <1>2
  <2>2. InStep(Rest', Wires', p, j, ~ closed') /\ AreAmong(delivered', sent', j)
    BY <1>1, <2>1
  <2>3. reading' = NoMessage \/ HeaderSeen'
    BY <1>2
  <2> QED
    BY <2>2, <2>3 DEF FrameInv
<1>3. CASE lost /\ (MagicIsApart => Stuck /\ AreAmong(delivered, sent, Len(sent)))
  <2>1. Stuck => Stuck'
    BY DEF Stuck
  <2>2. lost' /\ (MagicIsApart => Stuck' /\ AreAmong(delivered', sent', Len(sent')))
    BY <1>3, <2>1
  <2> QED
    BY <2>2 DEF FrameInv
<1> QED
  BY <1>2, <1>3 DEF FrameInv

LEMMA CellsAssociate ==
    \A a, b, c \in Seq(Nat) : (a \o b) \o c = a \o (b \o c)
<1> SUFFICES ASSUME NEW a \in Seq(Nat), NEW b \in Seq(Nat), NEW c \in Seq(Nat)
             PROVE  (a \o b) \o c = a \o (b \o c)
  OBVIOUS
<1> DEFINE N == Nat
<1>1. a \in Seq(N) /\ b \in Seq(N) /\ c \in Seq(N)
  OBVIOUS
<1> HIDE DEF N
<1> QED
  BY ONLY <1>1, ConcatAssociative, SMTT(30)

\* The cells of the stream, as sequences.
LEMMA RestFacts ==
    ASSUME CellsInv
    PROVE  /\ Seen \in Seq(Nat) /\ Seen \o stream \in Seq(Nat) /\ Rest \in Seq(Nat)
           /\ Len(Seen) \in Nat /\ Len(Seen \o stream) \in Nat /\ Len(Rest) \in Nat
           /\ Len(Seen) = Len(reading.cells) + Len(arrived)
           /\ Len(Rest) = Len(Seen \o stream) + Len(outgoing)
           /\ Len(reading.cells) \in Nat /\ Len(arrived) \in Nat /\ Len(outgoing) \in Nat
           /\ TotalSize \in Nat /\ TotalSize = 4 + reading.header.size
<1>1. /\ reading.cells \in Seq(Nat) /\ arrived \in Seq(Nat) /\ stream \in Seq(Nat)
      /\ outgoing \in Seq(Nat)
  BY DEF CellsInv
<1>2. Seen \in Seq(Nat) /\ Len(Seen) = Len(reading.cells) + Len(arrived)
  BY <1>1, ConcatProperties DEF Seen
<1> DEFINE before == Seen \o stream
<1>3. before \in Seq(Nat)
  BY <1>1, <1>2, ConcatProperties
<1>4. Rest = before \o outgoing
  BY DEF Rest
<1> HIDE DEF before
<1>5. Rest \in Seq(Nat) /\ Len(Rest) = Len(before) + Len(outgoing)
  BY <1>1, <1>3, <1>4, ConcatProperties
<1>6. /\ Len(Seen) \in Nat /\ Len(before) \in Nat /\ Len(Rest) \in Nat
      /\ Len(reading.cells) \in Nat /\ Len(arrived) \in Nat /\ Len(outgoing) \in Nat
  BY <1>1, <1>2, <1>3, <1>5, LenProperties
<1>7. reading.header.size \in Nat
  BY DEF CellsInv, HeaderCell
<1>8. TotalSize \in Nat /\ TotalSize = 4 + reading.header.size
  BY <1>7 DEF TotalSize, MessageHeaderSize
<1> QED
  BY <1>2, <1>3, <1>5, <1>6, <1>8 DEF before

\* Cells that are cut off the second sequence and put behind the first one.
LEMMA CutMoves ==
    ASSUME NEW a \in Seq(Nat), NEW b \in Seq(Nat), NEW n \in 0 .. Len(b)
    PROVE  /\ a \o SubSeq(b, 1, n) \in Seq(Nat) /\ Len(a \o SubSeq(b, 1, n)) = Len(a) + n
           /\ Drop(b, n) \in Seq(Nat)
           /\ (a \o SubSeq(b, 1, n)) \o Drop(b, n) = a \o b
<1> DEFINE c == SubSeq(b, 1, n)
           d == Drop(b, n)
<1>1. c \in Seq(Nat) /\ Len(c) = n /\ d \in Seq(Nat) /\ c \o d = b
  BY CutFacts
<1> HIDE DEF c, d
<1>2. a \o c \in Seq(Nat) /\ Len(a \o c) = Len(a) + Len(c)
  BY <1>1, ConcatProperties
<1>3. (a \o c) \o d = a \o (c \o d)
  BY <1>1, CellsAssociate
<1> QED
  BY <1>1, <1>2, <1>3 DEF c, d

LEMMA SendFragmentKeeps == FrameInv /\ SendFragment => FrameInv'
<1> SUFFICES ASSUME FrameInv, SendFragment PROVE FrameInv'
  OBVIOUS
<1>1. CellsInv
  BY DEF FrameInv
<1> DEFINE n == Least(Len(outgoing), MaxFragment)
<1>2. n \in 0 .. Len(outgoing)
  <2>1. Len(outgoing) \in Nat /\ MaxFragment \in Nat
    BY <1>1, RestFacts, FramingAssumption
  <2> QED
    BY <2>1, LeastFacts
<1>3. /\ ~ closed /\ stream' = stream \o SubSeq(outgoing, 1, n) /\ outgoing' = Drop(outgoing, n)
      /\ sent' = sent /\ closed' = closed /\ arrived' = arrived /\ reading' = reading
      /\ delivered' = delivered /\ lost' = lost
  BY DEF SendFragment, reader
<1> HIDE DEF n
<1>4. stream \in Seq(Nat) /\ outgoing \in Seq(Nat) /\ Seen \in Seq(Nat)
  BY <1>1, RestFacts DEF CellsInv
<1>5. /\ stream' \in Seq(Nat) /\ outgoing' \in Seq(Nat) /\ stream' \o outgoing' = stream \o outgoing
  BY <1>2, <1>3, <1>4, CutMoves
<1>6. Seen' = Seen /\ TotalSize' = TotalSize
  BY <1>3 DEF Seen, TotalSize
<1>7. CellsInv'
  BY <1>1, <1>3, <1>5, <1>6 DEF CellsInv
<1>8. Rest' = Rest
  <2>1. (Seen \o stream) \o outgoing = Seen \o (stream \o outgoing)
    BY <1>4, CellsAssociate
  <2>2. (Seen \o stream') \o outgoing' = Seen \o (stream' \o outgoing')
    BY <1>4, <1>5, CellsAssociate
  <2> QED
    BY <1>5, <1>6, <2>1, <2>2 DEF Rest
<1>9. HeaderSeen => HeaderSeen'
  BY <1>3, <1>6 DEF HeaderSeen
<1> QED
  BY <1>3, <1>7, <1>8, <1>9, CellsMove DEF Stuck

LEMMA ArriveKeeps ==
    ASSUME FrameInv, NEW n \in 1 .. Len(stream), Arrive(n)
    PROVE  FrameInv'
<1>1. CellsInv
  BY DEF FrameInv
<1>2. /\ arrived' = arrived \o SubSeq(stream, 1, n) /\ stream' = Drop(stream, n)
      /\ sent' = sent /\ closed' = closed /\ outgoing' = outgoing /\ reading' = reading
      /\ delivered' = delivered /\ lost' = lost
  BY DEF Arrive, writer, reader
<1>3. /\ stream \in Seq(Nat) /\ arrived \in Seq(Nat) /\ reading.cells \in Seq(Nat)
      /\ Seen \in Seq(Nat) /\ Len(stream) \in Nat
  BY <1>1, RestFacts, LenProperties DEF CellsInv
<1>4. n \in 0 .. Len(stream)
  BY <1>3
<1> DEFINE c == SubSeq(stream, 1, n)
<1>5. c \in Seq(Nat) /\ Len(c) \in Nat
  BY <1>3, <1>4, CutFacts
<1>6. arrived' \in Seq(Nat) /\ stream' \in Seq(Nat)
  BY <1>2, <1>3, <1>4, CutMoves
<1>7. (Seen \o c) \o stream' = Seen \o stream
  BY <1>2, <1>3, <1>4, CutMoves
<1>a. arrived' = arrived \o c
  BY <1>2
<1> HIDE DEF c
<1>8. Seen' = Seen \o c
  <2>1. reading.cells \o (arrived \o c) = (reading.cells \o arrived) \o c
    BY <1>3, <1>5, CellsAssociate
  <2> QED
    BY <1>2, <1>a, <2>1 DEF Seen
<1>9. Rest' = Rest
  BY <1>2, <1>7, <1>8 DEF Rest
<1>10. TotalSize' = TotalSize
  BY <1>2 DEF TotalSize
<1>11. CellsInv'
  BY <1>1, <1>2, <1>6, <1>10 DEF CellsInv
<1>12. HeaderSeen => HeaderSeen'
  <2> DEFINE m == Len(Seen)
             longer == Seen \o c
  <2>1. /\ m \in Nat /\ Len(longer) = m + Len(c)
        /\ \A i \in 1 .. m + Len(c) : longer[i] = IF i <= m THEN Seen[i] ELSE c[i - m]
    BY <1>3, <1>5, ConcatProperties, LenProperties
  <2> HIDE DEF m, longer
  <2>2. m >= 3 => Len(longer) >= 3 /\ longer[2] = Seen[2] /\ longer[3] = Seen[3]
    <3> HAVE m >= 3
    <3>1. 2 \in 1 .. m + Len(c) /\ 3 \in 1 .. m + Len(c) /\ 2 <= m /\ 3 <= m
      BY <1>5, <2>1
    <3> QED
      BY <1>5, <2>1, <3>1
  <2>3. Seen' = longer
    BY <1>8 DEF longer
  <2> QED
    BY <1>2, <2>2, <2>3 DEF HeaderSeen, m
<1> QED
  BY <1>2, <1>9, <1>11, <1>12, CellsMove DEF Stuck

LEMMA ReceiveFragmentKeeps == FrameInv /\ ReceiveFragment => FrameInv'
<1> SUFFICES ASSUME FrameInv, ReceiveFragment PROVE FrameInv'
  OBVIOUS
<1>1. CellsInv
  BY DEF FrameInv
<1> DEFINE n == Least(BufferSize, Len(arrived))
           missing == TotalSize - Len(reading.cells)
<1>2. /\ reading # NoMessage /\ Incomplete
      /\ reading' = [reading EXCEPT !.cells = @ \o SubSeq(arrived, 1, n)]
      /\ arrived' = Drop(arrived, n)
      /\ sent' = sent /\ closed' = closed /\ outgoing' = outgoing /\ stream' = stream
      /\ delivered' = delivered /\ lost' = lost
  BY DEF ReceiveFragment, writer
<1>3. /\ n \in 0 .. Len(arrived) /\ n <= missing
  <2>1. Len(arrived) \in Nat /\ Len(reading.cells) \in Nat /\ TotalSize \in Nat
    BY <1>1, RestFacts
  <2>2. missing \in Nat
    BY <1>2, <2>1 DEF Incomplete
  <2>3. MaxFragment \in Nat
    BY FramingAssumption
  <2> HIDE DEF missing
  <2>4. Least(missing, MaxFragment) \in 0 .. missing
    BY <2>2, <2>3, LeastFacts
  <2>5. BufferSize = Least(missing, MaxFragment)
    BY DEF BufferSize, missing
  <2>6. BufferSize \in Nat /\ BufferSize <= missing
    BY <2>2, <2>4, <2>5
  <2>7. n \in 0 .. BufferSize /\ n \in 0 .. Len(arrived)
    BY <2>1, <2>6, LeastFacts
  <2> HIDE DEF n
  <2> QED
    BY <2>1, <2>2, <2>6, <2>7
<1> DEFINE c == SubSeq(arrived, 1, n)
<1>4. /\ reading = [cells |-> reading.cells, header |-> reading.header]
      /\ reading.cells \in Seq(Nat) /\ arrived \in Seq(Nat)
  BY <1>1 DEF CellsInv
<1>5. /\ reading' = [cells |-> reading.cells \o c, header |-> reading.header]
  BY <1>2, <1>4
<1>6. /\ reading.cells \o c \in Seq(Nat) /\ Len(reading.cells \o c) = Len(reading.cells) + n
      /\ arrived' \in Seq(Nat) /\ (reading.cells \o c) \o arrived' = reading.cells \o arrived
  <2> HIDE DEF n
  <2> QED
    BY <1>2, <1>3, <1>4, CutMoves
<1> HIDE DEF c, n
<1>7. reading'.cells = reading.cells \o c /\ reading'.header = reading.header
  BY <1>5
<1>8. Seen' = Seen /\ TotalSize' = TotalSize
  BY <1>6, <1>7 DEF Seen, TotalSize
<1>9. Rest' = Rest
  BY <1>2, <1>8 DEF Rest
<1>10. Len(reading'.cells) <= TotalSize'
  <2>1. Len(reading.cells) \in Nat /\ TotalSize \in Nat
    BY <1>1, RestFacts
  <2>2. n \in Nat
    BY <1>3
  <2> QED
    BY <1>3, <1>6, <1>7, <1>8, <2>1, <2>2
<1>11. CellsInv'
  <2>1. reading' = [cells |-> reading'.cells, header |-> reading'.header]
    BY <1>5
  <2>2. reading'.cells \in Seq(Nat) /\ reading'.header \in HeaderCell
    BY <1>1, <1>6, <1>7 DEF CellsInv
  <2> QED
    BY <1>1, <1>2, <1>6, <1>10, <2>1, <2>2 DEF CellsInv
<1>12. HeaderSeen => HeaderSeen'
  BY <1>2, <1>7, <1>8 DEF HeaderSeen
<1> QED
  BY <1>2, <1>9, <1>11, <1>12, CellsMove DEF Stuck

LEMMA PeekForHeaderKeeps == FrameInv /\ PeekForHeader => FrameInv'
<1> SUFFICES ASSUME FrameInv, PeekForHeader PROVE FrameInv'
  OBVIOUS
<1>1. CellsInv
  BY DEF FrameInv
<1> DEFINE header == MessageHeader(arrived)
<1>2. /\ reading = NoMessage /\ arrived # <<>> /\ header.magicNum = Magic
      /\ reading' = [cells |-> <<>>, header |-> header]
      /\ lost' = (lost \/ Len(arrived) < MessageHeaderSize)
      /\ sent' = sent /\ closed' = closed /\ outgoing' = outgoing /\ stream' = stream
      /\ arrived' = arrived /\ delivered' = delivered
  BY DEF PeekForHeader, writer
<1>3. /\ arrived \in Seq(Nat) /\ Len(arrived) \in Nat \ {0} /\ <<>> \in Seq(Nat) /\ Len(<<>>) = 0
  BY <1>1, <1>2, EmptySeq DEF CellsInv
<1>4. header \in HeaderCell /\ (Len(arrived) >= 1 => header.magicNum = arrived[1])
  BY <1>3, HeaderFacts
<1>5. reading'.cells = <<>> /\ reading'.header = header /\ reading.cells = <<>>
  BY <1>2, NoMessageFacts
<1>6. Seen' = Seen /\ Seen = arrived
  BY <1>2, <1>3, <1>5, ConcatEmptySeq DEF Seen
<1>7. Rest' = Rest
  BY <1>2, <1>6 DEF Rest
<1>8. CellsInv'
  <2>1. TotalSize' \in Nat
    BY <1>4, <1>5 DEF TotalSize, MessageHeaderSize, HeaderCell
  <2>2. Len(reading'.cells) <= TotalSize'
    BY <1>3, <1>5, <2>1
  <2>3. reading' = [cells |-> reading'.cells, header |-> reading'.header]
    BY <1>2
  <2> HIDE DEF header
  <2> QED
    BY <1>1, <1>2, <1>3, <1>4, <1>5, <2>2, <2>3 DEF CellsInv
<1>9. HeaderSeen'
  <2>1. CASE Len(arrived) >= 3
    <3>1. header.type = arrived[2] /\ header.size = arrived[3]
      BY <1>3, <2>1, HeaderFacts
    <3> HIDE DEF header
    <3> QED
      BY <1>5, <1>6, <2>1, <3>1 DEF HeaderSeen
  <2>2. CASE Len(arrived) < 3
    <3>1. Len(arrived) < MessageHeaderSize
      BY <1>3, <2>2 DEF MessageHeaderSize
    <3>2. header.size = 0 /\ header.checkSum = 0
      BY <1>3, <2>2, <3>1, HeaderFacts
    <3> HIDE DEF header
    <3> QED
      BY <1>2, <1>5, <3>1, <3>2 DEF HeaderSeen
  <2> QED
    BY <1>3, <2>1, <2>2
<1>10. ~ Stuck
  <2>1. Rest # <<>> /\ Rest[1] = Magic
    <3>1. 1 <= Len(arrived) /\ 1 \in 1 .. Len(arrived)
      BY <1>3
    <3>2. stream \in Seq(Nat) /\ outgoing \in Seq(Nat)
      BY <1>1 DEF CellsInv
    <3> DEFINE before == arrived \o stream
    <3>3. /\ before \in Seq(Nat) /\ Len(before) = Len(arrived) + Len(stream)
          /\ \A i \in 1 .. Len(arrived) + Len(stream) :
                before[i] = IF i <= Len(arrived) THEN arrived[i] ELSE stream[i - Len(arrived)]
      BY <1>3, <3>2, ConcatProperties
    <3>4. Rest = before \o outgoing
      BY <1>6 DEF Rest
    <3> HIDE DEF before
    <3> DEFINE all == before \o outgoing
    <3>5. /\ Len(all) = Len(before) + Len(outgoing)
          /\ \A i \in 1 .. Len(before) + Len(outgoing) :
                all[i] = IF i <= Len(before) THEN before[i] ELSE outgoing[i - Len(before)]
      <4>1. before \in Seq(Nat) /\ outgoing \in Seq(Nat)
        BY <3>2, <3>3
      <4> QED
        BY ONLY <4>1, ConcatProperties
    <3>a. Rest = all
      BY <3>4
    <3> HIDE DEF all
    <3>6. Len(stream) \in Nat /\ Len(outgoing) \in Nat
      BY <3>2, LenProperties
    <3>7. before[1] = arrived[1] /\ Len(before) \in Nat /\ 1 <= Len(before)
      BY <1>3, <3>1, <3>3, <3>6
    <3>8. Rest[1] = before[1] /\ Len(Rest) # 0
      BY <3>5, <3>6, <3>7, <3>a
    <3> QED
      BY <1>2, <1>3, <1>4, <3>1, <3>7, <3>8
  <2> QED
    BY <2>1 DEF Stuck
<1> QED
  BY <1>2, <1>7, <1>8, <1>9, <1>10, CellsMove

LEMMA NothingRead ==
    ASSUME FrameInv,
           UNCHANGED <<sent, outgoing, closed, stream, arrived, reading, delivered, lost>>
    PROVE  FrameInv'
<1>1. Seen' = Seen /\ TotalSize' = TotalSize
  BY DEF Seen, TotalSize
<1>2. Rest' = Rest
  BY <1>1 DEF Rest
<1>3. CellsInv'
  BY <1>1 DEF FrameInv, CellsInv
<1>4. HeaderSeen => HeaderSeen'
  BY <1>1 DEF HeaderSeen
<1> QED
  BY <1>2, <1>3, <1>4, CellsMove DEF Stuck

LEMMA FirstStays ==
    ASSUME NEW a \in Seq(Nat), NEW b \in Seq(Nat), a # <<>>
    PROVE  a \o b # <<>> /\ (a \o b)[1] = a[1]
<1> DEFINE c == a \o b
<1>1. Len(a) \in Nat \ {0} /\ Len(b) \in Nat /\ Len(<<>>) = 0
  BY EmptySeq, LenProperties
<1>2. /\ Len(c) = Len(a) + Len(b)
      /\ \A i \in 1 .. Len(a) + Len(b) : c[i] = IF i <= Len(a) THEN a[i] ELSE b[i - Len(a)]
  BY ConcatProperties
<1> HIDE DEF c
<1>3. 1 \in 1 .. Len(a) + Len(b) /\ 1 <= Len(a)
  BY <1>1
<1>4. c # <<>> /\ c[1] = a[1]
  BY <1>1, <1>2, <1>3
<1> QED
  BY <1>4 DEF c

LEMMA ShutdownKeeps == FrameInv /\ Shutdown => FrameInv'
<1> SUFFICES ASSUME FrameInv, Shutdown PROVE FrameInv'
  OBVIOUS
<1>1. CellsInv
  BY DEF FrameInv
<1>2. /\ ~ closed /\ closed' = TRUE /\ outgoing' = <<>>
      /\ sent' = sent /\ stream' = stream /\ arrived' = arrived /\ reading' = reading
      /\ delivered' = delivered /\ lost' = lost
  BY DEF Shutdown, reader
<1> DEFINE before == Seen \o stream
<1>3. before \in Seq(Nat) /\ outgoing \in Seq(Nat) /\ <<>> \in Seq(Nat)
  BY <1>1, RestFacts, EmptySeq DEF CellsInv
<1>4. Seen' = Seen /\ TotalSize' = TotalSize /\ Wires' = Wires
  BY <1>2 DEF Seen, TotalSize, Wires
<1>5. Rest = before \o outgoing /\ Rest' = before \o <<>>
  BY <1>2, <1>4 DEF Rest
<1> HIDE DEF before
<1>6. Rest' = before
  BY <1>3, <1>5, ConcatEmptySeq
<1>7. CellsInv'
  BY <1>1, <1>2, <1>3, <1>4 DEF CellsInv
<1>8. HeaderSeen => HeaderSeen'
  BY <1>2, <1>4 DEF HeaderSeen
<1>9. Wires \in Seq(Seq(Nat))
  BY <1>1, WiresFacts DEF CellsInv
<1>10. Rest \in Seq(Nat)
  BY <1>1, RestFacts
<1>11. CASE \E p, j : /\ InStep(Rest, Wires, p, j, ~ closed)
                      /\ reading = NoMessage \/ HeaderSeen
                      /\ AreAmong(delivered, sent, j)
  <2>1. PICK p, j : /\ InStep(Rest, Wires, p, j, ~ closed)
                    /\ reading = NoMessage \/ HeaderSeen
                    /\ AreAmong(delivered, sent, j)
    BY <1>11
  <2>2. Len(before) \in 0 .. Len(Rest) /\ \A i \in 1 .. Len(before) : before[i] = Rest[i]
    <3> DEFINE all == before \o outgoing
    <3>1. /\ Len(all) = Len(before) + Len(outgoing) /\ Len(before) \in Nat /\ Len(outgoing) \in Nat
          /\ \A i \in 1 .. Len(before) + Len(outgoing) :
                all[i] = IF i <= Len(before) THEN before[i] ELSE outgoing[i - Len(before)]
      BY <1>3, ConcatProperties, LenProperties
    <3>2. Rest = all
      BY <1>5
    <3> HIDE DEF all
    <3> QED
      BY <3>1, <3>2
  <2>3. InStep(before, Wires, p, j, FALSE)
    BY <1>9, <1>10, <2>1, <2>2, StepCut
  <2>4. ~ closed' <=> FALSE
    BY <1>2
  <2>5. InStep(Rest', Wires', p, j, ~ closed')
    BY <1>4, <1>6, <2>3, <2>4 DEF InStep
  <2>6. AreAmong(delivered', sent', j) /\ (reading' = NoMessage \/ HeaderSeen')
    BY <1>2, <1>8, <2>1
  <2> QED
    BY <1>7, <2>5, <2>6 DEF FrameInv
<1>12. CASE lost /\ (MagicIsApart => Stuck /\ AreAmong(delivered, sent, Len(sent)))
  <2>1. Stuck => Stuck'
    <3> SUFFICES ASSUME Stuck, Rest' # <<>> PROVE Rest'[1] # Magic
      BY <1>2 DEF Stuck
    <3>1. Rest # <<>> /\ Rest[1] = before[1]
      BY <1>3, <1>5, <1>6, FirstStays
    <3> QED
      BY <1>6, <3>1 DEF Stuck
  <2>2. lost' /\ (MagicIsApart => Stuck' /\ AreAmong(delivered', sent', Len(sent')))
    BY <1>2, <1>12, <2>1
  <2> QED
    BY <1>7, <2>2 DEF FrameInv
<1> QED
  BY <1>11, <1>12 DEF FrameInv

LEMMA SendMessageKeeps ==
    ASSUME FrameInv, NEW m \in 1 .. Len(Sendable), SendMessage(m)
    PROVE  FrameInv'
<1>1. CellsInv
  BY DEF FrameInv
<1> DEFINE wire == OnWire(Sendable[m])
<1>2. /\ ~ closed /\ outgoing = <<>> /\ sent' = Append(sent, m) /\ outgoing' = wire
      /\ closed' = closed /\ stream' = stream /\ arrived' = arrived /\ reading' = reading
      /\ delivered' = delivered /\ lost' = lost
  BY DEF SendMessage, reader
<1>3. wire \in Seq(Nat)
  BY WireFacts
<1>4. /\ sent \in Seq(1 .. Len(Sendable)) /\ Wires \in Seq(Seq(Nat)) /\ Len(Wires) = Len(sent)
      /\ Len(sent) \in Nat /\ \A i \in 1 .. Len(sent) : Wires[i] = OnWire(Sendable[sent[i]])
  BY <1>1, WiresFacts DEF CellsInv
<1>5. /\ sent' \in Seq(1 .. Len(Sendable)) /\ Len(sent') = Len(sent) + 1
      /\ sent'[Len(sent) + 1] = m /\ \A i \in 1 .. Len(sent) : sent'[i] = sent[i]
  BY <1>2, <1>4, AppendProperties
<1>6. Seen' = Seen /\ TotalSize' = TotalSize
  BY <1>2 DEF Seen, TotalSize
<1>7. Wires' = Append(Wires, wire)
  <2> DEFINE all == Append(Wires, wire)
             n == Len(sent)
  <2>1. Wires' = [i \in 1 .. Len(sent') |-> OnWire(Sendable[sent'[i]])]
    BY DEF Wires
  <2>2. /\ all \in Seq(Seq(Nat)) /\ Len(all) = n + 1 /\ all[n + 1] = wire
        /\ \A i \in 1 .. n : all[i] = Wires[i]
    <3>1. Wires \in Seq(Seq(Nat)) /\ wire \in Seq(Nat) /\ Len(Wires) = n
      BY <1>3, <1>4
    <3> HIDE DEF wire, n
    <3> QED
      BY ONLY <3>1, AppendProperties
  <2> HIDE DEF all, wire, n
  <2>3. all = [i \in 1 .. n + 1 |-> all[i]]
    BY <2>2, LenProperties
  <2>4. ASSUME NEW i \in 1 .. n + 1 PROVE all[i] = OnWire(Sendable[sent'[i]])
    <3>1. CASE i = n + 1
      BY <1>5, <2>2, <3>1 DEF n, wire
    <3>2. CASE i \in 1 .. n
      BY <1>4, <1>5, <2>2, <3>2 DEF n
    <3>3. i = n + 1 \/ i \in 1 .. n
      <4>1. n \in Nat
        BY <1>4 DEF n
      <4> QED
        BY <4>1
    <3> QED
      BY <3>1, <3>2, <3>3
  <2>5. Len(sent') = n + 1
    BY <1>5 DEF n
  <2>6. Wires' = all
    BY <2>1, <2>3, <2>4, <2>5
  <2> QED
    BY <2>6 DEF all
<1> DEFINE before == Seen \o stream
<1>8. before \in Seq(Nat)
  BY <1>1, RestFacts
<1>9. Rest = before \o <<>> /\ Rest' = before \o wire
  BY <1>2, <1>6 DEF Rest
<1> HIDE DEF before, wire
<1>10. Rest = before /\ Rest' = Rest \o wire /\ Rest \in Seq(Nat)
  BY <1>8, <1>9, ConcatEmptySeq
<1>11. CellsInv'
  BY <1>1, <1>2, <1>3, <1>5, <1>6 DEF CellsInv
<1>12. HeaderSeen => HeaderSeen'
  BY <1>2, <1>6 DEF HeaderSeen
<1>d. Len(delivered) \in Nat
  BY <1>1, LenProperties DEF CellsInv
<1>13. CASE \E p, j : /\ InStep(Rest, Wires, p, j, ~ closed)
                      /\ reading = NoMessage \/ HeaderSeen
                      /\ AreAmong(delivered, sent, j)
  <2>1. PICK p, j : /\ InStep(Rest, Wires, p, j, ~ closed)
                    /\ reading = NoMessage \/ HeaderSeen
                    /\ AreAmong(delivered, sent, j)
    BY <1>13
  <2>2. j \in 0 .. Len(sent)
    BY <1>4, <2>1, StepFacts
  <2>3. InStep(Rest, Wires, p, j, TRUE)
    BY <1>2, <2>1 DEF InStep
  <2>4. PICK q : InStep(Rest \o wire, Append(Wires, wire), q, j, TRUE)
    BY <1>3, <1>4, <1>10, <2>3, StepExtends
  <2>5. InStep(Rest', Wires', q, j, ~ closed')
    <3>1. ~ closed' <=> TRUE
      BY <1>2
    <3> QED
      BY <1>7, <1>10, <2>4, <3>1 DEF InStep
  <2>6. AreAmong(delivered', sent', j)
    <3>1. j \in Nat /\ j <= j /\ \A k \in 1 .. j : sent'[k] = sent[k]
      BY <1>4, <1>5, <2>2
    <3> QED
      BY <1>2, <1>d, <2>1, <3>1, AmongMore
  <2>7. reading' = NoMessage \/ HeaderSeen'
    BY <1>2, <1>12, <2>1
  <2> QED
    BY <1>11, <2>5, <2>6, <2>7 DEF FrameInv
<1>14. CASE lost /\ (MagicIsApart => Stuck /\ AreAmong(delivered, sent, Len(sent)))
  <2>1. Stuck => Stuck'
    <3> SUFFICES ASSUME Stuck PROVE Stuck'
      OBVIOUS
    <3>1. Rest # <<>> /\ Rest[1] # Magic /\ reading = NoMessage
      BY <1>2 DEF Stuck
    <3>2. Rest' # <<>> /\ Rest'[1] = Rest[1]
      BY <1>3, <1>10, <3>1, FirstStays
    <3> QED
      BY <1>2, <3>1, <3>2 DEF Stuck
  <2>2. AreAmong(delivered, sent, Len(sent)) => AreAmong(delivered', sent', Len(sent'))
    <3> HAVE AreAmong(delivered, sent, Len(sent))
    <3>1. Len(sent') \in Nat /\ Len(sent) <= Len(sent')
      BY <1>4, <1>5
    <3> QED
      BY <1>2, <1>4, <1>5, <1>d, <3>1, AmongMore
  <2>3. lost' /\ (MagicIsApart => Stuck' /\ AreAmong(delivered', sent', Len(sent')))
    BY <1>2, <1>14, <2>1, <2>2
  <2> QED
    BY <1>11, <2>3 DEF FrameInv
<1> QED
  BY <1>13, <1>14 DEF FrameInv

\* The reader has taken message j + 1, rest follows; or its header, without a size.
Completed(rest, p, j) ==
    LET message == Sendable[sent[j + 1]]
        cells == reading.cells
    IN  /\ j \in Nat /\ j + 1 \in 1 .. Len(sent) /\ sent[j + 1] \in 1 .. Len(Sendable)
        /\ PayloadSize(message) \in Nat
        /\ cells[2] = message.type /\ cells[3] = PayloadSize(message)
        /\ Len(cells) = 4 + PayloadSize(message) =>
             /\ InStep(rest, Wires, p, j + 1, ~ closed)
             /\ Drop(cells, MessageHeaderSize) = Payload(message)
        /\ Len(cells) = 4 /\ PayloadSize(message) # 0 =>
             IF rest = <<>> THEN closed ELSE rest[1] = Payload(message)[1]

\* The reader has as many cells as the header says.
LEMMA CompleteFacts ==
    ASSUME CellsInv, NEW rest \in Seq(Nat), Rest = reading.cells \o rest,
           NEW p, NEW j, InStep(Rest, Wires, p, j, ~ closed), Len(reading.cells) = TotalSize
    PROVE  Completed(rest, p, j)
<1> DEFINE message == Sendable[sent[j + 1]]
           cells == reading.cells
           wire == Wires[j + 1]
           size == PayloadSize(message)
           whole == cells \o rest
<1>1. /\ cells \in Seq(Nat) /\ Len(cells) \in Nat /\ Len(cells) >= 4 /\ closed \in BOOLEAN
      /\ Wires \in Seq(Seq(Nat)) /\ Len(Wires) = Len(sent) /\ Len(sent) \in Nat
  <2>1. reading.header.size \in Nat /\ TotalSize = 4 + reading.header.size
    BY RestFacts DEF CellsInv, HeaderCell
  <2>2. Len(cells) \in Nat
    BY RestFacts
  <2> QED
    BY <2>1, <2>2, WiresFacts DEF CellsInv
<1>2. /\ whole \in Seq(Nat) /\ Len(whole) = Len(cells) + Len(rest) /\ Len(rest) \in Nat
      /\ \A i \in 1 .. Len(cells) + Len(rest) :
            whole[i] = IF i <= Len(cells) THEN cells[i] ELSE rest[i - Len(cells)]
  <2>1. cells \in Seq(Nat) /\ rest \in Seq(Nat)
    BY <1>1
  <2> QED
    BY ONLY <2>1, ConcatProperties, LenProperties
<1>3. Rest = whole /\ InStep(whole, Wires, p, j, ~ closed)
  OBVIOUS
<1> HIDE DEF whole
<1>4. whole # <<>>
  BY <1>1, <1>2, EmptySeq
<1>5. /\ j + 1 \in 1 .. Len(Wires)
      /\ \A k \in 1 .. Len(wire) : k <= Len(whole) => whole[k] = wire[k]
      /\ ~ closed => Len(wire) <= Len(whole)
  <2> DEFINE open == ~ closed
  <2>1. open \in BOOLEAN
    OBVIOUS
  <2>2. /\ whole \in Seq(Nat) /\ whole # <<>> /\ Wires \in Seq(Seq(Nat))
        /\ InStep(whole, Wires, p, j, open)
    BY <1>1, <1>2, <1>3, <1>4
  <2>n. ~ closed => open
    OBVIOUS
  <2> HIDE DEF open
  <2>4. /\ j + 1 \in 1 .. Len(Wires)
        /\ \A k \in 1 .. Len(Wires[j + 1]) : k <= Len(whole) => whole[k] = Wires[j + 1][k]
        /\ open => Len(Wires[j + 1]) <= Len(whole)
    BY ONLY <2>1, <2>2, StepFirst
  <2> QED
    BY <2>4, <2>n
<1>6. j \in Nat
  <2>1. j \in 0 .. Len(Wires)
    BY <1>1, <1>3, StepFacts
  <2> QED
    BY <2>1
<1>7. sent[j + 1] \in 1 .. Len(Sendable) /\ wire = OnWire(message) /\ j + 1 \in 1 .. Len(sent)
  BY <1>1, <1>5, WiresFacts DEF CellsInv
<1> HIDE DEF wire
<1>8. /\ size \in Nat /\ Len(wire) = 4 + size /\ Payload(message) \in Seq(Nat)
      /\ Len(Payload(message)) = size
      /\ wire[2] = message.type /\ wire[3] = size
      /\ \A k \in 1 .. size : wire[4 + k] = Payload(message)[k]
  BY <1>7, WireFacts
<1> HIDE DEF size, message, cells
<1>9. ASSUME NEW k \in 1 .. Len(cells), k <= Len(wire) PROVE cells[k] = wire[k]
  <2>1. k \in 1 .. Len(cells) + Len(rest) /\ k <= Len(whole) /\ k \in 1 .. Len(wire)
    BY <1>1, <1>2, <1>8, <1>9
  <2> QED
    BY <1>2, <1>5, <2>1
<1>10. cells[2] = message.type /\ cells[3] = size
  <2>1. 2 \in 1 .. Len(cells) /\ 3 \in 1 .. Len(cells) /\ 2 <= Len(wire) /\ 3 <= Len(wire)
    BY <1>1, <1>8
  <2> QED
    BY <1>8, <1>9, <2>1
<1>11. ASSUME Len(cells) = 4 + size
       PROVE  /\ InStep(rest, Wires, p, j + 1, ~ closed)
              /\ Drop(cells, MessageHeaderSize) = Payload(message)
  <2>1. InStep(rest, Wires, p, j + 1, ~ closed)
    <3>1. cells # <<>> /\ Len(cells) = Len(Wires[j + 1]) /\ (~ closed) \in BOOLEAN
      BY <1>1, <1>8, <1>11, EmptySeq DEF wire
    <3>2. InStep(cells \o rest, Wires, p, j, ~ closed)
      BY <1>3 DEF whole
    <3> QED
      BY <1>1, <3>1, <3>2, StepTaken
  <2> DEFINE payload == Drop(cells, MessageHeaderSize)
  <2>2. /\ payload \in Seq(Nat) /\ Len(payload) = size
        /\ \A i \in 1 .. size : payload[i] = cells[4 + i]
    <3>1. 4 \in 0 .. Len(cells) /\ Len(cells) - 4 = size
      BY <1>8, <1>11
    <3> QED
      BY <1>1, <3>1, CutFacts DEF MessageHeaderSize
  <2> HIDE DEF payload
  <2>3. ASSUME NEW i \in 1 .. size PROVE payload[i] = Payload(message)[i]
    <3>1. 4 + i \in 1 .. Len(cells) /\ 4 + i <= Len(wire)
      BY <1>8, <1>11
    <3> QED
      BY <1>8, <1>9, <2>2, <3>1
  <2>4. payload = Payload(message)
    BY <1>8, <2>2, <2>3, SeqEqual
  <2> QED
    BY <2>1, <2>4 DEF payload
<1>12. ASSUME Len(cells) = 4, size # 0
       PROVE  IF rest = <<>> THEN closed ELSE rest[1] = Payload(message)[1]
  <2>1. CASE rest = <<>>
    <3>1. Len(rest) = 0
      BY <2>1
    <3>2. ~ (Len(wire) <= Len(whole))
      BY <1>2, <1>8, <1>12, <3>1
    <3> QED
      BY <1>5, <2>1, <3>2
  <2>2. CASE rest # <<>>
    <3>1. Len(rest) \in Nat \ {0}
      BY <2>2, EmptySeq
    <3>2. 5 \in 1 .. Len(cells) + Len(rest) /\ ~ (5 <= Len(cells)) /\ 5 - Len(cells) = 1
      BY <1>12, <3>1
    <3>3. whole[5] = rest[1]
      BY <1>2, <3>2
    <3>4. 5 \in 1 .. Len(wire) /\ 5 <= Len(whole) /\ 1 \in 1 .. size /\ 4 + 1 = 5
      BY <1>2, <1>8, <1>12, <3>1
    <3> QED
      BY <1>5, <1>8, <2>2, <3>3, <3>4
  <2> QED
    BY <2>1, <2>2
<1> QED
  BY <1>6, <1>7, <1>8, <1>10, <1>11, <1>12 DEF Completed, size, message, cells

LEMMA AppendOwn ==
    ASSUME NEW list, list \in Seq({list[i] : i \in 1 .. Len(list)}), NEW entry
    PROVE  Append(list, entry) \in Seq({Append(list, entry)[i] : i \in 1 .. Len(Append(list, entry))})
<1> DEFINE S == {list[i] : i \in 1 .. Len(list)} \union {entry}
           long == Append(list, entry)
           T == {long[i] : i \in 1 .. Len(long)}
<1>1. list \in Seq(S) /\ entry \in S
  BY SeqMonotonic
<1> HIDE DEF S
<1>2. long \in Seq(S)
  BY <1>1, AppendProperties
<1> HIDE DEF long
<1>3. Len(long) \in Nat /\ long = [i \in 1 .. Len(long) |-> long[i]]
  BY <1>2, LenProperties
<1>4. \A i \in 1 .. Len(long) : long[i] \in T
  OBVIOUS
<1> HIDE DEF T
<1>5. [i \in 1 .. Len(long) |-> long[i]] \in Seq(T)
  BY <1>3, <1>4, IsASeq
<1>6. long \in Seq(T)
  BY <1>3, <1>5
<1> QED
  BY <1>6 DEF long, T

\* What the end of a message does to the lists of cells.
LEMMA FinishFacts ==
    ASSUME CellsInv, FinishMessage
    PROVE  /\ reading' = NoMessage /\ Rest' \in Seq(Nat) /\ Rest = reading.cells \o Rest'
           /\ Wires' = Wires /\ CellsInv'
<1>1. /\ reading' = NoMessage /\ sent' = sent /\ outgoing' = outgoing /\ closed' = closed
      /\ stream' = stream /\ arrived' = arrived /\ lost' = lost
  BY DEF FinishMessage, writer
<1>2. /\ reading' = [cells |-> reading'.cells, header |-> reading'.header]
      /\ reading'.cells = <<>> /\ reading'.header \in HeaderCell
  BY <1>1, NoMessageFacts
<1>3. /\ reading.cells \in Seq(Nat) /\ arrived \in Seq(Nat) /\ stream \in Seq(Nat)
      /\ outgoing \in Seq(Nat) /\ <<>> \in Seq(Nat) /\ Len(<<>>) = 0
  BY EmptySeq DEF CellsInv
<1>4. CellsInv'
  <2>1. TotalSize' \in Nat
    BY <1>2 DEF TotalSize, MessageHeaderSize, HeaderCell
  <2>2. Len(reading'.cells) <= TotalSize'
    BY <1>2, <1>3, <2>1
  <2>3. delivered' \in Seq({delivered'[i] : i \in 1 .. Len(delivered')})
    <3>1. PICK entry : delivered' = delivered \/ delivered' = Append(delivered, entry)
      BY DEF FinishMessage
    <3>2. delivered \in Seq({delivered[i] : i \in 1 .. Len(delivered)})
      BY DEF CellsInv
    <3>3. CASE delivered' = delivered
      BY <3>2, <3>3
    <3>4. CASE delivered' = Append(delivered, entry)
      <4>1. Append(delivered, entry)
              \in Seq({Append(delivered, entry)[i] : i \in 1 .. Len(Append(delivered, entry))})
        BY <3>2, AppendOwn
      <4> QED
        BY <3>4, <4>1
    <3> QED
      BY <3>1, <3>3, <3>4
  <2> QED
    BY <1>1, <1>2, <1>3, <2>2, <2>3 DEF CellsInv
<1>5. Seen' = arrived
  BY <1>1, <1>2, <1>3, ConcatEmptySeq DEF Seen
<1>6. Rest' = (arrived \o stream) \o outgoing
  BY <1>1, <1>5 DEF Rest
<1>7. Rest' \in Seq(Nat)
  <2>1. arrived \o stream \in Seq(Nat)
    BY <1>3, ConcatProperties
  <2> QED
    BY <1>3, <1>6, <2>1, ConcatProperties
<1>8. Rest = reading.cells \o Rest'
  <2> DEFINE a == reading.cells
             b == arrived \o stream
  <2>1. Rest = ((a \o arrived) \o stream) \o outgoing
    BY DEF Rest, Seen
  <2>a. a \in Seq(Nat) /\ arrived \in Seq(Nat) /\ stream \in Seq(Nat)
    BY <1>3
  <2>2. (a \o arrived) \o stream = a \o b
    BY ONLY <2>a, CellsAssociate
  <2>3. a \in Seq(Nat) /\ b \in Seq(Nat)
    BY <1>3, ConcatProperties
  <2>4. Rest' = b \o outgoing
    BY <1>6
  <2> HIDE DEF a, b
  <2>o. outgoing \in Seq(Nat)
    BY <1>3
  <2>5. (a \o b) \o outgoing = a \o (b \o outgoing)
    BY ONLY <2>o, <2>3, CellsAssociate
  <2>6. Rest = a \o Rest'
    BY <2>1, <2>2, <2>4, <2>5
  <2> QED
    BY <2>6 DEF a
<1>9. Wires' = Wires
  BY <1>1 DEF Wires
<1> QED
  BY <1>1, <1>4, <1>7, <1>8, <1>9

LEMMA FinishMessageKeeps == FrameInv /\ FinishMessage => FrameInv'
<1> SUFFICES ASSUME FrameInv, FinishMessage PROVE FrameInv'
  OBVIOUS
<1>1. CellsInv
  BY DEF FrameInv
<1> DEFINE type == reading.header.type
           payload == Drop(reading.cells, MessageHeaderSize)
           checked == checkMessage(reading.header, reading.cells)
           entry == [type |-> type, content |-> Deserialized(type, payload)]
           n == Len(reading.cells)
<1>2. /\ reading # NoMessage /\ (~ Incomplete \/ Ended)
      /\ sent' = sent /\ closed' = closed /\ lost' = lost
      /\ delivered' = IF checked /\ filterMessage(type) THEN Append(delivered, entry)
                      ELSE delivered
  BY DEF FinishMessage, writer
<1>3. /\ reading' = NoMessage /\ Rest' \in Seq(Nat) /\ Rest = reading.cells \o Rest'
      /\ Wires' = Wires /\ CellsInv'
  BY <1>1, FinishFacts
<1>4. /\ n \in Nat /\ TotalSize \in Nat /\ TotalSize = 4 + reading.header.size
      /\ reading.header.size \in Nat /\ n <= TotalSize
      /\ Len(Seen) = n + Len(arrived) /\ Len(arrived) \in Nat
  BY <1>1, RestFacts DEF CellsInv, HeaderCell
<1>5. /\ Wires \in Seq(Seq(Nat)) /\ Len(Wires) = Len(sent) /\ Len(sent) \in Nat
  BY <1>1, WiresFacts DEF CellsInv
<1>6. Len(delivered) \in Nat /\ delivered \in Seq({delivered[i] : i \in 1 .. Len(delivered)})
  BY <1>1, LenProperties DEF CellsInv
<1>7. checked => n = TotalSize
  BY <1>4 DEF checkMessage, MessageHeaderSize
<1>8. \A i \in Nat, k \in Nat : AreAmong(delivered, sent, i) /\ i <= k => AreAmong(delivered, sent, k)
  BY <1>6, AmongMore
<1>9. CASE lost /\ (MagicIsApart => Stuck /\ AreAmong(delivered, sent, Len(sent)))
  <2>1. ~ Stuck
    BY <1>2 DEF Stuck
  <2> QED
    BY <1>2, <1>3, <1>9, <2>1 DEF FrameInv
<1>10. CASE \E p, j : /\ InStep(Rest, Wires, p, j, ~ closed)
                      /\ reading = NoMessage \/ HeaderSeen
                      /\ AreAmong(delivered, sent, j)
  <2>1. PICK p, j : /\ InStep(Rest, Wires, p, j, ~ closed)
                    /\ HeaderSeen
                    /\ AreAmong(delivered, sent, j)
    BY <1>2, <1>10
  <2>j. j \in Nat /\ j <= Len(sent)
    <3>1. j \in 0 .. Len(Wires)
      BY <1>5, <2>1, StepFacts
    <3> QED
      BY <1>5, <3>1
  <2>2. ASSUME Incomplete PROVE FrameInv'
    <3>1. ~ checked
      BY <1>4, <1>7, <2>2 DEF Incomplete
    <3>2. delivered' = delivered
      BY <1>2, <3>1
    <3>3. /\ closed /\ stream = <<>> /\ arrived = <<>> /\ outgoing = <<>>
      BY <1>1, <1>2, <2>2 DEF Ended, CellsInv
    <3>4. Rest' = <<>>
      <4>1. /\ reading'.cells = <<>> /\ arrived' = <<>> /\ stream' = <<>> /\ outgoing' = <<>>
        BY <1>3, <3>3, NoMessageFacts DEF FinishMessage, writer
      <4> QED
        BY <4>1 DEF Rest, Seen
    <3>5. InStep(<<>>, Wires, p, Len(Wires), FALSE)
      BY <1>5, <2>1, StepEnds
    <3>6. ~ closed' <=> FALSE
      BY <1>2, <3>3
    <3>7. InStep(Rest', Wires', p, Len(Wires), ~ closed')
      BY <1>3, <3>4, <3>5, <3>6 DEF InStep
    <3>8. AreAmong(delivered', sent', Len(Wires))
      BY <1>2, <1>5, <1>8, <2>1, <2>j, <3>2
    <3> QED
      BY <1>3, <3>7, <3>8 DEF FrameInv
  <2>3. ASSUME ~ Incomplete PROVE FrameInv'
    <3>1. n = TotalSize
      BY <1>4, <2>3 DEF Incomplete
    <3> DEFINE message == Sendable[sent[j + 1]]
               size == PayloadSize(message)
    <3>2. /\ j + 1 \in 1 .. Len(sent) /\ sent[j + 1] \in 1 .. Len(Sendable)
          /\ size \in Nat
          /\ reading.cells[2] = message.type /\ reading.cells[3] = size
          /\ n = 4 + size => /\ InStep(Rest', Wires, p, j + 1, ~ closed)
                             /\ payload = Payload(message)
          /\ n = 4 /\ size # 0 => IF Rest' = <<>> THEN closed ELSE Rest'[1] = Payload(message)[1]
      <4>1. PICK rest \in Seq(Nat) : rest = Rest'
        BY <1>3
      <4>2. Rest = reading.cells \o rest /\ InStep(Rest, Wires, p, j, ~ closed)
        BY <1>3, <2>1, <4>1
      <4>c. Completed(rest, p, j)
        BY ONLY <1>1, <3>1, <4>1, <4>2, CompleteFacts
      <4>3. /\ j + 1 \in 1 .. Len(sent) /\ sent[j + 1] \in 1 .. Len(Sendable)
            /\ size \in Nat
            /\ reading.cells[2] = message.type /\ reading.cells[3] = size
            /\ n = 4 + size => /\ InStep(rest, Wires, p, j + 1, ~ closed)
                               /\ payload = Payload(message)
            /\ n = 4 /\ size # 0 => IF rest = <<>> THEN closed ELSE rest[1] = Payload(message)[1]
        BY <4>c DEF Completed
      <4> QED
        BY <4>1, <4>3
    <3>3. IsMessage(message)
      BY <3>2, SendableAssumption
    <3> HIDE DEF size, message, payload, entry, checked
    <3>4. ASSUME n = 4 + size, AreAmong(delivered', sent', j + 1) PROVE FrameInv'
      <4>1. InStep(Rest', Wires', p, j + 1, ~ closed')
        BY <1>2, <1>3, <3>2, <3>4
      <4> QED
        BY <1>3, <3>4, <4>1 DEF FrameInv
    <3>5. AreAmong(delivered, sent, j + 1) /\ AreAmong(delivered, sent, Len(sent))
      <4>1. j + 1 \in Nat /\ j <= j + 1
        BY <2>j
      <4> QED
        BY <1>5, <1>8, <2>1, <2>j, <4>1
    <3>6. CASE /\ Len(Seen) >= 3 /\ reading.header.type = Seen[2] /\ reading.header.size = Seen[3]
      <4>1. Seen[2] = reading.cells[2] /\ Seen[3] = reading.cells[3]
        <5> DEFINE c == reading.cells
                   all == c \o arrived
        <5>1. c \in Seq(Nat) /\ arrived \in Seq(Nat)
          BY <1>1 DEF CellsInv
        <5>2. \A i \in 1 .. Len(c) + Len(arrived) :
                all[i] = IF i <= Len(c) THEN c[i] ELSE arrived[i - Len(c)]
          BY ONLY <5>1, ConcatProperties
        <5>3. Seen = all
          BY DEF Seen
        <5> HIDE DEF all
        <5>4. 2 \in 1 .. n + Len(arrived) /\ 3 \in 1 .. n + Len(arrived) /\ 2 <= n /\ 3 <= n
          <6>1. n \in Nat /\ n >= 4 /\ Len(arrived) \in Nat
            BY <1>4, <3>1
          <6> HIDE DEF n
          <6> QED
            BY ONLY <6>1
        <5> QED
          BY <5>2, <5>3, <5>4
      <4>2. type = message.type /\ n = 4 + size
        BY <1>4, <3>1, <3>2, <3>6, <4>1
      <4>3. AreAmong(delivered', sent', j + 1)
        <5>1. CASE checked /\ filterMessage(type)
          <6>1. message.type # ACK
            BY <4>2, <5>1 DEF filterMessage, ACK, VERSION, BLOCKPROPOSAL, TXSETPROPOSAL
          <6>2. payload = Payload(message)
            BY <3>2, <4>2
          <6>3. /\ Deserialized(message.type, payload).ok
                /\ Deserialized(message.type, payload).value = AsRead(message)
            BY <3>3, <6>1, <6>2, MessageRead
          <6>4. /\ entry.type = message.type /\ entry.content.ok
                /\ entry.content.value = AsRead(message)
            BY <4>2, <6>3 DEF entry
          <6>5. AreAmong(Append(delivered, entry), sent, j + 1)
            BY <1>6, <2>1, <2>j, <6>4, AmongAppended DEF message
          <6>6. delivered' = Append(delivered, entry)
            BY <1>2, <5>1
          <6> QED
            BY <1>2, <6>5, <6>6
        <5>2. CASE ~ (checked /\ filterMessage(type))
          BY <1>2, <3>5, <5>2
        <5> QED
          BY <5>1, <5>2
      <4> QED
        BY <3>4, <4>2, <4>3
    <3>7. CASE lost /\ reading.header.size = 0 /\ reading.header.checkSum = 0
      <4>1. n = 4
        BY <1>4, <3>1, <3>7
      <4>2. ~ checked
        <5>1. SubSeq(reading.cells, MessageHeaderSize + 1, Len(reading.cells)) = <<>>
          <6>1. reading.cells \in Seq(Nat) /\ 4 \in 0 .. Len(reading.cells)
            BY <1>1, <4>1 DEF CellsInv
          <6>2. Drop(reading.cells, 4) \in Seq(Nat) /\ Len(Drop(reading.cells, 4)) = 0
            <7> DEFINE c == reading.cells
            <7>1. c \in Seq(Nat) /\ 4 \in 0 .. Len(c) /\ Len(c) = 4
              BY <4>1, <6>1
            <7> HIDE DEF c
            <7>2. Drop(c, 4) \in Seq(Nat) /\ Len(Drop(c, 4)) = Len(c) - 4
              BY ONLY <7>1, CutFacts
            <7> QED
              BY <7>1, <7>2 DEF c
          <6>3. Drop(reading.cells, 4) = <<>>
            BY <6>2, EmptySeq
          <6> QED
            BY <6>3 DEF Drop, MessageHeaderSize
        <5>2. Magic # 0
          BY HashAssumption
        <5> QED
          BY <3>7, <5>1, <5>2, CheckSumEmpty DEF checked, checkMessage
      <4>3. delivered' = delivered
        BY <1>2, <4>2
      <4>4. CASE size = 0
        <5>1. n = 4 + size
          BY <4>1, <4>4
        <5> QED
          BY <1>2, <3>4, <3>5, <4>3, <5>1
      <4>5. CASE size # 0
        <5>1. MagicIsApart => Stuck'
          <6> HAVE MagicIsApart
          <6>1. IF Rest' = <<>> THEN closed ELSE Rest'[1] = Payload(message)[1]
            BY <3>2, <4>1, <4>5
          <6>2. 1 \in 1 .. size
            BY <3>2, <4>5
          <6>3. Payload(message)[1] # Magic
            BY <3>2, <6>2 DEF MagicIsApart, message, size
          <6> QED
            BY <1>2, <1>3, <6>1, <6>3 DEF Stuck
        <5>2. lost' /\ (MagicIsApart => Stuck' /\ AreAmong(delivered', sent', Len(sent')))
          BY <1>2, <3>5, <3>7, <4>3, <5>1
        <5> QED
          BY <1>3, <5>2 DEF FrameInv
      <4> QED
        BY <4>4, <4>5
    <3> QED
      BY <2>1, <3>6, <3>7 DEF HeaderSeen
  <2> QED
    BY <2>2, <2>3
<1> QED
  BY <1>9, <1>10 DEF FrameInv

LEMMA FrameStep == FrameInv /\ [Next]_vars => FrameInv'
<1> SUFFICES ASSUME FrameInv, [Next]_vars PROVE FrameInv'
  OBVIOUS
<1>1. CASE \E m \in 1 .. Len(Sendable) : SendMessage(m)
  BY <1>1, SendMessageKeeps
<1>2. CASE SendFragment
  BY <1>2, SendFragmentKeeps
<1>3. CASE Shutdown
  BY <1>3, ShutdownKeeps
<1>4. CASE \E n \in 1 .. Len(stream) : Arrive(n)
  <2>1. PICK n \in 1 .. Len(stream) : Arrive(n)
    BY <1>4
  <2> QED
    BY <2>1, ArriveKeeps
<1>5. CASE PeekForHeader
  BY <1>5, PeekForHeaderKeeps
<1>6. CASE PeekEnd
  BY <1>6, NothingRead DEF PeekEnd, writer
<1>7. CASE ReceiveFragment
  BY <1>7, ReceiveFragmentKeeps
<1>8. CASE FinishMessage
  BY <1>8, FinishMessageKeeps
<1>9. CASE UNCHANGED vars
  BY <1>9, NothingRead DEF vars, writer, reader
<1> QED
  BY <1>1, <1>2, <1>3, <1>4, <1>5, <1>6, <1>7, <1>8, <1>9 DEF Next, Receive

\* The inductive invariant of one direction of a connection, for every list of
\* messages, size of fragments and pieces in which the stream delivers the cells that
\* receiveMessage asks for.
THEOREM FramesInductive == Spec => []FrameInv
BY InitFrame, FrameStep, PTL DEF Spec

LEMMA AtHeader == FrameInv => ReaderKeepsStep
<1> SUFFICES ASSUME FrameInv, reading = NoMessage, ~ lost, arrived # <<>>
             PROVE  arrived[1] = Magic
  BY DEF ReaderKeepsStep
<1>1. CellsInv
  BY DEF FrameInv
<1>2. PICK p, j : InStep(Rest, Wires, p, j, ~ closed)
  BY DEF FrameInv
<1>3. /\ Wires \in Seq(Seq(Nat)) /\ Len(Wires) = Len(sent)
      /\ \A i \in 1 .. Len(sent) : /\ sent[i] \in 1 .. Len(Sendable)
                                   /\ Wires[i] = OnWire(Sendable[sent[i]])
  BY <1>1, WiresFacts DEF CellsInv
<1>4. arrived \in Seq(Nat) /\ stream \in Seq(Nat) /\ outgoing \in Seq(Nat) /\ closed \in BOOLEAN
  BY <1>1 DEF CellsInv
<1>5. Seen = arrived
  <2>1. reading.cells = <<>>
    BY NoMessageFacts
  <2> QED
    BY <1>4, <2>1, ConcatEmptySeq DEF Seen
<1>6. Rest \in Seq(Nat) /\ Rest # <<>> /\ Rest[1] = arrived[1]
  <2> DEFINE before == arrived \o stream
  <2>1. before \in Seq(Nat) /\ before # <<>> /\ before[1] = arrived[1]
    BY <1>4, FirstStays, ConcatProperties
  <2> HIDE DEF before
  <2>2. before \o outgoing # <<>> /\ (before \o outgoing)[1] = before[1]
    BY <1>4, <2>1, FirstStays
  <2>3. Rest = before \o outgoing
    BY <1>5 DEF Rest, before
  <2> QED
    BY <1>1, <2>1, <2>2, <2>3, RestFacts
<1> DEFINE open == ~ closed
<1>7. open \in BOOLEAN /\ InStep(Rest, Wires, p, j, open)
  BY <1>2
<1> HIDE DEF open
<1>8. /\ j + 1 \in 1 .. Len(Wires)
      /\ \A k \in 1 .. Len(Wires[j + 1]) : k <= Len(Rest) => Rest[k] = Wires[j + 1][k]
  BY ONLY <1>3, <1>6, <1>7, StepFirst
<1>9. /\ Wires[j + 1][1] = Magic /\ 1 \in 1 .. Len(Wires[j + 1]) /\ 1 <= Len(Rest)
  <2>1. j + 1 \in 1 .. Len(sent)
    BY <1>3, <1>8
  <2> DEFINE m == sent[j + 1]
  <2>2. m \in 1 .. Len(Sendable) /\ Wires[j + 1] = OnWire(Sendable[m])
    BY <1>3, <2>1
  <2> HIDE DEF m
  <2>3. /\ OnWire(Sendable[m])[1] = Magic /\ PayloadSize(Sendable[m]) \in Nat
        /\ Len(OnWire(Sendable[m])) = 4 + PayloadSize(Sendable[m])
    BY <2>2, WireFacts
  <2>4. Len(Rest) \in Nat \ {0}
    BY <1>6, EmptySeq
  <2> QED
    BY <2>2, <2>3, <2>4
<1> QED
  BY <1>6, <1>8, <1>9

\* Whatever pieces the stream delivers and wherever the writer stops, the reader stands
\* at the header of a message whenever it begins one, unless it once peeked a header
\* that had not arrived whole: what was dropped is dropped whole.
THEOREM ReaderStaysInStep == Spec => []ReaderKeepsStep
BY FramesInductive, AtHeader, PTL

LEMMA AmongSent ==
    ASSUME FrameInv, ~ lost \/ MagicIsApart
    PROVE  DeliveredIsSent
<1>1. /\ sent \in Seq(1 .. Len(Sendable)) /\ Len(delivered) \in Nat
  BY LenProperties DEF FrameInv, CellsInv
<1>2. AreAmong(delivered, sent, Len(sent))
  <2>1. CASE \E p, j : /\ InStep(Rest, Wires, p, j, ~ closed)
                       /\ reading = NoMessage \/ HeaderSeen
                       /\ AreAmong(delivered, sent, j)
    <3>1. PICK p, j : InStep(Rest, Wires, p, j, ~ closed) /\ AreAmong(delivered, sent, j)
      BY <2>1
    <3>2. Wires \in Seq(Seq(Nat)) /\ Len(Wires) = Len(sent) /\ Len(sent) \in Nat
      BY <1>1, WiresFacts
    <3>3. j \in 0 .. Len(Wires)
      BY <3>1, <3>2, StepFacts
    <3>4. j \in Nat /\ j <= Len(sent)
      BY <3>2, <3>3
    <3> QED
      BY <1>1, <3>1, <3>2, <3>4, AmongMore
  <2>2. CASE lost /\ (MagicIsApart => Stuck /\ AreAmong(delivered, sent, Len(sent)))
    BY <2>2
  <2> QED
    BY <2>1, <2>2 DEF FrameInv
<1> QED
  BY <1>2 DEF AreAmong, DeliveredIsSent

\* As long as no header was peeked half, what is delivered was sent, whole, in order
\* and none of it twice.
THEOREM DeliveredInStep == Spec => [](lost \/ DeliveredIsSent)
<1>1. FrameInv => lost \/ DeliveredIsSent
  BY AmongSent
<1> QED
  BY <1>1, FramesInductive, PTL

\* If no payload holds the magic number, that is so for ever: a reader that takes a
\* payload for a header never reads on.  (If one does, what a payload holds may be read
\* as a message, and only the check sum stands against it.)
THEOREM DeliveredWasSent ==
    ASSUME MagicIsApart
    PROVE  Spec => []DeliveredIsSent
<1>1. FrameInv => DeliveredIsSent
  BY AmongSent
<1> QED
  BY <1>1, FramesInductive, PTL
=============================================================================
