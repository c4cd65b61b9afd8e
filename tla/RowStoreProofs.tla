--------------------------- MODULE RowStoreProofs ---------------------------
(***************************************************************************)
(* RowStore: the keys of rows never collide, and a scan of a table whose   *)
(* names have no slash in them shows its rows, whole and in order; for     *)
(* every set of tables, of names and of rows.                              *)
(***************************************************************************)
EXTENDS RowStore, Integers, SequenceTheorems, FiniteSetTheorems,
        NaturalsInduction, WellFoundedInduction, TLAPS

-----------------------------------------------------------------------------
(* What Sorted makes of a finite set and an order of it.                   *)

\* R orders S, and what of S is below x.
IsOrder(S, R) ==
    /\ \A x \in S : <<x, x>> \notin R
    /\ \A x, y, z \in S : <<x, y>> \in R /\ <<y, z>> \in R => <<x, z>> \in R
    /\ \A x, y \in S : x = y \/ <<x, y>> \in R \/ <<y, x>> \in R

Below(S, R, x) == {y \in S : <<y, x>> \in R}

\* l lists the n elements of S from the lowest to the highest.
Lists(l, n, S, R) ==
    /\ l \in [1 .. n -> S]
    /\ \A x \in S : \E i \in 1 .. n : l[i] = x
    /\ \A i, j \in 1 .. n : i < j => <<l[i], l[j]>> \in R

\* What Sorted is made of.
ByRank(S, R) ==
    [n \in 1 .. Cardinality(S) |->
        CHOOSE x \in S : Cardinality(Below(S, R, x)) = n - 1]

LEMMA RanksAreDistinct ==
    ASSUME NEW S, IsFiniteSet(S), NEW R, IsOrder(S, R)
    PROVE  /\ \A x \in S : Cardinality(Below(S, R, x)) \in 0 .. Cardinality(S) - 1
           /\ \A x, y \in S : <<x, y>> \in R =>
                 Cardinality(Below(S, R, x)) < Cardinality(Below(S, R, y))
<1>1. ASSUME NEW x \in S
      PROVE  /\ IsFiniteSet(Below(S, R, x))
             /\ Cardinality(Below(S, R, x)) \in 0 .. Cardinality(S) - 1
  <2>1. /\ Below(S, R, x) \in SUBSET S /\ x \notin Below(S, R, x)
    BY DEF Below, IsOrder
  <2>2. /\ IsFiniteSet(Below(S, R, x))
        /\ Cardinality(Below(S, R, x)) <= Cardinality(S)
        /\ Cardinality(Below(S, R, x)) # Cardinality(S)
    BY <2>1, FS_Subset
  <2>3. Cardinality(Below(S, R, x)) \in Nat /\ Cardinality(S) \in Nat
    BY <2>2, FS_CardinalityType
  <2>4. QED
    BY <2>2, <2>3
<1>2. ASSUME NEW x \in S, NEW y \in S, <<x, y>> \in R
      PROVE  Cardinality(Below(S, R, x)) < Cardinality(Below(S, R, y))
  <2>1. /\ Below(S, R, x) \in SUBSET Below(S, R, y)
        /\ x \in Below(S, R, y) /\ x \notin Below(S, R, x)
    BY <1>2 DEF Below, IsOrder
  <2>2. /\ Cardinality(Below(S, R, x)) <= Cardinality(Below(S, R, y))
        /\ Cardinality(Below(S, R, x)) # Cardinality(Below(S, R, y))
    BY <1>1, <2>1, FS_Subset
  <2>3. /\ Cardinality(Below(S, R, x)) \in Nat
        /\ Cardinality(Below(S, R, y)) \in Nat
    BY <1>1, FS_CardinalityType
  <2>4. QED
    BY <2>2, <2>3
<1>3. QED
  BY <1>1, <1>2

\* A finite set is listed by the ranks of its elements.
LEMMA RanksList ==
    ASSUME NEW S, IsFiniteSet(S), NEW R, IsOrder(S, R)
    PROVE  Lists(ByRank(S, R), Cardinality(S), S, R)
<1> DEFINE n == Cardinality(S)
           rank == [x \in S |-> Cardinality(Below(S, R, x)) + 1]
           list == ByRank(S, R)
<1>1. n \in Nat /\ IsFiniteSet(1 .. n) /\ Cardinality(1 .. n) = n
  BY FS_CardinalityType, FS_Interval
<1>2. /\ rank \in [S -> 1 .. n]
      /\ \A x, y \in S : <<x, y>> \in R => rank[x] < rank[y]
  <2>1. \A x \in S : Cardinality(Below(S, R, x)) \in 0 .. n - 1
    BY RanksAreDistinct
  <2>2. \A x \in S : rank[x] = Cardinality(Below(S, R, x)) + 1 /\ rank[x] \in 1 .. n
    BY <1>1, <2>1
  <2>3. \A x, y \in S : <<x, y>> \in R =>
            Cardinality(Below(S, R, x)) < Cardinality(Below(S, R, y))
    BY RanksAreDistinct
  <2>4. \A x, y \in S : <<x, y>> \in R => rank[x] < rank[y]
    BY <2>1, <2>2, <2>3
  <2>5. QED
    BY <2>2, <2>4
<1>3. \A x, y \in S : rank[x] = rank[y] => x = y
  <2> HIDE DEF rank
  <2> SUFFICES ASSUME NEW x \in S, NEW y \in S, rank[x] = rank[y]
               PROVE  x = y
    OBVIOUS
  <2>1. rank[x] \in Int /\ rank[y] \in Int
    BY <1>2
  <2>2. <<x, y>> \notin R /\ <<y, x>> \notin R
    BY <1>2, <2>1
  <2>3. QED
    BY <2>2 DEF IsOrder
<1>4. list = [i \in 1 .. n |-> CHOOSE x \in S : rank[x] = i]
  <2>1. ASSUME NEW i \in 1 .. n, NEW x \in S
        PROVE  Cardinality(Below(S, R, x)) = i - 1 <=> rank[x] = i
    <3>1. Cardinality(Below(S, R, x)) \in 0 .. n - 1
      BY RanksAreDistinct
    <3>2. QED
      BY <1>1, <3>1
  <2> HIDE DEF rank
  <2>2. ASSUME NEW i \in 1 .. n
        PROVE  (CHOOSE x \in S : Cardinality(Below(S, R, x)) = i - 1)
                   = CHOOSE x \in S : rank[x] = i
    BY <2>1
  <2>3. QED
    BY <2>2 DEF ByRank
<1> HIDE DEF rank, list, n
<1>5. rank \in Injection(S, 1 .. n)
  BY <1>2, <1>3 DEF Injection, IsInjective
<1>6. rank \in Surjection(S, 1 .. n)
  BY <1>1, <1>5, FS_Injection DEF n
<1>7. \A i \in 1 .. n : \E x \in S : rank[x] = i
  BY <1>6 DEF Surjection
<1>8. /\ list \in [1 .. n -> S]
      /\ \A i \in 1 .. n : rank[list[i]] = i
  BY <1>4, <1>7
<1>9. \A x \in S : \E i \in 1 .. n : list[i] = x
  BY <1>2, <1>3, <1>8
<1>10. ASSUME NEW i \in 1 .. n, NEW j \in 1 .. n, i < j
       PROVE  <<list[i], list[j]>> \in R
  <2>1. list[i] \in S /\ list[j] \in S /\ rank[list[i]] = i /\ rank[list[j]] = j
    BY <1>8
  <2>2. ~(j < i) /\ i # j
    BY <1>10
  <2>3. ~(<<list[j], list[i]>> \in R)
    BY <1>2, <2>1, <2>2
  <2>4. QED
    BY <2>1, <2>2, <2>3 DEF IsOrder
<1>11. QED
  BY <1>8, <1>9, <1>10 DEF Lists, list, n

\* There is no other list.
LEMMA ListsAreRanks ==
    ASSUME NEW S, NEW R, IsOrder(S, R), NEW n \in Nat, NEW l, Lists(l, n, S, R)
    PROVE  IsFiniteSet(S) /\ Cardinality(S) = n /\ l = ByRank(S, R)
<1>1. /\ l \in [1 .. n -> S]
      /\ \A x \in S : \E i \in 1 .. n : l[i] = x
      /\ \A i, j \in 1 .. n : i < j => <<l[i], l[j]>> \in R
  BY DEF Lists
<1>2. \A i, j \in 1 .. n : l[i] = l[j] => i = j
  <2> SUFFICES ASSUME NEW i \in 1 .. n, NEW j \in 1 .. n, l[i] = l[j], i # j
               PROVE  FALSE
    OBVIOUS
  <2>1. i < j \/ j < i
    OBVIOUS
  <2>2. l[i] \in S /\ <<l[i], l[i]>> \in R
    BY <1>1, <2>1
  <2>3. QED
    BY <2>2 DEF IsOrder
<1>3. l \in Bijection(1 .. n, S)
  BY <1>1, <1>2 DEF Bijection, Injection, Surjection, IsInjective
<1>4. ExistsBijection(1 .. n, S)
  BY <1>3 DEF ExistsBijection
<1>5. IsFiniteSet(S) /\ Cardinality(S) = n
  BY <1>4, FS_NatBijection, FS_CountingElements
<1>6. ASSUME NEW i \in 1 .. n
      PROVE  Cardinality(Below(S, R, l[i])) = i - 1
  <2> DEFINE f == [j \in 1 .. i - 1 |-> l[j]]
             T == Below(S, R, l[i])
  <2>1. \A j \in 1 .. i - 1 : j \in 1 .. n /\ j < i
    OBVIOUS
  <2>2. \A j \in 1 .. i - 1 : l[j] \in T
    BY <1>1, <2>1 DEF Below
  <2>3. ASSUME NEW x \in T
        PROVE  \E j \in 1 .. i - 1 : l[j] = x
    <3>1. x \in S /\ <<x, l[i]>> \in R /\ l[i] \in S
      BY <1>1 DEF Below
    <3>2. PICK j \in 1 .. n : l[j] = x
      BY <1>1, <3>1
    <3>3. j # i
      BY <3>1, <3>2 DEF IsOrder
    <3>4. ~(i < j)
      <4> SUFFICES ASSUME i < j PROVE FALSE
        OBVIOUS
      <4>1. <<l[i], x>> \in R
        BY <1>1, <3>2
      <4>2. <<x, x>> \in R
        BY <3>1, <4>1 DEF IsOrder
      <4>3. QED
        BY <3>1, <4>2 DEF IsOrder
    <3>5. j \in 1 .. i - 1
      BY <3>3, <3>4
    <3>6. QED
      BY <3>2, <3>5
  <2> HIDE DEF T
  <2>4. f \in Bijection(1 .. i - 1, T)
    <3>1. f \in [1 .. i - 1 -> T] /\ \A j \in 1 .. i - 1 : f[j] = l[j]
      BY <2>2
    <3>2. \A j, k \in 1 .. i - 1 : f[j] = f[k] => j = k
      BY <1>2, <2>1, <3>1
    <3> HIDE DEF f
    <3>3. \A x \in T : \E j \in 1 .. i - 1 : f[j] = x
      BY <2>3, <3>1
    <3>4. QED
      BY <3>1, <3>2, <3>3 DEF Bijection, Injection, Surjection, IsInjective
  <2>5. ExistsBijection(1 .. i - 1, T) /\ i - 1 \in Nat
    BY <2>4 DEF ExistsBijection
  <2>6. QED
    BY <2>5, FS_CountingElements DEF T
<1>7. ASSUME NEW i \in 1 .. n
      PROVE  (CHOOSE x \in S : Cardinality(Below(S, R, x)) = i - 1) = l[i]
  <2>1. l[i] \in S /\ Cardinality(Below(S, R, l[i])) = i - 1
    BY <1>1, <1>6
  <2>2. ASSUME NEW x \in S, Cardinality(Below(S, R, x)) = i - 1
        PROVE  x = l[i]
    <3>1. PICK j \in 1 .. n : l[j] = x
      BY <1>1
    <3>2. Cardinality(Below(S, R, x)) = j - 1
      BY <1>6, <3>1
    <3>3. j = i
      BY <2>2, <3>2
    <3>4. QED
      BY <3>1, <3>3
  <2>3. QED
    BY <2>1, <2>2
<1>8. ByRank(S, R) = [i \in 1 .. n |-> l[i]]
  BY <1>5, <1>7 DEF ByRank
<1>9. QED
  BY <1>1, <1>5, <1>8

KeyOrderOn(S) == {pair \in S \X S : Before(pair[1], pair[2])}
NumberOrderOn(S) == {pair \in S \X S : pair[1] < pair[2]}

LEMMA SortedKeys ==
    ASSUME NEW S
    PROVE  Sorted(S, Before) = ByRank(S, KeyOrderOn(S))
<1>1. ASSUME NEW x \in S
      PROVE  {y \in S : Before(y, x)} = Below(S, KeyOrderOn(S), x)
  BY DEF Below, KeyOrderOn
<1>2. ASSUME NEW n, NEW x \in S
      PROVE  Cardinality({y \in S : Before(y, x)}) = n - 1
                 <=> Cardinality(Below(S, KeyOrderOn(S), x)) = n - 1
  BY <1>1
<1> DEFINE sorted(n) == CHOOSE x \in S : Cardinality({y \in S : Before(y, x)}) = n - 1
           ranked(n) ==
               CHOOSE x \in S : Cardinality(Below(S, KeyOrderOn(S), x)) = n - 1
<1>3. \A n : sorted(n) = ranked(n)
  BY <1>2
<1>4. Sorted(S, Before) = [n \in 1 .. Cardinality(S) |-> sorted(n)]
  BY DEF Sorted
<1>5. ByRank(S, KeyOrderOn(S)) = [n \in 1 .. Cardinality(S) |-> ranked(n)]
  BY DEF ByRank
<1> HIDE DEF sorted, ranked
<1>6. QED
  BY <1>3, <1>4, <1>5

LEMMA SortedNumbers ==
    ASSUME NEW S
    PROVE  Sorted(S, <) = ByRank(S, NumberOrderOn(S))
<1>1. ASSUME NEW x \in S
      PROVE  {y \in S : y < x} = Below(S, NumberOrderOn(S), x)
  BY DEF Below, NumberOrderOn
<1>2. ASSUME NEW n, NEW x \in S
      PROVE  Cardinality({y \in S : y < x}) = n - 1
                 <=> Cardinality(Below(S, NumberOrderOn(S), x)) = n - 1
  BY <1>1
<1> DEFINE sorted(n) == CHOOSE x \in S : Cardinality({y \in S : y < x}) = n - 1
           ranked(n) ==
               CHOOSE x \in S : Cardinality(Below(S, NumberOrderOn(S), x)) = n - 1
<1>3. \A n : sorted(n) = ranked(n)
  BY <1>2
<1>4. Sorted(S, <) = [n \in 1 .. Cardinality(S) |-> sorted(n)]
  BY DEF Sorted
<1>5. ByRank(S, NumberOrderOn(S)) = [n \in 1 .. Cardinality(S) |-> ranked(n)]
  BY DEF ByRank
<1> HIDE DEF sorted, ranked
<1>6. QED
  BY <1>3, <1>4, <1>5

LEMMA NumbersAreOrdered ==
    ASSUME NEW S \in SUBSET Nat
    PROVE  IsOrder(S, NumberOrderOn(S))
BY DEF IsOrder, NumberOrderOn

-----------------------------------------------------------------------------
(* The order of keys.                                                      *)

\* x and y are the same before position i, where y has a character and x none
\* or a lower one.
LessAt(x, y, i) ==
    /\ i \in 1 .. Len(y) /\ i <= Len(x) + 1
    /\ \A j \in 1 .. i - 1 : x[j] = y[j]
    /\ i <= Len(x) => x[i] < y[i]

LEMMA BeforeIsLess ==
    ASSUME NEW x \in Seq(Nat), NEW y \in Seq(Nat)
    PROVE  Before(x, y) <=> \E i \in Nat : LessAt(x, y, i)
<1>1. /\ Len(x) \in Nat /\ Len(y) \in Nat
      /\ DOMAIN x = 1 .. Len(x) /\ DOMAIN y = 1 .. Len(y)
      /\ \A i \in 1 .. Len(x) : x[i] \in Nat
      /\ \A i \in 1 .. Len(y) : y[i] \in Nat
  OBVIOUS
<1>2. ASSUME NEW n \in 0 .. Len(x), n <= Len(y)
      PROVE  SubSeq(x, 1, n) = SubSeq(y, 1, n)
                <=> \A j \in 1 .. n : x[j] = y[j]
  <2>1. /\ SubSeq(x, 1, n) \in Seq(Nat) /\ Len(SubSeq(x, 1, n)) = n
        /\ \A j \in 1 .. n : SubSeq(x, 1, n)[j] = x[j]
    BY <1>1
  <2>2. /\ SubSeq(y, 1, n) \in Seq(Nat) /\ Len(SubSeq(y, 1, n)) = n
        /\ \A j \in 1 .. n : SubSeq(y, 1, n)[j] = y[j]
    BY <1>1, <1>2
  <2>3. QED
    BY <2>1, <2>2, SeqEqual
<1>3. ASSUME IsStrictPrefix(x, y)
      PROVE  LessAt(x, y, Len(x) + 1)
  <2>1. Len(x) <= Len(y) /\ x # y /\ \A j \in 1 .. Len(x) : x[j] = y[j]
    BY <1>1, <1>2, <1>3 DEF IsStrictPrefix, IsPrefix
  <2>2. Len(x) # Len(y)
    BY <2>1, SeqEqual
  <2>3. /\ Len(x) + 1 \in 1 .. Len(y) /\ (Len(x) + 1) - 1 = Len(x)
        /\ ~(Len(x) + 1 <= Len(x))
    <3>1. Len(x) <= Len(y)
      BY <2>1
    <3>2. Len(x) \in Nat /\ Len(y) \in Nat
      BY <1>1
    <3>3. QED
      BY <2>2, <3>1, <3>2
  <2>4. QED
    BY <2>1, <2>3 DEF LessAt
<1>4. ASSUME NEW i \in DOMAIN x \cap DOMAIN y, x[i] < y[i],
             SubSeq(x, 1, i - 1) = SubSeq(y, 1, i - 1)
      PROVE  LessAt(x, y, i)
  <2>1. i - 1 \in 0 .. Len(x) /\ i - 1 <= Len(y)
    BY <1>1
  <2>2. \A j \in 1 .. i - 1 : x[j] = y[j]
    BY <1>2, <1>4, <2>1
  <2>3. QED
    BY <1>1, <1>4, <2>2 DEF LessAt
<1>5. ASSUME NEW i \in Nat, LessAt(x, y, i), i = Len(x) + 1
      PROVE  IsStrictPrefix(x, y)
  <2>1. Len(x) < Len(y) /\ \A j \in 1 .. Len(x) : x[j] = y[j]
    BY <1>1, <1>5 DEF LessAt
  <2>2. SubSeq(x, 1, Len(x)) = SubSeq(y, 1, Len(x))
    BY <1>1, <1>2, <2>1
  <2>3. QED
    BY <2>1, <2>2, <1>1 DEF IsStrictPrefix, IsPrefix
<1>6. ASSUME NEW i \in Nat, LessAt(x, y, i), i # Len(x) + 1
      PROVE  /\ i \in DOMAIN x \cap DOMAIN y /\ x[i] < y[i]
             /\ SubSeq(x, 1, i - 1) = SubSeq(y, 1, i - 1)
  <2>1. i \in 1 .. Len(x) /\ i \in 1 .. Len(y) /\ x[i] < y[i]
    BY <1>1, <1>6 DEF LessAt
  <2>2. i - 1 \in 0 .. Len(x) /\ i - 1 <= Len(y)
    BY <1>1, <2>1
  <2>3. \A j \in 1 .. i - 1 : x[j] = y[j]
    BY <1>6 DEF LessAt
  <2>4. SubSeq(x, 1, i - 1) = SubSeq(y, 1, i - 1)
    BY <1>2, <2>2, <2>3
  <2>5. QED
    BY <1>1, <2>1, <2>4
<1>7. ASSUME Before(x, y) PROVE \E i \in Nat : LessAt(x, y, i)
  BY <1>1, <1>3, <1>4, <1>7 DEF Before
<1>8. ASSUME NEW i \in Nat, LessAt(x, y, i) PROVE Before(x, y)
  BY <1>5, <1>6, <1>8 DEF Before
<1>9. QED
  BY <1>7, <1>8

LEMMA LessIsTransitive ==
    ASSUME NEW x \in Seq(Nat), NEW y \in Seq(Nat), NEW z \in Seq(Nat),
           NEW i \in Nat, LessAt(x, y, i), NEW j \in Nat, LessAt(y, z, j)
    PROVE  \E k \in Nat : LessAt(x, z, k)
<1>1. /\ Len(x) \in Nat /\ Len(y) \in Nat /\ Len(z) \in Nat
      /\ \A k \in 1 .. Len(x) : x[k] \in Nat
      /\ \A k \in 1 .. Len(y) : y[k] \in Nat
      /\ \A k \in 1 .. Len(z) : z[k] \in Nat
  OBVIOUS
<1>2. /\ i \in 1 .. Len(y) /\ i <= Len(x) + 1
      /\ \A k \in 1 .. i - 1 : x[k] = y[k]
      /\ i <= Len(x) => x[i] < y[i]
  BY DEF LessAt
<1>3. /\ j \in 1 .. Len(z) /\ j <= Len(y) + 1
      /\ \A k \in 1 .. j - 1 : y[k] = z[k]
      /\ j <= Len(y) => y[j] < z[j]
  BY DEF LessAt
<1>4. CASE i < j
  <2>1. i \in 1 .. j - 1 /\ i \in 1 .. Len(z) /\ y[i] = z[i]
    BY <1>1, <1>2, <1>3, <1>4
  <2>2. \A k \in 1 .. i - 1 : x[k] = z[k]
    BY <1>2, <1>3, <1>4
  <2>3. LessAt(x, z, i)
    BY <1>2, <2>1, <2>2 DEF LessAt
  <2>4. QED
    BY <2>3
<1>5. CASE j < i
  <2>1. j \in 1 .. i - 1 /\ j \in 1 .. Len(x) /\ j \in 1 .. Len(y)
    BY <1>1, <1>2, <1>3, <1>5
  <2>2. x[j] = y[j] /\ y[j] < z[j]
    BY <1>2, <1>3, <2>1
  <2>3. \A k \in 1 .. j - 1 : x[k] = z[k]
    BY <1>2, <1>3, <1>5
  <2>4. x[j] < z[j] /\ j \in 1 .. Len(z) /\ j <= Len(x) + 1
    BY <1>1, <1>3, <2>1, <2>2
  <2>5. LessAt(x, z, j)
    BY <2>3, <2>4 DEF LessAt
  <2>6. QED
    BY <2>5
<1>6. CASE i = j
  <2>1. y[i] < z[i] /\ i \in 1 .. Len(z)
    BY <1>1, <1>2, <1>3, <1>6
  <2>2. i <= Len(x) => x[i] < z[i]
    <3> SUFFICES ASSUME i <= Len(x) PROVE x[i] < z[i]
      OBVIOUS
    <3>1. x[i] \in Nat /\ y[i] \in Nat /\ z[i] \in Nat /\ x[i] < y[i]
      BY <1>1, <1>2, <2>1
    <3>2. QED
      BY <2>1, <3>1
  <2>3. \A k \in 1 .. i - 1 : x[k] = z[k]
    BY <1>2, <1>3, <1>6
  <2>4. LessAt(x, z, i)
    BY <1>2, <2>1, <2>2, <2>3 DEF LessAt
  <2>5. QED
    BY <2>4
<1>7. QED
  BY <1>4, <1>5, <1>6

LEMMA LessIsTotal ==
    ASSUME NEW x \in Seq(Nat), NEW y \in Seq(Nat), x # y
    PROVE  (\E i \in Nat : LessAt(x, y, i)) \/ (\E i \in Nat : LessAt(y, x, i))
<1>1. /\ Len(x) \in Nat /\ Len(y) \in Nat
      /\ \A k \in 1 .. Len(x) : x[k] \in Nat
      /\ \A k \in 1 .. Len(y) : y[k] \in Nat
  OBVIOUS
<1> DEFINE Same(i) == i <= Len(x) /\ i <= Len(y) /\ x[i] = y[i]
           Differ == {i \in Nat \ {0} : ~Same(i)}
<1>2. Len(x) + 1 \in Differ
  BY <1>1
<1>3. PICK i \in Differ : \A j \in Differ : ~(<<j, i>> \in OpToRel(<, Nat))
  <2>1. Differ \subseteq Nat
    OBVIOUS
  <2> HIDE DEF Differ
  <2>2. QED
    BY <1>2, <2>1, NatLessThanWellFounded, WFMin
<1>4. i \in Nat /\ i >= 1 /\ ~Same(i)
  OBVIOUS
<1>5. \A j \in Differ : ~(j < i)
  <2>1. Differ \subseteq Nat
    OBVIOUS
  <2> HIDE DEF Differ
  <2>2. QED
    BY <1>3, <1>4, <2>1, Zenon DEF OpToRel
<1>6. \A j \in 1 .. i - 1 : Same(j)
  <2> TAKE j \in 1 .. i - 1
  <2>1. j \in Nat \ {0} /\ j < i
    BY <1>4
  <2>2. QED
    BY <1>5, <2>1
<1> HIDE DEF Differ
<1>7. i <= Len(x) + 1 /\ i <= Len(y) + 1
  <2>1. ASSUME i > Len(x) + 1 PROVE FALSE
    <3>1. Len(x) + 1 \in 1 .. i - 1
      BY <1>1, <1>4, <2>1
    <3>2. QED
      BY <1>1, <1>6, <3>1
  <2>2. ASSUME i > Len(y) + 1 PROVE FALSE
    <3>1. Len(y) + 1 \in 1 .. i - 1
      BY <1>1, <1>4, <2>2
    <3>2. QED
      BY <1>1, <1>6, <3>1
  <2>3. QED
    BY <1>1, <1>4, <2>1, <2>2
<1>8. \A j \in 1 .. i - 1 : x[j] = y[j]
  BY <1>6
<1>9. CASE i = Len(x) + 1 /\ i = Len(y) + 1
  <2>1. Len(x) = Len(y) /\ \A j \in 1 .. Len(x) : x[j] = y[j]
    BY <1>1, <1>8, <1>9
  <2>2. QED
    BY <2>1, SeqEqual
<1>10. CASE i = Len(x) + 1 /\ i # Len(y) + 1
  <2>1. LessAt(x, y, i)
    BY <1>1, <1>4, <1>7, <1>8, <1>10 DEF LessAt
  <2>2. QED
    BY <1>4, <2>1
<1>11. CASE i # Len(x) + 1 /\ i = Len(y) + 1
  <2>1. i \in 1 .. Len(x) /\ i <= Len(y) + 1 /\ ~(i <= Len(y))
    BY <1>1, <1>4, <1>7, <1>11
  <2>2. \A j \in 1 .. i - 1 : y[j] = x[j]
    BY <1>8
  <2>3. LessAt(y, x, i)
    BY <2>1, <2>2 DEF LessAt
  <2>4. QED
    BY <1>4, <2>3
<1>12. CASE i # Len(x) + 1 /\ i # Len(y) + 1
  <2>1. i \in 1 .. Len(x) /\ i \in 1 .. Len(y) /\ x[i] # y[i]
    BY <1>1, <1>4, <1>7, <1>12
  <2>2. x[i] < y[i] \/ y[i] < x[i]
    BY <1>1, <2>1
  <2>3. LessAt(x, y, i) \/ LessAt(y, x, i)
    BY <1>1, <1>8, <2>1, <2>2 DEF LessAt
  <2>4. QED
    BY <1>4, <2>3
<1>13. QED
  BY <1>9, <1>10, <1>11, <1>12

\* RocksDB's order is one.
LEMMA KeysAreOrdered ==
    ASSUME NEW S \in SUBSET Seq(Nat)
    PROVE  IsOrder(S, KeyOrderOn(S))
<1>1. \A x \in S : ~Before(x, x)
  <2> SUFFICES ASSUME NEW x \in S, Before(x, x) PROVE FALSE
    OBVIOUS
  <2>1. PICK i \in Nat : LessAt(x, x, i)
    BY BeforeIsLess
  <2>2. i \in 1 .. Len(x) /\ x \in Seq(Nat) /\ x[i] < x[i]
    BY <2>1 DEF LessAt
  <2>3. QED
    BY <2>2
<1>2. \A x, y, z \in S : Before(x, y) /\ Before(y, z) => Before(x, z)
  <2> SUFFICES ASSUME NEW x \in S, NEW y \in S, NEW z \in S,
                      Before(x, y), Before(y, z)
               PROVE  Before(x, z)
    OBVIOUS
  <2>1. x \in Seq(Nat) /\ y \in Seq(Nat) /\ z \in Seq(Nat)
    OBVIOUS
  <2>2. PICK i \in Nat : LessAt(x, y, i)
    BY <2>1, BeforeIsLess
  <2>3. PICK j \in Nat : LessAt(y, z, j)
    BY <2>1, BeforeIsLess
  <2>4. QED
    BY <2>1, <2>2, <2>3, LessIsTransitive, BeforeIsLess
<1>3. \A x, y \in S : x = y \/ Before(x, y) \/ Before(y, x)
  BY LessIsTotal, BeforeIsLess
<1>4. QED
  BY <1>1, <1>2, <1>3 DEF IsOrder, KeyOrderOn

-----------------------------------------------------------------------------
(* Keys.                                                                   *)

Columns(s) == 0 .. s.columns - 1

LEMMA TableFacts ==
    ASSUME NEW s \in Tables
    PROVE  /\ s.name \in Seq(Nat) /\ Len(s.name) \in Nat
           /\ \A a \in 1 .. Len(s.name) : s.name[a] \in Nat /\ s.name[a] # Slash
           /\ s.columns \in 1 .. 10 /\ s.pk \in Columns(s)
           /\ Columns(s) \subseteq 0 .. 9
<1>1. s.columns \in 1 .. 10 /\ s.pk \in 0 .. s.columns - 1
  BY RowAssumption
<1>2. s.name \in Seq(Nat) /\ \A a \in DOMAIN s.name : s.name[a] # Slash
  BY NameAssumption
<1>3. Columns(s) \subseteq 0 .. 9 /\ s.pk \in Columns(s)
  BY <1>1 DEF Columns
<1>4. QED
  BY <1>1, <1>2, <1>3

LEMMA RowIsFunction ==
    ASSUME NEW s \in Tables, NEW row \in RowsOf(s)
    PROVE  /\ DOMAIN row = Columns(s) /\ row = [i \in Columns(s) |-> row[i]]
           /\ row[s.pk] \in Names /\ row # None
<1>1. row = [i \in Columns(s) |-> row[i]]
  BY RowAssumption DEF Columns
<1>2. DOMAIN [i \in Columns(s) |-> row[i]] = Columns(s)
  OBVIOUS
<1>3. QED
  BY <1>1, <1>2, RowAssumption

\* z is x and y behind it.
IsJoined(x, y, z) ==
    /\ z \in Seq(Nat)
    /\ Len(z) = Len(x) + Len(y)
    /\ \A a \in 1 .. Len(x) : z[a] = x[a]
    /\ \A b \in 1 .. Len(y) : z[Len(x) + b] = y[b]

LEMMA Joined ==
    ASSUME NEW x \in Seq(Nat), NEW y \in Seq(Nat)
    PROVE  IsJoined(x, y, x \o y)
BY DEF IsJoined

\* A key, character by character.
Begins(key, s) ==
    /\ key \in Seq(Nat)
    /\ Len(key) >= Len(s.name) + 2
    /\ key[1] = Slash
    /\ \A a \in 1 .. Len(s.name) : key[1 + a] = s.name[a]
    /\ key[Len(s.name) + 2] = Slash

HasShape(key, s, pk, i) ==
    /\ Begins(key, s)
    /\ Len(key) = Len(s.name) + Len(pk) + 5
    /\ \A b \in 1 .. Len(pk) : key[Len(s.name) + 2 + b] = pk[b]
    /\ key[Len(s.name) + Len(pk) + 3] = Slash
    /\ key[Len(s.name) + Len(pk) + 4] = ColumnWord
    /\ key[Len(s.name) + Len(pk) + 5] = Zero + i

LEMMA KeyShape ==
    ASSUME NEW s \in Tables, NEW pk \in Seq(Nat), NEW i \in 0 .. 9
    PROVE  HasShape(Key(s, pk, i), s, pk, i)
<1> DEFINE n == Len(s.name)
           m == Len(pk)
           slash == <<Slash>>
           column == <<Slash, ColumnWord, Zero + i>>
           one == slash \o s.name
           two == one \o slash
           three == two \o pk
           key == three \o column
<1>1. /\ s.name \in Seq(Nat) /\ n \in Nat /\ m \in Nat
      /\ slash \in Seq(Nat) /\ Len(slash) = 1 /\ slash[1] = Slash
      /\ column \in Seq(Nat) /\ Len(column) = 3
      /\ column[1] = Slash /\ column[2] = ColumnWord /\ column[3] = Zero + i
  BY TableFacts DEF Slash, ColumnWord, Zero
<1>2. Key(s, pk, i) = key
  BY DEF Key
<1> HIDE DEF slash, column
<1>3. IsJoined(slash, s.name, one)
  BY <1>1, Joined
<1> HIDE DEF one
<1>4. IsJoined(one, slash, two)
  BY <1>1, <1>3, Joined DEF IsJoined
<1> HIDE DEF two
<1>5. IsJoined(two, pk, three)
  BY <1>4, Joined DEF IsJoined
<1> HIDE DEF three
<1>6. IsJoined(three, column, key)
  BY <1>1, <1>5, Joined DEF IsJoined
<1> HIDE DEF key
<1>7. /\ Len(one) = 1 + n /\ Len(two) = 2 + n
      /\ Len(three) = 2 + n + m /\ Len(key) = 5 + n + m
  BY <1>1, <1>3, <1>4, <1>5, <1>6 DEF IsJoined
<1>8. \A a \in 1 .. n : key[1 + a] = s.name[a]
  <2> TAKE a \in 1 .. n
  <2>1. key[1 + a] = three[1 + a]
    BY <1>1, <1>6, <1>7 DEF IsJoined
  <2>2. three[1 + a] = two[1 + a]
    BY <1>1, <1>5, <1>7 DEF IsJoined
  <2>3. two[1 + a] = one[1 + a]
    BY <1>1, <1>4, <1>7 DEF IsJoined
  <2>4. one[1 + a] = s.name[a]
    BY <1>1, <1>3 DEF IsJoined
  <2>5. QED
    BY <2>1, <2>2, <2>3, <2>4
<1>9. key[n + 2] = Slash
  <2> DEFINE a == n + 2
  <2>1. a \in 1 .. Len(two) /\ a \in 1 .. Len(three) /\ a = Len(one) + 1
    BY <1>1, <1>7
  <2> HIDE DEF a
  <2>2. key[a] = three[a]
    BY <1>6, <2>1 DEF IsJoined
  <2>3. three[a] = two[a]
    BY <1>5, <2>1 DEF IsJoined
  <2>4. two[a] = slash[1]
    BY <1>1, <1>4, <2>1 DEF IsJoined
  <2>5. QED
    BY <1>1, <2>2, <2>3, <2>4 DEF a
<1>10. \A b \in 1 .. m : key[n + 2 + b] = pk[b]
  <2> TAKE b \in 1 .. m
  <2> DEFINE a == n + 2 + b
  <2>1. a \in 1 .. Len(three) /\ a = Len(two) + b
    <3>1. b \in Nat /\ 1 <= b /\ b <= m
      BY <1>1
    <3>2. QED
      BY <1>1, <1>7, <3>1
  <2> HIDE DEF a
  <2>2. key[a] = three[a]
    BY <1>6, <2>1 DEF IsJoined
  <2>3. three[a] = pk[b]
    BY <1>5, <2>1 DEF IsJoined
  <2>4. QED
    BY <2>2, <2>3 DEF a
<1>11. /\ key[n + m + 3] = Slash
       /\ key[n + m + 4] = ColumnWord
       /\ key[n + m + 5] = Zero + i
  <2>1. /\ n + m + 3 = Len(three) + 1 /\ n + m + 4 = Len(three) + 2
        /\ n + m + 5 = Len(three) + 3
    BY <1>1, <1>7
  <2>2. \A b \in 1 .. 3 : key[Len(three) + b] = column[b]
    BY <1>1, <1>6 DEF IsJoined
  <2>3. /\ key[Len(three) + 1] = Slash
        /\ key[Len(three) + 2] = ColumnWord
        /\ key[Len(three) + 3] = Zero + i
    BY <1>1, <2>2
  <2>4. QED
    BY <2>1, <2>3
<1>12. key \in Seq(Nat) /\ Len(key) = n + m + 5
  BY <1>1, <1>6, <1>7 DEF IsJoined
<1>13. key[1] = Slash
  <2>1. key[1] = three[1]
    BY <1>1, <1>6, <1>7 DEF IsJoined
  <2>2. three[1] = two[1]
    BY <1>1, <1>5, <1>7 DEF IsJoined
  <2>3. two[1] = one[1]
    BY <1>1, <1>4, <1>7 DEF IsJoined
  <2>4. one[1] = slash[1]
    BY <1>1, <1>3, <1>7 DEF IsJoined
  <2>5. QED
    BY <1>1, <2>1, <2>2, <2>3, <2>4
<1>14. Begins(key, s)
  BY <1>1, <1>8, <1>9, <1>12, <1>13 DEF Begins
<1>15. QED
  BY <1>2, <1>10, <1>11, <1>12, <1>14 DEF HasShape

\* The name of a table has no slash, so it ends where the second slash is.
LEMMA OneTable ==
    ASSUME NEW s \in Tables, NEW t \in Tables, NEW key,
           Begins(key, s), Begins(key, t)
    PROVE  s = t
<1> DEFINE n == Len(s.name)
           m == Len(t.name)
<1>1. /\ n \in Nat /\ s.name \in Seq(Nat)
      /\ \A a \in 1 .. n : s.name[a] # Slash
      /\ m \in Nat /\ t.name \in Seq(Nat)
      /\ \A a \in 1 .. m : t.name[a] # Slash
  BY TableFacts
<1>2. n = m
  <2>1. ~(n < m)
    <3> SUFFICES ASSUME n < m PROVE FALSE
      OBVIOUS
    <3>1. n + 1 \in 1 .. m /\ 1 + (n + 1) = n + 2
      BY <1>1
    <3>2. key[1 + (n + 1)] = t.name[n + 1]
      BY <3>1 DEF Begins
    <3>3. QED
      BY <1>1, <3>1, <3>2 DEF Begins
  <2>2. ~(m < n)
    <3> SUFFICES ASSUME m < n PROVE FALSE
      OBVIOUS
    <3>1. m + 1 \in 1 .. n /\ 1 + (m + 1) = m + 2
      BY <1>1
    <3>2. key[1 + (m + 1)] = s.name[m + 1]
      BY <3>1 DEF Begins
    <3>3. QED
      BY <1>1, <3>1, <3>2 DEF Begins
  <2>3. QED
    BY <1>1, <2>1, <2>2
<1>3. \A a \in 1 .. n : s.name[a] = t.name[a]
  BY <1>2 DEF Begins
<1>4. s.name = t.name
  BY <1>1, <1>2, <1>3, SeqEqual
<1>5. QED
  BY <1>4, NameAssumption

\* Two cells have the same key only if they are the same: the name of the row
\* ends three characters before the key does.
LEMMA KeysAreDistinct ==
    ASSUME NEW s \in Tables, NEW t \in Tables,
           NEW p \in Names, NEW q \in Names,
           NEW i \in 0 .. 9, NEW j \in 0 .. 9,
           Key(s, p, i) = Key(t, q, j)
    PROVE  s = t /\ p = q /\ i = j
<1>1. p \in Seq(Nat) /\ q \in Seq(Nat) /\ Len(p) \in Nat /\ Len(q) \in Nat
  BY NameAssumption
<1> DEFINE key == Key(s, p, i)
           n == Len(s.name)
<1>2. HasShape(key, s, p, i)
  BY <1>1, KeyShape
<1>3. HasShape(key, t, q, j)
  BY <1>1, KeyShape
<1> HIDE DEF key
<1>4. s = t
  BY <1>2, <1>3, OneTable DEF HasShape
<1>5. n \in Nat
  BY TableFacts
<1>6. Len(p) = Len(q)
  BY <1>1, <1>2, <1>3, <1>4, <1>5 DEF HasShape
<1>7. \A b \in 1 .. Len(p) : p[b] = q[b]
  BY <1>2, <1>3, <1>4, <1>6 DEF HasShape
<1>8. p = q
  BY <1>1, <1>6, <1>7, SeqEqual
<1>9. i = j
  BY <1>2, <1>3, <1>4, <1>6 DEF HasShape, Zero
<1>10. QED
  BY <1>4, <1>8, <1>9

\* The cells of a row are its values, each under its own key.
LEMMA CellsOfARow ==
    ASSUME NEW s \in Tables, NEW row \in RowsOf(s)
    PROVE  /\ DOMAIN RowCells(s, row)
                  = {Key(s, row[s.pk], i) : i \in Columns(s)}
           /\ \A i \in Columns(s) : RowCells(s, row)[Key(s, row[s.pk], i)] = row[i]
<1>1. /\ DOMAIN row = Columns(s) /\ row[s.pk] \in Names
      /\ Columns(s) \subseteq 0 .. 9
  BY RowIsFunction, TableFacts
<1> DEFINE key(i) == Key(s, row[s.pk], i)
<1>2. \A i, j \in Columns(s) : key(i) = key(j) => i = j
  BY <1>1, KeysAreDistinct
<1>3. RowCells(s, row) =
          [k \in {key(i) : i \in Columns(s)} |->
              row[CHOOSE i \in Columns(s) : k = key(i)]]
  BY <1>1 DEF RowCells
<1> HIDE DEF key
<1>4. ASSUME NEW i \in Columns(s)
      PROVE  (CHOOSE j \in Columns(s) : key(i) = key(j)) = i
  BY <1>2
<1>5. \A i \in Columns(s) : RowCells(s, row)[key(i)] = row[i]
  BY <1>3, <1>4
<1>6. QED
  BY <1>3, <1>5 DEF key

LEMMA CellsAreFinite ==
    ASSUME NEW s \in Tables, NEW pk
    PROVE  IsFiniteSet({Key(s, pk, i) : i \in Columns(s)})
<1> DEFINE T == {Key(s, pk, i) : i \in Columns(s)}
           f == [i \in Columns(s) |-> Key(s, pk, i)]
<1>1. IsFiniteSet(Columns(s))
  <2>1. s.columns - 1 \in Int
    BY TableFacts
  <2>2. QED
    BY <2>1, FS_Interval DEF Columns
<1>2. f \in Surjection(Columns(s), T)
  BY DEF Surjection
<1>3. QED
  BY <1>1, <1>2, FS_Surjection

-----------------------------------------------------------------------------
(* The invariant: RowsKeepApart, and the shape of the history it is stated *)
(* over.                                                                   *)

Shape ==
    /\ written \in [Tables -> [Names -> {None} \cup UNION {RowsOf(s) : s \in Tables}]]
    /\ \A s \in Tables : \A pk \in Names :
          written[s][pk] \in RowsOf(s) \cup {None}
    /\ IsFiniteSet(DOMAIN db)
    /\ \A key \in DOMAIN db :
          \E s \in Tables, pk \in Names : \E i \in Columns(s) : key = Key(s, pk, i)

KeysInv == Shape /\ RowsKeepApart

LEMMA InitKeys == Init => KeysInv
BY FS_EmptySet DEF Init, KeysInv, Shape, RowsKeepApart

\* A row written touches its own cells and no other.
LEMMA WriteRowKeys ==
    ASSUME KeysInv, NEW t \in Tables, NEW row \in RowsOf(t), WriteRow(t, row)
    PROVE  KeysInv'
<1> DEFINE name == row[t.pk]
           cells == RowCells(t, row)
<1>1. /\ DOMAIN row = Columns(t) /\ name \in Names /\ row # None
      /\ Columns(t) \subseteq 0 .. 9
  BY RowIsFunction, TableFacts
<1>2. /\ DOMAIN cells = {Key(t, name, i) : i \in Columns(t)}
      /\ \A i \in Columns(t) : cells[Key(t, name, i)] = row[i]
  BY CellsOfARow
<1>3. /\ db' = Put(cells)
      /\ written' = [written EXCEPT ![t][name] = row]
  BY DEF WriteRow
<1> HIDE DEF cells
<1>4. /\ DOMAIN db' = DOMAIN cells \cup DOMAIN db
      /\ \A k \in DOMAIN cells : db'[k] = cells[k]
      /\ \A k \in DOMAIN db \ DOMAIN cells : db'[k] = db[k]
  BY <1>3 DEF Put
<1>5. /\ written'[t][name] = row
      /\ \A s \in Tables : \A pk \in Names :
            s # t \/ pk # name => written'[s][pk] = written[s][pk]
  BY <1>1, <1>3 DEF KeysInv, Shape
<1>6. Shape'
  <2>1. written' \in [Tables -> [Names -> {None} \cup UNION {RowsOf(s) : s \in Tables}]]
    BY <1>1, <1>3 DEF KeysInv, Shape
  <2>2. \A s \in Tables : \A pk \in Names :
            written'[s][pk] \in RowsOf(s) \cup {None}
    BY <1>1, <1>5 DEF KeysInv, Shape
  <2>3. \A key \in DOMAIN db' :
            \E s \in Tables, pk \in Names : \E i \in Columns(s) : key = Key(s, pk, i)
    BY <1>1, <1>2, <1>4 DEF KeysInv, Shape
  <2>4. IsFiniteSet(DOMAIN db')
    <3>1. IsFiniteSet(DOMAIN cells)
      BY <1>2, CellsAreFinite
    <3>2. IsFiniteSet(DOMAIN db)
      BY DEF KeysInv, Shape
    <3>3. QED
      BY <1>4, <3>1, <3>2, FS_Union
  <2>5. QED
    BY <2>1, <2>2, <2>3, <2>4 DEF Shape
<1>7. ASSUME NEW s \in Tables, NEW pk \in Names, NEW i \in Columns(s)
      PROVE  IF written'[s][pk] = None THEN Key(s, pk, i) \notin DOMAIN db'
             ELSE /\ Key(s, pk, i) \in DOMAIN db'
                  /\ db'[Key(s, pk, i)] = written'[s][pk][i]
  <2>1. CASE s = t /\ pk = name
    BY <1>1, <1>2, <1>4, <1>5, <2>1
  <2>2. CASE ~(s = t /\ pk = name)
    <3>1. i \in 0 .. 9
      BY TableFacts
    <3>2. Key(s, pk, i) \notin DOMAIN cells
      BY <1>1, <1>2, <2>2, <3>1, KeysAreDistinct
    <3>3. written'[s][pk] = written[s][pk]
      BY <1>5, <2>2
    <3>4. IF written[s][pk] = None THEN Key(s, pk, i) \notin DOMAIN db
          ELSE /\ Key(s, pk, i) \in DOMAIN db
               /\ db[Key(s, pk, i)] = written[s][pk][i]
      BY DEF KeysInv, RowsKeepApart, Columns
    <3>5. QED
      BY <1>4, <3>2, <3>3, <3>4
  <2>3. QED
    BY <2>1, <2>2
<1>8. QED
  BY <1>6, <1>7 DEF KeysInv, RowsKeepApart, Columns

LEMMA KeysStep ==
    ASSUME KeysInv, [Next]_vars
    PROVE  KeysInv'
<1>1. CASE \E s \in Tables : \E row \in RowsOf(s) : WriteRow(s, row)
  BY <1>1, WriteRowKeys
<1>2. CASE UNCHANGED <<db, written>>
  BY <1>2 DEF KeysInv, Shape, RowsKeepApart
<1>3. QED
  BY <1>1, <1>2 DEF Next, vars, Select, SelectDies, Restart

-----------------------------------------------------------------------------
(* What is read.                                                           *)

SlashFree(pk) == \A a \in 1 .. Len(pk) : pk[a] # Slash

\* The keys of a table are those that begin with its prefix.
LEMMA PrefixBegins ==
    ASSUME NEW s \in Tables, NEW key \in Seq(Nat)
    PROVE  IsPrefix(Prefix(s), key) <=> Begins(key, s)
<1> DEFINE n == Len(s.name)
           slash == <<Slash>>
           one == slash \o s.name
           prefix == one \o slash
<1>1. /\ s.name \in Seq(Nat) /\ n \in Nat
      /\ slash \in Seq(Nat) /\ Len(slash) = 1 /\ slash[1] = Slash
      /\ Len(key) \in Nat
  BY TableFacts DEF Slash
<1>2. Prefix(s) = prefix
  BY DEF Prefix
<1> HIDE DEF slash
<1>3. IsJoined(slash, s.name, one)
  BY <1>1, Joined
<1> HIDE DEF one
<1>4. IsJoined(one, slash, prefix)
  BY <1>1, <1>3, Joined DEF IsJoined
<1> HIDE DEF prefix
<1>5. prefix \in Seq(Nat) /\ Len(one) = n + 1 /\ Len(prefix) = n + 2
  BY <1>1, <1>3, <1>4 DEF IsJoined
<1>6. prefix[1] = Slash
  <2>1. prefix[1] = one[1]
    BY <1>1, <1>4, <1>5 DEF IsJoined
  <2>2. one[1] = slash[1]
    BY <1>1, <1>3 DEF IsJoined
  <2>3. QED
    BY <1>1, <2>1, <2>2
<1>7. prefix[n + 2] = Slash
  <2>1. prefix[Len(one) + 1] = slash[1]
    BY <1>1, <1>4 DEF IsJoined
  <2>2. Len(one) + 1 = n + 2
    BY <1>1, <1>5
  <2>3. QED
    BY <1>1, <2>1, <2>2
<1>8. \A a \in 1 .. n : prefix[1 + a] = s.name[a]
  <2> TAKE a \in 1 .. n
  <2>1. prefix[1 + a] = one[1 + a]
    BY <1>1, <1>4, <1>5 DEF IsJoined
  <2>2. one[1 + a] = s.name[a]
    BY <1>1, <1>3 DEF IsJoined
  <2>3. QED
    BY <2>1, <2>2
<1>9. IsPrefix(prefix, key) <=>
          n + 2 <= Len(key) /\ \A j \in 1 .. n + 2 : key[j] = prefix[j]
  <2>1. IsPrefix(prefix, key) <=>
            n + 2 <= Len(key) /\ prefix = SubSeq(key, 1, n + 2)
    BY <1>5, SubSeqFull DEF IsPrefix
  <2>2. ASSUME n + 2 <= Len(key)
        PROVE  /\ SubSeq(key, 1, n + 2) \in Seq(Nat)
               /\ Len(SubSeq(key, 1, n + 2)) = n + 2
               /\ \A j \in 1 .. n + 2 : SubSeq(key, 1, n + 2)[j] = key[j]
    BY <1>1, <2>2
  <2>3. ASSUME n + 2 <= Len(key), \A j \in 1 .. n + 2 : key[j] = prefix[j]
        PROVE  prefix = SubSeq(key, 1, n + 2)
    BY <1>5, <2>2, <2>3, SeqEqual
  <2>4. ASSUME n + 2 <= Len(key), prefix = SubSeq(key, 1, n + 2)
        PROVE  \A j \in 1 .. n + 2 : key[j] = prefix[j]
    BY <2>2, <2>4
  <2>5. QED
    BY <2>1, <2>3, <2>4
<1>10. ASSUME Begins(key, s), NEW j \in 1 .. n + 2
       PROVE  key[j] = prefix[j]
  <2>1. CASE j = 1
    BY <1>6, <1>10, <2>1 DEF Begins
  <2>2. CASE j = n + 2
    BY <1>7, <1>10, <2>2 DEF Begins
  <2>3. CASE j # 1 /\ j # n + 2
    <3>1. j - 1 \in 1 .. n /\ 1 + (j - 1) = j
      BY <1>1, <2>3
    <3>2. key[1 + (j - 1)] = s.name[j - 1]
      BY <1>10, <3>1 DEF Begins
    <3>3. prefix[1 + (j - 1)] = s.name[j - 1]
      BY <1>8, <3>1
    <3>4. QED
      BY <3>1, <3>2, <3>3
  <2>4. QED
    BY <2>1, <2>2, <2>3
<1>11. ASSUME n + 2 <= Len(key), \A j \in 1 .. n + 2 : key[j] = prefix[j]
       PROVE  Begins(key, s)
  <2>1. key[1] = Slash /\ key[n + 2] = Slash
    <3>1. 1 \in 1 .. n + 2 /\ n + 2 \in 1 .. n + 2
      BY <1>1
    <3>2. QED
      BY <1>6, <1>7, <1>11, <3>1
  <2>2. ASSUME NEW a \in 1 .. n PROVE key[1 + a] = s.name[a]
    <3>1. 1 + a \in 1 .. n + 2
      BY <1>1
    <3>2. QED
      BY <1>8, <1>11, <3>1
  <2>3. QED
    BY <1>1, <1>11, <2>1, <2>2 DEF Begins
<1>12. Begins(key, s) => n + 2 <= Len(key)
  BY <1>1 DEF Begins
<1>13. QED
  BY <1>2, <1>9, <1>10, <1>11, <1>12

\* parse_key finds the column behind the third slash, if the name has none.
LEMMA ColumnOfKey ==
    ASSUME NEW s \in Tables, NEW pk \in Seq(Nat), SlashFree(pk), NEW i \in 0 .. 9
    PROVE  Parses(Key(s, pk, i)) /\ ColumnId(Key(s, pk, i)) = i
<1> DEFINE key == Key(s, pk, i)
           n == Len(s.name)
           m == Len(pk)
           slashes == {j \in DOMAIN key : key[j] = Slash}
           list == <<1, n + 2, n + m + 3>>
           order == NumberOrderOn(slashes)
<1>1. /\ n \in Nat /\ m \in Nat
      /\ \A a \in 1 .. n : s.name[a] # Slash
  BY TableFacts
<1>2. HasShape(key, s, pk, i)
  BY KeyShape
<1> HIDE DEF key
<1>3. key \in Seq(Nat) /\ Len(key) = n + m + 5 /\ DOMAIN key = 1 .. n + m + 5
  BY <1>2 DEF HasShape, Begins
<1>4. /\ key[1] = Slash
      /\ \A a \in 1 .. n : key[1 + a] = s.name[a]
      /\ key[n + 2] = Slash
      /\ \A b \in 1 .. m : key[n + 2 + b] = pk[b]
      /\ key[n + m + 3] = Slash
      /\ key[n + m + 4] = ColumnWord
      /\ key[n + m + 5] = Zero + i
  BY <1>2 DEF HasShape, Begins
<1>5. ASSUME NEW j \in slashes
      PROVE  j = 1 \/ j = n + 2 \/ j = n + m + 3
  <2> SUFFICES ASSUME j # 1, j # n + 2, j # n + m + 3 PROVE FALSE
    OBVIOUS
  <2>1. j \in 1 .. n + m + 5 /\ key[j] = Slash
    BY <1>3
  <2>2. CASE j < n + 2
    <3>1. j - 1 \in 1 .. n /\ 1 + (j - 1) = j
      BY <1>1, <2>1, <2>2
    <3>2. key[1 + (j - 1)] = s.name[j - 1]
      BY <1>4, <3>1
    <3>3. QED
      BY <1>1, <2>1, <3>1, <3>2
  <2>3. CASE n + 2 < j /\ j < n + m + 3
    <3>1. j - (n + 2) \in 1 .. m /\ n + 2 + (j - (n + 2)) = j
      BY <1>1, <2>1, <2>3
    <3>2. key[n + 2 + (j - (n + 2))] = pk[j - (n + 2)]
      BY <1>4, <3>1
    <3>3. QED
      BY <2>1, <3>1, <3>2 DEF SlashFree
  <2>4. CASE n + m + 3 < j
    <3>1. j \in 1 .. n + m + 5
      BY <2>1
    <3>2. j = n + m + 4 \/ j = n + m + 5
      <4>1. n \in Nat /\ m \in Nat
        BY <1>1
      <4> HIDE DEF n, m
      <4>2. QED
        BY <2>4, <3>1, <4>1
    <3>3. ColumnWord # Slash /\ Zero + i # Slash
      BY DEF Slash, ColumnWord, Zero
    <3>4. QED
      BY <1>4, <2>1, <3>2, <3>3
  <2>5. j \in Nat /\ n \in Nat /\ m \in Nat
    BY <1>1, <2>1
  <2>6. QED
    BY <2>2, <2>3, <2>4, <2>5
<1>6. 1 \in slashes /\ n + 2 \in slashes /\ n + m + 3 \in slashes
  <2>1. 1 \in DOMAIN key /\ n + 2 \in DOMAIN key /\ n + m + 3 \in DOMAIN key
    BY <1>1, <1>3
  <2>2. QED
    BY <1>4, <2>1
<1>7. slashes \in SUBSET Nat
  BY <1>3
<1> HIDE DEF slashes
<1>8. Lists(list, 3, slashes, order)
  <2>1. list \in [1 .. 3 -> slashes]
    BY <1>6
  <2>2. list[1] = 1 /\ list[2] = n + 2 /\ list[3] = n + m + 3
    OBVIOUS
  <2>3. \A j \in slashes : \E a \in 1 .. 3 : list[a] = j
    BY <1>5, <2>2
  <2>4. ASSUME NEW a \in 1 .. 3, NEW b \in 1 .. 3, a < b
        PROVE  <<list[a], list[b]>> \in order
    <3>1. list[a] \in slashes /\ list[b] \in slashes
      BY <2>1
    <3>2. (a = 1 /\ b = 2) \/ (a = 1 /\ b = 3) \/ (a = 2 /\ b = 3)
      BY <2>4
    <3>3. 1 < n + 2 /\ 1 < n + m + 3 /\ n + 2 < n + m + 3
      BY <1>1
    <3>4. list[a] < list[b]
      BY <2>2, <3>2, <3>3
    <3>5. QED
      BY <3>1, <3>4 DEF NumberOrderOn
  <2>5. QED
    BY <2>1, <2>3, <2>4 DEF Lists
<1>9. Sorted(slashes, <)[3] = n + m + 3
  <2>1. list = ByRank(slashes, order)
    BY <1>7, <1>8, NumbersAreOrdered, ListsAreRanks
  <2>2. Sorted(slashes, <) = ByRank(slashes, order)
    BY SortedNumbers
  <2>3. list[3] = n + m + 3
    OBVIOUS
  <2>4. QED
    BY <2>1, <2>2, <2>3
<1>10. ColumnPart(key) = SubSeq(key, n + m + 4, n + m + 5)
  <2>1. ColumnPart(key) = SubSeq(key, Sorted(slashes, <)[3] + 1, Len(key))
    BY DEF ColumnPart, slashes
  <2>2. (n + m + 3) + 1 = n + m + 4
    BY <1>1
  <2>3. QED
    BY <1>3, <1>9, <2>1, <2>2
<1>11. /\ Len(ColumnPart(key)) = 2
       /\ ColumnPart(key)[1] = ColumnWord /\ ColumnPart(key)[2] = Zero + i
  <2>1. /\ n + m + 4 \in Int /\ n + m + 5 \in Int
        /\ \A a \in n + m + 4 .. n + m + 5 : key[a] \in Nat
    BY <1>1, <1>3
  <2> DEFINE part == SubSeq(key, n + m + 4, n + m + 5)
  <2>2. /\ Len(part) = 2
        /\ \A a \in 1 .. 2 : part[a] = key[n + m + 4 + a - 1]
    <3>1. /\ (n + m + 5) - (n + m + 4) + 1 = 2 /\ n + m + 4 <= n + m + 5
      BY <1>1
    <3>2. QED
      BY <2>1, <3>1, SubSeqProperties
  <2> HIDE DEF part
  <2>3. /\ n + m + 4 + 1 - 1 = n + m + 4
        /\ n + m + 4 + 2 - 1 = n + m + 5
    BY <1>1
  <2>4. part[1] = key[n + m + 4] /\ part[2] = key[n + m + 5]
    BY <2>2, <2>3
  <2>5. QED
    BY <1>4, <1>10, <2>2, <2>4 DEF part
<1>12. Zero + i \in Zero .. Zero + 9
  BY DEF Zero
<1>13. Parses(key)
  BY <1>11, <1>12 DEF Parses
<1>14. ColumnId(key) = i
  <2>1. ColumnId(key) = ColumnPart(key)[2] - Zero
    BY DEF ColumnId
  <2>2. ColumnPart(key)[2] = Zero + i /\ (Zero + i) - Zero = i
    BY <1>11 DEF Zero
  <2>3. QED
    BY <2>1, <2>2
<1>15. QED
  BY <1>13, <1>14 DEF key

NameOrderOn(S) == {pair \in S \X S : NameBefore(pair[1], pair[2])}

LEMMA SortedNames ==
    ASSUME NEW S
    PROVE  Sorted(S, NameBefore) = ByRank(S, NameOrderOn(S))
<1>1. ASSUME NEW x \in S
      PROVE  {y \in S : NameBefore(y, x)} = Below(S, NameOrderOn(S), x)
  BY DEF Below, NameOrderOn
<1>2. ASSUME NEW n, NEW x \in S
      PROVE  Cardinality({y \in S : NameBefore(y, x)}) = n - 1
                 <=> Cardinality(Below(S, NameOrderOn(S), x)) = n - 1
  BY <1>1
<1> DEFINE sorted(n) == CHOOSE x \in S : Cardinality({y \in S : NameBefore(y, x)}) = n - 1
           ranked(n) ==
               CHOOSE x \in S : Cardinality(Below(S, NameOrderOn(S), x)) = n - 1
<1>3. \A n : sorted(n) = ranked(n)
  BY <1>2
<1>4. Sorted(S, NameBefore) = [n \in 1 .. Cardinality(S) |-> sorted(n)]
  BY DEF Sorted
<1>5. ByRank(S, NameOrderOn(S)) = [n \in 1 .. Cardinality(S) |-> ranked(n)]
  BY DEF ByRank
<1> HIDE DEF sorted, ranked
<1>6. QED
  BY <1>3, <1>4, <1>5

LEMMA NamesAreOrdered ==
    ASSUME NEW S \in SUBSET Seq(Nat)
    PROVE  IsOrder(S, NameOrderOn(S))
<1> DEFINE slash == <<Slash>>
           ends(p) == p \o slash
           T == {ends(p) : p \in S}
<1>1. /\ slash \in Seq(Nat)
      /\ \A p \in Seq(Nat) : ends(p) \in Seq(Nat)
  BY DEF Slash
<1>2. \A p, q \in Seq(Nat) : ends(p) = ends(q) => p = q
  BY <1>1, ConcatSimplifications
<1>3. \A p, q : NameBefore(p, q) <=> Before(ends(p), ends(q))
  BY DEF NameBefore
<1> HIDE DEF ends
<1>4. T \in SUBSET Seq(Nat)
  BY <1>1
<1>5. IsOrder(T, KeyOrderOn(T))
  BY <1>4, KeysAreOrdered
<1>6. \A p, q \in S : <<p, q>> \in NameOrderOn(S) <=> <<ends(p), ends(q)>> \in KeyOrderOn(T)
  BY <1>3 DEF NameOrderOn, KeyOrderOn
<1>7. \A p \in S : p \in Seq(Nat) /\ ends(p) \in T
  OBVIOUS
<1> HIDE DEF T
<1>8. QED
  BY <1>2, <1>5, <1>6, <1>7 DEF IsOrder

\* Of two names without slashes, one ends where the other does if their keys
\* are the same up to the slash behind the one.
LEMMA NameEnds ==
    ASSUME NEW s \in Tables, NEW i \in 0 .. 9,
           NEW p \in Seq(Nat), SlashFree(p), NEW q \in Seq(Nat), SlashFree(q),
           \A k \in 1 .. Len(p) + 1 :
               Key(s, p, i)[Len(s.name) + 2 + k] = Key(s, q, i)[Len(s.name) + 2 + k]
    PROVE  p = q
<1> DEFINE kp == Key(s, p, i)
           kq == Key(s, q, i)
           n == Len(s.name)
<1>1. HasShape(kp, s, p, i) /\ HasShape(kq, s, q, i)
  BY KeyShape
<1>2. n \in Nat /\ Len(p) \in Nat /\ Len(q) \in Nat
  BY TableFacts
<1> HIDE DEF kp, kq, n
<1>3. \A k \in 1 .. Len(p) + 1 : kp[n + 2 + k] = kq[n + 2 + k]
  BY DEF kp, kq, n
<1>4. /\ \A b \in 1 .. Len(p) : kp[n + 2 + b] = p[b]
      /\ \A b \in 1 .. Len(q) : kq[n + 2 + b] = q[b]
      /\ kp[n + 2 + (Len(p) + 1)] = Slash
      /\ kq[n + 2 + (Len(q) + 1)] = Slash
  <2>1. n + 2 + (Len(p) + 1) = n + Len(p) + 3 /\ n + 2 + (Len(q) + 1) = n + Len(q) + 3
    BY <1>2
  <2>2. QED
    BY <1>1, <2>1 DEF HasShape, n
<1>5. ~(Len(p) < Len(q))
  <2> SUFFICES ASSUME Len(p) < Len(q) PROVE FALSE
    OBVIOUS
  <2>1. Len(p) + 1 \in 1 .. Len(q) /\ Len(p) + 1 \in 1 .. Len(p) + 1
    BY <1>2
  <2>2. q[Len(p) + 1] = Slash
    BY <1>3, <1>4, <2>1
  <2>3. QED
    BY <2>1, <2>2 DEF SlashFree
<1>6. ~(Len(q) < Len(p))
  <2> SUFFICES ASSUME Len(q) < Len(p) PROVE FALSE
    OBVIOUS
  <2>1. Len(q) + 1 \in 1 .. Len(p) /\ Len(q) + 1 \in 1 .. Len(p) + 1
    BY <1>2
  <2>2. p[Len(q) + 1] = Slash
    BY <1>3, <1>4, <2>1
  <2>3. QED
    BY <2>1, <2>2 DEF SlashFree
<1>7. Len(p) = Len(q)
  BY <1>2, <1>5, <1>6
<1>8. ASSUME NEW b \in 1 .. Len(p) PROVE p[b] = q[b]
  <2>1. b \in 1 .. Len(p) + 1 /\ b \in 1 .. Len(q)
    BY <1>2, <1>7
  <2>2. QED
    BY <1>3, <1>4, <2>1
<1>9. QED
  BY <1>7, <1>8, SeqEqual

\* The keys of one column come in the order of the names.
LEMMA NamesOrderKeys ==
    ASSUME NEW s \in Tables, NEW i \in 0 .. 9,
           NEW p \in Seq(Nat), SlashFree(p), NEW q \in Seq(Nat), SlashFree(q),
           Before(Key(s, p, i), Key(s, q, i))
    PROVE  NameBefore(p, q)
<1> DEFINE kp == Key(s, p, i)
           kq == Key(s, q, i)
           n == Len(s.name)
           slash == <<Slash>>
           ep == p \o slash
           eq == q \o slash
<1>1. HasShape(kp, s, p, i) /\ HasShape(kq, s, q, i)
  BY KeyShape
<1>2. n \in Nat /\ Len(p) \in Nat /\ Len(q) \in Nat
  BY TableFacts
<1>3. slash \in Seq(Nat) /\ Len(slash) = 1 /\ slash[1] = Slash
  BY DEF Slash
<1>4. IsJoined(p, slash, ep) /\ IsJoined(q, slash, eq)
  BY <1>3, Joined
<1>5. kp \in Seq(Nat) /\ kq \in Seq(Nat)
  BY <1>1 DEF HasShape, Begins
<1>6. PICK t \in Nat : LessAt(kp, kq, t)
  BY <1>5, BeforeIsLess
<1>7. NameBefore(p, q) <=> Before(ep, eq)
  BY DEF NameBefore
<1>8. ASSUME p = q PROVE FALSE
  <2>1. kp = kq
    BY <1>8
  <2>2. LessAt(kq, kq, t) /\ t \in 1 .. Len(kq) /\ kq[t] \in Nat
    BY <1>5, <1>6, <2>1 DEF LessAt
  <2>3. kq[t] < kq[t]
    BY <1>5, <2>2 DEF LessAt
  <2>4. QED
    BY <2>2, <2>3
<1>9. /\ Len(kp) = n + Len(p) + 5 /\ Len(kq) = n + Len(q) + 5
      /\ \A k \in 1 .. n + 2 : kp[k] = kq[k]
  <2>1. /\ Len(kp) = n + Len(p) + 5 /\ Len(kq) = n + Len(q) + 5
        /\ kp[1] = Slash /\ kq[1] = Slash
        /\ \A a \in 1 .. n : kp[1 + a] = s.name[a] /\ kq[1 + a] = s.name[a]
        /\ kp[n + 2] = Slash /\ kq[n + 2] = Slash
    BY <1>1 DEF HasShape, Begins
  <2>2. ASSUME NEW k \in 1 .. n + 2 PROVE kp[k] = kq[k]
    <3>1. CASE k = 1 \/ k = n + 2
      BY <2>1, <3>1
    <3>2. CASE k # 1 /\ k # n + 2
      <4>1. k - 1 \in 1 .. n /\ 1 + (k - 1) = k
        BY <1>2, <3>2
      <4>2. kp[1 + (k - 1)] = kq[1 + (k - 1)]
        BY <2>1, <4>1
      <4>3. QED
        BY <4>1, <4>2
    <3>3. QED
      BY <3>1, <3>2
  <2>3. QED
    BY <2>1, <2>2
<1>10. \A k \in 1 .. Len(p) + 1 : ep[k] = kp[n + 2 + k]
  <2> TAKE k \in 1 .. Len(p) + 1
  <2>1. CASE k = Len(p) + 1
    <3>1. ep[Len(p) + 1] = Slash
      BY <1>3, <1>4 DEF IsJoined
    <3>2. kp[n + Len(p) + 3] = Slash
      BY <1>1 DEF HasShape
    <3>3. n + 2 + k = n + Len(p) + 3
      <4>1. n \in Nat /\ Len(p) \in Nat /\ k = Len(p) + 1
        BY <1>2, <2>1
      <4> HIDE DEF n
      <4>2. QED
        BY <4>1
    <3>4. QED
      BY <2>1, <3>1, <3>2, <3>3
  <2>2. CASE k # Len(p) + 1
    <3>1. k \in 1 .. Len(p)
      BY <1>2, <2>2
    <3>2. ep[k] = p[k]
      BY <1>4, <3>1 DEF IsJoined
    <3>3. kp[n + 2 + k] = p[k]
      BY <1>1, <3>1 DEF HasShape
    <3>4. QED
      BY <3>2, <3>3
  <2>3. QED
    BY <2>1, <2>2
<1>11. \A k \in 1 .. Len(q) + 1 : eq[k] = kq[n + 2 + k]
  <2> TAKE k \in 1 .. Len(q) + 1
  <2>1. CASE k = Len(q) + 1
    <3>1. eq[Len(q) + 1] = Slash
      BY <1>3, <1>4 DEF IsJoined
    <3>2. kq[n + Len(q) + 3] = Slash
      BY <1>1 DEF HasShape
    <3>3. n + 2 + k = n + Len(q) + 3
      <4>1. n \in Nat /\ Len(q) \in Nat /\ k = Len(q) + 1
        BY <1>2, <2>1
      <4> HIDE DEF n
      <4>2. QED
        BY <4>1
    <3>4. QED
      BY <2>1, <3>1, <3>2, <3>3
  <2>2. CASE k # Len(q) + 1
    <3>1. k \in 1 .. Len(q)
      BY <1>2, <2>2
    <3>2. eq[k] = q[k]
      BY <1>4, <3>1 DEF IsJoined
    <3>3. kq[n + 2 + k] = q[k]
      BY <1>1, <3>1 DEF HasShape
    <3>4. QED
      BY <3>2, <3>3
  <2>3. QED
    BY <2>1, <2>2
<1>12. /\ ep \in Seq(Nat) /\ Len(ep) = Len(p) + 1
       /\ eq \in Seq(Nat) /\ Len(eq) = Len(q) + 1
  BY <1>3, <1>4 DEF IsJoined
<1> HIDE DEF ep, eq, slash
<1>13. /\ t \in 1 .. Len(kq) /\ t <= Len(kp) + 1
       /\ \A k \in 1 .. t - 1 : kp[k] = kq[k]
       /\ t <= Len(kp) => kp[t] < kq[t]
  BY <1>6 DEF LessAt
<1>14. n + 2 < t
  <2> SUFFICES ASSUME t <= n + 2 PROVE FALSE
    BY <1>2
  <2>1. t \in 1 .. n + 2 /\ t <= Len(kp)
    BY <1>2, <1>9, <1>13
  <2>2. kp[t] = kq[t] /\ kp[t] < kq[t]
    BY <1>9, <1>13, <2>1
  <2>3. kq[t] \in Nat
    BY <1>5, <1>13
  <2>4. QED
    BY <2>2, <2>3
<1> DEFINE j == t - (n + 2)
<1>15. j \in Nat /\ 1 <= j /\ n + 2 + j = t
  <2>1. t \in Nat /\ n \in Nat
    BY <1>2
  <2> HIDE DEF n
  <2>2. QED
    BY <1>14, <2>1
<1> HIDE DEF j
<1>16. \A k \in 1 .. j - 1 : kp[n + 2 + k] = kq[n + 2 + k]
  <2> TAKE k \in 1 .. j - 1
  <2>1. n + 2 + k \in 1 .. t - 1
    BY <1>2, <1>15
  <2>2. QED
    BY <1>13, <2>1
<1>17. j <= Len(p) + 1
  <2> SUFFICES ASSUME Len(p) + 1 < j PROVE FALSE
    BY <1>2, <1>15
  <2>1. \A k \in 1 .. Len(p) + 1 : kp[n + 2 + k] = kq[n + 2 + k]
    <3> TAKE k \in 1 .. Len(p) + 1
    <3>1. k \in 1 .. j - 1
      BY <1>2, <1>15
    <3>2. QED
      BY <1>16, <3>1
  <2>2. p = q
    BY <2>1, NameEnds
  <2>3. QED
    BY <1>8, <2>2
<1>18. j <= Len(q) + 1
  <2> SUFFICES ASSUME Len(q) + 1 < j PROVE FALSE
    BY <1>2, <1>15
  <2>1. \A k \in 1 .. Len(q) + 1 : kq[n + 2 + k] = kp[n + 2 + k]
    <3> TAKE k \in 1 .. Len(q) + 1
    <3>1. k \in 1 .. j - 1
      BY <1>2, <1>15
    <3>2. QED
      BY <1>16, <3>1
  <2>2. q = p
    BY <2>1, NameEnds
  <2>3. QED
    BY <1>8, <2>2
<1>19. \A k \in 1 .. j - 1 : ep[k] = eq[k]
  <2> TAKE k \in 1 .. j - 1
  <2>1. k \in 1 .. Len(p) + 1 /\ k \in 1 .. Len(q) + 1
    BY <1>2, <1>15, <1>17, <1>18
  <2>2. QED
    BY <1>10, <1>11, <1>16, <2>1
<1>20. ep[j] < eq[j]
  <2>1. j \in 1 .. Len(p) + 1 /\ j \in 1 .. Len(q) + 1 /\ t <= Len(kp)
    BY <1>2, <1>9, <1>15, <1>17, <1>18
  <2>2. ep[j] = kp[t] /\ eq[j] = kq[t]
    BY <1>10, <1>11, <1>15, <2>1
  <2>3. kp[t] < kq[t]
    BY <1>13, <2>1
  <2>4. QED
    BY <2>2, <2>3
<1>21. j \in 1 .. Len(eq) /\ j <= Len(ep) + 1
  BY <1>2, <1>12, <1>15, <1>17, <1>18
<1>22. LessAt(ep, eq, j)
  BY <1>19, <1>20, <1>21 DEF LessAt
<1>23. QED
  BY <1>7, <1>12, <1>15, <1>22, BeforeIsLess

\* The keys a SELECT of s goes through.
KeysOf(s) == {key \in DOMAIN db : IsPrefix(Prefix(s), key)}

LEMMA StoredNames ==
    ASSUME NEW s \in Tables, Tidy(s), NEW pk \in Stored(s)
    PROVE  pk \in Names /\ pk \in Seq(Nat) /\ SlashFree(pk)
<1>1. pk \in Names /\ pk \in Seq(Nat)
  BY NameAssumption DEF Stored
<1>2. DOMAIN pk = 1 .. Len(pk)
  BY <1>1
<1>3. QED
  BY <1>1, <1>2 DEF Tidy, SlashFree

\* They are those of its rows, column by column.
LEMMA KeysOfRows ==
    ASSUME KeysInv, NEW s \in Tables
    PROVE  /\ IsFiniteSet(KeysOf(s)) /\ KeysOf(s) \in SUBSET Seq(Nat)
           /\ \A key \in KeysOf(s) :
                 \E pk \in Stored(s) : \E i \in Columns(s) : key = Key(s, pk, i)
           /\ \A pk \in Stored(s) : \A i \in Columns(s) : Key(s, pk, i) \in KeysOf(s)
<1>1. IsFiniteSet(KeysOf(s))
  <2>1. IsFiniteSet(DOMAIN db) /\ KeysOf(s) \in SUBSET DOMAIN db
    BY DEF KeysInv, Shape, KeysOf
  <2>2. QED
    BY <2>1, FS_Subset
<1>2. ASSUME NEW key \in DOMAIN db
      PROVE  \E t \in Tables, pk \in Names : \E i \in Columns(t) :
                key = Key(t, pk, i) /\ i \in 0 .. 9
                  /\ key \in Seq(Nat) /\ Begins(key, t)
  <2>1. PICK t \in Tables, pk \in Names : \E i \in Columns(t) : key = Key(t, pk, i)
    BY DEF KeysInv, Shape
  <2>2. PICK i \in Columns(t) : key = Key(t, pk, i)
    BY <2>1
  <2>3. i \in 0 .. 9 /\ pk \in Seq(Nat)
    BY TableFacts, NameAssumption
  <2>4. HasShape(key, t, pk, i)
    BY <2>2, <2>3, KeyShape
  <2>5. QED
    BY <2>2, <2>3, <2>4 DEF HasShape, Begins
<1>3. ASSUME NEW key \in KeysOf(s)
      PROVE  /\ key \in Seq(Nat)
             /\ \E pk \in Stored(s) : \E i \in Columns(s) : key = Key(s, pk, i)
  <2>1. key \in DOMAIN db /\ IsPrefix(Prefix(s), key)
    BY DEF KeysOf
  <2>2. PICK t \in Tables, pk \in Names : \E i \in Columns(t) :
            key = Key(t, pk, i) /\ i \in 0 .. 9
              /\ key \in Seq(Nat) /\ Begins(key, t)
    BY <1>2, <2>1
  <2>3. PICK i \in Columns(t) :
            key = Key(t, pk, i) /\ i \in 0 .. 9
              /\ key \in Seq(Nat) /\ Begins(key, t)
    BY <2>2
  <2>4. s = t
    BY <2>1, <2>3, PrefixBegins, OneTable
  <2>5. written[s][pk] # None
    BY <2>1, <2>3, <2>4 DEF KeysInv, RowsKeepApart, Columns
  <2>6. pk \in Stored(s)
    BY <2>5 DEF Stored
  <2>7. QED
    BY <2>3, <2>4, <2>6
<1>4. ASSUME NEW pk \in Stored(s), NEW i \in Columns(s)
      PROVE  Key(s, pk, i) \in KeysOf(s)
  <2>1. pk \in Names /\ written[s][pk] # None
    BY DEF Stored
  <2>2. Key(s, pk, i) \in DOMAIN db
    BY <2>1 DEF KeysInv, RowsKeepApart, Columns
  <2>3. i \in 0 .. 9 /\ pk \in Seq(Nat)
    BY <2>1, TableFacts, NameAssumption
  <2>4. HasShape(Key(s, pk, i), s, pk, i)
    BY <2>3, KeyShape
  <2>5. IsPrefix(Prefix(s), Key(s, pk, i))
    BY <2>4, PrefixBegins DEF HasShape, Begins
  <2>6. QED
    BY <2>2, <2>5 DEF KeysOf
<1>5. QED
  BY <1>1, <1>3, <1>4

\* The scan goes through them in order.
LEMMA ScanOrder ==
    ASSUME KeysInv, NEW s \in Tables
    PROVE  /\ Cardinality(KeysOf(s)) \in Nat
           /\ Lists(GetAll(Prefix(s)), Cardinality(KeysOf(s)), KeysOf(s),
                    KeyOrderOn(KeysOf(s)))
<1>1. GetAll(Prefix(s)) = ByRank(KeysOf(s), KeyOrderOn(KeysOf(s)))
  BY SortedKeys DEF GetAll, KeysOf
<1>2. IsFiniteSet(KeysOf(s)) /\ IsOrder(KeysOf(s), KeyOrderOn(KeysOf(s)))
  BY KeysOfRows, KeysAreOrdered
<1>3. QED
  BY <1>1, <1>2, RanksList, FS_CardinalityType

\* parse_key takes every one of them apart.
LEMMA KeysAreReadable ==
    ASSUME KeysInv, NEW s \in Tables, Tidy(s)
    PROVE  Readable(s)
<1>1. GetAll(Prefix(s)) \in [1 .. Cardinality(KeysOf(s)) -> KeysOf(s)]
  BY ScanOrder DEF Lists
<1>2. ToSet(GetAll(Prefix(s))) \subseteq KeysOf(s)
  BY <1>1 DEF ToSet
<1>3. ASSUME NEW key \in KeysOf(s)
      PROVE  Parses(key) /\ ColumnId(key) < s.columns
  <2>1. PICK pk \in Stored(s) : \E i \in Columns(s) : key = Key(s, pk, i)
    BY KeysOfRows
  <2>2. PICK i \in Columns(s) : key = Key(s, pk, i)
    BY <2>1
  <2>3. pk \in Seq(Nat) /\ SlashFree(pk) /\ i \in 0 .. 9
    BY StoredNames, TableFacts
  <2>4. Parses(key) /\ ColumnId(key) = i
    BY <2>2, <2>3, ColumnOfKey
  <2>5. i < s.columns
    BY TableFacts DEF Columns
  <2>6. QED
    BY <2>4, <2>5
<1>4. QED
  BY <1>2, <1>3 DEF Readable

\* A builder gets the values of its column in the order of the names.
LEMMA BuilderOfColumn ==
    ASSUME KeysInv, NEW s \in Tables, Tidy(s), NEW c \in Columns(s)
    PROVE  /\ Cardinality(Stored(s)) \in Nat
           /\ Sorted(Stored(s), NameBefore) \in [1 .. Cardinality(Stored(s)) -> Stored(s)]
           /\ Builder(GetAll(Prefix(s)), c)
                 = [n \in 1 .. Cardinality(Stored(s)) |->
                       written[s][Sorted(Stored(s), NameBefore)[n]][c]]
<1> DEFINE K == KeysOf(s)
           N == Cardinality(K)
           keys == GetAll(Prefix(s))
           I == {i \in 1 .. N : ColumnId(keys[i]) = c}
           M == Cardinality(I)
           own == ByRank(I, NumberOrderOn(I))
           names == [n \in 1 .. M |->
                        CHOOSE pk \in Stored(s) : keys[own[n]] = Key(s, pk, c)]
<1>1. /\ N \in Nat /\ keys \in [1 .. N -> K]
      /\ \A key \in K : \E i \in 1 .. N : keys[i] = key
      /\ \A i, j \in 1 .. N : i < j => <<keys[i], keys[j]>> \in KeyOrderOn(K)
  BY ScanOrder DEF Lists
<1>2. ASSUME NEW pk \in Stored(s), NEW i \in Columns(s)
      PROVE  /\ pk \in Names /\ pk \in Seq(Nat) /\ SlashFree(pk) /\ i \in 0 .. 9
             /\ ColumnId(Key(s, pk, i)) = i /\ Key(s, pk, i) \in K
  <2>1. pk \in Names /\ pk \in Seq(Nat) /\ SlashFree(pk) /\ i \in 0 .. 9
    BY StoredNames, TableFacts
  <2>2. ColumnId(Key(s, pk, i)) = i
    BY <2>1, ColumnOfKey
  <2>3. Key(s, pk, i) \in K
    BY KeysOfRows
  <2>4. QED
    BY <2>1, <2>2, <2>3
<1>3. \A key \in K : \E pk \in Stored(s) : \E i \in Columns(s) : key = Key(s, pk, i)
  BY KeysOfRows
<1>4. Builder(keys, c) = [n \in DOMAIN own |-> db[keys[own[n]]]]
  <2>1. DOMAIN keys = 1 .. N
    BY <1>1
  <2>2. I = {i \in DOMAIN keys : ColumnId(keys[i]) = c}
    BY <2>1
  <2>3. Sorted({i \in DOMAIN keys : ColumnId(keys[i]) = c}, <) = own
    BY <2>2, SortedNumbers
  <2> HIDE DEF own, keys
  <2>4. QED
    BY <2>3 DEF Builder
<1> HIDE DEF K, N, keys
<1>5. IsFiniteSet(I) /\ I \in SUBSET Nat
  <2>1. IsFiniteSet(1 .. N)
    BY <1>1, FS_Interval
  <2>2. I \in SUBSET (1 .. N)
    OBVIOUS
  <2> HIDE DEF I
  <2>3. IsFiniteSet(I)
    BY <2>1, <2>2, FS_Subset
  <2>4. I \in SUBSET Nat
    BY <2>2
  <2>5. QED
    BY <2>3, <2>4
<1>6. \A i \in I : i \in 1 .. N /\ ColumnId(keys[i]) = c
  OBVIOUS
<1>7. \A i \in 1 .. N : ColumnId(keys[i]) = c => i \in I
  OBVIOUS
<1> HIDE DEF I
<1>8. /\ M \in Nat /\ own \in [1 .. M -> I]
      /\ \A i \in I : \E n \in 1 .. M : own[n] = i
      /\ \A m, n \in 1 .. M : m < n => <<own[m], own[n]>> \in NumberOrderOn(I)
  <2>1. Lists(own, M, I, NumberOrderOn(I)) /\ M \in Nat
    BY <1>5, NumbersAreOrdered, RanksList, FS_CardinalityType
  <2>2. QED
    BY <2>1 DEF Lists
<1> HIDE DEF M, own
<1>9. ASSUME NEW n \in 1 .. M
      PROVE  names[n] \in Stored(s) /\ keys[own[n]] = Key(s, names[n], c)
  <2>1. own[n] \in 1 .. N /\ ColumnId(keys[own[n]]) = c
    BY <1>6, <1>8
  <2>2. keys[own[n]] \in K
    BY <1>1, <2>1
  <2>3. PICK pk \in Stored(s) : \E i \in Columns(s) : keys[own[n]] = Key(s, pk, i)
    BY <1>3, <2>2
  <2>4. keys[own[n]] = Key(s, pk, c)
    BY <1>2, <2>1, <2>3
  <2>5. QED
    BY <2>4
<1>10. names \in [1 .. M -> Stored(s)]
  BY <1>9
<1> HIDE DEF names
<1>11. ASSUME NEW pk \in Stored(s)
       PROVE  \E n \in 1 .. M : names[n] = pk
  <2>1. Key(s, pk, c) \in K /\ ColumnId(Key(s, pk, c)) = c
    BY <1>2
  <2>2. PICK i \in 1 .. N : keys[i] = Key(s, pk, c)
    BY <1>1, <2>1
  <2>3. i \in I
    BY <1>7, <2>1, <2>2
  <2>4. PICK n \in 1 .. M : own[n] = i
    BY <1>8, <2>3
  <2>5. names[n] \in Stored(s) /\ Key(s, pk, c) = Key(s, names[n], c)
    BY <1>9, <2>2, <2>4
  <2>6. pk = names[n]
    <3>1. pk \in Names /\ names[n] \in Names /\ c \in 0 .. 9
      BY <1>2, <2>5
    <3>2. QED
      BY <2>5, <3>1, KeysAreDistinct
  <2>7. QED
    BY <2>6
<1>12. ASSUME NEW m \in 1 .. M, NEW n \in 1 .. M, m < n
       PROVE  <<names[m], names[n]>> \in NameOrderOn(Stored(s))
  <2>1. own[m] < own[n] /\ own[m] \in 1 .. N /\ own[n] \in 1 .. N
    BY <1>6, <1>8, <1>12 DEF NumberOrderOn
  <2>2. Before(keys[own[m]], keys[own[n]])
    BY <1>1, <2>1 DEF KeyOrderOn
  <2>3. /\ names[m] \in Stored(s) /\ names[n] \in Stored(s)
        /\ Before(Key(s, names[m], c), Key(s, names[n], c))
    BY <1>9, <2>2
  <2>4. NameBefore(names[m], names[n])
    BY <1>2, <2>3, NamesOrderKeys
  <2>5. QED
    BY <2>3, <2>4 DEF NameOrderOn
<1>13. Lists(names, M, Stored(s), NameOrderOn(Stored(s)))
  BY <1>10, <1>11, <1>12 DEF Lists
<1>14. IsOrder(Stored(s), NameOrderOn(Stored(s)))
  <2>1. Stored(s) \in SUBSET Seq(Nat)
    BY StoredNames
  <2>2. QED
    BY <2>1, NamesAreOrdered
<1>15. Cardinality(Stored(s)) = M /\ names = Sorted(Stored(s), NameBefore)
  <2>1. Cardinality(Stored(s)) = M /\ names = ByRank(Stored(s), NameOrderOn(Stored(s)))
    BY <1>8, <1>13, <1>14, ListsAreRanks
  <2>2. QED
    BY <2>1, SortedNames
<1>16. ASSUME NEW n \in 1 .. M
       PROVE  db[keys[own[n]]] = written[s][names[n]][c]
  <2>1. names[n] \in Stored(s) /\ keys[own[n]] = Key(s, names[n], c)
    BY <1>9
  <2>2. names[n] \in Names /\ written[s][names[n]] # None
    BY <2>1 DEF Stored
  <2>3. QED
    BY <2>1, <2>2 DEF KeysInv, RowsKeepApart, Columns
<1>17. DOMAIN own = 1 .. M
  BY <1>8
<1>18. Builder(keys, c) = [n \in 1 .. M |-> written[s][names[n]][c]]
  BY <1>4, <1>16, <1>17
<1>19. QED
  BY <1>8, <1>10, <1>15, <1>18 DEF keys

\* The builders side by side are the rows.
LEMMA RowsAreScanned ==
    ASSUME KeysInv, NEW s \in Tables, Tidy(s)
    PROVE  Scan(s) = Records(s)
<1> DEFINE pks == Sorted(Stored(s), NameBefore)
           M == Cardinality(Stored(s))
           keys == GetAll(Prefix(s))
           builders == [c \in Columns(s) |-> Builder(keys, c)]
<1>1. 0 \in Columns(s)
  BY TableFacts DEF Columns
<1>2. M \in Nat /\ pks \in [1 .. M -> Stored(s)]
  BY <1>1, BuilderOfColumn
<1>3. \A c \in Columns(s) :
          builders[c] = [n \in 1 .. M |-> written[s][pks[n]][c]]
  BY BuilderOfColumn
<1>4. Scan(s) = [i \in DOMAIN builders[0] |->
                    [c \in DOMAIN builders |->
                        IF i \in DOMAIN builders[c] THEN builders[c][i] ELSE Garbage]]
  BY DEF Scan, Columns
<1>5. Records(s) = [i \in DOMAIN pks |-> written[s][pks[i]]]
  BY DEF Records
<1>6. DOMAIN builders = Columns(s)
  OBVIOUS
<1> HIDE DEF pks, M, keys, builders
<1>7. DOMAIN pks = 1 .. M /\ DOMAIN builders[0] = 1 .. M
  BY <1>1, <1>2, <1>3
<1>8. ASSUME NEW i \in 1 .. M
      PROVE  [c \in DOMAIN builders |->
                 IF i \in DOMAIN builders[c] THEN builders[c][i] ELSE Garbage]
             = written[s][pks[i]]
  <2>1. pks[i] \in Stored(s)
    BY <1>2
  <2>2. written[s][pks[i]] \in RowsOf(s)
    BY <2>1 DEF Stored, KeysInv, Shape
  <2>3. written[s][pks[i]] = [c \in Columns(s) |-> written[s][pks[i]][c]]
    BY <2>2, RowIsFunction
  <2>4. \A c \in Columns(s) :
            (IF i \in DOMAIN builders[c] THEN builders[c][i] ELSE Garbage)
                = written[s][pks[i]][c]
    BY <1>3
  <2>5. QED
    BY <1>6, <2>3, <2>4
<1>9. QED
  BY <1>4, <1>5, <1>7, <1>8

-----------------------------------------------------------------------------
(* Theorems.                                                               *)

\* Writing a row touches no cell of another row, for any tables, any names of
\* rows, slashes in them or not, and any number of columns up to ten: the keys
\* WriteRow makes of two rows have none in common.
THEOREM RowsNeverCollide == Spec => []RowsKeepApart
<1>1. KeysInv => RowsKeepApart
  BY DEF KeysInv
<1>2. QED
  BY InitKeys, KeysStep, <1>1, PTL DEF Spec

\* Every record a SELECT has answered, every row and every key is of a table
\* there is.
THEOREM RowStoreTypes == Spec => []TypeOK
<1> DEFINE Up == server \in {"up", "exited"} /\ (reply # None => server = "up")
           Inv == KeysInv /\ Up
<1>1. Init => Inv
  BY InitKeys DEF Init
<1>2. Inv /\ [Next]_vars => Inv'
  <2> SUFFICES ASSUME Inv, [Next]_vars PROVE Up'
    BY KeysStep
  <2>1. QED
    BY DEF Next, vars, WriteRow, Select, SelectDies, Restart
<1>3. Inv => TypeOK
  <2>1. \A s \in Tables : Columns(s) \subseteq 0 .. 9
    BY TableFacts
  <2>2. QED
    BY <2>1 DEF KeysInv, Shape, TypeOK
<1>4. QED
  BY <1>1, <1>2, <1>3, PTL DEF Spec

\* A SELECT shows the rows of its table, each whole and once and in the order of
\* their names, and it parses every key, for any tables, any rows and any names
\* without a slash in them, whatever the names in other tables are (GetAll,
\* parse_key, the builders).
THEOREM SelectsShowTheRows == Spec => []ScansShowTheRows
<1>1. KeysInv => ScansShowTheRows
  BY KeysAreReadable, RowsAreScanned DEF ScansShowTheRows
<1>2. QED
  BY InitKeys, KeysStep, <1>1, PTL DEF Spec
=============================================================================
