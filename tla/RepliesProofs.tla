--------------------------- MODULE RepliesProofs ---------------------------
(***************************************************************************)
(* Replies: what the encoders append to a package and what a client makes  *)
(* of its bytes, for every reply.  An encoder that patches its length adds *)
(* the same bytes as one that knows it from the start, so a package is its *)
(* messages one behind the other, and a client that goes from length to    *)
(* length meets each of them.                                              *)
(***************************************************************************)
EXTENDS Replies, SequenceTheorems, FiniteSetTheorems, NaturalsInduction,
        WellFoundedInduction, TLAPS

-----------------------------------------------------------------------------
(* Joined sequences, and the fold that joins them.                         *)

\* A non-empty set of numbers has a least one.
LEMMA LeastNumber ==
    ASSUME NEW bad \in SUBSET Nat, bad # {}
    PROVE  \E n \in bad : \A m \in Nat : m < n => m \notin bad
<1>1. PICK n \in bad : \A m \in bad : ~(<<m, n>> \in OpToRel(<, Nat))
  BY NatLessThanWellFounded, WFMin
<1>2. \A m \in bad : ~(m < n)
  BY <1>1, Zenon DEF OpToRel
<1>3. QED
  BY <1>2

\* A sequence of sequences can be joined, from the left to the right.
LEMMA JoinExists ==
    ASSUME NEW parts \in Seq(Seq(Int))
    PROVE  \E f \in [0 .. Len(parts) -> Seq(Int)] :
              /\ f[0] = << >>
              /\ \A k \in 1 .. Len(parts) : f[k] = f[k - 1] \o parts[k]
<1> DEFINE N == Len(parts)
           Joins(f, n) == /\ f[0] = << >>
                          /\ \A k \in 1 .. n : f[k] = f[k - 1] \o parts[k]
           Bad == {n \in 0 .. N : ~\E f \in [0 .. n -> Seq(Int)] : Joins(f, n)}
<1>1. N \in Nat /\ \A k \in 1 .. N : parts[k] \in Seq(Int)
  OBVIOUS
<1> HIDE DEF N
<1>2. ASSUME Bad # {} PROVE FALSE
  <2>1. Bad \in SUBSET Nat
    <3> HIDE DEF Joins
    <3> QED
      BY <1>1
  <2>2. PICK n \in Bad : \A m \in Nat : m < n => m \notin Bad
    <3> HIDE DEF Bad
    <3> QED
      BY <2>1, <1>2, LeastNumber
  <2>3. n \in 0 .. N /\ ~\E f \in [0 .. n -> Seq(Int)] : Joins(f, n)
    BY <2>2
  <2>4. CASE n = 0
    <3>1. [k \in 0 .. 0 |-> << >>] \in [0 .. 0 -> Seq(Int)]
      OBVIOUS
    <3>2. Joins([k \in 0 .. 0 |-> << >>], 0)
      OBVIOUS
    <3> HIDE DEF Joins
    <3> QED
      BY <2>3, <2>4, <3>1, <3>2
  <2>5. CASE n # 0
    <3>1. n \in Nat /\ n >= 1 /\ n - 1 \in 0 .. N /\ n \in 1 .. N
      BY <2>3, <2>5, <1>1
    <3>2. n - 1 \notin Bad
      <4>1. n - 1 \in Nat /\ n - 1 < n
        BY <3>1
      <4> HIDE DEF Bad
      <4> QED
        BY <2>2, <4>1
    <3>3. PICK f \in [0 .. n - 1 -> Seq(Int)] : Joins(f, n - 1)
      BY <3>1, <3>2
    <3> DEFINE g == [k \in 0 .. n |->
                       IF k = n THEN f[n - 1] \o parts[n] ELSE f[k]]
    <3>4. f[n - 1] \in Seq(Int) /\ parts[n] \in Seq(Int)
      BY <3>1, <3>3, <1>1
    <3>5. f[n - 1] \o parts[n] \in Seq(Int)
      BY <3>4, ConcatProperties
    <3>6. g \in [0 .. n -> Seq(Int)]
      BY <3>1, <3>3, <3>5
    <3>7. g[0] = << >>
      <4>1. 0 \in 0 .. n /\ 0 # n
        BY <3>1
      <4>2. f[0] = << >>
        BY <3>3
      <4>3. QED
        BY <4>1, <4>2, Zenon
    <3>8. \A k \in 1 .. n : g[k] = g[k - 1] \o parts[k]
      <4> TAKE k \in 1 .. n
      <4>1. CASE k = n
        <5>1. k - 1 \in 0 .. n /\ k - 1 # n
          BY <4>1, <3>1
        <5>2. g[n] = f[n - 1] \o parts[n]
          <6>1. n \in 0 .. n
            BY <3>1
          <6> QED
            BY <6>1
        <5>3. g[k - 1] = f[n - 1]
          BY <5>1, <4>1
        <5> QED
          BY <5>2, <5>3, <4>1
      <4>2. CASE k # n
        <5>1. k \in 1 .. n - 1 /\ k \in 0 .. n /\ k - 1 \in 0 .. n /\ k - 1 # n
          BY <4>2, <3>1
        <5>2. f[k] = f[k - 1] \o parts[k]
          BY <5>1, <3>3
        <5>3. g[k] = f[k] /\ g[k - 1] = f[k - 1]
          BY <5>1, <4>2
        <5> QED
          BY <5>2, <5>3
      <4> HIDE DEF g
      <4> QED
        BY <4>1, <4>2
    <3>9. Joins(g, n)
      BY <3>7, <3>8
    <3> HIDE DEF Joins, g
    <3> QED
      BY <2>3, <3>6, <3>9
  <2> QED
    BY <2>4, <2>5
<1>3. N \notin Bad
  BY <1>2
<1>4. N \in 0 .. N
  BY <1>1
<1>5. \E f \in [0 .. N -> Seq(Int)] : Joins(f, N)
  <2> HIDE DEF Joins
  <2> QED
    BY <1>3, <1>4
<1> QED
  BY <1>5 DEF N

\* FlattenSeq is the whole of what is joined.
LEMMA FlattenJoins ==
    ASSUME NEW parts \in Seq(Seq(Int)),
           NEW f \in [0 .. Len(parts) -> Seq(Int)],
           f[0] = << >>,
           \A k \in 1 .. Len(parts) : f[k] = f[k - 1] \o parts[k]
    PROVE  FlattenSeq(parts) = f[Len(parts)]
<1> DEFINE N == Len(parts)
<1>1. N \in Nat /\ \A k \in 1 .. N : parts[k] \in Seq(Int)
  OBVIOUS
<1>2. CASE N = 0
  BY <1>2 DEF FlattenSeq
<1>3. CASE N # 0
  <2> DEFINE Eq(g) == g = [i \in 1 .. N |->
                             IF i = 1 THEN parts[i] ELSE g[i - 1] \o parts[i]]
             h == [i \in 1 .. N |-> f[i]]
             flat == CHOOSE g : Eq(g)
  <2>1. Eq(h)
    <3>1. \A i \in 1 .. N : f[i] = IF i = 1 THEN parts[i] ELSE h[i - 1] \o parts[i]
      <4> TAKE i \in 1 .. N
      <4>1. CASE i = 1
        <5>1. f[i] = << >> \o parts[i]
          <6>1. i - 1 = 0
            BY <4>1
          <6> QED
            BY <6>1
        <5>2. << >> \o parts[i] = parts[i]
          BY <1>1, ConcatEmptySeq
        <5> QED
          BY <5>1, <5>2, <4>1
      <4>2. CASE i # 1
        <5>1. i - 1 \in 1 .. N
          BY <4>2, <1>1
        <5> QED
          BY <5>1, <4>2
      <4> QED
        BY <4>1, <4>2
    <3> QED
      BY <3>1, Zenon
  <2>2. Eq(flat)
    <3> HIDE DEF Eq, h
    <3> QED
      BY <2>1
  <2> DEFINE Bad == {i \in 1 .. N : flat[i] # f[i]}
  <2>3. \A i \in 1 .. N : flat[i] = IF i = 1 THEN parts[i] ELSE flat[i - 1] \o parts[i]
    <3> HIDE DEF flat
    <3> QED
      BY <2>2
  <2>4. FlattenSeq(parts) = flat[N]
    BY <1>3 DEF FlattenSeq
  <2>h. \A i \in 1 .. N : f[i] = IF i = 1 THEN parts[i] ELSE f[i - 1] \o parts[i]
    <3> TAKE i \in 1 .. N
    <3>1. f[i] = f[i - 1] \o parts[i]
      OBVIOUS
    <3>2. CASE i = 1
      <4>1. i - 1 = 0
        BY <3>2
      <4>2. f[i] = << >> \o parts[i]
        BY <4>1, <3>1
      <4> QED
        BY <4>2, <3>2, <1>1, ConcatEmptySeq
    <3> QED
      BY <3>1, <3>2
  <2> HIDE DEF flat
  <2>5. ASSUME Bad # {} PROVE FALSE
    <3>1. Bad \in SUBSET Nat
      BY <1>1
    <3>2. PICK n \in Bad : \A m \in Nat : m < n => m \notin Bad
      <4> HIDE DEF Bad
      <4> QED
        BY <3>1, <2>5, LeastNumber
    <3>3. n \in 1 .. N /\ flat[n] # f[n]
      BY <3>2
    <3>4. n # 1
      BY <3>3, <2>3, <2>h
    <3>5. n - 1 \in 1 .. N /\ n - 1 < n /\ n - 1 \in Nat
      BY <3>3, <3>4, <1>1
    <3>6. flat[n - 1] = f[n - 1]
      BY <3>5, <3>2
    <3> QED
      BY <3>3, <3>4, <3>6, <2>3, <2>h
  <2>6. N \in 1 .. N
    BY <1>1, <1>3
  <2> QED
    BY <2>4, <2>5, <2>6
<1> QED
  BY <1>2, <1>3

-----------------------------------------------------------------------------
(* The pieces messages are made of.                                        *)

\* What a sequence of bytes is made of.
LEMMA IntSeq ==
    ASSUME NEW s \in Seq(Int)
    PROVE  Len(s) \in Nat /\ \A i \in 1 .. Len(s) : s[i] \in Int
OBVIOUS

\* Two sequences of n bytes hold the same byte at every place.
Agree(s, t, n) ==
    /\ s \in Seq(Int) /\ t \in Seq(Int) /\ n \in Nat
    /\ Len(s) = n /\ Len(t) = n
    /\ \A i \in 1 .. n : s[i] = t[i]

\* Sequences are the same if their bytes are.
LEMMA SameBytes ==
    ASSUME NEW s, NEW t, NEW n, Agree(s, t, n)
    PROVE  s = t
BY SeqEqual, Zenon DEF Agree

\* Where the bytes of two sequences stand when one is put behind the other.
LEMMA ConcatBytes ==
    ASSUME NEW s \in Seq(Int), NEW t \in Seq(Int)
    PROVE  /\ s \o t \in Seq(Int)
           /\ Len(s \o t) = Len(s) + Len(t)
           /\ \A i \in 1 .. Len(s) : (s \o t)[i] = s[i]
           /\ \A i \in Len(s) + 1 .. Len(s) + Len(t) : (s \o t)[i] = t[i - Len(s)]
           /\ \A i \in 1 .. Len(t) : (s \o t)[Len(s) + i] = t[i]
<1> DEFINE m == Len(s)
           n == Len(t)
<1>1. m \in Nat /\ n \in Nat
  OBVIOUS
<1>2. /\ s \o t \in Seq(Int) /\ Len(s \o t) = m + n
      /\ \A i \in 1 .. m + n : (s \o t)[i] = IF i <= m THEN s[i] ELSE t[i - m]
  BY ConcatProperties
<1> HIDE DEF m, n
<1>3. \A i \in 1 .. m : (s \o t)[i] = s[i]
  <2> TAKE i \in 1 .. m
  <2>1. i \in 1 .. m + n /\ i <= m
    BY <1>1
  <2>2. QED
    BY <1>2, <2>1
<1>4. \A i \in m + 1 .. m + n : (s \o t)[i] = t[i - m]
  <2> TAKE i \in m + 1 .. m + n
  <2>1. i \in 1 .. m + n /\ ~(i <= m)
    BY <1>1
  <2>2. QED
    BY <1>2, <2>1
<1>5. \A i \in 1 .. n : (s \o t)[m + i] = t[i]
  <2> TAKE i \in 1 .. n
  <2>1. m + i \in m + 1 .. m + n /\ (m + i) - m = i
    BY <1>1
  <2>2. QED
    BY <1>4, <2>1
<1>6. QED
  BY <1>2, <1>3, <1>4, <1>5 DEF m, n

\* Some bytes of text.
LEMMA BytesType ==
    ASSUME NEW n \in Nat
    PROVE  /\ Bytes(n) \in Seq(Int) /\ Len(Bytes(n)) = n
           /\ \A i \in 1 .. n : Bytes(n)[i] = Dot
<1>1. Bytes(n) \in [1 .. n -> Int]
  BY DEF Bytes, Dot
<1>2. Bytes(n) \in Seq(Int)
  BY <1>1
<1>3. QED
  BY <1>1, <1>2 DEF Bytes

\* append_int32 adds four bytes; the first stands for the number.
LEMMA Int32Type ==
    ASSUME NEW n \in Int
    PROVE  Int32(n) \in Seq(Int) /\ Len(Int32(n)) = 4 /\ Int32(n)[1] = n
<1>1. Bytes(3) \in Seq(Int) /\ Len(Bytes(3)) = 3
  BY BytesType
<1>2. <<n>> \in Seq(Int)
  OBVIOUS
<1>3. Len(<<n>>) = 1 /\ <<n>>[1] = n
  OBVIOUS
<1>4. /\ <<n>> \o Bytes(3) \in Seq(Int)
      /\ Len(<<n>> \o Bytes(3)) = Len(<<n>>) + Len(Bytes(3))
      /\ \A i \in 1 .. Len(<<n>>) : (<<n>> \o Bytes(3))[i] = <<n>>[i]
  BY <1>1, <1>2, ConcatBytes, Zenon
<1>5. /\ <<n>> \o Bytes(3) \in Seq(Int)
      /\ Len(<<n>> \o Bytes(3)) = 1 + 3
      /\ \A i \in 1 .. 1 : (<<n>> \o Bytes(3))[i] = <<n>>[i]
  BY <1>4, <1>1, <1>3
<1>7. (<<n>> \o Bytes(3))[1] = n
  BY <1>1, <1>2, <1>3
<1>6. QED
  BY <1>4, <1>5, <1>7 DEF Int32

\* append_int16 adds two.
LEMMA Int16Type ==
    ASSUME NEW n \in Int
    PROVE  Int16(n) \in Seq(Int) /\ Len(Int16(n)) = 2 /\ Int16(n)[1] = n
<1>1. Bytes(1) \in Seq(Int) /\ Len(Bytes(1)) = 1
  BY BytesType
<1>2. <<n>> \in Seq(Int) /\ Len(<<n>>) = 1 /\ <<n>>[1] = n
  OBVIOUS
<1>3. /\ <<n>> \o Bytes(1) \in Seq(Int)
      /\ Len(<<n>> \o Bytes(1)) = Len(<<n>>) + Len(Bytes(1))
      /\ \A i \in 1 .. Len(<<n>>) : (<<n>> \o Bytes(1))[i] = <<n>>[i]
  BY <1>1, <1>2, ConcatBytes, Zenon
<1> DEFINE s == <<n>> \o Bytes(1)
<1>4. s \in Seq(Int) /\ Len(s) = 1 + 1 /\ \A i \in 1 .. 1 : s[i] = <<n>>[i]
  BY <1>1, <1>2, <1>3, Zenon
<1> HIDE DEF s
<1>5. Len(s) = 2 /\ s[1] = n
  BY <1>2, <1>4
<1>6. QED
  BY <1>4, <1>5, Zenon DEF Int16, s

\* append_cstring adds the text and a zero byte.
LEMMA CStringType ==
    ASSUME NEW n \in Nat
    PROVE  CString(n) \in Seq(Int) /\ Len(CString(n)) = n + 1
<1>1. Bytes(n) \in Seq(Int) /\ Len(Bytes(n)) = n
  BY BytesType
<1>2. <<0>> \in Seq(Int)
  OBVIOUS
<1>3. QED
  BY <1>1, <1>2, ConcatProperties DEF CString

\* The description of a column is a sequence of bytes.
LEMMA FieldType ==
    ASSUME NEW n \in Nat PROVE Field(n) \in Seq(Int)
<1>1. /\ CString(n) \in Seq(Int) /\ Int32(0) \in Seq(Int) /\ Int32(25) \in Seq(Int)
      /\ Int16(0) \in Seq(Int) /\ Int16(-1) \in Seq(Int)
  BY CStringType, Int32Type, Int16Type
<1>2. QED
  BY <1>1, ConcatProperties DEF Field

\* A cell is its length and its text.
LEMMA CellType ==
    ASSUME NEW n \in Nat
    PROVE  Cell(n) \in Seq(Int) /\ Len(Cell(n)) = 4 + n /\ Cell(n)[1] = n
<1>1. /\ Int32(n) \in Seq(Int) /\ Len(Int32(n)) = 4 /\ Int32(n)[1] = n
      /\ Bytes(n) \in Seq(Int) /\ Len(Bytes(n)) = n
  BY Int32Type, BytesType
<1>2. QED
  <2>1. /\ Int32(n) \o Bytes(n) \in Seq(Int)
        /\ Len(Int32(n) \o Bytes(n)) = Len(Int32(n)) + Len(Bytes(n))
        /\ \A i \in 1 .. Len(Int32(n)) : (Int32(n) \o Bytes(n))[i] = Int32(n)[i]
    BY <1>1, ConcatBytes, Zenon
  <2>2. QED
    BY <1>1, <2>1 DEF Cell

\* Sequences of bytes join to a sequence of bytes.
LEMMA FlattenType ==
    ASSUME NEW parts \in Seq(Seq(Int))
    PROVE  FlattenSeq(parts) \in Seq(Int)
<1>1. PICK f \in [0 .. Len(parts) -> Seq(Int)] :
         /\ f[0] = << >>
         /\ \A k \in 1 .. Len(parts) : f[k] = f[k - 1] \o parts[k]
  BY JoinExists
<1>2. FlattenSeq(parts) = f[Len(parts)]
  BY <1>1, FlattenJoins
<1>3. Len(parts) \in 0 .. Len(parts)
  OBVIOUS
<1>4. QED
  BY <1>2, <1>3

\* It does not matter which bytes are joined first.
Associate(s, t, u) == (s \o t) \o u = s \o (t \o u)

LEMMA BytesAssociate ==
    ASSUME NEW s \in Seq(Int), NEW t \in Seq(Int), NEW u \in Seq(Int)
    PROVE  Associate(s, t, u)
<1>1. \A S : \A x, y, z \in Seq(S) : Associate(x, y, z)
  BY ConcatAssociative, Zenon DEF Associate
<1>2. QED
  BY <1>1, Zenon

\* Nothing added changes nothing.
LEMMA EmptyLeft ==
    ASSUME NEW s \in Seq(Int)
    PROVE  << >> \o s = s /\ s \o << >> = s
BY ConcatEmptySeq

\* What SubSeq makes of numbers.
PartOf(s, m, n) ==
    /\ SubSeq(s, m, n) \in Seq(Int)
    /\ Len(SubSeq(s, m, n)) = IF m <= n THEN n - m + 1 ELSE 0
    /\ \A i \in 1 .. n - m + 1 : SubSeq(s, m, n)[i] = s[m + i - 1]

LEMMA PartType ==
    ASSUME NEW s, NEW m \in Int, NEW n \in Int, \A i \in m .. n : s[i] \in Int
    PROVE  PartOf(s, m, n)
BY SubSeqProperties DEF PartOf

\* A message as it stands in a package: its letter, its length and the rest.
Body(code, rest) == <<code>> \o Int32(4 + Len(rest)) \o rest

\* The length of a message counts all its bytes but the letter.
LEMMA BodyType ==
    ASSUME NEW code \in Int, NEW rest \in Seq(Int)
    PROVE  /\ Body(code, rest) \in Seq(Int)
           /\ Len(Body(code, rest)) = 5 + Len(rest)
           /\ Body(code, rest)[1] = code
           /\ Body(code, rest)[2] = 4 + Len(rest)
           /\ \A i \in 3 .. 5 : Body(code, rest)[i] = Dot
           /\ \A i \in 6 .. 5 + Len(rest) : Body(code, rest)[i] = rest[i - 5]
<1> DEFINE tail == Body(code, rest)
           R == Len(rest)
<1>1. R \in Nat /\ <<code>> \in Seq(Int) /\ Len(<<code>>) = 1
  OBVIOUS
<1>2. /\ Int32(4 + R) \in Seq(Int) /\ Len(Int32(4 + R)) = 4
      /\ Int32(4 + R)[1] = 4 + R
      /\ \A i \in 2 .. 4 : Int32(4 + R)[i] = Dot
  <2>1. 4 + R \in Int
    BY <1>1
  <2>5. Int32(4 + R) \in Seq(Int) /\ Len(Int32(4 + R)) = 4 /\ Int32(4 + R)[1] = 4 + R
    BY <2>1, Int32Type
  <2>2. Bytes(3) \in Seq(Int) /\ Len(Bytes(3)) = 3 /\ \A i \in 1 .. 3 : Bytes(3)[i] = Dot
    BY BytesType
  <2>3. ASSUME NEW n \in Int PROVE \A i \in 2 .. 4 : Int32(n)[i] = Dot
    <3> TAKE i \in 2 .. 4
    <3>1. <<n>> \in Seq(Int) /\ Len(<<n>>) = 1
      OBVIOUS
    <3>2. Int32(n)[i] = Bytes(3)[i - 1]
      BY <3>1, <2>2, ConcatProperties DEF Int32
    <3>3. QED
      BY <3>2, <2>2
  <2>4. QED
    BY <2>1, <2>3, <2>5
<1> HIDE DEF R
<1>6. /\ <<code>> \o Int32(4 + R) \in Seq(Int) /\ Len(<<code>> \o Int32(4 + R)) = 5
      /\ (<<code>> \o Int32(4 + R))[1] = code
      /\ \A i \in 2 .. 5 : (<<code>> \o Int32(4 + R))[i] = Int32(4 + R)[i - 1]
  <2>1. <<code>>[1] = code
    OBVIOUS
  <2>4. /\ <<code>> \o Int32(4 + R) \in Seq(Int)
        /\ Len(<<code>> \o Int32(4 + R)) = Len(<<code>>) + Len(Int32(4 + R))
        /\ \A i \in 1 .. Len(<<code>>) : (<<code>> \o Int32(4 + R))[i] = <<code>>[i]
        /\ \A i \in Len(<<code>>) + 1 .. Len(<<code>>) + Len(Int32(4 + R)) :
              (<<code>> \o Int32(4 + R))[i] = Int32(4 + R)[i - Len(<<code>>)]
    BY <1>1, <1>2, ConcatBytes, Zenon
  <2>2. /\ <<code>> \o Int32(4 + R) \in Seq(Int)
        /\ Len(<<code>> \o Int32(4 + R)) = 1 + 4
        /\ \A i \in 1 .. 1 : (<<code>> \o Int32(4 + R))[i] = <<code>>[i]
        /\ \A i \in 1 + 1 .. 1 + 4 :
              (<<code>> \o Int32(4 + R))[i] = Int32(4 + R)[i - 1]
    BY <1>1, <1>2, <2>4
  <2>3. QED
    BY <2>1, <2>2
<1>7. /\ tail \in Seq(Int) /\ Len(tail) = 5 + R
      /\ \A i \in 1 .. 5 : tail[i] = (<<code>> \o Int32(4 + R))[i]
      /\ \A i \in 6 .. 5 + R : tail[i] = rest[i - 5]
  <2>1. Len(rest) = R /\ tail = (<<code>> \o Int32(4 + R)) \o rest
    BY DEF R, Body
  <2> HIDE DEF tail
  <2>2. QED
    <3> DEFINE five == <<code>> \o Int32(4 + R)
    <3>0. five \in Seq(Int) /\ Len(five) = 5 /\ tail = five \o rest
      BY <1>6, <2>1
    <3>3. \A i \in 1 .. 5 : five[i] = (<<code>> \o Int32(4 + R))[i]
      OBVIOUS
    <3> HIDE DEF five
    <3>4. /\ five \o rest \in Seq(Int)
          /\ Len(five \o rest) = Len(five) + Len(rest)
          /\ \A i \in 1 .. Len(five) : (five \o rest)[i] = five[i]
          /\ \A i \in Len(five) + 1 .. Len(five) + Len(rest) :
                (five \o rest)[i] = rest[i - Len(five)]
      BY <3>0, ConcatBytes, Zenon
    <3>5. Len(rest) = R
      BY <2>1
    <3>6. /\ tail \in Seq(Int) /\ Len(tail) = 5 + R
          /\ \A i \in 1 .. 5 : tail[i] = five[i]
          /\ \A i \in 5 + 1 .. 5 + R : tail[i] = rest[i - 5]
      BY <3>0, <3>4, <3>5
    <3>1. /\ tail \in Seq(Int) /\ Len(tail) = 5 + R
          /\ \A i \in 1 .. 5 : tail[i] = (<<code>> \o Int32(4 + R))[i]
          /\ \A i \in 5 + 1 .. 5 + R : tail[i] = rest[i - 5]
      <4>1. tail \in Seq(Int) /\ Len(tail) = 5 + R
        BY <3>6
      <4>2. \A i \in 5 + 1 .. 5 + R : tail[i] = rest[i - 5]
        BY <3>6, Zenon
      <4>3. \A i \in 1 .. 5 : tail[i] = (<<code>> \o Int32(4 + R))[i]
        <5> TAKE i \in 1 .. 5
        <5>1. tail[i] = five[i] /\ five[i] = (<<code>> \o Int32(4 + R))[i]
          BY <3>3, <3>6, Zenon
        <5>2. QED
          BY <5>1
      <4>4. QED
        BY <4>1, <4>2, <4>3, Zenon
    <3>7. \A i \in 6 .. 5 + R : tail[i] = rest[i - 5]
      BY <3>6
    <3>2. QED
      BY <3>1, <3>7, Zenon
<1> HIDE DEF tail
<1>8. tail[1] = code /\ tail[2] = 4 + R /\ \A i \in 3 .. 5 : tail[i] = Dot
  <2>1. tail[1] = code /\ tail[2] = 4 + R
    BY <1>1, <1>2, <1>6, <1>7
  <2>2. \A i \in 3 .. 5 : tail[i] = Dot
    <3> TAKE i \in 3 .. 5
    <3>1. i - 1 \in 2 .. 4 /\ i \in 2 .. 5 /\ i \in 1 .. 5
      OBVIOUS
    <3>2. QED
      BY <3>1, <1>2, <1>6, <1>7
  <2>3. QED
    BY <2>1, <2>2
<1>9. QED
  BY <1>7, <1>8 DEF tail, R

\* What stands before a message in the buffer stays, and the message does not
\* depend on it.
LEMMA PatchedAppends ==
    ASSUME NEW buffer \in Seq(Int), NEW code \in Int, NEW rest \in Seq(Int)
    PROVE  LET head == buffer \o <<code>>
           IN  WithLength(head \o Int32(0) \o rest, Len(head)) = buffer \o Body(code, rest)
<1> DEFINE head == buffer \o <<code>>
           tail == Body(code, rest)
           body == head \o Int32(0) \o rest
           L == Len(buffer)
           R == Len(rest)
<1>1. L \in Nat /\ R \in Nat /\ <<code>> \in Seq(Int) /\ Len(<<code>>) = 1
  OBVIOUS
<1>2. /\ Int32(0) \in Seq(Int) /\ Len(Int32(0)) = 4
      /\ \A i \in 2 .. 4 : Int32(0)[i] = Dot
  <2>2. Bytes(3) \in Seq(Int) /\ Len(Bytes(3)) = 3 /\ \A i \in 1 .. 3 : Bytes(3)[i] = Dot
    BY BytesType
  <2>3. \A i \in 2 .. 4 : Int32(0)[i] = Dot
    <3> TAKE i \in 2 .. 4
    <3>1. <<0>> \in Seq(Int) /\ Len(<<0>>) = 1
      OBVIOUS
    <3>2. Int32(0)[i] = Bytes(3)[i - 1]
      BY <3>1, <2>2, ConcatProperties DEF Int32
    <3>3. QED
      BY <3>2, <2>2
  <2>4. QED
    BY <2>3, Int32Type
<1>7. /\ tail \in Seq(Int) /\ Len(tail) = 5 + R
      /\ tail[1] = code /\ tail[2] = 4 + R
      /\ \A i \in 3 .. 5 : tail[i] = Dot
      /\ \A i \in 6 .. 5 + R : tail[i] = rest[i - 5]
  BY BodyType
<1>8. tail[1] = code /\ tail[2] = 4 + R /\ \A i \in 3 .. 5 : tail[i] = Dot
  BY <1>7
<1> HIDE DEF R, tail
<1>3. /\ head \in Seq(Int) /\ Len(head) = L + 1
      /\ \A i \in 1 .. L : head[i] = buffer[i]
      /\ head[L + 1] = code
  BY <1>1, ConcatProperties
<1> HIDE DEF head, L
<1>4. /\ head \o Int32(0) \in Seq(Int) /\ Len(head \o Int32(0)) = L + 5
      /\ \A i \in 1 .. L + 1 : (head \o Int32(0))[i] = head[i]
      /\ \A i \in L + 2 .. L + 5 : (head \o Int32(0))[i] = Int32(0)[i - (L + 1)]
  <2>0. /\ head \o Int32(0) \in Seq(Int)
        /\ Len(head \o Int32(0)) = Len(head) + Len(Int32(0))
        /\ \A i \in 1 .. Len(head) : (head \o Int32(0))[i] = head[i]
        /\ \A i \in Len(head) + 1 .. Len(head) + Len(Int32(0)) :
              (head \o Int32(0))[i] = Int32(0)[i - Len(head)]
    BY <1>2, <1>3, ConcatBytes, Zenon
  <2>1. /\ head \o Int32(0) \in Seq(Int)
        /\ Len(head \o Int32(0)) = (L + 1) + 4
        /\ \A i \in 1 .. L + 1 : (head \o Int32(0))[i] = head[i]
        /\ \A i \in (L + 1) + 1 .. (L + 1) + 4 :
              (head \o Int32(0))[i] = Int32(0)[i - (L + 1)]
    BY <1>2, <1>3, <2>0
  <2>2. (L + 1) + 4 = L + 5 /\ (L + 1) + 1 = L + 2
    BY <1>1
  <2>3. QED
    BY <2>1, <2>2
<1>5. /\ body \in Seq(Int) /\ Len(body) = L + 5 + R
      /\ \A i \in 1 .. L + 5 : body[i] = (head \o Int32(0))[i]
      /\ \A i \in L + 6 .. L + 5 + R : body[i] = rest[i - (L + 5)]
  <2>1. Len(rest) = R
    BY DEF R
  <2> HIDE DEF R
  <2>2. QED
    <3>0. /\ body \in Seq(Int)
          /\ Len(body) = Len(head \o Int32(0)) + Len(rest)
          /\ \A i \in 1 .. Len(head \o Int32(0)) : body[i] = (head \o Int32(0))[i]
          /\ \A i \in Len(head \o Int32(0)) + 1 .. Len(head \o Int32(0)) + Len(rest) :
                body[i] = rest[i - Len(head \o Int32(0))]
      <4>1. head \o Int32(0) \in Seq(Int) /\ rest \in Seq(Int)
        BY <1>4, Zenon
      <4>2. QED
        BY <4>1, ConcatBytes, Zenon
    <3>1. /\ body \in Seq(Int) /\ Len(body) = (L + 5) + R
          /\ \A i \in 1 .. L + 5 : body[i] = (head \o Int32(0))[i]
          /\ \A i \in (L + 5) + 1 .. (L + 5) + R : body[i] = rest[i - (L + 5)]
      BY <1>4, <2>1, <3>0
    <3>2. (L + 5) + 1 = L + 6
      BY <1>1
    <3>3. QED
      BY <3>1, <3>2
<1> HIDE DEF body
<1>10. body[L + 1] = code /\ \A i \in L + 3 .. L + 5 : body[i] = Dot
  <2>1. body[L + 1] = code
    <3>1. L + 1 \in 1 .. L + 1 /\ L + 1 \in 1 .. L + 5
      BY <1>1
    <3>2. QED
      BY <3>1, <1>3, <1>4, <1>5
  <2>2. \A i \in L + 3 .. L + 5 : body[i] = Dot
    <3> TAKE i \in L + 3 .. L + 5
    <3>1. i \in L + 2 .. L + 5 /\ i \in 1 .. L + 5 /\ i - (L + 1) \in 2 .. 4
      BY <1>1
    <3>2. QED
      BY <3>1, <1>2, <1>4, <1>5
  <2>3. QED
    BY <2>1, <2>2
<1> DEFINE patched == [body EXCEPT ![L + 2] = Len(body) - (L + 1)]
           joined == buffer \o tail
<1>11. /\ patched \in Seq(Int) /\ Len(patched) = L + 5 + R
       /\ patched[L + 2] = 4 + R
       /\ \A i \in 1 .. L + 5 + R : i # L + 2 => patched[i] = body[i]
  <2>1. Len(body) - (L + 1) = 4 + R
    BY <1>1, <1>5
  <2>2. 4 + R \in Int /\ L + 2 \in 1 .. Len(body)
    BY <1>1, <1>5
  <2>3. QED
    BY <2>1, <2>2, <1>1, <1>5, ExceptSeq
<1>12. /\ joined \in Seq(Int) /\ Len(joined) = L + 5 + R
       /\ \A i \in 1 .. L : joined[i] = buffer[i]
       /\ \A i \in L + 1 .. L + 5 + R : joined[i] = tail[i - L]
  <2>1. Len(buffer) = L
    BY DEF L
  <2>2. QED
    <3>0. /\ joined \in Seq(Int)
          /\ Len(joined) = Len(buffer) + Len(tail)
          /\ \A i \in 1 .. Len(buffer) : joined[i] = buffer[i]
          /\ \A i \in Len(buffer) + 1 .. Len(buffer) + Len(tail) :
                joined[i] = tail[i - Len(buffer)]
      BY <1>7, ConcatBytes, Zenon
    <3>1. /\ joined \in Seq(Int) /\ Len(joined) = L + (5 + R)
          /\ \A i \in 1 .. L : joined[i] = buffer[i]
          /\ \A i \in L + 1 .. L + (5 + R) : joined[i] = tail[i - L]
      BY <1>7, <2>1, <3>0
    <3>2. L + (5 + R) = L + 5 + R
      BY <1>1
    <3>3. QED
      BY <3>1, <3>2
<1> HIDE DEF patched, joined
<1>13. \A i \in 1 .. L + 5 + R : patched[i] = joined[i]
  <2> TAKE i \in 1 .. L + 5 + R
  <2>0. i \in Nat
    BY <1>1
  <2>1. CASE i \in 1 .. L
    <3>1. i # L + 2 /\ i \in 1 .. L + 1 /\ i \in 1 .. L + 5
      BY <2>1, <1>1
    <3>2. patched[i] = body[i]
      BY <3>1, <1>11, Zenon
    <3>3. body[i] = (head \o Int32(0))[i]
      BY <3>1, <1>5, Zenon
    <3>4. (head \o Int32(0))[i] = head[i]
      BY <3>1, <1>4, Zenon
    <3>5. head[i] = buffer[i]
      BY <2>1, <1>3, Zenon
    <3>6. joined[i] = buffer[i]
      BY <2>1, <1>12, Zenon
    <3>7. QED
      BY <3>2, <3>3, <3>4, <3>5, <3>6, Zenon
  <2>2. CASE i = L + 1
    <3>1. i # L + 2 /\ i \in L + 1 .. L + 5 + R /\ i - L = 1
      BY <2>2, <1>1
    <3>2. QED
      BY <3>1, <2>2, <1>8, <1>10, <1>11, <1>12
  <2>3. CASE i = L + 2
    <3>1. i \in L + 1 .. L + 5 + R /\ i - L = 2
      BY <2>3, <1>1
    <3>2. QED
      BY <3>1, <2>3, <1>8, <1>11, <1>12
  <2>4. CASE i \in L + 3 .. L + 5
    <3>1. i # L + 2 /\ i \in L + 1 .. L + 5 + R /\ i - L \in 3 .. 5
      BY <2>4, <1>1
    <3>2. QED
      BY <3>1, <2>4, <1>8, <1>10, <1>11, <1>12
  <2>5. CASE i \in L + 6 .. L + 5 + R
    <3>1. i # L + 2 /\ i \in L + 1 .. L + 5 + R /\ i - L \in 6 .. 5 + R
          /\ i - L - 5 = i - (L + 5)
      BY <2>5, <1>1
    <3>2. QED
      BY <3>1, <2>5, <1>5, <1>7, <1>11, <1>12
  <2>6. QED
    BY <2>0, <2>1, <2>2, <2>3, <2>4, <2>5, <1>1
<1>14. patched = joined
  BY <1>11, <1>12, <1>13, SeqEqual
<1>15. WithLength(body, Len(head)) = buffer \o tail
  <2>1. Len(head) = L + 1 /\ (L + 1) + 1 = L + 2
    BY <1>1, <1>3
  <2>2. QED
    BY <1>14, <2>1 DEF WithLength, patched, joined
<1>16. QED
  BY <1>15 DEF head, tail, body

-----------------------------------------------------------------------------
(* Every encoder appends a message.                                        *)

\* An encoder that knows its length appends a message.
LEMMA PlainAppends ==
    ASSUME NEW buffer \in Seq(Int), NEW code \in Int, NEW rest \in Seq(Int)
    PROVE  buffer \o <<code>> \o Int32(4 + Len(rest)) \o rest = buffer \o Body(code, rest)
<1> DEFINE n == 4 + Len(rest)
<1>0. n \in Int
  OBVIOUS
<1> HIDE DEF n
<1>1. <<code>> \in Seq(Int) /\ Int32(n) \in Seq(Int)
  BY <1>0, Int32Type
<1>2. <<code>> \o Int32(n) \in Seq(Int)
  BY <1>1, ConcatProperties, Zenon
<1>3. (buffer \o <<code>>) \o Int32(n) = buffer \o (<<code>> \o Int32(n))
  <2>1. Associate(buffer, <<code>>, Int32(n))
    BY <1>1, BytesAssociate, Zenon
  <2>2. QED
    BY <2>1, Zenon DEF Associate
<1>4. (buffer \o (<<code>> \o Int32(n))) \o rest = buffer \o ((<<code>> \o Int32(n)) \o rest)
  <2>1. Associate(buffer, <<code>> \o Int32(n), rest)
    BY <1>2, BytesAssociate, Zenon
  <2>2. QED
    BY <2>1, Zenon DEF Associate
<1>5. QED
  BY <1>3, <1>4, Zenon DEF Body, n

\* What the encoders are given.
IsMessage(msg) ==
    \/ msg.kind \in {"auth", "key", "ready", "empty", "complete"}
    \/ msg.kind = "param" /\ msg.param.key \in Nat /\ msg.param.value \in Nat
    \/ msg.kind = "fields" /\ msg.names \in Seq(Nat)
    \/ msg.kind = "row" /\ msg.cells \in Seq(Nat)
    \/ msg.kind = "error" /\ msg.text \in Nat

\* An encoder appends a message that does not depend on what stands before it
\* in the buffer.
Appends(msg, code, rest) ==
    /\ code \in Int /\ rest \in Seq(Int)
    /\ \A buffer \in Seq(Int) : Encode(buffer, msg) = buffer \o Body(code, rest)

\* The messages of a fixed length.
LEMMA PlainKinds ==
    ASSUME NEW msg
    PROVE  /\ msg.kind = "auth" => Appends(msg, Code.R, Int32(0))
           /\ msg.kind = "ready" => Appends(msg, Code.Z, <<Code.I>>)
           /\ msg.kind = "key" => Appends(msg, Code.K, Int32(0) \o Int32(0))
           /\ msg.kind = "empty" => Appends(msg, Code.I, << >>)
<1>c. Code.R \in Int /\ Code.Z \in Int /\ Code.I \in Int /\ Code.K \in Int
  BY DEF Code
<1>0. Int32(0) \in Seq(Int) /\ Len(Int32(0)) = 4
  BY Int32Type
<1>1. ASSUME msg.kind = "auth" PROVE Appends(msg, Code.R, Int32(0))
  <2> SUFFICES ASSUME NEW buffer \in Seq(Int)
               PROVE  Encode(buffer, msg) = buffer \o Body(Code.R, Int32(0))
    BY <1>c, <1>0 DEF Appends
  <2>1. 8 = 4 + Len(Int32(0))
    <3>1. 4 + Len(Int32(0)) = 4 + 4
      BY <1>0, Zenon
    <3>2. 4 + 4 = 8
      OBVIOUS
    <3>3. QED
      BY <3>1, <3>2, Zenon
  <2>2. Encode(buffer, msg) = AuthenticationOk(buffer)
    BY <1>1 DEF Encode
  <2>3. buffer \o <<Code.R>> \o Int32(4 + Len(Int32(0))) \o Int32(0)
            = buffer \o Body(Code.R, Int32(0))
    BY <1>c, <1>0, PlainAppends, Zenon
  <2>4. QED
    BY <2>1, <2>2, <2>3, Zenon DEF AuthenticationOk
<1>2. ASSUME msg.kind = "ready" PROVE Appends(msg, Code.Z, <<Code.I>>)
  <2>0. <<Code.I>> \in Seq(Int)
    BY <1>c
  <2> SUFFICES ASSUME NEW buffer \in Seq(Int)
               PROVE  Encode(buffer, msg) = buffer \o Body(Code.Z, <<Code.I>>)
    BY <1>c, <2>0 DEF Appends
  <2>1. 5 = 4 + Len(<<Code.I>>)
    OBVIOUS
  <2>2. Encode(buffer, msg) = ReadyForQuery(buffer)
    BY <1>2 DEF Encode
  <2>3. buffer \o <<Code.Z>> \o Int32(4 + Len(<<Code.I>>)) \o <<Code.I>>
            = buffer \o Body(Code.Z, <<Code.I>>)
    BY <1>c, <2>0, PlainAppends, Zenon
  <2>4. QED
    BY <2>1, <2>2, <2>3, Zenon DEF ReadyForQuery
<1>3. ASSUME msg.kind = "key" PROVE Appends(msg, Code.K, Int32(0) \o Int32(0))
  <2>0. Int32(0) \o Int32(0) \in Seq(Int) /\ Len(Int32(0) \o Int32(0)) = 8
    <3>1. /\ Int32(0) \o Int32(0) \in Seq(Int)
          /\ Len(Int32(0) \o Int32(0)) = Len(Int32(0)) + Len(Int32(0))
      BY <1>0, ConcatBytes, Zenon
    <3>2. Len(Int32(0) \o Int32(0)) = 4 + 4
      BY <1>0, <3>1, Zenon
    <3>3. 4 + 4 = 8
      OBVIOUS
    <3>4. QED
      BY <3>1, <3>2, <3>3, Zenon
  <2> SUFFICES ASSUME NEW buffer \in Seq(Int)
               PROVE  Encode(buffer, msg) = buffer \o Body(Code.K, Int32(0) \o Int32(0))
    BY <1>c, <2>0 DEF Appends
  <2>1. 12 = 4 + Len(Int32(0) \o Int32(0))
    <3>1. 4 + Len(Int32(0) \o Int32(0)) = 4 + 8
      BY <2>0, Zenon
    <3>2. 4 + 8 = 12
      OBVIOUS
    <3>3. QED
      BY <3>1, <3>2, Zenon
  <2>2. Encode(buffer, msg) = BackendKeyData(buffer)
    BY <1>3 DEF Encode
  <2>3. buffer \o <<Code.K>> \o Int32(12) \o (Int32(0) \o Int32(0))
            = buffer \o Body(Code.K, Int32(0) \o Int32(0))
    <3>1. buffer \o <<Code.K>> \o Int32(4 + Len(Int32(0) \o Int32(0)))
                 \o (Int32(0) \o Int32(0))
            = buffer \o Body(Code.K, Int32(0) \o Int32(0))
      BY <1>c, <2>0, PlainAppends, Zenon
    <3>2. QED
      BY <2>1, <3>1, Zenon
  <2>4. Int32(12) \in Seq(Int) /\ <<Code.K>> \in Seq(Int)
    BY <1>c, Int32Type
  <2>5. buffer \o <<Code.K>> \in Seq(Int)
    BY <2>4, ConcatProperties, Zenon
  <2>6. (buffer \o <<Code.K>>) \o Int32(12) \in Seq(Int)
    BY <2>4, <2>5, ConcatProperties, Zenon
  <2>7. (((buffer \o <<Code.K>>) \o Int32(12)) \o Int32(0)) \o Int32(0)
            = ((buffer \o <<Code.K>>) \o Int32(12)) \o (Int32(0) \o Int32(0))
    <3>1. Associate((buffer \o <<Code.K>>) \o Int32(12), Int32(0), Int32(0))
      BY <1>0, <2>6, BytesAssociate, Zenon
    <3>2. QED
      BY <3>1, Zenon DEF Associate
  <2>8. QED
    BY <2>2, <2>3, <2>7, Zenon DEF BackendKeyData
<1>4. ASSUME msg.kind = "empty" PROVE Appends(msg, Code.I, << >>)
  <2>0. << >> \in Seq(Int)
    OBVIOUS
  <2> SUFFICES ASSUME NEW buffer \in Seq(Int)
               PROVE  Encode(buffer, msg) = buffer \o Body(Code.I, << >>)
    BY <1>c, <2>0 DEF Appends
  <2>1. 4 = 4 + Len(<< >>)
    OBVIOUS
  <2>2. Encode(buffer, msg) = EmptyQueryResponse(buffer)
    BY <1>4 DEF Encode
  <2>3. buffer \o <<Code.I>> \o Int32(4) \o << >> = buffer \o Body(Code.I, << >>)
    <3>1. buffer \o <<Code.I>> \o Int32(4 + Len(<< >>)) \o << >>
            = buffer \o Body(Code.I, << >>)
      BY <1>c, <2>0, PlainAppends, Zenon
    <3>2. QED
      BY <2>1, <3>1, Zenon
  <2>4. Int32(4) \in Seq(Int) /\ <<Code.I>> \in Seq(Int)
    BY <1>c, Int32Type
  <2>5. buffer \o <<Code.I>> \in Seq(Int)
    BY <2>4, ConcatProperties, Zenon
  <2>6. (buffer \o <<Code.I>>) \o Int32(4) \in Seq(Int)
    BY <2>4, <2>5, ConcatProperties, Zenon
  <2>7. ((buffer \o <<Code.I>>) \o Int32(4)) \o << >> = (buffer \o <<Code.I>>) \o Int32(4)
    BY <2>6, EmptyLeft, Zenon
  <2>8. QED
    BY <2>2, <2>3, <2>7, Zenon DEF EmptyQueryResponse
<1>5. QED
  BY <1>1, <1>2, <1>3, <1>4

\* encode of ParameterStatus, which adds up its length.
LEMMA ParameterAppends ==
    ASSUME NEW msg, msg.kind = "param", msg.param.key \in Nat, msg.param.value \in Nat
    PROVE  Appends(msg, Code.S, CString(msg.param.key) \o CString(msg.param.value))
<1> DEFINE key == CString(msg.param.key)
           value == CString(msg.param.value)
           n == 4 + msg.param.key + 1 + msg.param.value + 1
<1>1. /\ key \in Seq(Int) /\ Len(key) = msg.param.key + 1
      /\ value \in Seq(Int) /\ Len(value) = msg.param.value + 1
  BY CStringType
<1>2. /\ key \o value \in Seq(Int)
      /\ Len(key \o value) = Len(key) + Len(value)
  <2> HIDE DEF key, value
  <2> QED
    BY <1>1, ConcatBytes, Zenon
<1>3. n \in Int /\ n = 4 + Len(key \o value)
  <2>1. msg.param.key \in Nat /\ msg.param.value \in Nat
    OBVIOUS
  <2> DEFINE k == msg.param.key
             v == msg.param.value
  <2>2. k \in Nat /\ v \in Nat /\ n = 4 + k + 1 + v + 1
    BY <2>1
  <2>3. Len(key \o value) = (k + 1) + (v + 1)
    <3> HIDE DEF key, value
    <3> QED
      BY <1>1, <1>2, Zenon
  <2> HIDE DEF k, v, n, key, value
  <2>4. QED
    BY <2>2, <2>3
<1>c. Code.S \in Int
  BY DEF Code
<1> SUFFICES ASSUME NEW buffer \in Seq(Int)
             PROVE  Encode(buffer, msg) = buffer \o Body(Code.S, key \o value)
  BY <1>c, <1>2 DEF Appends
<1>4. Encode(buffer, msg) = buffer \o <<Code.S>> \o Int32(n) \o key \o value
  BY DEF Encode, ParameterStatus
<1> HIDE DEF key, value, n
<1>5. buffer \o <<Code.S>> \o Int32(n) \o (key \o value) = buffer \o Body(Code.S, key \o value)
  BY <1>c, <1>2, <1>3, PlainAppends, Zenon
<1>6. Int32(n) \in Seq(Int) /\ <<Code.S>> \in Seq(Int)
  BY <1>c, <1>3, Int32Type
<1>7. buffer \o <<Code.S>> \in Seq(Int)
  BY <1>6, ConcatProperties, Zenon
<1>8. (buffer \o <<Code.S>>) \o Int32(n) \in Seq(Int)
  BY <1>6, <1>7, ConcatProperties, Zenon
<1>9. (((buffer \o <<Code.S>>) \o Int32(n)) \o key) \o value
          = ((buffer \o <<Code.S>>) \o Int32(n)) \o (key \o value)
  <2>1. Associate((buffer \o <<Code.S>>) \o Int32(n), key, value)
    BY <1>1, <1>8, BytesAssociate, Zenon
  <2>2. QED
    BY <2>1, Zenon DEF Associate
<1>10. QED
  BY <1>4, <1>5, <1>9, Zenon

\* encode of ErrorResponse, whose fields end in a zero byte.
LEMMA ErrorAppends ==
    ASSUME NEW msg, msg.kind = "error", msg.text \in Nat
    PROVE  \E rest : Appends(msg, Code.E, rest)
<1> DEFINE severity == <<Code.S>> \o CString(5)
           message == <<Code.M>> \o CString(msg.text)
           n == 4 + Len(severity) + Len(message) + 1
           rest == (severity \o message) \o <<0>>
<1>c. Code.S \in Int /\ Code.M \in Int /\ Code.E \in Int
  BY DEF Code
<1>1. severity \in Seq(Int) /\ message \in Seq(Int) /\ <<0>> \in Seq(Int)
  <2>1. /\ <<Code.S>> \in Seq(Int) /\ <<Code.M>> \in Seq(Int)
        /\ CString(5) \in Seq(Int) /\ CString(msg.text) \in Seq(Int)
    BY <1>c, CStringType
  <2>2. severity \in Seq(Int)
    BY <2>1, ConcatProperties, Zenon
  <2>3. message \in Seq(Int)
    BY <2>1, ConcatProperties, Zenon
  <2>4. <<0>> \in Seq(Int)
    OBVIOUS
  <2>5. QED
    BY <2>2, <2>3, <2>4
<1>e. \A buffer : Encode(buffer, msg)
          = buffer \o <<Code.E>> \o Int32(n) \o severity \o message \o <<0>>
  BY DEF Encode, ErrorResponse
<1> HIDE DEF severity, message
<1>2. /\ severity \o message \in Seq(Int)
      /\ Len(severity \o message) = Len(severity) + Len(message)
  BY <1>1, ConcatBytes, Zenon
<1>3. /\ rest \in Seq(Int)
      /\ Len(rest) = Len(severity \o message) + Len(<<0>>)
  BY <1>1, <1>2, ConcatBytes, Zenon
<1>4. n \in Int /\ n = 4 + Len(rest)
  <2>1. Len(severity) \in Nat /\ Len(message) \in Nat /\ Len(<<0>>) = 1
    BY <1>1
  <2> HIDE DEF rest
  <2>2. QED
    BY <1>2, <1>3, <2>1
<1>5. ASSUME NEW buffer \in Seq(Int)
      PROVE  Encode(buffer, msg) = buffer \o Body(Code.E, rest)
  <2> DEFINE start == (buffer \o <<Code.E>>) \o Int32(n)
  <2>1. start \in Seq(Int)
    <3>1. Int32(n) \in Seq(Int) /\ <<Code.E>> \in Seq(Int)
      BY <1>c, <1>4, Int32Type
    <3>2. buffer \o <<Code.E>> \in Seq(Int)
      BY <3>1, ConcatProperties, Zenon
    <3>3. QED
      BY <3>1, <3>2, ConcatProperties, Zenon
  <2>2. start \o rest = buffer \o Body(Code.E, rest)
    <3> HIDE DEF rest, n
    <3> QED
      BY <1>c, <1>3, <1>4, PlainAppends, Zenon
  <2>3. Encode(buffer, msg) = ((start \o severity) \o message) \o <<0>>
    BY <1>e, Zenon
  <2> HIDE DEF start
  <2>4. (start \o severity) \o message = start \o (severity \o message)
    <3>1. Associate(start, severity, message)
      BY <1>1, <2>1, BytesAssociate, Zenon
    <3>2. QED
      BY <3>1, Zenon DEF Associate
  <2>5. (start \o (severity \o message)) \o <<0>> = start \o ((severity \o message) \o <<0>>)
    <3>1. Associate(start, severity \o message, <<0>>)
      BY <1>1, <1>2, <2>1, BytesAssociate, Zenon
    <3>2. QED
      BY <3>1, Zenon DEF Associate
  <2>6. QED
    BY <2>2, <2>3, <2>4, <2>5, Zenon
<1> HIDE DEF rest
<1>6. Appends(msg, Code.E, rest)
  BY <1>c, <1>3, <1>5, Zenon DEF Appends
<1>7. QED
  BY <1>6

\* encode of CommandComplete.
LEMMA CompleteAppends ==
    ASSUME NEW msg, msg.kind = "complete"
    PROVE  Appends(msg, Code.C, CString(8))
<1>1. Code.C \in Int /\ CString(8) \in Seq(Int)
  BY CStringType DEF Code
<1>2. ASSUME NEW buffer \in Seq(Int)
      PROVE  Encode(buffer, msg) = buffer \o Body(Code.C, CString(8))
  <2>1. Encode(buffer, msg) = CommandComplete(buffer)
    BY DEF Encode
  <2>2. QED
    BY <1>1, <2>1, PatchedAppends, Zenon DEF CommandComplete
<1>3. QED
  BY <1>1, <1>2, Zenon DEF Appends

\* The encoders that patch their length once all columns are written.
LEMMA TableAppends ==
    ASSUME NEW msg, NEW parts \in Seq(Seq(Int)), NEW count \in Nat, NEW code \in Int,
           \A buffer : Encode(buffer, msg) =
              LET head == buffer \o <<code>>
              IN  WithLength(head \o Int32(0) \o Int16(count) \o FlattenSeq(parts), Len(head))
    PROVE  Appends(msg, code, Int16(count) \o FlattenSeq(parts))
<1> DEFINE flat == FlattenSeq(parts)
           rest == Int16(count) \o flat
<1>1. Int16(count) \in Seq(Int) /\ flat \in Seq(Int) /\ Int32(0) \in Seq(Int)
      /\ <<code>> \in Seq(Int)
  BY Int16Type, Int32Type, FlattenType
<1>2. rest \in Seq(Int)
  BY <1>1, ConcatProperties, Zenon
<1>3. ASSUME NEW buffer \in Seq(Int)
      PROVE  Encode(buffer, msg) = buffer \o Body(code, rest)
  <2> DEFINE head == buffer \o <<code>>
  <2>1. head \in Seq(Int)
    BY <1>1, ConcatProperties, Zenon
  <2>2. head \o Int32(0) \in Seq(Int)
    BY <1>1, <2>1, ConcatProperties, Zenon
  <2>3. ((head \o Int32(0)) \o Int16(count)) \o flat = (head \o Int32(0)) \o rest
    <3> HIDE DEF flat, head
    <3>1. Associate(head \o Int32(0), Int16(count), flat)
      BY <1>1, <2>2, BytesAssociate, Zenon
    <3>2. QED
      BY <3>1, Zenon DEF Associate, rest
  <2>4. Encode(buffer, msg) = WithLength((head \o Int32(0)) \o rest, Len(head))
    BY <2>3, Zenon
  <2>5. QED
    BY <1>2, <2>4, PatchedAppends, Zenon
<1>4. QED
  BY <1>2, <1>3, Zenon DEF Appends

\* encode of RowDescription.
LEMMA FieldsAppends ==
    ASSUME NEW msg, msg.kind = "fields", msg.names \in Seq(Nat)
    PROVE  Appends(msg, Code.T, Int16(Len(msg.names))
              \o FlattenSeq([i \in DOMAIN msg.names |-> Field(msg.names[i])]))
<1> DEFINE parts == [i \in DOMAIN msg.names |-> Field(msg.names[i])]
<1>1. DOMAIN msg.names = 1 .. Len(msg.names) /\ Len(msg.names) \in Nat
      /\ \A i \in DOMAIN msg.names : msg.names[i] \in Nat
  OBVIOUS
<1>2. \A i \in DOMAIN msg.names : Field(msg.names[i]) \in Seq(Int)
  BY <1>1, FieldType
<1>3. parts \in [1 .. Len(msg.names) -> Seq(Int)]
  BY <1>1, <1>2
<1>4. parts \in Seq(Seq(Int))
  <2> HIDE DEF parts
  <2> QED
    BY <1>1, <1>3
<1>5. Code.T \in Int
  BY DEF Code
<1>6. \A buffer : Encode(buffer, msg) =
          LET head == buffer \o <<Code.T>>
          IN  WithLength(head \o Int32(0) \o Int16(Len(msg.names)) \o FlattenSeq(parts),
                         Len(head))
  BY DEF Encode, RowDescription
<1> HIDE DEF parts
<1>7. Appends(msg, Code.T, Int16(Len(msg.names)) \o FlattenSeq(parts))
  BY <1>1, <1>4, <1>5, <1>6, TableAppends
<1>8. QED
  BY <1>7 DEF parts

\* encode of DataRow.
LEMMA RowAppends ==
    ASSUME NEW msg, msg.kind = "row", msg.cells \in Seq(Nat)
    PROVE  Appends(msg, Code.D, Int16(Len(msg.cells))
              \o FlattenSeq([i \in DOMAIN msg.cells |-> Cell(msg.cells[i])]))
<1> DEFINE parts == [i \in DOMAIN msg.cells |-> Cell(msg.cells[i])]
<1>1. DOMAIN msg.cells = 1 .. Len(msg.cells) /\ Len(msg.cells) \in Nat
      /\ \A i \in DOMAIN msg.cells : msg.cells[i] \in Nat
  OBVIOUS
<1>2. \A i \in DOMAIN msg.cells : Cell(msg.cells[i]) \in Seq(Int)
  BY <1>1, CellType
<1>3. parts \in [1 .. Len(msg.cells) -> Seq(Int)]
  BY <1>1, <1>2
<1>4. parts \in Seq(Seq(Int))
  <2> HIDE DEF parts
  <2> QED
    BY <1>1, <1>3
<1>5. Code.D \in Int
  BY DEF Code
<1>6. \A buffer : Encode(buffer, msg) =
          LET head == buffer \o <<Code.D>>
          IN  WithLength(head \o Int32(0) \o Int16(Len(msg.cells)) \o FlattenSeq(parts),
                         Len(head))
  BY DEF Encode, DataRow
<1> HIDE DEF parts
<1>7. Appends(msg, Code.D, Int16(Len(msg.cells)) \o FlattenSeq(parts))
  BY <1>1, <1>4, <1>5, <1>6, TableAppends
<1>8. QED
  BY <1>7 DEF parts

\* Each encoder appends a message with its own letter and its length.
THEOREM EncodersAppend ==
    ASSUME NEW msg, IsMessage(msg)
    PROVE  \E code \in Int, rest \in Seq(Int) :
              /\ Appends(msg, code, rest)
              /\ code = Code.Z <=> msg.kind = "ready"
              /\ code = Code.D <=> msg.kind = "row"
              /\ code = Code.T <=> msg.kind = "fields"
<1>1. ASSUME NEW code, NEW rest, Appends(msg, code, rest)
      PROVE  code \in Int /\ rest \in Seq(Int)
  BY <1>1 DEF Appends
<1>2. CASE msg.kind = "auth"
  BY <1>2, <1>1, PlainKinds DEF Code
<1>3. CASE msg.kind = "ready"
  BY <1>3, <1>1, PlainKinds DEF Code
<1>4. CASE msg.kind = "key"
  BY <1>4, <1>1, PlainKinds DEF Code
<1>5. CASE msg.kind = "empty"
  BY <1>5, <1>1, PlainKinds DEF Code
<1>6. CASE msg.kind = "complete"
  BY <1>6, <1>1, CompleteAppends DEF Code
<1>7. CASE msg.kind = "param" /\ msg.param.key \in Nat /\ msg.param.value \in Nat
  BY <1>7, <1>1, ParameterAppends DEF Code
<1>8. CASE msg.kind = "error" /\ msg.text \in Nat
  BY <1>8, <1>1, ErrorAppends DEF Code
<1>9. CASE msg.kind = "fields" /\ msg.names \in Seq(Nat)
  <2> DEFINE rest == Int16(Len(msg.names))
              \o FlattenSeq([i \in DOMAIN msg.names |-> Field(msg.names[i])])
  <2>1. Appends(msg, Code.T, rest)
    BY <1>9, FieldsAppends
  <2> HIDE DEF rest
  <2>2. QED
    BY <1>9, <1>1, <2>1 DEF Code
<1>10. CASE msg.kind = "row" /\ msg.cells \in Seq(Nat)
  <2> DEFINE rest == Int16(Len(msg.cells))
              \o FlattenSeq([i \in DOMAIN msg.cells |-> Cell(msg.cells[i])])
  <2>1. Appends(msg, Code.D, rest)
    BY <1>10, RowAppends
  <2> HIDE DEF rest
  <2>2. QED
    BY <1>10, <1>1, <2>1 DEF Code
<1>11. QED
  BY <1>2, <1>3, <1>4, <1>5, <1>6, <1>7, <1>8, <1>9, <1>10 DEF IsMessage

-----------------------------------------------------------------------------
(* A package is its messages, one behind the other.                        *)

\* A sequence of bytes has a length.
LEMMA LenType == ASSUME NEW s \in Seq(Int) PROVE Len(s) \in Nat
OBVIOUS

\* f[k] is the first k of the parts, one after the other.
Joined(parts, f, N) ==
    /\ N \in Nat /\ f \in [0 .. N -> Seq(Int)] /\ f[0] = << >>
    /\ \A k \in 1 .. N : parts[k] \in Seq(Int)
    /\ \A k \in 1 .. N : f[k] = f[k - 1] \o parts[k]

\* The parts of a joined sequence lie one behind the other.
Placed(parts, f, N) ==
    /\ \A k \in 1 .. N : Len(f[k]) = Len(f[k - 1]) + Len(parts[k])
    /\ \A k \in 0 .. N : Len(f[k]) <= Len(f[N])
    /\ \A k \in 1 .. N : \A i \in 1 .. Len(parts[k]) :
          f[N][Len(f[k - 1]) + i] = parts[k][i]

\* In a joined sequence each part starts where those before it end.
LEMMA JoinPlaces ==
    ASSUME NEW N, NEW parts, NEW f, Joined(parts, f, N)
    PROVE  Placed(parts, f, N)
<1>0. /\ N \in Nat /\ f \in [0 .. N -> Seq(Int)] /\ f[0] = << >>
      /\ \A k \in 1 .. N : parts[k] \in Seq(Int)
      /\ \A k \in 1 .. N : f[k] = f[k - 1] \o parts[k]
  BY DEF Joined
<1> USE <1>0
<1>1. \A k \in 1 .. N :
         /\ f[k - 1] \in Seq(Int) /\ f[k] \in Seq(Int)
         /\ Len(f[k - 1]) \in Nat /\ Len(f[k]) \in Nat /\ Len(parts[k]) \in Nat
  <2> TAKE k \in 1 .. N
  <2>1. k - 1 \in 0 .. N /\ k \in 0 .. N
    OBVIOUS
  <2>2. f[k - 1] \in Seq(Int) /\ f[k] \in Seq(Int) /\ parts[k] \in Seq(Int)
    BY <2>1
  <2>3. QED
    BY <2>2, LenType, Zenon
<1>2. \A k \in 1 .. N :
         /\ Len(f[k]) = Len(f[k - 1]) + Len(parts[k])
         /\ \A i \in 1 .. Len(f[k - 1]) : f[k][i] = f[k - 1][i]
         /\ \A i \in 1 .. Len(parts[k]) : f[k][Len(f[k - 1]) + i] = parts[k][i]
  <2> TAKE k \in 1 .. N
  <2> DEFINE s == f[k - 1]
             t == parts[k]
  <2>1. s \in Seq(Int) /\ t \in Seq(Int) /\ f[k] = s \o t
    BY <1>1
  <2> HIDE DEF s, t
  <2>4. /\ Len(s \o t) = Len(s) + Len(t)
        /\ \A i \in 1 .. Len(s) : (s \o t)[i] = s[i]
        /\ \A i \in 1 .. Len(t) : (s \o t)[Len(s) + i] = t[i]
    BY <2>1, ConcatBytes, Zenon
  <2>2. /\ Len(f[k]) = Len(s) + Len(t)
        /\ \A i \in 1 .. Len(s) : f[k][i] = s[i]
        /\ \A i \in 1 .. Len(t) : f[k][Len(s) + i] = t[i]
    <3> DEFINE j == s \o t
    <3> HIDE DEF j
    <3>1. f[k] = j
      BY <2>1 DEF j
    <3>2. /\ Len(j) = Len(s) + Len(t)
          /\ \A i \in 1 .. Len(s) : j[i] = s[i]
          /\ \A i \in 1 .. Len(t) : j[Len(s) + i] = t[i]
      BY <2>4 DEF j
    <3>3. QED
      BY <3>1, <3>2, Zenon
  <2>3. QED
    BY <2>2, Zenon DEF s, t
<1>3. ASSUME NEW k \in 0 .. N
      PROVE  \A n \in k .. N :
                Len(f[k]) <= Len(f[n]) /\ \A i \in 1 .. Len(f[k]) : f[n][i] = f[k][i]
  <2> DEFINE Keeps(n) == /\ Len(f[k]) <= Len(f[n])
                         /\ \A i \in 1 .. Len(f[k]) : f[n][i] = f[k][i]
             Bad == {n \in k .. N : ~Keeps(n)}
  <2>1. ASSUME Bad # {} PROVE FALSE
    <3>1. Bad \in SUBSET Nat
      <4> HIDE DEF Keeps
      <4> QED
        OBVIOUS
    <3>2. PICK n \in Bad : \A m \in Nat : m < n => m \notin Bad
      <4> HIDE DEF Bad
      <4> QED
        BY <3>1, <2>1, LeastNumber
    <3>3. n \in k .. N /\ ~Keeps(n)
      BY <3>2
    <3>4. n # k
      <4>1. Len(f[k]) \in Nat
        OBVIOUS
      <4>2. Keeps(k)
        BY <4>1
      <4> HIDE DEF Keeps
      <4> QED
        BY <3>3, <4>2
    <3>5. n \in 1 .. N /\ n - 1 \in k .. N /\ n - 1 < n /\ n - 1 \in Nat
      BY <3>3, <3>4
    <3>6. Keeps(n - 1)
      <4>1. n - 1 \notin Bad
        <5> HIDE DEF Bad
        <5> QED
          BY <3>2, <3>5
      <4> QED
        BY <3>5, <4>1
    <3>7. Len(f[n - 1]) \in Nat /\ Len(parts[n]) \in Nat /\ Len(f[k]) \in Nat
      <4>1. Len(f[k]) \in Nat
        BY LenType, Zenon
      <4>2. QED
        BY <3>5, <4>1, <1>1
    <3>8. Len(f[n]) = Len(f[n - 1]) + Len(parts[n])
          /\ \A i \in 1 .. Len(f[n - 1]) : f[n][i] = f[n - 1][i]
      BY <3>5, <1>2
    <3>9. Len(f[k]) <= Len(f[n])
      <4> DEFINE a == Len(f[k])
                 b == Len(f[n - 1])
                 c == Len(parts[n])
                 d == Len(f[n])
      <4>1. a \in Nat /\ b \in Nat /\ c \in Nat /\ a <= b /\ d = b + c
        BY <3>6, <3>7, <3>8
      <4> HIDE DEF a, b, c, d
      <4>2. a <= d
        BY <4>1
      <4>3. QED
        BY <4>2 DEF a, d
    <3>10. \A i \in 1 .. Len(f[k]) : f[n][i] = f[k][i]
      <4> TAKE i \in 1 .. Len(f[k])
      <4>1. i \in 1 .. Len(f[n - 1])
        <5> DEFINE a == Len(f[k])
                   b == Len(f[n - 1])
        <5>1. a \in Nat /\ b \in Nat /\ a <= b /\ i \in 1 .. a
          BY <3>6, <3>7
        <5> HIDE DEF a, b
        <5>2. i \in 1 .. b
          BY <5>1
        <5>3. QED
          BY <5>2 DEF b
      <4>2. f[n][i] = f[n - 1][i]
        BY <4>1, <3>8
      <4>3. f[n - 1][i] = f[k][i]
        BY <3>6
      <4> QED
        BY <4>2, <4>3
    <3> QED
      BY <3>3, <3>9, <3>10
  <2>2. QED
    BY <2>1
<1>4. N \in 0 .. N
  OBVIOUS
<1>5. \A k \in 0 .. N : Len(f[k]) <= Len(f[N])
  <2> TAKE k \in 0 .. N
  <2>1. N \in k .. N
    OBVIOUS
  <2>2. QED
    BY <1>3, <2>1
<1>6. \A k \in 1 .. N : \A i \in 1 .. Len(parts[k]) :
         f[N][Len(f[k - 1]) + i] = parts[k][i]
  <2> TAKE k \in 1 .. N
  <2> TAKE i \in 1 .. Len(parts[k])
  <2>1. k \in 0 .. N /\ N \in k .. N
    OBVIOUS
  <2>2. Len(f[k - 1]) \in Nat /\ Len(parts[k]) \in Nat
    BY <1>1
  <2>3. Len(f[k - 1]) + i \in 1 .. Len(f[k])
    <3>1. Len(f[k]) = Len(f[k - 1]) + Len(parts[k])
      BY <1>2
    <3> DEFINE a == Len(f[k - 1])
               b == Len(parts[k])
               c == Len(f[k])
    <3>2. a \in Nat /\ b \in Nat /\ c = a + b /\ i \in 1 .. b
      BY <2>2, <3>1
    <3> HIDE DEF a, b, c
    <3>3. a + i \in 1 .. c
      BY <3>2
    <3>4. QED
      BY <3>3 DEF a, c
  <2>4. f[N][Len(f[k - 1]) + i] = f[k][Len(f[k - 1]) + i]
    BY <1>3, <2>1, <2>3
  <2>5. QED
    BY <1>2, <2>4
<1>7. QED
  BY <1>2, <1>5, <1>6 DEF Placed

\* What a message is alone: its length field agrees with its length, and its
\* letter tells its kind.
LEMMA EncodeType ==
    ASSUME NEW msg, IsMessage(msg)
    PROVE  LET body == Encode(<< >>, msg)
           IN  /\ body \in Seq(Int)
               /\ Len(body) >= 5 /\ body[2] = Len(body) - 1
               /\ body[1] = Code.Z <=> msg.kind = "ready"
               /\ body[1] = Code.D <=> msg.kind = "row"
               /\ body[1] = Code.T <=> msg.kind = "fields"
               /\ \A buffer \in Seq(Int) : Encode(buffer, msg) = buffer \o body
<1>1. PICK code \in Int, rest \in Seq(Int) :
              /\ Appends(msg, code, rest)
              /\ code = Code.Z <=> msg.kind = "ready"
              /\ code = Code.D <=> msg.kind = "row"
              /\ code = Code.T <=> msg.kind = "fields"
  BY EncodersAppend
<1> DEFINE body == Body(code, rest)
<1>2. /\ body \in Seq(Int) /\ Len(body) = 5 + Len(rest)
      /\ body[1] = code /\ body[2] = 4 + Len(rest)
  BY BodyType
<1>3. Len(rest) \in Nat
  OBVIOUS
<1> HIDE DEF body
<1>4. Len(body) >= 5 /\ body[2] = Len(body) - 1
  BY <1>2, <1>3
<1>5. \A buffer \in Seq(Int) : Encode(buffer, msg) = buffer \o body
  BY <1>1, Zenon DEF Appends, body
<1>6. << >> \in Seq(Int) /\ << >> \o body = body
  BY <1>2, EmptyLeft
<1>7. Encode(<< >>, msg) = body
  BY <1>5, <1>6, Zenon
<1>8. QED
  BY <1>1, <1>2, <1>4, <1>5, <1>7, Zenon

\* A package is the messages one after the other, however they are encoded
\* into one buffer.
THEOREM PackageJoins ==
    ASSUME NEW messages, NEW N \in Nat, Len(messages) = N, DOMAIN messages = 1 .. N,
           \A n \in 1 .. N : IsMessage(messages[n])
    PROVE  \E f \in [0 .. N -> Seq(Int)] :
              /\ f[0] = << >>
              /\ \A k \in 1 .. N : f[k] = f[k - 1] \o Encode(<< >>, messages[k])
              /\ \A k \in 0 .. N : Package(messages)[k] = f[k]
<1> DEFINE parts == [n \in 1 .. N |-> Encode(<< >>, messages[n])]
<1>1. \A n \in 1 .. N : Encode(<< >>, messages[n]) \in Seq(Int)
  BY EncodeType
<1>2. parts \in Seq(Seq(Int)) /\ Len(parts) = N
  <2>1. parts \in [1 .. N -> Seq(Int)]
    BY <1>1
  <2> HIDE DEF parts
  <2>2. QED
    BY <2>1
<1>3. \A n \in 1 .. N : parts[n] = Encode(<< >>, messages[n])
  OBVIOUS
<1> HIDE DEF parts
<1>4. PICK f \in [0 .. N -> Seq(Int)] :
              /\ f[0] = << >>
              /\ \A k \in 1 .. N : f[k] = f[k - 1] \o parts[k]
  BY <1>2, JoinExists
<1>5. \A k \in 1 .. N : f[k] = f[k - 1] \o Encode(<< >>, messages[k])
  BY <1>3, <1>4
<1>6. \A k \in 1 .. N : f[k] = Encode(f[k - 1], messages[k])
  <2> TAKE k \in 1 .. N
  <2>1. k - 1 \in 0 .. N
    OBVIOUS
  <2>2. f[k - 1] \in Seq(Int)
    BY <2>1
  <2>3. Encode(f[k - 1], messages[k]) = f[k - 1] \o Encode(<< >>, messages[k])
    BY <2>2, EncodeType, Zenon
  <2>4. QED
    BY <1>5, <2>3, Zenon
<1> DEFINE Eq(g) == g = [n \in 0 .. N |-> IF n = 0 THEN << >>
                                          ELSE Encode(g[n - 1], messages[n])]
           package == CHOOSE g : Eq(g)
<1>7. Eq(f)
  <2>1. \A n \in 0 .. N : f[n] = IF n = 0 THEN << >> ELSE Encode(f[n - 1], messages[n])
    BY <1>4, <1>6
  <2>2. QED
    BY <2>1
<1>8. Package(messages) = package
  BY Zenon DEF Package
<1>9. Eq(package)
  <2> HIDE DEF Eq
  <2> QED
    BY <1>7
<1>10. \A n \in 0 .. N : package[n] = IF n = 0 THEN << >>
                                      ELSE Encode(package[n - 1], messages[n])
  <2> HIDE DEF package
  <2> QED
    BY <1>9
<1> HIDE DEF package
<1>11. \A k \in 0 .. N : package[k] = f[k]
  <2> DEFINE Bad == {n \in 0 .. N : package[n] # f[n]}
  <2>1. ASSUME Bad # {} PROVE FALSE
    <3>1. Bad \in SUBSET Nat
      OBVIOUS
    <3>2. PICK n \in Bad : \A m \in Nat : m < n => m \notin Bad
      <4> HIDE DEF Bad
      <4> QED
        BY <3>1, <2>1, LeastNumber
    <3>3. n \in 0 .. N /\ package[n] # f[n]
      BY <3>2
    <3>4. n # 0
      BY <3>3, <1>4, <1>10
    <3>5. n \in 1 .. N /\ n - 1 \in 0 .. N /\ n - 1 < n /\ n - 1 \in Nat
      BY <3>3, <3>4
    <3>6. package[n - 1] = f[n - 1]
      BY <3>5, <3>2
    <3>7. package[n] = Encode(package[n - 1], messages[n])
      BY <3>3, <3>4, <1>10
    <3> QED
      BY <3>3, <3>5, <3>6, <3>7, <1>6, Zenon
  <2>2. QED
    BY <2>1
<1>12. \A k \in 0 .. N : Package(messages)[k] = f[k]
  BY <1>8, <1>11, Zenon
<1>13. QED
  BY <1>4, <1>5, <1>12

-----------------------------------------------------------------------------
(* The bytes of a reply, and how far they have come.                       *)

\* What is sent as one package: ReadyForQuery is its last message, and only that.
IsReply(messages) ==
    /\ Len(messages) \in Nat \ {0}
    /\ DOMAIN messages = 1 .. Len(messages)
    /\ \A n \in 1 .. Len(messages) :
          /\ IsMessage(messages[n])
          /\ messages[n].kind = "ready" <=> n = Len(messages)

\* SendAll means one sequence of bytes for each message of the reply.
LEMMA PartsType ==
    ASSUME NEW messages, NEW N \in Nat, Len(messages) = N, DOMAIN messages = 1 .. N,
           \A n \in 1 .. N : IsMessage(messages[n])
    PROVE  /\ Parts(messages) \in Seq(Seq(Int)) /\ Len(Parts(messages)) = N
           /\ \A n \in 1 .. N : Parts(messages)[n] = Encode(<< >>, messages[n])
<1>1. PICK f \in [0 .. N -> Seq(Int)] :
              /\ f[0] = << >>
              /\ \A k \in 1 .. N : f[k] = f[k - 1] \o Encode(<< >>, messages[k])
              /\ \A k \in 0 .. N : Package(messages)[k] = f[k]
  BY PackageJoins
<1>2. \A n \in 1 .. N : /\ Encode(<< >>, messages[n]) \in Seq(Int)
                        /\ SubSeq(f[n], Len(f[n - 1]) + 1, Len(f[n])) = Encode(<< >>, messages[n])
  <2> TAKE n \in 1 .. N
  <2>1. n - 1 \in 0 .. N
    OBVIOUS
  <2> DEFINE s == f[n - 1]
             t == Encode(<< >>, messages[n])
             j == s \o t
  <2>2. s \in Seq(Int) /\ t \in Seq(Int) /\ f[n] = j
    BY <2>1, <1>1, EncodeType
  <2> HIDE DEF s, t
  <2>3. /\ j \in Seq(Int) /\ Len(j) = Len(s) + Len(t)
        /\ \A i \in 1 .. Len(t) : j[Len(s) + i] = t[i]
    BY <2>2, ConcatBytes, Zenon
  <2> DEFINE a == Len(s)
             b == Len(t)
  <2>4. a \in Nat /\ b \in Nat
    BY <2>2, LenType, Zenon
  <2> HIDE DEF j
  <2>5. Len(j) = a + b /\ \A i \in 1 .. b : j[a + i] = t[i]
    BY <2>3
  <2>6. j \in Seq(Int) /\ Len(t) = b
    BY <2>3
  <2> HIDE DEF a, b
  <2>7. \A i \in a + 1 .. a + b : j[i] \in Int
    BY <2>4, <2>5, <2>6
  <2> DEFINE u == SubSeq(j, a + 1, a + b)
  <2>8. /\ u \in Seq(Int) /\ Len(u) = b
        /\ \A i \in 1 .. b : u[i] = j[a + i]
    <3>1. /\ u \in Seq(Int)
          /\ Len(u) = IF a + 1 <= a + b THEN (a + b) - (a + 1) + 1 ELSE 0
          /\ \A i \in 1 .. (a + b) - (a + 1) + 1 : u[i] = j[(a + 1) + i - 1]
      <4>1. a + 1 \in Int /\ a + b \in Int
        BY <2>4
      <4>2. PartOf(j, a + 1, a + b)
        BY <4>1, <2>7, PartType, Zenon
      <4>3. QED
        BY <4>2, Zenon DEF PartOf
    <3> HIDE DEF u
    <3>2. (a + b) - (a + 1) + 1 = b
      BY <2>4
    <3>3. Len(u) = b
      BY <3>1, <2>4
    <3>4. \A i \in 1 .. b : u[i] = j[a + i]
      <4> TAKE i \in 1 .. b
      <4>1. u[i] = j[(a + 1) + i - 1]
        BY <3>1, <3>2
      <4>2. (a + 1) + i - 1 = a + i
        BY <2>4
      <4>3. QED
        BY <4>1, <4>2
    <3>5. QED
      BY <3>1, <3>3, <3>4
  <2> HIDE DEF u
  <2>9. u = t
    <3>1. \A i \in 1 .. b : u[i] = t[i]
      BY <2>5, <2>8
    <3>2. QED
      BY <3>1, <2>2, <2>6, <2>8, SeqEqual
  <2>10. SubSeq(f[n], Len(f[n - 1]) + 1, Len(f[n])) = u
    <3>1. Len(f[n]) = a + b /\ Len(f[n - 1]) = a
      BY <2>2, <2>5 DEF a, s
    <3>2. QED
      BY <3>1, <2>2, Zenon DEF u
  <2>11. QED
    BY <2>2, <2>9, <2>10, Zenon DEF t
<1>3. \A n \in 1 .. N : n \in 0 .. N /\ n - 1 \in 0 .. N
  OBVIOUS
<1>4. \A n \in 1 .. N :
          SubSeq(Package(messages)[n], Len(Package(messages)[n - 1]) + 1,
                 Len(Package(messages)[n])) = Encode(<< >>, messages[n])
  <2> TAKE n \in 1 .. N
  <2>1. Package(messages)[n] = f[n] /\ Package(messages)[n - 1] = f[n - 1]
    BY <1>1, <1>3
  <2>2. QED
    BY <2>1, <1>2, Zenon
<1>5. /\ Parts(messages) = [n \in 1 .. N |-> Parts(messages)[n]]
      /\ \A n \in 1 .. N : Parts(messages)[n] = Encode(<< >>, messages[n])
  BY <1>4, Zenon DEF Parts
<1>6. Parts(messages) \in [1 .. N -> Seq(Int)]
  BY <1>2, <1>5
<1>7. QED
  BY <1>5, <1>6

\* Bytes that hold the messages of `sent' from end to end.
Framed(sent, bytes, ends) ==
    /\ sent \in Seq(Seq(Int)) /\ bytes \in Seq(Int)
    /\ ends \in [0 .. Len(sent) -> Nat]
    /\ ends[0] = 0 /\ ends[Len(sent)] = Len(bytes)
    /\ \A n \in 1 .. Len(sent) :
          /\ Len(sent[n]) >= 5 /\ sent[n][2] = Len(sent[n]) - 1
          /\ ends[n] = ends[n - 1] + Len(sent[n])
          /\ \A i \in 1 .. Len(sent[n]) : bytes[ends[n - 1] + i] = sent[n][i]
          /\ sent[n][1] = Code.Z <=> n = Len(sent)

\* The package of a reply holds its messages from end to end.
LEMMA FramedReply ==
    ASSUME NEW messages, IsReply(messages)
    PROVE  \E ends : Framed(Parts(messages), Package(messages)[Len(messages)], ends)
<1> DEFINE N == Len(messages)
           parts == Parts(messages)
<1>1. /\ N \in Nat /\ N # 0 /\ Len(messages) = N /\ DOMAIN messages = 1 .. N
      /\ \A n \in 1 .. N : IsMessage(messages[n])
      /\ \A n \in 1 .. N : messages[n].kind = "ready" <=> n = N
  BY DEF IsReply
<1> HIDE DEF N
<1>2. PICK f \in [0 .. N -> Seq(Int)] :
              /\ f[0] = << >>
              /\ \A k \in 1 .. N : f[k] = f[k - 1] \o Encode(<< >>, messages[k])
              /\ \A k \in 0 .. N : Package(messages)[k] = f[k]
  BY <1>1, PackageJoins
<1>3. /\ parts \in Seq(Seq(Int)) /\ Len(parts) = N
      /\ \A n \in 1 .. N : parts[n] = Encode(<< >>, messages[n])
  BY <1>1, PartsType
<1> HIDE DEF parts
<1>4. \A n \in 1 .. N :
         /\ parts[n] \in Seq(Int)
         /\ Len(parts[n]) >= 5 /\ parts[n][2] = Len(parts[n]) - 1
         /\ parts[n][1] = Code.Z <=> n = N
  <2> TAKE n \in 1 .. N
  <2>1. IsMessage(messages[n])
    BY <1>1, Zenon
  <2> DEFINE body == Encode(<< >>, messages[n])
  <2>2. /\ body \in Seq(Int) /\ Len(body) >= 5 /\ body[2] = Len(body) - 1
        /\ body[1] = Code.Z <=> messages[n].kind = "ready"
    BY <2>1, EncodeType, Zenon
  <2>3. parts[n] = body
    BY <1>3, Zenon
  <2> HIDE DEF body
  <2>4. messages[n].kind = "ready" <=> n = N
    BY <1>1, Zenon
  <2>5. QED
    BY <2>2, <2>3, <2>4, Zenon
<1>5. \A k \in 1 .. N : f[k] = f[k - 1] \o parts[k]
  BY <1>2, <1>3
<1>12. \A k \in 1 .. N : parts[k] \in Seq(Int)
  BY <1>4
<1>13. f[0] = << >>
  BY <1>2
<1>6. /\ \A k \in 1 .. N : Len(f[k]) = Len(f[k - 1]) + Len(parts[k])
      /\ \A k \in 0 .. N : Len(f[k]) <= Len(f[N])
      /\ \A k \in 1 .. N : \A i \in 1 .. Len(parts[k]) :
                 f[N][Len(f[k - 1]) + i] = parts[k][i]
  <2>1. N \in Nat
    BY <1>1
  <2>2. f \in [0 .. N -> Seq(Int)]
    OBVIOUS
  <2>3. Joined(parts, f, N)
    BY <2>1, <2>2, <1>5, <1>12, <1>13 DEF Joined
  <2>4. Placed(parts, f, N)
    BY <2>3, JoinPlaces
  <2>5. QED
    BY <2>4, Zenon DEF Placed
<1> DEFINE ends == [k \in 0 .. N |-> Len(f[k])]
<1>7. /\ ends \in [0 .. N -> Nat]
      /\ ends[0] = 0 /\ ends[N] = Len(f[N])
  <2>1. \A k \in 0 .. N : Len(f[k]) \in Nat
    BY <1>2, LenType
  <2>2. 0 \in 0 .. N /\ N \in 0 .. N /\ Len(<< >>) = 0
    BY <1>1
  <2>3. QED
    BY <2>1, <2>2, <1>2
<1>8. \A n \in 1 .. N : /\ ends[n] = ends[n - 1] + Len(parts[n])
                        /\ \A i \in 1 .. Len(parts[n]) : f[N][ends[n - 1] + i] = parts[n][i]
  <2> TAKE n \in 1 .. N
  <2>1. n \in 0 .. N /\ n - 1 \in 0 .. N
    BY <1>1
  <2>2. ends[n] = Len(f[n]) /\ ends[n - 1] = Len(f[n - 1])
    BY <2>1
  <2> HIDE DEF ends
  <2>3. QED
    BY <1>6, <2>2, Zenon
<1> HIDE DEF ends
<1>9. f[N] \in Seq(Int) /\ Package(messages)[N] = f[N]
  BY <1>1, <1>2
<1>10. Framed(parts, f[N], ends)
  BY <1>3, <1>4, <1>7, <1>8, <1>9 DEF Framed
<1>11. QED
  BY <1>9, <1>10 DEF N, parts

\* The client has read the messages `read' of those `sent'; the bytes it has
\* received and those still coming are the next ones, up to m.
StreamAt(sent, read, received, coming, short, bytes, ends, m) ==
    /\ Framed(sent, bytes, ends)
    /\ read \in Seq(Seq(Int)) /\ Len(read) <= Len(sent)
    /\ \A i \in 1 .. Len(read) : read[i] = sent[i]
    /\ received \in Seq(Int) /\ coming \in Seq(Int)
    /\ m <= Len(bytes) /\ (short <=> m < Len(bytes))
    /\ ends[Len(read)] + Len(received) + Len(coming) = m
    /\ \A i \in 1 .. Len(received) : received[i] = bytes[ends[Len(read)] + i]
    /\ \A i \in 1 .. Len(coming) :
          coming[i] = bytes[ends[Len(read)] + Len(received) + i]

\* That for some package and some number of bytes that were sent.
Stream(sent, read, received, coming, short) ==
    \E bytes, ends : \E m \in Nat :
        StreamAt(sent, read, received, coming, short, bytes, ends, m)

\* Before anything was sent.
LEMMA StreamStart == Stream(<< >>, << >>, << >>, << >>, FALSE)
<1> DEFINE ends == [n \in 0 .. 0 |-> 0]
<1>1. Framed(<< >>, << >>, ends)
  BY DEF Framed
<1>2. ends[Len(<< >>)] = 0 /\ Len(<< >>) = 0 /\ << >> \in Seq(Seq(Int)) /\ << >> \in Seq(Int)
  OBVIOUS
<1> HIDE DEF ends
<1>3. StreamAt(<< >>, << >>, << >>, << >>, FALSE, << >>, ends, 0)
  BY <1>1, <1>2 DEF StreamAt
<1>4. QED
  BY <1>3 DEF Stream

\* A reply that was sent, whole or cut short by a send with little room.
LEMMA StreamReply ==
    ASSUME NEW messages, IsReply(messages), NEW room \in Nat
    PROVE  LET buffer == Package(messages)[Len(messages)]
           IN  Stream(Parts(messages), << >>, << >>, Take(buffer, room), room < Len(buffer))
<1> DEFINE buffer == Package(messages)[Len(messages)]
           parts == Parts(messages)
           m == IF room < Len(buffer) THEN room ELSE Len(buffer)
<1>1. PICK ends : Framed(parts, buffer, ends)
  BY FramedReply
<1> HIDE DEF buffer, parts
<1>2. buffer \in Seq(Int) /\ Len(buffer) \in Nat /\ ends[0] = 0 /\ Len(parts) \in Nat
  BY <1>1 DEF Framed
<1>3. m \in Nat /\ m <= Len(buffer) /\ (room < Len(buffer) <=> m < Len(buffer))
  BY <1>2
<1>4. Take(buffer, room) = SubSeq(buffer, 1, m)
  BY DEF Take
<1> HIDE DEF m
<1> DEFINE t == SubSeq(buffer, 1, m)
<1>5. t \in Seq(Int) /\ Len(t) = m /\ \A i \in 1 .. m : t[i] = buffer[i]
  <2>1. \A i \in 1 .. m : buffer[i] \in Int
    BY <1>2, <1>3
  <2>2. 1 \in Int /\ m \in Int
    BY <1>3
  <2>3. /\ t \in Seq(Int) /\ Len(t) = IF 1 <= m THEN m - 1 + 1 ELSE 0
        /\ \A i \in 1 .. m - 1 + 1 : t[i] = buffer[1 + i - 1]
    BY <2>1, <2>2, SubSeqProperties
  <2> HIDE DEF t
  <2>4. Len(t) = m
    BY <2>3, <1>3
  <2>5. \A i \in 1 .. m : t[i] = buffer[i]
    <3> TAKE i \in 1 .. m
    <3>1. i \in 1 .. m - 1 + 1 /\ 1 + i - 1 = i
      BY <1>3
    <3>2. t[i] = buffer[1 + i - 1]
      BY <2>3, <3>1
    <3>3. QED
      BY <3>1, <3>2
  <2>6. QED
    BY <2>3, <2>4, <2>5
<1> HIDE DEF t
<1>6. Stream(parts, << >>, << >>, t, room < Len(buffer))
  <2>1. << >> \in Seq(Seq(Int)) /\ << >> \in Seq(Int) /\ Len(<< >>) = 0
    OBVIOUS
  <2>2. ends[Len(<< >>)] + Len(<< >>) + Len(t) = m
    BY <2>1, <1>2, <1>3, <1>5
  <2>3. \A i \in 1 .. Len(t) : t[i] = buffer[ends[Len(<< >>)] + Len(<< >>) + i]
    <3> TAKE i \in 1 .. Len(t)
    <3>1. ends[Len(<< >>)] + Len(<< >>) + i = i
      BY <2>1, <1>2, <1>3, <1>5
    <3>2. QED
      BY <3>1, <1>5
  <2>4. StreamAt(parts, << >>, << >>, t, room < Len(buffer), buffer, ends, m)
    BY <2>1, <2>2, <2>3, <1>1, <1>2, <1>3, <1>5 DEF StreamAt
  <2>5. QED
    BY <2>4, <1>3 DEF Stream
<1>7. QED
  BY <1>4, <1>6 DEF t, buffer, parts

\* As long as nothing is meant nothing is on its way.
LEMMA StreamOfNothing ==
    ASSUME NEW read, NEW received, NEW coming, NEW short,
           Stream(<< >>, read, received, coming, short)
    PROVE  read = << >> /\ received = << >> /\ coming = << >> /\ ~short
<1>0. PICK bytes, ends : \E m \in Nat :
         StreamAt(<< >>, read, received, coming, short, bytes, ends, m)
  BY DEF Stream
<1>1. PICK m \in Nat :
        /\ Framed(<< >>, bytes, ends)
        /\ read \in Seq(Seq(Int)) /\ Len(read) <= Len(<< >>)
        /\ received \in Seq(Int) /\ coming \in Seq(Int)
        /\ m <= Len(bytes) /\ (short <=> m < Len(bytes))
        /\ ends[Len(read)] + Len(received) + Len(coming) = m
  BY <1>0 DEF StreamAt
<1>2. Len(<< >>) = 0 /\ Len(bytes) = 0 /\ ends[0] = 0
  BY <1>1 DEF Framed
<1>3. read = << >> /\ Len(read) = 0
  BY <1>1, <1>2
<1>4. Len(received) \in Nat /\ Len(coming) \in Nat
  BY <1>1
<1>5. Len(received) = 0 /\ Len(coming) = 0 /\ ~short
  BY <1>1, <1>2, <1>3, <1>4
<1>6. QED
  BY <1>1, <1>3, <1>5, EmptySeq

-----------------------------------------------------------------------------
(* Bytes arrive and messages are read.                                     *)

\* The part of a sequence of bytes from a to b.
LEMMA PartOfBytes ==
    ASSUME NEW s \in Seq(Int), NEW a \in Nat, NEW b \in Nat,
           a + b <= Len(s)
    PROVE  /\ SubSeq(s, a + 1, a + b) \in Seq(Int)
           /\ Len(SubSeq(s, a + 1, a + b)) = b
           /\ \A i \in 1 .. b : SubSeq(s, a + 1, a + b)[i] = s[a + i]
<1> DEFINE u == SubSeq(s, a + 1, a + b)
<1>0. Len(s) \in Nat /\ \A i \in 1 .. Len(s) : s[i] \in Int
  OBVIOUS
<1>1. \A i \in a + 1 .. a + b : s[i] \in Int
  <2> TAKE i \in a + 1 .. a + b
  <2>1. i \in 1 .. Len(s)
    BY <1>0
  <2>2. QED
    BY <1>0, <2>1
<1>2. a + 1 \in Int /\ a + b \in Int
  OBVIOUS
<1>3. /\ u \in Seq(Int)
      /\ Len(u) = IF a + 1 <= a + b THEN (a + b) - (a + 1) + 1 ELSE 0
      /\ \A i \in 1 .. (a + b) - (a + 1) + 1 : u[i] = s[(a + 1) + i - 1]
  BY <1>1, <1>2, SubSeqProperties
<1> HIDE DEF u
<1>4. (a + b) - (a + 1) + 1 = b
  OBVIOUS
<1>5. Len(u) = b
  BY <1>3
<1>6. \A i \in 1 .. b : u[i] = s[a + i]
  <2> TAKE i \in 1 .. b
  <2>1. u[i] = s[(a + 1) + i - 1]
    BY <1>3, <1>4
  <2>2. (a + 1) + i - 1 = a + i
    OBVIOUS
  <2>3. QED
    BY <2>1, <2>2
<1>7. QED
  BY <1>3, <1>5, <1>6 DEF u

\* The next byte arrives.
LEMMA StreamArrive ==
    ASSUME NEW sent, NEW read, NEW received, NEW coming, NEW short,
           Stream(sent, read, received, coming, short), coming # << >>
    PROVE  Stream(sent, read, Append(received, Head(coming)), Tail(coming), short)
<1>0. PICK bytes, ends : \E m \in Nat :
         StreamAt(sent, read, received, coming, short, bytes, ends, m)
  BY DEF Stream
<1>at. PICK m \in Nat : StreamAt(sent, read, received, coming, short, bytes, ends, m)
  BY <1>0
<1> DEFINE start == ends[Len(read)]
           R == Len(received)
           C == Len(coming)
           more == Append(received, Head(coming))
           rest == Tail(coming)
<1>1. /\ Framed(sent, bytes, ends)
      /\ read \in Seq(Seq(Int)) /\ Len(read) <= Len(sent)
      /\ \A i \in 1 .. Len(read) : read[i] = sent[i]
      /\ received \in Seq(Int) /\ coming \in Seq(Int)
      /\ m <= Len(bytes) /\ (short <=> m < Len(bytes))
      /\ start + R + C = m
      /\ \A i \in 1 .. R : received[i] = bytes[start + i]
      /\ \A i \in 1 .. C : coming[i] = bytes[start + R + i]
  BY <1>at DEF StreamAt
<1>2. start \in Nat
  <2>1. ends \in [0 .. Len(sent) -> Nat]
    BY <1>1 DEF Framed
  <2>2. sent \in Seq(Seq(Int))
    BY <1>1 DEF Framed
  <2>3. Len(read) \in 0 .. Len(sent)
    BY <1>1, <2>2
  <2>4. QED
    BY <2>1, <2>3
<1>3. R \in Nat /\ C \in Nat /\ C # 0
  BY <1>1, EmptySeq
<1>4. /\ more \in Seq(Int) /\ Len(more) = R + 1
      /\ \A i \in 1 .. R : more[i] = received[i]
      /\ more[R + 1] = coming[1]
  BY <1>1, <1>3
<1>5. /\ rest \in Seq(Int) /\ Len(rest) = C - 1
      /\ \A i \in 1 .. C - 1 : rest[i] = coming[i + 1]
  BY <1>1, <1>3
<1> HIDE DEF R, C, more, rest, start
<1>6. \A i \in 1 .. R + 1 : more[i] = bytes[start + i]
  <2> TAKE i \in 1 .. R + 1
  <2>1. CASE i = R + 1
    <3>1. coming[1] = bytes[start + R + 1] /\ start + R + 1 = start + i
      BY <1>1, <1>2, <1>3, <2>1
    <3>2. QED
      BY <1>4, <2>1, <3>1
  <2>2. CASE i # R + 1
    <3>1. i \in 1 .. R
      BY <1>3, <2>2
    <3>2. QED
      BY <3>1, <1>1, <1>4
  <2>3. QED
    BY <2>1, <2>2
<1>7. \A i \in 1 .. C - 1 : rest[i] = bytes[start + (R + 1) + i]
  <2> TAKE i \in 1 .. C - 1
  <2>1. i + 1 \in 1 .. C /\ start + R + (i + 1) = start + (R + 1) + i
    BY <1>2, <1>3
  <2>2. rest[i] = coming[i + 1] /\ coming[i + 1] = bytes[start + R + (i + 1)]
    BY <1>1, <1>5, <2>1
  <2>3. QED
    BY <2>1, <2>2
<1>8. start + (R + 1) + (C - 1) = m
  BY <1>1, <1>2, <1>3
<1>9. StreamAt(sent, read, more, rest, short, bytes, ends, m)
  BY <1>1, <1>4, <1>5, <1>6, <1>7, <1>8, Zenon DEF StreamAt, start
<1>10. QED
  BY <1>9 DEF Stream, more, rest

\* The next message is read where it was encoded to end; it is the last one if
\* it is a ReadyForQuery.
LEMMA StreamRead ==
    ASSUME NEW sent, NEW read, NEW received, NEW coming, NEW short,
           Stream(sent, read, received, coming, short),
           Len(received) >= 5, Len(received) >= 1 + received[2]
    PROVE  LET message == SubSeq(received, 1, 1 + received[2])
           IN  /\ Stream(sent, Append(read, message),
                         SubSeq(received, 2 + received[2], Len(received)), coming, short)
               /\ received[1] = Code.Z <=> Len(Append(read, message)) = Len(sent)
<1>0. PICK bytes, ends : \E m \in Nat :
         StreamAt(sent, read, received, coming, short, bytes, ends, m)
  BY DEF Stream
<1>at. PICK m \in Nat : StreamAt(sent, read, received, coming, short, bytes, ends, m)
  BY <1>0
<1> DEFINE K == Len(read)
           N == Len(sent)
           start == ends[K]
           R == Len(received)
           C == Len(coming)
           l == Len(sent[K + 1])
<1>1. /\ Framed(sent, bytes, ends)
      /\ read \in Seq(Seq(Int)) /\ K <= N
      /\ \A i \in 1 .. K : read[i] = sent[i]
      /\ received \in Seq(Int) /\ coming \in Seq(Int)
      /\ m <= Len(bytes) /\ (short <=> m < Len(bytes))
      /\ start + R + C = m
      /\ \A i \in 1 .. R : received[i] = bytes[start + i]
      /\ \A i \in 1 .. C : coming[i] = bytes[start + R + i]
  BY <1>at DEF StreamAt
<1>2. /\ sent \in Seq(Seq(Int)) /\ bytes \in Seq(Int)
      /\ ends \in [0 .. N -> Nat]
      /\ ends[0] = 0 /\ ends[N] = Len(bytes)
      /\ \A n \in 1 .. N :
            /\ Len(sent[n]) >= 5 /\ sent[n][2] = Len(sent[n]) - 1
            /\ ends[n] = ends[n - 1] + Len(sent[n])
            /\ \A i \in 1 .. Len(sent[n]) : bytes[ends[n - 1] + i] = sent[n][i]
            /\ sent[n][1] = Code.Z <=> n = N
  BY <1>1 DEF Framed
<1>3. K \in Nat /\ N \in Nat /\ R \in Nat /\ C \in Nat /\ m \in Nat /\ R >= 5
      /\ Len(bytes) \in Nat
  BY <1>1, <1>2
<1>4. start \in Nat
  BY <1>1, <1>2, <1>3
<1>5. K # N
  <2>1. ASSUME K = N PROVE FALSE
    <3>1. start = Len(bytes)
      BY <2>1, <1>2
    <3>2. start + R + C = m /\ m <= Len(bytes)
      BY <1>1
    <3> DEFINE b == Len(bytes)
    <3>3. b \in Nat /\ start = b /\ m <= b
      BY <3>1, <3>2, <1>3
    <3> HIDE DEF start, R, C, K, N, b
    <3>4. QED
      BY <3>2, <3>3, <1>3, <1>4
  <2>2. QED
    BY <2>1
<1>6. K + 1 \in 1 .. N /\ (K + 1) - 1 = K
  <2> HIDE DEF K, N
  <2> QED
    BY <1>1, <1>3, <1>5
<1>7. /\ sent[K + 1] \in Seq(Int) /\ l \in Nat /\ l >= 5 /\ sent[K + 1][2] = l - 1
      /\ ends[K + 1] = start + l
      /\ \A i \in 1 .. l : bytes[start + i] = sent[K + 1][i]
      /\ sent[K + 1][1] = Code.Z <=> K + 1 = N
  <2>1. sent[K + 1] \in Seq(Int)
    BY <1>2, <1>6
  <2>2. l \in Nat
    BY <2>1, LenType
  <2>3. ends[(K + 1) - 1] = start
    BY <1>6
  <2>4. QED
    BY <2>1, <2>2, <2>3, <1>2, <1>6
<1> HIDE DEF K, N, start, R, C, l
<1>8. received[2] = l - 1 /\ received[1] = sent[K + 1][1]
  <2>1. 1 \in 1 .. R /\ 2 \in 1 .. R /\ 1 \in 1 .. l /\ 2 \in 1 .. l
    BY <1>3, <1>7
  <2>2. /\ received[1] = bytes[start + 1] /\ received[2] = bytes[start + 2]
        /\ bytes[start + 1] = sent[K + 1][1] /\ bytes[start + 2] = sent[K + 1][2]
    BY <2>1, <1>1, <1>7
  <2>3. QED
    BY <2>2, <1>7
<1>9. 1 + received[2] = l /\ 2 + received[2] = l + 1 /\ l <= R /\ Len(received) = R
      /\ R = l + (R - l) /\ R - l \in Nat
  <2>1. Len(received) = R /\ Len(received) >= 1 + received[2]
    BY DEF R
  <2>2. 1 + received[2] = l /\ 2 + received[2] = l + 1
    BY <1>7, <1>8
  <2>3. l <= R
    BY <2>1, <2>2
  <2>4. l \in Nat /\ R \in Nat
    BY <1>3, <1>7
  <2>5. R = l + (R - l) /\ R - l \in Nat
    BY <2>3, <2>4
  <2>6. QED
    BY <2>1, <2>2, <2>3, <2>5, Zenon
<1> DEFINE message == SubSeq(received, 1, l)
           rest == SubSeq(received, l + 1, R)
           all == Append(read, message)
<1>10. message = sent[K + 1]
  <2>1. /\ SubSeq(received, 0 + 1, 0 + l) \in Seq(Int)
        /\ Len(SubSeq(received, 0 + 1, 0 + l)) = l
        /\ \A i \in 1 .. l : SubSeq(received, 0 + 1, 0 + l)[i] = received[0 + i]
    <3>1. 0 + l <= Len(received) /\ 0 \in Nat
      BY <1>7, <1>9
    <3>2. received \in Seq(Int) /\ l \in Nat
      BY <1>1, <1>7, Zenon
    <3>3. QED
      BY <3>1, <3>2, PartOfBytes, Zenon
  <2>2. 0 + 1 = 1 /\ 0 + l = l /\ \A i \in 1 .. l : 0 + i = i
    BY <1>7
  <2>3. /\ message \in Seq(Int) /\ Len(message) = l
        /\ \A i \in 1 .. l : message[i] = received[i]
    BY <2>1, <2>2
  <2> HIDE DEF message
  <2>4. \A i \in 1 .. l : message[i] = sent[K + 1][i]
    <3> TAKE i \in 1 .. l
    <3>1. i \in 1 .. R
      BY <1>3, <1>7, <1>9
    <3>2. message[i] = received[i] /\ received[i] = bytes[start + i]
          /\ bytes[start + i] = sent[K + 1][i]
      BY <2>3, <3>1, <1>1, <1>7
    <3>3. QED
      BY <3>2
  <2>5. Len(sent[K + 1]) = l
    BY DEF l
  <2>6. sent[K + 1] \in Seq(Int) /\ l \in Nat
    BY <1>7
  <2>7. Agree(message, sent[K + 1], l)
    BY <2>3, <2>4, <2>5, <2>6, Zenon DEF Agree
  <2>8. QED
    BY <2>7, SameBytes, Zenon
<1>11. /\ rest \in Seq(Int) /\ Len(rest) = R - l
       /\ \A i \in 1 .. R - l : rest[i] = received[l + i]
  <2>1. /\ SubSeq(received, l + 1, l + (R - l)) \in Seq(Int)
        /\ Len(SubSeq(received, l + 1, l + (R - l))) = R - l
        /\ \A i \in 1 .. R - l : SubSeq(received, l + 1, l + (R - l))[i] = received[l + i]
    <3>1. l + (R - l) <= Len(received)
      BY <1>3, <1>7, <1>9
    <3>2. received \in Seq(Int) /\ l \in Nat /\ R - l \in Nat
      BY <1>1, <1>7, <1>9
    <3> DEFINE d == R - l
    <3>3. l + d <= Len(received) /\ d \in Nat
      BY <3>1, <3>2
    <3> HIDE DEF d
    <3>4. /\ SubSeq(received, l + 1, l + d) \in Seq(Int)
          /\ Len(SubSeq(received, l + 1, l + d)) = d
          /\ \A i \in 1 .. d : SubSeq(received, l + 1, l + d)[i] = received[l + i]
      BY <3>2, <3>3, PartOfBytes, Zenon
    <3>5. QED
      BY <3>4 DEF d
  <2>2. l + (R - l) = R
    BY <1>3, <1>7
  <2>3. QED
    BY <2>1, <2>2
<1> HIDE DEF message, rest
<1>12. /\ all \in Seq(Seq(Int)) /\ Len(all) = K + 1
       /\ \A i \in 1 .. K + 1 : all[i] = sent[i]
  <2>1. message \in Seq(Int)
    BY <1>7, <1>10
  <2>2. /\ all \in Seq(Seq(Int)) /\ Len(all) = K + 1
        /\ \A i \in 1 .. K : all[i] = read[i]
        /\ all[K + 1] = message
    BY <2>1, <1>1 DEF K
  <2>3. \A i \in 1 .. K + 1 : all[i] = sent[i]
    <3> TAKE i \in 1 .. K + 1
    <3>1. CASE i = K + 1
      BY <3>1, <2>2, <1>10
    <3>2. CASE i # K + 1
      <4>1. i \in 1 .. K
        BY <3>2, <1>3
      <4>2. QED
        BY <4>1, <2>2, <1>1
    <3>3. QED
      BY <3>1, <3>2
  <2>4. QED
    BY <2>2, <2>3
<1> HIDE DEF all
<1> DEFINE next == ends[Len(all)]
<1>13. next = start + l
  BY <1>7, <1>12
<1>14. Len(all) <= N /\ \A i \in 1 .. Len(all) : all[i] = sent[i]
  <2>1. K + 1 <= N
    BY <1>3, <1>6
  <2>2. Len(all) = K + 1 /\ \A i \in 1 .. K + 1 : all[i] = sent[i]
    BY <1>12
  <2>3. QED
    BY <2>1, <2>2, Zenon
<1> HIDE DEF next
<1>15. next + (R - l) + C = m
  BY <1>1, <1>3, <1>4, <1>7, <1>13
<1>16. \A i \in 1 .. R - l : rest[i] = bytes[next + i]
  <2> TAKE i \in 1 .. R - l
  <2>1. l + i \in 1 .. R /\ start + (l + i) = next + i
    <3>1. l \in Nat /\ R \in Nat /\ start \in Nat /\ i \in 1 .. R - l
      BY <1>3, <1>4, <1>7
    <3>2. QED
      BY <3>1, <1>13
  <2>2. rest[i] = received[l + i] /\ received[l + i] = bytes[start + (l + i)]
    BY <2>1, <1>1, <1>11
  <2>3. QED
    BY <2>1, <2>2
<1>17. \A i \in 1 .. C : coming[i] = bytes[next + (R - l) + i]
  <2> TAKE i \in 1 .. C
  <2>1. next + (R - l) + i = start + R + i
    <3>1. l \in Nat /\ R \in Nat /\ start \in Nat /\ i \in 1 .. C /\ C \in Nat
      BY <1>3, <1>4, <1>7
    <3>2. QED
      BY <3>1, <1>13
  <2>2. QED
    BY <2>1, <1>1
<1>18. StreamAt(sent, all, rest, coming, short, bytes, ends, m)
  <2>1. Len(rest) = R - l /\ Len(coming) = C /\ Len(sent) = N
    BY <1>11 DEF C, N
  <2>2. QED
    BY <2>1, <1>1, <1>11, <1>12, <1>14, <1>15, <1>16, <1>17, Zenon DEF StreamAt, next
<1>19. Stream(sent, all, rest, coming, short)
  BY <1>18 DEF Stream
<1>20. received[1] = Code.Z <=> Len(all) = Len(sent)
  BY <1>7, <1>8, <1>12 DEF N
<1>21. /\ message = SubSeq(received, 1, 1 + received[2])
       /\ rest = SubSeq(received, 2 + received[2], Len(received))
  BY <1>9 DEF message, rest
<1>22. QED
  BY <1>19, <1>20, <1>21, Zenon DEF all

\* When all is read nothing is left over.
LEMMA StreamEnd ==
    ASSUME NEW sent, NEW read, NEW received, NEW coming, NEW short,
           Stream(sent, read, received, coming, short), Len(read) = Len(sent)
    PROVE  read = sent /\ received = << >> /\ coming = << >> /\ ~short
<1>0. PICK bytes, ends : \E m \in Nat :
         StreamAt(sent, read, received, coming, short, bytes, ends, m)
  BY DEF Stream
<1>1. PICK m \in Nat : StreamAt(sent, read, received, coming, short, bytes, ends, m)
  BY <1>0
<1>2. /\ Framed(sent, bytes, ends)
      /\ read \in Seq(Seq(Int))
      /\ \A i \in 1 .. Len(read) : read[i] = sent[i]
      /\ received \in Seq(Int) /\ coming \in Seq(Int)
      /\ m <= Len(bytes) /\ (short <=> m < Len(bytes))
      /\ ends[Len(read)] + Len(received) + Len(coming) = m
  BY <1>1 DEF StreamAt
<1>3. sent \in Seq(Seq(Int)) /\ bytes \in Seq(Int) /\ ends[Len(sent)] = Len(bytes)
  BY <1>2 DEF Framed
<1>4. read = sent
  BY <1>2, <1>3, SeqEqual
<1>5. Len(received) \in Nat /\ Len(coming) \in Nat /\ Len(bytes) \in Nat
  BY <1>2, <1>3
<1>6. ends[Len(read)] = Len(bytes)
  BY <1>3
<1>7. Len(received) = 0 /\ Len(coming) = 0 /\ ~(m < Len(bytes))
  BY <1>2, <1>5, <1>6
<1>8. QED
  BY <1>2, <1>4, <1>7, EmptySeq

\* What the client has read is what was sent, as far as it has read.
LEMMA StreamPrefix ==
    ASSUME NEW sent, NEW read, NEW received, NEW coming, NEW short,
           Stream(sent, read, received, coming, short)
    PROVE  /\ sent \in Seq(Seq(Int)) /\ read \in Seq(Seq(Int))
           /\ received \in Seq(Int) /\ coming \in Seq(Int)
           /\ Len(read) <= Len(sent)
           /\ \A i \in 1 .. Len(read) : read[i] = sent[i]
BY DEF Stream, StreamAt, Framed

-----------------------------------------------------------------------------
(* Messages with columns.                                                  *)

\* A message that says how many columns it has, and what comes then.
IsTable(table, count, flat) ==
    /\ table \in Seq(Int) /\ Len(table) = 7 + Len(flat)
    /\ table[6] = count
    /\ \A i \in 1 .. Len(flat) : table[7 + i] = flat[i]

\* The count stands in the sixth byte.
LEMMA TableCount ==
    ASSUME NEW msg, NEW code \in Int, NEW count \in Nat, NEW flat \in Seq(Int),
           Appends(msg, code, Int16(count) \o flat)
    PROVE  IsTable(Encode(<< >>, msg), count, flat)
<1> DEFINE rest == Int16(count) \o flat
           table == Encode(<< >>, msg)
           F == Len(flat)
<1>0. F \in Nat
  OBVIOUS
<1>1. Int16(count) \in Seq(Int) /\ Len(Int16(count)) = 2 /\ Int16(count)[1] = count
  BY Int16Type
<1>2. /\ rest \in Seq(Int) /\ Len(rest) = 2 + F
      /\ rest[1] = count
      /\ \A i \in 1 .. F : rest[2 + i] = flat[i]
  <2> DEFINE two == Int16(count)
  <2>1. two \in Seq(Int) /\ Len(two) = 2 /\ two[1] = count /\ rest = two \o flat
    BY <1>1
  <2> HIDE DEF two, rest
  <2> DEFINE j == two \o flat
  <2>2. /\ j \in Seq(Int) /\ Len(j) = Len(two) + Len(flat)
        /\ \A i \in 1 .. Len(two) : j[i] = two[i]
        /\ \A i \in 1 .. Len(flat) : j[Len(two) + i] = flat[i]
    BY <2>1, ConcatBytes, Zenon
  <2>3. rest = j
    BY <2>1
  <2> HIDE DEF j
  <2>4. QED
    BY <2>1, <2>2, <2>3
<1>3. Encode(<< >>, msg) = << >> \o Body(code, rest)
  <2>1. << >> \in Seq(Int)
    OBVIOUS
  <2>2. QED
    BY <2>1, Zenon DEF Appends
<1>4. /\ Body(code, rest) \in Seq(Int)
      /\ Len(Body(code, rest)) = 5 + Len(rest)
      /\ \A i \in 6 .. 5 + Len(rest) : Body(code, rest)[i] = rest[i - 5]
  <2> HIDE DEF rest
  <2> QED
    BY <1>2, BodyType
<1>5. table = Body(code, rest)
  BY <1>3, <1>4, EmptyLeft
<1> HIDE DEF rest, table, F
<1>6. /\ table \in Seq(Int) /\ Len(table) = 5 + (2 + F)
      /\ \A i \in 6 .. 5 + (2 + F) : table[i] = rest[i - 5]
  BY <1>2, <1>4, <1>5
<1>7. table[6] = count
  <2>1. 6 \in 6 .. 5 + (2 + F) /\ 6 - 5 = 1
    BY <1>0
  <2>2. QED
    BY <2>1, <1>2, <1>6
<1>8. \A i \in 1 .. F : table[7 + i] = flat[i]
  <2> TAKE i \in 1 .. F
  <2>1. 7 + i \in 6 .. 5 + (2 + F) /\ (7 + i) - 5 = 2 + i
    BY <1>0
  <2>2. QED
    BY <2>1, <1>2, <1>6
<1>9. Len(table) = 7 + F
  BY <1>0, <1>6
<1>10. QED
  BY <1>6, <1>7, <1>8, <1>9 DEF table, F, IsTable

\* A RowDescription says how many columns the batch has.
LEMMA FieldsCount ==
    ASSUME NEW msg, msg.kind = "fields", msg.names \in Seq(Nat)
    PROVE  Encode(<< >>, msg)[6] = Len(msg.names)
<1> DEFINE parts == [i \in DOMAIN msg.names |-> Field(msg.names[i])]
<1>1. Appends(msg, Code.T, Int16(Len(msg.names)) \o FlattenSeq(parts))
  BY FieldsAppends
<1>2. parts \in Seq(Seq(Int))
  <2> DEFINE N == Len(msg.names)
  <2>1. DOMAIN msg.names = 1 .. N /\ N \in Nat
        /\ \A i \in DOMAIN msg.names : msg.names[i] \in Nat
    OBVIOUS
  <2>2. \A i \in DOMAIN msg.names : Field(msg.names[i]) \in Seq(Int)
    BY <2>1, FieldType
  <2>3. parts \in [1 .. N -> Seq(Int)]
    BY <2>1, <2>2
  <2> HIDE DEF parts, N
  <2>4. QED
    BY <2>1, <2>3
<1> HIDE DEF parts
<1>3. FlattenSeq(parts) \in Seq(Int) /\ Code.T \in Int /\ Len(msg.names) \in Nat
  BY <1>2, FlattenType DEF Code
<1>4. QED
  <2>1. IsTable(Encode(<< >>, msg), Len(msg.names), FlattenSeq(parts))
    BY <1>1, <1>3, TableCount
  <2>2. QED
    BY <2>1, Zenon DEF IsTable

\* The cells fill a row to its last byte.
LEMMA RowFilled ==
    ASSUME NEW msg, msg.kind = "row", msg.cells \in Seq(Nat)
    PROVE  LET row == Encode(<< >>, msg)
           IN  /\ row[6] = Len(msg.cells)
               /\ CellStart(row)[row[6] + 1] = Len(row) + 1
<1> DEFINE N == Len(msg.cells)
           parts == [i \in DOMAIN msg.cells |-> Cell(msg.cells[i])]
           row == Encode(<< >>, msg)
<1>0. N \in Nat /\ DOMAIN msg.cells = 1 .. N /\ \A i \in 1 .. N : msg.cells[i] \in Nat
  OBVIOUS
<1>1. Appends(msg, Code.D, Int16(N) \o FlattenSeq(parts))
  BY RowAppends
<1>2. \A i \in 1 .. N : /\ parts[i] \in Seq(Int) /\ Len(parts[i]) = 4 + msg.cells[i]
                        /\ parts[i][1] = msg.cells[i]
  <2> TAKE i \in 1 .. N
  <2>1. parts[i] = Cell(msg.cells[i])
    BY <1>0
  <2>2. QED
    BY <2>1, <1>0, CellType
<1>3. parts \in Seq(Seq(Int)) /\ Len(parts) = N
  <2>1. parts \in [1 .. N -> Seq(Int)]
    BY <1>0, <1>2
  <2> HIDE DEF parts, N
  <2>2. QED
    BY <2>1, <1>0
<1> HIDE DEF parts
<1>4. PICK f \in [0 .. Len(parts) -> Seq(Int)] :
         /\ f[0] = << >>
         /\ \A k \in 1 .. Len(parts) : f[k] = f[k - 1] \o parts[k]
  BY <1>3, JoinExists
<1>5. FlattenSeq(parts) = f[N]
  BY <1>3, <1>4, FlattenJoins
<1> HIDE DEF N
<1>6. Joined(parts, f, N)
  <2>1. f \in [0 .. N -> Seq(Int)]
    BY <1>3
  <2>2. \A k \in 1 .. N : parts[k] \in Seq(Int)
    BY <1>2
  <2>3. \A k \in 1 .. N : f[k] = f[k - 1] \o parts[k]
    BY <1>3, <1>4
  <2>4. QED
    BY <2>1, <2>2, <2>3, <1>0, <1>4 DEF Joined
<1>7. Placed(parts, f, N)
  BY <1>6, JoinPlaces
<1>8. /\ \A k \in 1 .. N : Len(f[k]) = Len(f[k - 1]) + Len(parts[k])
      /\ \A k \in 0 .. N : Len(f[k]) <= Len(f[N])
      /\ \A k \in 1 .. N : \A i \in 1 .. Len(parts[k]) :
            f[N][Len(f[k - 1]) + i] = parts[k][i]
  BY <1>7, Zenon DEF Placed
<1> DEFINE L == [k \in 0 .. N |-> Len(f[k])]
<1>9. /\ L \in [0 .. N -> Nat] /\ L[0] = 0 /\ L[N] = Len(f[N])
      /\ \A k \in 0 .. N : L[k] = Len(f[k])
  <2>1. \A k \in 0 .. N : f[k] \in Seq(Int)
    BY <1>6 DEF Joined
  <2>2. \A k \in 0 .. N : Len(f[k]) \in Nat
    BY <2>1, LenType
  <2>3. 0 \in 0 .. N /\ N \in 0 .. N /\ Len(<< >>) = 0
    BY <1>0
  <2>4. QED
    BY <2>2, <2>3, <1>4
<1> HIDE DEF L
<1>10. \A k \in 1 .. N :
          /\ L[k] = L[k - 1] + 4 + msg.cells[k]
          /\ L[k] <= L[N]
          /\ f[N][L[k - 1] + 1] = msg.cells[k]
  <2> TAKE k \in 1 .. N
  <2>0. k \in 0 .. N /\ k - 1 \in 0 .. N
    BY <1>0
  <2>1. Len(f[k]) = Len(f[k - 1]) + Len(parts[k]) /\ Len(f[k]) <= Len(f[N])
    BY <2>0, <1>8
  <2>2. Len(parts[k]) = 4 + msg.cells[k] /\ parts[k][1] = msg.cells[k] /\ msg.cells[k] \in Nat
    BY <1>0, <1>2
  <2>3. 1 \in 1 .. Len(parts[k])
    BY <2>2
  <2>4. f[N][Len(f[k - 1]) + 1] = parts[k][1]
    BY <2>3, <1>8
  <2>5. L[k] = Len(f[k]) /\ L[k - 1] = Len(f[k - 1]) /\ L[k] \in Nat /\ L[k - 1] \in Nat
    BY <2>0, <1>9
  <2>6. L[k] = L[k - 1] + (4 + msg.cells[k])
    BY <2>1, <2>2, <2>5
  <2>8. f[N][L[k - 1] + 1] = msg.cells[k] /\ L[k] <= L[N]
    BY <2>1, <2>2, <2>4, <2>5, <1>9
  <2>9. L[k] = L[k - 1] + 4 + msg.cells[k]
    <3> DEFINE a == L[k - 1]
               b == L[k]
               c == msg.cells[k]
    <3>1. a \in Nat /\ c \in Nat /\ b = a + (4 + c)
      BY <2>2, <2>5, <2>6
    <3> HIDE DEF a, b, c
    <3>2. b = a + 4 + c
      BY <3>1
    <3>3. QED
      BY <3>2 DEF a, b, c
  <2>7. QED
    BY <2>8, <2>9
<1>11. /\ row \in Seq(Int) /\ Len(row) = 7 + L[N] /\ row[6] = N
       /\ \A i \in 1 .. L[N] : row[7 + i] = f[N][i]
  <2>1. f[N] \in Seq(Int) /\ Code.D \in Int
    BY <1>0, <1>6 DEF Joined, Code
  <2>2. Appends(msg, Code.D, Int16(N) \o f[N])
    BY <1>1, <1>5
  <2>3. /\ row \in Seq(Int) /\ Len(row) = 7 + Len(f[N]) /\ row[6] = N
        /\ \A i \in 1 .. Len(f[N]) : row[7 + i] = f[N][i]
    <3>1. N \in Nat
      BY <1>0
    <3>2. IsTable(row, N, f[N])
      BY <2>1, <2>2, <3>1, TableCount
    <3> QED
      BY <3>2, Zenon DEF IsTable
  <2>4. QED
    BY <2>3, <1>9
<1> HIDE DEF row
<1>12. DOMAIN row = 1 .. 7 + L[N] /\ L[N] \in Nat
  <2>1. N \in 0 .. N
    BY <1>0
  <2>2. L[N] \in Nat
    BY <2>1, <1>9, Zenon
  <2>3. row \in Seq(Int) /\ Len(row) = 7 + L[N]
    BY <1>11
  <2>4. QED
    BY <2>2, <2>3
<1> DEFINE Eq(g) == g = [k \in 1 .. N + 1 |->
               IF k = 1 THEN 8
               ELSE IF g[k - 1] \in DOMAIN row THEN g[k - 1] + 4 + row[g[k - 1]]
               ELSE 0]
           h == [k \in 1 .. N + 1 |-> 8 + L[k - 1]]
           at == CHOOSE g : Eq(g)
<1>13. \A k \in 2 .. N + 1 :
          /\ 8 + L[k - 2] \in DOMAIN row
          /\ 8 + L[k - 1] = (8 + L[k - 2]) + 4 + row[8 + L[k - 2]]
  <2> TAKE k \in 2 .. N + 1
  <2> DEFINE j == k - 1
  <2>1. j \in 1 .. N /\ j - 1 = k - 2 /\ j \in 0 .. N /\ j - 1 \in 0 .. N
    BY <1>0
  <2>2. k - 1 = j
    OBVIOUS
  <2> HIDE DEF j
  <2> DEFINE a == L[j - 1]
             c == msg.cells[j]
  <2>3. L[j] = a + 4 + c /\ L[j] <= L[N] /\ f[N][a + 1] = c
        /\ a \in Nat /\ c \in Nat
    BY <2>1, <1>0, <1>9, <1>10
  <2> HIDE DEF a, c
  <2>4. a + 1 \in 1 .. L[N] /\ 7 + (a + 1) = 8 + a /\ 8 + a \in 1 .. 7 + L[N]
    BY <2>3, <1>12
  <2>5. row[8 + a] = c
    BY <2>3, <2>4, <1>11
  <2>6. 8 + L[j] = (8 + a) + 4 + row[8 + a]
    BY <2>3, <2>5
  <2>7. QED
    BY <2>1, <2>2, <2>4, <2>6, <1>12 DEF a
<1>14. \A k \in 1 .. N + 1 : h[k] = IF k = 1 THEN 8
               ELSE IF h[k - 1] \in DOMAIN row THEN h[k - 1] + 4 + row[h[k - 1]]
               ELSE 0
  <2> TAKE k \in 1 .. N + 1
  <2>1. h[k] = 8 + L[k - 1]
    OBVIOUS
  <2>2. CASE k = 1
    <3>1. k - 1 = 0
      BY <2>2
    <3>2. h[k] = 8
      BY <2>1, <3>1, <1>9
    <3> HIDE DEF h
    <3>3. QED
      BY <2>2, <3>2
  <2>3. CASE k # 1
    <3>1. k \in 2 .. N + 1 /\ k - 1 \in 1 .. N + 1 /\ (k - 1) - 1 = k - 2
      BY <2>3, <1>0
    <3>2. h[k - 1] = 8 + L[k - 2]
      BY <3>1
    <3> HIDE DEF h
    <3>3. QED
      BY <2>1, <2>3, <3>1, <3>2, <1>13
  <2>4. QED
    BY <2>2, <2>3
<1>15. Eq(h)
  <2>1. h = [k \in 1 .. N + 1 |-> h[k]]
    OBVIOUS
  <2> HIDE DEF h
  <2>2. QED
    BY <1>14, <2>1, Zenon
<1>16. Eq(at)
  <2> HIDE DEF Eq, h
  <2> QED
    BY <1>15
<1>17. \A k \in 1 .. N + 1 : at[k] = IF k = 1 THEN 8
               ELSE IF at[k - 1] \in DOMAIN row THEN at[k - 1] + 4 + row[at[k - 1]]
               ELSE 0
  <2> HIDE DEF at
  <2> QED
    BY <1>16
<1>18. CellStart(row) = at
  <2> DEFINE c == row[6]
  <2>1. c = N
    BY <1>11
  <2>2. CellStart(row) = CHOOSE g : g = [k \in 1 .. c + 1 |->
               IF k = 1 THEN 8
               ELSE IF g[k - 1] \in DOMAIN row THEN g[k - 1] + 4 + row[g[k - 1]]
               ELSE 0]
    BY Zenon DEF CellStart
  <2> HIDE DEF c
  <2>3. QED
    BY <2>1, <2>2, Zenon
<1> HIDE DEF at
<1>19. \A k \in 1 .. N + 1 : at[k] = h[k]
  <2> DEFINE Bad == {n \in 1 .. N + 1 : at[n] # h[n]}
  <2>1. ASSUME Bad # {} PROVE FALSE
    <3>1. Bad \in SUBSET Nat
      <4> HIDE DEF h
      <4> QED
        BY <1>0
    <3>2. PICK n \in Bad : \A m \in Nat : m < n => m \notin Bad
      <4> HIDE DEF Bad
      <4> QED
        BY <3>1, <2>1, LeastNumber
    <3> HIDE DEF h
    <3>3. n \in 1 .. N + 1 /\ at[n] # h[n]
      BY <3>2
    <3>4. n # 1
      BY <3>3, <1>14, <1>17
    <3>5. n - 1 \in 1 .. N + 1 /\ n - 1 < n /\ n - 1 \in Nat
      BY <3>3, <3>4, <1>0
    <3>6. at[n - 1] = h[n - 1]
      BY <3>5, <3>2
    <3> QED
      BY <3>3, <3>4, <3>6, <1>14, <1>17
  <2>2. QED
    BY <2>1
<1>20. CellStart(row)[N + 1] = Len(row) + 1
  <2>1. N + 1 \in 1 .. N + 1 /\ (N + 1) - 1 = N
    BY <1>0
  <2>2. h[N + 1] = 8 + L[N]
    BY <2>1
  <2> HIDE DEF h
  <2>3. CellStart(row)[N + 1] = h[N + 1]
    BY <2>1, <1>18, <1>19, Zenon
  <2>4. Len(row) = 7 + L[N]
    BY <1>11
  <2>5. (7 + L[N]) + 1 = 8 + L[N]
    BY <1>12
  <2>6. QED
    BY <2>2, <2>3, <2>4, <2>5
<1>21. QED
  BY <1>11, <1>20 DEF N, row

-----------------------------------------------------------------------------
(* The replies of the server.                                              *)

\* The messages of the replies.
Messages ==
    {Kind("auth"), Kind("key"), Kind("ready"), Kind("empty"), Kind("complete")}
    \cup {[kind |-> "param", param |-> param] : param \in Params}
    \cup {[kind |-> "fields", names |-> names] : names \in Seq(Nat)}
    \cup {[kind |-> "row", cells |-> cells] : cells \in Seq(Nat)}
    \cup {[kind |-> "error", text |-> text] : text \in Nat}

\* They are what the encoders are given.
LEMMA MessagesType == \A msg \in Messages : IsMessage(msg)
<1> SUFFICES ASSUME NEW msg \in Messages
             PROVE  IsMessage(msg)
  OBVIOUS
<1>1. CASE msg \in {Kind("auth"), Kind("key"), Kind("ready"), Kind("empty"),
                     Kind("complete")}
  BY <1>1 DEF IsMessage, Kind
<1>2. CASE \E param \in Params : msg = [kind |-> "param", param |-> param]
  <2>1. PICK param \in Params : msg = [kind |-> "param", param |-> param]
    BY <1>2
  <2>2. msg.kind = "param" /\ msg.param = param
    BY <2>1
  <2>3. param.key \in Nat /\ param.value \in Nat
    BY ParamAssumption
  <2>4. QED
    BY <2>2, <2>3 DEF IsMessage
<1>3. CASE \E names \in Seq(Nat) : msg = [kind |-> "fields", names |-> names]
  <2>1. PICK names \in Seq(Nat) : msg = [kind |-> "fields", names |-> names]
    BY <1>3
  <2>2. msg.kind = "fields" /\ msg.names = names
    BY <2>1
  <2>3. QED
    BY <2>2 DEF IsMessage
<1>4. CASE \E cells \in Seq(Nat) : msg = [kind |-> "row", cells |-> cells]
  <2>1. PICK cells \in Seq(Nat) : msg = [kind |-> "row", cells |-> cells]
    BY <1>4
  <2>2. msg.kind = "row" /\ msg.cells = cells
    BY <2>1
  <2>3. QED
    BY <2>2 DEF IsMessage
<1>5. CASE \E text \in Nat : msg = [kind |-> "error", text |-> text]
  BY <1>5 DEF IsMessage
<1>6. QED
  BY <1>1, <1>2, <1>3, <1>4, <1>5 DEF Messages

\* Something that is not the end of a reply, twice, and then the end.
LEMMA ReplyEnds ==
    ASSUME NEW s \in Seq(Messages), NEW last \in Messages, last.kind # "ready",
           \A i \in 1 .. Len(s) : s[i].kind # "ready"
    PROVE  LET messages == s \o <<last, Kind("ready")>>
           IN  /\ IsReply(messages)
               /\ Len(messages) = Len(s) + 2
               /\ \A i \in 1 .. Len(s) : messages[i] = s[i]
               /\ messages[Len(s) + 1] = last
               /\ messages[Len(s) + 2] = Kind("ready")
<1> DEFINE end == <<last, Kind("ready")>>
           N == Len(s)
           messages == s \o end
<1>1. /\ end \in Seq(Messages) /\ Len(end) = 2
      /\ end[1] = last /\ end[2] = Kind("ready")
      /\ N \in Nat /\ Kind("ready").kind = "ready"
  <2>1. Kind("ready") \in Messages
    BY DEF Messages
  <2>2. QED
    BY <2>1 DEF Kind
<1> HIDE DEF end
<1>2. /\ messages \in Seq(Messages) /\ Len(messages) = N + 2
      /\ \A i \in 1 .. N + 2 : messages[i] = IF i <= N THEN s[i] ELSE end[i - N]
  <2>1. /\ messages \in Seq(Messages) /\ Len(messages) = Len(s) + Len(end)
        /\ \A i \in 1 .. Len(s) + Len(end) :
              messages[i] = IF i <= Len(s) THEN s[i] ELSE end[i - Len(s)]
    BY <1>1, ConcatProperties, Zenon
  <2>2. Len(s) = N
    OBVIOUS
  <2> HIDE DEF messages, N
  <2>3. QED
    BY <2>1, <2>2, <1>1
<1> HIDE DEF messages
<1>3. \A i \in 1 .. N : messages[i] = s[i]
  <2> TAKE i \in 1 .. N
  <2>1. i \in 1 .. N + 2 /\ i <= N
    BY <1>1
  <2>2. QED
    BY <2>1, <1>2
<1>4. messages[N + 1] = last /\ messages[N + 2] = Kind("ready")
  <2>1. N + 1 \in 1 .. N + 2 /\ N + 2 \in 1 .. N + 2 /\ ~(N + 1 <= N) /\ ~(N + 2 <= N)
        /\ (N + 1) - N = 1 /\ (N + 2) - N = 2
    BY <1>1
  <2>2. QED
    BY <2>1, <1>1, <1>2
<1>5. \A n \in 1 .. N + 2 : IsMessage(messages[n])
  BY <1>1, <1>2, MessagesType
<1>6. \A n \in 1 .. N + 2 : messages[n].kind = "ready" <=> n = N + 2
  <2> TAKE n \in 1 .. N + 2
  <2>1. CASE n \in 1 .. N
    BY <2>1, <1>1, <1>3
  <2>2. CASE n = N + 1
    BY <2>2, <1>1, <1>4
  <2>3. CASE n = N + 2
    BY <2>3, <1>1, <1>4
  <2>4. QED
    BY <2>1, <2>2, <2>3, <1>1
<1>7. IsReply(messages)
  <2>1. DOMAIN messages = 1 .. N + 2 /\ N + 2 \in Nat \ {0}
    BY <1>1, <1>2
  <2>2. QED
    BY <2>1, <1>2, <1>5, <1>6 DEF IsReply
<1>8. QED
  BY <1>2, <1>3, <1>4, <1>7 DEF messages, end

\* What RowsFitTheirDescription says of the messages read, for those sent.
Fits(sent) ==
    \A n \in 1 .. Len(sent) :
        sent[n][1] = Code.D =>
            /\ sent[1][1] = Code.T
            /\ sent[n][6] = sent[1][6]
            /\ CellStart(sent[n])[sent[n][6] + 1] = Len(sent[n]) + 1

\* A reply that ends where it says, with rows that fit their description.
GoodReply(messages) == IsReply(messages) /\ Fits(Parts(messages))

\* What is meant by a reply, message by message.
LEMMA ReplyParts ==
    ASSUME NEW messages, IsReply(messages)
    PROVE  /\ Parts(messages) \in Seq(Seq(Int)) /\ Len(Parts(messages)) = Len(messages)
           /\ \A n \in 1 .. Len(messages) : Parts(messages)[n] = Encode(<< >>, messages[n])
           /\ \A n \in 1 .. Len(messages) :
                 Parts(messages)[n][1] = Code.D <=> messages[n].kind = "row"
           /\ \A n \in 1 .. Len(messages) :
                 Parts(messages)[n][1] = Code.T <=> messages[n].kind = "fields"
<1> DEFINE N == Len(messages)
<1>1. N \in Nat /\ Len(messages) = N /\ DOMAIN messages = 1 .. N
      /\ \A n \in 1 .. N : IsMessage(messages[n])
  BY DEF IsReply
<1> HIDE DEF N
<1>2. /\ Parts(messages) \in Seq(Seq(Int)) /\ Len(Parts(messages)) = N
      /\ \A n \in 1 .. N : Parts(messages)[n] = Encode(<< >>, messages[n])
  BY <1>1, PartsType
<1>3. \A n \in 1 .. N : /\ Parts(messages)[n][1] = Code.D <=> messages[n].kind = "row"
                        /\ Parts(messages)[n][1] = Code.T <=> messages[n].kind = "fields"
  <2> TAKE n \in 1 .. N
  <2>1. IsMessage(messages[n])
    BY <1>1, Zenon
  <2> DEFINE body == Encode(<< >>, messages[n])
  <2>2. /\ body[1] = Code.D <=> messages[n].kind = "row"
        /\ body[1] = Code.T <=> messages[n].kind = "fields"
    BY <2>1, EncodeType, Zenon
  <2>3. Parts(messages)[n] = body
    BY <1>2, Zenon
  <2> HIDE DEF body
  <2>4. QED
    BY <2>2, <2>3, Zenon
<1>4. Len(messages) = N
  BY <1>1
<1>5. /\ Parts(messages) \in Seq(Seq(Int)) /\ Len(Parts(messages)) = Len(messages)
      /\ \A n \in 1 .. Len(messages) : Parts(messages)[n] = Encode(<< >>, messages[n])
  BY <1>2, <1>4, Zenon
<1>6. \A n \in 1 .. Len(messages) :
          Parts(messages)[n][1] = Code.D <=> messages[n].kind = "row"
  BY <1>3, <1>4, Zenon
<1>7. \A n \in 1 .. Len(messages) :
          Parts(messages)[n][1] = Code.T <=> messages[n].kind = "fields"
  BY <1>3, <1>4, Zenon
<1>8. QED
  BY <1>5, <1>6, <1>7, Zenon

\* A reply that sends no DataRow.
Rowless(messages) ==
    /\ IsReply(messages)
    /\ \A n \in 1 .. Len(messages) : messages[n].kind # "row"

\* Without a row nothing has to fit.
LEMMA GoodWithoutRows ==
    ASSUME NEW messages, Rowless(messages)
    PROVE  GoodReply(messages)
BY ReplyParts DEF GoodReply, Fits, Rowless

\* An error is a good reply.
LEMMA ErrorIsGood ==
    ASSUME NEW text \in Nat
    PROVE  GoodReply(Error(text))
<1> DEFINE error == [kind |-> "error", text |-> text]
<1>1. /\ Error(text) = <<error, Kind("ready")>>
      /\ error.kind = "error" /\ error.text = text /\ Kind("ready").kind = "ready"
  BY DEF Error, Kind
<1> HIDE DEF error
<1>2. /\ Len(Error(text)) = 2 /\ DOMAIN Error(text) = 1 .. 2
      /\ Error(text)[1] = error /\ Error(text)[2] = Kind("ready")
  BY <1>1
<1>3. IsMessage(error) /\ IsMessage(Kind("ready"))
  BY <1>1 DEF IsMessage
<1>4. IsReply(Error(text))
  BY <1>1, <1>2, <1>3 DEF IsReply
<1>5. \A n \in 1 .. Len(Error(text)) : Error(text)[n].kind # "row"
  BY <1>1, <1>2
<1>6. Rowless(Error(text))
  BY <1>4, <1>5, Zenon DEF Rowless
<1>7. QED
  BY <1>6, GoodWithoutRows, Zenon

\* So is the empty result.
LEMMA EmptyResultIsGood == GoodReply(EmptyResult)
<1>1. /\ EmptyResult = <<Kind("empty"), Kind("ready")>>
      /\ Kind("empty").kind = "empty" /\ Kind("ready").kind = "ready"
  BY DEF EmptyResult, Kind
<1>2. /\ Len(EmptyResult) = 2 /\ DOMAIN EmptyResult = 1 .. 2
      /\ EmptyResult[1] = Kind("empty") /\ EmptyResult[2] = Kind("ready")
  BY <1>1
<1>3. IsMessage(Kind("empty")) /\ IsMessage(Kind("ready"))
  BY <1>1 DEF IsMessage
<1>4. IsReply(EmptyResult)
  BY <1>1, <1>2, <1>3 DEF IsReply
<1>5. \A n \in 1 .. Len(EmptyResult) : EmptyResult[n].kind # "row"
  BY <1>1, <1>2
<1>6. Rowless(EmptyResult)
  BY <1>4, <1>5, Zenon DEF Rowless
<1>7. QED
  BY <1>6, GoodWithoutRows, Zenon

\* A result has the names of its columns, then its rows.
LEMMA BatchIsGood ==
    ASSUME NEW batch \in Batches
    PROVE  GoodReply(Batch(batch))
<1> DEFINE fields == [kind |-> "fields", names |-> batch.names]
           rows == [i \in DOMAIN batch.rows |->
                      [kind |-> "row", cells |-> batch.rows[i]]]
           R == Len(batch.rows)
           s == <<fields>> \o rows
           messages == s \o <<Kind("complete"), Kind("ready")>>
<1>1. /\ batch.names \in Seq(Nat) /\ batch.rows \in Seq(Seq(Nat))
      /\ R \in Nat /\ DOMAIN batch.rows = 1 .. R
      /\ \A i \in 1 .. R : batch.rows[i] \in Seq(Nat) /\ Len(batch.rows[i]) = Len(batch.names)
  <2>1. /\ batch.names \in Seq(Nat) /\ batch.rows \in Seq(Seq(Nat))
        /\ \A i \in DOMAIN batch.rows : Len(batch.rows[i]) = Len(batch.names)
    BY BatchAssumption, Zenon
  <2> DEFINE r == batch.rows
  <2>2. r \in Seq(Seq(Nat))
    BY <2>1
  <2>3. /\ Len(r) \in Nat /\ DOMAIN r = 1 .. Len(r)
        /\ \A i \in 1 .. Len(r) : r[i] \in Seq(Nat)
    <3> HIDE DEF r
    <3> QED
      BY <2>2
  <2>4. QED
    BY <2>1, <2>3, Zenon
<1>2. /\ fields \in Messages /\ fields.kind = "fields" /\ fields.names = batch.names
      /\ Kind("complete") \in Messages /\ Kind("complete").kind = "complete"
      /\ Kind("ready").kind = "ready"
  BY <1>1 DEF Messages, Kind
<1>3. /\ rows \in Seq(Messages) /\ Len(rows) = R
      /\ \A i \in 1 .. R : rows[i].kind = "row" /\ rows[i].cells = batch.rows[i]
  <2>1. \A i \in 1 .. R : [kind |-> "row", cells |-> batch.rows[i]] \in Messages
    <3>1. \A cells \in Seq(Nat) : [kind |-> "row", cells |-> cells] \in Messages
      BY Zenon DEF Messages
    <3>2. \A i \in 1 .. R : batch.rows[i] \in Seq(Nat)
      BY <1>1
    <3> HIDE DEF R
    <3>3. QED
      BY <3>1, <3>2, Zenon
  <2>2. rows \in [1 .. R -> Messages]
    BY <1>1, <2>1
  <2>3. \A i \in 1 .. R : rows[i].kind = "row" /\ rows[i].cells = batch.rows[i]
    <3> TAKE i \in 1 .. R
    <3>1. i \in DOMAIN batch.rows
      BY <1>1, Zenon
    <3>2. rows[i] = [kind |-> "row", cells |-> batch.rows[i]]
      BY <3>1, Zenon
    <3> HIDE DEF rows
    <3>3. QED
      BY <3>2
  <2>4. R \in Nat
    BY <1>1, Zenon
  <2> HIDE DEF rows, R
  <2>5. QED
    BY <2>2, <2>3, <2>4
<1> HIDE DEF fields, rows, R
<1>4. /\ s \in Seq(Messages) /\ Len(s) = 1 + R
      /\ s[1] = fields /\ \A i \in 2 .. 1 + R : s[i] = rows[i - 1]
  <2>1. <<fields>> \in Seq(Messages) /\ Len(<<fields>>) = 1 /\ <<fields>>[1] = fields
    BY <1>2
  <2>2. /\ s \in Seq(Messages) /\ Len(s) = 1 + R
        /\ \A i \in 1 .. 1 + R : s[i] = IF i <= 1 THEN <<fields>>[i] ELSE rows[i - 1]
    BY <2>1, <1>3, ConcatProperties
  <2> HIDE DEF s
  <2>3. s[1] = fields
    <3>1. 1 \in 1 .. 1 + R
      BY <1>1
    <3>2. QED
      BY <3>1, <2>1, <2>2
  <2>4. \A i \in 2 .. 1 + R : s[i] = rows[i - 1]
    <3> TAKE i \in 2 .. 1 + R
    <3>1. i \in 1 .. 1 + R /\ ~(i <= 1)
      BY <1>1
    <3>2. QED
      BY <3>1, <2>2
  <2>5. QED
    BY <2>2, <2>3, <2>4
<1> HIDE DEF s
<1>5. \A i \in 2 .. 1 + R : i - 1 \in 1 .. R
  BY <1>1
<1>6. \A i \in 1 .. Len(s) : s[i].kind # "ready"
  <2> TAKE i \in 1 .. Len(s)
  <2>1. i = 1 \/ i \in 2 .. 1 + R
    BY <1>1, <1>4
  <2>2. QED
    BY <2>1, <1>2, <1>3, <1>4, <1>5
<1>7. /\ IsReply(messages)
      /\ Len(messages) = Len(s) + 2
      /\ \A i \in 1 .. Len(s) : messages[i] = s[i]
      /\ messages[Len(s) + 1] = Kind("complete")
      /\ messages[Len(s) + 2] = Kind("ready")
  BY <1>2, <1>4, <1>6, ReplyEnds
<1>8. Batch(batch) = messages
  BY DEF Batch, messages, s, fields, rows
<1> HIDE DEF messages
<1> DEFINE sent == Parts(messages)
<1>9. /\ Len(sent) = Len(messages)
      /\ \A n \in 1 .. Len(messages) : sent[n] = Encode(<< >>, messages[n])
      /\ \A n \in 1 .. Len(messages) : sent[n][1] = Code.D <=> messages[n].kind = "row"
      /\ \A n \in 1 .. Len(messages) : sent[n][1] = Code.T <=> messages[n].kind = "fields"
  BY <1>7, ReplyParts
<1> HIDE DEF sent
<1>10. /\ messages[1] = fields
       /\ \A n \in 1 .. Len(messages) :
             messages[n].kind = "row" =>
                n - 1 \in 1 .. R /\ messages[n].cells = batch.rows[n - 1]
  <2>0. Len(s) = 1 + R /\ Len(messages) = (1 + R) + 2
    BY <1>4, <1>7
  <2>1. messages[1] = fields
    <3>1. 1 \in 1 .. Len(s)
      BY <2>0, <1>1
    <3>2. QED
      BY <3>1, <1>4, <1>7
  <2>2. ASSUME NEW n \in 1 .. Len(messages), messages[n].kind = "row"
        PROVE  n - 1 \in 1 .. R /\ messages[n].cells = batch.rows[n - 1]
    <3>1. n # 1
      BY <2>1, <2>2, <1>2
    <3>2. n # Len(s) + 1 /\ n # Len(s) + 2
      BY <2>2, <1>2, <1>7
    <3>3. n \in 2 .. 1 + R
      BY <3>1, <3>2, <2>0, <1>1
    <3>4. n \in 1 .. Len(s)
      BY <3>3, <2>0, <1>1
    <3>5. messages[n] = rows[n - 1]
      BY <3>3, <3>4, <1>4, <1>7
    <3>6. QED
      BY <3>3, <3>5, <1>3, <1>5
  <2>3. QED
    BY <2>1, <2>2
<1>11. Fits(sent)
  <2> SUFFICES ASSUME NEW n \in 1 .. Len(sent), sent[n][1] = Code.D
               PROVE  /\ sent[1][1] = Code.T
                      /\ sent[n][6] = sent[1][6]
                      /\ CellStart(sent[n])[sent[n][6] + 1] = Len(sent[n]) + 1
    BY DEF Fits
  <2>1. n \in 1 .. Len(messages) /\ messages[n].kind = "row"
    BY <1>9
  <2>2. 1 \in 1 .. Len(messages)
    BY <2>1, <1>4, <1>7, <1>1
  <2>3. sent[1][1] = Code.T
    BY <2>2, <1>2, <1>9, <1>10
  <2>4. sent[1] = Encode(<< >>, fields) /\ sent[n] = Encode(<< >>, messages[n])
    BY <2>1, <2>2, <1>9, <1>10
  <2>5. sent[1][6] = Len(batch.names)
    <3>1. Encode(<< >>, fields)[6] = Len(fields.names)
      BY <1>1, <1>2, FieldsCount
    <3>2. QED
      BY <3>1, <2>4, <1>2
  <2>6. n - 1 \in 1 .. R /\ messages[n].cells = batch.rows[n - 1]
    BY <2>1, <1>10
  <2>7. messages[n].cells \in Seq(Nat) /\ Len(messages[n].cells) = Len(batch.names)
    BY <2>6, <1>1
  <2>8. /\ Encode(<< >>, messages[n])[6] = Len(messages[n].cells)
        /\ CellStart(Encode(<< >>, messages[n]))[Encode(<< >>, messages[n])[6] + 1]
              = Len(Encode(<< >>, messages[n])) + 1
    BY <2>1, <2>7, RowFilled, Zenon
  <2>9. sent[n][6] = sent[1][6]
    BY <2>4, <2>5, <2>7, <2>8, Zenon
  <2>10. CellStart(sent[n])[sent[n][6] + 1] = Len(sent[n]) + 1
    BY <2>4, <2>8, Zenon
  <2>11. QED
    BY <2>3, <2>9, <2>10
<1>12. QED
  BY <1>7, <1>8, <1>11 DEF GoodReply, sent
=============================================================================
