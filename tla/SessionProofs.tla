--------------------------- MODULE SessionProofs ---------------------------
(***************************************************************************)
(* Session: one connection, for every set of queries, every buffer size    *)
(* and every way the bytes are cut.  The invariant SessionInv has one part *)
(* for each phase of a connection.                                         *)
(***************************************************************************)
EXTENDS Session, RepliesProofs

-----------------------------------------------------------------------------
(* The answers of the server are good replies.                             *)

\* Whatever the statement, it is answered with a good reply.
LEMMA AnswersAreGood ==
    ASSUME NEW statement, NEW reply \in RepliesTo(statement)
    PROVE  GoodReply(reply)
<1>1. \/ \E text \in ErrorTexts : reply = Error(text)
      \/ reply = EmptyResult
      \/ \E batch \in Batches : reply = Batch(batch)
  BY Zenon DEF RepliesTo
<1>2. CASE \E text \in ErrorTexts : reply = Error(text)
  <2>1. PICK text \in ErrorTexts : reply = Error(text)
    BY <1>2
  <2>2. text \in Nat
    BY LengthAssumption
  <2>3. QED
    BY <2>1, <2>2, ErrorIsGood
<1>3. CASE \E batch \in Batches : reply = Batch(batch)
  BY <1>3, BatchIsGood
<1>4. QED
  BY <1>1, <1>2, <1>3, EmptyResultIsGood

\* So is the end of the start-up, in whatever order the parameters are sent.
LEMMA ReadyIsGood ==
    ASSUME NEW order \in SetToSeqs(Params)
    PROVE  GoodReply(<<Kind("auth")>>
                \o [i \in DOMAIN order |->
                      [kind |-> "param", param |-> order[i]]]
                \o <<Kind("key"), Kind("ready")>>)
<1> DEFINE C == Cardinality(Params)
           params == [i \in DOMAIN order |-> [kind |-> "param", param |-> order[i]]]
           s == <<Kind("auth")>> \o params
           messages == s \o <<Kind("key"), Kind("ready")>>
<1>1. C \in Nat
  BY ParamAssumption, FS_CardinalityType, Zenon
<1>2. order \in [1 .. C -> Params]
  BY DEF SetToSeqs
<1> HIDE DEF C
<1>3. /\ params \in Seq(Messages) /\ Len(params) = C
      /\ \A i \in 1 .. C : params[i].kind = "param"
  <2>1. DOMAIN order = 1 .. C /\ \A i \in 1 .. C : order[i] \in Params
    BY <1>2
  <2>2. \A i \in 1 .. C : [kind |-> "param", param |-> order[i]] \in Messages
    BY <2>1 DEF Messages
  <2>3. params \in [1 .. C -> Messages]
    BY <2>1, <2>2
  <2>4. \A i \in 1 .. C : params[i].kind = "param"
    BY <2>1
  <2> HIDE DEF params
  <2>5. QED
    BY <1>1, <2>3, <2>4
<1>4. /\ Kind("auth") \in Messages /\ Kind("auth").kind = "auth"
      /\ Kind("key") \in Messages /\ Kind("key").kind = "key"
      /\ Kind("ready").kind = "ready"
  BY DEF Messages, Kind
<1> HIDE DEF params
<1>5. /\ s \in Seq(Messages) /\ Len(s) = 1 + C
      /\ \A i \in 1 .. 1 + C : s[i].kind = IF i <= 1 THEN "auth" ELSE "param"
  <2>1. <<Kind("auth")>> \in Seq(Messages) /\ Len(<<Kind("auth")>>) = 1
        /\ <<Kind("auth")>>[1] = Kind("auth")
    BY <1>4
  <2>2. /\ s \in Seq(Messages) /\ Len(s) = 1 + C
        /\ \A i \in 1 .. 1 + C : s[i] = IF i <= 1 THEN <<Kind("auth")>>[i] ELSE params[i - 1]
    BY <2>1, <1>3, ConcatProperties
  <2> HIDE DEF s
  <2>3. \A i \in 1 .. 1 + C : s[i].kind = IF i <= 1 THEN "auth" ELSE "param"
    <3> TAKE i \in 1 .. 1 + C
    <3>1. CASE i <= 1
      <4>1. i = 1
        BY <3>1
      <4>2. QED
        BY <4>1, <3>1, <2>1, <2>2, <1>4
    <3>2. CASE ~(i <= 1)
      <4>1. i - 1 \in 1 .. C
        BY <3>2, <1>1
      <4>2. QED
        BY <4>1, <3>2, <2>2, <1>3
    <3>3. QED
      BY <3>1, <3>2
  <2>4. QED
    BY <2>2, <2>3
<1> HIDE DEF s
<1>6. \A i \in 1 .. Len(s) : s[i].kind # "ready" /\ s[i].kind # "row"
  BY <1>5
<1>r. IsReply(messages)
  BY <1>4, <1>5, <1>6, ReplyEnds
<1>7. /\ Len(messages) = Len(s) + 2
      /\ \A i \in 1 .. Len(s) : messages[i] = s[i]
      /\ messages[Len(s) + 1] = Kind("key")
      /\ messages[Len(s) + 2] = Kind("ready")
  BY <1>4, <1>5, <1>6, ReplyEnds
<1> HIDE DEF messages
<1>8. \A n \in 1 .. Len(messages) : messages[n].kind # "row"
  <2> TAKE n \in 1 .. Len(messages)
  <2>1. n \in 1 .. Len(s) \/ n = Len(s) + 1 \/ n = Len(s) + 2
    <3>1. Len(s) \in Nat
      BY <1>1, <1>5
    <3>2. QED
      BY <3>1, <1>7
  <2>2. QED
    BY <2>1, <1>4, <1>6, <1>7
<1>9. Rowless(messages)
  BY <1>r, <1>8, Zenon DEF Rowless
<1>10. GoodReply(messages)
  BY <1>9, GoodWithoutRows, Zenon
<1>11. QED
  BY <1>10 DEF messages, s, params

-----------------------------------------------------------------------------
(* What a read takes from the socket, and what a client sends is cut into. *)

\* `first' and then `rest' are what was left of `all'.
SplitAt(all, first, rest, r) ==
    /\ all \in Seq(Int) /\ first \in Seq(Int) /\ rest \in Seq(Int)
    /\ r \in Nat /\ Len(first) = r /\ Len(all) = r + Len(rest)
    /\ \A i \in 1 .. r : first[i] = all[i]
    /\ \A i \in 1 .. Len(rest) : rest[i] = all[r + i]

\* The first k bytes and those after them.
LEMMA TakeBytes ==
    ASSUME NEW s \in Seq(Int), NEW k \in Nat, NEW r \in Nat,
           r = IF k < Len(s) THEN k ELSE Len(s)
    PROVE  SplitAt(s, Take(s, k), SubSeq(s, k + 1, Len(s)), r)
<1> DEFINE L == Len(s)
           rest == SubSeq(s, k + 1, Len(s))
<1>1. L \in Nat /\ r <= L /\ L - r \in Nat
  OBVIOUS
<1>2. Take(s, k) = SubSeq(s, 1, r)
  BY Zenon DEF Take
<1>3. /\ SubSeq(s, 1, r) \in Seq(Int) /\ Len(SubSeq(s, 1, r)) = r
      /\ \A i \in 1 .. r : SubSeq(s, 1, r)[i] = s[i]
  <2>1. 0 + 1 = 1 /\ 0 + r = r /\ 0 + r <= Len(s) /\ \A i \in 1 .. r : 0 + i = i
    BY <1>1
  <2>2. /\ SubSeq(s, 0 + 1, 0 + r) \in Seq(Int)
        /\ Len(SubSeq(s, 0 + 1, 0 + r)) = r
        /\ \A i \in 1 .. r : SubSeq(s, 0 + 1, 0 + r)[i] = s[0 + i]
    BY <2>1, PartOfBytes
  <2>3. QED
    BY <2>1, <2>2
<1>4. /\ rest \in Seq(Int) /\ Len(rest) = L - r
      /\ \A i \in 1 .. L - r : rest[i] = s[r + i]
  <2>1. CASE k < L
    <3> DEFINE b == L - k
    <3>1. b \in Nat /\ k + b = Len(s) /\ k + b <= Len(s) /\ r = k
      BY <2>1
    <3> HIDE DEF b
    <3>2. /\ SubSeq(s, k + 1, k + b) \in Seq(Int)
          /\ Len(SubSeq(s, k + 1, k + b)) = b
          /\ \A i \in 1 .. b : SubSeq(s, k + 1, k + b)[i] = s[k + i]
      BY <3>1, PartOfBytes
    <3>3. SubSeq(s, k + 1, k + b) = rest
      BY <3>1
    <3> HIDE DEF rest
    <3>4. QED
      BY <3>1, <3>2, <3>3 DEF b
  <2>2. CASE ~(k < L)
    <3>1. L < k + 1 /\ r = L /\ k + 1 \in Int /\ L \in Int
      BY <2>2
    <3>2. rest = << >>
      BY <3>1, SubSeqEmpty
    <3>3. L - r = 0 /\ Len(<< >>) = 0 /\ << >> \in Seq(Int)
      BY <3>1
    <3> HIDE DEF rest, L
    <3>4. QED
      BY <3>2, <3>3
  <2>3. QED
    BY <2>1, <2>2
<1> HIDE DEF rest
<1>5. Len(s) = r + Len(rest) /\ L - r = Len(rest)
  BY <1>1, <1>4
<1>6. QED
  BY <1>2, <1>3, <1>4, <1>5 DEF SplitAt, rest

\* The first k bytes are taken out of the receive buffer, and more is on its way.
LEMMA ReceiveBytes ==
    ASSUME NEW s \in Seq(Int), NEW t \in Seq(Int), NEW k \in Nat, NEW r \in Nat,
           r = IF k < Len(s) THEN k ELSE Len(s)
    PROVE  /\ SubSeq(s, k + 1, Len(s)) \in Seq(Int)
           /\ SplitAt(s \o t, Take(s, k), SubSeq(s, k + 1, Len(s)) \o t, r)
<1> DEFINE first == Take(s, k)
           rest == SubSeq(s, k + 1, Len(s))
           all == s \o t
           left == rest \o t
<1>1. SplitAt(s, first, rest, r)
  BY TakeBytes
<1> HIDE DEF first, rest
<1>2. /\ first \in Seq(Int) /\ rest \in Seq(Int)
      /\ Len(first) = r /\ Len(s) = r + Len(rest)
      /\ \A i \in 1 .. r : first[i] = s[i]
      /\ \A i \in 1 .. Len(rest) : rest[i] = s[r + i]
  BY <1>1 DEF SplitAt
<1>3. /\ all \in Seq(Int) /\ Len(all) = Len(s) + Len(t)
      /\ \A i \in 1 .. Len(s) : all[i] = s[i]
      /\ \A i \in 1 .. Len(t) : all[Len(s) + i] = t[i]
  BY ConcatBytes, Zenon
<1>4. /\ left \in Seq(Int) /\ Len(left) = Len(rest) + Len(t)
      /\ \A i \in 1 .. Len(rest) : left[i] = rest[i]
      /\ \A i \in 1 .. Len(t) : left[Len(rest) + i] = t[i]
  BY <1>2, ConcatBytes, Zenon
<1> HIDE DEF all, left
<1>5. Len(s) \in Nat /\ Len(t) \in Nat /\ Len(rest) \in Nat
  BY <1>2, LenType
<1>6. \A i \in 1 .. r : first[i] = all[i]
  <2> TAKE i \in 1 .. r
  <2>1. i \in 1 .. Len(s)
    BY <1>2, <1>5
  <2>2. QED
    BY <2>1, <1>2, <1>3
<1>7. \A i \in 1 .. Len(left) : left[i] = all[r + i]
  <2> TAKE i \in 1 .. Len(left)
  <2>1. CASE i <= Len(rest)
    <3>1. i \in 1 .. Len(rest) /\ r + i \in 1 .. Len(s)
      BY <2>1, <1>2, <1>5
    <3>2. QED
      BY <3>1, <1>2, <1>3, <1>4
  <2>2. CASE ~(i <= Len(rest))
    <3> DEFINE j == i - Len(rest)
    <3>1. j \in 1 .. Len(t) /\ Len(rest) + j = i /\ Len(s) + j = r + i
      <4> DEFINE a == Len(s)
                 b == Len(t)
                 c == Len(rest)
                 d == Len(left)
      <4>1. /\ a \in Nat /\ b \in Nat /\ c \in Nat /\ r \in Nat
            /\ a = r + c /\ d = c + b /\ i \in 1 .. d /\ ~(i <= c) /\ j = i - c
        BY <2>2, <1>2, <1>4, <1>5
      <4> HIDE DEF a, b, c, d, j
      <4>2. j \in 1 .. b /\ c + j = i /\ a + j = r + i
        BY <4>1
      <4>3. QED
        BY <4>2 DEF a, b, c
    <3> HIDE DEF j
    <3>2. QED
      BY <3>1, <1>3, <1>4
  <2>3. QED
    BY <2>1, <2>2
<1>8. Len(all) = r + Len(left)
  <2> DEFINE a == Len(s)
             b == Len(t)
             c == Len(rest)
  <2>1. a \in Nat /\ b \in Nat /\ c \in Nat /\ a = r + c
        /\ Len(all) = a + b /\ Len(left) = c + b
    BY <1>2, <1>3, <1>4, <1>5
  <2> HIDE DEF a, b, c
  <2>2. a + b = r + (c + b)
    <3>1. b \in Nat /\ c \in Nat
      BY <2>1, Zenon
    <3>2. \A x, y, z \in Nat : (x + y) + z = x + (y + z)
      OBVIOUS
    <3>3. (r + c) + b = r + (c + b)
      BY <3>1, <3>2, Zenon
    <3>4. QED
      BY <2>1, <3>3, Zenon
  <2>3. QED
    BY <2>1, <2>2
<1>9. SplitAt(all, first, left, r)
  BY <1>2, <1>3, <1>4, <1>6, <1>7, <1>8 DEF SplitAt
<1>10. QED
  BY <1>2, <1>9 DEF all, left, first, rest

\* Bytes that were on their way stand in the receive buffer now.
LEMMA DeliverBytes ==
    ASSUME NEW s \in Seq(Int), NEW t \in Seq(Int), NEW n \in 1 .. Len(t)
    PROVE  /\ s \o SubSeq(t, 1, n) \in Seq(Int) /\ s \o SubSeq(t, 1, n) # << >>
           /\ SubSeq(t, n + 1, Len(t)) \in Seq(Int)
           /\ (s \o SubSeq(t, 1, n)) \o SubSeq(t, n + 1, Len(t)) = s \o t
<1> DEFINE u == SubSeq(t, 1, n)
           v == SubSeq(t, n + 1, Len(t))
<1>1. n \in Nat /\ Len(t) \in Nat /\ n <= Len(t) /\ n >= 1
  BY LenType
<1>2. SplitAt(t, Take(t, n), v, n)
  <2>1. n = IF n < Len(t) THEN n ELSE Len(t)
    BY <1>1
  <2>2. QED
    BY <2>1, <1>1, TakeBytes
<1>3. Take(t, n) = u
  <2>1. n = IF n < Len(t) THEN n ELSE Len(t)
    BY <1>1
  <2>2. QED
    BY <2>1, Zenon DEF Take
<1> HIDE DEF u, v
<1>4. /\ u \in Seq(Int) /\ v \in Seq(Int) /\ Len(u) = n /\ Len(t) = n + Len(v)
      /\ \A i \in 1 .. n : u[i] = t[i]
      /\ \A i \in 1 .. Len(v) : v[i] = t[n + i]
  BY <1>2, <1>3 DEF SplitAt
<1> DEFINE w == u \o v
<1>5. /\ w \in Seq(Int) /\ Len(w) = Len(u) + Len(v)
      /\ \A i \in 1 .. Len(u) : w[i] = u[i]
      /\ \A i \in 1 .. Len(v) : w[Len(u) + i] = v[i]
  BY <1>4, ConcatBytes, Zenon
<1> HIDE DEF w
<1>6. w = t
  <2>1. Len(w) = Len(t) /\ Len(v) \in Nat
    BY <1>4, <1>5, LenType
  <2>2. \A i \in 1 .. Len(t) : w[i] = t[i]
    <3> TAKE i \in 1 .. Len(t)
    <3>1. CASE i <= n
      <4>1. i \in 1 .. n
        BY <3>1, <1>1
      <4>2. QED
        BY <4>1, <1>4, <1>5
    <3>2. CASE ~(i <= n)
      <4> DEFINE j == i - n
      <4>1. j \in 1 .. Len(v) /\ n + j = i
        BY <3>2, <1>1, <1>4, <2>1
      <4> HIDE DEF j
      <4>2. QED
        BY <4>1, <1>4, <1>5
    <3>3. QED
      BY <3>1, <3>2
  <2>3. QED
    BY <2>1, <2>2, <1>5, SeqEqual
<1>7. (s \o u) \o v = s \o t
  <2>1. u \in Seq(Int) /\ v \in Seq(Int)
    BY <1>4, Zenon
  <2>2. Associate(s, u, v)
    BY <2>1, BytesAssociate, Zenon
  <2>3. u \o v = t
    BY <1>6 DEF w
  <2>4. QED
    BY <2>2, <2>3, Zenon DEF Associate
<1>8. s \o u \in Seq(Int) /\ Len(s \o u) = Len(s) + n /\ Len(s) \in Nat
  <2>1. s \o u \in Seq(Int) /\ Len(s \o u) = Len(s) + Len(u)
    BY <1>4, ConcatBytes, Zenon
  <2>2. QED
    BY <2>1, <1>4, LenType
<1>9. s \o u # << >>
  <2> DEFINE x == s \o u
  <2>1. Len(x) >= 1
    BY <1>1, <1>8
  <2> HIDE DEF x
  <2>2. x # << >>
    BY <2>1
  <2>3. QED
    BY <2>2 DEF x
<1>10. QED
  BY <1>4, <1>7, <1>8, <1>9 DEF u, v

\* Bytes left over that make no query when they are taken for a message: a Q
\* is not followed by three zero bytes.
Clean(bytes) ==
    \A i \in 1 .. Len(bytes) :
        ~ /\ i + 3 <= Len(bytes)
          /\ bytes[i] = 81 /\ bytes[i + 1] = 0 /\ bytes[i + 2] = 0 /\ bytes[i + 3] = 0

\* What is left of clean bytes is clean.
LEMMA CleanRest ==
    ASSUME NEW all, NEW first, NEW rest, NEW r, SplitAt(all, first, rest, r),
           Clean(all)
    PROVE  Clean(rest)
<1> SUFFICES ASSUME NEW i \in 1 .. Len(rest), i + 3 <= Len(rest), rest[i] = 81,
                    rest[i + 1] = 0, rest[i + 2] = 0, rest[i + 3] = 0
             PROVE  FALSE
  BY DEF Clean
<1> DEFINE R == Len(rest)
<1>1. /\ r \in Nat /\ R \in Nat /\ Len(all) = r + R
      /\ \A k \in 1 .. R : rest[k] = all[r + k]
  BY LenType DEF SplitAt
<1> DEFINE j == r + i
<1>2. i \in 1 .. R /\ i + 1 \in 1 .. R /\ i + 2 \in 1 .. R /\ i + 3 \in 1 .. R
  BY <1>1
<1>3. /\ r + i = j /\ r + (i + 1) = j + 1 /\ r + (i + 2) = j + 2 /\ r + (i + 3) = j + 3
      /\ j \in 1 .. Len(all) /\ j + 3 <= Len(all)
  BY <1>1, <1>2
<1> HIDE DEF j, R
<1>4. all[j] = 81 /\ all[j + 1] = 0 /\ all[j + 2] = 0 /\ all[j + 3] = 0
  <2>1. /\ all[r + i] = 81 /\ all[r + (i + 1)] = 0
        /\ all[r + (i + 2)] = 0 /\ all[r + (i + 3)] = 0
    BY <1>1, <1>2, Zenon
  <2>2. QED
    BY <2>1, <1>3, Zenon
<1>5. QED
  BY <1>3, <1>4 DEF Clean

-----------------------------------------------------------------------------
(* The messages of the client.                                             *)

\* The bytes of a query.
IsQuery(bytes, text, n) ==
    /\ bytes \in Seq(Int) /\ n \in Nat \ {0} /\ Len(bytes) = n + 6
    /\ text \in Seq(Int) /\ Len(text) = n
    /\ bytes[1] = 81 /\ bytes[2] = 0 /\ bytes[3] = 0 /\ bytes[4] = 0
    /\ bytes[5] = n + 5
    /\ \A i \in 1 .. n : bytes[5 + i] = text[i] /\ text[i] # 0
    /\ bytes[n + 6] = 0

\* A length word is three zero bytes and the length.
LEMMA WordBytes ==
    ASSUME NEW n \in Int
    PROVE  /\ Word(n) \in Seq(Int) /\ Len(Word(n)) = 4
           /\ Word(n)[1] = 0 /\ Word(n)[2] = 0 /\ Word(n)[3] = 0 /\ Word(n)[4] = n
BY DEF Word

\* Characters are numbers.
LEMMA IntegersOnly ==
    ASSUME NEW S, S \subseteq Int, NEW s \in Seq(S)
    PROVE  s \in Seq(Int) /\ Len(s) \in Nat /\ \A i \in 1 .. Len(s) : s[i] \in S
<1>1. Len(s) \in Nat /\ s \in [1 .. Len(s) -> S]
  OBVIOUS
<1>2. s \in [1 .. Len(s) -> Int]
  BY <1>1
<1>3. QED
  BY <1>1, <1>2

\* A query is its letter, its length, its text and a zero byte.
LEMMA QueryBytes ==
    ASSUME NEW text \in Seq(TextBytes), text # << >>
    PROVE  IsQuery(Query(text), text, Len(text))
<1> DEFINE n == Len(text)
           end == <<0>>
           head == <<81>> \o Word(n + 5)
<1>1. /\ n \in Nat /\ n # 0 /\ text \in Seq(Int)
      /\ \A i \in 1 .. n : text[i] # 0
  <2>1. TextBytes \subseteq Int
    BY DEF TextBytes
  <2>2. /\ text \in Seq(Int) /\ n \in Nat
        /\ \A i \in 1 .. n : text[i] \in TextBytes
    BY <2>1, IntegersOnly
  <2>3. n # 0
    BY <2>2
  <2> HIDE DEF n
  <2>4. \A i \in 1 .. n : text[i] # 0
    <3> TAKE i \in 1 .. n
    <3>1. text[i] \in TextBytes
      BY <2>2, Zenon
    <3>2. \A x \in TextBytes : x # 0
      BY DEF TextBytes
    <3>3. QED
      BY <3>1, <3>2, Zenon
  <2>5. QED
    BY <2>2, <2>3, <2>4
<1>2. /\ head \in Seq(Int) /\ Len(head) = 5
      /\ head[1] = 81 /\ head[2] = 0 /\ head[3] = 0 /\ head[4] = 0 /\ head[5] = n + 5
  <2> DEFINE w == Word(n + 5)
             q == <<81>>
  <2>1. /\ w \in Seq(Int) /\ Len(w) = 4
        /\ w[1] = 0 /\ w[2] = 0 /\ w[3] = 0 /\ w[4] = n + 5
    <3>1. n + 5 \in Int
      BY <1>1
    <3>2. QED
      BY <3>1, WordBytes
  <2>2. q \in Seq(Int) /\ Len(q) = 1 /\ q[1] = 81
    OBVIOUS
  <2> HIDE DEF w, q
  <2> DEFINE x == q \o w
  <2>3. /\ x \in Seq(Int) /\ Len(x) = Len(q) + Len(w)
        /\ \A i \in 1 .. Len(q) : x[i] = q[i]
        /\ \A i \in 1 .. Len(w) : x[Len(q) + i] = w[i]
    <3>1. w \in Seq(Int) /\ q \in Seq(Int)
      BY <2>1, <2>2
    <3>2. QED
      BY <3>1, ConcatBytes, Zenon
  <2> HIDE DEF x
  <2>4. /\ Len(x) = 5
        /\ \A i \in 1 .. 1 : x[i] = q[i]
        /\ \A i \in 1 .. 4 : x[1 + i] = w[i]
    BY <2>1, <2>2, <2>3
  <2>5. x[1] = 81 /\ x[2] = w[1] /\ x[3] = w[2] /\ x[4] = w[3] /\ x[5] = w[4]
    BY <2>2, <2>4
  <2>6. QED
    BY <2>1, <2>3, <2>4, <2>5 DEF x, q, w
<1>3. end \in Seq(Int) /\ Len(end) = 1 /\ end[1] = 0
  OBVIOUS
<1>4. Query(text) = (head \o text) \o end
  <2>1. 4 + Len(text) + 1 = n + 5
    BY <1>1
  <2>2. QED
    BY <2>1 DEF Query, Code
<1> HIDE DEF head, end, n
<1> DEFINE front == head \o text
           bytes == front \o end
<1>5. /\ front \in Seq(Int) /\ Len(front) = Len(head) + Len(text)
      /\ \A i \in 1 .. Len(head) : front[i] = head[i]
      /\ \A i \in 1 .. Len(text) : front[Len(head) + i] = text[i]
  <2>1. head \in Seq(Int) /\ text \in Seq(Int)
    BY <1>1, <1>2
  <2>2. QED
    BY <2>1, ConcatBytes, Zenon
<1> HIDE DEF front
<1>6. /\ bytes \in Seq(Int) /\ Len(bytes) = Len(front) + Len(end)
      /\ \A i \in 1 .. Len(front) : bytes[i] = front[i]
      /\ \A i \in 1 .. Len(end) : bytes[Len(front) + i] = end[i]
  <2>1. front \in Seq(Int) /\ end \in Seq(Int)
    BY <1>3, <1>5
  <2>2. QED
    BY <2>1, ConcatBytes, Zenon
<1> HIDE DEF bytes
<1>7. Len(text) = n
  BY DEF n
<1>8. Len(front) = n + 5 /\ Len(bytes) = n + 6
  BY <1>1, <1>2, <1>3, <1>5, <1>6, <1>7
<1>9. \A i \in 1 .. 5 : bytes[i] = head[i]
  <2> TAKE i \in 1 .. 5
  <2>1. i \in 1 .. Len(front) /\ i \in 1 .. Len(head)
    BY <1>1, <1>2, <1>8
  <2>2. QED
    BY <2>1, <1>5, <1>6
<1>10. \A i \in 1 .. n : bytes[5 + i] = text[i]
  <2> TAKE i \in 1 .. n
  <2>1. 5 + i \in 1 .. Len(front) /\ i \in 1 .. Len(text)
    BY <1>1, <1>7, <1>8
  <2>2. front[5 + i] = text[i]
    BY <2>1, <1>2, <1>5
  <2>3. QED
    BY <2>1, <2>2, <1>6
<1>11. bytes[n + 6] = 0
  <2>1. 1 \in 1 .. Len(end) /\ Len(front) + 1 = n + 6
    BY <1>1, <1>3, <1>8
  <2>2. QED
    BY <2>1, <1>3, <1>6
<1>12. bytes[1] = 81 /\ bytes[2] = 0 /\ bytes[3] = 0 /\ bytes[4] = 0 /\ bytes[5] = n + 5
  BY <1>2, <1>9
<1>13. IsQuery(bytes, text, n)
  BY <1>1, <1>6, <1>7, <1>8, <1>10, <1>11, <1>12 DEF IsQuery
<1>14. QED
  BY <1>4, <1>7, <1>13 DEF bytes, front

\* What is left of a query of which something was taken is clean.
LEMMA QueryRest ==
    ASSUME NEW all, NEW first, NEW rest, NEW r, SplitAt(all, first, rest, r), r # 0,
           NEW text, NEW n, IsQuery(all, text, n)
    PROVE  Clean(rest)
<1> SUFFICES ASSUME NEW i \in 1 .. Len(rest), i + 3 <= Len(rest), rest[i] = 81,
                    rest[i + 1] = 0, rest[i + 2] = 0, rest[i + 3] = 0
             PROVE  FALSE
  BY DEF Clean
<1> DEFINE R == Len(rest)
           j == r + i
<1>1. /\ r \in Nat /\ R \in Nat /\ n + 6 = r + R /\ n \in Nat
      /\ \A k \in 1 .. R : rest[k] = all[r + k]
  BY LenType DEF SplitAt, IsQuery
<1>2. i \in 1 .. R /\ i + 1 \in 1 .. R
  BY <1>1
<1>3. r + i = j /\ r + (i + 1) = j + 1 /\ j \in 2 .. n + 3
  BY <1>1, <1>2
<1> HIDE DEF j, R
<1>4. all[j] = 81 /\ all[j + 1] = 0
  BY <1>1, <1>2, <1>3
<1>5. /\ all[2] = 0 /\ all[3] = 0 /\ all[4] = 0
      /\ \A k \in 1 .. n : all[5 + k] = text[k] /\ text[k] # 0
  BY DEF IsQuery
<1> DEFINE k == j - 4
<1>6. j \notin {2, 3, 4}
  BY <1>4, <1>5
<1>7. k \in 1 .. n /\ 5 + k = j + 1
  BY <1>1, <1>3, <1>6
<1> HIDE DEF k
<1>8. all[5 + k] # 0 /\ all[j + 1] = 0
  <2>1. k \in 1 .. n
    BY <1>7
  <2>2. all[5 + k] = text[k] /\ text[k] # 0
    BY <2>1, <1>5, Zenon
  <2>3. QED
    BY <2>2, <1>4, Zenon
<1>9. QED
  BY <1>7, <1>8, Zenon

\* The start-up message is clean.
LEMMA StartUpBytes ==
    /\ StartUpMessage \in Seq(Int) /\ Clean(StartUpMessage)
    /\ Len(StartUpMessage) >= 8
<1> DEFINE n == Len(StartUpText)
           head == Word(8 + n) \o <<0, 3, 0, 0>>
           all == head \o StartUpText
<1>1. /\ n \in Nat /\ StartUpText \in Seq(Int)
      /\ \A i \in 1 .. n : StartUpText[i] \in Int
  <2>1. StartUpText \in Seq(0 .. 255)
    BY StartUpAssumption
  <2>2. 0 .. 255 \subseteq Int
    OBVIOUS
  <2>3. /\ StartUpText \in Seq(Int) /\ n \in Nat
        /\ \A i \in 1 .. n : StartUpText[i] \in 0 .. 255
    BY <2>1, <2>2, IntegersOnly
  <2> HIDE DEF n
  <2>4. \A i \in 1 .. n : StartUpText[i] \in Int
    BY <2>2, <2>3, Zenon
  <2>5. QED
    BY <2>3, <2>4
<1>2. /\ head \in Seq(Int) /\ Len(head) = 8
      /\ head[1] = 0 /\ head[2] = 0 /\ head[3] = 0 /\ head[5] = 0 /\ head[6] = 3
      /\ head[7] = 0 /\ head[8] = 0
  <2> DEFINE w == Word(8 + n)
             v == <<0, 3, 0, 0>>
             x == w \o v
  <2>1. w \in Seq(Int) /\ Len(w) = 4 /\ w[1] = 0 /\ w[2] = 0 /\ w[3] = 0
    <3>1. 8 + n \in Int
      BY <1>1
    <3>2. QED
      BY <3>1, WordBytes
  <2>2. v \in Seq(Int) /\ Len(v) = 4 /\ v[1] = 0 /\ v[2] = 3 /\ v[3] = 0 /\ v[4] = 0
    OBVIOUS
  <2> HIDE DEF w, v
  <2>3. /\ x \in Seq(Int) /\ Len(x) = Len(w) + Len(v)
        /\ \A i \in 1 .. Len(w) : x[i] = w[i]
        /\ \A i \in 1 .. Len(v) : x[Len(w) + i] = v[i]
    BY <2>1, <2>2, ConcatBytes, Zenon
  <2> HIDE DEF x
  <2>4. Len(x) = 8 /\ (\A i \in 1 .. 4 : x[i] = w[i]) /\ \A i \in 1 .. 4 : x[4 + i] = v[i]
    BY <2>1, <2>2, <2>3
  <2>5. /\ x[1] = w[1] /\ x[2] = w[2] /\ x[3] = w[3]
        /\ x[5] = v[1] /\ x[6] = v[2] /\ x[7] = v[3] /\ x[8] = v[4]
    BY <2>4
  <2>6. QED
    BY <2>1, <2>2, <2>3, <2>4, <2>5 DEF x, w, v
<1>3. StartUpMessage = all
  BY DEF StartUpMessage
<1> HIDE DEF head
<1>4. /\ all \in Seq(Int) /\ Len(all) = Len(head) + Len(StartUpText)
      /\ \A i \in 1 .. Len(head) : all[i] = head[i]
      /\ \A i \in 1 .. Len(StartUpText) : all[Len(head) + i] = StartUpText[i]
  BY <1>1, <1>2, ConcatBytes, Zenon
<1>5. Len(StartUpText) = n
  OBVIOUS
<1> HIDE DEF all, n
<1>6. /\ Len(all) = 8 + n
      /\ \A i \in 1 .. 8 : all[i] = head[i]
      /\ \A i \in 1 .. n : all[8 + i] = StartUpText[i]
  BY <1>2, <1>4, <1>5
<1>7. /\ all[1] = 0 /\ all[2] = 0 /\ all[3] = 0 /\ all[5] = 0 /\ all[6] = 3
      /\ all[7] = 0 /\ all[8] = 0
  BY <1>2, <1>6
<1>8. Clean(all)
  <2> SUFFICES ASSUME NEW i \in 1 .. Len(all), i + 3 <= Len(all), all[i] = 81,
                      all[i + 1] = 0, all[i + 2] = 0, all[i + 3] = 0
               PROVE  FALSE
    BY DEF Clean
  <2>1. i \notin {1, 2, 3, 5, 6, 7, 8}
    <3>1. all[1] # 81 /\ all[2] # 81 /\ all[3] # 81 /\ all[5] # 81
      BY <1>7
    <3>2. all[6] # 81 /\ all[7] # 81 /\ all[8] # 81
      BY <1>7
    <3>3. all[i] = 81
      OBVIOUS
    <3> HIDE DEF all
    <3>4. i # 1 /\ i # 2 /\ i # 3 /\ i # 5
      BY <3>1, <3>3
    <3>5. i # 6 /\ i # 7 /\ i # 8
      BY <3>2, <3>3
    <3>6. QED
      BY <3>4, <3>5
  <2>2. i # 4
    BY <1>7
  <2>3. i > 8
    BY <2>1, <2>2, <1>1, <1>6
  <2> DEFINE k == i - 8
  <2>4. /\ k \in 1 .. n - 2 /\ k + 2 \in 1 .. n /\ k \in Nat /\ n - 2 \in Int
        /\ 8 + k = i /\ 8 + (k + 1) = i + 1 /\ 8 + (k + 2) = i + 2
        /\ k \in 1 .. n /\ k + 1 \in 1 .. n
    BY <2>3, <1>1, <1>6
  <2> HIDE DEF k
  <2>5. /\ StartUpText[k] = 81 /\ StartUpText[k + 1] = 0
        /\ StartUpText[k + 2] = 0
    <3>1. /\ all[8 + k] = StartUpText[k] /\ all[8 + (k + 1)] = StartUpText[k + 1]
          /\ all[8 + (k + 2)] = StartUpText[k + 2]
      BY <2>4, <1>6, Zenon
    <3>2. QED
      BY <3>1, <2>4, Zenon
  <2>6. SubSeq(StartUpText, k, k + 2) = <<81, 0, 0>>
    <3> DEFINE u == SubSeq(StartUpText, k, k + 2)
               v == <<81, 0, 0>>
    <3>1. /\ u \in Seq(Int) /\ Len(u) = IF k <= k + 2 THEN (k + 2) - k + 1 ELSE 0
          /\ \A j \in 1 .. (k + 2) - k + 1 : u[j] = StartUpText[k + j - 1]
      <4>1. \A j \in k .. k + 2 : StartUpText[j] \in Int
        <5> TAKE j \in k .. k + 2
        <5>1. j \in 1 .. n
          <6>1. k \in Nat /\ n \in Nat /\ k \in 1 .. n - 2
            BY <2>4, <1>1, Zenon
          <6>2. QED
            BY <6>1
        <5>2. QED
          BY <5>1, <1>1
      <4>2. k \in Int /\ k + 2 \in Int
        BY <2>4
      <4>3. PartOf(StartUpText, k, k + 2)
        BY <4>1, <4>2, PartType, Zenon
      <4>4. QED
        BY <4>3, Zenon DEF PartOf
    <3> HIDE DEF u
    <3>2. (k + 2) - k + 1 = 3 /\ k <= k + 2 /\ k + 1 - 1 = k /\ k + 2 - 1 = k + 1
          /\ k + 3 - 1 = k + 2
      BY <2>4
    <3>3. Len(u) = 3 /\ \A j \in 1 .. 3 : u[j] = StartUpText[k + j - 1]
      BY <3>1, <3>2
    <3>4. u[1] = 81 /\ u[2] = 0 /\ u[3] = 0
      BY <3>2, <3>3, <2>5
    <3>5. v \in Seq(Int) /\ Len(v) = 3 /\ v[1] = 81 /\ v[2] = 0 /\ v[3] = 0
      OBVIOUS
    <3> HIDE DEF v
    <3>6. \A j \in 1 .. 3 : u[j] = v[j]
      BY <3>4, <3>5
    <3>7. u = v
      <4> DEFINE l == 3
      <4>1. Agree(u, v, l)
        BY <3>1, <3>3, <3>5, <3>6 DEF Agree
      <4> HIDE DEF l
      <4>2. QED
        BY <4>1, SameBytes, Zenon
    <3>8. QED
      BY <3>7 DEF u, v
  <2>7. \A j \in 1 .. n - 2 : SubSeq(StartUpText, j, j + 2) # <<81, 0, 0>>
    BY StartUpAssumption DEF Code, n
  <2>8. QED
    BY <2>4, <2>6, <2>7
<1>9. QED
  BY <1>1, <1>3, <1>4, <1>6, <1>8

-----------------------------------------------------------------------------
(* The receive buffer.                                                     *)

\* `buffer' holds the r bytes received, and zeros.
Filled(buffer, bytes, r) ==
    /\ buffer \in Seq(Int) /\ Len(buffer) = MaxMessageLen
    /\ r \in 0 .. MaxMessageLen
    /\ \A i \in 1 .. r : buffer[i] = bytes[i]
    /\ \A i \in r + 1 .. MaxMessageLen : buffer[i] = 0

\* The buffer holds a type and a length word.
LEMMA BufferType ==
    /\ MaxMessageLen \in Nat /\ MaxMessageLen >= 5 /\ MaxMessageLen <= Huge
    /\ Huge \in Nat
<1>1. MaxMessageLen \in 5 .. Huge
  BY BufferAssumption, Zenon
<1>2. Huge \in Nat
  BY DEF Huge
<1>3. QED
  BY <1>1, <1>2

\* After a read the buffer holds the bytes received, and zeros.
LEMMA BufferBytes ==
    ASSUME NEW all, NEW rest, NEW r, SplitAt(all, Received, rest, r), r <= MaxMessageLen
    PROVE  Filled(Buffer, all, r)
<1> DEFINE u == Received
           M == MaxMessageLen
           zeros == [i \in 1 .. M - Len(u) |-> 0]
           b == u \o zeros
<1>1. u \in Seq(Int) /\ Len(u) = r /\ r \in Nat /\ \A i \in 1 .. r : u[i] = all[i]
  BY DEF SplitAt
<1>2. M \in Nat /\ r <= M
  BY BufferType
<1> HIDE DEF u, M
<1>3. zeros \in Seq(Int) /\ Len(zeros) = M - r /\ \A i \in 1 .. M - r : zeros[i] = 0
  <2>1. M - Len(u) \in Nat /\ M - Len(u) = M - r
    BY <1>1, <1>2
  <2>2. zeros \in [1 .. M - Len(u) -> Int]
    OBVIOUS
  <2>3. \A i \in 1 .. M - Len(u) : zeros[i] = 0
    OBVIOUS
  <2> HIDE DEF zeros
  <2>4. QED
    BY <2>1, <2>2, <2>3
<1> HIDE DEF zeros
<1>4. /\ b \in Seq(Int) /\ Len(b) = Len(u) + Len(zeros)
      /\ \A i \in 1 .. Len(u) : b[i] = u[i]
      /\ \A i \in 1 .. Len(zeros) : b[Len(u) + i] = zeros[i]
  BY <1>1, <1>3, ConcatBytes, Zenon
<1>5. Buffer = b
  BY Zenon DEF Buffer, b, u, M, zeros
<1> HIDE DEF b
<1>6. Len(b) = M
  BY <1>1, <1>2, <1>3, <1>4
<1>7. \A i \in 1 .. r : b[i] = all[i]
  BY <1>1, <1>4
<1>8. \A i \in r + 1 .. M : b[i] = 0
  <2> TAKE i \in r + 1 .. M
  <2> DEFINE j == i - r
  <2>1. j \in 1 .. M - r /\ r + j = i
    BY <1>1, <1>2
  <2> HIDE DEF j
  <2>2. b[r + j] = zeros[j]
    BY <2>1, <1>1, <1>3, <1>4
  <2>3. QED
    BY <2>1, <2>2, <1>3
<1>9. r \in 0 .. M
  BY <1>1, <1>2
<1>10. QED
  BY <1>4, <1>5, <1>6, <1>7, <1>8, <1>9 DEF Filled, M

\* The length the server reads is that of the buffer.
LEMMA QueryLength ==
    ASSUME NEW bytes, NEW r, Filled(Buffer, bytes, r)
    PROVE  /\ QueryLen = IF Buffer[2] = 0 /\ Buffer[3] = 0 /\ Buffer[4] = 0
                         THEN Buffer[5] ELSE Huge
           /\ Buffer[5] \in Int
<1> DEFINE u == SubSeq(Buffer, 2, 4)
           v == <<0, 0, 0>>
           B == Buffer
<1>1. B \in Seq(Int) /\ Len(B) = MaxMessageLen
  BY DEF Filled
<1>2. MaxMessageLen \in Nat /\ MaxMessageLen >= 5
  BY BufferType
<1> HIDE DEF B
<1>3. \A i \in 1 .. MaxMessageLen : B[i] \in Int
  BY <1>1, <1>2, IntSeq
<1>4. /\ SubSeq(B, 2, 4) \in Seq(Int) /\ Len(SubSeq(B, 2, 4)) = 3
      /\ \A i \in 1 .. 3 : SubSeq(B, 2, 4)[i] = B[1 + i]
  <2>1. 1 \in Nat /\ 3 \in Nat /\ 1 + 1 = 2 /\ 1 + 3 = 4 /\ 1 + 3 <= Len(B)
    BY <1>1, <1>2
  <2>2. /\ SubSeq(B, 1 + 1, 1 + 3) \in Seq(Int)
        /\ Len(SubSeq(B, 1 + 1, 1 + 3)) = 3
        /\ \A i \in 1 .. 3 : SubSeq(B, 1 + 1, 1 + 3)[i] = B[1 + i]
    BY <2>1, <1>1, PartOfBytes
  <2>3. QED
    BY <2>1, <2>2
<1>5. u = SubSeq(B, 2, 4)
  BY DEF B
<1> HIDE DEF u
<1>6. u \in Seq(Int) /\ Len(u) = 3 /\ u[1] = B[2] /\ u[2] = B[3] /\ u[3] = B[4]
  <2>1. \A i \in 1 .. 3 : u[i] = B[1 + i]
    BY <1>4, <1>5
  <2>2. u[1] = B[1 + 1] /\ u[2] = B[1 + 2] /\ u[3] = B[1 + 3]
    BY <2>1
  <2>3. QED
    BY <2>2, <1>4, <1>5
<1>7. v \in Seq(Int) /\ Len(v) = 3 /\ v[1] = 0 /\ v[2] = 0 /\ v[3] = 0
  OBVIOUS
<1> HIDE DEF v
<1>8. u = v <=> u[1] = 0 /\ u[2] = 0 /\ u[3] = 0
  <2>1. ASSUME u[1] = 0, u[2] = 0, u[3] = 0 PROVE u = v
    <3>1. \A i \in 1 .. 3 : u[i] = v[i]
      BY <2>1, <1>7
    <3>2. QED
      BY <3>1, <1>6, <1>7, SeqEqual
  <2>2. QED
    BY <2>1, <1>7
<1>9. QueryLen = IF u = v THEN B[5] ELSE Huge
  BY Zenon DEF QueryLen, u, v, B
<1>10. B[5] \in Int
  BY <1>2, <1>3
<1>11. QED
  BY <1>6, <1>8, <1>9, <1>10 DEF B

\* If fewer than four bytes are stale, and four are there, one of the second to
\* the fourth is the first of the next message.
LEMMA ShortStale ==
    ASSUME NEW S \in Nat, NEW T \in Nat, NEW r \in Nat,
           S >= 1, ~(S >= 4), ~(r < 4), r <= S + T
    PROVE  S + 1 \in {2, 3, 4} /\ T # 0
OBVIOUS

\* What is taken for a query when stale bytes stand in front kills the server.
LEMMA StaleKills ==
    ASSUME sock \in Seq(Int), net \in Seq(Int), sock # << >>,
           NEW stale \in Seq(Int), stale # << >>, Clean(stale),
           NEW tail \in Seq(Int), tail = << >> \/ tail[1] # 0,
           sock \o net = stale \o tail, Received[1] = Code.Q
    PROVE  QueryLen < 4 \/ QueryLen = Huge
<1> DEFINE all == stale \o tail
           S == Len(stale)
           T == Len(tail)
           M == MaxMessageLen
           r == IF M < Len(sock) THEN M ELSE Len(sock)
           rest == SubSeq(sock, M + 1, Len(sock)) \o net
           B == Buffer
<1>1. /\ S \in Nat /\ S >= 1 /\ T \in Nat /\ (T # 0 => tail[1] # 0)
      /\ Len(sock) \in Nat /\ Len(sock) >= 1
  <2>1. S \in Nat \ {0} /\ Len(sock) \in Nat \ {0}
    BY EmptySeq, Zenon
  <2>2. T \in Nat
    BY LenType
  <2>3. T # 0 => tail[1] # 0
    BY EmptySeq, Zenon
  <2> HIDE DEF S, T
  <2>4. QED
    BY <2>1, <2>2, <2>3
<1>2. M \in Nat /\ M >= 5
  BY BufferType
<1>3. r \in Nat /\ r >= 1 /\ r <= M
  BY <1>1, <1>2
<1>4. SplitAt(all, Received, rest, r)
  <2>1. SplitAt(sock \o net, Take(sock, M), rest, r)
    BY <1>2, <1>3, ReceiveBytes
  <2>2. QED
    BY <2>1 DEF Received
<1> HIDE DEF rest, r
<1>5. Filled(Buffer, all, r)
  BY <1>3, <1>4, BufferBytes
<1>6. /\ all \in Seq(Int) /\ Len(all) = Len(stale) + Len(tail)
      /\ \A i \in 1 .. Len(stale) : all[i] = stale[i]
      /\ \A i \in 1 .. Len(tail) : all[Len(stale) + i] = tail[i]
  BY ConcatBytes, Zenon
<1>7. /\ Received[1] = all[1] /\ r <= Len(all)
      /\ \A i \in 1 .. r : B[i] = all[i]
      /\ \A i \in r + 1 .. M : B[i] = 0
  <2>1. /\ \A i \in 1 .. r : Received[i] = all[i]
        /\ Len(all) = r + Len(rest) /\ Len(rest) \in Nat
    BY <1>4, LenType DEF SplitAt
  <2>2. /\ \A i \in 1 .. r : B[i] = all[i]
        /\ \A i \in r + 1 .. M : B[i] = 0
    BY <1>5 DEF Filled
  <2> HIDE DEF B, M, all
  <2>3. QED
    BY <2>1, <2>2, <1>3
<1>8. /\ QueryLen = IF B[2] = 0 /\ B[3] = 0 /\ B[4] = 0 THEN B[5] ELSE Huge
      /\ B[5] \in Int
  BY <1>5, QueryLength
<1>9. all[1] = 81
  BY <1>7 DEF Code
<1>10. /\ Len(all) = S + T
       /\ \A i \in 1 .. S : all[i] = stale[i]
       /\ \A i \in 1 .. T : all[S + i] = tail[i]
  BY <1>6
<1>11. ~ /\ 1 + 3 <= S
         /\ stale[1] = 81 /\ stale[1 + 1] = 0 /\ stale[1 + 2] = 0 /\ stale[1 + 3] = 0
  <2>1. 1 \in 1 .. Len(stale)
    BY <1>1
  <2>2. QED
    BY <2>1 DEF Clean
<1> HIDE DEF all, S, T, M, B
<1>12. CASE r < 4
  <2>1. 4 \in r + 1 .. M /\ 5 \in r + 1 .. M
    BY <1>2, <1>3, <1>12
  <2>2. B[5] = 0
    BY <2>1, <1>7
  <2>3. QED
    BY <2>2, <1>8
<1>13. CASE ~(r < 4)
  <2>1. 2 \in 1 .. r /\ 3 \in 1 .. r /\ 4 \in 1 .. r
    BY <1>3, <1>13
  <2>2. B[2] = all[2] /\ B[3] = all[3] /\ B[4] = all[4]
    BY <2>1, <1>7
  <2>3. ~(all[2] = 0 /\ all[3] = 0 /\ all[4] = 0)
    <3>1. CASE S >= 4
      <4>1. 1 \in 1 .. S /\ 2 \in 1 .. S /\ 3 \in 1 .. S /\ 4 \in 1 .. S /\ 1 + 3 <= S
        BY <3>1, <1>1
      <4>2. /\ all[1] = stale[1] /\ all[2] = stale[2]
            /\ all[3] = stale[3] /\ all[4] = stale[4]
        BY <4>1, <1>10
      <4>3. 1 + 1 = 2 /\ 1 + 2 = 3 /\ 1 + 3 = 4
        OBVIOUS
      <4>4. QED
        BY <4>1, <4>2, <4>3, <1>9, <1>11
    <3>2. CASE ~(S >= 4)
      <4>1. S + 1 \in {2, 3, 4} /\ T # 0
        <5>1. /\ S \in Nat /\ S >= 1 /\ T \in Nat /\ r \in Nat /\ ~(r < 4)
              /\ r <= S + T
          BY <1>1, <1>3, <1>7, <1>10, <1>13, Zenon
        <5>2. QED
          BY <5>1, <3>2, ShortStale, Zenon
      <4>2. 1 \in 1 .. T
        BY <4>1, <1>1
      <4>3. all[S + 1] # 0
        BY <4>1, <4>2, <1>1, <1>10
      <4>4. QED
        BY <4>1, <4>3
    <3>3. QED
      BY <3>1, <3>2
  <2>4. QueryLen = Huge
    BY <2>2, <2>3, <1>8
  <2>5. QED
    BY <2>4
<1>14. QED
  BY <1>12, <1>13

-----------------------------------------------------------------------------
(* What the server hears of a query.                                       *)

\* A text ends at its first zero byte.
LEMMA EndsAtZero ==
    ASSUME NEW t \in Seq(Int), NEW n \in Nat, n < Len(t),
           \A i \in 1 .. n : t[i] # 0, t[n + 1] = 0
    PROVE  UpToZero(t) = SubSeq(t, 1, n)
<1> DEFINE Ends(k) == /\ \A i \in 1 .. k : t[i] # 0
                      /\ k < Len(t) => t[k + 1] = 0
           end == CHOOSE k \in 0 .. Len(t) : Ends(k)
<1>0. Len(t) \in Nat
  OBVIOUS
<1>1. n \in 0 .. Len(t) /\ Ends(n)
  BY <1>0
<1>2. end \in 0 .. Len(t) /\ Ends(end)
  <2> HIDE DEF Ends
  <2> QED
    BY <1>1
<1>3. UpToZero(t) = SubSeq(t, 1, end)
  BY Zenon DEF UpToZero
<1> HIDE DEF end
<1>4. end = n
  <2>1. CASE end < n
    <3>1. end + 1 \in 1 .. n /\ end < Len(t)
      BY <2>1, <1>0, <1>2
    <3>2. t[end + 1] = 0
      BY <3>1, <1>2
    <3>3. QED
      BY <3>1, <3>2
  <2>2. CASE n < end
    <3>1. n + 1 \in 1 .. end
      BY <2>2, <1>0, <1>2
    <3>2. QED
      BY <3>1, <1>2
  <2>3. QED
    BY <2>1, <2>2, <1>0, <1>2
<1>5. QED
  BY <1>3, <1>4

\* The first bytes of a sequence.
LEMMA FirstBytes ==
    ASSUME NEW s \in Seq(Int), NEW b \in Nat, b <= Len(s)
    PROVE  /\ SubSeq(s, 1, b) \in Seq(Int) /\ Len(SubSeq(s, 1, b)) = b
           /\ \A i \in 1 .. b : SubSeq(s, 1, b)[i] = s[i]
<1>1. 0 \in Nat /\ 0 + 1 = 1 /\ 0 + b = b /\ 0 + b <= Len(s)
  OBVIOUS
<1>2. /\ SubSeq(s, 0 + 1, 0 + b) \in Seq(Int) /\ Len(SubSeq(s, 0 + 1, 0 + b)) = b
      /\ \A i \in 1 .. b : SubSeq(s, 0 + 1, 0 + b)[i] = s[0 + i]
  BY <1>1, PartOfBytes, Zenon
<1>3. \A i \in 1 .. b : 0 + i = i
  OBVIOUS
<1>4. QED
  BY <1>1, <1>2, <1>3

\* What the server makes of a query of which it received a part or the whole.
LEMMA QueryHeard ==
    ASSUME sock \in Seq(Int), net \in Seq(Int), sock # << >>,
           NEW text \in Seq(TextBytes), text # << >>, sock \o net = Query(text)
    PROVE  /\ Received[1] = Code.Q
           /\ QueryLen \in MaxMessageLen .. Huge - 1 => Len(Query(text)) > MaxMessageLen
           /\ QueryLen \in 4 .. MaxMessageLen - 1 =>
                 \E m \in 0 .. Len(text) : UpToZero(Text) = SubSeq(text, 1, m)
           /\ net = << >> /\ Len(sock) <= MaxMessageLen =>
                 /\ QueryLen \in 4 .. MaxMessageLen - 1
                 /\ UpToZero(Text) = text
<1> DEFINE all == Query(text)
           n == Len(text)
           M == MaxMessageLen
           r == IF M < Len(sock) THEN M ELSE Len(sock)
           rest == SubSeq(sock, M + 1, Len(sock)) \o net
           B == Buffer
           L == QueryLen
<1>1. /\ all \in Seq(Int) /\ n \in Nat \ {0} /\ Len(all) = n + 6
      /\ text \in Seq(Int) /\ Len(text) = n
      /\ all[1] = 81 /\ all[2] = 0 /\ all[3] = 0 /\ all[4] = 0 /\ all[5] = n + 5
      /\ \A i \in 1 .. n : all[5 + i] = text[i] /\ text[i] # 0
      /\ all[n + 6] = 0
  BY QueryBytes, Zenon DEF IsQuery
<1>2. M \in Nat /\ M >= 5 /\ M <= Huge /\ Huge \in Nat
  BY BufferType
<1>3. Len(sock) \in Nat /\ Len(sock) >= 1
  OBVIOUS
<1>4. r \in Nat /\ r >= 1 /\ r <= M /\ (Len(sock) <= M => r = Len(sock))
  BY <1>2, <1>3
<1>5. SplitAt(all, Received, rest, r)
  <2>1. SplitAt(sock \o net, Take(sock, M), rest, r)
    BY <1>2, <1>4, ReceiveBytes
  <2>2. QED
    BY <2>1 DEF Received
<1> HIDE DEF rest, r
<1>6. Filled(Buffer, all, r)
  BY <1>4, <1>5, BufferBytes
<1>7. /\ Received[1] = all[1] /\ r <= Len(all)
      /\ B \in Seq(Int) /\ Len(B) = M
      /\ \A i \in 1 .. r : B[i] = all[i]
      /\ \A i \in r + 1 .. M : B[i] = 0
  <2>1. /\ \A i \in 1 .. r : Received[i] = all[i]
        /\ Len(all) = r + Len(rest) /\ Len(rest) \in Nat
    BY <1>5, LenType DEF SplitAt
  <2>2. /\ B \in Seq(Int) /\ Len(B) = M
        /\ \A i \in 1 .. r : B[i] = all[i]
        /\ \A i \in r + 1 .. M : B[i] = 0
    BY <1>6 DEF Filled
  <2> HIDE DEF B, M, all
  <2>3. QED
    BY <2>1, <2>2, <1>4
<1>8. L = IF B[2] = 0 /\ B[3] = 0 /\ B[4] = 0 THEN B[5] ELSE Huge
  BY <1>6, QueryLength
<1>9. net = << >> => Len(sock) = n + 6
  <2>1. ASSUME net = << >> PROVE sock = all
    BY <2>1, EmptyLeft
  <2>2. QED
    BY <2>1, <1>1
<1>10. Text = SubSeq(B, 6, L + 1)
  BY Zenon DEF Text
<1> DEFINE heardText == UpToZero(Text)
<1> HIDE DEF all, M, B, L, n
<1>11. L = IF r < 5 THEN 0 ELSE n + 5
  <2>1. \A i \in 2 .. 4 : B[i] = 0
    <3> TAKE i \in 2 .. 4
    <3>1. CASE i <= r
      <4>1. i \in 1 .. r /\ (i = 2 \/ i = 3 \/ i = 4)
        BY <3>1, <1>4
      <4>2. B[i] = all[i]
        BY <4>1, <1>7
      <4>3. all[i] = 0
        BY <4>1, <1>1
      <4>4. QED
        BY <4>2, <4>3
    <3>2. CASE ~(i <= r)
      <4>1. i \in r + 1 .. M
        BY <3>2, <1>2, <1>4
      <4>2. QED
        BY <4>1, <1>7
    <3>3. QED
      BY <3>1, <3>2
  <2>2. B[2] = 0 /\ B[3] = 0 /\ B[4] = 0
    BY <2>1
  <2>3. L = B[5]
    BY <2>2, <1>8
  <2>4. CASE r < 5
    <3>1. 5 \in r + 1 .. M
      BY <2>4, <1>2, <1>4
    <3>2. QED
      BY <3>1, <2>3, <2>4, <1>7
  <2>5. CASE ~(r < 5)
    <3>1. 5 \in 1 .. r
      BY <2>5, <1>4
    <3>2. QED
      BY <3>1, <2>3, <2>5, <1>1, <1>7
  <2>6. QED
    BY <2>4, <2>5
<1>12. ASSUME L \in 4 .. M - 1
       PROVE  /\ heardText = SubSeq(text, 1, IF r - 5 < n THEN r - 5 ELSE n)
              /\ r - 5 \in Nat
  <2>1. L = n + 5 /\ n + 6 <= M /\ r - 5 \in Nat /\ n \in Nat /\ r \in Nat
    BY <1>12, <1>1, <1>2, <1>4, <1>11
  <2> DEFINE t == SubSeq(B, 6, L + 1)
             m == IF r - 5 < n THEN r - 5 ELSE n
  <2>2. /\ t \in Seq(Int) /\ Len(t) = n + 1
        /\ \A i \in 1 .. n + 1 : t[i] = B[5 + i]
    <3>1. 5 \in Nat /\ 5 + 1 = 6 /\ 5 + (n + 1) = L + 1 /\ 5 + (n + 1) <= Len(B)
          /\ n + 1 \in Nat
      BY <2>1, <1>7
    <3>2. B \in Seq(Int)
      BY <1>7
    <3>3. /\ SubSeq(B, 5 + 1, 5 + (n + 1)) \in Seq(Int)
          /\ Len(SubSeq(B, 5 + 1, 5 + (n + 1))) = n + 1
          /\ \A i \in 1 .. n + 1 : SubSeq(B, 5 + 1, 5 + (n + 1))[i] = B[5 + i]
      BY <3>1, <3>2, PartOfBytes, Zenon
    <3>4. QED
      BY <3>1, <3>3
  <2>3. heardText = UpToZero(t)
    BY <1>10
  <2>4. m \in Nat /\ m <= n /\ m <= r - 5 /\ (m = n \/ m = r - 5)
    BY <2>1
  <2> HIDE DEF t, m
  <2>5. \A i \in 1 .. m : t[i] = text[i] /\ t[i] # 0
    <3> TAKE i \in 1 .. m
    <3>1. i \in 1 .. n + 1 /\ i \in 1 .. n /\ 5 + i \in 1 .. r
      BY <2>1, <2>4, <1>4
    <3>2. t[i] = B[5 + i] /\ B[5 + i] = all[5 + i]
      BY <3>1, <2>2, <1>7
    <3>3. QED
      BY <3>1, <3>2, <1>1
  <2>6. t[m + 1] = 0
    <3>0. m + 1 \in 1 .. n + 1
      BY <2>1, <2>4
    <3>1. t[m + 1] = B[5 + (m + 1)]
      BY <3>0, <2>2
    <3>2. CASE 5 + (m + 1) <= r
      <4>1. m # r - 5
        BY <3>2, <2>1, <2>4
      <4>2. 5 + (m + 1) = n + 6 /\ n + 6 \in 1 .. r
        BY <3>2, <4>1, <2>1, <2>4
      <4>3. B[n + 6] = all[n + 6]
        BY <4>2, <1>7
      <4>4. QED
        BY <3>1, <4>2, <4>3, <1>1
    <3>3. CASE ~(5 + (m + 1) <= r)
      <4>1. 5 + (m + 1) \in r + 1 .. M
        BY <3>3, <2>1, <2>4, <1>2, <1>4
      <4>2. QED
        BY <3>1, <4>1, <1>7
    <3>4. QED
      BY <3>2, <3>3
  <2>7. UpToZero(t) = SubSeq(t, 1, m)
    <3>1. m < Len(t)
      BY <2>1, <2>2, <2>4
    <3>2. \A i \in 1 .. m : t[i] # 0
      BY <2>5
    <3>3. QED
      BY <3>1, <3>2, <2>2, <2>4, <2>6, EndsAtZero
  <2>8. SubSeq(t, 1, m) = SubSeq(text, 1, m)
    <3>1. m <= Len(t) /\ m <= Len(text)
      BY <2>1, <2>2, <2>4, <1>1
    <3> DEFINE x == SubSeq(t, 1, m)
               y == SubSeq(text, 1, m)
    <3>0. t \in Seq(Int) /\ text \in Seq(Int) /\ m \in Nat
      BY <2>2, <2>4, <1>1
    <3>2. x \in Seq(Int) /\ Len(x) = m /\ \A i \in 1 .. m : x[i] = t[i]
      BY <3>0, <3>1, FirstBytes, Zenon
    <3>3. y \in Seq(Int) /\ Len(y) = m /\ \A i \in 1 .. m : y[i] = text[i]
      BY <3>0, <3>1, FirstBytes, Zenon
    <3> HIDE DEF x, y
    <3>4. \A i \in 1 .. m : x[i] = y[i]
      BY <3>2, <3>3, <2>5, Zenon
    <3>5. x = y
      <4>1. Agree(x, y, m)
        BY <3>0, <3>2, <3>3, <3>4, Zenon DEF Agree
      <4>2. QED
        BY <4>1, SameBytes, Zenon
    <3>6. QED
      BY <3>5 DEF x, y
  <2>9. QED
    BY <2>1, <2>3, <2>7, <2>8 DEF m
<1> HIDE DEF heardText
<1>14. ASSUME L \in 4 .. M - 1
       PROVE  \E m \in 0 .. n : heardText = SubSeq(text, 1, m)
  <2> DEFINE m == IF r - 5 < n THEN r - 5 ELSE n
  <2>1. heardText = SubSeq(text, 1, m) /\ r - 5 \in Nat /\ n \in Nat
    BY <1>12, <1>14, <1>1
  <2>2. m \in 0 .. n
    BY <2>1
  <2> HIDE DEF m
  <2>3. QED
    BY <2>1, <2>2
<1>15. ASSUME net = << >>, Len(sock) <= M
       PROVE  L \in 4 .. M - 1 /\ heardText = text
  <2>1. r = n + 6 /\ n \in Nat /\ n + 6 <= M
    BY <1>15, <1>1, <1>4, <1>9
  <2>2. L = n + 5 /\ L \in 4 .. M - 1
    BY <2>1, <1>2, <1>11
  <2>3. heardText = SubSeq(text, 1, n)
    BY <2>1, <2>2, <1>12
  <2>4. SubSeq(text, 1, n) = text
    <3>1. n <= Len(text) /\ text \in Seq(Int)
      BY <2>1, <1>1
    <3> DEFINE y == SubSeq(text, 1, n)
    <3>3. y \in Seq(Int) /\ Len(y) = n /\ \A i \in 1 .. n : y[i] = text[i]
      BY <3>1, <2>1, FirstBytes, Zenon
    <3> HIDE DEF y
    <3>4. y = text
      <4>1. Len(text) = n /\ text \in Seq(Int) /\ n \in Nat
        BY <2>1, <1>1
      <4>2. Agree(y, text, n)
        BY <3>3, <4>1, Zenon DEF Agree
      <4>3. QED
        BY <4>2, SameBytes, Zenon
    <3>5. QED
      BY <3>4 DEF y
  <2>5. QED
    BY <2>2, <2>3, <2>4
<1>16. ASSUME L \in M .. Huge - 1
       PROVE  Len(all) > M
  BY <1>16, <1>1, <1>2, <1>11
<1>17. Received[1] = Code.Q
  BY <1>1, <1>7 DEF Code
<1>18. Len(text) = n
  BY <1>1
<1>19. QED
  BY <1>14, <1>15, <1>16, <1>17, <1>18 DEF L, M, heardText, all

-----------------------------------------------------------------------------
(* The invariant, and how a connection starts.                             *)

\* Nothing has been asked or answered yet.
Silent ==
    /\ meant = << >> /\ seen = << >> /\ cut = FALSE
    /\ heard = None /\ query = None

\* The client has connected and said nothing.
Connected ==
    /\ phase = "connected" /\ state = "StartUp" /\ server = "open" /\ Silent
    /\ wire = << >> /\ inbox = << >> /\ sock = << >> /\ net = << >>

\* The request for SSL is under way.
Asking ==
    /\ phase = "ssl" /\ state = "StartUp" /\ server \in {"open", "exited"} /\ Silent
    /\ wire = << >> /\ inbox = << >>
    /\ server = "open" => sock \o net = SSLRequest

\* Its answer is.
Refused ==
    /\ phase = "ssl" /\ state = "NoSSLAcknowledged" /\ server = "open" /\ Silent
    /\ sock = << >> /\ net = << >>
    /\ \/ wire = <<Code.N>> /\ inbox = << >>
       \/ wire = << >> /\ inbox = <<Code.N>>

\* The start-up message is.
Starting ==
    /\ phase = "startup" /\ state = "NoSSLAcknowledged" /\ server \in {"open", "exited"}
    /\ Silent
    /\ wire = << >> /\ inbox = << >>
    /\ server = "open" => sock \o net = StartUpMessage

\* What is on its way to the server: bytes of a message it has answered
\* already, and the last message of the client, if that is not answered.
Coming ==
    \E stale, tail \in Seq(Int) :
        /\ sock \o net = stale \o tail
        /\ Clean(stale)
        /\ whole => stale = << >>
        /\ \/ tail = << >>
           \/ phase = "query" /\ tail = Query(query.text) /\ meant = << >>
           \/ phase = "closing" /\ tail = TerminateMessage

\* Replies are under way.
Ready ==
    /\ phase \in {"startup", "idle", "query", "closing"} /\ state = "ReadyForQuery"
    /\ Stream(meant, seen, inbox, wire, cut)
    /\ Fits(meant)
    /\ phase = "idle" => Len(seen) = Len(meant)
    /\ server = "open" => Coming
    /\ server = "killed" => phase = "query" /\ meant = << >>

\* What holds in every phase.
Sane ==
    /\ TypeOK
    /\ sock \in Seq(Int) /\ net \in Seq(Int)
    /\ phase = "query" => query \in Queries
    /\ WholeQueriesAreRun
    /\ OnlyPrefixesAreRun

\* A connection is in one of five phases.
SessionInv == Sane /\ (Connected \/ Asking \/ Refused \/ Starting \/ Ready)

\* It starts in the first.
LEMMA InitSession == Init => SessionInv
<1> SUFFICES ASSUME Init PROVE SessionInv
  OBVIOUS
<1> USE DEF Init, ReplyInit
<1>1. TypeOK
  <2>1. MaxAsks \in Nat
    BY QueryAssumption, Zenon
  <2>2. asks \in 0 .. MaxAsks
    BY <2>1
  <2>3. QED
    BY <2>2 DEF TypeOK
<1>2. Sane
  BY <1>1 DEF Sane, WholeQueriesAreRun, OnlyPrefixesAreRun
<1>3. Connected
  BY DEF Connected, Silent
<1>4. QED
  BY <1>2, <1>3 DEF SessionInv

\* The request for SSL is two words.
LEMMA SSLRequestBytes ==
    SSLRequest \in Seq(Int) /\ Len(SSLRequest) = 8
<1> DEFINE w == Word(8)
           v == <<4, 210, 22, 47>>
<1>1. w \in Seq(Int) /\ Len(w) = 4
  BY WordBytes
<1>2. v \in Seq(Int) /\ Len(v) = 4
  OBVIOUS
<1>3. SSLRequest = w \o v
  BY DEF SSLRequest
<1> HIDE DEF w, v
<1>4. w \o v \in Seq(Int) /\ Len(w \o v) = Len(w) + Len(v)
  BY <1>1, <1>2, ConcatBytes, Zenon
<1>5. QED
  BY <1>1, <1>2, <1>3, <1>4

\* Terminate is its letter and a length.
LEMMA TerminateBytes ==
    /\ TerminateMessage \in Seq(Int) /\ TerminateMessage # << >>
    /\ TerminateMessage[1] = Code.X
<1> DEFINE w == Word(4)
           x == <<Code.X>>
           m == x \o w
<1>1. w \in Seq(Int) /\ Len(w) = 4
  BY WordBytes
<1>2. x \in Seq(Int) /\ Len(x) = 1 /\ x[1] = Code.X
  BY DEF Code
<1>3. TerminateMessage = m
  BY DEF TerminateMessage
<1> HIDE DEF w, x
<1>4. /\ m \in Seq(Int) /\ Len(m) = Len(x) + Len(w)
      /\ \A i \in 1 .. Len(x) : m[i] = x[i]
  BY <1>1, <1>2, ConcatBytes, Zenon
<1> HIDE DEF m
<1>5. Len(m) = 5 /\ m[1] = Code.X
  BY <1>1, <1>2, <1>4
<1>6. m # << >>
  BY <1>5
<1>7. QED
  BY <1>3, <1>4, <1>5, <1>6

\* RequestSSL: the request follows nothing.
LEMMA RequestSSLSession == SessionInv /\ RequestSSL => SessionInv'
<1> SUFFICES ASSUME SessionInv, RequestSSL PROVE SessionInv'
  OBVIOUS
<1>1. Sane /\ Connected
  BY DEF SessionInv, RequestSSL, Asking, Refused, Starting, Ready
<1>2. /\ net' = net \o SSLRequest /\ phase' = "ssl"
      /\ UNCHANGED <<asks, query, sock, edge, state, server, heard, whole>>
      /\ UNCHANGED <<meant, wire, inbox, seen, cut>>
  BY DEF RequestSSL, Sends, serverVars, replyVars
<1>3. net' = SSLRequest /\ net' \in Seq(Int) /\ sock' \o net' = SSLRequest
  BY <1>1, <1>2, SSLRequestBytes, EmptyLeft DEF Connected
<1>4. TypeOK'
  BY <1>1, <1>2 DEF Sane, TypeOK, Connected
<1>5. Sane'
  BY <1>1, <1>2, <1>3, <1>4 DEF Sane, Connected, Silent, WholeQueriesAreRun,
     OnlyPrefixesAreRun
<1>6. Asking'
  BY <1>1, <1>2, <1>3 DEF Asking, Connected, Silent
<1>7. QED
  BY <1>5, <1>6 DEF SessionInv

\* StartUp: the start-up message follows the answer to the request.
LEMMA StartUpSession == SessionInv /\ StartUp => SessionInv'
<1> SUFFICES ASSUME SessionInv, StartUp PROVE SessionInv'
  OBVIOUS
<1>0. <<Code.N>> # << >>
  OBVIOUS
<1>1. Sane /\ Refused /\ inbox = <<Code.N>> /\ wire = << >>
  BY <1>0 DEF SessionInv, StartUp, ReadNoSSL, Connected, Asking, Refused, Starting, Ready
<1>2. /\ net' = net \o StartUpMessage /\ phase' = "startup" /\ inbox' = << >>
      /\ UNCHANGED <<asks, query, sock, edge, state, server, heard, whole>>
      /\ UNCHANGED <<meant, wire, seen, cut>>
  BY DEF StartUp, Sends, ReadNoSSL, serverVars
<1>3. net' \in Seq(Int) /\ sock' \o net' = StartUpMessage
  BY <1>1, <1>2, StartUpBytes, EmptyLeft DEF Refused
<1>4. TypeOK'
  BY <1>1, <1>2 DEF Sane, TypeOK, Refused
<1>5. Sane'
  BY <1>1, <1>2, <1>3, <1>4 DEF Sane, Refused, Silent, WholeQueriesAreRun,
     OnlyPrefixesAreRun
<1>6. Starting'
  BY <1>1, <1>2, <1>3 DEF Starting, Refused, Silent
<1>7. QED
  BY <1>5, <1>6 DEF SessionInv

-----------------------------------------------------------------------------
(* The steps of the client and of the network.                             *)

\* A reply can be read only when it is there, so the query is answered.
LEMMA ReadReplySession == SessionInv /\ ReadReply => SessionInv'
<1> SUFFICES ASSUME SessionInv, ReadReply PROVE SessionInv'
  OBVIOUS
<1> DEFINE message == SubSeq(inbox, 1, 1 + inbox[2])
           more == SubSeq(inbox, 2 + inbox[2], Len(inbox))
<1>0. inbox # << >>
  <2>1. Len(inbox) >= 5
    BY DEF ReadReply, ReadMessage
  <2>2. Len(<< >>) = 0
    OBVIOUS
  <2>3. QED
    BY <2>1, <2>2
<1>1. Sane /\ Ready /\ phase \in {"startup", "query"}
  BY <1>0 DEF SessionInv, ReadReply, Connected, Asking, Refused, Starting
<1>2. /\ seen' = Append(seen, message) /\ inbox' = more
      /\ phase' = IF inbox[1] = Code.Z THEN "idle" ELSE phase
      /\ UNCHANGED <<asks, query, net, sock, edge, state, server, heard, whole>>
      /\ UNCHANGED <<meant, wire, cut>>
      /\ Len(inbox) >= 5 /\ Len(inbox) >= 1 + inbox[2]
  BY DEF ReadReply, ReadMessage, serverVars
<1>3. /\ Stream(meant, Append(seen, message), more, wire, cut)
      /\ inbox[1] = Code.Z <=> Len(Append(seen, message)) = Len(meant)
  <2>1. Stream(meant, seen, inbox, wire, cut)
    BY <1>1 DEF Ready
  <2>2. QED
    BY <1>2, <2>1, StreamRead, Zenon
<1> HIDE DEF message, more
<1>4. Stream(meant', seen', inbox', wire', cut')
  BY <1>2, <1>3
<1>5. meant # << >>
  <2>1. Stream(meant, seen, inbox, wire, cut)
    BY <1>1 DEF Ready
  <2>2. QED
    BY <1>0, <2>1, StreamOfNothing
<1>6. server' = "open" => Coming'
  <2> SUFFICES ASSUME server = "open" PROVE Coming'
    BY <1>2
  <2>1. PICK stale, tail \in Seq(Int) :
          /\ sock \o net = stale \o tail
          /\ Clean(stale)
          /\ whole => stale = << >>
          /\ tail = << >>
    BY <1>1, <1>5, Zenon DEF Ready, Coming
  <2>2. QED
    BY <1>2, <2>1 DEF Coming
<1>7. TypeOK'
  BY <1>1, <1>2 DEF Sane, TypeOK, Ready
<1>8. Sane'
  BY <1>1, <1>2, <1>7 DEF Sane, WholeQueriesAreRun, OnlyPrefixesAreRun
<1>9. Ready'
  <2>1. phase' = "idle" => Len(seen') = Len(meant')
    BY <1>1, <1>2, <1>3
  <2>2. Fits(meant') /\ state' = "ReadyForQuery"
    BY <1>1, <1>2 DEF Ready
  <2>3. phase' \in {"startup", "idle", "query", "closing"}
    BY <1>1, <1>2
  <2>4. QED
    BY <1>1, <1>2, <1>4, <1>5, <1>6, <2>1, <2>2, <2>3 DEF Ready
<1>10. QED
  BY <1>8, <1>9 DEF SessionInv

\* An idle client has read all of the reply.
LEMMA IdleIsRead ==
    ASSUME Ready, phase = "idle"
    PROVE  seen = meant /\ inbox = << >> /\ wire = << >> /\ ~cut
BY StreamEnd, Zenon DEF Ready

\* What an idle client sends follows what is on its way.
LEMMA IdleSends ==
    ASSUME Sane, Ready, phase = "idle", server = "open", NEW message \in Seq(Int)
    PROVE  \E stale \in Seq(Int) :
              /\ sock \o (net \o message) = stale \o message
              /\ Clean(stale)
              /\ whole => stale = << >>
<1>1. PICK stale, tail \in Seq(Int) :
          /\ sock \o net = stale \o tail
          /\ Clean(stale)
          /\ whole => stale = << >>
          /\ tail = << >>
  BY Zenon DEF Ready, Coming
<1>2. sock \o net = stale
  BY <1>1, EmptyLeft
<1>3. sock \o (net \o message) = (sock \o net) \o message
  <2>1. sock \in Seq(Int) /\ net \in Seq(Int)
    BY DEF Sane
  <2>2. QED
    <3>1. Associate(sock, net, message)
      BY <2>1, BytesAssociate, Zenon
    <3>2. QED
      BY <3>1, Zenon DEF Associate
<1>4. QED
  BY <1>1, <1>2, <1>3

\* Ask: the old reply is read, so it can be forgotten.
LEMMA AskSession ==
    ASSUME SessionInv, NEW q \in Queries, Ask(q)
    PROVE  SessionInv'
<1>1. Sane /\ Ready /\ phase = "idle"
  BY DEF SessionInv, Ask, Connected, Asking, Refused, Starting
<1>2. /\ net' = net \o Query(q.text) /\ phase' = "query" /\ query' = q /\ heard' = None
      /\ asks < MaxAsks /\ asks' = asks + 1
      /\ UNCHANGED <<sock, edge, state, server, whole>>
      /\ meant' = << >> /\ seen' = << >> /\ UNCHANGED <<wire, inbox, cut>>
  BY DEF Ask, Sends, ForgetReply
<1>3. /\ q.text \in Seq(TextBytes) /\ q.text # << >> /\ q # None /\ MaxAsks \in Nat
  BY QueryAssumption, Zenon
<1>4. Query(q.text) \in Seq(Int)
  BY <1>3, QueryBytes, Zenon DEF IsQuery
<1>5. net' \in Seq(Int) /\ sock' \in Seq(Int)
  <2>1. net \o Query(q.text) \in Seq(Int)
    BY <1>1, <1>4, ConcatBytes, Zenon DEF Sane
  <2>2. QED
    BY <2>1, <1>1, <1>2 DEF Sane
<1>6. Stream(meant', seen', inbox', wire', cut')
  <2>1. inbox = << >> /\ wire = << >> /\ cut = FALSE
    BY <1>1, IdleIsRead DEF Sane, TypeOK
  <2>2. QED
    BY <1>2, <2>1, StreamStart
<1>7. Fits(meant')
  <2>1. Len(<< >>) = 0
    OBVIOUS
  <2>2. QED
    BY <1>2, <2>1 DEF Fits
<1>8. server' = "open" => Coming'
  <2> SUFFICES ASSUME server = "open" PROVE Coming'
    BY <1>2
  <2>1. PICK stale \in Seq(Int) :
          /\ sock \o (net \o Query(q.text)) = stale \o Query(q.text)
          /\ Clean(stale)
          /\ whole => stale = << >>
    BY <1>1, <1>4, IdleSends
  <2>2. /\ sock' \o net' = stale \o Query(q.text)
        /\ Clean(stale)
        /\ whole' => stale = << >>
        /\ phase' = "query" /\ Query(q.text) = Query(query'.text) /\ meant' = << >>
    BY <1>2, <2>1
  <2>3. QED
    BY <1>4, <2>2, Zenon DEF Coming
<1>9. TypeOK'
  <2>1. asks' \in 0 .. MaxAsks
    BY <1>1, <1>2, <1>3 DEF Sane, TypeOK
  <2>2. QED
    BY <1>1, <1>2, <1>3, <2>1 DEF Sane, TypeOK
<1>10. Sane'
  <2>1. WholeQueriesAreRun'
    BY <1>1, <1>2 DEF Sane, Ready, WholeQueriesAreRun
  <2>2. OnlyPrefixesAreRun'
    BY <1>2 DEF OnlyPrefixesAreRun
  <2>3. QED
    BY <1>2, <1>5, <1>9, <2>1, <2>2 DEF Sane
<1>11. Ready'
  BY <1>1, <1>2, <1>6, <1>7, <1>8 DEF Ready
<1>12. QED
  BY <1>10, <1>11 DEF SessionInv

\* Terminate: the message follows what is on its way.
LEMMA TerminateSession == SessionInv /\ Terminate => SessionInv'
<1> SUFFICES ASSUME SessionInv, Terminate PROVE SessionInv'
  OBVIOUS
<1>1. Sane /\ Ready /\ phase = "idle"
  BY DEF SessionInv, Terminate, Connected, Asking, Refused, Starting
<1>2. /\ net' = net \o TerminateMessage /\ phase' = "closing"
      /\ UNCHANGED <<asks, query, sock, edge, state, server, heard, whole>>
      /\ UNCHANGED <<meant, wire, inbox, seen, cut>>
  BY DEF Terminate, Sends, serverVars, replyVars
<1>3. net' \in Seq(Int) /\ sock' \in Seq(Int)
  <2>1. net \o TerminateMessage \in Seq(Int)
    BY <1>1, TerminateBytes, ConcatBytes, Zenon DEF Sane
  <2>2. QED
    BY <2>1, <1>1, <1>2 DEF Sane
<1>4. server' = "open" => Coming'
  <2> SUFFICES ASSUME server = "open" PROVE Coming'
    BY <1>2
  <2>1. PICK stale \in Seq(Int) :
          /\ sock \o (net \o TerminateMessage) = stale \o TerminateMessage
          /\ Clean(stale)
          /\ whole => stale = << >>
    BY <1>1, TerminateBytes, IdleSends
  <2>2. /\ sock' \o net' = stale \o TerminateMessage
        /\ Clean(stale)
        /\ whole' => stale = << >>
        /\ phase' = "closing"
    BY <1>2, <2>1
  <2>3. QED
    BY TerminateBytes, <2>2, Zenon DEF Coming
<1>5. TypeOK'
  BY <1>1, <1>2 DEF Sane, TypeOK
<1>6. Sane'
  BY <1>1, <1>2, <1>3, <1>5 DEF Sane, WholeQueriesAreRun, OnlyPrefixesAreRun
<1>7. Ready'
  BY <1>1, <1>2, <1>4 DEF Ready
<1>8. QED
  BY <1>6, <1>7 DEF SessionInv

\* Deliver: bytes move on and stay in order.
LEMMA DeliverSession == SessionInv /\ Deliver => SessionInv'
<1> SUFFICES ASSUME SessionInv, Deliver PROVE SessionInv'
  OBVIOUS
<1>1. PICK n \in 1 .. Len(net) :
        /\ sock' = sock \o SubSeq(net, 1, n)
        /\ net' = SubSeq(net, n + 1, Len(net))
  BY DEF Deliver
<1>2. /\ server = "open" /\ edge' = TRUE
      /\ UNCHANGED <<phase, asks, query, state, server, heard, whole>>
      /\ UNCHANGED <<meant, wire, inbox, seen, cut>>
  BY DEF Deliver, clientVars, replyVars
<1>3. Sane
  BY DEF SessionInv
<1>4. /\ sock' \in Seq(Int) /\ net' \in Seq(Int) /\ sock' # << >>
      /\ sock' \o net' = sock \o net
  BY <1>1, <1>3, DeliverBytes DEF Sane
<1>5. net # << >>
  <2>1. Len(<< >>) = 0
    OBVIOUS
  <2>2. ~(n \in 1 .. 0)
    OBVIOUS
  <2>3. QED
    BY <1>1, <2>1, <2>2
<1>6. TypeOK'
  BY <1>2, <1>3, <1>4 DEF Sane, TypeOK
<1>7. Sane'
  BY <1>2, <1>3, <1>4, <1>6 DEF Sane, WholeQueriesAreRun, OnlyPrefixesAreRun
<1>8. Asking \/ Starting \/ Ready
  BY <1>5 DEF SessionInv, Connected, Refused
<1>9. Asking => Asking'
  BY <1>2, <1>4 DEF Asking, Silent
<1>10. Starting => Starting'
  BY <1>2, <1>4 DEF Starting, Silent
<1>11. Ready => Ready'
  <2>1. ASSUME Coming PROVE Coming'
    BY <1>2, <1>4, <2>1 DEF Coming
  <2>2. QED
    BY <1>2, <2>1 DEF Ready
<1>12. QED
  BY <1>7, <1>8, <1>9, <1>10, <1>11 DEF SessionInv

\* ReplyArrives: so do those of the reply.
LEMMA ReplyArrivesSession == SessionInv /\ ReplyArrives => SessionInv'
<1> SUFFICES ASSUME SessionInv, ReplyArrives PROVE SessionInv'
  OBVIOUS
<1>1. /\ wire # << >>
      /\ inbox' = Append(inbox, Head(wire)) /\ wire' = Tail(wire)
      /\ UNCHANGED <<meant, seen, cut>>
      /\ UNCHANGED <<phase, asks, query, net, sock, edge, state, server, heard, whole>>
  BY DEF ReplyArrives, Arrive, clientVars, serverVars
<1>2. Sane /\ (Refused \/ Ready)
  BY <1>1 DEF SessionInv, Connected, Asking, Starting
<1>3. TypeOK'
  BY <1>1, <1>2 DEF Sane, TypeOK
<1>4. Sane'
  BY <1>1, <1>2, <1>3 DEF Sane, WholeQueriesAreRun, OnlyPrefixesAreRun
<1>5. CASE Refused
  <2>1. wire = <<Code.N>> /\ inbox = << >>
    BY <1>1, <1>5 DEF Refused
  <2>2. wire' = << >> /\ inbox' = <<Code.N>>
    BY <1>1, <2>1
  <2>3. Refused'
    BY <1>1, <1>5, <2>2 DEF Refused, Silent
  <2>4. QED
    BY <1>4, <2>3 DEF SessionInv
<1>6. CASE Ready
  <2>1. Stream(meant, seen, Append(inbox, Head(wire)), Tail(wire), cut)
    BY <1>1, <1>6, StreamArrive, Zenon DEF Ready
  <2>2. Stream(meant', seen', inbox', wire', cut')
    BY <1>1, <2>1
  <2>3. Coming => Coming'
    BY <1>1 DEF Coming
  <2>4. Ready'
    BY <1>1, <1>6, <2>2, <2>3 DEF Ready
  <2>5. QED
    BY <1>4, <2>4 DEF SessionInv
<1>7. QED
  BY <1>2, <1>5, <1>6

-----------------------------------------------------------------------------
(* The server's answers to a start-up.                                     *)

\* What recv leaves.
LEMMA Leftover ==
    ASSUME Sane, sock # << >>, Receives
    PROVE  /\ UNCHANGED <<phase, asks, query, net>>
           /\ sock' \in Seq(Int) /\ net' \in Seq(Int)
           /\ \E r \in Nat \ {0} : SplitAt(sock \o net, Received, sock' \o net', r)
           /\ whole' => /\ whole /\ net = << >> /\ Len(sock) <= MaxMessageLen
                        /\ sock' \o net' = << >>
<1> DEFINE M == MaxMessageLen
           r == IF M < Len(sock) THEN M ELSE Len(sock)
           rest == SubSeq(sock, M + 1, Len(sock)) \o net
<1>1. /\ sock' = SubSeq(sock, M + 1, Len(sock))
      /\ whole' = (whole /\ net = << >> /\ Len(sock) <= M)
      /\ UNCHANGED <<phase, asks, query, net>>
  BY DEF Receives, clientVars
<1>2. sock \in Seq(Int) /\ net \in Seq(Int) /\ Len(sock) \in Nat /\ Len(sock) # 0
  <2>1. sock \in Seq(Int) /\ net \in Seq(Int)
    BY DEF Sane
  <2>2. QED
    BY <2>1
<1>3. M \in Nat /\ M >= 5
  BY BufferType
<1>4. r \in Nat /\ r # 0 /\ (Len(sock) <= M => r = Len(sock))
  BY <1>2, <1>3
<1>5. /\ SubSeq(sock, M + 1, Len(sock)) \in Seq(Int)
      /\ SplitAt(sock \o net, Take(sock, M), rest, r)
  BY <1>2, <1>3, <1>4, ReceiveBytes
<1>6. sock' \o net' = rest
  BY <1>1
<1> HIDE DEF rest, r
<1>7. SplitAt(sock \o net, Received, sock' \o net', r)
  BY <1>5, <1>6 DEF Received
<1>8. ASSUME whole'
      PROVE  whole /\ net = << >> /\ Len(sock) <= M /\ sock' \o net' = << >>
  <2>1. whole /\ net = << >> /\ Len(sock) <= M
    BY <1>1, <1>8
  <2>2. sock \o net = sock
    BY <2>1, <1>2, EmptyLeft
  <2>3. rest \in Seq(Int) /\ Len(sock \o net) = r + Len(rest)
    BY <1>5 DEF SplitAt
  <2>4. Len(rest) = 0
    BY <2>1, <2>2, <2>3, <1>2, <1>4, LenType
  <2>5. rest = << >>
    BY <2>3, <2>4
  <2>6. QED
    BY <2>1, <2>5, <1>6
<1>9. QED
  BY <1>1, <1>2, <1>4, <1>5, <1>7, <1>8

\* A good reply after nothing.
LEMMA SendGood ==
    ASSUME Stream(meant, seen, inbox, wire, cut), meant = << >>, cut \in BOOLEAN,
           NEW messages, GoodReply(messages), SendAll(messages)
    PROVE  Stream(meant', seen', inbox', wire', cut') /\ Fits(meant') /\ cut' \in BOOLEAN
<1> DEFINE buffer == Package(messages)[Len(messages)]
<1>1. /\ meant' = meant \o Parts(messages)
      /\ UNCHANGED <<inbox, seen>>
  BY DEF SendAll
<1>2. PICK room \in Rooms :
          /\ wire' = wire \o Take(buffer, room)
          /\ cut' = (cut \/ room < Len(buffer))
  BY Zenon DEF SendAll
<1>3. seen = << >> /\ inbox = << >> /\ wire = << >> /\ cut = FALSE
  BY StreamOfNothing
<1>4. IsReply(messages) /\ Fits(Parts(messages))
  BY DEF GoodReply
<1>5. room \in Nat
  BY LengthAssumption
<1>6. Stream(Parts(messages), << >>, << >>, Take(buffer, room), room < Len(buffer))
  BY <1>4, <1>5, StreamReply
<1> HIDE DEF buffer
<1>7. Parts(messages) \in Seq(Seq(Int)) /\ Take(buffer, room) \in Seq(Int)
  BY <1>6, StreamPrefix, Zenon
<1>8. meant' = Parts(messages)
  <2> DEFINE parts == Parts(messages)
  <2>1. parts \in Seq(Seq(Int)) /\ meant' = << >> \o parts
    BY <1>1, <1>7
  <2> HIDE DEF parts
  <2>2. meant' = parts
    BY <2>1
  <2>3. QED
    BY <2>2 DEF parts
<1>9. wire' = Take(buffer, room)
  BY <1>2, <1>3, <1>7, EmptyLeft
<1>10. cut' = (room < Len(buffer))
  BY <1>2, <1>3
<1>11. QED
  BY <1>1, <1>3, <1>4, <1>6, <1>8, <1>9, <1>10

\* HandleStartUp: the request for SSL is refused, or killed if it is not whole.
LEMMA HandleStartUpSession == SessionInv /\ HandleStartUp => SessionInv'
<1> SUFFICES ASSUME SessionInv, HandleStartUp PROVE SessionInv'
  OBVIOUS
<1>1. /\ server = "open" /\ edge /\ state = "StartUp" /\ edge' = FALSE
      /\ sock' = SubSeq(sock, 9, Len(sock))
      /\ whole' = (whole /\ net = << >>)
      /\ UNCHANGED <<phase, asks, query, net>>
  BY DEF HandleStartUp, Handles, clientVars
<1>2. Sane /\ sock # << >>
  BY <1>1 DEF SessionInv, Sane, TypeOK
<1>3. Asking
  BY <1>1, <1>2 DEF SessionInv, Connected, Refused, Starting, Ready
<1>4. sock \o net = SSLRequest /\ sock \in Seq(Int) /\ net \in Seq(Int)
  BY <1>1, <1>2, <1>3 DEF Asking, Sane
<1> DEFINE r == IF 8 < Len(sock) THEN 8 ELSE Len(sock)
           first == Take(sock, 8)
           rest == sock' \o net'
<1>5. r \in Nat /\ r = IF 8 < Len(sock) THEN 8 ELSE Len(sock)
  <2>1. Len(sock) \in Nat
    BY <1>4, LenType
  <2>2. QED
    BY <2>1
<1> HIDE DEF r
<1>6. sock' \in Seq(Int) /\ SplitAt(SSLRequest, first, rest, r)
  <2> DEFINE k == 8
  <2>1. k + 1 = 9 /\ k \in Nat /\ k = 8
    OBVIOUS
  <2> HIDE DEF k
  <2>2. r = IF k < Len(sock) THEN k ELSE Len(sock)
    BY <1>5, <2>1
  <2>3. /\ SubSeq(sock, k + 1, Len(sock)) \in Seq(Int)
        /\ SplitAt(sock \o net, Take(sock, k), SubSeq(sock, k + 1, Len(sock)) \o net, r)
    BY <1>4, <1>5, <2>1, <2>2, ReceiveBytes
  <2>4. first = Take(sock, k) /\ rest = SubSeq(sock, k + 1, Len(sock)) \o net
    BY <1>1, <2>1
  <2> HIDE DEF first, rest
  <2>5. SplitAt(SSLRequest, first, rest, r)
    BY <1>4, <2>3, <2>4, Zenon
  <2>6. QED
    BY <1>1, <2>1, <2>3, <2>5
<1> HIDE DEF first, rest
<1>7. /\ first \in Seq(Int) /\ rest \in Seq(Int) /\ Len(first) = r
      /\ 8 = r + Len(rest) /\ Len(rest) \in Nat
  BY <1>6, SSLRequestBytes, LenType DEF SplitAt
<1>8. CASE /\ first = SSLRequest
           /\ SendNoSSL
           /\ state' = "NoSSLAcknowledged"
           /\ UNCHANGED <<server, heard>>
  <2>1. Len(rest) = 0
    <3>1. Len(first) = 8
      BY <1>8, SSLRequestBytes
    <3> DEFINE b == Len(rest)
    <3>2. b \in Nat /\ 8 = 8 + b
      BY <1>7, <3>1
    <3> HIDE DEF b
    <3>3. b = 0
      BY <3>2
    <3>4. QED
      BY <3>3 DEF b
  <2>2. Len(rest) = Len(sock') + Len(net') /\ net' \in Seq(Int)
    BY <1>1, <1>4, <1>6, ConcatBytes, Zenon DEF rest
  <2>3. Len(sock') = 0 /\ Len(net') = 0
    <3>1. Len(sock') \in Nat /\ Len(net') \in Nat
      BY <1>6, <2>2, LenType
    <3> DEFINE a == Len(sock')
               b == Len(net')
    <3>2. a \in Nat /\ b \in Nat /\ a + b = 0
      BY <2>1, <2>2, <3>1
    <3> HIDE DEF a, b
    <3>3. a = 0 /\ b = 0
      BY <3>2
    <3>4. QED
      BY <3>3 DEF a, b
  <2>4. sock' = << >> /\ net' = << >>
    BY <2>2, <2>3, <1>6
  <2>5. wire' = <<Code.N>> /\ UNCHANGED <<meant, inbox, seen, cut>>
    BY <1>3, <1>8 DEF SendNoSSL, Asking
  <2>6. TypeOK'
    BY <1>1, <1>2, <1>3, <1>8, <2>5 DEF Sane, TypeOK, Asking
  <2>7. Sane'
    BY <1>1, <1>2, <1>3, <1>6, <1>8, <2>2, <2>6
       DEF Sane, WholeQueriesAreRun, OnlyPrefixesAreRun, Asking, Silent
  <2>8. Refused'
    BY <1>1, <1>3, <1>8, <2>4, <2>5 DEF Refused, Asking, Silent
  <2>9. QED
    BY <2>7, <2>8 DEF SessionInv
<1>9. CASE first # SSLRequest /\ Dies
  <2>1. /\ server' = "exited" /\ UNCHANGED <<state, heard, meant, wire, inbox, seen, cut>>
    BY <1>9 DEF Dies, replyVars
  <2>2. ~whole'
    <3>1. ASSUME net = << >> PROVE FALSE
      <4>1. sock = SSLRequest
        BY <1>4, <3>1, EmptyLeft
      <4>2. Take(SSLRequest, 8) = SSLRequest
        <5>1. Take(SSLRequest, 8) = SubSeq(SSLRequest, 1, 8)
          BY SSLRequestBytes DEF Take
        <5> DEFINE a == SSLRequest
                   b == SubSeq(SSLRequest, 1, 8)
        <5>2. a \in Seq(Int) /\ Len(a) = 8 /\ 8 \in Nat /\ 8 <= Len(a)
          BY SSLRequestBytes
        <5>3. b \in Seq(Int) /\ Len(b) = 8 /\ \A i \in 1 .. 8 : b[i] = a[i]
          BY <5>2, FirstBytes, Zenon
        <5> HIDE DEF a, b
        <5>4. b = a
          BY <5>2, <5>3, SeqEqual
        <5>5. QED
          BY <5>1, <5>4 DEF a, b
      <4>3. QED
        BY <4>1, <4>2, <1>9 DEF first
    <3>2. QED
      BY <3>1, <1>1
  <2>3. net' \in Seq(Int)
    BY <1>1, <1>4
  <2>4. TypeOK'
    BY <1>1, <1>2, <1>3, <2>1 DEF Sane, TypeOK, Asking
  <2>5. Sane'
    BY <1>1, <1>2, <1>3, <1>6, <2>1, <2>2, <2>3, <2>4
       DEF Sane, WholeQueriesAreRun, OnlyPrefixesAreRun, Asking, Silent
  <2>6. Asking'
    BY <1>1, <1>3, <2>1 DEF Asking, Silent
  <2>7. QED
    BY <2>5, <2>6 DEF SessionInv
<1>10. QED
  BY <1>8, <1>9 DEF HandleStartUp, first

\* HandleNoSSL: the start-up is answered, and bytes not received yet stay clean.
LEMMA HandleNoSSLSession == SessionInv /\ HandleNoSSL => SessionInv'
<1> SUFFICES ASSUME SessionInv, HandleNoSSL PROVE SessionInv'
  OBVIOUS
<1>1. /\ server = "open" /\ edge /\ state = "NoSSLAcknowledged" /\ edge' = FALSE
      /\ Receives
  BY DEF HandleNoSSL, Handles
<1>2. Sane /\ sock # << >>
  BY <1>1 DEF SessionInv, Sane, TypeOK
<1>3. Starting
  BY <1>1, <1>2 DEF SessionInv, Connected, Asking, Refused, Ready
<1>4. sock \o net = StartUpMessage
  BY <1>1, <1>3 DEF Starting
<1>5. /\ UNCHANGED <<phase, asks, query, net>>
      /\ sock' \in Seq(Int) /\ net' \in Seq(Int)
      /\ whole' => /\ whole /\ net = << >> /\ Len(sock) <= MaxMessageLen
                   /\ sock' \o net' = << >>
  BY <1>1, <1>2, Leftover, Zenon
<1>6. PICK r \in Nat \ {0} : SplitAt(StartUpMessage, Received, sock' \o net', r)
  BY <1>1, <1>2, <1>4, Leftover, Zenon
<1>7. sock' \o net' \in Seq(Int) /\ Clean(sock' \o net')
      /\ Len(Received) = r /\ Len(StartUpMessage) = r + Len(sock' \o net')
  <2>1. Clean(sock' \o net')
    BY <1>6, StartUpBytes, CleanRest
  <2>2. QED
    BY <2>1, <1>6 DEF SplitAt
<1>8. CASE /\ SendReady
           /\ state' = "ReadyForQuery"
           /\ UNCHANGED <<server, heard>>
  <2>1. PICK order \in SetToSeqs(Params) :
          SendAll(<<Kind("auth")>>
                \o [i \in DOMAIN order |->
                      [kind |-> "param", param |-> order[i]]]
                \o <<Kind("key"), Kind("ready")>>)
    BY <1>8, Zenon DEF SendReady
  <2>2. GoodReply(<<Kind("auth")>>
                \o [i \in DOMAIN order |->
                      [kind |-> "param", param |-> order[i]]]
                \o <<Kind("key"), Kind("ready")>>)
    BY ReadyIsGood
  <2>3. Stream(meant, seen, inbox, wire, cut) /\ meant = << >> /\ cut \in BOOLEAN
    BY <1>3, StreamStart DEF Starting, Silent
  <2>4. Stream(meant', seen', inbox', wire', cut') /\ Fits(meant') /\ cut' \in BOOLEAN
    BY <2>1, <2>2, <2>3, SendGood, Zenon
  <2>5. TypeOK'
    BY <1>1, <1>2, <1>3, <1>5, <1>8, <2>4 DEF Sane, TypeOK, Starting, Receives
  <2>6. Sane'
    BY <1>1, <1>2, <1>3, <1>5, <1>8, <2>5
       DEF Sane, WholeQueriesAreRun, OnlyPrefixesAreRun, Starting, Silent
  <2>7. Coming'
    <3> DEFINE stale == sock' \o net'
    <3>1. stale \in Seq(Int) /\ << >> \in Seq(Int) /\ stale \o << >> = stale
      BY <1>7, EmptyLeft
    <3>2. QED
      BY <3>1, <1>5, <1>7 DEF Coming
  <2>8. Ready'
    BY <1>3, <1>5, <1>8, <2>4, <2>7 DEF Ready, Starting
  <2>9. QED
    BY <2>6, <2>8 DEF SessionInv
<1>9. CASE Len(Received) < 4 /\ Dies
  <2>1. /\ server' = "exited" /\ UNCHANGED <<state, heard, meant, wire, inbox, seen, cut>>
    BY <1>9 DEF Dies, replyVars
  <2>2. ~whole'
    <3>1. ASSUME whole' PROVE FALSE
      <4>1. Len(sock' \o net') = 0
        BY <1>5, <3>1
      <4>2. QED
        BY <4>1, <1>7, <1>9, StartUpBytes
    <3>2. QED
      BY <3>1
  <2>3. whole' \in BOOLEAN
    BY <1>1 DEF Receives
  <2>4. TypeOK'
    BY <1>1, <1>2, <1>3, <1>5, <2>1, <2>3 DEF Sane, TypeOK, Starting
  <2>5. Sane'
    BY <1>1, <1>2, <1>3, <1>5, <2>1, <2>2, <2>4
       DEF Sane, WholeQueriesAreRun, OnlyPrefixesAreRun, Starting, Silent
  <2>6. Starting'
    BY <1>3, <1>5, <2>1 DEF Starting, Silent
  <2>7. QED
    BY <2>5, <2>6 DEF SessionInv
<1>10. QED
  BY <1>8, <1>9 DEF HandleNoSSL

-----------------------------------------------------------------------------
(* The server's answers to queries, and the end of a connection.           *)

\* The first characters of a text are a prefix of it.
LEMMA PrefixOf ==
    ASSUME NEW text \in Seq(Int), NEW m \in 0 .. Len(text)
    PROVE  IsPrefix(SubSeq(text, 1, m), text)
<1> DEFINE u == SubSeq(text, 1, m)
<1>1. m \in Nat /\ m <= Len(text)
  BY LenType
<1>2. u \in Seq(Int) /\ Len(u) = m /\ \A i \in 1 .. m : u[i] = text[i]
  BY <1>1, FirstBytes, Zenon
<1> DEFINE v == SubSeq(u, 1, m)
<1> HIDE DEF u
<1>3. v \in Seq(Int) /\ Len(v) = m /\ \A i \in 1 .. m : v[i] = u[i]
  <2>1. m <= Len(u)
    BY <1>1, <1>2
  <2>2. QED
    BY <2>1, <1>1, <1>2, FirstBytes, Zenon
<1> HIDE DEF v
<1>4. v = u
  BY <1>2, <1>3, SeqEqual
<1>5. SubSeq(u, 1, Len(u)) = SubSeq(text, 1, Len(u))
  <2>1. SubSeq(u, 1, m) = SubSeq(text, 1, m)
    BY <1>4 DEF u, v
  <2>2. QED
    BY <2>1, <1>2
<1>6. IsPrefix(u, text)
  BY <1>1, <1>2, <1>5 DEF IsPrefix
<1>7. QED
  BY <1>6 DEF u

\* What an event for a client in the middle of the protocol is about.
LEMMA WhatComes ==
    ASSUME Sane, Ready, server = "open", sock # << >>
    PROVE  \/ /\ ~whole
              /\ \E stale, tail \in Seq(Int) :
                    /\ stale # << >> /\ Clean(stale)
                    /\ tail = << >> \/ tail[1] # 0
                    /\ sock \o net = stale \o tail
           \/ /\ phase = "query" /\ meant = << >>
              /\ sock \o net = Query(query.text)
           \/ /\ phase = "closing"
              /\ sock \o net = TerminateMessage
<1>1. PICK stale, tail \in Seq(Int) :
        /\ sock \o net = stale \o tail
        /\ Clean(stale)
        /\ whole => stale = << >>
        /\ \/ tail = << >>
           \/ phase = "query" /\ tail = Query(query.text) /\ meant = << >>
           \/ phase = "closing" /\ tail = TerminateMessage
  BY Zenon DEF Ready, Coming
<1>2. tail = << >> \/ tail[1] # 0
  <2>1. ASSUME phase = "query", tail = Query(query.text) PROVE tail[1] # 0
    <3>1. query \in Queries
      BY <2>1 DEF Sane
    <3>2. query.text \in Seq(TextBytes) /\ query.text # << >>
      BY <3>1, QueryAssumption, Zenon
    <3>3. Query(query.text)[1] = 81
      BY <3>2, QueryBytes, Zenon DEF IsQuery
    <3>4. QED
      BY <2>1, <3>3
  <2>2. ASSUME tail = TerminateMessage PROVE tail[1] # 0
    BY <2>2, TerminateBytes DEF Code
  <2>3. QED
    BY <1>1, <2>1, <2>2
<1>3. CASE stale # << >>
  BY <1>1, <1>2, <1>3
<1>4. CASE stale = << >>
  <2>1. sock \o net = tail
    BY <1>1, <1>4, EmptyLeft
  <2>2. tail # << >>
    <3>1. sock \in Seq(Int) /\ net \in Seq(Int)
      BY DEF Sane
    <3>2. Len(sock \o net) = Len(sock) + Len(net) /\ Len(sock) \in Nat /\ Len(net) \in Nat
      BY <3>1, ConcatBytes, LenType, Zenon
    <3>3. Len(sock) # 0
      BY <3>1
    <3>4. Len(sock \o net) # 0
      BY <3>2, <3>3
    <3>5. Len(<< >>) = 0
      OBVIOUS
    <3>6. QED
      BY <2>1, <3>4, <3>5
  <2>3. QED
    BY <1>1, <2>1, <2>2
<1>5. QED
  BY <1>3, <1>4

\* The first byte received is the first byte sent.
LEMMA FirstReceived ==
    ASSUME NEW all, NEW rest, NEW r \in Nat \ {0}, SplitAt(all, Received, rest, r)
    PROVE  Received[1] = all[1]
<1>1. 1 \in 1 .. r
  OBVIOUS
<1>2. QED
  BY <1>1 DEF SplitAt

\* A text that is heard is answered with a good reply, or it ends the process,
\* which a query of the client does only if it may.
LEMMA RunAnswers ==
    ASSUME Sane, Ready, meant = << >>, NEW text, Run(text)
    PROVE  /\ heard' = text /\ state' = state
           /\ Stream(meant', seen', inbox', wire', cut')
           /\ Fits(meant') /\ cut' \in BOOLEAN
           /\ \/ server' = server
              \/ /\ server' = "killed" /\ meant' = << >>
                 /\ text = query.text => MayKill(query.statements)
<1>1. ASSUME NEW statements, Answer(statements)
      PROVE  Stream(meant', seen', inbox', wire', cut') /\ Fits(meant') /\ cut' \in BOOLEAN
  <2>1. PICK reply \in RepliesTo(statements[1]) : SendAll(reply)
    BY <1>1, Zenon DEF Answer
  <2>2. GoodReply(reply)
    BY AnswersAreGood
  <2>3. Stream(meant, seen, inbox, wire, cut) /\ cut \in BOOLEAN
    BY DEF Ready, Sane, TypeOK
  <2>4. QED
    BY <2>1, <2>2, <2>3, SendGood, Zenon
<1>2. heard' = text /\ state' = state
  BY DEF Run
<1>3. PICK statements \in Parsed(text) :
        \/ Answer(statements) /\ UNCHANGED server
        \/ MayKill(statements) /\ server' = "killed" /\ UNCHANGED replyVars
  BY Zenon DEF Run
<1>4. text = query.text => statements = query.statements
  BY <1>3 DEF Parsed
<1>5. CASE Answer(statements) /\ UNCHANGED server
  BY <1>1, <1>2, <1>5
<1>6. CASE MayKill(statements) /\ server' = "killed" /\ UNCHANGED replyVars
  <2>1. UNCHANGED <<meant, wire, inbox, seen, cut>>
    BY <1>6 DEF replyVars
  <2>2. /\ Stream(meant, seen, inbox, wire, cut) /\ Fits(meant)
        /\ cut \in BOOLEAN
    BY DEF Ready, Sane, TypeOK
  <2>3. text = query.text => MayKill(query.statements)
    BY <1>4, <1>6
  <2>4. QED
    BY <1>2, <1>6, <2>1, <2>2, <2>3
<1>7. QED
  BY <1>3, <1>5, <1>6

\* The server is gone, but what it has sent is not.
LEMMA EndSession ==
    ASSUME Sane, Ready, sock # << >>, Receives, edge' = FALSE,
           server' \in {"closed", "exited"},
           UNCHANGED <<state, heard, meant, wire, inbox, seen, cut>>,
           whole' => server' = "closed" /\ phase = "closing"
    PROVE  SessionInv'
<1>1. /\ UNCHANGED <<phase, asks, query, net>>
      /\ sock' \in Seq(Int) /\ net' \in Seq(Int)
      /\ whole' => whole
  BY Leftover, Zenon
<1>2. whole' \in BOOLEAN
  BY DEF Receives
<1>3. TypeOK'
  BY <1>1, <1>2 DEF Sane, TypeOK
<1>4. Sane'
  BY <1>1, <1>3 DEF Sane, WholeQueriesAreRun, OnlyPrefixesAreRun
<1>5. Ready'
  BY <1>1 DEF Ready
<1>6. QED
  BY <1>4, <1>5 DEF SessionInv

\* HandleQuery: only a query that is not answered is answered.
LEMMA HandleQuerySession == SessionInv /\ HandleQuery => SessionInv'
<1> SUFFICES ASSUME SessionInv, HandleQuery PROVE SessionInv'
  OBVIOUS
<1>1. /\ server = "open" /\ edge /\ state = "ReadyForQuery" /\ edge' = FALSE
      /\ Receives /\ Received[1] = Code.Q
  BY DEF HandleQuery, Handles
<1>2. Sane /\ sock # << >>
  BY <1>1 DEF SessionInv, Sane, TypeOK
<1>3. Ready
  BY <1>1, <1>2 DEF SessionInv, Connected, Asking, Refused, Starting
<1>4. sock \in Seq(Int) /\ net \in Seq(Int)
  BY <1>2 DEF Sane
<1>5. /\ UNCHANGED <<phase, asks, query, net>>
      /\ sock' \in Seq(Int) /\ net' \in Seq(Int)
      /\ whole' => /\ whole /\ net = << >> /\ Len(sock) <= MaxMessageLen
                   /\ sock' \o net' = << >>
  BY <1>1, <1>2, Leftover, Zenon
<1>6. PICK r \in Nat \ {0} : SplitAt(sock \o net, Received, sock' \o net', r)
  BY <1>1, <1>2, Leftover, Zenon
<1>7. MaxMessageLen \in Nat /\ MaxMessageLen >= 5 /\ MaxMessageLen <= Huge /\ Huge \in Nat
  BY BufferType
<1>8. ASSUME Dies, ~whole' PROVE SessionInv'
  BY <1>1, <1>2, <1>3, <1>8, EndSession DEF Dies, replyVars
<1>9. CASE /\ ~whole
           /\ \E stale, tail \in Seq(Int) :
                 /\ stale # << >> /\ Clean(stale)
                 /\ tail = << >> \/ tail[1] # 0
                 /\ sock \o net = stale \o tail
  <2>1. QueryLen < 4 \/ QueryLen = Huge
    BY <1>1, <1>2, <1>4, <1>9, StaleKills
  <2>2. ~(QueryLen \in MaxMessageLen .. Huge - 1) /\ ~(QueryLen \in 4 .. MaxMessageLen - 1)
    BY <2>1, <1>7
  <2>3. Dies
    BY <2>2, Zenon DEF HandleQuery
  <2>4. QED
    BY <2>3, <1>5, <1>8, <1>9
<1>10. CASE /\ phase = "query" /\ meant = << >>
            /\ sock \o net = Query(query.text)
  <2>1. query \in Queries
    BY <1>2, <1>10 DEF Sane
  <2>2. query.text \in Seq(TextBytes) /\ query.text # << >> /\ query # None
    BY <2>1, QueryAssumption, Zenon
  <2>3. query.text \in Seq(Int) /\ IsQuery(Query(query.text), query.text, Len(query.text))
    BY <2>2, QueryBytes, Zenon DEF IsQuery
  <2>4. /\ QueryLen \in MaxMessageLen .. Huge - 1 => Len(Query(query.text)) > MaxMessageLen
        /\ QueryLen \in 4 .. MaxMessageLen - 1 =>
              \E m \in 0 .. Len(query.text) : UpToZero(Text) = SubSeq(query.text, 1, m)
        /\ net = << >> /\ Len(sock) <= MaxMessageLen =>
              /\ QueryLen \in 4 .. MaxMessageLen - 1
              /\ UpToZero(Text) = query.text
    BY <1>2, <1>4, <1>10, <2>2, QueryHeard, Zenon
  <2>5. ASSUME NEW text, Run(text),
               \/ IsPrefix(text, query.text)
               \/ text = Junk /\ Len(Query(query.text)) > MaxMessageLen,
               whole' => text = query.text
        PROVE  SessionInv'
    <3>1. /\ heard' = text /\ state' = state
          /\ Stream(meant', seen', inbox', wire', cut')
          /\ Fits(meant') /\ cut' \in BOOLEAN
          /\ \/ server' = server
             \/ /\ server' = "killed" /\ meant' = << >>
                /\ text = query.text => MayKill(query.statements)
      BY <1>2, <1>3, <1>10, <2>5, RunAnswers
    <3>2. whole' \in BOOLEAN
      BY <1>1 DEF Receives
    <3>3. TypeOK'
      BY <1>1, <1>2, <1>5, <1>10, <2>2, <3>1, <3>2 DEF Sane, TypeOK
    <3>4. WholeQueriesAreRun'
      BY <1>1, <1>5, <2>2, <2>5, <3>1 DEF WholeQueriesAreRun
    <3>5. OnlyPrefixesAreRun'
      BY <1>5, <2>5, <3>1 DEF OnlyPrefixesAreRun
    <3>6. Sane'
      BY <1>2, <1>5, <3>3, <3>4, <3>5 DEF Sane
    <3>7. Coming'
      <4> DEFINE stale == sock' \o net'
      <4>1. Clean(stale)
        BY <1>6, <1>10, <2>3, QueryRest
      <4>2. stale \in Seq(Int)
        BY <1>6 DEF SplitAt
      <4>3. << >> \in Seq(Int) /\ stale \o << >> = stale
        BY <4>2, EmptyLeft
      <4>4. QED
        BY <4>1, <4>2, <4>3, <1>5 DEF Coming
    <3>8. Ready'
      BY <1>1, <1>5, <1>10, <3>1, <3>7 DEF Ready
    <3>9. QED
      BY <3>6, <3>8 DEF SessionInv
  <2>6. CASE QueryLen \notin 4 .. MaxMessageLen - 1 /\ Dies
    <3>1. ~whole'
      BY <2>6, <1>5, <2>4
    <3>2. QED
      BY <3>1, <2>6, <1>8
  <2>7. CASE QueryLen \in MaxMessageLen .. Huge - 1 /\ Run(Junk)
    <3>1. ~(QueryLen \in 4 .. MaxMessageLen - 1)
      BY <1>7, <2>7
    <3>2. ~whole'
      BY <3>1, <1>5, <2>4
    <3>3. QED
      BY <3>2, <2>4, <2>5, <2>7
  <2>8. CASE QueryLen \in 4 .. MaxMessageLen - 1 /\ Run(UpToZero(Text))
    <3>1. IsPrefix(UpToZero(Text), query.text)
      BY <2>3, <2>4, <2>8, PrefixOf
    <3>2. whole' => UpToZero(Text) = query.text
      BY <1>5, <2>4
    <3>3. QED
      BY <3>1, <3>2, <2>5, <2>8
  <2>9. QED
    BY <2>6, <2>7, <2>8 DEF HandleQuery
<1>11. CASE /\ phase = "closing"
            /\ sock \o net = TerminateMessage
  <2>1. Received[1] = Code.X
    BY <1>6, <1>11, FirstReceived, TerminateBytes
  <2>2. QED
    BY <2>1, <1>1 DEF Code
<1>12. QED
  BY <1>1, <1>2, <1>3, <1>9, <1>10, <1>11, WhatComes

\* HandleTerminate: the connection ends.
LEMMA HandleTerminateSession == SessionInv /\ HandleTerminate => SessionInv'
<1> SUFFICES ASSUME SessionInv, HandleTerminate PROVE SessionInv'
  OBVIOUS
<1>1. /\ server = "open" /\ edge /\ state = "ReadyForQuery" /\ edge' = FALSE
      /\ Receives /\ Received[1] = Code.X /\ server' = "closed"
      /\ UNCHANGED <<state, heard, meant, wire, inbox, seen, cut>>
  BY DEF HandleTerminate, Handles, replyVars
<1>2. Sane /\ sock # << >>
  BY <1>1 DEF SessionInv, Sane, TypeOK
<1>3. Ready
  BY <1>1, <1>2 DEF SessionInv, Connected, Asking, Refused, Starting
<1>4. whole' => whole
  BY <1>1, <1>2, Leftover, Zenon
<1>5. PICK r \in Nat \ {0} : SplitAt(sock \o net, Received, sock' \o net', r)
  BY <1>1, <1>2, Leftover, Zenon
<1>6. whole => phase = "closing"
  <2>1. ASSUME phase = "query", sock \o net = Query(query.text) PROVE FALSE
    <3>1. query \in Queries
      BY <1>2, <2>1 DEF Sane
    <3>2. query.text \in Seq(TextBytes) /\ query.text # << >>
      BY <3>1, QueryAssumption, Zenon
    <3>3. Query(query.text)[1] = 81
      BY <3>2, QueryBytes, Zenon DEF IsQuery
    <3>4. QED
      BY <3>3, <2>1, <1>1, <1>5, FirstReceived DEF Code
  <2>2. QED
    BY <2>1, <1>1, <1>2, <1>3, WhatComes
<1>7. QED
  BY <1>1, <1>2, <1>3, <1>4, <1>6, EndSession

\* HandleUnknown: so does one whose message has no known letter.
LEMMA HandleUnknownSession == SessionInv /\ HandleUnknown => SessionInv'
<1> SUFFICES ASSUME SessionInv, HandleUnknown PROVE SessionInv'
  OBVIOUS
<1>1. /\ server = "open" /\ edge /\ state = "ReadyForQuery" /\ edge' = FALSE
      /\ Receives /\ Received[1] \notin {Code.Q, Code.X} /\ server' = "exited"
      /\ UNCHANGED <<state, heard, meant, wire, inbox, seen, cut>>
  BY DEF HandleUnknown, Handles, Dies, replyVars
<1>2. Sane /\ sock # << >>
  BY <1>1 DEF SessionInv, Sane, TypeOK
<1>3. Ready
  BY <1>1, <1>2 DEF SessionInv, Connected, Asking, Refused, Starting
<1>4. whole' => whole
  BY <1>1, <1>2, Leftover, Zenon
<1>5. PICK r \in Nat \ {0} : SplitAt(sock \o net, Received, sock' \o net', r)
  BY <1>1, <1>2, Leftover, Zenon
<1>6. ~whole
  <2>1. ASSUME phase = "query", sock \o net = Query(query.text) PROVE FALSE
    <3>1. query \in Queries
      BY <1>2, <2>1 DEF Sane
    <3>2. query.text \in Seq(TextBytes) /\ query.text # << >>
      BY <3>1, QueryAssumption, Zenon
    <3>3. Query(query.text)[1] = Code.Q
      BY <3>2, QueryBytes, Zenon DEF IsQuery, Code
    <3>4. QED
      BY <3>3, <2>1, <1>1, <1>5, FirstReceived
  <2>2. ASSUME sock \o net = TerminateMessage PROVE FALSE
    BY <2>2, <1>1, <1>5, FirstReceived, TerminateBytes
  <2>3. QED
    BY <2>1, <2>2, <1>1, <1>2, <1>3, WhatComes
<1>7. QED
  BY <1>1, <1>2, <1>3, <1>4, <1>6, EndSession

-----------------------------------------------------------------------------
(* The theorems.                                                           *)

\* Every step keeps the invariant.
LEMMA NextSession == SessionInv /\ [Next]_vars => SessionInv'
<1> SUFFICES ASSUME SessionInv, [Next]_vars PROVE SessionInv'
  OBVIOUS
<1>1. CASE ServerStep
  BY <1>1, HandleStartUpSession, HandleNoSSLSession, HandleQuerySession,
     HandleTerminateSession, HandleUnknownSession DEF ServerStep
<1>2. CASE ReplyArrives
  BY <1>2, ReplyArrivesSession
<1>3. CASE ClientReads
  BY <1>3, StartUpSession, ReadReplySession DEF ClientReads
<1>4. CASE Deliver
  BY <1>4, DeliverSession
<1>5. CASE RequestSSL
  BY <1>5, RequestSSLSession
<1>6. CASE \E q \in Queries : Ask(q)
  BY <1>6, AskSession
<1>7. CASE Terminate
  BY <1>7, TerminateSession
<1>8. CASE UNCHANGED vars
  <2>1. /\ UNCHANGED <<phase, asks, query, net, sock, edge, state, server, heard, whole>>
        /\ UNCHANGED <<meant, wire, inbox, seen, cut>>
    BY <1>8 DEF vars, clientVars, serverVars, replyVars
  <2>2. Sane'
    BY <2>1 DEF SessionInv, Sane, TypeOK, WholeQueriesAreRun, OnlyPrefixesAreRun
  <2>3. /\ Connected' = Connected /\ Asking' = Asking
        /\ Refused' = Refused /\ Starting' = Starting
    BY <2>1 DEF Connected, Asking, Refused, Starting, Silent
  <2>4. Ready' = Ready
    BY <2>1 DEF Ready, Coming
  <2>5. QED
    BY <2>2, <2>3, <2>4 DEF SessionInv
<1>9. QED
  BY <1>1, <1>2, <1>3, <1>4, <1>5, <1>6, <1>7, <1>8 DEF Next

\* SessionInv holds whatever is asked, wherever the bytes are cut and however
\* little of a reply the socket takes (RunServer, handle_query).
THEOREM SessionInvariant == Spec => []SessionInv
BY InitSession, NextSession, PTL DEF Spec

\* Every reachable state of a connection is well typed.
THEOREM SessionTypes == Spec => []TypeOK
<1>1. SessionInv => TypeOK
  BY DEF SessionInv, Sane
<1>2. QED
  BY <1>1, SessionInvariant, PTL

\* What the client has read, in whatever phase.
LEMMA ReadSoFar ==
    ASSUME SessionInv
    PROVE  /\ seen \in Seq(Seq(Int)) /\ meant \in Seq(Seq(Int))
           /\ Len(seen) <= Len(meant)
           /\ \A i \in 1 .. Len(seen) : seen[i] = meant[i]
           /\ Fits(meant)
<1>1. CASE Ready
  BY <1>1, StreamPrefix, Zenon DEF Ready
<1>2. CASE Silent
  <2>1. meant = << >> /\ seen = << >> /\ Len(<< >>) = 0 /\ << >> \in Seq(Seq(Int))
    BY <1>2 DEF Silent
  <2>2. QED
    BY <2>1 DEF Fits
<1>3. QED
  BY <1>1, <1>2 DEF SessionInv, Connected, Asking, Refused, Starting

\* Sequences that agree as far as the shorter one goes.
LEMMA ReadIsPrefix ==
    ASSUME NEW s \in Seq(Seq(Int)), NEW t \in Seq(Seq(Int)), Len(s) <= Len(t),
           \A i \in 1 .. Len(s) : s[i] = t[i]
    PROVE  IsPrefix(s, t)
<1> DEFINE n == Len(s)
           u == SubSeq(s, 1, n)
           v == SubSeq(t, 1, n)
<1>1. n \in Nat /\ Len(t) \in Nat /\ n <= Len(t) /\ 1 \in Int
  OBVIOUS
<1>2. /\ \A i \in 1 .. n : s[i] \in Seq(Int)
      /\ \A i \in 1 .. n : t[i] \in Seq(Int)
  BY <1>1
<1> HIDE DEF n
<1>3. /\ u \in Seq(Seq(Int)) /\ Len(u) = IF 1 <= n THEN n - 1 + 1 ELSE 0
      /\ \A i \in 1 .. n - 1 + 1 : u[i] = s[1 + i - 1]
  BY <1>1, <1>2, SubSeqProperties
<1>4. /\ v \in Seq(Seq(Int)) /\ Len(v) = IF 1 <= n THEN n - 1 + 1 ELSE 0
      /\ \A i \in 1 .. n - 1 + 1 : v[i] = t[1 + i - 1]
  BY <1>1, <1>2, SubSeqProperties
<1> HIDE DEF u, v
<1>5. n - 1 + 1 = n /\ \A i \in 1 .. n : 1 + i - 1 = i
  BY <1>1
<1>6. Len(u) = n /\ Len(v) = n /\ \A i \in 1 .. n : u[i] = v[i]
  <2>1. Len(u) = n /\ Len(v) = n
    BY <1>1, <1>3, <1>4
  <2>2. \A i \in 1 .. n : u[i] = s[i] /\ v[i] = t[i]
    BY <1>3, <1>4, <1>5
  <2>3. \A i \in 1 .. n : s[i] = t[i]
    BY DEF n
  <2>4. QED
    BY <2>1, <2>2, <2>3
<1>7. u = v
  BY <1>3, <1>4, <1>6, SeqEqual
<1>8. QED
  BY <1>7 DEF IsPrefix, u, v, n

\* What a client cuts out of the bytes it receives, going from length to
\* length, are the messages that were encoded (the encoders of pg_wire.cc and
\* the lengths they patch).
THEOREM MessagesFramed == Spec => []MessagesAreFramed
<1>1. SessionInv => MessagesAreFramed
  BY ReadSoFar, ReadIsPrefix DEF MessagesAreFramed
<1>2. QED
  BY <1>1, SessionInvariant, PTL

\* Every DataRow a client reads follows a RowDescription, has a cell for each
\* of its columns, and its cells fill it (send_batch).
THEOREM RowsFit == Spec => []RowsFitTheirDescription
<1>1. ASSUME SessionInv PROVE RowsFitTheirDescription
  <2> SUFFICES ASSUME NEW n \in DOMAIN seen, seen[n][1] = Code.D
               PROVE  /\ seen[1][1] = Code.T
                      /\ seen[n][6] = seen[1][6]
                      /\ CellStart(seen[n])[seen[n][6] + 1] = Len(seen[n]) + 1
    BY DEF RowsFitTheirDescription
  <2>1. /\ seen \in Seq(Seq(Int)) /\ meant \in Seq(Seq(Int))
        /\ Len(seen) <= Len(meant)
        /\ \A i \in 1 .. Len(seen) : seen[i] = meant[i]
        /\ Fits(meant)
    BY <1>1, ReadSoFar
  <2>2. /\ n \in 1 .. Len(seen) /\ n \in 1 .. Len(meant) /\ 1 \in 1 .. Len(seen)
    BY <2>1
  <2>3. seen[n] = meant[n] /\ seen[1] = meant[1]
    BY <2>1, <2>2
  <2>4. /\ meant[1][1] = Code.T
        /\ meant[n][6] = meant[1][6]
        /\ CellStart(meant[n])[meant[n][6] + 1] = Len(meant[n]) + 1
    BY <2>1, <2>2, <2>3, Zenon DEF Fits
  <2>5. QED
    BY <2>3, <2>4, Zenon
<1>2. SessionInv => RowsFitTheirDescription
  BY <1>1
<1>3. QED
  BY <1>2, SessionInvariant, PTL

\* A client that has read a ReadyForQuery has read all that was sent: the
\* server sends one per message and nothing after it.
THEOREM RepliesAreReadToTheirEnd == Spec => []ReadyEndsTheReply
<1>1. SessionInv => ReadyEndsTheReply
  BY IdleIsRead DEF SessionInv, ReadyEndsTheReply, Connected, Asking, Refused, Starting
<1>2. QED
  BY <1>1, SessionInvariant, PTL

\* A query that arrived whole, and fits the buffer, is run as it was written, and
\* the process ends only inside handle_query, on a statement that may end it
\* (RunServer, handle_query).
THEOREM WholeQueriesRun == Spec => []WholeQueriesAreRun
<1>1. SessionInv => WholeQueriesAreRun
  BY DEF SessionInv, Sane
<1>2. QED
  BY <1>1, SessionInvariant, PTL

\* What is run of a query that arrived in pieces is its beginning and nothing
\* else, not even bytes left over from an earlier message.
THEOREM PrefixesRun == Spec => []OnlyPrefixesAreRun
<1>1. SessionInv => OnlyPrefixesAreRun
  BY DEF SessionInv, Sane
<1>2. QED
  BY <1>1, SessionInvariant, PTL
=============================================================================
