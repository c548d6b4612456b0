----------------------------- MODULE WireProofs -----------------------------
(***************************************************************************)
(* Proofs about ChatWire and WiredRoom.  What is written to bytes is read  *)
(* again as it was, as long as ids and the lengths of strings and embedded *)
(* messages stay below 128 and all is ASCII: first for lists of plain      *)
(* fields of any length, then for a network message around data of up to   *)
(* 16383 bytes, whose length does not survive the QString, then for every  *)
(* message the members and the server send.  From that follows that every  *)
(* mirror is the room.                                                     *)
(***************************************************************************)
EXTENDS WiredRoom, MirrorProofs, SequenceTheorems, Integers

-----------------------------------------------------------------------------
(* Numbers *)

\* Two sequences of one element each.
LEMMA ConcatOnes ==
  ASSUME NEW a, NEW b
  PROVE  <<a>> \o <<b>> = <<a, b>>
<1>1. <<a>> \in Seq({a, b}) /\ <<b>> \in Seq({a, b}) /\ <<a, b>> \in Seq({a, b})
  OBVIOUS
<1>2. <<a>> \o <<b>> \in Seq({a, b}) /\ Len(<<a>> \o <<b>>) = 2 /\ Len(<<a, b>>) = 2
  BY <1>1
<1>3. \A i \in 1 .. 2 : (<<a>> \o <<b>>)[i] = <<a, b>>[i]
  OBVIOUS
<1> QED
  BY <1>1, <1>2, <1>3, SeqEqual

\* One element, and another behind it.
LEMMA AppendToOne ==
  ASSUME NEW a, NEW b
  PROVE  Append(<<a>>, b) = <<a, b>>
<1>1. <<a>> \in Seq({a, b}) /\ <<a, b>> \in Seq({a, b}) /\ Len(<<a>>) = 1 /\ Len(<<a, b>>) = 2
  OBVIOUS
<1>2. Append(<<a>>, b) \in Seq({a, b}) /\ Len(Append(<<a>>, b)) = 2
  BY <1>1
<1>3. \A i \in 1 .. 2 : Append(<<a>>, b)[i] = <<a, b>>[i]
  OBVIOUS
<1> QED
  BY <1>1, <1>2, <1>3, SeqEqual

\* A number below 128 is one byte.
LEMMA VarintShort ==
  ASSUME NEW n \in 0 .. 127
  PROVE  varint(n) = <<n>>
<1> DEFINE next(f) == [k \in 0 .. n |-> IF k < 128 THEN <<k>> ELSE <<128 + (k % 128)>> \o f[k \div 128]]
           short == [k \in 0 .. n |-> <<k>>]
<1>1. \A f : next(f) = short
  OBVIOUS
<1>2. varint(n) = (CHOOSE f : f = next(f))[n]
  BY DEF varint
<1>3. n \in 0 .. n
  OBVIOUS
<1>4. short[n] = <<n>>
  BY <1>3, Zenon
<1> HIDE DEF next, short
<1>5. (CHOOSE f : f = next(f)) = short
  BY <1>1
<1> QED
  BY <1>2, <1>4, <1>5

\* A number below 16384 is two bytes, the first of them 128 or more.
low(n) == 128 + (n % 128)
high(n) == n \div 128

TwoBytes == 128 .. 16383

\* A number of two digits to the base 128.
LEMMA LowHigh ==
  ASSUME NEW n \in TwoBytes
  PROVE  low(n) \in 128 .. 255 /\ high(n) \in 1 .. 127
<1>1. low(n) \in 128 .. 255
  BY DEF low, TwoBytes
<1>2. high(n) \in 1 .. 127
  BY DEF high, TwoBytes
<1> QED
  BY <1>1, <1>2

\* A number that takes two bytes.
LEMMA VarintLong ==
  ASSUME NEW n \in TwoBytes
  PROVE  varint(n) = <<low(n), high(n)>>
<1> DEFINE single(k) == <<k>>
           two(k) == <<low(k), high(k)>>
           more(k, f) == <<low(k)>> \o f[high(k)]
           next(f) == [k \in 0 .. n |-> IF k < 128 THEN single(k) ELSE more(k, f)]
           digits == CHOOSE f : f = next(f)
           long == [k \in 0 .. n |-> IF k < 128 THEN single(k) ELSE two(k)]
<1>0. n \in 128 .. 16383
  BY DEF TwoBytes
<1>1. varint(n) = digits[n]
  BY DEF varint, low, high
<1>2. \A k \in 0 .. n : high(k) \in 0 .. n /\ high(k) < 128
  BY <1>0 DEF high
<1>3. ASSUME NEW f, \A k \in 0 .. n : k < 128 => f[k] = single(k)
      PROVE  \A k \in 0 .. n : more(k, f) = two(k)
  <2> TAKE k \in 0 .. n
  <2>1. f[high(k)] = <<high(k)>>
    BY <1>2, <1>3
  <2> QED
    BY <2>1, ConcatOnes
<1> HIDE DEF single, two, more
<1>4. next(long) = long
  <2>1. \A k \in 0 .. n : k < 128 => long[k] = single(k)
    OBVIOUS
  <2>2. \A k \in 0 .. n : more(k, long) = two(k)
    BY <1>3, <2>1
  <2> HIDE DEF long
  <2>3. next(long) = [k \in 0 .. n |-> IF k < 128 THEN single(k) ELSE two(k)]
    BY <2>2
  <2> QED
    BY <2>3 DEF long
<1>5. ASSUME NEW f, f = next(f)
      PROVE  f = long
  <2>1. \A k \in 0 .. n : f[k] = IF k < 128 THEN single(k) ELSE more(k, f)
    BY <1>5
  <2>2. \A k \in 0 .. n : more(k, f) = two(k)
    BY <1>3, <2>1
  <2> QED
    BY <1>5, <2>2
<1>6. n \in 0 .. n /\ ~(n < 128)
  BY <1>0
<1>7. long[n] = two(n)
  BY <1>6
<1> HIDE DEF next, long
<1>8. digits = long
  BY <1>4, <1>5
<1> HIDE DEF digits
<1> QED
  BY <1>1, <1>7, <1>8 DEF two

-----------------------------------------------------------------------------
(* QString *)

\* The least element of a set of numbers is Min of it, the greatest Max.
LEMMA MinIs ==
  ASSUME NEW S, NEW m \in S, S \subseteq Int, \A x \in S : m <= x
  PROVE  Min(S) = m
<1>1. \E x \in S : \A y \in S : x =< y
  OBVIOUS
<1>2. Min(S) \in S /\ \A y \in S : Min(S) =< y
  BY <1>1, Zenon DEF Min
<1>3. m \in Int /\ Min(S) \in Int /\ Min(S) =< m /\ m =< Min(S)
  BY <1>2
<1> QED
  BY <1>3

\* The largest number of a set.
LEMMA MaxIs ==
  ASSUME NEW S, NEW m \in S, S \subseteq Int, \A x \in S : x <= m
  PROVE  Max(S) = m
<1>1. \E x \in S : \A y \in S : x >= y
  OBVIOUS
<1>2. Max(S) \in S /\ \A y \in S : Max(S) >= y
  BY <1>1, Zenon DEF Max
<1>3. m \in Int /\ Max(S) \in Int /\ Max(S) >= m /\ m >= Max(S)
  BY <1>2
<1> QED
  BY <1>3

\* Where the first byte stands that is not ASCII.
LEMMA AsciiEndIs ==
  ASSUME NEW s \in Seq(Byte), NEW i \in 1 .. Len(s) + 1, NEW p \in i .. Len(s) + 1,
         \A k \in i .. p - 1 : s[k] < 128, p <= Len(s) => s[p] >= 128
  PROVE  asciiEnd(s, i) = p
<1> DEFINE S == {k \in i .. Len(s) : s[k] >= 128} \cup {Len(s) + 1}
<1>1. Len(s) \in Nat
  OBVIOUS
<1>2. \A k \in 1 .. Len(s) : s[k] \in Int
  <2>1. \A k \in 1 .. Len(s) : s[k] \in Byte
    BY ElementOfSeq
  <2>2. \A b \in Byte : b \in Int
    BY DEF Byte
  <2> QED
    BY <2>1, <2>2, Zenon
<1>3. p \in S /\ S \subseteq Int
  BY <1>1, <1>2
<1>4. ASSUME NEW x \in S
      PROVE  p <= x
  BY <1>1, <1>2, <1>4
<1> HIDE DEF S
<1>5. Min(S) = p
  BY <1>3, <1>4, MinIs
<1> QED
  BY <1>5 DEF asciiEnd, S

\* A string of which at most one byte, at p, is not ASCII, and that byte is no part
\* of a character: it is replaced, and the rest stays as it is.
LEMMA Converted ==
  ASSUME NEW s \in Seq(Byte), NEW p \in 1 .. Len(s) + 1,
         \A k \in 1 .. Len(s) : k # p => s[k] < 128,
         p <= Len(s) => s[p] >= 128 /\ utf8Length(s, p) = 0
  PROVE  toStdString(s) =
           SubSeq(s, 1, p - 1)
             \o (IF p > Len(s) THEN << >> ELSE ReplacementCharacter \o SubSeq(s, p + 1, Len(s)))
<1> DEFINE D == 1 .. Len(s) + 1
           rest(i) == SubSeq(s, i, Len(s))
           head(i) == SubSeq(s, i, p - 1)
                        \o (IF p > Len(s) THEN << >> ELSE ReplacementCharacter \o rest(p + 1))
           body(i, j, n, f) ==
             SubSeq(s, i, j - 1) \o
               (IF j > Len(s) THEN << >>
                ELSE IF n = 0 THEN ReplacementCharacter \o f[j + 1]
                ELSE SubSeq(s, j, j + n - 1) \o f[j + n])
           next(f) == [i \in D |-> body(i, asciiEnd(s, i), utf8Length(s, asciiEnd(s, i)), f)]
           result == [i \in D |-> IF i > p THEN rest(i) ELSE head(i)]
           from == CHOOSE f : f = next(f)
<1>1. toStdString(s) = from[1]
  BY DEF toStdString
<1>2. Len(s) \in Nat /\ p \in Nat /\ 1 \in D
  OBVIOUS
<1>3. ASSUME NEW i \in D, i > p, NEW f
      PROVE  body(i, asciiEnd(s, i), utf8Length(s, asciiEnd(s, i)), f) = rest(i)
  <2>1. asciiEnd(s, i) = Len(s) + 1
    BY <1>2, <1>3, AsciiEndIs
  <2>2. SubSeq(s, i, Len(s)) \in Seq(Byte)
    BY <1>2, <1>3, SubSeqProperties
  <2>3. SubSeq(s, i, Len(s)) \o << >> = SubSeq(s, i, Len(s))
    BY <2>2, ConcatEmptySeq
  <2>4. Len(s) + 1 - 1 = Len(s) /\ Len(s) + 1 > Len(s)
    BY <1>2
  <2> QED
    BY <2>1, <2>3, <2>4
<1>4. ASSUME NEW i \in D, ~(i > p), NEW f, p <= Len(s) => f[p + 1] = rest(p + 1)
      PROVE  body(i, asciiEnd(s, i), utf8Length(s, asciiEnd(s, i)), f) = head(i)
  <2>1. asciiEnd(s, i) = p
    BY <1>2, <1>4, AsciiEndIs
  <2>2. ~(p > Len(s)) => f[p + 1] = rest(p + 1) /\ utf8Length(s, p) = 0
    BY <1>2, <1>4
  <2> QED
    BY <2>1, <2>2
<1>5. p <= Len(s) => p + 1 \in D /\ p + 1 > p
  BY <1>2
<1> HIDE DEF body, rest, head
<1>6. next(result) = result
  <2>1. p <= Len(s) => result[p + 1] = rest(p + 1)
    BY <1>5
  <2> HIDE DEF result
  <2>2. \A i \in D : body(i, asciiEnd(s, i), utf8Length(s, asciiEnd(s, i)), result)
                       = IF i > p THEN rest(i) ELSE head(i)
    BY <1>3, <1>4, <2>1
  <2> QED
    BY <2>2 DEF result
<1>7. ASSUME NEW f, f = next(f)
      PROVE  f = result
  <2>1. \A i \in D : f[i] = body(i, asciiEnd(s, i), utf8Length(s, asciiEnd(s, i)), f)
    BY <1>7
  <2>2. p <= Len(s) => f[p + 1] = rest(p + 1)
    BY <1>3, <1>5, <2>1
  <2>3. \A i \in D : f[i] = IF i > p THEN rest(i) ELSE head(i)
    BY <1>3, <1>4, <2>1, <2>2
  <2> QED
    BY <1>7, <2>3
<1>8. result[1] = head(1)
  BY <1>2
<1> HIDE DEF next, result
<1>9. from = result
  BY <1>6, <1>7
<1> HIDE DEF from
<1> QED
  BY <1>1, <1>8, <1>9 DEF head, rest

-----------------------------------------------------------------------------
(* Fields one after the other *)

\* A name that keeps the provers from taking a concatenation apart.
joined(s, t) == s \o t

\* F[i] is what the first i of the sequences make together.
AreFlat(F, seqs, n) ==
  /\ F = [i \in 1 .. n |-> F[i]]
  /\ \A i \in 1 .. n : F[i] = IF i = 1 THEN seqs[i] ELSE joined(F[i - 1], seqs[i])

\* One more sequence.
LEMMA FlatNext ==
  ASSUME NEW F, NEW seqs, NEW n \in Nat, NEW i \in 1 .. n, AreFlat(F, seqs, n)
  PROVE  /\ i = 1 => F[i] = seqs[i]
         /\ i # 1 => F[i] = joined(F[i - 1], seqs[i])
BY Zenon DEF AreFlat

\* There is such an F for every number of sequences.
LEMMA FlatExists ==
  ASSUME NEW seqs
  PROVE  \A n \in Nat : \E F : AreFlat(F, seqs, n)
<1> DEFINE S == {n \in Nat : \E F : AreFlat(F, seqs, n)}
<1>1. 0 \in S
  <2>1. AreFlat([i \in 1 .. 0 |-> 0], seqs, 0)
    BY DEF AreFlat
  <2> QED
    BY <2>1
<1>2. ASSUME NEW n \in Nat, n \in S
      PROVE  n + 1 \in S
  <2>1. PICK F : AreFlat(F, seqs, n)
    BY <1>2
  <2> DEFINE last == IF n + 1 = 1 THEN seqs[n + 1] ELSE joined(F[n], seqs[n + 1])
             G == [i \in 1 .. n + 1 |-> IF i = n + 1 THEN last ELSE F[i]]
  <2>2. G = [i \in 1 .. n + 1 |-> G[i]]
    OBVIOUS
  <2>3. \A i \in 1 .. n : i \in 1 .. n + 1 /\ i # n + 1 /\ (i # 1 => i - 1 \in 1 .. n)
    OBVIOUS
  <2>4. n + 1 \in 1 .. n + 1 /\ (n + 1 # 1 => n \in 1 .. n)
    OBVIOUS
  <2> HIDE DEF last
  <2>5. G[n + 1] = last /\ \A i \in 1 .. n : G[i] = F[i]
    BY <2>3, <2>4
  <2> HIDE DEF G
  <2>6. G[n + 1] = IF n + 1 = 1 THEN seqs[n + 1] ELSE joined(G[n + 1 - 1], seqs[n + 1])
    <3>1. n + 1 - 1 = n
      OBVIOUS
    <3> QED
      BY <2>4, <2>5, <3>1 DEF last
  <2>7. \A i \in 1 .. n : G[i] = IF i = 1 THEN seqs[i] ELSE joined(G[i - 1], seqs[i])
    BY <2>1, <2>3, <2>5 DEF AreFlat
  <2>8. ASSUME NEW i \in 1 .. n + 1
        PROVE  G[i] = IF i = 1 THEN seqs[i] ELSE joined(G[i - 1], seqs[i])
    <3>1. CASE i = n + 1
      BY <2>6, <3>1
    <3>2. CASE i # n + 1
      <4>1. i \in 1 .. n
        BY <3>2
      <4> QED
        BY <2>7, <4>1
    <3> QED
      BY <3>1, <3>2
  <2>9. AreFlat(G, seqs, n + 1)
    BY <2>2, <2>8, Zenon DEF AreFlat
  <2> QED
    BY <2>9
<1> HIDE DEF S
<1>3. \A n \in Nat : n \in S
  BY <1>1, <1>2, SetInduction
<1> QED
  BY <1>3 DEF S

\* They make the same where the sequences are the same.
LEMMA FlatAgree ==
  ASSUME NEW F, NEW G, NEW seqs, NEW more, NEW n \in Nat, NEW k \in Nat, n <= k,
         AreFlat(F, seqs, n), AreFlat(G, more, k), \A i \in 1 .. n : seqs[i] = more[i]
  PROVE  \A i \in 1 .. n : F[i] = G[i]
<1> DEFINE S == {i \in Nat : i \in 1 .. n => F[i] = G[i]}
<1>1. 0 \in S
  OBVIOUS
<1>2. ASSUME NEW i \in Nat, i \in S
      PROVE  i + 1 \in S
  <2> SUFFICES ASSUME i + 1 \in 1 .. n
               PROVE  F[i + 1] = G[i + 1]
    OBVIOUS
  <2>1. PICK m \in 1 .. n : m = i + 1
    OBVIOUS
  <2>2. m \in 1 .. k /\ m - 1 = i /\ (m # 1 => i \in 1 .. n)
    BY <2>1
  <2>3. (m = 1 => F[m] = seqs[m]) /\ (m # 1 => F[m] = joined(F[m - 1], seqs[m]))
    BY FlatNext
  <2>4. (m = 1 => G[m] = more[m]) /\ (m # 1 => G[m] = joined(G[m - 1], more[m]))
    <3>1. PICK j \in 1 .. k : j = m
      BY <2>2
    <3>2. (j = 1 => G[j] = more[j]) /\ (j # 1 => G[j] = joined(G[j - 1], more[j]))
      <4>1. AreFlat(G, more, k)
        OBVIOUS
      <4> QED
        BY <4>1, FlatNext
    <3> QED
      BY <3>1, <3>2, Zenon
  <2> HIDE <2>1
  <2>5. F[m] = G[m]
    BY <1>2, <2>2, <2>3, <2>4
  <2> QED
    BY <2>1, <2>5
<1> HIDE DEF S
<1>3. \A i \in Nat : i \in S
  BY <1>1, <1>2, SetInduction
<1> QED
  BY <1>3 DEF S

\* FlattenSeq is the last of these.
LEMMA FlattenIs ==
  ASSUME NEW S, NEW seqs \in Seq(S), Len(seqs) > 0
  PROVE  \E F : AreFlat(F, seqs, Len(seqs)) /\ FlattenSeq(seqs) = F[Len(seqs)]
<1> DEFINE n == Len(seqs)
           D == 1 .. n
           next(f) == [i \in D |-> IF i = 1 THEN seqs[i] ELSE joined(f[i - 1], seqs[i])]
           flatten == CHOOSE f : f = next(f)
<1>1. FlattenSeq(seqs) = flatten[n]
  BY DEF FlattenSeq, joined
<1>2. \A f : f = next(f) => AreFlat(f, seqs, n)
  <2> TAKE f
  <2> HAVE f = next(f)
  <2>1. \A i \in D : f[i] = IF i = 1 THEN seqs[i] ELSE joined(f[i - 1], seqs[i])
    OBVIOUS
  <2>2. f = [i \in D |-> f[i]]
    BY <2>1
  <2> QED
    BY <2>1, <2>2 DEF AreFlat
<1>3. \A f : AreFlat(f, seqs, n) => f = next(f)
  BY DEF AreFlat
<1>4. n \in Nat
  OBVIOUS
<1>5. \E f : AreFlat(f, seqs, n)
  BY <1>4, FlatExists
<1> HIDE DEF next, n
<1>6. \E f : f = next(f)
  BY <1>3, <1>5
<1>7. flatten = next(flatten)
  BY <1>6
<1> HIDE DEF flatten
<1> QED
  BY <1>1, <1>2, <1>7 DEF n

\* A sequence more at the end is a sequence more at the end of the whole.
LEMMA FlattenAppend ==
  ASSUME NEW S, NEW seqs \in Seq(Seq(S)), NEW e \in Seq(S)
  PROVE  FlattenSeq(Append(seqs, e)) = FlattenSeq(seqs) \o e
<1> DEFINE n == Len(seqs)
           more == Append(seqs, e)
<1>1. n \in Nat /\ more \in Seq(Seq(S)) /\ Len(more) = n + 1 /\ more[n + 1] = e
  OBVIOUS
<1>2. \A i \in 1 .. n : seqs[i] = more[i]
  OBVIOUS
<1> HIDE DEF n, more
<1>3. PICK G : AreFlat(G, more, n + 1) /\ FlattenSeq(more) = G[n + 1]
  BY <1>1, FlattenIs
<1>4. CASE n = 0
  <2>1. FlattenSeq(seqs) = << >>
    BY <1>4 DEF FlattenSeq, n
  <2>2. G[n + 1] = e
    BY <1>1, <1>3, <1>4 DEF AreFlat
  <2> QED
    BY <1>3, <2>1, <2>2, ConcatEmptySeq DEF more
<1>5. CASE n > 0
  <2>1. PICK F : AreFlat(F, seqs, n) /\ FlattenSeq(seqs) = F[n]
    BY <1>5, FlattenIs DEF n
  <2>2. F[n] = G[n]
    <3>1. PICK k \in Nat : k = n + 1
      BY <1>1
    <3>2. n <= k /\ n \in 1 .. n /\ AreFlat(F, seqs, n) /\ AreFlat(G, more, k)
      BY <1>1, <1>3, <1>5, <2>1, <3>1
    <3> HIDE <3>1
    <3>3. \A i \in 1 .. n : F[i] = G[i]
      BY <1>1, <1>2, <3>2, FlatAgree
    <3> QED
      BY <3>2, <3>3
  <2>3. PICK m \in 1 .. n + 1 : m = n + 1
    BY <1>1
  <2>4. m # 1 /\ m - 1 = n
    BY <1>1, <1>5, <2>3
  <2>5. G[m] = joined(G[m - 1], more[m])
    BY <1>3, <2>4, FlatNext
  <2>6. G[n + 1] = joined(G[n], e)
    BY <1>1, <2>3, <2>4, <2>5
  <2> QED
    BY <1>3, <2>1, <2>2, <2>6 DEF more, joined
<1> QED
  BY <1>1, <1>4, <1>5

one(b) == <<b>>

\* A single byte.
LEMMA OneIs ==
  ASSUME NEW S, NEW b \in S
  PROVE  one(b) \in Seq(S) /\ Len(one(b)) = 1 /\ one(b)[1] = b
BY DEF one

Joins(r, s, t) ==
  /\ Len(r) = Len(s) + Len(t)
  /\ \A i \in 1 .. Len(s) : r[i] = s[i]
  /\ \A i \in 1 .. Len(t) : r[Len(s) + i] = t[i]

\* How long two sequences are together, and what is where.
LEMMA JoinedIs ==
  ASSUME NEW S, NEW s \in Seq(S), NEW t \in Seq(S)
  PROVE  joined(s, t) \in Seq(S) /\ Joins(joined(s, t), s, t)
<1>1. Len(s) \in Nat /\ Len(t) \in Nat
  OBVIOUS
<1>2. /\ joined(s, t) \in Seq(S)
      /\ Len(joined(s, t)) = Len(s) + Len(t)
      /\ \A i \in 1 .. Len(s) + Len(t) :
           joined(s, t)[i] = IF i <= Len(s) THEN s[i] ELSE t[i - Len(s)]
  BY ConcatProperties DEF joined
<1>3. \A i \in 1 .. Len(s) : i \in 1 .. Len(s) + Len(t) /\ i <= Len(s)
  BY <1>1
<1>4. \A i \in 1 .. Len(t) :
        /\ Len(s) + i \in 1 .. Len(s) + Len(t)
        /\ ~(Len(s) + i <= Len(s))
        /\ (Len(s) + i) - Len(s) = i
  BY <1>1
<1> QED
  BY <1>2, <1>3, <1>4 DEF Joins

\* The empty sequence adds nothing.
LEMMA JoinedNone ==
  ASSUME NEW S, NEW s \in Seq(S)
  PROVE  joined(s, << >>) = s /\ joined(<< >>, s) = s
BY ConcatEmptySeq DEF joined

\* It does not matter which two of three are put together first.
LEMMA JoinedAssociative ==
  ASSUME NEW S, NEW s \in Seq(S), NEW t \in Seq(S), NEW u \in Seq(S)
  PROVE  joined(joined(s, t), u) = joined(s, joined(t, u))
BY ConcatAssociative DEF joined

-----------------------------------------------------------------------------
(* What a field is written as *)

Ascii == 0 .. 127

AsciiUpTo(n) == {s \in Seq(Ascii) : Len(s) <= n}

\* The fields that survive: their numbers and lengths take one byte, and all of
\* their bytes are ASCII.
PlainNumber == {number(k, n) : k \in 1 .. 15, n \in Ascii}
PlainBytes == {bytes(k, s) : k \in 1 .. 15, s \in AsciiUpTo(127)}
PlainField == PlainNumber \cup PlainBytes

\* ASCII is bytes.
LEMMA AsciiBytes ==
  ASSUME NEW s \in Seq(Ascii)
  PROVE  s \in Seq(Byte) /\ Len(s) \in Nat
<1>1. Ascii \subseteq Byte
  BY DEF Ascii, Byte
<1> QED
  BY <1>1, SeqMonotonic

\* What AsciiUpTo says.
LEMMA UpToMeans ==
  ASSUME NEW n \in Nat, NEW s \in AsciiUpTo(n)
  PROVE  s \in Seq(Ascii) /\ Len(s) \in 0 .. n
<1>1. s \in Seq(Ascii) /\ Len(s) <= n
  BY DEF AsciiUpTo
<1>2. Len(s) \in Nat
  BY <1>1, LenProperties
<1> QED
  BY <1>1, <1>2

\* A number below 128 takes two bytes with its tag.
LEMMA EncodedNumber ==
  ASSUME NEW k \in 1 .. 15, NEW n \in Ascii
  PROVE  encodedField(number(k, n)) = <<8 * k, n>>
<1>1. PICK tag \in 0 .. 127 : tag = 8 * k
  OBVIOUS
<1>2. varint(tag) = <<tag>> /\ varint(n) = <<n>>
  BY VarintShort DEF Ascii
<1>3. encodedField(number(k, n)) = varint(8 * k) \o varint(n)
  BY DEF encodedField, number
<1>4. encodedField(number(k, n)) = <<tag>> \o <<n>>
  BY <1>1, <1>2, <1>3
<1> QED
  BY <1>1, <1>4, ConcatOnes

\* Bytes come after their tag and their length, whatever that takes.
LEMMA EncodedBytes ==
  ASSUME NEW k \in 1 .. 15, NEW s
  PROVE  encodedField(bytes(k, s)) = joined(joined(<<8 * k + 2>>, varint(Len(s))), s)
<1>1. PICK tag \in 0 .. 127 : tag = 8 * k + 2
  OBVIOUS
<1>2. varint(tag) = <<tag>>
  BY VarintShort
<1>3. encodedField(bytes(k, s)) = varint(8 * k + 2) \o varint(Len(s)) \o s
  BY DEF encodedField, bytes
<1>4. encodedField(bytes(k, s)) = (<<tag>> \o varint(Len(s))) \o s
  BY <1>1, <1>2, <1>3
<1> QED
  BY <1>1, <1>4 DEF joined

\* A length below 128 takes one byte.
LEMMA EncodedPlainBytes ==
  ASSUME NEW k \in 1 .. 15, NEW s \in AsciiUpTo(127)
  PROVE  encodedField(bytes(k, s)) = joined(<<8 * k + 2, Len(s)>>, s)
<1>1. Len(s) \in 0 .. 127
  BY UpToMeans
<1>2. varint(Len(s)) = <<Len(s)>>
  BY <1>1, VarintShort
<1>3. joined(<<8 * k + 2>>, <<Len(s)>>) = <<8 * k + 2, Len(s)>>
  BY ConcatOnes DEF joined
<1> QED
  BY <1>2, <1>3, EncodedBytes

\* A plain field is written as ASCII, of at least two bytes.
LEMMA EncodedPlain ==
  ASSUME NEW f \in PlainField
  PROVE  encodedField(f) \in Seq(Ascii) /\ Len(encodedField(f)) \in 2 .. 129
<1>1. CASE f \in PlainNumber
  <2>1. PICK k \in 1 .. 15, n \in Ascii : f = number(k, n)
    BY <1>1 DEF PlainNumber
  <2>2. encodedField(f) = <<8 * k, n>>
    BY <2>1, EncodedNumber
  <2>3. 8 * k \in Ascii
    BY DEF Ascii
  <2> QED
    BY <2>2, <2>3
<1>2. CASE f \in PlainBytes
  <2>1. PICK k \in 1 .. 15, s \in AsciiUpTo(127) : f = bytes(k, s)
    BY <1>2 DEF PlainBytes
  <2>2. encodedField(f) = joined(<<8 * k + 2, Len(s)>>, s)
    BY <2>1, EncodedPlainBytes
  <2>3. s \in Seq(Ascii) /\ Len(s) \in 0 .. 127
    BY UpToMeans
  <2>4. 8 * k + 2 \in Ascii /\ Len(s) \in Ascii
    BY <2>3 DEF Ascii
  <2>5. <<8 * k + 2, Len(s)>> \in Seq(Ascii) /\ Len(<<8 * k + 2, Len(s)>>) = 2
    BY <2>4
  <2>6. PICK head : head = <<8 * k + 2, Len(s)>>
    OBVIOUS
  <2>7. head \in Seq(Ascii) /\ Len(head) = 2 /\ encodedField(f) = joined(head, s)
    BY <2>2, <2>5, <2>6
  <2>8. joined(head, s) \in Seq(Ascii) /\ Len(joined(head, s)) = Len(head) + Len(s)
    BY <2>3, <2>7, JoinedIs, Zenon DEF Joins
  <2>9. Len(encodedField(f)) = 2 + Len(s)
    BY <2>7, <2>8
  <2>10. Len(encodedField(f)) \in 2 .. 129
    <3>1. PICK n \in 0 .. 127 : n = Len(s)
      BY <2>3
    <3>2. 2 + n \in 2 .. 129
      OBVIOUS
    <3> QED
      BY <2>9, <3>1, <3>2
  <2> QED
    BY <2>7, <2>8, <2>10, Zenon
<1> QED
  BY <1>1, <1>2 DEF PlainField

-----------------------------------------------------------------------------
(* What fields are written as *)

\* No fields, no bytes.
LEMMA SerializeNone == SerializeAsString(<< >>) = << >>
<1>1. [i \in DOMAIN << >> |-> encodedField(<< >>[i])] = << >>
  OBVIOUS
<1> QED
  BY <1>1 DEF SerializeAsString, FlattenSeq

\* The bytes of a further field come last.
LEMMA SerializeAppend ==
  ASSUME NEW T, NEW fs \in Seq(T), NEW f \in T,
         \A g \in T : encodedField(g) \in Seq(Byte)
  PROVE  SerializeAsString(Append(fs, f)) = joined(SerializeAsString(fs), encodedField(f))
<1> DEFINE written == [i \in 1 .. Len(fs) |-> encodedField(fs[i])]
           more == [i \in 1 .. Len(fs) + 1 |-> encodedField(Append(fs, f)[i])]
<1>1. /\ Len(fs) \in Nat /\ DOMAIN fs = 1 .. Len(fs)
      /\ DOMAIN Append(fs, f) = 1 .. Len(fs) + 1
      /\ \A i \in 1 .. Len(fs) : fs[i] \in T /\ Append(fs, f)[i] = fs[i]
      /\ Append(fs, f)[Len(fs) + 1] = f
  OBVIOUS
<1>2. written \in Seq(Seq(Byte)) /\ Len(written) = Len(fs)
  BY <1>1
<1>3. encodedField(f) \in Seq(Byte)
  OBVIOUS
<1>4. more = Append(written, encodedField(f))
  <2>1. \A i \in 1 .. Len(fs) + 1 : i \in 1 .. Len(fs) \/ i = Len(fs) + 1
    BY <1>1
  <2>2. \A i \in 1 .. Len(fs) + 1 :
          more[i] = IF i = Len(fs) + 1 THEN encodedField(f) ELSE encodedField(fs[i])
    BY <1>1, <2>1
  <2>3. more \in Seq(Seq(Byte)) /\ Len(more) = Len(fs) + 1
    BY <1>1, <1>3, <2>2
  <2>4. /\ Append(written, encodedField(f)) \in Seq(Seq(Byte))
        /\ Len(Append(written, encodedField(f))) = Len(fs) + 1
        /\ \A i \in 1 .. Len(fs) : Append(written, encodedField(f))[i] = encodedField(fs[i])
        /\ Append(written, encodedField(f))[Len(fs) + 1] = encodedField(f)
    BY <1>1, <1>2, <1>3
  <2>5. \A i \in 1 .. Len(fs) + 1 : more[i] = Append(written, encodedField(f))[i]
    BY <1>1, <2>1, <2>2, <2>4
  <2> HIDE DEF more, written
  <2> QED
    BY <2>3, <2>4, <2>5, SeqEqual
<1>5. SerializeAsString(fs) = FlattenSeq(written)
  BY <1>1 DEF SerializeAsString
<1>6. SerializeAsString(Append(fs, f)) = FlattenSeq(more)
  BY <1>1 DEF SerializeAsString
<1> HIDE DEF written, more
<1> QED
  BY <1>2, <1>3, <1>4, <1>5, <1>6, FlattenAppend DEF joined

-----------------------------------------------------------------------------
(* Reading field after field *)

NothingParsed == [fields |-> << >>, next |-> 1, complete |-> TRUE]

\* A[i] is what there is after i fields.
AreParsed(A, s, n) ==
  /\ A = [i \in 0 .. n |-> A[i]]
  /\ A[0] = NothingParsed
  /\ \A i \in 1 .. n : A[i] = nextField(s, A[i - 1])

\* One more field.
LEMMA ParsedNext ==
  ASSUME NEW A, NEW s, NEW n \in Nat, NEW i \in Nat, i < n, AreParsed(A, s, n)
  PROVE  A[i + 1] = nextField(s, A[i])
<1>1. PICK j \in 1 .. n : j = i + 1 /\ j - 1 = i
  OBVIOUS
<1>2. A[j] = nextField(s, A[j - 1])
  BY Zenon DEF AreParsed
<1> QED
  BY <1>1, <1>2

\* There is such an A for every number of fields.
LEMMA ParsedExists ==
  ASSUME NEW s
  PROVE  \A n \in Nat : \E A : AreParsed(A, s, n)
<1> DEFINE S == {n \in Nat : \E A : AreParsed(A, s, n)}
<1>1. 0 \in S
  <2>1. AreParsed([i \in 0 .. 0 |-> NothingParsed], s, 0)
    BY DEF AreParsed
  <2> QED
    BY <2>1
<1>2. ASSUME NEW n \in Nat, n \in S
      PROVE  n + 1 \in S
  <2>1. PICK A : AreParsed(A, s, n)
    BY <1>2
  <2> DEFINE last == nextField(s, A[n])
             B == [i \in 0 .. n + 1 |-> IF i = n + 1 THEN last ELSE A[i]]
  <2>2. B = [i \in 0 .. n + 1 |-> B[i]]
    OBVIOUS
  <2> HIDE DEF last
  <2>3. \A i \in 0 .. n : i \in 0 .. n + 1 /\ i # n + 1
    OBVIOUS
  <2>4. B[n + 1] = last /\ \A i \in 0 .. n : B[i] = A[i]
    BY <2>3
  <2> HIDE DEF B
  <2>5. B[0] = NothingParsed
    BY <2>1, <2>4 DEF AreParsed
  <2>6. ASSUME NEW i \in 1 .. n + 1
        PROVE  B[i] = nextField(s, B[i - 1])
    <3>1. CASE i = n + 1
      <4>1. i - 1 = n /\ n \in 0 .. n
        BY <3>1
      <4> QED
        BY <2>4, <3>1, <4>1 DEF last
    <3>2. CASE i # n + 1
      <4>1. i \in 1 .. n /\ i \in 0 .. n /\ i - 1 \in 0 .. n
        BY <3>2
      <4>2. A[i] = nextField(s, A[i - 1])
        BY <2>1, <4>1, Zenon DEF AreParsed
      <4> QED
        BY <2>4, <4>1, <4>2
    <3> QED
      BY <3>1, <3>2
  <2>7. AreParsed(B, s, n + 1)
    BY <2>2, <2>5, <2>6, Zenon DEF AreParsed
  <2> QED
    BY <2>7
<1> HIDE DEF S
<1>3. \A n \in Nat : n \in S
  BY <1>1, <1>2, SetInduction
<1> QED
  BY <1>3 DEF S

\* fieldsOf takes what there is when the reading has ended.
LEMMA FieldsOfTakes ==
  ASSUME NEW S, NEW s \in Seq(S)
  PROVE  \E A : /\ AreParsed(A, s, Len(s))
                /\ fieldsOf(s) = A[CHOOSE i \in 0 .. Len(s) : ended(s, A[i])]
<1> DEFINE n == Len(s)
           next(f) == [i \in 0 .. n |-> IF i = 0 THEN NothingParsed ELSE nextField(s, f[i - 1])]
           after == CHOOSE f : f = next(f)
           end(f) == CHOOSE i \in 0 .. n : ended(s, f[i])
<1>1. fieldsOf(s) = after[end(after)]
  BY DEF fieldsOf, NothingParsed
<1>2. n \in Nat
  OBVIOUS
<1>3. \A f : f = next(f) => AreParsed(f, s, n)
  <2> TAKE f
  <2> HAVE f = next(f)
  <2>1. \A i \in 0 .. n : f[i] = IF i = 0 THEN NothingParsed ELSE nextField(s, f[i - 1])
    OBVIOUS
  <2>2. f = [i \in 0 .. n |-> f[i]]
    BY <2>1
  <2>3. f[0] = NothingParsed
    BY <1>2, <2>1
  <2>4. \A i \in 1 .. n : f[i] = nextField(s, f[i - 1])
    BY <1>2, <2>1
  <2> QED
    BY <2>2, <2>3, <2>4, Zenon DEF AreParsed
<1>4. \A f : AreParsed(f, s, n) => f = next(f)
  <2> TAKE f
  <2> HAVE AreParsed(f, s, n)
  <2>1. f = [i \in 0 .. n |-> f[i]] /\ f[0] = NothingParsed
    BY Zenon DEF AreParsed
  <2>2. \A i \in 1 .. n : f[i] = nextField(s, f[i - 1])
    BY Zenon DEF AreParsed
  <2>3. \A i \in 0 .. n : i = 0 \/ i \in 1 .. n
    BY <1>2
  <2> QED
    BY <2>1, <2>2, <2>3
<1>5. \E f : AreParsed(f, s, n)
  BY <1>2, ParsedExists
<1> HIDE DEF next, n, end
<1>6. \E f : f = next(f)
  BY <1>4, <1>5
<1>7. after = next(after)
  BY <1>6
<1> HIDE DEF after
<1>8. AreParsed(after, s, n) /\ fieldsOf(s) = after[end(after)]
  BY <1>1, <1>3, <1>7
<1> QED
  BY <1>8 DEF n, end

\* What has ended stays as it is.
LEMMA EndedStays ==
  ASSUME NEW A, NEW s, NEW n \in Nat, NEW i \in 0 .. n, AreParsed(A, s, n), ended(s, A[i])
  PROVE  \A j \in i .. n : A[j] = A[i]
<1> DEFINE S == {k \in Nat : i + k <= n => A[i + k] = A[i]}
<1>1. 0 \in S
  OBVIOUS
<1>2. ASSUME NEW k \in Nat, k \in S
      PROVE  k + 1 \in S
  <2> SUFFICES ASSUME i + (k + 1) <= n
               PROVE  A[i + (k + 1)] = A[i]
    OBVIOUS
  <2>1. PICK j \in Nat : j = i + k /\ j + 1 = i + (k + 1) /\ j < n
    OBVIOUS
  <2>2. A[j] = A[i]
    BY <1>2, <2>1
  <2>3. A[j + 1] = nextField(s, A[j])
    BY <2>1, ParsedNext
  <2>4. nextField(s, A[i]) = A[i]
    BY DEF nextField
  <2> QED
    BY <2>1, <2>2, <2>3, <2>4
<1> HIDE DEF S
<1>3. \A k \in Nat : k \in S
  BY <1>1, <1>2, SetInduction
<1> QED
  <2> TAKE j \in i .. n
  <2>1. j - i \in Nat /\ i + (j - i) = j /\ j <= n
    OBVIOUS
  <2> QED
    BY <1>3, <2>1 DEF S

\* So it does not matter at which place it is looked at.
LEMMA FieldsOfIs ==
  ASSUME NEW S, NEW s \in Seq(S), NEW n \in 0 .. Len(s), NEW r, ended(s, r),
         \A A : AreParsed(A, s, Len(s)) => A[n] = r
  PROVE  fieldsOf(s) = r
<1>1. PICK A : /\ AreParsed(A, s, Len(s))
               /\ fieldsOf(s) = A[CHOOSE i \in 0 .. Len(s) : ended(s, A[i])]
  BY FieldsOfTakes
<1>2. A[n] = r
  BY <1>1
<1>3. PICK k \in 0 .. Len(s) : ended(s, A[k]) /\ fieldsOf(s) = A[k]
  <2>1. \E i \in 0 .. Len(s) : ended(s, A[i])
    BY <1>2
  <2> QED
    BY <1>1, <2>1
<1>4. Len(s) \in Nat
  OBVIOUS
<1>5. CASE k <= n
  <2>1. \A j \in k .. Len(s) : A[j] = A[k]
    BY <1>1, <1>3, <1>4, EndedStays
  <2> QED
    BY <1>2, <1>3, <1>4, <1>5, <2>1
<1>6. CASE n <= k
  <2>1. \A j \in n .. Len(s) : A[j] = A[n]
    BY <1>1, <1>2, <1>4, EndedStays
  <2> QED
    BY <1>2, <1>3, <1>4, <1>6, <2>1
<1> QED
  BY <1>4, <1>5, <1>6

-----------------------------------------------------------------------------
(* Reading one field *)

\* A varint that starts with a byte below 128 ends with it.
LEMMA VarintEndIs ==
  ASSUME NEW s \in Seq(Byte), NEW i \in 1 .. Len(s), NEW j \in i .. Len(s),
         \A k \in i .. j - 1 : s[k] >= 128, s[j] < 128
  PROVE  varintEnd(s, i) = j
<1> DEFINE S == {k \in i .. Len(s) : s[k] < 128}
<1>1. Len(s) \in Nat
  OBVIOUS
<1>2. \A k \in 1 .. Len(s) : s[k] \in Int
  <2>1. \A k \in 1 .. Len(s) : s[k] \in Byte
    BY ElementOfSeq
  <2>2. \A b \in Byte : b \in Int
    BY DEF Byte
  <2> QED
    BY <2>1, <2>2, Zenon
<1>3. j \in S /\ S \subseteq Int /\ S # {}
  BY <1>1
<1>4. ASSUME NEW x \in S
      PROVE  j <= x
  BY <1>1, <1>2, <1>4
<1>5. varintEnd(s, i) = IF S = {} THEN 0 ELSE Min(S)
  BY DEF varintEnd
<1> HIDE DEF S
<1> QED
  BY <1>3, <1>4, <1>5, MinIs

\* Its value is that byte.
LEMMA OneByteValue ==
  ASSUME NEW s, NEW i \in Nat, s[i] \in Ascii
  PROVE  varintValue(s, i, i) = s[i]
<1> DEFINE next(f) == [k \in i .. i |-> (s[k] % 128) + (IF k = i THEN 0 ELSE 128 * f[k + 1])]
           result == [k \in i .. i |-> s[i]]
           value == CHOOSE f : f = next(f)
<1>1. varintValue(s, i, i) = value[i]
  BY DEF varintValue
<1>2. (s[i] % 128) + 0 = s[i]
  BY DEF Ascii
<1>3. \A f : next(f) = result
  BY <1>2
<1>4. result[i] = s[i]
  OBVIOUS
<1> HIDE DEF next, result
<1>5. value = result
  BY <1>3
<1> HIDE DEF value
<1> QED
  BY <1>1, <1>4, <1>5

ReplacedAt(s, i, q) == s[i] = 239 /\ s[i + 1] = 191 /\ s[i + 2] = 189 /\ s[i + 3] = q

IsHuge(v) == v \in Nat /\ \A k \in TwoBytes : v > k

\* The bytes of the replacement character, taken for the beginning of a number, make
\* it larger than any message here is long.
LEMMA ReplacedValue ==
  ASSUME NEW s, NEW i \in Nat, NEW q \in 1 .. 127, ReplacedAt(s, i, q)
  PROVE  IsHuge(varintValue(s, i, i + 3))
<1> DEFINE D == i .. i + 3
           next(f) == [k \in D |-> (s[k] % 128) + (IF k = i + 3 THEN 0 ELSE 128 * f[k + 1])]
           v3 == q
           v2 == 61 + 128 * v3
           v1 == 63 + 128 * v2
           v0 == 111 + 128 * v1
           result == [k \in D |-> IF k = i + 3 THEN v3 ELSE IF k = i + 2 THEN v2
                                  ELSE IF k = i + 1 THEN v1 ELSE v0]
           value == CHOOSE f : f = next(f)
<1>0. s[i] = 239 /\ s[i + 1] = 191 /\ s[i + 2] = 189 /\ s[i + 3] = q
  BY DEF ReplacedAt
<1>1. varintValue(s, i, i + 3) = value[i]
  BY DEF varintValue
<1>2. result = next(result)
  <2>1. ASSUME NEW k \in D
        PROVE  result[k] = (s[k] % 128) + (IF k = i + 3 THEN 0 ELSE 128 * result[k + 1])
    <3>1. CASE k = i + 3
      BY <1>0, <3>1
    <3>2. CASE k = i + 2
      BY <1>0, <3>2
    <3>3. CASE k = i + 1
      BY <1>0, <3>3
    <3>4. CASE k = i
      BY <1>0, <3>4
    <3> QED
      BY <3>1, <3>2, <3>3, <3>4
  <2> QED
    BY <2>1
<1>3. value = next(value)
  BY <1>2
<1> HIDE DEF value
<1>4. /\ value[i + 3] = (s[i + 3] % 128) + 0
      /\ value[i + 2] = (s[i + 2] % 128) + 128 * value[i + 3]
      /\ value[i + 1] = (s[i + 1] % 128) + 128 * value[i + 2]
      /\ value[i] = (s[i] % 128) + 128 * value[i + 1]
  BY <1>3
<1>5. value[i + 3] = q
  BY <1>0, <1>4
<1>6. value[i + 2] = 61 + 128 * q
  BY <1>0, <1>4, <1>5
<1>7. value[i + 1] = 63 + 128 * (61 + 128 * q)
  BY <1>0, <1>4, <1>6
<1>8. value[i] = 111 + 128 * (63 + 128 * (61 + 128 * q))
  BY <1>0, <1>4, <1>7
<1> QED
  BY <1>1, <1>8 DEF TwoBytes, IsHuge

afterRead(s, fs, field, next) ==
  [fields |-> Append(fs, field), next |-> next, complete |-> next <= Len(s) + 1]

\* What a field of length n gets that begins after j.
taken(s, j, n) == SubSeq(s, j + 1, IF n <= Len(s) - j THEN j + n ELSE Len(s))

\* There is a field at p: its tag is that of k and wire type w, and a number n that
\* ends at j follows.
FieldAt(s, p, k, w, j, n) ==
  /\ ~(p > Len(s)) /\ k \in 1 .. 15 /\ j # 0
  /\ s[p] \div 8 = k /\ s[p] % 8 = w
  /\ varintEnd(s, p + 1) = j /\ varintValue(s, p + 1, j) = n

startsAt(fs, p) == [fields |-> fs, next |-> p, complete |-> TRUE]

\* What nextField makes of the tag of a number.
LEMMA NextIsNumber ==
  ASSUME NEW s, NEW p, NEW fs, NEW k, NEW j, NEW n, FieldAt(s, p, k, 0, j, n)
  PROVE  nextField(s, startsAt(fs, p)) = afterRead(s, fs, number(k, n), j + 1)
<1>1. /\ startsAt(fs, p).fields = fs /\ startsAt(fs, p).next = p
      /\ startsAt(fs, p).complete = TRUE
  BY DEF startsAt
<1>2. ~ended(s, startsAt(fs, p))
  BY <1>1, Zenon DEF ended, FieldAt
<1>3. s[p] % 8 \in {0, 2} /\ s[p] % 8 = 0
  BY DEF FieldAt
<1> QED
  BY <1>1, <1>2, <1>3, Zenon DEF nextField, afterRead, FieldAt

\* What nextField makes of the tag of bytes.
LEMMA NextIsBytes ==
  ASSUME NEW s, NEW p, NEW fs, NEW k, NEW j, NEW n, FieldAt(s, p, k, 2, j, n)
  PROVE  nextField(s, startsAt(fs, p)) = afterRead(s, fs, bytes(k, taken(s, j, n)), j + n + 1)
<1>1. /\ startsAt(fs, p).fields = fs /\ startsAt(fs, p).next = p
      /\ startsAt(fs, p).complete = TRUE
  BY DEF startsAt
<1>2. ~ended(s, startsAt(fs, p))
  BY <1>1, Zenon DEF ended, FieldAt
<1>3. s[p] % 8 = 2
  BY DEF FieldAt
<1>4. s[p] % 8 \in {0, 2} /\ s[p] % 8 # 0
  BY <1>3
<1> QED
  BY <1>1, <1>2, <1>4, Zenon DEF nextField, afterRead, taken, FieldAt

\* A number below 128 is read.
LEMMA ReadsNumber ==
  ASSUME NEW s \in Seq(Byte), NEW p \in Nat, p > 0, p < Len(s), NEW fs,
         NEW k \in 1 .. 15, NEW n \in Ascii, s[p] = 8 * k, s[p + 1] = n
  PROVE  nextField(s, startsAt(fs, p)) = afterRead(s, fs, number(k, n), p + 2)
<1>1. /\ Len(s) \in Nat /\ p + 1 \in 1 .. Len(s) /\ p + 2 <= Len(s) + 1 /\ (p + 1) + 1 = p + 2
      /\ n < 128
  BY DEF Ascii
<1>2. s[p] \div 8 = k /\ s[p] % 8 = 0
  OBVIOUS
<1>3. varintEnd(s, p + 1) = p + 1
  <2>1. p + 1 \in p + 1 .. Len(s) /\ \A i \in p + 1 .. p + 1 - 1 : s[i] >= 128
    BY <1>1
  <2> QED
    BY <1>1, <2>1, VarintEndIs
<1>4. varintValue(s, p + 1, p + 1) = n
  BY <1>1, OneByteValue
<1>5. PICK j \in Nat : j = p + 1
  OBVIOUS
<1>6. ~(p > Len(s)) /\ j # 0 /\ j + 1 = p + 2
  BY <1>1, <1>5
<1>7. varintEnd(s, p + 1) = j /\ varintValue(s, p + 1, j) = n
  BY <1>3, <1>4, <1>5
<1>8. FieldAt(s, p, k, 0, j, n)
  BY <1>2, <1>6, <1>7, Zenon DEF FieldAt
<1>9. nextField(s, startsAt(fs, p)) = afterRead(s, fs, number(k, n), j + 1)
  BY <1>8, NextIsNumber
<1> QED
  BY <1>6, <1>9

\* Bytes are read, as many as their length says or as are left.
LEMMA ReadsBytes ==
  ASSUME NEW s \in Seq(Byte), NEW p \in Nat, p > 0, p < Len(s), NEW fs,
         NEW k \in 1 .. 15, s[p] = 8 * k + 2,
         NEW j \in p + 1 .. Len(s), varintEnd(s, p + 1) = j,
         NEW n \in Nat, varintValue(s, p + 1, j) = n
  PROVE  nextField(s, startsAt(fs, p)) = afterRead(s, fs, bytes(k, taken(s, j, n)), j + n + 1)
<1>1. Len(s) \in Nat /\ j # 0
  OBVIOUS
<1>2. s[p] \div 8 = k /\ s[p] % 8 = 2
  OBVIOUS
<1>3. ~(p > Len(s))
  BY <1>1
<1>4. FieldAt(s, p, k, 2, j, n)
  BY <1>1, <1>2, <1>3, Zenon DEF FieldAt
<1> QED
  BY <1>4, NextIsBytes

-----------------------------------------------------------------------------
(* Reading what was written *)

\* e is in s, between u and t.
Surrounded(s, u, e, t) == s = joined(u, joined(e, t))

IsPart(e, s, n) == \A i \in 1 .. Len(e) : s[n + i] = e[i]

\* Where the parts of three sequences in a row are.
LEMMA Within ==
  ASSUME NEW S, NEW u \in Seq(S), NEW e \in Seq(S), NEW t \in Seq(S),
         NEW s, Surrounded(s, u, e, t)
  PROVE  /\ s \in Seq(S)
         /\ Len(s) = Len(u) + Len(e) + Len(t)
         /\ IsPart(e, s, Len(u))
<1>1. PICK r : r = joined(e, t)
  OBVIOUS
<1>2. r \in Seq(S) /\ Joins(r, e, t)
  BY <1>1, JoinedIs, Zenon
<1>3. s = joined(u, r)
  BY <1>1 DEF Surrounded
<1>4. s \in Seq(S) /\ Joins(s, u, r)
  BY <1>2, <1>3, JoinedIs, Zenon
<1> HIDE <1>1
<1>5. PICK a \in Nat, b \in Nat, c \in Nat : a = Len(u) /\ b = Len(e) /\ c = Len(t)
  OBVIOUS
<1>6. Len(r) = b + c /\ \A i \in 1 .. b : r[i] = e[i]
  BY <1>2, <1>5 DEF Joins
<1>7. Len(s) = a + (b + c) /\ \A i \in 1 .. b + c : s[a + i] = r[i]
  BY <1>4, <1>5, <1>6 DEF Joins
<1>8. \A i \in 1 .. b : i \in 1 .. b + c
  OBVIOUS
<1>9. \A i \in 1 .. b : s[a + i] = e[i]
  BY <1>6, <1>7, <1>8
<1>10. IsPart(e, s, Len(u))
  BY <1>5, <1>9 DEF IsPart
<1>11. Len(s) = a + b + c
  BY <1>7
<1> QED
  BY <1>4, <1>5, <1>10, <1>11

\* A part is what stands there.
LEMMA PartIs ==
  ASSUME NEW S, NEW s \in Seq(S), NEW v \in Seq(S), NEW i \in Nat, i + Len(v) <= Len(s),
         \A j \in 1 .. Len(v) : s[i + j] = v[j]
  PROVE  SubSeq(s, i + 1, i + Len(v)) = v
<1>1. Len(s) \in Nat
  OBVIOUS
<1>2. PICK n \in Nat : n = Len(v)
  OBVIOUS
<1>3. PICK a \in 1 .. Len(s) + 1, b \in i .. Len(s) : a = i + 1 /\ b = i + n
  BY <1>1, <1>2
<1>4. /\ SubSeq(s, a, b) \in Seq(S)
      /\ Len(SubSeq(s, a, b)) = IF a <= b THEN b - a + 1 ELSE 0
      /\ \A k \in 1 .. b - a + 1 : SubSeq(s, a, b)[k] = s[a + k - 1]
  BY <1>1, <1>3, SubSeqProperties
<1>5. (IF a <= b THEN b - a + 1 ELSE 0) = n /\ b - a + 1 = n /\ \A k \in 1 .. n : a + k - 1 = i + k
  BY <1>3
<1>6. \A k \in 1 .. n : SubSeq(s, a, b)[k] = v[k]
  BY <1>2, <1>4, <1>5
<1>7. SubSeq(s, a, b) = v
  BY <1>2, <1>4, <1>5, <1>6, SeqEqual
<1> QED
  BY <1>2, <1>3, <1>7

\* Where a plain field was written it is read.
LEMMA ReadsPlain ==
  ASSUME NEW u \in Seq(Byte), NEW t \in Seq(Byte), NEW f \in PlainField, NEW fs,
         NEW s, Surrounded(s, u, encodedField(f), t)
  PROVE  nextField(s, startsAt(fs, Len(u) + 1))
           = startsAt(Append(fs, f), Len(u) + Len(encodedField(f)) + 1)
<1>1. PICK e : e = encodedField(f)
  OBVIOUS
<1>2. e \in Seq(Byte) /\ Len(e) \in 2 .. 129
  BY <1>1, EncodedPlain, AsciiBytes
<1>3. Surrounded(s, u, e, t)
  BY <1>1
<1>4. PICK lu \in Nat, le \in 2 .. 129, ls \in Nat :
        lu = Len(u) /\ le = Len(e) /\ ls = Len(s) /\ lu + le <= ls
  <2>1. PICK a \in Nat, b \in 2 .. 129, c \in Nat : a = Len(u) /\ b = Len(e) /\ c = Len(t)
    BY <1>2
  <2>2. Len(s) = Len(u) + Len(e) + Len(t)
    BY <1>2, <1>3, Within
  <2>3. Len(s) = a + b + c /\ a + b + c \in Nat /\ a + b <= a + b + c
    BY <2>1, <2>2
  <2> QED
    BY <2>1, <2>3
<1>5. s \in Seq(Byte)
  BY <1>2, <1>3, Within
<1>6. \A i \in 1 .. le : s[lu + i] = e[i]
  <2>1. IsPart(e, s, Len(u))
    BY <1>2, <1>3, Within
  <2> QED
    BY <1>4, <2>1 DEF IsPart
<1>7. PICK p \in Nat : p = lu + 1 /\ p > 0 /\ p < ls /\ p + le <= ls + 1
  <2>1. lu + le <= ls
    BY <1>4
  <2>2. lu + 1 \in Nat /\ lu + 1 > 0 /\ lu + 1 < ls /\ lu + 1 + le <= ls + 1
    BY <2>1
  <2> QED
    BY <2>2
<1>8. p < Len(s)
  BY <1>4, <1>7
<1>9. s[p] = e[1] /\ s[p + 1] = e[2]
  <2>1. 1 \in 1 .. le /\ 2 \in 1 .. le /\ p + 1 = lu + 2
    BY <1>7
  <2> QED
    BY <1>6, <1>7, <2>1
<1>10. CASE f \in PlainNumber
  <2>1. PICK k \in 1 .. 15, n \in Ascii : f = number(k, n)
    BY <1>10 DEF PlainNumber
  <2>2. e = <<8 * k, n>>
    BY <1>1, <2>1, EncodedNumber
  <2>3. s[p] = 8 * k /\ s[p + 1] = n
    BY <1>9, <2>2
  <2>4. Len(e) = 2
    BY <2>2
  <2>5. nextField(s, startsAt(fs, p)) = afterRead(s, fs, number(k, n), p + 2)
    BY <1>5, <1>7, <1>8, <2>3, ReadsNumber
  <2>6. p + 2 <= Len(s) + 1 /\ p + 2 = lu + le + 1
    BY <1>4, <1>7, <2>4
  <2>7. afterRead(s, fs, f, p + 2) = startsAt(Append(fs, f), p + 2)
    BY <2>6 DEF afterRead, startsAt
  <2> QED
    BY <1>1, <1>4, <1>7, <2>1, <2>5, <2>6, <2>7
<1>11. CASE f \in PlainBytes
  <2>1. PICK k \in 1 .. 15, v \in AsciiUpTo(127) : f = bytes(k, v)
    BY <1>11 DEF PlainBytes
  <2>2. v \in Seq(Ascii) /\ v \in Seq(Byte) /\ Len(v) \in 0 .. 127
    BY UpToMeans, AsciiBytes
  <2>3. PICK n \in 0 .. 127 : n = Len(v)
    BY <2>2
  <2>4. PICK head : head = <<8 * k + 2, n>>
    OBVIOUS
  <2>5. /\ head \in Seq(Byte) /\ Len(head) = 2
        /\ head[1] = 8 * k + 2 /\ head[2] = n
    BY <2>4 DEF Byte
  <2>6. e = joined(head, v)
    BY <1>1, <2>1, <2>3, <2>4, EncodedPlainBytes
  <2>7. /\ Len(e) = Len(head) + Len(v)
        /\ \A i \in 1 .. Len(head) : e[i] = head[i]
        /\ \A i \in 1 .. Len(v) : e[Len(head) + i] = v[i]
    <3>1. Joins(e, head, v)
      BY <2>2, <2>5, <2>6, JoinedIs, Zenon
    <3> QED
      BY <3>1 DEF Joins
  <2>8. le = 2 + n /\ e[1] = head[1] /\ e[2] = head[2] /\ \A i \in 1 .. n : e[2 + i] = v[i]
    BY <1>4, <2>3, <2>5, <2>6, <2>7
  <2>9. s[p] = 8 * k + 2 /\ s[p + 1] = n
    BY <1>9, <2>5, <2>8
  <2>10. PICK j \in p + 1 .. Len(s) : j = p + 1
    BY <1>4, <1>7
  <2>11. n < 128 /\ n \in Ascii /\ n \in Nat
    BY DEF Ascii
  <2>12. p + 1 \in 1 .. Len(s)
    BY <1>4, <1>7
  <2>13. varintEnd(s, p + 1) = j
    <3>1. \A i \in p + 1 .. j - 1 : s[i] >= 128
      BY <2>10
    <3>2. s[j] < 128 /\ j \in p + 1 .. Len(s)
      BY <2>9, <2>10, <2>11
    <3> QED
      BY <1>5, <2>12, <3>1, <3>2, VarintEndIs
  <2>14. varintValue(s, p + 1, j) = n
    <3>1. varintValue(s, j, j) = s[j]
      BY <2>9, <2>10, <2>11, OneByteValue
    <3> QED
      BY <2>9, <2>10, <3>1
  <2>15. nextField(s, startsAt(fs, p)) = afterRead(s, fs, bytes(k, taken(s, j, n)), j + n + 1)
    BY <1>5, <1>7, <1>8, <2>9, <2>11, <2>13, <2>14, ReadsBytes
  <2>16. taken(s, j, n) = v
    <3>1. n <= Len(s) - j /\ j \in Nat /\ j + n <= Len(s)
      BY <1>4, <1>7, <2>8, <2>10
    <3>2. \A i \in 1 .. n : s[j + i] = v[i]
      <4>1. \A i \in 1 .. n : 2 + i \in 1 .. le /\ j + i = lu + (2 + i)
        BY <1>7, <2>8, <2>10
      <4> QED
        BY <1>6, <2>8, <4>1
    <3>3. j + Len(v) <= Len(s) /\ \A i \in 1 .. Len(v) : s[j + i] = v[i]
      BY <2>3, <3>1, <3>2
    <3>4. SubSeq(s, j + 1, j + Len(v)) = v
      BY <1>5, <2>2, <3>1, <3>3, PartIs
    <3> QED
      BY <2>3, <3>1, <3>4 DEF taken
  <2>17. j + n + 1 = lu + le + 1 /\ j + n + 1 <= Len(s) + 1
    BY <1>4, <1>7, <2>8, <2>10
  <2>18. afterRead(s, fs, f, j + n + 1) = startsAt(Append(fs, f), j + n + 1)
    BY <2>17 DEF afterRead, startsAt
  <2> QED
    BY <1>1, <1>4, <1>7, <2>1, <2>15, <2>16, <2>17, <2>18
<1> QED
  BY <1>10, <1>11 DEF PlainField

-----------------------------------------------------------------------------
(* Reading all that was written *)

first(s, n) == [i \in 1 .. n |-> s[i]]

\* A sequence is its front and its last element.
LEMMA FirstAndLast ==
  ASSUME NEW S, NEW s \in Seq(S), NEW n \in Nat, Len(s) = n + 1
  PROVE  /\ first(s, n) \in Seq(S) /\ Len(first(s, n)) = n
         /\ s[n + 1] \in S
         /\ s = Append(first(s, n), s[n + 1])
<1> DEFINE r == first(s, n)
           x == s[n + 1]
<1>1. \A i \in 1 .. n + 1 : s[i] \in S
  OBVIOUS
<1>2. r \in Seq(S) /\ Len(r) = n /\ x \in S
  BY <1>1 DEF first
<1>3. \A i \in 1 .. n + 1 : i \in 1 .. n \/ i = n + 1
  OBVIOUS
<1>4. \A i \in 1 .. n : r[i] = s[i]
  BY DEF first
<1> HIDE DEF r
<1>5. \A i \in 1 .. n + 1 : s[i] = Append(r, x)[i]
  BY <1>2, <1>3, <1>4
<1>6. s = Append(r, x)
  BY <1>2, <1>5, SeqEqual
<1> QED
  BY <1>2, <1>6 DEF r

Written(fs) ==
  /\ SerializeAsString(fs) \in Seq(Ascii)
  /\ Len(SerializeAsString(fs)) >= Len(fs)
  /\ Len(SerializeAsString(fs)) <= 129 * Len(fs)

\* Whatever follows, the fields are what has been read when as many fields have been
\* read as they are.
ReadBack(fs) ==
  \A t \in Seq(Byte), m \in Nat : \A s, A :
    /\ s = joined(SerializeAsString(fs), t)
    /\ Len(fs) <= m
    /\ AreParsed(A, s, m)
    => A[Len(fs)] = startsAt(fs, Len(SerializeAsString(fs)) + 1)

\* Nothing is read where nothing was written.
LEMMA NoFieldsBack == Written(<< >>) /\ ReadBack(<< >>)
<1>1. SerializeAsString(<< >>) = << >>
  BY SerializeNone
<1>2. << >> \in Seq(Ascii) /\ Len(<< >>) = 0
  OBVIOUS
<1>3. ASSUME NEW s, NEW A, NEW m, AreParsed(A, s, m)
      PROVE  A[0] = startsAt(<< >>, 1)
  BY <1>3 DEF AreParsed, NothingParsed, startsAt
<1>4. Len(<< >>) + 1 = 1 /\ Len(<< >>) >= Len(<< >>) /\ Len(<< >>) <= 129 * Len(<< >>)
  BY <1>2
<1>5. Written(<< >>)
  BY <1>1, <1>2, <1>4 DEF Written
<1>6. ReadBack(<< >>)
  <2> SUFFICES ASSUME NEW t \in Seq(Byte), NEW m \in Nat, NEW s, NEW A, AreParsed(A, s, m)
               PROVE  A[Len(<< >>)] = startsAt(<< >>, Len(<< >>) + 1)
    BY <1>1, Zenon DEF ReadBack
  <2> QED
    BY <1>2, <1>3, <1>4
<1> QED
  BY <1>5, <1>6

\* A further plain field is written behind the others.
LEMMA OneMoreWritten ==
  ASSUME NEW fs \in Seq(PlainField), NEW f \in PlainField, Written(fs)
  PROVE  /\ Written(Append(fs, f))
         /\ SerializeAsString(Append(fs, f)) = joined(SerializeAsString(fs), encodedField(f))
         /\ Len(SerializeAsString(Append(fs, f)))
              = Len(SerializeAsString(fs)) + Len(encodedField(f))
<1>1. PICK w : w = SerializeAsString(fs)
  OBVIOUS
<1>2. PICK e : e = encodedField(f)
  OBVIOUS
<1>3. PICK x : x = SerializeAsString(Append(fs, f))
  OBVIOUS
<1>4. x = joined(w, e)
  <2>1. \A g \in PlainField : encodedField(g) \in Seq(Byte)
    BY EncodedPlain, AsciiBytes
  <2>2. SerializeAsString(Append(fs, f)) = joined(SerializeAsString(fs), encodedField(f))
    BY <2>1, SerializeAppend, Zenon
  <2> QED
    BY <1>1, <1>2, <1>3, <2>2
<1>5. e \in Seq(Ascii) /\ Len(e) \in 2 .. 129
  BY <1>2, EncodedPlain
<1>6. w \in Seq(Ascii) /\ Len(w) >= Len(fs) /\ Len(w) <= 129 * Len(fs)
  BY <1>1 DEF Written
<1>7. x \in Seq(Ascii) /\ Joins(x, w, e)
  BY <1>4, <1>5, <1>6, JoinedIs, Zenon
<1>8. Len(x) = Len(w) + Len(e)
  BY <1>7 DEF Joins
<1>9. PICK a \in Nat, b \in 2 .. 129, c \in Nat : a = Len(w) /\ b = Len(e) /\ c = Len(fs)
  BY <1>5, <1>6
<1>10. Len(Append(fs, f)) = c + 1
  BY <1>9
<1>11. a >= c /\ a <= 129 * c
  BY <1>6, <1>9
<1>12. a + b >= c + 1 /\ a + b <= 129 * (c + 1)
  BY <1>11
<1> QED
  BY <1>1, <1>2, <1>3, <1>4, <1>7, <1>8, <1>9, <1>10, <1>12 DEF Written

\* It is read after the others.
LEMMA OneMoreBack ==
  ASSUME NEW fs \in Seq(PlainField), NEW f \in PlainField, Written(fs), ReadBack(fs)
  PROVE  ReadBack(Append(fs, f))
<1>1. PICK w : w = SerializeAsString(fs)
  OBVIOUS
<1>2. PICK e : e = encodedField(f)
  OBVIOUS
<1>3. PICK x : x = SerializeAsString(Append(fs, f))
  OBVIOUS
<1>4. x = joined(w, e) /\ Len(x) = Len(w) + Len(e)
  BY <1>1, <1>2, <1>3, OneMoreWritten
<1>5. w \in Seq(Byte) /\ e \in Seq(Byte)
  <2>1. w \in Seq(Ascii)
    BY <1>1 DEF Written
  <2>2. e \in Seq(Ascii)
    BY <1>2, EncodedPlain
  <2> QED
    BY <2>1, <2>2, AsciiBytes
<1>6. PICK n \in Nat : n = Len(fs) /\ Len(Append(fs, f)) = n + 1
  OBVIOUS
<1>7. ASSUME NEW t \in Seq(Byte), NEW m \in Nat, NEW s, NEW A,
             s = joined(x, t), n + 1 <= m, AreParsed(A, s, m)
      PROVE  A[n + 1] = startsAt(Append(fs, f), Len(x) + 1)
  <2>1. PICK r : r = joined(e, t)
    OBVIOUS
  <2>2. r \in Seq(Byte)
    BY <1>5, <2>1, JoinedIs, Zenon
  <2>3. s = joined(w, joined(e, t))
    <3>1. joined(joined(w, e), t) = joined(w, joined(e, t))
      BY <1>5, JoinedAssociative
    <3> QED
      BY <1>4, <1>7, <3>1
  <2>4. s = joined(w, r)
    BY <2>1, <2>3
  <2>5. n <= m /\ n < m
    BY <1>7
  <2>6. A[n] = startsAt(fs, Len(w) + 1)
    BY <1>1, <1>6, <1>7, <2>2, <2>4, <2>5, Zenon DEF ReadBack
  <2>7. A[n + 1] = nextField(s, A[n])
    BY <1>7, <2>5, ParsedNext
  <2>8. Surrounded(s, w, e, t)
    BY <2>3 DEF Surrounded
  <2>9. nextField(s, startsAt(fs, Len(w) + 1)) = startsAt(Append(fs, f), Len(w) + Len(e) + 1)
    <3>1. Surrounded(s, w, encodedField(f), t)
      BY <1>2, <2>8
    <3>2. nextField(s, startsAt(fs, Len(w) + 1))
            = startsAt(Append(fs, f), Len(w) + Len(encodedField(f)) + 1)
      BY <1>5, <3>1, ReadsPlain
    <3> QED
      BY <1>2, <3>2
  <2> QED
    BY <1>4, <2>6, <2>7, <2>9, Zenon
<1> QED
  BY <1>3, <1>6, <1>7, Zenon DEF ReadBack

\* However many plain fields are written, and whatever comes behind them,
\* they are read.
LEMMA PlainFieldsBack ==
  ASSUME NEW fs \in Seq(PlainField)
  PROVE  Written(fs) /\ ReadBack(fs)
<1> DEFINE N == {n \in Nat : \A gs \in Seq(PlainField) : Len(gs) = n => Written(gs) /\ ReadBack(gs)}
<1>1. 0 \in N
  <2>1. \A gs \in Seq(PlainField) : Len(gs) = 0 => gs = << >>
    BY EmptySeq
  <2> QED
    BY <2>1, NoFieldsBack
<1>2. ASSUME NEW n \in Nat, n \in N
      PROVE  n + 1 \in N
  <2> SUFFICES ASSUME NEW gs \in Seq(PlainField), Len(gs) = n + 1
               PROVE  Written(gs) /\ ReadBack(gs)
    OBVIOUS
  <2>1. PICK hs \in Seq(PlainField), f \in PlainField : Len(hs) = n /\ gs = Append(hs, f)
    <3>1. /\ first(gs, n) \in Seq(PlainField) /\ Len(first(gs, n)) = n
          /\ gs[n + 1] \in PlainField
          /\ gs = Append(first(gs, n), gs[n + 1])
      BY FirstAndLast
    <3> QED
      BY <3>1, Zenon
  <2>2. Written(hs) /\ ReadBack(hs)
    BY <1>2, <2>1
  <2> QED
    BY <2>1, <2>2, OneMoreWritten, OneMoreBack, Zenon
<1> HIDE DEF N
<1>3. \A n \in Nat : n \in N
  BY <1>1, <1>2, SetInduction
<1> QED
  BY <1>3, LenProperties DEF N

\* A list of plain fields is read as it was written.
THEOREM PlainFieldsRead ==
  ASSUME NEW fs \in Seq(PlainField)
  PROVE  fieldsOf(SerializeAsString(fs)) = startsAt(fs, Len(SerializeAsString(fs)) + 1)
<1>1. PICK w : w = SerializeAsString(fs)
  OBVIOUS
<1>2. w \in Seq(Ascii) /\ Len(w) >= Len(fs)
  BY <1>1, PlainFieldsBack DEF Written
<1>3. w \in Seq(Byte) /\ joined(w, << >>) = w /\ << >> \in Seq(Byte)
  BY <1>2, AsciiBytes, JoinedNone
<1>4. PICK n \in Nat, m \in Nat : n = Len(fs) /\ m = Len(w) /\ n <= m
  BY <1>2
<1>5. \A A : AreParsed(A, w, m) => A[n] = startsAt(fs, m + 1)
  <2>1. ReadBack(fs)
    BY PlainFieldsBack
  <2> QED
    BY <1>1, <1>3, <1>4, <2>1, Zenon DEF ReadBack
<1>6. ended(w, startsAt(fs, m + 1))
  BY <1>4 DEF ended, startsAt
<1>7. n \in 0 .. Len(w) /\ m = Len(w)
  BY <1>4
<1>8. fieldsOf(w) = startsAt(fs, m + 1)
  BY <1>3, <1>5, <1>6, <1>7, FieldsOfIs
<1> QED
  BY <1>1, <1>4, <1>8

-----------------------------------------------------------------------------
(* The two fields of a network message *)

\* ASCII stays as it is in a QString.
LEMMA AsciiConverted ==
  ASSUME NEW s \in Seq(Ascii)
  PROVE  toStdString(s) = s
<1>1. s \in Seq(Byte) /\ Len(s) \in Nat
  BY AsciiBytes
<1>2. \A k \in 1 .. Len(s) : s[k] < 128
  <2>1. \A k \in 1 .. Len(s) : s[k] \in Ascii
    BY ElementOfSeq
  <2>2. \A b \in Ascii : b < 128
    BY DEF Ascii
  <2> QED
    BY <2>1, <2>2, Zenon
<1>3. PICK p \in 1 .. Len(s) + 1 : p = Len(s) + 1
  BY <1>1
<1>4. p > Len(s) /\ ~(p <= Len(s)) /\ p - 1 = Len(s)
  BY <1>1, <1>3
<1>5. toStdString(s) =
        SubSeq(s, 1, p - 1)
          \o (IF p > Len(s) THEN << >> ELSE ReplacementCharacter \o SubSeq(s, p + 1, Len(s)))
  BY <1>1, <1>2, <1>4, Converted
<1>6. toStdString(s) = SubSeq(s, 1, Len(s)) \o << >>
  BY <1>4, <1>5
<1>7. SubSeq(s, 1, Len(s)) = s
  BY <1>1, SubSeqFull
<1> QED
  BY <1>6, <1>7, ConcatEmptySeq

\* A byte of 128 or more before one of ASCII is no character.
LEMMA NoCharacter ==
  ASSUME NEW s, NEW p, s[p] \in 128 .. 255, s[p + 1] \in Ascii
  PROVE  utf8Length(s, p) = 0
<1>1. ~(s[p] < 128)
  OBVIOUS
<1>2. s[p + 1] \notin 128 .. 191
  BY DEF Ascii
<1> QED
  BY <1>1, <1>2, Zenon DEF utf8Length

\* A byte that is not ASCII, between ASCII, is replaced.
LEMMA ByteReplaced ==
  ASSUME NEW u \in Seq(Ascii), NEW v \in Seq(Ascii), Len(v) > 0, NEW b \in 128 .. 255,
         NEW s, Surrounded(s, u, one(b), v)
  PROVE  toStdString(s) = joined(u, joined(ReplacementCharacter, v))
<1>1. u \in Seq(Byte) /\ v \in Seq(Byte)
  BY AsciiBytes
<1>2. PICK e \in Seq(Byte) : e = one(b) /\ Len(e) = 1 /\ e[1] = b
  <2>1. b \in Byte
    BY DEF Byte
  <2>2. one(b) \in Seq(Byte) /\ Len(one(b)) = 1 /\ one(b)[1] = b
    BY <2>1, OneIs
  <2> QED
    BY <2>2, Zenon
<1>3. PICK r : r = joined(e, v)
  OBVIOUS
<1>4. r \in Seq(Byte) /\ Joins(r, e, v)
  BY <1>1, <1>2, <1>3, JoinedIs, Zenon
<1>5. s = joined(u, r)
  BY <1>2, <1>3 DEF Surrounded
<1>6. s \in Seq(Byte) /\ Joins(s, u, r)
  BY <1>1, <1>4, <1>5, JoinedIs, Zenon
<1> HIDE <1>3, <1>5
<1>7. PICK lu \in Nat, lv \in Nat, ls \in Nat : lu = Len(u) /\ lv = Len(v) /\ ls = Len(s) /\ lv > 0
  BY <1>6
<1>8. Len(r) = 1 + lv /\ r[1] = b /\ \A i \in 1 .. lv : r[1 + i] = v[i]
  BY <1>2, <1>4, <1>7 DEF Joins
<1>9. /\ ls = lu + (1 + lv)
      /\ \A i \in 1 .. lu : s[i] = u[i]
      /\ \A i \in 1 .. 1 + lv : s[lu + i] = r[i]
  BY <1>6, <1>7, <1>8 DEF Joins
<1>10. (\A i \in 1 .. lu : u[i] \in Ascii) /\ (\A i \in 1 .. lv : v[i] \in Ascii)
  BY <1>7, ElementOfSeq
<1>11. PICK p \in 1 .. ls : p = lu + 1
  BY <1>7, <1>9
<1>12. s[p] = b /\ s[p + 1] \in Ascii /\ \A i \in 1 .. lv : s[p + i] = v[i]
  <2>1. 1 \in 1 .. 1 + lv /\ \A i \in 1 .. lv : 1 + i \in 1 .. 1 + lv /\ lu + (1 + i) = p + i
    BY <1>7, <1>11
  <2>2. \A i \in 1 .. lv : s[p + i] = v[i]
    BY <1>8, <1>9, <2>1
  <2>3. s[p] = b
    BY <1>8, <1>9, <1>11, <2>1
  <2>4. 1 \in 1 .. lv
    BY <1>7
  <2> QED
    BY <1>10, <2>2, <2>3, <2>4
<1>13. \A k \in 1 .. ls : k # p => s[k] \in Ascii
  <2> TAKE k \in 1 .. ls
  <2> HAVE k # p
  <2>1. CASE k <= lu
    BY <1>9, <1>10, <2>1
  <2>2. CASE k > p
    <3>1. PICK i \in 1 .. lv : i = k - p
      BY <1>9, <1>11, <2>2
    <3>2. p + i = k
      BY <3>1
    <3> QED
      BY <1>10, <1>12, <3>2
  <2> QED
    BY <1>11, <2>1, <2>2
<1>14. \A c \in Ascii : c < 128
  BY DEF Ascii
<1>15. \A k \in 1 .. Len(s) : k # p => s[k] < 128
  BY <1>7, <1>13, <1>14
<1>16. s[p] >= 128 /\ utf8Length(s, p) = 0
  <2>1. s[p] \in 128 .. 255 /\ s[p] >= 128
    BY <1>12
  <2> QED
    BY <1>12, <2>1, NoCharacter
<1>17. p \in 1 .. Len(s) + 1 /\ ~(p > Len(s)) /\ p - 1 = lu
  BY <1>7, <1>11
<1>18. toStdString(s) =
         SubSeq(s, 1, p - 1)
           \o (IF p > Len(s) THEN << >> ELSE ReplacementCharacter \o SubSeq(s, p + 1, Len(s)))
  BY <1>6, <1>15, <1>16, <1>17, Converted
<1>19. toStdString(s) =
         joined(SubSeq(s, 1, p - 1), joined(ReplacementCharacter, SubSeq(s, p + 1, Len(s))))
  BY <1>17, <1>18 DEF joined
<1>20. SubSeq(s, 1, p - 1) = u
  <2>1. 0 \in Nat /\ 0 + Len(u) <= Len(s) /\ \A j \in 1 .. Len(u) : s[0 + j] = u[j]
    BY <1>7, <1>9
  <2>2. SubSeq(s, 0 + 1, 0 + Len(u)) = u
    BY <1>1, <1>6, <2>1, PartIs
  <2> QED
    BY <1>7, <1>17, <2>2
<1>21. SubSeq(s, p + 1, Len(s)) = v
  <2>1. p \in Nat /\ p + Len(v) <= Len(s) /\ \A j \in 1 .. Len(v) : s[p + j] = v[j]
    BY <1>7, <1>9, <1>11, <1>12
  <2>2. SubSeq(s, p + 1, p + Len(v)) = v
    BY <1>1, <1>6, <2>1, PartIs
  <2>3. p + Len(v) = Len(s)
    BY <1>7, <1>9, <1>11
  <2> QED
    BY <2>2, <2>3
<1> QED
  BY <1>19, <1>20, <1>21

\* If every embedded message can be read, they do not end the reading.
LEMMA EmbeddedRead ==
  ASSUME NEW parsed, NEW embedded,
         \A i \in DOMAIN parsed.fields :
           parsed.fields[i].wire = "bytes" /\ parsed.fields[i].number \in embedded
             => fieldsOf(parsed.fields[i].value).complete
  PROVE  throughEmbedded(parsed, embedded) = parsed
BY Zenon DEF throughEmbedded

network(h, d) == <<bytes(1, h), bytes(2, d)>>
headed(h) == <<bytes(1, h)>>

\* The header is read, whatever comes behind it.
LEMMA HeaderBack ==
  ASSUME NEW h \in AsciiUpTo(127)
  PROVE  /\ headed(h) \in Seq(PlainField) /\ Len(headed(h)) = 1
         /\ SerializeAsString(headed(h)) \in Seq(Ascii)
         /\ ReadBack(headed(h))
<1>1. bytes(1, h) \in PlainField
  BY DEF PlainField, PlainBytes
<1>2. headed(h) \in Seq(PlainField) /\ Len(headed(h)) = 1
  BY <1>1 DEF headed
<1> QED
  BY <1>2, PlainFieldsBack, Zenon DEF Written

\* Data that is short is read as it was written.
LEMMA ShortNetwork ==
  ASSUME NEW h \in AsciiUpTo(127), NEW d \in AsciiUpTo(127)
  PROVE  fieldsOf(toStdString(SerializeAsString(network(h, d)))).fields = network(h, d)
<1>1. bytes(1, h) \in PlainField /\ bytes(2, d) \in PlainField
  BY DEF PlainField, PlainBytes
<1>2. network(h, d) \in Seq(PlainField)
  BY <1>1 DEF network
<1>3. SerializeAsString(network(h, d)) \in Seq(Ascii)
  BY <1>2, PlainFieldsBack, Zenon DEF Written
<1>4. toStdString(SerializeAsString(network(h, d))) = SerializeAsString(network(h, d))
  BY <1>3, AsciiConverted
<1>5. fieldsOf(SerializeAsString(network(h, d)))
        = startsAt(network(h, d), Len(SerializeAsString(network(h, d))) + 1)
  BY <1>2, PlainFieldsRead, Zenon
<1> QED
  BY <1>4, <1>5 DEF startsAt

\* Header, tag and length, and data, in another grouping.
LEMMA Regrouped ==
  ASSUME NEW w \in Seq(Byte), NEW a \in Seq(Byte), NEW b \in Seq(Byte), NEW c \in Seq(Byte),
         NEW d \in Seq(Byte)
  PROVE  /\ joined(joined(a, joined(b, c)), d) \in Seq(Byte)
         /\ joined(w, joined(joined(a, joined(b, c)), d))
              = joined(joined(w, a), joined(b, joined(c, d)))
<1>1. joined(b, c) \in Seq(Byte) /\ joined(c, d) \in Seq(Byte)
  BY JoinedIs
<1>2. joined(b, joined(c, d)) \in Seq(Byte)
  BY <1>1, JoinedIs
<1>3. joined(joined(a, joined(b, c)), d) = joined(a, joined(joined(b, c), d))
  BY <1>1, JoinedAssociative
<1>4. joined(joined(b, c), d) = joined(b, joined(c, d))
  BY JoinedAssociative
<1>5. joined(a, joined(b, joined(c, d))) \in Seq(Byte)
  BY <1>2, JoinedIs
<1>6. joined(joined(w, a), joined(b, joined(c, d))) = joined(w, joined(a, joined(b, joined(c, d))))
  BY <1>2, JoinedAssociative
<1> QED
  BY <1>3, <1>4, <1>5, <1>6

LongAscii == {s \in Seq(Ascii) : Len(s) \in TwoBytes}

\* What LongAscii says.
LEMMA LongMeans ==
  ASSUME NEW d \in LongAscii
  PROVE  /\ d \in Seq(Ascii) /\ d \in Seq(Byte)
         /\ Len(d) \in TwoBytes
         /\ low(Len(d)) \in 128 .. 255 /\ high(Len(d)) \in 1 .. 127
<1>1. d \in Seq(Ascii) /\ Len(d) \in TwoBytes
  BY Zenon DEF LongAscii
<1> QED
  BY <1>1, LowHigh, AsciiBytes

\* Longer data has a length of two bytes, and the first of them is no character.
LEMMA LongEncoded ==
  ASSUME NEW d \in LongAscii
  PROVE  encodedField(bytes(2, d))
           = joined(joined(one(18), joined(one(low(Len(d))), one(high(Len(d))))), d)
<1>1. varint(Len(d)) = <<low(Len(d)), high(Len(d))>>
  BY LongMeans, VarintLong, Zenon
<1>2. joined(one(low(Len(d))), one(high(Len(d)))) = <<low(Len(d)), high(Len(d))>>
  BY ConcatOnes, Zenon DEF joined, one
<1>3. encodedField(bytes(2, d)) = joined(joined(<<8 * 2 + 2>>, varint(Len(d))), d)
  BY EncodedBytes
<1>4. 8 * 2 + 2 = 18
  OBVIOUS
<1> QED
  BY <1>1, <1>2, <1>3, <1>4 DEF one

\* A network message whose data has a length of two bytes.
LEMMA LongWritten ==
  ASSUME NEW h \in AsciiUpTo(127), NEW d \in LongAscii
  PROVE  SerializeAsString(network(h, d))
           = joined(joined(SerializeAsString(headed(h)), one(18)),
                    joined(one(low(Len(d))), joined(one(high(Len(d))), d)))
<1> DEFINE w == SerializeAsString(headed(h))
           a == one(18)
           b == one(low(Len(d)))
           c == one(high(Len(d)))
           e == encodedField(bytes(2, d))
<1>1. low(Len(d)) \in Byte /\ high(Len(d)) \in Byte /\ 18 \in Byte
  <2>1. low(Len(d)) \in 128 .. 255 /\ high(Len(d)) \in 1 .. 127
    BY LongMeans
  <2> QED
    BY <2>1 DEF Byte
<1>2. a \in Seq(Byte) /\ b \in Seq(Byte) /\ c \in Seq(Byte)
  BY <1>1, OneIs
<1>3. w \in Seq(Byte) /\ d \in Seq(Byte)
  BY HeaderBack, AsciiBytes, LongMeans
<1>4. e = joined(joined(a, joined(b, c)), d)
  BY LongEncoded, Zenon
<1>5. w = SerializeAsString(headed(h)) /\ e = encodedField(bytes(2, d))
  OBVIOUS
<1> HIDE DEF w, a, b, c, e
<1>6. e \in Seq(Byte) /\ joined(w, e) = joined(joined(w, a), joined(b, joined(c, d)))
  BY <1>2, <1>3, <1>4, Regrouped
<1>7. SerializeAsString(network(h, d)) = joined(w, e)
  <2> DEFINE T == {bytes(1, h), bytes(2, d)}
  <2>1. encodedField(bytes(1, h)) \in Seq(Byte)
    <3>1. bytes(1, h) \in PlainField
      BY DEF PlainField, PlainBytes
    <3> QED
      BY <3>1, EncodedPlain, AsciiBytes
  <2>2. (\A x \in T : encodedField(x) \in Seq(Byte)) /\ bytes(1, h) \in T /\ bytes(2, d) \in T
    BY <1>5, <1>6, <2>1
  <2> HIDE DEF T
  <2>3. headed(h) \in Seq(T)
    BY <2>2 DEF headed
  <2>4. SerializeAsString(Append(headed(h), bytes(2, d)))
          = joined(SerializeAsString(headed(h)), encodedField(bytes(2, d)))
    BY <2>2, <2>3, SerializeAppend
  <2>5. network(h, d) = Append(headed(h), bytes(2, d))
    BY AppendToOne DEF headed, network
  <2> QED
    BY <1>5, <2>4, <2>5
<1> QED
  BY <1>6, <1>7 DEF w, a, b, c


\* What is written over the first byte of the length.
LEMMA LongConverted ==
  ASSUME NEW h \in AsciiUpTo(127), NEW d \in LongAscii
  PROVE  toStdString(SerializeAsString(network(h, d)))
           = joined(joined(SerializeAsString(headed(h)), one(18)),
                    joined(ReplacementCharacter, joined(one(high(Len(d))), d)))
<1> DEFINE w == SerializeAsString(headed(h))
           a == one(18)
           l == low(Len(d))
           c == one(high(Len(d)))
           s == SerializeAsString(network(h, d))
<1>1. l \in 128 .. 255 /\ high(Len(d)) \in Ascii /\ 18 \in Ascii
  BY LongMeans DEF Ascii
<1>2. a \in Seq(Ascii) /\ c \in Seq(Ascii) /\ Len(c) = 1
  BY <1>1, OneIs
<1>3. w \in Seq(Ascii)
  BY HeaderBack
<1>4. d \in Seq(Ascii)
  BY LongMeans
<1>5. s = joined(joined(w, a), joined(one(l), joined(c, d)))
  BY LongWritten
<1> HIDE DEF w, a, l, c, s
<1>6. joined(w, a) \in Seq(Ascii)
  BY <1>2, <1>3, JoinedIs
<1>7. joined(c, d) \in Seq(Ascii) /\ Len(joined(c, d)) > 0
  <2>1. joined(c, d) \in Seq(Ascii) /\ Joins(joined(c, d), c, d)
    BY <1>2, <1>4, JoinedIs
  <2>2. Len(joined(c, d)) = 1 + Len(d) /\ Len(d) \in Nat
    BY <1>2, <1>4, <2>1 DEF Joins
  <2>3. 1 + Len(d) > 0
    BY <2>2
  <2> QED
    BY <2>1, <2>2, <2>3
<1>8. Surrounded(s, joined(w, a), one(l), joined(c, d))
  BY <1>5 DEF Surrounded
<1>9. toStdString(s) = joined(joined(w, a), joined(ReplacementCharacter, joined(c, d)))
  BY <1>1, <1>6, <1>7, <1>8, ByteReplaced
<1> QED
  BY <1>9 DEF w, a, c, s

\* The bytes from the tag of the data up to the data itself.
tagAndLength(q) == joined(one(18), joined(ReplacementCharacter, one(q)))

AreTagAndLength(e, q) ==
  Len(e) = 5 /\ e[1] = 18 /\ e[2] = 239 /\ e[3] = 191 /\ e[4] = 189 /\ e[5] = q

\* The bytes of a tag and of a length that was replaced.
LEMMA TagAndLengthIs ==
  ASSUME NEW q \in 1 .. 127
  PROVE  tagAndLength(q) \in Seq(Byte) /\ AreTagAndLength(tagAndLength(q), q)
<1> DEFINE a == one(18)
           c == one(q)
           R == ReplacementCharacter
           x == joined(R, c)
           y == joined(a, x)
<1>1. 18 \in Byte /\ q \in Byte /\ 239 \in Byte /\ 191 \in Byte /\ 189 \in Byte
  BY DEF Byte
<1>2. a \in Seq(Byte) /\ Len(a) = 1 /\ a[1] = 18 /\ c \in Seq(Byte) /\ Len(c) = 1 /\ c[1] = q
  BY <1>1, OneIs
<1>3. R \in Seq(Byte) /\ Len(R) = 3 /\ R[1] = 239 /\ R[2] = 191 /\ R[3] = 189
  BY <1>1 DEF ReplacementCharacter
<1>4. tagAndLength(q) = y
  BY DEF tagAndLength
<1> HIDE DEF a, c, R, x
<1>5. x \in Seq(Byte) /\ Joins(x, R, c)
  BY <1>2, <1>3, JoinedIs DEF x
<1>6. y \in Seq(Byte) /\ Joins(y, a, x)
  BY <1>2, <1>5, JoinedIs
<1> HIDE DEF y
<1>7. Len(x) = 4 /\ x[1] = 239 /\ x[2] = 191 /\ x[3] = 189 /\ x[4] = q
  <2>1. x[3 + 1] = c[1]
    BY <1>2, <1>3, <1>5 DEF Joins
  <2> QED
    BY <1>2, <1>3, <1>5, <2>1 DEF Joins
<1>8. Len(y) = 5 /\ y[1] = 18 /\ \A i \in 1 .. 4 : y[1 + i] = x[i]
  BY <1>2, <1>6, <1>7 DEF Joins
<1>9. y[2] = x[1] /\ y[3] = x[2] /\ y[4] = x[3] /\ y[5] = x[4]
  <2>1. y[1 + 1] = x[1] /\ y[1 + 2] = x[2] /\ y[1 + 3] = x[3] /\ y[1 + 4] = x[4]
    BY <1>8
  <2> QED
    BY <2>1
<1> QED
  BY <1>4, <1>6, <1>7, <1>8, <1>9 DEF AreTagAndLength

LastRead(s, fs, field, parsed) == parsed.fields = Append(fs, field) /\ ended(s, parsed)

\* The field gets all that is left, and the reading ends there.
LEMMA LongRead ==
  ASSUME NEW w \in Seq(Byte), NEW q \in 1 .. 127, NEW d \in LongAscii, NEW fs,
         NEW s, Surrounded(s, w, tagAndLength(q), d)
  PROVE  LastRead(s, fs, bytes(2, d), nextField(s, startsAt(fs, Len(w) + 1)))
<1>0. PICK e \in Seq(Byte) : e = tagAndLength(q) /\ AreTagAndLength(e, q)
  BY TagAndLengthIs, Zenon
<1>1. Len(e) = 5 /\ e[1] = 18 /\ e[2] = 239 /\ e[3] = 191 /\ e[4] = 189 /\ e[5] = q
  BY <1>0 DEF AreTagAndLength
<1>2. d \in Seq(Byte) /\ Len(d) \in TwoBytes
  BY LongMeans
<1>3. Surrounded(s, w, e, d)
  BY <1>0
<1>4. PICK lw \in Nat, ld \in TwoBytes, ls \in Nat :
        lw = Len(w) /\ ld = Len(d) /\ ls = Len(s) /\ ls = lw + 5 + ld /\ ld > 0
  <2>1. PICK a \in Nat, b \in TwoBytes : a = Len(w) /\ b = Len(d) /\ b > 0 /\ b \in Nat
    <3>1. \A k \in TwoBytes : k > 0 /\ k \in Nat
      BY DEF TwoBytes
    <3> QED
      BY <1>2, <3>1
  <2>2. Len(s) = Len(w) + Len(e) + Len(d)
    BY <1>2, <1>3, Within
  <2>3. Len(s) = a + 5 + b /\ a + 5 + b \in Nat
    BY <1>1, <2>1, <2>2
  <2> QED
    BY <2>1, <2>3
<1>5. s \in Seq(Byte)
  BY <1>1, <1>2, <1>3, Within
<1>6. \A i \in 1 .. 5 : s[lw + i] = e[i]
  <2>1. IsPart(e, s, Len(w))
    BY <1>1, <1>2, <1>3, Within
  <2> QED
    BY <1>1, <1>4, <2>1 DEF IsPart
<1>7. \A i \in 1 .. ld : s[lw + 5 + i] = d[i]
  <2>1. PICK x : x = joined(w, e)
    OBVIOUS
  <2>2. x \in Seq(Byte) /\ Joins(x, w, e)
    BY <1>1, <2>1, JoinedIs, Zenon
  <2>3. joined(joined(w, e), d) = joined(w, joined(e, d))
    BY <1>1, <1>2, JoinedAssociative
  <2>4. s = joined(x, d)
    BY <1>3, <2>1, <2>3 DEF Surrounded
  <2>5. Joins(s, x, d)
    BY <1>2, <2>2, <2>4, JoinedIs, Zenon
  <2>6. Len(x) = lw + 5
    BY <1>1, <1>4, <2>2 DEF Joins
  <2> QED
    BY <1>4, <2>5, <2>6 DEF Joins
<1>8. ld \in Nat
  <2>1. \A k \in TwoBytes : k \in Nat
    BY DEF TwoBytes
  <2> QED
    BY <2>1
<1>9. PICK p \in Nat : p = lw + 1
  OBVIOUS
<1>10. p > 0 /\ p < Len(s) /\ p + 1 \in 1 .. Len(s)
  BY <1>4, <1>8, <1>9
<1>11. s[p] = 8 * 2 + 2
  <2>1. 1 \in 1 .. 5 /\ 8 * 2 + 2 = 18
    OBVIOUS
  <2> QED
    BY <1>1, <1>6, <1>9, <2>1
<1>12. PICK i \in Nat : i = p + 1
  OBVIOUS
<1>13. s[i] = 239 /\ s[i + 1] = 191 /\ s[i + 2] = 189 /\ s[i + 3] = q
  <2>1. /\ 2 \in 1 .. 5 /\ 3 \in 1 .. 5 /\ 4 \in 1 .. 5 /\ 5 \in 1 .. 5
        /\ i = lw + 2 /\ i + 1 = lw + 3 /\ i + 2 = lw + 4 /\ i + 3 = lw + 5
    BY <1>9, <1>12
  <2> QED
    BY <1>1, <1>6, <2>1
<1>14. PICK j \in p + 1 .. Len(s) : j = i + 3
  BY <1>4, <1>8, <1>9, <1>12
<1>15. varintEnd(s, p + 1) = j
  <2>1. \A k \in p + 1 .. j - 1 : s[k] >= 128
    <3>1. \A k \in p + 1 .. j - 1 : k = i \/ k = i + 1 \/ k = i + 2
      BY <1>12, <1>14
    <3>2. s[i] >= 128 /\ s[i + 1] >= 128 /\ s[i + 2] >= 128
      BY <1>13
    <3> QED
      BY <3>1, <3>2
  <2>2. s[j] < 128
    <3>1. s[j] = q
      BY <1>13, <1>14
    <3> QED
      BY <3>1
  <2> QED
    BY <1>5, <1>10, <2>1, <2>2, VarintEndIs
<1>16. PICK n \in Nat : n = varintValue(s, p + 1, j) /\ n > ld
  <2>1. varintValue(s, i, i + 3) \in Nat /\ varintValue(s, i, i + 3) > ld
    <3>1. ReplacedAt(s, i, q)
      BY <1>13 DEF ReplacedAt
    <3>2. IsHuge(varintValue(s, i, i + 3))
      BY <3>1, ReplacedValue, Zenon
    <3> QED
      BY <3>2 DEF IsHuge
  <2> QED
    BY <1>12, <1>14, <2>1
<1>17. nextField(s, startsAt(fs, p)) = afterRead(s, fs, bytes(2, taken(s, j, n)), j + n + 1)
  <2>1. varintValue(s, p + 1, j) = n
    BY <1>16
  <2>2. 2 \in 1 .. 15
    OBVIOUS
  <2> QED
    BY <1>5, <1>10, <1>11, <1>15, <2>1, <2>2, ReadsBytes
<1>18. j = lw + 5 /\ j \in Nat /\ Len(s) = j + ld
  BY <1>4, <1>8, <1>9, <1>12, <1>14
<1>19. taken(s, j, n) = d
  <2>1. ~(n <= Len(s) - j)
    BY <1>4, <1>8, <1>16, <1>18
  <2>2. j + Len(d) <= Len(s) /\ \A k \in 1 .. Len(d) : s[j + k] = d[k]
    BY <1>4, <1>7, <1>8, <1>18
  <2>3. SubSeq(s, j + 1, j + Len(d)) = d
    BY <1>2, <1>5, <1>18, <2>2, PartIs
  <2>4. j + Len(d) = Len(s)
    BY <1>4, <1>18
  <2> QED
    BY <2>1, <2>3, <2>4 DEF taken
<1>20. j + n + 1 > Len(s)
  BY <1>4, <1>8, <1>16, <1>18
<1>21. PICK r : r = afterRead(s, fs, bytes(2, d), j + n + 1)
  OBVIOUS
<1>22. r.fields = Append(fs, bytes(2, d)) /\ r.next = j + n + 1
  BY <1>21 DEF afterRead
<1>23. ended(s, r)
  BY <1>20, <1>22 DEF ended
<1>24. nextField(s, startsAt(fs, Len(w) + 1)) = r
  BY <1>4, <1>9, <1>17, <1>19, <1>21
<1> QED
  BY <1>22, <1>23, <1>24 DEF LastRead


\* Data with a length of two bytes is read as it was written: the length
\* becomes huge, and the field gets all that is left.
LEMMA LongNetwork ==
  ASSUME NEW h \in AsciiUpTo(127), NEW d \in LongAscii
  PROVE  fieldsOf(toStdString(SerializeAsString(network(h, d)))).fields = network(h, d)
<1>1. PICK w : w = SerializeAsString(headed(h))
  OBVIOUS
<1>2. PICK q \in 1 .. 127 : q = high(Len(d))
  BY LongMeans, Zenon
<1>3. PICK e : e = tagAndLength(q)
  OBVIOUS
<1>4. PICK s : s = toStdString(SerializeAsString(network(h, d)))
  OBVIOUS
<1>5. w \in Seq(Byte) /\ d \in Seq(Byte)
  BY <1>1, HeaderBack, LongMeans, AsciiBytes
<1>6. e \in Seq(Byte)
  BY <1>3, TagAndLengthIs, Zenon
<1>7. Surrounded(s, w, e, d)
  <2>1. s = joined(joined(w, one(18)), joined(ReplacementCharacter, joined(one(q), d)))
    BY <1>1, <1>2, <1>4, LongConverted, Zenon
  <2>2. 18 \in Byte /\ q \in Byte /\ 239 \in Byte /\ 191 \in Byte /\ 189 \in Byte
    BY DEF Byte
  <2>3. one(18) \in Seq(Byte) /\ one(q) \in Seq(Byte)
    BY <2>2, OneIs, Zenon
  <2>4. ReplacementCharacter \in Seq(Byte)
    BY <2>2 DEF ReplacementCharacter
  <2>5. joined(w, joined(joined(one(18), joined(ReplacementCharacter, one(q))), d))
          = joined(joined(w, one(18)), joined(ReplacementCharacter, joined(one(q), d)))
    BY <1>5, <2>3, <2>4, Regrouped
  <2> QED
    BY <1>3, <2>1, <2>5, Zenon DEF Surrounded, tagAndLength
<1>8. s \in Seq(Byte) /\ Len(s) = Len(w) + Len(e) + Len(d)
  BY <1>5, <1>6, <1>7, Within
<1>9. PICK m \in Nat : m = Len(s) /\ 1 < m /\ 2 <= m
  <2>1. Len(w) \in Nat /\ Len(d) \in Nat
    BY <1>5
  <2>2. Len(w) + 5 + Len(d) \in Nat /\ 1 < Len(w) + 5 + Len(d) /\ 2 <= Len(w) + 5 + Len(d)
    BY <2>1
  <2> QED
    <3>1. Len(e) = 5
      BY <1>3, TagAndLengthIs, Zenon DEF AreTagAndLength
    <3> QED
      BY <1>8, <2>2, <3>1
<1>10. PICK r : /\ nextField(s, startsAt(headed(h), Len(w) + 1)) = r
                /\ r.fields = Append(headed(h), bytes(2, d))
                /\ ended(s, r)
  <2>1. Surrounded(s, w, tagAndLength(q), d)
    BY <1>3, <1>7
  <2>2. LastRead(s, headed(h), bytes(2, d), nextField(s, startsAt(headed(h), Len(w) + 1)))
    BY <1>5, <2>1, LongRead
  <2> QED
    BY <2>2, Zenon DEF LastRead
<1>11. ASSUME NEW A, AreParsed(A, s, Len(s))
       PROVE  A[2] = r
  <2>1. AreParsed(A, s, m)
    BY <1>9, <1>11
  <2>2. A[1] = startsAt(headed(h), Len(w) + 1)
    <3>1. ReadBack(headed(h)) /\ Len(headed(h)) = 1
      BY HeaderBack
    <3>2. PICK t : t = joined(e, d)
      OBVIOUS
    <3>3. t \in Seq(Byte) /\ s = joined(w, t)
      BY <1>5, <1>6, <1>7, <3>2, JoinedIs DEF Surrounded
    <3>4. 1 <= m
      BY <1>9
    <3> QED
      BY <1>1, <2>1, <3>1, <3>3, <3>4, Zenon DEF ReadBack
  <2>3. A[1 + 1] = nextField(s, A[1])
    BY <1>9, <2>1, ParsedNext
  <2> QED
    BY <1>10, <2>2, <2>3
<1>12. 2 \in 0 .. Len(s)
  BY <1>9
<1>13. fieldsOf(s) = r
  BY <1>8, <1>10, <1>11, <1>12, FieldsOfIs
<1>14. Append(headed(h), bytes(2, d)) = network(h, d)
  BY AppendToOne DEF headed, network
<1> QED
  BY <1>4, <1>10, <1>13, <1>14

NetworkData == AsciiUpTo(127) \cup LongAscii

\* Data with a length of one byte or two.
LEMMA ShortOrLong ==
  ASSUME NEW d \in Seq(Ascii), Len(d) <= 127 \/ Len(d) \in TwoBytes
  PROVE  d \in NetworkData
<1>1. CASE Len(d) <= 127
  <2>1. d \in AsciiUpTo(127)
    BY <1>1, Zenon DEF AsciiUpTo
  <2> QED
    BY <2>1 DEF NetworkData
<1>2. CASE Len(d) \in TwoBytes
  <2>1. d \in LongAscii
    BY <1>2, Zenon DEF LongAscii
  <2> QED
    BY <2>1 DEF NetworkData
<1> QED
  BY <1>1, <1>2

\* Whatever the size of its data, a network message is read as it was written.
THEOREM NetworkRead ==
  ASSUME NEW h \in AsciiUpTo(127), fieldsOf(h).complete, NEW d \in NetworkData
  PROVE  ParseFromString(toStdString(SerializeAsString(network(h, d))), {1}).fields
           = network(h, d)
<1>1. PICK parsed : parsed = fieldsOf(toStdString(SerializeAsString(network(h, d))))
  OBVIOUS
<1>2. d \in AsciiUpTo(127) \/ d \in LongAscii
  BY DEF NetworkData
<1>3. parsed.fields = network(h, d)
  BY <1>1, <1>2, ShortNetwork, LongNetwork
<1>4. \A i \in DOMAIN parsed.fields :
        parsed.fields[i].wire = "bytes" /\ parsed.fields[i].number \in {1}
          => fieldsOf(parsed.fields[i].value).complete
  <2>1. DOMAIN network(h, d) = {1, 2}
    BY DEF network
  <2>2. network(h, d)[1].value = h /\ network(h, d)[2].number = 2
    BY DEF network, bytes
  <2> QED
    BY <1>3, <2>1, <2>2
<1>5. throughEmbedded(parsed, {1}) = parsed
  BY <1>4, EmbeddedRead
<1> QED
  BY <1>1, <1>3, <1>5 DEF ParseFromString

-----------------------------------------------------------------------------
(* Finding a field *)

IsThere(fields, k, wire, v) ==
  \E i \in 1 .. Len(fields) :
    /\ fields[i].number = k /\ fields[i].wire = wire /\ fields[i].value = v
    /\ \A j \in 1 .. Len(fields) : fields[j].number = k /\ fields[j].wire = wire => j <= i

IsMissing(fields, k) == \A i \in 1 .. Len(fields) : fields[i].number # k

\* The getters find what is there.
LEMMA ThereIsGot ==
  ASSUME NEW T, NEW fields \in Seq(T), NEW k, NEW wire, NEW v, IsThere(fields, k, wire, v)
  PROVE  has(fields, k, wire) /\ get(fields, k, wire) = v
<1> DEFINE S == places(fields, k, wire)
<1>1. PICK i \in 1 .. Len(fields) :
        /\ fields[i].number = k /\ fields[i].wire = wire /\ fields[i].value = v
        /\ \A j \in 1 .. Len(fields) : fields[j].number = k /\ fields[j].wire = wire => j <= i
  BY DEF IsThere
<1>2. DOMAIN fields = 1 .. Len(fields) /\ Len(fields) \in Nat
  OBVIOUS
<1>3. i \in S /\ S \subseteq 1 .. Len(fields) /\ \A x \in S : x <= i
  BY <1>1, <1>2 DEF places
<1>4. S \subseteq Int
  BY <1>2, <1>3
<1> HIDE DEF S
<1>5. Max(S) = i
  BY <1>3, <1>4, MaxIs
<1>6. S # {}
  BY <1>3
<1> QED
  BY <1>1, <1>5, <1>6 DEF has, get, S

\* And they do not find what is not.
LEMMA MissingIsNotHad ==
  ASSUME NEW T, NEW fields \in Seq(T), NEW k, NEW wire, IsMissing(fields, k)
  PROVE  ~has(fields, k, wire)
<1>1. DOMAIN fields = 1 .. Len(fields)
  OBVIOUS
<1> QED
  BY <1>1 DEF has, places, IsMissing

\* A sequence with an element more.
LEMMA AppendParts ==
  ASSUME NEW T, NEW fields \in Seq(T), NEW f \in T
  PROVE  /\ Append(fields, f) \in Seq(T)
         /\ Len(Append(fields, f)) = Len(fields) + 1 /\ Len(fields) \in Nat
         /\ \A i \in 1 .. Len(fields) : Append(fields, f)[i] = fields[i]
         /\ Append(fields, f)[Len(fields) + 1] = f
OBVIOUS

\* A field is there once it was added.
LEMMA LastIsThere ==
  ASSUME NEW T, NEW fields \in Seq(T), NEW f \in T
  PROVE  IsThere(Append(fields, f), f.number, f.wire, f.value)
<1>1. PICK n \in Nat : n = Len(fields)
  OBVIOUS
<1>2. PICK g : g = Append(fields, f)
  OBVIOUS
<1>3. Len(g) = n + 1 /\ g[n + 1] = f
  BY <1>1, <1>2, AppendParts
<1>4. n + 1 \in 1 .. n + 1 /\ \A j \in 1 .. n + 1 : j <= n + 1
  OBVIOUS
<1> QED
  BY <1>2, <1>3, <1>4 DEF IsThere

\* What was there stays there when a field of another number is added.
LEMMA OtherIsThere ==
  ASSUME NEW T, NEW fields \in Seq(T), NEW f \in T, NEW k, NEW wire, NEW v, f.number # k,
         IsThere(fields, k, wire, v)
  PROVE  IsThere(Append(fields, f), k, wire, v)
<1>1. PICK n \in Nat : n = Len(fields)
  OBVIOUS
<1>2. PICK g : g = Append(fields, f)
  OBVIOUS
<1>3. Len(g) = n + 1 /\ g[n + 1] = f /\ \A i \in 1 .. n : g[i] = fields[i]
  BY <1>1, <1>2, AppendParts
<1>4. PICK i \in 1 .. n :
        /\ fields[i].number = k /\ fields[i].wire = wire /\ fields[i].value = v
        /\ \A j \in 1 .. n : fields[j].number = k /\ fields[j].wire = wire => j <= i
  BY <1>1 DEF IsThere
<1>5. i \in 1 .. n + 1 /\ \A j \in 1 .. n + 1 : j \in 1 .. n \/ j = n + 1
  OBVIOUS
<1>6. g[i].number = k /\ g[i].wire = wire /\ g[i].value = v
  BY <1>3, <1>4
<1>7. \A j \in 1 .. n + 1 : g[j].number = k /\ g[j].wire = wire => j <= i
  BY <1>3, <1>4, <1>5
<1> QED
  BY <1>2, <1>3, <1>5, <1>6, <1>7 DEF IsThere

\* No number is among no fields.
LEMMA NoneMissing ==
  ASSUME NEW k
  PROVE  IsMissing(<< >>, k)
BY DEF IsMissing

\* A number that is missing stays missing when a field of another number is
\* added.
LEMMA OtherMissing ==
  ASSUME NEW T, NEW fields \in Seq(T), NEW f \in T, NEW k, f.number # k, IsMissing(fields, k)
  PROVE  IsMissing(Append(fields, f), k)
<1>1. PICK n \in Nat : n = Len(fields)
  OBVIOUS
<1>2. PICK g : g = Append(fields, f)
  OBVIOUS
<1>3. Len(g) = n + 1 /\ g[n + 1] = f /\ \A i \in 1 .. n : g[i] = fields[i]
  BY <1>1, <1>2, AppendParts
<1>4. \A j \in 1 .. n + 1 : j \in 1 .. n \/ j = n + 1
  OBVIOUS
<1>5. \A j \in 1 .. n : fields[j].number # k
  BY <1>1 DEF IsMissing
<1>6. \A j \in 1 .. n + 1 : g[j].number # k
  BY <1>3, <1>4, <1>5
<1> QED
  BY <1>2, <1>3, <1>6 DEF IsMissing


\* What the getters return.
LEMMA NumberThere ==
  ASSUME NEW T, NEW fields \in Seq(T), NEW k, NEW n, IsThere(fields, k, "varint", n), NEW default
  PROVE  numberAt(fields, k, default) = n
BY ThereIsGot DEF numberAt

\* A string.
LEMMA StringThere ==
  ASSUME NEW T, NEW fields \in Seq(T), NEW k, NEW s, IsThere(fields, k, "bytes", s)
  PROVE  stringAt(fields, k) = s
BY ThereIsGot DEF stringAt

\* An enumeration.
LEMMA EnumThere ==
  ASSUME NEW T, NEW fields \in Seq(T), NEW k, NEW n \in Nat, IsThere(fields, k, "varint", n),
         NEW values, n < Len(values)
  PROVE  enumAt(fields, k, values) = values[n + 1]
<1>1. numberAt(fields, k, Len(values)) = n
  BY NumberThere
<1> QED
  BY <1>1 DEF enumAt

\* An enumeration that is not set.
LEMMA EnumMissing ==
  ASSUME NEW T, NEW fields \in Seq(T), NEW k, IsMissing(fields, k),
         NEW V, NEW values \in Seq(V)
  PROVE  enumAt(fields, k, values) = None
<1>1. numberAt(fields, k, Len(values)) = Len(values)
  BY MissingIsNotHad DEF numberAt
<1>2. ~(Len(values) < Len(values))
  <2>1. Len(values) \in Nat
    OBVIOUS
  <2> QED
    BY <2>1
<1> QED
  BY <1>1, <1>2 DEF enumAt

-----------------------------------------------------------------------------
(* The fields of a message *)

\* The parts of a field.
LEMMA FieldParts ==
  ASSUME NEW k, NEW v
  PROVE  /\ number(k, v).number = k /\ number(k, v).wire = "varint" /\ number(k, v).value = v
         /\ bytes(k, v).number = k /\ bytes(k, v).wire = "bytes" /\ bytes(k, v).value = v
BY DEF number, bytes

\* Fields with short values are plain.
LEMMA PlainOnes ==
  ASSUME NEW k \in 1 .. 15
  PROVE  /\ \A n \in Ascii : number(k, n) \in PlainField
         /\ \A s \in AsciiUpTo(127) : bytes(k, s) \in PlainField
BY DEF PlainField, PlainNumber, PlainBytes

\* An enumeration as a number, and the constant of that number.
LEMMA EnumIs ==
  ASSUME NEW V, NEW values \in Seq(V), NEW i \in DOMAIN values, NEW k
  PROVE  \E n \in Nat : /\ enum(k, values, values[i]) = number(k, n)
                        /\ n < Len(values) /\ values[n + 1] = values[i]
<1>1. PICK c : c = CHOOSE j \in DOMAIN values : values[j] = values[i]
  OBVIOUS
<1>2. c \in DOMAIN values /\ values[c] = values[i]
  BY <1>1
<1>3. DOMAIN values = 1 .. Len(values) /\ Len(values) \in Nat
  OBVIOUS
<1>4. PICK n \in Nat : n = c - 1 /\ n + 1 = c /\ n < Len(values)
  <2>1. c - 1 \in Nat /\ (c - 1) + 1 = c /\ c - 1 < Len(values)
    BY <1>2, <1>3
  <2> QED
    BY <2>1
<1>5. enum(k, values, values[i]) = number(k, n)
  BY <1>1, <1>4 DEF enum
<1> QED
  BY <1>2, <1>4, <1>5

Actions == {"JOINED", "LEFT", "KICKED", "MUTED", "UNMUTED"}

\* The constants of the enumerations.
LEMMA Enumerations ==
  /\ UserPresence \in Seq(Presences) /\ Len(UserPresence) = 3
  /\ UserAction \in Seq(Actions) /\ Len(UserAction) = 5
  /\ CommandType \in Seq(CommandTypes) /\ Len(CommandType) = 5
<1>1. UserPresence \in Seq(Presences)
  BY DEF UserPresence, Presences
<1>2. UserAction \in Seq(Actions)
  BY DEF UserAction, Actions
<1>3. CommandType \in Seq(CommandTypes)
  BY DEF CommandType, CommandTypes
<1>4. Len(UserPresence) = 3
  BY DEF UserPresence
<1>5. Len(UserAction) = 5
  BY DEF UserAction
<1>6. Len(CommandType) = 5
  BY DEF CommandType
<1> QED
  BY <1>1, <1>2, <1>3, <1>4, <1>5, <1>6

\* A presence as a number.
LEMMA PresenceIs ==
  ASSUME NEW p \in Presences, NEW k
  PROVE  \E n \in 0 .. 2 : enum(k, UserPresence, p) = number(k, n) /\ UserPresence[n + 1] = p
<1>1. \E i \in DOMAIN UserPresence : UserPresence[i] = p
  <2>1. 1 \in DOMAIN UserPresence /\ 2 \in DOMAIN UserPresence /\ 3 \in DOMAIN UserPresence
    BY DEF UserPresence
  <2>2. UserPresence[1] = "ONLINE" /\ UserPresence[2] = "AWAY" /\ UserPresence[3] = "BUSY"
    BY DEF UserPresence
  <2> QED
    BY <2>1, <2>2 DEF Presences
<1>2. PICK i \in DOMAIN UserPresence : UserPresence[i] = p
  BY <1>1
<1>3. PICK n \in Nat : /\ enum(k, UserPresence, UserPresence[i]) = number(k, n)
                       /\ n < Len(UserPresence) /\ UserPresence[n + 1] = UserPresence[i]
  BY Enumerations, EnumIs
<1>4. n \in 0 .. 2
  BY <1>3, Enumerations
<1> QED
  BY <1>2, <1>3, <1>4

\* A field that is added to others, if it is set.
LEMMA OptionalIs ==
  ASSUME NEW T, NEW fields \in Seq(T), NEW f \in T, NEW v
  PROVE  /\ v # None => fields \o optional(v, f) = Append(fields, f)
         /\ v = None => fields \o optional(v, f) = fields
<1>1. v # None => optional(v, f) = <<f>>
  BY DEF optional
<1>2. v = None => optional(v, f) = << >>
  BY DEF optional
<1>3. fields \o <<f>> = Append(fields, f)
  BY AppendIsConcat
<1>4. fields \o << >> = fields
  BY ConcatEmptySeq
<1> QED
  BY <1>1, <1>2, <1>3, <1>4


-----------------------------------------------------------------------------
(* How long fields are *)

\* Fields that survive and take no more than n bytes.
IsPlain(fs, n) ==
  fs \in Seq(PlainField) /\ n \in Nat /\ Len(SerializeAsString(fs)) <= n

\* No fields take no bytes.
LEMMA PlainNone == IsPlain(<< >>, 0)
<1>1. << >> \in Seq(PlainField) /\ 0 \in Nat /\ Len(<< >>) <= 0
  OBVIOUS
<1> QED
  BY <1>1, SerializeNone DEF IsPlain

\* A further field takes what its own bytes take.
LEMMA PlainMore ==
  ASSUME NEW fs, NEW n, IsPlain(fs, n), NEW f \in PlainField, NEW m \in Nat,
         Len(encodedField(f)) <= m
  PROVE  IsPlain(Append(fs, f), n + m)
<1>1. fs \in Seq(PlainField) /\ n \in Nat /\ Len(SerializeAsString(fs)) <= n
  BY DEF IsPlain
<1>2. Append(fs, f) \in Seq(PlainField)
  BY <1>1
<1>3. Written(fs)
  BY <1>1, PlainFieldsBack
<1>4. Len(SerializeAsString(Append(fs, f))) = Len(SerializeAsString(fs)) + Len(encodedField(f))
  BY <1>1, <1>3, OneMoreWritten
<1>5. PICK a \in Nat, b \in Nat : a = Len(SerializeAsString(fs)) /\ b = Len(encodedField(f))
  <2>1. SerializeAsString(fs) \in Seq(Ascii) /\ encodedField(f) \in Seq(Ascii)
    BY <1>3, EncodedPlain DEF Written
  <2> QED
    BY <2>1, LenProperties
<1>6. a + b <= n + m /\ n + m \in Nat
  <2>1. a <= n /\ b <= m
    BY <1>1, <1>5
  <2> QED
    BY <1>1, <2>1
<1> QED
  BY <1>2, <1>4, <1>5, <1>6 DEF IsPlain

\* A number takes two bytes.
LEMMA PlainNumberMore ==
  ASSUME NEW fs, NEW n, IsPlain(fs, n), NEW k \in 1 .. 15, NEW v \in Ascii
  PROVE  IsPlain(Append(fs, number(k, v)), n + 2)
<1>1. number(k, v) \in PlainField
  BY PlainOnes
<1>2. encodedField(number(k, v)) = <<8 * k, v>>
  BY EncodedNumber
<1>3. Len(<<8 * k, v>>) = 2
  OBVIOUS
<1>4. Len(encodedField(number(k, v))) <= 2
  BY <1>2, <1>3
<1> QED
  BY <1>1, <1>4, PlainMore

\* Bytes take two more than they are.
LEMMA PlainBytesMore ==
  ASSUME NEW fs, NEW n, IsPlain(fs, n), NEW k \in 1 .. 15, NEW m \in 0 .. 127, NEW s \in AsciiUpTo(m)
  PROVE  IsPlain(Append(fs, bytes(k, s)), n + (m + 2))
<1>1. s \in Seq(Ascii) /\ Len(s) \in 0 .. m
  BY UpToMeans
<1>2. s \in AsciiUpTo(127)
  <2>1. Len(s) <= 127
    BY <1>1
  <2> QED
    BY <1>1, <2>1, Zenon DEF AsciiUpTo
<1>3. bytes(k, s) \in PlainField
  BY <1>2, PlainOnes
<1>4. PICK head : head = <<8 * k + 2, Len(s)>>
  OBVIOUS
<1>5. PICK l \in 0 .. 127 : l = Len(s) /\ l <= m
  <2>1. Len(s) \in 0 .. 127
    BY <1>2, UpToMeans
  <2>2. Len(s) <= m
    BY Zenon DEF AsciiUpTo
  <2> QED
    BY <2>1, <2>2, Zenon
<1>6. head \in Seq(Ascii) /\ Len(head) = 2
  <2>1. 8 * k + 2 \in Ascii /\ l \in Ascii
    BY DEF Ascii
  <2> QED
    BY <1>4, <1>5, <2>1
<1>7. encodedField(bytes(k, s)) = joined(head, s)
  BY <1>2, <1>4, EncodedPlainBytes
<1>8. Joins(joined(head, s), head, s)
  BY <1>1, <1>6, JoinedIs
<1>9. Len(encodedField(bytes(k, s))) = Len(head) + Len(s)
  BY <1>7, <1>8 DEF Joins
<1>10. Len(encodedField(bytes(k, s))) = 2 + l /\ 2 + l <= m + 2 /\ m + 2 \in Nat
  BY <1>5, <1>6, <1>9
<1>11. Len(encodedField(bytes(k, s))) <= m + 2
  BY <1>10
<1> QED
  BY <1>3, <1>10, <1>11, PlainMore

\* Fields of no more than 127 bytes can be embedded.
LEMMA PlainEmbedded ==
  ASSUME NEW fs, NEW n, IsPlain(fs, n), n <= 127
  PROVE  /\ SerializeAsString(fs) \in AsciiUpTo(127)
         /\ fieldsOf(SerializeAsString(fs)).complete
         /\ ParseFromString(SerializeAsString(fs), {}).fields = fs
<1>1. fs \in Seq(PlainField) /\ n \in Nat /\ Len(SerializeAsString(fs)) <= n
  BY DEF IsPlain
<1>2. SerializeAsString(fs) \in Seq(Ascii)
  BY <1>1, PlainFieldsBack DEF Written
<1>3. Len(SerializeAsString(fs)) <= 127
  BY <1>1, <1>2, LenProperties
<1>4. PICK parsed : parsed = fieldsOf(SerializeAsString(fs))
  OBVIOUS
<1>5. parsed = startsAt(fs, Len(SerializeAsString(fs)) + 1)
  BY <1>1, <1>4, PlainFieldsRead
<1>6. parsed.fields = fs /\ parsed.complete = TRUE
  BY <1>5 DEF startsAt
<1>7. throughEmbedded(parsed, {}) = parsed
  BY EmbeddedRead
<1>8. SerializeAsString(fs) \in AsciiUpTo(127)
  BY <1>2, <1>3, Zenon DEF AsciiUpTo
<1> QED
  BY <1>4, <1>6, <1>7, <1>8 DEF ParseFromString


-----------------------------------------------------------------------------
(* The messages in a message *)

\* The users whose fields can be embedded, and the targets.
FittingUser ==
  [id : Ascii, name : AsciiUpTo(119), presence : Presences, mute : BOOLEAN \cup {None}]

FittingTarget == [user_id : Ascii, user_name : AsciiUpTo(119)]



\* What is there in g once a field was added to the fields fs.
Adds(g, fs, k, wire, v) ==
  /\ IsThere(g, k, wire, v)
  /\ \A o : o # k => \A w, x : IsThere(fs, o, w, x) => IsThere(g, o, w, x)
  /\ \A o : o # k => (IsMissing(fs, o) => IsMissing(g, o))

\* A plain field that is added is there, and the others are as they were.
LEMMA FieldAdded ==
  ASSUME NEW fs \in Seq(PlainField), NEW f \in PlainField, NEW k, NEW wire, NEW v,
         f.number = k, f.wire = wire, f.value = v
  PROVE  Adds(Append(fs, f), fs, k, wire, v)
<1>1. IsThere(Append(fs, f), k, wire, v)
  BY LastIsThere
<1>2. ASSUME NEW o, o # k, NEW w, NEW x, IsThere(fs, o, w, x)
      PROVE  IsThere(Append(fs, f), o, w, x)
  <2>1. f.number # o
    BY <1>2
  <2> QED
    BY <1>2, <2>1, OtherIsThere
<1>3. ASSUME NEW o, o # k, IsMissing(fs, o)
      PROVE  IsMissing(Append(fs, f), o)
  <2>1. f.number # o
    BY <1>3
  <2> QED
    BY <1>3, <2>1, OtherMissing
<1> QED
  BY <1>1, <1>2, <1>3, Zenon DEF Adds

\* One more number, and one more string.
LEMMA NumberAdded ==
  ASSUME NEW fs, NEW n, IsPlain(fs, n), NEW k \in 1 .. 15, NEW v \in Ascii
  PROVE  /\ Adds(Append(fs, number(k, v)), fs, k, "varint", v)
         /\ IsPlain(Append(fs, number(k, v)), n + 2)
<1>1. fs \in Seq(PlainField)
  BY DEF IsPlain
<1>2. number(k, v) \in PlainField
  BY PlainOnes
<1>3. number(k, v).number = k /\ number(k, v).wire = "varint" /\ number(k, v).value = v
  BY FieldParts
<1>4. Adds(Append(fs, number(k, v)), fs, k, "varint", v)
  BY <1>1, <1>2, <1>3, FieldAdded
<1> QED
  BY <1>4, PlainNumberMore

\* The same for bytes.
LEMMA BytesAdded ==
  ASSUME NEW fs, NEW n, IsPlain(fs, n), NEW k \in 1 .. 15, NEW m \in 0 .. 127, NEW s \in AsciiUpTo(m)
  PROVE  /\ Adds(Append(fs, bytes(k, s)), fs, k, "bytes", s)
         /\ IsPlain(Append(fs, bytes(k, s)), n + (m + 2))
<1>1. fs \in Seq(PlainField)
  BY DEF IsPlain
<1>2. s \in AsciiUpTo(127)
  <2>1. s \in Seq(Ascii) /\ Len(s) \in 0 .. m
    BY UpToMeans
  <2>2. Len(s) <= 127
    BY <2>1
  <2> QED
    BY <2>1, <2>2, Zenon DEF AsciiUpTo
<1>3. bytes(k, s) \in PlainField
  BY <1>2, PlainOnes
<1>4. bytes(k, s).number = k /\ bytes(k, s).wire = "bytes" /\ bytes(k, s).value = s
  BY FieldParts
<1>5. Adds(Append(fs, bytes(k, s)), fs, k, "bytes", s)
  BY <1>1, <1>3, <1>4, FieldAdded
<1> QED
  BY <1>5, PlainBytesMore

\* The two fields every user has.
LEMMA IdAndName ==
  ASSUME NEW i \in Ascii, NEW s \in AsciiUpTo(119)
  PROVE  /\ IsPlain(<<number(1, i), bytes(2, s)>>, 123)
         /\ IsThere(<<number(1, i), bytes(2, s)>>, 1, "varint", i)
         /\ IsThere(<<number(1, i), bytes(2, s)>>, 2, "bytes", s)
         /\ IsMissing(<<number(1, i), bytes(2, s)>>, 3)
         /\ IsMissing(<<number(1, i), bytes(2, s)>>, 4)
<1> DEFINE e == << >>
           f == Append(e, number(1, i))
           h == Append(f, bytes(2, s))
<1>1. IsPlain(e, 0) /\ IsMissing(e, 3) /\ IsMissing(e, 4)
  BY PlainNone, NoneMissing
<1>2. h = <<number(1, i), bytes(2, s)>>
  <2>1. f = <<number(1, i)>>
    OBVIOUS
  <2> QED
    BY <2>1, AppendToOne
<1> HIDE DEF e
<1>3. Adds(f, e, 1, "varint", i) /\ IsPlain(f, 2)
  <2>1. Adds(f, e, 1, "varint", i) /\ IsPlain(f, 0 + 2)
    BY <1>1, NumberAdded
  <2> QED
    BY <2>1
<1> HIDE DEF f
<1>4. Adds(h, f, 2, "bytes", s) /\ IsPlain(h, 123)
  <2>1. Adds(h, f, 2, "bytes", s) /\ IsPlain(h, 2 + (119 + 2))
    BY <1>3, BytesAdded
  <2> QED
    BY <2>1
<1> HIDE DEF h
<1>5. IsThere(f, 1, "varint", i) /\ IsMissing(f, 3) /\ IsMissing(f, 4)
  BY <1>1, <1>3 DEF Adds
<1>6. IsThere(h, 1, "varint", i) /\ IsThere(h, 2, "bytes", s) /\ IsMissing(h, 3) /\ IsMissing(h, 4)
  BY <1>4, <1>5 DEF Adds
<1> QED
  BY <1>2, <1>4, <1>6


\* One more enumeration, and one more flag.
AddsPresence(g, fs, k, p) ==
  \E v \in 0 .. 2 : Adds(g, fs, k, "varint", v) /\ UserPresence[v + 1] = p

\* A presence is added.
LEMMA PresenceAdded ==
  ASSUME NEW fs, NEW n, IsPlain(fs, n), NEW k \in 1 .. 15, NEW p \in Presences
  PROVE  /\ IsPlain(Append(fs, enum(k, UserPresence, p)), n + 2)
         /\ AddsPresence(Append(fs, enum(k, UserPresence, p)), fs, k, p)
<1>1. PICK v \in 0 .. 2 : enum(k, UserPresence, p) = number(k, v) /\ UserPresence[v + 1] = p
  BY PresenceIs
<1>2. v \in Ascii
  BY DEF Ascii
<1>3. Adds(Append(fs, number(k, v)), fs, k, "varint", v) /\ IsPlain(Append(fs, number(k, v)), n + 2)
  BY <1>2, NumberAdded
<1> QED
  BY <1>1, <1>3 DEF AddsPresence

\* A flag is added.
LEMMA BoolAdded ==
  ASSUME NEW fs, NEW n, IsPlain(fs, n), NEW k \in 1 .. 15, NEW b
  PROVE  /\ IsPlain(Append(fs, bool(k, b)), n + 2)
         /\ Adds(Append(fs, bool(k, b)), fs, k, "varint", IF b THEN 1 ELSE 0)
<1>1. PICK v : v = IF b THEN 1 ELSE 0
  OBVIOUS
<1>2. v \in Ascii
  BY <1>1 DEF Ascii
<1>3. Adds(Append(fs, number(k, v)), fs, k, "varint", v) /\ IsPlain(Append(fs, number(k, v)), n + 2)
  BY <1>2, NumberAdded
<1> QED
  BY <1>1, <1>3 DEF bool

\* A user is read as it was written.
LEMMA UserBack ==
  ASSUME NEW u \in FittingUser
  PROVE  IsPlain(userFields(u), 127) /\ userIn(userFields(u)) = u
<1>1. u.id \in Ascii /\ u.name \in AsciiUpTo(119) /\ u.presence \in Presences
      /\ u.mute \in BOOLEAN \cup {None}
  BY DEF FittingUser
<1>2. u = [id |-> u.id, name |-> u.name, presence |-> u.presence, mute |-> u.mute]
  BY DEF FittingUser
<1> DEFINE e == <<number(1, u.id), bytes(2, u.name)>>
           f == Append(e, enum(3, UserPresence, u.presence))
           h == IF u.mute = None THEN f ELSE Append(f, bool(4, u.mute))
<1>3. /\ IsPlain(e, 123) /\ IsThere(e, 1, "varint", u.id) /\ IsThere(e, 2, "bytes", u.name)
      /\ IsMissing(e, 3) /\ IsMissing(e, 4)
  BY <1>1, IdAndName
<1>4. IsPlain(f, 125) /\ AddsPresence(f, e, 3, u.presence)
  <2> HIDE DEF e
  <2>1. IsPlain(f, 123 + 2) /\ AddsPresence(f, e, 3, u.presence)
    <3>1. PICK p \in Presences : p = u.presence
      BY <1>1
    <3>2. PICK g : g = Append(e, enum(3, UserPresence, p))
      OBVIOUS
    <3>3. IsPlain(g, 123 + 2)
      BY <1>3, <3>2, PresenceAdded
    <3>4. AddsPresence(g, e, 3, p)
      BY <1>3, <3>2, PresenceAdded
    <3>5. g = f
      BY <3>1, <3>2
    <3> HIDE DEF f
    <3> QED
      BY <3>1, <3>3, <3>4, <3>5
  <2> QED
    BY <2>1
<1>5. PICK v \in 0 .. 2 : Adds(f, e, 3, "varint", v) /\ UserPresence[v + 1] = u.presence
  BY <1>4 DEF AddsPresence
<1>6. userFields(u) = h
  <2>1. e \in Seq(PlainField) /\ f \in Seq(PlainField)
    BY <1>3, <1>4 DEF IsPlain
  <2>2. enum(3, UserPresence, u.presence) \in PlainField
    <3>1. PICK n \in 0 .. 2 : enum(3, UserPresence, u.presence) = number(3, n)
      BY <1>1, PresenceIs
    <3>2. n \in Ascii
      BY DEF Ascii
    <3> QED
      BY <3>1, <3>2, PlainOnes
  <2>3. bool(4, u.mute) \in PlainField
    <3>1. PICK n : n = IF u.mute THEN 1 ELSE 0
      OBVIOUS
    <3>2. n \in Ascii
      BY <3>1 DEF Ascii
    <3> QED
      BY <3>1, <3>2, PlainOnes DEF bool
  <2>4. u.presence # None
    BY <1>1, UnsetAssumption
  <2>5. e \o optional(u.presence, enum(3, UserPresence, u.presence)) = f
    BY <2>1, <2>2, <2>4, OptionalIs
  <2>6. f \o optional(u.mute, bool(4, u.mute)) = h
    BY <2>1, <2>3, OptionalIs
  <2> HIDE DEF f, h
  <2> QED
    BY <2>5, <2>6 DEF userFields
<1> HIDE DEF e
<1> HIDE DEF f
<1>7. /\ IsThere(f, 1, "varint", u.id) /\ IsThere(f, 2, "bytes", u.name)
      /\ IsThere(f, 3, "varint", v) /\ IsMissing(f, 4)
  BY <1>3, <1>5 DEF Adds
<1>8. /\ IsPlain(h, 127) /\ IsThere(h, 1, "varint", u.id) /\ IsThere(h, 2, "bytes", u.name)
      /\ IsThere(h, 3, "varint", v)
      /\ IF u.mute = None THEN IsMissing(h, 4)
         ELSE IsThere(h, 4, "varint", IF u.mute THEN 1 ELSE 0)
  <2>1. CASE u.mute = None
    <3>1. IsPlain(f, 127)
      BY <1>4 DEF IsPlain
    <3> QED
      BY <1>7, <2>1, <3>1
  <2>2. CASE u.mute # None
    <3>1. h = Append(f, bool(4, u.mute))
      BY <2>2
    <3> HIDE DEF h
    <3>2. Adds(h, f, 4, "varint", IF u.mute THEN 1 ELSE 0) /\ IsPlain(h, 125 + 2)
      BY <1>4, <3>1, BoolAdded
    <3>3. IsThere(h, 4, "varint", IF u.mute THEN 1 ELSE 0)
      BY <3>2 DEF Adds
    <3>4. IsThere(h, 1, "varint", u.id) /\ IsThere(h, 2, "bytes", u.name) /\ IsThere(h, 3, "varint", v)
      BY <1>7, <3>2 DEF Adds
    <3> QED
      BY <2>2, <3>2, <3>3, <3>4
  <2> QED
    BY <2>1, <2>2
<1> HIDE DEF h
<1>9. h \in Seq(PlainField)
  BY <1>8 DEF IsPlain
<1>10. numberAt(h, 1, 0) = u.id /\ stringAt(h, 2) = u.name
  BY <1>8, <1>9, NumberThere, StringThere
<1>11. enumAt(h, 3, UserPresence) = u.presence
  <2>1. v \in Nat /\ v < Len(UserPresence)
    BY Enumerations
  <2> QED
    BY <1>5, <1>8, <1>9, <2>1, EnumThere
<1>12. (IF has(h, 4, "varint") THEN get(h, 4, "varint") # 0 ELSE None) = u.mute
  <2>1. CASE u.mute = None
    BY <1>8, <1>9, <2>1, MissingIsNotHad
  <2>2. CASE u.mute = TRUE
    <3>1. IsThere(h, 4, "varint", 1)
      BY <1>8, <2>2, UnsetAssumption
    <3>2. has(h, 4, "varint") /\ get(h, 4, "varint") = 1
      BY <1>9, <3>1, ThereIsGot
    <3>3. (get(h, 4, "varint") # 0) = TRUE
      BY <3>2
    <3> QED
      BY <2>2, <3>2, <3>3, Zenon
  <2>3. CASE u.mute = FALSE
    <3>1. IsThere(h, 4, "varint", 0)
      BY <1>8, <2>3, UnsetAssumption
    <3>2. has(h, 4, "varint") /\ get(h, 4, "varint") = 0
      BY <1>9, <3>1, ThereIsGot
    <3>3. (get(h, 4, "varint") # 0) = FALSE
      BY <3>2
    <3> QED
      BY <2>3, <3>2, <3>3, Zenon
  <2> QED
    BY <1>1, <2>1, <2>2, <2>3
<1>13. userIn(h) = u
  BY <1>2, <1>10, <1>11, <1>12 DEF userIn
<1> QED
  BY <1>6, <1>8, <1>13


\* A target is read as it was written.
LEMMA TargetBack ==
  ASSUME NEW t \in FittingTarget
  PROVE  IsPlain(targetFields(t), 127) /\ targetIn(targetFields(t)) = t
<1>1. PICK i \in Ascii, s \in AsciiUpTo(119) : i = t.user_id /\ s = t.user_name
  BY DEF FittingTarget
<1>2. t = [user_name |-> s, user_id |-> i]
  BY <1>1 DEF FittingTarget
<1> DEFINE e == << >>
           f == Append(e, bytes(1, s))
           h == Append(f, number(2, i))
<1>3. IsPlain(e, 0)
  BY PlainNone
<1>4. h = targetFields(t)
  <2>1. f = <<bytes(1, s)>>
    OBVIOUS
  <2>2. h = <<bytes(1, s), number(2, i)>>
    BY <2>1, AppendToOne
  <2> HIDE DEF h
  <2> QED
    BY <1>1, <2>2 DEF targetFields
<1> HIDE DEF e
<1>5. Adds(f, e, 1, "bytes", s) /\ IsPlain(f, 121)
  <2>1. Adds(f, e, 1, "bytes", s) /\ IsPlain(f, 0 + (119 + 2))
    BY <1>3, BytesAdded
  <2> QED
    BY <2>1
<1> HIDE DEF f
<1>6. Adds(h, f, 2, "varint", i) /\ IsPlain(h, 123)
  <2>1. Adds(h, f, 2, "varint", i) /\ IsPlain(h, 121 + 2)
    BY <1>5, NumberAdded
  <2> QED
    BY <2>1
<1> HIDE DEF h
<1>7. h \in Seq(PlainField) /\ IsPlain(h, 127)
  BY <1>6 DEF IsPlain
<1>8. IsThere(h, 1, "bytes", s) /\ IsThere(h, 2, "varint", i)
  BY <1>5, <1>6 DEF Adds
<1>9. stringAt(h, 1) = s /\ numberAt(h, 2, 0) = i
  BY <1>7, <1>8, StringThere, NumberThere
<1>10. targetIn(h) = t
  BY <1>2, <1>9 DEF targetIn
<1> QED
  BY <1>4, <1>7, <1>10

-----------------------------------------------------------------------------
(* A message in a message *)

\* The embedded messages among the fields can be read to their ends.
AreWhole(fs, embedded) ==
  \A i \in DOMAIN fs : fs[i].wire = "bytes" /\ fs[i].number \in embedded
                         => fieldsOf(fs[i].value).complete

\* There is nothing to read to its end.
LEMMA NoneWhole ==
  ASSUME NEW embedded
  PROVE  AreWhole(<< >>, embedded)
BY DEF AreWhole

\* The one that is added can be read to its end as well.
LEMMA OneMoreWhole ==
  ASSUME NEW fs \in Seq(PlainField), NEW embedded, AreWhole(fs, embedded), NEW f \in PlainField,
         f.wire = "bytes" /\ f.number \in embedded => fieldsOf(f.value).complete
  PROVE  AreWhole(Append(fs, f), embedded)
<1>1. PICK n \in Nat : n = Len(fs)
  OBVIOUS
<1>2. PICK g : g = Append(fs, f)
  OBVIOUS
<1>3. g \in Seq(PlainField) /\ Len(g) = n + 1 /\ g[n + 1] = f /\ \A i \in 1 .. n : g[i] = fs[i]
  BY <1>1, <1>2, AppendParts
<1>4. DOMAIN g = 1 .. n + 1 /\ DOMAIN fs = 1 .. n
  BY <1>1, <1>3
<1>5. \A i \in 1 .. n + 1 : i \in 1 .. n \/ i = n + 1
  OBVIOUS
<1>6. \A i \in 1 .. n : fs[i].wire = "bytes" /\ fs[i].number \in embedded
                          => fieldsOf(fs[i].value).complete
  BY <1>4 DEF AreWhole
<1>7. \A i \in 1 .. n + 1 : g[i].wire = "bytes" /\ g[i].number \in embedded
                              => fieldsOf(g[i].value).complete
  BY <1>3, <1>5, <1>6
<1> QED
  BY <1>2, <1>4, <1>7 DEF AreWhole

\* An embedded message is added.
LEMMA MessageAdded ==
  ASSUME NEW fs, NEW n, IsPlain(fs, n), NEW k \in 1 .. 15, NEW u, IsPlain(u, 127)
  PROVE  /\ Adds(Append(fs, message(k, u)), fs, k, "bytes", SerializeAsString(u))
         /\ IsPlain(Append(fs, message(k, u)), n + 129)
         /\ message(k, u) \in PlainField /\ message(k, u).number = k
         /\ fieldsOf(message(k, u).value).complete
<1>1. PICK s : s = SerializeAsString(u)
  OBVIOUS
<1>2. s \in AsciiUpTo(127) /\ fieldsOf(s).complete
  BY <1>1, PlainEmbedded
<1>3. Adds(Append(fs, bytes(k, s)), fs, k, "bytes", s) /\ IsPlain(Append(fs, bytes(k, s)), n + (127 + 2))
  <2>1. 127 \in 0 .. 127
    OBVIOUS
  <2> QED
    BY <1>2, <2>1, BytesAdded, Zenon
<1>4. 127 + 2 = 129
  OBVIOUS
<1>5. bytes(k, s) \in PlainField
  BY <1>2, PlainOnes
<1>6. bytes(k, s).number = k /\ bytes(k, s).value = s
  BY FieldParts
<1>7. message(k, u) = bytes(k, s)
  BY <1>1 DEF message
<1> QED
  BY <1>1, <1>2, <1>3, <1>4, <1>5, <1>6, <1>7

\* And read again.
LEMMA MessageThere ==
  ASSUME NEW fs \in Seq(PlainField), NEW k, NEW u, IsPlain(u, 127),
         IsThere(fs, k, "bytes", SerializeAsString(u))
  PROVE  has(fs, k, "bytes") /\ fieldsAt(fs, k) = u
<1>1. has(fs, k, "bytes") /\ get(fs, k, "bytes") = SerializeAsString(u)
  BY ThereIsGot
<1>2. ParseFromString(SerializeAsString(u), {}).fields = u
  BY PlainEmbedded
<1> QED
  BY <1>1, <1>2 DEF fieldsAt


-----------------------------------------------------------------------------
(* A message *)

\* What fits into a network message.
Fits(n) == n <= 127 \/ n \in TwoBytes

\* What is shorter than something that fits, fits.
LEMMA LessFits ==
  ASSUME NEW n \in Nat, NEW l \in Nat, l <= n, Fits(n)
  PROVE  Fits(l)
<1>1. CASE n <= 127
  <2>1. l <= 127
    BY <1>1
  <2> QED
    BY <2>1 DEF Fits
<1>2. CASE n \in TwoBytes
  <2>1. l <= 127 \/ l \in 128 .. n
    OBVIOUS
  <2>2. \A k \in 128 .. n : k \in TwoBytes
    BY <1>2, SMT DEF TwoBytes
  <2> QED
    BY <2>1, <2>2 DEF Fits
<1> QED
  BY <1>1, <1>2 DEF Fits

\* Fields that fit make data that is read as it was written.
LEMMA PlainFits ==
  ASSUME NEW fs, NEW n, IsPlain(fs, n), Fits(n)
  PROVE  SerializeAsString(fs) \in NetworkData
<1>1. fs \in Seq(PlainField) /\ n \in Nat /\ Len(SerializeAsString(fs)) <= n
  BY DEF IsPlain
<1>2. SerializeAsString(fs) \in Seq(Ascii)
  BY <1>1, PlainFieldsBack DEF Written
<1>3. PICK l \in Nat : l = Len(SerializeAsString(fs))
  BY <1>2, LenProperties
<1>4. Fits(l)
  <2>1. l <= n
    BY <1>1, <1>3
  <2> QED
    BY <1>1, <2>1, LessFits
<1> QED
  BY <1>2, <1>3, <1>4, ShortOrLong DEF Fits

\* The header is read as it was written.
LEMMA TypeBack ==
  ASSUME NEW type \in DOMAIN NetworkMessageType
  PROVE  /\ NetworkMessageType[type] \in Ascii
         /\ typeNumbered(NetworkMessageType[type]) = type
<1>1. DOMAIN NetworkMessageType =
        {"USER_JOIN_REQUEST", "USER_JOIN_RESPONSE", "USER_LIST_REQUEST", "USER_LIST_RESPONSE",
         "USER_CHANGE", "CHAT_MESSAGE", "CHAT_COMMAND", "GENERIC_CHAT_RESPONSE", "CHATROOM_CHANGE"}
  BY DEF NetworkMessageType
<1>2. /\ NetworkMessageType["USER_JOIN_REQUEST"] = 0 /\ NetworkMessageType["USER_JOIN_RESPONSE"] = 1
      /\ NetworkMessageType["USER_LIST_REQUEST"] = 2 /\ NetworkMessageType["USER_LIST_RESPONSE"] = 3
      /\ NetworkMessageType["USER_CHANGE"] = 4 /\ NetworkMessageType["CHAT_MESSAGE"] = 10
      /\ NetworkMessageType["CHAT_COMMAND"] = 12 /\ NetworkMessageType["GENERIC_CHAT_RESPONSE"] = 20
      /\ NetworkMessageType["CHATROOM_CHANGE"] = 25
  BY DEF NetworkMessageType
<1>3. \A a, b \in DOMAIN NetworkMessageType : NetworkMessageType[a] = NetworkMessageType[b] => a = b
  BY <1>1, <1>2
<1>4. NetworkMessageType[type] \in Ascii
  BY <1>1, <1>2 DEF Ascii
<1> QED
  BY <1>3, <1>4 DEF typeNumbered

\* What the fields of a network message are.
LEMMA NetworkParts ==
  ASSUME NEW h, NEW d
  PROVE  /\ has(network(h, d), 1, "bytes") /\ has(network(h, d), 2, "bytes")
         /\ get(network(h, d), 1, "bytes") = h /\ get(network(h, d), 2, "bytes") = d
<1> DEFINE T == {bytes(1, h), bytes(2, d)}
<1>1. PICK f, g : f = <<bytes(1, h)>> /\ g = Append(f, bytes(2, d))
  OBVIOUS
<1>2. f = Append(<< >>, bytes(1, h)) /\ << >> \in Seq(T) /\ f \in Seq(T) /\ g \in Seq(T)
      /\ bytes(1, h) \in T /\ bytes(2, d) \in T
  BY <1>1
<1>3. g = network(h, d)
  BY <1>1, AppendToOne DEF network
<1> HIDE DEF T
<1>4. IsThere(f, 1, "bytes", h)
  <2>1. IsThere(Append(<< >>, bytes(1, h)), bytes(1, h).number, bytes(1, h).wire, bytes(1, h).value)
    BY <1>2, LastIsThere
  <2> QED
    BY <1>2, <2>1, FieldParts
<1>5. IsThere(g, 2, "bytes", d)
  <2>1. IsThere(Append(f, bytes(2, d)), bytes(2, d).number, bytes(2, d).wire, bytes(2, d).value)
    BY <1>2, LastIsThere
  <2> QED
    BY <1>1, <2>1, FieldParts
<1>6. IsThere(g, 1, "bytes", h)
  <2>1. bytes(2, d).number # 1
    BY FieldParts
  <2>2. IsThere(Append(f, bytes(2, d)), 1, "bytes", h)
    BY <1>2, <1>4, <2>1, OtherIsThere
  <2> QED
    BY <1>1, <2>2
<1>7. has(g, 1, "bytes") /\ get(g, 1, "bytes") = h
  BY <1>2, <1>6, ThereIsGot
<1>8. has(g, 2, "bytes") /\ get(g, 2, "bytes") = d
  BY <1>2, <1>5, ThereIsGot
<1> QED
  BY <1>3, <1>7, <1>8

\* A message whose fields fit, and say what the message says, is received.
Survives(m) ==
  /\ m.type \in DOMAIN NetworkMessageType /\ isInitialized(m)
  /\ \E n : IsPlain(fieldsFor(m), n) /\ Fits(n)
  /\ AreWhole(fieldsFor(m), embeddedIn(m.type))
  /\ messageIn(m.type, fieldsFor(m)) = m

\* Survival is what its name says: serialize, the QString and getMessage give
\* the message back.
LEMMA Received ==
  ASSUME NEW m, Survives(m)
  PROVE  overWire(m) = m
<1> DEFINE t == NetworkMessageType[m.type]
           header == <<number(1, t)>>
           h == SerializeAsString(header)
           d == SerializeAsString(fieldsFor(m))
<1>1. t \in Ascii /\ typeNumbered(t) = m.type
  BY TypeBack DEF Survives
<1>2. IsPlain(header, 127) /\ IsThere(header, 1, "varint", t)
  <2> DEFINE e == << >>
             f == Append(e, number(1, t))
  <2>1. f = header
    OBVIOUS
  <2>2. IsPlain(e, 0)
    BY PlainNone
  <2> HIDE DEF e, t
  <2>3. Adds(f, e, 1, "varint", t) /\ IsPlain(f, 0 + 2)
    BY <1>1, <2>2, NumberAdded
  <2>4. IsThere(f, 1, "varint", t)
    BY <2>3 DEF Adds
  <2> HIDE DEF f
  <2>5. IsPlain(f, 127)
    BY <2>3 DEF IsPlain
  <2> QED
    BY <2>1, <2>4, <2>5
<1> HIDE DEF header
<1>3. /\ h \in AsciiUpTo(127) /\ fieldsOf(h).complete
      /\ ParseFromString(h, {}).fields = header
  BY <1>2, PlainEmbedded
<1>4. d \in NetworkData /\ fieldsFor(m) \in Seq(PlainField)
  BY PlainFits DEF Survives, IsPlain
<1>5. serialize(m) = SerializeAsString(network(h, d))
  BY DEF serialize, data, typeFor, message, network, header
<1>6. ParseFromString(d, embeddedIn(m.type)).fields = fieldsFor(m)
  <2>1. PICK parsed : parsed = fieldsOf(d)
    OBVIOUS
  <2>2. parsed.fields = fieldsFor(m)
    BY <1>4, <2>1, PlainFieldsRead DEF startsAt
  <2>3. throughEmbedded(parsed, embeddedIn(m.type)) = parsed
    BY <2>2, EmbeddedRead DEF Survives, AreWhole
  <2> QED
    BY <2>1, <2>2, <2>3 DEF ParseFromString
<1> HIDE DEF h, d
<1>7. ParseFromString(toStdString(serialize(m)), {1}).fields = network(h, d)
  BY <1>3, <1>4, <1>5, NetworkRead
<1>8. fieldsAt(network(h, d), 1) = header
  BY <1>3, NetworkParts DEF fieldsAt
<1>9. get(header, 1, "varint") = t
  BY <1>2, ThereIsGot DEF IsPlain
<1>10. getMessage(m.type, d) = m
  BY <1>6 DEF getMessage, Survives
<1>11. messageOf(network(h, d)) = m
  BY <1>1, <1>8, <1>9, <1>10, NetworkParts DEF messageOf
<1> QED
  BY <1>7, <1>11 DEF overWire, deserialize, Survives


-----------------------------------------------------------------------------
(* All values of a repeated field *)

addition(f, k, wire) == IF f.number = k /\ f.wire = wire THEN one(f.value) ELSE << >>

\* A[i] is what the first i fields hold.
AreGot(A, fs, k, wire, n) ==
  /\ A = [i \in 0 .. n |-> A[i]]
  /\ A[0] = << >>
  /\ \A i \in 1 .. n : A[i] = joined(A[i - 1], addition(fs[i], k, wire))

\* One more value.
LEMMA GotNext ==
  ASSUME NEW A, NEW fs, NEW k, NEW wire, NEW n \in Nat, NEW i \in Nat, i < n,
         AreGot(A, fs, k, wire, n)
  PROVE  A[i + 1] = joined(A[i], addition(fs[i + 1], k, wire))
<1>1. PICK j \in 1 .. n : j = i + 1 /\ j - 1 = i
  OBVIOUS
<1>2. A[j] = joined(A[j - 1], addition(fs[j], k, wire))
  BY Zenon DEF AreGot
<1> QED
  BY <1>1, <1>2

\* There is such an A for every number of fields.
LEMMA GotExists ==
  ASSUME NEW fs, NEW k, NEW wire
  PROVE  \A n \in Nat : \E A : AreGot(A, fs, k, wire, n)
<1> DEFINE S == {n \in Nat : \E A : AreGot(A, fs, k, wire, n)}
<1>1. 0 \in S
  <2>1. AreGot([i \in 0 .. 0 |-> << >>], fs, k, wire, 0)
    BY DEF AreGot
  <2> QED
    BY <2>1
<1>2. ASSUME NEW n \in Nat, n \in S
      PROVE  n + 1 \in S
  <2>1. PICK A : AreGot(A, fs, k, wire, n)
    BY <1>2
  <2> DEFINE last == joined(A[n], addition(fs[n + 1], k, wire))
             B == [i \in 0 .. n + 1 |-> IF i = n + 1 THEN last ELSE A[i]]
  <2>2. B = [i \in 0 .. n + 1 |-> B[i]]
    OBVIOUS
  <2> HIDE DEF last
  <2>3. \A i \in 0 .. n : i \in 0 .. n + 1 /\ i # n + 1
    OBVIOUS
  <2>4. B[n + 1] = last /\ \A i \in 0 .. n : B[i] = A[i]
    BY <2>3
  <2> HIDE DEF B
  <2>5. B[0] = << >>
    BY <2>1, <2>4 DEF AreGot
  <2>6. ASSUME NEW i \in 1 .. n + 1
        PROVE  B[i] = joined(B[i - 1], addition(fs[i], k, wire))
    <3>1. CASE i = n + 1
      <4>1. i - 1 = n /\ n \in 0 .. n
        BY <3>1
      <4> QED
        BY <2>4, <3>1, <4>1 DEF last
    <3>2. CASE i # n + 1
      <4>1. i \in 1 .. n /\ i \in 0 .. n /\ i - 1 \in 0 .. n
        BY <3>2
      <4>2. A[i] = joined(A[i - 1], addition(fs[i], k, wire))
        BY <2>1, <4>1, Zenon DEF AreGot
      <4> QED
        BY <2>4, <4>1, <4>2
    <3> QED
      BY <3>1, <3>2
  <2>7. AreGot(B, fs, k, wire, n + 1)
    BY <2>2, <2>5, <2>6, Zenon DEF AreGot
  <2> QED
    BY <2>7
<1> HIDE DEF S
<1>3. \A n \in Nat : n \in S
  BY <1>1, <1>2, SetInduction
<1> QED
  BY <1>3 DEF S

\* The first fields of more are those of fs.
LEMMA GotAgree ==
  ASSUME NEW A, NEW B, NEW fs, NEW more, NEW k, NEW wire, NEW n \in Nat, NEW m \in Nat, n <= m,
         AreGot(A, fs, k, wire, n), AreGot(B, more, k, wire, m),
         \A i \in 1 .. n : fs[i] = more[i]
  PROVE  A[n] = B[n]
<1> DEFINE S == {i \in Nat : i <= n => A[i] = B[i]}
<1>1. 0 \in S
  BY DEF AreGot
<1>2. ASSUME NEW i \in Nat, i \in S
      PROVE  i + 1 \in S
  <2> SUFFICES ASSUME i + 1 <= n
               PROVE  A[i + 1] = B[i + 1]
    OBVIOUS
  <2>1. i < n /\ i < m /\ i <= n /\ i + 1 \in 1 .. n
    OBVIOUS
  <2>2. A[i + 1] = joined(A[i], addition(fs[i + 1], k, wire))
    BY <2>1, GotNext
  <2>3. B[i + 1] = joined(B[i], addition(more[i + 1], k, wire))
    BY <2>1, GotNext
  <2>4. A[i] = B[i] /\ fs[i + 1] = more[i + 1]
    BY <1>2, <2>1
  <2> QED
    BY <2>2, <2>3, <2>4
<1> HIDE DEF S
<1>3. \A i \in Nat : i \in S
  BY <1>1, <1>2, SetInduction
<1>4. n \in S
  BY <1>3
<1> QED
  BY <1>4 DEF S

\* getAll takes the last of these.
LEMMA GetAllIs ==
  ASSUME NEW T, NEW fs \in Seq(T), NEW k, NEW wire
  PROVE  \E A : AreGot(A, fs, k, wire, Len(fs)) /\ getAll(fs, k, wire) = A[Len(fs)]
<1> DEFINE n == Len(fs)
           next(f) == [i \in 0 .. n |-> IF i = 0 THEN << >>
                        ELSE joined(f[i - 1], IF i \in places(fs, k, wire) THEN one(fs[i].value) ELSE << >>)]
           upTo == CHOOSE f : f = next(f)
<1>1. getAll(fs, k, wire) = upTo[n]
  BY DEF getAll, joined, one
<1>2. n \in Nat /\ DOMAIN fs = 1 .. n
  OBVIOUS
<1>3. \A i \in 1 .. n :
        addition(fs[i], k, wire) = IF i \in places(fs, k, wire) THEN one(fs[i].value) ELSE << >>
  BY <1>2 DEF addition, places
<1>4. \A f : f = next(f) => AreGot(f, fs, k, wire, n)
  <2> TAKE f
  <2> HAVE f = next(f)
  <2>1. \A i \in 0 .. n : f[i] = IF i = 0 THEN << >>
          ELSE joined(f[i - 1], IF i \in places(fs, k, wire) THEN one(fs[i].value) ELSE << >>)
    OBVIOUS
  <2>2. f = [i \in 0 .. n |-> f[i]]
    BY <2>1
  <2>3. f[0] = << >>
    BY <1>2, <2>1
  <2>4. \A i \in 1 .. n : f[i] = joined(f[i - 1], addition(fs[i], k, wire))
    <3>1. \A i \in 1 .. n : i \in 0 .. n /\ i # 0
      BY <1>2
    <3> QED
      BY <1>3, <2>1, <3>1
  <2> QED
    BY <2>2, <2>3, <2>4, Zenon DEF AreGot
<1>5. \A f : AreGot(f, fs, k, wire, n) => f = next(f)
  <2> TAKE f
  <2> HAVE AreGot(f, fs, k, wire, n)
  <2>1. f = [i \in 0 .. n |-> f[i]] /\ f[0] = << >>
    BY Zenon DEF AreGot
  <2>2. \A i \in 1 .. n : f[i] = joined(f[i - 1], addition(fs[i], k, wire))
    BY Zenon DEF AreGot
  <2>3. \A i \in 0 .. n : i = 0 \/ i \in 1 .. n
    BY <1>2
  <2> QED
    BY <1>3, <2>1, <2>2, <2>3
<1>6. \E f : AreGot(f, fs, k, wire, n)
  BY <1>2, GotExists
<1> HIDE DEF next, n
<1>7. \E f : f = next(f)
  BY <1>5, <1>6
<1>8. upTo = next(upTo)
  BY <1>7
<1> HIDE DEF upTo
<1>9. AreGot(upTo, fs, k, wire, n) /\ getAll(fs, k, wire) = upTo[n]
  BY <1>1, <1>4, <1>8
<1> QED
  BY <1>9 DEF n

\* No fields, no values.
LEMMA GetAllNone ==
  ASSUME NEW k, NEW wire
  PROVE  getAll(<< >>, k, wire) = << >>
<1>1. << >> \in Seq({}) /\ Len(<< >>) = 0
  OBVIOUS
<1>2. PICK A : AreGot(A, << >>, k, wire, 0) /\ getAll(<< >>, k, wire) = A[0]
  BY <1>1, GetAllIs
<1> QED
  BY <1>2 DEF AreGot

\* The value of a further field comes last.
LEMMA GetAllAppend ==
  ASSUME NEW T, NEW fs \in Seq(T), NEW f \in T, NEW k, NEW wire
  PROVE  getAll(Append(fs, f), k, wire) = joined(getAll(fs, k, wire), addition(f, k, wire))
<1>1. PICK n \in Nat : n = Len(fs)
  OBVIOUS
<1>2. PICK g : g = Append(fs, f)
  OBVIOUS
<1>3. g \in Seq(T) /\ Len(g) = n + 1 /\ g[n + 1] = f /\ \A i \in 1 .. n : fs[i] = g[i]
  BY <1>1, <1>2, AppendParts
<1>4. PICK A : AreGot(A, fs, k, wire, n) /\ getAll(fs, k, wire) = A[n]
  BY <1>1, GetAllIs
<1>5. PICK m \in Nat : m = n + 1 /\ n < m /\ n <= m
  OBVIOUS
<1>6. PICK B : AreGot(B, g, k, wire, m) /\ getAll(g, k, wire) = B[m]
  BY <1>3, <1>5, GetAllIs
<1>7. A[n] = B[n]
  BY <1>3, <1>4, <1>5, <1>6, GotAgree
<1>8. B[n + 1] = joined(B[n], addition(g[n + 1], k, wire))
  BY <1>5, <1>6, GotNext
<1> QED
  BY <1>2, <1>3, <1>4, <1>5, <1>6, <1>7, <1>8


-----------------------------------------------------------------------------
(* The messages without messages in them *)

\* One string is all a message has to say.
LEMMA StringAlone ==
  ASSUME NEW s \in AsciiUpTo(127), NEW embedded, 1 \notin embedded
  PROVE  /\ IsPlain(<<bytes(1, s)>>, 129) /\ AreWhole(<<bytes(1, s)>>, embedded)
         /\ stringAt(<<bytes(1, s)>>, 1) = s
<1> DEFINE e == << >>
           f == Append(e, bytes(1, s))
<1>1. f = <<bytes(1, s)>>
  OBVIOUS
<1>2. IsPlain(e, 0) /\ AreWhole(e, embedded)
  BY PlainNone, NoneWhole
<1>3. bytes(1, s) \in PlainField /\ bytes(1, s).number = 1
  BY PlainOnes, FieldParts
<1> HIDE DEF e
<1>4. IsPlain(f, 129) /\ IsThere(f, 1, "bytes", s)
  <2>1. 127 \in 0 .. 127 /\ 1 \in 1 .. 15
    OBVIOUS
  <2>2. Adds(f, e, 1, "bytes", s) /\ IsPlain(f, 0 + (127 + 2))
    BY <1>2, <2>1, BytesAdded, Zenon
  <2>3. 0 + (127 + 2) = 129
    OBVIOUS
  <2> QED
    BY <2>2, <2>3 DEF Adds
<1>5. AreWhole(f, embedded)
  BY <1>2, <1>3, OneMoreWhole DEF IsPlain
<1> HIDE DEF f
<1>6. stringAt(f, 1) = s
  BY <1>4, StringThere DEF IsPlain
<1> QED
  BY <1>1, <1>4, <1>5, <1>6

\* The sizes of the messages with a fixed number of fields.
LEMMA SmallFits == Fits(129) /\ Fits(131) /\ Fits(260) /\ Fits(387)
<1>1. 129 \in TwoBytes /\ 131 \in TwoBytes /\ 260 \in TwoBytes /\ 387 \in TwoBytes
  BY SMT DEF TwoBytes
<1> QED
  BY <1>1 DEF Fits

Types == DOMAIN NetworkMessageType

\* The types that have a number.
LEMMA TypesAre ==
  Types =
    {"USER_JOIN_REQUEST", "USER_JOIN_RESPONSE", "USER_LIST_REQUEST", "USER_LIST_RESPONSE",
     "USER_CHANGE", "CHAT_MESSAGE", "CHAT_COMMAND", "GENERIC_CHAT_RESPONSE", "CHATROOM_CHANGE"}
BY DEF Types, NetworkMessageType

\* A request to join.
LEMMA JoinRequestSurvives ==
  ASSUME NEW s \in AsciiUpTo(127)
  PROVE  Survives(UserJoinRequest(s))
<1>1. PICK m : m = UserJoinRequest(s)
  OBVIOUS
<1>2. m.type = "USER_JOIN_REQUEST" /\ m.name = s
  BY <1>1 DEF UserJoinRequest
<1>3. embeddedIn(m.type) = {} /\ isInitialized(m) /\ m.type \in Types
  BY <1>2, TypesAre DEF embeddedIn, isInitialized
<1>4. fieldsFor(m) = <<bytes(1, s)>>
  BY <1>2 DEF fieldsFor
<1>5. messageIn(m.type, <<bytes(1, s)>>) = UserJoinRequest(stringAt(<<bytes(1, s)>>, 1))
  BY <1>2 DEF messageIn
<1>6. /\ IsPlain(<<bytes(1, s)>>, 129) /\ AreWhole(<<bytes(1, s)>>, {})
      /\ stringAt(<<bytes(1, s)>>, 1) = s
  BY StringAlone
<1> QED
  BY <1>1, <1>3, <1>4, <1>5, <1>6, SmallFits DEF Survives, Types

\* A new motd.
LEMMA ChatroomChangeSurvives ==
  ASSUME NEW s \in AsciiUpTo(127)
  PROVE  Survives(ChatroomChange(s))
<1>1. PICK m : m = ChatroomChange(s)
  OBVIOUS
<1>2. m.type = "CHATROOM_CHANGE" /\ m.motd = s
  BY <1>1 DEF ChatroomChange
<1>3. embeddedIn(m.type) = {} /\ isInitialized(m) /\ m.type \in Types
  BY <1>2, TypesAre DEF embeddedIn, isInitialized
<1>4. fieldsFor(m) = <<bytes(1, s)>>
  BY <1>2 DEF fieldsFor
<1>5. messageIn(m.type, <<bytes(1, s)>>) = ChatroomChange(stringAt(<<bytes(1, s)>>, 1))
  BY <1>2 DEF messageIn
<1>6. /\ IsPlain(<<bytes(1, s)>>, 129) /\ AreWhole(<<bytes(1, s)>>, {})
      /\ stringAt(<<bytes(1, s)>>, 1) = s
  BY StringAlone
<1> QED
  BY <1>1, <1>3, <1>4, <1>5, <1>6, SmallFits DEF Survives, Types

\* A refusal.
LEMMA ResponseSurvives == Survives(GenericChatResponse(FALSE))
<1>1. PICK m : m = GenericChatResponse(FALSE)
  OBVIOUS
<1>2. m.type = "GENERIC_CHAT_RESPONSE" /\ m.success = FALSE
  BY <1>1 DEF GenericChatResponse
<1>3. embeddedIn(m.type) = {} /\ isInitialized(m) /\ m.type \in Types
  BY <1>2, TypesAre DEF embeddedIn, isInitialized
<1> DEFINE e == << >>
           f == Append(e, number(1, 0))
<1>4. fieldsFor(m) = f
  <2>1. fieldsFor(m) = <<number(1, 0)>>
    BY <1>2 DEF fieldsFor, bool
  <2> QED
    BY <2>1
<1>5. messageIn(m.type, f) = GenericChatResponse(numberAt(f, 1, 0) # 0)
  BY <1>2 DEF messageIn
<1>6. IsPlain(e, 0) /\ AreWhole(e, {})
  BY PlainNone, NoneWhole
<1>7. 0 \in Ascii /\ number(1, 0) \in PlainField
  <2>1. 0 \in Ascii
    BY DEF Ascii
  <2> QED
    BY <2>1, PlainOnes
<1> HIDE DEF e
<1>8. IsPlain(f, 129) /\ IsThere(f, 1, "varint", 0)
  <2>1. Adds(f, e, 1, "varint", 0) /\ IsPlain(f, 0 + 2)
    BY <1>6, <1>7, NumberAdded
  <2>2. IsThere(f, 1, "varint", 0)
    BY <2>1 DEF Adds
  <2> HIDE DEF f
  <2> QED
    BY <2>1, <2>2 DEF IsPlain
<1>9. AreWhole(f, {})
  BY <1>6, <1>7, OneMoreWhole DEF IsPlain
<1> HIDE DEF f
<1>10. numberAt(f, 1, 0) = 0
  BY <1>8, NumberThere DEF IsPlain
<1>11. messageIn(m.type, f) = m
  <2>1. (numberAt(f, 1, 0) # 0) = FALSE
    BY <1>10
  <2> QED
    BY <1>1, <1>5, <2>1, Zenon
<1> QED
  BY <1>1, <1>3, <1>4, <1>8, <1>9, <1>11, SmallFits DEF Survives, Types


\* A command and the action of a user, as numbers.
LEMMA CommandIs ==
  ASSUME NEW c \in CommandTypes, NEW k
  PROVE  \E n \in Ascii : /\ enum(k, CommandType, c) = number(k, n)
                          /\ n < Len(CommandType) /\ CommandType[n + 1] = c
<1>1. \E i \in DOMAIN CommandType : CommandType[i] = c
  <2>1. \A i \in 1 .. 5 : i \in DOMAIN CommandType
    BY DEF CommandType
  <2>2. /\ CommandType[1] = "MOTD" /\ CommandType[2] = "KICK" /\ CommandType[3] = "MUTE"
        /\ CommandType[4] = "UNMUTE" /\ CommandType[5] = "AUTH"
    BY DEF CommandType
  <2> QED
    BY <2>1, <2>2 DEF CommandTypes
<1>2. PICK i \in DOMAIN CommandType : CommandType[i] = c
  BY <1>1
<1>3. PICK n \in Nat : /\ enum(k, CommandType, CommandType[i]) = number(k, n)
                       /\ n < Len(CommandType) /\ CommandType[n + 1] = CommandType[i]
  BY Enumerations, EnumIs
<1>4. n \in Ascii
  BY <1>3, Enumerations DEF Ascii
<1> QED
  BY <1>2, <1>3, <1>4

\* The action of a user as a number.
LEMMA ActionIs ==
  ASSUME NEW a \in Actions, NEW k
  PROVE  \E n \in Ascii : /\ enum(k, UserAction, a) = number(k, n)
                          /\ n < Len(UserAction) /\ UserAction[n + 1] = a
<1>1. \E i \in DOMAIN UserAction : UserAction[i] = a
  <2>1. \A i \in 1 .. 5 : i \in DOMAIN UserAction
    BY DEF UserAction
  <2>2. /\ UserAction[1] = "JOINED" /\ UserAction[2] = "LEFT" /\ UserAction[3] = "KICKED"
        /\ UserAction[4] = "MUTED" /\ UserAction[5] = "UNMUTED"
    BY DEF UserAction
  <2> QED
    BY <2>1, <2>2 DEF Actions
<1>2. PICK i \in DOMAIN UserAction : UserAction[i] = a
  BY <1>1
<1>3. PICK n \in Nat : /\ enum(k, UserAction, UserAction[i]) = number(k, n)
                       /\ n < Len(UserAction) /\ UserAction[n + 1] = UserAction[i]
  BY Enumerations, EnumIs
<1>4. n \in Ascii
  BY <1>3, Enumerations DEF Ascii
<1> QED
  BY <1>2, <1>3, <1>4

\* A command with its one argument.
LEMMA CommandSurvives ==
  ASSUME NEW c \in CommandTypes, NEW s \in AsciiUpTo(127)
  PROVE  Survives(ChatCommand(c, <<s>>))
<1>1. PICK m : m = ChatCommand(c, <<s>>)
  OBVIOUS
<1>2. m.type = "CHAT_COMMAND" /\ m.command = c /\ m.arguments = <<s>>
  BY <1>1 DEF ChatCommand
<1>3. embeddedIn(m.type) = {} /\ isInitialized(m) /\ m.type \in Types
  BY <1>2, TypesAre DEF embeddedIn, isInitialized
<1>4. PICK n \in Ascii : /\ enum(2, CommandType, c) = number(2, n)
                         /\ n < Len(CommandType) /\ CommandType[n + 1] = c
  BY CommandIs
<1> DEFINE e == << >>
           f == Append(e, number(2, n))
           h == Append(f, bytes(3, s))
<1>5. IsPlain(e, 0) /\ AreWhole(e, {}) /\ getAll(e, 3, "bytes") = << >>
  BY PlainNone, NoneWhole, GetAllNone
<1>6. number(2, n) \in PlainField /\ bytes(3, s) \in PlainField
  BY PlainOnes
<1>7. fieldsFor(m) = h
  <2>1. fieldsFor(m) = <<enum(2, CommandType, c)>> \o [i \in DOMAIN <<s>> |-> bytes(3, <<s>>[i])]
    BY <1>2 DEF fieldsFor
  <2>2. [i \in DOMAIN <<s>> |-> bytes(3, <<s>>[i])] = <<bytes(3, s)>>
    OBVIOUS
  <2>3. <<number(2, n)>> \o <<bytes(3, s)>> = <<number(2, n), bytes(3, s)>>
    BY ConcatOnes
  <2>4. f = <<number(2, n)>>
    OBVIOUS
  <2>5. h = <<number(2, n), bytes(3, s)>>
    BY <2>4, AppendToOne
  <2> HIDE DEF h
  <2> QED
    BY <1>4, <2>1, <2>2, <2>3, <2>5
<1>8. messageIn(m.type, h) = ChatCommand(enumAt(h, 2, CommandType), getAll(h, 3, "bytes"))
  BY <1>2 DEF messageIn
<1> HIDE DEF e
<1>9. Adds(f, e, 2, "varint", n) /\ IsPlain(f, 2)
  <2>1. Adds(f, e, 2, "varint", n) /\ IsPlain(f, 0 + 2)
    BY <1>5, NumberAdded
  <2> QED
    BY <2>1
<1>10. AreWhole(f, {})
  BY <1>5, <1>6, OneMoreWhole DEF IsPlain
<1>11. getAll(f, 3, "bytes") = << >>
  <2>1. getAll(f, 3, "bytes") = joined(getAll(e, 3, "bytes"), addition(number(2, n), 3, "bytes"))
    BY <1>5, <1>6, GetAllAppend DEF IsPlain
  <2>2. addition(number(2, n), 3, "bytes") = << >>
    BY FieldParts DEF addition
  <2>3. joined(<< >>, << >>) = << >>
    <3>1. << >> \in Seq({})
      OBVIOUS
    <3> QED
      BY <3>1, JoinedNone
  <2> QED
    BY <1>5, <2>1, <2>2, <2>3
<1> HIDE DEF f
<1>12. Adds(h, f, 3, "bytes", s) /\ IsPlain(h, 131)
  <2>1. 127 \in 0 .. 127 /\ 3 \in 1 .. 15
    OBVIOUS
  <2>2. Adds(h, f, 3, "bytes", s) /\ IsPlain(h, 2 + (127 + 2))
    BY <1>9, <2>1, BytesAdded, Zenon
  <2>3. 2 + (127 + 2) = 131
    OBVIOUS
  <2> QED
    BY <2>2, <2>3
<1>13. AreWhole(h, {})
  BY <1>6, <1>9, <1>10, OneMoreWhole DEF IsPlain
<1>14. getAll(h, 3, "bytes") = <<s>>
  <2>1. getAll(h, 3, "bytes") = joined(getAll(f, 3, "bytes"), addition(bytes(3, s), 3, "bytes"))
    BY <1>6, <1>9, GetAllAppend DEF IsPlain
  <2>2. addition(bytes(3, s), 3, "bytes") = one(s)
    BY FieldParts DEF addition
  <2>3. joined(<< >>, one(s)) = one(s)
    <3>1. one(s) \in Seq({s})
      BY OneIs
    <3> QED
      BY <3>1, JoinedNone
  <2> QED
    BY <1>11, <2>1, <2>2, <2>3 DEF one
<1> HIDE DEF h
<1>15. IsThere(h, 2, "varint", n)
  BY <1>9, <1>12 DEF Adds
<1>16. enumAt(h, 2, CommandType) = c
  <2>1. n \in Nat
    BY DEF Ascii
  <2> QED
    BY <1>4, <1>12, <1>15, <2>1, EnumThere DEF IsPlain
<1>17. messageIn(m.type, h) = m
  BY <1>1, <1>8, <1>14, <1>16
<1> QED
  BY <1>1, <1>3, <1>7, <1>12, <1>13, <1>17, SmallFits DEF Survives, Types


-----------------------------------------------------------------------------
(* The messages with messages in them *)

\* What a user's fields are as the first field of a message.
LEMMA UserField ==
  ASSUME NEW u \in FittingUser
  PROVE  /\ IsPlain(<<message(1, userFields(u))>>, 129)
         /\ AreWhole(<<message(1, userFields(u))>>, {1})
         /\ IsThere(<<message(1, userFields(u))>>, 1, "bytes", SerializeAsString(userFields(u)))
         /\ IsMissing(<<message(1, userFields(u))>>, 2)
         /\ IsMissing(<<message(1, userFields(u))>>, 3)
<1>1. PICK w : w = userFields(u) /\ IsPlain(w, 127)
  BY UserBack
<1> DEFINE e == << >>
           f == Append(e, message(1, w))
<1>2. f = <<message(1, userFields(u))>>
  BY <1>1
<1>3. IsPlain(e, 0) /\ AreWhole(e, {1}) /\ IsMissing(e, 2) /\ IsMissing(e, 3)
  BY PlainNone, NoneWhole, NoneMissing
<1> HIDE DEF e
<1>4. /\ Adds(f, e, 1, "bytes", SerializeAsString(w)) /\ IsPlain(f, 0 + 129)
      /\ message(1, w) \in PlainField /\ fieldsOf(message(1, w).value).complete
  <2>1. 1 \in 1 .. 15
    OBVIOUS
  <2> QED
    BY <1>1, <1>3, <2>1, MessageAdded, Zenon
<1>5. AreWhole(f, {1})
  BY <1>3, <1>4, OneMoreWhole DEF IsPlain
<1> HIDE DEF f
<1>6. IsPlain(f, 129)
  BY <1>4
<1>7. IsThere(f, 1, "bytes", SerializeAsString(w)) /\ IsMissing(f, 2) /\ IsMissing(f, 3)
  BY <1>3, <1>4 DEF Adds
<1> QED
  BY <1>1, <1>2, <1>5, <1>6, <1>7

\* An embedded user is read as it was written.
LEMMA UserThere ==
  ASSUME NEW fs \in Seq(PlainField), NEW k, NEW u \in FittingUser,
         IsThere(fs, k, "bytes", SerializeAsString(userFields(u)))
  PROVE  userAt(fs, k) = u
<1>1. PICK w : w = userFields(u) /\ IsPlain(w, 127) /\ userIn(w) = u
  BY UserBack
<1>2. has(fs, k, "bytes") /\ fieldsAt(fs, k) = w
  BY <1>1, MessageThere
<1> QED
  BY <1>1, <1>2 DEF userAt

\* And an embedded target.
LEMMA TargetThere ==
  ASSUME NEW fs \in Seq(PlainField), NEW k, NEW t \in FittingTarget,
         IsThere(fs, k, "bytes", SerializeAsString(targetFields(t)))
  PROVE  targetAt(fs, k) = t
<1>1. PICK w : w = targetFields(t) /\ IsPlain(w, 127) /\ targetIn(w) = t
  BY TargetBack
<1>2. has(fs, k, "bytes") /\ fieldsAt(fs, k) = w
  BY <1>1, MessageThere
<1> QED
  BY <1>1, <1>2 DEF targetAt

\* A field that is not set, and one that is.
LEMMA Unset ==
  ASSUME NEW T, NEW fs \in Seq(T), NEW f
  PROVE  fs \o optional(None, f) = fs
BY ConcatEmptySeq DEF optional

\* A change of membership or of the mute flag.
LEMMA UserChangeSurvives ==
  ASSUME NEW a \in Actions, NEW u \in FittingUser
  PROVE  Survives(UserChange(a, u))
<1>1. PICK m : m = UserChange(a, u)
  OBVIOUS
<1>2. m.type = "USER_CHANGE" /\ m.action = a /\ m.user = u /\ m.presence = None
  BY <1>1 DEF UserChange
<1>3. embeddedIn(m.type) = {1} /\ isInitialized(m) /\ m.type \in Types
  <2>1. m.user.presence # None
    BY <1>2, UnsetAssumption DEF FittingUser
  <2> QED
    BY <1>2, <2>1, TypesAre DEF embeddedIn, isInitialized
<1>4. PICK n \in Ascii : /\ enum(3, UserAction, a) = number(3, n)
                         /\ n < Len(UserAction) /\ UserAction[n + 1] = a
  BY ActionIs
<1> DEFINE w == userFields(u)
           f == <<message(1, w)>>
           h == Append(f, number(3, n))
<1>5. /\ IsPlain(f, 129) /\ AreWhole(f, {1}) /\ IsMissing(f, 2)
      /\ IsThere(f, 1, "bytes", SerializeAsString(w))
  BY UserField
<1>6. number(3, n) \in PlainField /\ number(3, n).wire = "varint"
  BY PlainOnes, FieldParts
<1>7. fieldsFor(m) = h
  <2>1. fieldsFor(m) = f \o optional(None, enum(2, UserPresence, None)) \o optional(a, enum(3, UserAction, a))
    BY <1>2 DEF fieldsFor
  <2>2. f \in Seq(PlainField)
    BY <1>5 DEF IsPlain
  <2> HIDE DEF f
  <2>3. f \o optional(None, enum(2, UserPresence, None)) = f
    BY <2>2, Unset
  <2>4. a # None
    BY NoneAssumption DEF Actions
  <2>5. f \o optional(a, number(3, n)) = h
    BY <1>6, <2>2, <2>4, OptionalIs
  <2> HIDE DEF h
  <2> QED
    BY <1>4, <2>1, <2>3, <2>5
<1>8. messageIn(m.type, h) =
        [type |-> "USER_CHANGE", action |-> enumAt(h, 3, UserAction),
         user |-> userAt(h, 1), presence |-> enumAt(h, 2, UserPresence)]
  BY <1>2 DEF messageIn
<1> HIDE DEF f
<1>9. Adds(h, f, 3, "varint", n) /\ IsPlain(h, 131)
  <2>1. Adds(h, f, 3, "varint", n) /\ IsPlain(h, 129 + 2)
    BY <1>5, NumberAdded
  <2> QED
    BY <2>1
<1>10. AreWhole(h, {1})
  BY <1>5, <1>6, OneMoreWhole DEF IsPlain
<1> HIDE DEF h, w
<1>11. /\ IsThere(h, 1, "bytes", SerializeAsString(w)) /\ IsThere(h, 3, "varint", n)
       /\ IsMissing(h, 2)
  BY <1>5, <1>9 DEF Adds
<1>12. h \in Seq(PlainField)
  BY <1>9 DEF IsPlain
<1>13. userAt(h, 1) = u
  BY <1>11, <1>12, UserThere DEF w
<1>14. enumAt(h, 3, UserAction) = a
  <2>1. n \in Nat
    BY DEF Ascii
  <2> QED
    BY <1>4, <1>11, <1>12, <2>1, EnumThere
<1>15. enumAt(h, 2, UserPresence) = None
  BY <1>11, <1>12, EnumMissing, Enumerations
<1>16. messageIn(m.type, h) = m
  BY <1>1, <1>8, <1>13, <1>14, <1>15 DEF UserChange
<1> QED
  BY <1>1, <1>3, <1>7, <1>9, <1>10, <1>16, SmallFits DEF Survives, Types

\* A change of presence.
LEMMA PresenceChangeSurvives ==
  ASSUME NEW u \in FittingUser, NEW p \in Presences
  PROVE  Survives([UserChange(None, u) EXCEPT !.presence = p])
<1>1. PICK m : m = [type |-> "USER_CHANGE", action |-> None, user |-> u, presence |-> p]
  OBVIOUS
<1>2. m.type = "USER_CHANGE" /\ m.action = None /\ m.user = u /\ m.presence = p
  BY <1>1
<1>3. embeddedIn(m.type) = {1} /\ isInitialized(m) /\ m.type \in Types
  <2>1. m.user.presence # None
    BY <1>2, UnsetAssumption DEF FittingUser
  <2> QED
    BY <1>2, <2>1, TypesAre DEF embeddedIn, isInitialized
<1>4. PICK n \in 0 .. 2 : enum(2, UserPresence, p) = number(2, n) /\ UserPresence[n + 1] = p
  BY PresenceIs
<1> DEFINE w == userFields(u)
           f == <<message(1, w)>>
           h == Append(f, number(2, n))
<1>5. /\ IsPlain(f, 129) /\ AreWhole(f, {1}) /\ IsMissing(f, 3)
      /\ IsThere(f, 1, "bytes", SerializeAsString(w))
  BY UserField
<1>6. n \in Ascii /\ number(2, n) \in PlainField /\ number(2, n).wire = "varint"
  <2>1. n \in Ascii
    BY DEF Ascii
  <2> QED
    BY <2>1, PlainOnes, FieldParts
<1>7. fieldsFor(m) = h
  <2>1. fieldsFor(m) = f \o optional(p, enum(2, UserPresence, p)) \o optional(None, enum(3, UserAction, None))
    BY <1>2 DEF fieldsFor
  <2>2. f \in Seq(PlainField)
    BY <1>5 DEF IsPlain
  <2> HIDE DEF f
  <2>3. p # None
    BY UnsetAssumption
  <2>4. f \o optional(p, number(2, n)) = h
    BY <1>6, <2>2, <2>3, OptionalIs
  <2>5. h \in Seq(PlainField)
    BY <1>6, <2>2
  <2> HIDE DEF h
  <2>6. h \o optional(None, enum(3, UserAction, None)) = h
    BY <2>5, Unset
  <2> QED
    BY <1>4, <2>1, <2>4, <2>6
<1>8. messageIn(m.type, h) =
        [type |-> "USER_CHANGE", action |-> enumAt(h, 3, UserAction),
         user |-> userAt(h, 1), presence |-> enumAt(h, 2, UserPresence)]
  BY <1>2 DEF messageIn
<1> HIDE DEF f
<1>9. Adds(h, f, 2, "varint", n) /\ IsPlain(h, 131)
  <2>1. Adds(h, f, 2, "varint", n) /\ IsPlain(h, 129 + 2)
    BY <1>5, <1>6, NumberAdded
  <2> QED
    BY <2>1
<1>10. AreWhole(h, {1})
  BY <1>5, <1>6, OneMoreWhole DEF IsPlain
<1> HIDE DEF h, w
<1>11. /\ IsThere(h, 1, "bytes", SerializeAsString(w)) /\ IsThere(h, 2, "varint", n)
       /\ IsMissing(h, 3)
  BY <1>5, <1>9 DEF Adds
<1>12. h \in Seq(PlainField)
  BY <1>9 DEF IsPlain
<1>13. userAt(h, 1) = u
  BY <1>11, <1>12, UserThere DEF w
<1>14. enumAt(h, 2, UserPresence) = p
  <2>1. n \in Nat /\ n < Len(UserPresence)
    BY Enumerations
  <2> QED
    BY <1>4, <1>11, <1>12, <2>1, EnumThere
<1>15. enumAt(h, 3, UserAction) = None
  BY <1>11, <1>12, EnumMissing, Enumerations
<1>16. messageIn(m.type, h) = m
  BY <1>1, <1>8, <1>13, <1>14, <1>15
<1>17. m = [UserChange(None, u) EXCEPT !.presence = p]
  BY <1>1 DEF UserChange
<1> QED
  BY <1>3, <1>7, <1>9, <1>10, <1>16, <1>17, SmallFits DEF Survives, Types


\* An answer to a newcomer.
LEMMA JoinResponseSurvives ==
  ASSUME NEW u \in FittingUser, u # None, NEW s \in AsciiUpTo(127)
  PROVE  Survives(UserJoinResponse(TRUE, u, s))
<1>1. PICK m : m = UserJoinResponse(TRUE, u, s)
  OBVIOUS
<1>2. m.type = "USER_JOIN_RESPONSE" /\ m.success = TRUE /\ m.user = u /\ m.motd = s
  BY <1>1 DEF UserJoinResponse
<1>3. embeddedIn(m.type) = {2} /\ isInitialized(m) /\ m.type \in Types
  BY <1>2, TypesAre DEF embeddedIn, isInitialized
<1> DEFINE w == userFields(u)
           e == << >>
           f == Append(e, number(1, 1))
           g == Append(f, message(2, w))
           h == Append(g, bytes(3, s))
<1>4. IsPlain(e, 0) /\ AreWhole(e, {2}) /\ IsPlain(w, 127)
  BY PlainNone, NoneWhole, UserBack
<1>5. /\ bool(1, TRUE) = number(1, 1) /\ 1 \in Ascii
      /\ number(1, 1) \in PlainField /\ number(1, 1).wire = "varint"
  <2>1. 1 \in Ascii
    BY DEF Ascii
  <2> QED
    BY <2>1, PlainOnes, FieldParts DEF bool
<1>6. f = <<bool(1, TRUE)>>
  <2>1. f = <<number(1, 1)>>
    OBVIOUS
  <2> QED
    BY <1>5, <2>1
<1> HIDE DEF e, w
<1>7. Adds(f, e, 1, "varint", 1) /\ IsPlain(f, 2)
  <2>1. Adds(f, e, 1, "varint", 1) /\ IsPlain(f, 0 + 2)
    BY <1>4, <1>5, NumberAdded
  <2> QED
    BY <2>1
<1>8. AreWhole(f, {2})
  BY <1>4, <1>5, OneMoreWhole DEF IsPlain
<1> HIDE DEF f
<1>9. /\ Adds(g, f, 2, "bytes", SerializeAsString(w)) /\ IsPlain(g, 2 + 129)
      /\ message(2, w) \in PlainField /\ fieldsOf(message(2, w).value).complete
  <2>1. 2 \in 1 .. 15
    OBVIOUS
  <2> QED
    BY <1>4, <1>7, <2>1, MessageAdded, Zenon
<1>10. AreWhole(g, {2})
  BY <1>7, <1>8, <1>9, OneMoreWhole DEF IsPlain
<1>11. fieldsFor(m) = h
  <2>1. fieldsFor(m) = <<bool(1, TRUE)>> \o optional(u, message(2, w)) \o <<bytes(3, s)>>
    BY <1>2 DEF fieldsFor, w
  <2>2. f \o optional(u, message(2, w)) = g
    BY <1>7, <1>9, OptionalIs DEF IsPlain
  <2>3. g \in Seq(PlainField) /\ bytes(3, s) \in PlainField
    BY <1>9, PlainOnes DEF IsPlain
  <2> HIDE DEF g
  <2>4. g \o <<bytes(3, s)>> = h
    BY <2>3, AppendIsConcat
  <2> HIDE DEF h
  <2> QED
    BY <1>6, <2>1, <2>2, <2>4
<1>12. messageIn(m.type, h) = UserJoinResponse(numberAt(h, 1, 0) # 0, userAt(h, 2), stringAt(h, 3))
  BY <1>2 DEF messageIn
<1> HIDE DEF g
<1>13. Adds(h, g, 3, "bytes", s) /\ IsPlain(h, 260)
  <2>1. 127 \in 0 .. 127 /\ 3 \in 1 .. 15
    OBVIOUS
  <2>2. Adds(h, g, 3, "bytes", s) /\ IsPlain(h, (2 + 129) + (127 + 2))
    BY <1>9, <2>1, BytesAdded, Zenon
  <2>3. (2 + 129) + (127 + 2) = 260
    OBVIOUS
  <2> QED
    BY <2>2, <2>3
<1>14. AreWhole(h, {2})
  <2>1. bytes(3, s) \in PlainField /\ bytes(3, s).number = 3
    BY PlainOnes, FieldParts
  <2> QED
    BY <1>9, <1>10, <2>1, OneMoreWhole DEF IsPlain
<1> HIDE DEF h
<1>15. /\ IsThere(h, 1, "varint", 1) /\ IsThere(h, 2, "bytes", SerializeAsString(w))
       /\ IsThere(h, 3, "bytes", s)
  BY <1>7, <1>9, <1>13 DEF Adds
<1>16. h \in Seq(PlainField)
  BY <1>13 DEF IsPlain
<1>17. numberAt(h, 1, 0) = 1 /\ userAt(h, 2) = u /\ stringAt(h, 3) = s
  BY <1>15, <1>16, NumberThere, UserThere, StringThere DEF w
<1>18. messageIn(m.type, h) = m
  <2>1. (numberAt(h, 1, 0) # 0) = TRUE
    BY <1>17
  <2> QED
    BY <1>1, <1>12, <1>17, <2>1, Zenon
<1>19. IsPlain(fieldsFor(m), 260) /\ AreWhole(fieldsFor(m), embeddedIn(m.type))
       /\ messageIn(m.type, fieldsFor(m)) = m
  BY <1>3, <1>11, <1>13, <1>14, <1>18
<1>20. Survives(m)
  BY <1>3, <1>19, SmallFits DEF Survives, Types
<1> QED
  BY <1>1, <1>20, Zenon

\* A target that is added to the fields fs, if it is set.
HoldsTarget(g, k, t) ==
  IF t = None THEN IsMissing(g, k) ELSE IsThere(g, k, "bytes", SerializeAsString(targetFields(t)))

Keeps(g, fs, k) ==
  \A o : o # k => /\ \A w, x : IsThere(fs, o, w, x) => IsThere(g, o, w, x)
                  /\ (IsMissing(fs, o) => IsMissing(g, o))

withTarget(fs, k, t) == fs \o optional(t, message(k, targetFields(t)))

\* The target is added, or nothing is.
LEMMA TargetAdded ==
  ASSUME NEW fs, NEW n, IsPlain(fs, n), NEW embedded, AreWhole(fs, embedded), NEW k \in 1 .. 15,
         IsMissing(fs, k), NEW t \in FittingTarget \cup {None}
  PROVE  /\ IsPlain(withTarget(fs, k, t), n + 129) /\ AreWhole(withTarget(fs, k, t), embedded)
         /\ HoldsTarget(withTarget(fs, k, t), k, t) /\ Keeps(withTarget(fs, k, t), fs, k)
<1>0. PICK g : g = withTarget(fs, k, t)
  OBVIOUS
<1>1. fs \in Seq(PlainField) /\ n \in Nat /\ Len(SerializeAsString(fs)) <= n
  BY DEF IsPlain
<1>2. CASE t = None
  <2>1. g = fs
    BY <1>0, <1>1, <1>2, Unset DEF withTarget
  <2>2. IsPlain(fs, n + 129)
    <3>1. Len(SerializeAsString(fs)) \in Nat
      <4>1. SerializeAsString(fs) \in Seq(Ascii)
        BY <1>1, PlainFieldsBack DEF Written
      <4> QED
        BY <4>1, LenProperties
    <3>2. n + 129 \in Nat /\ Len(SerializeAsString(fs)) <= n + 129
      BY <1>1, <3>1
    <3> QED
      BY <1>1, <3>2 DEF IsPlain
  <2> QED
    BY <1>0, <1>2, <2>1, <2>2 DEF HoldsTarget, Keeps
<1>3. CASE t # None
  <2>1. t \in FittingTarget
    BY <1>3
  <2>2. PICK w : w = targetFields(t) /\ IsPlain(w, 127)
    BY <2>1, TargetBack
  <2> DEFINE f == message(k, w)
  <2>3. /\ Adds(Append(fs, f), fs, k, "bytes", SerializeAsString(w))
        /\ IsPlain(Append(fs, f), n + 129)
        /\ f \in PlainField /\ fieldsOf(f.value).complete
    BY <2>2, MessageAdded, Zenon
  <2> HIDE DEF f
  <2>4. g = Append(fs, f)
    BY <1>0, <1>1, <1>3, <2>2, <2>3, OptionalIs DEF f, withTarget
  <2>5. AreWhole(Append(fs, f), embedded)
    BY <1>1, <2>3, OneMoreWhole
  <2>6. HoldsTarget(g, k, t) /\ Keeps(g, fs, k)
    BY <1>3, <2>2, <2>3, <2>4, Zenon DEF HoldsTarget, Keeps, Adds
  <2> QED
    BY <1>0, <2>3, <2>4, <2>5, <2>6
<1> QED
  BY <1>2, <1>3

\* And read again.
LEMMA TargetHeld ==
  ASSUME NEW fs \in Seq(PlainField), NEW k, NEW t \in FittingTarget \cup {None}, HoldsTarget(fs, k, t)
  PROVE  targetAt(fs, k) = t
<1>1. CASE t = None
  <2>1. IsMissing(fs, k)
    BY <1>1 DEF HoldsTarget
  <2> QED
    BY <1>1, <2>1, MissingIsNotHad DEF targetAt
<1>2. CASE t # None
  <2>1. t \in FittingTarget /\ IsThere(fs, k, "bytes", SerializeAsString(targetFields(t)))
    BY <1>2 DEF HoldsTarget
  <2> QED
    BY <2>1, TargetThere
<1> QED
  BY <1>1, <1>2

\* A line, with or without a sender and a target.
LEMMA ChatMessageSurvives ==
  ASSUME NEW s \in AsciiUpTo(127), NEW from \in FittingTarget \cup {None},
         NEW target \in FittingTarget \cup {None}
  PROVE  Survives(ChatMessage(s, from, target))
<1>1. PICK m : m = ChatMessage(s, from, target)
  OBVIOUS
<1>2. m.type = "CHAT_MESSAGE" /\ m.text = s /\ m.from = from /\ m.target = target
  BY <1>1 DEF ChatMessage
<1>3. embeddedIn(m.type) = {2, 3} /\ isInitialized(m) /\ m.type \in Types
  BY <1>2, TypesAre DEF embeddedIn, isInitialized
<1> DEFINE e == << >>
           f == Append(e, bytes(1, s))
           g == withTarget(f, 2, from)
           h == withTarget(g, 3, target)
<1>4. fieldsFor(m) = h
  <2>1. f = <<bytes(1, s)>>
    OBVIOUS
  <2>2. fieldsFor(m) = <<bytes(1, s)>> \o optional(from, message(2, targetFields(from)))
                         \o optional(target, message(3, targetFields(target)))
    BY <1>2 DEF fieldsFor
  <2> HIDE DEF f
  <2> QED
    BY <2>1, <2>2 DEF withTarget
<1>5. messageIn(m.type, h) = ChatMessage(stringAt(h, 1), targetAt(h, 2), targetAt(h, 3))
  BY <1>2 DEF messageIn
<1>6. IsPlain(e, 0) /\ AreWhole(e, {2, 3}) /\ IsMissing(e, 2) /\ IsMissing(e, 3)
  BY PlainNone, NoneWhole, NoneMissing
<1>7. bytes(1, s) \in PlainField /\ bytes(1, s).number = 1
  BY PlainOnes, FieldParts
<1> HIDE DEF e
<1>8. Adds(f, e, 1, "bytes", s) /\ IsPlain(f, 129)
  <2>1. 127 \in 0 .. 127 /\ 1 \in 1 .. 15
    OBVIOUS
  <2>2. Adds(f, e, 1, "bytes", s) /\ IsPlain(f, 0 + (127 + 2))
    BY <1>6, <2>1, BytesAdded, Zenon
  <2>3. 0 + (127 + 2) = 129
    OBVIOUS
  <2> QED
    BY <2>2, <2>3
<1>9. AreWhole(f, {2, 3})
  BY <1>6, <1>7, OneMoreWhole DEF IsPlain
<1> HIDE DEF f
<1>10. IsThere(f, 1, "bytes", s) /\ IsMissing(f, 2) /\ IsMissing(f, 3)
  BY <1>6, <1>8 DEF Adds
<1>11. IsPlain(g, 258) /\ AreWhole(g, {2, 3}) /\ HoldsTarget(g, 2, from) /\ Keeps(g, f, 2)
  <2>1. 2 \in 1 .. 15
    OBVIOUS
  <2>2. IsPlain(g, 129 + 129) /\ AreWhole(g, {2, 3}) /\ HoldsTarget(g, 2, from) /\ Keeps(g, f, 2)
    BY <1>8, <1>9, <1>10, <2>1, TargetAdded, Zenon
  <2> HIDE DEF g
  <2>3. 129 + 129 = 258
    OBVIOUS
  <2> QED
    BY <2>2, <2>3
<1> HIDE DEF g
<1>12. IsThere(g, 1, "bytes", s) /\ IsMissing(g, 3)
  BY <1>10, <1>11 DEF Keeps
<1>13. /\ IsPlain(h, 258 + 129) /\ AreWhole(h, {2, 3}) /\ HoldsTarget(h, 3, target)
       /\ Keeps(h, g, 3)
  <2>1. 3 \in 1 .. 15
    OBVIOUS
  <2> QED
    BY <1>11, <1>12, <2>1, TargetAdded, Zenon
<1> HIDE DEF h
<1>14. IsThere(h, 1, "bytes", s) /\ HoldsTarget(h, 2, from)
  BY <1>11, <1>12, <1>13 DEF Keeps, HoldsTarget
<1>15. h \in Seq(PlainField)
  BY <1>13 DEF IsPlain
<1>16. stringAt(h, 1) = s /\ targetAt(h, 2) = from /\ targetAt(h, 3) = target
  BY <1>13, <1>14, <1>15, StringThere, TargetHeld
<1>17. messageIn(m.type, h) = m
  BY <1>1, <1>5, <1>16
<1>18. IsPlain(h, 387)
  <2>1. 258 + 129 = 387
    OBVIOUS
  <2> QED
    BY <1>13, <2>1
<1> QED
  BY <1>1, <1>3, <1>4, <1>13, <1>17, <1>18, SmallFits DEF Survives, Types


-----------------------------------------------------------------------------
(* The list of users *)

\* The fields of the first n users.
listed(list, n) == [i \in 1 .. n |-> message(1, userFields(list[i]))]

\* They fit, and their values are the users' bytes.
ListHolds(list, n) ==
  /\ IsPlain(listed(list, n), n * 129) /\ AreWhole(listed(list, n), {1})
  /\ LET values == getAll(listed(list, n), 1, "bytes")
     IN /\ values \in Seq(Seq(Ascii)) /\ Len(values) = n
        /\ \A i \in 1 .. n : values[i] = SerializeAsString(userFields(list[i]))

\* A list of nobody.
LEMMA ListedNone ==
  ASSUME NEW list
  PROVE  ListHolds(list, 0)
<1>1. listed(list, 0) = << >>
  BY DEF listed
<1> DEFINE e == << >>
<1>2. IsPlain(e, 0) /\ 0 * 129 = 0
  BY PlainNone
<1>3. AreWhole(e, {1}) /\ getAll(e, 1, "bytes") = << >>
  BY NoneWhole, GetAllNone
<1>4. e = << >>
  OBVIOUS
<1> HIDE DEF e
<1>5. << >> \in Seq(Seq(Ascii)) /\ Len(<< >>) = 0
  OBVIOUS
<1>6. IsPlain(listed(list, 0), 0 * 129) /\ AreWhole(listed(list, 0), {1})
  BY <1>1, <1>2, <1>3, <1>4
<1>7. getAll(listed(list, 0), 1, "bytes") = << >>
  BY <1>1, <1>3, <1>4
<1>8. \A i \in 1 .. 0 : getAll(listed(list, 0), 1, "bytes")[i] = SerializeAsString(userFields(list[i]))
  OBVIOUS
<1>9. PICK values : values = getAll(listed(list, 0), 1, "bytes")
  OBVIOUS
<1>10. values \in Seq(Seq(Ascii)) /\ Len(values) = 0
  BY <1>5, <1>7, <1>9
<1> QED
  BY <1>6, <1>8, <1>9, <1>10, Zenon DEF ListHolds

\* One user more.
LEMMA ListedMore ==
  ASSUME NEW n \in Nat, NEW list \in Seq(FittingUser), n < Len(list), ListHolds(list, n)
  PROVE  ListHolds(list, n + 1)
<1>1. PICK u \in FittingUser : u = list[n + 1]
  <2>1. n + 1 \in 1 .. Len(list)
    OBVIOUS
  <2> QED
    BY <2>1
<1>2. PICK w : w = userFields(u) /\ IsPlain(w, 127)
  BY UserBack
<1>3. PICK fs : fs = listed(list, n) /\ IsPlain(fs, n * 129) /\ AreWhole(fs, {1})
  BY DEF ListHolds
<1>4. fs \in Seq(PlainField) /\ Len(fs) = n /\ \A i \in 1 .. n : fs[i] = message(1, userFields(list[i]))
  BY <1>3 DEF listed, IsPlain
<1> DEFINE f == message(1, w)
<1>5. /\ IsPlain(Append(fs, f), n * 129 + 129)
      /\ f \in PlainField /\ fieldsOf(f.value).complete
  <2>1. 1 \in 1 .. 15
    OBVIOUS
  <2> QED
    BY <1>2, <1>3, <2>1, MessageAdded, Zenon
<1>6. f.number = 1 /\ f.wire = "bytes" /\ f.value = SerializeAsString(w)
  BY FieldParts DEF message
<1>7. f = message(1, userFields(list[n + 1]))
  BY <1>1, <1>2
<1> HIDE DEF f
<1>8. listed(list, n + 1) = Append(fs, f)
  <2>1. PICK g : g = Append(fs, f)
    OBVIOUS
  <2>2. g \in Seq(PlainField) /\ Len(g) = n + 1 /\ g[n + 1] = f /\ \A i \in 1 .. n : g[i] = fs[i]
    BY <1>4, <1>5, <2>1, AppendParts
  <2>3. \A i \in 1 .. n + 1 : i \in 1 .. n \/ i = n + 1
    OBVIOUS
  <2>4. \A i \in 1 .. n + 1 : g[i] = message(1, userFields(list[i]))
    BY <1>4, <1>7, <2>2, <2>3
  <2>5. g = [i \in 1 .. n + 1 |-> g[i]]
    BY <2>2
  <2> QED
    BY <2>1, <2>4, <2>5 DEF listed
<1>9. AreWhole(Append(fs, f), {1})
  BY <1>3, <1>4, <1>5, OneMoreWhole
<1>10. PICK values : /\ values = getAll(fs, 1, "bytes") /\ values \in Seq(Seq(Ascii))
                     /\ Len(values) = n
                     /\ \A i \in 1 .. n : values[i] = SerializeAsString(userFields(list[i]))
  BY <1>3 DEF ListHolds
<1>11. SerializeAsString(w) \in Seq(Ascii)
  BY <1>2, PlainEmbedded, UpToMeans
<1>12. PICK more : more = Append(values, SerializeAsString(w))
  OBVIOUS
<1>13. getAll(Append(fs, f), 1, "bytes") = more
  <2>1. getAll(Append(fs, f), 1, "bytes") = joined(values, addition(f, 1, "bytes"))
    BY <1>4, <1>5, <1>10, GetAllAppend
  <2>2. addition(f, 1, "bytes") = one(SerializeAsString(w))
    BY <1>6 DEF addition
  <2>3. joined(values, one(SerializeAsString(w))) = more
    BY <1>10, <1>11, <1>12, AppendIsConcat DEF joined, one
  <2> QED
    BY <2>1, <2>2, <2>3
<1>14. /\ more \in Seq(Seq(Ascii)) /\ Len(more) = n + 1 /\ more[n + 1] = SerializeAsString(w)
       /\ \A i \in 1 .. n : more[i] = values[i]
  BY <1>10, <1>11, <1>12, AppendParts
<1>15. \A i \in 1 .. n + 1 : more[i] = SerializeAsString(userFields(list[i]))
  <2>1. \A i \in 1 .. n + 1 : i \in 1 .. n \/ i = n + 1
    OBVIOUS
  <2> QED
    BY <1>1, <1>2, <1>10, <1>14, <2>1
<1>16. IsPlain(Append(fs, f), (n + 1) * 129)
  <2>1. n * 129 + 129 = (n + 1) * 129
    OBVIOUS
  <2> QED
    BY <1>5, <2>1
<1> QED
  BY <1>8, <1>9, <1>13, <1>14, <1>15, <1>16 DEF ListHolds

\* So it is for every list.
LEMMA AllListed ==
  ASSUME NEW list \in Seq(FittingUser)
  PROVE  ListHolds(list, Len(list))
<1> DEFINE S == {n \in Nat : n <= Len(list) => ListHolds(list, n)}
<1>1. 0 \in S
  BY ListedNone
<1>2. ASSUME NEW n \in Nat, n \in S
      PROVE  n + 1 \in S
  <2>1. ASSUME n + 1 <= Len(list)
        PROVE  ListHolds(list, n + 1)
    <3>1. n < Len(list) /\ n <= Len(list)
      BY <2>1
    <3> QED
      BY <1>2, <3>1, ListedMore
  <2> QED
    BY <2>1
<1> HIDE DEF S
<1>3. \A n \in Nat : n \in S
  BY <1>1, <1>2, SetInduction
<1>4. Len(list) \in Nat /\ Len(list) <= Len(list)
  <2>1. Len(list) \in Nat
    OBVIOUS
  <2> QED
    BY <2>1
<1> QED
  BY <1>3, <1>4 DEF S

\* 127 users of 129 bytes each take 16383 bytes.
LEMMA ListFits ==
  ASSUME NEW n \in 0 .. 127
  PROVE  Fits(n * 129)
<1>1. CASE n = 0
  BY <1>1 DEF Fits
<1>2. CASE n # 0
  <2>1. n * 129 \in TwoBytes
    BY <1>2, SMT DEF TwoBytes
  <2> QED
    BY <2>1 DEF Fits
<1> QED
  BY <1>1, <1>2

\* The list of up to 127 users.
LEMMA ListSurvives ==
  ASSUME NEW U, U \subseteq FittingUser, IsFiniteSet(U), Cardinality(U) <= 127
  PROVE  Survives(UserListResponse(U))
<1>1. PICK m : m = UserListResponse(U)
  OBVIOUS
<1>2. m.type = "USER_LIST_RESPONSE" /\ m.users = U
  BY <1>1 DEF UserListResponse
<1>3. embeddedIn(m.type) = {1} /\ isInitialized(m) /\ m.type \in Types
  BY <1>2, TypesAre DEF embeddedIn, isInitialized
<1>4. PICK list : list = SetToSeq(U)
  OBVIOUS
<1>5. /\ list \in Seq(U) /\ Len(list) = Cardinality(U)
      /\ \A u \in U : \E i \in DOMAIN list : list[i] = u
  BY <1>4, SeqOfSet
<1>6. list \in Seq(FittingUser) /\ DOMAIN list = 1 .. Len(list)
  <2>1. DOMAIN list = 1 .. Len(list) /\ Len(list) \in Nat
    BY <1>5
  <2>2. \A i \in 1 .. Len(list) : list[i] \in FittingUser
    BY <1>5
  <2>3. list \in Seq(FittingUser)
    BY <1>5, <2>1, <2>2
  <2> QED
    BY <2>1, <2>3
<1>7. PICK n \in 0 .. 127 : n = Len(list)
  <2>1. PICK l \in Nat : l = Len(list)
    <3>1. Len(list) \in Nat
      BY <1>6, LenProperties
    <3> QED
      BY <3>1, Zenon
  <2>2. Cardinality(U) = l
    BY <1>5, <2>1
  <2>3. l <= 127
    BY <2>2
  <2>4. l \in 0 .. 127
    BY <2>3
  <2> QED
    BY <2>1, <2>4, Zenon
<1>8. PICK fs : fs = listed(list, n)
  OBVIOUS
<1>9. fieldsFor(m) = fs
  BY <1>2, <1>4, <1>6, <1>7, <1>8 DEF fieldsFor, listed
<1>10. PICK values :
         /\ values = getAll(fs, 1, "bytes")
         /\ IsPlain(fs, n * 129) /\ AreWhole(fs, {1})
         /\ values \in Seq(Seq(Ascii)) /\ Len(values) = n
         /\ \A i \in 1 .. n : values[i] = SerializeAsString(userFields(list[i]))
  <2>1. ListHolds(list, n)
    BY <1>6, <1>7, AllListed
  <2> QED
    BY <1>8, <2>1 DEF ListHolds
<1>11. messageIn(m.type, fs)
         = UserListResponse({userIn(ParseFromString(user, {}).fields) : user \in Range(values)})
  BY <1>2, <1>10 DEF messageIn
<1>12. \A i \in 1 .. n : userIn(ParseFromString(values[i], {}).fields) = list[i]
  <2> TAKE i \in 1 .. n
  <2>1. PICK u \in FittingUser : u = list[i]
    BY <1>6, <1>7
  <2>2. PICK w : w = userFields(u) /\ IsPlain(w, 127) /\ userIn(w) = u
    BY UserBack
  <2>3. ParseFromString(SerializeAsString(w), {}).fields = w
    BY <2>2, PlainEmbedded
  <2> QED
    BY <1>10, <2>1, <2>2, <2>3
<1>13. Range(values) = {values[i] : i \in 1 .. n}
  BY <1>10 DEF Range
<1>14. {userIn(ParseFromString(user, {}).fields) : user \in Range(values)} = U
  <2>1. \A i \in 1 .. n : list[i] \in U
    BY <1>5, <1>7
  <2>2. \A u \in U : \E i \in 1 .. n : list[i] = u
    BY <1>5, <1>6, <1>7
  <2> QED
    BY <1>12, <1>13, <2>1, <2>2
<1>15. IsPlain(fs, n * 129) /\ Fits(n * 129)
  BY <1>10, ListFits
<1>16. Survives(m)
  BY <1>1, <1>3, <1>9, <1>10, <1>11, <1>14, <1>15 DEF Survives, Types
<1> QED
  BY <1>1, <1>16


-----------------------------------------------------------------------------
(* The room over the wire *)

\* What fits: ids below 128, names that leave room for the rest of a user in
\* 127 bytes, and texts of up to 127 bytes, all of them ASCII.
FitsWire ==
  /\ MaxId <= 127
  /\ Names \subseteq AsciiUpTo(119)
  /\ Texts \subseteq AsciiUpTo(127)

RoomUser == [id : Ascii, name : Names, presence : Presences, mute : BOOLEAN \cup {None}]

IsRoom(r) ==
  /\ r = [n \in DOMAIN r |-> r[n]]
  /\ DOMAIN r \subseteq Names
  /\ \A n \in DOMAIN r : r[n] \in RoomUser /\ r[n].name = n

\* There are no more members than ids were handed out.
RoomCounted ==
  /\ IsFiniteSet(DOMAIN room) /\ nextUserId \in Nat
  /\ Cardinality(DOMAIN room) + FirstId <= nextUserId

MotdHeld == motd \in Texts \cup {EmptyText}

MirrorsSame == mirrors = [n \in DOMAIN room |-> room]

WireInv == IsRoom(room) /\ RoomCounted /\ MotdHeld /\ MirrorsSame /\ ReceivedAsSent

\* A larger bound lets more through.
LEMMA UpToMore ==
  ASSUME NEW m \in Nat, NEW n \in Nat, m <= n
  PROVE  AsciiUpTo(m) \subseteq AsciiUpTo(n)
<1> SUFFICES ASSUME NEW s \in AsciiUpTo(m)
             PROVE  s \in AsciiUpTo(n)
  OBVIOUS
<1>1. s \in Seq(Ascii) /\ Len(s) <= m
  BY Zenon DEF AsciiUpTo
<1>2. PICK l \in Nat : l = Len(s)
  BY <1>1, LenProperties
<1>3. l <= n
  <2>1. l <= m
    BY <1>1, <1>2
  <2> QED
    BY <2>1
<1>4. Len(s) <= n
  BY <1>2, <1>3, Zenon
<1> QED
  BY <1>1, <1>4, Zenon DEF AsciiUpTo

\* Names and texts that fit.
LEMMA NamesFit ==
  ASSUME FitsWire
  PROVE  Names \subseteq AsciiUpTo(119) /\ Names \subseteq AsciiUpTo(127)
         /\ Texts \cup {EmptyText} \subseteq AsciiUpTo(127)
<1>1. AsciiUpTo(119) \subseteq AsciiUpTo(127)
  BY UpToMore
<1>2. EmptyText \in AsciiUpTo(127)
  BY DEF EmptyText, AsciiUpTo
<1> QED
  BY <1>1, <1>2, Zenon DEF FitsWire

\* The users of a room that fits can be written and read, and none of them is
\* None.
LEMMA UsersFit ==
  ASSUME FitsWire, NEW u \in RoomUser
  PROVE  u \in FittingUser /\ u \in WiredUser /\ u # None
<1>1. u \in WiredUser
  BY DEF RoomUser, WiredUser, Ascii
<1>2. u \in FittingUser
  BY NamesFit DEF RoomUser, FittingUser
<1> QED
  BY <1>1, <1>2, UnsetAssumption

\* So can the targets made of them.
LEMMA TargetsFit ==
  ASSUME FitsWire, NEW r, IsRoom(r), NEW n
  PROVE  getTarget(r, n) \in FittingTarget \cup {None}
<1>1. CASE n \in DOMAIN r
  <2>1. r[n] \in RoomUser /\ n \in Names
    BY <1>1 DEF IsRoom
  <2>2. r[n].id \in Ascii /\ n \in AsciiUpTo(119)
    BY <2>1, NamesFit DEF RoomUser
  <2> QED
    BY <1>1, <2>2 DEF getTarget, chateeExists, FittingTarget
<1>2. CASE n \notin DOMAIN r
  BY <1>2 DEF getTarget, chateeExists
<1> QED
  BY <1>1, <1>2

\* The messages the server tells its room are not None.
LEMMA Told ==
  ASSUME NEW u \in WiredUser
  PROVE  /\ \A a \in Actions : UserChange(a, u) # None
         /\ \A p \in Presences : [UserChange(None, u) EXCEPT !.presence = p] # None
         /\ \A s \in Texts \cup {EmptyText} : UserJoinResponse(TRUE, u, s) # None
<1>1. ASSUME NEW a \in Actions
      PROVE  UserChange(a, u) # None
  <2>1. UserChange(a, u)
          \in [type : {"USER_CHANGE"}, action : {"JOINED", "LEFT", "KICKED", "MUTED", "UNMUTED", None},
               user : WiredUser, presence : Presences \cup {None}]
    BY DEF UserChange, Actions
  <2> QED
    BY <2>1, UnsetAssumption DEF RoomMessage
<1>2. ASSUME NEW p \in Presences
      PROVE  [UserChange(None, u) EXCEPT !.presence = p] # None
  <2>1. [UserChange(None, u) EXCEPT !.presence = p]
          \in [type : {"USER_CHANGE"}, action : {"JOINED", "LEFT", "KICKED", "MUTED", "UNMUTED", None},
               user : WiredUser, presence : Presences \cup {None}]
    BY DEF UserChange
  <2> QED
    BY <2>1, UnsetAssumption DEF RoomMessage
<1>3. ASSUME NEW s \in Texts \cup {EmptyText}
      PROVE  UserJoinResponse(TRUE, u, s) # None
  <2>1. UserJoinResponse(TRUE, u, s)
          \in [type : {"USER_JOIN_RESPONSE"}, success : {TRUE}, user : WiredUser,
               motd : Texts \cup {EmptyText}]
    BY DEF UserJoinResponse
  <2> QED
    BY <2>1, UnsetAssumption DEF RoomMessage
<1> QED
  BY <1>1, <1>2, <1>3

\* Nor are the other two.
LEMMA ToldMore ==
  /\ \A s \in Texts : ChatroomChange(s) # None
  /\ \A U \in SUBSET WiredUser : UserListResponse(U) # None
<1>1. ASSUME NEW s \in Texts
      PROVE  ChatroomChange(s) # None
  <2>1. ChatroomChange(s) \in [type : {"CHATROOM_CHANGE"}, motd : Texts]
    BY DEF ChatroomChange
  <2> QED
    BY <2>1, UnsetAssumption DEF RoomMessage
<1>2. ASSUME NEW U \in SUBSET WiredUser
      PROVE  UserListResponse(U) # None
  <2>1. UserListResponse(U) \in [type : {"USER_LIST_RESPONSE"}, users : SUBSET WiredUser]
    BY DEF UserListResponse
  <2> QED
    BY <2>1, UnsetAssumption DEF RoomMessage
<1> QED
  BY <1>1, <1>2


\* What changes a room keeps it one.
LEMMA RoomJoined ==
  ASSUME NEW r, IsRoom(r), NEW u \in RoomUser, u.name \notin DOMAIN r
  PROVE  /\ IsRoom(chateeJoined(r, u.name, u))
         /\ DOMAIN chateeJoined(r, u.name, u) = DOMAIN r \cup {u.name}
<1>1. PICK n \in Names : n = u.name
  BY DEF RoomUser
<1>2. PICK q : q = [k \in DOMAIN r \cup {n} |-> IF k = n THEN u ELSE r[k]]
  OBVIOUS
<1>3. chateeJoined(r, u.name, u) = q
  BY <1>1, <1>2 DEF chateeJoined, chateeExists
<1>4. DOMAIN q = DOMAIN r \cup {n} /\ q = [k \in DOMAIN q |-> q[k]]
  BY <1>2
<1>5. \A k \in DOMAIN q : q[k] \in RoomUser /\ q[k].name = k
  BY <1>1, <1>2, <1>4 DEF IsRoom
<1>6. DOMAIN q \subseteq Names
  BY <1>4 DEF IsRoom
<1>7. IsRoom(q)
  BY <1>4, <1>5, <1>6, Zenon DEF IsRoom
<1> QED
  BY <1>1, <1>3, <1>4, <1>7

\* A user leaves.
LEMMA RoomLeft ==
  ASSUME NEW r, IsRoom(r), NEW n
  PROVE  IsRoom(chateeLeft(r, n)) /\ DOMAIN chateeLeft(r, n) \subseteq DOMAIN r
BY DEF chateeLeft, IsRoom

\* A mute flag is set.
LEMMA RoomMuted ==
  ASSUME NEW r, IsRoom(r), NEW n \in DOMAIN r, NEW b \in BOOLEAN
  PROVE  IsRoom([r EXCEPT ![n].mute = b]) /\ DOMAIN [r EXCEPT ![n].mute = b] = DOMAIN r
<1>1. PICK q : q = [r EXCEPT ![n].mute = b]
  OBVIOUS
<1>2. PICK v : v = [r[n] EXCEPT !.mute = b]
  OBVIOUS
<1>3. r[n] \in RoomUser /\ r[n].name = n
  BY DEF IsRoom
<1>4. v \in RoomUser /\ v.name = n
  BY <1>2, <1>3 DEF RoomUser
<1>5. DOMAIN q = DOMAIN r /\ q = [k \in DOMAIN q |-> q[k]]
  BY <1>1
<1>6. q[n] = v /\ \A k \in DOMAIN r : k # n => q[k] = r[k]
  BY <1>1, <1>2
<1>7. \A k \in DOMAIN q : q[k] \in RoomUser /\ q[k].name = k
  BY <1>4, <1>5, <1>6 DEF IsRoom
<1>8. DOMAIN q \subseteq Names
  BY <1>5 DEF IsRoom
<1>9. IsRoom(q)
  BY <1>5, <1>7, <1>8, Zenon DEF IsRoom
<1> QED
  BY <1>1, <1>5, <1>9

\* A presence is set.
LEMMA RoomChanged ==
  ASSUME NEW r, IsRoom(r), NEW n \in DOMAIN r, NEW p \in Presences
  PROVE  IsRoom([r EXCEPT ![n].presence = p]) /\ DOMAIN [r EXCEPT ![n].presence = p] = DOMAIN r
<1>1. PICK q : q = [r EXCEPT ![n].presence = p]
  OBVIOUS
<1>2. PICK v : v = [r[n] EXCEPT !.presence = p]
  OBVIOUS
<1>3. r[n] \in RoomUser /\ r[n].name = n
  BY DEF IsRoom
<1>4. v \in RoomUser /\ v.name = n
  BY <1>2, <1>3 DEF RoomUser
<1>5. DOMAIN q = DOMAIN r /\ q = [k \in DOMAIN q |-> q[k]]
  BY <1>1
<1>6. q[n] = v /\ \A k \in DOMAIN r : k # n => q[k] = r[k]
  BY <1>1, <1>2
<1>7. \A k \in DOMAIN q : q[k] \in RoomUser /\ q[k].name = k
  BY <1>4, <1>5, <1>6 DEF IsRoom
<1>8. DOMAIN q \subseteq Names
  BY <1>5 DEF IsRoom
<1>9. IsRoom(q)
  BY <1>5, <1>7, <1>8, Zenon DEF IsRoom
<1> QED
  BY <1>1, <1>5, <1>9

-----------------------------------------------------------------------------
(* A mirror that is the room stays the room *)

\* Somebody joins.
LEMMA MirrorJoined ==
  ASSUME NEW r, NEW u, NEW n, u.name = n
  PROVE  roomAfter(r, UserChange("JOINED", u)) = chateeJoined(r, n, u)
BY DEF roomAfter, userChanged, UserChange

\* The client itself joins.
LEMMA MirrorWelcomed ==
  ASSUME NEW r, NEW u, NEW n, u.name = n, NEW s
  PROVE  roomAfter(r, UserJoinResponse(TRUE, u, s)) = chateeJoined(r, n, u)
<1>1. PICK m : m = UserJoinResponse(TRUE, u, s)
  OBVIOUS
<1>2. m.type = "USER_JOIN_RESPONSE" /\ m.user = u
  BY <1>1 DEF UserJoinResponse
<1>3. m.success
  BY <1>1 DEF UserJoinResponse
<1>4. roomAfter(r, m) = chateeJoined(r, n, u)
  BY <1>2, <1>3 DEF roomAfter
<1> QED
  BY <1>1, <1>4, Zenon

\* Somebody leaves or is kicked.
LEMMA MirrorLeft ==
  ASSUME NEW r, NEW n \in DOMAIN r, r[n].name = n, NEW a \in {"LEFT", "KICKED"}
  PROVE  roomAfter(r, UserChange(a, r[n])) = chateeLeft(r, n)
<1>1. PICK m : m = UserChange(a, r[n])
  OBVIOUS
<1>2. m.type = "USER_CHANGE" /\ m.action = a /\ m.user.name = n /\ m.presence = None
  BY <1>1 DEF UserChange
<1>3. userChanged(r, m) = actionTaken(presenceChanged(r, n, None), n, a)
  BY <1>2 DEF userChanged, chateeExists
<1>4. presenceChanged(r, n, None) = r /\ actionTaken(r, n, a) = chateeLeft(r, n)
  BY DEF presenceChanged, actionTaken
<1> QED
  BY <1>1, <1>2, <1>3, <1>4 DEF roomAfter

\* Somebody is muted or unmuted.
LEMMA MirrorMuted ==
  ASSUME NEW r, NEW n \in DOMAIN r, r[n].name = n, NEW b \in BOOLEAN
  PROVE  roomAfter(r, UserChange(IF b THEN "MUTED" ELSE "UNMUTED", r[n])) = [r EXCEPT ![n].mute = b]
<1>1. PICK a : a = IF b THEN "MUTED" ELSE "UNMUTED"
  OBVIOUS
<1>2. PICK m : m = UserChange(a, r[n])
  OBVIOUS
<1>3. m.type = "USER_CHANGE" /\ m.action = a /\ m.user.name = n /\ m.presence = None
  BY <1>2 DEF UserChange
<1>4. a \in {"MUTED", "UNMUTED"} /\ a # "JOINED"
  BY <1>1
<1>5. (a = "MUTED") = b
  BY <1>1
<1>6. userChanged(r, m) = actionTaken(presenceChanged(r, n, None), n, a)
  BY <1>3, <1>4 DEF userChanged, chateeExists
<1>7. presenceChanged(r, n, None) = r
  BY DEF presenceChanged
<1>8. actionTaken(r, n, a) = [r EXCEPT ![n].mute = (a = "MUTED")]
  BY <1>4 DEF actionTaken
<1>9. roomAfter(r, m) = [r EXCEPT ![n].mute = (a = "MUTED")]
  BY <1>3, <1>6, <1>7, <1>8 DEF roomAfter
<1> QED
  BY <1>1, <1>2, <1>5, <1>9, Zenon

\* Somebody changes the presence.
LEMMA MirrorChanged ==
  ASSUME NEW r, NEW n \in DOMAIN r, r[n].name = n, NEW p \in Presences
  PROVE  roomAfter(r, [UserChange(None, r[n]) EXCEPT !.presence = p]) = [r EXCEPT ![n].presence = p]
<1>1. PICK m : m = [UserChange(None, r[n]) EXCEPT !.presence = p]
  OBVIOUS
<1>2. m.type = "USER_CHANGE" /\ m.action = None /\ m.user.name = n /\ m.presence = p
  BY <1>1 DEF UserChange
<1>3. None \notin {"JOINED", "LEFT", "KICKED", "MUTED", "UNMUTED"} /\ p # None
  BY NoneAssumption, UnsetAssumption
<1>4. userChanged(r, m) = actionTaken(presenceChanged(r, n, p), n, None)
  BY <1>2, <1>3 DEF userChanged, chateeExists
<1>5. presenceChanged(r, n, p) = [r EXCEPT ![n].presence = p]
  BY <1>3 DEF presenceChanged
<1>6. \A q : actionTaken(q, n, None) = q
  BY <1>3 DEF actionTaken
<1> QED
  BY <1>1, <1>2, <1>4, <1>5, <1>6 DEF roomAfter

\* A motd does not touch the room.
LEMMA MirrorSpoken ==
  ASSUME NEW r, NEW s
  PROVE  roomAfter(r, ChatroomChange(s)) = r
BY DEF roomAfter, ChatroomChange

\* The list completes the mirror of a newcomer.
LEMMA MirrorListed ==
  ASSUME NEW r, IsRoom(r), NEW n \in DOMAIN r, NEW q, q = [k \in {n} |-> r[n]]
  PROVE  roomAfter(q, UserListResponse(Range(r))) = r
<1>1. PICK m : m = UserListResponse(Range(r))
  OBVIOUS
<1>2. m.type = "USER_LIST_RESPONSE" /\ m.users = Range(r)
  BY <1>1 DEF UserListResponse
<1>3. roomAfter(q, m) = listReceived(q, Range(r))
  BY <1>2 DEF roomAfter
<1>4. \A u \in Range(r) : u.name \in DOMAIN r /\ r[u.name] = u
  BY DEF Range, IsRoom
<1>5. \A k \in DOMAIN r : r[k] \in Range(r) /\ r[k].name = k
  BY DEF Range, IsRoom
<1>6. DOMAIN q \cup {u.name : u \in Range(r)} = DOMAIN r
  <2>1. {u.name : u \in Range(r)} = DOMAIN r
    BY <1>4, <1>5
  <2>2. DOMAIN q = {n}
    OBVIOUS
  <2> QED
    BY <2>1, <2>2
<1>7. \A k \in DOMAIN r :
        (IF chateeExists(q, k) THEN q[k] ELSE CHOOSE u \in Range(r) : u.name = k) = r[k]
  <2> TAKE k \in DOMAIN r
  <2>1. CASE k = n
    BY <2>1 DEF chateeExists
  <2>2. CASE k # n
    <3>1. (CHOOSE u \in Range(r) : u.name = k) = r[k]
      BY <1>4, <1>5
    <3>2. ~chateeExists(q, k)
      BY <2>2 DEF chateeExists
    <3> QED
      BY <3>1, <3>2
  <2> QED
    BY <2>1, <2>2
<1>8. listReceived(q, Range(r)) = [k \in DOMAIN r |-> r[k]]
  BY <1>6, <1>7 DEF listReceived
<1> QED
  BY <1>1, <1>3, <1>8 DEF IsRoom


-----------------------------------------------------------------------------
(* The steps *)

\* Both sides of an exchange have the message that survives.
LEMMA Exchanged ==
  ASSUME NEW m, Survives(m), NEW to
  PROVE  exchange(m, to).received = m /\ exchange(m, to).sent = m
BY Received DEF exchange

\* A change that is told to the members who stay, each of which sees what the
\* server sees.
LEMMA Announced ==
  ASSUME WireInv, NEW newRoom, IsRoom(newRoom), DOMAIN newRoom \subseteq DOMAIN room,
         NEW m, Survives(m), m # None, roomAfter(room, m) = newRoom,
         NEW asked, \A e \in asked : e.received = e.sent,
         announces(newRoom, m, asked), motd' \in Texts \cup {EmptyText}
  PROVE  WireInv'
<1>1. PICK e : e = exchange(m, DOMAIN newRoom)
  OBVIOUS
<1>2. e.received = m /\ e.sent = m
  BY <1>1, Exchanged
<1>3. /\ room' = newRoom
      /\ mirrors' = [n \in DOMAIN newRoom |-> readBy(mirrors[n], m)]
      /\ exchanged' = asked \cup {e}
      /\ nextUserId' = nextUserId
  BY <1>1, <1>2 DEF announces, announce
<1>4. IsRoom(room)'
  BY <1>3
<1>5. RoomCounted'
  <2>1. /\ IsFiniteSet(DOMAIN room) /\ nextUserId \in Nat
        /\ Cardinality(DOMAIN room) + FirstId <= nextUserId
    BY DEF WireInv, RoomCounted
  <2>2. /\ IsFiniteSet(DOMAIN newRoom) /\ Cardinality(DOMAIN newRoom) <= Cardinality(DOMAIN room)
        /\ Cardinality(DOMAIN newRoom) \in Nat /\ Cardinality(DOMAIN room) \in Nat
    BY <2>1, FS_Subset, FS_CardinalityType
  <2>3. Cardinality(DOMAIN newRoom) + FirstId <= nextUserId
    BY <2>1, <2>2, IdAssumption
  <2> QED
    BY <1>3, <2>1, <2>2, <2>3 DEF RoomCounted
<1>6. MotdHeld'
  BY DEF MotdHeld
<1>7. MirrorsSame'
  <2>1. \A n \in DOMAIN newRoom : mirrors[n] = room
    BY DEF WireInv, MirrorsSame
  <2>2. readBy(room, m) = newRoom
    BY DEF readBy
  <2> QED
    BY <1>3, <2>1, <2>2 DEF MirrorsSame
<1>8. ReceivedAsSent'
  BY <1>2, <1>3 DEF ReceivedAsSent
<1> QED
  BY <1>4, <1>5, <1>6, <1>7, <1>8 DEF WireInv

\* A member leaves.
LEMMA LeaveKeeps ==
  ASSUME FitsWire, WireInv, NEW n \in DOMAIN room, leave(n)
  PROVE  WireInv'
<1>1. IsRoom(room) /\ room[n] \in RoomUser /\ room[n].name = n
  BY DEF WireInv, IsRoom
<1>2. room[n] \in FittingUser /\ room[n] \in WiredUser /\ "LEFT" \in Actions
  BY <1>1, UsersFit DEF Actions
<1>3. PICK m : m = UserChange("LEFT", room[n])
  OBVIOUS
<1>4. Survives(m) /\ m # None
  BY <1>2, <1>3, UserChangeSurvives, Told
<1>5. roomAfter(room, m) = chateeLeft(room, n)
  BY <1>1, <1>3, MirrorLeft
<1>6. IsRoom(chateeLeft(room, n)) /\ DOMAIN chateeLeft(room, n) \subseteq DOMAIN room
  BY <1>1, RoomLeft
<1>7. PICK none : none = {}
  OBVIOUS
<1>8. announces(chateeLeft(room, n), m, none) /\ motd' \in Texts \cup {EmptyText}
  BY <1>3, <1>7 DEF leave, WireInv, MotdHeld
<1>9. \A e \in none : e.received = e.sent
  BY <1>7
<1> HIDE <1>7
<1> QED
  BY <1>4, <1>5, <1>6, <1>8, <1>9, Announced, Zenon

\* A member is kicked.
LEMMA KickKeeps ==
  ASSUME FitsWire, WireInv, NEW asked, asked.received = asked.sent, NEW n, kick(asked, n)
  PROVE  WireInv'
<1>1. n \in DOMAIN room /\ IsRoom(room) /\ room[n] \in RoomUser /\ room[n].name = n
  BY DEF WireInv, IsRoom, kick, chateeExists
<1>2. room[n] \in FittingUser /\ room[n] \in WiredUser /\ "KICKED" \in Actions
  BY <1>1, UsersFit DEF Actions
<1>3. PICK m : m = UserChange("KICKED", room[n])
  OBVIOUS
<1>4. Survives(m) /\ m # None
  BY <1>2, <1>3, UserChangeSurvives, Told
<1>5. roomAfter(room, m) = chateeLeft(room, n)
  BY <1>1, <1>3, MirrorLeft
<1>6. IsRoom(chateeLeft(room, n)) /\ DOMAIN chateeLeft(room, n) \subseteq DOMAIN room
  BY <1>1, RoomLeft
<1>7. announces(chateeLeft(room, n), m, {asked}) /\ motd' \in Texts \cup {EmptyText}
  BY <1>3 DEF kick, WireInv, MotdHeld
<1>8. \A e \in {asked} : e.received = e.sent
  OBVIOUS
<1> QED
  BY <1>4, <1>5, <1>6, <1>7, <1>8, Announced, Zenon

\* A member is muted or unmuted.
LEMMA MuteKeeps ==
  ASSUME FitsWire, WireInv, NEW asked, asked.received = asked.sent, NEW n, NEW b \in BOOLEAN,
         setMute(asked, n, b)
  PROVE  WireInv'
<1>1. n \in DOMAIN room /\ IsRoom(room) /\ room[n] \in RoomUser /\ room[n].name = n
  BY DEF WireInv, IsRoom, setMute, chateeExists
<1>2. room[n] \in FittingUser /\ room[n] \in WiredUser
  BY <1>1, UsersFit
<1>3. PICK a \in Actions : a = IF b THEN "MUTED" ELSE "UNMUTED"
  BY DEF Actions
<1>4. PICK m : m = UserChange(a, room[n])
  OBVIOUS
<1>5. Survives(m) /\ m # None
  BY <1>2, <1>4, UserChangeSurvives, Told
<1>6. PICK q : q = [room EXCEPT ![n].mute = b]
  OBVIOUS
<1>7. roomAfter(room, m) = q
  <2>1. roomAfter(room, UserChange(IF b THEN "MUTED" ELSE "UNMUTED", room[n])) = [room EXCEPT ![n].mute = b]
    BY <1>1, MirrorMuted
  <2>2. (IF b THEN "MUTED" ELSE "UNMUTED") = a
    BY <1>3
  <2> QED
    BY <1>4, <1>6, <2>1, <2>2, Zenon
<1>8. IsRoom(q) /\ DOMAIN q \subseteq DOMAIN room
  BY <1>1, <1>6, RoomMuted
<1>9. announces(q, m, {asked}) /\ motd' \in Texts \cup {EmptyText}
  BY <1>3, <1>4, <1>6, Zenon DEF setMute, WireInv, MotdHeld
<1>10. \A e \in {asked} : e.received = e.sent
  OBVIOUS
<1> QED
  BY <1>5, <1>7, <1>8, <1>9, <1>10, Announced, Zenon

\* The motd is set.
LEMMA MotdKeeps ==
  ASSUME FitsWire, WireInv, NEW asked, asked.received = asked.sent, NEW s \in Texts,
         setMotd(asked, s)
  PROVE  WireInv'
<1>1. IsRoom(room) /\ s \in AsciiUpTo(127)
  BY NamesFit DEF WireInv
<1>2. PICK m : m = ChatroomChange(s)
  OBVIOUS
<1>3. Survives(m) /\ m # None
  BY <1>1, <1>2, ChatroomChangeSurvives, ToldMore
<1>4. roomAfter(room, m) = room
  BY <1>2, MirrorSpoken
<1>5. announces(room, m, {asked}) /\ motd' \in Texts \cup {EmptyText}
  BY <1>2 DEF setMotd
<1>6. \A e \in {asked} : e.received = e.sent
  OBVIOUS
<1> QED
  BY <1>1, <1>3, <1>4, <1>5, <1>6, Announced, Zenon

\* What the members may say survives, so that the server does what they mean.
LEMMA CommandKeeps ==
  ASSUME FitsWire, WireInv, NEW m \in commands, command(exchange(m, {}))
  PROVE  WireInv'
<1>1. IsRoom(room) /\ DOMAIN room \subseteq AsciiUpTo(127)
  BY NamesFit DEF WireInv, IsRoom
<1>2. CASE m \in [type : {"CHAT_COMMAND"}, command : {"KICK", "MUTE", "UNMUTE"},
                  arguments : {<<n>> : n \in DOMAIN room}]
  <2>1. PICK c \in {"KICK", "MUTE", "UNMUTE"}, n \in DOMAIN room : m = ChatCommand(c, <<n>>)
    BY <1>2 DEF ChatCommand
  <2>2. Survives(m)
    <3>1. c \in CommandTypes /\ n \in AsciiUpTo(127)
      BY <1>1 DEF CommandTypes
    <3> QED
      BY <2>1, <3>1, CommandSurvives
  <2>3. PICK asked : asked = exchange(m, {})
    OBVIOUS
  <2>4. asked.received = m /\ asked.received = asked.sent
    BY <2>2, <2>3, Exchanged
  <2>5. m.command = c /\ m.arguments[1] = n
    BY <2>1 DEF ChatCommand
  <2>6. \/ c \in {"MUTE", "UNMUTE"} /\ setMute(asked, n, c = "MUTE")
        \/ c = "KICK" /\ kick(asked, n)
    BY <2>1, <2>3, <2>4, <2>5 DEF command
  <2>7. CASE c = "KICK" /\ kick(asked, n)
    BY <2>4, <2>7, KickKeeps
  <2>8. CASE setMute(asked, n, c = "MUTE")
    <3>1. PICK b \in BOOLEAN : b = (c = "MUTE")
      OBVIOUS
    <3>2. setMute(asked, n, b)
      BY <2>8, <3>1, Zenon
    <3> QED
      BY <2>4, <3>2, MuteKeeps
  <2> QED
    BY <2>6, <2>7, <2>8
<1>3. CASE \E s \in Texts : m = ChatCommand("MOTD", <<s>>)
  <2>1. PICK s \in Texts : m = ChatCommand("MOTD", <<s>>)
    BY <1>3
  <2>2. Survives(m)
    <3>1. "MOTD" \in CommandTypes /\ s \in AsciiUpTo(127)
      BY NamesFit DEF CommandTypes
    <3> QED
      BY <2>1, <3>1, CommandSurvives
  <2>3. PICK asked : asked = exchange(m, {})
    OBVIOUS
  <2>4. asked.received = m /\ asked.received = asked.sent
    BY <2>2, <2>3, Exchanged
  <2>5. m.command = "MOTD" /\ m.arguments[1] = s
    BY <2>1 DEF ChatCommand
  <2>6. setMotd(asked, s)
    BY <2>3, <2>4, <2>5 DEF command
  <2> QED
    BY <2>4, <2>6, MotdKeeps
<1> QED
  BY <1>2, <1>3 DEF commands


\* A member changes its presence.
LEMMA PresenceKeeps ==
  ASSUME FitsWire, WireInv, NEW n \in DOMAIN room, NEW m \in presencesOf(n),
         updatePresence(n, exchange(m, {}))
  PROVE  WireInv'
<1>1. IsRoom(room) /\ room[n] \in RoomUser /\ room[n].name = n
  BY DEF WireInv, IsRoom
<1>2. room[n] \in FittingUser /\ room[n] \in WiredUser
  BY <1>1, UsersFit
<1>3. PICK p \in Presences : m = [UserChange(None, room[n]) EXCEPT !.presence = p]
  <2>1. mirrors[n] = room
    BY DEF WireInv, MirrorsSame
  <2>2. PICK p \in PresenceInputs : m = [UserChange(None, room[n]) EXCEPT !.presence = p]
    BY <2>1 DEF presencesOf
  <2> QED
    BY <2>2, WiredPresences
<1>4. Survives(m) /\ m # None
  BY <1>2, <1>3, PresenceChangeSurvives, Told
<1>5. PICK asked : asked = exchange(m, {})
  OBVIOUS
<1>6. asked.received = m /\ asked.received = asked.sent
  BY <1>4, <1>5, Exchanged
<1>7. PICK q : q = [room EXCEPT ![n].presence = p]
  OBVIOUS
<1>8. roomAfter(room, m) = q
  <2>1. roomAfter(room, [UserChange(None, room[n]) EXCEPT !.presence = p]) = [room EXCEPT ![n].presence = p]
    BY <1>1, MirrorChanged
  <2> QED
    BY <1>3, <1>7, <2>1, Zenon
<1>9. IsRoom(q) /\ DOMAIN q \subseteq DOMAIN room
  BY <1>1, <1>7, RoomChanged
<1>10. announces(q, m, {asked}) /\ motd' \in Texts \cup {EmptyText}
  <2>1. m.presence = p /\ p # None
    BY <1>3, UnsetAssumption DEF UserChange
  <2>2. announces([room EXCEPT ![n].presence = IF m.presence = None THEN @ ELSE m.presence], m, {asked})
    BY <1>5, <1>6 DEF updatePresence
  <2>3. motd' = motd
    BY DEF updatePresence
  <2>4. [room EXCEPT ![n].presence = IF m.presence = None THEN @ ELSE m.presence] = q
    BY <1>7, <2>1
  <2> QED
    BY <2>2, <2>3, <2>4 DEF WireInv, MotdHeld
<1>11. \A e \in {asked} : e.received = e.sent
  BY <1>6
<1> QED
  BY <1>4, <1>8, <1>9, <1>10, <1>11, Announced, Zenon

\* A member writes a line: to everybody, to one, or in vain.
LEMMA SendKeeps ==
  ASSUME FitsWire, WireInv, NEW n \in DOMAIN room, NEW m \in linesOf(n),
         sendMessage(n, exchange(m, {}))
  PROVE  WireInv'
<1>1. IsRoom(room) /\ mirrors[n] = room
  BY DEF WireInv, MirrorsSame
<1>2. PICK s \in Texts, t \in {None} \cup {getTarget(room, k) : k \in DOMAIN room \ {n}} :
        m = ChatMessage(s, None, t)
  BY <1>1 DEF linesOf
<1>3. s \in AsciiUpTo(127) /\ t \in FittingTarget \cup {None}
  BY <1>1, <1>2, NamesFit, TargetsFit
<1>4. Survives(m)
  BY <1>2, <1>3, ChatMessageSurvives
<1>5. PICK asked : asked = exchange(m, {})
  OBVIOUS
<1>6. asked.received = m /\ asked.received = asked.sent
  BY <1>4, <1>5, Exchanged
<1>7. m.text = s /\ m.target = t
  BY <1>2 DEF ChatMessage
<1>8. /\ room' = room /\ nextUserId' = nextUserId /\ motd' = motd /\ mirrors' = mirrors
  BY DEF sendMessage
<1>9. \E r, to : Survives(r) /\ exchanged' = {asked, exchange(r, to)}
  <2>1. whisper(n, asked, t) \/ say(n, asked, t) \/ refuse(n, asked, t)
    BY <1>5, <1>6, <1>7 DEF sendMessage
  <2>2. CASE whisper(n, asked, t)
    <3>1. PICK r : r = ChatMessage(s, getTarget(room, n), getTarget(room, t.user_name))
      OBVIOUS
    <3>2. Survives(r)
      BY <1>1, <1>3, <3>1, TargetsFit, ChatMessageSurvives
    <3>3. exchanged' = {asked, exchange(r, {n, t.user_name})}
      BY <1>6, <1>7, <2>2, <3>1 DEF whisper, copied
    <3> QED
      BY <3>2, <3>3
  <2>3. CASE say(n, asked, t)
    <3>1. PICK r : r = ChatMessage(s, getTarget(room, n), None)
      OBVIOUS
    <3>2. Survives(r)
      BY <1>1, <1>3, <3>1, TargetsFit, ChatMessageSurvives
    <3>3. exchanged' = {asked, exchange(r, DOMAIN room)}
      BY <1>6, <1>7, <2>3, <3>1 DEF say, copied
    <3> QED
      BY <3>2, <3>3
  <2>4. CASE refuse(n, asked, t)
    <3>1. exchanged' = {asked, exchange(GenericChatResponse(FALSE), {n})}
      BY <2>4 DEF refuse, copied
    <3> QED
      BY <3>1, ResponseSurvives
  <2> QED
    BY <2>1, <2>2, <2>3, <2>4
<1>10. ReceivedAsSent'
  <2>1. PICK r, to : Survives(r) /\ exchanged' = {asked, exchange(r, to)}
    BY <1>9
  <2>2. exchange(r, to).received = exchange(r, to).sent
    BY <2>1, Exchanged
  <2> QED
    BY <1>6, <2>1, <2>2 DEF ReceivedAsSent
<1> QED
  BY <1>8, <1>10 DEF WireInv, IsRoom, RoomCounted, MotdHeld, MirrorsSame

\* The users of a room are no more than its names.
LEMMA UsersCounted ==
  ASSUME NEW r, IsRoom(r), IsFiniteSet(DOMAIN r)
  PROVE  /\ Range(r) \subseteq RoomUser
         /\ IsFiniteSet(Range(r)) /\ Cardinality(Range(r)) <= Cardinality(DOMAIN r)
<1>1. Range(r) \subseteq RoomUser
  BY DEF IsRoom, Range
<1>2. r \in Surjection(DOMAIN r, Range(r))
  BY DEF IsRoom, Range, Surjection
<1> QED
  BY <1>1, <1>2, FS_Surjection

\* A user joins. The list of the room fits, because no more users are in it
\* than ids were handed out.
LEMMA JoinKeeps ==
  ASSUME FitsWire, WireInv, NEW n \in Names, join(exchange(UserJoinRequest(n), {}))
  PROVE  WireInv'
<1>1. IsRoom(room) /\ n \in AsciiUpTo(127) /\ motd \in AsciiUpTo(127) /\ motd \in Texts \cup {EmptyText}
  BY NamesFit DEF WireInv, MotdHeld
<1>2. PICK asked : asked = exchange(UserJoinRequest(n), {})
  OBVIOUS
<1>3. asked.received = UserJoinRequest(n) /\ asked.received = asked.sent
  BY <1>1, <1>2, JoinRequestSurvives, Exchanged
<1>4. asked.received.name = n
  BY <1>3 DEF UserJoinRequest
<1>5. PICK new : new = [id |-> nextUserId, name |-> n, presence |-> "ONLINE", mute |-> None]
  OBVIOUS
<1>6. PICK q : q = chateeJoined(room, n, new)
  OBVIOUS
<1>7. /\ nextUserId <= MaxId /\ n \notin DOMAIN room
      /\ nextUserId' = nextUserId + 1 /\ motd' = motd
      /\ welcomes(q, new, asked)
  BY <1>2, <1>4, <1>5, <1>6 DEF join, chateeExists
<1>8. nextUserId \in Ascii
  <2>1. nextUserId \in Nat /\ MaxId <= 127 /\ MaxId \in Nat
    BY IdAssumption DEF WireInv, RoomCounted, FitsWire
  <2> QED
    BY <1>7, <2>1 DEF Ascii
<1>9. new \in RoomUser /\ new.name = n
  BY <1>5, <1>8 DEF RoomUser, Presences
<1>10. new \in FittingUser /\ new \in WiredUser /\ new # None
  BY <1>9, UsersFit
<1>11. IsRoom(q) /\ DOMAIN q = DOMAIN room \cup {n}
  BY <1>1, <1>6, <1>7, <1>9, RoomJoined
<1>12. RoomCounted' /\ IsFiniteSet(DOMAIN q) /\ Cardinality(DOMAIN q) <= 127
  <2>1. /\ IsFiniteSet(DOMAIN room) /\ nextUserId \in Nat
        /\ Cardinality(DOMAIN room) + FirstId <= nextUserId
    BY DEF WireInv, RoomCounted
  <2>2. /\ IsFiniteSet(DOMAIN q) /\ Cardinality(DOMAIN q) = Cardinality(DOMAIN room) + 1
        /\ Cardinality(DOMAIN room) \in Nat
    BY <1>7, <1>11, <2>1, FS_AddElement, FS_CardinalityType
  <2>3. PICK a \in Nat, b \in Nat : a = Cardinality(DOMAIN room) /\ b = nextUserId
    BY <2>1, <2>2
  <2>4. b <= 127 /\ a + FirstId <= b
    <3>1. b <= 127
      BY <1>8, <2>3 DEF Ascii
    <3> QED
      BY <2>1, <2>3, <3>1
  <2>5. a + 1 <= 127 /\ (a + 1) + FirstId <= b + 1
    BY <2>4, IdAssumption
  <2>6. room' = q
    BY <1>7 DEF welcomes, welcome
  <2> QED
    BY <1>7, <2>2, <2>3, <2>5, <2>6 DEF RoomCounted
<1>13. Range(q) \subseteq RoomUser /\ IsFiniteSet(Range(q)) /\ Cardinality(Range(q)) <= 127
  <2>1. /\ Range(q) \subseteq RoomUser
        /\ IsFiniteSet(Range(q)) /\ Cardinality(Range(q)) <= Cardinality(DOMAIN q)
    BY <1>11, <1>12, UsersCounted
  <2>2. Cardinality(Range(q)) \in Nat /\ Cardinality(DOMAIN q) \in Nat
    BY <1>12, <2>1, FS_CardinalityType
  <2> QED
    BY <1>12, <2>1, <2>2
<1>14. PICK joins, answer, list :
         /\ joins = UserChange("JOINED", new)
         /\ answer = UserJoinResponse(TRUE, new, motd)
         /\ list = UserListResponse(Range(q))
  OBVIOUS
<1>15. Survives(joins) /\ joins # None
  <2>1. "JOINED" \in Actions
    BY DEF Actions
  <2> QED
    BY <1>10, <1>14, <2>1, UserChangeSurvives, Told
<1>16. Survives(answer) /\ answer # None
  BY <1>1, <1>10, <1>14, JoinResponseSurvives, Told, Zenon
<1>17. Survives(list) /\ list # None
  <2>1. Range(q) \subseteq FittingUser /\ Range(q) \in SUBSET WiredUser
    BY <1>13, UsersFit
  <2> QED
    BY <1>13, <1>14, <2>1, ListSurvives, ToldMore
<1>18. PICK e, f, g :
         /\ e = exchange(joins, DOMAIN q)
         /\ f = exchange(answer, {n})
         /\ g = exchange(list, {n})
  OBVIOUS
<1>19. /\ e.received = joins /\ e.received = e.sent
       /\ f.received = answer /\ f.received = f.sent
       /\ g.received = list /\ g.received = g.sent
  BY <1>15, <1>16, <1>17, <1>18, Exchanged
<1>20. welcome(q, asked, e, f, g)
  BY <1>7, <1>9, <1>14, <1>18, Zenon DEF welcomes
<1>21. /\ room' = q /\ exchanged' = {asked, e, f, g}
       /\ mirrors' = [k \in DOMAIN q |->
            IF chateeExists(room, k) THEN readBy(mirrors[k], joins)
            ELSE readBy(readBy(readBy(EmptyRoom, joins), answer), list)]
  BY <1>19, <1>20 DEF welcome
<1>22. ReceivedAsSent'
  BY <1>3, <1>19, <1>21 DEF ReceivedAsSent
<1>23. \A r : /\ readBy(r, joins) = chateeJoined(r, n, new)
              /\ readBy(r, answer) = chateeJoined(r, n, new)
              /\ readBy(r, list) = roomAfter(r, list)
  BY <1>9, <1>14, <1>15, <1>16, <1>17, MirrorJoined, MirrorWelcomed, Zenon DEF readBy
<1>24. \A k \in DOMAIN room : readBy(mirrors[k], joins) = q
  BY <1>6, <1>23 DEF WireInv, MirrorsSame
<1>25. readBy(readBy(readBy(EmptyRoom, joins), answer), list) = q
  <2>1. PICK alone : alone = [k \in {n} |-> q[n]]
    OBVIOUS
  <2>2. q[n] = new
    BY <1>6, <1>7, <1>11 DEF chateeJoined, chateeExists
  <2>3. chateeJoined(EmptyRoom, n, new) = alone
    BY <2>1, <2>2 DEF chateeJoined, chateeExists, EmptyRoom
  <2>4. chateeJoined(alone, n, new) = alone
    BY <2>1 DEF chateeJoined, chateeExists
  <2>5. roomAfter(alone, list) = q
    <3>1. n \in DOMAIN q
      BY <1>11
    <3> QED
      BY <1>11, <1>14, <2>1, <3>1, MirrorListed
  <2> QED
    BY <1>23, <2>3, <2>4, <2>5
<1>26. MirrorsSame'
  <2>1. \A k \in DOMAIN q :
          (IF chateeExists(room, k) THEN readBy(mirrors[k], joins)
           ELSE readBy(readBy(readBy(EmptyRoom, joins), answer), list)) = q
    BY <1>24, <1>25 DEF chateeExists
  <2> QED
    BY <1>21, <2>1 DEF MirrorsSame
<1> QED
  BY <1>1, <1>7, <1>11, <1>12, <1>21, <1>22, <1>26 DEF WireInv, MotdHeld


\* The room is empty at first, and stays what WireInv says.
LEMMA WireInitially ==
  ASSUME Init
  PROVE  WireInv
<1>1. IsRoom(EmptyRoom) /\ DOMAIN EmptyRoom = {}
  BY DEF IsRoom, EmptyRoom
<1>2. RoomCounted
  <2>1. IsFiniteSet({}) /\ Cardinality({}) = 0
    BY FS_EmptySet
  <2> QED
    BY <1>1, <2>1, IdAssumption DEF Init, RoomCounted
<1>3. MirrorsSame
  BY <1>1 DEF Init, MirrorsSame, EmptyRoom
<1>4. MotdHeld /\ ReceivedAsSent
  BY DEF Init, MotdHeld, ReceivedAsSent
<1> QED
  BY <1>1, <1>2, <1>3, <1>4 DEF Init, WireInv

\* Every step keeps the invariant.
LEMMA WireSteps ==
  ASSUME FitsWire, WireInv, [Next]_vars
  PROVE  WireInv'
<1>1. CASE \E n \in Names : join(exchange(UserJoinRequest(n), {}))
  BY <1>1, JoinKeeps
<1>2. CASE \E n \in DOMAIN room : leave(n)
  BY <1>2, LeaveKeeps
<1>3. CASE \E m \in commands : command(exchange(m, {}))
  BY <1>3, CommandKeeps
<1>4. CASE \E n \in DOMAIN room : \E m \in presencesOf(n) : updatePresence(n, exchange(m, {}))
  BY <1>4, PresenceKeeps
<1>5. CASE \E n \in DOMAIN room : \E m \in linesOf(n) : sendMessage(n, exchange(m, {}))
  BY <1>5, SendKeeps
<1>6. CASE UNCHANGED vars
  BY <1>6 DEF vars, WireInv, IsRoom, RoomCounted, MotdHeld, MirrorsSame, ReceivedAsSent
<1> QED
  BY <1>1, <1>2, <1>3, <1>4, <1>5, <1>6 DEF Next

\* What the members show is what the server's room shows.
LEMMA SameShown ==
  ASSUME WireInv
  PROVE  MirrorsFollow
BY DEF WireInv, MirrorsSame, MirrorsFollow

\* Messages that fit are received as they were sent, after one hop and after
\* two: every serialize, toStdString and getMessage of the code in between
\* gives back what went in, even where the size of the whole does not survive.
THEOREM MessagesArrive == FitsWire => (Spec => []ReceivedAsSent)
<1> SUFFICES ASSUME FitsWire
             PROVE  Spec => []ReceivedAsSent
  OBVIOUS
<1>1. Init => WireInv
  BY WireInitially
<1>2. WireInv /\ [Next]_vars => WireInv'
  BY WireSteps
<1>3. WireInv => ReceivedAsSent
  BY DEF WireInv
<1> QED
  BY <1>1, <1>2, <1>3, PTL DEF Spec

\* So the mirror of every member shows the room the server has
\* (ChatClient::dispatchNetworkMessage and its handlers).
THEOREM MirrorsAgree == FitsWire => (Spec => []MirrorsFollow)
<1> SUFFICES ASSUME FitsWire
             PROVE  Spec => []MirrorsFollow
  OBVIOUS
<1>1. Init => WireInv
  BY WireInitially
<1>2. WireInv /\ [Next]_vars => WireInv'
  BY WireSteps
<1>3. WireInv => MirrorsFollow
  BY SameShown
<1> QED
  BY <1>1, <1>2, <1>3, PTL DEF Spec
=============================================================================
