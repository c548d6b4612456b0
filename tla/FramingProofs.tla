--------------------------- MODULE FramingProofs ---------------------------
(***************************************************************************)
(* As long as every block fits the size field, the framing of              *)
(* TcpChatConnection delivers every message unchanged, once and in order,  *)
(* however TCP cuts the stream.                                            *)
(*                                                                         *)
(* The invariant says where each block lies in the bytes that are not read *)
(* yet: the first of them may have lost its size field.                    *)
(***************************************************************************)
EXTENDS TcpFraming, Integers, SequenceTheorems, TLAPS

\* No message is too long for the size field.
Fits == \A length \in Lengths : Payload(length) < Sizes

stream == buffer \o wire

\* The message whose block is being read.
first == Len(delivered) + 1

\* How much of its block has been read.
consumed == IF sizeKnown THEN SizeField ELSE 0

blockLength(length) == SizeField + Payload(length)

\* Block i, complete or without its first bytes, starts at place at[i] of the
\* bytes, and each ends where the next one starts.
Places(at, from, messages, bytes) ==
  /\ at \in [from .. Len(messages) + 1 -> Int]
  /\ at[Len(messages) + 1] = Len(bytes) + 1
  /\ \A i \in from .. Len(messages) : at[i + 1] = at[i] + blockLength(messages[i])
  /\ \A i, j \in from .. Len(messages) + 1 : i <= j => at[i] <= at[j]

\* The bytes at the places of a block are the block's.
Holds(at, from, messages, bytes) ==
  \A i \in from .. Len(messages), p \in Nat \ {0} :
    p <= blockLength(messages[i]) /\ at[i] + p >= 2 => bytes[at[i] + p - 1] = <<i, p>>

\* The bytes without the first n.
Cut(bytes, n, rest) ==
  /\ n \in Nat /\ Len(rest) = Len(bytes) - n
  /\ \A i \in 1 .. Len(rest) : rest[i] = bytes[i + n]

\* The places from number `from` to number `to`, after n bytes before
\* them are gone.
MovedBack(at, n, from, to, moved) ==
  /\ moved \in [from .. to -> Int]
  /\ \A i \in from .. to : moved[i] = at[i] - n

\* What is delivered is the beginning of what was sent.
DeliveredSent ==
  /\ Len(delivered) <= Len(sent)
  /\ \A i \in 1 .. Len(delivered) : delivered[i] = sent[i]

\* A size that has been read is that of the first message not delivered.
SizeRight ==
  sizeKnown => Len(delivered) < Len(sent) /\ blockSize = Payload(sent[first])

\* Every message that is not delivered has its block in the bytes.
Blocks ==
  \E at : /\ Places(at, first, sent, stream)
          /\ Holds(at, first, sent, stream)
          /\ at[first] = 1 - consumed

FramingInv == TypeOK /\ DeliveredSent /\ SizeRight /\ Blocks

-----------------------------------------------------------------------------
(* Bytes *)

\* Cutting bytes and joining the pieces elsewhere changes nothing.
LEMMA Moved ==
  ASSUME NEW s \in Seq(Byte), NEW t \in Seq(Byte), NEW n \in 1 .. Len(t)
  PROVE  /\ s \o SubSeq(t, 1, n) \in Seq(Byte) /\ drop(t, n) \in Seq(Byte)
         /\ (s \o SubSeq(t, 1, n)) \o drop(t, n) = s \o t
<1> DEFINE front == SubSeq(t, 1, n)
           rest == SubSeq(t, n + 1, Len(t))
<1>1. front \in Seq(Byte) /\ rest \in Seq(Byte)
  BY SubSeqProperties
<1>2. front \o rest = t
  BY ConcatAdjacentSubSeq, SubSeqFull
<1>3. drop(t, n) = rest
  BY DEF drop
<1> HIDE DEF front, rest
<1>4. s \o front \in Seq(Byte)
  BY <1>1, ConcatProperties, SMTT(30)
<1>5. (s \o front) \o rest = s \o (front \o rest)
  BY <1>1, ConcatAssociative
<1> QED
  BY <1>1, <1>2, <1>3, <1>4, <1>5 DEF front

\* What is dropped from the first of two is dropped from both.
LEMMA Dropped ==
  ASSUME NEW s \in Seq(Byte), NEW t \in Seq(Byte), NEW n \in 0 .. Len(s)
  PROVE  /\ drop(s, n) \in Seq(Byte)
         /\ drop(s, n) \o t \in Seq(Byte)
         /\ Cut(s \o t, n, drop(s, n) \o t)
<1>1. /\ drop(s, n) \in Seq(Byte) /\ Len(drop(s, n)) = Len(s) - n
      /\ \A i \in 1 .. Len(s) - n : drop(s, n)[i] = s[i + n]
  BY DEF drop
<1> DEFINE rest == drop(s, n)
<1> HIDE DEF rest
<1>2. /\ rest \in Seq(Byte) /\ Len(rest) = Len(s) - n
      /\ \A i \in 1 .. Len(s) - n : rest[i] = s[i + n]
  BY <1>1 DEF rest
<1>3. /\ rest \o t \in Seq(Byte) /\ Len(rest \o t) = Len(rest) + Len(t)
      /\ \A i \in 1 .. Len(rest) + Len(t) :
           (rest \o t)[i] = IF i <= Len(rest) THEN rest[i] ELSE t[i - Len(rest)]
  BY <1>2, ConcatProperties
<1>4. /\ Len(s \o t) = Len(s) + Len(t)
      /\ \A i \in 1 .. Len(s) + Len(t) :
           (s \o t)[i] = IF i <= Len(s) THEN s[i] ELSE t[i - Len(s)]
  BY ConcatProperties
<1>5. Len(s) \in Nat /\ Len(t) \in Nat
  OBVIOUS
<1>6. ASSUME NEW i \in 1 .. Len(s \o t) - n
      PROVE  (rest \o t)[i] = (s \o t)[i + n]
  <2>1. i \in 1 .. Len(rest) + Len(t) /\ i + n \in 1 .. Len(s) + Len(t)
    BY <1>2, <1>4, <1>5, <1>6
  <2>2. CASE i <= Len(rest)
    <3>1. i \in 1 .. Len(s) - n /\ i + n <= Len(s)
      BY <1>2, <1>5, <2>1, <2>2
    <3> QED
      BY <1>2, <1>3, <1>4, <2>1, <2>2, <3>1
  <2>3. CASE ~(i <= Len(rest))
    <3>1. ~(i + n <= Len(s)) /\ (i + n) - Len(s) = i - Len(rest)
      BY <1>2, <1>5, <2>1, <2>3
    <3> QED
      BY <1>3, <1>4, <2>1, <2>3, <3>1
  <2> QED
    BY <2>2, <2>3
<1>7. /\ Len(rest \o t) = Len(s \o t) - n /\ n \in Nat
      /\ \A i \in 1 .. Len(rest \o t) : (rest \o t)[i] = (s \o t)[i + n]
  <2>1. Len(rest \o t) = Len(s \o t) - n /\ n \in Nat
    BY <1>2, <1>3, <1>4, <1>5
  <2> QED
    BY <1>6, <2>1
<1>8. Cut(s \o t, n, rest \o t)
  BY <1>7 DEF Cut
<1> QED
  BY <1>2, <1>3, <1>8 DEF rest

-----------------------------------------------------------------------------
(* The places of the blocks *)

\* A place that is neither before the first byte nor behind the last.
LEMMA Within ==
  ASSUME NEW a \in Int, NEW p \in Int, NEW l \in Int, a + p >= 2, a + p - 1 <= l
  PROVE  a + p - 1 \in 1 .. l
OBVIOUS

\* The length of a block is a number.
LEMMA BlockLength ==
  ASSUME NEW length \in Nat
  PROVE  /\ Payload(length) \in Nat \ {0}
         /\ blockLength(length) = 2 + Payload(length) /\ blockLength(length) \in Nat
BY DEF blockLength, Payload, SizeField, LengthField

\* A place moves back with the end.
LEMMA Back ==
  ASSUME NEW a \in Int, NEW p \in Int, NEW l \in Int, NEW n \in Int, a + p - 1 <= l,
         NEW m, m = a - n, NEW k, k = l - n
  PROVE  m \in Int /\ m + p - 1 <= k
OBVIOUS

\* A block is bytes.
LEMMA BlockBytes ==
  ASSUME NEW i \in Nat, NEW length \in Nat
  PROVE  /\ block(i, length) \in Seq(Byte) /\ Len(block(i, length)) = blockLength(length)
         /\ \A p \in 1 .. blockLength(length) : block(i, length)[p] = <<i, p>>
<1> DEFINE n == blockLength(length)
           bytes == [k \in 1 .. n |-> <<i, k>>]
<1>1. n \in Nat
  BY BlockLength
<1>2. block(i, length) = bytes
  BY DEF block, blockLength
<1> HIDE DEF n
<1>3. bytes \in [1 .. n -> Byte] /\ \A p \in 1 .. n : bytes[p] = <<i, p>>
  BY <1>1 DEF Byte
<1> HIDE DEF bytes
<1>4. bytes \in Seq(Byte) /\ Len(bytes) = n
  <2>1. bytes \in Seq(Byte)
    BY <1>1, <1>3
  <2> QED
    BY <1>1, <1>3, <2>1, LenProperties
<1> QED
  BY <1>2, <1>3, <1>4 DEF n

\* Dropped bytes move the places of what is left.
LEMMA Shifted ==
  ASSUME NEW messages \in Seq(Nat), NEW from \in Nat \ {0},
         NEW later \in from .. Len(messages) + 1, NEW n \in Nat,
         NEW s \in Seq(Byte), NEW t \in Seq(Byte),
         Cut(s, n, t),
         NEW at, Places(at, from, messages, s), Holds(at, from, messages, s),
         NEW moved, MovedBack(at, n, later, Len(messages) + 1, moved)
  PROVE  Places(moved, later, messages, t) /\ Holds(moved, later, messages, t)
<1> DEFINE to == Len(messages)
<1>1. to \in Nat /\ later \in from .. to + 1
      /\ \A i \in from .. to : blockLength(messages[i]) \in Nat
  <2>1. to \in Nat /\ \A i \in from .. to : messages[i] \in Nat
    OBVIOUS
  <2> QED
    BY <2>1, BlockLength
<1>2. Len(s) \in Nat /\ Len(t) \in Nat /\ Len(t) = Len(s) - n
  <2>1. Len(s) \in Nat /\ Len(t) \in Nat
    OBVIOUS
  <2> QED
    BY <2>1 DEF Cut
<1>3. /\ at \in [from .. to + 1 -> Int] /\ at[to + 1] = Len(s) + 1
      /\ \A i \in from .. to : at[i + 1] = at[i] + blockLength(messages[i])
      /\ \A i, j \in from .. to + 1 : i <= j => at[i] <= at[j]
  BY DEF Places
<1>4. moved \in [later .. to + 1 -> Int] /\ \A i \in later .. to + 1 : moved[i] = at[i] - n
  BY DEF MovedBack
<1> HIDE DEF to
<1>5. /\ moved \in [later .. to + 1 -> Int] /\ moved[to + 1] = Len(t) + 1
      /\ \A i \in later .. to : moved[i + 1] = moved[i] + blockLength(messages[i])
      /\ \A i, j \in later .. to + 1 : i <= j => moved[i] <= moved[j]
  <2>1. \A i \in later .. to + 1 : i \in from .. to + 1 /\ at[i] \in Int /\ moved[i] = at[i] - n
    BY <1>1, <1>3, <1>4
  <2>2. moved \in [later .. to + 1 -> Int]
    BY <1>4
  <2>3. moved[to + 1] = Len(t) + 1
    <3>1. to + 1 \in later .. to + 1
      BY <1>1
    <3>2. moved[to + 1] = at[to + 1] - n /\ at[to + 1] = Len(s) + 1
      BY <1>3, <2>1, <3>1
    <3> QED
      BY <1>2, <3>2
  <2>4. ASSUME NEW i \in later .. to
        PROVE  moved[i + 1] = moved[i] + blockLength(messages[i])
    <3>1. i \in later .. to + 1 /\ i + 1 \in later .. to + 1 /\ i \in from .. to
      BY <1>1
    <3>2. at[i + 1] = at[i] + blockLength(messages[i]) /\ blockLength(messages[i]) \in Nat
      BY <1>1, <1>3, <3>1
    <3> QED
      BY <2>1, <3>1, <3>2
  <2>5. ASSUME NEW i \in later .. to + 1, NEW j \in later .. to + 1, i <= j
        PROVE  moved[i] <= moved[j]
    <3>1. at[i] <= at[j] /\ at[i] \in Int /\ at[j] \in Int
      BY <1>3, <2>1, <2>5
    <3>2. moved[i] = at[i] - n /\ moved[j] = at[j] - n
      BY <2>1
    <3> QED
      BY <3>1, <3>2
  <2> QED
    BY <2>2, <2>3, <2>4, <2>5
<1>6. ASSUME NEW i \in later .. to, NEW p \in Nat \ {0},
             p <= blockLength(messages[i]), moved[i] + p >= 2
      PROVE  t[moved[i] + p - 1] = <<i, p>>
  <2>1. at[i] \in Int /\ at[i] + p >= 2 /\ moved[i] = at[i] - n /\ i \in from .. to
    <3>1. i \in from .. to /\ i \in from .. to + 1 /\ i \in later .. to + 1
      BY <1>1
    <3>2. at[i] \in Int /\ moved[i] = at[i] - n
      BY <1>3, <1>4, <3>1
    <3> QED
      BY <1>6, <3>1, <3>2
  <2>2. s[at[i] + p - 1] = <<i, p>>
    BY <1>6, <2>1 DEF Holds, to
  <2>3. at[i] + p - 1 <= Len(s)
    <3>1. i + 1 \in from .. to + 1 /\ to + 1 \in from .. to + 1 /\ i + 1 <= to + 1
      BY <1>1, <2>1
    <3>2. /\ at[i + 1] = at[i] + blockLength(messages[i]) /\ at[i + 1] <= at[to + 1]
          /\ blockLength(messages[i]) \in Nat /\ at[to + 1] = Len(s) + 1
          /\ at[i + 1] \in Int /\ at[to + 1] \in Int
      BY <1>1, <1>3, <2>1, <3>1
    <3>3. at[i] \in Int /\ p \in Nat /\ p <= blockLength(messages[i]) /\ Len(s) \in Nat
      BY <1>2, <1>6, <2>1
    <3> QED
      BY <3>2, <3>3
  <2>4. moved[i] + p - 1 \in 1 .. Len(t)
    <3>1. /\ Len(s) \in Int /\ Len(t) = Len(s) - n /\ n \in Int /\ p \in Int /\ Len(t) \in Int
          /\ at[i] \in Int /\ moved[i] = at[i] - n /\ moved[i] + p >= 2
      BY <1>2, <1>6, <2>1
    <3>2. moved[i] \in Int /\ moved[i] + p - 1 <= Len(t)
      BY <2>3, <3>1, Back, SMTT(30)
    <3> QED
      BY <3>1, <3>2, Within
  <2>5. t[moved[i] + p - 1] = s[(moved[i] + p - 1) + n]
    BY <2>4 DEF Cut
  <2>6. (moved[i] + p - 1) + n = at[i] + p - 1
    <3>1. at[i] \in Int /\ moved[i] = at[i] - n /\ p \in Int /\ n \in Int
      BY <1>6, <2>1
    <3> QED
      BY <3>1
  <2> QED
    BY <2>2, <2>5, <2>6
<1> QED
  BY <1>5, <1>6 DEF Places, Holds, to

\* What TypeOK says in numbers.
LEMMA Numbers ==
  ASSUME TypeOK
  PROVE  /\ Len(sent) \in Nat /\ Len(delivered) \in Nat /\ first \in Nat \ {0}
         /\ sent \in Seq(Nat)
         /\ stream \in Seq(Byte) /\ Len(stream) \in Nat
<1>1. sent \in Seq(Nat)
  BY FramingAssumption, SeqMonotonic DEF TypeOK
<1> QED
  BY <1>1 DEF TypeOK, first, stream

\* A message that was sent has a length.
LEMMA SentLength ==
  ASSUME TypeOK, NEW i \in 1 .. Len(sent)
  PROVE  sent[i] \in Lengths /\ sent[i] \in Nat
<1>1. sent \in Seq(Lengths)
  BY DEF TypeOK
<1>2. sent[i] \in Lengths
  BY <1>1
<1> QED
  BY <1>2, FramingAssumption

\* A message waits for being read if any byte does, and the bytes that wait
\* begin where its block was left.
LEMMA HeadOfStream ==
  ASSUME FramingInv, buffer # << >>
  PROVE  first <= Len(sent) /\ buffer[1] = <<first, consumed + 1>>
<1>1. PICK at : /\ Places(at, first, sent, stream)
                /\ Holds(at, first, sent, stream)
                /\ at[first] = 1 - consumed
  BY DEF FramingInv, Blocks
<1>2. /\ Len(stream) >= 1 /\ Len(stream) \in Nat /\ buffer[1] = stream[1]
      /\ Len(sent) \in Nat /\ Len(delivered) \in Nat /\ first \in Nat \ {0}
  BY Numbers DEF FramingInv, TypeOK, stream
<1>3. consumed \in {0, 2}
  BY DEF consumed, SizeField
<1>4. first <= Len(sent)
  <2>1. first # Len(sent) + 1
    BY <1>1, <1>2, <1>3 DEF Places
  <2> QED
    BY <1>2, <2>1 DEF FramingInv, DeliveredSent, first
<1>5. sent[first] \in Nat
  BY <1>2, <1>4, Numbers DEF FramingInv
<1>6. Payload(sent[first]) \in Nat \ {0} /\ blockLength(sent[first]) = 2 + Payload(sent[first])
  BY <1>5, BlockLength
<1> DEFINE p == consumed + 1
<1>7. /\ p \in Nat \ {0} /\ p <= blockLength(sent[first])
      /\ at[first] + p >= 2 /\ at[first] + p - 1 = 1
  BY <1>1, <1>3, <1>6
<1> HIDE DEF p
<1>8. first \in first .. Len(sent)
  BY <1>2, <1>4
<1>9. stream[at[first] + p - 1] = <<first, p>>
  BY <1>1, <1>7, <1>8 DEF Holds
<1> QED
  BY <1>2, <1>4, <1>7, <1>9 DEF p

-----------------------------------------------------------------------------
(* The steps *)

\* Nothing is on its way at first.
LEMMA FramingInit == Init => FramingInv
<1> SUFFICES ASSUME Init PROVE FramingInv
  OBVIOUS
<1>1. TypeOK
  BY FramingAssumption DEF Init, TypeOK
<1>2. DeliveredSent /\ SizeRight
  BY DEF Init, DeliveredSent, SizeRight, sizeKnown
<1>3. Blocks
  <2> DEFINE at == [i \in 1 .. 1 |-> 1]
  <2>1. stream = << >> /\ first = 1 /\ sent = << >> /\ consumed = 0
    BY DEF Init, stream, first, consumed, sizeKnown
  <2>2. Places(at, 1, << >>, << >>) /\ Holds(at, 1, << >>, << >>) /\ at[1] = 1 - 0
    BY DEF Places, Holds
  <2> QED
    BY <2>1, <2>2 DEF Blocks
<1> QED
  BY <1>1, <1>2, <1>3 DEF FramingInv

\* A block that is written behind the others has its place there.
LEMMA Extended ==
  ASSUME NEW messages \in Seq(Nat), NEW from \in Nat \ {0}, from <= Len(messages) + 1,
         NEW length \in Nat, NEW s \in Seq(Byte),
         NEW at, Places(at, from, messages, s), Holds(at, from, messages, s)
  PROVE  \E added : /\ Places(added, from, Append(messages, length),
                              s \o block(Len(messages) + 1, length))
                    /\ Holds(added, from, Append(messages, length),
                             s \o block(Len(messages) + 1, length))
                    /\ added[from] = at[from]
<1> DEFINE n == Len(messages)
           more == Append(messages, length)
           new == block(n + 1, length)
           t == s \o new
           added == [i \in from .. n + 2 |-> IF i = n + 2 THEN Len(t) + 1 ELSE at[i]]
<1>1. /\ n \in Nat /\ from <= n + 1
      /\ more \in Seq(Nat) /\ Len(more) = n + 1 /\ more[n + 1] = length
      /\ \A i \in from .. n : more[i] = messages[i]
  OBVIOUS
<1>2. /\ new \in Seq(Byte) /\ Len(new) = blockLength(length)
      /\ \A p \in 1 .. blockLength(length) : new[p] = <<n + 1, p>>
  <2>1. n + 1 \in Nat
    BY <1>1
  <2> QED
    BY <2>1, BlockBytes
<1> HIDE DEF new
<1>3. /\ Len(s) \in Nat /\ Len(t) = Len(s) + blockLength(length)
      /\ blockLength(length) \in Nat
      /\ \A k \in 1 .. Len(s) : t[k] = s[k]
      /\ \A p \in 1 .. blockLength(length) : t[Len(s) + p] = <<n + 1, p>>
  <2>1. blockLength(length) \in Nat /\ Len(s) \in Nat
    <3>1. blockLength(length) \in Nat
      BY BlockLength
    <3>2. Len(s) \in Nat
      OBVIOUS
    <3> QED
      BY <3>1, <3>2
  <2>2. /\ Len(t) = Len(s) + Len(new)
        /\ \A k \in 1 .. Len(s) + Len(new) : t[k] = IF k <= Len(s) THEN s[k] ELSE new[k - Len(s)]
    BY <1>2, ConcatProperties
  <2>3. \A p \in 1 .. blockLength(length) :
          /\ Len(s) + p \in 1 .. Len(s) + Len(new) /\ ~(Len(s) + p <= Len(s))
          /\ (Len(s) + p) - Len(s) = p
    BY <1>2, <2>1
  <2> HIDE DEF t
  <2> QED
    BY <1>2, <2>1, <2>2, <2>3
<1>4. /\ at \in [from .. n + 1 -> Int] /\ at[n + 1] = Len(s) + 1
      /\ \A i \in from .. n : at[i + 1] = at[i] + blockLength(messages[i])
      /\ \A i, j \in from .. n + 1 : i <= j => at[i] <= at[j]
  BY DEF Places
<1> HIDE DEF n, t, more
<1>5. /\ added \in [from .. n + 2 -> Int] /\ added[n + 2] = Len(t) + 1
      /\ \A i \in from .. n + 1 : added[i] = at[i]
  BY <1>1, <1>3, <1>4
<1>6. Places(added, from, more, t)
  <2>1. ASSUME NEW i \in from .. n + 1
        PROVE  added[i + 1] = added[i] + blockLength(more[i])
    <3>1. /\ added[i] = at[i] /\ at[i] \in Int
          /\ i # n + 1 => i \in from .. n /\ i + 1 \in from .. n + 1
      <4>1. added[i] = at[i] /\ at[i] \in Int
        BY <1>4, <1>5
      <4>2. i # n + 1 => i \in from .. n /\ i + 1 \in from .. n + 1
        BY <1>1
      <4> QED
        BY <4>1, <4>2
    <3>2. CASE i = n + 1
      <4>1. /\ added[i + 1] = Len(t) + 1 /\ Len(t) = Len(s) + blockLength(length)
            /\ at[i] = Len(s) + 1 /\ more[i] = length
            /\ Len(s) \in Nat /\ blockLength(length) \in Nat
        <5>1. i + 1 = n + 2
          BY <1>1, <3>2
        <5> QED
          BY <1>1, <1>3, <1>4, <1>5, <3>2, <5>1
      <4> QED
        BY <3>1, <4>1
    <3>3. CASE i # n + 1
      <4>1. i \in from .. n /\ i + 1 \in from .. n + 1
        BY <3>1, <3>3
      <4>2. /\ added[i + 1] = at[i + 1] /\ more[i] = messages[i]
            /\ at[i + 1] = at[i] + blockLength(messages[i])
        BY <1>1, <1>4, <1>5, <4>1
      <4> QED
        BY <3>1, <4>2
    <3> QED
      BY <3>2, <3>3
  <2>2. ASSUME NEW i \in from .. n + 2, NEW j \in from .. n + 2, i <= j
        PROVE  added[i] <= added[j]
    <3>1. CASE j = n + 2
      <4>1. CASE i = n + 2
        <5>1. added[n + 2] = Len(t) + 1 /\ Len(t) \in Int
          BY <1>3, <1>5
        <5> QED
          BY <3>1, <4>1, <5>1
      <4>2. CASE i # n + 2
        <5>1. i \in from .. n + 1 /\ n + 1 \in from .. n + 1 /\ i <= n + 1
          BY <1>1, <4>2
        <5>2. added[i] = at[i] /\ at[i] \in Int /\ at[i] <= at[n + 1]
          BY <1>4, <1>5, <5>1
        <5>3. /\ added[j] = Len(t) + 1 /\ at[n + 1] = Len(s) + 1
              /\ Len(t) = Len(s) + blockLength(length)
              /\ Len(s) \in Nat /\ blockLength(length) \in Nat
          BY <1>3, <1>4, <1>5, <3>1
        <5> QED
          BY <5>2, <5>3
      <4> QED
        BY <4>1, <4>2
    <3>2. CASE j # n + 2
      BY <1>1, <1>4, <1>5, <2>2, <3>2
    <3> QED
      BY <3>1, <3>2
  <2>3. Len(more) + 1 = n + 2
    BY <1>1
  <2> HIDE DEF added
  <2> QED
    BY <1>1, <1>5, <2>1, <2>2, <2>3 DEF Places
<1>7. ASSUME NEW i \in from .. n + 1, NEW p \in Nat \ {0},
             p <= blockLength(more[i]), added[i] + p >= 2
      PROVE  t[added[i] + p - 1] = <<i, p>>
  <2>1. CASE i = n + 1
    <3>1. added[i] + p - 1 = Len(s) + p /\ p \in 1 .. blockLength(length)
      BY <1>1, <1>3, <1>4, <1>5, <1>7, <2>1
    <3> QED
      BY <1>3, <2>1, <3>1
  <2>2. CASE i # n + 1
    <3>1. i \in from .. n /\ added[i] = at[i] /\ more[i] = messages[i] /\ at[i] \in Int
      BY <1>1, <1>4, <1>5, <2>2
    <3>2. s[at[i] + p - 1] = <<i, p>>
      BY <1>7, <3>1 DEF Holds, n
    <3>3. at[i] + p - 1 \in 1 .. Len(s)
      <4>1. at[i + 1] = at[i] + blockLength(messages[i]) /\ at[i + 1] <= at[n + 1]
        BY <1>1, <1>4, <3>1
      <4>2. blockLength(messages[i]) \in Nat
        <5>1. messages[i] \in Nat
          BY <3>1 DEF n
        <5> QED
          BY <5>1, BlockLength
      <4>3. p <= blockLength(messages[i]) /\ at[i] + p >= 2
        BY <1>7, <3>1
      <4>4. /\ at[i + 1] \in Int /\ at[n + 1] \in Int /\ at[i] \in Int
            /\ at[n + 1] = Len(s) + 1 /\ Len(s) \in Nat
        BY <1>1, <1>3, <1>4, <3>1
      <4>5. at[i] + p - 1 <= Len(s)
        BY <4>1, <4>2, <4>3, <4>4
      <4> QED
        BY <4>3, <4>4, <4>5, Within, SMTT(30)
    <3> QED
      BY <1>3, <3>1, <3>2, <3>3
  <2> QED
    BY <2>1, <2>2
<1>8. Holds(added, from, more, t)
  BY <1>1, <1>7 DEF Holds
<1>9. added[from] = at[from]
  BY <1>1, <1>5 DEF n
<1> HIDE DEF added
<1> QED
  BY <1>6, <1>8, <1>9 DEF more, t, n, new

\* A message is written behind the others.
LEMMA SendStep ==
  ASSUME FramingInv, sendMessage
  PROVE  FramingInv'
<1>1. PICK length \in Lengths :
        sent' = Append(sent, length) /\ wire' = wire \o block(Len(sent) + 1, length)
  BY DEF sendMessage
<1>2. UNCHANGED <<delivered, buffer, blockSize, slot>>
  BY DEF sendMessage
<1> DEFINE new == block(Len(sent) + 1, length)
<1>3. /\ Len(sent) \in Nat /\ first \in Nat \ {0} /\ first <= Len(sent) + 1 /\ length \in Nat
      /\ sent \in Seq(Nat) /\ stream \in Seq(Byte) /\ wire \in Seq(Byte) /\ buffer \in Seq(Byte)
  BY Numbers, FramingAssumption DEF FramingInv, TypeOK, DeliveredSent, first
<1>4. new \in Seq(Byte)
  BY <1>3, BlockBytes
<1>5. Len(sent') = Len(sent) + 1 /\ \A i \in 1 .. Len(sent) : sent'[i] = sent[i]
  BY <1>1 DEF FramingInv, TypeOK
<1> HIDE DEF new
<1>6. TypeOK'
  <2>1. sent' \in Seq(Lengths)
    <3>1. sent \in Seq(Lengths)
      BY DEF FramingInv, TypeOK
    <3> QED
      BY <1>1, <3>1, AppendProperties
  <2>2. wire' \in Seq(Byte)
    BY <1>1, <1>3, <1>4, ConcatProperties DEF new
  <2> QED
    BY <1>2, <2>1, <2>2 DEF FramingInv, TypeOK
<1>7. DeliveredSent'
  <2>1. Len(delivered) \in Nat
    BY Numbers DEF FramingInv
  <2> QED
    BY <1>2, <1>3, <1>5, <2>1 DEF FramingInv, DeliveredSent
<1>8. SizeRight'
  BY <1>2, <1>3, <1>5 DEF FramingInv, SizeRight, sizeKnown, first, TypeOK
<1>9. Blocks'
  <2>1. PICK at : /\ Places(at, first, sent, stream)
                  /\ Holds(at, first, sent, stream)
                  /\ at[first] = 1 - consumed
    BY DEF FramingInv, Blocks
  <2>2. stream' = stream \o new
    <3>1. stream' = buffer \o (wire \o new)
      BY <1>1, <1>2 DEF stream, new
    <3> buffer \in Seq(Byte) /\ wire \in Seq(Byte) /\ new \in Seq(Byte)
      BY <1>3, <1>4
    <3>2. buffer \o (wire \o new) = (buffer \o wire) \o new
      BY ConcatAssociative
    <3> QED
      BY <3>1, <3>2 DEF stream
  <2>3. first' = first /\ consumed' = consumed
    BY <1>2 DEF first, consumed, sizeKnown
  <2>4. PICK added : /\ Places(added, first, sent', stream')
                     /\ Holds(added, first, sent', stream')
                     /\ added[first] = at[first]
    BY <1>1, <1>3, <2>1, <2>2, Extended DEF new
  <2> QED
    BY <2>1, <2>3, <2>4 DEF Blocks
<1> QED
  BY <1>6, <1>7, <1>8, <1>9 DEF FramingInv

\* Bytes that arrive only cross from the wire to the buffer.
LEMMA ArriveStep ==
  ASSUME FramingInv, Arrive
  PROVE  FramingInv'
<1>1. PICK n \in 1 .. Len(wire) :
        buffer' = buffer \o SubSeq(wire, 1, n) /\ wire' = drop(wire, n)
  BY DEF Arrive
<1>2. slot = "idle" /\ slot' = "loop" /\ UNCHANGED <<sent, delivered, blockSize>>
  BY DEF Arrive
<1>3. buffer' \in Seq(Byte) /\ wire' \in Seq(Byte) /\ stream' = stream
  <2>1. buffer \in Seq(Byte) /\ wire \in Seq(Byte)
    BY DEF FramingInv, TypeOK
  <2> QED
    BY <1>1, <2>1, Moved DEF stream
<1>4. (sizeKnown' <=> sizeKnown) /\ consumed' = consumed /\ first' = first
  BY <1>2 DEF sizeKnown, consumed, first
<1>5. TypeOK'
  BY <1>2, <1>3 DEF FramingInv, TypeOK
<1>6. DeliveredSent' /\ SizeRight'
  BY <1>2, <1>4 DEF FramingInv, DeliveredSent, SizeRight
<1>7. Blocks'
  BY <1>2, <1>3, <1>4 DEF FramingInv, Blocks
<1> QED
  BY <1>5, <1>6, <1>7 DEF FramingInv

\* What is left after the first bytes are read: the blocks from number `from`
\* on, the first of them at the place it is moved to.
LEMMA ReadOn ==
  ASSUME FramingInv, NEW n \in 0 .. Len(buffer), NEW later \in first .. Len(sent) + 1,
         NEW at, Places(at, first, sent, stream), Holds(at, first, sent, stream)
  PROVE  LET rest == drop(buffer, n) \o wire
         IN  /\ drop(buffer, n) \in Seq(Byte)
             /\ \E moved : /\ Places(moved, later, sent, rest)
                           /\ Holds(moved, later, sent, rest)
                           /\ moved[later] = at[later] - n
<1> DEFINE rest == drop(buffer, n) \o wire
<1>1. /\ drop(buffer, n) \in Seq(Byte)
      /\ rest \in Seq(Byte) /\ Cut(stream, n, rest)
  <2>1. buffer \in Seq(Byte) /\ wire \in Seq(Byte)
    BY DEF FramingInv, TypeOK
  <2> QED
    BY <2>1, Dropped DEF stream
<1>2. /\ sent \in Seq(Nat) /\ first \in Nat \ {0} /\ stream \in Seq(Byte)
      /\ Len(sent) \in Nat /\ n \in Nat
  BY Numbers DEF FramingInv, TypeOK
<1> HIDE DEF rest
<1> DEFINE moved == [i \in later .. Len(sent) + 1 |-> at[i] - n]
<1>3. MovedBack(at, n, later, Len(sent) + 1, moved) /\ moved[later] = at[later] - n
  <2>1. at \in [first .. Len(sent) + 1 -> Int]
    BY DEF Places
  <2>2. \A i \in later .. Len(sent) + 1 : i \in first .. Len(sent) + 1
    BY <1>2
  <2>3. later \in later .. Len(sent) + 1
    BY <1>2
  <2> QED
    BY <1>2, <2>1, <2>2, <2>3 DEF MovedBack
<1> HIDE DEF moved
<1>4. Places(moved, later, sent, rest) /\ Holds(moved, later, sent, rest)
  BY <1>1, <1>2, <1>3, Shifted
<1> QED
  BY <1>1, <1>3, <1>4 DEF rest

\* A size field is read where a block starts, and names the rest of the block.
LEMMA ReadSizeStep ==
  ASSUME Fits, FramingInv, ReadSize
  PROVE  FramingInv'
<1>1. /\ slot = "loop" /\ ~sizeKnown /\ Len(buffer) >= 2
      /\ blockSize' \in sizeAt(buffer) /\ buffer' = drop(buffer, 2) /\ slot' = "block"
      /\ UNCHANGED <<sent, delivered, wire>>
  BY DEF ReadSize, SizeField
<1>2. buffer \in Seq(Byte) /\ buffer # << >> /\ 2 \in 0 .. Len(buffer)
  BY <1>1 DEF FramingInv, TypeOK
<1>3. consumed = 0 /\ consumed' = 2 /\ sizeKnown' /\ first' = first
  BY <1>1 DEF consumed, sizeKnown, first, SizeField
<1>4. first <= Len(sent) /\ buffer[1] = <<first, 1>>
  BY <1>2, <1>3, HeadOfStream
<1>5. Len(sent) \in Nat /\ first \in Nat \ {0} /\ Len(delivered) \in Nat
  BY Numbers DEF FramingInv
<1>6. sent[first] \in Lengths /\ sent[first] \in Nat
  <2>1. first \in 1 .. Len(sent)
    BY <1>4, <1>5
  <2> QED
    BY <2>1, SentLength DEF FramingInv
<1>7. Payload(sent[first]) \in Nat /\ Payload(sent[first]) < Sizes /\ Sizes \in Nat \ {0}
  BY <1>6, BlockLength, FramingAssumption DEF Fits
<1>8. blockSize' = Payload(sent[first])
  <2>1. sizeAt(buffer) = {quint16(Payload(sent[first]))}
    BY <1>2, <1>4 DEF sizeAt, startsAt
  <2>2. quint16(Payload(sent[first])) = Payload(sent[first])
    BY <1>7 DEF quint16
  <2> QED
    BY <1>1, <2>1, <2>2
<1>9. PICK at : /\ Places(at, first, sent, stream)
                /\ Holds(at, first, sent, stream)
                /\ at[first] = 1
  BY <1>3 DEF FramingInv, Blocks
<1>10. first \in first .. Len(sent) + 1
  BY <1>4, <1>5
<1>11. /\ buffer' \in Seq(Byte)
       /\ \E moved : /\ Places(moved, first, sent, stream')
                     /\ Holds(moved, first, sent, stream')
                     /\ moved[first] = 1 - 2
  BY <1>1, <1>2, <1>9, <1>10, ReadOn DEF stream
<1>12. TypeOK'
  BY <1>1, <1>7, <1>8, <1>11 DEF FramingInv, TypeOK
<1>13. DeliveredSent' /\ SizeRight'
  <2>1. Len(delivered) < Len(sent)
    BY <1>4, <1>5 DEF first
  <2> QED
    BY <1>1, <1>3, <1>8, <2>1 DEF FramingInv, DeliveredSent, SizeRight
<1>14. Blocks'
  BY <1>1, <1>3, <1>11 DEF Blocks
<1> QED
  BY <1>12, <1>13, <1>14 DEF FramingInv

\* As many bytes as the size says are the string of the first message that is
\* not delivered, and nothing else.
LEMMA FullBlock ==
  ASSUME FramingInv, sizeKnown, Len(buffer) >= blockSize
  PROVE  /\ startsAt(buffer, SizeField + 1) /\ buffer[1][1] = first
         /\ Len(delivered) < Len(sent) /\ first \in 1 .. Len(sent)
         /\ sent[first] \in Lengths /\ Payload(sent[first]) \in 0 .. Len(buffer)
         /\ stringAt(buffer) = {[string |-> sent[first], taken |-> Payload(sent[first])]}
<1>1. Len(delivered) < Len(sent) /\ blockSize = Payload(sent[first])
  BY DEF FramingInv, SizeRight
<1>2. /\ Len(sent) \in Nat /\ Len(delivered) \in Nat /\ Len(buffer) \in Nat
      /\ buffer \in Seq(Byte)
  BY Numbers DEF FramingInv, TypeOK
<1>3. first \in 1 .. Len(sent)
  BY <1>1, <1>2 DEF first
<1>4. sent[first] \in Lengths /\ sent[first] \in Nat
  BY <1>3, SentLength DEF FramingInv
<1>5. Payload(sent[first]) \in Nat \ {0}
  BY <1>4, BlockLength
<1>6. Payload(sent[first]) \in 0 .. Len(buffer) /\ buffer # << >>
  BY <1>1, <1>2, <1>5
<1>7. buffer[1] = <<first, SizeField + 1>>
  <2>1. consumed = SizeField
    BY DEF consumed
  <2> QED
    BY <1>6, <2>1, HeadOfStream
<1>8. startsAt(buffer, SizeField + 1) /\ buffer[1][1] = first
  BY <1>6, <1>7 DEF startsAt
<1>9. stringAt(buffer) = {[string |-> sent[first], taken |-> Payload(sent[first])]}
  BY <1>2, <1>5, <1>6, <1>8 DEF stringAt
<1> QED
  BY <1>1, <1>3, <1>4, <1>6, <1>8, <1>9

\* What ReadBlock does to a complete block.
LEMMA BlockRead ==
  ASSUME FramingInv, ReadBlock
  PROVE  /\ sizeKnown /\ Len(buffer) >= blockSize
         /\ delivered' = Append(delivered, sent[first])
         /\ buffer' = drop(buffer, Payload(sent[first]))
         /\ blockSize' = 0 /\ slot' = "loop" /\ UNCHANGED <<sent, wire>>
<1>1. /\ sizeKnown /\ Len(buffer) >= blockSize
      /\ blockSize' = 0 /\ slot' = "loop" /\ UNCHANGED <<sent, wire>>
  BY DEF ReadBlock
<1>2. PICK read \in stringAt(buffer) :
        delivered' = Append(delivered, read.string) /\ buffer' = drop(buffer, read.taken)
  BY DEF ReadBlock
<1>3. read = [string |-> sent[first], taken |-> Payload(sent[first])]
  BY <1>1, <1>2, FullBlock
<1> QED
  BY <1>1, <1>2, <1>3

\* A block that is read leaves the next one at the head of the bytes.
LEMMA ReadBlockStep ==
  ASSUME FramingInv, ReadBlock
  PROVE  FramingInv'
<1>1. /\ sizeKnown /\ Len(buffer) >= blockSize
      /\ delivered' = Append(delivered, sent[first])
      /\ buffer' = drop(buffer, Payload(sent[first]))
      /\ blockSize' = 0 /\ slot' = "loop" /\ sent' = sent /\ wire' = wire
  BY BlockRead
<1>2. /\ Len(delivered) < Len(sent) /\ first \in 1 .. Len(sent)
      /\ sent[first] \in Lengths /\ Payload(sent[first]) \in 0 .. Len(buffer)
  BY <1>1, FullBlock
<1>3. /\ Len(sent) \in Nat /\ Len(delivered) \in Nat /\ first = Len(delivered) + 1
      /\ first \in Nat \ {0}
  BY Numbers DEF FramingInv, first
<1>4. delivered \in Seq(Lengths) /\ Payload(sent[first]) \in Nat
      /\ blockLength(sent[first]) = 2 + Payload(sent[first])
  BY <1>2, BlockLength, FramingAssumption DEF FramingInv, TypeOK
<1>5. /\ delivered' \in Seq(Lengths) /\ Len(delivered') = first /\ delivered'[first] = sent[first]
      /\ \A i \in 1 .. Len(delivered) : delivered'[i] = delivered[i]
  BY <1>1, <1>2, <1>3, <1>4
<1>6. ~sizeKnown' /\ consumed = 2 /\ consumed' = 0 /\ first' = first + 1
  BY <1>1, <1>3, <1>5 DEF sizeKnown, consumed, first, SizeField
<1>7. PICK at : /\ Places(at, first, sent, stream)
                /\ Holds(at, first, sent, stream)
                /\ at[first] = 1 - 2
  BY <1>6 DEF FramingInv, Blocks
<1>8. at[first + 1] - Payload(sent[first]) = 1
  <2>1. at[first + 1] = at[first] + blockLength(sent[first])
    BY <1>2, <1>3, <1>7 DEF Places
  <2> QED
    BY <1>4, <1>7, <2>1
<1>9. first + 1 \in first .. Len(sent) + 1
  BY <1>2, <1>3
<1>10. /\ buffer' \in Seq(Byte)
       /\ \E moved : /\ Places(moved, first + 1, sent, stream')
                     /\ Holds(moved, first + 1, sent, stream')
                     /\ moved[first + 1] = 1
  <2> DEFINE n == Payload(sent[first])
             rest == drop(buffer, n) \o wire
  <2>1. n \in 0 .. Len(buffer)
    BY <1>2
  <2>2. stream' = rest /\ buffer' = drop(buffer, n)
    BY <1>1 DEF stream
  <2> HIDE DEF n
  <2>3. /\ drop(buffer, n) \in Seq(Byte)
        /\ \E moved : /\ Places(moved, first + 1, sent, rest)
                      /\ Holds(moved, first + 1, sent, rest)
                      /\ moved[first + 1] = at[first + 1] - n
    BY <1>7, <1>9, <2>1, ReadOn
  <2> HIDE DEF rest
  <2> QED
    BY <1>8, <2>2, <2>3 DEF n
<1>11. TypeOK'
  BY <1>1, <1>5, <1>10, FramingAssumption DEF FramingInv, TypeOK
<1>12. DeliveredSent'
  <2>1. ASSUME NEW i \in 1 .. Len(delivered') PROVE delivered'[i] = sent[i]
    <3>1. i = first \/ i \in 1 .. Len(delivered)
      BY <1>3, <1>5
    <3> QED
      BY <1>5, <3>1 DEF FramingInv, DeliveredSent
  <2> QED
    BY <1>1, <1>2, <1>3, <1>5, <2>1 DEF DeliveredSent
<1>13. SizeRight'
  BY <1>6 DEF SizeRight
<1>14. Blocks'
  BY <1>1, <1>6, <1>10 DEF Blocks
<1> QED
  BY <1>11, <1>12, <1>13, <1>14 DEF FramingInv

\* The slot returns: a size that has been read is not 0, and waits.
LEMMA ReturnStep ==
  ASSUME FramingInv, Return
  PROVE  FramingInv'
<1>1. slot # "idle" /\ slot' = "idle" /\ UNCHANGED <<sent, delivered, wire, buffer, blockSize>>
  BY DEF Return
<1>2. sizeKnown => blockSize # 0
  <2> SUFFICES ASSUME sizeKnown PROVE blockSize # 0
    OBVIOUS
  <2>1. blockSize = Payload(sent[first]) /\ Len(delivered) < Len(sent)
    BY DEF FramingInv, SizeRight
  <2>2. first \in 1 .. Len(sent)
    BY <2>1, Numbers DEF FramingInv, first
  <2>3. sent[first] \in Nat
    BY <2>2, SentLength DEF FramingInv
  <2> QED
    BY <2>1, <2>3, BlockLength
<1>3. (sizeKnown' <=> sizeKnown) /\ consumed' = consumed /\ first' = first /\ stream' = stream
  BY <1>1, <1>2 DEF sizeKnown, consumed, first, stream
<1>4. TypeOK'
  BY <1>1 DEF FramingInv, TypeOK
<1>5. DeliveredSent' /\ SizeRight'
  BY <1>1, <1>3 DEF FramingInv, DeliveredSent, SizeRight
<1>6. Blocks'
  BY <1>1, <1>3 DEF FramingInv, Blocks
<1> QED
  BY <1>4, <1>5, <1>6 DEF FramingInv

\* Every step keeps the invariant.
LEMMA FramingStep ==
  ASSUME Fits, FramingInv, [Next]_vars
  PROVE  FramingInv'
<1>1. CASE sendMessage
  BY <1>1, SendStep
<1>2. CASE Arrive
  BY <1>2, ArriveStep
<1>3. CASE ReadSize
  BY <1>3, ReadSizeStep
<1>4. CASE ReadBlock
  BY <1>4, ReadBlockStep
<1>5. CASE Return
  BY <1>5, ReturnStep
<1>6. CASE UNCHANGED vars
  <2>1. /\ UNCHANGED <<sent, delivered, wire, buffer, blockSize, slot>>
        /\ first' = first /\ consumed' = consumed /\ stream' = stream
        /\ (sizeKnown' <=> sizeKnown)
    BY <1>6 DEF vars, first, consumed, stream, sizeKnown
  <2>2. TypeOK' /\ DeliveredSent' /\ SizeRight' /\ Blocks'
    BY <2>1 DEF FramingInv, TypeOK, DeliveredSent, SizeRight, Blocks
  <2> QED
    BY <2>2 DEF FramingInv
<1> QED
  BY <1>1, <1>2, <1>3, <1>4, <1>5, <1>6 DEF Next

-----------------------------------------------------------------------------
(* The theorems *)

\* The invariant holds as long as every message fits.
LEMMA FramingInvariant ==
  ASSUME Fits
  PROVE  Spec => []FramingInv
<1>1. FramingInv /\ [Next]_vars => FramingInv'
  BY FramingStep
<1> QED
  BY <1>1, FramingInit, PTL DEF Spec

\* No string that readyRead hands on is broken, and blockSize_ never overflows.
THEOREM FramingTypes ==
  ASSUME Fits
  PROVE  Spec => []TypeOK
<1>1. FramingInv => TypeOK
  BY DEF FramingInv
<1> QED
  BY <1>1, FramingInvariant, PTL

\* "Full message received": when readyRead reads a string, all of it is there.
THEOREM FramingComplete ==
  ASSUME Fits
  PROVE  Spec => []FullMessageReceived
<1>1. FramingInv => FullMessageReceived
  BY FullBlock DEF FullMessageReceived
<1> QED
  BY <1>1, FramingInvariant, PTL

\* sendMessage and readyRead together are a FIFO channel: what is handed on is
\* what was written, once and in order, however the stream is cut.
THEOREM FramingIsFifo ==
  ASSUME Fits
  PROVE  Spec => Channel!SafeSpec
<1>1. Init => Channel!Init
  BY DEF Init, Channel!Init
<1>2. FramingInv /\ [Next]_vars => [Channel!Next]_(Channel!channelVars)
  <2> SUFFICES ASSUME FramingInv, [Next]_vars
               PROVE  [Channel!Next]_(Channel!channelVars)
    OBVIOUS
  <2>1. CASE sendMessage
    BY <2>1 DEF sendMessage, Channel!Next, Channel!Send
  <2>2. CASE ReadBlock
    <3>1. /\ Len(delivered) < Len(sent)
          /\ delivered' = Append(delivered, sent[Len(delivered) + 1]) /\ sent' = sent
      BY <2>2, BlockRead, FullBlock DEF first
    <3> QED
      BY <3>1 DEF Channel!Next, Channel!Deliver
  <2>3. CASE Arrive \/ ReadSize \/ Return \/ UNCHANGED vars
    BY <2>3 DEF Arrive, ReadSize, Return, vars, Channel!channelVars
  <2> QED
    BY <2>1, <2>2, <2>3 DEF Next
<1> QED
  BY <1>1, <1>2, FramingInvariant, PTL DEF Spec, Channel!SafeSpec
=============================================================================
