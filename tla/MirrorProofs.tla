---------------------------- MODULE MirrorProofs ----------------------------
(***************************************************************************)
(* What the other proofs need to know of recursion: induction over sets of *)
(* numbers, the elements of a set in a sequence, and what a client knows   *)
(* after it has read a queue of messages, for queues of every length.      *)
(***************************************************************************)
EXTENDS Mirror, SequencesExt, FiniteSetTheorems, TLAPS

-----------------------------------------------------------------------------
(* Induction, from the pigeonhole principle *)

\* A set that holds 0 and the successor of each number in it holds them all:
\* otherwise the successor would map its numbers up to a missing one into
\* those but 0, without two of them meeting.
LEMMA SetInduction ==
  ASSUME NEW S, 0 \in S, \A n \in Nat : n \in S => n + 1 \in S
  PROVE  \A n \in Nat : n \in S
<1> SUFFICES ASSUME NEW n \in Nat, n \notin S
             PROVE  FALSE
  OBVIOUS
<1> DEFINE A == {i \in 0 .. n : i \in S}
           f == [i \in A |-> i + 1]
<1>1. IsFiniteSet(A)
  <2>1. IsFiniteSet(0 .. n)
    BY FS_Interval
  <2> QED
    BY <2>1, FS_Subset
<1>2. IsFiniteSet(A \ {0}) /\ Cardinality(A \ {0}) < Cardinality(A)
  <2>1. 0 \in A
    OBVIOUS
  <2>2. Cardinality(A) \in Nat /\ Cardinality(A \ {0}) = Cardinality(A) - 1
    BY <1>1, <2>1, FS_RemoveElement, FS_CardinalityType
  <2> QED
    BY <1>1, <2>2, FS_RemoveElement
<1>3. f \in [A -> A \ {0}]
  <2> SUFFICES ASSUME NEW i \in A
               PROVE  i + 1 \in A \ {0}
    OBVIOUS
  <2>1. i # n /\ i \in 0 .. n /\ i \in Nat
    OBVIOUS
  <2>2. i + 1 \in 0 .. n /\ i + 1 \in S /\ i + 1 # 0
    BY <2>1
  <2> QED
    BY <2>2
<1> HIDE DEF A, f
<1>4. \E x, y \in A : x # y /\ f[x] = f[y]
  BY <1>1, <1>2, <1>3, FS_PigeonHole
<1>5. \A x, y \in A : f[x] = f[y] => x = y
  BY DEF A, f
<1> QED
  BY <1>4, <1>5

-----------------------------------------------------------------------------
(* Listing a set *)

\* SetToSeq lists a finite set, every element once.
LEMMA SeqOfSet ==
  ASSUME NEW S, IsFiniteSet(S)
  PROVE  /\ SetToSeq(S) \in Seq(S) /\ Len(SetToSeq(S)) = Cardinality(S)
         /\ \A x \in S : \E i \in DOMAIN SetToSeq(S) : SetToSeq(S)[i] = x
         /\ \A i, j \in DOMAIN SetToSeq(S) : SetToSeq(S)[i] = SetToSeq(S)[j] => i = j
<1> DEFINE n == Cardinality(S)
           f == SetToSeq(S)
<1>1. n \in Nat /\ ExistsBijection(1 .. n, S)
  BY FS_CardinalityType
<1>2. \E g \in [1 .. n -> S] : IsInjective(g)
  BY <1>1 DEF ExistsBijection, Bijection, Injection
<1>3. f \in [1 .. n -> S] /\ IsInjective(f)
  BY <1>2 DEF SetToSeq
<1> HIDE DEF f
<1>4. IsFiniteSet(1 .. n) /\ Cardinality(1 .. n) = n
  BY <1>1, FS_Interval
<1>5. f \in Surjection(1 .. n, S)
  <2>1. f \in Injection(1 .. n, S)
    BY <1>3 DEF Injection
  <2> QED
    BY <1>4, <2>1, FS_Injection
<1>6. \A x \in S : \E i \in 1 .. n : f[i] = x
  BY <1>5 DEF Surjection
<1>7. Len(f) = n
  BY <1>1, <1>3
<1> QED
  BY <1>1, <1>3, <1>6, <1>7 DEF IsInjective, f

-----------------------------------------------------------------------------
(* Reading a queue *)

\* K is what a client knows at each place of the queue, when it starts with k.
Reads(K, k, queue) ==
  /\ K = [i \in 0 .. Len(queue) |-> K[i]]
  /\ K[0] = k
  /\ \A i \in 1 .. Len(queue) : K[i] = reading(K[i - 1], queue[i])

\* There is such a K for every queue of length n.
HasReading(n, S, k) == \A queue \in Seq(S) : Len(queue) = n => \E K : Reads(K, k, queue)

\* There is one for every queue.
LEMMA ReadingExists ==
  ASSUME NEW S, NEW k, NEW queue \in Seq(S)
  PROVE  \E K : Reads(K, k, queue)
<1> DEFINE N == {n \in Nat : HasReading(n, S, k)}
<1>1. 0 \in N
  <2> SUFFICES ASSUME NEW q \in Seq(S), Len(q) = 0
               PROVE  \E K : Reads(K, k, q)
    BY DEF HasReading
  <2>1. Reads([i \in 0 .. 0 |-> k], k, q)
    BY DEF Reads
  <2> QED
    BY <2>1
<1>2. ASSUME NEW n \in Nat, n \in N
      PROVE  n + 1 \in N
  <2> SUFFICES ASSUME NEW q \in Seq(S), Len(q) = n + 1
               PROVE  \E K : Reads(K, k, q)
    BY DEF HasReading
  <2> DEFINE front == SubSeq(q, 1, n)
  <2>1. /\ front \in Seq(S) /\ Len(front) = n
        /\ \A i \in 1 .. n : front[i] = q[i]
    BY <1>2
  <2> HIDE DEF front
  <2>2. PICK K : Reads(K, k, front)
    BY <1>2, <2>1 DEF HasReading
  <2> DEFINE J == [i \in 0 .. n + 1 |-> IF i = n + 1 THEN reading(K[n], q[n + 1]) ELSE K[i]]
  <2>3. K[0] = k /\ \A i \in 1 .. n : K[i] = reading(K[i - 1], q[i])
    BY <2>1, <2>2 DEF Reads
  <2>4. Reads(J, k, q)
    <3>1. J = [i \in 0 .. Len(q) |-> J[i]]
      OBVIOUS
    <3>2. J[0] = k
      BY <2>3
    <3>3. ASSUME NEW i \in 1 .. Len(q)
          PROVE  J[i] = reading(J[i - 1], q[i])
      <4>1. CASE i = n + 1
        BY <4>1
      <4>2. CASE i # n + 1
        <5>1. i \in 1 .. n /\ i - 1 \in 0 .. n + 1 /\ i - 1 # n + 1 /\ i \in 0 .. n + 1
          BY <4>2
        <5> QED
          BY <2>3, <4>2, <5>1
      <4> QED
        BY <4>1, <4>2
    <3> HIDE DEF J
    <3> QED
      BY <3>1, <3>2, <3>3 DEF Reads
  <2> QED
    BY <2>4
<1>3. \A n \in Nat : n \in N
  <2> HIDE DEF N
  <2> QED
    BY <1>1, <1>2, SetInduction
<1>4. Len(queue) \in N
  BY <1>3
<1> QED
  BY <1>4 DEF HasReading

\* It is what known says.
LEMMA KnownReads ==
  ASSUME NEW S, NEW k, NEW queue \in Seq(S)
  PROVE  Reads(known(k, queue), k, queue)
<1>1. PICK K : Reads(K, k, queue)
  BY ReadingExists
<1> DEFINE R(J) == J = [i \in 0 .. Len(queue) |-> IF i = 0 THEN k ELSE reading(J[i - 1], queue[i])]
<1>2. R(K)
  <2>1. Len(queue) \in Nat /\ \A i \in 0 .. Len(queue) : i = 0 \/ i \in 1 .. Len(queue)
    OBVIOUS
  <2>2. \A i \in 0 .. Len(queue) :
          K[i] = IF i = 0 THEN k ELSE reading(K[i - 1], queue[i])
    BY <1>1, <2>1 DEF Reads
  <2> QED
    BY <1>1, <2>2 DEF Reads
<1>3. known(k, queue) = CHOOSE J : R(J)
  BY DEF known
<1>4. R(known(k, queue))
  BY <1>2, <1>3
<1> HIDE DEF R
<1>5. ASSUME NEW J, R(J) PROVE Reads(J, k, queue)
  <2>1. Len(queue) \in Nat
    OBVIOUS
  <2> QED
  BY <1>5, <2>1 DEF R, Reads
<1> QED
  BY <1>4, <1>5

\* Two queues that begin with the same messages are read alike.
LEMMA SameReading ==
  ASSUME NEW S, NEW k, NEW p \in Seq(S), NEW q \in Seq(S), NEW n \in Nat,
         n <= Len(p), n <= Len(q), \A i \in 1 .. n : p[i] = q[i],
         NEW J, Reads(J, k, p), NEW K, Reads(K, k, q)
  PROVE  \A i \in 0 .. n : J[i] = K[i]
<1> DEFINE N == {i \in Nat : i <= n => J[i] = K[i]}
<1>1. 0 \in N
  BY DEF Reads
<1>2. ASSUME NEW i \in Nat, i \in N, i + 1 <= n
      PROVE  J[i + 1] = K[i + 1]
  <2>1. i + 1 \in 1 .. n /\ i + 1 \in 1 .. Len(p) /\ i + 1 \in 1 .. Len(q) /\ (i + 1) - 1 = i
    BY <1>2
  <2>2. J[i + 1] = reading(J[i], p[i + 1]) /\ K[i + 1] = reading(K[i], q[i + 1])
    BY <2>1 DEF Reads
  <2> QED
    BY <1>2, <2>1, <2>2
<1>3. \A i \in Nat : i \in N
  <2>1. \A i \in Nat : i \in N => i + 1 \in N
    BY <1>2
  <2> HIDE DEF N
  <2> QED
    BY <1>1, <2>1, SetInduction
<1> QED
  BY <1>3

\* A message at the end of a queue changes what is known after it, and nothing
\* before.
LEMMA KnownAppend ==
  ASSUME NEW S, NEW k, NEW queue \in Seq(S), NEW m \in S
  PROVE  /\ \A i \in 0 .. Len(queue) : known(k, Append(queue, m))[i] = known(k, queue)[i]
         /\ known(k, Append(queue, m))[Len(queue) + 1]
              = reading(known(k, queue)[Len(queue)], m)
<1> DEFINE long == Append(queue, m)
           n == Len(queue)
<1>1. /\ long \in Seq(S) /\ Len(long) = n + 1 /\ long[n + 1] = m
      /\ n \in Nat /\ \A i \in 1 .. n : long[i] = queue[i]
  OBVIOUS
<1> HIDE DEF long
<1>2. Reads(known(k, queue), k, queue) /\ Reads(known(k, long), k, long)
  BY <1>1, KnownReads
<1>3. \A i \in 0 .. n : known(k, long)[i] = known(k, queue)[i]
  <2>1. n <= Len(long) /\ n <= Len(queue)
    BY <1>1
  <2> HIDE DEF n
  <2> QED
    BY <1>1, <1>2, <2>1, SameReading
<1>4. known(k, long)[n + 1] = reading(known(k, long)[n], m)
  <2>1. n + 1 \in 1 .. Len(long) /\ (n + 1) - 1 = n
    BY <1>1
  <2> QED
    BY <1>1, <1>2, <2>1 DEF Reads
<1> QED
  BY <1>1, <1>3, <1>4 DEF long

\* To read the first message is to be one place further in the queue.
LEMMA KnownTail ==
  ASSUME NEW S, NEW k, NEW queue \in Seq(S), queue # << >>
  PROVE  \A i \in 0 .. Len(queue) - 1 :
           known(reading(k, Head(queue)), Tail(queue))[i] = known(k, queue)[i + 1]
<1> DEFINE rest == Tail(queue)
           first == reading(k, Head(queue))
           n == Len(queue) - 1
           K == known(k, queue)
           J == [i \in 0 .. n |-> K[i + 1]]
<1>1. /\ rest \in Seq(S) /\ Len(rest) = n /\ n \in Nat /\ Len(queue) = n + 1
      /\ Head(queue) = queue[1] /\ \A i \in 1 .. n : rest[i] = queue[i + 1]
  OBVIOUS
<1>2. Reads(K, k, queue)
  BY KnownReads
<1> HIDE DEF rest, n, K
<1>3. Reads(J, first, rest)
  <2>1. J = [i \in 0 .. Len(rest) |-> J[i]]
    BY <1>1
  <2>2. J[0] = first
    <3>1. 1 \in 1 .. Len(queue)
      BY <1>1
    <3>2. 0 \in 0 .. n /\ 0 + 1 = 1
      BY <1>1
    <3>3. J[0] = K[1]
      BY <3>2
    <3>4. K[1] = reading(K[0], queue[1]) /\ K[0] = k
      BY <1>2, <3>1 DEF Reads
    <3> QED
      BY <1>1, <3>3, <3>4
  <2>3. ASSUME NEW i \in 1 .. Len(rest)
        PROVE  J[i] = reading(J[i - 1], rest[i])
    <3>1. i + 1 \in 1 .. Len(queue) /\ (i + 1) - 1 = i /\ (i - 1) + 1 = i /\ i \in 1 .. n
          /\ i \in 0 .. n /\ i - 1 \in 0 .. n
      BY <1>1
    <3>2. K[i + 1] = reading(K[i], queue[i + 1])
      BY <1>2, <3>1 DEF Reads
    <3> QED
      BY <1>1, <3>1, <3>2
  <2> HIDE DEF J, first
  <2> QED
    BY <2>1, <2>2, <2>3 DEF Reads
<1>4. Reads(known(first, rest), first, rest)
  BY <1>1, KnownReads
<1>5. \A i \in 0 .. n : known(first, rest)[i] = J[i]
  <2> HIDE DEF J, first
  <2>1. rest \in Seq(S) /\ n \in Nat /\ n <= Len(rest)
    BY <1>1
  <2>2. \A i \in 1 .. n : rest[i] = rest[i]
    OBVIOUS
  <2> QED
    BY <1>3, <1>4, <2>1, <2>2, SameReading
<1>6. \A i \in 0 .. n : J[i] = K[i + 1]
  OBVIOUS
<1> QED
  BY <1>5, <1>6 DEF n, rest, K

\* Nothing read, nothing new.
LEMMA KnownFirst ==
  ASSUME NEW S, NEW k, NEW queue \in Seq(S)
  PROVE  known(k, queue)[0] = k
BY KnownReads DEF Reads
=============================================================================
