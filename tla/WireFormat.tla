----------------------------- MODULE WireFormat -----------------------------
(***************************************************************************)
(* What the libraries do to the bytes of a message: protobuf writes and    *)
(* reads fields, and QString decodes and encodes UTF-8.                    *)
(*                                                                         *)
(* A protobuf message is a sequence of fields.  The value of a "varint"    *)
(* field is a number, that of a "bytes" field (a string, an embedded       *)
(* message) a sequence of bytes.                                           *)
(***************************************************************************)
EXTENDS Naturals, SequencesExt

Byte == 0 .. 255

number(k, n) == [number |-> k, wire |-> "varint", value |-> n]
bytes(k, s) == [number |-> k, wire |-> "bytes", value |-> s]

-----------------------------------------------------------------------------
(* Writing *)

\* Seven bits to the byte, the lowest first; all but the last byte are 128
\* or more.
varint(n) ==
  LET digits[k \in 0 .. n] == IF k < 128 THEN <<k>> ELSE <<128 + (k % 128)>> \o digits[k \div 128]
  IN digits[n]

encodedField(field) ==
  IF field.wire = "varint"
    THEN varint(8 * field.number) \o varint(field.value)
    ELSE varint(8 * field.number + 2) \o varint(Len(field.value)) \o field.value

SerializeAsString(fields) ==
  FlattenSeq([i \in DOMAIN fields |-> encodedField(fields[i])])

-----------------------------------------------------------------------------
(* Reading *)

\* Where the varint that starts at i ends, 0 if it is cut off.
varintEnd(s, i) ==
  LET ends == {j \in i .. Len(s) : s[j] < 128}
  IN IF ends = {} THEN 0 ELSE Min(ends)

varintValue(s, i, j) ==
  LET value[k \in i .. j] == (s[k] % 128) + (IF k = j THEN 0 ELSE 128 * value[k + 1])
  IN value[i]

\* At the end, or at a field that cannot be read or that is cut off.
ended(s, parsed) == parsed.next > Len(s) \/ ~parsed.complete

\* Reads one more field, if there is one.  A "bytes" field that is longer than
\* what is left gets what is left.  No field of the chat has a number above 15,
\* and none has one of the other wire types.
nextField(s, parsed) ==
  LET i == parsed.next
      k == s[i] \div 8
      j == varintEnd(s, i + 1)
      n == varintValue(s, i + 1, j)
      read(field, next) ==
        [fields |-> Append(parsed.fields, field), next |-> next, complete |-> next <= Len(s) + 1]
  IN IF ended(s, parsed)
       THEN parsed
     ELSE IF s[i] % 8 \notin {0, 2} \/ k \notin 1 .. 15 \/ j = 0
       THEN [parsed EXCEPT !.complete = FALSE]
     ELSE IF s[i] % 8 = 0
       THEN read(number(k, n), j + 1)
       ELSE read(bytes(k, SubSeq(s, j + 1, IF n <= Len(s) - j THEN j + n ELSE Len(s))), j + n + 1)

\* What there is after each field; every field has a byte at least.
fieldsOf(s) ==
  LET after[i \in 0 .. Len(s)] ==
        IF i = 0 THEN [fields |-> << >>, next |-> 1, complete |-> TRUE]
        ELSE nextField(s, after[i - 1])
  IN after[CHOOSE i \in 0 .. Len(s) : ended(s, after[i])]

\* What is left when the embedded messages among the fields are read as well:
\* the first that cannot be read to its end ends the reading of the whole.
throughEmbedded(parsed, embedded) ==
  LET good(field) == (field.wire = "bytes" /\ field.number \in embedded) => fieldsOf(field.value).complete
      bad == {i \in DOMAIN parsed.fields : ~good(parsed.fields[i])}
  IN IF bad = {} THEN parsed
     ELSE [parsed EXCEPT !.fields = SubSeq(@, 1, Min(bad)), !.complete = FALSE]

\* ParseFromString keeps what was read, whatever it returns.
ParseFromString(s, embedded) == throughEmbedded(fieldsOf(s), embedded)

\* The places of the fields that carry a number; one of another wire type is
\* unknown to the message and not among them.
places(fields, k, wire) ==
  {i \in DOMAIN fields : fields[i].number = k /\ fields[i].wire = wire}

has(fields, k, wire) == places(fields, k, wire) # {}

\* A field that was read twice has the last value.
get(fields, k, wire) == fields[Max(places(fields, k, wire))].value

\* All values of a repeated field, in order.
getAll(fields, k, wire) ==
  LET upTo[i \in 0 .. Len(fields)] ==
        IF i = 0 THEN << >>
        ELSE upTo[i - 1] \o (IF i \in places(fields, k, wire) THEN <<fields[i].value>> ELSE << >>)
  IN upTo[Len(fields)]

-----------------------------------------------------------------------------
(* QString *)

ReplacementCharacter == <<239, 191, 189>>

\* How many bytes the character that starts at i takes, 0 if none does.
utf8Length(s, i) ==
  LET follows(k) == i + k <= Len(s) /\ s[i + k] \in 128 .. 191
  IN CASE s[i] < 128 -> 1
       [] s[i] \in 194 .. 223 /\ follows(1) -> 2
       [] s[i] \in 224 .. 239 /\ follows(1) /\ follows(2)
            /\ (s[i] = 224 => s[i + 1] >= 160) /\ (s[i] = 237 => s[i + 1] < 160) -> 3
       [] s[i] \in 240 .. 244 /\ follows(1) /\ follows(2) /\ follows(3)
            /\ (s[i] = 240 => s[i + 1] >= 144) /\ (s[i] = 244 => s[i + 1] < 144) -> 4
       [] OTHER -> 0

\* Where the ASCII ends that starts at i.
asciiEnd(s, i) == Min({k \in i .. Len(s) : s[k] >= 128} \cup {Len(s) + 1})

\* QString::fromStdString reads UTF-8 and puts the replacement character for
\* every byte that is not part of a character; toStdString writes UTF-8.
\* ASCII stays as it is.
toStdString(s) ==
  LET from[i \in 1 .. Len(s) + 1] ==
        LET j == asciiEnd(s, i)
            n == utf8Length(s, j)
        IN SubSeq(s, i, j - 1) \o
             (IF j > Len(s) THEN << >>
              ELSE IF n = 0 THEN ReplacementCharacter \o from[j + 1]
              ELSE SubSeq(s, j, j + n - 1) \o from[j + n])
  IN from[1]
=============================================================================
