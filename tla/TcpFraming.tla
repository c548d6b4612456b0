----------------------------- MODULE TcpFraming -----------------------------
(***************************************************************************)
(* chat/TcpChatConnection.cpp: how messages are cut out of a TCP stream.   *)
(* sendMessage writes a block for every message: a size field, and the     *)
(* message as QDataStream writes a QString, a length field and two bytes   *)
(* for every character.  readyRead reads blocks from what has arrived.     *)
(*                                                                         *)
(* One direction of one connection.  A message is named by its length, a   *)
(* byte by the number of its message and its place in the block.           *)
(***************************************************************************)
EXTENDS Naturals, Sequences

CONSTANTS
  Sizes,        \* how many values the size field has: 2^16 in the code
  Lengths,      \* the lengths, in characters, of the messages that are sent
  Broken,       \* a string that is not what was sent
  MaxSent       \* how many messages are sent

ASSUME FramingAssumption ==
  /\ Sizes \in Nat \ {0}
  /\ Lengths \subseteq Nat /\ Broken \notin Lengths
  /\ MaxSent \in Nat

VARIABLES
  sent,        \* the messages written so far
  delivered,   \* the strings handed on by dataReceivedSignal so far
  wire,        \* bytes that have not arrived yet
  buffer,      \* bytes that have arrived and are not read: bytesAvailable
  blockSize,   \* TcpChatConnection::blockSize_
  slot         \* where readyRead is: not running, at the top of its loop, or
               \* in a round that has read a size field

vars == <<sent, delivered, wire, buffer, blockSize, slot>>

SizeField == 2     \* bytes of the size of a block
LengthField == 4   \* bytes of the length of a QString

Payload(length) == LengthField + 2 * length

\* Mutant: the size is counted in characters of two bytes.
inCharacters(n) == (n \div 2) % Sizes

\* A quint16 holds the size of a block.
quint16(n) == n % Sizes

Byte == Nat \X Nat

Init ==
  /\ sent = << >> /\ delivered = << >>
  /\ wire = << >> /\ buffer = << >>
  /\ blockSize = 0
  /\ slot = "idle"

-----------------------------------------------------------------------------
(* The bytes of message number i *)

block(i, length) == [k \in 1 .. SizeField + Payload(length) |-> <<i, k>>]

startsAt(bytes, k) == bytes # << >> /\ bytes[1][2] = k

\* What the size field at the head of the bytes reads as.  Where no block
\* starts, it may be anything.
sizeAt(bytes) ==
  IF startsAt(bytes, 1) THEN {quint16(Payload(sent[bytes[1][1]]))} ELSE 0 .. Sizes - 1

drop(bytes, n) == SubSeq(bytes, n + 1, Len(bytes))

\* What reading a QString from the bytes can yield and how many bytes it
\* takes: a string that is all there is read, one that is cut off becomes
\* empty and uses up the bytes there are, and where no string starts some
\* bytes are used up.
stringAt(bytes) ==
  IF ~startsAt(bytes, SizeField + 1)
    THEN {[string |-> Broken, taken |-> n] : n \in 0 .. Len(bytes)}
    ELSE LET length == sent[bytes[1][1]]
         IN IF Len(bytes) >= Payload(length)
              THEN {[string |-> length, taken |-> Payload(length)]}
              ELSE {[string |-> Broken, taken |-> Len(bytes)]}

-----------------------------------------------------------------------------
sendMessage ==
  /\ Len(sent) < MaxSent
  /\ \E length \in Lengths :
       /\ sent' = Append(sent, length)
       /\ wire' = wire \o block(Len(sent) + 1, length)
  /\ UNCHANGED <<delivered, buffer, blockSize, slot>>

\* TCP brings any number of bytes, and Qt calls readyRead for new bytes only.
Arrive ==
  /\ slot = "idle"
  /\ \E n \in 1 .. Len(wire) :
       /\ buffer' = buffer \o SubSeq(wire, 1, n)
       /\ wire' = drop(wire, n)
  /\ slot' = "loop"
  /\ UNCHANGED <<sent, delivered, blockSize>>

\* Is there a size to wait for?  A pending one is not 0; in the round that
\* read it, it may be.
sizeKnown == slot = "block" \/ blockSize # 0

\* Mutant: the string is read as soon as its block has begun to arrive.
readsEarly ==
  /\ slot # "idle" /\ sizeKnown
  /\ buffer # << >>
  /\ \E read \in stringAt(buffer) :
       /\ delivered' = Append(delivered, read.string)
       /\ buffer' = drop(buffer, read.taken)
  /\ blockSize' = 0
  /\ slot' = "loop"
  /\ UNCHANGED <<sent, wire>>

\* No bytes arrive between the steps of a loop that runs.
ReadSize ==
  /\ slot = "loop" /\ ~sizeKnown
  /\ Len(buffer) >= SizeField
  /\ blockSize' \in sizeAt(buffer)
  /\ buffer' = drop(buffer, SizeField)
  /\ slot' = "block"
  /\ UNCHANGED <<sent, delivered, wire>>

ReadBlock ==
  /\ slot # "idle" /\ sizeKnown
  /\ Len(buffer) >= blockSize
  /\ \E read \in stringAt(buffer) :
       /\ delivered' = Append(delivered, read.string)
       /\ buffer' = drop(buffer, read.taken)
  /\ blockSize' = 0
  /\ slot' = "loop"
  /\ UNCHANGED <<sent, wire>>

\* Too few bytes for the next size field or for the block: what is left waits
\* for the next call.
Return ==
  /\ slot # "idle"
  /\ Len(buffer) < (IF sizeKnown THEN blockSize ELSE SizeField)
  /\ slot' = "idle"
  /\ UNCHANGED <<sent, delivered, wire, buffer, blockSize>>

Next == sendMessage \/ Arrive \/ ReadSize \/ ReadBlock \/ Return

\* TCP delivers, and a slot that runs goes on.
Spec == Init /\ [][Next]_vars /\ WF_vars(Arrive) /\ WF_vars(ReadSize \/ ReadBlock \/ Return)

-----------------------------------------------------------------------------
(* Properties *)

\* The type invariant.  What readyRead hands on are messages that were sent:
\* as long as every block fits its size field, no string is ever broken.
TypeOK ==
  /\ sent \in Seq(Lengths) /\ delivered \in Seq(Lengths)
  /\ wire \in Seq(Byte) /\ buffer \in Seq(Byte)
  /\ blockSize \in 0 .. Sizes - 1
  /\ slot \in {"idle", "loop", "block"}

\* Every message reaches the receiver unchanged, once and in order, however
\* the stream is cut: between blocks, inside a size field, inside a string.
Channel == INSTANCE FifoChannel WITH Message <- Lengths
ImplementsChannel == Channel!Spec

\* The comment in readyRead, "full message received": once as many bytes have
\* arrived as the size field says, they are the whole string that was sent.
FullMessageReceived ==
  slot # "idle" /\ sizeKnown /\ Len(buffer) >= blockSize
    => startsAt(buffer, SizeField + 1) /\ Len(buffer) >= Payload(sent[buffer[1][1]])
=============================================================================
