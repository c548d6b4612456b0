---------------------------- MODULE MCWiredRoom ----------------------------
(***************************************************************************)
(* Small instances of WiredRoom.  A name or a text is told from the others *)
(* by its bytes and its length; what counts is on which side of 128 the    *)
(* length is.                                                              *)
(***************************************************************************)
EXTENDS WiredRoom

string(byte, length) == [i \in 1 .. length |-> byte]

\* The list of two users with these names is longer than 127 bytes, each of
\* the users is not.
LongNames == {string(97, 60), string(98, 60)}
ShortNames == {string(97, 5), string(98, 3), string(99, 4)}

\* The longest text whose length takes one byte, and a short one.
FittingTexts == {string(116, 127), string(117, 2)}
LongText == {string(116, 128)}

NoConns == [c \in Conns |-> None]
=============================================================================
