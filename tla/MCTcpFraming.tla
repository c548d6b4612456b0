---------------------------- MODULE MCTcpFraming ----------------------------
(***************************************************************************)
(* Small instances of TcpFraming: the size field counts to 15, so that the *)
(* string of a block has 5 characters at most.                             *)
(***************************************************************************)
EXTENDS TcpFraming

\* Lengths that fit the size field, the shortest and the longest among them.
Fitting == {0, 1, 3, 5}
\* One more character and the size of the block is 16.
Oversized == {1, 6}
=============================================================================
