---------------------------- MODULE FifoChannel ----------------------------
(***************************************************************************)
(* What one direction of a TcpChatConnection promises, and what SimpleChat *)
(* assumes of it: the messages arrive unchanged, once, in the order in     *)
(* which they were written, and in the end all of them.                    *)
(***************************************************************************)
EXTENDS Naturals, Sequences

CONSTANT Message

VARIABLES
  sent,       \* the messages written so far
  delivered   \* the messages handed to the receiver so far

channelVars == <<sent, delivered>>

Send(m) == sent' = Append(sent, m) /\ UNCHANGED delivered

Deliver ==
  /\ Len(delivered) < Len(sent)
  /\ delivered' = Append(delivered, sent[Len(delivered) + 1])
  /\ UNCHANGED sent

Init == sent = << >> /\ delivered = << >>

Next == Deliver \/ \E m \in Message : Send(m)

\* Safety: unchanged, once, in order.
SafeSpec == Init /\ [][Next]_channelVars

\* And in the end all of them.
Spec == SafeSpec /\ WF_channelVars(Deliver)
=============================================================================
