---------------------------- MODULE MCSimpleChat ----------------------------
(***************************************************************************)
(* Small instances of SimpleChat.  alice is alone with her name, bob and   *)
(* another bob want the same one, or the third is carol.                   *)
(***************************************************************************)
EXTENDS SimpleChat, TLC

CONSTANTS c1, c2, c3

TwoConns == {c1, c2}
BothBobs == {c2, c3}
ThreeConns == {c1, c2, c3}
TwoNames == {"alice", "bob"}
NameOfConn == [c \in Conns |-> IF c = c1 THEN "alice" ELSE "bob"]
ThreeNames == {"alice", "bob", "carol"}
OwnNames == [c \in Conns |-> CASE c = c1 -> "alice" [] c = c2 -> "bob" [] c = c3 -> "carol"]

\* Both bobs are interchangeable.
Symmetry == Permutations({c2, c3})

MCWords == {"alice", "bob", "sesame", "guess"}
MCTexts == {<<"hello">>, <<"psst">>, <<"be", "kind">>, <<"be", "brief">>}
MCWhisperWords == {"w"}

Public == [slash |-> FALSE, words |-> <<"hello">>]
Whisper == [slash |-> TRUE, words |-> <<"w", "bob", "psst">>]
Command(words) == [slash |-> TRUE, words |-> words]
Auth == Command(<<"auth", "sesame">>)

\* alice types the lines of the first set, the others those of the second.
LinesFor(alice, bob) == [c \in Conns |-> IF c = c1 THEN alice ELSE bob]

Kick == Command(<<"kick", "bob">>)
\* A space typed twice makes an empty word, which is one argument too many.
BadKick == Command(<<"kick", "", "bob">>)
Mute == Command(<<"mute", "bob">>)
\* The last empty word does no harm.
Unmute == Command(<<"unmute", "bob", "">>)
Motd == Command(<<"motd", "be", "kind">>)
OtherMotd == Command(<<"motd", "be", "brief">>)
WrongAuth == Command(<<"auth", "guess">>)

\* alice kicks a bob while the bobs talk.
KickLines == LinesFor({Auth, Kick}, {Public})
\* A bob kicks himself, who alone is in the room under that name, or gets the
\* command wrong.
BobLines == LinesFor({}, {Auth, Kick, BadKick})
\* The commands on mute flags and on the motd, against speech and a command
\* of bob's, who is not authorized.
CommandLines == LinesFor({Auth, Mute, Unmute, Motd, OtherMotd}, {Public, Motd})
\* alice whispers to bob while carol is there.
WhisperLines == LinesFor({Whisper}, {})
\* Speech and whispers.
TalkLines == LinesFor({Whisper, Public}, {Public})
\* Everything alice can type.
AllLines ==
  LinesFor({Auth, WrongAuth, Kick, BadKick, Mute, Unmute, Motd, Whisper, Public}, {Public})
=============================================================================
