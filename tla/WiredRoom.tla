----------------------------- MODULE WiredRoom -----------------------------
(***************************************************************************)
(* The server's room and the mirrors of its members, with every message    *)
(* between them written to bytes and read again as ChatWire says.  It asks *)
(* which messages survive that, and what follows for the mirrors, so it    *)
(* leaves out what SimpleChat is about: a message is read as soon as it is *)
(* written, and whoever gives a command is authorized.  A request that is  *)
(* dropped on its way is no step.                                          *)
(***************************************************************************)
EXTENDS ChatWire, Mirror

CONSTANTS
  FirstId,         \* the users with the ids below it have come and gone
  MaxId,           \* the last id that is handed out
  PresenceInputs   \* the presences users choose

ASSUME IdAssumption == FirstId \in Nat \ {0} /\ MaxId \in Nat
ASSUME WiredPresences == PresenceInputs \subseteq Presences

VARIABLES
  room,        \* the server's room, reduced to the users
  nextUserId,  \* Chatroom::nextUserId
  motd,        \* Chatroom::motd_
  mirrors,     \* the mirror of every member
  exchanged    \* the messages of the last step: as they were sent, as they
               \* were received, and by which members; by none but the server
               \* if the set is empty

vars == <<room, nextUserId, motd, mirrors, exchanged>>

exchange(m, to) == [sent |-> m, received |-> overWire(m), to |-> to]

\* A message that was dropped is not read.
readBy(mirror, got) == IF got = None THEN mirror ELSE roomAfter(mirror, got)

Init ==
  /\ room = EmptyRoom /\ mirrors = EmptyRoom
  /\ nextUserId = FirstId
  /\ motd = EmptyText
  /\ exchanged = {}

-----------------------------------------------------------------------------
\* A newcomer hears of itself, gets the answer and asks for the list.
welcome(newRoom, asked, joined, answer, list) ==
  /\ room' = newRoom
  /\ mirrors' = [k \in DOMAIN newRoom |->
       IF chateeExists(room, k) THEN readBy(mirrors[k], joined.received)
       ELSE readBy(readBy(readBy(EmptyRoom, joined.received), answer.received), list.received)]
  /\ exchanged' = {asked, joined, answer, list}

welcomes(newRoom, new, asked) ==
  welcome(newRoom, asked,
          exchange(UserChange("JOINED", new), DOMAIN newRoom),
          exchange(UserJoinResponse(TRUE, new, motd), {new.name}),
          exchange(UserListResponse(Range(newRoom)), {new.name}))

join(asked) ==
  LET name == asked.received.name
      new == [id |-> nextUserId, name |-> name, presence |-> "ONLINE", mute |-> None]
  IN /\ nextUserId <= MaxId
     /\ ~chateeExists(room, name)
     /\ nextUserId' = nextUserId + 1
     /\ welcomes(chateeJoined(room, name, new), new, asked)
     /\ UNCHANGED motd

\* The server tells the members of the room of a change: e is the exchange
\* with them, asked what made the server do it.
announce(newRoom, e, asked) ==
  /\ room' = newRoom
  /\ mirrors' = [n \in DOMAIN newRoom |-> readBy(mirrors[n], e.received)]
  /\ exchanged' = asked \cup {e}
  /\ UNCHANGED nextUserId

announces(newRoom, m, asked) == announce(newRoom, exchange(m, DOMAIN newRoom), asked)

\* The connection of n is lost.
leave(n) ==
  /\ announces(chateeLeft(room, n), UserChange("LEFT", room[n]), {})
  /\ UNCHANGED motd

setMute(asked, target, mute) ==
  /\ chateeExists(room, target)
  /\ announces([room EXCEPT ![target].mute = mute],
               UserChange(IF mute THEN "MUTED" ELSE "UNMUTED", room[target]), {asked})
  /\ UNCHANGED motd

kick(asked, target) ==
  /\ chateeExists(room, target)
  /\ announces(chateeLeft(room, target), UserChange("KICKED", room[target]), {asked})
  /\ UNCHANGED motd

setMotd(asked, newMotd) ==
  /\ announces(room, ChatroomChange(newMotd), {asked})
  /\ motd' = newMotd

\* The command as the server reads it decides what happens to whom.
command(asked) ==
  LET got == asked.received
  IN /\ got # None
     /\ \/ got.command \in {"MUTE", "UNMUTE"} /\ setMute(asked, got.arguments[1], got.command = "MUTE")
        \/ got.command = "KICK" /\ kick(asked, got.arguments[1])
        \/ got.command = "MOTD" /\ setMotd(asked, got.arguments[1])

\* The client copies its own entry of its mirror; the server sets what it
\* reads and passes the message on.
updatePresence(n, asked) ==
  LET got == asked.received
  IN /\ got # None
     /\ announces([room EXCEPT ![n].presence = IF got.presence = None THEN @ ELSE got.presence],
                  got, {asked})
     /\ UNCHANGED motd

\* The sender and the target see a whisper, everybody a public message; a
\* whisper to an unknown name and the speech of a muted user are refused.
copied(asked, m, to) == exchanged' = {asked, exchange(m, to)}

whisper(n, asked, target) ==
  /\ target # None
  /\ chateeExists(room, target.user_name)
  /\ copied(asked, ChatMessage(asked.received.text, getTarget(room, n),
                               getTarget(room, target.user_name)),
            {n, target.user_name})

say(n, asked, target) ==
  /\ target = None /\ room[n].mute # TRUE
  /\ copied(asked, ChatMessage(asked.received.text, getTarget(room, n), None), DOMAIN room)

refuse(n, asked, target) ==
  /\ IF target = None THEN room[n].mute = TRUE ELSE ~chateeExists(room, target.user_name)
  /\ copied(asked, GenericChatResponse(FALSE), {n})

sendMessage(n, asked) ==
  /\ asked.received # None
  /\ \/ whisper(n, asked, asked.received.target)
     \/ say(n, asked, asked.received.target)
     \/ refuse(n, asked, asked.received.target)
  /\ UNCHANGED <<room, nextUserId, motd, mirrors>>

\* What the members may send: commands, presences, lines for everybody and
\* for the users they see.
commands ==
  [type : {"CHAT_COMMAND"}, command : {"KICK", "MUTE", "UNMUTE"}, arguments : {<<n>> : n \in DOMAIN room}]
    \cup (IF room = EmptyRoom THEN {} ELSE {ChatCommand("MOTD", <<text>>) : text \in Texts})

presencesOf(n) ==
  {[UserChange(None, mirrors[n][n]) EXCEPT !.presence = presence] :
     presence \in IF chateeExists(mirrors[n], n) THEN PresenceInputs ELSE {}}

linesOf(n) ==
  {ChatMessage(text, None, target) :
     text \in Texts, target \in {None} \cup {getTarget(mirrors[n], k) : k \in DOMAIN mirrors[n] \ {n}}}

Next ==
  \/ \E n \in Names : join(exchange(UserJoinRequest(n), {}))
  \/ \E n \in DOMAIN room : leave(n)
  \/ \E m \in commands : command(exchange(m, {}))
  \/ \E n \in DOMAIN room : \E m \in presencesOf(n) : updatePresence(n, exchange(m, {}))
  \/ \E n \in DOMAIN room : \E m \in linesOf(n) : sendMessage(n, exchange(m, {}))

Spec == Init /\ [][Next]_vars

-----------------------------------------------------------------------------
(* Properties *)

\* Every message is received as it was sent, after one hop or two: as long as
\* ids and the lengths of strings and of embedded messages stay below 128.
\* That the size of the whole message may be larger is not obvious, because
\* that size does not survive.
ReceivedAsSent == \A e \in exchanged : e.received = e.sent

\* What a client shows of the room.
shown(users_) ==
  [n \in DOMAIN users_ |->
     [presence |-> IF users_[n].presence = None THEN "ONLINE" ELSE users_[n].presence,
      mute |-> users_[n].mute = TRUE]]

\* Every member shows who is in the room, with their presences and mute flags
\* (ChatClient.h: a change "alters the user based on the message content").
MirrorsFollow == \A n \in DOMAIN room : shown(mirrors[n]) = shown(room)

\* A text that was written as a whisper reaches its writer and its target
\* and nobody else (README.md: "send a private message").
WhisperUnheard ==
  \A e, f \in exchanged :
    /\ e.sent.type = "CHAT_MESSAGE" /\ e.to = {} /\ e.sent.target # None
    /\ f.sent.type = "CHAT_MESSAGE" /\ f.to # {}
    => f.to \subseteq {f.sent.from.user_name, e.sent.target.user_name}
=============================================================================
