------------------------------- MODULE Mirror -------------------------------
(***************************************************************************)
(* The message handlers of client/ChatClient.cpp as far as they change     *)
(* what a client knows: its mirror of the room and the motd.               *)
(***************************************************************************)
EXTENDS Chatroom

\* Mutant: all entries refer to the last user the loop came to.
lastListed(room, list) ==
  [n \in DOMAIN room \cup {u.name : u \in list} |->
     IF chateeExists(room, n) THEN room[n] ELSE CHOOSE u \in list : \A v \in list : v.id <= u.id]

\* A list adds the users the mirror lacks and changes none it has.
listReceived(room, list) ==
  [n \in DOMAIN room \cup {u.name : u \in list} |->
     IF chateeExists(room, n) THEN room[n] ELSE CHOOSE u \in list : u.name = n]

\* The two parts of a change of a user the client knows.
presenceChanged(room, name, presence) ==
  IF presence = None THEN room ELSE [room EXCEPT ![name].presence = presence]

actionTaken(room, name, action) ==
  CASE action \in {"MUTED", "UNMUTED"} -> [room EXCEPT ![name].mute = (action = "MUTED")]
    [] action \in {"LEFT", "KICKED"} -> chateeLeft(room, name)
    [] OTHER -> room

\* JOINED is for a user the client does not know yet; any other change of an
\* unknown user is lost on it.
userChanged(room, m) ==
  LET name == m.user.name
  IN CASE m.action = "JOINED" -> chateeJoined(room, name, m.user)
       [] m.action # "JOINED" /\ ~chateeExists(room, name) -> room
       [] OTHER -> actionTaken(presenceChanged(room, name, m.presence), name, m.action)

roomAfter(room, m) ==
  CASE m.type = "USER_JOIN_RESPONSE" ->
         IF m.success THEN chateeJoined(room, m.user.name, m.user) ELSE room
    [] m.type = "USER_LIST_RESPONSE" -> listReceived(room, m.users)
    [] m.type = "USER_CHANGE" -> userChanged(room, m)
    [] OTHER -> room

\* The motd a client shows after a message.
motdAfter(text, m) ==
  IF m.type = "CHATROOM_CHANGE" \/ (m.type = "USER_JOIN_RESPONSE" /\ m.success)
    THEN m.motd
    ELSE text

\* What a client knows, before it reads a queue of messages and after each.
reading(knowledge, m) ==
  [room |-> roomAfter(knowledge.room, m), motd |-> motdAfter(knowledge.motd, m)]

known(knowledge, queue) ==
  LET after[i \in 0 .. Len(queue)] ==
        IF i = 0 THEN knowledge ELSE reading(after[i - 1], queue[i])
  IN after
=============================================================================
