----------------------------- MODULE ChatClient -----------------------------
(***************************************************************************)
(* The clients: client/ChatClient.cpp, the TCP side of it in               *)
(* tcplib/client/TcpChatClient.cpp, and the input line of                  *)
(* client/dialog/ChatDialog.cpp.  A client process is named by the one     *)
(* connection it opens.                                                    *)
(***************************************************************************)
EXTENDS Mirror, CommandParser

CONSTANTS
  Lines,        \* Lines[c]: what the user of c types, records [slash, words]
  WhisperWords  \* the words that start with "w"

\* Users write texts, and words as the arguments of commands.
ASSUME LinesAssumption ==
  \A c \in Conns : \A line \in Lines[c] :
    LET words == line.words
    IN /\ words \in Seq(STRING) \ {<< >>}
       /\ ~line.slash => words \in Texts
       /\ line.slash /\ words[1] \in WhisperWords /\ Len(words) >= 3
            => SubSeq(words, 3, Len(words)) \in Texts
       /\ line.slash /\ words[1] \notin WhisperWords /\ Len(split(words)) >= 2
            => LET arguments == Tail(split(words))
               IN /\ getCommandType(words[1]) = "MOTD" => arguments \in Texts
                  /\ Len(arguments) = 1 => arguments[1] \in Words

VARIABLES
  phase,     \* how far each client got; "idle" and "gone" have no connection
  mirror,    \* ChatClient::chatroom_, what the client knows of the room
  shownMotd, \* the motd it was last told
  toServer   \* the messages under way to the server, oldest first

clientVars == <<phase, mirror, shownMotd, toServer>>

\* The code keeps no such state: it follows from which answers the client
\* has seen, and only the properties refer to the phases between the two ends.
Phases == {"idle", "joining", "rejected", "member", "listed", "gone"}

isConnected(c) == phase[c] \notin {"idle", "gone"}

\* The types of the clients' variables: a mirror maps names to users that carry
\* them, and a motd is shown once the client got in.
ClientTypeOK ==
  /\ phase \in [Conns -> Phases]
  /\ \A c \in Conns : DOMAIN mirror[c] \subseteq Names
  /\ \A c \in Conns : \A n \in DOMAIN mirror[c] :
       mirror[c][n] \in User /\ mirror[c][n].name = n
  /\ shownMotd \in [Conns -> Texts \cup {EmptyText, None}]

sendAnyMessage(c, m) == toServer' = [toServer EXCEPT ![c] = Append(@, m)]

phaseAfter(p, m) ==
  CASE m.type = "USER_JOIN_RESPONSE" -> IF m.success THEN "member" ELSE "rejected"
    [] m.type = "USER_LIST_RESPONSE" -> "listed"
    [] OTHER -> p

-----------------------------------------------------------------------------
(* The slots of the event loop *)

\* connectToServer waits for the connection and sends the request to join.
login(c) ==
  /\ phase[c] = "idle"
  /\ phase' = [phase EXCEPT ![c] = "joining"]
  /\ sendAnyMessage(c, UserJoinRequest(clientName[c]))
  /\ UNCHANGED <<mirror, shownMotd>>

\* connectToServer gets no connection: the program has hidden its login dialog
\* and shows nothing else, so that there is no second try.
loginFails(c) ==
  /\ phase[c] = "idle"
  /\ phase' = [phase EXCEPT ![c] = "gone"]
  /\ UNCHANGED <<mirror, shownMotd, toServer>>

\* Mutant: the list is asked for whatever the answer to the join.
asksAnyway(c, m) ==
  /\ isConnected(c)
  /\ phase' = [phase EXCEPT ![c] = phaseAfter(@, m)]
  /\ mirror' = [mirror EXCEPT ![c] = roomAfter(@, m)]
  /\ shownMotd' = [shownMotd EXCEPT ![c] = motdAfter(@, m)]
  /\ IF m.type = "USER_JOIN_RESPONSE"
       THEN sendAnyMessage(c, UserListRequest)
       ELSE UNCHANGED toServer

\* A client that got in asks at once for the list of users.
handleUntypedMessage(c, m) ==
  /\ isConnected(c)
  /\ phase' = [phase EXCEPT ![c] = phaseAfter(@, m)]
  /\ mirror' = [mirror EXCEPT ![c] = roomAfter(@, m)]
  /\ shownMotd' = [shownMotd EXCEPT ![c] = motdAfter(@, m)]
  /\ IF m.type = "USER_JOIN_RESPONSE" /\ m.success
       THEN sendAnyMessage(c, UserListRequest)
       ELSE UNCHANGED toServer

\* A target the mirror does not know, or an empty one, is left unset, and
\* a message without a target is a public one.
sendTo(c, text, target) ==
  sendAnyMessage(c, ChatMessage(text, None, getTarget(mirror[c], target)))

\* A whisper needs a target and a text, and the target may not be oneself.
typesWhisper(c, line) ==
  /\ line.slash /\ line.words[1] \in WhisperWords
  /\ Len(line.words) >= 3 /\ line.words[2] # clientName[c]
  /\ sendTo(c, SubSeq(line.words, 3, Len(line.words)), line.words[2])

typesCommand(c, line) ==
  /\ line.slash /\ line.words[1] \notin WhisperWords
  /\ chatCommand(line.words) # None
  /\ sendAnyMessage(c, chatCommand(line.words))

typesMessage(c, line) ==
  /\ ~line.slash
  /\ sendAnyMessage(c, ChatMessage(line.words, None, None))

\* Lines none of these sends anything for are refused on the spot.
returnPressed(c, line) ==
  /\ isConnected(c)
  /\ typesWhisper(c, line) \/ typesCommand(c, line) \/ typesMessage(c, line)
  /\ UNCHANGED <<phase, mirror, shownMotd>>

\* A client that does not see itself in its mirror has no presence to change.
updatePresence(c, presence) ==
  /\ isConnected(c)
  /\ chateeExists(mirror[c], clientName[c])
  /\ sendAnyMessage(c, PresenceChange(clientName[c], presence))
  /\ UNCHANGED <<phase, mirror, shownMotd>>

\* The end of the connection: the user closes the program, or the socket
\* reports the loss.  The room a client knew stays as it was.
disconnects(c) ==
  /\ isConnected(c)
  /\ phase' = [phase EXCEPT ![c] = "gone"]
  /\ UNCHANGED <<mirror, shownMotd, toServer>>

ClientInit ==
  /\ phase = [c \in Conns |-> "idle"]
  /\ mirror = [c \in Conns |-> EmptyRoom]
  /\ shownMotd = [c \in Conns |-> None]
  /\ toServer = [c \in Conns |-> << >>]
=============================================================================
