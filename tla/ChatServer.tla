----------------------------- MODULE ChatServer -----------------------------
(***************************************************************************)
(* The server: server/ChatServer.cpp and the TCP side of it,               *)
(* tcplib/server/TcpChatServer.cpp with chat/TcpChatConnection.cpp.        *)
(*                                                                         *)
(* One step is one slot that Qt's event loop runs to its end.  The module  *)
(* says nothing of what the clients do beyond ClientMessages: any client   *)
(* may send any of its messages at any time, and SimpleChat composes the   *)
(* module with the clients there really are.                               *)
(***************************************************************************)
EXTENDS Chatroom

VARIABLES
  chatees,     \* the server's room: the chatee each name in use stands for
  nextUserId,  \* Chatroom::nextUserId
  motd,        \* Chatroom::motd_
  sock,        \* state of the server's end of every connection
  connChatee,  \* TcpChatConnection::chatee_, a weak pointer: the id of the
               \* chatee it was set to, 0 before
  running,     \* FALSE once the process has died
  toClient     \* the messages under way to each client, oldest first

serverVars == <<chatees, nextUserId, motd, sock, connChatee, running, toClient>>

\* "closing" is Qt's ClosingState: disconnectFromHost was called and the
\* bytes written before are still to go out.
SockStates == {"idle", "connected", "closing", "gone"}

Chatee == [id : Nat, name : Names, presence : Presences, mute : BOOLEAN,
           authorized : BOOLEAN, connection : Conns]

user(chatee) == [id |-> chatee.id, name |-> chatee.name,
                 presence |-> chatee.presence, mute |-> chatee.mute]

users(room) == {user(room[n]) : n \in DOMAIN room}

ServerMessage ==
       [type : {"USER_CHANGE"}, action : {"JOINED", "LEFT", "KICKED", "MUTED", "UNMUTED"},
        user : User, presence : {None}]
  \cup [type : {"USER_CHANGE"}, action : {None}, user : [name : Names],
        presence : Presences]
  \cup [type : {"CHAT_MESSAGE"}, text : Texts, from : ChatTarget,
        target : ChatTarget \cup {None}]
  \cup [type : {"USER_JOIN_RESPONSE"}, success : BOOLEAN, user : User \cup {None},
        motd : Texts \cup {EmptyText}]
  \cup [type : {"USER_LIST_RESPONSE"}, users : SUBSET User]
  \cup [type : {"CHATROOM_CHANGE"}, motd : Texts]
  \cup [type : {"GENERIC_CHAT_RESPONSE"}, success : BOOLEAN]

-----------------------------------------------------------------------------
(* Sending.  A message is written only while the socket is connected.      *)

isAlive(c) == sock[c] = "connected"

\* Mutant: a closing socket reports nothing more.
isConnectedOnly(c) == sock[c] = "connected"

\* Qt still reads from a closing socket, and reports its end.
isOpen(c) == sock[c] \in {"connected", "closing"}

sendMessage(queues, c, m) ==
  IF isAlive(c) THEN [queues EXCEPT ![c] = Append(@, m)] ELSE queues

\* Mutant: what Chatee.h says, to all chatees other than the one concerned.
propagateToOthers(room, m) ==
  [c \in Conns |->
     IF isAlive(c) /\ \E n \in DOMAIN room :
          room[n].connection = c /\ (m.type = "USER_CHANGE" => n # m.user.name)
       THEN Append(toClient[c], m)
       ELSE toClient[c]]

\* To every chatee of the room, the one the message is about included.
propagateMessage(room, m) ==
  [c \in Conns |->
     IF isAlive(c) /\ \E n \in DOMAIN room : room[n].connection = c
       THEN Append(toClient[c], m)
       ELSE toClient[c]]

sendResponse(c, success) == toClient' = sendMessage(toClient, c, GenericChatResponse(success))

\* Mutant: the connection remembers its chatee by name.
chateeByName(c) == {n \in DOMAIN chatees : n = clientName[c]}

\* What the weak pointer of c locks to: a chatee lives as long as the room
\* holds it, and ids are never used twice.
chatee(c) == {n \in DOMAIN chatees : chatees[n].id = connChatee[c]}

-----------------------------------------------------------------------------
(* Joining and the list of users *)

\* Mutant: the others are told before the newcomer is in the room.
joinAcceptedLater(c, m) ==
  /\ ~chateeExists(chatees, m.name)
  /\ LET new == [id |-> nextUserId, name |-> m.name, presence |-> "ONLINE",
                 mute |-> FALSE, authorized |-> FALSE, connection |-> c]
     IN /\ chatees' = chateeJoined(chatees, m.name, new)
        /\ toClient' = sendMessage(propagateMessage(chatees, UserChange("JOINED", user(new))),
                                   c, UserJoinResponse(TRUE, user(new), motd))
  /\ nextUserId' = nextUserId + 1
  /\ connChatee' = [connChatee EXCEPT ![c] = nextUserId]
  /\ UNCHANGED <<motd, sock, running>>

\* Everybody in the room hears of the newcomer, the newcomer too and before
\* its own answer.
joinAccepted(c, m) ==
  /\ ~chateeExists(chatees, m.name)
  /\ LET new == [id |-> nextUserId, name |-> m.name, presence |-> "ONLINE",
                 mute |-> FALSE, authorized |-> FALSE, connection |-> c]
         room == chateeJoined(chatees, m.name, new)
     IN /\ chatees' = room
        /\ toClient' = sendMessage(propagateMessage(room, UserChange("JOINED", user(new))),
                                   c, UserJoinResponse(TRUE, user(new), motd))
  /\ nextUserId' = nextUserId + 1
  /\ connChatee' = [connChatee EXCEPT ![c] = nextUserId]
  /\ UNCHANGED <<motd, sock, running>>

\* Mutant: the refusal is not answered.
joinRefusedSilently(c, m) ==
  chateeExists(chatees, m.name) /\ UNCHANGED serverVars

joinRefused(c, m) ==
  /\ chateeExists(chatees, m.name)
  /\ toClient' = sendMessage(toClient, c, UserJoinResponse(FALSE, None, motd))
  /\ UNCHANGED <<chatees, nextUserId, motd, sock, connChatee, running>>

receiveUserListRequest(c) ==
  /\ toClient' = sendMessage(toClient, c, UserListResponse(users(chatees)))
  /\ UNCHANGED <<chatees, nextUserId, motd, sock, connChatee, running>>

-----------------------------------------------------------------------------
(* Presence and speech; "name" is the sender's *)

\* Mutant: the change is passed on and not kept.
passedOnOnly(name, m) ==
  /\ toClient' = propagateMessage(chatees, m)
  /\ UNCHANGED <<chatees, nextUserId, motd, sock, connChatee, running>>

receiveUserChange(name, m) ==
  /\ chatees' = IF m.presence = None
                  THEN chatees
                  ELSE [chatees EXCEPT ![name].presence = m.presence]
  /\ toClient' = propagateMessage(chatees, m)
  /\ UNCHANGED <<nextUserId, motd, sock, connChatee, running>>

\* Mutant: the copy for the target goes to the room.
whisperAloud(c, name, m) ==
  LET target == getTarget(chatees, m.target.user_name)
      copy == ChatMessage(m.text, getTarget(chatees, name), target)
  IN /\ target # None
     /\ toClient' = propagateMessage(chatees, copy)
     /\ UNCHANGED <<chatees, nextUserId, motd, sock, connChatee, running>>

\* The sender sees its own whisper with the name it wrote to, the target
\* sees it addressed to itself.
whisper(c, name, m) ==
  LET target == getTarget(chatees, m.target.user_name)
      copy == ChatMessage(m.text, getTarget(chatees, name), target)
  IN /\ target # None
     /\ toClient' = sendMessage(sendMessage(toClient, c, copy),
                                chatees[target.user_name].connection, copy)
     /\ UNCHANGED <<chatees, nextUserId, motd, sock, connChatee, running>>

whisperToNobody(c, m) ==
  /\ ~chateeExists(chatees, m.target.user_name)
  /\ sendResponse(c, FALSE)
  /\ UNCHANGED <<chatees, nextUserId, motd, sock, connChatee, running>>

\* Mutant: the mute flag is not looked at.
publicMessageUnchecked(name, m) ==
  /\ toClient' = propagateMessage(chatees,
                   ChatMessage(m.text, getTarget(chatees, name), None))
  /\ UNCHANGED <<chatees, nextUserId, motd, sock, connChatee, running>>

publicMessage(name, m) ==
  /\ ~chatees[name].mute
  /\ toClient' = propagateMessage(chatees,
                   ChatMessage(m.text, getTarget(chatees, name), None))
  /\ UNCHANGED <<chatees, nextUserId, motd, sock, connChatee, running>>

mutedMessage(c, name) ==
  /\ chatees[name].mute
  /\ sendResponse(c, FALSE)
  /\ UNCHANGED <<chatees, nextUserId, motd, sock, connChatee, running>>

receiveChatMessage(c, name, m) ==
  \/ m.target # None /\ whisper(c, name, m)
  \/ m.target # None /\ whisperToNobody(c, m)
  \/ m.target = None /\ publicMessage(name, m)
  \/ m.target = None /\ mutedMessage(c, name)
-----------------------------------------------------------------------------
(* Commands *)

auth(c, name, m) ==
  LET success == m.arguments = <<Password>>
  IN /\ chatees' = IF success THEN [chatees EXCEPT ![name].authorized = TRUE] ELSE chatees
     /\ sendResponse(c, success)
     /\ UNCHANGED <<nextUserId, motd, sock, connChatee, running>>

notAuthorized(c, name) ==
  /\ ~chatees[name].authorized
  /\ sendResponse(c, FALSE)
  /\ UNCHANGED <<chatees, nextUserId, motd, sock, connChatee, running>>

\* The handlers of mute, unmute and kick read the first argument without
\* looking whether there is one; on an empty list the process ends.
missingArgument(m) ==
  /\ m.arguments = << >>
  /\ running' = FALSE
  /\ UNCHANGED <<chatees, nextUserId, motd, sock, connChatee, toClient>>

noSuchUser(c, m) ==
  /\ m.arguments # << >>
  /\ ~chateeExists(chatees, m.arguments[1])
  /\ sendResponse(c, FALSE)
  /\ UNCHANGED <<chatees, nextUserId, motd, sock, connChatee, running>>

\* Chatee::mute and unmute: everybody is told, then the flag is set.
setMute(target, action, mute) ==
  /\ toClient' = propagateMessage(chatees, UserChange(action, user(chatees[target])))
  /\ chatees' = [chatees EXCEPT ![target].mute = mute]
  /\ UNCHANGED <<nextUserId, motd, sock, connChatee, running>>

\* Mutant: the connection of a kicked chatee is left open.
staysConnected(c) == sock

\* KICKED has just been written to the socket, so Qt closes it later.
disconnectFromHost(c) == [sock EXCEPT ![c] = IF @ = "connected" THEN "closing" ELSE @]

\* Mutant: the chatee is left to connectionLost.
kickWithoutErase(target) ==
  /\ toClient' = propagateMessage(chatees, UserChange("KICKED", user(chatees[target])))
  /\ sock' = disconnectFromHost(chatees[target].connection)
  /\ UNCHANGED <<chatees, nextUserId, motd, connChatee, running>>

\* Chatee::kick: everybody is told, the target included, then the target's
\* connection is closed and its name is free.
kick(target) ==
  /\ toClient' = propagateMessage(chatees, UserChange("KICKED", user(chatees[target])))
  /\ sock' = disconnectFromHost(chatees[target].connection)
  /\ chatees' = chateeLeft(chatees, target)
  /\ UNCHANGED <<nextUserId, motd, connChatee, running>>

\* Mutant: a new motd is told to newcomers only.
setMotdQuietly(text) ==
  motd' = text /\ UNCHANGED <<chatees, nextUserId, sock, connChatee, running, toClient>>

setMotd(text) ==
  /\ motd' = text
  /\ toClient' = propagateMessage(chatees, ChatroomChange(text))
  /\ UNCHANGED <<chatees, nextUserId, sock, connChatee, running>>

\* A command on a user who is in the room.
targetedCommand(m) ==
  /\ m.arguments # << >>
  /\ chateeExists(chatees, m.arguments[1])
  /\ \/ m.command = "MUTE" /\ setMute(m.arguments[1], "MUTED", TRUE)
     \/ m.command = "UNMUTE" /\ setMute(m.arguments[1], "UNMUTED", FALSE)
     \/ m.command = "KICK" /\ kick(m.arguments[1])

authorizedCommand(c, m) ==
  \/ m.command \in {"MUTE", "UNMUTE", "KICK"} /\ missingArgument(m)
  \/ m.command \in {"MUTE", "UNMUTE", "KICK"} /\ noSuchUser(c, m)
  \/ targetedCommand(m)
  \/ m.command = "MOTD" /\ setMotd(m.arguments[1])

receiveChatCommand(c, name, m) ==
  \/ m.command = "AUTH" /\ auth(c, name, m)
  \/ m.command # "AUTH" /\ notAuthorized(c, name)
  \/ m.command # "AUTH" /\ chatees[name].authorized /\ authorizedCommand(c, m)

-----------------------------------------------------------------------------
(* The slots of the event loop *)

connectionEstablished(c) ==
  /\ sock[c] = "idle"
  /\ sock' = [sock EXCEPT ![c] = "connected"]
  /\ UNCHANGED <<chatees, nextUserId, motd, connChatee, running, toClient>>

\* Messages on a connection that is being closed, and messages of a client
\* that never got into the room, are dropped without an answer.
ignored(c, m) ==
  /\ ~isAlive(c) \/ (m.type # "USER_JOIN_REQUEST" /\ chatee(c) = {})
  /\ UNCHANGED serverVars

receiveUserJoinRequest(c, m) == joinAccepted(c, m) \/ joinRefused(c, m)

receiveUntypedMessage(c, m) ==
  /\ isOpen(c)
  /\ \/ ignored(c, m)
     \/ /\ isAlive(c)
        /\ m.type = "USER_JOIN_REQUEST"
        /\ receiveUserJoinRequest(c, m)
     \/ /\ isAlive(c)
        /\ m.type # "USER_JOIN_REQUEST"
        /\ \E name \in chatee(c) :
             \/ m.type = "USER_LIST_REQUEST" /\ receiveUserListRequest(c)
             \/ m.type = "USER_CHANGE" /\ receiveUserChange(name, m)
             \/ m.type = "CHAT_MESSAGE" /\ receiveChatMessage(c, name, m)
             \/ m.type = "CHAT_COMMAND" /\ receiveChatCommand(c, name, m)

\* Mutant: nobody is told that a chatee left.
leavesSilently(c) ==
  \E name \in chatee(c) : chatees' = chateeLeft(chatees, name) /\ UNCHANGED toClient

\* The chatee of a lost connection leaves the room, if the weak pointer
\* still locks to one.
chateeLost(c) ==
  \E name \in chatee(c) :
    LET room == chateeLeft(chatees, name)
    IN /\ chatees' = room
       /\ toClient' = propagateMessage(room, UserChange("LEFT", user(chatees[name])))

connectionLost(c) ==
  /\ isOpen(c)
  /\ sock' = [sock EXCEPT ![c] = "gone"]
  /\ \/ chateeLost(c)
     \/ chatee(c) = {} /\ UNCHANGED <<chatees, toClient>>
  /\ UNCHANGED <<nextUserId, motd, connChatee, running>>

-----------------------------------------------------------------------------
(* The specification *)

\* What the clients of this repository can send over connection c.
ClientMessage(c) ==
       {UserJoinRequest(clientName[c]), UserListRequest}
  \cup {PresenceChange(clientName[c], p) : p \in Presences}
  \cup {ChatMessage(text, None, None) : text \in Texts}
  \cup {ChatMessage(text, None, [user_id |-> id, user_name |-> n]) :
           text \in Texts, id \in 1 .. nextUserId - 1, n \in Names}
  \cup {ChatCommand(command, <<word>>) : command \in CommandTypes \ {"MOTD"}, word \in Words}
  \cup {ChatCommand(command, << >>) : command \in CommandTypes \ {"MOTD"}}

MotdCommand == {ChatCommand("MOTD", <<text>>) : text \in Texts}

\* The client reads the oldest message, or ends and reads none of them.
delivered(c) ==
  /\ toClient[c] # << >>
  /\ toClient' = [toClient EXCEPT ![c] = Tail(@)]
  /\ UNCHANGED <<chatees, nextUserId, motd, sock, connChatee, running>>

discarded(c) ==
  /\ toClient' = [toClient EXCEPT ![c] = << >>]
  /\ UNCHANGED <<chatees, nextUserId, motd, sock, connChatee, running>>

ServerInit ==
  /\ chatees = EmptyRoom
  /\ nextUserId = 1
  /\ motd = EmptyText
  /\ sock = [c \in Conns |-> "idle"]
  /\ connChatee = [c \in Conns |-> 0]
  /\ running = TRUE
  /\ toClient = [c \in Conns |-> << >>]

ServerNext ==
  \E c \in Conns :
    \/ running /\ connectionEstablished(c)
    \/ running /\ \E m \in ClientMessage(c) : receiveUntypedMessage(c, m)
    \/ running /\ \E m \in MotdCommand : receiveUntypedMessage(c, m)
    \/ running /\ connectionLost(c)
    \/ delivered(c)
    \/ discarded(c)

ServerSpec == ServerInit /\ [][ServerNext]_serverVars

-----------------------------------------------------------------------------
(* Properties *)

\* The types of all but the queues; a name maps to a chatee that carries it.
RoomTypeOK ==
  /\ DOMAIN chatees \subseteq Names
  /\ \A n \in DOMAIN chatees : chatees[n] \in Chatee /\ chatees[n].name = n
  /\ nextUserId \in Nat \ {0}
  /\ motd \in Texts \cup {EmptyText}
  /\ sock \in [Conns -> SockStates]
  /\ connChatee \in [Conns -> Nat]
  /\ running \in BOOLEAN

\* The type invariant.  The room maps every name to a chatee that carries it,
\* and only what the server can say is under way to the clients.
ServerTypeOK ==
  /\ RoomTypeOK
  /\ toClient \in [Conns -> Seq(ServerMessage)]

\* Chatee keeps a raw pointer to its connection, and connectionLost deletes
\* connections.  No chatee of the room outlives its connection: the pointer
\* is to an open connection, and that connection's weak pointer is to this
\* very chatee, so that losing the connection will find and remove it.
NoDanglingConnection ==
  \A n \in DOMAIN chatees :
    LET c == chatees[n].connection
    IN isAlive(c) /\ connChatee[c] = chatees[n].id

\* Ids are handed out upwards and once: an id names one chatee and, in the
\* weak pointers of the connections, one connection.
IdsUnique ==
  /\ \A n \in DOMAIN chatees : chatees[n].id \in 1 .. nextUserId - 1
  /\ \A c \in Conns : connChatee[c] \in 0 .. nextUserId - 1
  /\ \A n, k \in DOMAIN chatees : chatees[n].id = chatees[k].id => n = k
  /\ \A c, d \in Conns : connChatee[c] = connChatee[d] /\ connChatee[c] # 0 => c = d

\* A chatee carries the nickname of the client behind its connection.  This
\* is what keeps a second request on one connection from making a second
\* chatee of it: the name is taken for as long as the first is there.
OwnName == \A n \in DOMAIN chatees : clientName[chatees[n].connection] = n

\* The inductive invariant of the room, on which the proofs rest: the room, the
\* sockets and the weak pointers of the connections agree.
RoomInv == RoomTypeOK /\ NoDanglingConnection /\ IdsUnique /\ OwnName

\* A chatee gives up its name only in a step that closes its own connection.
\* connectionLost and Chatee::kick remove by name, and a kicked connection
\* reports its loss after the name may have been taken by another client:
\* that report must not evict the new holder.
MembershipEndsWithConnection ==
  [][\A n \in DOMAIN chatees :
       n \notin DOMAIN chatees' \/ chatees'[n].id # chatees[n].id
         => sock'[chatees[n].connection] # "connected"]_serverVars

\* disconnectFromHost still sends what was written before it and nothing
\* after: the last thing a kicked client can read is that it was kicked.
KickIsLast ==
  \A c \in Conns :
    sock[c] = "closing" /\ toClient[c] # << >>
      => LET last == toClient[c][Len(toClient[c])]
         IN /\ last.type = "USER_CHANGE"
            /\ last.action = "KICKED"
            /\ last.user.id = connChatee[c]

\* A whisper that reached the server with its target is on its way to the
\* one who wrote it and to the one it is for, and to nobody else.
WhisperConfined ==
  \A c \in Conns : \A i \in 1 .. Len(toClient[c]) :
    LET m == toClient[c][i]
    IN m.type = "CHAT_MESSAGE" /\ m.target # None
         => clientName[c] \in {m.from.user_name, m.target.user_name}

\* The server's room is the room of RoomBroadcast: its members are the chatees,
\* and what it writes to a connection is that connection's inbox.
Room == INSTANCE RoomBroadcast WITH
          members <- [n \in DOMAIN chatees |-> chatees[n].connection],
          inbox <- toClient

\* Everything the server does to its sockets, ids, rights and flags implements
\* the broadcast of RoomBroadcast: nobody in the room misses a message, hears
\* one twice or in another order, whoever joins, leaves or is kicked meanwhile.
ImplementsBroadcast == Room!Spec
=============================================================================
