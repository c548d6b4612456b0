-------------------------- MODULE ChatServerProofs --------------------------
(***************************************************************************)
(* What ChatServer keeps true for every number of clients, every name and  *)
(* every order of the messages they send.                                  *)
(***************************************************************************)
EXTENDS ChatServer, TLAPS

\* The messages the event loop may hand to receiveUntypedMessage.
Incoming(c) == ClientMessage(c) \cup MotdCommand

-----------------------------------------------------------------------------
(* What an incoming message carries *)

\* A request to join asks for the one nickname of its client.
LEMMA JoinRequestName ==
  ASSUME NEW c \in Conns, NEW m \in Incoming(c), m.type = "USER_JOIN_REQUEST"
  PROVE  m.name = clientName[c]
BY DEF Incoming, ClientMessage, MotdCommand, UserJoinRequest, UserListRequest,
       PresenceChange, ChatMessage, ChatCommand

\* A change of presence is well-formed, and is passed on as it came.
LEMMA UserChangeType ==
  ASSUME NEW c \in Conns, NEW m \in Incoming(c), m.type = "USER_CHANGE"
  PROVE  m.presence \in Presences /\ m \in ServerMessage
<1>1. PICK p \in Presences : m = PresenceChange(clientName[c], p)
  BY DEF Incoming, ClientMessage, MotdCommand, UserJoinRequest, UserListRequest,
         PresenceChange, ChatMessage, ChatCommand
<1>2. clientName[c] \in Names
  BY ClientNameAssumption
<1>3. m = [type |-> "USER_CHANGE", action |-> None, user |-> [name |-> clientName[c]],
           presence |-> p]
  BY <1>1 DEF PresenceChange
<1>4. m \in [type : {"USER_CHANGE"}, action : {None}, user : [name : Names],
             presence : Presences]
  BY <1>2, <1>3
<1> QED
  BY <1>3, <1>4 DEF ServerMessage

\* It says nothing of who joins.
LEMMA UserChangeAction ==
  ASSUME NEW c \in Conns, NEW m \in Incoming(c), m.type = "USER_CHANGE"
  PROVE  m.action = None
BY DEF Incoming, ClientMessage, MotdCommand, UserJoinRequest, UserListRequest,
       PresenceChange, ChatMessage, ChatCommand

\* The text of a message, and the one argument of the command motd.
LEMMA TextType ==
  ASSUME NEW c \in Conns, NEW m \in Incoming(c)
  PROVE  /\ m.type = "CHAT_MESSAGE" => m.text \in Texts
         /\ m.type = "CHAT_COMMAND" /\ m.command = "MOTD" => m.arguments[1] \in Texts
BY DEF Incoming, ClientMessage, MotdCommand, UserJoinRequest, UserListRequest,
       PresenceChange, ChatMessage, ChatCommand, CommandTypes

-----------------------------------------------------------------------------
(* The server's messages and queues *)

\* What is said of a chatee is a user.
LEMMA ChateeUser ==
  ASSUME NEW ch \in Chatee
  PROVE  user(ch) \in User
BY DEF Chatee, User, user

\* What Chatroom and Chatee tell of a user is a message of the server.
LEMMA UserChangeMessage ==
  ASSUME NEW u \in User,
         NEW action \in {"JOINED", "LEFT", "KICKED", "MUTED", "UNMUTED"}
  PROVE  UserChange(action, u) \in ServerMessage
BY DEF UserChange, ServerMessage

\* So is every answer, and every message that is passed on.
LEMMA ResponseMessages ==
  /\ \A success \in BOOLEAN : GenericChatResponse(success) \in ServerMessage
  /\ \A text \in Texts : ChatroomChange(text) \in ServerMessage
  /\ \A success \in BOOLEAN, u \in User \cup {None}, text \in Texts \cup {EmptyText} :
       UserJoinResponse(success, u, text) \in ServerMessage
  /\ \A us \in SUBSET User : UserListResponse(us) \in ServerMessage
  /\ \A text \in Texts, from \in ChatTarget, target \in ChatTarget \cup {None} :
       ChatMessage(text, from, target) \in ServerMessage
BY DEF GenericChatResponse, ChatroomChange, UserJoinResponse, UserListResponse,
       ChatMessage, ServerMessage

\* A known name gives a target, and only a known name does.
LEMMA TargetType ==
  ASSUME RoomTypeOK, NEW n
  PROVE  /\ n \in DOMAIN chatees => getTarget(chatees, n) \in ChatTarget
         /\ n \notin DOMAIN chatees => getTarget(chatees, n) = None
BY DEF RoomTypeOK, getTarget, chateeExists, ChatTarget, Chatee

-----------------------------------------------------------------------------
(* The steps of the server, by what they do to the room and the sockets *)

\* The room and the sockets stay as they are: an answer, a message passed
\* on, a motd, the end of the process, a step of the network.
Quiet ==
  /\ UNCHANGED <<chatees, nextUserId, sock, connChatee>>
  /\ motd' \in Texts \cup {EmptyText}
  /\ running' \in BOOLEAN

\* A chatee changes its presence, its mute flag or its rights.
Altered(n) ==
  /\ n \in DOMAIN chatees
  /\ DOMAIN chatees' = DOMAIN chatees
  /\ chatees'[n] \in Chatee
  /\ chatees'[n].id = chatees[n].id
  /\ chatees'[n].name = chatees[n].name
  /\ chatees'[n].connection = chatees[n].connection
  /\ \A k \in DOMAIN chatees \ {n} : chatees'[k] = chatees[k]
  /\ UNCHANGED <<nextUserId, motd, sock, connChatee, running>>

\* A client enters under its own nickname.
Entered(c) == \E m \in Incoming(c) : isAlive(c) /\ m.name = clientName[c] /\ joinAccepted(c, m)

\* Every step of the server is of one of these kinds.
LEMMA StepKinds ==
  ASSUME RoomTypeOK, ServerNext
  PROVE  \/ Quiet
         \/ \E n \in DOMAIN chatees : Altered(n) \/ kick(n)
         \/ \E c \in Conns : Entered(c) \/ connectionEstablished(c) \/ connectionLost(c)
<1> USE DEF RoomTypeOK
<1>1. PICK c \in Conns :
        \/ connectionEstablished(c)
        \/ \E m \in Incoming(c) : receiveUntypedMessage(c, m)
        \/ connectionLost(c)
        \/ delivered(c)
        \/ discarded(c)
  BY DEF ServerNext, Incoming
<1>2. CASE connectionEstablished(c) \/ connectionLost(c)
  BY <1>2
<1>3. CASE delivered(c) \/ discarded(c)
  BY <1>3 DEF Quiet, delivered, discarded
<1>4. CASE \E m \in Incoming(c) : receiveUntypedMessage(c, m)
  <2>1. PICK m \in Incoming(c) : receiveUntypedMessage(c, m)
    BY <1>4
  <2>2. CASE ignored(c, m)
    BY <2>2 DEF Quiet, ignored, serverVars
  <2>3. CASE isAlive(c) /\ m.type = "USER_JOIN_REQUEST" /\ receiveUserJoinRequest(c, m)
    <3>1. CASE joinAccepted(c, m)
      BY <2>3, <3>1, JoinRequestName DEF Entered
    <3>2. CASE joinRefused(c, m)
      BY <3>2 DEF joinRefused, Quiet
    <3> QED
      BY <2>3, <3>1, <3>2 DEF receiveUserJoinRequest
  <2>4. ASSUME NEW name \in chatee(c),
               \/ m.type = "USER_LIST_REQUEST" /\ receiveUserListRequest(c)
               \/ m.type = "USER_CHANGE" /\ receiveUserChange(name, m)
               \/ m.type = "CHAT_MESSAGE" /\ receiveChatMessage(c, name, m)
               \/ m.type = "CHAT_COMMAND" /\ receiveChatCommand(c, name, m)
        PROVE  \/ Quiet
               \/ \E n \in DOMAIN chatees : Altered(n) \/ kick(n)
    <3> name \in DOMAIN chatees
      BY DEF chatee
    <3>1. CASE receiveUserListRequest(c)
      BY <3>1 DEF receiveUserListRequest, Quiet
    <3>2. CASE m.type = "USER_CHANGE" /\ receiveUserChange(name, m)
      <4>1. m.presence \in Presences
        BY <3>2, UserChangeType
      <4>2. CASE m.presence = None
        BY <3>2, <4>2 DEF receiveUserChange, Quiet
      <4>3. CASE m.presence # None
        <5>1. chatees' = [chatees EXCEPT ![name].presence = m.presence]
          BY <3>2, <4>3 DEF receiveUserChange
        <5>2. chatees'[name] \in Chatee
          BY <4>1, <5>1 DEF Chatee
        <5> QED
          BY <3>2, <5>1, <5>2 DEF receiveUserChange, Altered, Chatee
      <4> QED
        BY <4>2, <4>3
    <3>3. CASE receiveChatMessage(c, name, m)
      BY <3>3 DEF receiveChatMessage, whisper, whisperToNobody, publicMessage,
                  mutedMessage, Quiet
    <3>4. CASE m.type = "CHAT_COMMAND" /\ receiveChatCommand(c, name, m)
      <4>1. CASE auth(c, name, m)
        <5>1. CASE m.arguments = <<Password>>
          <6>1. chatees' = [chatees EXCEPT ![name].authorized = TRUE]
            BY <4>1, <5>1 DEF auth
          <6>2. chatees'[name] = [chatees[name] EXCEPT !.authorized = TRUE]
                /\ \A k \in DOMAIN chatees \ {name} : chatees'[k] = chatees[k]
            BY <6>1
          <6>3. chatees[name] \in Chatee
            OBVIOUS
          <6>4. /\ chatees'[name] \in Chatee
                /\ chatees'[name].id = chatees[name].id
                /\ chatees'[name].name = chatees[name].name
                /\ chatees'[name].connection = chatees[name].connection
            BY <6>2, <6>3 DEF Chatee
          <6>5. /\ DOMAIN chatees' = DOMAIN chatees
                /\ UNCHANGED <<nextUserId, motd, sock, connChatee, running>>
            BY <4>1, <6>1 DEF auth
          <6> QED
            BY <6>2, <6>4, <6>5 DEF Altered
        <5>2. CASE m.arguments # <<Password>>
          BY <4>1, <5>2 DEF auth, Quiet
        <5> QED
          BY <5>1, <5>2
      <4>2. CASE notAuthorized(c, name) \/ missingArgument(m) \/ noSuchUser(c, m)
        BY <4>2 DEF notAuthorized, missingArgument, noSuchUser, Quiet
      <4>3. CASE m.command = "MOTD" /\ setMotd(m.arguments[1])
        BY <3>4, <4>3, TextType DEF setMotd, Quiet
      <4>4. CASE targetedCommand(m)
        <5>1. PICK target \in DOMAIN chatees :
                \/ setMute(target, "MUTED", TRUE)
                \/ setMute(target, "UNMUTED", FALSE)
                \/ kick(target)
          BY <4>4 DEF targetedCommand, chateeExists
        <5>2. ASSUME NEW action, NEW mute \in BOOLEAN, setMute(target, action, mute)
              PROVE  Altered(target)
          <6>1. chatees' = [chatees EXCEPT ![target].mute = mute]
            BY <5>2 DEF setMute
          <6>2. chatees'[target] \in Chatee
            BY <6>1 DEF Chatee
          <6> QED
            BY <5>2, <6>1, <6>2 DEF setMute, Altered, Chatee
        <5> QED
          BY <5>1, <5>2
      <4> QED
        BY <3>4, <4>1, <4>2, <4>3, <4>4 DEF receiveChatCommand, authorizedCommand
    <3> QED
      BY <2>4, <3>1, <3>2, <3>3, <3>4
  <2> QED
    BY <2>1, <2>2, <2>3, <2>4 DEF receiveUntypedMessage
<1> QED
  BY <1>1, <1>2, <1>3, <1>4

-----------------------------------------------------------------------------
(* The inductive invariant of the room *)

\* The room is empty and no connection is open at first.
LEMMA RoomInvInit == ServerInit => RoomInv
BY ClientNameAssumption
   DEF ServerInit, RoomInv, RoomTypeOK, NoDanglingConnection, IdsUnique, OwnName,
       EmptyRoom, SockStates

\* The chatee the weak pointer of a connection locks to is the one that
\* points back to it, and no other chatee does.
LEMMA BackPointer ==
  ASSUME RoomInv, NEW c \in Conns
  PROVE  chatee(c) = {n \in DOMAIN chatees : chatees[n].connection = c}
<1> USE DEF RoomInv, RoomTypeOK, NoDanglingConnection, IdsUnique, Chatee
<1>1. ASSUME NEW n \in DOMAIN chatees, chatees[n].id = connChatee[c]
      PROVE  chatees[n].connection = c
  <2>1. connChatee[chatees[n].connection] = connChatee[c] /\ connChatee[c] # 0
    BY <1>1
  <2> QED
    BY <2>1
<1>2. ASSUME NEW n \in DOMAIN chatees, chatees[n].connection = c
      PROVE  chatees[n].id = connChatee[c]
  BY <1>2
<1> QED
  BY <1>1, <1>2 DEF chatee

\* Every step of the server keeps the invariant of the room.
LEMMA RoomInvStep == RoomInv /\ [ServerNext]_serverVars => RoomInv'
<1> SUFFICES ASSUME RoomInv, [ServerNext]_serverVars
             PROVE  RoomInv'
  OBVIOUS
<1> USE DEF RoomInv
<1>1. CASE Quiet
  BY <1>1 DEF Quiet, RoomTypeOK, NoDanglingConnection, IdsUnique, OwnName, isAlive
<1>2. ASSUME NEW n \in DOMAIN chatees, Altered(n)
      PROVE  RoomInv'
  <2>1. \A k \in DOMAIN chatees : /\ chatees'[k].id = chatees[k].id
                                  /\ chatees'[k].connection = chatees[k].connection
                                  /\ chatees'[k] \in Chatee
                                  /\ chatees'[k].name = k
    BY <1>2 DEF Altered, RoomTypeOK
  <2> QED
    BY <1>2, <2>1 DEF Altered, RoomTypeOK, NoDanglingConnection, IdsUnique, OwnName, isAlive
<1>3. ASSUME NEW n \in DOMAIN chatees, kick(n)
      PROVE  RoomInv'
  <2> DEFINE c == chatees[n].connection
  <2>1. c \in Conns /\ n \in chatee(c)
    BY BackPointer DEF RoomTypeOK, Chatee
  <2>2. /\ DOMAIN chatees' = DOMAIN chatees \ {n}
        /\ \A k \in DOMAIN chatees' : chatees'[k] = chatees[k]
        /\ sock' = [sock EXCEPT ![c] = IF @ = "connected" THEN "closing" ELSE @]
        /\ UNCHANGED <<nextUserId, motd, connChatee, running>>
    BY <1>3 DEF kick, chateeLeft, disconnectFromHost
  <2>3. \A k \in DOMAIN chatees' : chatees[k].connection # c
    BY <2>1, <2>2 DEF NoDanglingConnection, IdsUnique
  <2>4. RoomTypeOK'
    BY <2>2 DEF RoomTypeOK, SockStates
  <2>5. NoDanglingConnection'
    BY <2>2, <2>3 DEF NoDanglingConnection, RoomTypeOK, isAlive, Chatee
  <2>6. (IdsUnique /\ OwnName)'
    BY <2>2 DEF IdsUnique, OwnName
  <2> QED
    BY <2>4, <2>5, <2>6
<1>4. ASSUME NEW c \in Conns, Entered(c)
      PROVE  RoomInv'
  <2> DEFINE name == clientName[c]
             new == [id |-> nextUserId, name |-> name, presence |-> "ONLINE",
                     mute |-> FALSE, authorized |-> FALSE, connection |-> c]
  <2>1. name \in Names /\ name \notin DOMAIN chatees
    BY <1>4, ClientNameAssumption DEF Entered, joinAccepted, chateeExists
  <2>2. new \in Chatee
    BY <2>1 DEF Chatee, Presences, RoomTypeOK
  <2>3. /\ DOMAIN chatees' = DOMAIN chatees \cup {name}
        /\ chatees'[name] = new
        /\ \A k \in DOMAIN chatees : chatees'[k] = chatees[k]
        /\ nextUserId' = nextUserId + 1
        /\ connChatee' = [connChatee EXCEPT ![c] = nextUserId]
        /\ isAlive(c)
        /\ UNCHANGED <<motd, sock, running>>
    BY <1>4, <2>1 DEF Entered, joinAccepted, chateeJoined, chateeExists
  <2>4. \A k \in DOMAIN chatees : chatees[k].connection # c
    BY <2>1 DEF OwnName
  <2>5. RoomTypeOK'
    <3>1. \A k \in DOMAIN chatees' : chatees'[k] \in Chatee /\ chatees'[k].name = k
      BY <2>2, <2>3 DEF RoomTypeOK
    <3> QED
      BY <2>1, <2>3, <3>1 DEF RoomTypeOK
  <2>6. NoDanglingConnection'
    BY <2>3, <2>4 DEF NoDanglingConnection, RoomTypeOK, isAlive, Chatee
  <2>7. IdsUnique'
    BY <2>3 DEF IdsUnique, RoomTypeOK
  <2>8. OwnName'
    BY <2>3 DEF OwnName
  <2> QED
    BY <2>5, <2>6, <2>7, <2>8
<1>5. ASSUME NEW c \in Conns, connectionEstablished(c)
      PROVE  RoomInv'
  BY <1>5 DEF connectionEstablished, RoomTypeOK, NoDanglingConnection, IdsUnique,
              OwnName, isAlive, SockStates
<1>6. ASSUME NEW c \in Conns, connectionLost(c)
      PROVE  RoomInv'
  <2>1. /\ DOMAIN chatees' = DOMAIN chatees \ chatee(c)
        /\ \A k \in DOMAIN chatees' : chatees'[k] = chatees[k]
    <3>1. CASE chatee(c) = {}
      BY <1>6, <3>1 DEF connectionLost, chateeLost
    <3>2. ASSUME NEW n \in chatee(c)
          PROVE  chatee(c) = {n}
      BY DEF chatee, IdsUnique
    <3>3. CASE \E n \in chatee(c) : chatees' = chateeLeft(chatees, n)
      BY <3>2, <3>3 DEF chateeLeft
    <3> QED
      BY <1>6, <3>1, <3>3 DEF connectionLost, chateeLost
  <2>2. /\ sock' = [sock EXCEPT ![c] = "gone"]
        /\ UNCHANGED <<nextUserId, motd, connChatee, running>>
    BY <1>6 DEF connectionLost
  <2>3. \A k \in DOMAIN chatees' : chatees[k].connection # c
    BY <2>1, BackPointer
  <2>4. RoomTypeOK'
    BY <2>1, <2>2 DEF RoomTypeOK, SockStates
  <2>5. NoDanglingConnection'
    BY <2>1, <2>2, <2>3 DEF NoDanglingConnection, RoomTypeOK, isAlive, Chatee
  <2>6. (IdsUnique /\ OwnName)'
    BY <2>1, <2>2 DEF IdsUnique, OwnName
  <2> QED
    BY <2>4, <2>5, <2>6
<1>7. CASE UNCHANGED serverVars
  BY <1>7 DEF serverVars, RoomTypeOK, NoDanglingConnection, IdsUnique, OwnName, isAlive
<1> QED
  BY <1>1, <1>2, <1>3, <1>4, <1>5, <1>6, <1>7, StepKinds

\* The room, the sockets and the back pointers agree in every state: names map
\* to chatees that carry them, ids are unique, chatees have open connections.
THEOREM RoomInvariant == ServerSpec => []RoomInv
BY RoomInvInit, RoomInvStep, PTL DEF ServerSpec

\* No chatee of the room outlives its connection, however many clients there
\* are and in whichever order they join, are kicked, and get lost.
THEOREM ConnectionSafety == ServerSpec => []NoDanglingConnection
<1>1. RoomInv => NoDanglingConnection
  BY DEF RoomInv
<1> QED
  BY <1>1, RoomInvariant, PTL

\* A report of a lost connection never evicts the chatee of another one: a
\* name is given up only in a step that closes its holder's connection.
THEOREM MembershipSafety == ServerSpec => MembershipEndsWithConnection
<1> DEFINE Kept ==
      \A n \in DOMAIN chatees :
        n \notin DOMAIN chatees' \/ chatees'[n].id # chatees[n].id
          => sock'[chatees[n].connection] # "connected"
<1>1. ASSUME RoomInv, [ServerNext]_serverVars
      PROVE  [Kept]_serverVars
  <2> USE <1>1 DEF RoomInv
  <2>1. CASE Quiet
    BY <2>1 DEF Quiet
  <2>2. ASSUME NEW n \in DOMAIN chatees, Altered(n)
        PROVE  Kept
    BY <2>2 DEF Altered
  <2>3. ASSUME NEW n \in DOMAIN chatees, kick(n)
        PROVE  Kept
    <3>1. /\ DOMAIN chatees' = DOMAIN chatees \ {n}
          /\ \A k \in DOMAIN chatees' : chatees'[k] = chatees[k]
          /\ sock'[chatees[n].connection] # "connected"
      BY <2>3 DEF kick, chateeLeft, disconnectFromHost, RoomTypeOK, Chatee
    <3> QED
      BY <3>1
  <2>4. ASSUME NEW c \in Conns, Entered(c)
        PROVE  Kept
    <3>1. \A n \in DOMAIN chatees : n \in DOMAIN chatees' /\ chatees'[n] = chatees[n]
      BY <2>4 DEF Entered, joinAccepted, chateeJoined, chateeExists
    <3> QED
      BY <3>1
  <2>5. ASSUME NEW c \in Conns, connectionEstablished(c)
        PROVE  Kept
    BY <2>5 DEF connectionEstablished
  <2>6. ASSUME NEW c \in Conns, connectionLost(c)
        PROVE  Kept
    <3>1. CASE chatee(c) = {}
      BY <2>6, <3>1 DEF connectionLost, chateeLost
    <3>2. ASSUME NEW n \in chatee(c), chatees' = chateeLeft(chatees, n)
          PROVE  Kept
      <4>1. chatees[n].connection = c
        BY BackPointer
      <4>2. sock'[c] = "gone"
        BY <2>6 DEF connectionLost, RoomTypeOK
      <4> QED
        BY <3>2, <4>1, <4>2 DEF chateeLeft
    <3> QED
      BY <2>6, <3>1, <3>2 DEF connectionLost, chateeLost
  <2> QED
    BY <2>1, <2>2, <2>3, <2>4, <2>5, <2>6, StepKinds
<1> QED
  BY <1>1, RoomInvariant, PTL DEF ServerSpec, MembershipEndsWithConnection

-----------------------------------------------------------------------------
(* The queues to the clients *)

QueuesTypeOK == toClient \in [Conns -> Seq(ServerMessage)]

\* The users a client may enter in its mirror when it reads a message.
listedBy(m) ==
  CASE m.type = "USER_LIST_RESPONSE" -> m.users
    [] m.type = "USER_JOIN_RESPONSE" /\ m.success -> {m.user}
    [] m.type = "USER_CHANGE" /\ m.action = "JOINED" -> {m.user}
    [] OTHER -> {}

\* An id below next has been handed out.
HandedOut(us, next) == \A u \in us : u \in User /\ u.id \in 1 .. next - 1

\* What may be said to c in a step: a message of the server, a whisper only if
\* the client behind c wrote it or is its target, no list but that of the room,
\* and no id that is not used.
MayHear(c, m) ==
  /\ m \in ServerMessage
  /\ m.type = "CHAT_MESSAGE" /\ m.target # None
       => clientName[c] \in {m.from.user_name, m.target.user_name}
  /\ m.type = "USER_LIST_RESPONSE" => m.users = users(chatees)
  /\ HandedOut(listedBy(m), nextUserId')

\* The answer that lets a client in; it comes right after the news of its join.
LetsIn(m) == m.type = "USER_JOIN_RESPONSE" /\ m.success

Announces(m, answer) ==
  m.type = "USER_CHANGE" /\ m.action = "JOINED" /\ m.user = answer.user

MayHearAlone(c, m) == MayHear(c, m) /\ ~LetsIn(m)

\* The queue after a step: shorter, the same, or, if the connection is open,
\* longer by what may be said to its client.
Shorter(queue, next) ==
  next = queue \/ next = << >> \/ (queue # << >> /\ next = Tail(queue))

Longer(c, queue, next) ==
  \/ \E m : MayHearAlone(c, m) /\ next = Append(queue, m)
  \/ \E m, k : /\ MayHearAlone(c, m) /\ MayHear(c, k)
               /\ LetsIn(k) => Announces(m, k)
               /\ next = Append(Append(queue, m), k)

Extended(c) ==
  Shorter(toClient[c], toClient'[c]) \/ (isAlive(c) /\ Longer(c, toClient[c], toClient'[c]))

QueueStep ==
  /\ toClient' = [c \in Conns |-> toClient'[c]]
  /\ \A c \in Conns : Extended(c)

\* In a step in which no client reads or ends, no queue gets shorter.
WriteStep ==
  /\ toClient' = [c \in Conns |-> toClient'[c]]
  /\ \A c \in Conns : \/ toClient'[c] = toClient[c]
                      \/ isAlive(c) /\ Longer(c, toClient[c], toClient'[c])

\* TcpChatConnection::sendMessage to one connection lengthens its queue only.
LEMMA SendExtends ==
  ASSUME QueuesTypeOK, NEW c \in Conns, NEW m, MayHearAlone(c, m),
         toClient' = sendMessage(toClient, c, m)
  PROVE  WriteStep
BY DEF QueuesTypeOK, sendMessage, WriteStep, Longer

\* Chatroom::propagateMessage lengthens the queues of open connections only.
LEMMA PropagateExtends ==
  ASSUME QueuesTypeOK, NEW room, NEW m, \A c \in Conns : MayHearAlone(c, m),
         toClient' = propagateMessage(room, m)
  PROVE  WriteStep
BY DEF QueuesTypeOK, propagateMessage, WriteStep, Longer

\* Whatever is not a whisper may be said to everybody.
LEMMA PublicMessages ==
  ASSUME NEW c \in Conns
  PROVE  /\ \A success \in BOOLEAN : MayHearAlone(c, GenericChatResponse(success))
         /\ \A text \in Texts : MayHearAlone(c, ChatroomChange(text))
         /\ \A text \in Texts \cup {EmptyText} :
              MayHearAlone(c, UserJoinResponse(FALSE, None, text))
         /\ \A text \in Texts, from \in ChatTarget :
              MayHearAlone(c, ChatMessage(text, from, None))
         /\ \A u \in User, action \in {"LEFT", "KICKED", "MUTED", "UNMUTED"} :
              MayHearAlone(c, UserChange(action, u))
<1>1. /\ \A success : GenericChatResponse(success).type = "GENERIC_CHAT_RESPONSE"
      /\ \A text : ChatroomChange(text).type = "CHATROOM_CHANGE"
      /\ \A text : /\ UserJoinResponse(FALSE, None, text).type = "USER_JOIN_RESPONSE"
                   /\ UserJoinResponse(FALSE, None, text).success = FALSE
      /\ \A text, from : /\ ChatMessage(text, from, None).type = "CHAT_MESSAGE"
                         /\ ChatMessage(text, from, None).target = None
      /\ \A u, action : /\ UserChange(action, u).type = "USER_CHANGE"
                        /\ UserChange(action, u).action = action
  BY DEF GenericChatResponse, ChatroomChange, UserJoinResponse, ChatMessage, UserChange
<1> QED
  BY <1>1, ResponseMessages, UserChangeMessage
     DEF MayHearAlone, MayHear, LetsIn, listedBy, HandedOut

\* So may what tells of users, if their ids are in use after the step.
LEMMA UserMessages ==
  ASSUME NEW c \in Conns
  PROVE  /\ \A u \in User, text \in Texts \cup {EmptyText} :
              HandedOut({u}, nextUserId')
                => /\ MayHear(c, UserJoinResponse(TRUE, u, text))
                   /\ MayHearAlone(c, UserChange("JOINED", u))
                   /\ Announces(UserChange("JOINED", u), UserJoinResponse(TRUE, u, text))
         /\ users(chatees) \in SUBSET User /\ HandedOut(users(chatees), nextUserId')
              => MayHearAlone(c, UserListResponse(users(chatees)))
<1>1. /\ \A u, text : /\ UserJoinResponse(TRUE, u, text).type = "USER_JOIN_RESPONSE"
                      /\ UserJoinResponse(TRUE, u, text).user = u
      /\ \A u : /\ UserChange("JOINED", u).type = "USER_CHANGE"
                /\ UserChange("JOINED", u).action = "JOINED"
                /\ UserChange("JOINED", u).user = u
      /\ \A us : /\ UserListResponse(us).type = "USER_LIST_RESPONSE"
                 /\ UserListResponse(us).users = us
  BY DEF UserJoinResponse, UserListResponse, UserChange
<1>2. ASSUME NEW u \in User, NEW text \in Texts \cup {EmptyText},
             HandedOut({u}, nextUserId')
      PROVE  /\ MayHear(c, UserJoinResponse(TRUE, u, text))
             /\ MayHearAlone(c, UserChange("JOINED", u))
             /\ Announces(UserChange("JOINED", u), UserJoinResponse(TRUE, u, text))
  <2> DEFINE answer == UserJoinResponse(TRUE, u, text)
             joined == UserChange("JOINED", u)
  <2>1. answer \in ServerMessage /\ joined \in ServerMessage
    BY ResponseMessages, UserChangeMessage
  <2>2. /\ answer.type = "USER_JOIN_RESPONSE" /\ answer.user = u
        /\ joined.type = "USER_CHANGE" /\ joined.action = "JOINED" /\ joined.user = u
    BY <1>1
  <2> HIDE DEF answer, joined
  <2>3. listedBy(answer) \subseteq {u} /\ listedBy(joined) \subseteq {u}
    BY <2>2 DEF listedBy
  <2>4. HandedOut(listedBy(answer), nextUserId') /\ HandedOut(listedBy(joined), nextUserId')
    BY <1>2, <2>3 DEF HandedOut
  <2>5. MayHear(c, answer) /\ MayHearAlone(c, joined) /\ Announces(joined, answer)
    BY <2>1, <2>2, <2>4 DEF MayHearAlone, MayHear, LetsIn, Announces
  <2> QED
    BY <2>5 DEF answer, joined
<1>3. ASSUME users(chatees) \in SUBSET User, HandedOut(users(chatees), nextUserId')
      PROVE  MayHearAlone(c, UserListResponse(users(chatees)))
  <2> DEFINE list == UserListResponse(users(chatees))
  <2>1. list \in ServerMessage
    BY <1>3, ResponseMessages
  <2>2. list.type = "USER_LIST_RESPONSE" /\ list.users = users(chatees)
    BY <1>1
  <2> HIDE DEF list
  <2>3. MayHearAlone(c, list)
    BY <1>3, <2>1, <2>2 DEF MayHearAlone, MayHear, LetsIn, listedBy
  <2> QED
    BY <2>3 DEF list
<1> QED
  BY <1>2, <1>3

\* What the server's slots write.
LEMMA WriteSteps ==
  ASSUME RoomInv, QueuesTypeOK, NEW c \in Conns,
         \/ connectionEstablished(c)
         \/ \E m \in Incoming(c) : receiveUntypedMessage(c, m)
         \/ connectionLost(c)
  PROVE  WriteStep
<1> USE DEF RoomInv
<1>1. CASE toClient' = toClient
  BY <1>1 DEF WriteStep, QueuesTypeOK
<1>2. CASE connectionLost(c)
  <2>1. ASSUME NEW n \in chatee(c),
               toClient' = propagateMessage(chateeLeft(chatees, n), UserChange("LEFT", user(chatees[n])))
        PROVE  WriteStep
    <3>1. user(chatees[n]) \in User
      BY ChateeUser DEF chatee, RoomTypeOK
    <3> QED
      BY <2>1, <3>1, PropagateExtends, PublicMessages
  <2> QED
    BY <1>1, <1>2, <2>1 DEF connectionLost, chateeLost
<1>3. CASE \E m \in Incoming(c) : receiveUntypedMessage(c, m)
  <2>1. PICK m \in Incoming(c) : receiveUntypedMessage(c, m)
    BY <1>3
  <2>2. ASSUME NEW success \in BOOLEAN, sendResponse(c, success)
        PROVE  WriteStep
    BY <2>2, SendExtends, PublicMessages DEF sendResponse
  <2>3. CASE ignored(c, m)
    BY <1>1, <2>3 DEF ignored, serverVars
  <2>4. CASE isAlive(c) /\ m.type = "USER_JOIN_REQUEST" /\ joinAccepted(c, m)
    <3> DEFINE new == [id |-> nextUserId, name |-> m.name, presence |-> "ONLINE",
                       mute |-> FALSE, authorized |-> FALSE, connection |-> c]
               room == chateeJoined(chatees, m.name, new)
               joined == UserChange("JOINED", user(new))
               answer == UserJoinResponse(TRUE, user(new), motd)
    <3>1. user(new) \in User
      <4>1. m.name \in Names
        BY <2>4, JoinRequestName, ClientNameAssumption
      <4> QED
        BY <4>1 DEF user, User, Presences, RoomTypeOK
    <3>2. \A d \in Conns : MayHearAlone(d, joined) /\ MayHear(d, answer) /\ Announces(joined, answer)
      <4>1. HandedOut({user(new)}, nextUserId')
        <5>1. user(new).id = nextUserId /\ nextUserId \in Nat \ {0}
          BY DEF user, RoomTypeOK
        <5>2. nextUserId' = nextUserId + 1
          BY <2>4 DEF joinAccepted
        <5> HIDE DEF new
        <5> QED
          BY <3>1, <5>1, <5>2 DEF HandedOut
      <4> QED
        BY <3>1, <4>1, UserMessages DEF RoomTypeOK
    <3>3. toClient' = sendMessage(propagateMessage(room, joined), c, answer)
      BY <2>4 DEF joinAccepted
    <3>4. \E n \in DOMAIN room : room[n].connection = c
      BY <2>4 DEF joinAccepted, chateeJoined, chateeExists
    <3> HIDE DEF new, room, joined, answer
    <3>5. propagateMessage(room, joined)[c] = Append(toClient[c], joined)
      BY <2>4, <3>4 DEF propagateMessage
    <3>6. \A d \in Conns :
            \/ propagateMessage(room, joined)[d] = toClient[d]
            \/ isAlive(d) /\ propagateMessage(room, joined)[d] = Append(toClient[d], joined)
      BY DEF propagateMessage
    <3>7. /\ toClient' = [d \in Conns |-> toClient'[d]]
          /\ \A d \in Conns :
               toClient'[d] = IF d = c THEN Append(propagateMessage(room, joined)[d], answer)
                                       ELSE propagateMessage(room, joined)[d]
      BY <2>4, <3>3 DEF sendMessage, propagateMessage
    <3> QED
      BY <2>4, <3>2, <3>5, <3>6, <3>7 DEF WriteStep, Longer
  <2>5. CASE m.type = "USER_JOIN_REQUEST" /\ joinRefused(c, m)
    BY <2>5, SendExtends, PublicMessages DEF joinRefused, RoomTypeOK
  <2>6. ASSUME NEW name \in chatee(c),
               \/ m.type = "USER_LIST_REQUEST" /\ receiveUserListRequest(c)
               \/ m.type = "USER_CHANGE" /\ receiveUserChange(name, m)
               \/ m.type = "CHAT_MESSAGE" /\ receiveChatMessage(c, name, m)
               \/ m.type = "CHAT_COMMAND" /\ receiveChatCommand(c, name, m)
        PROVE  WriteStep
    <3>1. /\ name \in DOMAIN chatees
          /\ chatees[name].connection = c
          /\ clientName[c] = name
      BY BackPointer DEF OwnName
    <3>2. CASE receiveUserListRequest(c)
      <4>1. users(chatees) \subseteq User
        BY ChateeUser DEF users, RoomTypeOK
      <4>2. HandedOut(users(chatees), nextUserId')
        BY <3>2, <4>1 DEF HandedOut, users, user, IdsUnique, receiveUserListRequest
      <4> QED
        BY <3>2, <4>1, <4>2, SendExtends, UserMessages DEF receiveUserListRequest
    <3>3. CASE m.type = "USER_CHANGE" /\ receiveUserChange(name, m)
      <4>1. \A d \in Conns : MayHearAlone(d, m)
        BY <3>3, UserChangeType, UserChangeAction, NoneAssumption
           DEF MayHearAlone, MayHear, LetsIn, listedBy, HandedOut
      <4> QED
        BY <3>3, <4>1, PropagateExtends DEF receiveUserChange
    <3>4. CASE m.type = "CHAT_MESSAGE" /\ receiveChatMessage(c, name, m)
      <4>1. m.text \in Texts /\ getTarget(chatees, name) \in ChatTarget
        BY <3>1, <3>4, TextType, TargetType
      <4>2. CASE whisper(c, name, m)
        <5> DEFINE target == getTarget(chatees, m.target.user_name)
                   copy == ChatMessage(m.text, getTarget(chatees, name), target)
                   d == chatees[target.user_name].connection
        <5>1. /\ target \in ChatTarget
              /\ target.user_name \in DOMAIN chatees
          BY <4>2, TargetType DEF whisper, getTarget, chateeExists
        <5>2. d \in Conns /\ clientName[d] = target.user_name
          BY <5>1 DEF OwnName, RoomTypeOK, Chatee
        <5>3. copy \in ServerMessage
          BY <4>1, <5>1, ResponseMessages
        <5>4. copy.from.user_name = name /\ copy.target = target /\ copy.type = "CHAT_MESSAGE"
          BY <3>1 DEF ChatMessage, getTarget, chateeExists
        <5>5. MayHearAlone(c, copy) /\ MayHearAlone(d, copy)
          BY <3>1, <5>2, <5>3, <5>4 DEF MayHearAlone, MayHear, LetsIn, listedBy, HandedOut
        <5>6. toClient' = sendMessage(sendMessage(toClient, c, copy), d, copy)
          BY <4>2 DEF whisper
        <5> HIDE DEF target, copy, d
        <5> QED
          BY <5>2, <5>5, <5>6 DEF QueuesTypeOK, sendMessage, WriteStep, Longer, MayHearAlone
      <4>3. CASE publicMessage(name, m)
        BY <4>1, <4>3, PropagateExtends, PublicMessages DEF publicMessage
      <4>4. CASE whisperToNobody(c, m) \/ mutedMessage(c, name)
        BY <2>2, <4>4 DEF whisperToNobody, mutedMessage
      <4> QED
        BY <3>4, <4>2, <4>3, <4>4 DEF receiveChatMessage
    <3>5. CASE m.type = "CHAT_COMMAND" /\ receiveChatCommand(c, name, m)
      <4>1. CASE auth(c, name, m) \/ notAuthorized(c, name) \/ noSuchUser(c, m)
        BY <2>2, <4>1 DEF auth, notAuthorized, noSuchUser
      <4>2. CASE missingArgument(m)
        BY <1>1, <4>2 DEF missingArgument
      <4>3. CASE m.command = "MOTD" /\ setMotd(m.arguments[1])
        BY <3>5, <4>3, TextType, PropagateExtends, PublicMessages DEF setMotd
      <4>4. CASE targetedCommand(m)
        <5>1. PICK target \in DOMAIN chatees :
                \/ setMute(target, "MUTED", TRUE)
                \/ setMute(target, "UNMUTED", FALSE)
                \/ kick(target)
          BY <4>4 DEF targetedCommand, chateeExists
        <5>2. PICK action \in {"KICKED", "MUTED", "UNMUTED"} :
                toClient' = propagateMessage(chatees, UserChange(action, user(chatees[target])))
          BY <5>1 DEF setMute, kick
        <5>3. user(chatees[target]) \in User
          BY ChateeUser DEF RoomTypeOK
        <5> QED
          BY <5>2, <5>3, PropagateExtends, PublicMessages
      <4> QED
        BY <3>5, <4>1, <4>2, <4>3, <4>4 DEF receiveChatCommand, authorizedCommand
    <3> QED
      BY <2>6, <3>2, <3>3, <3>4, <3>5
  <2> QED
    BY <2>1, <2>3, <2>4, <2>5, <2>6 DEF receiveUntypedMessage, receiveUserJoinRequest
<1> QED
  BY <1>1, <1>2, <1>3 DEF connectionEstablished

\* No step of the server does anything else to the queues.
LEMMA QueueSteps ==
  ASSUME RoomInv, QueuesTypeOK, ServerNext
  PROVE  QueueStep
<1>1. PICK c \in Conns :
        \/ connectionEstablished(c)
        \/ \E m \in Incoming(c) : receiveUntypedMessage(c, m)
        \/ connectionLost(c)
        \/ delivered(c)
        \/ discarded(c)
  BY DEF ServerNext, Incoming
<1>2. CASE delivered(c) \/ discarded(c)
  BY <1>2 DEF delivered, discarded, QueueStep, QueuesTypeOK, Extended, Shorter
<1>3. CASE WriteStep
  BY <1>3 DEF WriteStep, QueueStep, Extended, Shorter
<1> QED
  BY <1>1, <1>2, <1>3, WriteSteps

-----------------------------------------------------------------------------
(* What is under way to the clients *)

\* Reading takes nothing but messages from the front: what is left was there
\* before, and the last message stays the last.
LEMMA ShorterType ==
  ASSUME NEW queue \in Seq(ServerMessage), NEW next, Shorter(queue, next)
  PROVE  /\ next \in Seq(ServerMessage)
         /\ \A i \in 1 .. Len(next) : \E j \in 1 .. Len(queue) : next[i] = queue[j]
         /\ next # << >> => next[Len(next)] = queue[Len(queue)]
<1>1. CASE queue # << >> /\ next = Tail(queue)
  <2>1. /\ next \in Seq(ServerMessage)
        /\ Len(next) = Len(queue) - 1
        /\ \A i \in 1 .. Len(next) : next[i] = queue[i + 1]
    BY <1>1
  <2> QED
    BY <2>1
<1>2. CASE next = queue
  BY <1>2
<1>3. CASE next = << >>
  <2>1. << >> \in Seq(ServerMessage) /\ Len(<< >>) = 0
    OBVIOUS
  <2> QED
    BY <1>3, <2>1
<1> QED
  BY <1>1, <1>2, <1>3 DEF Shorter

\* Writing adds messages the client may hear, and leaves the others.
LEMMA LongerType ==
  ASSUME NEW queue \in Seq(ServerMessage), NEW c \in Conns, NEW next, Longer(c, queue, next)
  PROVE  /\ next \in Seq(ServerMessage)
         /\ \A i \in 1 .. Len(next) :
              MayHear(c, next[i]) \/ \E j \in 1 .. Len(queue) : next[i] = queue[j]
<1>1. ASSUME NEW m, MayHear(c, m), next = Append(queue, m)
      PROVE  /\ next \in Seq(ServerMessage)
             /\ \A i \in 1 .. Len(next) :
                  MayHear(c, next[i]) \/ \E j \in 1 .. Len(queue) : next[i] = queue[j]
  BY <1>1 DEF MayHear
<1>2. ASSUME NEW m, NEW k, MayHear(c, m), MayHear(c, k), next = Append(Append(queue, m), k)
      PROVE  /\ next \in Seq(ServerMessage)
             /\ \A i \in 1 .. Len(next) :
                  MayHear(c, next[i]) \/ \E j \in 1 .. Len(queue) : next[i] = queue[j]
  <2> DEFINE half == Append(queue, m)
  <2>1. /\ half \in Seq(ServerMessage)
        /\ Len(half) = Len(queue) + 1
        /\ half[Len(half)] = m
        /\ \A i \in 1 .. Len(queue) : half[i] = queue[i]
    BY <1>2 DEF MayHear
  <2> HIDE DEF half
  <2>2. next = Append(half, k)
    BY <1>2 DEF half
  <2> QED
    BY <1>2, <2>1, <2>2 DEF MayHear
<1> QED
  BY <1>1, <1>2 DEF Longer, MayHearAlone

\* The ids under way to the clients have been handed out.
QueuesIds ==
  \A c \in Conns : \A i \in 1 .. Len(toClient[c]) :
    HandedOut(listedBy(toClient[c][i]), nextUserId)

\* The queues are well-typed, every whisper in them may be heard, and every id
\* is of a user who has joined.
QueuesInv == QueuesTypeOK /\ WhisperConfined /\ QueuesIds

\* Nothing is under way at first.
LEMMA QueuesInvInit == ServerInit => QueuesInv
BY DEF ServerInit, QueuesInv, QueuesTypeOK, WhisperConfined, QueuesIds

\* Ids are handed out upwards.
LEMMA IdsGrow ==
  ASSUME RoomInv, [ServerNext]_serverVars
  PROVE  nextUserId \in Nat /\ nextUserId' \in Nat /\ nextUserId <= nextUserId'
<1>1. nextUserId \in Nat
  BY DEF RoomInv, RoomTypeOK
<1>2. CASE UNCHANGED serverVars
  BY <1>1, <1>2 DEF serverVars
<1>3. ASSUME NEW n, Altered(n) \/ kick(n)
      PROVE  nextUserId' = nextUserId
  BY <1>3 DEF Altered, kick
<1>4. ASSUME NEW c \in Conns, Entered(c) \/ connectionEstablished(c) \/ connectionLost(c)
      PROVE  nextUserId' \in {nextUserId, nextUserId + 1}
  BY <1>4 DEF Entered, joinAccepted, connectionEstablished, connectionLost
<1>5. CASE ServerNext
  <2>1. nextUserId' \in {nextUserId, nextUserId + 1}
    BY <1>3, <1>4, <1>5, StepKinds DEF RoomInv, Quiet
  <2> QED
    BY <1>1, <2>1
<1> QED
  BY <1>2, <1>5

\* Every step of the server keeps the invariant of the queues.
LEMMA QueuesInvStep == RoomInv /\ QueuesInv /\ [ServerNext]_serverVars => QueuesInv'
<1> SUFFICES ASSUME RoomInv, QueuesInv, [ServerNext]_serverVars
             PROVE  QueuesInv'
  OBVIOUS
<1> USE DEF QueuesInv
<1>1. CASE UNCHANGED serverVars
  BY <1>1 DEF serverVars, QueuesTypeOK, WhisperConfined, QueuesIds
<1>2. CASE ServerNext
  <2>1. QueueStep
    BY <1>2, QueueSteps
  <2>2. ASSUME NEW c \in Conns
        PROVE  /\ toClient'[c] \in Seq(ServerMessage)
               /\ \A i \in 1 .. Len(toClient'[c]) :
                    \/ MayHear(c, toClient'[c][i])
                    \/ \E j \in 1 .. Len(toClient[c]) : toClient'[c][i] = toClient[c][j]
    BY <2>1, ShorterType, LongerType DEF QueueStep, Extended, QueuesTypeOK
  <2>3. QueuesTypeOK'
    <3>1. toClient' = [c \in Conns |-> toClient'[c]]
      BY <2>1 DEF QueueStep
    <3> QED
      BY <2>2, <3>1 DEF QueuesTypeOK
  <2>4. WhisperConfined'
    BY <2>2 DEF WhisperConfined, MayHear
  <2>5. QueuesIds'
    <3> SUFFICES ASSUME NEW c \in Conns, NEW i \in 1 .. Len(toClient'[c])
                 PROVE  HandedOut(listedBy(toClient'[c][i]), nextUserId')
      BY DEF QueuesIds, listedBy, HandedOut
    <3>1. CASE MayHear(c, toClient'[c][i])
      BY <3>1 DEF MayHear
    <3>2. ASSUME NEW j \in 1 .. Len(toClient[c]), toClient'[c][i] = toClient[c][j]
          PROVE  HandedOut(listedBy(toClient'[c][i]), nextUserId')
      <4>1. HandedOut(listedBy(toClient'[c][i]), nextUserId)
        BY <3>2 DEF QueuesIds
      <4> QED
        BY <4>1, IdsGrow DEF HandedOut, User
    <3> QED
      BY <2>2, <3>1, <3>2
  <2> QED
    BY <2>3, <2>4, <2>5
<1> QED
  BY <1>1, <1>2

\* The queues are well-typed and hold no whisper for somebody else.
LEMMA QueuesInvariant == ServerSpec => []QueuesInv
BY QueuesInvInit, QueuesInvStep, RoomInvariant, PTL DEF ServerSpec

\* The room, the sockets and the queues always hold what they are meant to.
THEOREM TypeCorrectness == ServerSpec => []ServerTypeOK
<1>1. RoomInv /\ QueuesInv => ServerTypeOK
  BY DEF RoomInv, QueuesInv, QueuesTypeOK, ServerTypeOK
<1> QED
  BY <1>1, RoomInvariant, QueuesInvariant, PTL

\* Whoever reads a whisper wrote it or is the one it was addressed to.
THEOREM WhisperSafety == ServerSpec => []WhisperConfined
<1>1. QueuesInv => WhisperConfined
  BY DEF QueuesInv
<1> QED
  BY <1>1, QueuesInvariant, PTL

-----------------------------------------------------------------------------
(* Kicks *)

\* The socket of c starts to close only in a step that kicks its chatee.
LEMMA ClosingStep ==
  ASSUME RoomInv, ServerNext, NEW c \in Conns, sock'[c] = "closing", sock[c] # "closing"
  PROVE  \E n \in DOMAIN chatees : kick(n) /\ chatees[n].connection = c
<1> USE DEF RoomInv, RoomTypeOK
<1>1. CASE Quiet
  BY <1>1 DEF Quiet
<1>2. ASSUME NEW n \in DOMAIN chatees, Altered(n)
      PROVE  FALSE
  BY <1>2 DEF Altered
<1>3. ASSUME NEW n \in DOMAIN chatees, kick(n)
      PROVE  chatees[n].connection = c
  BY <1>3 DEF kick, disconnectFromHost
<1>4. ASSUME NEW d \in Conns, Entered(d) \/ connectionEstablished(d) \/ connectionLost(d)
      PROVE  FALSE
  BY <1>4 DEF Entered, joinAccepted, connectionEstablished, connectionLost
<1> QED
  BY <1>1, <1>2, <1>3, <1>4, StepKinds

\* While the socket of c is closing, nothing is written to it and its weak
\* pointer is not set again.
LEMMA ClosingFrozen ==
  ASSUME RoomInv, QueuesInv, ServerNext, NEW c \in Conns, sock[c] = "closing"
  PROVE  Shorter(toClient[c], toClient'[c]) /\ connChatee'[c] = connChatee[c]
<1>1. Shorter(toClient[c], toClient'[c])
  BY QueueSteps DEF QueuesInv, QueueStep, Extended, isAlive
<1>2. connChatee'[c] = connChatee[c]
  BY StepKinds DEF RoomInv, RoomTypeOK, Quiet, Altered, kick, Entered, joinAccepted,
                   connectionEstablished, connectionLost, isAlive
<1> QED
  BY <1>1, <1>2

\* A client that is kicked is told so, and told nothing after it.
THEOREM KickSafety == ServerSpec => []KickIsLast
<1>1. ServerInit => KickIsLast
  BY DEF ServerInit, KickIsLast
<1>2. ASSUME RoomInv, QueuesInv, KickIsLast, [ServerNext]_serverVars
      PROVE  KickIsLast'
  <2>1. CASE UNCHANGED serverVars
    BY <1>2, <2>1 DEF serverVars, KickIsLast
  <2>2. CASE ServerNext
    <3> SUFFICES ASSUME NEW c \in Conns, sock'[c] = "closing", toClient'[c] # << >>
                 PROVE  LET last == toClient'[c][Len(toClient'[c])]
                        IN /\ last.type = "USER_CHANGE"
                           /\ last.action = "KICKED"
                           /\ last.user.id = connChatee'[c]
      BY DEF KickIsLast
    <3>1. CASE sock[c] = "closing"
      <4>1. Shorter(toClient[c], toClient'[c]) /\ connChatee'[c] = connChatee[c]
        BY <1>2, <2>2, <3>1, ClosingFrozen
      <4>2. toClient[c] \in Seq(ServerMessage)
        BY <1>2 DEF QueuesInv, QueuesTypeOK
      <4>3. toClient'[c][Len(toClient'[c])] = toClient[c][Len(toClient[c])]
        BY <4>1, <4>2, ShorterType
      <4>4. toClient[c] # << >>
        BY <4>1 DEF Shorter
      <4> QED
        BY <1>2, <3>1, <4>1, <4>3, <4>4 DEF KickIsLast
    <3>2. CASE sock[c] # "closing"
      <4>1. PICK n \in DOMAIN chatees : kick(n) /\ chatees[n].connection = c
        BY <1>2, <2>2, <3>2, ClosingStep
      <4> DEFINE told == UserChange("KICKED", user(chatees[n]))
      <4>2. toClient'[c] = Append(toClient[c], told) /\ connChatee' = connChatee
        BY <1>2, <4>1 DEF kick, propagateMessage, RoomInv, NoDanglingConnection
      <4>3. told.type = "USER_CHANGE" /\ told.action = "KICKED" /\ told.user.id = connChatee[c]
        BY <1>2, <4>1 DEF UserChange, user, RoomInv, NoDanglingConnection
      <4>4. toClient[c] \in Seq(ServerMessage) /\ told \in ServerMessage
        BY <1>2, UserChangeMessage, ChateeUser DEF QueuesInv, QueuesTypeOK, RoomInv, RoomTypeOK
      <4> HIDE DEF told
      <4>5. toClient'[c][Len(toClient'[c])] = told
        BY <4>2, <4>4
      <4> QED
        BY <4>2, <4>3, <4>5
    <3> QED
      BY <3>1, <3>2
  <2> QED
    BY <1>2, <2>1, <2>2
<1> QED
  BY <1>1, <1>2, RoomInvariant, QueuesInvariant, PTL DEF ServerSpec
=============================================================================
