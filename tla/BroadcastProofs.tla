-------------------------- MODULE BroadcastProofs --------------------------
(***************************************************************************)
(* The server implements RoomBroadcast, for every number of clients and    *)
(* every order of their messages.                                          *)
(***************************************************************************)
EXTENDS ChatServerProofs

\* The room as RoomBroadcast sees it.
Members == [n \in DOMAIN chatees |-> chatees[n].connection]

-----------------------------------------------------------------------------
(* Sending *)

\* A message that was put at the end of a queue is under way.
LEMMA AppendedUnderWay ==
  ASSUME NEW c \in Conns, NEW queue \in Seq(ServerMessage), NEW m \in ServerMessage,
         toClient'[c] = Append(queue, m)
  PROVE  m \in Room!underWay'
<1>1. Len(queue) + 1 \in DOMAIN toClient'[c] /\ toClient'[c][Len(queue) + 1] = m
  OBVIOUS
<1> QED
  BY <1>1 DEF Room!underWay

\* So is one that was followed by another.
LEMMA TwoUnderWay ==
  ASSUME NEW c \in Conns, NEW queue \in Seq(ServerMessage),
         NEW m \in ServerMessage, NEW k \in ServerMessage,
         toClient'[c] = Append(Append(queue, m), k)
  PROVE  m \in Room!underWay' /\ k \in Room!underWay'
<1> DEFINE half == Append(queue, m)
<1>1. half \in Seq(ServerMessage)
  OBVIOUS
<1>2. Len(half) = Len(queue) + 1 /\ half[Len(queue) + 1] = m
  OBVIOUS
<1>3. /\ Len(queue) + 1 \in DOMAIN toClient'[c]
      /\ toClient'[c][Len(queue) + 1] = m
  <2> HIDE DEF half
  <2>1. toClient'[c] = Append(half, k)
    BY DEF half
  <2> QED
    BY <1>1, <1>2, <2>1
<1>4. m \in Room!underWay'
  BY <1>3 DEF Room!underWay
<1> QED
  BY <1>1, <1>4, AppendedUnderWay

\* propagateMessage tells the connections of a room, if they are all open.
LEMMA PropagateTells ==
  ASSUME NEW room, NEW m, \A n \in DOMAIN room : isAlive(room[n].connection)
  PROVE  propagateMessage(room, m)
           = Room!told(toClient, {room[n].connection : n \in DOMAIN room}, m)
BY DEF propagateMessage, Room!told

\* sendMessage tells one connection, if it is open.
LEMMA SendTells ==
  ASSUME NEW c \in Conns, isAlive(c), NEW m, NEW queues, queues = [d \in Conns |-> queues[d]]
  PROVE  sendMessage(queues, c, m) = Room!told(queues, {c}, m)
BY DEF sendMessage, Room!told

\* In the server's room every connection is open.
LEMMA RoomTold ==
  ASSUME RoomInv, NEW m
  PROVE  propagateMessage(chatees, m) = Room!told(toClient, Room!connsOf(Members), m)
<1>1. Room!connsOf(Members) = {chatees[n].connection : n \in DOMAIN chatees}
  BY DEF Room!connsOf, Members
<1>2. \A n \in DOMAIN chatees : isAlive(chatees[n].connection)
  BY DEF RoomInv, NoDanglingConnection
<1> QED
  BY <1>1, <1>2, PropagateTells

-----------------------------------------------------------------------------
(* Membership *)

\* A client that is let in enters the room.
LEMMA JoinEnters ==
  ASSUME RoomInv, QueuesTypeOK, NEW c \in Conns, NEW m, isAlive(c),
         m.name = clientName[c], joinAccepted(c, m)
  PROVE  Room!Enter(clientName[c], c)
<1> DEFINE name == clientName[c]
           new == [id |-> nextUserId, name |-> name, presence |-> "ONLINE",
                   mute |-> FALSE, authorized |-> FALSE, connection |-> c]
           joined == UserChange("JOINED", user(new))
           answer == UserJoinResponse(TRUE, user(new), motd)
<1>1. name \in Names /\ name \notin DOMAIN chatees
  BY ClientNameAssumption DEF joinAccepted, chateeExists
<1>2. \A n \in DOMAIN chatees : chatees[n].connection # c
  BY <1>1 DEF RoomInv, OwnName
<1>3. /\ chatees' = [n \in DOMAIN chatees \cup {name} |-> IF n = name THEN new ELSE chatees[n]]
      /\ toClient' = sendMessage(propagateMessage(chatees', joined), c, answer)
  BY <1>1 DEF joinAccepted, chateeExists, chateeJoined
<1>4. /\ DOMAIN Members = DOMAIN chatees
      /\ c \notin Room!connsOf(Members)
      /\ Members' = [n \in DOMAIN Members \cup {name} |-> IF n = name THEN c ELSE Members[n]]
  BY <1>2, <1>3 DEF Members, Room!connsOf
<1>5. \A n \in DOMAIN chatees' : isAlive(chatees'[n].connection)
  BY <1>3 DEF RoomInv, NoDanglingConnection
<1>6. /\ c \in Room!connsOf(Members')
      /\ Room!connsOf(Members') = {chatees'[n].connection : n \in DOMAIN chatees'}
  BY <1>3 DEF Members, Room!connsOf
<1>7. toClient' = Room!told(Room!told(toClient, Room!connsOf(Members'), joined), {c}, answer)
  <2> DEFINE queues == Room!told(toClient, Room!connsOf(Members'), joined)
  <2>1. propagateMessage(chatees', joined) = queues
    BY <1>5, <1>6, PropagateTells
  <2>2. queues = [d \in Conns |-> queues[d]]
    BY DEF Room!told
  <2>3. sendMessage(queues, c, answer) = Room!told(queues, {c}, answer)
    <3> HIDE DEF queues, answer
    <3> QED
      BY <2>2, SendTells
  <2> QED
    BY <1>3, <2>1, <2>3
<1>8. joined \in ServerMessage /\ answer \in ServerMessage
  <2>1. user(new) \in User
    BY <1>1 DEF User, user, Presences, RoomInv, RoomTypeOK
  <2> QED
    BY <2>1, UserChangeMessage, ResponseMessages DEF RoomInv, RoomTypeOK
<1>9. joined \in Room!underWay' /\ answer \in Room!underWay'
  <2>1. toClient'[c] = Append(Append(toClient[c], joined), answer)
    BY <1>6, <1>7 DEF Room!told
  <2>2. toClient[c] \in Seq(ServerMessage)
    BY DEF QueuesTypeOK
  <2> HIDE DEF joined, answer
  <2> QED
    BY <1>8, <2>1, <2>2, TwoUnderWay
<1>10. /\ Room!isChange(joined, "JOINED", name)
       /\ answer.type = "USER_JOIN_RESPONSE" /\ answer.success
  BY DEF Room!isChange, UserChange, user, UserJoinResponse
<1> HIDE DEF joined, answer, new
<1> QED
  BY <1>1, <1>4, <1>7, <1>9, <1>10 DEF Room!Enter, Members

\* A lost connection takes its chatee out of the room, if there is one.
LEMMA LossLeaves ==
  ASSUME RoomInv, QueuesTypeOK, NEW c \in Conns, connectionLost(c)
  PROVE  (\E n \in DOMAIN Members : Room!Leave(n)) \/ UNCHANGED <<Members, toClient>>
<1>1. CASE UNCHANGED <<chatees, toClient>>
  BY <1>1 DEF Members
<1>2. ASSUME NEW n \in chatee(c), chatees' = chateeLeft(chatees, n),
             toClient' = propagateMessage(chatees', UserChange("LEFT", user(chatees[n])))
      PROVE  n \in DOMAIN Members /\ Room!Leave(n)
  <2> DEFINE left == UserChange("LEFT", user(chatees[n]))
  <2>1. n \in DOMAIN chatees /\ DOMAIN Members = DOMAIN chatees
    BY DEF chatee, Members
  <2>2. chatees' = [k \in DOMAIN chatees \ {n} |-> chatees[k]]
    BY <1>2 DEF chateeLeft
  <2>3. Members' = Room!without(Members, n)
    BY <2>2 DEF Members, Room!without
  <2>4. \A k \in DOMAIN chatees' : isAlive(chatees'[k].connection)
    BY <2>2 DEF RoomInv, NoDanglingConnection
  <2>5. Room!connsOf(Members') = {chatees'[k].connection : k \in DOMAIN chatees'}
    BY <2>2 DEF Members, Room!connsOf
  <2>6. toClient' = Room!told(toClient, Room!connsOf(Members'), left)
    BY <1>2, <2>4, <2>5, PropagateTells
  <2>7. left \in ServerMessage /\ Room!isChange(left, "LEFT", n)
    <3>1. user(chatees[n]) \in User /\ user(chatees[n]).name = n
      BY <2>1, ChateeUser DEF RoomInv, RoomTypeOK, user
    <3> QED
      BY <3>1, UserChangeMessage DEF Room!isChange, UserChange
  <2>8. CASE Room!connsOf(Members') = {}
    <3>1. toClient' = toClient
      BY <2>6, <2>8 DEF Room!told, QueuesTypeOK
    <3> QED
      BY <2>1, <2>3, <2>8, <3>1 DEF Room!Leave, Members
  <2>9. ASSUME NEW d \in Room!connsOf(Members')
        PROVE  n \in DOMAIN Members /\ Room!Leave(n)
    <3>1. d \in Conns
      BY <2>2, <2>5 DEF RoomInv, RoomTypeOK, Chatee
    <3>2. toClient'[d] = Append(toClient[d], left)
      BY <2>6, <3>1 DEF Room!told
    <3> HIDE DEF left
    <3>3. left \in Room!underWay'
      BY <2>7, <3>1, <3>2, AppendedUnderWay DEF QueuesTypeOK
    <3> QED
      BY <2>1, <2>3, <2>6, <2>7, <3>3 DEF Room!Leave, Members
  <2> QED
    BY <2>8, <2>9
<1> QED
  BY <1>1, <1>2 DEF connectionLost, chateeLost

\* A kicked chatee is expelled.
LEMMA KickExpels ==
  ASSUME RoomInv, QueuesTypeOK, NEW n \in DOMAIN chatees, kick(n)
  PROVE  n \in DOMAIN Members /\ Room!Expel(n)
<1> DEFINE kicked == UserChange("KICKED", user(chatees[n]))
           c == chatees[n].connection
<1>1. DOMAIN Members = DOMAIN chatees /\ c \in Conns /\ c \in Room!connsOf(Members)
  BY DEF Members, Room!connsOf, RoomInv, RoomTypeOK, Chatee
<1>2. Members' = Room!without(Members, n)
  BY DEF kick, chateeLeft, Members, Room!without
<1>3. toClient' = Room!told(toClient, Room!connsOf(Members), kicked)
  BY RoomTold DEF kick
<1>4. kicked \in ServerMessage /\ Room!isChange(kicked, "KICKED", n)
  <2>1. user(chatees[n]) \in User /\ user(chatees[n]).name = n
    BY ChateeUser DEF RoomInv, RoomTypeOK, user
  <2> QED
    BY <2>1, UserChangeMessage DEF Room!isChange, UserChange
<1>5. kicked \in Room!underWay'
  <2>1. toClient'[c] = Append(toClient[c], kicked)
    BY <1>1, <1>3 DEF Room!told
  <2> HIDE DEF kicked, c
  <2> QED
    BY <1>1, <1>4, <2>1, AppendedUnderWay DEF QueuesTypeOK
<1> HIDE DEF kicked
<1> QED
  BY <1>1, <1>2, <1>3, <1>4, <1>5 DEF Room!Expel, Members

-----------------------------------------------------------------------------
(* What leaves the members as they are *)

\* A public message of the room is published.
LEMMA PropagatePublishes ==
  ASSUME RoomInv, QueuesTypeOK, NEW n \in DOMAIN chatees, Members' = Members,
         NEW m \in ServerMessage, Room!isPublic(m), toClient' = propagateMessage(chatees, m)
  PROVE  Room!Publish
<1> DEFINE c == chatees[n].connection
<1>1. c \in Conns /\ c \in Room!connsOf(Members)
  BY DEF Members, Room!connsOf, RoomInv, RoomTypeOK, Chatee
<1>2. toClient' = Room!told(toClient, Room!connsOf(Members), m)
  BY RoomTold
<1>3. m \in Room!underWay'
  <2>1. toClient'[c] = Append(toClient[c], m)
    BY <1>1, <1>2 DEF Room!told
  <2> QED
    BY <1>1, <2>1, AppendedUnderWay DEF QueuesTypeOK
<1> QED
  BY <1>2, <1>3 DEF Room!Publish, Members

\* An answer to one client is an answer of the room.
LEMMA SendAnswers ==
  ASSUME QueuesTypeOK, NEW c \in Conns, isAlive(c), Members' = Members,
         NEW m \in ServerMessage, Room!isAnswer(m), toClient' = sendMessage(toClient, c, m)
  PROVE  Room!Answer(c)
<1>1. toClient' = Room!told(toClient, {c}, m)
  BY SendTells DEF QueuesTypeOK
<1>2. toClient'[c] = Append(toClient[c], m)
  BY <1>1 DEF Room!told
<1>3. m \in Room!underWay'
  BY <1>2, AppendedUnderWay DEF QueuesTypeOK
<1> QED
  BY <1>1, <1>3 DEF Room!Answer, Members

\* A whisper that finds its target is a whisper of the room.
LEMMA WhisperWhispers ==
  ASSUME RoomInv, QueuesTypeOK, NEW name \in DOMAIN chatees, NEW m, m.text \in Texts,
         whisper(chatees[name].connection, name, m)
  PROVE  Room!Whisper
<1> DEFINE c == chatees[name].connection
           target == getTarget(chatees, m.target.user_name)
           copy == ChatMessage(m.text, getTarget(chatees, name), target)
           d == chatees[target.user_name].connection
<1>1. /\ target \in ChatTarget /\ target # None
      /\ target.user_name \in DOMAIN chatees
      /\ getTarget(chatees, name) \in ChatTarget
      /\ getTarget(chatees, name).user_name = name
  BY TargetType DEF whisper, getTarget, chateeExists, RoomInv
<1>2. /\ copy \in ServerMessage
      /\ copy.type = "CHAT_MESSAGE" /\ copy.target = target
      /\ copy.from.user_name = name
  <2>1. copy \in ServerMessage
    BY <1>1, ResponseMessages
  <2> QED
    BY <1>1, <2>1 DEF ChatMessage
<1>3. c \in Conns /\ d \in Conns /\ isAlive(c) /\ isAlive(d)
  BY <1>1 DEF RoomInv, RoomTypeOK, NoDanglingConnection, Chatee
<1>4. toClient' = sendMessage(sendMessage(toClient, c, copy), d, copy) /\ chatees' = chatees
  BY DEF whisper
<1> HIDE DEF c, d, copy, target
<1>5. toClient' = Room!told(Room!told(toClient, {c}, copy), {d}, copy)
  <2>1. sendMessage(toClient, c, copy) = Room!told(toClient, {c}, copy)
    BY <1>3, SendTells DEF QueuesTypeOK
  <2> DEFINE half == Room!told(toClient, {c}, copy)
  <2>2. half = [k \in Conns |-> half[k]]
    BY DEF Room!told
  <2> HIDE DEF half
  <2>3. sendMessage(half, d, copy) = Room!told(half, {d}, copy)
    BY <1>3, <2>2, SendTells
  <2> QED
    BY <1>4, <2>1, <2>3 DEF half
<1>6. copy \in Room!underWay'
  <2> DEFINE queue == Room!told(toClient, {c}, copy)[d]
  <2>1. toClient'[d] = Append(queue, copy)
    BY <1>3, <1>5 DEF Room!told
  <2>2. queue = Append(toClient[d], copy) \/ queue = toClient[d]
    BY <1>3 DEF Room!told
  <2>3. queue \in Seq(ServerMessage)
    <3>1. toClient[d] \in Seq(ServerMessage)
      BY <1>3 DEF QueuesTypeOK
    <3> HIDE DEF queue
    <3>2. Append(toClient[d], copy) \in Seq(ServerMessage)
      BY <1>2, <3>1
    <3> QED
      BY <2>2, <3>1, <3>2
  <2> HIDE DEF queue
  <2> QED
    BY <1>2, <1>3, <2>1, <2>3, AppendedUnderWay
<1>7. /\ DOMAIN Members = DOMAIN chatees /\ Members' = Members
      /\ Members[copy.from.user_name] = c /\ Members[copy.target.user_name] = d
  BY <1>1, <1>2, <1>4 DEF Members, c, d
<1>8. Room!isWhisper(copy)
  BY <1>1, <1>2 DEF Room!isWhisper
<1> QED
  BY <1>5, <1>6, <1>7, <1>8 DEF Room!Whisper, Members

-----------------------------------------------------------------------------
(* Every step *)

\* The room hears of a message that a member sent, or the member is answered.
LEMMA ReceiptImplements ==
  ASSUME RoomInv, QueuesTypeOK, NEW c \in Conns, NEW m \in Incoming(c), isAlive(c),
         NEW name \in chatee(c),
         \/ m.type = "USER_LIST_REQUEST" /\ receiveUserListRequest(c)
         \/ m.type = "USER_CHANGE" /\ receiveUserChange(name, m)
         \/ m.type = "CHAT_MESSAGE" /\ receiveChatMessage(c, name, m)
         \/ m.type = "CHAT_COMMAND" /\ receiveChatCommand(c, name, m)
  PROVE  Room!Next \/ UNCHANGED <<Members, toClient>>
<1>1. /\ name \in DOMAIN chatees /\ chatees[name].connection = c
      /\ clientName[c] = name
  BY BackPointer DEF RoomInv, OwnName
<1>2. /\ DOMAIN Members = DOMAIN chatees
      /\ \A k \in DOMAIN chatees :
           getTarget(chatees, k) \in ChatTarget /\ getTarget(chatees, k).user_name = k
  BY TargetType DEF Members, RoomInv, getTarget, chateeExists
<1> DEFINE Answered(answer) == /\ answer \in ServerMessage /\ Room!isAnswer(answer)
                               /\ toClient' = sendMessage(toClient, c, answer)
           Published(message) == /\ message \in ServerMessage /\ Room!isPublic(message)
                                 /\ toClient' = propagateMessage(chatees, message)
<1>3. ASSUME Members' = Members, \E answer : Answered(answer)
      PROVE  Room!Next
  BY <1>3, SendAnswers DEF Room!Next
<1>4. ASSUME Members' = Members, \E message : Published(message)
      PROVE  Room!Next
  BY <1>1, <1>4, PropagatePublishes DEF Room!Next
<1>5. \A success \in BOOLEAN : sendResponse(c, success) => \E answer : Answered(answer)
  <2> SUFFICES ASSUME NEW success \in BOOLEAN, sendResponse(c, success)
               PROVE  Answered(GenericChatResponse(success))
    OBVIOUS
  <2> QED
    BY ResponseMessages DEF sendResponse, GenericChatResponse, Room!isAnswer
<1>6. CASE m.type = "USER_LIST_REQUEST" /\ receiveUserListRequest(c)
  <2> DEFINE list == UserListResponse(users(chatees))
  <2>1. users(chatees) \in SUBSET User
    BY ChateeUser DEF users, RoomInv, RoomTypeOK
  <2>2. list \in ServerMessage
    BY <2>1, ResponseMessages
  <2>3. {u.name : u \in users(chatees)} = DOMAIN chatees
    <3>1. \A n \in DOMAIN chatees : user(chatees[n]).name = n
      BY DEF user, RoomInv, RoomTypeOK
    <3> QED
      BY <3>1 DEF users
  <2>4. Room!isAnswer(list)
    BY <2>3 DEF Room!isAnswer, UserListResponse
  <2>5. Members' = Members /\ Answered(list)
    BY <1>6, <2>2, <2>4 DEF receiveUserListRequest, Members
  <2> QED
    BY <1>3, <2>5
<1>7. CASE m.type = "USER_CHANGE" /\ receiveUserChange(name, m)
  <2>1. m \in ServerMessage /\ m = PresenceChange(name, m.presence)
    BY <1>1, <1>7, UserChangeType DEF Incoming, ClientMessage, MotdCommand, UserJoinRequest,
       UserListRequest, PresenceChange, ChatMessage, ChatCommand
  <2>2. Room!isPublic(m)
    BY <1>1, <1>2, <1>7, <2>1, NoneAssumption DEF Room!isPublic, PresenceChange, Members
  <2>3. Members' = Members
    BY <1>1, <1>7 DEF receiveUserChange, Members
  <2>4. Published(m)
    BY <1>7, <2>1, <2>2 DEF receiveUserChange
  <2> QED
    BY <1>4, <2>3, <2>4
<1>8. CASE m.type = "CHAT_MESSAGE" /\ receiveChatMessage(c, name, m)
  <2>1. m.text \in Texts
    BY <1>8, TextType
  <2>2. Members' = Members
    BY <1>8 DEF receiveChatMessage, whisper, whisperToNobody, publicMessage, mutedMessage, Members
  <2>3. CASE whisper(c, name, m)
    BY <1>1, <2>1, <2>3, WhisperWhispers DEF Room!Next
  <2>4. CASE whisperToNobody(c, m) \/ mutedMessage(c, name)
    BY <1>3, <1>5, <2>2, <2>4 DEF whisperToNobody, mutedMessage
  <2>5. CASE publicMessage(name, m)
    <3> DEFINE copy == ChatMessage(m.text, getTarget(chatees, name), None)
    <3>1. copy \in ServerMessage
      BY <1>1, <1>2, <2>1, ResponseMessages
    <3>2. Room!isPublic(copy)
      BY <1>1, <1>2 DEF Room!isPublic, ChatMessage, Members
    <3>3. Published(copy)
      BY <2>5, <3>1, <3>2 DEF publicMessage
    <3> QED
      BY <1>4, <2>2, <3>3
  <2> QED
    BY <1>8, <2>3, <2>4, <2>5 DEF receiveChatMessage
<1>9. CASE m.type = "CHAT_COMMAND" /\ receiveChatCommand(c, name, m)
  <2>1. CASE auth(c, name, m)
    <3>1. Members' = Members
      BY <1>1, <2>1 DEF auth, Members
    <3>2. \E success \in BOOLEAN : sendResponse(c, success)
      BY <2>1 DEF auth
    <3> QED
      BY <1>3, <1>5, <3>1, <3>2
  <2>2. CASE notAuthorized(c, name) \/ noSuchUser(c, m)
    <3>1. Members' = Members
      BY <2>2 DEF notAuthorized, noSuchUser, Members
    <3> QED
      BY <1>3, <1>5, <2>2, <3>1 DEF notAuthorized, noSuchUser
  <2>3. CASE missingArgument(m)
    BY <2>3 DEF missingArgument, Members
  <2>4. CASE m.command = "MOTD" /\ setMotd(m.arguments[1])
    <3> DEFINE change == ChatroomChange(m.arguments[1])
    <3>1. change \in ServerMessage
      BY <1>9, <2>4, TextType, ResponseMessages
    <3>2. Room!isPublic(change)
      BY DEF Room!isPublic, ChatroomChange
    <3>3. Members' = Members /\ Published(change)
      BY <2>4, <3>1, <3>2 DEF setMotd, Members
    <3> QED
      BY <1>4, <3>3
  <2>5. ASSUME NEW target \in DOMAIN chatees, NEW action \in {"MUTED", "UNMUTED"},
               NEW mute \in BOOLEAN, setMute(target, action, mute)
        PROVE  Room!Next
    <3> DEFINE change == UserChange(action, user(chatees[target]))
    <3>1. user(chatees[target]) \in User /\ user(chatees[target]).name = target
      BY ChateeUser DEF RoomInv, RoomTypeOK, user
    <3>2. change \in ServerMessage
      BY <3>1, UserChangeMessage
    <3>3. Room!isPublic(change)
      BY <1>2, <3>1 DEF Room!isPublic, UserChange, Members
    <3>4. Members' = Members
      BY <2>5 DEF setMute, Members
    <3>5. Published(change)
      BY <2>5, <3>2, <3>3 DEF setMute
    <3> QED
      BY <1>4, <3>4, <3>5
  <2>6. CASE targetedCommand(m)
    <3>1. PICK target \in DOMAIN chatees :
            \/ setMute(target, "MUTED", TRUE)
            \/ setMute(target, "UNMUTED", FALSE)
            \/ kick(target)
      BY <2>6 DEF targetedCommand, chateeExists
    <3>2. CASE kick(target)
      BY <3>2, KickExpels DEF Room!Next, Members
    <3> QED
      BY <2>5, <3>1, <3>2
  <2> QED
    BY <1>9, <2>1, <2>2, <2>3, <2>4, <2>6 DEF receiveChatCommand, authorizedCommand
<1> QED
  BY <1>6, <1>7, <1>8, <1>9

\* Every step of the server is a step of the room, or none of its business.
LEMMA BroadcastStep ==
  ASSUME RoomInv, QueuesTypeOK, ServerNext
  PROVE  Room!Next \/ UNCHANGED <<Members, toClient>>
<1>1. PICK c \in Conns :
        \/ connectionEstablished(c)
        \/ \E m \in Incoming(c) : receiveUntypedMessage(c, m)
        \/ connectionLost(c)
        \/ delivered(c)
        \/ discarded(c)
  BY DEF ServerNext, Incoming
<1>2. CASE connectionEstablished(c)
  BY <1>2 DEF connectionEstablished, Members
<1>3. CASE connectionLost(c)
  BY <1>3, LossLeaves DEF Room!Next, Members
<1>4. CASE delivered(c)
  BY <1>4 DEF delivered, Room!Read, Room!Next, Members
<1>5. CASE discarded(c)
  BY <1>5 DEF discarded, Room!Discard, Room!Next, Members
<1>6. ASSUME NEW m \in Incoming(c), receiveUntypedMessage(c, m)
      PROVE  Room!Next \/ UNCHANGED <<Members, toClient>>
  <2>1. CASE ignored(c, m)
    BY <2>1 DEF ignored, serverVars, Members
  <2>2. CASE isAlive(c) /\ m.type = "USER_JOIN_REQUEST" /\ receiveUserJoinRequest(c, m)
    <3>1. CASE joinAccepted(c, m)
      BY <2>2, <3>1, JoinRequestName, JoinEnters, ClientNameAssumption DEF Room!Next
    <3>2. CASE joinRefused(c, m)
      <4> DEFINE answer == UserJoinResponse(FALSE, None, motd)
      <4>1. answer \in ServerMessage
        BY ResponseMessages DEF RoomInv, RoomTypeOK
      <4>2. Room!isAnswer(answer)
        BY DEF Room!isAnswer, UserJoinResponse
      <4>3. Members' = Members /\ toClient' = sendMessage(toClient, c, answer)
        BY <3>2 DEF joinRefused, Members
      <4> HIDE DEF answer
      <4> QED
        BY <2>2, <4>1, <4>2, <4>3, SendAnswers DEF Room!Next
    <3> QED
      BY <2>2, <3>1, <3>2 DEF receiveUserJoinRequest
  <2>3. ASSUME isAlive(c), NEW name \in chatee(c),
               \/ m.type = "USER_LIST_REQUEST" /\ receiveUserListRequest(c)
               \/ m.type = "USER_CHANGE" /\ receiveUserChange(name, m)
               \/ m.type = "CHAT_MESSAGE" /\ receiveChatMessage(c, name, m)
               \/ m.type = "CHAT_COMMAND" /\ receiveChatCommand(c, name, m)
        PROVE  Room!Next \/ UNCHANGED <<Members, toClient>>
    BY <2>3, ReceiptImplements
  <2> QED
    BY <1>6, <2>1, <2>2, <2>3 DEF receiveUntypedMessage
<1> QED
  BY <1>1, <1>2, <1>3, <1>4, <1>5, <1>6

\* Nobody in the room misses a message, hears one twice or in another order,
\* and membership changes as it is announced: the server implements the
\* broadcast, in spite of everything else its handlers do.
THEOREM BroadcastRefinement == ServerSpec => ImplementsBroadcast
<1>1. ServerInit => Room!Init
  BY DEF ServerInit, EmptyRoom, Room!Init
<1>2. RoomInv /\ QueuesInv /\ [ServerNext]_serverVars => [Room!Next]_(Room!roomVars)
  <2> SUFFICES ASSUME RoomInv, QueuesInv, [ServerNext]_serverVars
               PROVE  [Room!Next]_(Room!roomVars)
    OBVIOUS
  <2>1. CASE UNCHANGED serverVars
    BY <2>1 DEF serverVars, Room!roomVars
  <2>2. CASE ServerNext
    BY <2>2, BroadcastStep DEF QueuesInv, Room!roomVars, Members
  <2> QED
    BY <2>1, <2>2
<1> QED
  BY <1>1, <1>2, RoomInvariant, QueuesInvariant, PTL
     DEF ServerSpec, ImplementsBroadcast, Room!Spec
=============================================================================
