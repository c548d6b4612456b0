---------------------------- MODULE SystemProofs ----------------------------
(***************************************************************************)
(* The whole system behaves towards the server as ServerSpec says, so that *)
(* everything proved of the server holds of it: the clients there really   *)
(* are send only what ClientMessage lists.                                 *)
(***************************************************************************)
EXTENDS SimpleChat, BroadcastProofs

-----------------------------------------------------------------------------
(* Mirrors *)

\* A mirror maps names to users who carry them, and whose ids are in use.
MirrorOK(room, next) ==
  /\ DOMAIN room \subseteq Names
  /\ \A n \in DOMAIN room : /\ room[n] \in User
                            /\ room[n].name = n
                            /\ room[n].id \in 1 .. next - 1

\* What the messages of the server carry.
LEMMA ServerMessageFields ==
  ASSUME NEW m \in ServerMessage
  PROVE  /\ m.type = "USER_CHANGE" => m.presence \in Presences \cup {None}
         /\ m.type = "USER_JOIN_RESPONSE" => m.motd \in Texts \cup {EmptyText}
         /\ m.type = "CHATROOM_CHANGE" => m.motd \in Texts
BY DEF ServerMessage

\* A user who joins is entered under the name it carries.
LEMMA JoinedMirror ==
  ASSUME NEW room, NEW next, MirrorOK(room, next), NEW u, HandedOut({u}, next)
  PROVE  MirrorOK(chateeJoined(room, u.name, u), next)
BY DEF MirrorOK, HandedOut, chateeJoined, chateeExists, User

\* So are the users of a list.
LEMMA ListedMirror ==
  ASSUME NEW room, NEW next, MirrorOK(room, next), NEW list, HandedOut(list, next)
  PROVE  MirrorOK(listReceived(room, list), next)
<1> DEFINE listed == listReceived(room, list)
<1>1. DOMAIN listed = DOMAIN room \cup {u.name : u \in list}
  BY DEF listReceived
<1>2. ASSUME NEW n \in DOMAIN listed
      PROVE  n \in Names /\ listed[n] \in User /\ listed[n].name = n /\ listed[n].id \in 1 .. next - 1
  <2>1. CASE n \in DOMAIN room
    BY <2>1 DEF listReceived, chateeExists, MirrorOK
  <2>2. CASE n \notin DOMAIN room
    <3>1. \E u \in list : u.name = n
      BY <1>1, <2>2
    <3>2. listed[n] = CHOOSE u \in list : u.name = n
      BY <2>2, <1>1 DEF listReceived, chateeExists
    <3>3. listed[n] \in list /\ listed[n].name = n
      BY <3>1, <3>2
    <3> QED
      BY <3>3 DEF HandedOut, User
  <2> QED
    BY <2>1, <2>2
<1> QED
  BY <1>2 DEF MirrorOK

\* A change keeps a mirror in order, of whomever it tells.
LEMMA ChangedMirror ==
  ASSUME NEW room, NEW next, MirrorOK(room, next), NEW m \in ServerMessage,
         m.type = "USER_CHANGE", HandedOut(listedBy(m), next)
  PROVE  MirrorOK(userChanged(room, m), next)
<1> DEFINE name == m.user.name
<1>1. CASE m.action = "JOINED"
  <2>1. HandedOut({m.user}, next)
    BY <1>1 DEF listedBy
  <2>2. userChanged(room, m) = chateeJoined(room, name, m.user)
    BY <1>1 DEF userChanged
  <2> QED
    BY <2>1, <2>2, JoinedMirror
<1>2. CASE m.action # "JOINED" /\ ~chateeExists(room, name)
  BY <1>2 DEF userChanged
<1>3. CASE m.action # "JOINED" /\ chateeExists(room, name)
  <2> DEFINE changed == presenceChanged(room, name, m.presence)
  <2>1. MirrorOK(changed, next) /\ name \in DOMAIN changed
    <3>1. CASE m.presence = None
      BY <1>3, <3>1 DEF presenceChanged, chateeExists
    <3>2. CASE m.presence # None
      <4>1. changed = [room EXCEPT ![name].presence = m.presence]
        BY <3>2 DEF presenceChanged
      <4>2. m.presence \in Presences
        BY <3>2, ServerMessageFields
      <4>3. room[name] \in User /\ name \in DOMAIN room
        BY <1>3 DEF chateeExists, MirrorOK
      <4>4. [room[name] EXCEPT !.presence = m.presence] \in User
        BY <4>2, <4>3 DEF User
      <4> QED
        BY <4>1, <4>3, <4>4 DEF MirrorOK, User
    <3> QED
      BY <3>1, <3>2
  <2>2. userChanged(room, m) = actionTaken(changed, name, m.action)
    BY <1>3 DEF userChanged
  <2> HIDE DEF changed, name
  <2>3. CASE m.action \in {"MUTED", "UNMUTED"}
    <3>1. userChanged(room, m) = [changed EXCEPT ![name].mute = (m.action = "MUTED")]
      BY <2>2, <2>3 DEF actionTaken
    <3>2. changed[name] \in User
      BY <2>1 DEF MirrorOK
    <3>3. [changed[name] EXCEPT !.mute = (m.action = "MUTED")] \in User
      BY <3>2 DEF User
    <3> QED
      BY <2>1, <3>1, <3>2, <3>3 DEF MirrorOK, User
  <2>4. CASE m.action \in {"LEFT", "KICKED"}
    <3>1. userChanged(room, m) = chateeLeft(changed, name)
      BY <2>2, <2>4 DEF actionTaken
    <3> QED
      BY <2>1, <3>1 DEF MirrorOK, chateeLeft
  <2>5. CASE m.action \notin {"MUTED", "UNMUTED", "LEFT", "KICKED"}
    BY <2>1, <2>2, <2>5 DEF actionTaken
  <2> QED
    BY <2>3, <2>4, <2>5
<1> QED
  BY <1>1, <1>2, <1>3

\* Reading a message keeps a mirror in order.
LEMMA ReadMirror ==
  ASSUME NEW room, NEW next, MirrorOK(room, next), NEW m \in ServerMessage,
         HandedOut(listedBy(m), next)
  PROVE  MirrorOK(roomAfter(room, m), next)
<1>1. CASE m.type = "USER_JOIN_RESPONSE" /\ m.success
  <2>1. HandedOut({m.user}, next)
    BY <1>1 DEF listedBy
  <2> QED
    BY <1>1, <2>1, JoinedMirror DEF roomAfter
<1>2. CASE m.type = "USER_LIST_RESPONSE"
  BY <1>2, ListedMirror DEF roomAfter, listedBy
<1>3. CASE m.type = "USER_CHANGE"
  BY <1>3, ChangedMirror DEF roomAfter
<1>4. CASE /\ m.type \notin {"USER_LIST_RESPONSE", "USER_CHANGE"}
           /\ ~(m.type = "USER_JOIN_RESPONSE" /\ m.success)
  BY <1>4 DEF roomAfter
<1> QED
  BY <1>1, <1>2, <1>3, <1>4

\* A mirror stays in order when more ids are handed out.
LEMMA MirrorKept ==
  ASSUME NEW room, NEW next \in Nat, NEW later \in Nat, next <= later, MirrorOK(room, next)
  PROVE  MirrorOK(room, later)
BY DEF MirrorOK, User

-----------------------------------------------------------------------------
(* What the clients send *)

\* What a client has sent and the server has not read is a message of its own.
SentOK(c, queue) == queue \in Seq(Incoming(c))

\* A client may send what it might have sent before more ids were handed out.
LEMMA IncomingGrows ==
  ASSUME NEW c \in Conns, nextUserId \in Nat, nextUserId' \in Nat, nextUserId <= nextUserId'
  PROVE  Incoming(c) \subseteq Incoming(c)'
<1> DEFINE Whispers(k) ==
             {ChatMessage(text, None, [user_id |-> id, user_name |-> n]) :
                text \in Texts, id \in 1 .. k - 1, n \in Names}
           Before ==
             {UserJoinRequest(clientName[c]), UserListRequest}
               \cup {PresenceChange(clientName[c], p) : p \in Presences}
               \cup {ChatMessage(text, None, None) : text \in Texts}
           Words1 == {ChatCommand(command, <<word>>) :
                        command \in CommandTypes \ {"MOTD"}, word \in Words}
           Words0 == {ChatCommand(command, << >>) : command \in CommandTypes \ {"MOTD"}}
<1>1. ASSUME NEW m \in Whispers(nextUserId)
      PROVE  m \in Whispers(nextUserId')
  <2>1. PICK text \in Texts, id \in 1 .. nextUserId - 1, n \in Names :
          m = ChatMessage(text, None, [user_id |-> id, user_name |-> n])
    BY <1>1
  <2>2. id \in 1 .. nextUserId' - 1
    BY <2>1
  <2> QED
    BY <2>1, <2>2
<1>2. Incoming(c) = (Before \cup Whispers(nextUserId) \cup Words1 \cup Words0) \cup MotdCommand
  BY DEF Incoming, ClientMessage
<1>3. Incoming(c)' = (Before \cup Whispers(nextUserId') \cup Words1 \cup Words0) \cup MotdCommand
  BY DEF Incoming, ClientMessage
<1> HIDE DEF Before, Whispers, Words1, Words0
<1> QED
  BY <1>1, <1>2, <1>3

\* A message without a target is one a client may send.
LEMMA PublicIncoming ==
  ASSUME NEW c \in Conns, NEW text \in Texts
  PROVE  ChatMessage(text, None, None) \in Incoming(c)
BY DEF Incoming, ClientMessage

\* So is a whisper to a user of its mirror.
LEMMA WhisperIncoming ==
  ASSUME NEW c \in Conns, NEW text \in Texts, NEW n, MirrorOK(mirror[c], nextUserId)
  PROVE  ChatMessage(text, None, getTarget(mirror[c], n)) \in Incoming(c)
<1>1. CASE chateeExists(mirror[c], n)
  <2>1. n \in Names /\ mirror[c][n].id \in 1 .. nextUserId - 1
    BY <1>1 DEF chateeExists, MirrorOK
  <2>2. getTarget(mirror[c], n) = [user_id |-> mirror[c][n].id, user_name |-> n]
    BY <1>1 DEF getTarget
  <2> QED
    BY <2>1, <2>2 DEF Incoming, ClientMessage
<1>2. CASE ~chateeExists(mirror[c], n)
  BY <1>2, PublicIncoming DEF getTarget
<1> QED
  BY <1>1, <1>2

\* The words of a line that ends in a space lose the last.
LEMMA SplitType ==
  ASSUME NEW words \in Seq(STRING) \ {<< >>}
  PROVE  split(words) \in Seq(STRING)
<1>1. Len(words) \in Nat \ {0}
  OBVIOUS
<1>2. SubSeq(words, 1, Len(words) - 1) \in Seq(STRING)
  BY <1>1
<1> QED
  BY <1>2 DEF split

\* The first word stays.
LEMMA SplitFirst ==
  ASSUME NEW words \in Seq(STRING) \ {<< >>}, Len(split(words)) >= 2
  PROVE  split(words)[1] = words[1]
<1>1. CASE words[Len(words)] = ""
  <2>1. PICK n \in Nat \ {0} : n = Len(words)
    OBVIOUS
  <2>2. split(words) = SubSeq(words, 1, n - 1)
    BY <1>1, <2>1 DEF split
  <2>3. n - 1 >= 2
    <3>1. Len(SubSeq(words, 1, n - 1)) = n - 1
      BY <2>1
    <3> QED
      BY <2>2, <3>1
  <2>4. SubSeq(words, 1, n - 1)[1] = words[1]
    BY <2>1, <2>3
  <2> QED
    BY <2>2, <2>4
<1>2. CASE words[Len(words)] # ""
  BY <1>2 DEF split
<1> QED
  BY <1>1, <1>2

\* What CommandParser makes of a line is a command a client may send.
LEMMA CommandIncoming ==
  ASSUME NEW c \in Conns, NEW line \in Lines[c], line.slash,
         line.words[1] \notin WhisperWords, chatCommand(line.words) # None
  PROVE  chatCommand(line.words) \in Incoming(c)
<1> DEFINE words == line.words
           command == getCommandType(words[1])
           arguments == Tail(split(words))
<1>1. words \in Seq(STRING) \ {<< >>}
  BY LinesAssumption
<1>2. Len(split(words)) >= 2 /\ getCommandType(split(words)[1]) # "UNKNOWN"
  <2>1. ~(Len(split(words)) < 2 \/ getCommandType(split(words)[1]) = "UNKNOWN")
    BY DEF chatCommand
  <2>2. split(words) \in Seq(STRING)
    BY <1>1, SplitType
  <2>3. Len(split(words)) \in Nat
    BY <2>2
  <2> QED
    BY <2>1, <2>3
<1>3. split(words) \in Seq(STRING) /\ split(words)[1] = words[1]
  BY <1>1, <1>2, SplitType, SplitFirst
<1>4. arguments \in Seq(STRING)
  BY <1>2, <1>3
<1>5. chatCommand(words) = ChatCommand(command, insertData(command, arguments))
  BY <1>2, <1>3 DEF chatCommand
<1>6. command \in CommandTypes
  BY <1>2, <1>3 DEF getCommandType, CommandTypes
<1>7. /\ command = "MOTD" => arguments \in Texts
      /\ Len(arguments) = 1 => arguments[1] \in Words
  BY <1>2, LinesAssumption
<1> HIDE DEF words, command, arguments
<1>8. CASE command = "MOTD"
  <2>1. chatCommand(words) = ChatCommand("MOTD", <<arguments>>)
    BY <1>5, <1>8 DEF insertData
  <2> QED
    BY <1>7, <1>8, <2>1 DEF words, Incoming, MotdCommand
<1>9. CASE command # "MOTD" /\ Len(arguments) = 1
  <2>1. arguments = <<arguments[1]>>
    BY <1>4, <1>9
  <2>2. chatCommand(words) = ChatCommand(command, <<arguments[1]>>)
    BY <1>5, <1>9, <2>1 DEF insertData
  <2> QED
    BY <1>6, <1>7, <1>9, <2>2 DEF words, Incoming, ClientMessage
<1>10. CASE command # "MOTD" /\ Len(arguments) # 1
  <2>1. chatCommand(words) = ChatCommand(command, << >>)
    BY <1>5, <1>10 DEF insertData
  <2> QED
    BY <1>6, <1>10, <2>1 DEF words, Incoming, ClientMessage
<1> QED
  BY <1>8, <1>9, <1>10

-----------------------------------------------------------------------------
(* The clients *)

\* The clients are well-typed, know of no id that is not in use, and have sent
\* only what ClientMessage lists.
ClientsInv ==
  /\ phase \in [Conns -> Phases]
  /\ shownMotd \in [Conns -> Texts \cup {EmptyText, None}]
  /\ mirror = [c \in Conns |-> mirror[c]]
  /\ \A c \in Conns : MirrorOK(mirror[c], nextUserId)
  /\ toServer = [c \in Conns |-> toServer[c]]
  /\ \A c \in Conns : SentOK(c, toServer[c])

\* What a step may do to the clients: one gets to another phase, sends a
\* message or loses some, or reads one.
PhaseStep(c) == UNCHANGED phase \/ \E p \in Phases : phase' = [phase EXCEPT ![c] = p]

SentStep(c) ==
  \/ UNCHANGED toServer
  \/ \E m \in Incoming(c) : sendAnyMessage(c, m)
  \/ toServer[c] # << >> /\ toServer' = [toServer EXCEPT ![c] = Tail(@)]
  \/ toServer' = [toServer EXCEPT ![c] = << >>]

ReadStep(c) ==
  \/ UNCHANGED <<mirror, shownMotd>>
  \/ /\ toClient[c] # << >>
     /\ mirror' = [mirror EXCEPT ![c] = roomAfter(@, Head(toClient[c]))]
     /\ shownMotd' = [shownMotd EXCEPT ![c] = motdAfter(@, Head(toClient[c]))]

\* Whatever line a user types, a message of ClientMessage is sent for it.
LEMMA LineSends ==
  ASSUME ClientsInv, NEW c \in Conns, NEW line \in Lines[c], returnPressed(c, line)
  PROVE  \E m \in Incoming(c) : sendAnyMessage(c, m)
<1>1. CASE typesWhisper(c, line)
  <2> DEFINE text == SubSeq(line.words, 3, Len(line.words))
  <2>1. text \in Texts
    BY <1>1, LinesAssumption DEF typesWhisper
  <2>2. sendAnyMessage(c, ChatMessage(text, None, getTarget(mirror[c], line.words[2])))
    BY <1>1 DEF typesWhisper, sendTo
  <2>3. MirrorOK(mirror[c], nextUserId)
    BY DEF ClientsInv
  <2> HIDE DEF text
  <2> QED
    BY <2>1, <2>2, <2>3, WhisperIncoming
<1>2. CASE typesCommand(c, line)
  BY <1>2, CommandIncoming DEF typesCommand
<1>3. CASE typesMessage(c, line)
  <2>1. line.words \in Texts
    BY <1>3, LinesAssumption DEF typesMessage
  <2> QED
    BY <1>3, <2>1, PublicIncoming DEF typesMessage
<1> QED
  BY <1>1, <1>2, <1>3 DEF returnPressed

\* Every step of the system is one of these at one client.
LEMMA ClientSteps ==
  ASSUME ClientsInv, Next
  PROVE  \E c \in Conns : PhaseStep(c) /\ SentStep(c) /\ ReadStep(c)
<1>1. PICK c \in Conns : ClientReceives(c) \/ OtherStep(c)
  BY DEF Next
<1>2. phase[c] \in Phases
  BY DEF ClientsInv
<1>3. CASE ClientReceives(c)
  <2> DEFINE m == Head(toClient[c])
  <2>1. toClient[c] # << >> /\ handleUntypedMessage(c, m)
    BY <1>3 DEF ClientReceives
  <2>2. PhaseStep(c)
    <3>1. phaseAfter(phase[c], m) \in Phases
      BY <1>2 DEF phaseAfter, Phases
    <3> QED
      BY <2>1, <3>1 DEF handleUntypedMessage, PhaseStep
  <2>3. SentStep(c)
    BY <2>1 DEF handleUntypedMessage, SentStep, Incoming, ClientMessage
  <2>4. ReadStep(c)
    BY <2>1 DEF handleUntypedMessage, ReadStep
  <2> QED
    BY <2>2, <2>3, <2>4
<1>4. CASE Login(c)
  <2>1. UserJoinRequest(clientName[c]) \in Incoming(c)
    BY DEF Incoming, ClientMessage
  <2> QED
    BY <1>4, <2>1 DEF Login, login, loginFails, PhaseStep, SentStep, ReadStep, Phases
<1>5. CASE Input(c)
  <2>1. ASSUME NEW line \in Lines[c], returnPressed(c, line)
        PROVE  PhaseStep(c) /\ SentStep(c) /\ ReadStep(c)
    BY <2>1, LineSends DEF returnPressed, PhaseStep, SentStep, ReadStep
  <2>2. ASSUME NEW presence \in PresenceInputs, updatePresence(c, presence)
        PROVE  PhaseStep(c) /\ SentStep(c) /\ ReadStep(c)
    <3>1. PresenceChange(clientName[c], presence) \in Incoming(c)
      BY InputAssumption DEF Incoming, ClientMessage
    <3> QED
      BY <2>2, <3>1 DEF updatePresence, PhaseStep, SentStep, ReadStep
  <2>3. CASE disconnects(c)
    BY <2>3 DEF disconnects, PhaseStep, SentStep, ReadStep, Phases
  <2> QED
    BY <1>5, <2>1, <2>2, <2>3 DEF Input
<1>6. CASE ServerAccepts(c) \/ ServerReceives(c)
  BY <1>6 DEF ServerAccepts, ServerReceives, clientVars, PhaseStep, SentStep, ReadStep
<1>7. CASE ServerLoses(c)
  BY <1>7 DEF ServerLoses, PhaseStep, SentStep, ReadStep
<1>8. CASE ClientLoses(c)
  BY <1>8 DEF ClientLoses, disconnects, PhaseStep, SentStep, ReadStep, Phases
<1> QED
  BY <1>1, <1>3, <1>4, <1>5, <1>6, <1>7, <1>8
     DEF OtherStep, ServerSeesEnd, ClientSeesEnd, NetworkFails

\* Every step of the system is one of the server's, or leaves it alone.
LEMMA ServerSteps ==
  ASSUME ClientsInv, [Next]_vars
  PROVE  [ServerNext]_serverVars
<1>1. CASE UNCHANGED vars
  BY <1>1 DEF vars
<1>2. CASE Next
  <2>1. PICK c \in Conns : ClientReceives(c) \/ OtherStep(c)
    BY <1>2 DEF Next
  <2>2. CASE ClientReceives(c) \/ ClientLoses(c)
    BY <2>2 DEF ClientReceives, ClientLoses, ServerNext
  <2>3. CASE Login(c) \/ Input(c)
    BY <2>3 DEF Login, Input, ServerNext
  <2>4. CASE ServerAccepts(c) \/ ServerLoses(c)
    BY <2>4 DEF ServerAccepts, ServerLoses, ServerNext
  <2>5. CASE ServerReceives(c)
    <3>1. Head(toServer[c]) \in Incoming(c)
      BY <2>5 DEF ServerReceives, ClientsInv, SentOK
    <3> QED
      BY <2>5, <3>1 DEF ServerReceives, ServerNext, Incoming
  <2> QED
    BY <2>1, <2>2, <2>3, <2>4, <2>5 DEF OtherStep, ServerSeesEnd, ClientSeesEnd, NetworkFails
<1> QED
  BY <1>1, <1>2

-----------------------------------------------------------------------------
(* The invariant of the system *)

SystemInv == RoomInv /\ QueuesInv /\ ClientsInv

\* Nobody has said or heard anything at first.
LEMMA SystemInvInit == Init => SystemInv
<1>1. Init => ClientsInv
  BY DEF Init, ServerInit, ClientInit, ClientsInv, Phases, MirrorOK, EmptyRoom, SentOK
<1> QED
  BY <1>1, RoomInvInit, QueuesInvInit DEF Init, SystemInv

\* What a client shows as the motd is a text, or none yet.
LEMMA MotdType ==
  ASSUME NEW m \in ServerMessage, NEW text \in Texts \cup {EmptyText, None}
  PROVE  motdAfter(text, m) \in Texts \cup {EmptyText, None}
BY ServerMessageFields DEF motdAfter

\* Every step of the system keeps the clients in order.
LEMMA ClientsInvStep ==
  ASSUME SystemInv, [Next]_vars
  PROVE  ClientsInv'
<1>1. [ServerNext]_serverVars
  BY ServerSteps DEF SystemInv
<1>2. nextUserId \in Nat /\ nextUserId' \in Nat /\ nextUserId <= nextUserId'
  BY <1>1, IdsGrow DEF SystemInv
<1>3. CASE UNCHANGED vars
  <2>1. UNCHANGED clientVars /\ nextUserId' = nextUserId
    BY <1>3 DEF vars, serverVars
  <2>2. \A c \in Conns : Incoming(c)' = Incoming(c)
    BY <2>1 DEF Incoming, ClientMessage
  <2> QED
    BY <2>1, <2>2 DEF SystemInv, ClientsInv, clientVars, MirrorOK, SentOK
<1>4. CASE Next
  <2>1. PICK d \in Conns : PhaseStep(d) /\ SentStep(d) /\ ReadStep(d)
    BY <1>4, ClientSteps DEF SystemInv
  <2> DEFINE m == Head(toClient[d])
  <2>2. ASSUME toClient[d] # << >>
        PROVE  m \in ServerMessage /\ HandedOut(listedBy(m), nextUserId)
    <3>1. toClient[d] \in Seq(ServerMessage)
      BY DEF SystemInv, QueuesInv, QueuesTypeOK
    <3>2. m = toClient[d][1] /\ 1 \in 1 .. Len(toClient[d]) /\ m \in ServerMessage
      BY <2>2, <3>1
    <3> QED
      BY <3>2 DEF SystemInv, QueuesInv, QueuesIds
  <2> HIDE DEF m
  <2>3. (phase \in [Conns -> Phases])'
    BY <2>1 DEF SystemInv, ClientsInv, PhaseStep
  <2>4. (shownMotd \in [Conns -> Texts \cup {EmptyText, None}])'
    <3>1. CASE UNCHANGED shownMotd
      BY <3>1 DEF SystemInv, ClientsInv
    <3>2. CASE toClient[d] # << >> /\ shownMotd' = [shownMotd EXCEPT ![d] = motdAfter(@, m)]
      <4>1. motdAfter(shownMotd[d], m) \in Texts \cup {EmptyText, None}
        BY <2>2, <3>2, MotdType DEF SystemInv, ClientsInv
      <4> QED
        BY <3>2, <4>1 DEF SystemInv, ClientsInv
    <3> QED
      BY <2>1, <3>1, <3>2 DEF ReadStep, m
  <2>5. (mirror = [c \in Conns |-> mirror[c]])' /\ \A c \in Conns : MirrorOK(mirror'[c], nextUserId')
    <3>1. \A c \in Conns : MirrorOK(mirror[c], nextUserId')
      BY <1>2, MirrorKept DEF SystemInv, ClientsInv
    <3>2. CASE UNCHANGED mirror
      BY <3>1, <3>2 DEF SystemInv, ClientsInv
    <3>3. CASE toClient[d] # << >> /\ mirror' = [mirror EXCEPT ![d] = roomAfter(@, m)]
      <4>1. MirrorOK(roomAfter(mirror[d], m), nextUserId)
        BY <2>2, <3>3, ReadMirror DEF SystemInv, ClientsInv
      <4>2. MirrorOK(roomAfter(mirror[d], m), nextUserId')
        BY <1>2, <4>1, MirrorKept
      <4>3. mirror = [c \in Conns |-> mirror[c]]
        BY DEF SystemInv, ClientsInv
      <4> QED
        BY <3>1, <3>3, <4>2, <4>3
    <3> QED
      BY <2>1, <3>2, <3>3 DEF ReadStep, m
  <2>6. (toServer = [c \in Conns |-> toServer[c]])' /\ \A c \in Conns : toServer'[c] \in Seq(Incoming(c)')
    <3>1. \A c \in Conns : Incoming(c) \subseteq Incoming(c)'
      BY <1>2, IncomingGrows
    <3>2. toServer = [c \in Conns |-> toServer[c]] /\ \A c \in Conns : toServer[c] \in Seq(Incoming(c))
      BY DEF SystemInv, ClientsInv, SentOK
    <3>3. \A c \in Conns : toServer[c] \in Seq(Incoming(c)')
      BY <3>1, <3>2
    <3>4. CASE UNCHANGED toServer
      BY <3>2, <3>3, <3>4
    <3>5. ASSUME NEW sent \in Incoming(d), sendAnyMessage(d, sent)
          PROVE  /\ (toServer = [c \in Conns |-> toServer[c]])'
                 /\ \A c \in Conns : toServer'[c] \in Seq(Incoming(c)')
      <4>1. Append(toServer[d], sent) \in Seq(Incoming(d)')
        BY <3>1, <3>3
      <4>2. toServer' = [toServer EXCEPT ![d] = Append(@, sent)]
        BY <3>5 DEF sendAnyMessage
      <4> QED
        BY <3>2, <3>3, <4>1, <4>2
    <3>6. CASE toServer[d] # << >> /\ toServer' = [toServer EXCEPT ![d] = Tail(@)]
      <4>1. Tail(toServer[d]) \in Seq(Incoming(d)')
        BY <3>3, <3>6
      <4> QED
        BY <3>2, <3>3, <3>6, <4>1
    <3>7. CASE toServer' = [toServer EXCEPT ![d] = << >>]
      BY <3>2, <3>3, <3>7
    <3> QED
      BY <2>1, <3>4, <3>5, <3>6, <3>7 DEF SentStep
  <2> QED
    BY <2>3, <2>4, <2>5, <2>6 DEF ClientsInv, MirrorOK, SentOK
<1> QED
  BY <1>3, <1>4

\* Every step of the system keeps its invariant.
LEMMA SystemInvStep == SystemInv /\ [Next]_vars => SystemInv'
<1> SUFFICES ASSUME SystemInv, [Next]_vars
             PROVE  SystemInv'
  OBVIOUS
<1>1. [ServerNext]_serverVars
  BY ServerSteps DEF SystemInv
<1> QED
  BY <1>1, RoomInvStep, QueuesInvStep, ClientsInvStep DEF SystemInv

\* The server is never asked anything but what ClientMessage lists, and no
\* client drifts out of order.
LEMMA SystemInvariant == Spec => []SystemInv
BY SystemInvInit, SystemInvStep, PTL DEF Spec

-----------------------------------------------------------------------------
(* Questions and answers *)

AnswerTypes == {"USER_JOIN_RESPONSE", "USER_LIST_RESPONSE"}

\* A queue is left as it is, or gets a message or two that answer nothing.
Unasked(queue, next) ==
  \/ next = queue
  \/ \E m : m.type \notin AnswerTypes /\ next = Append(queue, m)
  \/ \E m : m.type \notin AnswerTypes /\ next = Append(Append(queue, m), m)

\* A client is answered, and hears at most something else before the answer.
Answered(c, m) ==
  \E half : Unasked(toClient[c], half) /\ toClient'[c] = Append(half, m)

\* What is carried by a queue that got longer.
LEMMA CarriesAppend ==
  ASSUME NEW S, NEW queue \in Seq(S), NEW m, NEW type
  PROVE  /\ carries(Append(queue, m), type) <=> carries(queue, type) \/ m.type = type
         /\ carriesOnce(queue, type) /\ (m.type = type => ~carries(queue, type))
              => carriesOnce(Append(queue, m), type)
<1> DEFINE long == Append(queue, m)
           n == Len(queue)
<1>1. n \in Nat /\ Len(long) = n + 1 /\ long[n + 1] = m /\ \A i \in 1 .. n : long[i] = queue[i]
  <2>1. queue \in Seq(S \cup {m}) /\ m \in S \cup {m}
    OBVIOUS
  <2> QED
    BY <2>1
<1> HIDE DEF long
<1>2. 1 .. n + 1 = 1 .. n \cup {n + 1} /\ n + 1 \notin 1 .. n
  BY <1>1
<1>3. carries(long, type) <=> carries(queue, type) \/ m.type = type
  BY <1>1, <1>2 DEF carries
<1>4. ASSUME carriesOnce(queue, type), m.type = type => ~carries(queue, type),
             NEW i \in 1 .. n + 1, NEW j \in 1 .. n + 1, long[i].type = type, long[j].type = type
      PROVE  i = j
  <2>1. CASE i \in 1 .. n /\ j \in 1 .. n
    BY <1>1, <1>4, <2>1 DEF carriesOnce
  <2>2. CASE i = n + 1 \/ j = n + 1
    BY <1>1, <1>2, <1>4, <2>2 DEF carries
  <2> QED
    BY <1>2, <2>1, <2>2
<1>5. carriesOnce(queue, type) /\ (m.type = type => ~carries(queue, type))
        => carriesOnce(long, type)
  BY <1>1, <1>4 DEF carriesOnce
<1> QED
  BY <1>3, <1>5 DEF long

\* What is carried by a queue whose first message was read.
LEMMA CarriesTail ==
  ASSUME NEW S, NEW queue \in Seq(S), queue # << >>, NEW type
  PROVE  /\ carries(queue, type) <=> Head(queue).type = type \/ carries(Tail(queue), type)
         /\ carriesOnce(queue, type)
              => /\ carriesOnce(Tail(queue), type)
                 /\ Head(queue).type = type => ~carries(Tail(queue), type)
<1> DEFINE rest == Tail(queue)
           n == Len(queue) - 1
<1>1. /\ Len(rest) = n /\ n \in Nat /\ Len(queue) = n + 1
      /\ Head(queue) = queue[1] /\ \A i \in 1 .. n : rest[i] = queue[i + 1]
  OBVIOUS
<1> HIDE DEF rest, n
<1>2. /\ 1 \in 1 .. n + 1
      /\ \A i \in 1 .. n : i + 1 \in 1 .. n + 1 /\ i + 1 # 1
      /\ \A i \in 1 .. n + 1 : i = 1 \/ (i - 1 \in 1 .. n /\ (i - 1) + 1 = i)
      /\ \A i, j \in 1 .. n : i + 1 = j + 1 => i = j
  BY <1>1
<1>3. carries(queue, type) <=> queue[1].type = type \/ carries(rest, type)
  <2>1. ASSUME NEW i \in 1 .. n + 1, queue[i].type = type, i # 1
        PROVE  carries(rest, type)
    <3>1. i - 1 \in 1 .. n /\ rest[i - 1] = queue[i]
      BY <1>1, <1>2, <2>1
    <3> QED
      BY <1>1, <2>1, <3>1 DEF carries
  <2>2. ASSUME NEW i \in 1 .. n, rest[i].type = type
        PROVE  carries(queue, type)
    <3>1. i + 1 \in 1 .. Len(queue) /\ queue[i + 1].type = type
      BY <1>1, <1>2, <2>2
    <3> QED
      BY <3>1 DEF carries
  <2>3. queue[1].type = type => carries(queue, type)
    BY <1>1, <1>2 DEF carries
  <2> QED
    BY <1>1, <2>1, <2>2, <2>3 DEF carries
<1>4. ASSUME carriesOnce(queue, type)
      PROVE  carriesOnce(rest, type) /\ (queue[1].type = type => ~carries(rest, type))
  BY <1>1, <1>2, <1>4 DEF carries, carriesOnce
<1> QED
  BY <1>1, <1>3, <1>4 DEF rest

\* An empty queue carries nothing.
LEMMA CarriesNothing ==
  ASSUME NEW type
  PROVE  ~carries(<< >>, type) /\ carriesOnce(<< >>, type)
<1>1. 1 .. Len(<< >>) = {}
  OBVIOUS
<1> QED
  BY <1>1 DEF carries, carriesOnce

\* What a client was not asked for does not count.
LEMMA CarriesUnasked ==
  ASSUME NEW S, NEW queue \in Seq(S), NEW next, Unasked(queue, next)
  PROVE  /\ \E T : next \in Seq(T)
         /\ \A type \in AnswerTypes :
              /\ carries(next, type) <=> carries(queue, type)
              /\ carriesOnce(queue, type) => carriesOnce(next, type)
<1>1. CASE next = queue
  BY <1>1
<1>2. ASSUME NEW m, m.type \notin AnswerTypes, NEW T, NEW q \in Seq(T)
      PROVE  /\ Append(q, m) \in Seq(T \cup {m})
             /\ \A type \in AnswerTypes :
                  /\ carries(Append(q, m), type) <=> carries(q, type)
                  /\ carriesOnce(q, type) => carriesOnce(Append(q, m), type)
  <2>1. Append(q, m) \in Seq(T \cup {m})
    <3>1. q \in Seq(T \cup {m}) /\ m \in T \cup {m}
      OBVIOUS
    <3> QED
      BY <3>1
  <2> QED
    BY <1>2, <2>1, CarriesAppend
<1>3. ASSUME NEW m, m.type \notin AnswerTypes, next = Append(queue, m)
      PROVE  /\ next \in Seq(S \cup {m})
             /\ \A type \in AnswerTypes :
                  /\ carries(next, type) <=> carries(queue, type)
                  /\ carriesOnce(queue, type) => carriesOnce(next, type)
  BY <1>2, <1>3
<1>4. ASSUME NEW m, m.type \notin AnswerTypes, next = Append(Append(queue, m), m)
      PROVE  /\ next \in Seq((S \cup {m}) \cup {m})
             /\ \A type \in AnswerTypes :
                  /\ carries(next, type) <=> carries(queue, type)
                  /\ carriesOnce(queue, type) => carriesOnce(next, type)
  <2> DEFINE half == Append(queue, m)
  <2>1. /\ half \in Seq(S \cup {m})
        /\ \A type \in AnswerTypes :
             /\ carries(half, type) <=> carries(queue, type)
             /\ carriesOnce(queue, type) => carriesOnce(half, type)
    BY <1>2, <1>4
  <2>2. next = Append(half, m)
    BY <1>4
  <2> HIDE DEF half
  <2>3. /\ Append(half, m) \in Seq((S \cup {m}) \cup {m})
        /\ \A type \in AnswerTypes :
             /\ carries(Append(half, m), type) <=> carries(half, type)
             /\ carriesOnce(half, type) => carriesOnce(Append(half, m), type)
    BY <1>2, <1>4, <2>1
  <2> QED
    BY <2>1, <2>2, <2>3
<1> QED
  BY <1>1, <1>3, <1>4 DEF Unasked

\* A queue that holds an answer which lets its client in.
welcomes(queue) == \E i \in 1 .. Len(queue) : LetsIn(queue[i])

LEMMA WelcomesAppend ==
  ASSUME NEW S, NEW queue \in Seq(S), NEW m, welcomes(Append(queue, m))
  PROVE  welcomes(queue) \/ LetsIn(m)
<1>1. queue \in Seq(S \cup {m}) /\ m \in S \cup {m}
  OBVIOUS
<1>2. /\ Len(Append(queue, m)) = Len(queue) + 1 /\ Len(queue) \in Nat
      /\ Append(queue, m)[Len(queue) + 1] = m
      /\ \A i \in 1 .. Len(queue) : Append(queue, m)[i] = queue[i]
  BY <1>1
<1>3. \A i \in 1 .. Len(queue) + 1 : i = Len(queue) + 1 \/ i \in 1 .. Len(queue)
  BY <1>2
<1> QED
  BY <1>2, <1>3 DEF welcomes

LEMMA WelcomesTail ==
  ASSUME NEW S, NEW queue \in Seq(S), queue # << >>
  PROVE  LetsIn(Head(queue)) \/ welcomes(Tail(queue)) => welcomes(queue)
<1>1. /\ Len(Tail(queue)) = Len(queue) - 1 /\ Len(queue) \in Nat \ {0}
      /\ Head(queue) = queue[1] /\ 1 \in 1 .. Len(queue)
      /\ \A i \in 1 .. Len(queue) - 1 : i + 1 \in 1 .. Len(queue) /\ Tail(queue)[i] = queue[i + 1]
  OBVIOUS
<1> QED
  BY <1>1 DEF welcomes

LEMMA WelcomesUnasked ==
  ASSUME NEW S, NEW queue \in Seq(S), NEW next, Unasked(queue, next), welcomes(next)
  PROVE  welcomes(queue)
<1>1. ASSUME NEW m, m.type \notin AnswerTypes
      PROVE  ~LetsIn(m)
  BY <1>1 DEF LetsIn, AnswerTypes
<1>2. ASSUME NEW m, m.type \notin AnswerTypes, NEW T, NEW q \in Seq(T), welcomes(Append(q, m))
      PROVE  welcomes(q)
  BY <1>1, <1>2, WelcomesAppend
<1>3. ASSUME NEW m, m.type \notin AnswerTypes, next = Append(Append(queue, m), m)
      PROVE  welcomes(queue)
  <2> DEFINE half == Append(queue, m)
  <2>1. half \in Seq(S \cup {m})
    <3>1. queue \in Seq(S \cup {m}) /\ m \in S \cup {m}
      OBVIOUS
    <3> QED
      BY <3>1
  <2>2. welcomes(Append(half, m))
    BY <1>3
  <2> HIDE DEF half
  <2>3. welcomes(half)
    BY <1>2, <1>3, <2>1, <2>2
  <2> QED
    BY <1>2, <1>3, <2>3 DEF half
<1> QED
  BY <1>2, <1>3 DEF Unasked

\* A message that is passed on or sent back answers no request.
LEMMA SendUnasked ==
  ASSUME QueuesTypeOK, NEW c, NEW m, m.type \notin AnswerTypes, toClient' = sendMessage(toClient, c, m)
  PROVE  \A d \in Conns : Unasked(toClient[d], toClient'[d])
BY DEF QueuesTypeOK, sendMessage, Unasked

LEMMA PropagateUnasked ==
  ASSUME QueuesTypeOK, NEW room, NEW m, m.type \notin AnswerTypes,
         toClient' = propagateMessage(room, m)
  PROVE  \A d \in Conns : Unasked(toClient[d], toClient'[d])
BY DEF propagateMessage, Unasked

\* What the server does about a message: it answers a request of a client that
\* may ask, and nothing else is an answer.
LEMMA RequestsAnswered ==
  ASSUME RoomInv, QueuesTypeOK, NEW c \in Conns, NEW m \in Incoming(c), receiveUntypedMessage(c, m)
  PROVE  \/ /\ \A d \in Conns : Unasked(toClient[d], toClient'[d])
            /\ isAlive(c) => /\ m.type # "USER_JOIN_REQUEST"
                             /\ m.type = "USER_LIST_REQUEST" => chatee(c) = {}
         \/ /\ \A d \in Conns \ {c} : Unasked(toClient[d], toClient'[d])
            /\ \E e \in Exchanges : \E answer :
                 /\ m.type = e.request /\ answer.type = e.answer
                 /\ Answered(c, answer)
                 /\ LetsIn(answer) => InRoom(c)'
<1> DEFINE Quietly == \A d \in Conns : Unasked(toClient[d], toClient'[d])
           join == [phase |-> "joining", request |-> "USER_JOIN_REQUEST",
                    answer |-> "USER_JOIN_RESPONSE"]
           list == [phase |-> "member", request |-> "USER_LIST_REQUEST",
                    answer |-> "USER_LIST_RESPONSE"]
<1>1. ASSUME UNCHANGED toClient
      PROVE  Quietly
  BY <1>1 DEF Unasked
<1>2. CASE ignored(c, m)
  BY <1>1, <1>2 DEF ignored, serverVars
<1>3. CASE isAlive(c) /\ m.type = "USER_JOIN_REQUEST" /\ joinAccepted(c, m)
  <2> DEFINE new == [id |-> nextUserId, name |-> m.name, presence |-> "ONLINE",
                     mute |-> FALSE, authorized |-> FALSE, connection |-> c]
             room == chateeJoined(chatees, m.name, new)
             joined == UserChange("JOINED", user(new))
             answer == UserJoinResponse(TRUE, user(new), motd)
             told == propagateMessage(room, joined)
  <2>1. toClient' = sendMessage(told, c, answer) /\ chatees' = room
    BY <1>3 DEF joinAccepted
  <2>2. joined.type = "USER_CHANGE" /\ answer.type = "USER_JOIN_RESPONSE"
    BY DEF UserChange, UserJoinResponse
  <2>3. InRoom(c)'
    BY <1>3, <2>1 DEF InRoom, joinAccepted, chateeJoined, chateeExists
  <2> HIDE DEF new, room, joined, answer
  <2>4. \A d \in Conns : Unasked(toClient[d], told[d])
    BY <2>2 DEF propagateMessage, Unasked, AnswerTypes
  <2>5. DOMAIN told = Conns
    BY DEF propagateMessage
  <2> HIDE DEF told
  <2>6. toClient'[c] = Append(told[c], answer) /\ \A d \in Conns \ {c} : toClient'[d] = told[d]
    BY <1>3, <2>1, <2>5 DEF sendMessage
  <2>7. join \in Exchanges /\ m.type = join.request /\ answer.type = join.answer
    BY <1>3, <2>2 DEF Exchanges
  <2>8. Answered(c, answer)
    BY <2>4, <2>6 DEF Answered
  <2> HIDE DEF join
  <2> QED
    BY <2>3, <2>4, <2>6, <2>7, <2>8
<1>4. ASSUME NEW answer, NEW e \in Exchanges, isAlive(c), m.type = e.request, answer.type = e.answer,
             ~LetsIn(answer), toClient' = sendMessage(toClient, c, answer)
      PROVE  /\ \A d \in Conns \ {c} : Unasked(toClient[d], toClient'[d])
             /\ \E f \in Exchanges : \E a :
                  /\ m.type = f.request /\ a.type = f.answer
                  /\ Answered(c, a)
                  /\ LetsIn(a) => InRoom(c)'
  <2>1. toClient'[c] = Append(toClient[c], answer) /\ \A d \in Conns \ {c} : toClient'[d] = toClient[d]
    BY <1>4 DEF sendMessage, QueuesTypeOK
  <2> QED
    BY <1>4, <2>1 DEF Answered, Unasked
<1>5. CASE isAlive(c) /\ m.type = "USER_JOIN_REQUEST" /\ joinRefused(c, m)
  <2> DEFINE answer == UserJoinResponse(FALSE, None, motd)
  <2>1. toClient' = sendMessage(toClient, c, answer)
    BY <1>5 DEF joinRefused
  <2>2. answer.type = "USER_JOIN_RESPONSE" /\ ~LetsIn(answer)
    BY DEF UserJoinResponse, LetsIn
  <2>3. join \in Exchanges /\ m.type = join.request /\ answer.type = join.answer
    BY <1>5, <2>2 DEF Exchanges
  <2> HIDE DEF answer, join
  <2> QED
    BY <1>4, <1>5, <2>1, <2>2, <2>3
<1>6. ASSUME isAlive(c), m.type # "USER_JOIN_REQUEST", NEW name \in chatee(c),
             \/ m.type = "USER_LIST_REQUEST" /\ receiveUserListRequest(c)
             \/ m.type = "USER_CHANGE" /\ receiveUserChange(name, m)
             \/ m.type = "CHAT_MESSAGE" /\ receiveChatMessage(c, name, m)
             \/ m.type = "CHAT_COMMAND" /\ receiveChatCommand(c, name, m)
      PROVE  \/ m.type # "USER_LIST_REQUEST" /\ Quietly
             \/ /\ \A d \in Conns \ {c} : Unasked(toClient[d], toClient'[d])
                /\ \E e \in Exchanges : \E answer :
                     /\ m.type = e.request /\ answer.type = e.answer
                     /\ Answered(c, answer)
                     /\ LetsIn(answer) => InRoom(c)'
  <2>1. ASSUME NEW success, sendResponse(c, success)
        PROVE  Quietly
    <3>1. GenericChatResponse(success).type \notin AnswerTypes
      BY DEF GenericChatResponse, AnswerTypes
    <3> QED
      BY <2>1, <3>1, SendUnasked DEF sendResponse
  <2>2. CASE m.type = "USER_LIST_REQUEST" /\ receiveUserListRequest(c)
    <3> DEFINE answer == UserListResponse(users(chatees))
    <3>1. toClient' = sendMessage(toClient, c, answer)
      BY <2>2 DEF receiveUserListRequest
    <3>2. answer.type = "USER_LIST_RESPONSE" /\ ~LetsIn(answer)
      BY DEF UserListResponse, LetsIn
    <3>3. list \in Exchanges /\ m.type = list.request /\ answer.type = list.answer
      BY <2>2, <3>2 DEF Exchanges
    <3> HIDE DEF answer, list
    <3> QED
      BY <1>4, <1>6, <3>1, <3>2, <3>3
  <2>3. CASE m.type = "USER_CHANGE" /\ receiveUserChange(name, m)
    BY <2>3, PropagateUnasked DEF receiveUserChange, AnswerTypes
  <2>4. CASE m.type = "CHAT_MESSAGE" /\ receiveChatMessage(c, name, m)
    <3>1. \A text, from, target : ChatMessage(text, from, target).type \notin AnswerTypes
      BY DEF ChatMessage, AnswerTypes
    <3>2. CASE whisper(c, name, m)
      <4> DEFINE target == getTarget(chatees, m.target.user_name)
                 copy == ChatMessage(m.text, getTarget(chatees, name), target)
                 d == chatees[target.user_name].connection
      <4>1. toClient' = sendMessage(sendMessage(toClient, c, copy), d, copy)
        BY <3>2 DEF whisper
      <4>2. copy.type \notin AnswerTypes
        BY <3>1
      <4> HIDE DEF target, copy, d
      <4>3. Quietly
        BY <4>1, <4>2 DEF QueuesTypeOK, sendMessage, Unasked
      <4> QED
        BY <2>4, <4>3
    <3>3. CASE publicMessage(name, m)
      BY <2>4, <3>1, <3>3, PropagateUnasked DEF publicMessage
    <3>4. CASE whisperToNobody(c, m) \/ mutedMessage(c, name)
      BY <2>1, <2>4, <3>4 DEF whisperToNobody, mutedMessage
    <3> QED
      BY <2>4, <3>2, <3>3, <3>4 DEF receiveChatMessage
  <2>5. CASE m.type = "CHAT_COMMAND" /\ receiveChatCommand(c, name, m)
    <3>1. CASE auth(c, name, m) \/ notAuthorized(c, name) \/ noSuchUser(c, m)
      BY <2>1, <2>5, <3>1 DEF auth, notAuthorized, noSuchUser
    <3>2. CASE missingArgument(m)
      BY <1>1, <2>5, <3>2 DEF missingArgument
    <3>3. CASE setMotd(m.arguments[1])
      <4>1. \A text : ChatroomChange(text).type \notin AnswerTypes
        BY DEF ChatroomChange, AnswerTypes
      <4> QED
        BY <2>5, <3>3, <4>1, PropagateUnasked DEF setMotd
    <3>4. CASE targetedCommand(m)
      <4>1. PICK action, u : toClient' = propagateMessage(chatees, UserChange(action, u))
        BY <3>4 DEF targetedCommand, setMute, kick
      <4>2. UserChange(action, u).type \notin AnswerTypes
        BY DEF UserChange, AnswerTypes
      <4> QED
        BY <2>5, <4>1, <4>2, PropagateUnasked
    <3> QED
      BY <2>5, <3>1, <3>2, <3>3, <3>4 DEF receiveChatCommand, authorizedCommand
  <2> QED
    BY <1>6, <2>2, <2>3, <2>4, <2>5
<1> QED
  BY <1>2, <1>3, <1>5, <1>6 DEF receiveUntypedMessage, receiveUserJoinRequest

\* Whoever is in the room stays there while its connection is open, and a
\* connection that is closing or gone stays so.
LEMMA StaysInside ==
  ASSUME RoomInv, [ServerNext]_serverVars, NEW d \in Conns, sock'[d] \in {"idle", "connected"}
  PROVE  sock[d] \in {"idle", "connected"} /\ (InRoom(d) => InRoom(d)')
<1> USE DEF RoomInv, InRoom
<1>1. CASE UNCHANGED serverVars
  BY <1>1 DEF serverVars
<1>2. CASE Quiet
  BY <1>2 DEF Quiet
<1>3. ASSUME NEW n \in DOMAIN chatees, Altered(n)
      PROVE  sock[d] \in {"idle", "connected"} /\ (InRoom(d) => InRoom(d)')
  BY <1>3 DEF Altered
<1>4. ASSUME NEW n \in DOMAIN chatees, kick(n)
      PROVE  sock[d] \in {"idle", "connected"} /\ (InRoom(d) => InRoom(d)')
  <2>1. /\ DOMAIN chatees' = DOMAIN chatees \ {n}
        /\ \A k \in DOMAIN chatees' : chatees'[k] = chatees[k]
        /\ sock' = [sock EXCEPT ![chatees[n].connection] = IF @ = "connected" THEN "closing" ELSE @]
        /\ chatees[n].connection \in Conns /\ sock[chatees[n].connection] = "connected"
    BY <1>4 DEF kick, chateeLeft, disconnectFromHost, RoomTypeOK, Chatee, NoDanglingConnection,
       isAlive
  <2>2. d # chatees[n].connection /\ sock'[d] = sock[d]
    BY <2>1 DEF RoomTypeOK
  <2> QED
    BY <2>1, <2>2
<1>5. ASSUME NEW c \in Conns, Entered(c)
      PROVE  sock[d] \in {"idle", "connected"} /\ (InRoom(d) => InRoom(d)')
  <2>1. /\ \A n \in DOMAIN chatees : n \in DOMAIN chatees' /\ chatees'[n] = chatees[n]
        /\ sock' = sock
    BY <1>5 DEF Entered, joinAccepted, chateeJoined, chateeExists
  <2> QED
    BY <2>1
<1>6. ASSUME NEW c \in Conns, connectionEstablished(c)
      PROVE  sock[d] \in {"idle", "connected"} /\ (InRoom(d) => InRoom(d)')
  BY <1>6 DEF connectionEstablished, RoomTypeOK
<1>7. ASSUME NEW c \in Conns, connectionLost(c)
      PROVE  sock[d] \in {"idle", "connected"} /\ (InRoom(d) => InRoom(d)')
  <2>1. d # c /\ sock'[d] = sock[d]
    BY <1>7 DEF connectionLost, RoomTypeOK
  <2>2. ASSUME NEW n \in chatee(c), chatees' = chateeLeft(chatees, n)
        PROVE  InRoom(d) => InRoom(d)'
    <3>1. chatees[n].connection = c
      BY BackPointer
    <3> QED
      BY <2>1, <2>2, <3>1 DEF chateeLeft
  <2> QED
    BY <1>7, <2>1, <2>2 DEF connectionLost, chateeLost
<1> QED
  BY <1>1, <1>2, <1>3, <1>4, <1>5, <1>6, <1>7, StepKinds

\* AnswersInv, as a statement about one client.
AnswersOK(c) ==
  phase[c] # "gone" =>
    /\ \A e \in Exchanges :
         /\ phase[c] = e.phase /\ sock[c] \in {"idle", "connected"}
              => carries(toServer[c], e.request) \/ carries(toClient[c], e.answer)
         /\ carries(toServer[c], e.request) \/ carries(toClient[c], e.answer) => phase[c] = e.phase
         /\ ~carries(toServer[c], e.request) \/ ~carries(toClient[c], e.answer)
         /\ carriesOnce(toServer[c], e.request) /\ carriesOnce(toClient[c], e.answer)
    /\ (phase[c] \in {"member", "listed"} \/ welcomes(toClient[c]))
         /\ sock[c] \in {"idle", "connected"} => InRoom(c)

LEMMA AnswersMeans ==
  /\ AnswersInv <=> \A c \in Conns : AnswersOK(c)
  /\ AnswersInv' <=> \A c \in Conns : AnswersOK(c)'
<1>1. \A e \in Exchanges : e.phase # "gone" /\ e.request # e.answer /\ e.answer \in AnswerTypes
  BY DEF Exchanges, AnswerTypes
<1>2. \A c \in Conns : LetIn(c) <=> phase[c] \in {"member", "listed"} \/ welcomes(toClient[c])
  BY DEF LetIn, welcomes, LetsIn
<1>3. \A c \in Conns :
        LetIn(c)' <=> phase'[c] \in {"member", "listed"} \/ welcomes(toClient'[c])
  BY DEF LetIn, welcomes, LetsIn
<1>4. AnswersInv <=> \A c \in Conns : AnswersOK(c)
  BY <1>1, <1>2 DEF AnswersInv, NobodyWaitsInVain, AnsweredOnce, InsideWhileOpen, AnswersOK
<1>5. AnswersInv' <=> \A c \in Conns : AnswersOK(c)'
  BY <1>1, <1>3 DEF AnswersInv, NobodyWaitsInVain, AnsweredOnce, InsideWhileOpen, AnswersOK
<1> QED
  BY <1>4, <1>5

LEMMA AnswersInvInit == Init => AnswersInv
<1> SUFFICES ASSUME Init, NEW c \in Conns
             PROVE  AnswersOK(c)
  BY AnswersMeans
<1>1. phase[c] = "idle" /\ toServer[c] = << >> /\ toClient[c] = << >>
  BY DEF Init, ServerInit, ClientInit
<1>2. ~welcomes(<< >>)
  BY DEF welcomes
<1> QED
  BY <1>1, <1>2, CarriesNothing DEF AnswersOK, Exchanges

\* A step that leaves a client in its phase, and neither takes a request that the
\* server is to answer nor adds an answer or a request.
LEMMA AnswersKept ==
  ASSUME NEW d \in Conns, AnswersOK(d), phase'[d] = phase[d],
         \A e \in Exchanges :
           /\ carries(toServer'[d], e.request) => carries(toServer[d], e.request)
           /\ carriesOnce(toServer[d], e.request) => carriesOnce(toServer'[d], e.request)
           /\ carries(toClient'[d], e.answer) <=> carries(toClient[d], e.answer)
           /\ carriesOnce(toClient[d], e.answer) => carriesOnce(toClient'[d], e.answer)
           /\ sock'[d] \in {"idle", "connected"} /\ carries(toServer[d], e.request)
                => carries(toServer'[d], e.request),
         welcomes(toClient'[d]) => welcomes(toClient[d]),
         sock'[d] \in {"idle", "connected"}
           => sock[d] \in {"idle", "connected"} /\ (InRoom(d) => InRoom(d)')
  PROVE  AnswersOK(d)'
BY DEF AnswersOK

\* A client that a step neither answers nor moves.
LEMMA AnswersStill ==
  ASSUME SystemInv, [Next]_vars, NEW d \in Conns, AnswersOK(d), phase'[d] = phase[d],
         toServer'[d] = toServer[d], Unasked(toClient[d], toClient'[d])
  PROVE  AnswersOK(d)'
<1>1. [ServerNext]_serverVars /\ RoomInv /\ toClient[d] \in Seq(ServerMessage)
  BY ServerSteps DEF SystemInv, QueuesInv, QueuesTypeOK
<1>2. sock'[d] \in {"idle", "connected"}
        => sock[d] \in {"idle", "connected"} /\ (InRoom(d) => InRoom(d)')
  BY <1>1, StaysInside
<1>3. PICK queue : queue = toClient[d]
  OBVIOUS
<1>4. PICK next : next = toClient'[d]
  OBVIOUS
<1>5. queue \in Seq(ServerMessage) /\ Unasked(queue, next)
  BY <1>1, <1>3, <1>4
<1>6. /\ \A e \in Exchanges : e.answer \in AnswerTypes
      /\ \A type \in AnswerTypes :
           /\ carries(next, type) <=> carries(queue, type)
           /\ carriesOnce(queue, type) => carriesOnce(next, type)
      /\ welcomes(next) => welcomes(queue)
  BY <1>5, CarriesUnasked, WelcomesUnasked DEF Exchanges, AnswerTypes
<1>7. /\ welcomes(toClient'[d]) => welcomes(toClient[d])
      /\ \A e \in Exchanges :
           /\ carries(toClient'[d], e.answer) <=> carries(toClient[d], e.answer)
           /\ carriesOnce(toClient[d], e.answer) => carriesOnce(toClient'[d], e.answer)
  BY <1>3, <1>4, <1>6
<1> QED
  BY <1>2, <1>7, AnswersKept

\* A client that has gone waits for nothing.
LEMMA AnswersGone ==
  ASSUME NEW d \in Conns, phase'[d] = "gone"
  PROVE  AnswersOK(d)'
BY DEF AnswersOK

\* A client sends something that is not answered.
LEMMA AnswersSent ==
  ASSUME SystemInv, [Next]_vars, NEW c \in Conns, AnswersOK(c), NEW m, sendAnyMessage(c, m),
         m.type \notin {"USER_JOIN_REQUEST", "USER_LIST_REQUEST"},
         UNCHANGED <<phase, toClient>>
  PROVE  AnswersOK(c)'
<1>1. [ServerNext]_serverVars /\ RoomInv
  BY ServerSteps DEF SystemInv
<1>2. sock'[c] \in {"idle", "connected"}
        => sock[c] \in {"idle", "connected"} /\ (InRoom(c) => InRoom(c)')
  BY <1>1, StaysInside
<1>3. toServer[c] \in Seq(Incoming(c)) /\ toServer'[c] = Append(toServer[c], m)
  BY DEF SystemInv, ClientsInv, SentOK, sendAnyMessage
<1>4. \A e \in Exchanges :
        /\ carries(toServer'[c], e.request) <=> carries(toServer[c], e.request)
        /\ carriesOnce(toServer[c], e.request) => carriesOnce(toServer'[c], e.request)
  <2>1. \A e \in Exchanges : m.type # e.request
    BY DEF Exchanges
  <2> QED
    BY <1>3, <2>1, CarriesAppend
<1> QED
  BY <1>2, <1>4, AnswersKept

\* A client asks to be let in; it has asked nothing before.
LEMMA AnswersLogin ==
  ASSUME SystemInv, NEW c \in Conns, AnswersOK(c), login(c), UNCHANGED serverVars
  PROVE  AnswersOK(c)'
<1> DEFINE m == UserJoinRequest(clientName[c])
<1>1. /\ phase[c] = "idle" /\ phase'[c] = "joining"
      /\ toServer[c] \in Seq(Incoming(c)) /\ toServer'[c] = Append(toServer[c], m)
      /\ toClient'[c] = toClient[c] /\ sock'[c] = sock[c]
  BY DEF SystemInv, ClientsInv, SentOK, login, sendAnyMessage, serverVars
<1>2. m.type = "USER_JOIN_REQUEST"
  BY DEF UserJoinRequest
<1> HIDE DEF m
<1>3. \A e \in Exchanges :
        /\ ~carries(toServer[c], e.request) /\ ~carries(toClient[c], e.answer)
        /\ carriesOnce(toServer[c], e.request) /\ carriesOnce(toClient[c], e.answer)
  BY <1>1 DEF AnswersOK, Exchanges
<1>4. \A e \in Exchanges :
        /\ carries(toServer'[c], e.request) <=> e.phase = "joining"
        /\ carriesOnce(toServer'[c], e.request)
  <2>1. \A e \in Exchanges : m.type = e.request <=> e.phase = "joining"
    BY <1>2 DEF Exchanges
  <2> QED
    BY <1>1, <1>3, <2>1, CarriesAppend
<1>5. ~welcomes(toClient[c])
  <2>1. welcomes(toClient[c]) => carries(toClient[c], "USER_JOIN_RESPONSE")
    BY DEF welcomes, carries, LetsIn
  <2> QED
    BY <1>3, <2>1 DEF Exchanges
<1> QED
  BY <1>1, <1>3, <1>4, <1>5 DEF AnswersOK

\* A client reads: the answer to its request to join, that to its request for the
\* list, or something else.
LEMMA AnswersRead ==
  ASSUME SystemInv, NEW c \in Conns, AnswersOK(c), ClientReceives(c)
  PROVE  AnswersOK(c)'
<1> DEFINE m == Head(toClient[c])
           rest == Tail(toClient[c])
<1>1. /\ toClient[c] \in Seq(ServerMessage) /\ toClient[c] # << >>
      /\ toServer[c] \in Seq(Incoming(c)) /\ phase[c] \notin {"idle", "gone"}
      /\ toClient'[c] = rest /\ phase'[c] = phaseAfter(phase[c], m)
      /\ sock'[c] = sock[c] /\ InRoom(c)' = InRoom(c)
      /\ toServer'[c] = IF LetsIn(m) THEN Append(toServer[c], UserListRequest) ELSE toServer[c]
  BY DEF SystemInv, QueuesInv, QueuesTypeOK, ClientsInv, SentOK, ClientReceives, isConnected, LetsIn,
     handleUntypedMessage, delivered, sendAnyMessage, InRoom
<1>2. \A e \in Exchanges :
        /\ carries(toClient[c], e.answer) <=> m.type = e.answer \/ carries(rest, e.answer)
        /\ carriesOnce(toClient[c], e.answer)
             => /\ carriesOnce(rest, e.answer)
                /\ m.type = e.answer => ~carries(rest, e.answer)
  BY <1>1, CarriesTail
<1>3. LetsIn(m) \/ welcomes(rest) => welcomes(toClient[c])
  BY <1>1, WelcomesTail
<1>4. welcomes(rest) => carries(rest, "USER_JOIN_RESPONSE")
  BY DEF welcomes, carries, LetsIn
<1>5. LetsIn(m) => m.type = "USER_JOIN_RESPONSE"
  BY DEF LetsIn
<1>6. phaseAfter(phase[c], m) =
        IF m.type = "USER_JOIN_RESPONSE" THEN IF LetsIn(m) THEN "member" ELSE "rejected"
        ELSE IF m.type = "USER_LIST_RESPONSE" THEN "listed"
        ELSE phase[c]
  BY DEF phaseAfter, LetsIn
<1>7. \A type :
        /\ carries(Append(toServer[c], UserListRequest), type)
             <=> carries(toServer[c], type) \/ "USER_LIST_REQUEST" = type
        /\ carriesOnce(toServer[c], type)
             /\ ("USER_LIST_REQUEST" = type => ~carries(toServer[c], type))
             => carriesOnce(Append(toServer[c], UserListRequest), type)
  <2>1. UserListRequest.type = "USER_LIST_REQUEST"
    BY DEF UserListRequest
  <2> QED
    BY <1>1, <2>1, CarriesAppend
<1> HIDE DEF m, rest
<1>8. CASE m.type = "USER_JOIN_RESPONSE"
  <2>1. /\ phase[c] = "joining"
        /\ ~carries(toServer[c], "USER_JOIN_REQUEST") /\ ~carries(toServer[c], "USER_LIST_REQUEST")
        /\ ~carries(rest, "USER_JOIN_RESPONSE") /\ ~carries(rest, "USER_LIST_RESPONSE")
        /\ \A e \in Exchanges :
             carriesOnce(toServer[c], e.request) /\ carriesOnce(rest, e.answer)
    BY <1>1, <1>2, <1>8 DEF AnswersOK, Exchanges
  <2>2. CASE LetsIn(m)
    <3>1. phase'[c] = "member" /\ toServer'[c] = Append(toServer[c], UserListRequest)
      BY <1>1, <1>6, <1>8, <2>2
    <3>2. \A e \in Exchanges :
            /\ carries(toServer'[c], e.request) <=> e.phase = "member"
            /\ ~carries(rest, e.answer)
            /\ carriesOnce(toServer'[c], e.request)
      BY <1>7, <2>1, <3>1 DEF Exchanges
    <3>3. sock[c] \in {"idle", "connected"} => InRoom(c)
      BY <1>1, <1>3, <2>2 DEF AnswersOK
    <3> QED
      BY <1>1, <2>1, <3>1, <3>2, <3>3 DEF AnswersOK
  <2>3. CASE ~LetsIn(m)
    <3>1. phase'[c] = "rejected" /\ toServer'[c] = toServer[c]
      BY <1>1, <1>6, <1>8, <2>3
    <3> QED
      BY <1>1, <1>4, <2>1, <3>1 DEF AnswersOK, Exchanges
  <2> QED
    BY <2>2, <2>3
<1>9. CASE m.type = "USER_LIST_RESPONSE"
  <2>1. /\ phase[c] = "member" /\ ~LetsIn(m)
        /\ ~carries(toServer[c], "USER_JOIN_REQUEST") /\ ~carries(toServer[c], "USER_LIST_REQUEST")
        /\ ~carries(rest, "USER_JOIN_RESPONSE") /\ ~carries(rest, "USER_LIST_RESPONSE")
        /\ \A e \in Exchanges :
             carriesOnce(toServer[c], e.request) /\ carriesOnce(rest, e.answer)
    BY <1>1, <1>2, <1>5, <1>9 DEF AnswersOK, Exchanges
  <2>2. phase'[c] = "listed" /\ toServer'[c] = toServer[c]
    BY <1>1, <1>6, <1>9, <2>1
  <2> QED
    BY <1>1, <2>1, <2>2 DEF AnswersOK, Exchanges
<1>10. CASE m.type \notin AnswerTypes
  <2>1. phase'[c] = phase[c] /\ toServer'[c] = toServer[c]
    BY <1>1, <1>5, <1>6, <1>10 DEF AnswerTypes
  <2>2. \A e \in Exchanges : m.type # e.answer
    BY <1>10 DEF Exchanges, AnswerTypes
  <2> QED
    BY <1>1, <1>2, <1>3, <2>1, <2>2, AnswersKept
<1> QED
  BY <1>8, <1>9, <1>10 DEF AnswerTypes

\* The server reads what a client sent: a request, which it answers or else has no
\* reason to, or something else.
LEMMA AnswersReceipt ==
  ASSUME SystemInv, NEW c \in Conns, ServerReceives(c), NEW d \in Conns, AnswersOK(d)
  PROVE  AnswersOK(d)'
<1> DEFINE m == Head(toServer[c])
           rest == Tail(toServer[c])
<1>1. [Next]_vars /\ RoomInv /\ QueuesTypeOK
  BY DEF Next, OtherStep, SystemInv, QueuesInv
<1>2. /\ toServer[c] \in Seq(Incoming(c)) /\ toServer[c] # << >> /\ m \in Incoming(c)
      /\ toServer' = [toServer EXCEPT ![c] = rest] /\ UNCHANGED phase
      /\ toServer = [b \in Conns |-> toServer[b]]
      /\ receiveUntypedMessage(c, m)
  BY DEF ServerReceives, SystemInv, ClientsInv, SentOK
<1>3. CASE d # c
  <2>1. phase'[d] = phase[d] /\ toServer'[d] = toServer[d]
    BY <1>2, <1>3
  <2>2. Unasked(toClient[d], toClient'[d])
    BY <1>1, <1>2, <1>3, RequestsAnswered
  <2> QED
    BY <1>1, <2>1, <2>2, AnswersStill
<1>4. CASE d = c /\ phase[c] = "gone"
  BY <1>2, <1>4, AnswersGone
<1>5. CASE d = c /\ phase[c] # "gone"
  <2>1. phase'[c] = phase[c] /\ toServer'[c] = rest
    BY <1>2
  <2>2. \A e \in Exchanges :
          /\ carries(toServer[c], e.request) <=> m.type = e.request \/ carries(rest, e.request)
          /\ carriesOnce(toServer[c], e.request)
               => /\ carriesOnce(rest, e.request)
                  /\ m.type = e.request => ~carries(rest, e.request)
    BY <1>2, CarriesTail
  <2>3. sock'[c] \in {"idle", "connected"}
          => sock[c] \in {"idle", "connected"} /\ (InRoom(c) => InRoom(c)')
    <3>1. [ServerNext]_serverVars
      BY <1>1, ServerSteps DEF SystemInv
    <3> QED
      BY <1>1, <3>1, StaysInside
  <2>4. isOpen(c)
    BY <1>2 DEF receiveUntypedMessage
  <2>5. PICK queue : queue = toClient[c]
    OBVIOUS
  <2>6. PICK next : next = toClient'[c]
    OBVIOUS
  <2>7. queue \in Seq(ServerMessage)
    BY <1>1, <2>5 DEF QueuesTypeOK
  <2>8. \A e \in Exchanges : e.answer \in AnswerTypes
    BY DEF Exchanges, AnswerTypes
  <2>9. CASE /\ Unasked(toClient[c], toClient'[c])
             /\ isAlive(c) => /\ m.type # "USER_JOIN_REQUEST"
                              /\ m.type = "USER_LIST_REQUEST" => chatee(c) = {}
    <3>1. /\ welcomes(next) => welcomes(queue)
          /\ \A e \in Exchanges :
               /\ carries(next, e.answer) <=> carries(queue, e.answer)
               /\ carriesOnce(queue, e.answer) => carriesOnce(next, e.answer)
      BY <2>5, <2>6, <2>7, <2>8, <2>9, CarriesUnasked, WelcomesUnasked
    <3>2. isAlive(c) => \A e \in Exchanges : m.type # e.request
      <4>1. SUFFICES ASSUME isAlive(c), m.type = "USER_LIST_REQUEST"
                     PROVE  FALSE
        BY <2>9 DEF Exchanges
      <4>2. phase[c] = "member" /\ sock[c] = "connected"
        BY <1>5, <2>2, <4>1 DEF AnswersOK, Exchanges, isAlive
      <4>3. InRoom(c)
        BY <1>5, <4>2 DEF AnswersOK
      <4>4. chatee(c) # {}
        BY <1>1, <4>3, BackPointer DEF InRoom
      <4> QED
        BY <2>9, <4>1, <4>4
    <3>3. \A e \in Exchanges :
            sock'[c] \in {"idle", "connected"} /\ carries(toServer[c], e.request)
              => carries(rest, e.request)
      <4>1. sock'[c] \in {"idle", "connected"} => isAlive(c)
        BY <2>3, <2>4 DEF isOpen, isAlive
      <4> QED
        BY <2>2, <3>2, <4>1
    <3> HIDE DEF rest, m
    <3>4. /\ welcomes(toClient'[c]) => welcomes(toClient[c])
          /\ \A e \in Exchanges :
               /\ carries(toClient'[c], e.answer) <=> carries(toClient[c], e.answer)
               /\ carriesOnce(toClient[c], e.answer) => carriesOnce(toClient'[c], e.answer)
      BY <2>5, <2>6, <3>1
    <3> QED
      BY <1>5, <2>1, <2>2, <2>3, <3>3, <3>4, AnswersKept
  <2>10. CASE \E e \in Exchanges : \E answer :
                /\ m.type = e.request /\ answer.type = e.answer
                /\ Answered(c, answer)
                /\ LetsIn(answer) => InRoom(c)'
    <3>0. PICK e \in Exchanges : \E answer :
                 /\ m.type = e.request /\ answer.type = e.answer
                 /\ Answered(c, answer)
                 /\ LetsIn(answer) => InRoom(c)'
      BY <2>10
    <3>1. PICK answer : /\ m.type = e.request /\ answer.type = e.answer
                        /\ Answered(c, answer)
                        /\ LetsIn(answer) => InRoom(c)'
      BY <3>0
    <3>2. PICK half : Unasked(queue, half) /\ next = Append(half, answer)
      BY <2>5, <2>6, <3>1 DEF Answered
    <3>3. /\ welcomes(half) => welcomes(queue)
          /\ \E T : half \in Seq(T)
          /\ \A f \in Exchanges :
               /\ carries(half, f.answer) <=> carries(queue, f.answer)
               /\ carriesOnce(queue, f.answer) => carriesOnce(half, f.answer)
      BY <2>7, <2>8, <3>2, CarriesUnasked, WelcomesUnasked
    <3>4. /\ welcomes(next) => welcomes(half) \/ LetsIn(answer)
          /\ \A f \in Exchanges :
               /\ carries(next, f.answer) <=> carries(half, f.answer) \/ answer.type = f.answer
               /\ carriesOnce(half, f.answer) /\ (answer.type = f.answer => ~carries(half, f.answer))
                    => carriesOnce(next, f.answer)
      BY <3>2, <3>3, CarriesAppend, WelcomesAppend
    <3>5. /\ phase[c] = e.phase /\ ~carries(queue, e.answer) /\ ~carries(rest, e.request)
          /\ \A f \in Exchanges :
               /\ f # e => phase[c] # f.phase /\ answer.type # f.answer
               /\ f # e => ~carries(queue, f.answer) /\ ~carries(rest, f.request)
               /\ carriesOnce(rest, f.request) /\ carriesOnce(queue, f.answer)
      <4>1. /\ carries(toServer[c], e.request) /\ phase[c] = e.phase
            /\ ~carries(toClient[c], e.answer) /\ ~carries(rest, e.request)
        BY <1>5, <2>2, <3>1 DEF AnswersOK
      <4>2. ASSUME NEW f \in Exchanges, f # e
            PROVE  /\ phase[c] # f.phase /\ answer.type # f.answer
                   /\ ~carries(toClient[c], f.answer) /\ ~carries(rest, f.request)
        <5>1. phase[c] # f.phase /\ answer.type # f.answer
          BY <3>1, <4>1, <4>2 DEF Exchanges
        <5> QED
          BY <1>5, <2>2, <5>1 DEF AnswersOK
      <4>3. \A f \in Exchanges : carriesOnce(rest, f.request) /\ carriesOnce(toClient[c], f.answer)
        BY <1>5, <2>2 DEF AnswersOK
      <4> HIDE DEF rest, m
      <4> QED
        BY <2>5, <4>1, <4>2, <4>3
    <3> HIDE DEF rest, m
    <3>6. \A f \in Exchanges :
            /\ carries(next, f.answer) <=> f = e
            /\ carriesOnce(next, f.answer)
            /\ ~carries(rest, f.request) /\ carriesOnce(rest, f.request)
            /\ phase[c] = f.phase <=> f = e
      BY <3>1, <3>3, <3>4, <3>5
    <3>7. (phase[c] \in {"member", "listed"} \/ welcomes(next)) /\ sock'[c] \in {"idle", "connected"}
            => InRoom(c)'
      <4>1. (phase[c] \in {"member", "listed"} \/ welcomes(queue)) /\ sock'[c] \in {"idle", "connected"}
              => InRoom(c)'
        BY <1>5, <2>3, <2>5 DEF AnswersOK
      <4> QED
        BY <3>1, <3>3, <3>4, <4>1
    <3>8. \A f \in Exchanges :
            /\ carries(toClient'[c], f.answer) <=> f = e
            /\ carriesOnce(toClient'[c], f.answer)
      BY <2>6, <3>6
    <3>9. welcomes(toClient'[c]) <=> welcomes(next)
      BY <2>6
    <3> QED
      BY <1>5, <2>1, <3>6, <3>7, <3>8, <3>9 DEF AnswersOK
  <2> QED
    BY <1>1, <1>2, <2>9, <2>10, RequestsAnswered
<1> QED
  BY <1>3, <1>4, <1>5

\* The end of a connection is told to the room, which answers nobody.
LEMMA AnswersLost ==
  ASSUME SystemInv, NEW c \in Conns, ServerLoses(c), NEW d \in Conns, AnswersOK(d)
  PROVE  AnswersOK(d)'
<1>1. /\ RoomInv /\ QueuesTypeOK /\ toServer = [b \in Conns |-> toServer[b]]
      /\ connectionLost(c) /\ UNCHANGED phase
      /\ toServer' = [toServer EXCEPT ![c] = << >>]
  BY DEF SystemInv, QueuesInv, ClientsInv, ServerLoses
<1>2. Unasked(toClient[d], toClient'[d])
  <2>1. ASSUME NEW n \in chatee(c),
               toClient' = propagateMessage(chateeLeft(chatees, n), UserChange("LEFT", user(chatees[n])))
        PROVE  Unasked(toClient[d], toClient'[d])
    <3>1. UserChange("LEFT", user(chatees[n])).type \notin AnswerTypes
      BY DEF UserChange, AnswerTypes
    <3> QED
      BY <1>1, <2>1, <3>1, PropagateUnasked
  <2>2. toClient' = toClient => Unasked(toClient[d], toClient'[d])
    BY DEF Unasked
  <2> QED
    BY <1>1, <2>1, <2>2 DEF connectionLost, chateeLost
<1>3. sock'[c] = "gone" /\ [ServerNext]_serverVars
  BY <1>1 DEF connectionLost, RoomInv, RoomTypeOK, ServerNext, ServerLoses
<1>4. PICK queue : queue = toClient[d]
  OBVIOUS
<1>5. PICK next : next = toClient'[d]
  OBVIOUS
<1>6. queue \in Seq(ServerMessage) /\ Unasked(queue, next)
  BY <1>1, <1>2, <1>4, <1>5 DEF QueuesTypeOK
<1>7. /\ welcomes(next) => welcomes(queue)
      /\ \A e \in Exchanges :
           /\ carries(next, e.answer) <=> carries(queue, e.answer)
           /\ carriesOnce(queue, e.answer) => carriesOnce(next, e.answer)
  <2>1. \A e \in Exchanges : e.answer \in AnswerTypes
    BY DEF Exchanges, AnswerTypes
  <2> QED
    BY <1>6, <2>1, CarriesUnasked, WelcomesUnasked
<1>8. /\ welcomes(toClient'[d]) => welcomes(toClient[d])
      /\ \A e \in Exchanges :
           /\ carries(toClient'[d], e.answer) <=> carries(toClient[d], e.answer)
           /\ carriesOnce(toClient[d], e.answer) => carriesOnce(toClient'[d], e.answer)
  BY <1>4, <1>5, <1>7
<1>9. sock'[d] \in {"idle", "connected"}
        => sock[d] \in {"idle", "connected"} /\ (InRoom(d) => InRoom(d)')
  BY <1>1, <1>3, StaysInside
<1>10. \A e \in Exchanges :
         /\ carries(toServer'[d], e.request) => carries(toServer[d], e.request)
         /\ carriesOnce(toServer[d], e.request) => carriesOnce(toServer'[d], e.request)
         /\ sock'[d] \in {"idle", "connected"} /\ carries(toServer[d], e.request)
              => carries(toServer'[d], e.request)
  <2>1. toServer'[d] = IF d = c THEN << >> ELSE toServer[d]
    BY <1>1
  <2> QED
    BY <1>3, <2>1, CarriesNothing
<1> QED
  BY <1>1, <1>8, <1>9, <1>10, AnswersKept

\* Every step of the system keeps AnswersInv.
LEMMA AnswersInvStep == SystemInv /\ AnswersInv /\ [Next]_vars => AnswersInv'
<1> SUFFICES ASSUME SystemInv, AnswersInv, [Next]_vars, NEW d \in Conns
             PROVE  AnswersOK(d)'
  BY AnswersMeans
<1>1. AnswersOK(d)
  BY AnswersMeans
<1>2. ASSUME phase'[d] = phase[d], toServer'[d] = toServer[d], toClient'[d] = toClient[d]
      PROVE  AnswersOK(d)'
  BY <1>1, <1>2, AnswersStill DEF Unasked
<1>3. CASE UNCHANGED vars
  BY <1>2, <1>3 DEF vars, serverVars, clientVars
<1>4. ASSUME NEW c \in Conns, ClientReceives(c) \/ OtherStep(c)
      PROVE  AnswersOK(d)'
  <2>1. /\ phase = [b \in Conns |-> phase[b]] /\ toServer = [b \in Conns |-> toServer[b]]
        /\ toClient = [b \in Conns |-> toClient[b]]
    BY DEF SystemInv, ClientsInv, QueuesInv, QueuesTypeOK
  <2>2. CASE ClientReceives(c)
    <3>1. CASE d = c
      BY <1>1, <2>2, <3>1, AnswersRead
    <3>2. CASE d # c
      BY <1>2, <2>1, <2>2, <3>2
         DEF ClientReceives, handleUntypedMessage, delivered, sendAnyMessage
    <3> QED
      BY <3>1, <3>2
  <2>3. CASE Login(c)
    <3>1. CASE d # c
      BY <1>2, <2>1, <2>3, <3>1 DEF Login, login, loginFails, sendAnyMessage, serverVars
    <3>2. CASE d = c /\ login(c)
      BY <1>1, <2>3, <3>2, AnswersLogin DEF Login
    <3>3. CASE d = c /\ loginFails(c)
      BY <2>1, <3>3, AnswersGone DEF loginFails
    <3> QED
      BY <2>3, <3>1, <3>2, <3>3 DEF Login
  <2>4. CASE Input(c)
    <3>1. ASSUME NEW m, sendAnyMessage(c, m), UNCHANGED <<phase, toClient>>,
                 m.type \notin {"USER_JOIN_REQUEST", "USER_LIST_REQUEST"}
          PROVE  AnswersOK(d)'
      <4>1. CASE d = c
        BY <1>1, <3>1, <4>1, AnswersSent
      <4>2. CASE d # c
        BY <1>2, <2>1, <3>1, <4>2 DEF sendAnyMessage
      <4> QED
        BY <4>1, <4>2
    <3>2. ASSUME NEW line \in Lines[c], returnPressed(c, line), UNCHANGED serverVars
          PROVE  AnswersOK(d)'
      <4>1. PICK m : sendAnyMessage(c, m) /\ m.type \in {"CHAT_MESSAGE", "CHAT_COMMAND"}
        <5>1. \A text, from, target : ChatMessage(text, from, target).type = "CHAT_MESSAGE"
          BY DEF ChatMessage
        <5>2. typesCommand(c, line) => chatCommand(line.words).type = "CHAT_COMMAND"
          BY DEF typesCommand, chatCommand, ChatCommand
        <5> QED
          BY <3>2, <5>1, <5>2
             DEF returnPressed, typesWhisper, typesCommand, typesMessage, sendTo
      <4>2. UNCHANGED <<phase, toClient>>
        BY <3>2 DEF returnPressed, serverVars
      <4> QED
        BY <3>1, <4>1, <4>2
    <3>3. ASSUME NEW presence \in PresenceInputs, updatePresence(c, presence), UNCHANGED serverVars
          PROVE  AnswersOK(d)'
      <4>1. PresenceChange(clientName[c], presence).type = "USER_CHANGE"
        BY DEF PresenceChange
      <4> QED
        BY <3>1, <3>3, <4>1 DEF updatePresence, serverVars
    <3>4. CASE disconnects(c) /\ discarded(c)
      <4>1. CASE d = c
        BY <2>1, <3>4, <4>1, AnswersGone DEF disconnects
      <4>2. CASE d # c
        BY <1>2, <2>1, <3>4, <4>2 DEF disconnects, discarded
      <4> QED
        BY <4>1, <4>2
    <3> QED
      BY <2>4, <3>2, <3>3, <3>4 DEF Input
  <2>5. CASE ServerAccepts(c)
    BY <1>2, <2>5 DEF ServerAccepts, connectionEstablished, clientVars
  <2>6. CASE ServerReceives(c)
    BY <1>1, <2>6, AnswersReceipt
  <2>7. CASE ServerLoses(c)
    BY <1>1, <2>7, AnswersLost
  <2>8. CASE ClientLoses(c)
    <3>1. CASE d = c
      BY <2>1, <2>8, <3>1, AnswersGone DEF ClientLoses, disconnects
    <3>2. CASE d # c
      BY <1>2, <2>1, <2>8, <3>2 DEF ClientLoses, disconnects, discarded
    <3> QED
      BY <3>1, <3>2
  <2> QED
    BY <1>4, <2>2, <2>3, <2>4, <2>5, <2>6, <2>7, <2>8
       DEF OtherStep, ServerSeesEnd, ClientSeesEnd, NetworkFails
<1> QED
  BY <1>3, <1>4 DEF Next

-----------------------------------------------------------------------------
(* Theorems *)

\* The system implements the server's specification: the real clients, with
\* their mirrors, their parser and their queues, do nothing to the server that
\* ServerSpec does not allow.
THEOREM SystemImplementsServer == Spec => ServerSpec
<1>1. Init => ServerInit
  BY DEF Init
<1>2. SystemInv /\ [Next]_vars => [ServerNext]_serverVars
  BY ServerSteps DEF SystemInv
<1> QED
  BY <1>1, <1>2, SystemInvariant, PTL DEF Spec, ServerSpec

\* The variables of the server and of the clients always have their types.
THEOREM SystemTypes == Spec => []TypeOK
<1>1. SystemInv => TypeOK
  BY DEF SystemInv, RoomInv, QueuesInv, QueuesTypeOK, ClientsInv, MirrorOK,
         TypeOK, ServerTypeOK, ClientTypeOK
<1> QED
  BY <1>1, SystemInvariant, PTL

\* What was proved of the server holds in the system: chatees do not outlive
\* their connections and give up their names with them only, whispers stay
\* between two, a kick is the last thing its victim hears, and the room is one
\* broadcast.
THEOREM SystemSafety ==
  Spec => /\ []NoDanglingConnection
          /\ []WhisperConfined
          /\ []KickIsLast
          /\ MembershipEndsWithConnection
          /\ ImplementsBroadcast
BY SystemImplementsServer, ConnectionSafety, WhisperSafety, KickSafety,
   MembershipSafety, BroadcastRefinement, PTL

\* Requests and answers stay in step on every connection.
THEOREM AnswersInvariant == Spec => []AnswersInv
BY AnswersInvInit, AnswersInvStep, SystemInvariant, PTL DEF Spec

\* A client that waits to be let in or for the list of users has its request or
\* the answer under way until its connection ends: what JoinAnswered and ListArrives
\* promise can fail only if somebody stops reading.
THEOREM NobodyForgotten == Spec => []NobodyWaitsInVain
<1>1. AnswersInv => NobodyWaitsInVain
  BY DEF AnswersInv
<1> QED
  BY <1>1, AnswersInvariant, PTL

\* No request is answered twice, and no answer comes to a client that did not ask
\* or is past it.
THEOREM NobodyToldTwice == Spec => []AnsweredOnce
<1>1. AnswersInv => AnsweredOnce
  BY DEF AnswersInv
<1> QED
  BY <1>1, AnswersInvariant, PTL
=============================================================================
