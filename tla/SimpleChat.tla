----------------------------- MODULE SimpleChat -----------------------------
(***************************************************************************)
(* The system: one server and a client process per connection, joined by   *)
(* TCP connections that keep order and may be reset.                       *)
(***************************************************************************)
EXTENDS ChatServer, ChatClient

CONSTANTS
  MaxInputs,        \* how many things the users do after they logged in
  PresenceInputs,   \* the presences they choose
  MaxFailures       \* how many connections are reset while both ends are alive

ASSUME InputAssumption ==
  /\ MaxInputs \in Nat
  /\ PresenceInputs \subseteq Presences
  /\ MaxFailures \in Nat

VARIABLES
  inputs,    \* what the users did so far, up to MaxInputs
  failures   \* the connections reset so far, up to MaxFailures

vars == <<serverVars, clientVars, inputs, failures>>

Init == ServerInit /\ ClientInit /\ inputs = 0 /\ failures = 0

-----------------------------------------------------------------------------
(* The users *)

\* A connection is refused once the server has died.
Login(c) ==
  /\ \/ running /\ login(c)
     \/ ~running /\ loginFails(c)
  /\ UNCHANGED <<serverVars, inputs, failures>>

Input(c) ==
  /\ inputs < MaxInputs
  /\ inputs' = inputs + 1
  /\ \/ \E line \in Lines[c] : returnPressed(c, line) /\ UNCHANGED serverVars
     \/ \E presence \in PresenceInputs : updatePresence(c, presence) /\ UNCHANGED serverVars
     \/ disconnects(c) /\ discarded(c)
  /\ UNCHANGED failures

-----------------------------------------------------------------------------
(* The server.  A connection waits in the listen queue until it is taken,  *)
(* even if its client has gone meanwhile.                                  *)

ServerAccepts(c) ==
  /\ running
  /\ phase[c] # "idle"
  /\ connectionEstablished(c)
  /\ UNCHANGED <<clientVars, inputs, failures>>

ServerReceives(c) ==
  /\ running
  /\ toServer[c] # << >>
  /\ receiveUntypedMessage(c, Head(toServer[c]))
  /\ toServer' = [toServer EXCEPT ![c] = Tail(@)]
  /\ UNCHANGED <<phase, mirror, shownMotd, inputs, failures>>

\* The server's end reports a loss: the last bytes of a closing connection
\* are sent, the client has gone, or else the network fails.  What it has not
\* read by then is lost.
ServerLoses(c) ==
  /\ running
  /\ connectionLost(c)
  /\ toServer' = [toServer EXCEPT ![c] = << >>]
  /\ UNCHANGED <<phase, mirror, shownMotd, inputs>>

ServerSeesEnd(c) ==
  /\ sock[c] = "closing" \/ phase[c] = "gone"
  /\ ServerLoses(c)
  /\ UNCHANGED failures

-----------------------------------------------------------------------------
(* The clients *)

ClientReceives(c) ==
  /\ toClient[c] # << >>
  /\ handleUntypedMessage(c, Head(toClient[c]))
  /\ delivered(c)
  /\ UNCHANGED <<inputs, failures>>

\* Likewise for the client's end; a reset may cost it what it has not read.
ClientLoses(c) ==
  /\ disconnects(c)
  /\ discarded(c)
  /\ UNCHANGED inputs

ClientSeesEnd(c) ==
  /\ sock[c] = "gone" \/ ~running
  /\ ClientLoses(c)
  /\ UNCHANGED failures

\* A connection is reset, and one end reports it before the other does.
NetworkFails(c) ==
  /\ failures < MaxFailures
  /\ failures' = failures + 1
  /\ \/ sock[c] = "connected" /\ isConnected(c) /\ ServerLoses(c)
     \/ sock[c] # "gone" /\ ClientLoses(c)

-----------------------------------------------------------------------------
\* Every step but the clients' reading.
OtherStep(c) ==
  \/ Login(c) \/ Input(c)
  \/ ServerAccepts(c) \/ ServerReceives(c) \/ ServerSeesEnd(c)
  \/ ClientSeesEnd(c) \/ NetworkFails(c)

Next == \E c \in Conns : ClientReceives(c) \/ OtherStep(c)

\* The event loops of both programs and TCP go on; what the users do is
\* theirs to decide.
Fairness ==
  \A c \in Conns :
    /\ WF_vars(ServerAccepts(c))
    /\ WF_vars(ServerReceives(c))
    /\ WF_vars(ServerSeesEnd(c))
    /\ WF_vars(ClientReceives(c))
    /\ WF_vars(ClientSeesEnd(c))

Spec == Init /\ [][Next]_vars

FairSpec == Spec /\ Fairness

-----------------------------------------------------------------------------
(* What the clients will know *)

InRoom(c) == \E n \in DOMAIN chatees : chatees[n].connection = c

\* The room as a client is to see it.
view == [n \in DOMAIN chatees |-> user(chatees[n])]

\* What c knows, and what it will know once it has read the next i messages on
\* their way to it.
shown(c) == [room |-> mirror[c], motd |-> shownMotd[c]]

Known(c) == known(shown(c), toClient[c])
MirrorAfter(c, i) == Known(c)[i].room
MotdAfter(c, i) == Known(c)[i].motd

\* c has the list of users, or will have it with the next i messages.
Listed(c, i) ==
  \/ phase[c] = "listed"
  \/ \E j \in 1 .. i : toClient[c][j].type = "USER_LIST_RESPONSE"

\* The writer of m is a user of the room, who may write publicly if m is public.
SpeaksIn(m, room) ==
  /\ chateeExists(room, m.from.user_name)
  /\ room[m.from.user_name].id = m.from.user_id
  /\ m.target = None => ~room[m.from.user_name].mute

HearsNoGhost(c) ==
  \A i \in 1 .. Len(toClient[c]) :
    toClient[c][i].type = "CHAT_MESSAGE" /\ Listed(c, i - 1)
      => SpeaksIn(toClient[c][i], MirrorAfter(c, i - 1))

-----------------------------------------------------------------------------
(* Safety *)

\* The type invariant of the composition.
TypeOK == ServerTypeOK /\ ClientTypeOK

\* A mirror never drifts from the room.  A client that is in the room and
\* has been sent the list knows, once it has read what is under way, exactly
\* the users of the room, with their ids, presences and mute flags: however
\* its own join, the list and the changes by others were interleaved.
MirrorConverges ==
  \A c \in Conns :
    isConnected(c) /\ InRoom(c) /\ Listed(c, Len(toClient[c]))
      => MirrorAfter(c, Len(toClient[c])) = view

\* The same of the motd, from the answer to the join on.
MotdConverges ==
  \A c \in Conns :
    isConnected(c) /\ InRoom(c) => MotdAfter(c, Len(toClient[c])) = motd

\* Nobody reads a ghost.  When a client reads a message, the writer is in its
\* mirror, is still the same user and not another with the name, and is not
\* shown as muted if the message is a public one.
NoGhostSpeech == \A c \in Conns : isConnected(c) => HearsNoGhost(c)

\* The answer that lets a client in tells it nothing new: by the time it reads
\* it, it has read of its own join.  ChatClient relies on that: of all messages
\* that add users to the mirror this one alone does not refresh the list.
HeardOfItself ==
  \A c \in Conns : \A i \in 1 .. Len(toClient[c]) :
    LET m == toClient[c][i]
    IN m.type = "USER_JOIN_RESPONSE" /\ m.success
         => chateeExists(MirrorAfter(c, i - 1), m.user.name)

\* The inductive invariant behind the first three.  A client in the room that has
\* not been sent the list will know a part of the room only, and one that may
\* still join will know nobody and have no list: its join and the list it asks
\* for then tell it the rest.
PartOf(part, room) ==
  DOMAIN part \subseteq DOMAIN room /\ \A n \in DOMAIN part : part[n] = room[n]

FollowsRoom(c, i) ==
  /\ MotdAfter(c, i) = motd
  /\ PartOf(MirrorAfter(c, i), view)
  /\ Listed(c, i) => MirrorAfter(c, i) = view

KnowsNobody(c, i) == MirrorAfter(c, i) = EmptyRoom /\ ~Listed(c, i)

MirrorsInv ==
  \A c \in Conns : phase[c] # "gone" =>
    /\ InRoom(c) => FollowsRoom(c, Len(toClient[c]))
    /\ ~InRoom(c) /\ sock[c] \in {"idle", "connected"} => KnowsNobody(c, Len(toClient[c]))
    /\ HearsNoGhost(c)

-----------------------------------------------------------------------------
(* Questions and answers *)

carries(queue, type) == \E i \in 1 .. Len(queue) : queue[i].type = type

carriesOnce(queue, type) ==
  \A i, j \in 1 .. Len(queue) : queue[i].type = type /\ queue[j].type = type => i = j

\* What a client asks, the phase in which it waits for the answer, and the answer.
Exchanges ==
  {[phase |-> "joining", request |-> "USER_JOIN_REQUEST", answer |-> "USER_JOIN_RESPONSE"],
   [phase |-> "member", request |-> "USER_LIST_REQUEST", answer |-> "USER_LIST_RESPONSE"]}

\* Nobody waits in vain: a client that waits for an answer has its request or
\* the answer under way, unless the server's end of its connection is closing or
\* gone.  The server drops a request for the list from a connection without a
\* chatee, and a client that waits sends no second one.
NobodyWaitsInVain ==
  \A c \in Conns : \A e \in Exchanges :
    phase[c] = e.phase /\ sock[c] \in {"idle", "connected"}
      => carries(toServer[c], e.request) \/ carries(toClient[c], e.answer)

\* What is asked is asked and answered once, and only by and to a client that
\* waits: no answer meets a client in another phase.
AnsweredOnce ==
  \A c \in Conns : phase[c] # "gone" => \A e \in Exchanges :
    /\ carries(toServer[c], e.request) \/ carries(toClient[c], e.answer) => phase[c] = e.phase
    /\ ~carries(toServer[c], e.request) \/ ~carries(toClient[c], e.answer)
    /\ carriesOnce(toServer[c], e.request) /\ carriesOnce(toClient[c], e.answer)

\* Whoever was let in, or will read that it is, is in the room for as long as the
\* server's end of its connection is open.
LetIn(c) ==
  \/ phase[c] \in {"member", "listed"}
  \/ \E i \in 1 .. Len(toClient[c]) :
       toClient[c][i].type = "USER_JOIN_RESPONSE" /\ toClient[c][i].success

InsideWhileOpen ==
  \A c \in Conns :
    LetIn(c) /\ phase[c] # "gone" /\ sock[c] \in {"idle", "connected"} => InRoom(c)

\* The inductive invariant behind these: a request for the list is answered because
\* its sender is in the room, and a request to join because it is the first.
AnswersInv == NobodyWaitsInVain /\ AnsweredOnce /\ InsideWhileOpen

-----------------------------------------------------------------------------
(* Liveness, under FairSpec *)

\* A request to join is answered, or the connection ends.
JoinAnswered == \A c \in Conns : phase[c] = "joining" ~> phase[c] # "joining"

\* A client that got in gets the list of users, or its connection ends: the
\* request for the list is not lost while its sender is being kicked.
ListArrives == \A c \in Conns : phase[c] = "member" ~> phase[c] # "member"

\* A kicked client ends up disconnected.
KickedDisconnects == \A c \in Conns : sock[c] = "closing" ~> phase[c] = "gone"

\* The name of a client that has gone becomes free.
NameReleased == \A c \in Conns : phase[c] = "gone" ~> ~running \/ ~InRoom(c)

-----------------------------------------------------------------------------
(* What the documentation says and the code does not do *)

\* A line typed as a whisper is sent as a private message (README.md,
\* ChatDialog.h): nobody is on the way to read its text in public.
WhisperedTexts ==
  {SubSeq(line.words, 3, Len(line.words)) :
     line \in {l \in UNION {Lines[c] : c \in Conns} : l.slash /\ l.words[1] \in WhisperWords}}

WhisperStaysPrivate ==
  \A c \in Conns : \A i \in 1 .. Len(toClient[c]) :
    LET m == toClient[c][i]
    IN m.type = "CHAT_MESSAGE" /\ m.text \in WhisperedTexts => m.target # None

\* A command whose arguments do not fit is not sent: parsing it fails and
\* yields nullptr (CommandParser.h, SpecificChatCommand.h).
CommandsAreComplete ==
  \A c \in Conns : \A i \in 1 .. Len(toServer[c]) :
    LET m == toServer[c][i]
    IN m.type = "CHAT_COMMAND" => Len(m.arguments) = 1
=============================================================================
