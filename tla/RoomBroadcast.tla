--------------------------- MODULE RoomBroadcast ---------------------------
(***************************************************************************)
(* What the chat room promises its members, without sockets, ids, rights   *)
(* and flags.  Everybody in the room hears everything public, and each the *)
(* same in the same order, from JOINED about oneself on until one leaves,  *)
(* or to KICKED about oneself; membership changes with the announcement    *)
(* that says so and with no other; a whisper has two readers, and an       *)
(* answer one.                                                             *)
(***************************************************************************)
EXTENDS ChatProtocol

VARIABLES
  members,  \* the connection behind each name in the room
  inbox     \* what each connection has been sent and has not read

roomVars == <<members, inbox>>

connsOf(room) == {room[n] : n \in DOMAIN room}
without(room, n) == [k \in DOMAIN room \ {n} |-> room[k]]

told(queues, to, m) == [c \in Conns |-> IF c \in to THEN Append(queues[c], m) ELSE queues[c]]

underWay == UNION {{inbox[c][i] : i \in DOMAIN inbox[c]} : c \in Conns}

isChange(m, action, n) == m.type = "USER_CHANGE" /\ m.action = action /\ m.user.name = n

\* Speech, or a change by or of a member who stays one.
isPublic(m) ==
  \/ m.type = "CHAT_MESSAGE" /\ m.target = None /\ m.from.user_name \in DOMAIN members
  \/ m.type = "USER_CHANGE" /\ m.action \notin {"JOINED", "LEFT", "KICKED"}
       /\ m.user.name \in DOMAIN members
  \/ m.type = "CHATROOM_CHANGE"

isWhisper(m) ==
  /\ m.type = "CHAT_MESSAGE" /\ m.target # None
  /\ {m.from.user_name, m.target.user_name} \subseteq DOMAIN members

\* A list names everybody who is in the room.
isAnswer(m) ==
  \/ m.type = "USER_JOIN_RESPONSE" /\ ~m.success
  \/ m.type = "USER_LIST_RESPONSE" /\ {u.name : u \in m.users} = DOMAIN members
  \/ m.type = "GENERIC_CHAT_RESPONSE"

-----------------------------------------------------------------------------
Enter(n, c) ==
  /\ n \notin DOMAIN members /\ c \notin connsOf(members)
  /\ members' = [k \in DOMAIN members \cup {n} |-> IF k = n THEN c ELSE members[k]]
  /\ \E m, answer \in underWay' :
       /\ isChange(m, "JOINED", n)
       /\ answer.type = "USER_JOIN_RESPONSE" /\ answer.success
       /\ inbox' = told(told(inbox, connsOf(members'), m), {c}, answer)

\* If nobody is left, nobody is told.
Leave(n) ==
  /\ members' = without(members, n)
  /\ \/ connsOf(members') = {} /\ UNCHANGED inbox
     \/ \E m \in underWay' :
          isChange(m, "LEFT", n) /\ inbox' = told(inbox, connsOf(members'), m)

Expel(n) ==
  /\ members' = without(members, n)
  /\ \E m \in underWay' :
       isChange(m, "KICKED", n) /\ inbox' = told(inbox, connsOf(members), m)

Publish ==
  /\ \E m \in underWay' : isPublic(m) /\ inbox' = told(inbox, connsOf(members), m)
  /\ UNCHANGED members

\* Who whispers to oneself reads it twice.
Whisper ==
  /\ \E m \in underWay' :
       /\ isWhisper(m)
       /\ inbox' = told(told(inbox, {members[m.from.user_name]}, m),
                        {members[m.target.user_name]}, m)
  /\ UNCHANGED members

Answer(c) ==
  /\ \E m \in underWay' : isAnswer(m) /\ inbox' = told(inbox, {c}, m)
  /\ UNCHANGED members

Read(c) ==
  /\ inbox[c] # << >>
  /\ inbox' = [inbox EXCEPT ![c] = Tail(@)]
  /\ UNCHANGED members

Discard(c) ==
  /\ inbox' = [inbox EXCEPT ![c] = << >>]
  /\ UNCHANGED members

Init == members = [n \in {} |-> None] /\ inbox = [c \in Conns |-> << >>]

Next ==
  \/ \E n \in Names, c \in Conns : Enter(n, c)
  \/ \E n \in DOMAIN members : Leave(n) \/ Expel(n)
  \/ Publish \/ Whisper
  \/ \E c \in Conns : Answer(c) \/ Read(c) \/ Discard(c)

Spec == Init /\ [][Next]_roomVars
=============================================================================
