------------------------------ MODULE Chatroom ------------------------------
(***************************************************************************)
(* chat/Chatroom.cpp: the map from nicknames to chatees, one instance in   *)
(* the server and one, the mirror, in every client.  A room is a function  *)
(* whose domain is the set of names in use, as ChateesMap is.              *)
(*                                                                         *)
(* The mutex of Chatroom guards single map accesses; both programs are     *)
(* single-threaded, so an operation is one step.                           *)
(***************************************************************************)
EXTENDS ChatProtocol

EmptyRoom == [n \in {} |-> None]

chateeExists(room, name) == name \in DOMAIN room

\* chateeJoined refuses a name in use; insertChatee adds the entry.
chateeJoined(room, name, chatee) ==
  IF chateeExists(room, name)
    THEN room
    ELSE [n \in DOMAIN room \cup {name} |-> IF n = name THEN chatee ELSE room[n]]

\* Mutant: the entry is kept.
chateeKept(room, name) == room

\* chateeLeft erases the name and whatever chatee it maps to.
chateeLeft(room, name) == [n \in DOMAIN room \ {name} |-> room[n]]

\* None is the nullptr of an unknown name.
getTarget(room, name) ==
  IF chateeExists(room, name)
    THEN [user_id |-> room[name].id, user_name |-> name]
    ELSE None
=============================================================================
