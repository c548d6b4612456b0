---------------------------- MODULE ChatProtocol ----------------------------
(***************************************************************************)
(* What the clients and the server of Simple Chat say to each other: the   *)
(* users, the protobuf messages and the constants every module shares.     *)
(*                                                                         *)
(* A message is a record whose field "type" is its NetworkMessageType.  A  *)
(* text is a sequence of words; the wording of the server's answers is     *)
(* left out, only their success flag is kept.                              *)
(***************************************************************************)
EXTENDS Naturals, Sequences

CONSTANTS
  Conns,       \* TCP connections: every client process opens one, once
  Names,       \* nicknames
  clientName,  \* clientName[c] is the nickname the client behind c asks for
  Texts,       \* the texts users write, and the motds they set
  Words,       \* what can stand as the one argument of a command
  Password,    \* the server's secret
  None         \* nullptr, or a field that is not set

ASSUME ClientNameAssumption == clientName \in [Conns -> Names]
ASSUME NoneAssumption ==
  /\ None \notin Names /\ None \notin Texts
  /\ None \notin {"JOINED", "LEFT", "KICKED", "MUTED", "UNMUTED"}

-----------------------------------------------------------------------------
(* Users *)

Presences == {"ONLINE", "AWAY", "BUSY"}

User == [id : Nat, name : Names, presence : Presences, mute : BOOLEAN]

\* ChatTarget names a user; the receivers show or look up the name only.
ChatTarget == [user_id : Nat, user_name : Names]

EmptyText == << >>

-----------------------------------------------------------------------------
(* From a client to the server *)

UserJoinRequest(name) == [type |-> "USER_JOIN_REQUEST", name |-> name]

UserListRequest == [type |-> "USER_LIST_REQUEST"]

CommandTypes == {"MOTD", "KICK", "MUTE", "UNMUTE", "AUTH"}

ChatCommand(command, arguments) ==
  [type |-> "CHAT_COMMAND", command |-> command, arguments |-> arguments]

-----------------------------------------------------------------------------
(* Both ways *)

\* A change of membership or of the mute flag carries the whole user.
UserChange(action, user) ==
  [type |-> "USER_CHANGE", action |-> action, user |-> user, presence |-> None]

\* A change of presence is written by the client about itself and passed on
\* as it is.  Its receivers read the user's name and nothing else of it.
PresenceChange(name, presence) ==
  [type |-> "USER_CHANGE", action |-> None, user |-> [name |-> name],
   presence |-> presence]

\* The server fills in "from"; "target" is None in a public message.
ChatMessage(text, from, target) ==
  [type |-> "CHAT_MESSAGE", text |-> text, from |-> from, target |-> target]

-----------------------------------------------------------------------------
(* From the server to a client *)

UserJoinResponse(success, user, motd) ==
  [type |-> "USER_JOIN_RESPONSE", success |-> success, user |-> user,
   motd |-> motd]

UserListResponse(users) == [type |-> "USER_LIST_RESPONSE", users |-> users]

ChatroomChange(motd) == [type |-> "CHATROOM_CHANGE", motd |-> motd]

GenericChatResponse(success) ==
  [type |-> "GENERIC_CHAT_RESPONSE", success |-> success]
=============================================================================
