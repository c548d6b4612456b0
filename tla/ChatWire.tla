------------------------------ MODULE ChatWire ------------------------------
(***************************************************************************)
(* chatlib/communication: how a message of ChatProtocol gets into the      *)
(* bytes of a connection and out of them.  MessageSerializer writes it and *)
(* wraps it in a NetworkMessage, TcpChatConnection turns the bytes into a  *)
(* QString, the receiver turns the QString into bytes again, and           *)
(* MessageDeserializer reads them.                                         *)
(*                                                                         *)
(* In this module names, words and texts are the sequences of their UTF-8  *)
(* bytes.  Its users differ from those of ChatProtocol in one point: a     *)
(* mute flag that was never set is None, because then it is not written.   *)
(***************************************************************************)
EXTENDS ChatProtocol, WireFormat

ASSUME BytesAssumption == Names \cup Words \cup Texts \subseteq Seq(Byte)

WiredUser == [id : Nat, name : Names, presence : Presences, mute : BOOLEAN \cup {None}]

\* What the server tells the clients of its room.
RoomMessage ==
  [type : {"USER_JOIN_RESPONSE"}, success : {TRUE}, user : WiredUser, motd : Texts \cup {EmptyText}]
    \cup [type : {"USER_LIST_RESPONSE"}, users : SUBSET WiredUser]
    \cup [type : {"USER_CHANGE"}, action : {"JOINED", "LEFT", "KICKED", "MUTED", "UNMUTED", None},
          user : WiredUser, presence : Presences \cup {None}]
    \cup [type : {"CHATROOM_CHANGE"}, motd : Texts]

\* None is not what is or is not set.
ASSUME UnsetAssumption ==
  /\ None \notin Presences /\ None \notin BOOLEAN
  /\ None \notin WiredUser /\ None \notin ChatTarget
  /\ None \notin RoomMessage

\* The enumerations; the first constant has the number 0.
UserPresence == <<"ONLINE", "AWAY", "BUSY">>
UserAction == <<"JOINED", "LEFT", "KICKED", "MUTED", "UNMUTED">>
CommandType == <<"MOTD", "KICK", "MUTE", "UNMUTE", "AUTH">>

NetworkMessageType ==
  [USER_JOIN_REQUEST |-> 0, USER_JOIN_RESPONSE |-> 1, USER_LIST_REQUEST |-> 2,
   USER_LIST_RESPONSE |-> 3, USER_CHANGE |-> 4, CHAT_MESSAGE |-> 10,
   CHAT_COMMAND |-> 12, GENERIC_CHAT_RESPONSE |-> 20, CHATROOM_CHANGE |-> 25]

-----------------------------------------------------------------------------
(* Writing: the fields of a message *)

enum(k, values, v) == number(k, (CHOOSE i \in DOMAIN values : values[i] = v) - 1)
bool(k, b) == number(k, IF b THEN 1 ELSE 0)
message(k, fields) == bytes(k, SerializeAsString(fields))

\* An optional field that is not set is not written.
optional(v, field) == IF v = None THEN << >> ELSE <<field>>

userFields(u) ==
  <<number(1, u.id), bytes(2, u.name)>>
    \o optional(u.presence, enum(3, UserPresence, u.presence))
    \o optional(u.mute, bool(4, u.mute))

targetFields(t) == <<bytes(1, t.user_name), number(2, t.user_id)>>

fieldsFor(m) ==
  CASE m.type = "USER_JOIN_REQUEST" -> <<bytes(1, m.name)>>
    [] m.type = "USER_JOIN_RESPONSE" ->
         <<bool(1, m.success)>> \o optional(m.user, message(2, userFields(m.user)))
           \o <<bytes(3, m.motd)>>
    [] m.type = "USER_LIST_RESPONSE" ->
         LET list == SetToSeq(m.users)
         IN [i \in DOMAIN list |-> message(1, userFields(list[i]))]
    [] m.type = "USER_CHANGE" ->
         <<message(1, userFields(m.user))>>
           \o optional(m.presence, enum(2, UserPresence, m.presence))
           \o optional(m.action, enum(3, UserAction, m.action))
    [] m.type = "CHAT_MESSAGE" ->
         <<bytes(1, m.text)>> \o optional(m.from, message(2, targetFields(m.from)))
           \o optional(m.target, message(3, targetFields(m.target)))
    [] m.type = "CHAT_COMMAND" ->
         <<enum(2, CommandType, m.command)>>
           \o [i \in DOMAIN m.arguments |-> bytes(3, m.arguments[i])]
    [] m.type = "CHATROOM_CHANGE" -> <<bytes(1, m.motd)>>
    [] m.type = "GENERIC_CHAT_RESPONSE" -> <<bool(1, m.success)>>

\* Mutant: the mute flag is a required field as well.
isComplete(m) == m.type = "USER_CHANGE" => m.user.presence # None /\ m.user.mute # None

\* IsInitialized: the fields that are required are set.
isInitialized(m) == m.type = "USER_CHANGE" => m.user.presence # None

\* MessageBuilder gives a message the type its class stands for.
typeFor(m) == NetworkMessageType[m.type]

\* Message::serialize
data(m) == SerializeAsString(fieldsFor(m))

\* MessageSerializer::serialize; the header comes before the data.
serialize(m) ==
  SerializeAsString(<<message(1, <<number(1, typeFor(m))>>), bytes(2, data(m))>>)

-----------------------------------------------------------------------------
(* Reading: what the getters return *)

\* A string that is not set is empty.
stringAt(fields, k) == IF has(fields, k, "bytes") THEN get(fields, k, "bytes") ELSE << >>

numberAt(fields, k, default) ==
  IF has(fields, k, "varint") THEN get(fields, k, "varint") ELSE default

\* A number that no constant of the enumeration has does not set the field.
enumAt(fields, k, values) ==
  LET n == numberAt(fields, k, Len(values))
  IN IF n < Len(values) THEN values[n + 1] ELSE None

userIn(fields) ==
  [id |-> numberAt(fields, 1, 0), name |-> stringAt(fields, 2),
   presence |-> enumAt(fields, 3, UserPresence),
   mute |-> IF has(fields, 4, "varint") THEN get(fields, 4, "varint") # 0 ELSE None]

targetIn(fields) == [user_name |-> stringAt(fields, 1), user_id |-> numberAt(fields, 2, 0)]

\* The fields of an embedded message.
fieldsAt(fields, k) == ParseFromString(get(fields, k, "bytes"), {}).fields

\* An embedded message that is not there is None.
userAt(fields, k) == IF has(fields, k, "bytes") THEN userIn(fieldsAt(fields, k)) ELSE None

targetAt(fields, k) == IF has(fields, k, "bytes") THEN targetIn(fieldsAt(fields, k)) ELSE None

\* The fields of each type that are messages themselves.
embeddedIn(type) ==
  CASE type \in {"USER_LIST_RESPONSE", "USER_CHANGE"} -> {1}
    [] type = "USER_JOIN_RESPONSE" -> {2}
    [] type = "CHAT_MESSAGE" -> {2, 3}
    [] OTHER -> {}

messageIn(type, fields) ==
  CASE type = "USER_JOIN_REQUEST" -> UserJoinRequest(stringAt(fields, 1))
    [] type = "USER_JOIN_RESPONSE" ->
         UserJoinResponse(numberAt(fields, 1, 0) # 0, userAt(fields, 2), stringAt(fields, 3))
    [] type = "USER_LIST_RESPONSE" ->
         UserListResponse({userIn(ParseFromString(user, {}).fields) :
                             user \in Range(getAll(fields, 1, "bytes"))})
    [] type = "USER_CHANGE" ->
         [type |-> "USER_CHANGE", action |-> enumAt(fields, 3, UserAction),
          user |-> userAt(fields, 1), presence |-> enumAt(fields, 2, UserPresence)]
    [] type = "CHAT_MESSAGE" ->
         ChatMessage(stringAt(fields, 1), targetAt(fields, 2), targetAt(fields, 3))
    [] type = "CHAT_COMMAND" ->
         ChatCommand(enumAt(fields, 2, CommandType), getAll(fields, 3, "bytes"))
    [] type = "CHATROOM_CHANGE" -> ChatroomChange(stringAt(fields, 1))
    [] type = "GENERIC_CHAT_RESPONSE" -> GenericChatResponse(numberAt(fields, 1, 0) # 0)

\* MessageDeserializer::getMessage: the result of ParseFromString is not
\* looked at, and the message holds what was read.
getMessage(type, serialized) ==
  messageIn(type, ParseFromString(serialized, embeddedIn(type)).fields)

typeNumbered(n) ==
  CHOOSE type \in DOMAIN NetworkMessageType : NetworkMessageType[type] = n

\* MessageDeserializer: None stands for a network message without a header or
\* without data, which its receiver drops.
messageOf(fields) ==
  IF has(fields, 1, "bytes") /\ has(fields, 2, "bytes")
    THEN getMessage(typeNumbered(get(fieldsAt(fields, 1), 1, "varint")), get(fields, 2, "bytes"))
    ELSE None

\* Mutant: bytes that ParseFromString complains about are dropped.
deserializeParsed(s) ==
  LET parsed == ParseFromString(s, {1})
  IN IF parsed.complete THEN messageOf(parsed.fields) ELSE None

deserialize(s) == messageOf(ParseFromString(s, {1}).fields)

\* What the receiver of a message gets; None stands for nothing.
overWire(m) ==
  IF isInitialized(m) THEN deserialize(toStdString(serialize(m))) ELSE None
=============================================================================
