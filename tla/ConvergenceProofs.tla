-------------------------- MODULE ConvergenceProofs --------------------------
(***************************************************************************)
(* Mirrors never drift from the room, in every state of the system and for *)
(* any number of clients, names and messages under way.                    *)
(***************************************************************************)
EXTENDS SystemProofs, MirrorProofs

-----------------------------------------------------------------------------
(* What a client that knows k, and has the list if "listed", will know once *)
(* it has read its queue: MirrorsInv, as a statement about one queue        *)

HasList(listed, queue, i) == listed \/ \E j \in 1 .. i : queue[j].type = "USER_LIST_RESPONSE"

Follows(k, listed, queue, room, topic) ==
  LET last == known(k, queue)[Len(queue)]
  IN /\ last.motd = topic
     /\ PartOf(last.room, room)
     /\ HasList(listed, queue, Len(queue)) => last.room = room

Nobody(k, listed, queue) ==
  known(k, queue)[Len(queue)].room = EmptyRoom /\ ~HasList(listed, queue, Len(queue))

NoGhost(k, listed, queue) ==
  \A i \in 1 .. Len(queue) :
    queue[i].type = "CHAT_MESSAGE" /\ HasList(listed, queue, i - 1)
      => SpeaksIn(queue[i], known(k, queue)[i - 1].room)

\* What m tells a client in the room, while the room and the motd change from
\* the first pair to the second: all of the change, and from a list the room.
Tells(m, room, topic, room2, topic2) ==
  /\ motdAfter(topic, m) = topic2
  /\ roomAfter(room, m) = room2
  /\ \A part : PartOf(part, room) => PartOf(roomAfter(part, m), room2)
  /\ m.type = "USER_LIST_RESPONSE" => \A part : PartOf(part, room) => roomAfter(part, m) = room2

\* A list that is under way stays under way, and none else is.
LEMMA HasListAppend ==
  ASSUME NEW S, NEW queue \in Seq(S), NEW m \in S, NEW listed
  PROVE  /\ Append(queue, m) \in Seq(S) /\ Len(Append(queue, m)) = Len(queue) + 1
         /\ Append(queue, m)[Len(queue) + 1] = m
         /\ Len(queue) \in Nat
         /\ \A i \in 1 .. Len(queue) : Append(queue, m)[i] = queue[i]
         /\ \A i \in 0 .. Len(queue) :
              HasList(listed, Append(queue, m), i) <=> HasList(listed, queue, i)
         /\ HasList(listed, Append(queue, m), Len(queue) + 1)
              <=> HasList(listed, queue, Len(queue)) \/ m.type = "USER_LIST_RESPONSE"
<1> DEFINE long == Append(queue, m)
           n == Len(queue)
<1>1. /\ long \in Seq(S) /\ Len(long) = n + 1 /\ long[n + 1] = m
      /\ n \in Nat /\ \A i \in 1 .. n : long[i] = queue[i]
  OBVIOUS
<1> HIDE DEF long, n
<1>2. ASSUME NEW i \in 0 .. n
      PROVE  HasList(listed, long, i) <=> HasList(listed, queue, i)
  <2>1. \A j \in 1 .. i : j \in 1 .. n
    BY <1>1
  <2>2. \A j \in 1 .. i : long[j] = queue[j]
    BY <1>1, <2>1
  <2> QED
    BY <2>2 DEF HasList
<1>3. HasList(listed, long, n + 1) <=> HasList(listed, queue, n) \/ m.type = "USER_LIST_RESPONSE"
  <2>1. \A j : j \in 1 .. n + 1 <=> j \in 1 .. n \/ j = n + 1
    BY <1>1
  <2> QED
    BY <1>1, <2>1 DEF HasList
<1> QED
  BY <1>1, <1>2, <1>3 DEF long, n

\* A client in the room goes on knowing what it is to know.
LEMMA FollowsOn ==
  ASSUME NEW S, NEW queue \in Seq(S), NEW m \in S, NEW k, NEW listed,
         NEW room, NEW topic, NEW room2, NEW topic2,
         Follows(k, listed, queue, room, topic), Tells(m, room, topic, room2, topic2)
  PROVE  Follows(k, listed, Append(queue, m), room2, topic2)
<1> DEFINE before == known(k, queue)[Len(queue)]
           after == known(k, Append(queue, m))[Len(queue) + 1]
<1>1. after = reading(before, m)
  BY KnownAppend
<1>2. after.room = roomAfter(before.room, m) /\ after.motd = motdAfter(before.motd, m)
  BY <1>1 DEF reading
<1>3. /\ before.motd = topic /\ PartOf(before.room, room)
      /\ HasList(listed, queue, Len(queue)) => before.room = room
  BY DEF Follows
<1>4. /\ Len(Append(queue, m)) = Len(queue) + 1
      /\ HasList(listed, Append(queue, m), Len(queue) + 1)
           <=> HasList(listed, queue, Len(queue)) \/ m.type = "USER_LIST_RESPONSE"
  BY HasListAppend
<1>5. after.motd = topic2 /\ PartOf(after.room, room2)
  BY <1>2, <1>3 DEF Tells
<1>6. HasList(listed, Append(queue, m), Len(queue) + 1) => after.room = room2
  BY <1>2, <1>3, <1>4 DEF Tells
<1> HIDE DEF before, after
<1> QED
  BY <1>4, <1>5, <1>6 DEF Follows, after

\* A message from somebody who is in the room at the time is no ghost's.
LEMMA NoGhostOn ==
  ASSUME NEW S, NEW queue \in Seq(S), NEW m \in S, NEW k, NEW listed,
         NoGhost(k, listed, queue),
         m.type = "CHAT_MESSAGE" /\ HasList(listed, queue, Len(queue))
           => SpeaksIn(m, known(k, queue)[Len(queue)].room)
  PROVE  NoGhost(k, listed, Append(queue, m))
<1> DEFINE long == Append(queue, m)
           n == Len(queue)
<1>1. /\ Len(long) = n + 1 /\ long[n + 1] = m
      /\ n \in Nat /\ \A i \in 1 .. n : long[i] = queue[i]
      /\ \A i \in 0 .. n : HasList(listed, long, i) <=> HasList(listed, queue, i)
  BY HasListAppend
<1>2. \A i \in 0 .. n : known(k, long)[i] = known(k, queue)[i]
  BY KnownAppend
<1> HIDE DEF long, n
<1> SUFFICES ASSUME NEW i \in 1 .. n + 1, long[i].type = "CHAT_MESSAGE",
                    HasList(listed, long, i - 1)
             PROVE  SpeaksIn(long[i], known(k, long)[i - 1].room)
  BY <1>1 DEF NoGhost, long
<1>3. i - 1 \in 0 .. n
  BY <1>1
<1>4. HasList(listed, queue, i - 1) /\ known(k, long)[i - 1] = known(k, queue)[i - 1]
  BY <1>1, <1>2, <1>3
<1>5. CASE i \in 1 .. n
  BY <1>1, <1>4, <1>5 DEF NoGhost, n
<1>6. CASE i = n + 1
  <2>1. i - 1 = n
    BY <1>1, <1>6
  <2> QED
    BY <1>1, <1>4, <1>6, <2>1 DEF n
<1> QED
  BY <1>1, <1>5, <1>6

\* A refusal tells an outsider nothing.
LEMMA NobodyOn ==
  ASSUME NEW S, NEW queue \in Seq(S), NEW m \in S, NEW k, NEW listed,
         Nobody(k, listed, queue), m.type = "USER_JOIN_RESPONSE", ~m.success
  PROVE  Nobody(k, listed, Append(queue, m))
<1> DEFINE before == known(k, queue)[Len(queue)]
           after == known(k, Append(queue, m))[Len(queue) + 1]
<1>1. after.room = roomAfter(before.room, m)
  <2>1. after = reading(before, m)
    BY KnownAppend
  <2> HIDE DEF before, after
  <2> QED
    BY <2>1 DEF reading
<1>2. roomAfter(before.room, m) = before.room
  BY DEF roomAfter
<1>3. /\ Len(Append(queue, m)) = Len(queue) + 1
      /\ ~HasList(listed, Append(queue, m), Len(queue) + 1)
  BY HasListAppend DEF Nobody
<1> HIDE DEF before, after
<1> QED
  BY <1>1, <1>2, <1>3 DEF Nobody, before, after

\* The news of its own join and the answer to it tell an outsider of itself, and
\* of the motd.
LEMMA JoinFollows ==
  ASSUME NEW S, NEW queue \in Seq(S), NEW k, NEW listed, Nobody(k, listed, queue),
         NEW u, NEW topic, NEW room, u.name \in DOMAIN room, room[u.name] = u,
         UserChange("JOINED", u) \in S, UserJoinResponse(TRUE, u, topic) \in S
  PROVE  Follows(k, listed,
                 Append(Append(queue, UserChange("JOINED", u)), UserJoinResponse(TRUE, u, topic)),
                 room, topic)
<1> DEFINE joined == UserChange("JOINED", u)
           answer == UserJoinResponse(TRUE, u, topic)
           half == Append(queue, joined)
           K0 == known(k, queue)[Len(queue)]
           K1 == known(k, half)[Len(queue) + 1]
           K2 == known(k, Append(half, answer))[Len(queue) + 2]
           alone == [n \in {u.name} |-> u]
<1>0. joined \in S /\ answer \in S
  OBVIOUS
<1>1. /\ half \in Seq(S) /\ Len(half) = Len(queue) + 1 /\ Len(queue) \in Nat
      /\ ~HasList(listed, half, Len(half))
  <2>1. joined.type # "USER_LIST_RESPONSE"
    BY DEF UserChange
  <2> HIDE DEF joined
  <2>2. ~HasList(listed, queue, Len(queue))
    BY DEF Nobody
  <2> QED
    BY <1>0, <2>1, <2>2, HasListAppend
<1>2. /\ Len(Append(half, answer)) = Len(queue) + 2
      /\ ~HasList(listed, Append(half, answer), Len(queue) + 2)
  <2>1. answer.type # "USER_LIST_RESPONSE"
    BY DEF UserJoinResponse
  <2>2. (Len(queue) + 1) + 1 = Len(queue) + 2
    BY <1>1
  <2> HIDE DEF answer, half
  <2>3. /\ Len(Append(half, answer)) = Len(half) + 1
        /\ ~HasList(listed, Append(half, answer), Len(half) + 1)
    BY <1>0, <1>1, <2>1, HasListAppend
  <2> QED
    BY <1>1, <2>2, <2>3
<1>3. K1 = reading(K0, joined)
  BY KnownAppend
<1>4. K2 = reading(K1, answer)
  <2> HIDE DEF answer, half
  <2>1. known(k, Append(half, answer))[Len(half) + 1] = reading(known(k, half)[Len(half)], answer)
    BY <1>0, <1>1, KnownAppend
  <2>2. Len(half) + 1 = Len(queue) + 2
    BY <1>1
  <2> QED
    BY <1>1, <2>1, <2>2
<1>5. K0.room = EmptyRoom
  BY DEF Nobody
<1> HIDE DEF K0, K1, K2, half
<1>6. K1.room = alone
  <2>1. K1.room = userChanged(EmptyRoom, joined)
    BY <1>3, <1>5 DEF reading, roomAfter, UserChange
  <2>2. userChanged(EmptyRoom, joined) = chateeJoined(EmptyRoom, u.name, u)
    BY DEF userChanged, UserChange
  <2> QED
    BY <2>1, <2>2 DEF chateeJoined, chateeExists, EmptyRoom
<1>7. K2.room = alone /\ K2.motd = topic
  BY <1>4, <1>6 DEF reading, roomAfter, motdAfter, UserJoinResponse, chateeJoined, chateeExists
<1>8. PartOf(alone, room)
  BY DEF PartOf
<1> DEFINE whole == Append(half, answer)
<1>9. Follows(k, listed, whole, room, topic)
  <2>1. known(k, whole)[Len(whole)] = K2
    BY <1>2 DEF K2
  <2> HIDE DEF whole, alone
  <2>2. ~HasList(listed, whole, Len(whole))
    BY <1>2 DEF whole
  <2> QED
    BY <1>7, <1>8, <2>1, <2>2 DEF Follows
<1> QED
  BY <1>9 DEF half

\* Reading the next message brings a client nearer to what it is to know.  It has
\* the list then only if it had it, or read it, or has it still to read.
LEMMA ReadOn ==
  ASSUME NEW S, NEW queue \in Seq(S), queue # << >>, NEW k, NEW listed, NEW now,
         now => listed \/ Head(queue).type = "USER_LIST_RESPONSE"
  PROVE  /\ \A room, topic : Follows(k, listed, queue, room, topic)
              => Follows(reading(k, Head(queue)), now, Tail(queue), room, topic)
         /\ Nobody(k, listed, queue) => Nobody(reading(k, Head(queue)), now, Tail(queue))
         /\ NoGhost(k, listed, queue) => NoGhost(reading(k, Head(queue)), now, Tail(queue))
<1> DEFINE rest == Tail(queue)
           next == reading(k, Head(queue))
           n == Len(queue) - 1
<1>1. /\ Len(rest) = n /\ n \in Nat /\ Len(queue) = n + 1
      /\ Head(queue) = queue[1] /\ \A i \in 1 .. n : rest[i] = queue[i + 1]
  OBVIOUS
<1>2. \A i \in 0 .. n : known(next, rest)[i] = known(k, queue)[i + 1]
  BY KnownTail
<1> HIDE DEF rest, next, n
<1>3. ASSUME NEW i \in 0 .. n, HasList(now, rest, i)
      PROVE  HasList(listed, queue, i + 1)
  <2>1. CASE now
    <3>1. 1 \in 1 .. i + 1
      BY <1>1
    <3> QED
      BY <1>1, <2>1, <3>1 DEF HasList
  <2>2. ASSUME NEW j \in 1 .. i, rest[j].type = "USER_LIST_RESPONSE"
        PROVE  HasList(listed, queue, i + 1)
    <3>1. j + 1 \in 1 .. i + 1 /\ j \in 1 .. n
      BY <1>1
    <3>2. queue[j + 1].type = "USER_LIST_RESPONSE"
      BY <1>1, <2>2, <3>1
    <3> QED
      BY <3>1, <3>2 DEF HasList
  <2> QED
    BY <1>3, <2>1, <2>2 DEF HasList
<1>4. n \in 0 .. n
  BY <1>1
<1>5. known(next, rest)[Len(rest)] = known(k, queue)[Len(queue)]
  BY <1>1, <1>2, <1>4
<1>6. HasList(now, rest, Len(rest)) => HasList(listed, queue, Len(queue))
  BY <1>1, <1>3, <1>4
<1>7. ASSUME NEW room, NEW topic, Follows(k, listed, queue, room, topic)
      PROVE  Follows(next, now, rest, room, topic)
  BY <1>5, <1>6, <1>7 DEF Follows
<1>8. ASSUME Nobody(k, listed, queue)
      PROVE  Nobody(next, now, rest)
  BY <1>5, <1>6, <1>8 DEF Nobody
<1>9. ASSUME NoGhost(k, listed, queue)
      PROVE  NoGhost(next, now, rest)
  <2> SUFFICES ASSUME NEW i \in 1 .. n, rest[i].type = "CHAT_MESSAGE",
                      HasList(now, rest, i - 1)
               PROVE  SpeaksIn(rest[i], known(next, rest)[i - 1].room)
    BY <1>1 DEF NoGhost
  <2>1. /\ i - 1 \in 0 .. n /\ i + 1 \in 1 .. Len(queue)
        /\ (i - 1) + 1 = i /\ (i + 1) - 1 = i
    BY <1>1
  <2>2. rest[i] = queue[i + 1] /\ known(next, rest)[i - 1] = known(k, queue)[i]
    BY <1>1, <1>2, <2>1
  <2>3. HasList(listed, queue, i)
    BY <1>3, <2>1
  <2> QED
    BY <1>9, <2>1, <2>2, <2>3 DEF NoGhost
<1> QED
  BY <1>7, <1>8, <1>9 DEF rest, next

-----------------------------------------------------------------------------
(* What each message of the server tells *)

\* A message that no client takes notice of.
LEMMA SaysNothing ==
  ASSUME NEW m, NEW room, NEW topic,
         \/ m.type \in {"CHAT_MESSAGE", "GENERIC_CHAT_RESPONSE"}
         \/ m.type = "USER_JOIN_RESPONSE" /\ ~m.success
  PROVE  Tells(m, room, topic, room, topic)
BY DEF Tells, roomAfter, motdAfter

\* A new motd.
LEMMA TellsMotd ==
  ASSUME NEW room, NEW topic, NEW text
  PROVE  Tells(ChatroomChange(text), room, topic, room, text)
BY DEF Tells, roomAfter, motdAfter, ChatroomChange

\* A newcomer.
LEMMA TellsJoined ==
  ASSUME NEW room, NEW topic, NEW u, u.name \notin DOMAIN room
  PROVE  Tells(UserChange("JOINED", u), room, topic,
               [n \in DOMAIN room \cup {u.name} |-> IF n = u.name THEN u ELSE room[n]], topic)
<1> DEFINE m == UserChange("JOINED", u)
           room2 == [n \in DOMAIN room \cup {u.name} |-> IF n = u.name THEN u ELSE room[n]]
<1>1. m.type = "USER_CHANGE" /\ m.action = "JOINED" /\ m.user = u
  BY DEF UserChange
<1>2. \A part : roomAfter(part, m) = chateeJoined(part, u.name, u)
  BY <1>1 DEF roomAfter, userChanged
<1>3. chateeJoined(room, u.name, u) = room2
  BY DEF chateeJoined, chateeExists
<1>4. ASSUME NEW part, PartOf(part, room)
      PROVE  PartOf(chateeJoined(part, u.name, u), room2)
  <2>1. u.name \notin DOMAIN part
    BY <1>4 DEF PartOf
  <2> QED
    BY <1>4, <2>1 DEF PartOf, chateeJoined, chateeExists
<1>5. motdAfter(topic, m) = topic
  BY <1>1 DEF motdAfter
<1> HIDE DEF m, room2
<1> QED
  BY <1>1, <1>2, <1>3, <1>4, <1>5 DEF Tells, m, room2

\* Somebody who is gone.
LEMMA TellsGone ==
  ASSUME NEW room, NEW topic, NEW u, u.name \in DOMAIN room, NEW action \in {"LEFT", "KICKED"}
  PROVE  Tells(UserChange(action, u), room, topic, chateeLeft(room, u.name), topic)
<1> DEFINE m == UserChange(action, u)
<1>1. m.type = "USER_CHANGE" /\ m.action = action /\ m.user = u /\ m.presence = None
  BY DEF UserChange
<1>2. \A part : roomAfter(part, m) =
        IF u.name \in DOMAIN part THEN chateeLeft(part, u.name) ELSE part
  BY <1>1 DEF roomAfter, userChanged, presenceChanged, actionTaken, chateeExists
<1>3. ASSUME NEW part, PartOf(part, room)
      PROVE  PartOf(roomAfter(part, m), chateeLeft(room, u.name))
  <2> HIDE DEF m
  <2>1. CASE u.name \in DOMAIN part
    <3>1. roomAfter(part, m) = chateeLeft(part, u.name)
      BY <1>2, <2>1
    <3>2. PartOf(chateeLeft(part, u.name), chateeLeft(room, u.name))
      BY <1>3 DEF PartOf, chateeLeft
    <3> QED
      BY <3>1, <3>2
  <2>2. CASE u.name \notin DOMAIN part
    <3>1. roomAfter(part, m) = part
      BY <1>2, <2>2
    <3>2. PartOf(part, chateeLeft(room, u.name))
      BY <1>3, <2>2 DEF PartOf, chateeLeft
    <3> QED
      BY <3>1, <3>2
  <2> QED
    BY <2>1, <2>2
<1>4. motdAfter(topic, m) = topic
  BY <1>1 DEF motdAfter
<1> HIDE DEF m
<1> QED
  BY <1>1, <1>2, <1>3, <1>4 DEF Tells, m

\* Somebody who may or may not speak from now on.
LEMMA TellsMute ==
  ASSUME NEW room, NEW topic, NEW u, u.name \in DOMAIN room,
         NEW action \in {"MUTED", "UNMUTED"}
  PROVE  Tells(UserChange(action, u), room, topic,
               [room EXCEPT ![u.name].mute = (action = "MUTED")], topic)
<1> DEFINE m == UserChange(action, u)
           altered(part) == [part EXCEPT ![u.name].mute = (action = "MUTED")]
<1>1. m.type = "USER_CHANGE" /\ m.action = action /\ m.user = u /\ m.presence = None
  BY DEF UserChange
<1>2. \A part : roomAfter(part, m) =
        IF u.name \in DOMAIN part THEN altered(part) ELSE part
  BY <1>1 DEF roomAfter, userChanged, presenceChanged, actionTaken, chateeExists
<1>3. ASSUME NEW part, PartOf(part, room)
      PROVE  PartOf(roomAfter(part, m), altered(room))
  <2>1. /\ DOMAIN part \subseteq DOMAIN room
        /\ \A n \in DOMAIN part : part[n] = room[n]
    BY <1>3 DEF PartOf
  <2>2. /\ DOMAIN altered(part) = DOMAIN part
        /\ \A n \in DOMAIN part :
             altered(part)[n] = IF n = u.name THEN [part[n] EXCEPT !.mute = (action = "MUTED")]
                                             ELSE part[n]
    OBVIOUS
  <2>3. /\ DOMAIN altered(room) = DOMAIN room
        /\ \A n \in DOMAIN room :
             altered(room)[n] = IF n = u.name THEN [room[n] EXCEPT !.mute = (action = "MUTED")]
                                             ELSE room[n]
    OBVIOUS
  <2> HIDE DEF altered
  <2>4. CASE u.name \in DOMAIN part
    <3>1. roomAfter(part, m) = altered(part)
      BY <1>2, <2>4
    <3>2. ASSUME NEW n \in DOMAIN part
          PROVE  altered(part)[n] = altered(room)[n]
      <4>1. part[n] = room[n] /\ n \in DOMAIN room
        BY <2>1
      <4>2. altered(part)[n] = IF n = u.name THEN [part[n] EXCEPT !.mute = (action = "MUTED")]
                                             ELSE part[n]
        BY <2>2
      <4>3. altered(room)[n] = IF n = u.name THEN [room[n] EXCEPT !.mute = (action = "MUTED")]
                                             ELSE room[n]
        BY <2>3, <4>1
      <4> QED
        BY <4>1, <4>2, <4>3
    <3> QED
      BY <2>1, <2>2, <2>3, <3>1, <3>2 DEF PartOf
  <2>5. CASE u.name \notin DOMAIN part
    <3>1. roomAfter(part, m) = part
      BY <1>2, <2>5
    <3> QED
      BY <2>1, <2>5, <2>3, <3>1 DEF PartOf
  <2> QED
    BY <2>4, <2>5
<1>4. motdAfter(topic, m) = topic
  BY <1>1 DEF motdAfter
<1> HIDE DEF m
<1> QED
  BY <1>1, <1>2, <1>3, <1>4 DEF Tells, m

\* Somebody who is busy, away or back.
LEMMA TellsPresence ==
  ASSUME NEW room, NEW topic, NEW name \in DOMAIN room, NEW presence
  PROVE  Tells(PresenceChange(name, presence), room, topic,
               presenceChanged(room, name, presence), topic)
<1> DEFINE m == PresenceChange(name, presence)
<1>1. m.type = "USER_CHANGE" /\ m.action = None /\ m.user.name = name /\ m.presence = presence
  BY DEF PresenceChange
<1>2. \A part : roomAfter(part, m) =
        IF name \in DOMAIN part THEN presenceChanged(part, name, presence) ELSE part
  BY <1>1, NoneAssumption DEF roomAfter, userChanged, actionTaken, chateeExists
<1>3. ASSUME NEW part, PartOf(part, room)
      PROVE  PartOf(roomAfter(part, m), presenceChanged(room, name, presence))
  BY <1>2, <1>3 DEF PartOf, presenceChanged
<1>4. motdAfter(topic, m) = topic
  BY <1>1 DEF motdAfter
<1> HIDE DEF m
<1> QED
  BY <1>1, <1>2, <1>3, <1>4 DEF Tells, m

\* The list of users.
LEMMA TellsList ==
  ASSUME NEW room, NEW topic, room = [n \in DOMAIN room |-> room[n]],
         \A n \in DOMAIN room : room[n].name = n
  PROVE  Tells(UserListResponse({room[n] : n \in DOMAIN room}), room, topic, room, topic)
<1> DEFINE list == {room[n] : n \in DOMAIN room}
           m == UserListResponse(list)
<1>1. m.type = "USER_LIST_RESPONSE" /\ m.users = list
  BY DEF UserListResponse
<1>2. ASSUME NEW part, PartOf(part, room)
      PROVE  listReceived(part, list) = room
  <2>1. DOMAIN part \cup {u.name : u \in list} = DOMAIN room
    BY <1>2 DEF PartOf
  <2>2. ASSUME NEW n \in DOMAIN room
        PROVE  (IF chateeExists(part, n) THEN part[n] ELSE CHOOSE u \in list : u.name = n) = room[n]
    <3>1. \A u \in list : u.name = n => u = room[n]
      OBVIOUS
    <3>2. (CHOOSE u \in list : u.name = n) = room[n]
      BY <3>1
    <3> QED
      BY <1>2, <3>2 DEF PartOf, chateeExists
  <2> HIDE DEF list
  <2>3. listReceived(part, list) = [n \in DOMAIN room |-> room[n]]
    BY <2>1, <2>2 DEF listReceived
  <2> QED
    BY <2>3
<1>3. PartOf(room, room)
  BY DEF PartOf
<1>4. \A part : roomAfter(part, m) = listReceived(part, list)
  BY <1>1 DEF roomAfter
<1>5. motdAfter(topic, m) = topic
  BY <1>1 DEF motdAfter
<1> HIDE DEF m, list
<1> QED
  BY <1>1, <1>2, <1>3, <1>4, <1>5 DEF Tells, m, list

-----------------------------------------------------------------------------
(* A client in the room *)

InStep(k, listed, queue, room, topic) ==
  Follows(k, listed, queue, room, topic) /\ NoGhost(k, listed, queue)

\* A client in the room stays in step with it when it is told what changes, and
\* who speaks is in the room.
LEMMA InStepOn ==
  ASSUME NEW queue \in Seq(ServerMessage), NEW m \in ServerMessage, NEW k, NEW listed,
         NEW room, NEW topic, NEW room2, NEW topic2,
         InStep(k, listed, queue, room, topic), Tells(m, room, topic, room2, topic2),
         m.type = "CHAT_MESSAGE" => SpeaksIn(m, room)
  PROVE  /\ InStep(k, listed, Append(queue, m), room2, topic2)
         /\ Append(queue, m) \in Seq(ServerMessage)
<1>1. Follows(k, listed, queue, room, topic) /\ NoGhost(k, listed, queue)
  BY DEF InStep
<1>2. HasList(listed, queue, Len(queue)) => known(k, queue)[Len(queue)].room = room
  BY <1>1 DEF Follows
<1>3. NoGhost(k, listed, Append(queue, m))
  BY <1>1, <1>2, NoGhostOn
<1>4. Follows(k, listed, Append(queue, m), room2, topic2)
  BY <1>1, FollowsOn
<1> QED
  BY <1>3, <1>4 DEF InStep

-----------------------------------------------------------------------------
(* MirrorsInv, client by client *)

\* c has the list of users.
listed(c) == phase[c] = "listed"

MayJoin(c) == ~InRoom(c) /\ sock[c] \in {"idle", "connected"}

ClientOK(c) ==
  phase[c] # "gone" =>
    /\ InRoom(c) => Follows(shown(c), listed(c), toClient[c], view, motd)
    /\ MayJoin(c) => Nobody(shown(c), listed(c), toClient[c])
    /\ NoGhost(shown(c), listed(c), toClient[c])

\* That is what MirrorsInv says, before a step and after it.
LEMMA MirrorsInvMeans ==
  /\ MirrorsInv <=> \A c \in Conns : ClientOK(c)
  /\ MirrorsInv' <=> \A c \in Conns : ClientOK(c)'
BY DEF MirrorsInv, ClientOK, FollowsRoom, KnowsNobody, HearsNoGhost, MayJoin, listed,
       Follows, Nobody, NoGhost, HasList, Listed, MirrorAfter, MotdAfter, Known

\* Nobody knows anything at first.
LEMMA MirrorsInvInit == Init => MirrorsInv
<1> SUFFICES ASSUME Init, NEW c \in Conns
             PROVE  ClientOK(c)
  BY MirrorsInvMeans
<1>1. /\ toClient[c] = << >> /\ mirror[c] = EmptyRoom /\ ~listed(c) /\ ~InRoom(c)
  BY DEF Init, ServerInit, ClientInit, listed, InRoom, EmptyRoom
<1>2. << >> \in Seq(ServerMessage) /\ Len(<< >>) = 0
  OBVIOUS
<1>3. known(shown(c), << >>)[0] = shown(c)
  BY <1>2, KnownFirst
<1>4. Nobody(shown(c), listed(c), << >>)
  BY <1>1, <1>2, <1>3 DEF Nobody, shown, HasList
<1>5. NoGhost(shown(c), listed(c), << >>)
  BY <1>2 DEF NoGhost
<1> QED
  BY <1>1, <1>4, <1>5 DEF ClientOK

\* The client of c does nothing in a step.
ClientStill(c) == UNCHANGED <<phase[c], mirror[c], shownMotd[c]>>

\* A client to whom nothing is said keeps in step if nothing happens in its room,
\* and drops out if it leaves.
LEMMA StillOK ==
  ASSUME NEW c \in Conns, ClientOK(c), ClientStill(c), toClient'[c] = toClient[c],
         InRoom(c)' => InRoom(c) /\ view' = view /\ motd' = motd,
         MayJoin(c)' => MayJoin(c)
  PROVE  ClientOK(c)'
BY DEF ClientOK, ClientStill, shown, listed

\* One that is in the room after a step has to be in step then.
LEMMA InStepOK ==
  ASSUME NEW c \in Conns, ClientStill(c), InRoom(c)',
         InStep(shown(c), listed(c), toClient'[c], view', motd')
  PROVE  ClientOK(c)'
BY DEF ClientOK, ClientStill, InStep, shown, listed, MayJoin

\* One that is told something while in the room.
LEMMA HearsOK ==
  ASSUME NEW c \in Conns, ClientOK(c), ClientStill(c), InRoom(c), InRoom(c)',
         QueuesTypeOK, NEW m \in ServerMessage, toClient'[c] = Append(toClient[c], m),
         Tells(m, view, motd, view', motd'), m.type = "CHAT_MESSAGE" => SpeaksIn(m, view)
  PROVE  ClientOK(c)'
<1>1. CASE phase[c] = "gone"
  BY <1>1 DEF ClientOK, ClientStill
<1>2. CASE phase[c] # "gone"
  <2>1. InStep(shown(c), listed(c), toClient[c], view, motd)
    BY <1>2 DEF ClientOK, InStep
  <2>2. toClient[c] \in Seq(ServerMessage)
    BY DEF QueuesTypeOK
  <2>3. InStep(shown(c), listed(c), toClient'[c], view', motd')
    BY <2>1, <2>2, InStepOn
  <2> QED
    BY <2>3, InStepOK
<1> QED
  BY <1>1, <1>2

\* One that is told twice what changes nothing.
LEMMA HearsTwiceOK ==
  ASSUME NEW c \in Conns, ClientOK(c), ClientStill(c), InRoom(c), InRoom(c)',
         QueuesTypeOK, NEW m \in ServerMessage,
         toClient'[c] = Append(Append(toClient[c], m), m),
         Tells(m, view, motd, view, motd), view' = view, motd' = motd,
         m.type = "CHAT_MESSAGE" => SpeaksIn(m, view)
  PROVE  ClientOK(c)'
<1>1. CASE phase[c] = "gone"
  BY <1>1 DEF ClientOK, ClientStill
<1>2. CASE phase[c] # "gone"
  <2> DEFINE half == Append(toClient[c], m)
  <2>1. InStep(shown(c), listed(c), toClient[c], view, motd)
    BY <1>2 DEF ClientOK, InStep
  <2>2. toClient[c] \in Seq(ServerMessage)
    BY DEF QueuesTypeOK
  <2>3. InStep(shown(c), listed(c), half, view, motd) /\ half \in Seq(ServerMessage)
    BY <2>1, <2>2, InStepOn
  <2>4. InStep(shown(c), listed(c), Append(half, m), view, motd)
    <3> HIDE DEF half
    <3> QED
      BY <2>3, InStepOn
  <2> QED
    BY <2>4, InStepOK
<1> QED
  BY <1>1, <1>2

\* One that is refused.
LEMMA RefusedOK ==
  ASSUME NEW c \in Conns, ClientOK(c), ClientStill(c), ~InRoom(c), ~InRoom(c)',
         QueuesTypeOK, NEW m \in ServerMessage, toClient'[c] = Append(toClient[c], m),
         m.type = "USER_JOIN_RESPONSE", ~m.success, sock'[c] = sock[c]
  PROVE  ClientOK(c)'
<1>1. toClient[c] \in Seq(ServerMessage)
  BY DEF QueuesTypeOK
<1>2. Nobody(shown(c), listed(c), toClient[c]) => Nobody(shown(c), listed(c), toClient'[c])
  BY <1>1, NobodyOn
<1>3. NoGhost(shown(c), listed(c), toClient[c]) => NoGhost(shown(c), listed(c), toClient'[c])
  BY <1>1, NoGhostOn
<1>4. shown(c)' = shown(c) /\ listed(c)' = listed(c) /\ phase'[c] = phase[c]
  BY DEF ClientStill, shown, listed
<1> QED
  BY <1>2, <1>3, <1>4 DEF ClientOK, MayJoin

\* One whose connection is closed after it was told so.
LEMMA KickedOK ==
  ASSUME NEW c \in Conns, ClientOK(c), ClientStill(c), ~InRoom(c)', sock'[c] = "closing",
         QueuesTypeOK, NEW m \in ServerMessage, toClient'[c] = Append(toClient[c], m),
         m.type # "CHAT_MESSAGE"
  PROVE  ClientOK(c)'
<1>1. toClient[c] \in Seq(ServerMessage)
  BY DEF QueuesTypeOK
<1>2. NoGhost(shown(c), listed(c), toClient[c]) => NoGhost(shown(c), listed(c), toClient'[c])
  BY <1>1, NoGhostOn
<1>3. shown(c)' = shown(c) /\ listed(c)' = listed(c) /\ phase'[c] = phase[c]
  BY DEF ClientStill, shown, listed
<1> QED
  BY <1>2, <1>3 DEF ClientOK, MayJoin

\* One that is let in.
LEMMA EntersOK ==
  ASSUME NEW c \in Conns, ClientOK(c), ClientStill(c), MayJoin(c), InRoom(c)',
         QueuesTypeOK, NEW u, u.name \in DOMAIN view', view'[u.name] = u, motd' = motd,
         UserChange("JOINED", u) \in ServerMessage,
         UserJoinResponse(TRUE, u, motd) \in ServerMessage,
         toClient'[c] = Append(Append(toClient[c], UserChange("JOINED", u)),
                               UserJoinResponse(TRUE, u, motd))
  PROVE  ClientOK(c)'
<1>1. CASE phase[c] = "gone"
  BY <1>1 DEF ClientOK, ClientStill
<1>2. CASE phase[c] # "gone"
  <2> DEFINE joined == UserChange("JOINED", u)
             answer == UserJoinResponse(TRUE, u, motd)
             half == Append(toClient[c], joined)
  <2>1. toClient[c] \in Seq(ServerMessage)
    BY DEF QueuesTypeOK
  <2>2. Nobody(shown(c), listed(c), toClient[c]) /\ NoGhost(shown(c), listed(c), toClient[c])
    BY <1>2 DEF ClientOK
  <2>3. Follows(shown(c), listed(c), toClient'[c], view', motd)
    BY <2>1, <2>2, JoinFollows
  <2>4. joined.type # "CHAT_MESSAGE" /\ answer.type # "CHAT_MESSAGE"
    BY DEF UserChange, UserJoinResponse
  <2>5. joined \in ServerMessage /\ answer \in ServerMessage /\ toClient'[c] = Append(half, answer)
    OBVIOUS
  <2> HIDE DEF joined, answer
  <2>6. half \in Seq(ServerMessage) /\ NoGhost(shown(c), listed(c), half)
    BY <2>1, <2>2, <2>4, <2>5, NoGhostOn
  <2>7. NoGhost(shown(c), listed(c), Append(half, answer))
    <3> HIDE DEF half
    <3> QED
      BY <2>4, <2>5, <2>6, NoGhostOn
  <2> QED
    BY <2>3, <2>5, <2>7, InStepOK DEF InStep
<1> QED
  BY <1>1, <1>2

-----------------------------------------------------------------------------
(* What the server's steps do to the room as the clients are to see it *)

\* Who is in the room has an open connection, and a chatee of its own.
LEMMA InRoomAlive ==
  ASSUME RoomInv, NEW c \in Conns
  PROVE  /\ InRoom(c) => sock[c] = "connected"
         /\ InRoom(c) <=> chatee(c) # {}
         /\ \A n \in chatee(c) : n \in DOMAIN chatees /\ chatees[n].connection = c
BY BackPointer DEF InRoom, RoomInv, NoDanglingConnection, isAlive

\* propagateMessage tells those in the room, and nobody else.
LEMMA PropagateHeard ==
  ASSUME RoomInv, NEW m, NEW c \in Conns
  PROVE  propagateMessage(chatees, m)[c]
           = IF InRoom(c) THEN Append(toClient[c], m) ELSE toClient[c]
BY InRoomAlive DEF propagateMessage, InRoom, isAlive

\* The view of a room: the users under the names they carry.
LEMMA ViewType ==
  ASSUME RoomTypeOK
  PROVE  /\ view = [n \in DOMAIN view |-> view[n]]
         /\ DOMAIN view = DOMAIN chatees
         /\ \A n \in DOMAIN view :
              /\ view[n] \in User /\ view[n].name = n /\ view[n] = user(chatees[n])
              /\ view[n].id = chatees[n].id /\ view[n].mute = chatees[n].mute
BY ChateeUser DEF view, RoomTypeOK, user

\* What a step that leaves everybody in the room does not change.
SameMembers == sock' = sock /\ \A c \in Conns : InRoom(c)' <=> InRoom(c)

ClientsStill == UNCHANGED <<phase, mirror, shownMotd>>

\* Nothing happens to the room, and nobody is told anything.
LEMMA UntouchedOK ==
  ASSUME MirrorsInv, ClientsStill, UNCHANGED <<chatees, motd, sock, toClient>>
  PROVE  MirrorsInv'
<1> SUFFICES ASSUME NEW c \in Conns
             PROVE  ClientOK(c)'
  BY MirrorsInvMeans
<1>1. ClientOK(c) /\ ClientStill(c)
  BY MirrorsInvMeans DEF ClientsStill, ClientStill
<1>2. view' = view /\ (InRoom(c)' <=> InRoom(c))
  BY DEF view, InRoom
<1> QED
  BY <1>1, <1>2, StillOK DEF MayJoin

\* Everybody in the room is told what changes.
LEMMA PublishedOK ==
  ASSUME RoomInv, QueuesTypeOK, MirrorsInv, ClientsStill, SameMembers,
         NEW m \in ServerMessage, toClient' = propagateMessage(chatees, m),
         Tells(m, view, motd, view', motd'), m.type = "CHAT_MESSAGE" => SpeaksIn(m, view)
  PROVE  MirrorsInv'
<1> SUFFICES ASSUME NEW c \in Conns
             PROVE  ClientOK(c)'
  BY MirrorsInvMeans
<1>1. ClientOK(c) /\ ClientStill(c)
  BY MirrorsInvMeans DEF ClientsStill, ClientStill
<1>2. CASE InRoom(c)
  <2>1. toClient'[c] = Append(toClient[c], m)
    BY <1>2, PropagateHeard
  <2> QED
    BY <1>1, <1>2, <2>1, HearsOK DEF SameMembers
<1>3. CASE ~InRoom(c)
  <2>1. toClient'[c] = toClient[c]
    BY <1>3, PropagateHeard
  <2> QED
    BY <1>1, <1>3, <2>1, StillOK DEF SameMembers, MayJoin
<1> QED
  BY <1>2, <1>3

\* One client in the room is told what changes nothing.
LEMMA AnsweredOK ==
  ASSUME RoomInv, QueuesTypeOK, MirrorsInv, ClientsStill, SameMembers,
         NEW c \in Conns, InRoom(c), NEW m \in ServerMessage,
         toClient' = sendMessage(toClient, c, m), view' = view, motd' = motd,
         Tells(m, view, motd, view, motd), m.type = "CHAT_MESSAGE" => SpeaksIn(m, view)
  PROVE  MirrorsInv'
<1> SUFFICES ASSUME NEW d \in Conns
             PROVE  ClientOK(d)'
  BY MirrorsInvMeans
<1>1. ClientOK(d) /\ ClientStill(d)
  BY MirrorsInvMeans DEF ClientsStill, ClientStill
<1>2. isAlive(c)
  BY InRoomAlive DEF isAlive
<1>3. CASE d = c
  <2>1. toClient'[c] = Append(toClient[c], m)
    BY <1>2 DEF sendMessage, QueuesTypeOK
  <2> QED
    BY <1>1, <1>3, <2>1, HearsOK DEF SameMembers
<1>4. CASE d # c
  <2>1. toClient'[d] = toClient[d]
    BY <1>4 DEF sendMessage, QueuesTypeOK
  <2> QED
    BY <1>1, <2>1, StillOK DEF SameMembers, MayJoin
<1> QED
  BY <1>3, <1>4

\* Two clients in the room, or one twice, are told what changes nothing.
LEMMA WhisperedOK ==
  ASSUME RoomInv, QueuesTypeOK, MirrorsInv, ClientsStill, SameMembers,
         NEW c \in Conns, InRoom(c), NEW d \in Conns, InRoom(d), NEW m \in ServerMessage,
         toClient' = sendMessage(sendMessage(toClient, c, m), d, m),
         view' = view, motd' = motd,
         Tells(m, view, motd, view, motd), m.type = "CHAT_MESSAGE" => SpeaksIn(m, view)
  PROVE  MirrorsInv'
<1> SUFFICES ASSUME NEW e \in Conns
             PROVE  ClientOK(e)'
  BY MirrorsInvMeans
<1>1. ClientOK(e) /\ ClientStill(e)
  BY MirrorsInvMeans DEF ClientsStill, ClientStill
<1>2. isAlive(c) /\ isAlive(d)
  BY InRoomAlive DEF isAlive
<1>3. toClient'[e] = IF e = c THEN IF e = d THEN Append(Append(toClient[e], m), m)
                                           ELSE Append(toClient[e], m)
                              ELSE IF e = d THEN Append(toClient[e], m) ELSE toClient[e]
  BY <1>2 DEF sendMessage, QueuesTypeOK
<1>4. CASE e \notin {c, d}
  BY <1>1, <1>3, <1>4, StillOK DEF SameMembers, MayJoin
<1>5. CASE e \in {c, d} /\ c # d
  BY <1>1, <1>3, <1>5, HearsOK DEF SameMembers
<1>6. CASE e = c /\ e = d
  BY <1>1, <1>3, <1>6, HearsTwiceOK DEF SameMembers
<1> QED
  BY <1>4, <1>5, <1>6

\* An outsider is refused.
LEMMA JoinRefusedOK ==
  ASSUME RoomInv, QueuesTypeOK, MirrorsInv, ClientsStill, NEW c \in Conns, NEW m, isAlive(c),
         joinRefused(c, m)
  PROVE  MirrorsInv'
<1> DEFINE answer == UserJoinResponse(FALSE, None, motd)
<1>1. answer \in ServerMessage /\ answer.type = "USER_JOIN_RESPONSE" /\ ~answer.success
  <2>1. answer \in ServerMessage
    BY ResponseMessages DEF RoomInv, RoomTypeOK
  <2> QED
    BY <2>1 DEF UserJoinResponse
<1>2. /\ toClient' = sendMessage(toClient, c, answer)
      /\ view' = view /\ motd' = motd /\ SameMembers
  BY DEF joinRefused, view, SameMembers, InRoom
<1> HIDE DEF answer
<1>3. CASE InRoom(c)
  <2>1. Tells(answer, view, motd, view, motd)
    BY <1>1, SaysNothing
  <2> QED
    BY <1>1, <1>2, <1>3, <2>1, AnsweredOK
<1>4. CASE ~InRoom(c)
  <2> SUFFICES ASSUME NEW d \in Conns
               PROVE  ClientOK(d)'
    BY MirrorsInvMeans
  <2>1. ClientOK(d) /\ ClientStill(d)
    BY MirrorsInvMeans DEF ClientsStill, ClientStill
  <2>2. CASE d = c
    <3>1. toClient'[c] = Append(toClient[c], answer)
      BY <1>2 DEF sendMessage, QueuesTypeOK
    <3> QED
      BY <1>1, <1>2, <1>4, <2>1, <2>2, <3>1, RefusedOK DEF SameMembers
  <2>3. CASE d # c
    <3>1. toClient'[d] = toClient[d]
      BY <1>2, <2>3 DEF sendMessage, QueuesTypeOK
    <3> QED
      BY <1>2, <2>1, <3>1, StillOK DEF SameMembers, MayJoin
  <2> QED
    BY <2>2, <2>3
<1> QED
  BY <1>3, <1>4

\* A client is let in.
LEMMA JoinAcceptedOK ==
  ASSUME RoomInv, QueuesTypeOK, MirrorsInv, ClientsStill, NEW c \in Conns, NEW m, isAlive(c),
         m.name = clientName[c], joinAccepted(c, m)
  PROVE  MirrorsInv'
<1> DEFINE name == clientName[c]
           new == [id |-> nextUserId, name |-> name, presence |-> "ONLINE",
                   mute |-> FALSE, authorized |-> FALSE, connection |-> c]
           u == user(new)
           joined == UserChange("JOINED", u)
           answer == UserJoinResponse(TRUE, u, motd)
<1>1. name \in Names /\ name \notin DOMAIN chatees /\ new \in Chatee /\ u.name = name
  BY ClientNameAssumption DEF joinAccepted, chateeExists, Chatee, Presences, user,
     RoomInv, RoomTypeOK
<1>2. joined \in ServerMessage /\ answer \in ServerMessage
  <2>1. u \in User
    BY <1>1, ChateeUser
  <2> QED
    BY <2>1, UserChangeMessage, ResponseMessages DEF RoomInv, RoomTypeOK
<1>3. chatees' = [n \in DOMAIN chatees \cup {name} |-> IF n = name THEN new ELSE chatees[n]]
  BY <1>1 DEF joinAccepted, chateeExists, chateeJoined
<1>4. /\ toClient' = sendMessage(propagateMessage(chatees', joined), c, answer)
      /\ motd' = motd /\ sock' = sock
  BY <1>1, <1>3 DEF joinAccepted, chateeExists, chateeJoined
<1>5. /\ ~InRoom(c) /\ InRoom(c)' /\ sock[c] = "connected"
      /\ \A d \in Conns \ {c} : InRoom(d)' <=> InRoom(d)
  <2>1. \A n \in DOMAIN chatees : chatees[n].connection # c
    BY <1>1 DEF RoomInv, OwnName
  <2>2. /\ DOMAIN chatees' = DOMAIN chatees \cup {name} /\ chatees'[name].connection = c
        /\ \A n \in DOMAIN chatees : chatees'[n] = chatees[n]
    BY <1>1, <1>3
  <2> QED
    BY <2>1, <2>2 DEF InRoom, isAlive
<1>6. view' = [n \in DOMAIN view \cup {u.name} |-> IF n = u.name THEN u ELSE view[n]]
  <2> HIDE DEF new
  <2> QED
    BY <1>1, <1>3 DEF view
<1>7. u.name \notin DOMAIN view
  BY <1>1 DEF view
<1>8. \A d \in Conns :
        toClient'[d] = IF d = c THEN Append(Append(toClient[d], joined), answer)
                       ELSE IF InRoom(d) THEN Append(toClient[d], joined) ELSE toClient[d]
  <2>1. \A d \in Conns :
          propagateMessage(chatees', joined)[d]
            = IF d = c \/ InRoom(d) THEN Append(toClient[d], joined) ELSE toClient[d]
    BY <1>5, InRoomAlive DEF propagateMessage, InRoom, isAlive
  <2>2. DOMAIN propagateMessage(chatees', joined) = Conns
    BY DEF propagateMessage
  <2> HIDE DEF joined, answer
  <2> QED
    BY <1>4, <2>1, <2>2 DEF sendMessage
<1>9. Tells(joined, view, motd, view', motd')
  BY <1>4, <1>6, <1>7, TellsJoined
<1>10. joined.type # "CHAT_MESSAGE"
  BY DEF UserChange
<1> HIDE DEF new, u
<1> SUFFICES ASSUME NEW d \in Conns
             PROVE  ClientOK(d)'
  BY MirrorsInvMeans
<1>11. ClientOK(d) /\ ClientStill(d)
  BY MirrorsInvMeans DEF ClientsStill, ClientStill
<1>12. CASE d = c
  <2>1. MayJoin(c)
    BY <1>5 DEF MayJoin
  <2>2. u.name \in DOMAIN view' /\ view'[u.name] = u
    BY <1>6
  <2> QED
    BY <1>2, <1>4, <1>5, <1>8, <1>11, <1>12, <2>1, <2>2, EntersOK
<1>13. CASE d # c /\ InRoom(d)
  <2> HIDE DEF joined
  <2> QED
    BY <1>2, <1>5, <1>8, <1>9, <1>10, <1>11, <1>13, HearsOK
<1>14. CASE d # c /\ ~InRoom(d)
  BY <1>4, <1>5, <1>8, <1>11, <1>14, StillOK DEF MayJoin
<1> QED
  BY <1>12, <1>13, <1>14

\* Who goes by n is gone: the others are told, and stay.
LEMMA Without ==
  ASSUME RoomInv, NEW n \in DOMAIN chatees, NEW c, chatees[n].connection = c,
         chatees' = chateeLeft(chatees, n)
  PROVE  /\ c \in Conns /\ InRoom(c) /\ ~InRoom(c)'
         /\ \A d \in Conns \ {c} : InRoom(d)' <=> InRoom(d)
         /\ \A action \in {"LEFT", "KICKED"} :
              LET m == UserChange(action, user(chatees[n]))
              IN /\ m \in ServerMessage /\ m.type # "CHAT_MESSAGE"
                 /\ Tells(m, view, motd, view', motd)
<1> DEFINE u == user(chatees[n])
<1>1. c \in Conns /\ InRoom(c)
  BY DEF RoomInv, RoomTypeOK, Chatee, InRoom
<1>2. DOMAIN chatees' = DOMAIN chatees \ {n} /\ \A k \in DOMAIN chatees' : chatees'[k] = chatees[k]
  BY DEF chateeLeft
<1>3. \A k \in DOMAIN chatees : chatees[k].connection = c => k = n
  BY DEF RoomInv, OwnName
<1>4. ~InRoom(c)' /\ \A d \in Conns \ {c} : InRoom(d)' <=> InRoom(d)
  BY <1>2, <1>3 DEF InRoom
<1>5. view' = chateeLeft(view, n)
  BY <1>2 DEF view, chateeLeft
<1>6. u \in User /\ u.name = n /\ n \in DOMAIN view
  BY ViewType DEF RoomInv
<1>7. ASSUME NEW action \in {"LEFT", "KICKED"}
      PROVE  /\ UserChange(action, u) \in ServerMessage
             /\ UserChange(action, u).type # "CHAT_MESSAGE"
             /\ Tells(UserChange(action, u), view, motd, view', motd)
  <2>1. UserChange(action, u) \in ServerMessage
    BY <1>6, UserChangeMessage
  <2>2. UserChange(action, u).type # "CHAT_MESSAGE"
    BY DEF UserChange
  <2> HIDE DEF u
  <2>3. Tells(UserChange(action, u), view, motd, chateeLeft(view, u.name), motd)
    BY <1>6, TellsGone
  <2> QED
    BY <1>5, <1>6, <2>1, <2>2, <2>3
<1> QED
  BY <1>1, <1>4, <1>7

\* A chatee is kicked.
LEMMA KickOK ==
  ASSUME RoomInv, QueuesTypeOK, MirrorsInv, ClientsStill, NEW n \in DOMAIN chatees, kick(n)
  PROVE  MirrorsInv'
<1> DEFINE m == UserChange("KICKED", user(chatees[n]))
<1>0. PICK c : chatees[n].connection = c
  OBVIOUS
<1>1. /\ toClient' = propagateMessage(chatees, m) /\ chatees' = chateeLeft(chatees, n)
      /\ motd' = motd
      /\ sock' = [sock EXCEPT ![c] = IF @ = "connected" THEN "closing" ELSE @]
  BY <1>0 DEF kick, disconnectFromHost
<1>2. /\ c \in Conns /\ InRoom(c) /\ ~InRoom(c)'
      /\ \A d \in Conns \ {c} : InRoom(d)' <=> InRoom(d)
      /\ m \in ServerMessage /\ m.type # "CHAT_MESSAGE" /\ Tells(m, view, motd, view', motd)
  BY <1>0, <1>1, Without
<1> HIDE DEF m
<1>3. sock'[c] = "closing" /\ \A d \in Conns \ {c} : sock'[d] = sock[d]
  BY <1>1, <1>2, InRoomAlive DEF RoomInv, RoomTypeOK
<1> SUFFICES ASSUME NEW d \in Conns
             PROVE  ClientOK(d)'
  BY MirrorsInvMeans
<1>4. ClientOK(d) /\ ClientStill(d)
  BY MirrorsInvMeans DEF ClientsStill, ClientStill
<1>5. toClient'[d] = IF InRoom(d) THEN Append(toClient[d], m) ELSE toClient[d]
  BY <1>1, PropagateHeard
<1>6. CASE d = c
  BY <1>2, <1>3, <1>4, <1>5, <1>6, KickedOK
<1>7. CASE d # c /\ InRoom(d)
  <2>1. InRoom(d)' /\ toClient'[d] = Append(toClient[d], m)
    BY <1>2, <1>5, <1>7
  <2>2. Tells(m, view, motd, view', motd')
    BY <1>1, <1>2
  <2> QED
    BY <1>2, <1>4, <1>7, <2>1, <2>2, HearsOK
<1>8. CASE d # c /\ ~InRoom(d)
  BY <1>2, <1>3, <1>4, <1>5, <1>8, StillOK DEF MayJoin
<1> QED
  BY <1>6, <1>7, <1>8

\* A connection is lost.
LEMMA LossOK ==
  ASSUME RoomInv, QueuesTypeOK, MirrorsInv, ClientsStill, NEW c \in Conns, connectionLost(c)
  PROVE  MirrorsInv'
<1>1. /\ motd' = motd /\ sock'[c] = "gone" /\ \A d \in Conns \ {c} : sock'[d] = sock[d]
  BY DEF connectionLost, RoomInv, RoomTypeOK
<1> SUFFICES ASSUME NEW d \in Conns
             PROVE  ClientOK(d)'
  BY MirrorsInvMeans
<1>2. ClientOK(d) /\ ClientStill(d)
  BY MirrorsInvMeans DEF ClientsStill, ClientStill
<1>3. CASE UNCHANGED <<chatees, toClient>>
  <2>1. view' = view /\ (InRoom(d)' <=> InRoom(d)) /\ toClient'[d] = toClient[d]
    BY <1>3 DEF view, InRoom
  <2>2. MayJoin(d)' => MayJoin(d)
    BY <1>1, <2>1 DEF MayJoin
  <2> QED
    BY <1>1, <1>2, <2>1, <2>2, StillOK
<1>4. ASSUME NEW n \in chatee(c), chatees' = chateeLeft(chatees, n),
             toClient' = propagateMessage(chatees', UserChange("LEFT", user(chatees[n])))
      PROVE  ClientOK(d)'
  <2> DEFINE m == UserChange("LEFT", user(chatees[n]))
  <2>1. n \in DOMAIN chatees /\ chatees[n].connection = c
    BY InRoomAlive
  <2>2. /\ ~InRoom(c)' /\ \A e \in Conns \ {c} : InRoom(e)' <=> InRoom(e)
        /\ m \in ServerMessage /\ m.type # "CHAT_MESSAGE" /\ Tells(m, view, motd, view', motd)
    BY <1>4, <2>1, Without
  <2>3. toClient'[d] = IF InRoom(d)' THEN Append(toClient[d], m) ELSE toClient[d]
    <3>1. InRoom(d)' => sock[d] = "connected"
      BY <2>2, InRoomAlive
    <3> HIDE DEF m
    <3>2. toClient' = propagateMessage(chatees', m)
      BY <1>4 DEF m
    <3> QED
      BY <3>1, <3>2 DEF propagateMessage, InRoom, isAlive
  <2> HIDE DEF m
  <2>4. CASE d = c
    <3>1. ~MayJoin(d)'
      BY <1>1, <2>4 DEF MayJoin
    <3> QED
      BY <1>2, <2>2, <2>3, <2>4, <3>1, StillOK
  <2>5. CASE d # c /\ InRoom(d)
    BY <1>1, <1>2, <2>2, <2>3, <2>5, HearsOK
  <2>6. CASE d # c /\ ~InRoom(d)
    BY <1>1, <1>2, <2>2, <2>3, <2>6, StillOK DEF MayJoin
  <2> QED
    BY <2>4, <2>5, <2>6
<1> QED
  BY <1>3, <1>4 DEF connectionLost, chateeLost

\* A connection is taken from the listen queue.
LEMMA AcceptOK ==
  ASSUME RoomInv, MirrorsInv, ClientsStill, NEW c \in Conns, connectionEstablished(c)
  PROVE  MirrorsInv'
<1> SUFFICES ASSUME NEW d \in Conns
             PROVE  ClientOK(d)'
  BY MirrorsInvMeans
<1>1. ClientOK(d) /\ ClientStill(d)
  BY MirrorsInvMeans DEF ClientsStill, ClientStill
<1>2. /\ view' = view /\ motd' = motd /\ (InRoom(d)' <=> InRoom(d))
      /\ toClient'[d] = toClient[d]
  BY DEF connectionEstablished, view, InRoom
<1>3. MayJoin(d)' => MayJoin(d)
  BY <1>2 DEF connectionEstablished, MayJoin, RoomInv, RoomTypeOK
<1> QED
  BY <1>1, <1>2, <1>3, StillOK

-----------------------------------------------------------------------------
(* What the members ask of the server *)

\* Who speaks or whispers is in the room, and not muted if it speaks to all.
LEMMA SpeakerOK ==
  ASSUME RoomInv, NEW name \in DOMAIN chatees, NEW text \in Texts,
         NEW target \in ChatTarget \cup {None}, target = None => ~chatees[name].mute
  PROVE  LET m == ChatMessage(text, getTarget(chatees, name), target)
         IN /\ m \in ServerMessage /\ SpeaksIn(m, view)
            /\ \A topic : Tells(m, view, topic, view, topic)
<1> DEFINE from == getTarget(chatees, name)
           m == ChatMessage(text, from, target)
<1>1. from \in ChatTarget /\ from = [user_id |-> chatees[name].id, user_name |-> name]
  BY TargetType DEF RoomInv, getTarget, chateeExists
<1>2. m \in ServerMessage
  BY <1>1, ResponseMessages
<1>3. m.type = "CHAT_MESSAGE" /\ m.from = from /\ m.target = target
  BY DEF ChatMessage
<1>4. SpeaksIn(m, view)
  BY <1>1, <1>3, ViewType DEF SpeaksIn, chateeExists, RoomInv
<1>5. \A topic : Tells(m, view, topic, view, topic)
  <2> HIDE DEF m
  <2> QED
    BY <1>3, SaysNothing
<1> QED
  BY <1>2, <1>4, <1>5

\* What a member is answered, or the room is told for it, keeps everybody in step.
LEMMA ReceiptOK ==
  ASSUME RoomInv, QueuesTypeOK, MirrorsInv, ClientsStill,
         NEW c \in Conns, NEW m \in Incoming(c), isAlive(c), NEW name \in chatee(c),
         \/ m.type = "USER_LIST_REQUEST" /\ receiveUserListRequest(c)
         \/ m.type = "USER_CHANGE" /\ receiveUserChange(name, m)
         \/ m.type = "CHAT_MESSAGE" /\ receiveChatMessage(c, name, m)
         \/ m.type = "CHAT_COMMAND" /\ receiveChatCommand(c, name, m)
  PROVE  MirrorsInv'
<1>1. /\ name \in DOMAIN chatees /\ chatees[name].connection = c
      /\ clientName[c] = name /\ InRoom(c)
  BY InRoomAlive DEF RoomInv, OwnName
<1>2. ASSUME NEW success \in BOOLEAN, sendResponse(c, success), view' = view, motd' = motd,
             SameMembers
      PROVE  MirrorsInv'
  <2> DEFINE answer == GenericChatResponse(success)
  <2>1. answer \in ServerMessage /\ answer.type = "GENERIC_CHAT_RESPONSE"
    BY ResponseMessages DEF GenericChatResponse
  <2>2. toClient' = sendMessage(toClient, c, answer)
    BY <1>2 DEF sendResponse
  <2> HIDE DEF answer
  <2>3. Tells(answer, view, motd, view, motd)
    BY <2>1, SaysNothing
  <2> QED
    BY <1>1, <1>2, <2>1, <2>2, <2>3, AnsweredOK
<1>3. CASE m.type = "USER_LIST_REQUEST" /\ receiveUserListRequest(c)
  <2> DEFINE list == UserListResponse(users(chatees))
  <2>1. users(chatees) = {view[n] : n \in DOMAIN view}
    BY ViewType DEF users, RoomInv
  <2>2. list \in ServerMessage
    <3>1. users(chatees) \in SUBSET User
      BY <2>1, ViewType DEF RoomInv
    <3> QED
      BY <3>1, ResponseMessages
  <2>3. Tells(list, view, motd, view, motd)
    BY <2>1, ViewType, TellsList DEF RoomInv
  <2>4. list.type # "CHAT_MESSAGE"
    BY DEF UserListResponse
  <2>5. /\ toClient' = sendMessage(toClient, c, list)
        /\ view' = view /\ motd' = motd /\ SameMembers
    BY <1>3 DEF receiveUserListRequest, view, SameMembers, InRoom
  <2> HIDE DEF list
  <2> QED
    BY <1>1, <2>2, <2>3, <2>4, <2>5, AnsweredOK
<1>4. CASE m.type = "USER_CHANGE" /\ receiveUserChange(name, m)
  <2>1. m \in ServerMessage /\ m = PresenceChange(name, m.presence)
    BY <1>1, <1>4, UserChangeType DEF Incoming, ClientMessage, MotdCommand, UserJoinRequest,
       UserListRequest, PresenceChange, ChatMessage, ChatCommand
  <2>2. view' = presenceChanged(view, name, m.presence)
    BY <1>1, <1>4 DEF receiveUserChange, presenceChanged, view, user
  <2>3. Tells(m, view, motd, view', motd')
    <3>1. name \in DOMAIN view /\ motd' = motd
      BY <1>1, <1>4 DEF view, receiveUserChange
    <3> QED
      BY <2>1, <2>2, <3>1, TellsPresence
  <2>4. SameMembers /\ toClient' = propagateMessage(chatees, m)
    BY <1>1, <1>4 DEF receiveUserChange, SameMembers, InRoom
  <2> QED
    BY <1>4, <2>1, <2>3, <2>4, PublishedOK
<1>5. CASE m.type = "CHAT_MESSAGE" /\ receiveChatMessage(c, name, m)
  <2>1. m.text \in Texts
    BY <1>5, TextType
  <2>2. view' = view /\ motd' = motd /\ SameMembers
    BY <1>5 DEF receiveChatMessage, whisper, whisperToNobody, publicMessage, mutedMessage,
       view, SameMembers, InRoom
  <2>3. CASE whisper(c, name, m)
    <3> DEFINE target == getTarget(chatees, m.target.user_name)
               copy == ChatMessage(m.text, getTarget(chatees, name), target)
               d == chatees[target.user_name].connection
    <3>1. /\ target \in ChatTarget /\ target # None
          /\ target.user_name \in DOMAIN chatees
      BY <2>3, TargetType DEF whisper, getTarget, chateeExists, RoomInv
    <3>2. d \in Conns /\ InRoom(d)
      BY <3>1 DEF RoomInv, RoomTypeOK, Chatee, InRoom
    <3>3. toClient' = sendMessage(sendMessage(toClient, c, copy), d, copy)
      BY <2>3 DEF whisper
    <3> HIDE DEF d, target
    <3>4. copy \in ServerMessage /\ SpeaksIn(copy, view) /\ Tells(copy, view, motd, view, motd)
      BY <1>1, <2>1, <3>1, SpeakerOK
    <3> HIDE DEF copy
    <3> QED
      BY <1>1, <2>2, <3>2, <3>3, <3>4, WhisperedOK
  <2>4. CASE whisperToNobody(c, m) \/ mutedMessage(c, name)
    BY <1>2, <2>2, <2>4 DEF whisperToNobody, mutedMessage
  <2>5. CASE publicMessage(name, m)
    <3> DEFINE copy == ChatMessage(m.text, getTarget(chatees, name), None)
    <3>1. copy \in ServerMessage /\ SpeaksIn(copy, view) /\ Tells(copy, view, motd, view, motd)
      BY <1>1, <2>1, <2>5, SpeakerOK DEF publicMessage
    <3>2. toClient' = propagateMessage(chatees, copy)
      BY <2>5 DEF publicMessage
    <3> HIDE DEF copy
    <3> QED
      BY <2>2, <3>1, <3>2, PublishedOK
  <2> QED
    BY <1>5, <2>3, <2>4, <2>5 DEF receiveChatMessage
<1>6. CASE m.type = "CHAT_COMMAND" /\ receiveChatCommand(c, name, m)
  <2>1. CASE auth(c, name, m)
    <3>1. view' = view
      BY <1>1, <2>1 DEF auth, view, user
    <3>2. motd' = motd /\ SameMembers
      BY <1>1, <2>1 DEF auth, SameMembers, InRoom
    <3>3. PICK success \in BOOLEAN : sendResponse(c, success)
      BY <2>1 DEF auth
    <3> QED
      BY <1>2, <3>1, <3>2, <3>3
  <2>2. CASE notAuthorized(c, name) \/ noSuchUser(c, m)
    <3>1. view' = view /\ motd' = motd /\ SameMembers
      BY <2>2 DEF notAuthorized, noSuchUser, view, SameMembers, InRoom
    <3>2. sendResponse(c, FALSE)
      BY <2>2 DEF notAuthorized, noSuchUser
    <3> QED
      BY <1>2, <3>1, <3>2
  <2>3. CASE missingArgument(m)
    BY <2>3, UntouchedOK DEF missingArgument
  <2>4. CASE m.command = "MOTD" /\ setMotd(m.arguments[1])
    <3> DEFINE text == m.arguments[1]
               change == ChatroomChange(text)
    <3>1. change \in ServerMessage /\ change.type # "CHAT_MESSAGE"
      <4>1. change \in ServerMessage
        BY <1>6, <2>4, TextType, ResponseMessages
      <4> QED
        BY <4>1 DEF ChatroomChange
    <3>2. /\ toClient' = propagateMessage(chatees, change)
          /\ view' = view /\ motd' = text /\ SameMembers
      BY <2>4 DEF setMotd, view, SameMembers, InRoom
    <3>3. Tells(change, view, motd, view', motd')
      BY <3>2, TellsMotd
    <3> HIDE DEF change
    <3> QED
      BY <3>1, <3>2, <3>3, PublishedOK
  <2>5. ASSUME NEW target \in DOMAIN chatees,
               \/ setMute(target, "MUTED", TRUE)
               \/ setMute(target, "UNMUTED", FALSE)
        PROVE  MirrorsInv'
    <3>1. PICK action \in {"MUTED", "UNMUTED"} : setMute(target, action, action = "MUTED")
      BY <2>5
    <3> DEFINE u == user(chatees[target])
               change == UserChange(action, u)
    <3>2. u \in User /\ u.name = target /\ u = view[target] /\ target \in DOMAIN view
      BY ViewType DEF RoomInv
    <3>3. change \in ServerMessage /\ change.type # "CHAT_MESSAGE"
      <4>1. change \in ServerMessage
        BY <3>2, UserChangeMessage
      <4> QED
        BY <4>1 DEF UserChange
    <3>4. /\ toClient' = propagateMessage(chatees, change) /\ motd' = motd
          /\ chatees' = [chatees EXCEPT ![target].mute = (action = "MUTED")]
      BY <3>1 DEF setMute
    <3>5. SameMembers
      BY <3>1 DEF setMute, SameMembers, InRoom
    <3>6. view' = [view EXCEPT ![target].mute = (action = "MUTED")]
      <4>1. DOMAIN chatees' = DOMAIN chatees
        BY <3>4
      <4>2. ASSUME NEW k \in DOMAIN chatees
            PROVE  user(chatees'[k]) = [view EXCEPT ![target].mute = (action = "MUTED")][k]
        <5>1. CASE k = target
          <6>1. chatees'[k] = [chatees[target] EXCEPT !.mute = (action = "MUTED")]
            BY <3>4, <5>1
          <6>2. [view EXCEPT ![target].mute = (action = "MUTED")][k]
                  = [user(chatees[target]) EXCEPT !.mute = (action = "MUTED")]
            BY <5>1 DEF view
          <6>3. DOMAIN chatees[target] = {"id", "name", "presence", "mute", "authorized", "connection"}
            BY DEF RoomInv, RoomTypeOK, Chatee
          <6> QED
            BY <6>1, <6>2, <6>3 DEF user
        <5>2. CASE k # target
          BY <3>4, <5>2 DEF view
        <5> QED
          BY <5>1, <5>2
      <4> QED
        BY <4>1, <4>2 DEF view
    <3>7. Tells(change, view, motd, view', motd')
      <4> HIDE DEF u
      <4>1. Tells(change, view, motd, [view EXCEPT ![u.name].mute = (action = "MUTED")], motd)
        BY <3>2, TellsMute
      <4> QED
        BY <3>2, <3>4, <3>6, <4>1
    <3> HIDE DEF change
    <3> QED
      BY <3>3, <3>4, <3>5, <3>7, PublishedOK
  <2>6. CASE targetedCommand(m)
    <3>1. PICK target \in DOMAIN chatees :
            \/ setMute(target, "MUTED", TRUE)
            \/ setMute(target, "UNMUTED", FALSE)
            \/ kick(target)
      BY <2>6 DEF targetedCommand, chateeExists
    <3> QED
      BY <2>5, <3>1, KickOK
  <2> QED
    BY <1>6, <2>1, <2>2, <2>3, <2>4, <2>6 DEF receiveChatCommand, authorizedCommand
<1> QED
  BY <1>3, <1>4, <1>5, <1>6

\* So does whatever the server reads.
LEMMA ReceivesOK ==
  ASSUME RoomInv, QueuesTypeOK, MirrorsInv, ClientsStill,
         NEW c \in Conns, NEW m \in Incoming(c), receiveUntypedMessage(c, m)
  PROVE  MirrorsInv'
<1>1. CASE ignored(c, m)
  BY <1>1, UntouchedOK DEF ignored, serverVars
<1>2. CASE isAlive(c) /\ m.type = "USER_JOIN_REQUEST" /\ receiveUserJoinRequest(c, m)
  <2>1. m.name = clientName[c]
    BY <1>2, JoinRequestName
  <2> QED
    BY <1>2, <2>1, JoinAcceptedOK, JoinRefusedOK DEF receiveUserJoinRequest
<1>3. ASSUME isAlive(c), NEW name \in chatee(c),
             \/ m.type = "USER_LIST_REQUEST" /\ receiveUserListRequest(c)
             \/ m.type = "USER_CHANGE" /\ receiveUserChange(name, m)
             \/ m.type = "CHAT_MESSAGE" /\ receiveChatMessage(c, name, m)
             \/ m.type = "CHAT_COMMAND" /\ receiveChatCommand(c, name, m)
      PROVE  MirrorsInv'
  BY <1>3, ReceiptOK
<1> QED
  BY <1>1, <1>2, <1>3 DEF receiveUntypedMessage

-----------------------------------------------------------------------------
(* What the clients' own steps do *)

\* Nothing happens but at the client of c.
ElsewhereStill(c) ==
  /\ UNCHANGED <<chatees, motd, sock>>
  /\ \A d \in Conns \ {c} : toClient'[d] = toClient[d] /\ ClientStill(d)

LEMMA AtOneClient ==
  ASSUME MirrorsInv, NEW c \in Conns, ElsewhereStill(c), ClientOK(c)'
  PROVE  MirrorsInv'
<1> SUFFICES ASSUME NEW d \in Conns \ {c}
             PROVE  ClientOK(d)'
  BY MirrorsInvMeans
<1>1. ClientOK(d) /\ ClientStill(d) /\ toClient'[d] = toClient[d]
  BY MirrorsInvMeans DEF ElsewhereStill
<1>2. view' = view /\ motd' = motd /\ (InRoom(d)' <=> InRoom(d)) /\ (MayJoin(d)' <=> MayJoin(d))
  BY DEF ElsewhereStill, view, InRoom, MayJoin
<1> QED
  BY <1>1, <1>2, StillOK

\* A client reads a message: what it will know with the rest stays the same.
LEMMA ReadsOK ==
  ASSUME ClientsInv, QueuesTypeOK, MirrorsInv, NEW c \in Conns, ClientReceives(c)
  PROVE  MirrorsInv'
<1> DEFINE m == Head(toClient[c])
           queue == toClient[c]
<1>1. queue \in Seq(ServerMessage) /\ queue # << >>
  BY DEF QueuesTypeOK, ClientReceives
<1>2. /\ isConnected(c) /\ phase' = [phase EXCEPT ![c] = phaseAfter(@, m)]
      /\ mirror' = [mirror EXCEPT ![c] = roomAfter(@, m)]
      /\ shownMotd' = [shownMotd EXCEPT ![c] = motdAfter(@, m)]
      /\ toClient' = [toClient EXCEPT ![c] = Tail(@)]
      /\ UNCHANGED <<chatees, motd, sock>>
  BY DEF ClientReceives, handleUntypedMessage, delivered
<1>3. ElsewhereStill(c)
  <2> HIDE DEF m
  <2> QED
    BY <1>2 DEF ElsewhereStill, ClientStill, ClientsInv, QueuesTypeOK
<1>4. shown(c)' = reading(shown(c), m) /\ toClient'[c] = Tail(queue)
  <2> HIDE DEF m
  <2> QED
    BY <1>2 DEF shown, reading, ClientsInv, QueuesTypeOK
<1>5. listed(c)' => listed(c) \/ m.type = "USER_LIST_RESPONSE"
  <2> HIDE DEF m
  <2> QED
    BY <1>2 DEF listed, phaseAfter, ClientsInv
<1>6. ClientOK(c) /\ phase[c] # "gone"
  BY <1>2, MirrorsInvMeans DEF isConnected
<1>7. view' = view /\ (InRoom(c)' <=> InRoom(c)) /\ (MayJoin(c)' <=> MayJoin(c))
  BY <1>2 DEF view, InRoom, MayJoin
<1>8. /\ Follows(shown(c), listed(c), queue, view, motd)
           => Follows(shown(c)', listed(c)', toClient'[c], view, motd)
      /\ Nobody(shown(c), listed(c), queue) => Nobody(shown(c)', listed(c)', toClient'[c])
      /\ NoGhost(shown(c), listed(c), queue) => NoGhost(shown(c)', listed(c)', toClient'[c])
  BY <1>1, <1>4, <1>5, ReadOn
<1>9. ClientOK(c)'
  BY <1>2, <1>6, <1>7, <1>8 DEF ClientOK
<1> QED
  BY <1>3, <1>9, AtOneClient

\* A client ends.
LEMMA EndsOK ==
  ASSUME ClientsInv, QueuesTypeOK, MirrorsInv, NEW c \in Conns, ClientLoses(c)
  PROVE  MirrorsInv'
<1>1. phase'[c] = "gone"
  BY DEF ClientLoses, disconnects, ClientsInv
<1>2. ElsewhereStill(c)
  BY DEF ClientLoses, disconnects, discarded, ElsewhereStill, ClientStill, ClientsInv, QueuesTypeOK
<1>3. ClientOK(c)'
  BY <1>1 DEF ClientOK
<1> QED
  BY <1>2, <1>3, AtOneClient

\* A client starts, or does not.
LEMMA LoginOK ==
  ASSUME ClientsInv, MirrorsInv, NEW c \in Conns, Login(c)
  PROVE  MirrorsInv'
<1>1. ElsewhereStill(c)
  BY DEF Login, login, loginFails, serverVars, ElsewhereStill, ClientStill, ClientsInv
<1>2. CASE phase' = [phase EXCEPT ![c] = "gone"]
  <2>1. ClientOK(c)'
    BY <1>2 DEF ClientOK, ClientsInv
  <2> QED
    BY <1>1, <2>1, AtOneClient
<1>3. CASE phase[c] = "idle" /\ phase' = [phase EXCEPT ![c] = "joining"]
  <2>1. ClientOK(c) /\ phase[c] # "gone" /\ phase'[c] # "gone" /\ ~listed(c) /\ ~listed(c)'
    BY <1>3, MirrorsInvMeans DEF listed, ClientsInv
  <2>2. /\ shown(c)' = shown(c) /\ toClient' = toClient
        /\ motd' = motd /\ view' = view
        /\ (InRoom(c)' <=> InRoom(c)) /\ (MayJoin(c)' <=> MayJoin(c))
    BY DEF Login, login, loginFails, serverVars, shown, view, InRoom, MayJoin
  <2>3. listed(c)' = listed(c)
    BY <2>1 DEF listed
  <2>4. ClientOK(c)'
    BY <2>1, <2>2, <2>3 DEF ClientOK
  <2> QED
    BY <1>1, <2>4, AtOneClient
<1> QED
  BY <1>2, <1>3 DEF Login, login, loginFails

\* A user does something.
LEMMA InputOK ==
  ASSUME ClientsInv, QueuesTypeOK, MirrorsInv, NEW c \in Conns, Input(c)
  PROVE  MirrorsInv'
<1>1. CASE disconnects(c) /\ discarded(c)
  <2>1. phase'[c] = "gone"
    BY <1>1 DEF disconnects, ClientsInv
  <2>2. ElsewhereStill(c)
    BY <1>1 DEF disconnects, discarded, ElsewhereStill, ClientStill, ClientsInv, QueuesTypeOK
  <2>3. ClientOK(c)'
    BY <2>1 DEF ClientOK
  <2> QED
    BY <2>2, <2>3, AtOneClient
<1>2. CASE ClientsStill /\ UNCHANGED serverVars
  BY <1>2, UntouchedOK DEF serverVars
<1> QED
  BY <1>1, <1>2 DEF Input, returnPressed, updatePresence, ClientsStill

-----------------------------------------------------------------------------
(* Every step *)

LEMMA MirrorsInvStep == SystemInv /\ MirrorsInv /\ [Next]_vars => MirrorsInv'
<1> SUFFICES ASSUME SystemInv, MirrorsInv, [Next]_vars
             PROVE  MirrorsInv'
  OBVIOUS
<1>1. RoomInv /\ QueuesTypeOK /\ ClientsInv
  BY DEF SystemInv, QueuesInv
<1>2. CASE UNCHANGED vars
  BY <1>2, UntouchedOK DEF vars, serverVars, clientVars, ClientsStill
<1>3. CASE Next
  <2>1. PICK c \in Conns : ClientReceives(c) \/ OtherStep(c)
    BY <1>3 DEF Next
  <2>2. CASE ClientReceives(c)
    BY <1>1, <2>2, ReadsOK
  <2>3. CASE Login(c)
    BY <1>1, <2>3, LoginOK
  <2>4. CASE Input(c)
    BY <1>1, <2>4, InputOK
  <2>5. CASE ServerAccepts(c)
    BY <1>1, <2>5, AcceptOK DEF ServerAccepts, clientVars, ClientsStill
  <2>6. CASE ServerReceives(c)
    <3>1. Head(toServer[c]) \in Incoming(c)
      BY <1>1, <2>6 DEF ServerReceives, ClientsInv, SentOK
    <3> QED
      BY <1>1, <2>6, <3>1, ReceivesOK DEF ServerReceives, ClientsStill
  <2>7. CASE ServerLoses(c)
    BY <1>1, <2>7, LossOK DEF ServerLoses, ClientsStill
  <2>8. CASE ClientLoses(c)
    BY <1>1, <2>8, EndsOK
  <2> QED
    BY <2>1, <2>2, <2>3, <2>4, <2>5, <2>6, <2>7, <2>8
       DEF OtherStep, ServerSeesEnd, ClientSeesEnd, NetworkFails
<1> QED
  BY <1>2, <1>3

-----------------------------------------------------------------------------
(* Theorems *)

\* Every client in the room will know it as it is once it has read what is
\* under way, or a part of it if it has not been sent the list; one that may
\* still join will know nobody; and all are spoken to by users they will know.
THEOREM MirrorsInvariant == Spec => []MirrorsInv
BY MirrorsInvInit, MirrorsInvStep, SystemInvariant, PTL DEF Spec

\* A mirror never drifts from the room, however joins, lists, changes, kicks
\* and losses of connections are interleaved.
THEOREM MirrorsConverge == Spec => []MirrorConverges
<1>1. MirrorsInv => MirrorConverges
  BY DEF MirrorsInv, MirrorConverges, FollowsRoom, isConnected
<1> QED
  BY <1>1, MirrorsInvariant, PTL

\* Nor does the motd a client shows, from the answer to its join on.
THEOREM MotdsConverge == Spec => []MotdConverges
<1>1. MirrorsInv => MotdConverges
  BY DEF MirrorsInv, MotdConverges, FollowsRoom, isConnected
<1> QED
  BY <1>1, MirrorsInvariant, PTL

\* Nobody ever reads a message of somebody its mirror does not know, knows as
\* another user of that name, or, if the message is public, shows as muted.
THEOREM NoGhosts == Spec => []NoGhostSpeech
<1>1. MirrorsInv => NoGhostSpeech
  BY DEF MirrorsInv, NoGhostSpeech, isConnected
<1> QED
  BY <1>1, MirrorsInvariant, PTL
=============================================================================
