---------------------------- MODULE WindowProofs ----------------------------
(***************************************************************************)
(* The list in every window shows the mirror of its client, however long   *)
(* the list is and in whatever order messages arrive, although refreshList *)
(* skips items and some messages refresh nothing.                          *)
(***************************************************************************)
EXTENDS ChatWindow, ConvergenceProofs

-----------------------------------------------------------------------------
(* The first loop of refreshList *)

\* T is the record of the first n turns.
AreTurns(T, items, room, n) ==
  /\ T = [i \in 0 .. n |-> T[i]]
  /\ T[0] = [left |-> << >>, deleted |-> FALSE]
  /\ \A i \in 1 .. n : T[i] = turn(T[i - 1], items[i], room)

\* There is such a record for every number of turns.
LEMMA TurnsExist ==
  ASSUME NEW items, NEW room
  PROVE  \A n \in Nat : \E T : AreTurns(T, items, room, n)
<1> DEFINE N == {n \in Nat : \E T : AreTurns(T, items, room, n)}
<1>1. 0 \in N
  <2>1. AreTurns([i \in 0 .. 0 |-> [left |-> << >>, deleted |-> FALSE]], items, room, 0)
    BY DEF AreTurns
  <2> QED
    BY <2>1
<1>2. ASSUME NEW n \in Nat, n \in N
      PROVE  n + 1 \in N
  <2>1. PICK T : AreTurns(T, items, room, n)
    BY <1>2
  <2> DEFINE U == [i \in 0 .. n + 1 |-> IF i = n + 1 THEN turn(T[n], items[n + 1], room) ELSE T[i]]
  <2>2. AreTurns(U, items, room, n + 1)
    <3>1. U = [i \in 0 .. n + 1 |-> U[i]]
      OBVIOUS
    <3>2. U[0] = [left |-> << >>, deleted |-> FALSE]
      <4>1. 0 \in 0 .. n + 1 /\ 0 # n + 1
        OBVIOUS
      <4>2. T[0] = [left |-> << >>, deleted |-> FALSE]
        BY <2>1 DEF AreTurns
      <4> QED
        BY <4>1, <4>2
    <3>3. ASSUME NEW i \in 1 .. n + 1
          PROVE  U[i] = turn(U[i - 1], items[i], room)
      <4>1. CASE i = n + 1
        BY <4>1
      <4>2. CASE i # n + 1
        <5>1. i \in 1 .. n /\ i - 1 \in 0 .. n + 1 /\ i - 1 # n + 1 /\ i \in 0 .. n + 1
          BY <4>2
        <5>2. T[i] = turn(T[i - 1], items[i], room)
          BY <2>1, <5>1 DEF AreTurns
        <5> QED
          BY <4>2, <5>1, <5>2
      <4> QED
        BY <4>1, <4>2
    <3> HIDE DEF U
    <3> QED
      BY <3>1, <3>2, <3>3 DEF AreTurns
  <2> QED
    BY <2>2
<1> HIDE DEF N
<1>3. \A n \in Nat : n \in N
  BY <1>1, <1>2, SetInduction
<1> QED
  BY <1>3 DEF N

\* It is what turns says.
LEMMA TurnsAre ==
  ASSUME NEW items \in Seq(Item), NEW room
  PROVE  AreTurns(turns(items, room), items, room, Len(items))
<1> DEFINE n == Len(items)
           R(J) == J = [i \in 0 .. n |->
                          IF i = 0 THEN [left |-> << >>, deleted |-> FALSE]
                                   ELSE turn(J[i - 1], items[i], room)]
<1>1. n \in Nat
  OBVIOUS
<1>2. PICK T : AreTurns(T, items, room, n)
  BY <1>1, TurnsExist
<1>3. turns(items, room) = CHOOSE J : R(J)
  BY DEF turns
<1> HIDE DEF n
<1>4. R(T)
  <2>1. \A i \in 0 .. n : i = 0 \/ i \in 1 .. n
    BY <1>1
  <2>2. \A i \in 0 .. n : T[i] = IF i = 0 THEN [left |-> << >>, deleted |-> FALSE]
                                          ELSE turn(T[i - 1], items[i], room)
    BY <1>2, <2>1 DEF AreTurns
  <2> QED
    BY <1>2, <2>2 DEF AreTurns
<1>5. R(turns(items, room))
  BY <1>3, <1>4
<1> HIDE DEF R
<1>6. ASSUME NEW J, R(J)
      PROVE  AreTurns(J, items, room, n)
  <2>1. \A i \in 0 .. n : J[i] = IF i = 0 THEN [left |-> << >>, deleted |-> FALSE]
                                          ELSE turn(J[i - 1], items[i], room)
    BY <1>6, Zenon DEF R
  <2>2. 0 \in 0 .. n /\ \A i \in 1 .. n : i \in 0 .. n /\ i # 0
    BY <1>1
  <2>3. J = [i \in 0 .. n |-> J[i]]
    BY <1>6 DEF R
  <2>4. J[0] = [left |-> << >>, deleted |-> FALSE]
    BY <2>1, <2>2
  <2>5. \A i \in 1 .. n : J[i] = turn(J[i - 1], items[i], room)
    BY <2>1, <2>2
  <2> QED
    BY <2>3, <2>4, <2>5 DEF AreTurns
<1> QED
  BY <1>5, <1>6 DEF n

-----------------------------------------------------------------------------
(* Lists *)

Distinct(items) == \A i, j \in DOMAIN items : items[i].text = items[j].text => i = j

\* A list with one more item.
LEMMA OneMore ==
  ASSUME NEW items \in Seq(Item), NEW item \in Item, Distinct(items), item.text \notin texts(items)
  PROVE  /\ Append(items, item) \in Seq(Item)
         /\ Distinct(Append(items, item))
         /\ texts(Append(items, item)) = texts(items) \cup {item.text}
<1> DEFINE long == Append(items, item)
           n == Len(items)
<1>1. /\ long \in Seq(Item) /\ n \in Nat /\ DOMAIN long = 1 .. n + 1 /\ DOMAIN items = 1 .. n
      /\ long[n + 1] = item /\ \A i \in 1 .. n : long[i] = items[i]
  OBVIOUS
<1> HIDE DEF long, n
<1>2. \A i : i \in 1 .. n + 1 <=> i \in 1 .. n \/ i = n + 1
  BY <1>1
<1>3. \A i \in 1 .. n : items[i].text # item.text
  BY <1>1 DEF texts
<1>4. Distinct(long)
  BY <1>1, <1>2, <1>3 DEF Distinct
<1>5. texts(long) = texts(items) \cup {item.text}
  BY <1>1, <1>2 DEF texts
<1> QED
  BY <1>1, <1>4, <1>5 DEF long

\* Two lists that share no text, one behind the other.
LEMMA Behind ==
  ASSUME NEW items \in Seq(Item), NEW more \in Seq(Item), Distinct(items), Distinct(more),
         texts(items) \cap texts(more) = {}
  PROVE  /\ items \o more \in Seq(Item)
         /\ Distinct(items \o more)
         /\ texts(items \o more) = texts(items) \cup texts(more)
<1> DEFINE long == items \o more
           n == Len(items)
           k == Len(more)
<1>1. /\ long \in Seq(Item) /\ n \in Nat /\ k \in Nat
      /\ DOMAIN long = 1 .. n + k /\ DOMAIN items = 1 .. n /\ DOMAIN more = 1 .. k
      /\ \A i \in 1 .. n : long[i] = items[i]
      /\ \A i \in 1 .. k : long[n + i] = more[i]
  OBVIOUS
<1> HIDE DEF long, n, k
<1>2. \A i \in 1 .. n + k : i \in 1 .. n \/ \E j \in 1 .. k : i = n + j
  <2> SUFFICES ASSUME NEW i \in 1 .. n + k, i \notin 1 .. n
               PROVE  \E j \in 1 .. k : i = n + j
    OBVIOUS
  <2>1. i - n \in 1 .. k /\ i = n + (i - n)
    BY <1>1
  <2> QED
    BY <2>1
<1>3. \A i \in 1 .. n : i \in 1 .. n + k
  BY <1>1
<1>4. \A i \in 1 .. k : n + i \in 1 .. n + k
  BY <1>1
<1>5. \A i \in 1 .. n, j \in 1 .. k : items[i].text # more[j].text
  BY <1>1 DEF texts
<1>6. ASSUME NEW i \in 1 .. n + k, NEW j \in 1 .. n + k, long[i].text = long[j].text
      PROVE  i = j
  <2>1. CASE i \in 1 .. n /\ j \in 1 .. n
    BY <1>1, <1>6, <2>1 DEF Distinct
  <2>2. ASSUME NEW a \in 1 .. k, NEW b \in 1 .. k, i = n + a, j = n + b
        PROVE  i = j
    <3>1. long[n + a] = more[a] /\ long[n + b] = more[b]
      BY <1>1
    <3>2. more[a].text = more[b].text
      BY <1>6, <2>2, <3>1
    <3>3. a = b
      BY <1>1, <3>2 DEF Distinct
    <3> QED
      BY <2>2, <3>3
  <2>3. ASSUME NEW a \in 1 .. n, NEW b \in 1 .. k, long[a].text = long[n + b].text
        PROVE  FALSE
    BY <1>1, <1>5, <2>3
  <2>4. CASE i \in 1 .. n /\ j \notin 1 .. n
    <3>1. PICK b \in 1 .. k : j = n + b
      BY <1>2, <2>4
    <3> QED
      BY <1>6, <2>3, <2>4, <3>1
  <2>5. CASE i \notin 1 .. n /\ j \in 1 .. n
    <3>1. PICK b \in 1 .. k : i = n + b
      BY <1>2, <2>5
    <3> QED
      BY <1>6, <2>3, <2>5, <3>1
  <2>6. CASE i \notin 1 .. n /\ j \notin 1 .. n
    <3>1. (\E a \in 1 .. k : i = n + a) /\ (\E b \in 1 .. k : j = n + b)
      BY <1>2, <2>6
    <3> QED
      BY <2>2, <3>1
  <2> QED
    BY <2>1, <2>4, <2>5, <2>6
<1>7. Distinct(long)
  BY <1>1, <1>6 DEF Distinct
<1>8. texts(long) = texts(items) \cup texts(more)
  <2>1. ASSUME NEW x \in texts(long)
        PROVE  x \in texts(items) \cup texts(more)
    <3>1. PICK i \in 1 .. n + k : long[i].text = x
      BY <1>1, <2>1 DEF texts
    <3> QED
      BY <1>1, <1>2, <3>1 DEF texts
  <2>2. ASSUME NEW x \in texts(items) \cup texts(more)
        PROVE  x \in texts(long)
    <3>1. CASE x \in texts(items)
      <4>1. PICK i \in 1 .. n : items[i].text = x
        BY <1>1, <3>1 DEF texts
      <4> QED
        BY <1>1, <1>3, <4>1 DEF texts
    <3>2. CASE x \in texts(more)
      <4>1. PICK i \in 1 .. k : more[i].text = x
        BY <1>1, <3>2 DEF texts
      <4> QED
        BY <1>1, <1>4, <4>1 DEF texts
    <3> QED
      BY <2>2, <3>1, <3>2
  <2> QED
    BY <2>1, <2>2
<1> QED
  BY <1>1, <1>7, <1>8 DEF long

-----------------------------------------------------------------------------
(* refreshList *)

\* If no two items of the list have one text, and one user at most has gone, the
\* first loop deletes the item of that user and no other: it can skip no item
\* that it should have looked at.
LEMMA Remaining ==
  ASSUME NEW items \in Seq(Item), Distinct(items), NEW room,
         \A i, j \in DOMAIN items :
           items[i].text \notin DOMAIN room /\ items[j].text \notin DOMAIN room => i = j
  PROVE  /\ remaining(items, room) \in Seq(Item)
         /\ Distinct(remaining(items, room))
         /\ texts(remaining(items, room)) = texts(items) \cap DOMAIN room
<1> DEFINE n == Len(items)
           T == turns(items, room)
           first(i) == {items[j].text : j \in 1 .. i}
           OK(i) == /\ T[i].left \in Seq(Item)
                    /\ Distinct(T[i].left)
                    /\ texts(T[i].left) = first(i) \cap DOMAIN room
                    /\ T[i].deleted => i \in 1 .. n /\ items[i].text \notin DOMAIN room
           N == {i \in Nat : i <= n => OK(i)}
<1>1. n \in Nat /\ DOMAIN items = 1 .. n /\ \A i \in 1 .. n : items[i] \in Item
  OBVIOUS
<1>2. AreTurns(T, items, room, n)
  BY TurnsAre
<1> HIDE DEF T, n
<1>3. 0 \in N
  <2>1. T[0].left = << >> /\ ~T[0].deleted
    BY <1>2 DEF AreTurns
  <2>2. << >> \in Seq(Item) /\ DOMAIN << >> = {} /\ 1 .. 0 = {}
    OBVIOUS
  <2>3. Distinct(<< >>) /\ texts(<< >>) = {} /\ first(0) = {}
    BY <2>2 DEF Distinct, texts
  <2> QED
    BY <2>1, <2>2, <2>3
<1>4. ASSUME NEW i \in Nat, i \in N, i + 1 <= n
      PROVE  OK(i + 1)
  <2>1. OK(i)
    BY <1>1, <1>4
  <2>2. i + 1 \in 1 .. n /\ (i + 1) - 1 = i /\ i # i + 1
    BY <1>1, <1>4
  <2>3. T[i + 1] = turn(T[i], items[i + 1], room)
    BY <1>2, <2>2 DEF AreTurns
  <2>4. items[i + 1] \in Item
    BY <1>1, <2>2
  <2>5. first(i + 1) = first(i) \cup {items[i + 1].text}
    <3>1. \A j : j \in 1 .. i + 1 <=> j \in 1 .. i \/ j = i + 1
      BY <1>4
    <3> QED
      BY <3>1
  <2>6. CASE ~T[i].deleted /\ ~chateeExists(room, items[i + 1].text)
    <3>1. T[i + 1] = [T[i] EXCEPT !.deleted = TRUE]
      BY <2>3, <2>6 DEF turn
    <3> QED
      BY <2>1, <2>2, <2>5, <2>6, <3>1 DEF chateeExists
  <2>7. CASE T[i].deleted \/ chateeExists(room, items[i + 1].text)
    <3>1. T[i + 1] = [left |-> Append(T[i].left, items[i + 1]), deleted |-> FALSE]
      BY <2>3, <2>7 DEF turn
    <3>2. items[i + 1].text \in DOMAIN room
      BY <1>1, <2>1, <2>2, <2>7 DEF chateeExists
    <3>3. items[i + 1].text \notin first(i)
      <4>1. \A j \in 1 .. i : j \in 1 .. n /\ j # i + 1
        BY <1>1, <1>4
      <4> QED
        BY <1>1, <2>2, <4>1 DEF Distinct
    <3>4. items[i + 1].text \notin texts(T[i].left)
      BY <2>1, <3>3
    <3>5. /\ Append(T[i].left, items[i + 1]) \in Seq(Item)
          /\ Distinct(Append(T[i].left, items[i + 1]))
          /\ texts(Append(T[i].left, items[i + 1])) = texts(T[i].left) \cup {items[i + 1].text}
      BY <2>1, <2>4, <3>4, OneMore
    <3> QED
      BY <2>1, <2>5, <3>1, <3>2, <3>5
  <2> QED
    BY <2>6, <2>7
<1>5. \A i \in Nat : i \in N
  <2>1. ASSUME NEW i \in Nat, i \in N
        PROVE  i + 1 \in N
    <3>1. i + 1 <= n => OK(i + 1)
      BY <1>4, <2>1
    <3> HIDE DEF OK
    <3> QED
      BY <3>1
  <2> HIDE DEF N
  <2> QED
    BY <1>3, <2>1, SetInduction
<1>6. OK(n)
  BY <1>1, <1>5
<1>7. first(n) = texts(items)
  BY <1>1 DEF texts
<1> QED
  BY <1>6, <1>7 DEF remaining, T, n

\* The list shows the room: that is what ListShowsMirror says of each client.
Shows(items, room) ==
  /\ texts(items) = DOMAIN room
  /\ Distinct(items)
  /\ \A i \in DOMAIN items : items[i].background = room[items[i].text].presence

\* The second loop gives every item its colour.
LEMMA Coloured ==
  ASSUME NEW items \in Seq(Item), Distinct(items), NEW room, texts(items) = DOMAIN room,
         \A n \in DOMAIN room : room[n].presence \in Presences
  PROVE  coloured(items, room) \in Seq(Item) /\ Shows(coloured(items, room), room)
<1> DEFINE n == Len(items)
           list == coloured(items, room)
<1>1. n \in Nat /\ DOMAIN items = 1 .. n /\ \A i \in 1 .. n : items[i] \in Item
  OBVIOUS
<1>2. DOMAIN list = 1 .. n /\ list = [i \in 1 .. n |-> list[i]]
  BY <1>1 DEF coloured
<1>3. ASSUME NEW i \in 1 .. n
      PROVE  /\ list[i] \in Item /\ list[i].text = items[i].text
             /\ list[i].background = room[items[i].text].presence
  <2>1. items[i].text \in DOMAIN room
    BY <1>1 DEF texts
  <2>2. ~\E j \in 1 .. i - 1 : items[j].text = items[i].text
    <3>1. \A j \in 1 .. i - 1 : j \in 1 .. n /\ j # i
      BY <1>1
    <3> QED
      BY <1>1, <3>1 DEF Distinct
  <2>3. list[i] = [items[i] EXCEPT !.background = room[items[i].text].presence]
    BY <1>1, <2>1, <2>2 DEF coloured, chateeExists
  <2>4. items[i] \in Item /\ room[items[i].text].presence \in Presences
    BY <1>1, <2>1
  <2> HIDE DEF list
  <2> QED
    BY <2>3, <2>4 DEF Item
<1> HIDE DEF list, n
<1>4. list \in Seq(Item)
  BY <1>1, <1>2, <1>3
<1>5. texts(list) = texts(items)
  BY <1>1, <1>2, <1>3 DEF texts
<1>6. Distinct(list)
  BY <1>1, <1>2, <1>3 DEF Distinct
<1> QED
  BY <1>2, <1>3, <1>4, <1>5, <1>6 DEF Shows, list

\* A list that showed the old room shows the new one after a refresh, if one
\* user at most has gone in between.
LEMMA Refreshes ==
  ASSUME NEW items \in Seq(Item), NEW old, Shows(items, old), NEW room,
         DOMAIN room \subseteq Names, \A n \in DOMAIN room : room[n].presence \in Presences,
         IsFiniteSet(DOMAIN room \ DOMAIN old),
         \A n, k \in DOMAIN old \ DOMAIN room : n = k
  PROVE  refreshList(items, room) \in Seq(Item) /\ Shows(refreshList(items, room), room)
<1> DEFINE left == remaining(items, room)
           new == DOMAIN room \ texts(left)
           added == SetToSeq(new)
           more == [i \in DOMAIN added |-> [text |-> added[i], background |-> None]]
<1>1. /\ left \in Seq(Item) /\ Distinct(left)
      /\ texts(left) = texts(items) \cap DOMAIN room
  <2>1. ASSUME NEW i \in DOMAIN items, NEW j \in DOMAIN items,
               items[i].text \notin DOMAIN room, items[j].text \notin DOMAIN room
        PROVE  i = j
    <3>1. items[i].text \in DOMAIN old /\ items[j].text \in DOMAIN old
      BY DEF Shows, texts
    <3> QED
      BY <2>1, <3>1 DEF Shows, Distinct
  <2> QED
    BY <2>1, Remaining DEF Shows
<1>2. new = DOMAIN room \ DOMAIN old
  BY <1>1 DEF Shows
<1>3. /\ added \in Seq(new)
      /\ \A x \in new : \E i \in DOMAIN added : added[i] = x
      /\ \A i, j \in DOMAIN added : added[i] = added[j] => i = j
  <2> HIDE DEF new
  <2>1. IsFiniteSet(new)
    BY <1>2
  <2> QED
    BY <2>1, SeqOfSet
<1>4. refreshList(items, room) = coloured(left \o more, room)
  BY DEF refreshList
<1> HIDE DEF left, new, added
<1>5. more \in Seq(Item) /\ DOMAIN more = DOMAIN added
      /\ \A i \in DOMAIN added : more[i].text = added[i]
  <2>1. PICK n \in Nat : DOMAIN added = 1 .. n
    BY <1>3
  <2>2. \A i \in 1 .. n : more[i] \in Item
    BY <1>2, <1>3, <2>1 DEF Item
  <2> QED
    BY <2>1, <2>2
<1> HIDE DEF more
<1>6. Distinct(more) /\ texts(more) = new
  BY <1>3, <1>5 DEF Distinct, texts
<1>7. texts(left) \cap texts(more) = {} /\ texts(left) \cup texts(more) = DOMAIN room
  BY <1>1, <1>6 DEF new
<1>8. left \o more \in Seq(Item) /\ Distinct(left \o more) /\ texts(left \o more) = DOMAIN room
  BY <1>1, <1>5, <1>6, <1>7, Behind
<1> QED
  BY <1>4, <1>8, Coloured

-----------------------------------------------------------------------------
(* Reading a message *)

\* The list of a client after it has read m.
listAfter(items, room, m) ==
  IF refreshesChateeList(room, m) THEN refreshList(items, roomAfter(room, m)) ELSE items

\* A message that refreshes nothing changes neither who is in the mirror nor a
\* presence, if it lets in nobody but a user of the mirror.
LEMMA NothingToShow ==
  ASSUME NEW room, NEW m, ~refreshesChateeList(room, m),
         LetsIn(m) => chateeExists(room, m.user.name)
  PROVE  /\ DOMAIN roomAfter(room, m) = DOMAIN room
         /\ \A n \in DOMAIN room : roomAfter(room, m)[n].presence = room[n].presence
<1> DEFINE name == m.user.name
<1>1. CASE m.type = "USER_JOIN_RESPONSE"
  BY <1>1 DEF roomAfter, chateeJoined, LetsIn
<1>2. CASE m.type = "USER_CHANGE" /\ ~chateeExists(room, name)
  BY <1>2 DEF roomAfter, userChanged, refreshesChateeList
<1>3. CASE m.type = "USER_CHANGE" /\ chateeExists(room, name)
  <2>1. m.action \notin {"JOINED", "LEFT", "KICKED"} /\ m.presence = None
    BY <1>3 DEF refreshesChateeList
  <2>2. roomAfter(room, m) = actionTaken(room, name, m.action)
    BY <1>3, <2>1 DEF roomAfter, userChanged, presenceChanged
  <2> HIDE DEF name
  <2>3. CASE m.action \in {"MUTED", "UNMUTED"}
    <3>1. roomAfter(room, m) = [room EXCEPT ![name].mute = (m.action = "MUTED")]
      BY <2>2, <2>3 DEF actionTaken
    <3>2. \A n \in DOMAIN room :
            [room EXCEPT ![name].mute = (m.action = "MUTED")][n].presence = room[n].presence
      OBVIOUS
    <3> QED
      BY <3>1, <3>2
  <2>4. CASE m.action \notin {"MUTED", "UNMUTED"}
    BY <2>1, <2>2, <2>4 DEF actionTaken
  <2> QED
    BY <2>3, <2>4
<1>4. CASE m.type \notin {"USER_JOIN_RESPONSE", "USER_CHANGE"}
  BY <1>4 DEF roomAfter, refreshesChateeList
<1> QED
  BY <1>1, <1>2, <1>3, <1>4

\* A message that refreshes the list takes away one user at most, and adds
\* finitely many.
LEMMA LittleToShow ==
  ASSUME NEW room, NEW m, refreshesChateeList(room, m),
         m.type = "USER_LIST_RESPONSE" => IsFiniteSet(m.users)
  PROVE  /\ IsFiniteSet(DOMAIN roomAfter(room, m) \ DOMAIN room)
         /\ \A n, k \in DOMAIN room \ DOMAIN roomAfter(room, m) : n = k
<1> DEFINE name == m.user.name
           after == roomAfter(room, m)
<1>1. CASE m.type = "USER_LIST_RESPONSE"
  <2> DEFINE names == {u.name : u \in m.users}
             f == [u \in m.users |-> u.name]
  <2>1. after = listReceived(room, m.users)
    BY <1>1 DEF roomAfter
  <2>2. DOMAIN after = DOMAIN room \cup names
    BY <2>1 DEF listReceived
  <2>3. IsFiniteSet(names)
    <3>1. f \in Surjection(m.users, names)
      BY DEF Surjection
    <3> QED
      BY <1>1, <3>1, FS_Surjection
  <2> HIDE DEF after, names
  <2>4. DOMAIN after \ DOMAIN room \in SUBSET names
    BY <2>2
  <2>5. IsFiniteSet(DOMAIN after \ DOMAIN room)
    BY <2>3, <2>4, FS_Subset
  <2> QED
    BY <2>2, <2>5 DEF after
<1>2. CASE m.type = "USER_CHANGE" /\ m.action = "JOINED"
  <2>1. after = chateeJoined(room, name, m.user)
    BY <1>2 DEF roomAfter, userChanged
  <2> HIDE DEF after, name
  <2>2. DOMAIN room \subseteq DOMAIN after /\ DOMAIN after \ DOMAIN room \in SUBSET {name}
    BY <2>1 DEF chateeJoined
  <2>3. IsFiniteSet(DOMAIN after \ DOMAIN room)
    BY <2>2, FS_Singleton, FS_Subset
  <2> QED
    BY <2>2, <2>3 DEF after
<1>3. CASE m.type = "USER_CHANGE" /\ m.action # "JOINED"
  <2> DEFINE changed == presenceChanged(room, name, m.presence)
  <2>1. after = actionTaken(changed, name, m.action)
    BY <1>3 DEF roomAfter, userChanged, refreshesChateeList
  <2>2. DOMAIN changed = DOMAIN room
    BY DEF presenceChanged
  <2> HIDE DEF after, name, changed
  <2>3. DOMAIN after \in {DOMAIN changed, DOMAIN changed \ {name}}
    BY <2>1 DEF actionTaken, chateeLeft
  <2>4. DOMAIN after \ DOMAIN room = {}
    BY <2>2, <2>3
  <2>5. IsFiniteSet(DOMAIN after \ DOMAIN room)
    BY <2>4, FS_EmptySet
  <2> QED
    BY <2>2, <2>3, <2>5 DEF after
<1> QED
  BY <1>1, <1>2, <1>3 DEF refreshesChateeList

\* A list that shows the mirror still does when the client has read a message.
LEMMA ReadShows ==
  ASSUME NEW items \in Seq(Item), NEW room, NEW next, MirrorOK(room, next), Shows(items, room),
         NEW m \in ServerMessage, HandedOut(listedBy(m), next),
         m.type = "USER_LIST_RESPONSE" => IsFiniteSet(m.users),
         LetsIn(m) => chateeExists(room, m.user.name)
  PROVE  /\ listAfter(items, room, m) \in Seq(Item)
         /\ Shows(listAfter(items, room, m), roomAfter(room, m))
<1> DEFINE after == roomAfter(room, m)
<1>1. CASE refreshesChateeList(room, m)
  <2>1. /\ DOMAIN after \subseteq Names
        /\ \A n \in DOMAIN after : after[n].presence \in Presences
    <3>1. MirrorOK(after, next)
      BY ReadMirror
    <3> HIDE DEF after
    <3> QED
      BY <3>1 DEF MirrorOK, User
  <2>2. /\ IsFiniteSet(DOMAIN after \ DOMAIN room)
        /\ \A n, k \in DOMAIN room \ DOMAIN after : n = k
    BY <1>1, LittleToShow
  <2> HIDE DEF after
  <2>3. refreshList(items, after) \in Seq(Item) /\ Shows(refreshList(items, after), after)
    BY <2>1, <2>2, Refreshes
  <2> QED
    BY <1>1, <2>3 DEF listAfter, after
<1>2. CASE ~refreshesChateeList(room, m)
  <2>1. /\ DOMAIN after = DOMAIN room
        /\ \A n \in DOMAIN room : after[n].presence = room[n].presence
    BY <1>2, NothingToShow
  <2> HIDE DEF after
  <2>2. Shows(items, after)
    BY <2>1 DEF Shows, texts
  <2> QED
    BY <1>2, <2>2 DEF listAfter, after
<1> QED
  BY <1>1, <1>2

-----------------------------------------------------------------------------
(* The answer that lets a client in *)

\* HeardOfItself, as a statement about one queue.
Heard(k, queue) ==
  \A i \in 1 .. Len(queue) :
    LetsIn(queue[i]) => chateeExists(known(k, queue)[i - 1].room, queue[i].user.name)

\* It holds of a longer queue if it does of the last message.
LEMMA HeardAppend ==
  ASSUME NEW queue \in Seq(ServerMessage), NEW m \in ServerMessage, NEW k, Heard(k, queue),
         LetsIn(m) => chateeExists(known(k, queue)[Len(queue)].room, m.user.name)
  PROVE  Heard(k, Append(queue, m)) /\ Append(queue, m) \in Seq(ServerMessage)
<1> DEFINE long == Append(queue, m)
           n == Len(queue)
<1>1. /\ long \in Seq(ServerMessage) /\ Len(long) = n + 1 /\ long[n + 1] = m
      /\ n \in Nat /\ \A i \in 1 .. n : long[i] = queue[i]
  OBVIOUS
<1>2. \A i \in 0 .. n : known(k, long)[i] = known(k, queue)[i]
  BY KnownAppend
<1> HIDE DEF long
<1> SUFFICES ASSUME NEW i \in 1 .. n + 1, LetsIn(long[i])
             PROVE  chateeExists(known(k, long)[i - 1].room, long[i].user.name)
  BY <1>1 DEF Heard, long
<1>3. i - 1 \in 0 .. n
  BY <1>1
<1>4. CASE i = n + 1
  <2>1. i - 1 = n /\ long[i] = m
    BY <1>1, <1>4
  <2> QED
    BY <1>2, <1>3, <2>1
<1>5. CASE i # n + 1
  <2>1. i \in 1 .. n
    BY <1>1, <1>5
  <2> HIDE DEF n
  <2>2. long[i] = queue[i] /\ known(k, long)[i - 1] = known(k, queue)[i - 1]
    BY <1>1, <1>2, <1>3, <2>1
  <2> QED
    BY <2>1, <2>2 DEF Heard, n
<1> QED
  BY <1>4, <1>5

\* What the server writes to a client in a step keeps it true: it tells a client
\* of its own join first.
LEMMA HeardOn ==
  ASSUME NEW queue \in Seq(ServerMessage), NEW k, Heard(k, queue), NEW c, NEW next,
         Longer(c, queue, next)
  PROVE  Heard(k, next)
<1>1. ASSUME NEW m, MayHearAlone(c, m), next = Append(queue, m)
      PROVE  Heard(k, next)
  BY <1>1, HeardAppend DEF MayHearAlone, MayHear
<1>2. ASSUME NEW m, NEW answer, MayHearAlone(c, m), MayHear(c, answer),
             LetsIn(answer) => Announces(m, answer),
             next = Append(Append(queue, m), answer)
      PROVE  Heard(k, next)
  <2> DEFINE half == Append(queue, m)
             before == known(k, queue)[Len(queue)]
  <2>1. m \in ServerMessage /\ answer \in ServerMessage
    BY <1>2 DEF MayHearAlone, MayHear
  <2>2. Heard(k, half) /\ half \in Seq(ServerMessage)
    BY <1>2, <2>1, HeardAppend DEF MayHearAlone
  <2>3. known(k, half)[Len(half)] = reading(before, m)
    <3>1. Len(half) = Len(queue) + 1
      BY <2>1
    <3>2. known(k, half)[Len(queue) + 1] = reading(before, m)
      BY <2>1, KnownAppend
    <3> QED
      BY <3>1, <3>2
  <2> HIDE DEF half, before
  <2>4. ASSUME LetsIn(answer)
        PROVE  chateeExists(known(k, half)[Len(half)].room, answer.user.name)
    <3>1. reading(before, m).room = chateeJoined(before.room, answer.user.name, answer.user)
      BY <1>2, <2>4 DEF Announces, reading, roomAfter, userChanged
    <3> QED
      BY <2>3, <3>1 DEF chateeJoined, chateeExists
  <2>5. Heard(k, Append(half, answer))
    BY <2>1, <2>2, <2>4, HeardAppend
  <2> QED
    BY <1>2, <2>5 DEF half
<1> QED
  BY <1>1, <1>2 DEF Longer

\* Reading the next message keeps it true.
LEMMA HeardTail ==
  ASSUME NEW queue \in Seq(ServerMessage), queue # << >>, NEW k, Heard(k, queue)
  PROVE  /\ Heard(reading(k, Head(queue)), Tail(queue))
         /\ LetsIn(Head(queue)) => chateeExists(k.room, Head(queue).user.name)
<1> DEFINE rest == Tail(queue)
           next == reading(k, Head(queue))
           n == Len(queue) - 1
<1>1. /\ Len(rest) = n /\ n \in Nat /\ Len(queue) = n + 1
      /\ Head(queue) = queue[1] /\ \A i \in 1 .. n : rest[i] = queue[i + 1]
  OBVIOUS
<1>2. \A i \in 0 .. n : known(next, rest)[i] = known(k, queue)[i + 1]
  BY KnownTail
<1>3. known(k, queue)[0] = k
  BY KnownFirst
<1> HIDE DEF rest, next, n
<1>4. LetsIn(queue[1]) => chateeExists(k.room, queue[1].user.name)
  <2>1. 1 \in 1 .. Len(queue) /\ 1 - 1 = 0
    BY <1>1
  <2>2. LetsIn(queue[1]) => chateeExists(known(k, queue)[1 - 1].room, queue[1].user.name)
    BY <2>1 DEF Heard
  <2> QED
    BY <1>3, <2>1, <2>2
<1>5. ASSUME NEW i \in 1 .. n, LetsIn(rest[i])
      PROVE  chateeExists(known(next, rest)[i - 1].room, rest[i].user.name)
  <2>1. /\ i - 1 \in 0 .. n /\ i + 1 \in 1 .. Len(queue)
        /\ (i - 1) + 1 = i /\ (i + 1) - 1 = i
    BY <1>1
  <2>2. rest[i] = queue[i + 1] /\ known(next, rest)[i - 1] = known(k, queue)[i]
    BY <1>1, <1>2, <2>1
  <2>3. LetsIn(queue[i + 1])
          => chateeExists(known(k, queue)[(i + 1) - 1].room, queue[i + 1].user.name)
    BY <2>1 DEF Heard
  <2> QED
    BY <1>5, <2>1, <2>2, <2>3
<1> QED
  BY <1>1, <1>4, <1>5 DEF Heard, rest, next

-----------------------------------------------------------------------------
(* The system *)

\* The room is finite, and so is every list under way.
FiniteInv ==
  /\ IsFiniteSet(DOMAIN chatees)
  /\ \A c \in Conns : \A i \in 1 .. Len(toClient[c]) :
       toClient[c][i].type = "USER_LIST_RESPONSE" => IsFiniteSet(toClient[c][i].users)

\* A room of finitely many names has finitely many users.
LEMMA FiniteUsers ==
  ASSUME IsFiniteSet(DOMAIN chatees)
  PROVE  IsFiniteSet(users(chatees))
<1> DEFINE f == [n \in DOMAIN chatees |-> user(chatees[n])]
<1>1. f \in Surjection(DOMAIN chatees, users(chatees))
  BY DEF Surjection, users
<1> QED
  BY <1>1, FS_Surjection

LEMMA FiniteStep == SystemInv /\ FiniteInv /\ [Next]_vars => FiniteInv'
<1> SUFFICES ASSUME SystemInv, FiniteInv, [Next]_vars
             PROVE  FiniteInv'
  OBVIOUS
<1>1. [ServerNext]_serverVars
  BY ServerSteps DEF SystemInv
<1>2. CASE UNCHANGED serverVars
  BY <1>2 DEF serverVars, FiniteInv
<1>3. CASE ServerNext
  <2>1. RoomTypeOK /\ QueueStep
    BY <1>3, QueueSteps DEF SystemInv, RoomInv, QueuesInv
  <2>2. IsFiniteSet(DOMAIN chatees')
    <3>1. \/ DOMAIN chatees' \in SUBSET DOMAIN chatees
          \/ \E n : DOMAIN chatees' = DOMAIN chatees \cup {n}
      BY <1>3, <2>1, StepKinds
         DEF Quiet, Altered, kick, Entered, joinAccepted, chateeJoined, chateeExists, chateeLeft,
             connectionEstablished, connectionLost, chateeLost
    <3> QED
      BY <3>1, FS_Subset, FS_AddElement DEF FiniteInv
  <2>3. ASSUME NEW c \in Conns, NEW i \in 1 .. Len(toClient'[c]),
               toClient'[c][i].type = "USER_LIST_RESPONSE"
        PROVE  IsFiniteSet(toClient'[c][i].users)
    <3>1. \/ MayHear(c, toClient'[c][i])
          \/ \E j \in 1 .. Len(toClient[c]) : toClient'[c][i] = toClient[c][j]
      <4>1. toClient[c] \in Seq(ServerMessage)
        BY DEF SystemInv, QueuesInv, QueuesTypeOK
      <4>2. PICK queue : queue = toClient[c]
        OBVIOUS
      <4>3. PICK next : next = toClient'[c]
        OBVIOUS
      <4>4. queue \in Seq(ServerMessage) /\ i \in 1 .. Len(next)
        BY <4>1, <4>2, <4>3
      <4>5. Shorter(queue, next) \/ Longer(c, queue, next)
        BY <2>1, <4>2, <4>3 DEF QueueStep, Extended
      <4>6. CASE Shorter(queue, next)
        <5>1. \A k \in 1 .. Len(next) : \E j \in 1 .. Len(queue) : next[k] = queue[j]
          BY <4>4, <4>6, ShorterType
        <5> QED
          BY <4>2, <4>3, <4>4, <5>1
      <4>7. CASE Longer(c, queue, next)
        <5>1. \A k \in 1 .. Len(next) :
                MayHear(c, next[k]) \/ \E j \in 1 .. Len(queue) : next[k] = queue[j]
          BY <4>4, <4>7, LongerType
        <5> QED
          BY <4>2, <4>3, <4>4, <5>1
      <4> QED
        BY <4>5, <4>6, <4>7
    <3>2. CASE MayHear(c, toClient'[c][i])
      BY <2>3, <3>2, FiniteUsers DEF MayHear, FiniteInv
    <3>3. CASE \E j \in 1 .. Len(toClient[c]) : toClient'[c][i] = toClient[c][j]
      BY <2>3, <3>3 DEF FiniteInv
    <3> QED
      BY <3>1, <3>2, <3>3
  <2> QED
    BY <2>2, <2>3 DEF FiniteInv
<1> QED
  BY <1>1, <1>2, <1>3

\* That is what HeardOfItself says, before a step and after it.
LEMMA HeardMeans ==
  /\ HeardOfItself <=> \A c \in Conns : Heard(shown(c), toClient[c])
  /\ HeardOfItself' <=> \A c \in Conns : Heard(shown(c)', toClient'[c])
BY DEF HeardOfItself, Heard, LetsIn, MirrorAfter, Known

\* What a step but a client's reading does: no client learns anything from it.
WrittenTo(c) ==
  \/ toClient'[c] = toClient[c]
  \/ toClient'[c] = << >>
  \/ Longer(c, toClient[c], toClient'[c])

LEMMA OtherSteps ==
  ASSUME SystemInv, NEW c \in Conns, OtherStep(c)
  PROVE  UNCHANGED <<mirror, shownMotd>> /\ \A d \in Conns : WrittenTo(d)
<1> USE DEF WrittenTo
<1>1. RoomInv /\ QueuesTypeOK
  BY DEF SystemInv, QueuesInv
<1>2. CASE Login(c)
  BY <1>2 DEF Login, login, loginFails, serverVars
<1>3. CASE Input(c)
  BY <1>1, <1>3 DEF Input, returnPressed, updatePresence, disconnects, discarded, serverVars,
     QueuesTypeOK
<1>4. CASE WriteStep /\ UNCHANGED <<mirror, shownMotd>>
  BY <1>4 DEF WriteStep
<1>5. CASE ServerAccepts(c)
  BY <1>1, <1>4, <1>5, WriteSteps DEF ServerAccepts, clientVars
<1>6. CASE ServerReceives(c)
  <2>1. Head(toServer[c]) \in Incoming(c)
    BY <1>6 DEF ServerReceives, SystemInv, ClientsInv, SentOK
  <2> QED
    BY <1>1, <1>4, <1>6, <2>1, WriteSteps DEF ServerReceives
<1>7. CASE ServerLoses(c)
  BY <1>1, <1>4, <1>7, WriteSteps DEF ServerLoses
<1>8. CASE ClientLoses(c)
  BY <1>1, <1>8 DEF ClientLoses, disconnects, discarded, QueuesTypeOK
<1> QED
  BY <1>2, <1>3, <1>5, <1>6, <1>7, <1>8 DEF OtherStep, ServerSeesEnd, ClientSeesEnd, NetworkFails

\* What a client's reading does.
LEMMA ReadingStep ==
  ASSUME SystemInv, NEW c \in Conns, ClientReceives(c)
  PROVE  /\ toClient[c] \in Seq(ServerMessage) /\ toClient[c] # << >>
         /\ Head(toClient[c]) \in ServerMessage /\ toClient'[c] = Tail(toClient[c])
         /\ mirror'[c] = roomAfter(mirror[c], Head(toClient[c]))
         /\ shown(c)' = reading(shown(c), Head(toClient[c]))
         /\ \A d \in Conns \ {c} : UNCHANGED <<toClient[d], mirror[d], shown(d)>>
<1> DEFINE m == Head(toClient[c])
<1>1. toClient[c] \in Seq(ServerMessage) /\ toClient[c] # << >>
  BY DEF ClientReceives, SystemInv, QueuesInv, QueuesTypeOK
<1>2. m \in ServerMessage
  BY <1>1
<1>3. /\ mirror' = [mirror EXCEPT ![c] = roomAfter(@, m)]
      /\ shownMotd' = [shownMotd EXCEPT ![c] = motdAfter(@, m)]
      /\ toClient' = [toClient EXCEPT ![c] = Tail(@)]
  BY DEF ClientReceives, handleUntypedMessage, delivered
<1> HIDE DEF m
<1>4. /\ mirror = [d \in Conns |-> mirror[d]] /\ DOMAIN shownMotd = Conns
      /\ toClient = [d \in Conns |-> toClient[d]]
  BY DEF SystemInv, ClientsInv, QueuesInv, QueuesTypeOK
<1> QED
  BY <1>1, <1>2, <1>3, <1>4 DEF shown, reading, m

LEMMA HeardStep == SystemInv /\ HeardOfItself /\ [Next]_vars => HeardOfItself'
<1> SUFFICES ASSUME SystemInv, HeardOfItself, [Next]_vars, NEW d \in Conns
             PROVE  Heard(shown(d)', toClient'[d])
  BY HeardMeans
<1>1. Heard(shown(d), toClient[d]) /\ toClient[d] \in Seq(ServerMessage)
  BY HeardMeans DEF SystemInv, QueuesInv, QueuesTypeOK
<1>2. CASE UNCHANGED vars
  BY <1>1, <1>2 DEF vars, clientVars, serverVars, shown
<1>3. ASSUME NEW c \in Conns, ClientReceives(c)
      PROVE  Heard(shown(d)', toClient'[d])
  <2>1. CASE d = c
    <3>1. Heard(reading(shown(c), Head(toClient[c])), Tail(toClient[c]))
      BY <1>1, <1>3, <2>1, ReadingStep, HeardTail
    <3> QED
      BY <1>3, <2>1, <3>1, ReadingStep
  <2>2. CASE d # c
    BY <1>1, <1>3, <2>2, ReadingStep
  <2> QED
    BY <2>1, <2>2
<1>4. ASSUME NEW c \in Conns, OtherStep(c)
      PROVE  Heard(shown(d)', toClient'[d])
  <2>1. shown(d)' = shown(d) /\ WrittenTo(d)
    BY <1>4, OtherSteps DEF shown
  <2>2. CASE toClient'[d] = << >>
    BY <2>2 DEF Heard
  <2>3. CASE Longer(d, toClient[d], toClient'[d])
    BY <1>1, <2>1, <2>3, HeardOn
  <2> QED
    BY <1>1, <2>1, <2>2, <2>3 DEF WrittenTo
<1> QED
  BY <1>2, <1>3, <1>4 DEF Next

-----------------------------------------------------------------------------
(* The window *)

LEMMA WindowMeans ==
  /\ ListShowsMirror <=> \A c \in Conns : Shows(userListWidget[c], mirror[c])
  /\ ListShowsMirror' <=> \A c \in Conns : Shows(userListWidget'[c], mirror'[c])
BY DEF ListShowsMirror, Shows, Distinct

LEMMA WindowInvInit == WindowInit => WindowInv /\ FiniteInv
<1> SUFFICES ASSUME WindowInit
             PROVE  WindowInv /\ FiniteInv
  OBVIOUS
<1>1. \A c \in Conns : /\ mirror[c] = EmptyRoom /\ toClient[c] = << >>
                       /\ userListWidget[c] = << >>
  BY DEF WindowInit, Init, ServerInit, ClientInit
<1>2. << >> \in Seq(Item) /\ DOMAIN << >> = {} /\ Len(<< >>) = 0 /\ 1 .. 0 = {}
  OBVIOUS
<1>3. userListWidget \in [Conns -> Seq(Item)]
  BY <1>2 DEF WindowInit
<1>4. ListShowsMirror
  <2>1. Shows(<< >>, EmptyRoom)
    BY <1>2 DEF Shows, texts, Distinct, EmptyRoom
  <2> QED
    BY <1>1, <2>1, WindowMeans
<1>5. HeardOfItself
  BY <1>1, <1>2 DEF HeardOfItself
<1>6. FiniteInv
  <2>1. DOMAIN chatees = {}
    BY DEF WindowInit, Init, ServerInit, EmptyRoom
  <2> QED
    BY <1>1, <1>2, <2>1, FS_EmptySet DEF FiniteInv
<1> QED
  BY <1>3, <1>4, <1>5, <1>6 DEF WindowInv

LEMMA WindowInvStep ==
  SystemInv /\ FiniteInv /\ WindowInv /\ [WindowNext]_windowVars => WindowInv'
<1> SUFFICES ASSUME SystemInv, FiniteInv, WindowInv, [WindowNext]_windowVars
             PROVE  WindowInv'
  OBVIOUS
<1>1. HeardOfItself'
  BY HeardStep DEF WindowInv, WindowNext, windowVars, Next
<1>2. CASE UNCHANGED windowVars
  <2>1. UNCHANGED <<userListWidget, mirror>>
    BY <1>2 DEF windowVars, vars, clientVars
  <2> QED
    BY <1>1, <2>1, WindowMeans DEF WindowInv
<1>3. ASSUME NEW c \in Conns, ClientReceives(c), received(c)
      PROVE  WindowInv'
  <2> DEFINE m == Head(toClient[c])
             list == listAfter(userListWidget[c], mirror[c], m)
  <2>1. /\ m \in ServerMessage /\ toClient[c] # << >> /\ toClient[c] \in Seq(ServerMessage)
        /\ mirror'[c] = roomAfter(mirror[c], m)
        /\ \A d \in Conns \ {c} : mirror'[d] = mirror[d]
    BY <1>3, ReadingStep
  <2>2. 1 \in 1 .. Len(toClient[c]) /\ m = toClient[c][1]
    BY <2>1
  <2>3. HandedOut(listedBy(m), nextUserId)
    BY <2>2 DEF SystemInv, QueuesInv, QueuesIds
  <2>4. m.type = "USER_LIST_RESPONSE" => IsFiniteSet(m.users)
    BY <2>2 DEF FiniteInv
  <2>5. LetsIn(m) => chateeExists(mirror[c], m.user.name)
    <3>1. Heard(shown(c), toClient[c])
      BY HeardMeans DEF WindowInv
    <3> QED
      BY <2>1, <3>1, HeardTail DEF shown
  <2>6. userListWidget[c] \in Seq(Item) /\ Shows(userListWidget[c], mirror[c])
    BY WindowMeans DEF WindowInv
  <2>7. MirrorOK(mirror[c], nextUserId)
    BY DEF SystemInv, ClientsInv
  <2>8. userListWidget' = [userListWidget EXCEPT ![c] = list]
    BY <1>3 DEF received, listAfter, WindowInv
  <2> HIDE DEF m
  <2>9. list \in Seq(Item) /\ Shows(list, mirror'[c])
    BY <2>1, <2>3, <2>4, <2>5, <2>6, <2>7, ReadShows
  <2> HIDE DEF list
  <2>10. userListWidget' \in [Conns -> Seq(Item)]
    BY <2>8, <2>9 DEF WindowInv
  <2>11. ASSUME NEW d \in Conns
         PROVE  Shows(userListWidget'[d], mirror'[d])
    <3>1. CASE d = c
      BY <2>8, <2>9, <3>1 DEF WindowInv
    <3>2. CASE d # c
      BY <2>1, <2>8, <3>2, WindowMeans DEF WindowInv
    <3> QED
      BY <3>1, <3>2
  <2> QED
    BY <1>1, <2>10, <2>11, WindowMeans DEF WindowInv
<1>4. ASSUME NEW c \in Conns, OtherStep(c), UNCHANGED userListWidget
      PROVE  WindowInv'
  <2>1. mirror' = mirror
    BY <1>4, OtherSteps
  <2> QED
    BY <1>1, <1>4, <2>1, WindowMeans DEF WindowInv
<1> QED
  BY <1>2, <1>3, <1>4 DEF WindowNext

-----------------------------------------------------------------------------
(* Theorems *)

\* The window only watches its client: what is proved of the system holds of
\* the system with windows.
THEOREM WindowImplementsSystem == WindowSpec => Spec
<1>1. WindowInit => Init
  BY DEF WindowInit
<1>2. [WindowNext]_windowVars => [Next]_vars
  BY DEF WindowNext, windowVars, Next
<1> QED
  BY <1>1, <1>2, PTL DEF WindowSpec, Spec

\* A client reads of its own join before it reads the answer that lets it in,
\* whatever the server has written in between.
THEOREM AnswersTellNothingNew == Spec => []HeardOfItself
<1>1. Init => HeardOfItself
  BY DEF Init, ServerInit, HeardOfItself
<1> QED
  BY <1>1, HeardStep, SystemInvariant, PTL DEF Spec

\* Every list is a list of users that shows the mirror, and the answers under
\* way, which refresh nothing, will change nothing that it shows.
THEOREM WindowInvariant == WindowSpec => []WindowInv
<1>1. [WindowNext]_windowVars => [Next]_vars
  BY DEF WindowNext, windowVars, Next
<1> QED
  BY <1>1, WindowInvInit, WindowInvStep, FiniteStep, SystemInvariant, WindowImplementsSystem, PTL
     DEF WindowSpec

\* The list in a window shows every user of the mirror once, in the colour of
\* its presence, and nobody else.
THEOREM ListsShowMirrors == WindowSpec => []ListShowsMirror
<1>1. WindowInv => ListShowsMirror
  BY DEF WindowInv
<1> QED
  BY <1>1, WindowInvariant, PTL
=============================================================================
