----------------------------- MODULE ChatWindow -----------------------------
(***************************************************************************)
(* client/dialog/ChatDialog.cpp: the list of users in a client's window.   *)
(* The client says when to refresh it; refreshList then brings the list up *)
(* to date with the mirror, item by item.                                  *)
(***************************************************************************)
EXTENDS SimpleChat, SequencesExt

VARIABLE
  userListWidget  \* the items of each client's list, records [text, background]

windowVars == <<vars, userListWidget>>

Item == [text : Names, background : Presences \cup {None}]

-----------------------------------------------------------------------------
(* ChatDialog::refreshList *)

\* One turn of the first loop.  The loop counts up while the list gets shorter,
\* so it does not look at the item after one it deleted.
turn(before, item, room) ==
  IF ~before.deleted /\ ~chateeExists(room, item.text)
    THEN [before EXCEPT !.deleted = TRUE]
    ELSE [left |-> Append(before.left, item), deleted |-> FALSE]

\* What is left of the first items, and whether it deleted the last of them.
turns(items, room) ==
  LET after[i \in 0 .. Len(items)] ==
        IF i = 0 THEN [left |-> << >>, deleted |-> FALSE]
                 ELSE turn(after[i - 1], items[i], room)
  IN after

remaining(items, room) == turns(items, room)[Len(items)].left

texts(items) == {items[i].text : i \in DOMAIN items}

\* The second loop adds an item for every name that has none, and colours the
\* first one that has the name.
coloured(items, room) ==
  [i \in DOMAIN items |->
     IF chateeExists(room, items[i].text) /\ ~\E j \in 1 .. i - 1 : items[j].text = items[i].text
       THEN [items[i] EXCEPT !.background = room[items[i].text].presence]
       ELSE items[i]]

refreshList(items, room) ==
  LET left == remaining(items, room)
      added == SetToSeq(DOMAIN room \ texts(left))
  IN coloured(left \o [i \in DOMAIN added |-> [text |-> added[i], background |-> None]], room)

-----------------------------------------------------------------------------
(* ChatClient: the messages after which it refreshes the list *)

\* Mutant: a user who leaves does not refresh the list.
refreshesUnlessLeft(room, m) ==
  \/ m.type = "USER_LIST_RESPONSE"
  \/ /\ m.type = "USER_CHANGE"
     /\ \/ m.action = "JOINED"
        \/ chateeExists(room, m.user.name) /\ (m.presence # None \/ m.action = "KICKED")

\* Mutant: a change of presence does not refresh it either.
refreshesUnlessPresence(room, m) ==
  \/ m.type = "USER_LIST_RESPONSE"
  \/ /\ m.type = "USER_CHANGE"
     /\ \/ m.action = "JOINED"
        \/ chateeExists(room, m.user.name) /\ m.action \in {"LEFT", "KICKED"}

\* Neither a mute flag nor the answer to the join does.
refreshesChateeList(room, m) ==
  \/ m.type = "USER_LIST_RESPONSE"
  \/ /\ m.type = "USER_CHANGE"
     /\ \/ m.action = "JOINED"
        \/ /\ chateeExists(room, m.user.name)
           /\ m.presence # None \/ m.action \in {"LEFT", "KICKED"}

\* chatRefreshListSignal calls refreshList before the handler returns.
received(c) ==
  LET m == Head(toClient[c])
  IN userListWidget' =
       IF refreshesChateeList(mirror[c], m)
         THEN [userListWidget EXCEPT ![c] = refreshList(@, roomAfter(mirror[c], m))]
         ELSE userListWidget

WindowInit == Init /\ userListWidget = [c \in Conns |-> << >>]

WindowNext ==
  \E c \in Conns :
    \/ ClientReceives(c) /\ received(c)
    \/ OtherStep(c) /\ UNCHANGED userListWidget

WindowSpec == WindowInit /\ [][WindowNext]_windowVars

-----------------------------------------------------------------------------
(* Properties *)

\* The list shows the mirror: every user once and in the colour of its
\* presence, and nobody else, although some messages change the mirror without
\* a refresh and a refresh may leave items of users who are gone.
ListShowsMirror ==
  \A c \in Conns :
    LET items == userListWidget[c]
    IN /\ texts(items) = DOMAIN mirror[c]
       /\ \A i, j \in DOMAIN items : items[i].text = items[j].text => i = j
       /\ \A i \in DOMAIN items : items[i].background = mirror[c][items[i].text].presence

\* The inductive invariant behind it: the answer that lets a client in, which
\* refreshes nothing, will find the newcomer in the mirror.
WindowInv ==
  /\ userListWidget \in [Conns -> Seq(Item)]
  /\ ListShowsMirror
  /\ HeardOfItself
=============================================================================
