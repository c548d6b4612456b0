# Simple Chat: TLA+ specifications

These modules model the chat server and the chat clients of this repository: who is in the
room, what everybody is told, what happens when connections end, what a client's window shows,
how messages are cut out of the TCP stream, and what their bytes go through on the way. TLC
checks them on small instances. TLAPS proves, for every number of clients, safety properties of
the server and of the whole system: that the server implements an abstract broadcast, that every
client's mirror ends up equal to the room, that every window shows the mirror, and that messages
survive the framing and the encoding as long as they fit.

## 1. The system

One server process and any number of client processes, each with a single thread that runs
Qt's event loop, joined by one TCP connection per client. A step of a model is one slot that
the event loop runs to its end, so steps of different processes interleave and a slot is
never interrupted. The mutex in `Chatroom` has nobody to exclude.

| Part | State | Operations | Talks to | What makes it correct |
|---|---|---|---|---|
| `Chatroom` | map of nicknames to chatees, next id, motd | join, leave, look up, propagate, set motd | chatees | names and ids are unique; the room and its members agree |
| `Chatee` | user (presence, mute), rights, raw pointer to its connection, weak pointer to the room | mute, unmute, kick, send | connection, room | it never outlives its connection |
| `ChatServer` | room, password | one handler per message type | room, chatees | whispers stay private, muted users are silent, kicked ones are gone |
| `TcpChatServer` | listening socket | accept, dispatch, lose a connection | `ChatServer`, connections | losing a connection removes its own chatee and no other |
| `TcpChatConnection` | socket, size of the pending block, weak pointer to the chatee | send, read, close | sockets, both programs | the framing keeps messages whole and in order |
| `ChatClient`, `TcpChatClient` | a mirror of the room, the connection | join, ask for the list, say, whisper, command, change presence; one handler per message type | the server, the dialog | the mirror ends up equal to the room |
| `CommandParser` and the command classes | the line | split, recognise, add arguments | `ChatClient` | what is sent is a complete command |
| `ChatDialog` | widgets | the input line, the user list | `ChatClient` | it calls the right operation; the list shows the mirror |
| `MessageSerializer`, `MessageDeserializer` | none | to and from protobuf | connections | a message survives the way |
| `LoginDialog`, `main` | widgets, options | start | | none modelled |

The hard behaviours: messages of different clients that cross; a client that is kicked while
its own messages are under way; a nickname that is taken again while the old connection is
still closing; pointers to connections that are deleted; a client's mirror that is built from
a list and from changes that overtake each other; connections reset on either side; a stream
that TCP cuts anywhere. `PROJECT.json` lists them at their lines under `hazards`.

## 2. The modules

| Module | Models | Extends |
|---|---|---|
| `ChatProtocol` | the protobuf messages, users, shared constants | |
| `Chatroom` | `chat/Chatroom.cpp` as operators on a function from names to chatees, used by the server and, for the mirrors, by the clients | `ChatProtocol` |
| `CommandParser` | `chat/commands`, `StringUtil::split`, on lines given as sequences of words | `ChatProtocol` |
| `RoomBroadcast` | what the room promises its members: the abstract specification | `ChatProtocol` |
| `ChatServer` | `ChatServer.cpp`, `Chatee.cpp`, `TcpChatServer.cpp`, the connection's state; `ServerSpec` lets every client send any of its messages at any time | `Chatroom`; instantiates `RoomBroadcast` |
| `Mirror` | the part of `ChatClient.cpp` that keeps the client's room and motd: a function of the old mirror and the message, and of a queue of messages (`known`) | `Chatroom` |
| `ChatClient` | `ChatClient.cpp`, `TcpChatClient.cpp`, the input of `ChatDialog.cpp` | `Mirror`, `CommandParser` |
| `SimpleChat` | server and clients together, the network and the users | `ChatServer`, `ChatClient` |
| `ChatWindow` | `ChatDialog::refreshList` and the list of users, on top of the system | `SimpleChat` |
| `FifoChannel` | what one direction of a connection promises | |
| `TcpFraming` | `TcpChatConnection::sendMessage` and `readyRead` | instantiates `FifoChannel` |
| `WireFormat` | what protobuf and `QString` do to bytes | |
| `ChatWire` | `MessageSerializer`, `MessageDeserializer`, the conversion in `TcpChatConnection::sendMessage` | `ChatProtocol`, `WireFormat` |
| `WiredRoom` | a room and its mirrors whose messages all go through `ChatWire` | `ChatWire`, `Mirror` |
| `ChatServerProofs` | the theorems about `ServerSpec` | `ChatServer` |
| `BroadcastProofs` | `ServerSpec` implements `RoomBroadcast` | `ChatServerProofs` |
| `SystemProofs` | `SimpleChat` implements `ServerSpec`; what follows; questions and answers | `SimpleChat`, `BroadcastProofs` |
| `MirrorProofs` | lemmas on recursion: induction over numbers, the elements of a set in a sequence, what a client knows after a queue of messages | `Mirror` |
| `ConvergenceProofs` | what each message does to a part of the room; mirrors and motds never drift, nobody reads a ghost | `SystemProofs`, `MirrorProofs` |
| `WindowProofs` | the list in every window shows the mirror | `ChatWindow`, `ConvergenceProofs` |
| `FramingProofs` | the theorems about `TcpFraming` | `TcpFraming` |
| `WireProofs` | the theorems about `ChatWire` and `WiredRoom` | `WiredRoom`, `MirrorProofs` |
| `MCSimpleChat`, `MCChatWindow`, `MCTcpFraming`, `MCWiredRoom` | the instances for TLC | |

### How the state corresponds to the code

* A connection `c` stands for the client process that opens it as well: a process opens one
  connection in its life. `clientName[c]` is the nickname it asks for. Several connections
  may ask for the same.
* `chatees` is the server's `ChateesMap`; `chatees[n].connection` is `Chatee::connection_`.
  `connChatee[c]` is the weak pointer `TcpChatConnection::chatee_`: the id it was set to.
  Because only the room keeps a chatee alive between two slots, the pointer locks to the chatee
  of the room with that id, or to nothing (`chatee(c)`).
* `sock[c]` is the server's end: `connected`, then `closing` (Qt's `ClosingState`: KICKED was
  just written, so the socket cannot close at once), then `gone`, when `connectionLost` has
  run and the connection object is deleted. `isAlive` is true of `connected` only. Qt still
  delivers what arrives on a closing socket, and `receiveUntypedMessage` drops it (`ignored`).
* `toClient[c]` and `toServer[c]` are the two directions of the connection: written, not yet
  read. An end that notices the end of the connection loses what it has not read, as after
  a reset.
* `mirror[c]` is `ChatClient::chatroom_`, reduced to the users; `phase[c]` is no state of the
  code but records which answers the client has seen; `shownMotd[c]` is what it was told last.
* `running` becomes FALSE when `arguments(0)` is read from an empty list, which ends the server.
* `userListWidget[c]` (`ChatWindow`) is the list of items in the window of `c`; a step in which
  the client reads a message brings it up to date if the handler emits `chatRefreshListSignal`,
  whose slot runs before the handler returns. All other steps are those of `SimpleChat`.

Each handler is an action with the guards of its early returns, in its order of effects: the
messages it writes are appended in the order of the calls. `receiveUserJoinRequest`, for one,
inserts the chatee, tells everybody including the newcomer, and then answers. Each
definition's source lines are in `PROJECT.json` under `map`.

A definition whose comment begins with "Mutant" belongs to no behaviour: it is the definition
after it with a plausible mistake in it, kept to show that the property named with it in
`PROJECT.json` notices that mistake.

### The bytes

`WireFormat` writes and reads fields as protobuf does: a tag, then a number in groups of seven
bits, or a length and that many bytes. `ChatWire` says which fields each message has, which of
them are written at all (an optional field that was never set is not), and what the getters return.
Between the two, `TcpChatConnection::sendMessage` turns the bytes into a `QString` with
`fromStdString`, which reads UTF-8: a byte that is no part of a character becomes the
replacement character, three bytes long when it is written again. ASCII survives, so a number or
a length below 128 does, and everything else of the encoding does not.

The deserializer ignores what `ParseFromString` returns and hands on what was read until
then. A field that is longer than what is left gets what is left (libprotobuf 2.5, the version
`.travis.yml` installs): that is why a message whose whole length is 128 or more still
arrives if the rest of it is ASCII, a case the run `Wire` includes. Names, words and texts are in
these modules sequences of bytes, and a mute flag that was never set is `None`.

`WiredRoom` is about the effect of this on the room. `exchanged` holds the messages of the last
step, as they were sent and as they were received. The module leaves out what `SimpleChat` is about:
messages are read as soon as they are written, and whoever gives a command is authorized.

### What is abstracted

The wording of answers (their success flag is kept; the wording is the last field of each, and no reader
but the text area looks at it), the text area, logging, the ip addresses. A
text is a sequence of words. A presence change carries a whole user in the code; its readers
use the name only, and so does the model. The command `motd` joins its words with spaces;
the model keeps the words. In `SimpleChat` messages arrive as they were sent: `TcpFraming`
discharges that for the framing of those that fit the size field, and `Wire` for the bytes of
those in which ids and lengths stay below 128. The list request carries a
name that the server ignores (`TcpChatClient.cpp:158`); it has no field here and is not encoded.

## 3. The runs

Bounds are constants: `MaxInputs` counts what users do after they logged in (a line, a
change of presence, closing the program), `MaxFailures` counts connections that are reset while
both ends live. Logging in is free, so that every client may do it at any time. Deadlock is
not checked, because a chat in which nobody wants anything more rests.

| Run | Instance | Shows |
|---|---|---|
| `Kick` | 3 clients, two want the name bob; authorize, kick, speak, leave; 3 inputs | the life of names and connections under kicks: `TypeOK`, `NoDanglingConnection`, `KickIsLast`, `MembershipEndsWithConnection`; `MirrorConverges` and `NoGhostSpeech` with a nickname that changes hands; `NobodyWaitsInVain` and `AnsweredOnce` with joins that are refused and members that are kicked |
| `Commands` | 2 clients, 4 inputs (authorize, mute, unmute, set one of two motds, speak, a command that is refused) | `NoGhostSpeech` under mutes, `MotdConverges` with two motds one after the other |
| `Whisper` | 3 clients with a name and a window each, 2 inputs (whisper, leave) | `WhisperConfined`, `ListShowsMirror` |
| `Liveness` | 2 clients that want the same name, 2 inputs with kicks (of oneself, since only one can have the name) that are right or wrong, 1 failure, fairness | `JoinAnswered`, `ListArrives`, `KickedDisconnects`, `NameReleased` |
| `Refinement` | 2 clients with windows, every line and presence, 2 inputs | `SimpleChat` implements `ServerSpec` and `RoomBroadcast`; `RoomInv`, `MirrorsInv`, `WindowInv` and `AnswersInv`, the inductive invariants of the proofs; `MirrorConverges` and `ListShowsMirror` with presences and mute flags |
| `Framing` | size field of 16 values, 3 messages of four lengths that fit, cut anywhere | `TcpFraming` implements `FifoChannel`, liveness included; `FullMessageReceived` |
| `Wire` | ids 126 and 127, names of 60 bytes, texts of 127 and 2 bytes | `ReceivedAsSent`, `MirrorsFollow` |
| `WhisperLeak`, `BadCommand`, `FramingOversized`, `WireIds`, `LongWhisper` | | violations, section 5 |

Why the bounds are enough for the cases that matter: a name needs two claimants and a third
client who watches (`Kick`, with the symmetry of the two claimants, who have the same name
and the same lines); a kick needs an authorization first, and one input more lets the kicked
client speak or another leave at the same time; mute, unmute and a message in flight need
four inputs. A whisper needs a third member who must not hear it, and a list of three items is the
shortest in which an item is skipped that is not the last. With a size field of 16 values the size 14
fits and 16 wraps to 0, as 65534 and 65536 do in 16 bits; three messages suffice for blocks
that arrive together, in pieces, and both. What counts on the wire is on which side of 128 a
number is: in `Wire` the ids and the longest text are the last that fit, and the list of two users
with long names is the message that is longer as a whole.

`MirrorConverges` is the central property of the composition. It applies the client's own
handler to everything under way to it (`known`, a recursive function over the queue) and compares
the result with the room *now*, so it does not wait for a quiet moment: it holds in every state
from the one in which the list was sent. It fails as soon as the server changes the room without telling the members, tells
them twice or in another order, or sends the list without what came before it.

`ImplementsBroadcast` says the same from the server's side, without mirrors: `RoomBroadcast` has
no sockets, ids, rights or flags, only members and inboxes. Under the mapping a member is the
connection of a chatee and an inbox is `toClient`. Every step of the server has to be one
announcement to exactly the members, one whisper to its two readers, one answer, or nothing.
The abstract actions pick the announced message among those under way after the step, so that
what it says is the server's choice, but who hears of a join, a loss or a kick, and that
nobody's membership changes without it, is not.

### Fairness

`FairSpec` assumes weak fairness of what the event loops and TCP do: accepting, reading,
noticing the end of a connection. Nothing is assumed of the users, and nothing of the network
failing or not. An enabled slot stays enabled until it runs, so weak fairness is what an event
loop gives. That an end which is gone is noticed by the other assumes that the operating
system reports it, with a FIN or a reset; a connection that goes silent without a report is
not covered, since the code has no heartbeat that would notice.

`TcpFraming` assumes that TCP delivers and that a running slot goes on.

## 4. The proofs

For every set of connections, names, texts and every choice of nicknames, for every number of
messages of any lengths that fit the size field, and for all names, words and texts that fit the wire:

| Theorem | States |
|---|---|
| `ChatServerProofs!RoomInvariant` | `ServerSpec => []RoomInv` |
| `ChatServerProofs!ConnectionSafety` | `ServerSpec => []NoDanglingConnection` |
| `ChatServerProofs!MembershipSafety` | `ServerSpec => MembershipEndsWithConnection`, an action property |
| `ChatServerProofs!TypeCorrectness` | `ServerSpec => []ServerTypeOK` |
| `ChatServerProofs!WhisperSafety` | `ServerSpec => []WhisperConfined` |
| `ChatServerProofs!KickSafety` | `ServerSpec => []KickIsLast` |
| `BroadcastProofs!BroadcastRefinement` | `ServerSpec => ImplementsBroadcast` |
| `SystemProofs!SystemImplementsServer` | `Spec => ServerSpec` |
| `SystemProofs!SystemTypes` | `Spec => []TypeOK` |
| `SystemProofs!SystemSafety` | the properties above hold of `Spec` |
| `SystemProofs!AnswersInvariant` | `Spec => []AnswersInv` |
| `SystemProofs!NobodyForgotten` | `Spec => []NobodyWaitsInVain` |
| `SystemProofs!NobodyToldTwice` | `Spec => []AnsweredOnce` |
| `ConvergenceProofs!MirrorsInvariant` | `Spec => []MirrorsInv` |
| `ConvergenceProofs!MirrorsConverge` | `Spec => []MirrorConverges` |
| `ConvergenceProofs!MotdsConverge` | `Spec => []MotdConverges` |
| `ConvergenceProofs!NoGhosts` | `Spec => []NoGhostSpeech` |
| `WindowProofs!WindowImplementsSystem` | `WindowSpec => Spec`: all of the above holds with windows too |
| `WindowProofs!AnswersTellNothingNew` | `Spec => []HeardOfItself` |
| `WindowProofs!WindowInvariant` | `WindowSpec => []WindowInv` |
| `WindowProofs!ListsShowMirrors` | `WindowSpec => []ListShowsMirror` |
| `FramingProofs!FramingTypes` | `Spec => []TypeOK` of `TcpFraming`, if every block fits the size field (`Fits`) |
| `FramingProofs!FramingComplete` | `Spec => []FullMessageReceived`, if `Fits` |
| `FramingProofs!FramingIsFifo` | `Spec => Channel!SafeSpec`, the safety part of `ImplementsChannel`, if `Fits` |
| `WireProofs!PlainFieldsRead` | a list of any number of fields with numbers and lengths below 128, all ASCII, is read as it was written |
| `WireProofs!NetworkRead` | so is a network message whose data is ASCII of up to 16383 bytes, after the `QString` |
| `WireProofs!MessagesArrive` | `Spec => []ReceivedAsSent` of `WiredRoom`, if ids and strings fit (`FitsWire`) |
| `WireProofs!MirrorsAgree` | `Spec => []MirrorsFollow` of `WiredRoom`, if `FitsWire` |

Those about the system assume that every client has a nickname in `Names` (`ClientNameAssumption`); that
`None` is neither a name, nor a text, nor the name of an action (`NoneAssumption`); and that
what users type consists of the words and texts there are (`LinesAssumption`, `InputAssumption`).
TLC evaluates all of them in every run of the system. Those about the wire assume besides that
names, words and texts are sequences of bytes (`BytesAssumption`), that `None` differs from
everything it stands for the absence of (`UnsetAssumption`), that ids begin above 0 (`IdAssumption`), and
that presences are those of the enumeration (`WiredPresences`); TLC evaluates them in the runs of
`WiredRoom`.

`Fits` and `FitsWire` are hypotheses of the theorems about the framing and the wire and not assumptions of
the modules, since the code does not see to them. `FramingOversized` shows what happens without `Fits`.
`FitsWire` says that ids are at most 127, that names are ASCII of up to 119 bytes and that texts are ASCII
of up to 127. The instance of the run `Wire` satisfies it; `WireIds` goes beyond it by one id, and
`LongWhisper` by one byte of text. It is 119 for names because a user is an embedded message of 2 bytes for the id,
2 and the name, 2 for the presence and 2 for the mute flag, 127 together.

**The room.** `NoDanglingConnection` is not inductive. A step that removes a chatee by name
keeps it only if no other chatee is on that connection, so `RoomInv` adds `IdsUnique` (ids
are handed out once, to chatees and to weak pointers) and `OwnName` (a chatee carries
the nickname of the client behind its connection). `OwnName` is the less obvious half: the
server would let a connection join twice, and what prevents a second chatee with the same
raw pointer is that a client asks for the same name each time. Under `RoomInv` the
weak pointer of `c` locks to exactly the chatee whose connection is `c` (`BackPointer`), and
that is what the steps `kick` and `connectionLost` need. `StepKinds` sorts the server's steps
by their effect on the room and the sockets, so that the invariant is proved once per kind
and not once per handler.

**The queues.** `QueueSteps` shows that a step leaves each queue shorter, the same, or,
on an open connection only, longer by messages that its client may hear (`MayHear`). Type
correctness, `WhisperConfined` and `QueuesIds` (every id under way is in use) follow at once.
`KickIsLast` follows from it with `ClosingStep` (only a kick closes a socket, and it has just
written KICKED) and `ClosingFrozen` (a closing connection is written to no more).

**The broadcast.** Under `RoomInv` a chatee's connection is alive and its own, so that "every
alive connection of a chatee", which is what `propagateMessage` writes to, is the abstract set
of readers (`RoomTold`). Each kind of step then has one lemma that names its abstract action:
`JoinEnters`, `LossLeaves`, `KickExpels`, `PropagatePublishes`, `SendAnswers`,
`WhisperWhispers`. The appended message itself is the witness for the message under way.

**The system.** `ServerSpec` lets a client send anything that `ClientMessage` lists, among it
whispers to any user whose id is in use. That the real clients send nothing else depends on
their mirrors, which are built from what the server sent: `SystemInv` is `RoomInv`, `QueuesInv`
and `ClientsInv` (mirrors hold users under their own names with ids in use, and the queues to
the server hold messages of `ClientMessage`). `ReadMirror` shows that reading any message
keeps a mirror in order, `LineSends` that whatever is typed sends an allowed message.

**The answers.** `NobodyWaitsInVain` is what safety can say of the liveness properties `JoinAnswered` and
`ListArrives`: the request or its answer is under way as long as the client waits, so that
nothing but the fairness of the event loops is missing. It is not inductive. A request to join
is answered because nothing is joined twice (`AnsweredOnce`: each request and each answer
is there once, and only for a client in the phase that waits for it). A request for the list is
answered because its sender is in the room when the server reads it; so `InsideWhileOpen` says
that whoever was let in, or will read that it was, is in the room until its connection
closes. `StaysInside` shows that no step takes a chatee from the room and leaves its
connection open, `RequestsAnswered` that the handlers of the two requests write the
answer to the one who asked, and `SendUnasked`, `PropagateUnasked` and `WelcomesUnasked` that nothing
else does. There is one lemma for each effect of a step on the queues of one client (`AnswersSent`,
`AnswersLogin`, `AnswersRead`, `AnswersReceipt`, `AnswersLost`).

**The mirrors.** `MirrorConverges` speaks of what a client will know, and it is not inductive: a
client in the room may not have been sent the list yet, and a change of somebody it does not know is
lost on it. `MirrorsInv` says what holds meanwhile. A client in the room that has no list under way
will know a part of the room, each user in it as it is (`PartOf`); one that may still join will
know nobody and have no list under way, so that its own JOINED and the answer make a part of the
room again. Such a part becomes the room with the list, which adds the users the mirror lacks and
changes none it has; this is where it matters that a part is never outdated. `Tells` says what a
message has to do for that: turn the old room into the new one, parts of the one into parts of
the other, and, if it is a list, any part into all of it. There is one lemma for each message
(`TellsJoined`, `TellsGone`, `TellsMute`, `TellsPresence`, `TellsList`, `TellsMotd`), and each
handler of the server is reduced to what happens to one queue: it is told a change it stays for
(`HearsOK`), let in (`EntersOK`), refused (`RefusedOK`), kicked (`KickedOK`) or left alone
(`StillOK`). When a client reads a message it only moves along its queue (`ReadOn`).

`known` is defined by recursion over the queue, and the induction theorems of the library are
out of the provers' reach. `SetInduction` states induction for a set of numbers and proves it from
the pigeonhole principle: the successor would map the numbers of the set below a missing one into
fewer of them. With it `ReadingExists` shows that a function with the equations of `known` exists for
every queue, `KnownReads` that `known` is one, and `SameReading` that there is no other; everything
else uses `KnownAppend` and `KnownTail`.

**The window.** `refreshList` counts up over a list that gets shorter, and so does not look at the item
after one that it deleted. `Remaining` shows that this does no harm as long as the list has no
text twice and one of its users at most has gone: nothing that it skips had to be deleted. So the
list has to be right before every refresh (`Shows`), also when messages refresh nothing.
`NothingToShow` says that those change neither who is in the mirror nor a presence, with one
exception: the answer that lets a client in adds a user and refreshes nothing. It adds
nobody, since the server has announced the newcomer to itself first (`HeardOfItself`, the
other half of `WindowInv`; `LetsIn` and `Announces` in `MayHear` carry it from the server's handlers to
the queues). `SetToSeq` lists finite sets only, so the room and every list of users under way
are shown to be finite (`FiniteInv`). The recursion of the first loop is dealt with as that of
`known` is (`TurnsExist`, `TurnsAre`).

**The framing.** What is read next depends on where the unread bytes begin, and that they begin at
the right place after a block is read depends on all bytes in between. `FramingInv` therefore
gives every block that is not delivered a place in the unread bytes, those that have arrived and
those that have not: each place is the one before plus the length of that block, the bytes there
are the block's, and the first place is 1 or, when its size field has been read, two before that
(`Blocks`). A place may be negative, for a block whose beginning is gone. `Shifted` moves all places
back by the number of bytes read, `Extended` adds the place of a new block behind the last, and
a piece of the stream that arrives changes none (`Moved`). `FullBlock` reads off what the reader
finds: the complete string of the first message that is not delivered.

**The bytes.** A field is plain if its number, or the length of its string, is below 128 and its bytes
are ASCII. Such a field is written as ASCII (`EncodedPlain`) and is read as it was, whatever
follows it (`OneMoreBack`); `PlainFieldsBack` extends this by `SetInduction` to any number of fields, and
`AsciiConverted` shows that the `QString` leaves all of it alone. What needs an argument is the message around
them, because the length of its data may take two bytes. The first of these is not UTF-8, and the `QString` puts
three other bytes in its place (`ByteReplaced`). These happen to read as a length larger than anything that is left
(`ReplacedValue`), so the reader takes all that is left, which is the data (`LongRead`, `NetworkRead`).
It works because the data is the last field of a network message, and for no other field.

Then there is one lemma for each message the code sends (those that end in `Survives`): its fields
are plain, and the getters return what the setters were given, set or not. Whatever is not the data of a network message
has to have a length below 128 itself, the embedded user above all, hence `FitsWire`. The list of users is
the one message made of arbitrarily many parts. It survives because ids end: 127 users with 2 bytes in front
of each make 127 * 129 = 16383 bytes, the largest length of two bytes;
nothing is claimed of lengths of three. `ReceivedAsSent` and
`MirrorsFollow` are therefore not inductive. `WireInv` adds that the room holds users under their own names with ids in
use (`IsRoom`), that there are no more of them than ids were handed out (`RoomCounted`, which bounds the list),
that the motd is a text or empty (`MotdHeld`), and that each mirror is the room and belongs to a
member (`MirrorsSame`). The recursion of `varint`, `fieldsOf`, `getAll`, `toStdString` and of
`FlattenSeq` is dealt with as that of `known` is.

Every safety property that a passing run checks is so stated by a theorem. Model-checked only are the liveness
properties, which are out of TLAPS's reach: `JoinAnswered`, `ListArrives`, `KickedDisconnects`,
`NameReleased`, and the fairness part of the refinement of `FifoChannel`.

## 5. What the code does otherwise than its documentation

* `WhisperLeak`. `ChatClient::sendMessage` looks the target up in the client's own mirror. A
  nickname it does not hold leaves the target unset, and a message without a target is public:
  `/w bbo secret` tells everybody the secret.
* `BadCommand`. The command classes add no argument when their number is wrong, and
  `CommandParser::chatCommand` returns the incomplete command instead of `nullptr`. The server
  reads `arguments(0)` of an authorized user's `mute`, `unmute` or `kick` without a look at
  `arguments_size()`, so a space typed twice in `/kick  bob` ends it.
* `FramingOversized`. The size of a block is cut to 16 bits, so a block of 65536 bytes is read
  as one of 0, and the reader is out of step from then on.

* `WireIds`. The id of the 128th user takes two bytes, the first of which is not UTF-8. The embedded
  user outgrows the length written before it, and what follows, the action of the change, is lost:
  the members take LEFT of that user for something else and keep it in their lists for good.
* `LongWhisper`. A text of 128 bytes or more has a length of two bytes, which do not survive
  either. The server reads a text that includes the target and finds no target, so it tells
  everybody: a long whisper is public.

`Chatee.h` says that mute, unmute and kick are told "to all other chatees". The code tells the
one concerned too, and `KickIsLast` rests on that: the models follow the code.

## 6. Not modelled, and what remains open

Not modelled:

* the login dialog, the text area, the text that a click on a user puts into the input line and
  the message boxes: widgets that keep no state anything else depends on;
* start-up, command-line options, the random secret, opening the port;
* `TcpChatClient::logout`, which only tests call and which ends the connection as closing the
  program does;
* the destructor of `TcpChatClient` after a login that failed: it calls `deleteLater` on a
  connection that was never made, after the last slot has run;
* a second try at a login that failed: the program offers none, `loginFails` ends the client;
* the pointer-cast helpers, generated code, tests.

Three hazards have no property, and `PROJECT.json` says why at each: names that are reused
between a look and a whisper, a client that goes on showing the room after it lost its
connection, and connections that die without a report. In each the code promises nothing that
could be violated.

Open:

* Liveness is checked for two clients and not proved. `NobodyWaitsInVain` and `AnsweredOnce` are what is
  proved of it.
* `SimpleChat`, `TcpFraming` and `WiredRoom` are proved one by one. That together they make the program, with messages
  cut into pieces and written as bytes, is argued in section 2 and stated by no theorem.
* Names and texts beyond `FitsWire`, those that are not ASCII among them, are covered by the runs that violate and by no
  positive result. The UTF-8 of a text that is encoded correctly survives by itself, but the lemmas stop at
  ASCII.
