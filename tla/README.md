# Verification of the TCP/TLS chat application

TLA+ models of the chat server (C++20 coroutines on asio) and of its Qt client,
TLC configurations that check them on small instances, and TLAPS proofs, for every
instance, of all the invariants the passing runs check, of the action property and of the
refinements. Paths below are relative to `src/`.

## 1. The system

| Part | Code | State | Operations |
|---|---|---|---|
| Handshaker | `TLS_server/include/hand_shaker.hpp` | `m_should_accept`, `m_is_terminating`, two coroutines and a timer | `try_connect` = `perform_password_handshake && countdown_timer` |
| Session | `TLS_server/src/chat_session.cpp` | outbox `m_write_msgs`, a timer that is never due, `m_stopped`; three coroutines | `start`, `deliver`, `reader`, `writer`, `stop` |
| Room | `TLS_server/src/chat_room.cpp` | `m_participants` (the only owner of the sessions), `m_recent_msgs` | `join`, `join_public`, `leave`, `deliver`, `deliver_private` |
| Servers | `TLS_server/include/{abstract,tcp,ssl}_chat_server.hpp` | the acceptor, a coroutine | `serve_forever` |
| Start | `TLS_server/src/{main,json_loader,ssl_loader}.cpp`, `network_config.hpp` | configuration, `SecurityBundle` | `build_network_config`, `build_security_bundle`, `create_ssl_context` |
| View | `TLS_client/qt_client/mainwindow.cpp` | `m_is_connected`, the settings, presenter and TLS layer | buttons, dialogs, `handle_*` |
| Presenter | `tcp_presenter.cpp`, `hand_shaker.cpp`, `message_handler.cpp` | handshake mode, message handler | `handle_connect_response`, `handle_msg_reception`, `send_message`, `disconnect` |
| Settings | `mainwindow.cpp:23`, `273`, `359`, `server_settings.cpp`, `json_loader.h`, `connection_mode.h` | the file, the window's settings | load, save, `on_actionEdit_Server_triggered`, `set_connection_mode` |
| Messages | `message_handler.cpp`, `formatted_message_model.cpp`, `user_name_dialog.cpp` | the handler's name and id, the list, the user's name | `parse_to_send`, `parse_to_receive`, `add_*`, `clear_all`, `dispatch_user_info_dialog` |
| Certificates dialog | `certificates_dialog.cpp`, `mainwindow.cpp:391` | the bundle, three flags, the OK button | choose, accept, cancel |
| Model | `tcp_client_model.cpp`, `ssl_client_model.cpp` | one socket | host lookup, connect, send, `recieving_msg`, `retrieve_error` |

How they interact. The accept loop builds a session for a connection and lets it
join the room, which starts it. The session spawns its handshaker and its writer;
the handshaker tells it by a completion token whether it is accepted, and then the
session asks the room for the history and spawns its reader. The reader gives a
line to the room, which pushes it into the outbox of every session and wakes its
writer. A coroutine that fails stops the session: the socket is closed and the
room drops its pointer. On the client everything runs on the GUI's thread, in
handlers: a click starts a host lookup, the end of the lookup connects (and
blocks), signals of the socket bring data and errors, the presenter keeps the
handshake and the view shows the outcome.

What is hard:

* **Interleaving.** The server has one thread, but coroutines interleave at every
  `co_await`. An operation's completion is *queued* before its coroutine resumes,
  so a cancellation may come too late: password and countdown may both be
  "complete" in the same turn.
* **Failure.** `&&` cancels the other operand when one throws, and throws
  `multiple_exceptions` when both do.
* **Lifetime.** A session is destroyed by whichever coroutine stops it.
* **Order.** A session hears broadcasts before it is authenticated; its history
  comes after them, behind its id.
* **Time.** 5 s for the password, 250 us for a refusal to be written, 3 s and 1 s for
  the client's connection.
* **Framing.** TCP cuts and joins; live broadcasts have no delimiter; every read is decoded
  for itself, and the digits of a session id may come in two.
* **Crashes.** A save of the settings empties the file before it writes it, and nobody
  looks at whether it worked.
* **Stale copies.** The client keeps handlers, names and bundles from one connection,
  presenter or dialog to the next.

Each such place is listed with its line under `hazards` in `PROJECT.json`, with the
properties that watch it, or the reason why none does.

### What makes each part correct

* Handshaker: one reply at most; only the password is accepted; every handshake
  ends; a password that came in time is accepted; a time-out reaches the handler.
* Session and room: the room holds exactly the live sessions; the writer never
  sleeps on a full outbox; a peer
  that left is removed; an admitted session sees the room's history and everything
  after it, once and in order.
* Accept loop: clients are served, whatever other clients do.
* Start: a server serves what its configuration says: a plain file is read as it is
  written, TLS is never served without a matching, loadable set of certificates, and
  who asks for TLS does not get plain text.
* Certificates dialog: TLS is configured with all three parts or none.
* Settings: they are whole, asked for together by the user, the first file or the
  program; the ones asked for last are those of the next run unless the file failed.
* Messages: the list shows exactly what the room owes the session; a session has one
  name.
* Client: the view says "connected" only of a connection whose session id it has;
  the user learns how the handshake went.
* Framing: no line is lost or overtaken, and no byte but those of a character that a read
  cuts; whole reads show what was delivered; a broadcast is a message.

## 2. Modules

| Module | Models | Role |
|---|---|---|
| `Handshake` | what a handshake promises | abstract specification |
| `HandShaker` | `hand_shaker.hpp` and the parts of asio it relies on | refines `Handshake` |
| `HandShakerProofs` | | theorems |
| `ChatSession`, `ChatRoom` | one session's data; the room | operators, used by `ChatServer` |
| `ChatServer` | sessions, their handshakes (abstract), the room, the peers | composition; refines `ChatFeed`, and `Handshake` for every session |
| `ChatFeed` | who is sent which broadcasts | abstract specification |
| `ChatServerProofs` | | theorems |
| `AcceptLoop` | both `serve_forever` | used by `Server` |
| `Startup` | configuration file, certificates, what `main()` does before it serves | used by `Server` |
| `Server` | `main()` | composition of `Startup` and `AcceptLoop` |
| `ServerProofs` | | theorems |
| `CertificatesDialog` | the client's keys and certificates in window, dialog and TLS layer | used by `ClientSettings` |
| `CertificatesDialogProofs` | | theorems |
| `ClientSettings` | the settings over runs of the client, and the presenters made for them | composition with `CertificatesDialog` |
| `ClientSettingsProofs` | | theorems |
| `ClientMessages` | names, handlers and the list of messages over several connections | |
| `ClientMessagesProofs` | | theorems |
| `ChatClient` | view, presenter, model, and the server as the client sees it | |
| `ChatClientProofs` | | theorems |
| `LineFraming` | bytes to lines to broadcasts to messages | |
| `LineFramingProofs` | | theorems |
| `MC*` | the instances TLC checks | |

**HandShaker.** A coroutine is a place where it is suspended (`perform`,
`countdown`, `connect`) and a pending operation in `asio` (read, timer, steady
timer). `Complete` moves an operation into the queue of the io_context; `Turn` picks
the next handler; the actions `Perform`, `Countdown` and `Connect` each run a
coroutine from one `co_await` to the next, with everything it does on the way,
catch clauses included. What asio does (cancelling the other operand, the result of
`&&`) is external and named so in the map. Lines are members of a small set: what
matters is empty, wrong, right.

**ChatServer.** The handshake of a session is an instance of the abstract phases of
`Handshake`, so that the interleavings inside it, checked in `HandShaker`, are not
multiplied by those of several sessions; `RefinesHandshake` shows that each session
keeps to them. Every coroutine of a session is an action from one `co_await` to the
next. A message is its number. The outbox is `pushed` without its first `popped` items, so
that it keeps what was written. `joinedAt` and `admittedAt` are history. A destroyed
session's suspended coroutines stay in the model until they resume
(`DanglingResumes`), which is what `NoCoroutineOutlivesSocket` is about. What they do
then is undefined in C++: in the model they end without harm or the process dies (`up`).
A new session at the address of the old one is left out.

**AcceptLoop.** `secure` chooses the server, as the configuration does. A client may
be willing, mute or gone; descriptors may run out; constructors may throw.

**Startup.** One action per call of `main()`, one per line of the file. A line is cut
into its pieces between colons, as the code does; of a piece the model knows which keys
it spells, whether it is a quoted text, and the text. The outcome is a stage: `failed`
(EXIT_FAILURE), `aborted` (an exception outside of `try`, or an assertion of the
standard library where `front()` is undefined), `returned` (0), or `serving`. In the folder,
a certificate and its key have the same name; OpenSSL compares only keys of one type, so
both are taken to be of one type.

**Server.** `Startup`, then the `AcceptLoop` that the configuration chose; both use the
variable `secure`. When the loop is dead and the last session is gone the io_context has
no work and the process returns (`RunReturns`).

**CertificatesDialog.** The three buttons differ in wording only, and in what makes a file
unusable: one action for a good choice, one for any other. Opening moves the bundle into
the dialog. A moved-from key may or may not keep its contents (this depends on Qt); nothing
reads it before all three parts are chosen anew, so a part is one value. The dialog is
modal: neither the connection mode nor the presenter changes under it.

**ClientSettings.** The file outlives the process, everything else does not. A save is two
steps: the file is emptied when it is opened, and written when the `QFile` is destroyed;
either may fail, and the process may end at any time (`Ends`). A file is a kind (absent, broken,
object) and for each key a set of at most one value; host and password, which are only stored
and shown, are one value. The conversions are what Qt and the casts do: `toInt()` gives 0 for
what is no int, casts wrap at the width. One client per directory is assumed. After each
settings dialog, accepted or not, a new presenter is made, and for TLS the certificates dialog
opens; its actions are those of `CertificatesDialog`.

**ClientMessages.** A text is a record of what its reader can tell (kind, sender's name, id,
body); `via`, the connection it was sent on, is only for the properties. Texts arrive one by one,
the password is right and one lookup is under way at a time: what goes wrong there is the
subject of `ChatClient` and `LineFraming`. The room is the server's as one session sees it:
it hears broadcasts from its connection on, its id comes when its password is read, the last
messages when its handshake has ended. What a client sent before it closed may be broadcast
after its next connection began (`late`; at most `MaxLate` lines of the last session). `marks` is
history: how long the room was at these two moments.

**ChatClient.** One action per click, per end of a lookup and per signal. Connecting
is inside the lookup's handler, as it blocks. The server is reduced to what the
client can see: answer, close, broadcast at any time, merged texts, and an id whose digits
come in two reads (`Tears`; half of an id is its negative, and a number to
`parse_session_id()` like any other). Halves of other texts are texts that are no id, too.
The two sockets
differ where the code or Qt does: `connectToHost` on a connected plain socket is
ignored, a secure one loses its TLS layer; every error of a secure socket is reported
as a failure and then once more as a success.

**LineFraming.** One sender, the session's reader with its bounded buffer, one
receiver. Bytes are values; a piece is any part of what is under way. The receiver's `place`
in the room follows the code: from `join()` on it is sent every broadcast (`Forwards`), its id
comes with `IsAnswered`, and `join_public()` (`IsAdmitted`) sends it the newest
`m_max_recent_msgs` messages, among them those it has heard already. `given` is the history of
what its session was told to deliver. Each read is decoded on its own, as
`QString{recieved_data}` does (`tcp_client_model.cpp:125`): a character is one byte or two, and
half of one becomes U+FFFD (`Decoded`); characters of three and four bytes are cut in the same way,
into more marks or fewer. A byte order mark at the start of a read, which Qt drops, is
left out. The sender is this repository's client: it waits for its id before it says
anything (`MaySend`). A client that does not would lose the lines that come in one read with its
password (`ReadsPassword` drops them); no property is about such clients.

## 3. Runs

| Run | Question | Bounds |
|---|---|---|
| `handshaker` | all of the handshaker's properties; it refines `Handshake` | one session, four kinds of line |
| `handshaker_lost` | does a time-out always reach the handler? **violated** | same |
| `chat_server` | safety of sessions and room; refinements | 2 sessions, 3 messages, a history of 2 |
| `chat_server_live` | outboxes drain, who left is removed | 2 sessions, 1 message |
| `chat_server_dangling` | does a coroutine outlive its session? **violated** | 2 sessions, 1 message |
| `chat_server_rejected` | is a refused client told? **violated** | same |
| `server` | is what is served what is configured? who is served | 14 files, 8 folders; 3 clients, 2 descriptors |
| `settings` | are settings whole, do they persist, what is TLS configured with | 5 files, 2 choices, 2 usable items, numbers of 4 and 2 bits |
| `client` | the client's properties | 2 connections, 2 lookups, 2 lines and 3 texts under way |
| `messages` | does the list show the room, has a session one name | 2 names, 2 connections, 2 messages, 3 broadcasts, a history of 1 |
| `framing` | the framing's properties | 3 scripts of at most 4 lines, a buffer of 5 bytes, a history of 2 |
| `framing_broadcasts` | is a broadcast a message? **violated** | same |

Why the bounds are enough. Two sessions show every interaction of the room: one
speaks, the other joins, stalls or leaves; sessions influence each other only through
the room. Three messages overflow a history of two, so that one is forgotten while the
next is remembered. The proofs of section 5 remove these bounds for the invariants. A
second connection is what could mix up ids; two lookups are what a second click
starts. Three texts are an early broadcast, an id and something after it. Three clients
are one that blocks, one that is served and one that comes later; two descriptors are
exhausted by two sessions. The files are the one that comes with the server, with each
connection type, and one for each way a file may be wrong or odd: a key missing, twice or
as a value, a value empty, unquoted or with a colon, a bad port or type; the folders are a
good one and one for each thing that may be missing, ambiguous or unreadable. Two items let
a choice differ from what was accepted. The files of `settings` are none, a broken one, a good one
and two whose values are missing, unknown or too big; the choices are at the upper limits and
without numbers; the section 5 proofs hold for every width. Two connections, of which the second
may start with what the first left behind, two names, and a history shorter than the room are what
could mix up a list; three broadcasts are two names and a message of either
session, or a name and two messages. In `LineFraming` two lines fill the buffer to its last byte
and one line exceeds it by one; one message is a
character of two bytes; three messages overflow a history of two, and the receiver may join, be
answered and be admitted between any two of them.

No run checks for deadlock: sessions end, clients leave and bounds are reached; what
must go on is stated as a liveness property.

### What the violated runs show

* `handshaker_lost`: the countdown throws `timed_out` "to handler"
  (`hand_shaker.hpp:175`); if the password coroutine throws too, `&&` throws
  `multiple_exceptions`, which is no `system_error`. The completion token is never
  called and the session stays in the room with nobody reading its socket.
* `chat_server_dangling`: `stop()` makes the room destroy the session under its other
  coroutines (`chat_session.cpp:126`).
* `chat_server_rejected`: the 250 are microseconds (`hand_shaker.hpp:113`).
* `framing_broadcasts`: `find_last_of` finds either character of the delimiter and the
  last of them, `erase` removes the first line (`chat_session.cpp:77`).

More weaknesses are steps of the models without a run of their own. The TLS handshake is
awaited in the accept loop without a time-out (`ssl_chat_server.hpp:31`): a client that
sends nothing keeps all later ones waiting. `ServedUnlessBlocked` excepts this and a loop that
is dead, of a reset connection (`tcp_chat_server.hpp:27`) or for want of descriptors (`:24`): what
it shows is that there is no other way not to be served. A number
without quotes, or a password with a colon, makes `front()` undefined (`ReadsLine`); a
certificate that cannot be read ends the process by an uncaught exception (`Loads`). A
cancelled certificates dialog makes the window forget its bundle (`Cancels`). A connection
that is reset before its session is built ends the plain accept loop (`AcceptsTcp`). The
plain model does not report an error other than "closed" and "refused", so the view stays
connected (`LinkBreaks`; of the link, `ConnectedHasHandler` speaks for secure connections only). A secure
connection that runs out of time leaves the view "awaiting" (`SslTimesOut`). The first text
after the password need not be the answer: the user may read "Wrong Password" though the id that
follows connects the client (`ReceivesNoId`; `IdConnects`). A user who clicks Connect again on a
connection the server has accepted sends the password once more, and the server broadcasts it as
a line (`Connects`). A message said between joining and the history is delivered twice (`Owed`,
`IsAdmitted`). An id whose digits come in two reads connects the view with half of it, which
the server does not know (`Tears`). A character that a read cuts is shown as marks (`Decoded`). A
settings file without `max chars.` leaves a limit of 0, with which nothing can be typed
(`FromJson`), and a file that cannot be opened for once is overwritten with the defaults
(`StartsUnread`).

## 4. Fairness

* `HandShaker`, `ChatServer`: the io_context runs what is queued, timers fire,
  and the reader notices that its peer is gone: weak fairness of each of these, for each
  session. A client owes nothing: it may be silent, stall or stay for ever.
* `Server`: `main()` goes on until it serves, and the accept loop is resumed when its
  operation has completed. A mute client's
  handshake does not complete.
* `ChatClient`: the GUI's event loop delivers signals, a lookup ends, the server answers
  (`handshaker` and `chat_server_live` show that it does). The user and the network owe
  nothing.
* `LineFraming`: TCP delivers, session and receiver read.

## 5. Proofs

The theorems hold for every value of the constants that the `ASSUME`s of the modules allow, so
for every number of sessions, connections, clients, files and lines, every size of a history or a
buffer. These assumptions are:

* the bounds are natural numbers, and those that must not be zero are not;
* `RepliesDiffer`: the three replies of the handshaker differ;
* `SettingsAssumption`: an int has room for a port, and the numbers of files and choices have
  their types;
* `ItemsAssumption`: no certificate is called `None`;
* `FilesAssumption`, `FoldersAssumption`: a file is a sequence of lines, a line a sequence of
  pieces, and a folder has finitely many root certificates;
* `FramingAssumption`: CR, LF and the bytes of messages differ (a message is compact JSON,
  `message_handler.cpp:25`, which escapes line breaks; passwords and names come from line edits,
  which take none), what a client says is UTF-8 (`QString::toStdString`), U+FFFD is none of its
  bytes, a session id is digits, and a client has at least its password to say.

`HandShakerProofs`. `Invariant` proves the inductive invariant `IInv`: for every place
at which a coroutine may be suspended it says which flags are set, which operation is
pending, what was replied and what was thrown. `OneReply` alone is not inductive: that
the countdown sends nothing after an acceptance follows from `m_should_accept` being
set in the step that sends the id, and that it sends nothing after a rejection from
`m_is_terminating`, which only holds at the right places. `TypeCorrect`, `AtMostOneReply`
and `PasswordOnly` follow. `Refinement` proves that every step is a step of `Handshake`
or a stutter: the safety part of `HandShaker`'s `RefinesHandshake`. That `Handshake` is also
fair, so that a handshake that can go on does, is left to TLC.

`ChatServerProofs`. `IInv` has eight parts, proved one after the other from the earlier
ones: types; the room holds exactly the live sessions; what an outbox may hold and what
its writer is doing (`Outboxes`, with which no wakeup is lost); the history is the newest
messages; who watches a session's socket; where each session's feed begins and ends
(`Feeds`: nothing before it joins, no message from the future); completeness of the live feed;
and that history and live feed together miss nothing.
Completeness alone is not inductive: that the message a broadcast appends is newer than
all that were given before needs `Feeds`, and that every live session is given it needs
the room to hold exactly the live sessions. The theorems `RoomCorrect`,
`NoWakeupLost`, `HistoryCorrect`, `Watched`, `FeedComplete` and `NothingMissed` read their
property off `Invariant`. `ShownOnce` needs two parts more: a session that never connected has no
handshake (`Unborn`), and what a session was shown stands in its outbox in one block, and nowhere
else, if it is accepted (`Histories`): only the step that admits shows what is remembered.
`FeedImplemented` and `HandshakeImplemented` prove that every step is a step of `ChatFeed`, and
of `Handshake` for each session, or a stutter. `ChatFeed` states no fairness; of `Handshake`,
`ChatServer` claims the safety part only, as `HandShaker` is where its timers are. The second
theorem needs that a session is told how its handshake went once at most, in the step that ends
it.

`ServerProofs`. `PlainFileIsRead` is about the end of the reading. What carries it there is
`DictFromFile`: at every line, the configuration has, for each key, nothing but what a line
read so far says for it. `ServesAsConfigured` needs what each call of the TLS branch has made sure
of (`Checked`), and that the whole file was read before (`ReadToTheEnd`). `LoopInv` says that the
accept loop waits for one TLS handshake or none, and types the rest. `TypeCorrect`,
`PlainFilesAreRead` and `ConfiguredServer` follow.

`ChatClientProofs`. `ConnectedHasHandler` does not carry over a lookup's end: an id that is still
under way could be taken for the new connection's. `Ids` excludes it (an id under way belongs to
the present connection, which the server accepted; so does half of an id, and two halves
become one again only if they belong to it), and needs `Sessions` (the server has a
session only where there is a link). `ViewConnectedByOwnId` proves the action property
`ConnectedByOwnId` from them.

`ClientMessagesProofs`, in two layers. `NamesInvariant`: that all that is said with an id
carries one name (`OneName`) is only kept because that name is the handler's, whatever still lies
in the server's or the network's queues (`HandlersName`), and because the id of a connection comes
once, before anything is said in its name (`IdComesOnce`); `Speech` and `Link` type the texts
and the connection. `OneNameEach` follows. `Invariant` adds what is shown: behind an id comes what
the room owes (`Awaited`); once it was read, the list and what is under way are what is owed, in
order (`Reading`); and the marks lie in the room (`Marks`). `ShownIsOwed` follows. The lemmas on
sequences say how parts of a sequence grow when it does (`PartAppend`, `Shift`, `JoinMatch`).

`LineFramingProofs`. No property of the framing is inductive, as each speaks of what was consumed
and bytes are cut anywhere. `InFlight` says what lies in between: the bytes of the buffer followed by
those under way are the lines sent that were not consumed, whole, in order, each with its delimiter (`Framed`).
From it follows where the first delimiter of a buffer is (`FirstDelim`), hence what a read takes and
what `Response` cuts off (`ResponseIs`). `Order` and `ShortLinesSurvive` complete the
invariant; `LinesStayInOrder`, `ShortLinesFit` and `TypeCorrect` follow. `Delivered` proves, on top
of it, that what the receiver's session was given is, byte for byte, what was shown and what is on
its way, but for marks where half a character was (`Resembles`), and exactly that if no read cut
one. It rests on `InboxBytes` (splitting a read loses delimiters only), proved of the
recursive function in `Split`, on `FlattenJoin`, and on what decoding does to a part of a text that is
whole itself (`Sound`: cutting what is sound at the end of a character leaves two sound parts); it
gives `EveryByteArrives`. `ReadsExact` says what is on its way to a receiver whose reads were whole, in
three parts: texts that were given before it was admitted, remembered ones, each with its delimiter, and
live ones behind; together what it was not shown yet. A whole read ends where one of
these ends, and takes no live one but as its last (`WholeRead`); `Split` gives back just these
texts (`InboxIs`, by adding a byte, a text and a delimiter at a time: `SplitByte`, `SplitText`,
`SplitDelim`). `WholeReadsShown` follows. The library's induction theorems
take an operator as a parameter; so induction is stated here for sets of numbers (`Induction`) and of
sequences (`SequenceInduction`), which are instantiated by set comprehension.

`CertificatesDialogProofs`. `LayerAllOrNothing` is not inductive: that OK accepts a complete
bundle needs what the flags mean (a part whose flag is set is there), that the button is only
enabled when all flags were, and that a refused choice clears no part; that a cancelled dialog
leaves nothing mixed up needs that the window's bundle is empty while one is open.
`DialogInvariant` proves these together, `LayerComplete` follows.

`ClientSettingsProofs`. `RoundTrip` shows that what is saved is read back as it
was, up to the limits of the types; it is what makes the rest true. `IInv` adds to the dialog's
invariant what may be on the disk and that whatever the next run would make of it was asked for
(`DiskInv`); that, outside of a save and unless the file failed, it is what was asked for last
(`LastInv`), which `SettingsPersist`, about running windows only, cannot carry over a restart; and
what the presenter was made with (`PresenterInv`). The lemmas of `CertificatesDialogProofs` cover
the dialog's steps. `TypeCorrect`, `Whole`, `Persist` and `WindowLayerComplete` follow.

Only model-checked: liveness, which TLAPS does not prove under fairness (`Answered`,
`PasswordInTimeAccepted`, `OutboxDrains`, `GoneIsRemoved`, `ServedUnlessBlocked`, `IdConnects`,
`AnswerReachesView`, `LinesForwarded`), and the fairness of `Handshake` in `HandShaker`'s
`RefinesHandshake`. The properties of the four runs that expect a violation
are false.

## 6. Plan

In order; what is done is marked.

1. `Handshake`, `HandShaker`, proofs. (done)
2. `ChatSession`, `ChatRoom`, `ChatServer`, `ChatFeed`, proofs of the invariants. (done)
3. `AcceptLoop`, `ChatClient`, `LineFraming`. (done)
4. `Startup`, `Server`; `CertificatesDialog` and its proofs. (done)
5. `ClientSettings` and its proofs; `ClientMessages`. (done)
6. Proofs of `ChatClient`, `Server`, `ClientMessages`, `LineFraming`, and of the refinements of
   `ChatServer`. (done)
7. Several connections of one client with several receivers in `LineFraming`.

## 7. Not modelled

The socket wrappers (one call each), colours, delegates, text edits and forms (display), the
certificate script and the architecture demo (not part of either program), the directory of
the program (one system call). Session ids are taken to be
different and texts of others not to be numbers or JSON objects with an id of somebody else: the
server draws ids of 32 bits at random, and a user whose name is a number and is broadcast could be
taken for an id.
