--------------------------- MODULE ClientMessages ---------------------------
(***************************************************************************)
(* What a user of the Qt client reads: the message handler, which writes   *)
(* and reads messages in the name of one session, the user name, which may *)
(* change at any time, and the view's list of messages, from one plain     *)
(* connection to the next.                                                 *)
(*                                                                         *)
(* Of connecting only what bears on this is here, with the right password, *)
(* one lookup at a time, and texts that arrive one by one; the rest is     *)
(* ChatClient's and LineFraming's subject.  The room is that of the        *)
(* server: everything that was broadcast, of which a session is given what *)
(* is said as long as it lives, and the last messages when its handshake   *)
(* has ended.  A text that is no JSON object is shown as it is, as one of  *)
(* the server.  Warnings, which the list shows too, and colours are left   *)
(* out.                                                                    *)
(***************************************************************************)
EXTENDS Naturals, Sequences, SequencesExt

CONSTANTS Names,             \* names a user may choose
          Other,             \* the name of somebody else
          m_should_broadcast_name,
          m_max_recent_msgs, \* of the server's room
          MaxConnections,    \* bound: connections that are established
          MaxWritten,        \* bound: messages that are written
          MaxLines,          \* bound: lines under way to the server
          MaxLate,           \* bound: lines that are read from a client that is gone
          MaxRoom            \* bound: broadcasts

ASSUME MessagesAssumption ==
    /\ m_should_broadcast_name \in BOOLEAN
    /\ {m_max_recent_msgs, MaxConnections, MaxWritten,
        MaxLines, MaxLate, MaxRoom} \subseteq Nat

VARIABLES
    \* MainWindow
    m_username, m_is_connected,
    m_messages,         \* what the list shows
    \* TcpPresenter and HandShaker
    m_handshake_mode,
    m_message_handler,  \* the name and the id it was made with
    \* the socket
    looking,            \* a host lookup is under way
    up, conn,           \* whether it is connected; which connection it is
    toServer, toClient,
    \* the server
    srv,                \* this client's session: "asking", "answered" (it has
                        \* its id), "accepted" (and the history) or "closed"
    room,               \* everything that was broadcast
    late,               \* lines of the session before, which the server still reads
    marks,              \* history: the length of room when this session was
                        \* answered, and when it was accepted
    written             \* how many messages were written, by anybody

viewVars   == <<m_username, m_is_connected, m_messages>>
shakerVars == <<m_handshake_mode, m_message_handler>>
linkVars   == <<looking, up, conn>>
serverVars == <<srv, room, late, marks, written>>
vars == <<viewVars, shakerVars, linkVars, toServer, toClient, serverVars>>

\* A session id is the number of its connection; others have none of these.
None == 0
NoHandler == [name |-> "", id |-> None]

\* A line or a text.  via is the connection it was sent on: no part of the text.
Text(kind, name, id, body, via) ==
    [kind |-> kind, from |-> name, id |-> id, body |-> body, via |-> via]
Raw(kind, name)  == Text(kind, name, None, 0, conn)
IdText(n)        == Text("id", "", n, 0, n)

Init ==
    /\ m_username \in Names
    /\ m_is_connected = FALSE
    /\ m_messages = <<>>
    /\ m_handshake_mode = "AwaitHandShake" /\ m_message_handler = NoHandler
    /\ looking = FALSE /\ up = FALSE /\ conn = 0
    /\ toServer = <<>> /\ toClient = <<>>
    /\ srv = "closed" /\ room = <<>> /\ late = <<>> /\ marks = <<>> /\ written = 0

----------------------------------------------------------------------------
(* MessageHandler.                                                         *)

\* parse_to_send()
Written(handler) == Text("json", handler.name, handler.id, written + 1, conn)

\* FormattedMessage
Entry(name, t, own) == [from |-> name, text |-> t, own |-> own]

\* parse_to_receive(); own if it carries the handler's id.
Parsed(handler, t) == Entry(t.from, t, t.id = handler.id)

\* Mutant: what is no object is read as an empty one.
Shown_Parsed(handler, t) == Parsed(handler, t)

\* What the list is given for a text.
Shown(handler, t) == IF t.kind = "json" THEN Parsed(handler, t)
                     ELSE Entry("Server", t, FALSE)

----------------------------------------------------------------------------
(* The user.                                                               *)

\* The dialog of the user's name.
EditUsername(name) ==
    /\ m_username' = name
    /\ UNCHANGED <<m_is_connected, m_messages, shakerVars, linkVars,
                   toServer, toClient, serverVars>>

ClickConnect ==
    /\ ~m_is_connected /\ ~looking
    /\ looking' = TRUE
    /\ UNCHANGED <<viewVars, shakerVars, up, conn, toServer, toClient, serverVars>>

\* What was sent before is still on its way to a session that may read it.
LinkDown ==
    /\ up' = FALSE /\ srv' = "closed" /\ toServer' = <<>> /\ toClient' = <<>>
    /\ late' = IF srv \in {"answered", "accepted"}
               THEN SubSeq(toServer, 1, Min({MaxLate, Len(toServer)})) ELSE late

ClickDisconnect ==
    /\ m_is_connected
    /\ m_is_connected' = FALSE
    /\ m_handshake_mode' = "AwaitHandShake" /\ m_message_handler' = NoHandler
    /\ LinkDown
    /\ UNCHANGED <<m_username, m_messages, looking, conn, room, marks, written>>

\* The settings dialog: another presenter with another model.
EditServer ==
    /\ m_is_connected' = FALSE
    /\ m_handshake_mode' = "AwaitHandShake" /\ m_message_handler' = NoHandler
    /\ looking' = FALSE
    /\ LinkDown
    /\ UNCHANGED <<m_username, m_messages, conn, room, marks, written>>

\* Mutant: the name is brought up to date as the colour is.
ClickSend_NewName ==
    /\ m_is_connected /\ m_message_handler # NoHandler
    /\ written < MaxWritten /\ Len(toServer) < MaxLines
    /\ written' = written + 1
    /\ m_message_handler' = [m_message_handler EXCEPT !.name = m_username]
    /\ toServer' = IF up THEN Append(toServer, Written(m_message_handler'))
                         ELSE toServer
    /\ UNCHANGED <<viewVars, m_handshake_mode, linkVars, toClient, srv, room, late, marks>>

\* send_message() of the presenter and the model: the handler keeps the name it
\* was made with.  On a socket that is gone the message is dropped.
ClickSend ==
    /\ m_is_connected /\ m_message_handler # NoHandler
    /\ written < MaxWritten /\ Len(toServer) < MaxLines
    /\ written' = written + 1
    /\ toServer' = IF up THEN Append(toServer, Written(m_message_handler))
                         ELSE toServer
    /\ UNCHANGED <<viewVars, shakerVars, linkVars, toClient, srv, room, late, marks>>

----------------------------------------------------------------------------
(* Connecting.                                                             *)

LookupEnds == looking /\ looking' = FALSE

LookupFails ==
    /\ LookupEnds
    /\ m_is_connected' = FALSE
    /\ UNCHANGED <<m_username, m_messages, shakerVars, up, conn, toServer,
                   toClient, serverVars>>

\* await_handshake(), on a new connection, or on the one that is still there
\* although the view has given it up.
Connects ==
    /\ LookupEnds
    /\ IF up THEN /\ Len(toServer) < MaxLines
                  /\ toServer' = Append(toServer, Raw("password", ""))
                  /\ UNCHANGED <<up, conn, toClient, srv, marks>>
             ELSE /\ conn < MaxConnections
                  /\ up' = TRUE /\ conn' = conn + 1 /\ srv' = "asking"
                  /\ toServer' = <<Text("password", "", None, 0, conn')>>
                  /\ toClient' = <<>> /\ marks' = <<>>
    /\ m_handshake_mode' = "AwaitSessionId"
    /\ UNCHANGED <<viewVars, m_message_handler, room, late, written>>

\* errorOccurred(RemoteHostClosedError): the presenter keeps its handler.
RemoteCloses ==
    /\ up /\ srv = "closed" /\ toClient = <<>>
    /\ m_is_connected' = FALSE
    /\ LinkDown
    /\ UNCHANGED <<m_username, m_messages, shakerVars, looking, conn, room,
                   marks, written>>

\* Any other error: nobody is told.
LinkBreaks ==
    /\ up
    /\ LinkDown
    /\ UNCHANGED <<viewVars, shakerVars, looking, conn, room, marks, written>>

----------------------------------------------------------------------------
(* handle_msg_reception() of the presenter.                                *)

text == Head(toClient)

Receives == up /\ toClient # <<>> /\ toClient' = Tail(toClient)

\* Mutant: the handler of an earlier connection is kept.
ReceivesId_KeepsHandler ==
    /\ Receives
    /\ m_handshake_mode = "AwaitSessionId" /\ text.kind = "id"
    /\ m_handshake_mode' = "Ok"
    /\ m_message_handler' = IF m_message_handler # NoHandler THEN m_message_handler
                            ELSE [name |-> m_username, id |-> text.id]
    /\ m_is_connected' = TRUE /\ m_messages' = <<>>
    /\ toServer' = IF m_should_broadcast_name
                   THEN Append(toServer, Raw("name", m_username)) ELSE toServer
    /\ UNCHANGED <<m_username, linkVars, serverVars>>

\* The session id: the list is emptied, and a handler made of the present name.
ReceivesId ==
    /\ Receives
    /\ m_handshake_mode = "AwaitSessionId" /\ text.kind = "id"
    /\ m_handshake_mode' = "Ok"
    /\ m_message_handler' = [name |-> m_username, id |-> text.id]
    /\ m_is_connected' = TRUE /\ m_messages' = <<>>
    /\ toServer' = IF m_should_broadcast_name
                   THEN Append(toServer, Raw("name", m_username)) ELSE toServer
    /\ UNCHANGED <<m_username, linkVars, serverVars>>

\* Another text instead: the view is told that it was rejected, and then drops
\* the text, which an old handler may still read.
ReceivesNoId ==
    /\ Receives
    /\ m_handshake_mode = "AwaitSessionId" /\ text.kind # "id"
    /\ m_is_connected' = FALSE
    /\ UNCHANGED <<m_username, m_messages, shakerVars, linkVars, toServer, serverVars>>

\* A message: shown if there is a handler, and the view is connected.
ReceivesMessage ==
    /\ Receives
    /\ m_handshake_mode # "AwaitSessionId"
    /\ m_messages' = IF m_message_handler # NoHandler /\ m_is_connected
                     THEN Append(m_messages, Shown(m_message_handler, text))
                     ELSE m_messages
    /\ UNCHANGED <<m_username, m_is_connected, shakerVars, linkVars, toServer, serverVars>>

----------------------------------------------------------------------------
(* The server: ChatServer, as this client sees it.                         *)

clientVars == <<viewVars, shakerVars, linkVars>>

\* The last messages of the first n in the room.
Newest(n) ==
    SubSeq(room, IF n > m_max_recent_msgs THEN n - m_max_recent_msgs + 1 ELSE 1, n)

\* The password is read, and with it whatever came with it; the id is sent.
ServerAnswers ==
    /\ srv = "asking" /\ toServer # <<>>
    /\ srv' = "answered" /\ marks' = <<Len(room)>>
    /\ \E n \in 1 .. Len(toServer) :
          toServer' = SubSeq(toServer, n + 1, Len(toServer))
    /\ toClient' = Append(toClient, IdText(conn))
    /\ UNCHANGED <<clientVars, room, late, written>>

\* The handshake's coroutines have ended: the history is sent, lines are read.
ServerAccepts ==
    /\ srv = "answered"
    /\ srv' = "accepted" /\ marks' = Append(marks, Len(room))
    /\ toClient' = toClient \o Newest(Len(room))
    /\ UNCHANGED <<clientVars, toServer, room, late, written>>

Broadcasts(line) ==
    /\ Len(room) < MaxRoom
    /\ room' = Append(room, line)
    /\ toClient' = IF srv = "closed" THEN toClient ELSE Append(toClient, line)

ServerReads ==
    /\ srv = "accepted" /\ toServer # <<>>
    /\ Broadcasts(Head(toServer))
    /\ toServer' = Tail(toServer)
    /\ UNCHANGED <<clientVars, srv, late, marks, written>>

\* A session whose client is gone reads on.
ServerReadsLate ==
    /\ late # <<>>
    /\ Broadcasts(Head(late))
    /\ late' = Tail(late)
    /\ UNCHANGED <<clientVars, toServer, srv, marks, written>>

OtherSpeaks ==
    /\ written < MaxWritten /\ written' = written + 1
    /\ Broadcasts(Text("json", Other, None, written', None))
    /\ UNCHANGED <<clientVars, toServer, srv, late, marks>>

ServerCloses ==
    /\ srv # "closed" /\ srv' = "closed"
    /\ UNCHANGED <<clientVars, toServer, toClient, room, late, marks, written>>

----------------------------------------------------------------------------
Gui == \/ LookupFails \/ Connects \/ RemoteCloses
       \/ ReceivesId \/ ReceivesNoId \/ ReceivesMessage

User == \/ ClickConnect \/ ClickDisconnect \/ ClickSend \/ EditServer
        \/ \E name \in Names : EditUsername(name)

Next == \/ Gui \/ User \/ LinkBreaks
        \/ ServerAnswers \/ ServerAccepts \/ ServerReads \/ ServerReadsLate
        \/ OtherSpeaks \/ ServerCloses

Spec == Init /\ [][Next]_vars

----------------------------------------------------------------------------
(* Properties.                                                             *)

Texts == [kind : {"json", "id", "name", "password"}, from : Names \cup {Other, ""},
          id : 0 .. conn, body : 0 .. written, via : 0 .. conn]

\* Type invariant.
TypeOK ==
    /\ m_username \in Names /\ m_is_connected \in BOOLEAN
    /\ m_messages \in Seq([from : Names \cup {Other, "Server"}, text : Texts,
                           own : BOOLEAN])
    /\ m_handshake_mode \in {"AwaitHandShake", "AwaitSessionId", "Ok"}
    /\ m_message_handler \in {NoHandler} \cup [name : Names, id : 1 .. conn]
    /\ looking \in BOOLEAN /\ up \in BOOLEAN /\ conn \in 0 .. MaxConnections
    /\ {toServer, toClient, room, late} \subseteq Seq(Texts)
    /\ srv \in {"asking", "answered", "accepted", "closed"}
    /\ marks \in Seq(0 .. Len(room)) /\ Len(marks) <= 2
    /\ written \in 0 .. MaxWritten

\* The list of a connected view, with what is on its way, is what the room owes
\* this session: what was said since its id, the history it is given at the end
\* of its handshake, and everything after that.  So nothing is missing but what
\* follows a lost connection, nothing is left of an earlier one, nothing is
\* shown twice but what was said between id and history; and what is marked as
\* the user's own is exactly what was written in this session.
Owed == IF Len(marks) = 1 THEN SubSeq(room, marks[1] + 1, Len(room))
        ELSE SubSeq(room, marks[1] + 1, marks[2]) \o Newest(marks[2])
                 \o SubSeq(room, marks[2] + 1, Len(room))
ShownIsRoom ==
    m_is_connected /\ up /\ m_handshake_mode = "Ok" =>
        LET reader(t) == Shown([name |-> m_username, id |-> conn], t)
            shown == m_messages \o [i \in DOMAIN toClient |-> reader(toClient[i])]
            owed  == [i \in DOMAIN Owed |-> reader(Owed[i])]
        IN  IF srv = "closed" THEN IsPrefix(shown, owed) ELSE shown = owed

\* Others know a session by one name: all its messages carry the name that it
\* announced, however often its user changes the name meanwhile.
OneNamePerSession ==
    \A i, j \in DOMAIN room :
        /\ room[i].kind = "json" /\ room[i].id # None
        /\ \/ room[j].kind = "json" /\ room[j].id = room[i].id
           \/ room[j].kind = "name" /\ room[j].via = room[i].id
        => room[i].from = room[j].from
=============================================================================
