----------------------------- MODULE ChatClient -----------------------------
(***************************************************************************)
(* The Qt client: the view (MainWindow), the presenter (TcpPresenter, with *)
(* its HandShaker and its MessageHandler) and the model (TcpClientModel or *)
(* SslClientModel) around one socket.  All of it runs on the thread of the *)
(* GUI: a click, the end of a host lookup and a signal of the socket are   *)
(* each handled to the end before the next one.  Connecting is part of the *)
(* handler of the lookup, which blocks in waitForConnected().              *)
(*                                                                         *)
(* The server at the other end is the session of ChatServer, as a client   *)
(* sees it: it reads the password, answers, broadcasts whenever it likes,  *)
(* even before its answer, and closes.  Its texts are not delimited, so    *)
(* two of them may reach the client as one, and one as two.                *)
(***************************************************************************)
EXTENDS Integers, Sequences

CONSTANTS MaxConnections,   \* bound: connections that are established
          MaxLookups,       \* bound: host lookups under way
          MaxLines,         \* bound: lines under way to the server
          MaxTexts,         \* bound: texts under way to the client
          m_should_broadcast_name

ASSUME ClientAssumption == /\ MaxConnections \in Nat
                           /\ MaxLookups \in Nat \ {0}
                           /\ MaxLines \in Nat \ {0}
                           /\ MaxTexts \in Nat \ {0}
                           /\ m_should_broadcast_name \in BOOLEAN

VARIABLES
    \* MainWindow
    m_connection_mode,  \* "Tcp" or "Ssl": which presenter and model it owns
    m_password,         \* "right" or "wrong": what the user has set
    m_is_connected,
    status,             \* what ResultEdit says
    \* TcpPresenter and HandShaker
    m_handshake_mode,
    m_message_handler,  \* the session id it was made with, or None
    \* the model and its socket
    lookups,            \* host lookups that have not called back yet
    link,               \* "down", "half" (TLS not established) or "up"
    conn,               \* how many connections there were; the current one
    \* the network and the server's session
    toServer, toClient, \* lines and texts on their way
    srv,                \* the server's session: "asking", "accepted", "closed"
    accepted            \* history: the connections that were given an id

viewVars   == <<m_connection_mode, m_password, m_is_connected, status>>
shakerVars == <<m_handshake_mode, m_message_handler>>
serverVars == <<toServer, toClient, srv, accepted>>
vars == <<viewVars, shakerVars, lookups, link, conn, serverVars>>

None == 0               \* a session id is the number of its connection
Passwords == {"right", "wrong"}
Id(n) == [kind |-> "id", of |-> n]
HalfId(n) == Id(-n)     \* some of its digits: a number too, but another one
Text(kind) == [kind |-> kind, of |-> None]

Init ==
    /\ m_connection_mode \in {"Tcp", "Ssl"}
    /\ m_password \in Passwords
    /\ m_is_connected = FALSE
    /\ status = ""
    /\ m_handshake_mode = "AwaitHandShake"
    /\ m_message_handler = None
    /\ lookups = 0
    /\ link = "down"
    /\ conn = 0
    /\ toServer = <<>> /\ toClient = <<>>
    /\ srv = "closed"
    /\ accepted = {}

----------------------------------------------------------------------------
(* What several handlers do.                                               *)

\* MainWindow::handle_connect_response() with an error.
ViewShows(what) == m_is_connected' = FALSE /\ status' = what

\* The socket is gone: both ends forget what was under way.
LinkDown ==
    /\ link' = "down"
    /\ srv' = "closed"
    /\ toServer' = <<>> /\ toClient' = <<>>

\* send_message() of the model: dropped silently unless the socket is connected.
Sends(line) == toServer' = IF link = "up" THEN Append(toServer, line)
                                          ELSE toServer

\* TcpPresenter::disconnect() and new presenters start like this.
ShakerReset == m_handshake_mode' = "AwaitHandShake" /\ m_message_handler' = None

----------------------------------------------------------------------------
(* The user.                                                               *)

ClickConnect ==
    /\ ~m_is_connected
    /\ lookups < MaxLookups
    /\ lookups' = lookups + 1
    /\ status' = "awaiting"
    /\ UNCHANGED <<m_connection_mode, m_password, m_is_connected, shakerVars,
                   link, conn, serverVars>>

ClickDisconnect ==
    /\ m_is_connected
    /\ ViewShows("")
    /\ ShakerReset
    /\ LinkDown
    /\ UNCHANGED <<m_connection_mode, m_password, lookups, conn, accepted>>

\* A message is sent as long as the view believes in the connection.
ClickSend ==
    /\ m_is_connected /\ m_message_handler # None
    /\ Len(toServer) < MaxLines
    /\ Sends("chat")
    /\ UNCHANGED <<viewVars, shakerVars, lookups, link, conn, toClient, srv,
                   accepted>>

\* Mutant: the old connection is not given up in the view.
EditServer_StaysConnected(mode, password) ==
    /\ m_connection_mode' = mode /\ m_password' = password
    /\ UNCHANGED <<m_is_connected, status>>
    /\ lookups' = 0
    /\ ShakerReset
    /\ LinkDown
    /\ UNCHANGED <<conn, accepted>>

\* The settings dialog, accepted or not: set_connection_mode() disconnects and
\* replaces presenter and model, whose socket and lookups end with them.
EditServer(mode, password) ==
    /\ m_connection_mode' = mode /\ m_password' = password
    /\ IF m_is_connected THEN ViewShows("") ELSE UNCHANGED <<m_is_connected, status>>
    /\ lookups' = 0
    /\ ShakerReset
    /\ LinkDown
    /\ UNCHANGED <<conn, accepted>>

----------------------------------------------------------------------------
(* look_up_host_infos() and connecting_to_host().                          *)

LookupFails ==
    /\ lookups > 0 /\ lookups' = lookups - 1
    /\ ViewShows("error")
    /\ UNCHANGED <<m_connection_mode, m_password, shakerVars, link, conn,
                   serverVars>>

LookedUp(mode) ==
    /\ lookups > 0 /\ lookups' = lookups - 1
    /\ m_connection_mode = mode
    /\ UNCHANGED <<m_connection_mode, m_password>>

\* HandShaker::await_handshake() on a new connection.
Connects(mode) ==
    /\ LookedUp(mode)
    /\ link = "down" /\ conn < MaxConnections
    /\ link' = "up" /\ conn' = conn + 1
    /\ srv' = "asking"
    /\ toServer' = <<m_password>> /\ toClient' = <<>>
    /\ m_handshake_mode' = "AwaitSessionId"
    /\ UNCHANGED <<m_is_connected, status, m_message_handler, accepted>>

\* connectToHost() on a connected QTcpSocket does nothing, waitForConnected()
\* is true at once: the handshake starts again on the old connection.
TcpConnectsAgain ==
    /\ LookedUp("Tcp")
    /\ link = "up" /\ Len(toServer) < MaxLines
    /\ Sends(m_password)
    /\ m_handshake_mode' = "AwaitSessionId"
    /\ UNCHANGED <<m_is_connected, status, m_message_handler, link, conn,
                   toClient, srv, accepted>>

TcpConnectFails ==
    /\ LookedUp("Tcp")
    /\ link = "down"
    /\ ViewShows("error")
    /\ UNCHANGED <<shakerVars, link, conn, serverVars>>

\* Mutant: what is reported last is what the view believes.
SslError_SuccessLast ==
    /\ UNCHANGED <<m_is_connected, status>>
    /\ m_handshake_mode' = "AwaitSessionId"
    /\ LinkDown
    /\ UNCHANGED <<m_message_handler, conn, accepted>>

\* SslClientModel::retrieve_error(): the view is shown the error, and then the
\* text of the error is taken for a successful response.  The password it
\* sends goes nowhere: the socket is closed.
SslError ==
    /\ ViewShows("error")
    /\ m_handshake_mode' = "AwaitSessionId"
    /\ LinkDown
    /\ UNCHANGED <<m_message_handler, conn, accepted>>

\* The connection is refused, TLS fails, or the socket is already in use (which
\* resets the TLS layer under the old connection).
SslConnectFails == LookedUp("Ssl") /\ SslError

\* waitForConnected() or waitForEncrypted() runs out of time: no signal.
SslTimesOut ==
    /\ LookedUp("Ssl")
    /\ link = "down"
    /\ link' \in {"down", "half"}
    /\ UNCHANGED <<m_is_connected, status, shakerVars, conn, serverVars>>

----------------------------------------------------------------------------
(* Signals of the socket.                                                  *)

\* Mutants: what is not an id ends the handshake, is not shown, passes, or is
\* shown as it came.
ParseFails_GivesUp ==
    /\ ViewShows("rejected")
    /\ m_handshake_mode' = "AwaitHandShake"
    /\ UNCHANGED <<m_message_handler, toServer>>

ParseFails_Silent ==
    UNCHANGED <<m_is_connected, status, m_handshake_mode, m_message_handler,
                toServer>>

ParseFails_Passes ==
    /\ m_is_connected' = TRUE /\ status' = "connected"
    /\ m_handshake_mode' = "Ok"
    /\ m_message_handler' = conn
    /\ UNCHANGED toServer

ParseFails_ShowsText ==
    /\ ViewShows(Head(toClient).kind)
    /\ UNCHANGED <<m_handshake_mode, m_message_handler, toServer>>

\* parse_session_id(): "ConnectionRejected: Wrong Password"; the next message
\* is parsed again.
ParseFails ==
    /\ ViewShows("rejected")
    /\ UNCHANGED <<m_handshake_mode, m_message_handler, toServer>>

ParseSucceeds(id) ==
    /\ m_is_connected' = TRUE /\ status' = "connected"
    /\ m_handshake_mode' = "Ok"
    /\ m_message_handler' = id
    /\ IF m_should_broadcast_name THEN Sends("name") ELSE UNCHANGED toServer

\* recieving_msg() and handle_msg_reception().  (A text for the user leaves
\* the state alone: the view shows it if it is connected.)
Receives ==
    /\ link = "up" /\ toClient # <<>>
    /\ toClient' = Tail(toClient)
    /\ LET text == Head(toClient)
       IN  \/ /\ m_handshake_mode = "AwaitSessionId" /\ text.kind = "id"
              /\ ParseSucceeds(text.of)
           \/ /\ m_handshake_mode = "AwaitSessionId" /\ text.kind # "id"
              /\ ParseFails
           \/ /\ m_handshake_mode # "AwaitSessionId"
              /\ UNCHANGED <<m_is_connected, status, shakerVars, toServer>>
    /\ UNCHANGED <<m_connection_mode, m_password, lookups, link, conn, srv,
                   accepted>>

\* errorOccurred(RemoteHostClosedError), when all that came was read.
RemoteCloses ==
    /\ link # "down" /\ srv = "closed" /\ toClient = <<>>
    /\ \/ m_connection_mode = "Ssl" /\ SslError
       \/ /\ m_connection_mode = "Tcp"
          /\ ViewShows("lost")
          /\ LinkDown
          /\ UNCHANGED <<shakerVars, conn, accepted>>
    /\ UNCHANGED <<m_connection_mode, m_password, lookups>>

\* Any other error of an established connection, such as a network that is
\* down: TcpClientModel::retrieve_error() knows two errors only.
LinkBreaks ==
    /\ link # "down"
    /\ \/ m_connection_mode = "Ssl" /\ SslError
       \/ /\ m_connection_mode = "Tcp"
          /\ LinkDown
          /\ UNCHANGED <<m_is_connected, status, shakerVars, conn, accepted>>
    /\ UNCHANGED <<m_connection_mode, m_password, lookups>>

----------------------------------------------------------------------------
(* The server and the network.                                             *)

serverOnly == <<viewVars, shakerVars, lookups, link, conn>>

\* The password is read; lines that were received with it are lost.  A refused
\* client may be told before the connection is closed.
ServerAnswers ==
    /\ srv = "asking" /\ toServer # <<>> /\ Len(toClient) < MaxTexts
    /\ \E n \in 1 .. Len(toServer) :
          toServer' = SubSeq(toServer, n + 1, Len(toServer))
    /\ \/ /\ Head(toServer) = "right"
          /\ srv' = "accepted" /\ accepted' = accepted \cup {conn}
          /\ toClient' = Append(toClient, Id(conn))
       \/ /\ Head(toServer) # "right"
          /\ srv' = "closed" /\ UNCHANGED accepted
          /\ toClient' \in {toClient, Append(toClient, Text("reject"))}
    /\ UNCHANGED serverOnly

\* The 5 s are over, or the server stops.
ServerCloses ==
    /\ srv # "closed" /\ srv' = "closed"
    /\ toClient' \in {toClient, Append(toClient, Text("timeout"))}
    /\ UNCHANGED <<serverOnly, toServer, accepted>>

\* A line of this client is broadcast, to this client too.
ServerReads ==
    /\ srv = "accepted" /\ toServer # <<>> /\ Len(toClient) < MaxTexts
    /\ toServer' = Tail(toServer)
    /\ toClient' = Append(toClient, Text("chat"))
    /\ UNCHANGED <<serverOnly, srv, accepted>>

\* A line of somebody else is broadcast.
ServerBroadcasts ==
    /\ srv # "closed" /\ Len(toClient) < MaxTexts
    /\ toClient' = Append(toClient, Text("chat"))
    /\ UNCHANGED <<serverOnly, toServer, srv, accepted>>

\* Two texts arrive as one, which is neither; or the halves of an id do.
Merges ==
    /\ Len(toClient) > 1
    /\ LET two == {toClient[1], toClient[2]}
           one == IF two = {HalfId(conn)} THEN Id(conn) ELSE Text("garbled")
       IN  toClient' = <<one>> \o SubSeq(toClient, 3, Len(toClient))
    /\ UNCHANGED <<serverOnly, toServer, srv, accepted>>

\* The digits of an id arrive in two reads.  (Half of another text is a text, too,
\* that is no id.)
Tears ==
    /\ Len(toClient) < MaxTexts
    /\ \E i \in DOMAIN toClient :
          /\ toClient[i] = Id(conn)
          /\ toClient' = SubSeq(toClient, 1, i - 1) \o <<HalfId(conn), HalfId(conn)>>
                            \o SubSeq(toClient, i + 1, Len(toClient))
    /\ UNCHANGED <<serverOnly, toServer, srv, accepted>>

----------------------------------------------------------------------------
User == \/ ClickConnect \/ ClickDisconnect \/ ClickSend
        \/ \E mode \in {"Tcp", "Ssl"}, p \in Passwords : EditServer(mode, p)

LookupEnds == \/ LookupFails \/ Connects("Tcp") \/ Connects("Ssl")
              \/ TcpConnectsAgain \/ TcpConnectFails
              \/ SslConnectFails \/ SslTimesOut

Server == ServerAnswers \/ ServerReads

Next == \/ LookupEnds \/ User \/ Receives \/ RemoteCloses \/ LinkBreaks
        \/ Server \/ ServerCloses \/ ServerBroadcasts \/ Merges \/ Tears

\* The GUI's event loop runs, lookups end, and the server answers and reads
\* (HandShaker, ChatServer); the user and the network owe nothing.
Spec == /\ Init /\ [][Next]_vars
        /\ WF_vars(LookupEnds) /\ WF_vars(Receives) /\ WF_vars(RemoteCloses)
        /\ WF_vars(Server)

----------------------------------------------------------------------------
(* Properties.                                                             *)

Kinds == {"id", "reject", "timeout", "chat", "garbled"}

\* Type invariant.
TypeOK ==
    /\ m_connection_mode \in {"Tcp", "Ssl"}
    /\ m_password \in Passwords
    /\ m_is_connected \in BOOLEAN
    /\ status \in {"", "awaiting", "connected", "error", "rejected", "lost"}
    /\ m_handshake_mode \in {"AwaitHandShake", "AwaitSessionId", "Ok"}
    /\ m_message_handler \in -conn .. conn
    /\ lookups \in 0 .. MaxLookups
    /\ link \in {"down", "half", "up"}
    /\ conn \in 0 .. MaxConnections
    /\ toServer \in Seq(Passwords \cup {"name", "chat"})
    /\ toClient \in Seq([kind : Kinds, of : -conn .. conn])
    /\ srv \in {"asking", "accepted", "closed"}
    /\ accepted \in SUBSET (1 .. conn)

\* A view that is connected has a message handler behind it, made with an id
\* the server gave, or with half of one (HandShaker takes any number), so that
\* what the user sends is not dropped and what comes is not thrown away; however
\* clicks, lookups and errors overlap.  And a secure connection that is gone takes
\* the view with it, although every error of it is also reported as a success.
\* (A plain one the view does outlive: LinkBreaks.)
ConnectedHasHandler ==
    m_is_connected => /\ \E n \in accepted : m_message_handler \in {n, -n}
                      /\ m_handshake_mode # "AwaitHandShake"
                      /\ m_connection_mode = "Ssl" => link = "up"

\* The view becomes connected by the id of the connection it has now, never by
\* what was left of an earlier one or by a message that came first; at worst, if
\* its digits come in two reads, by half of it.
ConnectedByOwnId ==
    [][~m_is_connected /\ m_is_connected'
          => link = "up" /\ conn \in accepted /\ m_message_handler' \in {conn, -conn}]_vars

\* Messages that arrive before the session id do no lasting harm: the id, unless
\* it arrives in one text with another one, connects the view.
IdOnItsWay == /\ m_handshake_mode = "AwaitSessionId" /\ link = "up"
              /\ \E i \in DOMAIN toClient : toClient[i].kind = "id"
IdConnects ==
    IdOnItsWay ~> \/ m_is_connected
                  \/ link # "up"
                  \/ \E i \in DOMAIN toClient : toClient[i].kind = "garbled"

\* Once the password is out, the user is told how it went: the answer, or
\* whatever came in its place, ends the waiting.
AnswerReachesView ==
    (status = "awaiting" /\ m_handshake_mode = "AwaitSessionId" /\ link = "up")
        ~> (status # "awaiting" \/ link = "down")

=============================================================================
