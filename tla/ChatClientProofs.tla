-------------------------- MODULE ChatClientProofs --------------------------
(***************************************************************************)
(* Proofs about ChatClient, for every number of connections, of lookups    *)
(* under way and of lines and texts on the network.                        *)
(***************************************************************************)
EXTENDS ChatClient, SequenceTheorems, TLAPS

\* A session id that is under way, or half of one, is the one of the connection it
\* travels on, and the server has accepted that connection: nothing of an earlier
\* connection is left when a new one is made.
OwnId(text) == text.of \in {conn, -conn} /\ conn \in accepted
Known(texts) == \A i \in DOMAIN texts : texts[i].kind = "id" => OwnId(texts[i])
Ids == Known(toClient)

\* The server's session lives on a connection that was made.
Sessions == /\ srv # "closed" => link = "up"
            /\ link = "up" => conn >= 1

IInv == TypeOK /\ Ids /\ Sessions /\ ConnectedHasHandler

Lines == Passwords \cup {"name", "chat"}
Texts == [kind : Kinds, of : -conn .. conn]

----------------------------------------------------------------------------
(* What every handler leaves behind.                                       *)

\* The counters, as numbers.
LEMMA Counters ==
    ASSUME TypeOK
    PROVE  /\ conn \in Nat /\ conn <= MaxConnections /\ MaxConnections \in Nat
           /\ lookups \in Nat /\ lookups <= MaxLookups /\ MaxLookups \in Nat
           /\ 0 \in -conn .. conn /\ conn \in -conn .. conn /\ 0 \in 0 .. MaxLookups
<1>1. conn \in 0 .. MaxConnections /\ lookups \in 0 .. MaxLookups
  BY DEF TypeOK
<1> QED
  BY <1>1, ClientAssumption

\* What is left of the lines when the first ones are gone.
LEMMA Suffix ==
    ASSUME NEW S, NEW s \in Seq(S), NEW m \in Nat \ {0}, m <= Len(s) + 1
    PROVE  /\ SubSeq(s, m, Len(s)) \in Seq(S)
           /\ Len(SubSeq(s, m, Len(s))) = Len(s) - m + 1
           /\ \A i \in 1 .. Len(s) - m + 1 :
                 SubSeq(s, m, Len(s))[i] = s[m + i - 1]
<1>1. Len(s) \in Nat /\ \A i \in m .. Len(s) : s[i] \in S
  BY ElementOfSeq, LenProperties
<1> QED
  BY <1>1, SubSeqProperties

\* A text without an id may be added to what is under way.
LEMMA PlainText ==
    ASSUME TypeOK, NEW kind \in Kinds \ {"id"}
    PROVE  Text(kind) \in Texts /\ Text(kind).kind # "id"
BY Counters DEF Text, None, Texts

\* The socket is gone: nothing is under way, the session is over.
LEMMA Down ==
    ASSUME LinkDown, conn' = conn
    PROVE  /\ Ids' /\ Sessions'
           /\ link' \in {"down", "half", "up"} /\ srv' \in {"asking", "accepted", "closed"}
           /\ toServer' \in Seq(Lines) /\ toClient' \in Seq(Texts)
BY DEF LinkDown, Ids, Known, Sessions

\* What the model sends is added to the lines under way, or dropped.
LEMMA Sent ==
    ASSUME IInv, NEW line \in Lines, Sends(line)
    PROVE  toServer' \in Seq(Lines)
<1>1. toServer \in Seq(Lines)
  BY DEF IInv, TypeOK, Lines
<1> QED
  BY <1>1 DEF Sends

\* Texts are added to those under way, dropped or merged: the ids among them
\* stay what they were.
LEMMA Texted ==
    ASSUME IInv, NEW kind \in Kinds \ {"id"},
           toClient' \in {toClient, Append(toClient, Text(kind))},
           conn' = conn, accepted' = accepted
    PROVE  toClient' \in Seq(Texts) /\ Ids'
<1>1. Text(kind) \in Texts /\ Text(kind).kind # "id"
  BY PlainText DEF IInv
<1>2. toClient \in Seq(Texts)
  BY DEF IInv, TypeOK, Texts
<1>3. CASE toClient' = toClient
  BY <1>2, <1>3 DEF IInv, Ids, Known, OwnId
<1>4. CASE toClient' = Append(toClient, Text(kind))
  <2>1. toClient' \in Seq(Texts)
    BY <1>1, <1>2, <1>4
  <2>2. ASSUME NEW i \in DOMAIN toClient', toClient'[i].kind = "id"
        PROVE  toClient[i].kind = "id" /\ i \in DOMAIN toClient
               /\ toClient'[i] = toClient[i]
    BY <1>1, <1>2, <1>4, <2>2
  <2> QED
    BY <2>1, <2>2 DEF IInv, Ids, Known, OwnId
<1> QED
  BY <1>3, <1>4

----------------------------------------------------------------------------
(* The inductive invariant.                                                *)

\* The inductive invariant holds at the start.
LEMMA InvInit == Init => IInv
<1> SUFFICES ASSUME Init PROVE IInv
  OBVIOUS
<1>1. 0 \in 0 .. 0 /\ 0 \in 0 .. MaxLookups /\ 0 \in 0 .. MaxConnections
  BY ClientAssumption
<1>2. /\ toServer \in Seq(Passwords \cup {"name", "chat"})
      /\ toClient \in Seq([kind : Kinds, of : -conn .. conn])
  BY EmptySeq DEF Init
<1>3. accepted \in SUBSET (1 .. conn) /\ m_is_connected \in BOOLEAN
  BY DEF Init
<1>4. TypeOK
  <2>1. conn \in Nat /\ m_message_handler \in -conn .. conn
    <3>1. conn \in Nat /\ m_message_handler = 0
      BY DEF Init, None
    <3>2. \A c \in Nat : 0 \in -c .. c
      OBVIOUS
    <3> QED
      BY <3>1, <3>2
  <2> QED
    BY <1>1, <1>2, <1>3, <2>1 DEF Init, TypeOK, None
<1>5. Sessions /\ ConnectedHasHandler
  BY DEF Init, Sessions, ConnectedHasHandler
<1>6. DOMAIN toClient = {}
  <2>1. toClient \in Seq([kind : Kinds, of : -conn .. conn]) /\ Len(toClient) = 0
    BY <1>2, EmptySeq DEF Init
  <2> QED
    BY <2>1, LenProperties
<1>7. Ids
  BY <1>6 DEF Ids, Known
<1> QED
  BY <1>4, <1>5, <1>7 DEF IInv

\* The user: what is clicked touches the texts under way only by ending the
\* connection.
LEMMA UserStep == IInv /\ User => IInv'
<1> SUFFICES ASSUME IInv, User PROVE IInv'
  OBVIOUS
<1>1. CASE ClickConnect
  <2>1. TypeOK'
    <3>1. lookups' \in 0 .. MaxLookups
      BY <1>1, Counters DEF ClickConnect, IInv
    <3> QED
      BY <1>1, <3>1 DEF ClickConnect, IInv, TypeOK, serverVars, shakerVars
  <2>2. Ids' /\ Sessions' /\ ConnectedHasHandler'
    BY <1>1 DEF ClickConnect, IInv, Ids, Known, OwnId, Sessions, ConnectedHasHandler,
       serverVars, shakerVars
  <2> QED
    BY <2>1, <2>2 DEF IInv
<1>2. CASE ClickDisconnect
  <2>1. Ids' /\ Sessions' /\ toServer' \in Seq(Lines) /\ toClient' \in Seq(Texts)
    BY <1>2, Down DEF ClickDisconnect
  <2> QED
    BY <1>2, <2>1, Counters DEF ClickDisconnect, IInv, TypeOK, ConnectedHasHandler,
       ViewShows, ShakerReset, LinkDown, Lines, Texts, None
<1>3. CASE ClickSend
  <2>1. toServer' \in Seq(Lines)
    BY <1>3, Sent DEF ClickSend, Lines
  <2> QED
    BY <1>3, <2>1 DEF ClickSend, IInv, TypeOK, Ids, Known, OwnId, Sessions,
       ConnectedHasHandler, viewVars, shakerVars, Lines
<1>4. ASSUME NEW mode \in {"Tcp", "Ssl"}, NEW p \in Passwords,
             EditServer(mode, p)
      PROVE  IInv'
  <2>1. Ids' /\ Sessions' /\ toServer' \in Seq(Lines) /\ toClient' \in Seq(Texts)
    BY <1>4, Down DEF EditServer
  <2> QED
    BY <1>4, <2>1, Counters DEF EditServer, IInv, TypeOK,
       ConnectedHasHandler, ViewShows, ShakerReset, LinkDown, Lines, Texts, None
<1> QED
  BY <1>1, <1>2, <1>3, <1>4 DEF User

\* An error of a secure connection ends it, in the view and in the socket.
LEMMA SslErrorStep ==
    ASSUME IInv, SslError, m_connection_mode' = m_connection_mode,
           m_password' = m_password, lookups' \in 0 .. MaxLookups
    PROVE  IInv'
<1>1. Ids' /\ Sessions' /\ toServer' \in Seq(Lines) /\ toClient' \in Seq(Texts)
  BY Down DEF SslError
<1> QED
  BY <1>1 DEF SslError, IInv, TypeOK, ConnectedHasHandler, ViewShows, LinkDown,
     Lines, Texts, Passwords

\* The end of a host lookup, with the connecting it brings.
LEMMA LookupStep == IInv /\ LookupEnds => IInv'
<1> SUFFICES ASSUME IInv, LookupEnds PROVE IInv'
  OBVIOUS
<1>1. lookups' \in 0 .. MaxLookups
  BY Counters DEF LookupEnds, LookupFails, Connects, TcpConnectsAgain,
     TcpConnectFails, SslConnectFails, SslTimesOut, LookedUp, IInv
<1>2. CASE LookupFails
  BY <1>1, <1>2 DEF LookupFails, ViewShows, IInv, TypeOK, Ids, Known, OwnId, Sessions,
     ConnectedHasHandler, shakerVars, serverVars
<1>3. ASSUME NEW mode \in {"Tcp", "Ssl"}, Connects(mode)
      PROVE  IInv'
  <2>1. conn \in Nat /\ conn' = conn + 1 /\ conn' \in 0 .. MaxConnections
    BY <1>3, Counters DEF Connects, IInv
  <2>2. toServer' \in Seq(Lines) /\ toClient' \in Seq([kind : Kinds, of : -conn' .. conn'])
    <3>1. m_password \in Lines
      BY DEF IInv, TypeOK, Lines
    <3> QED
      BY <1>3, <3>1 DEF Connects
  <2>3. Ids' /\ Sessions'
    BY <1>3, <2>1 DEF Connects, Ids, Known, Sessions
  <2>4. m_message_handler' \in -conn' .. conn' /\ accepted' \in SUBSET (1 .. conn')
    <3>1. m_message_handler \in -conn .. conn /\ accepted \in SUBSET (1 .. conn)
      BY DEF IInv, TypeOK
    <3> QED
      BY <1>3, <2>1, <3>1 DEF Connects
  <2>5. ConnectedHasHandler'
    BY <1>3 DEF Connects, LookedUp, IInv, ConnectedHasHandler
  <2> QED
    BY <1>1, <1>3, <2>1, <2>2, <2>3, <2>4, <2>5 DEF Connects, LookedUp, IInv,
       TypeOK, Lines
<1>4. CASE TcpConnectsAgain
  <2>1. toServer' \in Seq(Lines)
    BY <1>4, Sent DEF TcpConnectsAgain, Lines, IInv, TypeOK
  <2> QED
    BY <1>1, <1>4, <2>1 DEF TcpConnectsAgain, LookedUp, IInv, TypeOK, Ids, Known, OwnId,
       Sessions, ConnectedHasHandler, Lines
<1>5. CASE TcpConnectFails
  BY <1>1, <1>5 DEF TcpConnectFails, LookedUp, ViewShows, IInv, TypeOK, Ids, Known, OwnId,
     Sessions, ConnectedHasHandler, shakerVars, serverVars
<1>6. CASE SslConnectFails
  BY <1>1, <1>6, SslErrorStep DEF SslConnectFails, LookedUp
<1>7. CASE SslTimesOut
  BY <1>1, <1>7 DEF SslTimesOut, LookedUp, IInv, TypeOK, Ids, Known, OwnId, Sessions,
     ConnectedHasHandler, shakerVars, serverVars
<1> QED
  BY <1>2, <1>3, <1>4, <1>5, <1>6, <1>7 DEF LookupEnds

\* The text that is received is one of those under way; when it is an id, it is
\* the one of this connection.
LEMMA Received ==
    ASSUME IInv, Receives
    PROVE  /\ Head(toClient) \in Texts
           /\ Head(toClient).kind = "id" => OwnId(Head(toClient))
           /\ toClient' \in Seq(Texts)
           /\ Ids'
<1>1. toClient \in Seq(Texts) /\ toClient # <<>>
  BY DEF IInv, TypeOK, Receives, Texts
<1>2. 1 \in DOMAIN toClient /\ Head(toClient) = toClient[1]
  BY <1>1
<1>3. Head(toClient) \in Texts /\ Tail(toClient) \in Seq(Texts)
  BY <1>1
<1>4. ASSUME NEW i \in DOMAIN Tail(toClient)
      PROVE  i + 1 \in DOMAIN toClient /\ Tail(toClient)[i] = toClient[i + 1]
  BY <1>1
<1>5. toClient' = Tail(toClient) /\ conn' = conn /\ accepted' = accepted
  BY DEF Receives
<1>6. Ids'
  BY <1>4, <1>5 DEF IInv, Ids, Known, OwnId
<1> QED
  BY <1>2, <1>3, <1>5, <1>6 DEF IInv, Ids, Known, OwnId

\* The next text of the server is parsed, or shown.
LEMMA ReceivesStep == IInv /\ Receives => IInv'
<1> SUFFICES ASSUME IInv, Receives PROVE IInv'
  OBVIOUS
<1>1. /\ Head(toClient) \in Texts /\ toClient' \in Seq(Texts) /\ Ids'
      /\ Head(toClient).kind = "id" => OwnId(Head(toClient))
  BY Received
<1>2. UNCHANGED <<m_connection_mode, m_password, lookups, link, conn, srv,
                  accepted>> /\ link = "up"
  BY DEF Receives
<1>3. CASE Head(toClient).kind = "id" /\ ParseSucceeds(Head(toClient).of)
  <2>1. toServer' \in Seq(Lines)
    BY <1>3, Sent DEF ParseSucceeds, IInv, TypeOK, Lines
  <2>2. /\ Head(toClient).of \in {conn, -conn} /\ conn \in accepted
        /\ Head(toClient).of \in -conn .. conn
    BY <1>1, <1>3, Counters DEF IInv, OwnId
  <2> QED
    BY <1>1, <1>2, <1>3, <2>1, <2>2 DEF ParseSucceeds, IInv, TypeOK, Sessions,
       ConnectedHasHandler, Lines, Texts
<1>4. CASE ParseFails
  BY <1>1, <1>2, <1>4 DEF ParseFails, ViewShows, IInv, TypeOK, Sessions,
     ConnectedHasHandler, Texts
<1>5. CASE UNCHANGED <<m_is_connected, status, shakerVars, toServer>>
  BY <1>1, <1>2, <1>5 DEF shakerVars, IInv, TypeOK, Sessions,
     ConnectedHasHandler, Texts
<1> QED
  BY <1>3, <1>4, <1>5 DEF Receives

\* The other end closes, or the network fails.
LEMMA LossStep == IInv /\ (RemoteCloses \/ LinkBreaks) => IInv'
<1> SUFFICES ASSUME IInv, RemoteCloses \/ LinkBreaks PROVE IInv'
  OBVIOUS
<1>1. UNCHANGED <<m_connection_mode, m_password, lookups>>
  BY DEF RemoteCloses, LinkBreaks
<1>2. lookups' \in 0 .. MaxLookups
  BY <1>1 DEF IInv, TypeOK
<1>3. CASE SslError
  BY <1>1, <1>2, <1>3, SslErrorStep
<1>4. CASE m_connection_mode = "Tcp" /\ ViewShows("lost") /\ LinkDown
           /\ UNCHANGED <<shakerVars, conn, accepted>>
  <2>1. Ids' /\ Sessions' /\ toServer' \in Seq(Lines) /\ toClient' \in Seq(Texts)
    BY <1>4, Down
  <2> QED
    BY <1>1, <1>4, <2>1 DEF IInv, TypeOK, ConnectedHasHandler, ViewShows,
       LinkDown, Lines, Texts, shakerVars
<1>5. CASE m_connection_mode = "Tcp" /\ LinkDown
           /\ UNCHANGED <<m_is_connected, status, shakerVars, conn, accepted>>
  <2>1. Ids' /\ Sessions' /\ toServer' \in Seq(Lines) /\ toClient' \in Seq(Texts)
    BY <1>5, Down
  <2> QED
    BY <1>1, <1>5, <2>1 DEF IInv, TypeOK, ConnectedHasHandler, LinkDown, Lines,
       Texts, shakerVars
<1> QED
  BY <1>3, <1>4, <1>5 DEF RemoteCloses, LinkBreaks

\* The server answers: the only step that puts an id under way.
LEMMA AnswerStep == IInv /\ ServerAnswers => IInv'
<1> SUFFICES ASSUME IInv, ServerAnswers PROVE IInv'
  OBVIOUS
<1>1. UNCHANGED serverOnly /\ link = "up" /\ conn \in 1 .. conn
      /\ conn \in 0 .. MaxConnections
  <2>1. UNCHANGED serverOnly /\ link = "up" /\ conn >= 1
    BY DEF ServerAnswers, IInv, Sessions
  <2> QED
    BY <2>1, Counters DEF IInv
<1>2. toServer' \in Seq(Lines)
  <2>1. toServer \in Seq(Lines)
    BY DEF IInv, TypeOK, Lines
  <2>2. PICK n \in 1 .. Len(toServer) :
            toServer' = SubSeq(toServer, n + 1, Len(toServer))
    BY DEF ServerAnswers
  <2>3. n + 1 \in Nat \ {0} /\ n + 1 <= Len(toServer) + 1
    BY <2>1
  <2> QED
    BY <2>1, <2>2, <2>3, Suffix
<1>3. toClient \in Seq(Texts)
  BY DEF IInv, TypeOK, Texts
<1>4. CASE srv' = "accepted" /\ accepted' = accepted \cup {conn}
           /\ toClient' = Append(toClient, Id(conn))
  <2>1. Id(conn) \in Texts /\ Id(conn).of = conn
    BY <1>1 DEF Id, Texts, Kinds
  <2>2. toClient' \in Seq(Texts)
    BY <1>3, <1>4, <2>1
  <2>3. ASSUME NEW i \in DOMAIN toClient'
        PROVE  \/ i \in DOMAIN toClient /\ toClient'[i] = toClient[i]
               \/ toClient'[i] = Id(conn)
    BY <1>3, <1>4, <2>1
  <2>4. Ids'
    BY <1>1, <1>4, <2>1, <2>3 DEF serverOnly, IInv, Ids, Known, OwnId
  <2> QED
    BY <1>1, <1>2, <1>4, <2>2, <2>4 DEF serverOnly, viewVars, shakerVars, IInv,
       TypeOK, Sessions, ConnectedHasHandler, Lines, Texts
<1>5. CASE srv' = "closed" /\ UNCHANGED accepted
           /\ toClient' \in {toClient, Append(toClient, Text("reject"))}
  <2>1. toClient' \in Seq(Texts) /\ Ids'
    BY <1>1, <1>5, Texted DEF serverOnly, Kinds
  <2> QED
    BY <1>1, <1>2, <1>5, <2>1 DEF serverOnly, viewVars, shakerVars, IInv,
       TypeOK, Sessions, ConnectedHasHandler, Lines, Texts
<1> QED
  BY <1>4, <1>5 DEF ServerAnswers

\* A part of what is under way: the ids among it stay what they were.
LEMMA KnownPart ==
    ASSUME NEW s \in Seq(Texts), Known(s), NEW m \in 1 .. Len(s) + 1, NEW n \in m - 1 .. Len(s)
    PROVE  SubSeq(s, m, n) \in Seq(Texts) /\ Known(SubSeq(s, m, n))
<1>1. PICK p \in Seq(Texts) :
         /\ p = SubSeq(s, m, n) /\ Len(p) = n - m + 1
         /\ \A i \in 1 .. n - m + 1 : p[i] = s[m + i - 1]
  <2>1. /\ SubSeq(s, m, n) \in Seq(Texts) /\ Len(SubSeq(s, m, n)) = n - m + 1
        /\ \A i \in 1 .. n - m + 1 : SubSeq(s, m, n)[i] = s[m + i - 1]
    BY SubSeqProperties
  <2> QED
    BY <2>1
<1>2. DOMAIN p = 1 .. n - m + 1 /\ DOMAIN s = 1 .. Len(s) /\ Len(s) \in Nat
  BY <1>1, LenProperties
<1>3. \A i \in 1 .. n - m + 1 : m + i - 1 \in 1 .. Len(s)
  BY <1>2
<1>4. Known(p)
  BY <1>1, <1>2, <1>3 DEF Known
<1> QED
  BY <1>1, <1>4

\* A text alone.
LEMMA KnownOne ==
    ASSUME NEW text \in Texts, text.kind = "id" => OwnId(text)
    PROVE  <<text>> \in Seq(Texts) /\ Known(<<text>>)
BY DEF Known

\* Two sequences of texts, one behind the other.
LEMMA KnownJoin ==
    ASSUME NEW s \in Seq(Texts), NEW t \in Seq(Texts), Known(s), Known(t)
    PROVE  s \o t \in Seq(Texts) /\ Known(s \o t)
<1>1. PICK u \in Seq(Texts) :
         /\ u = s \o t /\ Len(u) = Len(s) + Len(t)
         /\ \A i \in 1 .. Len(s) : u[i] = s[i]
         /\ \A i \in 1 .. Len(t) : u[Len(s) + i] = t[i]
  <2>1. /\ s \o t \in Seq(Texts) /\ Len(s \o t) = Len(s) + Len(t)
        /\ \A i \in 1 .. Len(s) : (s \o t)[i] = s[i]
        /\ \A i \in 1 .. Len(t) : (s \o t)[Len(s) + i] = t[i]
    BY ConcatProperties
  <2> QED
    BY <2>1
<1>2. /\ Len(s) \in Nat /\ Len(t) \in Nat
      /\ DOMAIN s = 1 .. Len(s) /\ DOMAIN t = 1 .. Len(t) /\ DOMAIN u = 1 .. Len(u)
  BY LenProperties
<1>3. ASSUME NEW i \in 1 .. Len(u), u[i].kind = "id"
      PROVE  OwnId(u[i])
  <2>1. CASE i <= Len(s)
    BY <1>1, <1>2, <1>3, <2>1 DEF Known
  <2>2. CASE i > Len(s)
    <3>1. PICK j \in 1 .. Len(t) : i = Len(s) + j
      <4>1. i - Len(s) \in 1 .. Len(t) /\ i = Len(s) + (i - Len(s))
        BY <1>1, <1>2, <2>2
      <4> QED
        BY <4>1
    <3> QED
      BY <1>1, <1>2, <1>3, <3>1 DEF Known
  <2> QED
    BY <1>2, <2>1, <2>2
<1> QED
  BY <1>1, <1>2, <1>3 DEF Known

\* An id under way, and its halves.
LEMMA Halves ==
    ASSUME IInv, NEW i \in DOMAIN toClient,
           toClient[i] \in {Id(conn), HalfId(conn)}
    PROVE  /\ Id(conn) \in Texts /\ HalfId(conn) \in Texts
           /\ OwnId(Id(conn)) /\ OwnId(HalfId(conn))
<1>1. toClient[i].kind = "id"
  BY DEF Id, HalfId
<1>2. conn \in accepted
  BY <1>1 DEF IInv, Ids, Known, OwnId
<1>3. conn \in -conn .. conn /\ -conn \in -conn .. conn
  BY Counters DEF IInv
<1> QED
  BY <1>2, <1>3 DEF Id, HalfId, Texts, Kinds, OwnId

\* Two texts arrive as one.
LEMMA Merged ==
    ASSUME IInv, Merges, conn' = conn
    PROVE  toClient' \in Seq(Texts) /\ Ids'
<1>1. /\ toClient \in Seq(Texts) /\ Known(toClient)
      /\ Len(toClient) \in Nat /\ Len(toClient) > 1
  BY LenProperties DEF Merges, IInv, TypeOK, Texts, Ids
<1>2. PICK rest \in Seq(Texts) :
         rest = SubSeq(toClient, 3, Len(toClient)) /\ Known(rest)
  <2>1. 3 \in 1 .. Len(toClient) + 1 /\ Len(toClient) \in 3 - 1 .. Len(toClient)
    BY <1>1
  <2> QED
    BY <1>1, <2>1, KnownPart
<1>3. PICK one \in Texts : /\ toClient' = <<one>> \o rest
                           /\ one.kind = "id" => OwnId(one)
  <2>1. Text("garbled") \in Texts /\ Text("garbled").kind # "id"
    BY PlainText DEF Kinds, IInv
  <2>2. CASE {toClient[1], toClient[2]} = {HalfId(conn)}
    <3>1. 1 \in DOMAIN toClient /\ toClient[1] = HalfId(conn)
      <4>1. DOMAIN toClient = 1 .. Len(toClient)
        BY <1>1, LenProperties
      <4>2. toClient[1] \in {HalfId(conn)}
        BY <2>2
      <4> QED
        BY <1>1, <4>1, <4>2
    <3>2. Id(conn) \in Texts /\ OwnId(Id(conn))
      BY <3>1, Halves
    <3> QED
      BY <1>2, <2>2, <3>2 DEF Merges
  <2>3. CASE {toClient[1], toClient[2]} # {HalfId(conn)}
    BY <1>2, <2>1, <2>3 DEF Merges
  <2> QED
    BY <2>2, <2>3
<1>4. PICK o \in Seq(Texts) : o = <<one>> /\ Known(o)
  BY <1>3, KnownOne
<1>5. toClient' \in Seq(Texts) /\ Known(toClient')
  BY <1>2, <1>3, <1>4, KnownJoin
<1> QED
  BY <1>5 DEF Merges, Ids, Known, OwnId

\* An id arrives as two halves.
LEMMA Torn ==
    ASSUME IInv, Tears, conn' = conn
    PROVE  toClient' \in Seq(Texts) /\ Ids'
<1>1. /\ toClient \in Seq(Texts) /\ Known(toClient)
      /\ Len(toClient) \in Nat /\ DOMAIN toClient = 1 .. Len(toClient)
  BY LenProperties DEF IInv, TypeOK, Texts, Ids
<1>2. PICK n \in 1 .. Len(toClient) :
         /\ toClient[n] = Id(conn)
         /\ toClient' = SubSeq(toClient, 1, n - 1) \o <<HalfId(conn), HalfId(conn)>>
                           \o SubSeq(toClient, n + 1, Len(toClient))
  BY <1>1 DEF Tears
<1>3. PICK h \in Texts : h = HalfId(conn) /\ OwnId(h)
  BY <1>1, <1>2, Halves
<1>4. PICK p \in Seq(Texts) : p = SubSeq(toClient, 1, n - 1) /\ Known(p)
  <2>1. 1 \in 1 .. Len(toClient) + 1 /\ n - 1 \in 1 - 1 .. Len(toClient)
    BY <1>1
  <2> QED
    BY <1>1, <2>1, KnownPart
<1>5. PICK q \in Seq(Texts) : q = SubSeq(toClient, n + 1, Len(toClient)) /\ Known(q)
  <2>1. n + 1 \in 1 .. Len(toClient) + 1 /\ Len(toClient) \in (n + 1) - 1 .. Len(toClient)
    BY <1>1
  <2> QED
    BY <1>1, <2>1, KnownPart
<1>6. PICK m \in Seq(Texts) : m = <<h, h>> /\ Known(m)
  <2>1. <<h, h>> \in Seq(Texts)
    OBVIOUS
  <2>2. Known(<<h, h>>)
    BY <1>3 DEF Known
  <2> QED
    BY <2>1, <2>2
<1>7. PICK s \in Seq(Texts) : s = p \o m /\ Known(s)
  BY <1>4, <1>6, KnownJoin
<1>8. PICK t \in Seq(Texts) : t = s \o q /\ Known(t)
  BY <1>5, <1>7, KnownJoin
<1>9. toClient' = t
  BY <1>2, <1>3, <1>4, <1>5, <1>6, <1>7, <1>8
<1> QED
  BY <1>8, <1>9 DEF Tears, Ids, Known, OwnId

\* What else the server and the network do.
LEMMA ServerStep ==
    IInv /\ (ServerReads \/ ServerCloses \/ ServerBroadcasts \/ Merges \/ Tears) => IInv'
<1> SUFFICES ASSUME IInv,
                    ServerReads \/ ServerCloses \/ ServerBroadcasts \/ Merges \/ Tears
             PROVE  IInv'
  OBVIOUS
<1>1. UNCHANGED serverOnly /\ accepted' = accepted
      /\ (srv' = srv \/ srv' = "closed")
  BY DEF ServerReads, ServerCloses, ServerBroadcasts, Merges, Tears
<1>2. toServer' \in Seq(Lines)
  <2>1. toServer \in Seq(Lines)
    BY DEF IInv, TypeOK, Lines
  <2>2. CASE ServerReads
    BY <2>1, <2>2 DEF ServerReads
  <2>3. CASE ServerCloses \/ ServerBroadcasts \/ Merges \/ Tears
    BY <2>1, <2>3 DEF ServerCloses, ServerBroadcasts, Merges, Tears
  <2> QED
    BY <2>2, <2>3
<1>3. conn' = conn
  BY <1>1 DEF serverOnly
<1>4. toClient' \in Seq(Texts) /\ Ids'
  <2>1. CASE ServerReads \/ ServerBroadcasts
    BY <1>1, <1>3, <2>1, Texted DEF ServerReads, ServerBroadcasts, Kinds
  <2>2. CASE ServerCloses
    BY <1>1, <1>3, <2>2, Texted DEF ServerCloses, Kinds
  <2>3. CASE Merges
    BY <1>1, <1>3, <2>3, Merged DEF serverOnly
  <2>4. CASE Tears
    BY <1>1, <1>3, <2>4, Torn DEF serverOnly
  <2> QED
    BY <2>1, <2>2, <2>3, <2>4
<1> QED
  BY <1>1, <1>2, <1>4, ZenonT(60) DEF serverOnly, viewVars, shakerVars, IInv, TypeOK,
     Sessions, ConnectedHasHandler, Lines, Texts

\* Every handler keeps it.
LEMMA InvNext == IInv /\ [Next]_vars => IInv'
<1> SUFFICES ASSUME IInv, [Next]_vars PROVE IInv'
  OBVIOUS
<1>1. CASE UNCHANGED vars
  BY <1>1, ZenonT(60) DEF vars, viewVars, shakerVars, serverVars, IInv, TypeOK, Ids,
     Known, OwnId, Sessions, ConnectedHasHandler
<1> QED
  BY <1>1, UserStep, LookupStep, ReceivesStep, LossStep, AnswerStep, ServerStep
     DEF Next, Server

\* The inductive invariant holds throughout.
THEOREM Invariant == Spec => []IInv
<1> QED
  BY InvInit, InvNext, PTL DEF Spec

----------------------------------------------------------------------------
(* The properties.                                                         *)

\* Every variable stays in its type: in particular a view never takes an id of
\* a connection that was not made.
THEOREM TypeCorrect == Spec => []TypeOK
<1>1. IInv => TypeOK
  BY DEF IInv
<1> QED
  BY <1>1, Invariant, PTL

\* A connected view has a handler made with an id the server gave, or with half
\* of one, and a secure one has its connection.
THEOREM ConnectedViewHasHandler == Spec => []ConnectedHasHandler
<1>1. IInv => ConnectedHasHandler
  BY DEF IInv
<1> QED
  BY <1>1, Invariant, PTL

\* Only the id of the current connection, or the half of it that was read alone,
\* makes a view connected, whatever was under way on an earlier one.
THEOREM ViewConnectedByOwnId == Spec => ConnectedByOwnId
<1> DEFINE Own == ~m_is_connected /\ m_is_connected'
                     => /\ link = "up" /\ conn \in accepted
                        /\ m_message_handler' \in {conn, -conn}
<1>1. IInv /\ [Next]_vars => [Own]_vars
  <2> SUFFICES ASSUME IInv, [Next]_vars, ~m_is_connected, m_is_connected'
               PROVE  Own
    OBVIOUS
  <2>1. CASE Receives
    <3>1. link = "up"
          /\ (Head(toClient).kind = "id" => OwnId(Head(toClient)))
      BY <2>1, Received DEF Receives
    <3>2. Head(toClient).kind = "id" /\ m_message_handler' = Head(toClient).of
      BY <2>1 DEF Receives, ParseSucceeds, ParseFails, ViewShows, IInv, TypeOK
    <3> QED
      BY <3>1, <3>2 DEF OwnId
  <2>2. CASE ~Receives
    <3>1. m_is_connected' \in {m_is_connected, FALSE}
      BY <2>2 DEF Next, LookupEnds, User, Server, vars, viewVars, serverOnly,
         ClickConnect, ClickDisconnect, ClickSend, EditServer, LookupFails,
         Connects, LookedUp, TcpConnectsAgain, TcpConnectFails,
         SslConnectFails, SslError, SslTimesOut, RemoteCloses, LinkBreaks,
         ServerAnswers, ServerReads, ServerCloses, ServerBroadcasts, Merges, Tears,
         ViewShows
    <3> QED
      BY <3>1
  <2> QED
    BY <2>1, <2>2
<1> QED
  BY <1>1, Invariant, PTL DEF Spec, ConnectedByOwnId

=============================================================================
