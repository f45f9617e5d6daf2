------------------------ MODULE ClientMessagesProofs ------------------------
(***************************************************************************)
(* Proofs about ClientMessages, for any names, any length of the server's  *)
(* history and any bounds: what the list of a connected view shows, and    *)
(* that others know a session by one name.                                 *)
(***************************************************************************)
EXTENDS ClientMessages, SequenceTheorems, TLAPS

----------------------------------------------------------------------------
(* The elements of a sequence.                                             *)

Elements(s) == {s[i] : i \in DOMAIN s}

\* A sequence over a set is one over every larger set.
LEMMA SeqGrows ==
    ASSUME NEW S, NEW T, S \subseteq T, NEW s \in Seq(S)
    PROVE  s \in Seq(T)
OBVIOUS

\* The elements of a sequence over S are in S.
LEMMA ElementsIn ==
    ASSUME NEW S, NEW s \in Seq(S)
    PROVE  Elements(s) \subseteq S
BY DEF Elements

\* Append() adds one element, behind the others.
LEMMA Appended ==
    ASSUME NEW S, NEW s \in Seq(S), NEW x \in S
    PROVE  /\ Append(s, x) \in Seq(S)
           /\ Len(Append(s, x)) = Len(s) + 1
           /\ \A i \in 1 .. Len(s) : Append(s, x)[i] = s[i]
           /\ Append(s, x)[Len(s) + 1] = x
           /\ Elements(Append(s, x)) = Elements(s) \cup {x}
<1>1. /\ Append(s, x) \in Seq(S)
      /\ Len(Append(s, x)) = Len(s) + 1
      /\ \A i \in 1 .. Len(s) : Append(s, x)[i] = s[i]
      /\ Append(s, x)[Len(s) + 1] = x
  BY AppendProperties
<1>2. DOMAIN Append(s, x) = DOMAIN s \cup {Len(s) + 1} /\ DOMAIN s = 1 .. Len(s)
  BY <1>1
<1> QED
  BY <1>1, <1>2 DEF Elements

\* Head() takes the first element away.
LEMMA Tailed ==
    ASSUME NEW S, NEW s \in Seq(S), s # <<>>
    PROVE  /\ Tail(s) \in Seq(S) /\ Head(s) \in S /\ Head(s) = s[1]
           /\ 1 \in DOMAIN s
           /\ Len(Tail(s)) = Len(s) - 1
           /\ \A i \in 1 .. Len(Tail(s)) : Tail(s)[i] = s[i + 1]
           /\ Elements(s) = Elements(Tail(s)) \cup {Head(s)}
<1>1. /\ Tail(s) \in Seq(S) /\ Head(s) \in S /\ Head(s) = s[1]
      /\ Len(s) \in Nat \ {0}
      /\ Len(Tail(s)) = Len(s) - 1
      /\ \A i \in 1 .. Len(Tail(s)) : Tail(s)[i] = s[i + 1]
  BY HeadTailProperties, EmptySeq, LenProperties
<1>2. ASSUME NEW i \in DOMAIN s
      PROVE  s[i] \in Elements(Tail(s)) \cup {Head(s)}
  <2>1. CASE i = 1
    BY <1>1, <2>1
  <2>2. CASE i # 1
    <3>1. i - 1 \in 1 .. Len(Tail(s)) /\ s[i] = Tail(s)[i - 1]
      BY <1>1, <2>2
    <3>2. DOMAIN Tail(s) = 1 .. Len(Tail(s))
      BY <1>1
    <3> QED
      BY <3>1, <3>2 DEF Elements
  <2> QED
    BY <2>1, <2>2
<1>3. ASSUME NEW i \in DOMAIN Tail(s)
      PROVE  Tail(s)[i] \in Elements(s)
  <2>1. i + 1 \in DOMAIN s /\ Tail(s)[i] = s[i + 1]
    BY <1>1
  <2> QED
    BY <2>1 DEF Elements
<1>4. 1 \in DOMAIN s
  BY <1>1
<1>5. Elements(s) = Elements(Tail(s)) \cup {Head(s)}
  <2>1. Head(s) \in Elements(s)
    BY <1>1, <1>4 DEF Elements
  <2>2. \A x \in Elements(s) : x \in Elements(Tail(s)) \cup {Head(s)}
    BY <1>2 DEF Elements
  <2>3. \A x \in Elements(Tail(s)) : x \in Elements(s)
    BY <1>3 DEF Elements
  <2> QED
    BY <2>1, <2>2, <2>3
<1> QED
  BY <1>1, <1>4, <1>5

\* A part of a sequence.
LEMMA Part ==
    ASSUME NEW S, NEW s \in Seq(S), NEW m \in 1 .. Len(s) + 1,
           NEW n \in m - 1 .. Len(s)
    PROVE  /\ SubSeq(s, m, n) \in Seq(S)
           /\ Len(SubSeq(s, m, n)) = n - m + 1
           /\ \A i \in 1 .. n - m + 1 : SubSeq(s, m, n)[i] = s[m + i - 1]
           /\ Elements(SubSeq(s, m, n)) \subseteq Elements(s)
<1>1. /\ SubSeq(s, m, n) \in Seq(S)
      /\ Len(SubSeq(s, m, n)) = n - m + 1
      /\ \A i \in 1 .. n - m + 1 : SubSeq(s, m, n)[i] = s[m + i - 1]
  BY SubSeqProperties
<1>2. ASSUME NEW i \in DOMAIN SubSeq(s, m, n)
      PROVE  SubSeq(s, m, n)[i] \in Elements(s)
  <2>1. i \in 1 .. n - m + 1 /\ m + i - 1 \in DOMAIN s
    BY <1>1
  <2> QED
    BY <1>1, <2>1 DEF Elements
<1> QED
  BY <1>1, <1>2 DEF Elements

\* Two sequences, one behind the other.
LEMMA Joined ==
    ASSUME NEW S, NEW s \in Seq(S), NEW t \in Seq(S)
    PROVE  /\ s \o t \in Seq(S)
           /\ Len(s \o t) = Len(s) + Len(t)
           /\ \A i \in 1 .. Len(s) : (s \o t)[i] = s[i]
           /\ \A i \in 1 .. Len(t) : (s \o t)[Len(s) + i] = t[i]
           /\ Elements(s \o t) = Elements(s) \cup Elements(t)
<1>1. /\ s \o t \in Seq(S)
      /\ Len(s \o t) = Len(s) + Len(t)
      /\ \A i \in 1 .. Len(s) : (s \o t)[i] = s[i]
      /\ \A i \in 1 .. Len(t) : (s \o t)[Len(s) + i] = t[i]
  BY ConcatProperties
<1>2. ASSUME NEW i \in DOMAIN (s \o t)
      PROVE  (s \o t)[i] \in Elements(s) \cup Elements(t)
  <2>1. CASE i <= Len(s)
    BY <1>1, <2>1 DEF Elements
  <2>2. CASE i > Len(s)
    <3>1. i - Len(s) \in 1 .. Len(t) /\ i = Len(s) + (i - Len(s))
      BY <1>1, <2>2
    <3>2. (s \o t)[i] = t[i - Len(s)] /\ i - Len(s) \in DOMAIN t
      BY <1>1, <3>1
    <3> QED
      BY <3>2 DEF Elements
  <2>3. i \in Nat /\ Len(s) \in Nat
    BY <1>1
  <2> QED
    BY <2>1, <2>2, <2>3
<1>3. \A i \in DOMAIN s : i \in DOMAIN (s \o t) /\ (s \o t)[i] = s[i]
  BY <1>1
<1>4. \A i \in DOMAIN t : /\ Len(s) + i \in DOMAIN (s \o t)
                          /\ (s \o t)[Len(s) + i] = t[i]
  BY <1>1
<1>5. Elements(s \o t) = Elements(s) \cup Elements(t)
  <2>1. \A x \in Elements(s \o t) : x \in Elements(s) \cup Elements(t)
    BY <1>2 DEF Elements
  <2>2. \A x \in Elements(s) : x \in Elements(s \o t)
    BY <1>3 DEF Elements
  <2>3. \A x \in Elements(t) : x \in Elements(s \o t)
    BY <1>4 DEF Elements
  <2> QED
    BY <2>1, <2>2, <2>3
<1> QED
  BY <1>1, <1>5

----------------------------------------------------------------------------
(* The inductive invariant: types, and who speaks in whose name.           *)

\* What was broadcast, and what is on its way to be.
Said == Elements(room) \cup Elements(toServer) \cup Elements(late)

\* t carries the id n, or announces the name of the connection n.
SaidBy(t, n) == \/ t.kind = "json" /\ t.id = n
                \/ t.kind = "name" /\ t.via = n

NoId(c) == \A i \in DOMAIN c : c[i].kind # "id"

\* At most one text of c is an id, and that id is n.
OneId(c, n) ==
    /\ \A i \in DOMAIN c : c[i].kind = "id" => c[i].id = n
    /\ \A i, j \in DOMAIN c : c[i].kind = "id" /\ c[j].kind = "id" => i = j

\* Nobody has spoken for the present connection.
Fresh == /\ \A t \in Said : ~SaidBy(t, conn)
         /\ m_message_handler.id # conn

\* What is said with an id carries one name.
OneName == \A t, u \in Said : \A n \in 1 .. conn :
              t.kind = "json" /\ t.id = n /\ SaidBy(u, n) => t.from = u.from

\* It is the name of the handler, which speaks on in it.
HandlersName ==
    m_message_handler # NoHandler =>
        \A t \in Said : SaidBy(t, m_message_handler.id) =>
                           t.from = m_message_handler.name

\* The id of a connection comes once, before anything is said in its name.
IdComesOnce ==
    /\ OneId(toClient, conn)
    /\ srv = "asking" => NoId(toClient)
    /\ srv = "asking" \/ ~NoId(toClient) => Fresh

\* No id is broadcast, and a JSON object has a name of somebody.
Speech ==
    /\ \A t \in Said : t.kind # "id"
    /\ \A t \in Said \cup Elements(toClient) :
          t.kind = "json" => t.from \in Names \cup {Other}

Link == /\ up => conn # 0
        /\ ~up => srv = "closed" /\ toClient = <<>>
        /\ srv = "answered" => Len(marks) = 1

NInv == OneName /\ HandlersName /\ IdComesOnce /\ Speech /\ Link

----------------------------------------------------------------------------
(* Ids on their way.                                                       *)

\* The texts that follow the first.
LEMMA OneIdTail ==
    ASSUME NEW S, NEW c \in Seq(S), c # <<>>, NEW n
    PROVE  /\ OneId(c, n) => OneId(Tail(c), n)
           /\ OneId(c, n) /\ Head(c).kind = "id" => NoId(Tail(c))
           /\ NoId(c) => NoId(Tail(c))
<1>1. /\ \A i \in DOMAIN Tail(c) : /\ i + 1 \in DOMAIN c /\ i + 1 # 1
                                   /\ Tail(c)[i] = c[i + 1]
      /\ \A i, j \in DOMAIN Tail(c) : i + 1 = j + 1 => i = j
      /\ Head(c) = c[1] /\ 1 \in DOMAIN c
  BY Tailed
<1> QED
  BY <1>1 DEF OneId, NoId

\* A text that is no id, added at the end.
LEMMA OneIdAppend ==
    ASSUME NEW S, NEW c \in Seq(S), NEW x \in S, NEW n, x.kind # "id"
    PROVE  /\ OneId(c, n) => OneId(Append(c, x), n)
           /\ NoId(c) => NoId(Append(c, x))
<1>1. \A i \in DOMAIN Append(c, x) :
         \/ i \in DOMAIN c /\ Append(c, x)[i] = c[i]
         \/ Append(c, x)[i] = x
  BY Appended
<1> QED
  BY <1>1 DEF OneId, NoId

\* Texts that are no ids, added at the end.
LEMMA OneIdJoin ==
    ASSUME NEW S, NEW c \in Seq(S), NEW d \in Seq(S), NEW n, NoId(d)
    PROVE  /\ OneId(c, n) => OneId(c \o d, n)
           /\ NoId(c) => NoId(c \o d)
<1>1. ASSUME NEW i \in DOMAIN (c \o d)
      PROVE  \/ i \in DOMAIN c /\ (c \o d)[i] = c[i]
             \/ (c \o d)[i].kind # "id"
  <2>1. i \in Nat /\ Len(c) \in Nat /\ i \in 1 .. Len(c) + Len(d)
    BY Joined
  <2>2. CASE i <= Len(c)
    BY <2>1, <2>2, Joined
  <2>3. CASE i > Len(c)
    <3>1. i - Len(c) \in DOMAIN d /\ i = Len(c) + (i - Len(c))
      BY <2>1, <2>3
    <3>2. (c \o d)[i] = d[i - Len(c)]
      BY <3>1, Joined
    <3> QED
      BY <3>1, <3>2 DEF NoId
  <2> QED
    BY <2>1, <2>2, <2>3
<1> QED
  BY <1>1 DEF OneId, NoId

\* The id, added at the end.
LEMMA OneIdSent ==
    ASSUME NEW S, NEW c \in Seq(S), NEW x \in S, NoId(c)
    PROVE  OneId(Append(c, x), x.id)
<1>1. \A i \in DOMAIN Append(c, x) :
         \/ i \in DOMAIN c /\ Append(c, x)[i] = c[i]
         \/ i = Len(c) + 1 /\ Append(c, x)[i] = x
  BY Appended
<1> QED
  BY <1>1 DEF OneId, NoId

----------------------------------------------------------------------------
(* Steps at which nothing is said in the name of a session.                *)

\* x is said in the name of none of the sessions so far.
Anonymous(x) == /\ \A n \in 1 .. conn : ~SaidBy(x, n)
                /\ x.kind # "id"
                /\ x.kind = "json" => x.from \in Names \cup {Other}

\* What holds of what is said holds on, if what is new is anonymous.
LEMMA SaidKept ==
    ASSUME TypeOK, NInv, \A t \in Said' : t \in Said \/ Anonymous(t),
           conn' = conn, m_message_handler' \in {NoHandler, m_message_handler}
    PROVE  /\ OneName' /\ HandlersName'
           /\ \A t \in Said' : t.kind # "id"
           /\ \A t \in Said' : t.kind = "json" => t.from \in Names \cup {Other}
<1>1. OneName'
  <2> SUFFICES ASSUME NEW t \in Said', NEW u \in Said', NEW n \in 1 .. conn,
                      t.kind = "json", t.id = n, SaidBy(u, n)
               PROVE  t.from = u.from
    BY DEF OneName, SaidBy
  <2>1. t \in Said /\ u \in Said
    BY DEF Anonymous, SaidBy
  <2> QED
    BY <2>1 DEF NInv, OneName
<1>2. HandlersName'
  <2> SUFFICES ASSUME m_message_handler' = m_message_handler,
                      m_message_handler # NoHandler,
                      NEW t \in Said', SaidBy(t, m_message_handler.id)
               PROVE  t.from = m_message_handler.name
    BY DEF HandlersName, SaidBy
  <2>1. m_message_handler.id \in 1 .. conn
    BY DEF TypeOK
  <2>2. t \in Said
    BY <2>1 DEF Anonymous
  <2> QED
    BY <2>2 DEF NInv, HandlersName
<1> QED
  BY <1>1, <1>2 DEF NInv, Speech, Anonymous

\* A connection that nobody has spoken for stays one.
LEMMA FreshKept ==
    ASSUME TypeOK, NInv, \A t \in Said' : t \in Said \/ Anonymous(t), Fresh, conn # 0,
           conn' = conn, m_message_handler' \in {NoHandler, m_message_handler}
    PROVE  Fresh'
<1>1. conn \in 1 .. conn
  BY DEF TypeOK
<1>2. \A t \in Said' : ~SaidBy(t, conn)
  BY <1>1 DEF Fresh, Anonymous
<1>3. NoHandler.id = 0
  BY DEF NoHandler, None
<1>4. m_message_handler'.id # conn
  BY <1>3 DEF Fresh
<1> QED
  BY <1>2, <1>4 DEF Fresh

\* An id under way, or a handshake, is that of a connection that is up.
LEMMA IdsKept ==
    ASSUME TypeOK, NInv, conn' = conn, Fresh /\ conn # 0 => Fresh',
           srv' = "asking" => srv = "asking",
           OneId(toClient, conn) => OneId(toClient', conn),
           NoId(toClient) => NoId(toClient')
    PROVE  IdComesOnce'
<1>1. srv = "asking" \/ ~NoId(toClient) => Fresh /\ conn # 0
  <2>1. NoId(<<>>)
    BY DEF NoId
  <2> QED
    BY <2>1 DEF NInv, IdComesOnce, Link
<1> QED
  BY <1>1 DEF NInv, IdComesOnce

----------------------------------------------------------------------------
(* Types.                                                                  *)

Entries == [from : Names \cup {Other, "Server"}, text : Texts, own : BOOLEAN]

\* The types, part by part.
LEMMA Types ==
    ASSUME TypeOK
    PROVE  /\ toServer \in Seq(Texts) /\ toClient \in Seq(Texts)
           /\ room \in Seq(Texts) /\ late \in Seq(Texts)
           /\ m_messages \in Seq(Entries)
           /\ conn \in Nat /\ written \in Nat
           /\ conn \in 0 .. MaxConnections /\ written \in 0 .. MaxWritten
           /\ Len(room) \in Nat /\ marks \in Seq(0 .. Len(room))
           /\ m_max_recent_msgs \in Nat /\ MaxLate \in Nat
           /\ MaxConnections \in Nat /\ MaxWritten \in Nat
BY MessagesAssumption DEF TypeOK, Entries

\* What was a text stays one.
LEMMA TextsGrow ==
    ASSUME TypeOK, conn' \in Nat, conn' >= conn, written' \in Nat, written' >= written
    PROVE  /\ Texts \subseteq Texts'
           /\ toServer \in Seq(Texts') /\ toClient \in Seq(Texts')
           /\ room \in Seq(Texts') /\ late \in Seq(Texts')
           /\ m_messages \in Seq(Entries')
<1>1. 0 .. conn \subseteq 0 .. conn' /\ 0 .. written \subseteq 0 .. written'
  BY Types, SMTT(30)
<1>2. Texts \subseteq Texts'
  BY <1>1 DEF Texts
<1>3. Entries \subseteq Entries'
  BY <1>2 DEF Entries
<1> QED
  BY <1>2, <1>3, Types, SeqGrows

\* The type invariant, conjunct by conjunct, after a step.
LEMMA Typed ==
    ASSUME TypeOK,
           m_username' \in Names, m_is_connected' \in BOOLEAN,
           m_messages' \in Seq(Entries'),
           m_handshake_mode' \in {"AwaitHandShake", "AwaitSessionId", "Ok"},
           m_message_handler' \in {NoHandler} \cup [name : Names, id : 1 .. conn'],
           looking' \in BOOLEAN, up' \in BOOLEAN, conn' \in 0 .. MaxConnections,
           toServer' \in Seq(Texts'), toClient' \in Seq(Texts'),
           room' \in Seq(Texts'), late' \in Seq(Texts'),
           srv' \in {"asking", "answered", "accepted", "closed"},
           marks' \in Seq(0 .. Len(room')), Len(marks') <= 2,
           written' \in 0 .. MaxWritten
    PROVE  TypeOK'
<1>1. {toServer', toClient', room', late'} \subseteq Seq(Texts')
  OBVIOUS
<1> QED
  BY <1>1, Zenon DEF TypeOK, Entries

----------------------------------------------------------------------------
(* The steps, one by one.                                                  *)

\* A step of the view only.
LEMMA ViewStep ==
    ASSUME TypeOK, NInv,
           UNCHANGED <<m_messages, shakerVars, up, conn, toServer, toClient, serverVars>>,
           m_username' \in Names, m_is_connected' \in BOOLEAN, looking' \in BOOLEAN
    PROVE  TypeOK' /\ NInv'
<1>1. TypeOK'
  BY Zenon DEF TypeOK, shakerVars, serverVars, Texts
<1>2. NInv'
  BY DEF NInv, OneName, HandlersName, IdComesOnce, Speech, Link, Fresh, Said,
     shakerVars, serverVars, OneId, NoId, SaidBy
<1> QED
  BY <1>1, <1>2

\* The connection is lost, and the handler with it or not.
LEMMA DownStep ==
    ASSUME TypeOK, NInv, LinkDown,
           UNCHANGED <<m_username, m_messages, conn, room, marks, written>>,
           m_is_connected' \in BOOLEAN, looking' \in BOOLEAN,
           m_handshake_mode' \in {"AwaitHandShake", m_handshake_mode},
           m_message_handler' \in {NoHandler, m_message_handler}
    PROVE  TypeOK' /\ NInv'
<1>1. Texts' = Texts /\ Entries' = Entries
  BY DEF Texts, Entries
<1>2. <<>> \in Seq(Texts)
  OBVIOUS
<1>3. late' \in Seq(Texts) /\ Elements(late') \subseteq Elements(toServer) \cup Elements(late)
  <2>1. CASE srv \in {"answered", "accepted"}
    <3> DEFINE n == Min({MaxLate, Len(toServer)})
    <3>1. MaxLate \in Nat /\ Len(toServer) \in Nat /\ toServer \in Seq(Texts)
      BY Types
    <3>2. n \in Nat /\ n <= Len(toServer)
      <4>1. \E x \in {MaxLate, Len(toServer)} :
               \A y \in {MaxLate, Len(toServer)} : x <= y
        BY <3>1
      <4> QED
        BY <3>1, <4>1 DEF Min
    <3>3. late' = SubSeq(toServer, 1, n)
      BY <2>1 DEF LinkDown
    <3> HIDE DEF n
    <3>4. 1 \in 1 .. Len(toServer) + 1 /\ n \in 1 - 1 .. Len(toServer)
      BY <3>1, <3>2
    <3> QED
      BY <3>1, <3>3, <3>4, Part
  <2>2. CASE srv \notin {"answered", "accepted"}
    BY <2>2, Types DEF LinkDown
  <2> QED
    BY <2>1, <2>2
<1>4. TypeOK'
  <2>1. m_handshake_mode' \in {"AwaitHandShake", "AwaitSessionId", "Ok"}
        /\ m_message_handler' \in {NoHandler} \cup [name : Names, id : 1 .. conn']
        /\ m_username' \in Names /\ Len(marks') <= 2
    BY DEF TypeOK
  <2>2. /\ up' = FALSE /\ srv' = "closed" /\ toServer' = <<>> /\ toClient' = <<>>
    BY DEF LinkDown
  <2>3. up' \in BOOLEAN
    BY <2>2
  <2> QED
    BY <1>1, <1>2, <1>3, <2>1, <2>2, <2>3, Types, Typed
<1>5. Said' \subseteq Said
  <2>1. Elements(<<>>) = {}
    BY DEF Elements
  <2> QED
    BY <1>3, <2>1 DEF Said, LinkDown
<1>6. /\ OneName' /\ HandlersName'
      /\ \A x \in Said' : x.kind # "id"
      /\ \A x \in Said' : x.kind = "json" => x.from \in Names \cup {Other}
  BY <1>5, SaidKept
<1>7. NoId(<<>>) /\ OneId(<<>>, conn) /\ Elements(<<>>) = {}
  BY DEF NoId, OneId, Elements
<1>8. IdComesOnce' /\ Speech' /\ Link'
  BY <1>6, <1>7 DEF IdComesOnce, Speech, Link, LinkDown
<1> QED
  BY <1>4, <1>6, <1>8 DEF NInv

\* The user sends: the line carries the name and the id of the handler.
LEMMA SendStep == TypeOK /\ NInv /\ ClickSend => TypeOK' /\ NInv'
<1> SUFFICES ASSUME TypeOK, NInv, ClickSend PROVE TypeOK' /\ NInv'
  OBVIOUS
<1> DEFINE x == Written(m_message_handler)
<1>1. /\ m_message_handler # NoHandler
      /\ m_message_handler.name \in Names /\ m_message_handler.id \in 1 .. conn
      /\ written' = written + 1 /\ written < MaxWritten /\ written \in Nat
      /\ conn \in Nat /\ MaxWritten \in Nat
  BY Types DEF ClickSend, TypeOK
<1>2. /\ x.kind = "json" /\ x.from = m_message_handler.name
      /\ x.id = m_message_handler.id
      /\ x \in Texts'
  <2>1. x = [kind |-> "json", from |-> m_message_handler.name,
             id |-> m_message_handler.id, body |-> written + 1, via |-> conn]
    BY DEF Written, Text
  <2>2. /\ conn' = conn /\ m_message_handler.id \in 0 .. conn /\ conn \in 0 .. conn
        /\ written + 1 \in 0 .. written'
    BY <1>1 DEF ClickSend, linkVars
  <2>3. m_message_handler.name \in Names
    BY <1>1
  <2> HIDE DEF x
  <2> QED
    BY <2>1, <2>2, <2>3 DEF Texts
<1>3. UNCHANGED <<viewVars, shakerVars, linkVars, toClient, srv, room, late, marks>>
  BY DEF ClickSend
<1>4. /\ toServer \in Seq(Texts') /\ toClient \in Seq(Texts')
      /\ room \in Seq(Texts') /\ late \in Seq(Texts')
      /\ m_messages \in Seq(Entries')
  BY <1>1, <1>3, TextsGrow DEF linkVars
<1> HIDE DEF x
<1>5. /\ toServer' \in Seq(Texts')
      /\ Elements(toServer') \subseteq Elements(toServer) \cup {x}
  <2>1. CASE up
    <3>1. toServer' = Append(toServer, x)
      BY <2>1 DEF ClickSend, x
    <3> QED
      BY <1>2, <1>4, <3>1, Appended
  <2>2. CASE ~up
    BY <1>4, <2>2 DEF ClickSend
  <2> QED
    BY <2>1, <2>2
<1>6. TypeOK'
  <2>1. written' \in 0 .. MaxWritten
    BY <1>1
  <2>2. /\ m_username' \in Names /\ Len(marks') <= 2
        /\ m_message_handler' \in {NoHandler} \cup [name : Names, id : 1 .. conn']
        /\ m_handshake_mode' \in {"AwaitHandShake", "AwaitSessionId", "Ok"}
        /\ srv' \in {"asking", "answered", "accepted", "closed"}
    BY <1>3 DEF TypeOK, viewVars, shakerVars, linkVars
  <2>3. m_is_connected' \in BOOLEAN /\ looking' \in BOOLEAN /\ up' \in BOOLEAN
    BY <1>3, Zenon DEF TypeOK, viewVars, linkVars
  <2> QED
    BY <1>3, <1>4, <1>5, <2>1, <2>2, <2>3, Types, Typed
       DEF viewVars, shakerVars, linkVars
<1>7. Said' \subseteq Said \cup {x}
  BY <1>3, <1>5 DEF Said
<1>8. UNCHANGED <<conn, m_message_handler, toClient, srv, up, marks>>
  BY <1>3 DEF shakerVars, linkVars
<1>9. OneName'
  <2> SUFFICES ASSUME NEW t \in Said', NEW u \in Said', NEW n \in 1 .. conn,
                      t.kind = "json", t.id = n, SaidBy(u, n)
               PROVE  t.from = u.from
    BY <1>8, SMTT(30) DEF OneName, SaidBy
  <2>1. CASE t \in Said /\ u \in Said
    BY <2>1 DEF NInv, OneName
  <2>2. CASE n = m_message_handler.id
    <3>1. \A v \in Said' : SaidBy(v, n) => v.from = m_message_handler.name
      BY <1>1, <1>2, <1>7, <2>2 DEF NInv, HandlersName
    <3> QED
      BY <3>1 DEF SaidBy
  <2> QED
    BY <1>2, <1>7, <2>1, <2>2 DEF SaidBy
<1>10. HandlersName'
  BY <1>1, <1>2, <1>7, <1>8 DEF NInv, HandlersName, SaidBy
<1>11. IdComesOnce'
  <2>1. Fresh => Fresh'
    BY <1>2, <1>7, <1>8 DEF Fresh, SaidBy
  <2> QED
    BY <1>8, <2>1 DEF NInv, IdComesOnce, OneId, NoId
<1>12. Speech' /\ Link'
  BY <1>1, <1>2, <1>7, <1>8 DEF NInv, Speech, Link
<1> QED
  BY <1>6, <1>9, <1>10, <1>11, <1>12 DEF NInv

\* A connection is made, or found to be there still.
LEMMA ConnectsStep == TypeOK /\ NInv /\ Connects => TypeOK' /\ NInv'
<1> SUFFICES ASSUME TypeOK, NInv, Connects PROVE TypeOK' /\ NInv'
  OBVIOUS
<1>1. /\ UNCHANGED <<viewVars, m_message_handler, room, late, written>>
      /\ m_handshake_mode' = "AwaitSessionId" /\ looking' = FALSE
  BY DEF Connects, LookupEnds
<1>2. /\ m_username' \in Names /\ looking' \in BOOLEAN
      /\ m_handshake_mode' \in {"AwaitHandShake", "AwaitSessionId", "Ok"}
  BY <1>1 DEF TypeOK, viewVars
<1>3. m_is_connected' \in BOOLEAN
  BY <1>1, Zenon DEF TypeOK, viewVars
<1> DEFINE x == Text("password", "", None, 0, conn')
<1>4. x.kind = "password"
  BY DEF Text
<1>5. CASE up
  <2>1. /\ toServer' = Append(toServer, x)
        /\ UNCHANGED <<up, conn, toClient, srv, marks>>
    BY <1>5 DEF Connects, Raw
  <2>2. Texts' = Texts /\ Entries' = Entries
    BY <1>1, <2>1 DEF Texts, Entries
  <2>3. x \in Texts
    <3>1. conn \in Nat /\ written \in Nat /\ conn' = conn
      BY <2>1, Types
    <3>2. None \in 0 .. conn /\ conn' \in 0 .. conn /\ 0 \in 0 .. written
      BY <3>1 DEF None
    <3> QED
      BY <3>2 DEF Texts, Text
  <2> HIDE DEF x
  <2>4. toServer' \in Seq(Texts) /\ Elements(toServer') = Elements(toServer) \cup {x}
    BY <2>1, <2>3, Types, Appended
  <2>5. TypeOK'
    <3>1. /\ m_message_handler' \in {NoHandler} \cup [name : Names, id : 1 .. conn']
          /\ srv' \in {"asking", "answered", "accepted", "closed"}
          /\ Len(marks') <= 2
      BY <1>1, <2>1 DEF TypeOK
    <3>2. up' \in BOOLEAN
      BY <2>1, Zenon DEF TypeOK
    <3> QED
      BY <1>1, <1>2, <1>3, <2>1, <2>2, <2>4, <3>1, <3>2, Types, Typed DEF viewVars
  <2>6. \A t \in Said' : t \in Said \/ Anonymous(t)
    BY <1>1, <1>4, <2>4 DEF Said, Anonymous, SaidBy
  <2>7. /\ OneName' /\ HandlersName'
        /\ \A t \in Said' : t.kind # "id"
        /\ \A t \in Said' : t.kind = "json" => t.from \in Names \cup {Other}
    BY <1>1, <2>1, <2>6, SaidKept
  <2>8. Fresh /\ conn # 0 => Fresh'
    BY <1>1, <2>1, <2>6, FreshKept
  <2>9. IdComesOnce'
    BY <2>1, <2>8, IdsKept
  <2>10. Speech' /\ Link'
    BY <2>1, <2>7 DEF NInv, Speech, Link
  <2> QED
    BY <2>5, <2>7, <2>9, <2>10 DEF NInv
<1>6. CASE ~up
  <2>1. /\ conn < MaxConnections
        /\ up' = TRUE /\ conn' = conn + 1 /\ srv' = "asking"
        /\ toServer' = <<x>> /\ toClient' = <<>> /\ marks' = <<>>
    BY <1>6 DEF Connects
  <2>2. /\ conn \in Nat /\ conn' \in 0 .. MaxConnections /\ conn' \in Nat
        /\ conn' >= conn /\ written' = written /\ written \in Nat
    <3>1. conn < MaxConnections /\ conn' = conn + 1
      BY <2>1
    <3>2. conn \in Nat /\ MaxConnections \in Nat /\ written \in Nat
      BY Types
    <3>3. written' = written
      BY <1>1
    <3> QED
      BY <3>1, <3>2, <3>3
  <2>3. /\ room \in Seq(Texts') /\ late \in Seq(Texts')
        /\ m_messages \in Seq(Entries')
    BY <2>2, TextsGrow
  <2>4. x \in Texts'
    BY <2>2 DEF Texts, Text, None
  <2> HIDE DEF x
  <2>5. toServer' \in Seq(Texts') /\ Elements(toServer') = {x}
    BY <2>1, <2>4 DEF Elements
  <2>6. TypeOK'
    <3>1. m_message_handler' \in {NoHandler} \cup [name : Names, id : 1 .. conn']
      BY <1>1, <2>2 DEF TypeOK
    <3>2. /\ srv' \in {"asking", "answered", "accepted", "closed"}
          /\ up' \in BOOLEAN /\ toClient' \in Seq(Texts')
          /\ marks' \in Seq(0 .. Len(room')) /\ Len(marks') <= 2
      BY <2>1
    <3>3. written' \in 0 .. MaxWritten
      BY <2>2, Types
    <3> QED
      BY <1>1, <1>2, <1>3, <2>1, <2>2, <2>3, <2>5, <3>1, <3>2, <3>3, Typed
         DEF viewVars
  <2>7. Said' \subseteq Said \cup {x}
    BY <1>1, <2>5 DEF Said
  <2>8. \A t \in Said' : ~SaidBy(t, conn')
    <3>1. \A t \in Said : t.id \in 0 .. conn /\ t.via \in 0 .. conn
      <4>1. Said \subseteq Texts
        BY Types, ElementsIn DEF Said
      <4> QED
        BY <4>1 DEF Texts
    <3> QED
      BY <1>4, <2>2, <2>1, <2>7, <3>1 DEF SaidBy
  <2>9. m_message_handler'.id # conn'
    <3>1. NoHandler.id = 0
      BY DEF NoHandler, None
    <3> QED
      BY <1>1, <2>1, <2>2, <3>1 DEF TypeOK
  <2>10. OneName'
    <3> SUFFICES ASSUME NEW t \in Said', NEW u \in Said', NEW n \in 1 .. conn',
                        t.kind = "json", t.id = n, SaidBy(u, n)
                 PROVE  t.from = u.from
      BY DEF OneName, SaidBy
    <3>1. n # conn'
      BY <2>8 DEF SaidBy
    <3>2. n \in 1 .. conn
      BY <2>1, <2>2, <3>1
    <3>3. t \in Said /\ u \in Said
      BY <1>4, <2>7 DEF SaidBy
    <3> QED
      BY <3>2, <3>3 DEF NInv, OneName
  <2>11. HandlersName'
    BY <1>1, <1>4, <2>7 DEF NInv, HandlersName, SaidBy
  <2>12. IdComesOnce'
    BY <2>1, <2>8, <2>9 DEF IdComesOnce, OneId, NoId, Fresh
  <2>13. Speech' /\ Link'
    <3>1. Elements(<<>>) = {}
      BY DEF Elements
    <3> QED
      BY <1>4, <2>1, <2>2, <2>7, <3>1 DEF NInv, Speech, Link
  <2> QED
    BY <2>6, <2>10, <2>11, <2>12, <2>13 DEF NInv
<1> QED
  BY <1>5, <1>6

\* What a text leaves behind when it is taken.
LEMMA Taken ==
    ASSUME TypeOK, NInv, Receives
    PROVE  /\ up /\ conn \in 1 .. conn
           /\ toClient' = Tail(toClient) /\ toClient' \in Seq(Texts)
           /\ text \in Texts /\ text \in Elements(toClient)
           /\ Elements(toClient') \subseteq Elements(toClient)
           /\ OneId(toClient, conn) => OneId(toClient', conn)
           /\ NoId(toClient) => NoId(toClient')
           /\ OneId(toClient, conn) /\ text.kind = "id" => NoId(toClient')
<1>1. /\ up /\ toClient # <<>> /\ toClient' = Tail(toClient)
      /\ toClient \in Seq(Texts) /\ conn \in Nat
  BY Types DEF Receives
<1>2. conn \in 1 .. conn
  BY <1>1 DEF NInv, Link
<1> QED
  BY <1>1, <1>2, Tailed, OneIdTail DEF text

\* The id is received: a handler speaks for the connection from now on.
LEMMA IdStep == TypeOK /\ NInv /\ ReceivesId => TypeOK' /\ NInv'
<1> SUFFICES ASSUME TypeOK, NInv, ReceivesId PROVE TypeOK' /\ NInv'
  OBVIOUS
<1>1. /\ text.kind = "id" /\ m_handshake_mode' = "Ok" /\ m_is_connected' = TRUE
      /\ m_message_handler' = [name |-> m_username, id |-> text.id]
      /\ m_messages' = <<>>
      /\ UNCHANGED <<m_username, looking, up, conn, srv, room, late, marks, written>>
  BY DEF ReceivesId, linkVars, serverVars
<1>2. /\ up /\ conn \in 1 .. conn
      /\ toClient' = Tail(toClient) /\ toClient' \in Seq(Texts)
      /\ Elements(toClient') \subseteq Elements(toClient)
      /\ NoId(toClient') /\ OneId(toClient', conn) /\ text.id = conn
      /\ ~NoId(toClient)
  <2>1. OneId(toClient, conn)
    BY DEF NInv, IdComesOnce
  <2>2. text.id = conn /\ ~NoId(toClient)
    BY <1>1, <2>1, Taken DEF ReceivesId, OneId, NoId, Elements
  <2> QED
    BY <1>1, <2>1, <2>2, Taken DEF ReceivesId
<1>3. Fresh /\ srv # "asking"
  BY <1>2 DEF NInv, IdComesOnce
<1> DEFINE x == Raw("name", m_username)
<1>4. /\ x.kind = "name" /\ x.from = m_username /\ x.via = conn /\ x \in Texts
      /\ m_username \in Names
  <2>1. m_username \in Names /\ conn \in 0 .. conn /\ 0 \in 0 .. conn
        /\ 0 \in 0 .. written
    <3>1. conn \in Nat /\ written \in Nat
      BY Types
    <3> QED
      BY <3>1 DEF TypeOK
  <2> QED
    BY <2>1 DEF Raw, Text, Texts, None
<1> HIDE DEF x
<1>5. /\ toServer' \in Seq(Texts)
      /\ Elements(toServer') \subseteq Elements(toServer) \cup {x}
  <2>1. CASE m_should_broadcast_name
    <3>1. toServer' = Append(toServer, x)
      BY <2>1 DEF ReceivesId, x
    <3> QED
      BY <1>4, <3>1, Types, Appended
  <2>2. CASE ~m_should_broadcast_name
    BY <2>2, Types DEF ReceivesId
  <2> QED
    BY <2>1, <2>2
<1>6. Texts' = Texts /\ Entries' = Entries
  BY <1>1 DEF Texts, Entries
<1>7. TypeOK'
  <2>1. m_message_handler' \in {NoHandler} \cup [name : Names, id : 1 .. conn']
    BY <1>1, <1>2, <1>4
  <2>2. /\ srv' \in {"asking", "answered", "accepted", "closed"}
        /\ Len(marks') <= 2 /\ m_is_connected' \in BOOLEAN
        /\ m_handshake_mode' \in {"AwaitHandShake", "AwaitSessionId", "Ok"}
        /\ m_messages' \in Seq(Entries)
    BY <1>1 DEF TypeOK
  <2>3. looking' \in BOOLEAN /\ up' \in BOOLEAN
    BY <1>1, Zenon DEF TypeOK
  <2> QED
    BY <1>1, <1>2, <1>4, <1>5, <1>6, <2>1, <2>2, <2>3, Types, Typed
<1>8. Said' \subseteq Said \cup {x}
  BY <1>1, <1>5 DEF Said
<1>9. OneName'
  <2> SUFFICES ASSUME NEW t \in Said', NEW u \in Said', NEW n \in 1 .. conn,
                      t.kind = "json", t.id = n, SaidBy(u, n)
               PROVE  t.from = u.from
    BY <1>1 DEF OneName, SaidBy
  <2>1. t \in Said
    BY <1>4, <1>8
  <2>2. n # conn
    BY <1>3, <2>1 DEF Fresh, SaidBy
  <2>3. u \in Said
    BY <1>4, <1>8, <2>2 DEF SaidBy
  <2> QED
    BY <2>1, <2>3 DEF NInv, OneName
<1>10. HandlersName'
  <2>1. \A t \in Said' : SaidBy(t, conn) => t.from = m_username
    BY <1>3, <1>4, <1>8 DEF Fresh
  <2> QED
    BY <1>1, <1>2, <2>1 DEF HandlersName, SaidBy
<1>11. IdComesOnce'
  BY <1>1, <1>2, <1>3 DEF IdComesOnce, OneId, NoId
<1>12. Speech' /\ Link'
  BY <1>1, <1>2, <1>4, <1>8 DEF NInv, Speech, Link
<1> QED
  BY <1>7, <1>9, <1>10, <1>11, <1>12 DEF NInv

\* What the list shows for a text is an entry.
LEMMA ShownIsEntry ==
    ASSUME TypeOK, NInv, toClient # <<>>
    PROVE  Shown(m_message_handler, text) \in Entries
<1>1. text \in Texts /\ text \in Elements(toClient)
  BY Types, Tailed DEF text
<1>2. text.kind = "json" => text.from \in Names \cup {Other}
  BY <1>1 DEF NInv, Speech
<1>3. (text.id = m_message_handler.id) \in BOOLEAN
  OBVIOUS
<1> QED
  BY <1>1, <1>2, <1>3 DEF Shown, Parsed, Entry, Entries

\* Another text is received, and shown or not.
LEMMA TextStep ==
    ASSUME TypeOK, NInv, ReceivesNoId \/ ReceivesMessage
    PROVE  TypeOK' /\ NInv'
<1>1. /\ Receives /\ m_is_connected' \in BOOLEAN
      /\ UNCHANGED <<m_username, m_message_handler, m_handshake_mode, looking,
                     up, conn, toServer, srv, room, late, marks, written>>
  <2>1. m_is_connected' \in {FALSE, m_is_connected}
    BY DEF ReceivesNoId, ReceivesMessage
  <2>2. m_is_connected' \in BOOLEAN
    BY <2>1, Zenon DEF TypeOK
  <2> QED
    BY <2>2 DEF ReceivesNoId, ReceivesMessage, shakerVars, linkVars, serverVars
<1>2. Texts' = Texts /\ Entries' = Entries
  BY <1>1 DEF Texts, Entries
<1>3. m_messages' \in Seq(Entries)
  <2>1. CASE m_messages' = m_messages
    BY <2>1, Types
  <2>2. CASE m_messages' = Append(m_messages, Shown(m_message_handler, text))
    <3>1. toClient # <<>>
      BY <1>1 DEF Receives
    <3> QED
      BY <2>2, <3>1, ShownIsEntry, Types, Appended
  <2> QED
    BY <2>1, <2>2 DEF ReceivesNoId, ReceivesMessage
<1>4. TypeOK'
  <2>1. /\ m_username' \in Names
        /\ m_message_handler' \in {NoHandler} \cup [name : Names, id : 1 .. conn']
        /\ m_handshake_mode' \in {"AwaitHandShake", "AwaitSessionId", "Ok"}
        /\ srv' \in {"asking", "answered", "accepted", "closed"}
        /\ Len(marks') <= 2
    BY <1>1 DEF TypeOK
  <2>2. looking' \in BOOLEAN /\ up' \in BOOLEAN
    BY <1>1, Zenon DEF TypeOK
  <2> QED
    BY <1>1, <1>2, <1>3, <2>1, <2>2, Taken, Types, Typed
<1>5. Said' = Said
  BY <1>1 DEF Said
<1>6. /\ OneName' /\ HandlersName'
      /\ \A t \in Said' : t.kind # "id"
      /\ \A t \in Said' : t.kind = "json" => t.from \in Names \cup {Other}
  BY <1>1, <1>5, SaidKept
<1>7. Fresh => Fresh'
  BY <1>1, <1>5 DEF Fresh
<1>8. IdComesOnce'
  BY <1>1, <1>7, Taken, IdsKept
<1>9. Speech' /\ Link'
  BY <1>1, <1>6, Taken DEF NInv, Speech, Link
<1> QED
  BY <1>4, <1>6, <1>8, <1>9 DEF NInv

\* A step that leaves the client's own variables as they are, and says nothing
\* new, keeps the names; the ids are a matter of their own.
LEMMA NamesKept ==
    ASSUME TypeOK, NInv, UNCHANGED clientVars,
           \A t \in Said' : t \in Said \/ Anonymous(t),
           srv' = "asking" => srv = "asking",
           OneId(toClient, conn) => OneId(toClient', conn),
           NoId(toClient) => NoId(toClient'),
           \A t \in Elements(toClient') :
              t.kind = "json" => t.from \in Names \cup {Other},
           ~up => srv' = "closed" /\ toClient' = <<>>,
           srv' = "answered" => Len(marks') = 1
    PROVE  NInv'
<1>1. UNCHANGED <<conn, m_message_handler, up>>
  BY DEF clientVars, shakerVars, linkVars
<1>2. /\ OneName' /\ HandlersName'
      /\ \A t \in Said' : t.kind # "id"
      /\ \A t \in Said' : t.kind = "json" => t.from \in Names \cup {Other}
  BY <1>1, SaidKept
<1>3. Fresh /\ conn # 0 => Fresh'
  BY <1>1, FreshKept
<1>4. IdComesOnce'
  BY <1>1, <1>3, IdsKept
<1>5. Speech' /\ Link'
  BY <1>1, <1>2 DEF NInv, Speech, Link
<1> QED
  BY <1>2, <1>4, <1>5 DEF NInv

\* Types, if the client's own variables are as they were.
LEMMA ServerTyped ==
    ASSUME TypeOK, UNCHANGED clientVars,
           toServer' \in Seq(Texts'), toClient' \in Seq(Texts'),
           room' \in Seq(Texts'), late' \in Seq(Texts'),
           srv' \in {"asking", "answered", "accepted", "closed"},
           marks' \in Seq(0 .. Len(room')), Len(marks') <= 2,
           written' \in 0 .. MaxWritten, written' >= written
    PROVE  TypeOK'
<1>1. UNCHANGED <<viewVars, shakerVars, linkVars>> /\ conn' = conn
  BY DEF clientVars, linkVars
<1>2. m_messages' \in Seq(Entries')
  <2>1. conn' \in Nat /\ conn' >= conn /\ written' \in Nat /\ conn \in Nat
    <3>1. conn \in Nat /\ MaxWritten \in Nat
      BY Types
    <3> QED
      BY <1>1, <3>1
  <2>2. m_messages \in Seq(Entries')
    BY <2>1, TextsGrow
  <2> QED
    BY <1>1, <2>2 DEF viewVars
<1>3. /\ m_username' \in Names
      /\ m_message_handler' \in {NoHandler} \cup [name : Names, id : 1 .. conn']
      /\ m_handshake_mode' \in {"AwaitHandShake", "AwaitSessionId", "Ok"}
      /\ conn' \in 0 .. MaxConnections
  BY <1>1 DEF TypeOK, viewVars, shakerVars
<1>4. m_is_connected' \in BOOLEAN /\ looking' \in BOOLEAN /\ up' \in BOOLEAN
  BY <1>1, Zenon DEF TypeOK, viewVars, linkVars
<1> QED
  BY <1>2, <1>3, <1>4, Typed

\* The server reads the password and sends the id.
LEMMA AnswersStep == TypeOK /\ NInv /\ ServerAnswers => TypeOK' /\ NInv'
<1> SUFFICES ASSUME TypeOK, NInv, ServerAnswers PROVE TypeOK' /\ NInv'
  OBVIOUS
<1>1. /\ srv = "asking" /\ toServer # <<>> /\ srv' = "answered"
      /\ marks' = <<Len(room)>> /\ toClient' = Append(toClient, IdText(conn))
      /\ UNCHANGED <<clientVars, room, late, written>>
  BY DEF ServerAnswers
<1>2. UNCHANGED <<conn, m_message_handler, up>>
  BY <1>1 DEF clientVars, shakerVars, linkVars
<1>3. Texts' = Texts
  BY <1>1, <1>2 DEF Texts
<1>4. IdText(conn) \in Texts /\ IdText(conn).id = conn /\ IdText(conn).kind = "id"
  <2>1. conn \in 0 .. conn /\ 0 \in 0 .. written
    BY Types
  <2> QED
    BY <2>1 DEF IdText, Text, Texts
<1>5. toServer' \in Seq(Texts) /\ Elements(toServer') \subseteq Elements(toServer)
  <2>1. PICK n \in 1 .. Len(toServer) :
           toServer' = SubSeq(toServer, n + 1, Len(toServer))
    BY DEF ServerAnswers
  <2>2. toServer \in Seq(Texts) /\ Len(toServer) \in Nat
    BY Types
  <2>3. n + 1 \in 1 .. Len(toServer) + 1 /\ Len(toServer) \in n + 1 - 1 .. Len(toServer)
    BY <2>2
  <2> QED
    BY <2>1, <2>2, <2>3, Part
<1>6. toClient' \in Seq(Texts)
      /\ Elements(toClient') = Elements(toClient) \cup {IdText(conn)}
  BY <1>1, <1>4, Types, Appended
<1>7. OneId(toClient', conn)
  BY <1>1, <1>4, Types, OneIdSent DEF NInv, IdComesOnce
<1>8. TypeOK'
  <2>1. marks' \in Seq(0 .. Len(room')) /\ Len(marks') <= 2
    <3>1. Len(room) \in 0 .. Len(room)
      BY Types
    <3> QED
      BY <1>1, <3>1
  <2>2. /\ written' \in 0 .. MaxWritten /\ written' >= written
        /\ room' \in Seq(Texts) /\ late' \in Seq(Texts)
        /\ srv' \in {"asking", "answered", "accepted", "closed"}
    BY <1>1, Types
  <2> QED
    BY <1>1, <1>3, <1>5, <1>6, <2>1, <2>2, ServerTyped
<1>9. Said' \subseteq Said
  BY <1>1, <1>5 DEF Said
<1>10. /\ OneName' /\ HandlersName'
       /\ \A t \in Said' : t.kind # "id"
       /\ \A t \in Said' : t.kind = "json" => t.from \in Names \cup {Other}
  BY <1>2, <1>9, SaidKept
<1>11. IdComesOnce'
  <2>1. Fresh
    BY <1>1 DEF NInv, IdComesOnce
  <2>2. Fresh'
    BY <1>2, <1>9, <2>1 DEF Fresh
  <2> QED
    BY <1>1, <1>2, <1>7, <2>2 DEF IdComesOnce
<1>12. Speech' /\ Link'
  <2>1. Len(marks') = 1
    BY <1>1
  <2> QED
    BY <1>1, <1>2, <1>4, <1>6, <1>10, <2>1 DEF NInv, Speech, Link
<1> QED
  BY <1>8, <1>10, <1>11, <1>12 DEF NInv

\* What the room remembers are texts of the room.
LEMMA NewestIn ==
    ASSUME TypeOK, NEW n \in 0 .. Len(room)
    PROVE  /\ Newest(n) \in Seq(Texts)
           /\ Elements(Newest(n)) \subseteq Elements(room)
<1> DEFINE from == IF n > m_max_recent_msgs THEN n - m_max_recent_msgs + 1 ELSE 1
<1>1. room \in Seq(Texts) /\ Len(room) \in Nat /\ m_max_recent_msgs \in Nat
  BY Types
<1>2. from \in 1 .. Len(room) + 1 /\ n \in from - 1 .. Len(room)
  BY <1>1
<1>3. Newest(n) = SubSeq(room, from, n)
  BY DEF Newest
<1> HIDE DEF from
<1> QED
  BY <1>1, <1>2, <1>3, Part

\* The history is sent.
LEMMA AcceptsStep == TypeOK /\ NInv /\ ServerAccepts => TypeOK' /\ NInv'
<1> SUFFICES ASSUME TypeOK, NInv, ServerAccepts PROVE TypeOK' /\ NInv'
  OBVIOUS
<1>1. /\ srv = "answered" /\ srv' = "accepted" /\ marks' = Append(marks, Len(room))
      /\ toClient' = toClient \o Newest(Len(room))
      /\ UNCHANGED <<clientVars, toServer, room, late, written>>
  BY DEF ServerAccepts
<1>2. Texts' = Texts /\ conn' = conn /\ up' = up
  BY <1>1 DEF Texts, clientVars, linkVars
<1>3. /\ Newest(Len(room)) \in Seq(Texts)
      /\ Elements(Newest(Len(room))) \subseteq Said
  BY Types, NewestIn DEF Said
<1>4. /\ toClient' \in Seq(Texts)
      /\ Elements(toClient') = Elements(toClient) \cup Elements(Newest(Len(room)))
  BY <1>1, <1>3, Types, Joined
<1>5. NoId(Newest(Len(room)))
  <2>1. \A t \in Elements(Newest(Len(room))) : t.kind # "id"
    BY <1>3 DEF NInv, Speech
  <2> QED
    BY <2>1 DEF NoId, Elements
<1>6. /\ OneId(toClient, conn) => OneId(toClient', conn)
      /\ NoId(toClient) => NoId(toClient')
  BY <1>1, <1>3, <1>5, Types, OneIdJoin
<1>7. TypeOK'
  <2>1. marks' \in Seq(0 .. Len(room')) /\ Len(marks') <= 2
    <3>1. Len(marks) = 1 /\ marks \in Seq(0 .. Len(room)) /\ Len(room) \in 0 .. Len(room)
      BY <1>1, Types DEF NInv, Link
    <3>2. marks' \in Seq(0 .. Len(room)) /\ Len(marks') = Len(marks) + 1
      BY <1>1, <3>1, Appended, ZenonT(60)
    <3> QED
      BY <1>1, <3>1, <3>2
  <2>2. /\ written' \in 0 .. MaxWritten /\ written' >= written
        /\ room' \in Seq(Texts) /\ late' \in Seq(Texts) /\ toServer' \in Seq(Texts)
        /\ srv' \in {"asking", "answered", "accepted", "closed"}
    BY <1>1, Types
  <2> QED
    BY <1>1, <1>2, <1>4, <2>1, <2>2, ServerTyped
<1>8. NInv'
  <2>1. Said' = Said
    BY <1>1 DEF Said
  <2>2. \A t \in Elements(toClient') : t.kind = "json" => t.from \in Names \cup {Other}
    BY <1>3, <1>4 DEF NInv, Speech
  <2>3. up
    BY <1>1 DEF NInv, Link
  <2> QED
    BY <1>1, <1>6, <2>1, <2>2, <2>3, NamesKept
<1> QED
  BY <1>7, <1>8

\* A line is broadcast: it was said already, or it is anonymous.
LEMMA BroadcastStep ==
    ASSUME TypeOK, NInv, NEW line, Broadcasts(line), UNCHANGED <<clientVars, srv, marks>>,
           written' \in 0 .. MaxWritten, written' >= written, line \in Texts',
           line \in Said \/ Anonymous(line),
           toServer' \in Seq(Texts'), late' \in Seq(Texts'),
           Elements(toServer') \subseteq Elements(toServer),
           Elements(late') \subseteq Elements(late)
    PROVE  TypeOK' /\ NInv'
<1>1. /\ room' = Append(room, line)
      /\ toClient' = IF srv = "closed" THEN toClient ELSE Append(toClient, line)
  BY DEF Broadcasts
<1>2. /\ toClient \in Seq(Texts') /\ room \in Seq(Texts')
      /\ conn' = conn /\ up' = up
  <2>1. conn' = conn /\ conn \in Nat /\ written' \in Nat /\ up' = up
    BY Types DEF clientVars, linkVars
  <2>2. conn' \in Nat /\ conn' >= conn
    BY <2>1
  <2> QED
    BY <2>1, <2>2, TextsGrow
<1>3. /\ room' \in Seq(Texts') /\ Len(room') = Len(room) + 1
      /\ Elements(room') = Elements(room) \cup {line}
  BY <1>1, <1>2, Appended
<1>4. line.kind # "id" /\ (line.kind = "json" => line.from \in Names \cup {Other})
  BY DEF NInv, Speech, Anonymous
<1>5. /\ toClient' \in Seq(Texts')
      /\ Elements(toClient') \subseteq Elements(toClient) \cup {line}
      /\ OneId(toClient, conn) => OneId(toClient', conn)
      /\ NoId(toClient) => NoId(toClient')
  <2>1. CASE srv = "closed"
    BY <1>1, <1>2, <2>1
  <2>2. CASE srv # "closed"
    <3>1. toClient' = Append(toClient, line)
      BY <1>1, <2>2
    <3>2. /\ toClient' \in Seq(Texts')
          /\ Elements(toClient') = Elements(toClient) \cup {line}
      BY <1>2, <3>1, Appended
    <3>3. /\ OneId(toClient, conn) => OneId(Append(toClient, line), conn)
          /\ NoId(toClient) => NoId(Append(toClient, line))
      BY <1>2, <1>4, OneIdAppend
    <3> QED
      BY <3>1, <3>2, <3>3
  <2> QED
    BY <2>1, <2>2
<1>6. TypeOK'
  <2>1. marks' \in Seq(0 .. Len(room')) /\ Len(marks') <= 2
    <3>1. marks \in Seq(0 .. Len(room)) /\ Len(room) \in Nat
      BY Types
    <3>2. 0 .. Len(room) \subseteq 0 .. Len(room')
      BY <1>3, <3>1
    <3> QED
      BY <3>1, <3>2, SeqGrows DEF TypeOK
  <2>2. srv' \in {"asking", "answered", "accepted", "closed"}
    BY DEF TypeOK
  <2> QED
    BY <1>3, <1>5, <2>1, <2>2, ServerTyped
<1>7. NInv'
  <2>1. \A t \in Said' : t \in Said \/ Anonymous(t)
    BY <1>3 DEF Said
  <2>2. \A t \in Elements(toClient') : t.kind = "json" => t.from \in Names \cup {Other}
    BY <1>4, <1>5 DEF NInv, Speech
  <2>3. ~up => srv' = "closed" /\ toClient' = <<>>
    BY <1>1 DEF NInv, Link
  <2>4. srv' = "answered" => Len(marks') = 1
    BY DEF NInv, Link
  <2> QED
    BY <1>5, <2>1, <2>2, <2>3, <2>4, NamesKept
<1> QED
  BY <1>6, <1>7

\* What is broadcast is a line of this client, of its last session, or of others.
LEMMA SpeakStep ==
    ASSUME TypeOK, NInv, ServerReads \/ ServerReadsLate \/ OtherSpeaks
    PROVE  TypeOK' /\ NInv'
<1>1. CASE ServerReads
  <2>1. /\ toServer # <<>> /\ Broadcasts(Head(toServer)) /\ toServer' = Tail(toServer)
        /\ UNCHANGED <<clientVars, srv, late, marks, written>> /\ conn' = conn
    BY <1>1 DEF ServerReads, clientVars, linkVars
  <2>2. Texts' = Texts
    BY <2>1 DEF Texts
  <2>3. /\ toServer' \in Seq(Texts) /\ Elements(toServer') \subseteq Elements(toServer)
        /\ Head(toServer) \in Texts /\ Head(toServer) \in Said
    BY <2>1, Types, Tailed DEF Said
  <2>4. written' \in 0 .. MaxWritten /\ written' >= written /\ late' \in Seq(Texts)
    BY <2>1, Types
  <2> QED
    BY <2>1, <2>2, <2>3, <2>4, BroadcastStep
<1>2. CASE ServerReadsLate
  <2>1. /\ late # <<>> /\ Broadcasts(Head(late)) /\ late' = Tail(late)
        /\ UNCHANGED <<clientVars, toServer, srv, marks, written>> /\ conn' = conn
    BY <1>2 DEF ServerReadsLate, clientVars, linkVars
  <2>2. Texts' = Texts
    BY <2>1 DEF Texts
  <2>3. /\ late' \in Seq(Texts) /\ Elements(late') \subseteq Elements(late)
        /\ Head(late) \in Texts /\ Head(late) \in Said
    BY <2>1, Types, Tailed DEF Said
  <2>4. written' \in 0 .. MaxWritten /\ written' >= written /\ toServer' \in Seq(Texts)
    BY <2>1, Types
  <2> QED
    BY <2>1, <2>2, <2>3, <2>4, BroadcastStep
<1>3. CASE OtherSpeaks
  <2> DEFINE x == Text("json", Other, None, written', None)
  <2>1. /\ Broadcasts(x) /\ UNCHANGED <<clientVars, toServer, srv, late, marks>>
        /\ written < MaxWritten /\ written' = written + 1 /\ conn' = conn
    BY <1>3 DEF OtherSpeaks, clientVars, linkVars
  <2>2. /\ conn \in Nat /\ written \in Nat /\ MaxWritten \in Nat
    BY Types
  <2>3. /\ written' \in 0 .. MaxWritten /\ written' >= written /\ conn' >= conn
        /\ conn' \in Nat /\ written' \in Nat
        /\ 0 \in 0 .. conn' /\ written' \in 0 .. written'
    <3>1. written < MaxWritten /\ written' = written + 1 /\ conn' = conn
      BY <2>1
    <3> QED
      BY <2>2, <3>1
  <2>4. x \in Texts' /\ Anonymous(x)
    BY <2>3 DEF Text, Texts, Anonymous, SaidBy, None
  <2>5. toServer' \in Seq(Texts') /\ late' \in Seq(Texts')
    BY <2>1, <2>3, TextsGrow
  <2> QED
    BY <2>1, <2>3, <2>4, <2>5, BroadcastStep
<1> QED
  BY <1>1, <1>2, <1>3

\* The server closes the session.
LEMMA ClosesStep == TypeOK /\ NInv /\ ServerCloses => TypeOK' /\ NInv'
<1> SUFFICES ASSUME TypeOK, NInv, ServerCloses PROVE TypeOK' /\ NInv'
  OBVIOUS
<1>1. /\ srv' = "closed"
      /\ UNCHANGED <<clientVars, toServer, toClient, room, late, marks, written>>
  BY DEF ServerCloses
<1>2. Texts' = Texts
  BY <1>1 DEF Texts, clientVars, linkVars
<1>3. TypeOK'
  <2>1. written' \in 0 .. MaxWritten /\ written' >= written /\ Len(marks') <= 2
    BY <1>1, Types DEF TypeOK
  <2> QED
    BY <1>1, <1>2, <2>1, Types, ServerTyped
<1>4. Said' = Said
  BY <1>1 DEF Said
<1>5. \A t \in Elements(toClient') : t.kind = "json" => t.from \in Names \cup {Other}
  BY <1>1 DEF NInv, Speech
<1>6. ~up => srv' = "closed" /\ toClient' = <<>>
  BY <1>1 DEF NInv, Link
<1>7. NInv'
  BY <1>1, <1>4, <1>5, <1>6, NamesKept
<1> QED
  BY <1>3, <1>7

----------------------------------------------------------------------------
(* The theorems.                                                           *)

\* At the start nobody has said anything.
LEMMA NamesInit == Init => TypeOK /\ NInv
<1> SUFFICES ASSUME Init PROVE TypeOK /\ NInv
  OBVIOUS
<1>1. NoId(<<>>) /\ OneId(<<>>, 0) /\ Elements(<<>>) = {}
  BY DEF NoId, OneId, Elements
<1>2. TypeOK
  <2>1. /\ m_messages = <<>> /\ toServer = <<>> /\ toClient = <<>> /\ room = <<>>
        /\ late = <<>> /\ marks = <<>> /\ conn = 0 /\ written = 0
    BY DEF Init
  <2>2. 0 \in 0 .. MaxConnections /\ 0 \in 0 .. MaxWritten
    BY MessagesAssumption
  <2>3. m_is_connected \in BOOLEAN /\ looking \in BOOLEAN /\ up \in BOOLEAN
    BY Zenon DEF Init
  <2>4. /\ m_username \in Names /\ m_handshake_mode = "AwaitHandShake"
        /\ m_message_handler = NoHandler /\ srv = "closed"
    BY DEF Init
  <2> QED
    BY <2>1, <2>2, <2>3, <2>4 DEF TypeOK
<1>3. NInv
  <2>1. Said = {}
    BY <1>1 DEF Init, Said
  <2> QED
    BY <1>1, <2>1 DEF Init, NInv, OneName, HandlersName, IdComesOnce, Speech, Link
<1> QED
  BY <1>2, <1>3

\* Every step keeps the names.
LEMMA NamesNext == TypeOK /\ NInv /\ [Next]_vars => TypeOK' /\ NInv'
<1> SUFFICES ASSUME TypeOK, NInv, [Next]_vars PROVE TypeOK' /\ NInv'
  OBVIOUS
<1>1. CASE ClickConnect \/ LookupFails \/ (\E name \in Names : EditUsername(name))
           \/ UNCHANGED vars
  <2>1. UNCHANGED <<m_messages, shakerVars, up, conn, toServer, toClient, serverVars>>
    BY <1>1 DEF ClickConnect, LookupFails, EditUsername, vars, viewVars, linkVars
  <2>2. m_username' \in Names
    BY <1>1 DEF ClickConnect, LookupFails, EditUsername, vars, viewVars, TypeOK
  <2>3. /\ m_is_connected' \in {FALSE, m_is_connected}
        /\ looking' \in {TRUE, FALSE, looking}
    BY <1>1 DEF ClickConnect, LookupFails, LookupEnds, EditUsername, vars, viewVars, linkVars
  <2>4. m_is_connected' \in BOOLEAN /\ looking' \in BOOLEAN
    BY <2>3, Zenon DEF TypeOK
  <2> QED
    BY <2>1, <2>2, <2>4, ViewStep
<1>2. CASE ClickDisconnect \/ EditServer \/ RemoteCloses \/ LinkBreaks
  <2>1. /\ LinkDown
        /\ UNCHANGED <<m_username, m_messages, conn, room, marks, written>>
        /\ m_handshake_mode' \in {"AwaitHandShake", m_handshake_mode}
        /\ m_message_handler' \in {NoHandler, m_message_handler}
    BY <1>2 DEF ClickDisconnect, EditServer, RemoteCloses, LinkBreaks, viewVars,
       shakerVars
  <2>2. /\ m_is_connected' \in {FALSE, m_is_connected}
        /\ looking' \in {FALSE, looking}
    BY <1>2 DEF ClickDisconnect, EditServer, RemoteCloses, LinkBreaks, viewVars
  <2>3. m_is_connected' \in BOOLEAN /\ looking' \in BOOLEAN
    BY <2>2, Zenon DEF TypeOK
  <2> QED
    BY <2>1, <2>3, DownStep
<1> QED
  BY <1>1, <1>2, SendStep, ConnectsStep, IdStep, TextStep, AnswersStep, AcceptsStep,
     SpeakStep, ClosesStep DEF Next, Gui, User

\* The conjunction of the parts is an invariant.
THEOREM NamesInvariant == Spec => [](TypeOK /\ NInv)
BY NamesInit, NamesNext, PTL DEF Spec

\* The state of client, link and server keeps its types: whatever order texts,
\* clicks, losses and late reads come in, a handler's id is that of a connection
\* that was made, and everything under way is a text.
THEOREM TypeCorrect == Spec => []TypeOK
BY NamesInvariant, PTL

\* Others know a session by one name, the one it announced.
THEOREM OneNameEach == Spec => []OneNamePerSession
<1>1. TypeOK /\ NInv => OneNamePerSession
  <2> SUFFICES ASSUME TypeOK, NInv, NEW i \in DOMAIN room, NEW j \in DOMAIN room,
                      room[i].kind = "json", room[i].id # None,
                      \/ room[j].kind = "json" /\ room[j].id = room[i].id
                      \/ room[j].kind = "name" /\ room[j].via = room[i].id
               PROVE  room[i].from = room[j].from
    BY DEF OneNamePerSession
  <2>1. room[i] \in Said /\ room[j] \in Said /\ SaidBy(room[j], room[i].id)
    BY DEF Said, Elements, SaidBy
  <2>2. room[i].id \in 1 .. conn
    <3>1. room[i] \in Texts /\ conn \in Nat
      BY Types
    <3>2. room[i].id \in 0 .. conn
      BY <3>1 DEF Texts
    <3> QED
      BY <3>1, <3>2 DEF None
  <2> QED
    BY <2>1, <2>2 DEF NInv, OneName
<1> QED
  BY <1>1, NamesInvariant, PTL

----------------------------------------------------------------------------
(* More about sequences.                                                   *)

\* What is appended to a sequence is appended to its last part.
LEMMA PartAppend ==
    ASSUME NEW S, NEW s \in Seq(S), NEW x \in S, NEW m \in 1 .. Len(s) + 1
    PROVE  SubSeq(Append(s, x), m, Len(s) + 1) = Append(SubSeq(s, m, Len(s)), x)
<1> DEFINE l == Len(s)
           a == Append(s, x)
           p == SubSeq(s, m, l)
           q == SubSeq(a, m, l + 1)
<1>1. l \in Nat /\ m \in 1 .. l + 1
  OBVIOUS
<1>2. /\ a \in Seq(S) /\ Len(a) = l + 1
      /\ \A i \in 1 .. l : a[i] = s[i]
      /\ a[l + 1] = x
  BY Appended
<1> HIDE DEF a
<1>3. /\ p \in Seq(S) /\ Len(p) = l - m + 1
      /\ \A i \in 1 .. l - m + 1 : p[i] = s[m + i - 1]
  <2>1. l \in m - 1 .. Len(s)
    BY <1>1
  <2> QED
    BY <1>1, <2>1, Part
<1>4. /\ q \in Seq(S) /\ Len(q) = l - m + 2
      /\ \A i \in 1 .. l - m + 2 : q[i] = a[m + i - 1]
  <2>1. m \in 1 .. Len(a) + 1 /\ l + 1 \in m - 1 .. Len(a)
    BY <1>1, <1>2
  <2>2. /\ q \in Seq(S) /\ Len(q) = (l + 1) - m + 1
        /\ \A i \in 1 .. (l + 1) - m + 1 : q[i] = a[m + i - 1]
    BY <1>2, <2>1, Part
  <2>3. (l + 1) - m + 1 = l - m + 2
    BY <1>1
  <2> QED
    BY <2>2, <2>3
<1> HIDE DEF p, q, l
<1>5. /\ Append(p, x) \in Seq(S) /\ Len(Append(p, x)) = Len(p) + 1
      /\ \A i \in 1 .. Len(p) : Append(p, x)[i] = p[i]
      /\ Append(p, x)[Len(p) + 1] = x
  BY <1>3, Appended
<1>6. Len(q) = Len(Append(p, x))
  BY <1>1, <1>3, <1>4, <1>5
<1>7. ASSUME NEW i \in 1 .. Len(q)
      PROVE  q[i] = Append(p, x)[i]
  <2>1. CASE i <= l - m + 1
    <3>1. i \in 1 .. l - m + 1 /\ m + i - 1 \in 1 .. l
      BY <1>1, <1>4, <2>1
    <3> QED
      BY <1>2, <1>3, <1>4, <1>5, <3>1
  <2>2. CASE i = l - m + 2
    <3>1. m + i - 1 = l + 1 /\ i = Len(p) + 1
      BY <1>1, <1>3, <2>2
    <3> QED
      BY <1>2, <1>4, <1>5, <3>1
  <2>3. l \in Nat /\ m \in Nat /\ i \in Nat /\ i <= l - m + 2
    BY <1>1, <1>4
  <2>4. i <= l - m + 1 \/ i = l - m + 2
    BY <2>3
  <2> QED
    BY <2>1, <2>2, <2>4
<1>8. q = Append(p, x)
  BY <1>4, <1>5, <1>6, <1>7, SeqEqual
<1> QED
  BY <1>8 DEF a, p, q, l

\* A part that ends before does not see what is appended.
LEMMA PartBefore ==
    ASSUME NEW S, NEW s \in Seq(S), NEW x \in S, NEW m \in 1 .. Len(s) + 1,
           NEW n \in m - 1 .. Len(s)
    PROVE  SubSeq(Append(s, x), m, n) = SubSeq(s, m, n)
<1> DEFINE a == Append(s, x)
           p == SubSeq(s, m, n)
           q == SubSeq(a, m, n)
<1>1. /\ a \in Seq(S) /\ Len(a) = Len(s) + 1
      /\ \A i \in 1 .. Len(s) : a[i] = s[i]
  BY Appended
<1> HIDE DEF a
<1>2. /\ p \in Seq(S) /\ Len(p) = n - m + 1
      /\ \A i \in 1 .. n - m + 1 : p[i] = s[m + i - 1]
  BY Part
<1>3. /\ q \in Seq(S) /\ Len(q) = n - m + 1
      /\ \A i \in 1 .. n - m + 1 : q[i] = a[m + i - 1]
  <2>1. m \in 1 .. Len(a) + 1 /\ n \in m - 1 .. Len(a)
    BY <1>1
  <2> QED
    BY <1>1, <2>1, Part
<1> HIDE DEF p, q
<1>4. \A i \in 1 .. n - m + 1 : m + i - 1 \in 1 .. Len(s)
  OBVIOUS
<1>5. q = p
  BY <1>1, <1>2, <1>3, <1>4, SeqEqual
<1> QED
  BY <1>5 DEF a, p, q

\* Places in a sequence of which k are gone and to which d come.
LEMMA Shift ==
    ASSUME NEW a \in Nat, NEW b \in Nat, NEW d \in Nat, NEW n \in Nat,
           NEW k \in 0 .. a, n + (a - k) = b
    PROVE  /\ n + ((a + d) - k) = b + d
           /\ \A j \in 1 .. (a + d) - k :
                 \/ j \in 1 .. a - k
                 \/ /\ j - (a - k) \in 1 .. d
                    /\ k + j = a + (j - (a - k)) /\ n + j = b + (j - (a - k))
OBVIOUS

\* c without its first k elements is o without its first n.
Match(c, k, o, n) == /\ n + (Len(c) - k) = Len(o)
                     /\ \A j \in 1 .. Len(c) - k : c[k + j] = o[n + j]

\* What both of two sequences go on with.
LEMMA JoinMatch ==
    ASSUME NEW S, NEW c \in Seq(S), NEW o \in Seq(S), NEW q \in Seq(S),
           NEW k \in 0 .. Len(c), NEW n \in Nat, Match(c, k, o, n)
    PROVE  Match(c \o q, k, o \o q, n)
<1> SUFFICES /\ n + (Len(c \o q) - k) = Len(o \o q)
             /\ \A j \in 1 .. Len(c \o q) - k : (c \o q)[k + j] = (o \o q)[n + j]
  BY DEF Match
<1>0. /\ n + (Len(c) - k) = Len(o)
      /\ \A j \in 1 .. Len(c) - k : c[k + j] = o[n + j]
  BY DEF Match
<1>1. /\ Len(c) \in Nat /\ Len(o) \in Nat /\ Len(q) \in Nat /\ k \in Nat
      /\ Len(c \o q) = Len(c) + Len(q) /\ Len(o \o q) = Len(o) + Len(q)
      /\ \A i \in 1 .. Len(c) : (c \o q)[i] = c[i]
      /\ \A i \in 1 .. Len(o) : (o \o q)[i] = o[i]
      /\ \A i \in 1 .. Len(q) : (c \o q)[Len(c) + i] = q[i]
      /\ \A i \in 1 .. Len(q) : (o \o q)[Len(o) + i] = q[i]
  BY Joined
<1>2. /\ n + ((Len(c) + Len(q)) - k) = Len(o) + Len(q)
      /\ \A j \in 1 .. (Len(c) + Len(q)) - k :
            \/ j \in 1 .. Len(c) - k
            \/ /\ j - (Len(c) - k) \in 1 .. Len(q)
               /\ k + j = Len(c) + (j - (Len(c) - k))
               /\ n + j = Len(o) + (j - (Len(c) - k))
  <2>1. /\ Len(c) \in Nat /\ Len(o) \in Nat /\ Len(q) \in Nat
        /\ k \in 0 .. Len(c) /\ n \in Nat /\ n + (Len(c) - k) = Len(o)
    BY <1>0, <1>1
  <2>2. PICK a \in Nat : a = Len(c)
    BY <2>1
  <2>3. PICK b \in Nat : b = Len(o)
    BY <2>1
  <2>4. PICK d \in Nat : d = Len(q)
    BY <2>1
  <2>5. k \in 0 .. a /\ n + (a - k) = b
    BY <2>1, <2>2, <2>3
  <2>6. /\ n + ((a + d) - k) = b + d
        /\ \A j \in 1 .. (a + d) - k :
              \/ j \in 1 .. a - k
              \/ /\ j - (a - k) \in 1 .. d
                 /\ k + j = a + (j - (a - k)) /\ n + j = b + (j - (a - k))
    BY <2>1, <2>5, Shift
  <2> QED
    BY <2>2, <2>3, <2>4, <2>6
<1>3. ASSUME NEW j \in 1 .. (Len(c) + Len(q)) - k
      PROVE  (c \o q)[k + j] = (o \o q)[n + j]
  <2>1. CASE j \in 1 .. Len(c) - k
    <3>1. k + j \in 1 .. Len(c) /\ n + j \in 1 .. Len(o)
      BY <1>0, <1>1, <2>1
    <3> QED
      BY <1>0, <1>1, <2>1, <3>1
  <2>2. CASE j \notin 1 .. Len(c) - k
    <3> DEFINE i == j - (Len(c) - k)
    <3>1. i \in 1 .. Len(q) /\ k + j = Len(c) + i /\ n + j = Len(o) + i
      BY <1>2, <2>2
    <3> HIDE DEF i
    <3> QED
      BY <1>1, <3>1
  <2> QED
    BY <2>1, <2>2
<1> QED
  BY <1>1, <1>2, <1>3

----------------------------------------------------------------------------
(* What the room owes the session.                                         *)

\* When the history was sent, the session had been answered.
Marks ==
    /\ srv = "asking" => marks = <<>>
    /\ Len(marks) = 2 => marks[1] <= marks[2]

\* The marks are places in the room, the first before the second.
LEMMA MarksAre ==
    ASSUME TypeOK, Marks, marks # <<>>
    PROVE  /\ Len(marks) \in {1, 2} /\ marks[1] \in 0 .. Len(room)
           /\ Len(marks) = 2 => marks[2] \in marks[1] .. Len(room)
<1>1. /\ marks \in Seq(0 .. Len(room)) /\ Len(marks) <= 2 /\ Len(room) \in Nat
  BY Types DEF TypeOK
<1>2. Len(marks) \in {1, 2}
  <2>1. Len(marks) \in Nat \ {0}
    BY <1>1, EmptySeq
  <2>2. Len(marks) <= 2
    BY <1>1
  <2>3. \A n \in Nat \ {0} : n <= 2 => n \in {1, 2}
    OBVIOUS
  <2> QED
    BY <2>1, <2>2, <2>3
<1>3. marks[1] \in 0 .. Len(room) /\ (Len(marks) = 2 => marks[2] \in 0 .. Len(room))
  BY <1>1, <1>2
<1> QED
  BY <1>1, <1>2, <1>3 DEF Marks

\* What is owed are texts of the room.
LEMMA OwedTyped ==
    ASSUME TypeOK, Marks, marks # <<>>
    PROVE  Owed \in Seq(Texts)
<1>1. room \in Seq(Texts) /\ Len(room) \in Nat
  BY Types
<1>2. \A a \in 0 .. Len(room) : \A b \in a .. Len(room) :
         SubSeq(room, a + 1, b) \in Seq(Texts)
  <2> SUFFICES ASSUME NEW a \in 0 .. Len(room), NEW b \in a .. Len(room)
               PROVE  SubSeq(room, a + 1, b) \in Seq(Texts)
    OBVIOUS
  <2>1. a + 1 \in 1 .. Len(room) + 1 /\ b \in a + 1 - 1 .. Len(room)
    BY <1>1
  <2> QED
    BY <1>1, <2>1, Part
<1>3. CASE Len(marks) = 1
  <2>1. marks[1] \in 0 .. Len(room) /\ Len(room) \in marks[1] .. Len(room)
    BY <1>1, MarksAre
  <2> QED
    BY <1>2, <1>3, <2>1 DEF Owed
<1>4. CASE Len(marks) = 2
  <2>1. /\ marks[1] \in 0 .. Len(room) /\ marks[2] \in marks[1] .. Len(room)
        /\ marks[2] \in 0 .. Len(room) /\ Len(room) \in marks[2] .. Len(room)
    BY <1>1, <1>4, MarksAre
  <2>2. /\ SubSeq(room, marks[1] + 1, marks[2]) \in Seq(Texts)
        /\ Newest(marks[2]) \in Seq(Texts)
        /\ SubSeq(room, marks[2] + 1, Len(room)) \in Seq(Texts)
    BY <1>2, <2>1, NewestIn
  <2>3. SubSeq(room, marks[1] + 1, marks[2]) \o Newest(marks[2]) \in Seq(Texts)
    BY <2>2, Joined
  <2> QED
    BY <1>4, <2>2, <2>3, Joined DEF Owed
<1> QED
  BY <1>3, <1>4, MarksAre

\* A broadcast is owed next.
LEMMA OwedGrows ==
    ASSUME TypeOK, Marks, marks # <<>>, NEW T, Texts \subseteq T, NEW line \in T,
           room' = Append(room, line), UNCHANGED marks
    PROVE  Owed' = Owed \o <<line>>
<1> DEFINE l == Len(room)
           r == Append(room, line)
<1>1. /\ room \in Seq(T) /\ l \in Nat /\ Len(r) = l + 1
      /\ m_max_recent_msgs \in Nat /\ Owed \in Seq(T)
  <2>1. room \in Seq(T) /\ Owed \in Seq(T)
    BY Types, OwedTyped, SeqGrows
  <2> QED
    BY <2>1, Types, Appended
<1>2. \A a \in 0 .. l : SubSeq(r, a + 1, l + 1) = Append(SubSeq(room, a + 1, l), line)
  <2> SUFFICES ASSUME NEW a \in 0 .. l
               PROVE  SubSeq(r, a + 1, l + 1) = Append(SubSeq(room, a + 1, l), line)
    OBVIOUS
  <2>1. a + 1 \in 1 .. Len(room) + 1
    BY <1>1
  <2> QED
    BY <1>1, <2>1, PartAppend
<1>3. \A a \in 1 .. l + 1 : \A b \in a - 1 .. l : SubSeq(r, a, b) = SubSeq(room, a, b)
  BY <1>1, PartBefore
<1>4. CASE Len(marks) = 1
  <2>1. marks[1] \in 0 .. l
    BY <1>4, MarksAre
  <2>2. Owed' = SubSeq(r, marks[1] + 1, l + 1) /\ Owed = SubSeq(room, marks[1] + 1, l)
    BY <1>1, <1>4 DEF Owed
  <2>3. Owed' = Append(Owed, line)
    BY <1>2, <2>1, <2>2
  <2> QED
    BY <1>1, <2>3, AppendIsConcat
<1>5. CASE Len(marks) = 2
  <2> DEFINE m == marks[1]
             n == marks[2]
             from == IF n > m_max_recent_msgs THEN n - m_max_recent_msgs + 1 ELSE 1
             A == SubSeq(room, m + 1, n)
             B == SubSeq(room, from, n)
             C == SubSeq(room, n + 1, l)
  <2>1. /\ m \in 0 .. l /\ n \in m .. l /\ n \in 0 .. l
        /\ from \in 1 .. l + 1 /\ n \in from - 1 .. l
        /\ m + 1 \in 1 .. l + 1 /\ n \in m + 1 - 1 .. l
        /\ n + 1 \in 1 .. l + 1 /\ l \in n + 1 - 1 .. l
    <3>1. m \in 0 .. l /\ n \in m .. l
      BY <1>5, MarksAre
    <3> QED
      BY <1>1, <3>1, SMTT(30)
  <2>2. Owed = (A \o B) \o C
    BY <1>5 DEF Owed, Newest
  <2>3. Owed' = (SubSeq(r, m + 1, n) \o SubSeq(r, from, n)) \o SubSeq(r, n + 1, l + 1)
    BY <1>1, <1>5 DEF Owed, Newest
  <2> HIDE DEF m, n, l, r, from
  <2>4. /\ SubSeq(r, m + 1, n) = A /\ SubSeq(r, from, n) = B
        /\ SubSeq(r, n + 1, l + 1) = Append(C, line)
    <3>1. SubSeq(r, m + 1, n) = A
      BY <1>3, <2>1
    <3>2. SubSeq(r, from, n) = B
      BY <1>3, <2>1
    <3> QED
      BY <1>2, <2>1, <3>1, <3>2
  <2>5. A \in Seq(T) /\ B \in Seq(T) /\ C \in Seq(T) /\ <<line>> \in Seq(T)
    <3>1. A \in Seq(T)
      BY <1>1, <2>1, Part DEF l
    <3>2. B \in Seq(T)
      BY <1>1, <2>1, Part DEF l
    <3>3. C \in Seq(T)
      BY <1>1, <2>1, Part DEF l
    <3> QED
      BY <3>1, <3>2, <3>3
  <2>6. Owed' = (A \o B) \o Append(C, line)
    BY <2>3, <2>4
  <2> HIDE DEF A, B, C
  <2>7. Append(C, line) = C \o <<line>> /\ A \o B \in Seq(T)
    BY <2>5, AppendIsConcat, Joined
  <2>8. (A \o B) \o (C \o <<line>>) = ((A \o B) \o C) \o <<line>>
    BY <2>5, <2>7, ConcatAssociative
  <2> QED
    BY <2>2, <2>6, <2>7, <2>8
<1> QED
  BY <1>4, <1>5, MarksAre

----------------------------------------------------------------------------
(* The inductive invariant: what is shown, and what is still to come.      *)

\* What the handler with the id n shows for t.
ReadBy(n, t) == Shown([name |-> "", id |-> n], t)

\* The name of a handler is for what it writes: it reads by its id.
LEMMA ReadById ==
    ASSUME NEW h, NEW t
    PROVE  Shown(h, t) = ReadBy(h.id, t)
BY DEF ReadBy, Shown, Parsed

\* n texts are all that is owed; of a session that is closed, the first.
Follows(n) == IF srv = "closed" THEN n <= Len(Owed) ELSE n = Len(Owed)

\* Behind the id comes what is owed.
Awaited ==
    \A k \in DOMAIN toClient : toClient[k].kind = "id" =>
        /\ marks # <<>>
        /\ Follows(Len(toClient) - k)
        /\ \A j \in 1 .. Len(toClient) - k : toClient[k + j] = Owed[j]

\* Once there is a handler, what is owed is shown, or on its way.
Reading ==
    m_is_connected /\ up /\ m_handshake_mode = "Ok" =>
        /\ m_message_handler.id = conn /\ marks # <<>>
        /\ Follows(Len(m_messages) + Len(toClient))
        /\ \A i \in DOMAIN m_messages : m_messages[i] = ReadBy(conn, Owed[i])
        /\ \A j \in DOMAIN toClient : toClient[j] = Owed[Len(m_messages) + j]

FInv == Marks /\ Awaited /\ Reading

IInv == TypeOK /\ NInv /\ FInv

\* A step at which nothing is sent, received, broadcast or shown.
LEMMA FeedSame ==
    ASSUME FInv, UNCHANGED <<m_messages, m_message_handler, up, conn, toClient,
                             srv, room, marks>>,
           m_is_connected' /\ m_handshake_mode' = "Ok"
              => m_is_connected /\ m_handshake_mode = "Ok"
    PROVE  FInv'
<1>1. Owed' = Owed
  BY DEF Owed, Newest
<1> QED
  BY <1>1 DEF FInv, Marks, Awaited, Reading, Follows

\* A step after which nothing is under way, and no handler speaks.
LEMMA FeedNone ==
    ASSUME FInv, toClient' = <<>>, ~up' \/ m_handshake_mode' # "Ok",
           \/ marks' = <<>>
           \/ srv' # "asking" /\ marks' = marks
    PROVE  FInv'
<1>1. DOMAIN <<>> = {}
  OBVIOUS
<1>2. Len(<<>>) = 0
  OBVIOUS
<1> QED
  BY <1>1, <1>2 DEF FInv, Marks, Awaited, Reading

\* A text is taken: what is behind the id moves one place.
LEMMA AwaitedNext ==
    ASSUME IInv, Receives, UNCHANGED <<srv, room, marks>>
    PROVE  Awaited'
<1>1. Owed' = Owed
  BY DEF Owed, Newest
<1>2. /\ toClient' = Tail(toClient) /\ toClient \in Seq(Texts)
      /\ toClient' \in Seq(Texts)
      /\ Len(toClient) \in Nat /\ Len(toClient') = Len(toClient) - 1
      /\ \A i \in 1 .. Len(toClient') : toClient'[i] = toClient[i + 1]
  BY Types, Tailed DEF IInv, Receives
<1> SUFFICES ASSUME NEW k \in DOMAIN toClient', toClient'[k].kind = "id"
             PROVE  /\ marks # <<>>
                    /\ Follows(Len(toClient') - k)
                    /\ \A j \in 1 .. Len(toClient') - k : toClient'[k + j] = Owed[j]
  BY <1>1 DEF Awaited, Follows
<1>3. /\ k \in 1 .. Len(toClient') /\ k + 1 \in DOMAIN toClient
      /\ toClient[k + 1].kind = "id"
      /\ Len(toClient) - (k + 1) = Len(toClient') - k
  BY <1>2
<1>4. /\ marks # <<>> /\ Follows(Len(toClient') - k)
      /\ \A j \in 1 .. Len(toClient') - k : toClient[(k + 1) + j] = Owed[j]
  BY <1>3 DEF IInv, FInv, Awaited
<1>5. ASSUME NEW j \in 1 .. Len(toClient') - k
      PROVE  toClient'[k + j] = Owed[j]
  <2>1. k + j \in 1 .. Len(toClient') /\ (k + j) + 1 = (k + 1) + j
    BY <1>2, <1>3
  <2> QED
    BY <1>2, <1>4, <2>1
<1> QED
  BY <1>4, <1>5

\* The id is received: nothing is shown yet, all that is owed is on its way.
LEMMA FeedId == IInv /\ ReceivesId => FInv'
<1> SUFFICES ASSUME IInv, ReceivesId PROVE FInv'
  OBVIOUS
<1>1. /\ Receives /\ text.kind = "id" /\ m_message_handler'.id = text.id
      /\ m_messages' = <<>>
      /\ UNCHANGED <<up, conn, srv, room, marks>>
  BY DEF ReceivesId, linkVars, serverVars
<1>2. Owed' = Owed
  BY <1>1 DEF Owed, Newest
<1>3. /\ toClient' = Tail(toClient) /\ toClient \in Seq(Texts) /\ text = toClient[1]
      /\ 1 \in DOMAIN toClient /\ toClient' \in Seq(Texts)
      /\ Len(toClient) \in Nat /\ Len(toClient') = Len(toClient) - 1
      /\ \A i \in 1 .. Len(toClient') : toClient'[i] = toClient[i + 1]
  BY <1>1, Types, Tailed DEF IInv, Receives, text
<1>4. text.id = conn
  BY <1>1, <1>3 DEF IInv, NInv, IdComesOnce, OneId
<1>5. /\ marks # <<>> /\ Follows(Len(toClient'))
      /\ \A j \in 1 .. Len(toClient') : toClient[1 + j] = Owed[j]
  BY <1>1, <1>3 DEF IInv, FInv, Awaited
<1>6. Marks' /\ Awaited'
  BY <1>1, AwaitedNext DEF IInv, FInv, Marks
<1>7. Reading'
  <2>1. /\ Len(m_messages') = 0 /\ DOMAIN m_messages' = {}
        /\ DOMAIN toClient' = 1 .. Len(toClient')
    BY <1>1, <1>3
  <2>2. \A j \in 1 .. Len(toClient') : toClient'[j] = Owed[0 + j]
    BY <1>3, <1>5
  <2>3. 0 + Len(toClient') = Len(toClient')
    BY <1>3
  <2>4. Follows(0 + Len(toClient'))
    BY <1>5, <2>3
  <2>5. /\ m_message_handler'.id = conn' /\ marks' # <<>>
        /\ Follows(Len(m_messages) + Len(toClient))'
    BY <1>1, <1>2, <1>4, <1>5, <2>1, <2>4 DEF Follows
  <2> QED
    BY <1>2, <2>1, <2>2, <2>5 DEF Reading
<1> QED
  BY <1>6, <1>7 DEF FInv

\* Another text instead of the id.
LEMMA FeedNoId == IInv /\ ReceivesNoId => FInv'
<1> SUFFICES ASSUME IInv, ReceivesNoId PROVE FInv'
  OBVIOUS
<1>1. Receives /\ UNCHANGED <<srv, room, marks>> /\ m_handshake_mode' # "Ok"
  BY DEF ReceivesNoId, shakerVars, serverVars
<1> QED
  BY <1>1, AwaitedNext DEF IInv, FInv, Marks, Reading

\* A message is received, and shown next.
LEMMA FeedMessage == IInv /\ ReceivesMessage => FInv'
<1> SUFFICES ASSUME IInv, ReceivesMessage PROVE FInv'
  OBVIOUS
<1>1. /\ Receives
      /\ UNCHANGED <<m_is_connected, m_message_handler, m_handshake_mode, up, conn,
                     srv, room, marks>>
  BY DEF ReceivesMessage, shakerVars, linkVars, serverVars
<1>2. Owed' = Owed
  BY <1>1 DEF Owed, Newest
<1>3. Marks' /\ Awaited'
  BY <1>1, AwaitedNext DEF IInv, FInv, Marks
<1>4. Reading'
  <2> SUFFICES ASSUME m_is_connected, up, m_handshake_mode = "Ok"
               PROVE  /\ m_message_handler.id = conn /\ marks # <<>>
                      /\ Follows(Len(m_messages') + Len(toClient'))
                      /\ \A i \in DOMAIN m_messages' :
                            m_messages'[i] = ReadBy(conn, Owed[i])
                      /\ \A j \in DOMAIN toClient' :
                            toClient'[j] = Owed[Len(m_messages') + j]
    BY <1>1, <1>2 DEF Reading, Follows
  <2>1. /\ m_message_handler.id = conn /\ marks # <<>>
        /\ Follows(Len(m_messages) + Len(toClient))
        /\ \A i \in DOMAIN m_messages : m_messages[i] = ReadBy(conn, Owed[i])
        /\ \A j \in DOMAIN toClient : toClient[j] = Owed[Len(m_messages) + j]
    BY DEF IInv, FInv, Reading
  <2>2. /\ toClient' = Tail(toClient) /\ toClient \in Seq(Texts) /\ text = toClient[1]
        /\ 1 \in DOMAIN toClient /\ toClient' \in Seq(Texts)
        /\ Len(toClient) \in Nat /\ Len(toClient') = Len(toClient) - 1
        /\ \A i \in 1 .. Len(toClient') : toClient'[i] = toClient[i + 1]
    BY <1>1, Types, Tailed DEF IInv, Receives, text
  <2>3. m_message_handler # NoHandler
    <3>1. conn # 0
      BY DEF IInv, NInv, Link
    <3>2. NoHandler.id = 0
      BY DEF NoHandler, None
    <3> QED
      BY <2>1, <3>1, <3>2
  <2> DEFINE e == Shown(m_message_handler, text)
  <2>4. m_messages' = Append(m_messages, e)
    BY <2>3 DEF ReceivesMessage
  <2>5. e \in Entries
    BY <1>1, ShownIsEntry DEF IInv, Receives
  <2>6. e = ReadBy(conn, text)
    BY <2>1, ReadById
  <2> HIDE DEF e
  <2>7. /\ m_messages' \in Seq(Entries) /\ m_messages \in Seq(Entries)
        /\ Len(m_messages) \in Nat
        /\ Len(m_messages') = Len(m_messages) + 1
        /\ \A i \in 1 .. Len(m_messages) : m_messages'[i] = m_messages[i]
        /\ m_messages'[Len(m_messages) + 1] = e
    BY <2>4, <2>5, Types, Appended DEF IInv
  <2>8. Len(m_messages') + Len(toClient') = Len(m_messages) + Len(toClient)
    BY <2>2, <2>7
  <2>9. ASSUME NEW i \in DOMAIN m_messages'
        PROVE  m_messages'[i] = ReadBy(conn, Owed[i])
    <3>1. i \in 1 .. Len(m_messages) \/ i = Len(m_messages) + 1
      BY <2>7
    <3>2. CASE i \in 1 .. Len(m_messages)
      BY <2>1, <2>7, <3>2
    <3>3. CASE i = Len(m_messages) + 1
      BY <2>1, <2>2, <2>6, <2>7, <3>3
    <3> QED
      BY <3>1, <3>2, <3>3
  <2>10. ASSUME NEW j \in DOMAIN toClient'
         PROVE  toClient'[j] = Owed[Len(m_messages') + j]
    <3>1. j \in 1 .. Len(toClient')
      BY <2>2
    <3>2. j + 1 \in DOMAIN toClient
      BY <2>2, <3>1
    <3>3. Len(m_messages) + (j + 1) = Len(m_messages') + j
      BY <2>7, <3>1
    <3>4. toClient[j + 1] = Owed[Len(m_messages) + (j + 1)]
      BY <2>1, <3>2
    <3> QED
      BY <2>2, <3>1, <3>3, <3>4
  <2> QED
    BY <2>1, <2>8, <2>9, <2>10
<1> QED
  BY <1>3, <1>4 DEF FInv

\* What is owed is shown and on its way, in the state of an open session.
LEMMA FollowsOpen ==
    ASSUME srv # "closed", NEW n, Follows(n)
    PROVE  n = Len(Owed)
BY DEF Follows

\* Texts that are no ids are sent, and owed.
LEMMA FeedGrow ==
    ASSUME IInv, srv # "closed", srv' # "closed",
           NEW T, Texts \subseteq T, NEW q \in Seq(T), NoId(q),
           toClient' = toClient \o q, Marks',
           marks # <<>> => marks' # <<>> /\ Owed' = Owed \o q,
           UNCHANGED <<m_messages, m_is_connected, m_handshake_mode,
                       m_message_handler, up, conn>>
    PROVE  FInv'
<1>1. /\ toClient \in Seq(T)
      /\ marks # <<>> => Owed \in Seq(T)
      /\ m_messages \in Seq(Entries)
  BY Types, SeqGrows, OwedTyped DEF IInv, FInv
<1>2. /\ Len(toClient) \in Nat /\ Len(q) \in Nat /\ Len(m_messages) \in Nat
      /\ Len(toClient') = Len(toClient) + Len(q) /\ toClient' \in Seq(T)
      /\ \A i \in 1 .. Len(toClient) : toClient'[i] = toClient[i]
      /\ \A i \in 1 .. Len(q) : toClient'[Len(toClient) + i] = q[i]
  BY <1>1, Joined
<1>3. Awaited'
  <2> SUFFICES ASSUME NEW k \in DOMAIN toClient', toClient'[k].kind = "id"
               PROVE  /\ marks' # <<>>
                      /\ Follows(Len(toClient) - k)'
                      /\ \A j \in 1 .. Len(toClient') - k : toClient'[k + j] = Owed'[j]
    BY DEF Awaited
  <2>1. k \in DOMAIN toClient /\ toClient[k].kind = "id"
    <3>1. k \in 1 .. Len(toClient) + Len(q) /\ k \in Nat
      BY <1>2
    <3>2. CASE k <= Len(toClient)
      BY <1>2, <3>1, <3>2
    <3>3. CASE k > Len(toClient)
      <4>1. k - Len(toClient) \in 1 .. Len(q) /\ k = Len(toClient) + (k - Len(toClient))
        BY <1>2, <3>1, <3>3
      <4>2. toClient'[k] = q[k - Len(toClient)] /\ k - Len(toClient) \in DOMAIN q
        BY <1>2, <4>1
      <4> QED
        BY <4>2 DEF NoId
    <3> QED
      BY <1>2, <3>1, <3>2, <3>3
  <2>2. /\ marks # <<>> /\ Len(toClient) - k = Len(Owed)
        /\ \A j \in 1 .. Len(toClient) - k : toClient[k + j] = Owed[j]
    BY <2>1, FollowsOpen DEF IInv, FInv, Awaited
  <2>3. k \in 0 .. Len(toClient) /\ Match(toClient, k, Owed, 0)
    <3>1. /\ k \in 0 .. Len(toClient)
          /\ 0 + (Len(toClient) - k) = Len(toClient) - k
          /\ \A j \in 1 .. Len(toClient) - k : 0 + j = j
      BY <1>2, <2>1
    <3> QED
      BY <2>2, <3>1 DEF Match
  <2>4. Owed \in Seq(T) /\ marks' # <<>> /\ Owed' = Owed \o q
    BY <1>1, <2>2
  <2>5. Match(toClient \o q, k, Owed \o q, 0)
    BY <1>1, <2>3, <2>4, JoinMatch
  <2>6. /\ 0 + (Len(toClient') - k) = Len(Owed')
        /\ \A j \in 1 .. Len(toClient') - k : toClient'[k + j] = Owed'[0 + j]
    BY <2>4, <2>5 DEF Match
  <2>7. Len(toClient') - k = Len(Owed')
    <3>1. Len(toClient') \in Nat /\ k \in Nat
      BY <1>2, <2>1
    <3> QED
      BY <2>6, <3>1
  <2>8. \A j \in 1 .. Len(toClient') - k : toClient'[k + j] = Owed'[j]
    <3>1. \A j \in 1 .. Len(toClient') - k : 0 + j = j
      OBVIOUS
    <3> QED
      BY <2>6, <3>1
  <2> QED
    BY <2>4, <2>7, <2>8 DEF Follows
<1>4. Reading'
  <2> SUFFICES ASSUME m_is_connected, up, m_handshake_mode = "Ok"
               PROVE  /\ m_message_handler.id = conn /\ marks' # <<>>
                      /\ Follows(Len(m_messages) + Len(toClient))'
                      /\ \A i \in DOMAIN m_messages : m_messages[i] = ReadBy(conn, Owed'[i])
                      /\ \A j \in DOMAIN toClient' :
                            toClient'[j] = Owed'[Len(m_messages) + j]
    BY DEF Reading
  <2>1. /\ m_message_handler.id = conn /\ marks # <<>>
        /\ Follows(Len(m_messages) + Len(toClient))
        /\ \A i \in DOMAIN m_messages : m_messages[i] = ReadBy(conn, Owed[i])
        /\ \A j \in DOMAIN toClient : toClient[j] = Owed[Len(m_messages) + j]
    BY DEF IInv, FInv, Reading
  <2>2. Len(m_messages) + Len(toClient) = Len(Owed)
    BY <2>1, FollowsOpen
  <2>3. Owed \in Seq(T) /\ marks' # <<>> /\ Owed' = Owed \o q
    BY <1>1, <2>1
  <2>4. /\ 0 \in 0 .. Len(toClient)
        /\ Len(m_messages) + (Len(toClient) - 0) = Len(Owed)
    BY <1>2, <2>2
  <2>5. Match(toClient, 0, Owed, Len(m_messages))
    <3>1. \A j \in 1 .. Len(toClient) - 0 : j \in DOMAIN toClient /\ 0 + j = j
      BY <1>2
    <3> QED
      BY <2>1, <2>4, <3>1 DEF Match
  <2>6. Match(toClient \o q, 0, Owed \o q, Len(m_messages))
    BY <1>1, <1>2, <2>3, <2>4, <2>5, JoinMatch
  <2>7. /\ Len(m_messages) + (Len(toClient') - 0) = Len(Owed')
        /\ \A j \in 1 .. Len(toClient') - 0 :
              toClient'[0 + j] = Owed'[Len(m_messages) + j]
    BY <2>3, <2>6 DEF Match
  <2>8. Len(m_messages) + Len(toClient') = Len(Owed')
    <3>1. Len(toClient') \in Nat /\ Len(toClient') - 0 = Len(toClient')
      BY <1>2
    <3> QED
      BY <2>7, <3>1
  <2>9. \A j \in DOMAIN toClient' : toClient'[j] = Owed'[Len(m_messages) + j]
    <3>1. \A j \in DOMAIN toClient' : j \in 1 .. Len(toClient') - 0 /\ 0 + j = j
      BY <1>2
    <3> QED
      BY <2>7, <3>1
  <2>10. \A i \in DOMAIN m_messages : Owed'[i] = Owed[i]
    <3>1. \A i \in 1 .. Len(Owed) : Owed'[i] = Owed[i]
      BY <2>3, Joined
    <3>2. \A i \in DOMAIN m_messages : i \in 1 .. Len(Owed)
      BY <1>1, <1>2, <2>2
    <3> QED
      BY <3>1, <3>2
  <2> QED
    BY <2>1, <2>3, <2>8, <2>9, <2>10 DEF Follows
<1> QED
  BY <1>3, <1>4 DEF FInv

\* A session that is closed is sent nothing more, whatever else it is owed.
LEMMA FeedBehind ==
    ASSUME IInv, srv' = "closed", Marks', marks # <<>> => marks' # <<>>,
           marks # <<>> => /\ Len(Owed') \in Nat /\ Len(Owed') >= Len(Owed)
                           /\ \A i \in 1 .. Len(Owed) : Owed'[i] = Owed[i],
           UNCHANGED <<m_messages, m_is_connected, m_handshake_mode,
                       m_message_handler, up, conn, toClient>>
    PROVE  FInv'
<1>1. /\ toClient \in Seq(Texts) /\ m_messages \in Seq(Entries)
      /\ Len(toClient) \in Nat /\ Len(m_messages) \in Nat
  BY Types DEF IInv
<1>2. marks # <<>> => Len(Owed) \in Nat
  BY OwedTyped, LenProperties DEF IInv, FInv
<1>3. ASSUME NEW n \in Nat, marks # <<>>, Follows(n)
      PROVE  n <= Len(Owed) /\ n <= Len(Owed')
  <2>1. n <= Len(Owed)
    BY <1>2, <1>3 DEF Follows
  <2>2. Len(Owed') \in Nat /\ Len(Owed') >= Len(Owed)
    BY <1>3
  <2> QED
    BY <1>2, <1>3, <2>1, <2>2
<1>4. Awaited'
  <2> SUFFICES ASSUME NEW k \in DOMAIN toClient, toClient[k].kind = "id"
               PROVE  /\ marks' # <<>>
                      /\ Follows(Len(toClient) - k)'
                      /\ \A j \in 1 .. Len(toClient) - k : toClient[k + j] = Owed'[j]
    BY DEF Awaited
  <2>1. /\ marks # <<>> /\ Follows(Len(toClient) - k)
        /\ \A j \in 1 .. Len(toClient) - k : toClient[k + j] = Owed[j]
    BY DEF IInv, FInv, Awaited
  <2>2. Len(toClient) - k \in Nat
    BY <1>1
  <2>3. Len(toClient) - k <= Len(Owed) /\ Len(toClient) - k <= Len(Owed')
    BY <1>3, <2>1, <2>2
  <2>4. \A j \in 1 .. Len(toClient) - k : j \in 1 .. Len(Owed)
    BY <1>2, <2>1, <2>2, <2>3
  <2> QED
    BY <2>1, <2>3, <2>4 DEF Follows
<1>5. Reading'
  <2> SUFFICES ASSUME m_is_connected, up, m_handshake_mode = "Ok"
               PROVE  /\ m_message_handler.id = conn /\ marks' # <<>>
                      /\ Follows(Len(m_messages) + Len(toClient))'
                      /\ \A i \in DOMAIN m_messages : m_messages[i] = ReadBy(conn, Owed'[i])
                      /\ \A j \in DOMAIN toClient :
                            toClient[j] = Owed'[Len(m_messages) + j]
    BY DEF Reading
  <2>1. /\ m_message_handler.id = conn /\ marks # <<>>
        /\ Follows(Len(m_messages) + Len(toClient))
        /\ \A i \in DOMAIN m_messages : m_messages[i] = ReadBy(conn, Owed[i])
        /\ \A j \in DOMAIN toClient : toClient[j] = Owed[Len(m_messages) + j]
    BY DEF IInv, FInv, Reading
  <2>2. Len(m_messages) + Len(toClient) \in Nat
    BY <1>1
  <2>3. /\ Len(m_messages) + Len(toClient) <= Len(Owed)
        /\ Len(m_messages) + Len(toClient) <= Len(Owed')
    BY <1>3, <2>1, <2>2
  <2>4. /\ \A i \in DOMAIN m_messages : i \in 1 .. Len(Owed)
        /\ \A j \in DOMAIN toClient : Len(m_messages) + j \in 1 .. Len(Owed)
    <3>1. DOMAIN m_messages = 1 .. Len(m_messages) /\ DOMAIN toClient = 1 .. Len(toClient)
      BY <1>1
    <3>2. PICK m \in Nat : m = Len(m_messages)
      BY <1>1
    <3>3. PICK c \in Nat : c = Len(toClient)
      BY <1>1
    <3>4. PICK o \in Nat : o = Len(Owed)
      BY <1>2, <2>1
    <3>5. m + c <= o
      BY <2>3, <3>2, <3>3, <3>4
    <3>6. (\A i \in 1 .. m : i \in 1 .. o) /\ (\A j \in 1 .. c : m + j \in 1 .. o)
      BY <3>5
    <3> QED
      BY <3>1, <3>2, <3>3, <3>4, <3>6
  <2> QED
    BY <2>1, <2>3, <2>4 DEF Follows
<1> QED
  BY <1>4, <1>5 DEF FInv

\* The id is sent: from now on the session is owed what is said.
LEMMA FeedAnswers == IInv /\ ServerAnswers => FInv'
<1> SUFFICES ASSUME IInv, ServerAnswers PROVE FInv'
  OBVIOUS
<1>1. /\ srv = "asking" /\ srv' = "answered" /\ marks' = <<Len(room)>> /\ room' = room
      /\ toClient' = Append(toClient, IdText(conn))
      /\ UNCHANGED <<m_is_connected, up, m_handshake_mode>>
  BY DEF ServerAnswers, clientVars, viewVars, shakerVars, linkVars
<1>2. /\ toClient \in Seq(Texts) /\ room \in Seq(Texts) /\ Len(room) \in Nat
      /\ IdText(conn) \in Texts
  <2>1. conn \in 0 .. conn /\ 0 \in 0 .. written
    BY Types DEF IInv
  <2> QED
    BY <2>1, Types DEF IInv, IdText, Text, Texts
<1>3. NoId(toClient)
  BY <1>1 DEF IInv, NInv, IdComesOnce
<1>4. /\ Len(toClient) \in Nat /\ Len(toClient') = Len(toClient) + 1
      /\ toClient' \in Seq(Texts)
      /\ \A i \in 1 .. Len(toClient) : toClient'[i] = toClient[i]
  BY <1>1, <1>2, Appended
<1>5. Marks' /\ marks' # <<>> /\ Len(marks') = 1 /\ marks'[1] = Len(room)
  BY <1>1 DEF Marks
<1>6. Len(Owed') = 0
  <2>1. Owed' = SubSeq(room, Len(room) + 1, Len(room))
    BY <1>1, <1>5 DEF Owed
  <2>2. Len(room) + 1 \in 1 .. Len(room) + 1 /\ Len(room) \in (Len(room) + 1) - 1 .. Len(room)
    BY <1>2
  <2>3. Len(SubSeq(room, Len(room) + 1, Len(room))) = Len(room) - (Len(room) + 1) + 1
    BY <1>2, <2>2, Part
  <2> QED
    BY <1>2, <2>1, <2>3
<1>7. Awaited'
  <2> SUFFICES ASSUME NEW k \in DOMAIN toClient', toClient'[k].kind = "id"
               PROVE  /\ Follows(Len(toClient) - k)'
                      /\ \A j \in 1 .. Len(toClient') - k : toClient'[k + j] = Owed'[j]
    BY <1>5 DEF Awaited
  <2>1. k \in 1 .. Len(toClient')
    BY <1>4
  <2>2. k \notin 1 .. Len(toClient)
    BY <1>3, <1>4 DEF NoId
  <2>3. Len(toClient') - k = 0
    BY <1>4, <2>1, <2>2
  <2> QED
    BY <1>1, <1>6, <2>3 DEF Follows
<1>8. Reading'
  BY <1>1 DEF IInv, FInv, Marks, Reading
<1> QED
  BY <1>5, <1>7, <1>8 DEF FInv

\* The history is sent, and owed from now on.
LEMMA FeedAccepts == IInv /\ ServerAccepts => FInv'
<1> SUFFICES ASSUME IInv, ServerAccepts PROVE FInv'
  OBVIOUS
<1>1. /\ srv = "answered" /\ srv' = "accepted" /\ marks' = Append(marks, Len(room))
      /\ toClient' = toClient \o Newest(Len(room)) /\ room' = room
      /\ UNCHANGED <<m_messages, m_is_connected, m_handshake_mode, m_message_handler, up, conn>>
  BY DEF ServerAccepts, clientVars, viewVars, shakerVars, linkVars
<1>2. /\ room \in Seq(Texts) /\ Len(room) \in Nat /\ marks \in Seq(0 .. Len(room))
      /\ Len(room) \in 0 .. Len(room)
  BY Types DEF IInv
<1>3. Len(marks) = 1 /\ marks # <<>> /\ marks[1] \in 0 .. Len(room)
  <2>1. Len(marks) = 1
    BY <1>1 DEF IInv, NInv, Link
  <2> QED
    BY <1>2, <2>1
<1>4. /\ Len(marks') = 2 /\ marks'[1] = marks[1] /\ marks'[2] = Len(room) /\ marks' # <<>>
  <2>1. /\ Len(marks') = Len(marks) + 1 /\ marks' \in Seq(0 .. Len(room))
        /\ \A i \in 1 .. Len(marks) : marks'[i] = marks[i]
        /\ marks'[Len(marks) + 1] = Len(room)
    BY <1>1, <1>2, Appended
  <2>2. Len(marks') = 2
    BY <1>3, <2>1
  <2> QED
    BY <1>3, <2>1, <2>2
<1>5. Marks'
  <2>1. marks[1] <= Len(room)
    BY <1>2, <1>3
  <2> QED
    BY <1>1, <1>4, <2>1 DEF Marks
<1>6. Newest(Len(room)) \in Seq(Texts) /\ NoId(Newest(Len(room)))
  <2>1. /\ Newest(Len(room)) \in Seq(Texts)
        /\ Elements(Newest(Len(room))) \subseteq Elements(room)
    BY <1>2, NewestIn DEF IInv
  <2>2. \A t \in Elements(Newest(Len(room))) : t.kind # "id"
    BY <2>1 DEF IInv, NInv, Speech, Said
  <2> QED
    BY <2>1, <2>2 DEF NoId, Elements
<1>7. Owed' = Owed \o Newest(Len(room))
  <2> DEFINE A == SubSeq(room, marks[1] + 1, Len(room))
             B == Newest(Len(room))
             C == SubSeq(room, Len(room) + 1, Len(room))
  <2>1. Owed = A
    BY <1>3 DEF Owed
  <2>2. Owed' = (A \o B) \o C
    BY <1>1, <1>4 DEF Owed, Newest
  <2>3. C = <<>>
    <3>1. Len(room) + 1 \in 1 .. Len(room) + 1 /\ Len(room) \in (Len(room) + 1) - 1 .. Len(room)
      BY <1>2
    <3>2. C \in Seq(Texts) /\ Len(C) = Len(room) - (Len(room) + 1) + 1
      BY <1>2, <3>1, Part
    <3>3. Len(C) = 0
      BY <1>2, <3>2
    <3> QED
      BY <3>2, <3>3, EmptySeq
  <2>4. A \in Seq(Texts) /\ B \in Seq(Texts)
    BY <1>3, <1>6, <2>1, OwedTyped DEF IInv, FInv
  <2> HIDE DEF A, B, C
  <2>5. A \o B \in Seq(Texts)
    BY <2>4, Joined
  <2>6. (A \o B) \o C = A \o B
    BY <2>3, <2>5, ConcatEmptySeq
  <2> QED
    BY <2>1, <2>2, <2>6 DEF B
<1>8. srv # "closed" /\ srv' # "closed" /\ Texts \subseteq Texts
  BY <1>1
<1> QED
  BY <1>1, <1>4, <1>5, <1>6, <1>7, <1>8, FeedGrow

\* A broadcast is sent to the session unless it is closed.
LEMMA FeedBroadcast ==
    ASSUME IInv, NEW line, Broadcasts(line), line.kind # "id",
           UNCHANGED <<clientVars, srv, marks>>
    PROVE  FInv'
<1> DEFINE T == Texts \cup {line}
<1>1. /\ room' = Append(room, line)
      /\ toClient' = IF srv = "closed" THEN toClient ELSE Append(toClient, line)
  BY DEF Broadcasts
<1>2. UNCHANGED <<m_messages, m_is_connected, m_handshake_mode, m_message_handler, up, conn>>
  BY DEF clientVars, viewVars, shakerVars, linkVars
<1>3. Texts \subseteq T /\ line \in T
  OBVIOUS
<1>4. toClient \in Seq(T)
  BY <1>3, Types, SeqGrows DEF IInv
<1> HIDE DEF T
<1>5. Marks' /\ (marks # <<>> => marks' # <<>>)
  BY DEF IInv, FInv, Marks
<1>6. marks # <<>> => Owed' = Owed \o <<line>>
  BY <1>1, <1>3, OwedGrows DEF IInv, FInv
<1>7. <<line>> \in Seq(T) /\ Len(<<line>>) = 1 /\ NoId(<<line>>)
  BY <1>3 DEF NoId
<1>8. CASE srv = "closed"
  <2>1. ASSUME marks # <<>>
        PROVE  /\ Len(Owed') \in Nat /\ Len(Owed') >= Len(Owed)
               /\ \A i \in 1 .. Len(Owed) : Owed'[i] = Owed[i]
    <3>1. Owed \in Seq(Texts)
      BY <2>1, OwedTyped DEF IInv, FInv
    <3>2. Owed \in Seq(T)
      BY <1>3, <3>1, SeqGrows
    <3>3. /\ Len(Owed') = Len(Owed) + 1 /\ Len(Owed) \in Nat
          /\ \A i \in 1 .. Len(Owed) : Owed'[i] = Owed[i]
      BY <1>6, <1>7, <2>1, <3>2, Joined
    <3>4. Len(Owed') \in Nat /\ Len(Owed') >= Len(Owed)
      BY <3>3
    <3> QED
      BY <3>3, <3>4
  <2>2. srv' = "closed" /\ toClient' = toClient
    BY <1>1, <1>8
  <2> QED
    BY <1>2, <1>5, <2>1, <2>2, FeedBehind
<1>9. CASE srv # "closed"
  <2>1. toClient' = toClient \o <<line>>
    BY <1>1, <1>3, <1>4, <1>9, AppendIsConcat
  <2>2. srv' # "closed"
    BY <1>9
  <2> QED
    BY <1>2, <1>3, <1>5, <1>6, <1>7, <1>9, <2>1, <2>2, FeedGrow
<1> QED
  BY <1>8, <1>9

\* No line that is broadcast is an id.
LEMMA FeedSpeaks ==
    ASSUME IInv, ServerReads \/ ServerReadsLate \/ OtherSpeaks
    PROVE  FInv'
<1>1. CASE ServerReads
  <2>1. /\ toServer # <<>> /\ Broadcasts(Head(toServer))
        /\ UNCHANGED <<clientVars, srv, marks>>
    BY <1>1 DEF ServerReads
  <2>2. Head(toServer) \in Said
    BY <2>1, Types, Tailed DEF Said, IInv
  <2>3. Head(toServer).kind # "id"
    BY <2>2 DEF IInv, NInv, Speech
  <2> QED
    BY <2>1, <2>3, FeedBroadcast
<1>2. CASE ServerReadsLate
  <2>1. /\ late # <<>> /\ Broadcasts(Head(late))
        /\ UNCHANGED <<clientVars, srv, marks>>
    BY <1>2 DEF ServerReadsLate
  <2>2. Head(late) \in Said
    BY <2>1, Types, Tailed DEF Said, IInv
  <2>3. Head(late).kind # "id"
    BY <2>2 DEF IInv, NInv, Speech
  <2> QED
    BY <2>1, <2>3, FeedBroadcast
<1>3. CASE OtherSpeaks
  <2> DEFINE x == Text("json", Other, None, written', None)
  <2>1. Broadcasts(x) /\ UNCHANGED <<clientVars, srv, marks>>
    BY <1>3 DEF OtherSpeaks
  <2>2. x.kind # "id"
    BY DEF Text
  <2> HIDE DEF x
  <2> QED
    BY <2>1, <2>2, FeedBroadcast
<1> QED
  BY <1>1, <1>2, <1>3

\* A session that closes has been sent all that it is owed until then.
LEMMA FeedCloses == IInv /\ ServerCloses => FInv'
<1> SUFFICES ASSUME IInv, ServerCloses PROVE FInv'
  OBVIOUS
<1>1. /\ srv' = "closed" /\ UNCHANGED <<clientVars, toClient, room, marks>>
  BY DEF ServerCloses
<1>2. /\ UNCHANGED <<m_messages, m_is_connected, m_handshake_mode, m_message_handler,
                     up, conn, toClient>>
      /\ Owed' = Owed
  BY <1>1 DEF clientVars, viewVars, shakerVars, linkVars, Owed, Newest
<1>3. marks # <<>> => Len(Owed) \in Nat
  BY OwedTyped, LenProperties DEF IInv, FInv
<1>4. Marks' /\ (marks # <<>> => marks' # <<>>)
  BY <1>1 DEF IInv, FInv, Marks
<1>5. ASSUME marks # <<>>
      PROVE  /\ Len(Owed') \in Nat /\ Len(Owed') >= Len(Owed)
             /\ \A i \in 1 .. Len(Owed) : Owed'[i] = Owed[i]
  BY <1>2, <1>3, <1>5
<1> QED
  BY <1>1, <1>2, <1>4, <1>5, FeedBehind

\* At the start nothing is owed.
LEMMA FeedInit == Init => FInv
<1>1. DOMAIN <<>> = {} /\ Len(<<>>) = 0
  OBVIOUS
<1> QED
  BY <1>1 DEF Init, FInv, Marks, Awaited, Reading

\* Every step keeps what is owed, under way and shown behind each other.
LEMMA FeedNext == IInv /\ [Next]_vars => FInv'
<1> SUFFICES ASSUME IInv, [Next]_vars PROVE FInv'
  OBVIOUS
<1>1. CASE ClickConnect \/ LookupFails \/ (\E name \in Names : EditUsername(name))
           \/ ClickSend \/ UNCHANGED vars
  <2>1. /\ UNCHANGED <<m_messages, m_message_handler, up, conn, toClient, srv, room, marks>>
        /\ m_is_connected' /\ m_handshake_mode' = "Ok"
              => m_is_connected /\ m_handshake_mode = "Ok"
    BY <1>1 DEF ClickConnect, LookupFails, EditUsername, ClickSend, vars, viewVars,
       shakerVars, linkVars, serverVars
  <2> QED
    BY <2>1, FeedSame DEF IInv
<1>2. CASE ClickDisconnect \/ EditServer \/ RemoteCloses \/ LinkBreaks
  <2>1. toClient' = <<>> /\ ~up' /\ srv' = "closed" /\ marks' = marks
    BY <1>2 DEF ClickDisconnect, EditServer, RemoteCloses, LinkBreaks, LinkDown
  <2>2. srv' # "asking"
    BY <2>1
  <2> QED
    BY <2>1, <2>2, FeedNone DEF IInv
<1>3. CASE Connects
  <2>1. CASE up
    <3>1. /\ UNCHANGED <<m_messages, m_message_handler, up, conn, toClient, srv, room, marks>>
          /\ m_handshake_mode' # "Ok"
      BY <1>3, <2>1 DEF Connects, viewVars
    <3> QED
      BY <3>1, FeedSame DEF IInv
  <2>2. CASE ~up
    <3>1. toClient' = <<>> /\ marks' = <<>> /\ m_handshake_mode' # "Ok"
      BY <1>3, <2>2 DEF Connects
    <3> QED
      BY <3>1, FeedNone DEF IInv
  <2> QED
    BY <2>1, <2>2
<1> QED
  BY <1>1, <1>2, <1>3, FeedId, FeedNoId, FeedMessage, FeedAnswers, FeedAccepts,
     FeedSpeaks, FeedCloses DEF Next, Gui, User

\* The conjunction of all the parts is an invariant.
THEOREM Invariant == Spec => []IInv
<1>1. Init => IInv
  BY NamesInit, FeedInit DEF IInv
<1>2. IInv /\ [Next]_vars => IInv'
  BY NamesNext, FeedNext DEF IInv
<1> QED
  BY <1>1, <1>2, PTL DEF Spec

\* What is equal in all places up to the end of s begins with s.
LEMMA Prefixed ==
    ASSUME NEW S, NEW s \in Seq(S), NEW t \in Seq(S), Len(s) <= Len(t),
           \A i \in 1 .. Len(s) : s[i] = t[i]
    PROVE  IsPrefix(s, t)
<1>1. /\ Len(s) \in Nat /\ Len(t) \in Nat
      /\ 1 \in 1 .. Len(s) + 1 /\ Len(s) \in 1 - 1 .. Len(s)
      /\ 1 \in 1 .. Len(t) + 1 /\ Len(s) \in 1 - 1 .. Len(t)
  BY LenProperties
<1>2. /\ SubSeq(s, 1, Len(s)) \in Seq(S) /\ Len(SubSeq(s, 1, Len(s))) = Len(s) - 1 + 1
      /\ \A i \in 1 .. Len(s) - 1 + 1 : SubSeq(s, 1, Len(s))[i] = s[1 + i - 1]
  BY <1>1, Part
<1>3. /\ SubSeq(t, 1, Len(s)) \in Seq(S) /\ Len(SubSeq(t, 1, Len(s))) = Len(s) - 1 + 1
      /\ \A i \in 1 .. Len(s) - 1 + 1 : SubSeq(t, 1, Len(s))[i] = t[1 + i - 1]
  BY <1>1, Part
<1>4. \A i \in 1 .. Len(s) - 1 + 1 : i \in 1 .. Len(s) /\ 1 + i - 1 = i
  BY <1>1
<1>5. SubSeq(s, 1, Len(s)) = SubSeq(t, 1, Len(s))
  <2> DEFINE p == SubSeq(s, 1, Len(s))
             q == SubSeq(t, 1, Len(s))
  <2>1. /\ p \in Seq(S) /\ q \in Seq(S) /\ Len(p) = Len(q)
        /\ \A i \in 1 .. Len(p) : p[i] = q[i]
    BY <1>2, <1>3, <1>4
  <2> HIDE DEF p, q
  <2> QED
    BY <2>1, SeqEqual DEF p, q
<1> QED
  BY <1>5 DEF IsPrefix

\* The list of a connected view, with what is on its way, is what the room owes
\* this session, each message read by the session's own id: nothing is missing
\* but what follows the server's close, and nothing is left of an earlier
\* connection, for any number of connections and broadcasts.
THEOREM ShownIsOwed == Spec => []ShownIsRoom
<1>1. IInv => ShownIsRoom
  <2> DEFINE reader(t) == Shown([name |-> m_username, id |-> conn], t)
             d == [i \in DOMAIN toClient |-> reader(toClient[i])]
             o == [i \in DOMAIN Owed |-> reader(Owed[i])]
  <2> SUFFICES ASSUME IInv, m_is_connected, up, m_handshake_mode = "Ok"
               PROVE  IF srv = "closed" THEN IsPrefix(m_messages \o d, o)
                      ELSE m_messages \o d = o
    BY DEF ShownIsRoom
  <2>1. /\ marks # <<>>
        /\ Follows(Len(m_messages) + Len(toClient))
        /\ \A i \in DOMAIN m_messages : m_messages[i] = ReadBy(conn, Owed[i])
        /\ \A j \in DOMAIN toClient : toClient[j] = Owed[Len(m_messages) + j]
    BY DEF IInv, FInv, Reading
  <2>2. /\ toClient \in Seq(Texts) /\ Owed \in Seq(Texts) /\ m_messages \in Seq(Entries)
    BY <2>1, Types, OwedTyped DEF IInv, FInv
  <2>3. \A t : reader(t) = ReadBy(conn, t)
    <3> SUFFICES ASSUME NEW t PROVE reader(t) = ReadBy(conn, t)
      OBVIOUS
    <3> QED
      BY DEF ReadBy, Shown, Parsed
  <2> HIDE DEF reader
  <2> DEFINE X == Entries \cup {reader(t) : t \in Texts}
  <2>4. m_messages \in Seq(X)
    BY <2>2, SeqGrows
  <2>5. /\ d \in Seq(X) /\ Len(d) = Len(toClient)
        /\ \A i \in 1 .. Len(toClient) : d[i] = reader(toClient[i])
    BY <2>2
  <2>6. /\ o \in Seq(X) /\ Len(o) = Len(Owed)
        /\ \A i \in 1 .. Len(Owed) : o[i] = reader(Owed[i])
    BY <2>2
  <2> HIDE DEF X, d, o
  <2> DEFINE s == m_messages \o d
  <2>7. /\ s \in Seq(X) /\ Len(s) = Len(m_messages) + Len(toClient)
        /\ \A i \in 1 .. Len(m_messages) : s[i] = m_messages[i]
        /\ \A i \in 1 .. Len(toClient) : s[Len(m_messages) + i] = reader(toClient[i])
    <3>1. /\ s \in Seq(X) /\ Len(s) = Len(m_messages) + Len(d)
          /\ \A i \in 1 .. Len(m_messages) : s[i] = m_messages[i]
          /\ \A i \in 1 .. Len(d) : s[Len(m_messages) + i] = d[i]
      <4>1. \A e \in Seq(X) :
               /\ m_messages \o e \in Seq(X)
               /\ Len(m_messages \o e) = Len(m_messages) + Len(e)
               /\ \A i \in 1 .. Len(m_messages) : (m_messages \o e)[i] = m_messages[i]
               /\ \A i \in 1 .. Len(e) : (m_messages \o e)[Len(m_messages) + i] = e[i]
        BY <2>4, ConcatProperties
      <4> QED
        BY <2>5, <4>1
    <3> HIDE DEF s
    <3> QED
      BY <2>5, <3>1
  <2>8. /\ Len(m_messages) \in Nat /\ Len(toClient) \in Nat /\ Len(Owed) \in Nat
        /\ DOMAIN m_messages = 1 .. Len(m_messages)
        /\ DOMAIN toClient = 1 .. Len(toClient)
    BY <2>2
  <2> HIDE DEF s
  <2>9. Len(s) <= Len(o) /\ (srv # "closed" => Len(s) = Len(o))
    BY <2>1, <2>6, <2>7, <2>8 DEF Follows
  <2>10. ASSUME NEW i \in 1 .. Len(s)
         PROVE  s[i] = o[i]
    <3>1. i \in 1 .. Len(Owed) /\ o[i] = reader(Owed[i])
      BY <2>6, <2>7, <2>8, <2>9
    <3>2. CASE i \in 1 .. Len(m_messages)
      BY <2>1, <2>3, <2>7, <2>8, <3>1, <3>2
    <3>3. CASE i \notin 1 .. Len(m_messages)
      <4> DEFINE j == i - Len(m_messages)
      <4>1. j \in 1 .. Len(toClient) /\ i = Len(m_messages) + j
        BY <2>7, <2>8, <3>3
      <4> HIDE DEF j
      <4>2. s[i] = reader(toClient[j]) /\ toClient[j] = Owed[i]
        BY <2>1, <2>7, <2>8, <4>1
      <4> QED
        BY <3>1, <4>2
    <3> QED
      BY <3>2, <3>3
  <2>11. CASE srv = "closed"
    BY <2>6, <2>7, <2>9, <2>10, <2>11, Prefixed DEF s
  <2>12. CASE srv # "closed"
    <3>1. s = o
      BY <2>6, <2>7, <2>9, <2>10, <2>12, SeqEqual
    <3> QED
      BY <2>12, <3>1 DEF s
  <2> QED
    BY <2>11, <2>12
<1> QED
  BY <1>1, Invariant, PTL

=============================================================================
