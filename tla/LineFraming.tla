---------------------------- MODULE LineFraming -----------------------------
(***************************************************************************)
(* How bytes become messages again.  A client sends its password and then  *)
(* its messages, each ended by m_delim; TCP hands them on in pieces of any *)
(* size.  The session's reader keeps what it has read in read_msg and      *)
(* broadcasts; another client decodes what a read gives it and splits that *)
(* at m_delim.  What this receiver is given depends on its place in the    *)
(* room, where it gets broadcasts before it is admitted.                   *)
(*                                                                         *)
(* A byte is a value of Bytes, CR or LF.  A character is one byte, or two  *)
(* of which the first is one of Leads and the second one of Tails; longer  *)
(* ones are cut alike.  What the sessions' outboxes hold counts as under   *)
(* way (ChatServer models them).                                           *)
(***************************************************************************)
EXTENDS Naturals, Sequences, SequencesExt, FiniteSetsExt

CONSTANTS Bytes,            \* what a message is made of
          Leads, Tails,     \* the bytes of characters of two bytes
          Bad,              \* U+FFFD, shown in the place of half a character
          Scripts,          \* the lines a client may send, the password first
          MaxLines,         \* bound: lines of a script
          SessionId,        \* the receiver's
          CR, LF,
          m_read_buff_len,
          m_max_recent_msgs

\* Half a character without the other half.
Alone(s, i) ==
    \/ s[i] \in Leads /\ ~(i < Len(s) /\ s[i + 1] \in Tails)
    \/ s[i] \in Tails /\ ~(i > 1 /\ s[i - 1] \in Leads)

\* Mutant: bytes that are not UTF-8 are passed over.
Decoded_Skipping(s) ==
    FlattenSeq([i \in DOMAIN s |-> IF Alone(s, i) THEN <<>> ELSE <<s[i]>>])

\* QString(QByteArray): UTF-8, with a mark in the place of what is not.  (Bytes
\* stand for what they decode to.)
Decoded(s) == [i \in DOMAIN s |-> IF Alone(s, i) THEN Bad ELSE s[i]]

\* What a client sends is UTF-8: QString::toStdString().
ASSUME FramingAssumption ==
    /\ CR # LF /\ CR \notin Bytes /\ LF \notin Bytes
    /\ Leads \cup Tails \subseteq Bytes /\ Leads \cap Tails = {}
    /\ Bad \notin Bytes \cup {CR, LF}
    /\ \A script \in Scripts :
          /\ script \in Seq(Seq(Bytes)) /\ Len(script) \in 1 .. MaxLines
          /\ \A k \in DOMAIN script : Decoded(script[k]) = script[k]
    /\ SessionId \in Seq(Bytes \ (Leads \cup Tails))
    /\ m_read_buff_len \in Nat \ {0}
    /\ m_max_recent_msgs \in Nat

VARIABLES
    lines,          \* what the sender has to say; never changes
    sent,           \* how many of them it has sent
    toServer,       \* bytes on their way to the server
    admitted,       \* the password was read
    read_msg,       \* the buffer of the read that is under way
    reader,         \* "reading" or "ended"
    forwarded,      \* history: the messages given to ChatRoom::deliver()
    place,          \* the receiver's in the room: "out", "member", "answered"
                    \* (it has its session id) or "admitted"
    toClient,       \* bytes on their way to the receiver
    shown,          \* history: the messages the receiver's presenter is given
    given,          \* history: the texts given to ChatSession::deliver() for it
    pipelined,      \* history: a line was sent before its predecessor was read
    torn,           \* history: some read of the receiver was not whole
    cut             \* history: some read of the receiver ended in a character

senderVars   == <<lines, sent>>
readerVars   == <<admitted, read_msg, reader, forwarded>>
outboxVars   == <<toClient, given>>
receiverVars == <<shown, torn, cut>>
vars == <<senderVars, toServer, readerVars, place, outboxVars, receiverVars,
          pipelined>>

m_delim == <<CR, LF>>

Init ==
    /\ lines \in Scripts
    /\ sent = 0
    /\ toServer = <<>>
    /\ admitted = FALSE
    /\ read_msg = <<>>
    /\ reader = "reading"
    /\ forwarded = <<>>
    /\ place = "out"
    /\ toClient = <<>> /\ given = <<>>
    /\ shown = <<>>
    /\ pipelined = FALSE
    /\ torn = FALSE /\ cut = FALSE

----------------------------------------------------------------------------
(* The sender.                                                             *)

\* How many of the lines the server has consumed.
Consumed == Len(forwarded) + (IF admitted THEN 1 ELSE 0)

\* The view sends messages, and the handshaker the name, once connected: when
\* the session id has come.
MaySend == sent < Len(lines) /\ (sent = 0 \/ admitted)

SendsLine ==
    /\ MaySend
    /\ sent' = sent + 1
    /\ toServer' = toServer \o lines[sent + 1] \o m_delim
    /\ pipelined' = (pipelined \/ sent > Consumed)
    /\ UNCHANGED <<lines, readerVars, place, outboxVars, receiverVars>>

----------------------------------------------------------------------------
(* The session.                                                            *)

\* The places of the first bytes of delimiters.
Delims(s) == {i \in 1 .. Len(s) - 1 : s[i] = CR /\ s[i + 1] = LF}

\* async_read_until(): the number of bytes up to the first delimiter and with it.
Until(s) == Min(Delims(s)) + 1

\* Mutant: the buffer has no limit.
ReadSome_Unlimited ==
    /\ reader = "reading" /\ Delims(read_msg) = {}
    /\ \E n \in 1 .. Len(toServer) :
          /\ read_msg' = read_msg \o SubSeq(toServer, 1, n)
          /\ toServer' = SubSeq(toServer, n + 1, Len(toServer))
    /\ UNCHANGED <<senderVars, admitted, reader, forwarded, place, outboxVars,
                   receiverVars, pipelined>>

\* asio reads on while there is no delimiter and the buffer is not full.
ReadSome ==
    /\ reader = "reading" /\ Delims(read_msg) = {}
    /\ \E n \in 1 .. Len(toServer) :
          /\ Len(read_msg) + n <= m_read_buff_len
          /\ read_msg' = read_msg \o SubSeq(toServer, 1, n)
          /\ toServer' = SubSeq(toServer, n + 1, Len(toServer))
    /\ UNCHANGED <<senderVars, admitted, reader, forwarded, place, outboxVars,
                   receiverVars, pipelined>>

\* Mutant: a buffer that is full is refused though its line has just ended.
NotFound_Eager == Len(read_msg) = m_read_buff_len

NotFound == Len(read_msg) = m_read_buff_len /\ Delims(read_msg) = {}

\* error::not_found: the read throws and the session is stopped.
ReadFails ==
    /\ reader = "reading"
    /\ NotFound
    /\ reader' = "ended"
    /\ UNCHANGED <<senderVars, toServer, admitted, read_msg, forwarded, place,
                   outboxVars, receiverVars, pipelined>>

\* is_password_correct(): the buffer is a local, what follows the password in
\* it is dropped.
ReadsPassword ==
    /\ reader = "reading" /\ ~admitted /\ Delims(read_msg) # {}
    /\ admitted' = TRUE
    /\ read_msg' = <<>>
    /\ UNCHANGED <<senderVars, toServer, reader, forwarded, place, outboxVars,
                   receiverVars, pipelined>>

\* find_last_of() finds either character of m_delim.
LastOf(s) == Max({i \in DOMAIN s : s[i] \in {CR, LF}})

\* Mutant: one byte too few is cut off.
Response_KeepsCR(s) == SubSeq(s, 1, LastOf(s) - 1)

\* response.substr(0, response.find_last_of(m_delim) - 1); find_last_of()
\* counts from 0.
Response(s) == SubSeq(s, 1, LastOf(s) - 2)

\* Mutants: one byte too few is erased, or all of them are.
Erased_AllButLF(s) == SubSeq(s, Until(s), Len(s))
Erased_All(s) == <<>>

\* read_msg.erase(0, n).
Erased(s) == SubSeq(s, Until(s) + 1, Len(s))

\* A live broadcast is written as it is.
Live(text) == [i \in DOMAIN text |->
                  [byte |-> text[i], ends |-> i = Len(text), live |-> TRUE]]

\* ChatSession::deliver() to the receiver; the writer writes in this order.
Delivers(texts, items) ==
    /\ given' = given \o texts
    /\ toClient' = toClient \o items

\* ChatRoom::deliver(): to every participant, admitted or not.
Forwards ==
    /\ reader = "reading" /\ admitted /\ Delims(read_msg) # {}
    /\ forwarded' = Append(forwarded, Response(read_msg))
    /\ read_msg' = Erased(read_msg)
    /\ IF place # "out"
       THEN Delivers(<<Response(read_msg)>>, Live(Response(read_msg)))
       ELSE UNCHANGED outboxVars
    /\ UNCHANGED <<senderVars, toServer, admitted, reader, place, receiverVars,
                   pipelined>>

----------------------------------------------------------------------------
(* The receiver.                                                           *)

\* Mutant: what is remembered is written like what is live.
Remembered_Plain(text) ==
    [i \in DOMAIN text |->
        [byte |-> text[i], ends |-> i = Len(text), live |-> FALSE]]

\* ChatRoom::join_public() ends what the room remembers by m_delim.
Remembered(text) ==
    LET msg == text \o m_delim
    IN  [i \in DOMAIN msg |->
            [byte |-> msg[i], ends |-> i = Len(msg), live |-> FALSE]]

\* m_recent_msgs: the messages that ChatRoom::deliver() has not popped.
Newest(texts) ==
    SubSeq(texts, Max({0, Len(texts) - m_max_recent_msgs}) + 1, Len(texts))

\* What the receiver's steps in the room leave alone.
roomOnly == <<senderVars, toServer, readerVars, receiverVars, pipelined>>

\* ChatRoom::join(), when the connection is accepted.
Joins ==
    /\ place = "out" /\ place' = "member"
    /\ UNCHANGED <<outboxVars, roomOnly>>

\* accept_connection(): the password is right.
IsAnswered ==
    /\ place = "member" /\ place' = "answered"
    /\ Delivers(<<SessionId>>, Live(SessionId))
    /\ UNCHANGED roomOnly

\* ChatRoom::join_public().
IsAdmitted ==
    /\ place = "answered" /\ place' = "admitted"
    /\ LET recent == Newest(forwarded)
       IN  Delivers(recent, FlattenSeq([k \in DOMAIN recent |-> Remembered(recent[k])]))
    /\ UNCHANGED roomOnly

\* QString::split(), byte by byte: the last part grows by a byte, until with LF
\* a delimiter is complete; then it loses the CR, and another part begins.
Split(s) ==
    LET parts[n \in 0 .. Len(s)] ==
            IF n = 0 THEN <<<<>>>>
            ELSE LET p == parts[n - 1]
                 IN  IF n - 1 \in Delims(s)
                     THEN Front(p) \o <<Front(Last(p)), <<>>>>
                     ELSE Front(p) \o <<Append(Last(p), s[n])>>
    IN  parts[Len(s)]

\* Mutant: the last part is always dropped.
Inbox_DropsLast(s) == Front(Split(s))

\* recieving_msg(): an empty last part is no message.
Inbox(s) == IF Last(Split(s)) = <<>> THEN Front(Split(s)) ELSE Split(s)

\* A read is whole if it ends where a message ends, and a live message, which
\* has no delimiter, is the last in it.
Whole(piece) ==
    /\ Last(piece).ends
    /\ \A i \in 1 .. Len(piece) - 1 : ~(piece[i].live /\ piece[i].ends)

\* readyRead(): readAll() returns what has arrived, however much that is; each
\* is decoded for itself.
Receives ==
    \E n \in 1 .. Len(toClient) :
        LET piece == SubSeq(toClient, 1, n)
        IN  /\ toClient' = SubSeq(toClient, n + 1, Len(toClient))
            /\ shown' = shown \o Inbox(Decoded([i \in DOMAIN piece |-> piece[i].byte]))
            /\ torn' = (torn \/ ~Whole(piece))
            /\ cut' = (cut \/ Last(piece).byte \in Leads)
            /\ UNCHANGED <<senderVars, toServer, readerVars, place, given, pipelined>>

----------------------------------------------------------------------------
Session == ReadSome \/ ReadFails \/ ReadsPassword \/ Forwards

Room == Joins \/ IsAnswered \/ IsAdmitted

Next == SendsLine \/ Session \/ Room \/ Receives

\* The io_context runs the session, TCP delivers, the receiver's GUI reads; the
\* sender need not send and the receiver need not come.
Spec == Init /\ [][Next]_vars /\ WF_vars(Session) /\ WF_vars(Receives)

----------------------------------------------------------------------------
(* Properties.                                                             *)

\* Type invariant; a buffer never holds more than it may.
TypeOK ==
    /\ lines \in Scripts
    /\ sent \in 0 .. Len(lines)
    /\ toServer \in Seq(Bytes \cup {CR, LF})
    /\ admitted \in BOOLEAN
    /\ read_msg \in Seq(Bytes \cup {CR, LF}) /\ Len(read_msg) <= m_read_buff_len
    /\ reader \in {"reading", "ended"}
    /\ forwarded \in Seq(Seq(Bytes \cup {CR, LF}))
    /\ place \in {"out", "member", "answered", "admitted"}
    /\ toClient \in Seq([byte : Bytes \cup {CR, LF}, ends : BOOLEAN, live : BOOLEAN])
    /\ given \in Seq(Seq(Bytes \cup {CR, LF}))
    /\ shown \in Seq(Seq(Bytes \cup {CR, LF, Bad}))
    /\ pipelined \in BOOLEAN /\ torn \in BOOLEAN /\ cut \in BOOLEAN

\* However the bytes arrive, the k-th broadcast begins with the k-th line: no
\* line is lost, cut short or overtaken between the password and the room; and
\* it is that line, if the client sends it only when the last one was read.
LinesInOrder ==
    /\ admitted => sent > 0
    /\ \A k \in DOMAIN forwarded :
          /\ k < sent /\ IsPrefix(lines[k + 1], forwarded[k])
          /\ ~pipelined => forwarded[k] = lines[k + 1]

\* A session is ended for the size of its buffer only by a line that does not
\* fit, never by several lines that arrive together.
ShortLinesSurvive ==
    reader = "ended" =>
        \E k \in 1 .. sent : Len(lines[k]) + Len(m_delim) > m_read_buff_len

\* Every line sent is forwarded, unless the session has ended.
LinesForwarded ==
    \A k \in 1 .. MaxLines - 1 : (sent > k) ~> (Len(forwarded) >= k \/ reader = "ended")

\* The receiver of whole reads shows what its session was given, as it is and in
\* order: early broadcasts, its id, the newest messages when it is admitted (the
\* early ones again) and what is said since.  m_delim after what is remembered
\* keeps it apart from what follows.  (An empty message that is live is written
\* as nothing.)
NonEmpty(texts) ==
    FlattenSeq([i \in DOMAIN texts |-> IF texts[i] = <<>> THEN <<>> ELSE <<texts[i]>>])
WholeReadsAreExact ==
    ~torn /\ ~pipelined => IsPrefix(NonEmpty(shown), NonEmpty(given))

\* No byte of a text is lost or changes its place on the way to a receiver,
\* whole reads or not; the halves of a character that a read cuts are marked, and
\* nothing else is.
PlainBytes(s) ==
    FlattenSeq([i \in DOMAIN s |-> IF s[i] \in Bytes \cup {Bad} THEN <<s[i]>> ELSE <<>>])
NoByteLost ==
    LET put == PlainBytes(FlattenSeq(given))
        got == PlainBytes(FlattenSeq(shown)
                          \o [i \in DOMAIN toClient |-> toClient[i].byte])
    IN  /\ Len(got) = Len(put)
        /\ \A i \in DOMAIN put :
              got[i] = put[i] \/ (got[i] = Bad /\ put[i] \in Leads \cup Tails)
        /\ ~cut /\ ~pipelined => got = put

\* README.md:26 "The server's role is to broadcast the messages to all
\* connected users": a broadcast is one message of the sender.
BroadcastsAreMessages ==
    \A k \in DOMAIN forwarded : \E l \in DOMAIN lines : forwarded[k] = lines[l]
=============================================================================
