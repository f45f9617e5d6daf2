----------------------------- MODULE ChatServer -----------------------------
(***************************************************************************)
(* The running server: the sessions and their coroutines, the room, and    *)
(* the peers at the other end of the sockets.  One thread runs the         *)
(* io_context, so what a coroutine does between two co_awaits is one step; *)
(* any coroutine whose operation completed may take the next step.         *)
(*                                                                         *)
(* The handshake appears as the phases of Handshake.tla, which HandShaker  *)
(* implements; a message is one complete line of a reader.                 *)
(***************************************************************************)
EXTENDS ChatRoom, FiniteSets

CONSTANT MaxPosts       \* bound: how many messages are broadcast

ASSUME MaxPostsAssumption == MaxPosts \in Nat

VARIABLES
    peer,               \* the client: "up", "stalled" (not reading) or "gone"
    up                  \* the server process runs

vars == <<sessionVars, roomVars, peer, up>>

Init == /\ SessionInit
        /\ RoomInit
        /\ peer = [s \in Sessions |-> "up"]
        /\ up = TRUE

----------------------------------------------------------------------------
(* Connections come and go.                                                *)

\* serve_forever(): a ChatSession is built and joins the room.
Connect(s) ==
    /\ up /\ session[s] = "absent"
    /\ session' = [session EXCEPT ![s] = "live"]
    /\ Join(s)
    /\ UNCHANGED <<pushed, popped, reader, dangling, peer, up>>

PeerTurns(s, from, to) ==
    /\ up /\ session[s] = "live" /\ peer[s] \in from
    /\ peer' = [peer EXCEPT ![s] = to]
    /\ UNCHANGED <<sessionVars, roomVars, up>>

PeerStalls(s)  == PeerTurns(s, {"up"}, "stalled")
PeerResumes(s) == PeerTurns(s, {"stalled"}, "up")
PeerLeaves(s)  == PeerTurns(s, {"up", "stalled"}, "gone")

\* stop(): called once, since the session is destroyed with the call.
Stop(s, caller) ==
    /\ Destroy(s, caller)
    /\ Leave(s)
    /\ UNCHANGED <<pushed, popped, peer, up>>

----------------------------------------------------------------------------
(* The handshake: try_connect() and its completion callback.               *)

InPhase(s, phases) == up /\ session[s] = "live" /\ hs[s] \in phases
Enter(s, phase) == hs' = [hs EXCEPT ![s] = phase]

\* Mutant: a second reply, once the first was chosen.
Told_Twice(s, kind, phase) ==
    /\ InPhase(s, {"asking", "accepting"})
    /\ Enter(s, phase)
    /\ DeliverPrivate(s, kind)
    /\ UNCHANGED <<session, popped, reader, dangling, peer, up>>

\* The check of the password, or the countdown, decides what the client is
\* told.
Told(s, kind, phase) ==
    /\ InPhase(s, {"asking"})
    /\ Enter(s, phase)
    /\ DeliverPrivate(s, kind)
    /\ UNCHANGED <<session, popped, reader, dangling, peer, up>>

PasswordRight(s) == Told(s, "id", "accepting")
PasswordWrong(s) == Told(s, "reject", "rejecting")
TimesOut(s)      == Told(s, "timeout", "timing_out")

\* Mutant: a refused session is not stopped.
Refuse_NotStopped(s) ==
    /\ Enter(s, "refused")
    /\ UNCHANGED <<session, pushed, popped, writer, reader, dangling, roomVars,
                   peer, up>>

\* The callback is called with false and stops the session.
Refuse(s) == Enter(s, "refused") /\ Stop(s, "try_connect")

\* The read of the password broke: the peer left, or 1024 bytes came without
\* a delimiter.
PasswordBroken(s) == InPhase(s, {"asking", "timing_out"}) /\ Refuse(s)

\* The reply has left the outbox.
ReplyWritten(s, kind) ==
    \A i \in DOMAIN pushed[s] : pushed[s][i].kind = kind => i <= popped[s]

\* The 250 us after the refusal are over.  The timer was started after the
\* writer was woken for the reply, so the writer had its turn before.
RefusalElapses(s) ==
    /\ InPhase(s, {"rejecting", "timing_out"})
    /\ writer[s] = "ready" => /\ ReplyWritten(s, "reject")
                              /\ ReplyWritten(s, "timeout")
    /\ Refuse(s)

\* The two exceptions of HandShaker: the callback is never called.
Lost(s) ==
    /\ InPhase(s, {"timing_out"})
    /\ Enter(s, "lost")
    /\ UNCHANGED <<session, pushed, popped, writer, reader, dangling, roomVars,
                   peer, up>>

\* Mutant: the participant is admitted but no reader is spawned.
Admitted_NoReader(s) ==
    /\ InPhase(s, {"accepting"})
    /\ Enter(s, "accepted")
    /\ JoinPublic(s)
    /\ UNCHANGED <<session, popped, reader, dangling, peer, up>>

\* The callback is called with true: join_public(), and the reader is spawned.
Admitted(s) ==
    /\ InPhase(s, {"accepting"})
    /\ Enter(s, "accepted")
    /\ JoinPublic(s)
    /\ reader' = [reader EXCEPT ![s] = "reading"]
    /\ UNCHANGED <<session, popped, dangling, peer, up>>

----------------------------------------------------------------------------
(* The reader and the writer of a live session.                            *)

Reading(s) == up /\ session[s] = "live" /\ reader[s] = "reading"

\* A line is complete: the room delivers it.
ReaderReceives(s) ==
    /\ Reading(s)
    /\ posted < MaxPosts
    /\ Deliver
    /\ UNCHANGED <<session, popped, reader, hs, dangling, peer, up>>

\* The peer is gone, or sent 1024 bytes without a delimiter.
ReaderFails(s) ==
    /\ Reading(s)
    /\ Stop(s, "reader")
    /\ UNCHANGED hs

\* A stalled peer leaves the write pending.
Writes(s) ==
    /\ up
    /\ \/ WriterRuns(s)
       \/ peer[s] # "stalled" /\ WriteCompletes(s)
    /\ UNCHANGED <<roomVars, peer, up>>

WriteFails(s) ==
    /\ up /\ session[s] = "live" /\ writer[s] = "writing" /\ peer[s] = "gone"
    /\ Stop(s, "writer")
    /\ UNCHANGED hs

----------------------------------------------------------------------------
(* A coroutine is resumed on a session that was destroyed under it.  It    *)
(* reads m_client_socket, m_ip and m_stopped in freed memory: undefined,   *)
(* here either it ends without harm or the process dies.  (A new session   *)
(* at the same address, whose members it would then use, is left out.)     *)

DanglingResumes(s, c) ==
    /\ up /\ c \in dangling[s]
    /\ dangling' = [dangling EXCEPT ![s] = @ \ {c}]
    /\ up' \in BOOLEAN
    /\ UNCHANGED <<session, pushed, popped, writer, reader, hs, roomVars, peer>>

----------------------------------------------------------------------------
Handshaking(s) == \/ PasswordRight(s) \/ PasswordWrong(s) \/ TimesOut(s)
                  \/ PasswordBroken(s) \/ RefusalElapses(s) \/ Lost(s)
                  \/ Admitted(s)

Peer(s) == PeerStalls(s) \/ PeerResumes(s) \/ PeerLeaves(s)

Next == \E s \in Sessions :
            \/ Connect(s) \/ Peer(s) \/ Handshaking(s)
            \/ ReaderReceives(s) \/ ReaderFails(s) \/ Writes(s) \/ WriteFails(s)
            \/ \E c \in {"try_connect", "reader", "writer"} :
                  DanglingResumes(s, c)

\* The io_context runs every handler that is ready, the countdown and the
\* flush timers expire, and a reader notices that its peer is gone.  Nobody
\* has to connect, to send a line, to leave, or to resume reading.
Fairness ==
    \A s \in Sessions :
        /\ WF_vars(Handshaking(s))
        /\ WF_vars(Writes(s))
        /\ WF_vars(peer[s] = "gone" /\ ReaderFails(s))

Spec == Init /\ [][Next]_vars /\ Fairness

----------------------------------------------------------------------------
(* Properties.                                                             *)

Waiting == {"asking", "accepting", "rejecting", "timing_out"}
Items == [kind : Replies \cup {"history", "live"}, msg : Nat]

\* Type invariant; in particular the room never remembers more messages than
\* m_max_recent_msgs.
TypeOK ==
    /\ session \in [Sessions -> {"absent", "live", "destroyed"}]
    /\ pushed \in [Sessions -> Seq(Items)]
    /\ popped \in [Sessions -> Nat]
    /\ writer \in [Sessions -> {"none", "ready", "waiting", "writing"}]
    /\ reader \in [Sessions -> {"none", "reading"}]
    /\ hs \in [Sessions -> Waiting \cup
                           {"none", "accepted", "refused", "lost"}]
    /\ dangling \in [Sessions -> SUBSET {"try_connect", "reader", "writer"}]
    /\ m_participants \in SUBSET Sessions
    /\ m_recent_msgs \in Seq(Nat)
    /\ Len(m_recent_msgs) <= m_max_recent_msgs
    /\ posted \in 0 .. MaxPosts
    /\ joinedAt \in [Sessions -> Nat]
    /\ admittedAt \in [Sessions -> Nat]
    /\ peer \in [Sessions -> {"up", "stalled", "gone"}]
    /\ up \in BOOLEAN

\* The room owns exactly the sessions that are alive: deliver() follows no
\* pointer to a destroyed one, and no session lives on outside the room.
RoomHoldsLiveSessions ==
    m_participants = {s \in Sessions : session[s] = "live"}

\* No wakeup is lost: a writer waits on its timer only with an empty outbox,
\* whatever was delivered between its test and its wait.
NoLostWakeup ==
    \A s \in Sessions : writer[s] = "waiting" => OutboxEmpty(s)

\* What the room remembers is the newest messages, oldest first.
HistoryIsNewest ==
    /\ Len(m_recent_msgs) = IF posted < m_max_recent_msgs
                            THEN posted ELSE m_max_recent_msgs
    /\ \A i \in DOMAIN m_recent_msgs :
          m_recent_msgs[i] = posted - Len(m_recent_msgs) + i

At(s, i) == pushed[s][i]

\* A live session has been given every message broadcast since it joined, each
\* once and in the order of the room, through its handshake and after it.
LiveFeedComplete ==
    \A s \in Sessions : session[s] = "live" =>
        /\ \A m \in joinedAt[s] + 1 .. posted :
              \E i \in DOMAIN pushed[s] : At(s, i) = Live(m)
        /\ \A i \in DOMAIN pushed[s] : At(s, i).kind = "live" =>
              /\ At(s, i).msg > joinedAt[s]
              /\ \A j \in 1 .. i - 1 :
                    At(s, j).kind = "live" => At(s, j).msg < At(s, i).msg

\* An admitted session was shown the messages the room remembered when it was
\* admitted, each once; together with LiveFeedComplete, a message is given to a
\* session twice exactly if it was broadcast during its handshake (and was
\* still remembered at its end).
HistoryShownOnce ==
    \A s \in Sessions : \A m \in 1 .. posted :
        LET shown == {i \in DOMAIN pushed[s] : At(s, i) = History(m)}
        IN  IF /\ hs[s] = "accepted"
               /\ m <= admittedAt[s] /\ m > admittedAt[s] - m_max_recent_msgs
            THEN \E i \in shown : shown = {i}
            ELSE shown = {}

Seen(s) == {pushed[s][i].msg : i \in DOMAIN pushed[s]} \ {0}

\* An admitted session misses nothing the room remembers: no message falls
\* between the history and the live feed.
AdmittedMissesNothing ==
    \A s \in Sessions : session[s] = "live" /\ hs[s] = "accepted" =>
        \A i \in DOMAIN m_recent_msgs : m_recent_msgs[i] \in Seen(s)

\* Somebody listens to the socket of every live session, so that the departure
\* of its peer is noticed: its handshake or its reader, unless it was lost.
WatchedUnlessLost ==
    \A s \in Sessions : session[s] = "live" =>
        \/ hs[s] \in Waiting \cup {"lost"}
        \/ hs[s] = "accepted" /\ reader[s] = "reading"

\* Every session's part of the server is the handshake of Handshake.tla: its
\* phases go with what it was told, in whatever order the sessions run.
RepliesAt(items) == {i \in DOMAIN items : items[i].kind \in Replies}
Nth(at, n) == CHOOSE i \in at : Cardinality({j \in at : j <= i}) = n
RepliesIn(items) == [n \in 1 .. Cardinality(RepliesAt(items)) |->
                        items[Nth(RepliesAt(items), n)].kind]
ToldTo(s) == RepliesIn(pushed[s])
PhaseOf(s) == IF hs[s] = "none" THEN "asking" ELSE hs[s]
H(s) == INSTANCE Handshake WITH SessionId <- "id", Reject <- "reject",
            Timeout <- "timeout", phase <- PhaseOf(s), replies <- ToldTo(s)
RefinesHandshake ==
    /\ \A s \in Sessions : H(s)!Init
    /\ [][\A s \in Sessions : H(s)!Next \/ UNCHANGED H(s)!vars]_vars

\* The room, its sessions and their outboxes implement the feed a participant
\* is promised (ChatFeed.tla).
Feed == INSTANCE ChatFeed WITH Members <- Sessions, Depth <- m_max_recent_msgs,
            present <- m_participants, seen <- [s \in Sessions |-> Seen(s)]
RefinesFeed == Feed!Spec

\* A live session whose peer reads gets all it was delivered.
OutboxDrains ==
    \A s \in Sessions :
        (up /\ session[s] = "live" /\ ~OutboxEmpty(s))
            ~> (OutboxEmpty(s) \/ peer[s] # "up" \/ session[s] = "destroyed"
                \/ ~up)

\* A session whose peer left is removed from the room, unless it was lost.
GoneIsRemoved ==
    \A s \in Sessions :
        (up /\ session[s] = "live" /\ peer[s] = "gone")
            ~> (session[s] = "destroyed" \/ hs[s] = "lost" \/ ~up)

\* tcp_chat_server.hpp:26 "shared ptr to avoid issues when read() and write()
\* can both close the socket from different "spawned" functions": the socket
\* lives as long as the coroutines that use it.
NoCoroutineOutlivesSocket == \A s \in Sessions : dangling[s] = {}

\* hand_shaker.hpp:94 "wait for writer to dispatch message & close if
\* necessary": a rejected session is closed after its client was told.
RejectedIsTold ==
    \A s \in Sessions :
        hs[s] = "refused" /\ peer[s] = "up" => ReplyWritten(s, "reject")
=============================================================================
