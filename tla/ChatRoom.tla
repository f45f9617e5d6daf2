------------------------------ MODULE ChatRoom ------------------------------
(***************************************************************************)
(* The room the sessions share: class ChatRoom (TLS_server/src/            *)
(* chat_room.cpp).  A message is the ordinal of its broadcast: the first   *)
(* message the room delivers is 1, the next one 2, and so on.              *)
(***************************************************************************)
EXTENDS ChatSession

CONSTANT m_max_recent_msgs

ASSUME RecentAssumption == m_max_recent_msgs \in Nat \ {0}

VARIABLES
    m_participants,     \* the sessions the room owns
    m_recent_msgs,      \* the messages a new participant is shown
    posted,             \* history: how many messages were broadcast
    joinedAt,           \* history: posted when the session joined
    admittedAt          \* history: posted when it was caught up

roomVars == <<m_participants, m_recent_msgs, posted, joinedAt, admittedAt>>

RoomInit ==
    /\ m_participants = {}
    /\ m_recent_msgs = <<>>
    /\ posted = 0
    /\ joinedAt = [s \in Sessions |-> 0]
    /\ admittedAt = [s \in Sessions |-> 0]

\* join(): the room owns the session before the session starts.
Join(s) ==
    /\ m_participants' = m_participants \cup {s}
    /\ joinedAt' = [joinedAt EXCEPT ![s] = posted]
    /\ Start(s)
    /\ UNCHANGED <<m_recent_msgs, posted, admittedAt>>

\* Mutant: the room keeps the participant that leaves.
Leave_Keeps(s) == UNCHANGED roomVars

\* leave().
Leave(s) ==
    /\ m_participants' = m_participants \ {s}
    /\ UNCHANGED <<m_recent_msgs, posted, joinedAt, admittedAt>>

\* deliver_private(): a participant that is still in the room is told.
DeliverPrivate(s, kind) ==
    /\ DeliverTo({s} \cap m_participants, <<ReplyItem(kind)>>)
    /\ UNCHANGED roomVars

\* Mutant: one remembered message is left out.
Remembered_ButOldest == [i \in 1 .. Len(m_recent_msgs) - 1 |->
                            History(m_recent_msgs[i + 1])]

Remembered == [i \in 1 .. Len(m_recent_msgs) |-> History(m_recent_msgs[i])]

\* join_public(): the messages the room remembers, oldest first.
JoinPublic(s) ==
    /\ DeliverTo({s} \cap m_participants, Remembered)
    /\ admittedAt' = [admittedAt EXCEPT ![s] = posted]
    /\ UNCHANGED <<m_participants, m_recent_msgs, posted, joinedAt>>

\* Mutants: nothing is forgotten, or the newest message is.
Trimmed_Never(msgs) == msgs

Trimmed_Newest(msgs) ==
    IF Len(msgs) > m_max_recent_msgs
    THEN SubSeq(msgs, 1, m_max_recent_msgs) ELSE msgs

\* The oldest messages are dropped, down to m_max_recent_msgs.
Trimmed(msgs) ==
    IF Len(msgs) > m_max_recent_msgs
    THEN SubSeq(msgs, Len(msgs) - m_max_recent_msgs + 1, Len(msgs))
    ELSE msgs

\* Mutant: only the participants that passed the handshake.
Audience_Admitted == {s \in m_participants : hs[s] = "accepted"}

\* Every participant, whether or not its handshake is over.
Audience == m_participants

\* deliver(): the message is remembered and given to the audience.
Deliver ==
    /\ posted' = posted + 1
    /\ m_recent_msgs' = Trimmed(Append(m_recent_msgs, posted + 1))
    /\ DeliverTo(Audience, <<Live(posted + 1)>>)
    /\ UNCHANGED <<m_participants, joinedAt, admittedAt>>
=============================================================================
