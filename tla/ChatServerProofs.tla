-------------------------- MODULE ChatServerProofs --------------------------
(***************************************************************************)
(* Proofs about ChatServer, for any set of sessions and any number of      *)
(* remembered and of posted messages.                                      *)
(***************************************************************************)
EXTENDS ChatServer, FiniteSetTheorems, SequenceTheorems, TLAPS

----------------------------------------------------------------------------
(* What a delivery does to an outbox.                                      *)

\* Two sequences, one behind the other.
LEMMA ConcatIs ==
    ASSUME NEW S, NEW s \in Seq(S), NEW t \in Seq(S)
    PROVE  /\ s \o t \in Seq(S)
           /\ Len(s \o t) = Len(s) + Len(t)
           /\ \A i \in 1 .. Len(s) : (s \o t)[i] = s[i]
           /\ \A i \in 1 .. Len(t) : (s \o t)[Len(s) + i] = t[i]
BY ConcatProperties

\* deliver() keeps what is in an outbox, and adds the items at its end.
LEMMA Delivery ==
    ASSUME pushed \in [Sessions -> Seq(Items)], NEW items \in Seq(Items),
           NEW S, DeliverTo(S, items), NEW s \in Sessions
    PROVE  /\ pushed'[s] \in Seq(Items)
           /\ s \notin S => pushed'[s] = pushed[s]
           /\ s \in S => Len(pushed'[s]) = Len(pushed[s]) + Len(items)
           /\ \A i \in 1 .. Len(pushed[s]) : pushed'[s][i] = pushed[s][i]
           /\ s \in S => \A i \in 1 .. Len(items) :
                            pushed'[s][Len(pushed[s]) + i] = items[i]
<1>1. pushed[s] \in Seq(Items)
  OBVIOUS
<1>2. pushed'[s] = IF s \in S THEN pushed[s] \o items ELSE pushed[s]
  BY DEF DeliverTo
<1>3. QED
  BY <1>1, <1>2, ConcatIs

\* A delivery keeps outboxes outboxes and writers writers.
LEMMA DeliveryTypes ==
    ASSUME TypeOK, NEW items \in Seq(Items), NEW S, DeliverTo(S, items)
    PROVE  /\ pushed' \in [Sessions -> Seq(Items)]
           /\ writer' \in [Sessions -> {"none", "ready", "waiting", "writing"}]
<1>1. \A s \in Sessions : pushed'[s] \in Seq(Items)
  BY Delivery DEF TypeOK
<1>2. QED
  BY <1>1 DEF DeliverTo, TypeOK

\* What a session is shown of the history, one item for each message.
LEMMA RememberedItems ==
    ASSUME TypeOK
    PROVE  /\ Remembered \in Seq(Items)
           /\ Len(Remembered) = Len(m_recent_msgs)
           /\ \A i \in 1 .. Len(m_recent_msgs) :
                 Remembered[i] = History(m_recent_msgs[i])
<1>1. \A i \in 1 .. Len(m_recent_msgs) : History(m_recent_msgs[i]) \in Items
  BY DEF TypeOK, History, Items
<1>2. Len(m_recent_msgs) \in Nat
  BY DEF TypeOK
<1>3. QED
  BY <1>1, <1>2 DEF Remembered

----------------------------------------------------------------------------
(* Type correctness.                                                       *)

\* The types, at the start.
LEMMA TypeInit == Init => TypeOK
<1> SUFFICES ASSUME Init PROVE TypeOK
  OBVIOUS
<1>1. up \in BOOLEAN
  BY Zenon DEF Init
<1>2. Len(m_recent_msgs) = 0 /\ m_recent_msgs \in Seq(Nat)
  BY DEF Init, RoomInit
<1>3. QED
  BY <1>1, <1>2, RecentAssumption, MaxPostsAssumption
  DEF Init, SessionInit, RoomInit, TypeOK

\* Dropping the oldest messages: the newest m_max_recent_msgs remain in place.
LEMMA TrimmedIs ==
    ASSUME NEW msgs \in Seq(Nat)
    PROVE  /\ Trimmed(msgs) \in Seq(Nat)
           /\ Len(Trimmed(msgs)) = IF Len(msgs) > m_max_recent_msgs
                                   THEN m_max_recent_msgs ELSE Len(msgs)
           /\ \A i \in 1 .. Len(Trimmed(msgs)) :
                 Trimmed(msgs)[i] = msgs[Len(msgs) - Len(Trimmed(msgs)) + i]
<1> DEFINE from == Len(msgs) - m_max_recent_msgs + 1
<1>1. Len(msgs) \in Nat /\ m_max_recent_msgs \in Nat \ {0}
  BY RecentAssumption
<1>2. CASE Len(msgs) > m_max_recent_msgs
  <2>1. Trimmed(msgs) = SubSeq(msgs, from, Len(msgs))
    BY <1>2 DEF Trimmed
  <2>2. from \in 1 .. Len(msgs) + 1 /\ Len(msgs) \in from - 1 .. Len(msgs)
    BY <1>1, <1>2
  <2>3. /\ Trimmed(msgs) \in Seq(Nat)
        /\ Len(Trimmed(msgs)) = m_max_recent_msgs
        /\ \A i \in 1 .. Len(Trimmed(msgs)) :
              Trimmed(msgs)[i] = msgs[from + i - 1]
    BY <1>1, <1>2, <2>1, <2>2, SubSeqProperties
  <2>4. QED
    BY <1>1, <1>2, <2>3
<1>3. CASE ~(Len(msgs) > m_max_recent_msgs)
  BY <1>1, <1>3 DEF Trimmed
<1>4. QED
  BY <1>2, <1>3

\* A connection keeps the types.
LEMMA TypeConnect == TypeOK /\ (\E s \in Sessions : Connect(s)) => TypeOK'
BY DEF TypeOK, Connect, Join, Start, Waiting

\* So does what the peer does.
LEMMA TypePeer == TypeOK /\ (\E s \in Sessions : Peer(s)) => TypeOK'
BY ZenonT(60) DEF TypeOK, Peer, PeerStalls, PeerResumes, PeerLeaves, PeerTurns,
       sessionVars, roomVars

\* So does stop(), whichever coroutine calls it.
LEMMA TypeStop ==
    ASSUME TypeOK, NEW s \in Sessions, NEW caller, Stop(s, caller),
           hs' \in [Sessions -> Waiting \cup
                                {"none", "accepted", "refused", "lost"}]
    PROVE  TypeOK'
<1>1. Suspended(s) \in SUBSET {"try_connect", "reader", "writer"}
  BY DEF Suspended
<1>2. dangling' \in [Sessions -> SUBSET {"try_connect", "reader", "writer"}]
  BY <1>1 DEF Stop, Destroy, TypeOK
<1>3. QED
  BY <1>2 DEF Stop, Destroy, Leave, TypeOK

\* So does every step of a handshake.
LEMMA TypeHandshaking == TypeOK /\ (\E s \in Sessions : Handshaking(s)) => TypeOK'
<1> SUFFICES ASSUME TypeOK, NEW s \in Sessions, Handshaking(s) PROVE TypeOK'
  OBVIOUS
<1>1. ASSUME NEW kind \in Replies, NEW phase \in Waiting, Told(s, kind, phase)
      PROVE  TypeOK'
  <2>1. <<ReplyItem(kind)>> \in Seq(Items)
    BY <1>1 DEF ReplyItem, Items
  <2>2. /\ pushed' \in [Sessions -> Seq(Items)]
        /\ writer' \in [Sessions -> {"none", "ready", "waiting", "writing"}]
    BY <1>1, <2>1, DeliveryTypes DEF Told, DeliverPrivate
  <2>3. QED
    BY <1>1, <2>2 DEF Told, Enter, DeliverPrivate, roomVars, TypeOK
<1>2. CASE PasswordRight(s) \/ PasswordWrong(s) \/ TimesOut(s)
  BY <1>1, <1>2 DEF PasswordRight, PasswordWrong, TimesOut, Replies, Waiting
<1>3. CASE PasswordBroken(s) \/ RefusalElapses(s)
  <2>1. Stop(s, "try_connect") /\ Enter(s, "refused")
    BY <1>3 DEF PasswordBroken, RefusalElapses, Refuse
  <2>2. hs' \in [Sessions -> Waiting \cup {"none", "accepted", "refused",
                                           "lost"}]
    BY <2>1 DEF Enter, TypeOK
  <2>3. QED
    BY <2>1, <2>2, TypeStop
<1>4. CASE Lost(s)
  BY <1>4 DEF Lost, Enter, roomVars, TypeOK
<1>5. CASE Admitted(s)
  <2>1. /\ pushed' \in [Sessions -> Seq(Items)]
        /\ writer' \in [Sessions -> {"none", "ready", "waiting", "writing"}]
    BY <1>5, DeliveryTypes, RememberedItems DEF Admitted, JoinPublic
  <2>2. posted \in Nat
    BY MaxPostsAssumption DEF TypeOK
  <2>3. admittedAt' \in [Sessions -> Nat]
    BY <1>5, <2>2 DEF Admitted, JoinPublic, TypeOK
  <2>4. /\ hs' \in [Sessions -> Waiting \cup {"none", "accepted", "refused",
                                              "lost"}]
        /\ reader' \in [Sessions -> {"none", "reading"}]
    BY <1>5 DEF Admitted, Enter, TypeOK
  <2>5. QED
    BY <1>5, <2>1, <2>3, <2>4 DEF Admitted, JoinPublic, TypeOK
<1>6. QED
  BY <1>2, <1>3, <1>4, <1>5 DEF Handshaking

\* So does the reader.
LEMMA TypeReader ==
    ASSUME TypeOK, NEW s \in Sessions, ReaderReceives(s) \/ ReaderFails(s)
    PROVE  TypeOK'
<1>1. CASE ReaderReceives(s)
  <2>1. posted + 1 \in Nat /\ posted' \in 0 .. MaxPosts
    BY <1>1, MaxPostsAssumption DEF ReaderReceives, Deliver, TypeOK
  <2>2. <<Live(posted + 1)>> \in Seq(Items)
    BY <2>1 DEF Live, Items
  <2>3. /\ pushed' \in [Sessions -> Seq(Items)]
        /\ writer' \in [Sessions -> {"none", "ready", "waiting", "writing"}]
    BY <1>1, <2>2, DeliveryTypes DEF ReaderReceives, Deliver
  <2>4. Append(m_recent_msgs, posted + 1) \in Seq(Nat)
    BY <2>1 DEF TypeOK
  <2>5. m_recent_msgs' \in Seq(Nat) /\ Len(m_recent_msgs') <= m_max_recent_msgs
    <3> DEFINE msgs == Append(m_recent_msgs, posted + 1)
    <3>1. m_recent_msgs' = Trimmed(msgs)
      BY <1>1 DEF ReaderReceives, Deliver
    <3>2. /\ Trimmed(msgs) \in Seq(Nat)
          /\ Len(Trimmed(msgs)) = IF Len(msgs) > m_max_recent_msgs
                                  THEN m_max_recent_msgs ELSE Len(msgs)
      BY <2>4, TrimmedIs
    <3>3. Len(msgs) \in Nat
      BY <2>4
    <3>4. QED
      BY <3>1, <3>2, <3>3, RecentAssumption
  <2>6. QED
    BY <1>1, <2>1, <2>3, <2>5 DEF ReaderReceives, Deliver, TypeOK
<1>2. CASE ReaderFails(s)
  BY <1>2, TypeStop DEF ReaderFails, TypeOK
<1>3. QED
  BY <1>1, <1>2

\* So does the writer.
LEMMA TypeWriter ==
    ASSUME TypeOK, NEW s \in Sessions, Writes(s) \/ WriteFails(s)
    PROVE  TypeOK'
<1>1. CASE WriterRuns(s) /\ Writes(s)
  BY <1>1 DEF Writes, WriterRuns, NextWrite, roomVars, TypeOK
<1>2. CASE WriteCompletes(s) /\ Writes(s)
  BY <1>2 DEF Writes, WriteCompletes, NextWrite, roomVars, TypeOK
<1>3. CASE WriteFails(s)
  BY <1>3, TypeStop DEF WriteFails, TypeOK
<1>4. QED
  BY <1>1, <1>2, <1>3 DEF Writes

\* So does a coroutine that outlived its session.
LEMMA TypeDangling ==
    ASSUME TypeOK, NEW s \in Sessions, NEW c, DanglingResumes(s, c)
    PROVE  TypeOK'
<1>1. up' \in BOOLEAN
  BY Zenon DEF DanglingResumes
<1>2. QED
  BY <1>1 DEF DanglingResumes, roomVars, TypeOK

\* Every step keeps the types.
LEMMA TypeNext == TypeOK /\ [Next]_vars => TypeOK'
<1>1. TypeOK /\ UNCHANGED vars => TypeOK'
  BY DEF vars, sessionVars, roomVars, TypeOK
<1>2. QED
  BY <1>1, TypeConnect, TypePeer, TypeHandshaking, TypeReader, TypeWriter,
     TypeDangling DEF Next

\* The state of the server keeps its types; the room never remembers more
\* messages than m_max_recent_msgs.
THEOREM TypeCorrect == Spec => []TypeOK
BY TypeInit, TypeNext, PTL DEF Spec

----------------------------------------------------------------------------
(* The inductive invariant.                                                *)

\* The writer's cursor stays inside the outbox; a writer that writes has an
\* item to write, and one that waits has none.
Outboxes ==
    \A s \in Sessions :
        /\ popped[s] <= Len(pushed[s])
        /\ writer[s] = "writing" => popped[s] < Len(pushed[s])
        /\ writer[s] = "waiting" => popped[s] = Len(pushed[s])

\* Nothing is delivered before a session joins, and no message from the future.
Feeds ==
    \A s \in Sessions :
        /\ session[s] = "absent" => pushed[s] = <<>>
        /\ session[s] = "live" =>
              /\ joinedAt[s] <= posted
              /\ \A i \in DOMAIN pushed[s] :
                    At(s, i).kind = "live" => At(s, i).msg <= posted

IInv == /\ TypeOK
        /\ RoomHoldsLiveSessions
        /\ Outboxes
        /\ HistoryIsNewest
        /\ WatchedUnlessLost
        /\ Feeds
        /\ LiveFeedComplete
        /\ AdmittedMissesNothing

(* The four kinds of steps, seen from the outboxes.                         *)

\* Nothing is delivered; sessions join and stop.
Quiet ==
    /\ UNCHANGED <<pushed, posted, m_recent_msgs>>
    /\ \A s \in Sessions :
          /\ session'[s] = "absent" => session[s] = "absent"
          /\ session'[s] = "live" =>
                \/ /\ session[s] = "absent"
                   /\ joinedAt'[s] = posted
                   /\ hs'[s] = "asking"
                \/ /\ session[s] = "live"
                   /\ joinedAt'[s] = joinedAt[s]
                   /\ hs'[s] = "accepted" => hs[s] = "accepted"

\* One session is given items, others nothing.
Private(s, items) ==
    /\ session[s] = "live"
    /\ items \in Seq(Items)
    /\ \A i \in 1 .. Len(items) : items[i].kind # "live"
    /\ DeliverTo({s}, items)
    /\ UNCHANGED <<session, posted, m_recent_msgs, joinedAt>>

Tells == \E s \in Sessions : \E items \in Seq(Items) :
            /\ Private(s, items)
            /\ \A t \in Sessions : hs'[t] = "accepted" => hs[t] = "accepted"

Admits == \E s \in Sessions :
            /\ Private(s, Remembered)
            /\ hs' = [hs EXCEPT ![s] = "accepted"]

Broadcasts == Deliver /\ UNCHANGED <<session, hs>>

\* Every step is of one of the four kinds.
LEMMA Steps == IInv /\ [Next]_vars => Quiet \/ Tells \/ Admits \/ Broadcasts
<1> SUFFICES ASSUME IInv, [Next]_vars
             PROVE  Quiet \/ Tells \/ Admits \/ Broadcasts
  OBVIOUS
<1> USE DEF IInv
<1>1. ASSUME NEW s \in Sessions, Connect(s) PROVE Quiet
  BY <1>1 DEF Connect, Join, Start, Quiet, TypeOK
<1>2. ASSUME NEW s \in Sessions, NEW caller, Stop(s, caller),
             \/ UNCHANGED hs
             \/ Enter(s, "refused")
      PROVE  Quiet
  BY <1>2 DEF Stop, Destroy, Leave, Enter, Quiet, TypeOK
<1>3. ASSUME NEW s \in Sessions, Peer(s) PROVE Quiet
  BY <1>3 DEF Peer, PeerStalls, PeerResumes, PeerLeaves, PeerTurns,
              sessionVars, roomVars, Quiet
<1>4. ASSUME NEW s \in Sessions, Handshaking(s)
      PROVE  Quiet \/ Tells \/ Admits
  <2>1. ASSUME NEW kind \in Replies, NEW phase \in Waiting,
               Told(s, kind, phase)
        PROVE  Tells
    <3>1. session[s] = "live" /\ {s} \cap m_participants = {s}
      BY <2>1 DEF Told, InPhase, RoomHoldsLiveSessions
    <3>2. <<ReplyItem(kind)>> \in Seq(Items)
      BY <2>1 DEF ReplyItem, Items
    <3>3. \A i \in 1 .. Len(<<ReplyItem(kind)>>) :
             <<ReplyItem(kind)>>[i].kind # "live"
      BY <2>1 DEF ReplyItem, Replies
    <3>4. Private(s, <<ReplyItem(kind)>>)
      BY <2>1, <3>1, <3>2, <3>3 DEF Told, DeliverPrivate, roomVars, Private
    <3>5. \A t \in Sessions : hs'[t] = "accepted" => hs[t] = "accepted"
      BY <2>1 DEF Told, Enter, TypeOK, Waiting
    <3>6. QED
      BY <3>2, <3>4, <3>5 DEF Tells
  <2>2. CASE PasswordRight(s) \/ PasswordWrong(s) \/ TimesOut(s)
    BY <2>1, <2>2 DEF PasswordRight, PasswordWrong, TimesOut, Replies, Waiting
  <2>3. CASE PasswordBroken(s) \/ RefusalElapses(s)
    BY <1>2, <2>3 DEF PasswordBroken, RefusalElapses, Refuse
  <2>4. CASE Lost(s)
    BY <2>4 DEF Lost, Enter, roomVars, Quiet, TypeOK
  <2>5. CASE Admitted(s)
    <3>1. session[s] = "live" /\ {s} \cap m_participants = {s}
      BY <2>5 DEF Admitted, InPhase, RoomHoldsLiveSessions
    <3>2. /\ Remembered \in Seq(Items)
          /\ \A i \in 1 .. Len(Remembered) : Remembered[i].kind # "live"
      <4>1. \A m : History(m).kind = "history"
        BY DEF History
      <4>2. QED
        BY <4>1, RememberedItems
    <3>3. /\ DeliverTo({s}, Remembered)
          /\ UNCHANGED <<session, posted, m_recent_msgs, joinedAt>>
      BY <2>5, <3>1 DEF Admitted, JoinPublic
    <3>4. Private(s, Remembered)
      BY <3>1, <3>2, <3>3 DEF Private
    <3>5. QED
      BY <2>5, <3>4 DEF Admits, Admitted, Enter
  <2>6. QED
    BY <1>4, <2>2, <2>3, <2>4, <2>5 DEF Handshaking
<1>5. ASSUME NEW s \in Sessions, ReaderReceives(s) PROVE Broadcasts
  BY <1>5 DEF ReaderReceives, Broadcasts
<1>6. ASSUME NEW s \in Sessions, ReaderFails(s) \/ WriteFails(s) PROVE Quiet
  BY <1>2, <1>6 DEF ReaderFails, WriteFails
<1>7. ASSUME NEW s \in Sessions, Writes(s) PROVE Quiet
  BY <1>7 DEF Writes, WriterRuns, WriteCompletes, roomVars, Quiet
<1>8. ASSUME NEW s \in Sessions, NEW c, DanglingResumes(s, c) PROVE Quiet
  BY <1>8 DEF DanglingResumes, roomVars, Quiet
<1>9. CASE UNCHANGED vars
  BY <1>9 DEF vars, sessionVars, roomVars, Quiet
<1>10. QED
  BY <1>1, <1>3, <1>4, <1>5, <1>6, <1>7, <1>8, <1>9 DEF Next

----------------------------------------------------------------------------
(* The parts of the invariant that depend on single actions.               *)

\* Sessions enter the room when they start and leave it when they stop.
LEMMA RoomNext == IInv /\ [Next]_vars => RoomHoldsLiveSessions'
<1> SUFFICES ASSUME IInv, [Next]_vars PROVE RoomHoldsLiveSessions'
  OBVIOUS
<1> USE DEF IInv, RoomHoldsLiveSessions
<1>1. ASSUME NEW s \in Sessions, Connect(s) PROVE RoomHoldsLiveSessions'
  BY <1>1 DEF Connect, Join, TypeOK
<1>2. ASSUME NEW s \in Sessions, NEW caller, Stop(s, caller)
      PROVE  RoomHoldsLiveSessions'
  BY <1>2 DEF Stop, Destroy, Leave, TypeOK
<1>3. ASSUME UNCHANGED <<session, m_participants>>
      PROVE  RoomHoldsLiveSessions'
  BY <1>3
<1>4. ASSUME NEW s \in Sessions, Handshaking(s) PROVE RoomHoldsLiveSessions'
  BY <1>2, <1>3, <1>4 DEF Handshaking, PasswordRight, PasswordWrong, TimesOut,
     Told, DeliverPrivate, PasswordBroken, RefusalElapses, Refuse, Lost,
     Admitted, JoinPublic, roomVars
<1>5. ASSUME NEW s \in Sessions,
             ReaderReceives(s) \/ ReaderFails(s) \/ Writes(s) \/ WriteFails(s)
      PROVE  RoomHoldsLiveSessions'
  BY <1>2, <1>3, <1>5 DEF ReaderReceives, Deliver, ReaderFails, Writes,
     WriterRuns, WriteCompletes, WriteFails, roomVars
<1>6. ASSUME NEW s \in Sessions,
             Peer(s) \/ \E c \in {"try_connect", "reader", "writer"} :
                           DanglingResumes(s, c)
      PROVE  RoomHoldsLiveSessions'
  BY <1>3, <1>6 DEF Peer, PeerStalls, PeerResumes, PeerLeaves, PeerTurns,
     DanglingResumes, sessionVars, roomVars
<1>7. CASE UNCHANGED vars
  BY <1>3, <1>7 DEF vars, sessionVars, roomVars
<1>8. QED
  BY <1>1, <1>4, <1>5, <1>6, <1>7 DEF Next

\* A delivery wakes the writer if it leaves it something to write.
LEMMA DeliveryOutboxes ==
    ASSUME TypeOK, Outboxes, NEW items \in Seq(Items), NEW S,
           DeliverTo(S, items), UNCHANGED popped
    PROVE  Outboxes'
<1> SUFFICES ASSUME NEW s \in Sessions
             PROVE  /\ popped[s] <= Len(pushed'[s])
                    /\ writer'[s] = "writing" => popped[s] < Len(pushed'[s])
                    /\ writer'[s] = "waiting" => popped[s] = Len(pushed'[s])
  BY DEF Outboxes
<1>1. /\ popped[s] \in Nat /\ Len(pushed[s]) \in Nat /\ Len(items) \in Nat
      /\ popped[s] <= Len(pushed[s])
      /\ writer[s] = "writing" => popped[s] < Len(pushed[s])
      /\ writer[s] = "waiting" => popped[s] = Len(pushed[s])
  BY DEF TypeOK, Outboxes
<1>2. /\ s \notin S => pushed'[s] = pushed[s]
      /\ s \in S => Len(pushed'[s]) = Len(pushed[s]) + Len(items)
  BY Delivery DEF TypeOK
<1>3. writer'[s] = IF s \in S /\ writer[s] = "waiting" /\ items # <<>>
                   THEN "ready" ELSE writer[s]
  BY DEF DeliverTo
<1>4. items = <<>> => Len(items) = 0
  OBVIOUS
<1>5. QED
  BY <1>1, <1>2, <1>3, <1>4

\* A delivery wakes the writer; a writer that waits has written all.
LEMMA OutboxesNext == IInv /\ [Next]_vars => Outboxes'
<1> SUFFICES ASSUME IInv, [Next]_vars PROVE Outboxes'
  OBVIOUS
<1> USE DEF IInv
<1>1. ASSUME NEW s \in Sessions, Connect(s) PROVE Outboxes'
  BY <1>1 DEF Connect, Join, Start, Outboxes, TypeOK
<1>2. ASSUME NEW s \in Sessions, NEW caller, Stop(s, caller) PROVE Outboxes'
  BY <1>2 DEF Stop, Destroy, Outboxes, TypeOK
<1>3. ASSUME UNCHANGED <<pushed, popped, writer>> PROVE Outboxes'
  BY <1>3 DEF Outboxes
<1>4. ASSUME NEW s \in Sessions, NEW kind \in Replies, NEW phase,
             Told(s, kind, phase)
      PROVE  Outboxes'
  <2>1. <<ReplyItem(kind)>> \in Seq(Items)
    BY DEF ReplyItem, Items
  <2>2. QED
    BY <1>4, <2>1, DeliveryOutboxes DEF Told, DeliverPrivate
<1>5. ASSUME NEW s \in Sessions, Handshaking(s) PROVE Outboxes'
  <2>1. CASE PasswordRight(s) \/ PasswordWrong(s) \/ TimesOut(s)
    BY <1>4, <2>1 DEF PasswordRight, PasswordWrong, TimesOut, Replies
  <2>2. CASE PasswordBroken(s) \/ RefusalElapses(s)
    BY <1>2, <2>2 DEF PasswordBroken, RefusalElapses, Refuse
  <2>3. CASE Lost(s)
    BY <1>3, <2>3 DEF Lost
  <2>4. CASE Admitted(s)
    BY <2>4, RememberedItems, DeliveryOutboxes DEF Admitted, JoinPublic
  <2>5. QED
    BY <1>5, <2>1, <2>2, <2>3, <2>4 DEF Handshaking
<1>6. ASSUME NEW s \in Sessions, ReaderReceives(s) PROVE Outboxes'
  <2>1. <<Live(posted + 1)>> \in Seq(Items)
    BY MaxPostsAssumption DEF TypeOK, Live, Items
  <2>2. QED
    BY <1>6, <2>1, DeliveryOutboxes DEF ReaderReceives, Deliver
<1>7. ASSUME NEW s \in Sessions, Writes(s) PROVE Outboxes'
  <2>1. /\ popped[s] \in Nat /\ Len(pushed[s]) \in Nat
        /\ popped[s] <= Len(pushed[s])
        /\ writer[s] = "writing" => popped[s] < Len(pushed[s])
    BY DEF TypeOK, Outboxes
  <2>2. CASE WriterRuns(s)
    BY <2>1, <2>2 DEF WriterRuns, NextWrite, Outboxes, TypeOK
  <2>3. CASE WriteCompletes(s)
    BY <2>1, <2>3 DEF WriteCompletes, NextWrite, Outboxes, TypeOK
  <2>4. QED
    BY <1>7, <2>2, <2>3 DEF Writes
<1>8. ASSUME NEW s \in Sessions, ReaderFails(s) \/ WriteFails(s)
      PROVE  Outboxes'
  BY <1>2, <1>8 DEF ReaderFails, WriteFails
<1>9. ASSUME NEW s \in Sessions,
             Peer(s) \/ \E c \in {"try_connect", "reader", "writer"} :
                           DanglingResumes(s, c)
      PROVE  Outboxes'
  BY <1>3, <1>9 DEF Peer, PeerStalls, PeerResumes, PeerLeaves, PeerTurns,
     DanglingResumes, sessionVars
<1>10. CASE UNCHANGED vars
  BY <1>3, <1>10 DEF vars, sessionVars
<1>11. QED
  BY <1>1, <1>5, <1>6, <1>7, <1>8, <1>9, <1>10 DEF Next

\* The handshake hands the socket over to the reader.
LEMMA WatchedNext == IInv /\ [Next]_vars => WatchedUnlessLost'
<1> SUFFICES ASSUME IInv, [Next]_vars PROVE WatchedUnlessLost'
  OBVIOUS
<1> USE DEF IInv, WatchedUnlessLost
<1>1. ASSUME NEW s \in Sessions, Connect(s) PROVE WatchedUnlessLost'
  BY <1>1 DEF Connect, Join, Start, Waiting, TypeOK
<1>2. ASSUME NEW s \in Sessions, NEW caller, Stop(s, caller),
             UNCHANGED hs \/ Enter(s, "refused")
      PROVE  WatchedUnlessLost'
  BY <1>2 DEF Stop, Destroy, Enter, TypeOK
<1>3. ASSUME UNCHANGED <<session, hs, reader>> PROVE WatchedUnlessLost'
  BY <1>3
<1>4. ASSUME NEW s \in Sessions, Handshaking(s) PROVE WatchedUnlessLost'
  <2>1. CASE PasswordRight(s) \/ PasswordWrong(s) \/ TimesOut(s)
    <3>1. ASSUME NEW kind, NEW phase \in Waiting, Told(s, kind, phase)
          PROVE  WatchedUnlessLost'
      <4>1. /\ UNCHANGED <<session, reader>>
            /\ hs'[s] \in Waiting
            /\ \A t \in Sessions \ {s} : hs'[t] = hs[t]
        BY <3>1 DEF Told, Enter, TypeOK
      <4>2. QED
        BY <4>1
    <3>2. QED
      BY <2>1, <3>1 DEF PasswordRight, PasswordWrong, TimesOut, Waiting
  <2>2. CASE PasswordBroken(s) \/ RefusalElapses(s)
    BY <1>2, <2>2 DEF PasswordBroken, RefusalElapses, Refuse
  <2>3. CASE Lost(s)
    BY <2>3 DEF Lost, Enter, TypeOK
  <2>4. CASE Admitted(s)
    BY <2>4 DEF Admitted, Enter, TypeOK
  <2>5. QED
    BY <1>4, <2>1, <2>2, <2>3, <2>4 DEF Handshaking
<1>5. ASSUME NEW s \in Sessions,
             ReaderReceives(s) \/ ReaderFails(s) \/ Writes(s) \/ WriteFails(s)
      PROVE  WatchedUnlessLost'
  BY <1>2, <1>3, <1>5 DEF ReaderReceives, ReaderFails, Writes, WriterRuns,
     WriteCompletes, WriteFails
<1>6. ASSUME NEW s \in Sessions,
             Peer(s) \/ \E c \in {"try_connect", "reader", "writer"} :
                           DanglingResumes(s, c)
      PROVE  WatchedUnlessLost'
  BY <1>3, <1>6 DEF Peer, PeerStalls, PeerResumes, PeerLeaves, PeerTurns,
     DanglingResumes, sessionVars
<1>7. CASE UNCHANGED vars
  BY <1>3, <1>7 DEF vars, sessionVars
<1>8. QED
  BY <1>1, <1>4, <1>5, <1>6, <1>7 DEF Next

----------------------------------------------------------------------------
(* The parts of the invariant about what was delivered.                    *)

Step == Quiet \/ Tells \/ Admits \/ Broadcasts

\* deliver() appends, and drops the oldest when there are too many.
LEMMA HistoryNext ==
    ASSUME TypeOK, HistoryIsNewest, Step
    PROVE  HistoryIsNewest'
<1>1. CASE UNCHANGED <<posted, m_recent_msgs>>
  BY <1>1 DEF HistoryIsNewest
<1>2. CASE Deliver
  <2> DEFINE msgs == Append(m_recent_msgs, posted + 1)
             n == Len(m_recent_msgs)
  <2>1. /\ posted \in Nat /\ n \in Nat /\ m_max_recent_msgs \in Nat \ {0}
        /\ m_recent_msgs \in Seq(Nat)
    BY MaxPostsAssumption, RecentAssumption DEF TypeOK
  <2>2. /\ msgs \in Seq(Nat) /\ Len(msgs) = n + 1
        /\ \A i \in 1 .. n + 1 : msgs[i] = posted - n + i
    <3>1. \A i \in 1 .. n : m_recent_msgs[i] = posted - n + i
      <4>1. DOMAIN m_recent_msgs = 1 .. n
        BY <2>1
      <4>2. QED
        BY <4>1 DEF HistoryIsNewest
    <3>2. /\ msgs \in Seq(Nat) /\ Len(msgs) = n + 1
          /\ \A i \in 1 .. n : msgs[i] = m_recent_msgs[i]
          /\ msgs[n + 1] = posted + 1
      BY <2>1, AppendProperties
    <3>3. QED
      BY <2>1, <3>1, <3>2
  <2>3. /\ m_recent_msgs' = Trimmed(msgs) /\ posted' = posted + 1
    BY <1>2 DEF Deliver
  <2> HIDE DEF msgs
  <2>4. n = IF posted < m_max_recent_msgs THEN posted ELSE m_max_recent_msgs
    BY DEF HistoryIsNewest
  <2>5. /\ Trimmed(msgs) \in Seq(Nat)
        /\ Len(Trimmed(msgs)) = IF n + 1 > m_max_recent_msgs
                                THEN m_max_recent_msgs ELSE n + 1
        /\ \A i \in 1 .. Len(Trimmed(msgs)) :
              Trimmed(msgs)[i] = msgs[n + 1 - Len(Trimmed(msgs)) + i]
    <3>1. \A m \in Seq(Nat) :
             /\ Trimmed(m) \in Seq(Nat)
             /\ Len(Trimmed(m)) = IF Len(m) > m_max_recent_msgs
                                  THEN m_max_recent_msgs ELSE Len(m)
             /\ \A i \in 1 .. Len(Trimmed(m)) :
                   Trimmed(m)[i] = m[Len(m) - Len(Trimmed(m)) + i]
      BY TrimmedIs
    <3>2. /\ Trimmed(msgs) \in Seq(Nat)
          /\ Len(Trimmed(msgs)) = IF Len(msgs) > m_max_recent_msgs
                                  THEN m_max_recent_msgs ELSE Len(msgs)
          /\ \A i \in 1 .. Len(Trimmed(msgs)) :
                Trimmed(msgs)[i] = msgs[Len(msgs) - Len(Trimmed(msgs)) + i]
      BY <2>2, <3>1, Zenon
    <3>3. QED
      <4>1. /\ Trimmed(msgs) \in Seq(Nat)
            /\ Len(Trimmed(msgs)) = IF n + 1 > m_max_recent_msgs
                                    THEN m_max_recent_msgs ELSE n + 1
        BY <2>2, <3>2
      <4>2. Len(msgs) - Len(Trimmed(msgs)) = n + 1 - Len(Trimmed(msgs))
        BY <2>2
      <4>3. ASSUME NEW i \in 1 .. Len(Trimmed(msgs))
            PROVE  Trimmed(msgs)[i] = msgs[n + 1 - Len(Trimmed(msgs)) + i]
        BY <3>2, <4>2
      <4>4. QED
        BY <4>1, <4>3
  <2>6. \A i \in 1 .. Len(m_recent_msgs') :
           m_recent_msgs'[i] = posted' - Len(m_recent_msgs') + i
    <3> DEFINE k == Len(Trimmed(msgs))
    <3>1. k \in 1 .. n + 1
      BY <2>1, <2>5
    <3> HIDE DEF n, k
    <3>2. ASSUME NEW i \in 1 .. k
          PROVE  Trimmed(msgs)[i] = posted + 1 - k + i
      <4>1. n + 1 - k + i \in 1 .. n + 1
        BY <2>1, <3>1
      <4>2. Trimmed(msgs)[i] = msgs[n + 1 - k + i]
        BY <2>5 DEF k
      <4>3. msgs[n + 1 - k + i] = posted - n + (n + 1 - k + i)
        BY <2>2, <4>1
      <4>4. QED
        BY <2>1, <3>1, <4>2, <4>3
    <3>3. posted' = posted + 1 /\ Len(m_recent_msgs') = k
      BY <2>3 DEF k
    <3>4. QED
      <4> SUFFICES ASSUME NEW i \in 1 .. Len(m_recent_msgs')
                   PROVE  m_recent_msgs'[i] = posted' - Len(m_recent_msgs') + i
        OBVIOUS
      <4>1. Trimmed(msgs)[i] = posted + 1 - k + i
        BY <3>2, <3>3
      <4>2. QED
        BY <2>1, <2>3, <3>1, <3>3, <4>1
  <2>7. QED
    <3>1. Len(m_recent_msgs') = IF posted' < m_max_recent_msgs
                                THEN posted' ELSE m_max_recent_msgs
      BY <2>1, <2>3, <2>4, <2>5
    <3>2. DOMAIN m_recent_msgs' = 1 .. Len(m_recent_msgs')
      BY <2>3, <2>5
    <3>3. QED
      BY <2>6, <3>1, <3>2 DEF HistoryIsNewest
<1>3. QED
  BY <1>1, <1>2 DEF Step, Quiet, Tells, Admits, Private, Broadcasts

\* Where an item of an outbox comes from.
LEMMA DeliveredItem ==
    ASSUME TypeOK, NEW items \in Seq(Items), NEW S, DeliverTo(S, items),
           NEW s \in Sessions, NEW i \in DOMAIN pushed'[s]
    PROVE  \/ i \in DOMAIN pushed[s] /\ pushed'[s][i] = pushed[s][i]
           \/ /\ s \in S
              /\ \E j \in 1 .. Len(items) :
                    i = Len(pushed[s]) + j /\ pushed'[s][i] = items[j]
<1>1. /\ pushed[s] \in Seq(Items) /\ pushed'[s] \in Seq(Items)
      /\ s \notin S => pushed'[s] = pushed[s]
      /\ s \in S => Len(pushed'[s]) = Len(pushed[s]) + Len(items)
      /\ \A k \in 1 .. Len(pushed[s]) : pushed'[s][k] = pushed[s][k]
      /\ s \in S => \A k \in 1 .. Len(items) :
                       pushed'[s][Len(pushed[s]) + k] = items[k]
  BY Delivery DEF TypeOK
<1>2. i \in 1 .. Len(pushed'[s])
  BY <1>1
<1>3. CASE i <= Len(pushed[s])
  BY <1>1, <1>2, <1>3
<1>4. CASE i > Len(pushed[s])
  <2> DEFINE j == i - Len(pushed[s])
  <2>1. s \in S
    BY <1>1, <1>2, <1>4
  <2>2. j \in 1 .. Len(items) /\ i = Len(pushed[s]) + j
    <3>1. /\ Len(pushed[s]) \in Nat /\ Len(items) \in Nat /\ i \in Nat
          /\ i <= Len(pushed[s]) + Len(items)
      BY <1>1, <1>2, <2>1
    <3>2. QED
      BY <1>4, <3>1
  <2>3. QED
    BY <1>1, <2>1, <2>2
<1>5. QED
  BY <1>1, <1>2, <1>3, <1>4

\* What was delivered before is still there.
LEMMA DeliveredBefore ==
    ASSUME TypeOK, NEW items \in Seq(Items), NEW S, DeliverTo(S, items),
           NEW s \in Sessions, NEW i \in DOMAIN pushed[s]
    PROVE  i \in DOMAIN pushed'[s] /\ pushed'[s][i] = pushed[s][i]
<1>1. /\ pushed[s] \in Seq(Items) /\ pushed'[s] \in Seq(Items)
      /\ s \notin S => pushed'[s] = pushed[s]
      /\ s \in S => Len(pushed'[s]) = Len(pushed[s]) + Len(items)
      /\ \A k \in 1 .. Len(pushed[s]) : pushed'[s][k] = pushed[s][k]
  BY Delivery DEF TypeOK
<1>2. i \in 1 .. Len(pushed[s]) /\ Len(items) \in Nat
  BY <1>1
<1>3. QED
  BY <1>1, <1>2

\* A broadcast, seen by a session: a live one is given the new message.
LEMMA Broadcast ==
    ASSUME TypeOK, RoomHoldsLiveSessions, Deliver, NEW s \in Sessions
    PROVE  /\ posted \in Nat /\ posted' = posted + 1 /\ joinedAt' = joinedAt
           /\ <<Live(posted + 1)>> \in Seq(Items)
           /\ DeliverTo(m_participants, <<Live(posted + 1)>>)
           /\ session[s] # "live" => pushed'[s] = pushed[s]
           /\ session[s] = "live" =>
                 \E i \in DOMAIN pushed'[s] : pushed'[s][i] = Live(posted + 1)
<1>1. /\ posted \in Nat /\ posted' = posted + 1 /\ joinedAt' = joinedAt
      /\ DeliverTo(m_participants, <<Live(posted + 1)>>)
  BY MaxPostsAssumption DEF TypeOK, Deliver, Audience
<1>2. <<Live(posted + 1)>> \in Seq(Items)
  BY <1>1 DEF Live, Items
<1>3. /\ pushed[s] \in Seq(Items) /\ pushed'[s] \in Seq(Items)
      /\ s \notin m_participants => pushed'[s] = pushed[s]
      /\ s \in m_participants =>
            /\ Len(pushed'[s]) = Len(pushed[s]) + 1
            /\ pushed'[s][Len(pushed[s]) + 1] = Live(posted + 1)
  <2> DEFINE items == <<Live(posted + 1)>>
  <2>1. items \in Seq(Items) /\ Len(items) = 1 /\ items[1] = Live(posted + 1)
    BY <1>2
  <2>2. DeliverTo(m_participants, items)
    BY <1>1
  <2> HIDE DEF items
  <2>3. /\ pushed[s] \in Seq(Items) /\ pushed'[s] \in Seq(Items)
        /\ s \notin m_participants => pushed'[s] = pushed[s]
        /\ s \in m_participants =>
              /\ Len(pushed'[s]) = Len(pushed[s]) + Len(items)
              /\ \A i \in 1 .. Len(items) :
                    pushed'[s][Len(pushed[s]) + i] = items[i]
    <3>1. pushed'[s] = IF s \in m_participants THEN pushed[s] \o items
                                               ELSE pushed[s]
      BY <2>2 DEF DeliverTo
    <3>2. pushed[s] \in Seq(Items)
      BY DEF TypeOK
    <3>3. QED
      <4>1. CASE s \in m_participants
        <5>1. pushed'[s] = pushed[s] \o items
          BY <3>1, <4>1
        <5>2. QED
          <6>1. /\ pushed[s] \o items \in Seq(Items)
                /\ Len(pushed[s] \o items) = Len(pushed[s]) + Len(items)
                /\ \A i \in 1 .. Len(items) :
                      (pushed[s] \o items)[Len(pushed[s]) + i] = items[i]
            BY <2>1, <3>2, ConcatIs
          <6>2. QED
            BY <3>2, <4>1, <5>1, <6>1
      <4>2. CASE s \notin m_participants
        BY <3>1, <3>2, <4>2
      <4>3. QED
        BY <4>1, <4>2
  <2>4. QED
    BY <2>1, <2>3
<1>4. session[s] = "live" =>
         \E i \in DOMAIN pushed'[s] : pushed'[s][i] = Live(posted + 1)
  <2>1. SUFFICES ASSUME session[s] = "live"
                 PROVE  \E i \in DOMAIN pushed'[s] :
                           pushed'[s][i] = Live(posted + 1)
    OBVIOUS
  <2>2. Len(pushed[s]) + 1 \in DOMAIN pushed'[s]
    BY <1>3, <2>1 DEF RoomHoldsLiveSessions
  <2>3. QED
    BY <1>3, <2>1, <2>2 DEF RoomHoldsLiveSessions
<1>5. QED
  BY <1>1, <1>2, <1>3, <1>4 DEF RoomHoldsLiveSessions

\* Nothing is delivered to who is not in the room, and nothing that is not yet said.
LEMMA FeedsNext ==
    ASSUME TypeOK, RoomHoldsLiveSessions, Feeds, Step
    PROVE  Feeds'
<1> SUFFICES ASSUME NEW s \in Sessions
             PROVE  /\ session'[s] = "absent" => pushed'[s] = <<>>
                    /\ session'[s] = "live" =>
                          /\ joinedAt'[s] <= posted'
                          /\ \A i \in DOMAIN pushed'[s] :
                                pushed'[s][i].kind = "live" =>
                                   pushed'[s][i].msg <= posted'
  BY DEF Feeds, At
<1>1. /\ posted \in Nat
      /\ session[s] = "absent" => pushed[s] = <<>>
      /\ session[s] = "live" =>
            /\ joinedAt[s] <= posted
            /\ \A i \in DOMAIN pushed[s] :
                  pushed[s][i].kind = "live" => pushed[s][i].msg <= posted
  BY MaxPostsAssumption DEF Feeds, At, TypeOK
<1>2. CASE Quiet
  BY <1>1, <1>2 DEF Quiet
<1>3. ASSUME NEW t \in Sessions, NEW items, Private(t, items)
      PROVE  /\ session'[s] = "absent" => pushed'[s] = <<>>
             /\ session'[s] = "live" =>
                   /\ joinedAt'[s] <= posted'
                   /\ \A i \in DOMAIN pushed'[s] :
                         pushed'[s][i].kind = "live" =>
                            pushed'[s][i].msg <= posted'
  <2>1. /\ UNCHANGED <<session, posted, joinedAt>> /\ items \in Seq(Items)
        /\ session[t] = "live" /\ DeliverTo({t}, items)
        /\ \A i \in 1 .. Len(items) : items[i].kind # "live"
    BY <1>3 DEF Private
  <2>2. session[s] = "absent" => pushed'[s] = pushed[s]
    BY <2>1, Delivery DEF TypeOK
  <2>3. \A i \in DOMAIN pushed'[s] : pushed'[s][i].kind = "live" =>
           i \in DOMAIN pushed[s] /\ pushed'[s][i] = pushed[s][i]
    BY <2>1, DeliveredItem
  <2>4. QED
    BY <1>1, <2>1, <2>2, <2>3
<1>4. CASE Broadcasts
  <2>1. /\ Deliver /\ UNCHANGED session
        /\ posted' = posted + 1 /\ joinedAt' = joinedAt
        /\ <<Live(posted + 1)>> \in Seq(Items)
        /\ DeliverTo(m_participants, <<Live(posted + 1)>>)
        /\ session[s] # "live" => pushed'[s] = pushed[s]
    BY <1>4, Broadcast DEF Broadcasts
  <2>2. \A i \in DOMAIN pushed'[s] :
           \/ i \in DOMAIN pushed[s] /\ pushed'[s][i] = pushed[s][i]
           \/ pushed'[s][i] = Live(posted + 1)
    <3> DEFINE items == <<Live(posted + 1)>>
    <3>1. items \in Seq(Items) /\ \A j \in 1 .. Len(items) :
                                      items[j] = Live(posted + 1)
      BY <2>1
    <3>2. DeliverTo(m_participants, items)
      BY <2>1
    <3> HIDE DEF items
    <3>3. QED
      BY <3>1, <3>2, DeliveredItem
  <2>3. Live(posted + 1).msg = posted + 1
    BY DEF Live
  <2>4. joinedAt[s] \in Nat
    BY DEF TypeOK
  <2>5. ASSUME session[s] = "live", NEW i \in DOMAIN pushed'[s],
               pushed'[s][i].kind = "live"
        PROVE  pushed'[s][i].msg <= posted + 1
    <3>1. CASE pushed'[s][i] = Live(posted + 1)
      BY <1>1, <2>3, <3>1
    <3>2. CASE i \in DOMAIN pushed[s] /\ pushed'[s][i] = pushed[s][i]
      <4>1. pushed[s][i].msg \in Nat
        <5>1. pushed[s] \in Seq(Items)
          BY DEF TypeOK
        <5>2. pushed[s][i] \in Items
          BY <3>2, <5>1
        <5>3. QED
          BY <5>2 DEF Items
      <4>2. pushed[s][i].msg <= posted
        BY <1>1, <2>5, <3>2
      <4>3. QED
        BY <1>1, <3>2, <4>1, <4>2
    <3>3. QED
      BY <2>2, <3>1, <3>2
  <2>6. QED
    BY <1>1, <2>1, <2>4, <2>5
<1>5. QED
  BY <1>2, <1>3, <1>4 DEF Step, Tells, Admits

\* What a broadcast may add to the outbox of a session.
LEMMA BroadcastItem ==
    ASSUME TypeOK, RoomHoldsLiveSessions, Deliver,
           NEW s \in Sessions, NEW i \in DOMAIN pushed'[s]
    PROVE  \/ i \in DOMAIN pushed[s] /\ pushed'[s][i] = pushed[s][i]
           \/ i = Len(pushed[s]) + 1 /\ pushed'[s][i] = Live(posted + 1)
<1> DEFINE items == <<Live(posted + 1)>>
<1>1. items \in Seq(Items) /\ Len(items) = 1 /\ items[1] = Live(posted + 1)
  BY Broadcast
<1>2. DeliverTo(m_participants, items)
  BY Broadcast
<1> HIDE DEF items
<1>3. QED
  BY <1>1, <1>2, DeliveredItem

\* A broadcast takes nothing out of an outbox.
LEMMA BroadcastKeeps ==
    ASSUME TypeOK, RoomHoldsLiveSessions, Deliver,
           NEW s \in Sessions, NEW i \in DOMAIN pushed[s]
    PROVE  i \in DOMAIN pushed'[s] /\ pushed'[s][i] = pushed[s][i]
<1> DEFINE items == <<Live(posted + 1)>>
<1>1. items \in Seq(Items) /\ DeliverTo(m_participants, items)
  BY Broadcast
<1> HIDE DEF items
<1>2. QED
  BY <1>1, DeliveredBefore

\* LiveFeedComplete for one session.
Complete(s) ==
    /\ \A m \in joinedAt[s] + 1 .. posted :
          \E i \in DOMAIN pushed[s] : pushed[s][i] = Live(m)
    /\ \A i \in DOMAIN pushed[s] : pushed[s][i].kind = "live" =>
          /\ pushed[s][i].msg > joinedAt[s]
          /\ \A j \in 1 .. i - 1 :
                pushed[s][j].kind = "live" => pushed[s][j].msg < pushed[s][i].msg

\* A live session is given every broadcast.
LEMMA LiveNext ==
    ASSUME TypeOK, RoomHoldsLiveSessions, Feeds, LiveFeedComplete, Step
    PROVE  LiveFeedComplete'
<1> SUFFICES ASSUME NEW s \in Sessions, session'[s] = "live"
             PROVE  Complete(s)'
  BY DEF LiveFeedComplete, Complete, At
<1>1. /\ posted \in Nat /\ joinedAt[s] \in Nat
      /\ pushed[s] \in Seq(Items)
      /\ session[s] = "absent" => pushed[s] = <<>>
      /\ session[s] = "live" =>
            /\ joinedAt[s] <= posted
            /\ \A i \in DOMAIN pushed[s] :
                  pushed[s][i].kind = "live" => pushed[s][i].msg <= posted
      /\ session[s] = "live" => Complete(s)
  BY MaxPostsAssumption DEF Feeds, LiveFeedComplete, Complete, At, TypeOK
<1>2. CASE Quiet
  BY <1>1, <1>2 DEF Quiet, Complete
<1>3. ASSUME NEW t \in Sessions, NEW items, Private(t, items)
      PROVE  Complete(s)'
  <2>1. /\ UNCHANGED <<session, posted, joinedAt>> /\ items \in Seq(Items)
        /\ DeliverTo({t}, items)
        /\ \A i \in 1 .. Len(items) : items[i].kind # "live"
    BY <1>3 DEF Private
  <2>2. \A i \in DOMAIN pushed'[s] : pushed'[s][i].kind = "live" =>
           i \in DOMAIN pushed[s] /\ pushed'[s][i] = pushed[s][i]
    BY <2>1, DeliveredItem
  <2>3. \A i \in DOMAIN pushed[s] :
           i \in DOMAIN pushed'[s] /\ pushed'[s][i] = pushed[s][i]
    BY <2>1, DeliveredBefore
  <2>4. \A m \in joinedAt[s] + 1 .. posted :
           \E i \in DOMAIN pushed'[s] : pushed'[s][i] = Live(m)
    BY <1>1, <2>1, <2>3 DEF Complete
  <2>5. ASSUME NEW i \in DOMAIN pushed'[s], pushed'[s][i].kind = "live"
        PROVE  /\ pushed'[s][i].msg > joinedAt[s]
               /\ \A j \in 1 .. i - 1 : pushed'[s][j].kind = "live" =>
                     pushed'[s][j].msg < pushed'[s][i].msg
    <3>1. i \in DOMAIN pushed[s] /\ pushed'[s][i] = pushed[s][i]
      BY <2>2, <2>5
    <3>2. \A j \in 1 .. i - 1 : j \in DOMAIN pushed[s]
      BY <1>1, <3>1
    <3>3. \A j \in 1 .. i - 1 : pushed'[s][j] = pushed[s][j]
      BY <2>3, <3>2
    <3>4. QED
      BY <1>1, <2>1, <2>5, <3>1, <3>2, <3>3 DEF Complete
  <2>6. QED
    BY <2>1, <2>4, <2>5 DEF Complete
<1>4. CASE Broadcasts
  <2>1. /\ Deliver /\ UNCHANGED session /\ session[s] = "live"
        /\ posted' = posted + 1 /\ joinedAt' = joinedAt
    BY <1>4, Broadcast DEF Broadcasts
  <2>2. \E i \in DOMAIN pushed'[s] : pushed'[s][i] = Live(posted + 1)
    BY <2>1, Broadcast
  <2>3. \A i \in DOMAIN pushed'[s] :
           \/ i \in DOMAIN pushed[s] /\ pushed'[s][i] = pushed[s][i]
           \/ i = Len(pushed[s]) + 1 /\ pushed'[s][i] = Live(posted + 1)
    BY <2>1, BroadcastItem
  <2>4. \A i \in DOMAIN pushed[s] :
           i \in DOMAIN pushed'[s] /\ pushed'[s][i] = pushed[s][i]
    BY <2>1, BroadcastKeeps
  <2>5. ASSUME NEW m \in joinedAt[s] + 1 .. posted + 1
        PROVE  \E i \in DOMAIN pushed'[s] : pushed'[s][i] = Live(m)
    <3>1. CASE m = posted + 1
      BY <2>2, <3>1
    <3>2. CASE m # posted + 1
      <4>1. m \in joinedAt[s] + 1 .. posted
        BY <1>1, <3>2
      <4>2. QED
        BY <1>1, <2>1, <2>4, <4>1 DEF Complete
    <3>3. QED
      BY <3>1, <3>2
  <2>6. ASSUME NEW i \in DOMAIN pushed'[s], pushed'[s][i].kind = "live"
        PROVE  /\ pushed'[s][i].msg > joinedAt[s]
               /\ \A j \in 1 .. i - 1 : pushed'[s][j].kind = "live" =>
                     pushed'[s][j].msg < pushed'[s][i].msg
    <3>1. \A j \in 1 .. i - 1 :
             j \in DOMAIN pushed[s] /\ pushed'[s][j] = pushed[s][j]
      <4>1. \A j \in 1 .. i - 1 : j \in DOMAIN pushed[s]
        BY <1>1, <2>3
      <4>2. QED
        BY <2>4, <4>1
    <3>2. CASE i \in DOMAIN pushed[s] /\ pushed'[s][i] = pushed[s][i]
      BY <1>1, <2>1, <2>6, <3>1, <3>2 DEF Complete
    <3>3. CASE pushed'[s][i] = Live(posted + 1)
      <4>1. pushed'[s][i].msg = posted + 1
        BY <3>3 DEF Live
      <4>2. \A j \in 1 .. i - 1 : pushed'[s][j].kind = "live" =>
               pushed'[s][j].msg \in Nat /\ pushed'[s][j].msg <= posted
        <5>1. \A j \in DOMAIN pushed[s] : pushed[s][j].msg \in Nat
          <6>1. \A j \in DOMAIN pushed[s] : pushed[s][j] \in Items
            BY <1>1
          <6>2. QED
            BY <6>1 DEF Items
        <5>2. QED
          BY <1>1, <2>1, <3>1, <5>1
      <4>3. QED
        BY <1>1, <2>1, <4>1, <4>2
    <3>4. QED
      BY <2>3, <3>2, <3>3
  <2>7. QED
    BY <2>1, <2>5, <2>6 DEF Complete
<1>5. QED
  BY <1>2, <1>3, <1>4 DEF Step, Tells, Admits

\* No session ever unsees a message.
LEMMA SeenGrows ==
    ASSUME TypeOK, RoomHoldsLiveSessions, Step, NEW s \in Sessions
    PROVE  Seen(s) \subseteq Seen(s)'
<1>1. SUFFICES \A i \in DOMAIN pushed[s] :
                  i \in DOMAIN pushed'[s] /\ pushed'[s][i] = pushed[s][i]
  BY DEF Seen
<1>2. CASE Quiet
  BY <1>2 DEF Quiet
<1>3. ASSUME NEW t \in Sessions, NEW items, Private(t, items)
      PROVE  \A i \in DOMAIN pushed[s] :
                i \in DOMAIN pushed'[s] /\ pushed'[s][i] = pushed[s][i]
  BY <1>3, DeliveredBefore DEF Private
<1>4. CASE Broadcasts
  BY <1>4, BroadcastKeeps DEF Broadcasts
<1>5. QED
  BY <1>2, <1>3, <1>4 DEF Step, Tells, Admits

\* What the room remembers was shown or delivered.
LEMMA MissesNext ==
    ASSUME TypeOK, RoomHoldsLiveSessions, HistoryIsNewest,
           AdmittedMissesNothing, Step
    PROVE  AdmittedMissesNothing'
<1> SUFFICES ASSUME NEW s \in Sessions, session'[s] = "live",
                    hs'[s] = "accepted", NEW i \in DOMAIN m_recent_msgs'
             PROVE  m_recent_msgs'[i] \in Seen(s)'
  BY DEF AdmittedMissesNothing
<1>1. /\ session[s] = "live" /\ hs[s] = "accepted" =>
            \A k \in DOMAIN m_recent_msgs : m_recent_msgs[k] \in Seen(s)
      /\ Seen(s) \subseteq Seen(s)'
  BY SeenGrows DEF AdmittedMissesNothing
<1>2. CASE Quiet
  BY <1>1, <1>2 DEF Quiet
<1>3. CASE Tells
  BY <1>1, <1>3 DEF Tells, Private
<1>4. ASSUME NEW t \in Sessions, Private(t, Remembered),
             hs' = [hs EXCEPT ![t] = "accepted"]
      PROVE  m_recent_msgs'[i] \in Seen(s)'
  <2>1. UNCHANGED <<session, m_recent_msgs>> /\ DeliverTo({t}, Remembered)
    BY <1>4 DEF Private
  <2>2. CASE t # s
    BY <1>1, <1>4, <2>1, <2>2 DEF TypeOK
  <2>3. CASE t = s
    <3>1. /\ i \in 1 .. Len(m_recent_msgs) /\ m_recent_msgs'[i] = m_recent_msgs[i]
          /\ m_recent_msgs \in Seq(Nat)
      BY <2>1 DEF TypeOK
    <3>2. m_recent_msgs[i] # 0
      <4>1. posted \in Nat /\ m_max_recent_msgs \in Nat \ {0}
        BY MaxPostsAssumption, RecentAssumption DEF TypeOK
      <4>2. /\ m_recent_msgs[i] = posted - Len(m_recent_msgs) + i
            /\ Len(m_recent_msgs) <= posted
        BY <3>1, <4>1 DEF HistoryIsNewest
      <4>3. QED
        BY <3>1, <4>1, <4>2
    <3>3. /\ Remembered \in Seq(Items) /\ i \in 1 .. Len(Remembered)
          /\ Remembered[i] = History(m_recent_msgs[i])
      BY <3>1, RememberedItems
    <3>4. /\ pushed[s] \in Seq(Items) /\ pushed'[s] \in Seq(Items)
          /\ Len(pushed'[s]) = Len(pushed[s]) + Len(Remembered)
          /\ pushed'[s][Len(pushed[s]) + i] = Remembered[i]
      BY <2>1, <2>3, <3>3, Delivery, SMTT(30) DEF TypeOK
    <3>5. Len(pushed[s]) + i \in DOMAIN pushed'[s]
      BY <3>3, <3>4
    <3>6. History(m_recent_msgs[i]).msg = m_recent_msgs[i]
      BY DEF History
    <3>7. QED
      BY <3>1, <3>2, <3>3, <3>4, <3>5, <3>6 DEF Seen
  <2>4. QED
    BY <2>2, <2>3
<1>5. CASE Broadcasts
  <2>1. /\ Deliver /\ session[s] = "live" /\ hs[s] = "accepted"
        /\ posted \in Nat /\ posted' = posted + 1
    BY <1>5, Broadcast DEF Broadcasts
  <2> DEFINE n == Len(m_recent_msgs)
             l == Len(m_recent_msgs')
  <2>2. HistoryIsNewest'
    BY HistoryNext
  <2>3. DOMAIN m_recent_msgs' = 1 .. l /\ l \in Nat /\ l <= n + 1 /\ n \in Nat
    <3>1. /\ m_recent_msgs \in Seq(Nat)
          /\ Append(m_recent_msgs, posted + 1) \in Seq(Nat)
          /\ Len(Append(m_recent_msgs, posted + 1)) = n + 1
      BY <2>1 DEF TypeOK
    <3>2. m_recent_msgs' = Trimmed(Append(m_recent_msgs, posted + 1))
      BY <2>1 DEF Deliver
    <3>3. m_recent_msgs' \in Seq(Nat)
      BY <3>1, <3>2, TrimmedIs
    <3>4. /\ l = IF posted + 1 < m_max_recent_msgs THEN posted + 1
                 ELSE m_max_recent_msgs
          /\ n = IF posted < m_max_recent_msgs THEN posted
                 ELSE m_max_recent_msgs
      BY <2>1, <2>2 DEF HistoryIsNewest
    <3>5. QED
      BY <2>1, <3>1, <3>3, <3>4, RecentAssumption
  <2>4. m_recent_msgs'[i] = posted + 1 - l + i /\ i \in 1 .. l
    BY <2>1, <2>2, <2>3 DEF HistoryIsNewest
  <2>5. CASE i = l
    <3>1. m_recent_msgs'[i] = posted + 1
      BY <2>1, <2>3, <2>4, <2>5
    <3>2. PICK k \in DOMAIN pushed'[s] : pushed'[s][k] = Live(posted + 1)
      BY <2>1, Broadcast
    <3>3. Live(posted + 1).msg = posted + 1 /\ posted + 1 # 0
      BY <2>1 DEF Live
    <3>4. QED
      BY <3>1, <3>2, <3>3 DEF Seen
  <2>6. CASE i # l
    <3> DEFINE k == n + 1 - l + i
    <3>1. k \in 1 .. n
      BY <2>3, <2>4, <2>6
    <3>2. m_recent_msgs[k] = posted - n + k /\ k \in DOMAIN m_recent_msgs
      BY <3>1 DEF HistoryIsNewest, TypeOK
    <3>3. posted - n + k = posted + 1 - l + i
      BY <2>1, <2>3, <2>4
    <3>4. QED
      BY <1>1, <2>1, <2>4, <3>2, <3>3
  <2>7. QED
    BY <2>5, <2>6
<1>6. QED
  BY <1>2, <1>3, <1>4, <1>5 DEF Step, Admits

----------------------------------------------------------------------------
(* The theorems.                                                           *)

\* The inductive invariant holds at the start.
LEMMA InvInit == Init => IInv
<1> SUFFICES ASSUME Init PROVE IInv
  OBVIOUS
<1> USE DEF Init, SessionInit, RoomInit
<1>1. TypeOK
  BY TypeInit
<1>2. RoomHoldsLiveSessions /\ WatchedUnlessLost /\ LiveFeedComplete
  BY DEF RoomHoldsLiveSessions, WatchedUnlessLost, LiveFeedComplete
<1>3. Outboxes
  <2>1. ASSUME NEW s \in Sessions
        PROVE  /\ popped[s] <= Len(pushed[s])
               /\ writer[s] # "writing" /\ writer[s] # "waiting"
    <3>1. popped[s] = 0 /\ pushed[s] = <<>> /\ writer[s] = "none"
      OBVIOUS
    <3>2. Len(pushed[s]) = 0
      BY <3>1
    <3>3. QED
      BY <3>1, <3>2
  <2>2. QED
    BY <2>1, Zenon DEF Outboxes
<1>4. HistoryIsNewest
  BY RecentAssumption DEF HistoryIsNewest
<1>5. Feeds /\ AdmittedMissesNothing
  BY DEF Feeds, AdmittedMissesNothing
<1>6. QED
  BY <1>1, <1>2, <1>3, <1>4, <1>5 DEF IInv

\* Every step keeps it.
LEMMA InvNext == IInv /\ [Next]_vars => IInv'
<1> SUFFICES ASSUME IInv, [Next]_vars PROVE IInv'
  OBVIOUS
<1>1. Step
  BY Steps DEF Step
<1>2. TypeOK /\ RoomHoldsLiveSessions /\ HistoryIsNewest /\ Feeds
      /\ LiveFeedComplete /\ AdmittedMissesNothing
  BY DEF IInv
<1>3. TypeOK'
  BY <1>2, TypeNext
<1>4. RoomHoldsLiveSessions' /\ Outboxes' /\ WatchedUnlessLost'
  BY RoomNext, OutboxesNext, WatchedNext
<1>5. HistoryIsNewest' /\ Feeds' /\ LiveFeedComplete' /\ AdmittedMissesNothing'
  BY <1>1, <1>2, HistoryNext, FeedsNext, LiveNext, MissesNext
<1>6. QED
  BY <1>3, <1>4, <1>5 DEF IInv

\* The conjunction of the parts is an invariant of the server.
THEOREM Invariant == Spec => []IInv
BY InvInit, InvNext, PTL DEF Spec

\* The room owns exactly the sessions that are alive.
THEOREM RoomCorrect == Spec => []RoomHoldsLiveSessions
<1>1. IInv => RoomHoldsLiveSessions
  BY DEF IInv
<1>2. QED
  BY <1>1, Invariant, PTL

\* The writer of a session never waits while its outbox holds something.
THEOREM NoWakeupLost == Spec => []NoLostWakeup
<1>1. IInv => NoLostWakeup
  BY DEF IInv, Outboxes, NoLostWakeup, OutboxEmpty
<1>2. QED
  BY <1>1, Invariant, PTL

\* The room remembers the newest m_max_recent_msgs messages, oldest first.
THEOREM HistoryCorrect == Spec => []HistoryIsNewest
<1>1. IInv => HistoryIsNewest
  BY DEF IInv
<1>2. QED
  BY <1>1, Invariant, PTL

\* Every live session is watched by its handshake or its reader, or was lost.
THEOREM Watched == Spec => []WatchedUnlessLost
<1>1. IInv => WatchedUnlessLost
  BY DEF IInv
<1>2. QED
  BY <1>1, Invariant, PTL

\* A live session was given every message since it joined, in order.
THEOREM FeedComplete == Spec => []LiveFeedComplete
<1>1. IInv => LiveFeedComplete
  BY DEF IInv
<1>2. QED
  BY <1>1, Invariant, PTL

\* An admitted session has seen every message the room remembers.
THEOREM NothingMissed == Spec => []AdmittedMissesNothing
<1>1. IInv => AdmittedMissesNothing
  BY DEF IInv
<1>2. QED
  BY <1>1, Invariant, PTL

----------------------------------------------------------------------------
(* What a session was shown when it was admitted.                          *)

\* How many messages the room remembered when s was admitted.
Depth(s) == IF admittedAt[s] < m_max_recent_msgs THEN admittedAt[s]
                                                 ELSE m_max_recent_msgs

\* They stand in the outbox one after the other, behind the first b items, and
\* nowhere else.
ShownBehind(s, b) ==
    /\ b + Depth(s) <= Len(pushed[s])
    /\ \A j \in 1 .. Depth(s) :
          pushed[s][b + j] = History(admittedAt[s] - Depth(s) + j)
    /\ \A i \in DOMAIN pushed[s] :
          pushed[s][i].kind = "history" => i \in b + 1 .. b + Depth(s)

Histories ==
    \A s \in Sessions :
        IF hs[s] = "accepted"
        THEN \E b \in Nat : ShownBehind(s, b)
        ELSE \A i \in DOMAIN pushed[s] : pushed[s][i].kind # "history"

\* The steps that admit nobody, and show nothing that is remembered.
SameAdmitted == /\ admittedAt' = admittedAt
                /\ \A s \in Sessions : hs'[s] = "accepted" <=> hs[s] = "accepted"

Plainly(S, items) ==
    /\ items \in Seq(Items) /\ \A i \in 1 .. Len(items) : items[i].kind # "history"
    /\ DeliverTo(S, items)

\* A session that never connected has no handshake.
Unborn == \A s \in Sessions : session[s] = "absent" => hs[s] = "none"

\* A handshake begins with its session.
LEMMA UnbornNext == IInv /\ Unborn /\ [Next]_vars => Unborn'
<1> SUFFICES ASSUME TypeOK, Unborn, [Next]_vars PROVE Unborn'
  BY DEF IInv
<1> USE DEF Unborn, TypeOK
<1>1. ASSUME NEW s \in Sessions, Connect(s) PROVE Unborn'
  BY <1>1 DEF Connect, Join, Start
<1>2. ASSUME NEW s \in Sessions, NEW caller, Stop(s, caller),
             \/ UNCHANGED hs
             \/ Enter(s, "refused")
      PROVE  Unborn'
  BY <1>2 DEF Stop, Destroy, Leave, Enter
<1>3. ASSUME NEW s \in Sessions, Handshaking(s) PROVE Unborn'
  <2>1. CASE PasswordBroken(s) \/ RefusalElapses(s)
    BY <1>2, <2>1 DEF PasswordBroken, RefusalElapses, Refuse
  <2>2. CASE PasswordRight(s) \/ PasswordWrong(s) \/ TimesOut(s)
    BY <2>2 DEF PasswordRight, PasswordWrong, TimesOut, Told, InPhase, Enter
  <2>3. CASE Lost(s) \/ Admitted(s)
    BY <2>3 DEF Lost, Admitted, InPhase, Enter
  <2> QED
    BY <1>3, <2>1, <2>2, <2>3 DEF Handshaking
<1>4. ASSUME NEW s \in Sessions, ReaderFails(s) \/ WriteFails(s) PROVE Unborn'
  BY <1>2, <1>4 DEF ReaderFails, WriteFails
<1>5. ASSUME NEW s \in Sessions,
             \/ Peer(s) \/ ReaderReceives(s) \/ Writes(s)
             \/ \E c \in {"try_connect", "reader", "writer"} :
                   DanglingResumes(s, c)
      PROVE  Unborn'
  BY <1>5 DEF Peer, PeerStalls, PeerResumes, PeerLeaves, PeerTurns, Writes,
     ReaderReceives, WriterRuns, WriteCompletes, DanglingResumes, sessionVars,
     roomVars
<1>6. CASE UNCHANGED vars
  BY <1>6 DEF vars, sessionVars
<1> QED
  BY <1>1, <1>3, <1>4, <1>5, <1>6 DEF Next

\* The history is shown by the step that admits a session, and by no other.
LEMMA Showing ==
    ASSUME IInv, Unborn, [Next]_vars
    PROVE  \/ SameAdmitted /\ UNCHANGED pushed
           \/ SameAdmitted /\ \E S \in SUBSET Sessions, items \in Seq(Items) : Plainly(S, items)
           \/ \E s \in Sessions : Admitted(s)
<1> DEFINE Goal == \/ SameAdmitted /\ UNCHANGED pushed
                   \/ SameAdmitted /\ \E S \in SUBSET Sessions, items \in Seq(Items) :
                                         Plainly(S, items)
                   \/ \E s \in Sessions : Admitted(s)
<1> USE DEF IInv
<1>1. ASSUME UNCHANGED <<pushed, hs, admittedAt>> PROVE Goal
  BY <1>1 DEF SameAdmitted
<1>2. ASSUME NEW s \in Sessions, Connect(s) PROVE Goal
  <2>1. session[s] = "absent" /\ hs[s] = "none"
    BY <1>2 DEF Connect, Unborn
  <2> QED
    BY <1>2, <2>1 DEF Connect, Join, Start, SameAdmitted, TypeOK
<1>3. ASSUME NEW s \in Sessions, NEW phase \in Waiting \cup {"refused", "lost"},
             hs[s] \in Waiting, Enter(s, phase), UNCHANGED admittedAt
      PROVE  SameAdmitted
  BY <1>3 DEF Enter, SameAdmitted, TypeOK, Waiting
<1>4. ASSUME NEW s \in Sessions, Handshaking(s) PROVE Goal
  <2>1. ASSUME NEW kind \in Replies, NEW phase \in Waiting, Told(s, kind, phase)
        PROVE  Goal
    <3>1. SameAdmitted
      BY <1>3, <2>1 DEF Told, InPhase, DeliverPrivate, roomVars, Waiting
    <3>2. <<ReplyItem(kind)>> \in Seq(Items)
      BY <2>1 DEF ReplyItem, Items
    <3>3. \A i \in 1 .. Len(<<ReplyItem(kind)>>) :
             <<ReplyItem(kind)>>[i].kind # "history"
      BY <2>1 DEF ReplyItem, Replies
    <3>4. DeliverTo({s} \cap m_participants, <<ReplyItem(kind)>>)
      BY <2>1 DEF Told, DeliverPrivate
    <3>5. Plainly({s} \cap m_participants, <<ReplyItem(kind)>>)
      BY <3>2, <3>3, <3>4 DEF Plainly
    <3> QED
      BY <3>1, <3>2, <3>5
  <2>2. CASE PasswordRight(s) \/ PasswordWrong(s) \/ TimesOut(s)
    BY <2>1, <2>2 DEF PasswordRight, PasswordWrong, TimesOut, Replies, Waiting
  <2>3. CASE PasswordBroken(s) \/ RefusalElapses(s)
    <3>1. SameAdmitted
      BY <1>3, <2>3 DEF PasswordBroken, RefusalElapses, Refuse, InPhase, Stop,
         Leave, Waiting
    <3>2. UNCHANGED pushed
      BY <2>3 DEF PasswordBroken, RefusalElapses, Refuse, Stop
    <3> QED
      BY <3>1, <3>2
  <2>4. CASE Lost(s)
    BY <1>3, <2>4 DEF Lost, InPhase, roomVars, Waiting
  <2> QED
    BY <1>4, <2>2, <2>3, <2>4 DEF Handshaking
<1>5. ASSUME NEW s \in Sessions, ReaderReceives(s) PROVE Goal
  <2>1. SameAdmitted /\ m_participants \in SUBSET Sessions
    BY <1>5 DEF ReaderReceives, Deliver, SameAdmitted, TypeOK
  <2>2. Live(posted + 1).kind # "history"
    BY DEF Live
  <2>3. <<Live(posted + 1)>> \in Seq(Items)
        /\ DeliverTo(m_participants, <<Live(posted + 1)>>)
    BY <1>5, Broadcast DEF ReaderReceives
  <2>4. \A i \in 1 .. Len(<<Live(posted + 1)>>) :
           <<Live(posted + 1)>>[i].kind # "history"
    BY <2>2
  <2>5. Plainly(m_participants, <<Live(posted + 1)>>)
    BY <2>3, <2>4 DEF Plainly
  <2> QED
    BY <2>1, <2>3, <2>5
<1>6. ASSUME NEW s \in Sessions, ReaderFails(s) \/ Writes(s) \/ WriteFails(s)
      PROVE  Goal
  BY <1>1, <1>6 DEF ReaderFails, Writes, WriterRuns, WriteCompletes, WriteFails,
     Stop, Leave, roomVars
<1>7. ASSUME NEW s \in Sessions,
             Peer(s) \/ \E c \in {"try_connect", "reader", "writer"} :
                           DanglingResumes(s, c)
      PROVE  Goal
  BY <1>1, <1>7 DEF Peer, PeerStalls, PeerResumes, PeerLeaves, PeerTurns,
     DanglingResumes, sessionVars, roomVars
<1>8. CASE UNCHANGED vars
  BY <1>1, <1>8 DEF vars, sessionVars, roomVars
<1> QED
  BY <1>2, <1>4, <1>5, <1>6, <1>7, <1>8 DEF Next

\* A session that is admitted was shown nothing before.
LEMMA HistoriesNext ==
    ASSUME IInv, Unborn, Histories, [Next]_vars
    PROVE  Histories'
<1>1. TypeOK /\ HistoryIsNewest /\ RoomHoldsLiveSessions
  BY DEF IInv
<1>2. CASE SameAdmitted /\ UNCHANGED pushed
  BY <1>2 DEF Histories, ShownBehind, Depth, SameAdmitted
<1>3. ASSUME SameAdmitted, NEW S \in SUBSET Sessions, NEW items \in Seq(Items),
             Plainly(S, items)
      PROVE  Histories'
  <2> SUFFICES ASSUME NEW s \in Sessions
               PROVE  IF hs'[s] = "accepted"
                      THEN \E b \in Nat : ShownBehind(s, b)'
                      ELSE \A i \in DOMAIN pushed'[s] :
                              pushed'[s][i].kind # "history"
    BY DEF Histories
  <2>1. DeliverTo(S, items) /\ \A i \in 1 .. Len(items) : items[i].kind # "history"
    BY <1>3 DEF Plainly
  <2>2. /\ pushed[s] \in Seq(Items) /\ pushed'[s] \in Seq(Items)
        /\ Len(pushed'[s]) >= Len(pushed[s])
    <3>1. CASE s \in S
      BY <1>1, <2>1, <3>1, Delivery DEF TypeOK
    <3>2. CASE s \notin S
      BY <1>1, <2>1, <3>2, Delivery DEF TypeOK
    <3> QED
      BY <3>1, <3>2
  <2>3. \A i \in DOMAIN pushed'[s] : pushed'[s][i].kind = "history" =>
           i \in DOMAIN pushed[s] /\ pushed'[s][i] = pushed[s][i]
    BY <1>1, <2>1, DeliveredItem
  <2>4. \A i \in DOMAIN pushed[s] : pushed'[s][i] = pushed[s][i]
    BY <1>1, <2>1, DeliveredBefore
  <2>5. Depth(s)' = Depth(s) /\ admittedAt'[s] = admittedAt[s]
        /\ (hs'[s] = "accepted" <=> hs[s] = "accepted")
    BY <1>3 DEF SameAdmitted, Depth
  <2>6. CASE hs[s] # "accepted"
    BY <2>3, <2>5, <2>6 DEF Histories
  <2>7. CASE hs[s] = "accepted"
    <3>1. PICK b \in Nat : ShownBehind(s, b)
      BY <2>7 DEF Histories
    <3>2. Depth(s) \in Nat
      BY <1>1, RecentAssumption DEF TypeOK, Depth
    <3>3. ASSUME NEW j \in 1 .. Depth(s)
          PROVE  b + j \in DOMAIN pushed[s]
      BY <2>2, <3>1, <3>2 DEF ShownBehind
    <3>4. ShownBehind(s, b)'
      BY <2>2, <2>3, <2>4, <2>5, <3>1, <3>2, <3>3 DEF ShownBehind
    <3> QED
      BY <2>5, <2>7, <3>4
  <2> QED
    BY <2>6, <2>7
<1>4. ASSUME NEW t \in Sessions, Admitted(t)
      PROVE  Histories'
  <2> SUFFICES ASSUME NEW s \in Sessions
               PROVE  IF hs'[s] = "accepted"
                      THEN \E b \in Nat : ShownBehind(s, b)'
                      ELSE \A i \in DOMAIN pushed'[s] :
                              pushed'[s][i].kind # "history"
    BY DEF Histories
  <2>1. /\ session[t] = "live" /\ hs[t] = "accepting"
        /\ hs' = [hs EXCEPT ![t] = "accepted"]
        /\ admittedAt' = [admittedAt EXCEPT ![t] = posted]
        /\ DeliverTo({t} \cap m_participants, Remembered)
    BY <1>4 DEF Admitted, InPhase, Enter, JoinPublic
  <2>2. {t} \cap m_participants = {t}
    BY <1>1, <2>1 DEF RoomHoldsLiveSessions
  <2>3. DeliverTo({t}, Remembered)
    BY <2>1, <2>2
  <2>4. /\ Remembered \in Seq(Items)
        /\ Len(Remembered) = Len(m_recent_msgs)
        /\ \A i \in 1 .. Len(m_recent_msgs) :
              Remembered[i] = History(m_recent_msgs[i])
    BY <1>1, RememberedItems
  <2>5. CASE s # t
    <3>1. pushed'[s] = pushed[s]
      BY <1>1, <2>3, <2>4, <2>5, Delivery DEF TypeOK
    <3>2. hs'[s] = hs[s] /\ admittedAt'[s] = admittedAt[s]
      BY <1>1, <2>1, <2>5 DEF TypeOK
    <3> QED
      BY <3>1, <3>2 DEF Histories, ShownBehind, Depth
  <2>6. CASE s = t
    <3> DEFINE n == Len(m_recent_msgs)
    <3>0. PICK b \in Nat : b = Len(pushed[s])
      BY <1>1 DEF TypeOK
    <3>1. /\ pushed[s] \in Seq(Items) /\ pushed'[s] \in Seq(Items)
          /\ b \in Nat /\ n \in Nat /\ Len(pushed'[s]) = b + n
          /\ \A i \in 1 .. n : pushed'[s][b + i] = Remembered[i]
      <4>1. pushed \in [Sessions -> Seq(Items)] /\ m_recent_msgs \in Seq(Nat)
        BY <1>1 DEF TypeOK
      <4>2. /\ pushed'[s] \in Seq(Items)
            /\ Len(pushed'[s]) = Len(pushed[s]) + Len(Remembered)
            /\ \A i \in 1 .. Len(Remembered) :
                  pushed'[s][Len(pushed[s]) + i] = Remembered[i]
        BY <2>3, <2>4, <2>6, <4>1, Delivery, ZenonT(60)
      <4> QED
        BY <2>4, <3>0, <4>1, <4>2
    <3>2. hs'[s] = "accepted" /\ admittedAt'[s] = posted
      BY <1>1, <2>1, <2>6 DEF TypeOK
    <3>3. Depth(s)' = n /\ DOMAIN m_recent_msgs = 1 .. n
      BY <1>1, <3>2 DEF HistoryIsNewest, Depth, TypeOK
    <3>4. \A j \in 1 .. n : pushed'[s][b + j] = History(posted - n + j)
      BY <1>1, <2>4, <3>1, <3>3 DEF HistoryIsNewest
    <3>5. \A i \in DOMAIN pushed'[s] : pushed'[s][i].kind = "history" =>
             i \in b + 1 .. b + n
      <4>1. \A i \in DOMAIN pushed[s] : pushed[s][i].kind # "history"
        BY <2>1, <2>6 DEF Histories
      <4>2. ASSUME NEW i \in DOMAIN pushed'[s], pushed'[s][i].kind = "history"
            PROVE  i \in b + 1 .. b + n
        <5>1. \/ i \in DOMAIN pushed[s] /\ pushed'[s][i] = pushed[s][i]
              \/ \E j \in 1 .. Len(Remembered) : i = b + j
          BY <1>1, <2>3, <2>4, <3>0, DeliveredItem
        <5>2. PICK j \in 1 .. n : i = b + j
          BY <2>4, <4>1, <4>2, <5>1
        <5> QED
          BY <3>1, <5>2
      <4> QED
        BY <4>2
    <3> DEFINE d == Depth(s)
    <3> HIDE DEF n, d
    <3>6. d' = n /\ admittedAt'[s] = posted
      BY <3>2, <3>3 DEF d
    <3>7. ShownBehind(s, b)'
      BY <3>1, <3>4, <3>5, <3>6 DEF ShownBehind, d
    <3> QED
      BY <3>1, <3>2, <3>7
  <2> QED
    BY <2>5, <2>6
<1> QED
  BY <1>2, <1>3, <1>4, Showing

\* An admitted session was shown the messages the room remembered when it was
\* admitted, each once; nobody else was shown any.
THEOREM ShownOnce == Spec => []HistoryShownOnce
<1>1. Init => Histories /\ Unborn
  <2> SUFFICES ASSUME Init PROVE Histories /\ Unborn
    OBVIOUS
  <2>1. ASSUME NEW s \in Sessions
        PROVE  hs[s] = "none" /\ pushed[s] = <<>>
    BY DEF Init, SessionInit
  <2>2. DOMAIN <<>> = {}
    OBVIOUS
  <2> QED
    BY <2>1, <2>2 DEF Histories, Unborn
<1>2. IInv /\ Unborn /\ Histories /\ [Next]_vars => Histories' /\ Unborn'
  BY HistoriesNext, UnbornNext
<1>3. IInv /\ Histories => HistoryShownOnce
  <2> SUFFICES ASSUME IInv, Histories, NEW s \in Sessions, NEW m \in 1 .. posted
               PROVE  LET shown == {i \in DOMAIN pushed[s] : At(s, i) = History(m)}
                      IN  IF /\ hs[s] = "accepted"
                             /\ m <= admittedAt[s]
                             /\ m > admittedAt[s] - m_max_recent_msgs
                          THEN \E i \in shown : shown = {i}
                          ELSE shown = {}
    BY DEF HistoryShownOnce
  <2> DEFINE shown == {i \in DOMAIN pushed[s] : pushed[s][i] = History(m)}
  <2>1. /\ pushed[s] \in Seq(Items) /\ admittedAt[s] \in Nat /\ posted \in Nat
        /\ m_max_recent_msgs \in Nat \ {0}
    BY MaxPostsAssumption, RecentAssumption DEF IInv, TypeOK
  <2>2. History(m).kind = "history" /\ \A k : History(k).msg = k
    BY DEF History
  <2>3. CASE hs[s] # "accepted"
    <3>1. shown = {}
      BY <2>2, <2>3 DEF Histories
    <3> QED
      BY <2>3, <3>1 DEF At
  <2>4. CASE hs[s] = "accepted"
    <3>1. PICK b \in Nat : ShownBehind(s, b)
      BY <2>4 DEF Histories
    <3> DEFINE n == Depth(s)
               j == m - admittedAt[s] + n
    <3>2. n \in Nat /\ n = IF admittedAt[s] < m_max_recent_msgs
                           THEN admittedAt[s] ELSE m_max_recent_msgs
      BY <2>1 DEF Depth
    <3>3. ASSUME NEW i \in shown
          PROVE  j \in 1 .. n /\ i = b + j
      <4>1. i \in b + 1 .. b + n
        BY <2>2, <3>1 DEF ShownBehind
      <4>2. i - b \in 1 .. n /\ b + (i - b) = i
        BY <3>2, <4>1
      <4>3. pushed[s][i] = History(admittedAt[s] - n + (i - b))
        BY <3>1, <4>2 DEF ShownBehind
      <4>4. m = admittedAt[s] - n + (i - b)
        BY <2>2, <4>3
      <4> QED
        BY <2>1, <3>2, <4>2, <4>4
    <3>4. ASSUME j \in 1 .. n
          PROVE  b + j \in shown
      <4>1. b + j \in 1 .. Len(pushed[s])
        BY <2>1, <3>1, <3>2, <3>4, SMTT(30) DEF ShownBehind
      <4>2. pushed[s][b + j] = History(admittedAt[s] - n + j)
        BY <3>1, <3>4 DEF ShownBehind
      <4>3. admittedAt[s] - n + j = m
        BY <2>1, <3>2
      <4> QED
        BY <2>1, <4>1, <4>2, <4>3
    <3>5. j \in 1 .. n <=> /\ m <= admittedAt[s]
                           /\ m > admittedAt[s] - m_max_recent_msgs
      BY <2>1, <3>2
    <3> HIDE DEF n, j
    <3>6. IF /\ m <= admittedAt[s] /\ m > admittedAt[s] - m_max_recent_msgs
          THEN \E i \in shown : shown = {i} ELSE shown = {}
      BY <3>3, <3>4, <3>5
    <3> QED
      BY <2>4, <3>6 DEF At
  <2> QED
    BY <2>3, <2>4
<1> QED
  BY <1>1, <1>2, <1>3, Invariant, PTL DEF Spec

----------------------------------------------------------------------------
(* The room implements the feed of ChatFeed.tla.                           *)

\* What a delivery adds to what a session has seen.
LEMMA SeenAfter ==
    ASSUME TypeOK, NEW items \in Seq(Items), NEW S, DeliverTo(S, items),
           NEW s \in Sessions
    PROVE  Seen(s)' = IF s \in S
                      THEN Seen(s) \cup ({items[j].msg : j \in 1 .. Len(items)} \ {0})
                      ELSE Seen(s)
<1>1. /\ pushed[s] \in Seq(Items) /\ pushed'[s] \in Seq(Items)
      /\ s \notin S => pushed'[s] = pushed[s]
      /\ s \in S => Len(pushed'[s]) = Len(pushed[s]) + Len(items)
      /\ s \in S => \A k \in 1 .. Len(items) :
                       pushed'[s][Len(pushed[s]) + k] = items[k]
  BY Delivery DEF TypeOK
<1>2. CASE s \notin S
  BY <1>1, <1>2 DEF Seen
<1>3. CASE s \in S
  <2>1. ASSUME NEW i \in DOMAIN pushed'[s]
        PROVE  \/ pushed'[s][i].msg \in {pushed[s][k].msg : k \in DOMAIN pushed[s]}
               \/ pushed'[s][i].msg \in {items[j].msg : j \in 1 .. Len(items)}
    BY DeliveredItem
  <2>2. ASSUME NEW i \in DOMAIN pushed[s]
        PROVE  pushed[s][i].msg \in {pushed'[s][k].msg : k \in DOMAIN pushed'[s]}
    BY DeliveredBefore
  <2>3. ASSUME NEW j \in 1 .. Len(items)
        PROVE  items[j].msg \in {pushed'[s][k].msg : k \in DOMAIN pushed'[s]}
    <3>1. Len(pushed[s]) \in Nat /\ Len(items) \in Nat
      BY <1>1
    <3>2. Len(pushed[s]) + j \in DOMAIN pushed'[s]
      BY <1>1, <1>3, <3>1
    <3> QED
      BY <1>1, <1>3, <3>2
  <2> QED
    BY <1>3, <2>1, <2>2, <2>3 DEF Seen
<1> QED
  BY <1>2, <1>3

\* The steps at which nobody is given anything new.
LEMMA FeedStutters ==
    ASSUME UNCHANGED <<posted, m_participants>>,
           \A s \in Sessions : Seen(s)' = Seen(s)
    PROVE  UNCHANGED Feed!vars
BY DEF Feed!vars

\* A connection is an Enter of the feed.
LEMMA FeedConnect ==
    ASSUME IInv, NEW s \in Sessions, Connect(s)
    PROVE  Feed!Enter(s)
<1>1. /\ session[s] = "absent" /\ m_participants' = m_participants \cup {s}
      /\ UNCHANGED <<posted, pushed>>
  BY DEF Connect, Join
<1>2. s \notin m_participants /\ pushed[s] = <<>>
  BY <1>1 DEF IInv, RoomHoldsLiveSessions, Feeds
<1>3. Seen(s) = {}
  <2>1. DOMAIN <<>> = {}
    OBVIOUS
  <2> QED
    BY <1>2, <2>1 DEF Seen
<1>4. \A t \in Sessions : Seen(t)' = Seen(t)
  BY <1>1 DEF Seen
<1> QED
  BY <1>1, <1>2, <1>3, <1>4 DEF Feed!Enter

\* stop() is an Exit.
LEMMA FeedStop ==
    ASSUME IInv, NEW s \in Sessions, NEW caller, Stop(s, caller),
           session[s] = "live"
    PROVE  Feed!Exit(s)
<1>1. s \in m_participants
  BY DEF IInv, RoomHoldsLiveSessions
<1>2. \A t \in Sessions : Seen(t)' = Seen(t)
  BY DEF Stop, Seen
<1> QED
  BY <1>1, <1>2 DEF Stop, Leave, Feed!Exit

\* deliver() is a Post: all who are in the room see it.
LEMMA FeedDeliver ==
    ASSUME IInv, Deliver
    PROVE  Feed!Post
<1>1. TypeOK
  BY DEF IInv
<1>2. posted \in Nat /\ posted' = posted + 1 /\ UNCHANGED m_participants
  BY <1>1, MaxPostsAssumption DEF Deliver, TypeOK
<1>3. ASSUME NEW s \in Sessions
      PROVE  Seen(s)' = IF s \in m_participants
                        THEN Seen(s) \cup {posted + 1} ELSE Seen(s)
  <2> DEFINE items == <<Live(posted + 1)>>
  <2>1. items \in Seq(Items) /\ Len(items) = 1 /\ items[1].msg = posted + 1
    BY <1>2 DEF Live, Items
  <2>2. DeliverTo(m_participants, items)
    BY DEF Deliver, Audience
  <2>3. {items[j].msg : j \in 1 .. Len(items)} \ {0} = {posted + 1}
    BY <1>2, <2>1
  <2> HIDE DEF items
  <2> QED
    BY <1>1, <2>1, <2>2, <2>3, SeenAfter
<1> QED
  BY <1>2, <1>3 DEF Feed!Post

\* join_public() is a CatchUp with what the room remembers.
LEMMA FeedAdmitted ==
    ASSUME IInv, NEW s \in Sessions, Admitted(s)
    PROVE  Feed!CatchUp(s)
<1>1. TypeOK /\ HistoryIsNewest
  BY DEF IInv
<1>2. /\ s \in m_participants /\ DeliverTo({s}, Remembered)
      /\ UNCHANGED <<posted, m_participants>>
  <2>1. s \in m_participants
    BY DEF Admitted, InPhase, IInv, RoomHoldsLiveSessions
  <2> QED
    BY <2>1 DEF Admitted, JoinPublic
<1>3. /\ posted \in Nat /\ m_max_recent_msgs \in Nat \ {0}
      /\ m_recent_msgs \in Seq(Nat)
  BY <1>1, MaxPostsAssumption, RecentAssumption DEF TypeOK
<1>4. {Remembered[j].msg : j \in 1 .. Len(Remembered)} \ {0} = Feed!Newest
  <2> DEFINE n == Len(m_recent_msgs)
  <2>1. /\ Len(Remembered) = n
        /\ \A j \in 1 .. n : Remembered[j].msg = posted - n + j
    <3>1. \A m : History(m).msg = m
      BY DEF History
    <3>2. /\ Len(Remembered) = n
          /\ \A j \in 1 .. n : Remembered[j] = History(m_recent_msgs[j])
      BY <1>1, RememberedItems
    <3>3. ASSUME NEW j \in 1 .. n
          PROVE  m_recent_msgs[j] = posted - n + j
      <4>1. j \in DOMAIN m_recent_msgs
        BY <1>3
      <4> QED
        BY <1>1, <4>1 DEF HistoryIsNewest
    <3> QED
      BY <3>1, <3>2, <3>3
  <2>2. n = IF posted < m_max_recent_msgs THEN posted ELSE m_max_recent_msgs
    BY <1>1 DEF HistoryIsNewest
  <2>3. n \in Nat /\ n <= posted
    BY <1>3, <2>2
  <2> HIDE DEF n
  <2>4. ASSUME NEW j \in 1 .. n
        PROVE  posted - n + j \in Feed!Newest /\ posted - n + j # 0
    BY <1>3, <2>2, <2>3 DEF Feed!Newest
  <2>5. ASSUME NEW m \in Feed!Newest
        PROVE  m # 0 /\ \E j \in 1 .. n : m = posted - n + j
    <3>1. m \in 1 .. posted /\ m + m_max_recent_msgs > posted
      BY DEF Feed!Newest
    <3>2. m - posted + n \in 1 .. n /\ m = posted - n + (m - posted + n)
      BY <1>3, <2>2, <2>3, <3>1
    <3> QED
      BY <3>1, <3>2
  <2> QED
    BY <2>1, <2>4, <2>5
<1>5. ASSUME NEW t \in Sessions
      PROVE  Seen(t)' = IF t = s THEN Seen(t) \cup Feed!Newest ELSE Seen(t)
  BY <1>1, <1>2, <1>4, RememberedItems, SeenAfter
<1> QED
  BY <1>2, <1>5 DEF Feed!CatchUp

\* A reply is no broadcast.
LEMMA FeedTold ==
    ASSUME IInv, NEW s \in Sessions, NEW kind \in Replies, NEW phase,
           Told(s, kind, phase)
    PROVE  UNCHANGED Feed!vars
<1> DEFINE items == <<ReplyItem(kind)>>
<1>1. items \in Seq(Items) /\ Len(items) = 1 /\ items[1].msg = 0
  BY DEF ReplyItem, Items
<1>2. {items[j].msg : j \in 1 .. Len(items)} \ {0} = {}
  BY <1>1
<1>3. DeliverTo({s} \cap m_participants, items)
  BY DEF Told, DeliverPrivate
<1> HIDE DEF items
<1>4. ASSUME NEW t \in Sessions PROVE Seen(t)' = Seen(t)
  <2>1. TypeOK
    BY DEF IInv
  <2>2. Seen(t)' = IF t \in {s} \cap m_participants
                   THEN Seen(t) \cup ({items[j].msg : j \in 1 .. Len(items)} \ {0})
                   ELSE Seen(t)
    BY <1>1, <1>3, <2>1, SeenAfter
  <2> QED
    BY <1>2, <2>2
<1> QED
  BY <1>4, FeedStutters DEF Told, DeliverPrivate, roomVars

\* Every step is one of the feed, or a stutter.
LEMMA FeedNext == IInv /\ [Next]_vars => [Feed!Next]_(Feed!vars)
<1> SUFFICES ASSUME IInv, [Next]_vars
             PROVE  Feed!Next \/ UNCHANGED Feed!vars
  OBVIOUS
<1>1. ASSUME UNCHANGED <<posted, m_participants, pushed>>
      PROVE  UNCHANGED Feed!vars
  <2>1. \A s \in Sessions : Seen(s)' = Seen(s)
    BY <1>1 DEF Seen
  <2> QED
    BY <1>1, <2>1, FeedStutters
<1>2. ASSUME NEW s \in Sessions, Connect(s) PROVE Feed!Next
  BY <1>2, FeedConnect DEF Feed!Next
<1>3. ASSUME NEW s \in Sessions, Handshaking(s)
      PROVE  Feed!Next \/ UNCHANGED Feed!vars
  <2>1. CASE PasswordRight(s) \/ PasswordWrong(s) \/ TimesOut(s)
    BY <2>1, FeedTold DEF PasswordRight, PasswordWrong, TimesOut, Replies
  <2>2. CASE PasswordBroken(s) \/ RefusalElapses(s)
    <3>1. Stop(s, "try_connect") /\ session[s] = "live"
      BY <2>2 DEF PasswordBroken, RefusalElapses, Refuse, InPhase
    <3> QED
      BY <3>1, FeedStop DEF Feed!Next
  <2>3. CASE Lost(s)
    BY <1>1, <2>3 DEF Lost, roomVars
  <2>4. CASE Admitted(s)
    BY <2>4, FeedAdmitted DEF Feed!Next
  <2> QED
    BY <1>3, <2>1, <2>2, <2>3, <2>4 DEF Handshaking
<1>4. ASSUME NEW s \in Sessions, ReaderReceives(s) PROVE Feed!Next
  BY <1>4, FeedDeliver DEF ReaderReceives, Feed!Next
<1>5. ASSUME NEW s \in Sessions, ReaderFails(s) \/ WriteFails(s)
      PROVE  Feed!Next
  <2>1. PICK caller \in {"reader", "writer"} : Stop(s, caller)
    BY <1>5 DEF ReaderFails, WriteFails
  <2>2. session[s] = "live"
    BY <1>5 DEF ReaderFails, Reading, WriteFails
  <2> QED
    BY <2>1, <2>2, FeedStop DEF Feed!Next
<1>6. ASSUME NEW s \in Sessions,
             \/ Peer(s) \/ Writes(s)
             \/ \E c \in {"try_connect", "reader", "writer"} :
                   DanglingResumes(s, c)
      PROVE  UNCHANGED Feed!vars
  BY <1>1, <1>6 DEF Peer, PeerStalls, PeerResumes, PeerLeaves, PeerTurns,
     Writes, WriterRuns, WriteCompletes, DanglingResumes, sessionVars, roomVars
<1>7. CASE UNCHANGED vars
  BY <1>1, <1>7 DEF vars, sessionVars, roomVars
<1> QED
  BY <1>2, <1>3, <1>4, <1>5, <1>6, <1>7 DEF Next

\* It starts as the feed does.
LEMMA FeedInit == Init => Feed!Init
<1> SUFFICES ASSUME Init PROVE Feed!Init
  OBVIOUS
<1>1. \A s \in Sessions : pushed[s] = <<>>
  BY DEF Init, SessionInit
<1>2. DOMAIN <<>> = {}
  OBVIOUS
<1>3. \A s \in Sessions : Seen(s) = {}
  BY <1>1, <1>2 DEF Seen
<1> QED
  BY <1>3 DEF Init, RoomInit, Feed!Init

\* The room, its sessions and their outboxes implement the feed: a participant
\* is given every message posted while it is present, is caught up with the
\* newest ones when it is admitted, and is given nothing before it enters or
\* after it leaves.
THEOREM FeedImplemented == Spec => RefinesFeed
BY FeedInit, FeedNext, Invariant, PTL DEF Spec, RefinesFeed, Feed!Spec

----------------------------------------------------------------------------
(* Every session implements the handshake of Handshake.tla.                *)

\* Without replies nothing was told.
LEMMA NoReply ==
    ASSUME NEW items, RepliesAt(items) = {}
    PROVE  RepliesIn(items) = <<>>
<1>1. Cardinality(RepliesAt(items)) = 0
  BY FS_EmptySet
<1> QED
  BY <1>1 DEF RepliesIn

\* One reply is what was told.
LEMMA OneReplyIn ==
    ASSUME NEW items, NEW i \in Nat, RepliesAt(items) = {i}
    PROVE  RepliesIn(items) = <<items[i].kind>>
<1>1. Cardinality({i}) = 1
  BY FS_Singleton
<1>2. {j \in {i} : j <= i} = {i}
  OBVIOUS
<1>3. Nth({i}, 1) = i
  BY <1>1, <1>2 DEF Nth
<1> QED
  BY <1>1, <1>3 DEF RepliesIn

\* Until its handshake is decided, a client was told nothing; afterwards, one
\* thing.
ToldOnce ==
    \A s \in Sessions :
        \/ RepliesAt(pushed[s]) = {}
        \/ /\ hs[s] \notin {"none", "asking"}
           /\ \E i \in Nat : RepliesAt(pushed[s]) = {i}

\* Items that are no replies leave what a client was told as it is.
LEMMA ToldSame ==
    ASSUME TypeOK, ToldOnce, NEW items \in Seq(Items), NEW S, DeliverTo(S, items),
           \A j \in 1 .. Len(items) : items[j].kind \notin Replies,
           NEW s \in Sessions
    PROVE  /\ RepliesAt(pushed'[s]) = RepliesAt(pushed[s])
           /\ ToldTo(s)' = ToldTo(s)
<1>1. RepliesAt(pushed'[s]) = RepliesAt(pushed[s])
  <2>1. ASSUME NEW i \in RepliesAt(pushed'[s]) PROVE i \in RepliesAt(pushed[s])
    BY DeliveredItem DEF RepliesAt
  <2>2. ASSUME NEW i \in RepliesAt(pushed[s]) PROVE i \in RepliesAt(pushed'[s])
    BY DeliveredBefore DEF RepliesAt
  <2> QED
    BY <2>1, <2>2
<1>2. CASE RepliesAt(pushed[s]) = {}
  BY <1>1, <1>2, NoReply DEF ToldTo
<1>3. CASE RepliesAt(pushed[s]) # {}
  <2>1. PICK i \in Nat : RepliesAt(pushed[s]) = {i}
    BY <1>3 DEF ToldOnce
  <2>2. pushed'[s][i] = pushed[s][i]
    BY <2>1, DeliveredBefore DEF RepliesAt
  <2> QED
    BY <1>1, <2>1, <2>2, OneReplyIn DEF ToldTo
<1> QED
  BY <1>1, <1>2, <1>3

\* A step of the handshake of s, as the other sessions see it.
Others(s) == \A t \in Sessions \ {s} :
                hs'[t] = hs[t] /\ pushed'[t] = pushed[t]

\* Who is told something was asked, and had been told nothing.
LEMMA ToldTells ==
    ASSUME IInv, ToldOnce, NEW s \in Sessions, NEW kind \in Replies, NEW phase,
           Told(s, kind, phase)
    PROVE  /\ Others(s) /\ hs[s] = "asking" /\ hs'[s] = phase
           /\ \E i \in Nat : RepliesAt(pushed'[s]) = {i}
           /\ ToldTo(s) = <<>> /\ ToldTo(s)' = <<kind>>
<1>1. TypeOK
  BY DEF IInv
<1>2. hs[s] = "asking" /\ hs' = [hs EXCEPT ![s] = phase]
  BY DEF Told, InPhase, Enter
<1>3. hs'[s] = phase /\ \A t \in Sessions \ {s} : hs'[t] = hs[t]
  BY <1>1, <1>2 DEF TypeOK
<1> DEFINE items == <<ReplyItem(kind)>>
<1>4. items \in Seq(Items) /\ Len(items) = 1 /\ items[1].kind = kind
  BY DEF ReplyItem, Items
<1>5. DeliverTo({s}, items)
  <2>1. {s} \cap m_participants = {s}
    BY DEF Told, InPhase, IInv, RoomHoldsLiveSessions
  <2> QED
    BY <2>1 DEF Told, DeliverPrivate
<1> HIDE DEF items
<1>6. RepliesAt(pushed[s]) = {}
  BY <1>2 DEF ToldOnce
<1>7. /\ Len(pushed[s]) \in Nat /\ pushed'[s] \in Seq(Items)
      /\ Len(pushed'[s]) = Len(pushed[s]) + 1
      /\ pushed'[s][Len(pushed[s]) + 1] = items[1]
  <2>1. pushed \in [Sessions -> Seq(Items)]
    BY <1>1 DEF TypeOK
  <2>2. /\ pushed'[s] \in Seq(Items)
        /\ Len(pushed'[s]) = Len(pushed[s]) + Len(items)
        /\ \A j \in 1 .. Len(items) :
              pushed'[s][Len(pushed[s]) + j] = items[j]
    BY <1>4, <1>5, <2>1, Delivery
  <2>3. Len(pushed[s]) \in Nat
    BY <2>1
  <2> QED
    BY <1>4, <2>2, <2>3
<1>8. PICK i \in Nat : i = Len(pushed[s]) + 1
  BY <1>7
<1>9. RepliesAt(pushed'[s]) = {i}
  <2>1. i \in RepliesAt(pushed'[s])
    BY <1>4, <1>7, <1>8 DEF RepliesAt
  <2>2. ASSUME NEW k \in RepliesAt(pushed'[s]) PROVE k = i
    <3>1. \/ k \in DOMAIN pushed[s] /\ pushed'[s][k] = pushed[s][k]
          \/ \E j \in 1 .. Len(items) : k = Len(pushed[s]) + j
      BY <1>1, <1>4, <1>5, <2>2, DeliveredItem DEF RepliesAt
    <3>2. ~(k \in DOMAIN pushed[s] /\ pushed'[s][k] = pushed[s][k])
      BY <1>6, <2>2 DEF RepliesAt
    <3> QED
      BY <1>4, <1>7, <1>8, <3>1, <3>2
  <2> QED
    BY <2>1, <2>2
<1>10. ToldTo(s) = <<>> /\ ToldTo(s)' = <<kind>>
  BY <1>4, <1>6, <1>7, <1>8, <1>9, NoReply, OneReplyIn DEF ToldTo
<1>11. \A t \in Sessions \ {s} : pushed'[t] = pushed[t]
  BY <1>5 DEF DeliverTo
<1> QED
  BY <1>2, <1>3, <1>9, <1>10, <1>11, Zenon DEF Others

\* What a step of the server is to the handshake of a session.
HandshakeStep == \A s \in Sessions : H(s)!Next \/ UNCHANGED H(s)!vars

\* What tells nobody anything is a stutter of every handshake.
LEMMA HandshakeStutters ==
    ASSUME \A s \in Sessions : ToldTo(s)' = ToldTo(s) /\ PhaseOf(s)' = PhaseOf(s)
    PROVE  HandshakeStep
BY DEF HandshakeStep, H!vars

\* A step of one handshake is a stutter of all others.
LEMMA HandshakeAlone ==
    ASSUME NEW s \in Sessions, Others(s), H(s)!Next \/ UNCHANGED H(s)!vars
    PROVE  HandshakeStep
<1>1. ASSUME NEW t \in Sessions, t # s
      PROVE  UNCHANGED H(t)!vars
  BY <1>1 DEF Others, H!vars, PhaseOf, ToldTo
<1> QED
  BY <1>1 DEF HandshakeStep

\* Every step keeps to the handshakes of all sessions.
LEMMA HandshakeNext ==
    ASSUME IInv, Unborn, ToldOnce, [Next]_vars
    PROVE  ToldOnce' /\ HandshakeStep
<1>1. TypeOK
  BY DEF IInv
<1>2. ASSUME UNCHANGED <<hs, pushed>> PROVE ToldOnce' /\ HandshakeStep
  <2>1. \A s \in Sessions : ToldTo(s)' = ToldTo(s) /\ PhaseOf(s)' = PhaseOf(s)
    BY <1>2 DEF ToldTo, PhaseOf
  <2> QED
    BY <1>2, <2>1, HandshakeStutters DEF ToldOnce
<1>3. ASSUME NEW s \in Sessions, NEW phase, UNCHANGED pushed, Enter(s, phase),
             \/ phase \in {"refused", "lost"}
             \/ hs[s] = "none" /\ phase = "asking",
             H(s)!Next \/ UNCHANGED H(s)!vars
      PROVE  ToldOnce' /\ HandshakeStep
  <2>1. hs'[s] = phase /\ \A t \in Sessions \ {s} : hs'[t] = hs[t]
    BY <1>1, <1>3 DEF Enter, TypeOK
  <2>2. Others(s)
    BY <1>3, <2>1 DEF Others
  <2>3. ToldOnce'
    BY <1>3, <2>1 DEF ToldOnce
  <2> QED
    BY <1>3, <2>2, <2>3, HandshakeAlone
<1>4. ASSUME NEW s \in Sessions, Connect(s) PROVE ToldOnce' /\ HandshakeStep
  <2>1. /\ hs[s] = "none" /\ Enter(s, "asking") /\ UNCHANGED pushed
    BY <1>4 DEF Connect, Join, Start, Unborn, Enter
  <2>2. UNCHANGED H(s)!vars
    BY <1>1, <2>1 DEF H!vars, PhaseOf, ToldTo, Enter, TypeOK
  <2> QED
    BY <1>3, <2>1, <2>2
<1>5. ASSUME NEW s \in Sessions, NEW kind \in Replies, NEW phase \in Waiting,
             Told(s, kind, phase),
             \/ kind = "id" /\ phase = "accepting"
             \/ kind = "reject" /\ phase = "rejecting"
             \/ kind = "timeout" /\ phase = "timing_out"
      PROVE  ToldOnce' /\ HandshakeStep
  <2>1. /\ Others(s) /\ hs[s] = "asking" /\ hs'[s] = phase
        /\ \E i \in Nat : RepliesAt(pushed'[s]) = {i}
        /\ ToldTo(s) = <<>> /\ ToldTo(s)' = <<kind>>
    BY <1>5, ToldTells
  <2>2. PhaseOf(s) = "asking" /\ PhaseOf(s)' = phase
    BY <1>5, <2>1 DEF PhaseOf
  <2>3. H(s)!Next
    BY <1>5, <2>1, <2>2 DEF H!Next, H!Accepting, H!Rejecting, H!TimingOut, H!Tell
  <2>4. ToldOnce'
    BY <1>5, <2>1 DEF ToldOnce, Others
  <2> QED
    BY <2>1, <2>3, <2>4, HandshakeAlone
<1>6. ASSUME NEW s \in Sessions, Handshaking(s)
      PROVE  ToldOnce' /\ HandshakeStep
  <2>1. CASE PasswordRight(s) \/ PasswordWrong(s) \/ TimesOut(s)
    BY <1>5, <2>1 DEF PasswordRight, PasswordWrong, TimesOut, Replies, Waiting
  <2>2. CASE PasswordBroken(s) \/ RefusalElapses(s)
    <3>1. /\ hs[s] \in {"asking", "rejecting", "timing_out"}
          /\ Enter(s, "refused") /\ UNCHANGED pushed
      BY <2>2 DEF PasswordBroken, RefusalElapses, Refuse, InPhase, Stop
    <3>2. H(s)!Refuse
      BY <1>1, <3>1 DEF H!Refuse, PhaseOf, ToldTo, Enter, TypeOK
    <3>3. H(s)!Next
      BY <3>2 DEF H!Next
    <3> QED
      BY <1>3, <3>1, <3>3
  <2>3. CASE Lost(s)
    <3>1. hs[s] = "timing_out" /\ Enter(s, "lost") /\ UNCHANGED pushed
      BY <2>3 DEF Lost, InPhase
    <3>2. H(s)!Lose
      BY <1>1, <3>1 DEF H!Lose, PhaseOf, ToldTo, Enter, TypeOK
    <3>3. H(s)!Next
      BY <3>2 DEF H!Next
    <3> QED
      BY <1>3, <3>1, <3>3
  <2>4. CASE Admitted(s)
    <3>1. /\ hs[s] = "accepting" /\ hs' = [hs EXCEPT ![s] = "accepted"]
          /\ DeliverTo({s} \cap m_participants, Remembered)
      BY <2>4 DEF Admitted, InPhase, Enter, JoinPublic
    <3>2. /\ Remembered \in Seq(Items)
          /\ \A j \in 1 .. Len(Remembered) : Remembered[j].kind \notin Replies
      <4>1. \A m : History(m).kind = "history"
        BY DEF History
      <4> QED
        BY <1>1, <4>1, RememberedItems DEF Replies
    <3>3. \A t \in Sessions : /\ RepliesAt(pushed'[t]) = RepliesAt(pushed[t])
                              /\ ToldTo(t)' = ToldTo(t)
      BY <1>1, <3>1, <3>2, ToldSame
    <3>4. /\ hs'[s] = "accepted"
          /\ \A t \in Sessions \ {s} : hs'[t] = hs[t]
      BY <1>1, <3>1 DEF TypeOK
    <3>5. H(s)!Accept
      BY <3>1, <3>3, <3>4 DEF H!Accept, PhaseOf
    <3>6. \A t \in Sessions \ {s} : UNCHANGED H(t)!vars
      BY <3>3, <3>4 DEF H!vars, PhaseOf
    <3>7. ToldOnce'
      BY <3>3, <3>4 DEF ToldOnce
    <3> QED
      BY <3>5, <3>6, <3>7 DEF HandshakeStep, H!Next
  <2> QED
    BY <1>6, <2>1, <2>2, <2>3, <2>4 DEF Handshaking
<1>7. ASSUME NEW s \in Sessions, ReaderReceives(s)
      PROVE  ToldOnce' /\ HandshakeStep
  <2> DEFINE items == <<Live(posted + 1)>>
  <2>1. /\ items \in Seq(Items) /\ DeliverTo(m_participants, items)
        /\ \A j \in 1 .. Len(items) : items[j].kind \notin Replies
    <3>1. Live(posted + 1).kind = "live"
      BY DEF Live
    <3> QED
      BY <1>7, <3>1, Broadcast DEF ReaderReceives, IInv, Replies
  <2> HIDE DEF items
  <2>2. hs' = hs
    BY <1>7 DEF ReaderReceives
  <2>3. \A t \in Sessions : /\ RepliesAt(pushed'[t]) = RepliesAt(pushed[t])
                            /\ ToldTo(t)' = ToldTo(t)
    BY <1>1, <2>1, ToldSame
  <2>4. ToldOnce'
    BY <2>2, <2>3 DEF ToldOnce
  <2>5. HandshakeStep
    BY <2>2, <2>3, HandshakeStutters DEF PhaseOf
  <2> QED
    BY <2>4, <2>5
<1>8. ASSUME NEW s \in Sessions,
             \/ ReaderFails(s) \/ WriteFails(s) \/ Peer(s) \/ Writes(s)
             \/ \E c \in {"try_connect", "reader", "writer"} :
                   DanglingResumes(s, c)
      PROVE  ToldOnce' /\ HandshakeStep
  BY <1>2, <1>8 DEF ReaderFails, WriteFails, Stop, Peer, PeerStalls, PeerResumes,
     PeerLeaves, PeerTurns, Writes, WriterRuns, WriteCompletes, DanglingResumes,
     sessionVars, roomVars
<1>9. CASE UNCHANGED vars
  BY <1>2, <1>9 DEF vars, sessionVars
<1> QED
  BY <1>4, <1>6, <1>7, <1>8, <1>9 DEF Next

\* Every session's part of the server is the handshake of Handshake.tla: its
\* client is told one thing, its phases go with what it was told, whatever the
\* other sessions, the reader and the writer do in between.
THEOREM HandshakeImplemented == Spec => RefinesHandshake
<1>1. Init => Unborn /\ ToldOnce /\ \A s \in Sessions : H(s)!Init
  <2> SUFFICES ASSUME Init, NEW s \in Sessions
               PROVE  /\ hs[s] = "none" /\ RepliesAt(pushed[s]) = {}
                      /\ H(s)!Init
    BY DEF Unborn, ToldOnce
  <2>1. hs[s] = "none" /\ pushed[s] = <<>>
    BY DEF Init, SessionInit
  <2>2. DOMAIN <<>> = {}
    OBVIOUS
  <2>3. RepliesAt(pushed[s]) = {}
    BY <2>1, <2>2 DEF RepliesAt
  <2>4. PhaseOf(s) = "asking" /\ ToldTo(s) = <<>>
    BY <2>1, <2>3, NoReply DEF PhaseOf, ToldTo
  <2> QED
    BY <2>1, <2>3, <2>4 DEF H!Init
<1>2. IInv /\ Unborn /\ ToldOnce /\ [Next]_vars
      => /\ Unborn' /\ ToldOnce'
         /\ \A s \in Sessions : H(s)!Next \/ UNCHANGED H(s)!vars
  BY HandshakeNext, UnbornNext DEF HandshakeStep
<1> QED
  BY <1>1, <1>2, Invariant, PTL DEF Spec, RefinesHandshake

=============================================================================
