-------------------------- MODULE HandShakerProofs --------------------------
(***************************************************************************)
(* Proofs about HandShaker, for every set of lines a client may send and   *)
(* every password.                                                         *)
(***************************************************************************)
EXTENDS HandShaker, TLAPS

(* What the flags, the exceptions and the places of the two coroutines say  *)
(* about the one reply, and the reply about them.                           *)

Told == replies \in {<<>>, <<SessionId>>, <<Reject>>, <<Timeout>>}

Flags ==
    /\ m_is_terminating <=> replies \in {<<Reject>>, <<Timeout>>}
    /\ m_should_accept => IsPassword(line) /\ perform # "reading"
    /\ replies = <<SessionId>> => m_should_accept
    /\ replies = <<Reject>> => ~IsPassword(line) /\ ~m_should_accept

Places ==
    /\ perform = "reading" => replies \in {<<>>, <<Timeout>>}
    /\ perform = "rejecting" => replies = <<Reject>>
    /\ perform = "accepting" => replies = <<SessionId>>
    /\ countdown = "timing_out" => replies = <<Timeout>>
    /\ countdown = "counting" => replies # <<Timeout>>
    /\ replies \in {<<SessionId>>, <<Reject>>} => perform # "reading"
    /\ op["countdown"] = "aborted" => perform # "reading"

\* Who was cancelled, was cancelled because the other threw.
Exceptions ==
    /\ threw["perform"] # "none" => perform = "ended"
    /\ threw["countdown"] # "none" => /\ countdown = "ended"
                                      /\ replies = <<Timeout>>
    /\ "perform" \in cancelled => threw["countdown"] # "none"
    /\ "countdown" \in cancelled => threw["perform"] # "none"
    /\ replies = <<SessionId>> => threw["perform"] = "none"

\* A coroutine that ends without having accepted leaves an exception.
Outcomes ==
    /\ replies = <<>> /\ perform = "ended" => threw["perform"] # "none"
    /\ replies = <<Reject>> /\ perform = "ended" => threw["perform"] # "none"
    /\ replies = <<Timeout>> =>
          \/ countdown = "timing_out"
             /\ (op["countdown"] = "aborted" => threw["perform"] # "none")
          \/ \E c \in Coroutines : threw[c] # "none"
    /\ try_connect # "waiting" => perform = "ended" /\ countdown = "ended"
    /\ try_connect \in {"flushing", "accepted"} => replies = <<SessionId>>
    /\ try_connect = "refused" => replies # <<SessionId>>
    /\ try_connect = "lost" => replies = <<Timeout>>

Agreement == Told /\ Flags /\ Places /\ Exceptions /\ Outcomes

IInv == TypeOK /\ Agreement

----------------------------------------------------------------------------
(* Type correctness.                                                       *)

\* The part of TypeOK that the end of a turn is about.
TurnTypeOK ==
    /\ op \in [Coroutines -> {"pending", "done", "error", "aborted", "none"}]
    /\ ready \in Seq(Coroutines)
    /\ cancelled \in SUBSET Coroutines
    /\ threw \in [Coroutines -> {"none", "error", "aborted", "refused",
                                 "timed_out"}]

Thrown == {"error", "aborted", "refused", "timed_out"}

\* The end of a turn keeps operations operations.
LEMMA EndTurnTypes ==
    ASSUME TurnTypeOK, NEW c \in Coroutines, NEW cancelling \in BOOLEAN,
           NEW next \in {"pending", "none"}, ready # <<>>,
           EndTurn(c, next, cancelling)
    PROVE  /\ op' \in [Coroutines -> {"pending", "done", "error", "aborted",
                                      "none"}]
           /\ ready' \in Seq(Coroutines)
<1>1. Other(c) \in Coroutines
  BY DEF Other, Coroutines
<1>2. Tail(ready) \in Seq(Coroutines)
  BY DEF TurnTypeOK
<1>3. QED
  BY <1>1, <1>2 DEF EndTurn, TurnTypeOK

\* However a coroutine ends its turn, its part of TypeOK is preserved.
LEMMA TurnTypes ==
    ASSUME TurnTypeOK, NEW c \in Coroutines, ready # <<>>,
           \/ Wait(c)
           \/ Return(c)
           \/ \E e \in Thrown : Throw(c, e)
    PROVE  TurnTypeOK'
<1>1. Other(c) \in Coroutines
  BY DEF Other, Coroutines
<1>2. CASE Wait(c)
  BY <1>2, EndTurnTypes DEF Wait, TurnTypeOK
<1>3. CASE Return(c)
  BY <1>3, EndTurnTypes DEF Return, TurnTypeOK
<1>4. ASSUME NEW e \in Thrown, Throw(c, e)
      PROVE  TurnTypeOK'
  <2>1. EndTurn(c, "none", TRUE)
    BY <1>4 DEF Throw
  <2>2. threw' \in [Coroutines -> {"none", "error", "aborted", "refused",
                                   "timed_out"}]
    BY <1>4 DEF Throw, TurnTypeOK, Thrown
  <2>3. cancelled' \in SUBSET Coroutines
    BY <1>1, <1>4 DEF Throw, TurnTypeOK
  <2>4. QED
    BY <2>1, <2>2, <2>3, EndTurnTypes DEF TurnTypeOK
<1>5. QED
  BY <1>2, <1>3, <1>4

\* The types, at the start.
LEMMA TypeInit == Init => TypeOK
<1> SUFFICES ASSUME Init PROVE TypeOK
  OBVIOUS
<1>1. m_should_accept \in BOOLEAN /\ m_is_terminating \in BOOLEAN
  BY Zenon DEF Init
<1>2. line \in Lines \cup {NoLine}
  BY DEF Init
<1>3. ready \in Seq(Coroutines) /\ replies \in Seq(Texts)
  BY DEF Init
<1>4. QED
  BY <1>1, <1>2, <1>3 DEF Init, TypeOK, Coroutines

\* A reply is a text.
LEMMA ReplyTypes ==
    ASSUME replies \in Seq(Texts), NEW text \in Texts, Reply(text)
    PROVE  replies' \in Seq(Texts)
BY DEF Reply

\* Every step keeps the types.
LEMMA TypeNext == TypeOK /\ [Next]_vars => TypeOK'
<1> SUFFICES ASSUME TypeOK, [Next]_vars PROVE TypeOK'
  OBVIOUS
<1>1. TurnTypeOK /\ {"perform", "countdown"} = Coroutines
  BY DEF TypeOK, TurnTypeOK, Coroutines
<1>2. CASE Client \/ Timers
  <2>1. PICK c \in Coroutines, how \in {"done", "error"} : Complete(c, how)
    BY <1>1, <1>2 DEF Client, LineArrives, ReadBreaks, Timers, TimerFires
  <2>2. /\ op' \in [Coroutines -> {"pending", "done", "error", "aborted",
                                   "none"}]
        /\ ready' \in Seq(Coroutines)
    BY <2>1 DEF Complete, TypeOK
  <2>3. line' \in Lines \cup {NoLine}
    BY <1>2 DEF Client, LineArrives, ReadBreaks, Timers, TimerFires, TypeOK
  <2>4. UNCHANGED <<perform, countdown, cancelled, threw, m_should_accept,
                    m_is_terminating, replies, try_connect>>
    BY <1>2 DEF Client, LineArrives, ReadBreaks, Timers, TimerFires, flags
  <2>5. QED
    BY <2>2, <2>3, <2>4 DEF TypeOK
<1>3. CASE ReadWrongLine
  <2>1. TurnTypeOK'
    BY <1>1, <1>3, TurnTypes DEF ReadWrongLine, Turn
  <2>2. QED
    <3>1. m_should_accept' \in BOOLEAN /\ m_is_terminating' \in BOOLEAN
      BY <1>3, Zenon DEF ReadWrongLine, TypeOK
    <3>2. replies' \in Seq(Texts)
      BY <1>3, ReplyTypes DEF ReadWrongLine, TypeOK, Texts
    <3>3. QED
      BY <1>3, <2>1, <3>1, <3>2 DEF ReadWrongLine, TypeOK, TurnTypeOK
<1>4. CASE ReadPassword
  <2>1. TurnTypeOK'
    BY <1>1, <1>4, TurnTypes DEF ReadPassword, Turn, Thrown
  <2>2. QED
    <3>1. m_should_accept' \in BOOLEAN /\ m_is_terminating' \in BOOLEAN
      BY <1>4, Zenon DEF ReadPassword, TypeOK
    <3>2. replies' \in Seq(Texts)
      BY <1>4, ReplyTypes DEF ReadPassword, TypeOK, Texts
    <3>3. QED
      BY <1>4, <2>1, <3>1, <3>2 DEF ReadPassword, TypeOK, TurnTypeOK
<1>5. CASE ReadAborted \/ ReadError \/ PerformWaited
  <2>1. TurnTypeOK'
    BY <1>1, <1>5, TurnTypes
    DEF ReadAborted, ReadError, PerformWaited, Turn, Thrown
  <2>2. QED
    BY <1>5, <2>1
    DEF ReadAborted, ReadError, PerformWaited, TypeOK, TurnTypeOK, flags
<1>6. CASE CountdownExpires
  <2>1. TurnTypeOK'
    BY <1>1, <1>6, TurnTypes DEF CountdownExpires, Turn
  <2>2. QED
    <3>1. m_should_accept' \in BOOLEAN /\ m_is_terminating' \in BOOLEAN
      BY <1>6, Zenon DEF CountdownExpires, TypeOK
    <3>2. replies' \in Seq(Texts)
      BY <1>6, ReplyTypes DEF CountdownExpires, TypeOK, Texts
    <3>3. QED
      BY <1>6, <2>1, <3>1, <3>2 DEF CountdownExpires, TypeOK, TurnTypeOK
<1>7. CASE CountdownAborted \/ CountdownWaited
  <2>1. TurnTypeOK'
    BY <1>1, <1>7, TurnTypes
    DEF CountdownAborted, CountdownWaited, Turn, Thrown
  <2>2. QED
    BY <1>7, <2>1
    DEF CountdownAborted, CountdownWaited, TypeOK, TurnTypeOK, flags
<1>8. CASE Connect
  BY <1>8 DEF Connect, TryConnectResumes, FlushElapsed, TypeOK, flags
<1>9. CASE UNCHANGED vars
  BY <1>9 DEF vars, flags, TypeOK
<1>10. QED
  BY <1>2, <1>3, <1>4, <1>5, <1>6, <1>7, <1>8, <1>9
  DEF Next, Perform, Countdown

\* The variables of the handshake keep their types.
THEOREM TypeCorrect == Spec => []TypeOK
BY TypeInit, TypeNext, PTL DEF Spec

----------------------------------------------------------------------------
(* The inductive invariant.                                                *)

\* No reply is another one.
LEMMA RepliesDistinct ==
    /\ <<>> # <<SessionId>> /\ <<>> # <<Reject>> /\ <<>> # <<Timeout>>
    /\ <<SessionId>> # <<Reject>> /\ <<SessionId>> # <<Timeout>>
    /\ <<Reject>> # <<Timeout>>
BY RepliesDiffer

\* The first reply is the only one so far.
LEMMA FirstReply ==
    ASSUME NEW text, replies = <<>>, Reply(text)
    PROVE  replies' = <<text>>
BY DEF Reply

\* The effect of the ways to end a turn, coroutine by coroutine.
LEMMA PerformTurn ==
    ASSUME TypeOK
    PROVE  /\ \A next, cancelling : EndTurn("perform", next, cancelling) =>
                op'["countdown"] = IF cancelling /\ op["countdown"] = "pending"
                                   THEN "aborted" ELSE op["countdown"]
           /\ \A e : Throw("perform", e) =>
                /\ threw'["perform"] = e
                /\ threw'["countdown"] = threw["countdown"]
                /\ cancelled' = cancelled \cup {"countdown"}
BY DEF EndTurn, Throw, Other, TypeOK, Coroutines

\* The effect of the ways to end a turn on the countdown.
LEMMA CountdownTurn ==
    ASSUME TypeOK
    PROVE  /\ \A next, cancelling : EndTurn("countdown", next, cancelling) =>
                op'["countdown"] = next
           /\ \A e : Throw("countdown", e) =>
                /\ threw'["countdown"] = e
                /\ threw'["perform"] = threw["perform"]
                /\ cancelled' = cancelled \cup {"perform"}
BY DEF EndTurn, Throw, Other, TypeOK, Coroutines

\* A wrong line is rejected, once.
LEMMA InvReadWrongLine == IInv /\ ReadWrongLine => Agreement'
<1> SUFFICES ASSUME IInv, ReadWrongLine PROVE Agreement'
  OBVIOUS
<1> USE RepliesDistinct, PerformTurn, FirstReply DEF IInv, Agreement, ReadWrongLine, Turn, Wait, Return,
       Coroutines, flags
<1>1. Told'
  BY DEF Told, Flags, Places
<1>2. Flags'
  BY DEF Told, Flags, Places
<1>3. Places'
  BY DEF Told, Flags, Places
<1>4. Exceptions'
  BY DEF Told, Flags, Places, Exceptions
<1>5. Outcomes'
  BY DEF Told, Flags, Places, Exceptions, Outcomes
<1>6. QED
  BY <1>1, <1>2, <1>3, <1>4, <1>5

\* The password is answered with the id, once.
LEMMA InvReadPassword == IInv /\ ReadPassword => Agreement'
<1> SUFFICES ASSUME IInv, ReadPassword PROVE Agreement'
  OBVIOUS
<1> USE RepliesDistinct, PerformTurn, FirstReply DEF IInv, Agreement, ReadPassword, Turn, Wait, Return,
       Coroutines, flags
<1>1. Told'
  BY DEF Told, Flags, Places
<1>2. Flags'
  BY DEF Told, Flags, Places
<1>3. Places'
  BY DEF Told, Flags, Places
<1>4. Exceptions'
  BY DEF Told, Flags, Places, Exceptions
<1>5. Outcomes'
  BY DEF Told, Flags, Places, Exceptions, Outcomes
<1>6. QED
  BY <1>1, <1>2, <1>3, <1>4, <1>5

\* A read that was cancelled ends its coroutine.
LEMMA InvReadAborted == IInv /\ ReadAborted => Agreement'
<1> SUFFICES ASSUME IInv, ReadAborted PROVE Agreement'
  OBVIOUS
<1> USE RepliesDistinct, PerformTurn, FirstReply DEF IInv, Agreement, ReadAborted, Turn, Wait, Return,
       Coroutines, flags
<1>1. Told'
  BY DEF Told, Flags, Places
<1>2. Flags'
  BY DEF Told, Flags, Places
<1>3. Places'
  BY DEF Told, Flags, Places
<1>4. Exceptions'
  BY DEF Told, Flags, Places, Exceptions
<1>5. Outcomes'
  BY DEF Told, Flags, Places, Exceptions, Outcomes
<1>6. QED
  BY <1>1, <1>2, <1>3, <1>4, <1>5

\* So does one that failed.
LEMMA InvReadError == IInv /\ ReadError => Agreement'
<1> SUFFICES ASSUME IInv, ReadError PROVE Agreement'
  OBVIOUS
<1> USE RepliesDistinct, PerformTurn, FirstReply DEF IInv, Agreement, ReadError, Turn, Wait, Return,
       Coroutines, flags
<1>1. Told'
  BY DEF Told, Flags, Places
<1>2. Flags'
  BY DEF Told, Flags, Places
<1>3. Places'
  BY DEF Told, Flags, Places
<1>4. Exceptions'
  BY DEF Told, Flags, Places, Exceptions
<1>5. Outcomes'
  BY DEF Told, Flags, Places, Exceptions, Outcomes
<1>6. QED
  BY <1>1, <1>2, <1>3, <1>4, <1>5

\* The rejection was given its time.
LEMMA InvPerformWaited == IInv /\ PerformWaited => Agreement'
<1> SUFFICES ASSUME IInv, PerformWaited PROVE Agreement'
  OBVIOUS
<1> USE RepliesDistinct, PerformTurn, FirstReply DEF IInv, Agreement, PerformWaited, Turn, Wait, Return,
       Coroutines, flags
<1>1. Told' /\ Flags' /\ Places'
  BY DEF Told, Flags, Places
<1>2. CASE perform = "rejecting"
  <2>1. Throw("perform", "refused")
    BY <1>2
  <2>2. Exceptions'
    BY <1>2, <2>1 DEF Told, Flags, Places, Exceptions
  <2>3. Outcomes'
    BY <1>2, <2>1 DEF Told, Flags, Places, Exceptions, Outcomes
  <2>4. QED
    BY <1>1, <2>2, <2>3
<1>3. CASE perform = "accepting"
  <2>1. Return("perform")
    BY <1>3
  <2>2. Exceptions'
    BY <1>3, <2>1 DEF Told, Flags, Places, Exceptions
  <2>3. Outcomes'
    BY <1>3, <2>1 DEF Told, Flags, Places, Exceptions, Outcomes
  <2>4. QED
    BY <1>1, <2>2, <2>3
<1>4. QED
  BY <1>2, <1>3

\* The time is over, unless the password or the end came first.
LEMMA InvCountdownExpires == IInv /\ CountdownExpires => Agreement'
<1> SUFFICES ASSUME IInv, CountdownExpires PROVE Agreement'
  OBVIOUS
<1> USE RepliesDistinct, CountdownTurn, FirstReply DEF IInv, Agreement, CountdownExpires, Turn, Wait, Return,
       Coroutines, flags
<1>1. CASE MayTimeOut
  <2>1. /\ replies = <<>> /\ replies' = <<Timeout>>
        /\ countdown' = "timing_out" /\ op'["countdown"] = "pending"
        /\ m_is_terminating'
    BY <1>1 DEF MayTimeOut, is_rejected_session, Told, Flags
  <2>2. UNCHANGED <<perform, line, cancelled, threw, m_should_accept,
                    try_connect>>
    BY <1>1
  <2>3. QED
    BY <2>1, <2>2 DEF Told, Flags, Places, Exceptions, Outcomes
<1>2. CASE ~MayTimeOut
  <2>1. /\ countdown' = "ended" /\ op'["countdown"] = "none"
        /\ replies # <<Timeout>>
    BY <1>2 DEF Places
  <2>2. UNCHANGED <<perform, line, cancelled, threw, replies, m_should_accept,
                    m_is_terminating, try_connect>>
    BY <1>2
  <2>3. QED
    BY <2>1, <2>2 DEF Told, Flags, Places, Exceptions, Outcomes
<1>3. QED
  BY <1>1, <1>2

\* A countdown that was cancelled says nothing.
LEMMA InvCountdownAborted == IInv /\ CountdownAborted => Agreement'
<1> SUFFICES ASSUME IInv, CountdownAborted PROVE Agreement'
  OBVIOUS
<1> USE RepliesDistinct, CountdownTurn, FirstReply DEF IInv, Agreement, CountdownAborted, Turn, Wait, Return,
       Coroutines, flags
<1>1. Told'
  BY DEF Told, Flags, Places
<1>2. Flags'
  BY DEF Told, Flags, Places
<1>3. Places'
  BY DEF Told, Flags, Places
<1>4. Exceptions'
  BY DEF Told, Flags, Places, Exceptions
<1>5. Outcomes'
  BY DEF Told, Flags, Places, Exceptions, Outcomes
<1>6. QED
  BY <1>1, <1>2, <1>3, <1>4, <1>5

\* The reply about the time was given its time.
LEMMA InvCountdownWaited == IInv /\ CountdownWaited => Agreement'
<1> SUFFICES ASSUME IInv, CountdownWaited PROVE Agreement'
  OBVIOUS
<1> USE RepliesDistinct, CountdownTurn, FirstReply DEF IInv, Agreement, CountdownWaited, Turn, Wait, Return,
       Coroutines, flags
<1>1. Told'
  BY DEF Told, Flags, Places
<1>2. Flags'
  <2>1. UNCHANGED <<perform, line, m_should_accept, m_is_terminating, replies>>
    OBVIOUS
  <2>2. QED
    BY <2>1 DEF Flags
<1>3. Places'
  <2>1. op'["countdown"] = "none"
    BY DEF Throw
  <2>2. QED
    BY <2>1 DEF Places
<1>4. Exceptions'
  BY DEF Told, Flags, Places, Exceptions
<1>5. Outcomes'
  BY DEF Told, Flags, Places, Exceptions, Outcomes
<1>6. QED
  BY <1>1, <1>2, <1>3, <1>4, <1>5

\* try_connect() goes on when both coroutines have ended.
LEMMA InvConnect == IInv /\ Connect => Agreement'
<1> SUFFICES ASSUME IInv, Connect PROVE Agreement'
  OBVIOUS
<1> USE RepliesDistinct DEF IInv, Agreement, Connect, TryConnectResumes, FlushElapsed,
       Coroutines, flags
<1>1. Told'
  BY DEF Told, Flags, Places
<1>2. Flags'
  BY DEF Told, Flags, Places
<1>3. Places'
  BY DEF Told, Flags, Places
<1>4. Exceptions'
  BY DEF Told, Flags, Places, Exceptions
<1>5. Outcomes'
  BY DEF Told, Flags, Places, Exceptions, Outcomes
<1>6. QED
  BY <1>1, <1>2, <1>3, <1>4, <1>5

Environment == Client \/ Timers

\* What client and clock do changes no flag.
LEMMA InvEnvironment == IInv /\ Environment => Agreement'
<1> SUFFICES ASSUME IInv, Environment PROVE Agreement'
  OBVIOUS
<1> USE RepliesDistinct DEF IInv, Agreement, Environment, Client, Timers, LineArrives,
       ReadBreaks, TimerFires
<1>1. UNCHANGED <<perform, countdown, cancelled, threw, m_should_accept,
                  m_is_terminating, replies, try_connect>>
  BY DEF flags
<1>2. op'["countdown"] = "aborted" => op["countdown"] = "aborted"
  BY DEF Complete, Coroutines, TypeOK
<1>3. op'["countdown"] # op["countdown"] => op'["countdown"] # "aborted"
  BY <1>2
<1>4. perform # "reading" => line' = line
  OBVIOUS
<1>5. QED
  BY <1>1, <1>2, <1>4
  DEF Told, Flags, Places, Exceptions, Outcomes

\* The inductive invariant holds at the start.
LEMMA InvInit == Init => IInv
<1> SUFFICES ASSUME Init PROVE IInv
  OBVIOUS
<1> USE RepliesDistinct DEF Init
<1>1. TypeOK
  BY TypeInit
<1>2. Told /\ Flags /\ Places
  BY DEF Told, Flags, Places, Coroutines
<1>3. Exceptions /\ Outcomes
  BY DEF Exceptions, Outcomes, Coroutines
<1>4. QED
  BY <1>1, <1>2, <1>3 DEF IInv, Agreement

\* Every step keeps it.
LEMMA InvNext == IInv /\ [Next]_vars => IInv'
<1> SUFFICES ASSUME IInv, [Next]_vars PROVE IInv'
  OBVIOUS
<1>1. TypeOK'
  BY TypeNext DEF IInv
<1>2. CASE Perform
  BY <1>1, <1>2, InvReadWrongLine, InvReadPassword, InvReadAborted, InvReadError,
     InvPerformWaited DEF Perform, IInv
<1>3. CASE Countdown
  BY <1>1, <1>3, InvCountdownExpires, InvCountdownAborted,
     InvCountdownWaited DEF Countdown, IInv
<1>4. CASE Connect
  BY <1>1, <1>4, InvConnect DEF IInv
<1>5. CASE Client \/ Timers
  BY <1>1, <1>5, InvEnvironment DEF Environment, IInv
<1>6. CASE UNCHANGED vars
  BY <1>6 DEF vars, flags, IInv, Agreement, Told, Flags, Places, Exceptions,
              Outcomes, TypeOK
<1>7. QED
  BY <1>1, <1>2, <1>3, <1>4, <1>5, <1>6 DEF Next, IInv

\* The inductive invariant holds: flags, places, exceptions and outcome agree
\* with what the client was told.
THEOREM Invariant == Spec => []IInv
BY InvInit, InvNext, PTL DEF Spec

\* A client is told one thing at most.
THEOREM AtMostOneReply == Spec => []OneReply
<1>1. ASSUME IInv PROVE OneReply
  <2>1. ASSUME NEW text, replies = <<text>> PROVE Len(replies) = 1
    BY <2>1
  <2>2. CASE replies = <<>>
    BY <2>2 DEF OneReply
  <2>3. CASE Len(replies) = 1
    BY <2>3 DEF OneReply
  <2>4. QED
    BY <1>1, <2>1, <2>2, <2>3 DEF IInv, Agreement, Told
<1>2. QED
  BY <1>1, Invariant, PTL

\* Only the password is answered with a session id and accepted, and it is
\* never answered with "[reject]".
THEOREM PasswordOnly == Spec => []OnlyPasswordAccepted
<1>1. IInv => OnlyPasswordAccepted
  BY DEF IInv, Agreement, Flags, Outcomes, OnlyPasswordAccepted, IsPassword
<1>2. QED
  BY <1>1, Invariant, PTL

----------------------------------------------------------------------------
(* The detailed handshake implements the abstract one, step by step.       *)

\* What the abstract handshake is at, by what was replied.
LEMMA PhaseIs ==
    /\ try_connect \in {"accepted", "refused", "lost"} => Phase = try_connect
    /\ try_connect \in {"waiting", "flushing"} =>
          /\ replies = <<>> => Phase = "asking"
          /\ replies = <<SessionId>> => Phase = "accepting"
          /\ replies = <<Reject>> => Phase = "rejecting"
          /\ replies = <<Timeout>> => Phase = "timing_out"
<1>1. CASE try_connect \in {"accepted", "refused", "lost"}
  BY <1>1 DEF Phase
<1>2. CASE try_connect \in {"waiting", "flushing"} /\ replies = <<>>
  BY <1>2 DEF Phase
<1>3. CASE try_connect \in {"waiting", "flushing"} /\ replies = <<SessionId>>
  BY <1>3, RepliesDistinct DEF Phase
<1>4. CASE try_connect \in {"waiting", "flushing"} /\ replies = <<Reject>>
  BY <1>4, RepliesDistinct DEF Phase
<1>5. CASE try_connect \in {"waiting", "flushing"} /\ replies = <<Timeout>>
  BY <1>5, RepliesDistinct DEF Phase
<1>6. QED
  BY <1>1, <1>2, <1>3, <1>4, <1>5

\* Every step is a step of Handshake, or a stutter.
LEMMA StepRefines == IInv /\ IInv' /\ [Next]_vars => [H!Next]_(H!vars)
<1> SUFFICES ASSUME IInv, IInv', [Next]_vars
             PROVE  H!Next \/ UNCHANGED H!vars
  OBVIOUS
<1>1. CASE UNCHANGED <<replies, try_connect>>
  BY <1>1 DEF H!vars, Phase
<1>2. ASSUME NEW text \in Texts, Reply(text), replies = <<>>,
             try_connect = "waiting", UNCHANGED try_connect
      PROVE  H!Next
  <2>1. replies' = <<text>>
    BY <1>2, FirstReply
  <2>2. Phase = "asking"
    BY <1>2, PhaseIs
  <2>3. CASE text = SessionId
    BY <1>2, <2>1, <2>2, <2>3, RepliesDistinct
    DEF H!Next, H!Accepting, H!Tell, Phase
  <2>4. CASE text = Reject
    BY <1>2, <2>1, <2>2, <2>4, RepliesDistinct
    DEF H!Next, H!Rejecting, H!Tell, Phase
  <2>5. CASE text = Timeout
    BY <1>2, <2>1, <2>2, <2>5, RepliesDistinct
    DEF H!Next, H!TimingOut, H!Tell, Phase
  <2>6. QED
    BY <1>2, <2>3, <2>4, <2>5 DEF Texts
<1>3. CASE Client \/ Timers
  BY <1>1, <1>3 DEF Client, Timers, LineArrives, ReadBreaks, TimerFires
<1>4. CASE ReadAborted \/ ReadError \/ PerformWaited \/ CountdownAborted
           \/ CountdownWaited
  BY <1>1, <1>4 DEF ReadAborted, ReadError, PerformWaited, CountdownAborted,
                    CountdownWaited
<1>5. CASE ReadWrongLine \/ ReadPassword \/ CountdownExpires
  <2>1. try_connect = "waiting" /\ UNCHANGED try_connect
    BY <1>5 DEF ReadWrongLine, ReadPassword, CountdownExpires, IInv,
                Agreement, Outcomes, TypeOK
  <2>2. \/ UNCHANGED replies
        \/ replies = <<>> /\ \E text \in Texts : Reply(text)
    BY <1>5 DEF ReadWrongLine, ReadPassword, CountdownExpires, MayTimeOut,
                is_rejected_session, IInv, Agreement, Told, Flags, Places,
                Texts
  <2>3. QED
    BY <1>1, <1>2, <2>1, <2>2
<1>6. CASE TryConnectResumes
  <2>1. CASE try_connect' = "flushing"
    BY <1>6, <2>1 DEF TryConnectResumes, H!vars, Phase
  <2>2. CASE try_connect' = "lost"
    <3>1. replies = <<Timeout>> /\ UNCHANGED replies
      BY <1>6, <2>2 DEF TryConnectResumes, IInv, Agreement, Outcomes
    <3>2. Phase = "timing_out" /\ Phase' = "lost"
      BY <1>6, <2>2, <3>1, PhaseIs DEF TryConnectResumes, Phase
    <3>3. QED
      BY <3>1, <3>2 DEF H!Next, H!Lose
  <2>3. CASE try_connect' = "refused"
    <3>1. replies # <<SessionId>> /\ UNCHANGED replies
      BY <1>6, <2>3 DEF TryConnectResumes, IInv, Agreement, Outcomes
    <3>2. Phase \in {"asking", "rejecting", "timing_out"} /\ Phase' = "refused"
      BY <1>6, <2>3, <3>1, PhaseIs
      DEF TryConnectResumes, Phase, IInv, Agreement, Told
    <3>3. QED
      BY <3>1, <3>2 DEF H!Next, H!Refuse
  <2>4. QED
    BY <1>6, <2>1, <2>2, <2>3 DEF TryConnectResumes
<1>7. CASE FlushElapsed
  <2>1. replies = <<SessionId>> /\ UNCHANGED replies
    BY <1>7 DEF FlushElapsed, IInv, Agreement, Outcomes
  <2>2. Phase = "accepting" /\ Phase' = "accepted"
    BY <1>7, <2>1, PhaseIs DEF FlushElapsed, Phase
  <2>3. QED
    BY <2>1, <2>2 DEF H!Next, H!Accept
<1>8. CASE UNCHANGED vars
  BY <1>1, <1>8 DEF vars
<1>9. QED
  BY <1>3, <1>4, <1>5, <1>6, <1>7, <1>8
  DEF Next, Perform, Countdown, Connect

\* The two coroutines, their timers and their cancellations do what the
\* handshake of Handshake.tla allows, and nothing else (its safety part; that it
\* ends is checked by TLC).
THEOREM Refinement == Spec => H!Init /\ [][H!Next]_(H!vars)
<1>1. Init => H!Init
  BY RepliesDistinct DEF Init, H!Init, Phase
<1>2. QED
  BY <1>1, StepRefines, Invariant, PTL DEF Spec

=============================================================================
