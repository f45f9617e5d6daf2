----------------------------- MODULE HandShaker -----------------------------
(***************************************************************************)
(* The password handshake of one session: class HandShaker                 *)
(* (TLS_server/include/hand_shaker.hpp), as its try_connect() runs it:     *)
(*                                                                         *)
(*    co_await (perform_password_handshake(timer) && countdown_timer(timer)) *)
(*                                                                         *)
(* Two coroutines, "perform" and "countdown", share the 5 s timer and the  *)
(* flags m_should_accept and m_is_terminating.  Each is suspended on one   *)
(* operation at a time (the read, or a timer).  The completion of an       *)
(* operation and the run of its handler are two steps: the one thread of   *)
(* the io_context runs the handlers in the order they became ready, and    *)
(* what is ready is not taken back by a later cancel().                    *)
(*                                                                         *)
(* The && of two awaitables waits for both; as soon as one throws, the     *)
(* other is cancelled: its pending operation is aborted, and it throws     *)
(* operation_aborted at the next awaitable it co_awaits.  If both throw,   *)
(* the exception is an asio::multiple_exceptions, which is no              *)
(* asio::system_error and passes try_connect's only catch clause.          *)
(***************************************************************************)
EXTENDS Naturals, Sequences

CONSTANTS Lines,        \* first lines a client may send
          EmptyLine,    \* the line with nothing before its delimiter
          Password,     \* the room's password
          SessionId,    \* m_session_id, decimal digits
          Reject,       \* m_reject_resp
          Timeout       \* m_timeout_resp

\* An id is a printed integer; the two other replies are bracketed words.
ASSUME RepliesDiffer == /\ SessionId # Reject
                        /\ SessionId # Timeout
                        /\ Reject # Timeout

NoLine == "no line"
Coroutines == {"perform", "countdown"}
Other(c) == IF c = "perform" THEN "countdown" ELSE "perform"

VARIABLES
    perform,            \* where perform_password_handshake is suspended
    countdown,          \* where countdown_timer is suspended
    op,                 \* the operation each coroutine is suspended on
    ready,              \* coroutines with a completed operation, in order
    line,               \* what the completed read holds
    cancelled,          \* the coroutines the && has cancelled
    threw,              \* the exception each coroutine ended with
    m_should_accept,
    m_is_terminating,
    replies,            \* history: the texts given to deliver_private
    try_connect         \* the && and what follows it

flags == <<m_should_accept, m_is_terminating>>
vars  == <<perform, countdown, op, ready, line, cancelled, threw, flags,
           replies, try_connect>>

Init ==
    /\ perform = "reading"
    /\ countdown = "counting"
    /\ op = [c \in Coroutines |-> "pending"]
    /\ ready = <<>>
    /\ line = NoLine
    /\ cancelled = {}
    /\ threw = [c \in Coroutines |-> "none"]
    /\ m_should_accept = FALSE
    /\ m_is_terminating = FALSE
    /\ replies = <<>>
    /\ try_connect = "waiting"

is_rejected_session == ~m_should_accept

----------------------------------------------------------------------------
(* The operations: the client's line, the breaking read, the timers.       *)

Complete(c, how) ==
    /\ op[c] = "pending"
    /\ op' = [op EXCEPT ![c] = how]
    /\ ready' = Append(ready, c)

LineArrives(l) ==
    /\ perform = "reading"
    /\ Complete("perform", "done")
    /\ line' = l
    /\ UNCHANGED <<perform, countdown, cancelled, threw, flags, replies,
                   try_connect>>

\* End of file, a reset, or 1024 bytes without a delimiter.
ReadBreaks ==
    /\ perform = "reading"
    /\ Complete("perform", "error")
    /\ UNCHANGED <<perform, countdown, line, cancelled, threw, flags, replies,
                   try_connect>>

\* Every operation but the read is a timer: m_timeout_secs for a countdown
\* that is still counting, m_write_response_await_ms otherwise.
TimerFires(c) ==
    /\ IF c = "perform" THEN perform \in {"rejecting", "accepting"}
                        ELSE countdown \in {"counting", "timing_out"}
    /\ Complete(c, "done")
    /\ UNCHANGED <<perform, countdown, line, cancelled, threw, flags, replies,
                   try_connect>>

----------------------------------------------------------------------------
(* The run of a handler: the turn of coroutine c.                          *)

\* c has the next turn, because its operation completed in this way.
Turn(c, how) == ready # <<>> /\ Head(ready) = c /\ op[c] = how

\* The turn leaves c suspended on the operation "next"; cancelling aborts the
\* pending operation of the other coroutine, which becomes ready.
EndTurn(c, next, cancelling) ==
    LET aborts == cancelling /\ op[Other(c)] = "pending"
    IN  /\ op' = [op EXCEPT ![c] = next,
                           ![Other(c)] = IF aborts THEN "aborted" ELSE @]
        /\ ready' = IF aborts THEN Append(Tail(ready), Other(c))
                              ELSE Tail(ready)

\* c waits for its 250 us, after timer.cancel() if it has it: only a countdown
\* that is still counting waits on that timer.
Wait(c) ==
    /\ EndTurn(c, "pending", c = "perform" /\ countdown = "counting")
    /\ UNCHANGED <<cancelled, threw>>

Return(c) == EndTurn(c, "none", FALSE) /\ UNCHANGED <<cancelled, threw>>

\* c throws e; the && cancels the other coroutine if it still runs.
Throw(c, e) ==
    /\ threw' = [threw EXCEPT ![c] = e]
    /\ EndTurn(c, "none", TRUE)
    /\ cancelled' = cancelled \cup {Other(c)}

----------------------------------------------------------------------------
(* perform_password_handshake.                                             *)

\* Mutant: the empty line passes.
IsPassword_OrEmpty(l) == l \in {EmptyLine, Password}

\* is_password_correct: no line but the password, and no empty line.
IsPassword(l) == l # EmptyLine /\ l = Password

\* Mutant: the client's line is echoed.
Reply_Echo(text) == replies' = Append(replies, line)

Reply(text) == replies' = Append(replies, text)

\* After the wrong line: reject_connection, if nobody said anything yet.
ReadWrongLine ==
    /\ perform = "reading" /\ Turn("perform", "done") /\ ~IsPassword(line)
    /\ m_should_accept' = FALSE
    /\ IF m_is_terminating
       THEN /\ perform' = "ended"
            /\ Return("perform")
            /\ UNCHANGED <<m_is_terminating, replies>>
       ELSE /\ perform' = "rejecting"
            /\ Wait("perform")
            /\ m_is_terminating' = TRUE
            /\ Reply(Reject)
    /\ UNCHANGED <<countdown, line, try_connect>>

\* After the password: accept_connection replies with the session id, unless
\* the countdown already said "[timeout]"; a cancelled coroutine does not get
\* past the co_await.
ReadPassword ==
    /\ perform = "reading" /\ Turn("perform", "done") /\ IsPassword(line)
    /\ m_should_accept' = TRUE
    /\ \/ /\ "perform" \in cancelled
          /\ perform' = "ended"
          /\ Throw("perform", "aborted")
          /\ UNCHANGED replies
       \/ /\ "perform" \notin cancelled /\ m_is_terminating
          /\ perform' = "ended"
          /\ Return("perform")
          /\ UNCHANGED replies
       \/ /\ "perform" \notin cancelled /\ ~m_is_terminating
          /\ perform' = "accepting"
          /\ Wait("perform")
          /\ Reply(SessionId)
    /\ UNCHANGED <<countdown, line, m_is_terminating, try_connect>>

\* An aborted read counts as a wrong password (it is aborted only after the
\* countdown threw, so m_is_terminating holds and nothing is said).
ReadAborted ==
    /\ perform = "reading" /\ Turn("perform", "aborted")
    /\ m_is_terminating
    /\ m_should_accept' = FALSE
    /\ perform' = "ended"
    /\ Return("perform")
    /\ UNCHANGED <<countdown, line, m_is_terminating, replies, try_connect>>

ReadError ==
    /\ perform = "reading" /\ Turn("perform", "error")
    /\ perform' = "ended"
    /\ Throw("perform", "error")
    /\ UNCHANGED <<countdown, line, flags, replies, try_connect>>

\* reject_connection after its wait throws, accept_connection returns.  (The
\* countdown throws only after m_is_terminating kept both from being entered,
\* so their wait is never aborted.)
PerformWaited ==
    /\ perform \in {"rejecting", "accepting"} /\ Turn("perform", "done")
    /\ perform' = "ended"
    /\ IF perform = "rejecting" THEN Throw("perform", "refused")
                                ELSE Return("perform")
    /\ UNCHANGED <<countdown, line, flags, replies, try_connect>>

----------------------------------------------------------------------------
(* countdown_timer.                                                        *)

\* Mutants: each of the two flags ignored.
MayTimeOut_IfAccepted == ~m_is_terminating /\ "countdown" \notin cancelled
MayTimeOut_IfTerminating == is_rejected_session /\ "countdown" \notin cancelled

MayTimeOut ==
    is_rejected_session /\ ~m_is_terminating /\ "countdown" \notin cancelled

\* The 5 s are over before the session is accepted or terminating:
\* timeout_connection.  A cancelled countdown does not get past the co_await.
CountdownExpires ==
    /\ countdown = "counting" /\ Turn("countdown", "done")
    /\ IF MayTimeOut
       THEN /\ countdown' = "timing_out"
            /\ Wait("countdown")
            /\ m_is_terminating' = TRUE
            /\ Reply(Timeout)
       ELSE /\ countdown' = "ended"
            /\ Return("countdown")
            /\ UNCHANGED <<m_is_terminating, replies>>
    /\ UNCHANGED <<perform, line, m_should_accept, try_connect>>

\* operation_aborted ends countdown_timer quietly, wherever it was.
CountdownAborted ==
    /\ countdown \in {"counting", "timing_out"}
    /\ Turn("countdown", "aborted")
    /\ countdown' = "ended"
    /\ Return("countdown")
    /\ UNCHANGED <<perform, line, flags, replies, try_connect>>

\* Mutant: timed_out is not thrown again.
CountdownWaited_Swallows ==
    /\ countdown = "timing_out" /\ Turn("countdown", "done")
    /\ countdown' = "ended"
    /\ Return("countdown")
    /\ UNCHANGED <<perform, line, flags, replies, try_connect>>

\* timeout_connection after its wait.
CountdownWaited ==
    /\ countdown = "timing_out" /\ Turn("countdown", "done")
    /\ countdown' = "ended"
    /\ Throw("countdown", "timed_out")
    /\ UNCHANGED <<perform, line, flags, replies, try_connect>>

----------------------------------------------------------------------------
(* try_connect, after the &&.                                              *)

\* Mutant: an exception of the countdown does not reach try_connect.
TryConnectResumes_PerformOnly ==
    /\ try_connect = "waiting" /\ perform = "ended" /\ countdown = "ended"
    /\ try_connect' = IF threw["perform"] = "none" THEN "flushing"
                                                  ELSE "refused"
    /\ UNCHANGED <<perform, countdown, op, ready, line, cancelled, threw,
                   flags, replies>>

\* Both coroutines ended.  One exception is a system_error: the completion
\* token is called with false.  Two make a multiple_exceptions, which leaves
\* the coroutine; co_spawn(..., detached) drops it and nobody is called.
TryConnectResumes ==
    /\ try_connect = "waiting" /\ perform = "ended" /\ countdown = "ended"
    /\ try_connect' = CASE \A c \in Coroutines : threw[c] = "none" -> "flushing"
                        [] \A c \in Coroutines : threw[c] # "none" -> "lost"
                        [] OTHER -> "refused"
    /\ UNCHANGED <<perform, countdown, op, ready, line, cancelled, threw,
                   flags, replies>>

\* flush_session_id_timer is over: completion_token(true).
FlushElapsed ==
    /\ try_connect = "flushing"
    /\ try_connect' = "accepted"
    /\ UNCHANGED <<perform, countdown, op, ready, line, cancelled, threw,
                   flags, replies>>

----------------------------------------------------------------------------
Client == (\E l \in Lines : LineArrives(l)) \/ ReadBreaks

Timers == \E c \in Coroutines : TimerFires(c)

Perform   == \/ ReadWrongLine \/ ReadPassword \/ ReadAborted \/ ReadError
             \/ PerformWaited
Countdown == CountdownExpires \/ CountdownAborted \/ CountdownWaited
Connect   == TryConnectResumes \/ FlushElapsed

Next == Client \/ Timers \/ Perform \/ Countdown \/ Connect

\* The clock advances and the io_context runs what is ready; nothing obliges
\* a client to send a line.
Fairness == /\ WF_vars(Perform) /\ WF_vars(Countdown) /\ WF_vars(Connect)
            /\ \A c \in Coroutines : WF_vars(TimerFires(c))

Spec == Init /\ [][Next]_vars /\ Fairness

----------------------------------------------------------------------------
(* Properties.                                                             *)

Texts == {SessionId, Reject, Timeout}

\* Type invariant; every text the room delivers is one of the three replies.
TypeOK ==
    /\ perform \in {"reading", "rejecting", "accepting", "ended"}
    /\ countdown \in {"counting", "timing_out", "ended"}
    /\ op \in [Coroutines -> {"pending", "done", "error", "aborted", "none"}]
    /\ ready \in Seq(Coroutines)
    /\ line \in Lines \cup {NoLine}
    /\ cancelled \in SUBSET Coroutines
    /\ threw \in [Coroutines -> {"none", "error", "aborted", "refused",
                                 "timed_out"}]
    /\ m_should_accept \in BOOLEAN
    /\ m_is_terminating \in BOOLEAN
    /\ replies \in Seq(Texts)
    /\ try_connect \in {"waiting", "flushing", "accepted", "refused", "lost"}

\* The client is told one thing at most: the wrong password and the expiry of
\* the countdown, complete in the same turn of the io_context, do not both
\* answer.
OneReply == Len(replies) <= 1

\* A session id is sent, and a session accepted, for the password only,
\* and for nobody if that is empty; the password is never answered with
\* "[reject]".
OnlyPasswordAccepted ==
    /\ (replies = <<SessionId>> \/ try_connect \in {"flushing", "accepted"})
          => line = Password /\ line # EmptyLine
    /\ replies = <<Reject>> => line # Password \/ line = EmptyLine

\* The phase of the abstract handshake: what the client was told, until
\* try_connect has settled.
Phase ==
    IF try_connect \in {"accepted", "refused", "lost"} THEN try_connect
    ELSE CASE replies = <<>> -> "asking"
           [] replies = <<SessionId>> -> "accepting"
           [] replies = <<Reject>> -> "rejecting"
           [] replies = <<Timeout>> -> "timing_out"
           [] OTHER -> "contradictory"

H == INSTANCE Handshake WITH phase <- Phase

\* The two coroutines, their shared flags and the cancellations implement the
\* handshake the server promises one participant.
RefinesHandshake == H!Spec

\* Every handshake ends, even if the client never sends a byte.
Answered == try_connect = "waiting" ~> try_connect \in H!Settled

\* The password, read before the server said anything else, is accepted, even
\* if the countdown expires in the same turn of the io_context.
PasswordInTimeAccepted ==
    (m_should_accept /\ ~m_is_terminating) ~> try_connect = "accepted"

\* hand_shaker.hpp:175 "rethrow to handler": a countdown that timed out reaches
\* try_connect's handler, which refuses the session.
TimeoutReachesHandler ==
    threw["countdown"] = "timed_out" => try_connect # "lost"
=============================================================================
