---------------------------- MODULE ChatSession ----------------------------
(***************************************************************************)
(* The sessions of the server: class ChatSession                           *)
(* (TLS_server/src/chat_session.cpp), one member of Sessions per accepted  *)
(* connection.  The module holds a session's own state and operations; the *)
(* room (ChatRoom) and the server (ChatServer) extend it.                  *)
(*                                                                         *)
(* A session runs three coroutines: try_connect, the writer and, once it   *)
(* is accepted, the reader.  Only the room's unique_ptr owns the session,  *)
(* so the coroutine that calls stop() destroys it under the two others.    *)
(* They stay suspended on the destroyed session (dangling) until their     *)
(* aborted operation resumes them; what they do then is undefined.         *)
(***************************************************************************)
EXTENDS Naturals, Sequences

CONSTANT Sessions       \* every connection the server will ever accept

VARIABLES
    session,            \* "absent", then "live", then "destroyed"
    pushed,             \* what deliver() pushed, oldest first
    popped,             \* how much of it the writer has written and popped
    writer,             \* where writer() is suspended
    reader,             \* where reader() is suspended
    hs,                 \* the phase of try_connect (Handshake.tla)
    dangling            \* coroutines suspended on a destroyed session

sessionVars == <<session, pushed, popped, writer, reader, hs, dangling>>

\* An item of the outbox: a reply of the handshake, a remembered message or a
\* message as it is broadcast.
Replies == {"id", "reject", "timeout"}
ReplyItem(kind) == [kind |-> kind, msg |-> 0]
History(m) == [kind |-> "history", msg |-> m]
Live(m)    == [kind |-> "live", msg |-> m]

OutboxEmpty(s) == popped[s] = Len(pushed[s])

SessionInit ==
    /\ session = [s \in Sessions |-> "absent"]
    /\ pushed = [s \in Sessions |-> <<>>]
    /\ popped = [s \in Sessions |-> 0]
    /\ writer = [s \in Sessions |-> "none"]
    /\ reader = [s \in Sessions |-> "none"]
    /\ hs = [s \in Sessions |-> "none"]
    /\ dangling = [s \in Sessions |-> {}]

\* start(): the password handshake and the writer are spawned.
Start(s) ==
    /\ hs' = [hs EXCEPT ![s] = "asking"]
    /\ writer' = [writer EXCEPT ![s] = "ready"]

\* Mutant: deliver() without m_timer.cancel_one().
DeliverTo_NoWakeup(S, items) ==
    /\ pushed' = [s \in Sessions |-> IF s \in S THEN pushed[s] \o items
                                                ELSE pushed[s]]
    /\ UNCHANGED writer

\* deliver() on every session of S, item by item: push and wake the writer.
DeliverTo(S, items) ==
    /\ pushed' = [s \in Sessions |-> IF s \in S THEN pushed[s] \o items
                                                ELSE pushed[s]]
    /\ writer' = [s \in Sessions |->
                    IF s \in S /\ writer[s] = "waiting" /\ items # <<>>
                    THEN "ready" ELSE writer[s]]

\* The coroutines of s that are suspended somewhere.
Suspended(s) ==
    (IF writer[s] = "none" THEN {} ELSE {"writer"}) \cup
    (IF reader[s] = "none" THEN {} ELSE {"reader"}) \cup
    (IF hs[s] \in {"asking", "accepting", "rejecting", "timing_out"}
       THEN {"try_connect"} ELSE {})

\* What stop() does to the session itself when the room lets it go: all but
\* the calling coroutine are left dangling.
Destroy(s, caller) ==
    /\ session' = [session EXCEPT ![s] = "destroyed"]
    /\ dangling' = [dangling EXCEPT ![s] = Suspended(s) \ {caller}]
    /\ writer' = [writer EXCEPT ![s] = "none"]
    /\ reader' = [reader EXCEPT ![s] = "none"]

----------------------------------------------------------------------------
(* writer().                                                               *)

\* The writer takes the next message, or waits for one.
NextWrite(s, n) ==
    writer' = [writer EXCEPT ![s] = IF n = Len(pushed[s]) THEN "waiting"
                                                          ELSE "writing"]

WriterRuns(s) ==
    /\ session[s] = "live" /\ writer[s] = "ready"
    /\ NextWrite(s, popped[s])
    /\ UNCHANGED <<session, pushed, popped, reader, hs, dangling>>

\* async_write completed: pop_front(), and the loop goes on.
WriteCompletes(s) ==
    /\ session[s] = "live" /\ writer[s] = "writing"
    /\ popped' = [popped EXCEPT ![s] = @ + 1]
    /\ NextWrite(s, popped[s] + 1)
    /\ UNCHANGED <<session, pushed, reader, hs, dangling>>
=============================================================================
