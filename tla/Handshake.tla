----------------------------- MODULE Handshake -----------------------------
(***************************************************************************)
(* What the server promises ONE participant about its password handshake,  *)
(* without the two coroutines, the timers and the cancellations that       *)
(* implement it (HandShaker.tla does those).                               *)
(*                                                                         *)
(* A participant is asked for the password.  It is told at most one thing: *)
(* its session id, that it is rejected, or that it was too slow.  It is    *)
(* then accepted or refused accordingly; a participant that leaves before  *)
(* it is told anything is refused.  The one wart of the code is visible    *)
(* here: a handshake that has timed out may end up "lost", neither         *)
(* accepted nor refused.                                                   *)
(***************************************************************************)
EXTENDS Sequences

CONSTANTS SessionId,    \* what an accepted participant is told
          Reject,       \* m_reject_resp
          Timeout       \* m_timeout_resp

VARIABLES phase,        \* where the handshake is
          replies       \* what the participant was told, oldest first

vars == <<phase, replies>>

Settled == {"accepted", "refused", "lost"}
Phases  == {"asking", "accepting", "rejecting", "timing_out"} \cup Settled

Init == phase = "asking" /\ replies = <<>>

Tell(reply, next) ==
    /\ phase = "asking"
    /\ phase' = next
    /\ replies' = <<reply>>

Accepting == Tell(SessionId, "accepting")
Rejecting == Tell(Reject, "rejecting")
TimingOut == Tell(Timeout, "timing_out")

Accept == phase = "accepting" /\ phase' = "accepted" /\ UNCHANGED replies

Refuse ==
    /\ phase \in {"asking", "rejecting", "timing_out"}
    /\ phase' = "refused"
    /\ UNCHANGED replies

Lose == phase = "timing_out" /\ phase' = "lost" /\ UNCHANGED replies

Next == Accepting \/ Rejecting \/ TimingOut \/ Accept \/ Refuse \/ Lose

Spec == Init /\ [][Next]_vars /\ WF_vars(Next)
=============================================================================
