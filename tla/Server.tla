------------------------------- MODULE Server -------------------------------
(***************************************************************************)
(* main(): the start, and then the accept loop of the server that the      *)
(* configuration asked for (secure).  The io_context returns when it has   *)
(* no work left: once the loop is dead and the last session has gone, the  *)
(* process ends.                                                           *)
(***************************************************************************)
EXTENDS Startup

CONSTANTS Peers, Descriptors

ASSUME DescriptorsAssumption == Descriptors \in Nat \ {0}

VARIABLES loop, backlog, conn, client

loopVars == <<loop, backlog, conn, client>>
vars == <<startVars, loopVars>>

Accept == INSTANCE AcceptLoop

Init == StartInit /\ Accept!Init

Starting == StartNext /\ UNCHANGED loopVars

\* Clients can connect from here on.
Serving == stage = "serving" /\ UNCHANGED startVars /\ Accept!Next

RunReturns ==
    /\ stage = "serving" /\ loop = "dead" /\ Accept!Open = {}
    /\ stage' = "returned"
    /\ UNCHANGED <<file, folder, pos, dict, secure, bundle, loopVars>>

Next == Starting \/ Serving \/ RunReturns

\* main() goes on until it serves; the io_context resumes the loop.
Spec == /\ Init /\ [][Next]_vars
        /\ WF_vars(Starting)
        /\ WF_vars(stage = "serving" /\ UNCHANGED startVars /\ Accept!Loop)

----------------------------------------------------------------------------
(* Properties.                                                             *)

\* Type invariant of both parts.
TypeOK == StartTypeOK /\ Accept!TypeOK

\* A willing client is served, unless the loop is dead or waits for a client
\* that sends nothing.
ServedUnlessBlocked == Accept!ServedUnlessBlocked
=============================================================================
