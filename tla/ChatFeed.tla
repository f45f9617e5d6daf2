------------------------------ MODULE ChatFeed ------------------------------
(***************************************************************************)
(* What the chat promises its participants, without sockets, outboxes,     *)
(* coroutines or handshakes: whoever is present is given every message     *)
(* that is posted, and may at any time be caught up with the last Depth    *)
(* messages.  Nobody is given anything before entering or after leaving.   *)
(***************************************************************************)
EXTENDS Naturals

CONSTANTS Members,      \* everybody who may ever take part
          Depth         \* how many messages a member is caught up with

VARIABLES posted,       \* how many messages were posted
          present,      \* the members taking part
          seen          \* the messages each member was given

vars == <<posted, present, seen>>

Init == posted = 0 /\ present = {} /\ seen = [m \in Members |-> {}]

Enter(m) ==
    /\ m \notin present /\ seen[m] = {}
    /\ present' = present \cup {m}
    /\ UNCHANGED <<posted, seen>>

Exit(m) ==
    /\ m \in present
    /\ present' = present \ {m}
    /\ UNCHANGED <<posted, seen>>

Post ==
    /\ posted' = posted + 1
    /\ seen' = [m \in Members |-> IF m \in present
                                  THEN seen[m] \cup {posted + 1} ELSE seen[m]]
    /\ UNCHANGED present

Newest == {n \in 1 .. posted : n + Depth > posted}

CatchUp(m) ==
    /\ m \in present
    /\ seen' = [seen EXCEPT ![m] = @ \cup Newest]
    /\ UNCHANGED <<posted, present>>

Next == Post \/ \E m \in Members : Enter(m) \/ Exit(m) \/ CatchUp(m)

Spec == Init /\ [][Next]_vars
=============================================================================
