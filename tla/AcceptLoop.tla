----------------------------- MODULE AcceptLoop -----------------------------
(***************************************************************************)
(* serve_forever(), the coroutine that turns connections into sessions, in *)
(* the two versions of it between which the connection type of the         *)
(* configuration chooses: TcpChatServer (~secure) and SslChatServer        *)
(* (secure).  It takes one connection at a time; the TLS handshake is      *)
(* awaited inside the loop.  The coroutine is spawned detached: an         *)
(* exception that leaves it ends it and is dropped.                        *)
(*                                                                         *)
(* The constructor of ChatSession asks the socket for the address of its   *)
(* peer, which throws if the peer has reset the connection.                *)
(***************************************************************************)
EXTENDS Naturals, Sequences, FiniteSets

CONSTANTS Peers,        \* every client that will ever connect, once
          Descriptors   \* how many sockets the process may hold besides its
                        \* own, one at least

VARIABLES
    secure,             \* which of the two servers main() built; never changes
    loop,               \* "accepting", "handshaking" or "dead"
    backlog,            \* connections the kernel completed, oldest first
    conn,               \* what became of each peer's connection
    client              \* "willing", "mute" (sends nothing) or "reset"

vars == <<secure, loop, backlog, conn, client>>

Init ==
    /\ secure \in BOOLEAN
    /\ loop = "accepting"
    /\ backlog = <<>>
    /\ conn = [p \in Peers |-> "none"]
    /\ client = [p \in Peers |-> "willing"]

Becomes(p, what) == conn' = [conn EXCEPT ![p] = what]

Open == {p \in Peers : conn[p] \in {"handshaking", "joined"}}

----------------------------------------------------------------------------
(* The clients.                                                            *)

Arrives(p) ==
    /\ conn[p] = "none"
    /\ Becomes(p, "queued")
    /\ backlog' = Append(backlog, p)
    /\ UNCHANGED <<secure, loop, client>>

Turns(p, from, to) ==
    /\ conn[p] \in {"queued", "handshaking"} /\ client[p] \in from
    /\ client' = [client EXCEPT ![p] = to]
    /\ UNCHANGED <<secure, loop, backlog, conn>>

\* A mute client keeps its connection but never sends a byte again; a reset
\* connection is gone.  (One closed in good order still has an address: it is
\* joined, and its session's reads end.)
GoesMute(p) == Turns(p, {"willing"}, "mute")
Resets(p)   == Turns(p, {"willing", "mute"}, "reset")

\* The session of p stops and its socket is closed.
Leaves(p) ==
    /\ conn[p] = "joined"
    /\ Becomes(p, "closed")
    /\ UNCHANGED <<secure, loop, backlog, client>>

----------------------------------------------------------------------------
(* The loop.                                                               *)

\* Mutant: the acceptor is built anew for every connection, so that those that
\* wait are dropped.
Accepts_NewAcceptor(p) ==
    /\ loop = "accepting" /\ backlog # <<>> /\ p = Head(backlog)
    /\ Cardinality(Open) < Descriptors
    /\ backlog' = <<>>

\* async_accept() yields the oldest connection, or throws for want of a
\* descriptor.
Accepts(p) ==
    /\ loop = "accepting" /\ backlog # <<>> /\ p = Head(backlog)
    /\ Cardinality(Open) < Descriptors
    /\ backlog' = Tail(backlog)

AcceptFails ==
    /\ loop = "accepting" /\ backlog # <<>>
    /\ Cardinality(Open) = Descriptors
    /\ loop' = "dead"
    /\ UNCHANGED <<secure, backlog, conn, client>>

\* The session is constructed and joins the room.
Joins(p) == Becomes(p, "joined")

\* TcpChatServer: the constructor's exception leaves the loop.
AcceptsTcp(p) ==
    /\ ~secure
    /\ Accepts(p)
    /\ \/ client[p] # "reset" /\ Joins(p) /\ UNCHANGED loop
       \/ /\ client[p] = "reset"
          /\ Becomes(p, "closed")
          /\ loop' = "dead"
    /\ UNCHANGED <<secure, client>>

\* Mutant: the handshake gets a coroutine of its own, the loop goes on.
AcceptsSsl_Spawned(p) ==
    /\ secure
    /\ Accepts(p)
    /\ Becomes(p, "handshaking")
    /\ UNCHANGED <<secure, loop, client>>

\* SslChatServer: the loop waits for the TLS handshake of p.
AcceptsSsl(p) ==
    /\ secure
    /\ Accepts(p)
    /\ Becomes(p, "handshaking")
    /\ loop' = "handshaking"
    /\ UNCHANGED <<secure, client>>

HandshakeDone(p) ==
    /\ conn[p] = "handshaking" /\ client[p] = "willing"
    /\ Joins(p)
    /\ loop' = "accepting"
    /\ UNCHANGED <<secure, backlog, client>>

\* The handshake, or the constructor after it, throws: a reset, a certificate
\* that is not accepted, bytes that are no TLS.  The loop catches it.
HandshakeFails(p) ==
    /\ conn[p] = "handshaking" /\ client[p] # "mute"
    /\ Becomes(p, "closed")
    /\ loop' = "accepting"
    /\ UNCHANGED <<secure, backlog, client>>

Loop == \/ AcceptFails
        \/ \E p \in Peers : \/ AcceptsTcp(p) \/ AcceptsSsl(p)
                            \/ HandshakeDone(p) \/ HandshakeFails(p)

Next == \/ Loop
        \/ \E p \in Peers : \/ Arrives(p) \/ Leaves(p)
                            \/ GoesMute(p) \/ Resets(p)

\* The io_context resumes the loop when its operation completes; no client
\* has to connect, to speak or to leave.
Spec == Init /\ [][Next]_vars /\ WF_vars(Loop)

----------------------------------------------------------------------------
(* Properties.                                                             *)

\* Type invariant; one connection is handshaking exactly while the loop is.
TypeOK ==
    /\ secure \in BOOLEAN
    /\ loop \in {"accepting", "handshaking", "dead"}
    /\ backlog \in Seq(Peers)
    /\ conn \in [Peers -> {"none", "queued", "handshaking", "joined", "closed"}]
    /\ client \in [Peers -> {"willing", "mute", "reset"}]
    /\ Cardinality({p \in Peers : conn[p] = "handshaking"})
          = IF loop = "handshaking" THEN 1 ELSE 0

\* A willing client is served, unless the loop is dead or waits for a client
\* that sends nothing.
ServedUnlessBlocked ==
    \A p \in Peers :
        conn[p] = "queued" ~> \/ conn[p] \in {"joined", "closed"}
                              \/ client[p] # "willing"
                              \/ loop = "dead"
                              \/ \E q \in Peers : conn[q] = "handshaking"
                                                  /\ client[q] = "mute"
=============================================================================
