-------------------------- MODULE MCClientSettings --------------------------
(* Integers of 4 bits for the limit and of 2 bits for the port.            *)
EXTENDS ClientSettings

MCDefault == [mode |-> "Tcp", port |-> 2, max_char |-> 5, broadcast |-> FALSE,
              login |-> "default", certs_dir |-> "here"]

\* A choice at the upper limits, and one with texts that are no numbers.
MCChoices ==
    {[mode |-> "Ssl", port |-> {3}, max_char |-> {15}, broadcast |-> TRUE,
      login |-> "mine"],
     [mode |-> "Tcp", port |-> {}, max_char |-> {}, broadcast |-> FALSE,
      login |-> "mine"]}

Saved == [ToJson(MCDefault) EXCEPT !.mode = {"TLS"}, !.login = {"old"},
                                   !.certs_dir = {"there"}]

\* No file, a broken one, a good one, one with a key missing and an unknown
\* mode, and one with numbers that do not fit.
MCFiles ==
    {[kind |-> "absent", json |-> NoJson], Unreadable, Object(Saved),
     Object([Saved EXCEPT !.mode = {"udp"}, !.max_char = {}]),
     Object([Saved EXCEPT !.port = {6}, !.max_char = {12}, !.broadcast = {}])}
=============================================================================
