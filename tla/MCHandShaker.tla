---------------------------- MODULE MCHandShaker ----------------------------
(* A client that may send the password, the empty line, a line that starts *)
(* like the password or any other line.                                    *)
EXTENDS HandShaker

MCLines == {"empty", "right", "rightly", "wrong"}
=============================================================================
