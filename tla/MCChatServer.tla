---------------------------- MODULE MCChatServer ----------------------------
(* Interchangeable sessions, for the runs that check safety only.          *)
EXTENDS ChatServer, TLC

Symmetry == Permutations(Sessions)
=============================================================================
