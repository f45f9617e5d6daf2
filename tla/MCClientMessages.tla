-------------------------- MODULE MCClientMessages --------------------------
(* A user with two names and one other, over two connections.              *)
EXTENDS ClientMessages

\* A user's names are alike.
Symmetry == Permutations(Names)
=============================================================================
