---------------------------- MODULE MCChatClient ----------------------------
(* Two connections one after the other, two lookups at once, two lines and *)
(* three texts under way.                                                  *)
EXTENDS ChatClient
=============================================================================
