--------------------------- MODULE MCLineFraming ----------------------------
(* After the password: messages of which two fill the buffer together, an   *)
(* empty one, one that does not fit, and a character of two bytes.          *)
EXTENDS LineFraming

MCBytes == {"p", "a", "b", "7", "x1", "x2"}
MCLeads == {"x1"}
MCTails == {"x2"}
MCSessionId == <<"7">>
MCScripts == {<<<<"p">>, <<"a">>, <<"x1", "x2">>, <<"a">>>>,
              <<<<"p">>, <<>>, <<"a">>>>,
              <<<<"p">>, <<"a">>, <<"b", "b", "b", "b">>>>}
=============================================================================
