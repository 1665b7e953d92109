-------------------------------- MODULE MCRepl --------------------------------
(***************************************************************************)
(* Lines with lists, strings, comments, quotes and dots, whole and in      *)
(* parts; and one list on a line that is longer than both buffers.  Pieces *)
(* without EOL are as long as fgets allows.                                *)
(***************************************************************************)
EXTENDS ReplHost

MCPieces ==
  {<<"(", EOL>>, <<")", EOL>>, <<"(", "a", ")", EOL>>, <<"quote", "(", "quote", EOL>>, <<"quote", EOL>>,
   <<"quote", "backslash", "quote", ")", "quote", "(", EOL>>, <<"(", ";", ")", EOL>>, <<"(", "a", "quote", ")", EOL>>,
   <<"(", "a", " ", ".", EOL>>, <<"tick", "a", " ", "tick", EOL>>, <<"(", "(", "a", " ", "a", "tick", "a">>, Quit}

MCLongLine == {<<"(", "a", " ", "a", " ", "a", " ">>, <<"a", " ", "a", " ", "a", " ", "a">>, <<"a", ")", EOL>>}
=============================================================================
