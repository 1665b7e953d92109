------------------------------ MODULE MCReader ------------------------------
(***************************************************************************)
(* Programs whose forms may nest readers, before and after atoms; texts to *)
(* be read from inside them that end in the middle of a list, behind an    *)
(* atom or a delimiter, or fail; and all texts of up to two characters.    *)
(***************************************************************************)
EXTENDS Reader

MCPrograms == {<<"(", "a", ")", "(", "a", ")">>, <<"(", "a", ")", "a", Blank, "(", ")">>,
               <<"a", "(", "a", Blank, "a", ")", ")">>}

MCTexts == {<<>>, <<"a">>, <<"a", "(">>, <<"a", Blank, "a">>, <<"(", "a", ")">>, <<"(", "a">>, <<"a", ";">>, <<")">>}

MCShortTexts == UNION {[1..n -> {"(", ")", "a", Blank, ";"}] : n \in 0..2}
=============================================================================
