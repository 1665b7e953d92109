----------------------------- MODULE MCFeSymbols -----------------------------
(***************************************************************************)
(* An arena with room for just two symbols, one of them with a name of two *)
(* string cells, and so for one symbol twice.                              *)
(***************************************************************************)
EXTENDS FeHeap

CONSTANTS a, b

MCNames == {a, b}

MCNodes == [n \in {a, b} |-> IF n = a THEN 1 ELSE 2]
=============================================================================
