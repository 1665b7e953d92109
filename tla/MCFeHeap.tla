------------------------------ MODULE MCFeHeap ------------------------------
(***************************************************************************)
(* A small arena without symbols, where programs build any graph of pairs, *)
(* numbers and foreign pointers.                                           *)
(***************************************************************************)
EXTENDS FeHeap

MCNodes == [n \in {} |-> 1]
=============================================================================
