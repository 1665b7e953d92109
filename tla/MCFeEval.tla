------------------------------ MODULE MCFeEval ------------------------------
(***************************************************************************)
(* An arena with room for a few objects beyond the one function, so that   *)
(* most programs collect.                                                  *)
(***************************************************************************)
EXTENDS FeEval
=============================================================================
