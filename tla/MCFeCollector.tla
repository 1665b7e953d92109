---------------------------- MODULE MCFeCollector ----------------------------
(***************************************************************************)
(* Every heap of N cells over one type per shape that fe_mark              *)
(* distinguishes, with up to two roots.                                    *)
(***************************************************************************)
EXTENDS FeCollector

MCCellValues ==
  [type : {"pair"}, car : Refs, cdr : Refs]
  \cup [type : {"func"}, car : {Nil}, cdr : Refs]
  \cup [type : {"ptr"}, car : Refs, cdr : {Nil}]
  \cup [type : {"free", "number"}, car : {Nil}, cdr : {Nil}]

MCStartHeaps == [Cells -> MCCellValues]

(* fe_close (no root at all), one root, two roots; by the symmetry of the  *)
(* graphs the choice of cells loses nothing.                               *)
MCStartRoots == {<<Nil>>, <<1, Nil>>, <<2, 3>>}
=============================================================================
