----------------------------- MODULE UndoHistory -----------------------------
(***************************************************************************)
(* What undo and redo promise the user of an editor: the text as it was.   *)
(***************************************************************************)
EXTENDS Sequences, SequencesExt

VARIABLES text, past, future

Init == past = <<>> /\ future = <<>>

(* An edit starts an undo step, and may push the oldest one out, or it     *)
(* becomes part of the last one.                                           *)
Edit ==
  /\ LET longer == Append(past, text) IN past' \in {longer, Tail(longer)} \cup (IF past = <<>> THEN {} ELSE {past})
  /\ future' = <<>>

Undo ==
  /\ past # <<>>
  /\ text' = Last(past) /\ past' = Front(past) /\ future' = Append(future, text)

Redo ==
  /\ future # <<>>
  /\ text' = Last(future) /\ future' = Front(future) /\ past' = Append(past, text)

Next == Edit \/ Undo \/ Redo

Spec == Init /\ [][Next]_<<text, past, future>>
=============================================================================
