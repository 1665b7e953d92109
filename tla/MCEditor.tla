------------------------------ MODULE MCEditor ------------------------------
(***************************************************************************)
(* The editor for TLC: the text buffer, the idle timers, and the host that *)
(* reads keys and saves.  The loop of the host, the timers and the buffer  *)
(* meet in keys, commands and ticks, which each part enumerates itself:    *)
(* one part runs at a time.                                                *)
(***************************************************************************)
EXTENDS TextBuffer, Timers, NemacsHost

VARIABLE focus

MCContents == {<<<<9>>, <<>>>>}

editorVars == <<focus, textVars, timersVars, nemacsVars>>

EditorInit ==
  /\ focus \in {"text", "timers", "host"}
  /\ TextInit /\ TimersInit /\ NemacsInit

EditorNext ==
  /\ \/ focus = "text" /\ TextNext /\ UNCHANGED timersVars /\ UNCHANGED nemacsVars
     \/ focus = "timers" /\ TimersNext /\ UNCHANGED textVars /\ UNCHANGED nemacsVars
     \/ focus = "host" /\ NemacsNext /\ UNCHANGED textVars /\ UNCHANGED timersVars
  /\ UNCHANGED focus

(* The fairness of the parts: the loop waits and fires, and reads the end  *)
(* of its input.                                                           *)
EditorFairness ==
  /\ WF_editorVars(focus = "timers" /\ Waiting /\ UNCHANGED <<focus, textVars, nemacsVars>>)
  /\ WF_editorVars(focus = "host" /\ (Start \/ ReadEof) /\ UNCHANGED <<focus, textVars, timersVars>>)

EditorSpec == EditorInit /\ [][EditorNext]_editorVars /\ EditorFairness

TimersFire == focus = "timers" => DueFires
EditorEnds == focus = "host" => EofEnds
=============================================================================
