----------------------------- MODULE NemacsHost -----------------------------
(***************************************************************************)
(* The host of the editor (do_nemacs and its helpers, cli/main.c): it      *)
(* opens the file, assembles keys out of bytes, asks before it drops       *)
(* edits, saves.                                                           *)
(*                                                                         *)
(* Texts are versions: what the file held (Whole), a part of it (Part),    *)
(* nothing (Empty), or the n-th edit.  Bytes are named after their keys.   *)
(***************************************************************************)
EXTENDS Integers, Sequences

CONSTANT EditMax  \* bound: edits

ASSUME NemacsAssumption == EditMax \in Nat

VARIABLES
  mode,      \* "start", "key", "confirm", "search", "exited"
  prefix,    \* the keys read so far of a sequence
  input,     \* "open" or "closed"
  tty,       \* whether stdin is a terminal
  file,      \* whether there is a file to save to
  disk,      \* what it holds
  text,      \* what *nemacs* holds
  modified,  \* (text-modified? *nemacs*)
  edits,     \* edits so far
  kept,      \* history: the text that was last opened or saved
  faults     \* history: failures that the flag or the question does not tell of

nemacsVars == <<mode, prefix, input, tty, file, disk, text, modified, edits, kept, faults>>

Empty == -2
Part  == -1
Whole == 0
Eof   == "EOF"

Bytes == {"a", "k", "u", "y", "n", "[", "ESC", "DEL", "RET", "C-x", "C-s", "C-c", "C-g", "C-h"}
Graphic == {"a", "k", "u", "y", "n", "["}

(* The keys that a terminal keeps to itself: edit_raw_on leaves ISIG and   *)
(* IXON as they are.                                                       *)
TakenByTty == {"C-c", "C-s"}

bufferVars == <<disk, text, modified, edits, kept, faults>>
-----------------------------------------------------------------------------
(* The start: a file that cannot be opened gives an empty buffer, a read   *)
(* error ends the text; NUL bytes are refused.                             *)
Start ==
  /\ mode = "start"
  /\ file' \in BOOLEAN /\ tty' \in BOOLEAN
  /\ \/ /\ disk' \in IF file' THEN {Empty, Whole} ELSE {Empty}
        /\ text' \in IF disk' = Whole THEN {Whole, Part, Empty} ELSE {Empty}
        /\ kept' = text' /\ mode' = "key"
     \/ /\ file' /\ mode' = "exited"
        /\ disk' = Whole /\ UNCHANGED <<text, kept>>
  /\ UNCHANGED <<prefix, input, modified, edits, faults>>

EditBuffer ==
  /\ edits' = IF edits < EditMax THEN edits + 1 ELSE edits
  /\ \/ edits < EditMax /\ text' = edits' /\ modified' = TRUE
     \/ UNCHANGED <<text, modified>>
  /\ UNCHANGED <<disk, kept, faults>>

(* save_buffer, and write-file under it: "wb" empties the file; fclose is  *)
(* not asked whether it could write.                                       *)
(* Slip: the flag is cleared before the write.                             *)
SaveBufferEarly ==
  \/ ~file /\ UNCHANGED bufferVars
  \/ /\ file /\ disk' \in {disk, Part, text} /\ modified' = FALSE
     /\ kept' = text /\ UNCHANGED <<text, edits, faults>>

SaveBuffer ==
  \/ ~file /\ UNCHANGED bufferVars
  \/ file /\ UNCHANGED bufferVars                     \* no memory, or fopen fails
  \/ /\ file /\ disk' = Part                          \* short write
     /\ faults' = IF modified THEN faults ELSE faults \cup {"torn"}
     /\ UNCHANGED <<text, modified, edits, kept>>
  \/ /\ file /\ disk' = Part /\ modified' = FALSE      \* nor could the rest be flushed
     /\ kept' = text /\ faults' = faults \cup {"torn"}
     /\ UNCHANGED <<text, edits>>
  \/ /\ file /\ disk' = text /\ modified' = FALSE
     /\ kept' = text /\ faults' = faults \ {"torn"}
     /\ UNCHANGED <<text, edits>>

(* confirm_quit.                                                           *)
(* Slip: it asks about the file on disk.                                   *)
ConfirmIfFile ==
  /\ prefix' = <<>>
  /\ mode' = IF modified /\ file THEN "confirm" ELSE "exited"
  /\ UNCHANGED bufferVars

ConfirmQuit ==
  /\ prefix' = <<>>
  /\ \/ mode' = (IF modified THEN "confirm" ELSE "exited") /\ UNCHANGED bufferVars
     \/ /\ mode' = "exited"                           \* the query fails
        /\ faults' = faults \cup {"query"}
        /\ UNCHANGED <<disk, text, modified, edits, kept>>
-----------------------------------------------------------------------------
(* norm_key and the prefix keys: whether a sequence asks for one more byte. *)
PrefixKeys == {<<>>, <<"C-x">>, <<"C-h">>, <<"C-h", "k">>}

Continues(keys) ==
  keys # <<>> /\ \E p \in PrefixKeys : keys \in {p, Append(p, "ESC"), p \o <<"ESC", "[">>}

(* What a key, or a whole sequence, does under the default bindings.       *)
Verbs == {<<g>> : g \in Graphic} \cup {<<"DEL">>, <<"RET">>, <<"C-x", "u">>}

Command(keys) ==
  CASE keys \in Verbs             -> EditBuffer /\ mode' = mode
    [] keys = <<"C-x", "C-s">>    -> SaveBuffer /\ mode' = mode
    [] keys = <<"C-x", "C-c">>    -> ConfirmQuit
    [] keys = <<"C-s">>           -> mode' = "search" /\ UNCHANGED bufferVars
    [] keys = <<Eof>>             -> mode' = "exited" /\ UNCHANGED bufferVars
    [] OTHER                      -> UNCHANGED <<mode, bufferVars>>

Key(c) ==
  LET keys == Append(prefix, c)
  IN IF Continues(keys)
       THEN prefix' = keys /\ UNCHANGED <<mode, bufferVars>>
       ELSE prefix' = <<>> /\ Command(keys)

(* Slip: the end of the input is one more key to ignore.                   *)
ConfirmIgnoringEof(c) ==
  /\ mode' = IF c \in {"y", "n"} THEN "exited" ELSE IF c = "C-g" THEN "key" ELSE "confirm"
  /\ IF c = "y" THEN SaveBuffer ELSE UNCHANGED bufferVars

Confirm(c) ==
  /\ mode' = IF c \in {"y", "n", Eof} THEN "exited" ELSE IF c = "C-g" THEN "key" ELSE "confirm"
  /\ IF c = "y" THEN SaveBuffer ELSE UNCHANGED bufferVars

(* isearch moves the point only.                                           *)
Isearch(c) ==
  /\ mode' = IF c \in Graphic \cup {"C-s", "DEL", "C-h"} THEN "search" ELSE "key"
  /\ UNCHANGED bufferVars

Handle(c) ==
  \/ mode = "key" /\ Key(c)
  \/ mode = "confirm" /\ Confirm(c) /\ UNCHANGED prefix
  \/ mode = "search" /\ Isearch(c) /\ UNCHANGED prefix

ReadByte ==
  /\ input = "open"
  /\ \E c \in Bytes : ~(tty /\ c \in TakenByTty) /\ Handle(c)
  /\ UNCHANGED <<input, tty, file>>

ReadEof == input = "closed" /\ Handle(Eof) /\ UNCHANGED <<input, tty, file>>

(* C-c at a terminal is SIGINT, which nothing catches.                     *)
Interrupt ==
  /\ input = "open" /\ tty /\ mode \in {"key", "confirm", "search"}
  /\ mode' = "exited" /\ prefix' = <<>>
  /\ UNCHANGED <<input, tty, file, bufferVars>>

(* A timer thunk may edit the buffer; timers wait while a key is read.     *)
IdleTick ==
  /\ mode = "key" /\ prefix = <<>>
  /\ EditBuffer
  /\ UNCHANGED <<mode, prefix, input, tty, file>>

CloseInput == input = "open" /\ input' = "closed" /\ UNCHANGED <<mode, prefix, tty, file, bufferVars>>

NemacsInit ==
  /\ mode = "start" /\ prefix = <<>> /\ input = "open" /\ tty = FALSE /\ file = FALSE
  /\ disk = Empty /\ text = Empty /\ modified = FALSE /\ edits = 0 /\ kept = Empty
  /\ faults = {}

NemacsNext == Start \/ ReadByte \/ ReadEof \/ Interrupt \/ IdleTick \/ CloseInput

NemacsSpec ==
  NemacsInit /\ [][NemacsNext]_nemacsVars /\ WF_nemacsVars(Start) /\ WF_nemacsVars(ReadEof)
-----------------------------------------------------------------------------
(* The editor does not exit with edits that were not saved unless its      *)
(* question was on the screen or the input has ended.  It asks on the      *)
(* answer of an evaluation, and takes one that fails for no; and it has no *)
(* say when the terminal kills it.                                         *)
SilentExit == mode \in {"key", "search"} /\ mode' = "exited" /\ text # kept

QuitIsAsked == [][SilentExit => input = "closed" \/ "query" \in faults' \/ tty]_nemacsVars

(* C-x C-c prompts before discarding unsaved edits.                        *)
QuitKeyAsks ==
  [][SilentExit /\ prefix = <<"C-x">> => input = "closed" \/ "query" \in faults']_nemacsVars

(* A buffer that is not marked modified since it was written is what the   *)
(* file holds, unless a write failed that the flag does not tell of: the   *)
(* flush that nobody asked about, or a further save of a clean buffer.     *)
CleanIsOnDisk == (file /\ ~modified /\ text > Whole) => text = disk \/ "torn" \in faults

(* The end of the input ends the editor, whatever it was waiting for.      *)
EofEnds == input = "closed" ~> mode = "exited"

NemacsTypeOK ==
  /\ mode \in {"start", "key", "confirm", "search", "exited"} /\ modified \in BOOLEAN
  /\ {text, disk, kept} \subseteq Empty..EditMax
=============================================================================
