------------------------------ MODULE ReplHost ------------------------------
(***************************************************************************)
(* The input loop of kec repl (main.c, do_repl): lines are collected until *)
(* their parentheses balance, then evaluated together.  fgets hands a line *)
(* over in pieces if it is longer than its buffer, so what is read is a    *)
(* sequence of pieces, of which only those that end a line end with EOL.   *)
(* What is evaluated is what the reader (read_, kernel/fe.c) makes of the  *)
(* text: its rules are not those of paren_delta.                           *)
(***************************************************************************)
EXTENDS Integers, Sequences, SequencesExt

CONSTANTS
  Pieces,    \* what fgets may return: sequences of characters
  PieceMax,  \* bound: the number of pieces
  AccMax     \* sizeof acc - 1

(* fgets stops after an end of line.                                       *)
ASSUME ReplAssumption ==
  /\ PieceMax \in Nat /\ AccMax \in Nat
  /\ Pieces \subseteq Seq(STRING)
  /\ \A piece \in Pieces : \A i \in 1..(Len(piece) - 1) : piece[i] # "nl"

VARIABLES
  acc,        \* the pieces collected for the form that is open
  level,      \* depth
  taken,      \* history: the texts that were evaluated or discarded, in order,
              \* each as the pieces it was made of
  discarded,  \* history: which of them were discarded
  read,       \* history: every piece
  over        \* end of input, or :q

replVars == <<acc, level, taken, discarded, read, over>>

EOL == "nl"

Quit == <<":q", EOL>>
-----------------------------------------------------------------------------
(* One character: strings, comments and escapes inside strings.            *)
ScanStart == [depth |-> 0, instr |-> FALSE, escaped |-> FALSE, comment |-> FALSE]

Scan(st, c) ==
  IF st.comment THEN st
  ELSE IF st.escaped THEN [st EXCEPT !.escaped = FALSE]
  ELSE IF st.instr THEN [st EXCEPT !.escaped = (c = "backslash"), !.instr = (c # "quote")]
  ELSE [st EXCEPT !.comment = (c = ";"), !.instr = (c = "quote"),
                  !.depth = @ + (CASE c = "(" -> 1 [] c = ")" -> -1 [] OTHER -> 0)]

(* Slip: what is in a comment counts.                                      *)
ScanComments(st, c) == [Scan(st, c) EXCEPT !.comment = FALSE]

ScanChar(st, c) == Scan(st, c)

paren_delta(piece) == FoldLeft(ScanChar, ScanStart, piece).depth

Size(pieces) == Len(FlattenSeq(pieces))

TooLong(piece) == Size(acc) + Len(piece) > AccMax

(* One round of the loop: collect, or evaluate, whose errors are printed.  *)
(* Either way what was collected is taken, and nothing is left of it.      *)
Take(piece) ==
  /\ taken' = Append(taken, Append(acc, piece))
  /\ acc' = <<>> /\ level' = 0

Collect(piece) ==
  /\ acc' = Append(acc, piece) /\ level' = level + paren_delta(piece)
  /\ UNCHANGED taken

ReadPiece(piece) ==
  /\ ~over /\ Len(read) < PieceMax
  /\ ~(level = 0 /\ piece = Quit) /\ ~TooLong(piece)
  /\ read' = Append(read, piece)
  /\ IF level + paren_delta(piece) > 0 THEN Collect(piece) ELSE Take(piece)
  /\ UNCHANGED <<discarded, over>>

(* The piece and what was collected before it are dropped.                 *)
DiscardForm(piece) ==
  /\ ~over /\ Len(read) < PieceMax
  /\ ~(level = 0 /\ piece = Quit) /\ TooLong(piece)
  /\ read' = Append(read, piece)
  /\ Take(piece) /\ discarded' = discarded \cup {Len(taken) + 1}
  /\ UNCHANGED over

Stop ==
  /\ ~over /\ over' = TRUE
  /\ UNCHANGED <<acc, level, taken, discarded, read>>
-----------------------------------------------------------------------------
ReplInit ==
  /\ acc = <<>> /\ level = 0 /\ taken = <<>> /\ discarded = {} /\ read = <<>>
  /\ over = FALSE

ReplNext == (\E piece \in Pieces : ReadPiece(piece) \/ DiscardForm(piece)) \/ Stop

ReplSpec == ReplInit /\ [][ReplNext]_replVars
-----------------------------------------------------------------------------
(***************************************************************************)
(* What the reader makes of a text: what it is in the middle of, how many  *)
(* lists are open, whether a form must follow (behind a quote, or behind   *)
(* the dot of a pair).  It is spoilt when it has failed ("stray ')'"), and *)
(* where it reads something else than a line of its own: a quote within an *)
(* atom is part of it and starts no string, a lone CR ends a comment.      *)
(***************************************************************************)
AtRest == [in |-> "nothing", depth |-> 0, due |-> FALSE, spoilt |-> FALSE]

Blanks == {" ", EOL, "cr"}
Enders == Blanks \cup {"(", ")", ";", "backtick"}   \* backquote and comma

Meets(st, c) ==
  CASE c \in Blanks     -> [st EXCEPT !.in = "nothing"]
    [] c = ";"          -> [st EXCEPT !.in = "comment"]
    [] c = "("          -> [st EXCEPT !.in = "nothing", !.depth = @ + 1, !.due = FALSE]
    [] c = ")"          -> IF st.depth = 0 \/ st.due THEN [st EXCEPT !.spoilt = TRUE]
                           ELSE [st EXCEPT !.in = "nothing", !.depth = @ - 1]
    [] c = "quote"      -> [st EXCEPT !.in = "string", !.due = FALSE]
    [] c \in {"tick", "backtick"} -> [st EXCEPT !.in = "nothing", !.due = TRUE]
    [] c = "." /\ ~st.due /\ st.depth > 0 -> [st EXCEPT !.in = "dot"]
    [] OTHER            -> [st EXCEPT !.in = "atom", !.due = FALSE]

InAtom(st, c) ==
  CASE c = "quote"   -> [st EXCEPT !.spoilt = TRUE]
    [] c \in Enders  -> Meets([st EXCEPT !.due = (st.in = "dot")], c)
    [] OTHER         -> [st EXCEPT !.in = "atom"]

InString(st, c) ==
  [st EXCEPT !.in = IF st.in = "escaped" THEN "string" ELSE IF c = "backslash" THEN "escaped"
                    ELSE IF c = "quote" THEN "nothing" ELSE "string"]

InComment(st, c) ==
  [st EXCEPT !.in = IF c = EOL THEN "nothing" ELSE @, !.spoilt = (c = "cr")]

ReadChar(st, c) ==
  IF st.spoilt THEN st
  ELSE CASE st.in = "nothing"              -> Meets(st, c)
         [] st.in \in {"atom", "dot"}       -> InAtom(st, c)
         [] st.in \in {"string", "escaped"} -> InString(st, c)
         [] st.in = "comment"              -> InComment(st, c)

Parsed(pieces) == FoldLeft(ReadChar, AtRest, FlattenSeq(pieces))

Prefix(s, n) == SubSeq(s, 1, n)

(* A text that the loop was made for: no piece ends inside a string or a   *)
(* comment, nor in the middle of a form that is not a list; and nothing    *)
(* spoils it.                                                              *)
LineByLine(pieces) ==
  \A n \in 1..Len(pieces) :
    LET st == Parsed(Prefix(pieces, n))
    IN /\ ~st.spoilt /\ st.in \in {"nothing", "atom", "dot"}
       /\ st.depth = 0 => st = AtRest

(* What is evaluated is whole forms, and it is evaluated with the line     *)
(* that completes them: by the reader's rules, not by those of paren_delta.*)
(* Every piece is evaluated or discarded, once and in order.               *)
FormsAreWhole ==
  /\ \A k \in DOMAIN taken \ discarded :
       LET s == taken[k]
       IN LineByLine(s) =>
            /\ Parsed(s) = AtRest
            /\ \A n \in 1..(Len(s) - 1) : Parsed(Prefix(s, n)).depth > 0
  /\ FlattenSeq(taken) \o acc = read

(* tests/cli/repl-overflow.sh: "A REPL form larger than the input          *)
(* accumulator must be discarded WHOLE".  Nothing is evaluated before the  *)
(* form that was discarded is closed.                                      *)
WholeFormIsDiscarded ==
  \A k \in discarded : \A m \in DOMAIN taken \ discarded :
    k < m =>
      LET s == FlattenSeq(SubSeq(taken, k, m - 1))
      IN \E n \in Len(taken[k])..Len(s) : Parsed(Prefix(s, n)).depth = 0
=============================================================================
