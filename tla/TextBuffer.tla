----------------------------- MODULE TextBuffer -----------------------------
(***************************************************************************)
(* The text buffer of the editor (editor/32-text.lsp): a zipper of lines   *)
(* around the point, undo and redo stacks of inverse edits that coalesce,  *)
(* a mark that is a plain position, a kill ring.                           *)
(*                                                                         *)
(* A line is a sequence of characters; each character that is typed is a   *)
(* new one.  The lists of the code that grow at their head are sequences   *)
(* that grow at their end.  Rows and columns count from 0.                 *)
(***************************************************************************)
EXTENDS Integers, Sequences, SequencesExt

CONSTANTS
  Contents,     \* what text-open is given: sequences of lines
  UndoCap,      \* %text-undo-cap
  CoalesceCap,  \* %text-coalesce-cap
  KillCap,      \* %text-kill-cap
  CommandMax,   \* bound: commands other than motion
  StaleMarks    \* whether a region is used whose mark is no longer in the text

NL == 0

ASSUME TextAssumption ==
  /\ Contents \subseteq Seq(Seq(Nat \ {NL})) \ {<<>>}   \* what string-split on newlines gives
  /\ {UndoCap, CoalesceCap, KillCap, CommandMax} \subseteq Nat /\ StaleMarks \in BOOLEAN

VARIABLES
  b,        \* the buffer
  commands  \* how many there have been

textVars == <<b, commands>>

NoMark == <<>>

AtMost(m, n) == IF m < n THEN m ELSE n

(* substring clamps both ends. *)
substring(s, from, to) == SubSeq(s, from + 1, AtMost(to, Len(s)))

Lines(x)  == x.above \o <<x.cur>> \o x.below
row(x)    == Len(x.above)
Join(ls)  == Head(ls) \o FlattenSeq([i \in 1..(Len(ls) - 1) |-> <<NL>> \o ls[i + 1]])
Text(x)   == Join(Lines(x))

(* string-split on newlines: at least one line. *)
SplitChar(ls, c) ==
  IF c = NL THEN Append(ls, <<>>) ELSE [ls EXCEPT ![Len(ls)] = Append(@, c)]

Split(s) == FoldLeft(SplitChar, <<(<<>>)>>, s)

Take(s, n) == SubSeq(s, Len(s) - AtMost(n, Len(s)) + 1, Len(s))
-----------------------------------------------------------------------------
(* Motion.                                                                 *)
SetCol(x, c) == [x EXCEPT !.col = c, !.goal = c]

FromGoal(x) == [x EXCEPT !.col = AtMost(x.goal, Len(x.cur))]

NextLine(x) ==
  IF x.below = <<>> THEN x
  ELSE FromGoal([x EXCEPT !.above = Append(@, x.cur), !.cur = Head(x.below), !.below = Tail(@)])

PrevLine(x) ==
  IF x.above = <<>> THEN x
  ELSE FromGoal([x EXCEPT !.below = <<x.cur>> \o @, !.cur = Last(x.above), !.above = Front(@)])

Forward(x) ==
  IF x.col < Len(x.cur) THEN SetCol(x, x.col + 1)
  ELSE IF x.below # <<>> THEN SetCol(NextLine(x), 0) ELSE x

Backward(x) ==
  IF x.col > 0 THEN SetCol(x, x.col - 1)
  ELSE IF x.above # <<>> THEN LET y == PrevLine(x) IN SetCol(y, Len(y.cur)) ELSE x

(* text-goto!: from the beginning, down as many lines as there are.        *)
Goto(x, r, c) ==
  LET ls == Lines(x)
      k  == AtMost(r, Len(ls) - 1) + 1
  IN SetCol([x EXCEPT !.above = SubSeq(ls, 1, k - 1), !.cur = ls[k],
                      !.below = SubSeq(ls, k + 1, Len(ls))], AtMost(c, Len(ls[k])))

LineStart(x) == SetCol(x, 0)
LineEnd(x)   == SetCol(x, Len(x.cur))
TextStart(x) == Goto(x, 0, 0)
TextEnd(x)   == LineEnd(Goto(x, Len(Lines(x)), 0))
-----------------------------------------------------------------------------
(* The raw mutators.  %text-mark! makes the buffer dirty and moves the     *)
(* goal column to the point.                                               *)
(* Slip: it only moves the goal column.                                    *)
EditedQuietly(x) == [x EXCEPT !.goal = x.col]

Edited(x) == [x EXCEPT !.modified = TRUE, !.goal = x.col]

RawInsert(x, s) ==
  Edited([x EXCEPT !.cur = substring(@, 0, x.col) \o s \o substring(@, x.col, Len(@)),
                   !.col = @ + Len(s)])

RawNewline(x) ==
  Edited([x EXCEPT !.above = Append(@, substring(x.cur, 0, x.col)),
                   !.cur = substring(@, x.col, Len(@)), !.col = 0])

RawBackspace(x) ==
  IF x.col > 0
    THEN Edited([x EXCEPT !.cur = substring(@, 0, x.col - 1) \o substring(@, x.col, Len(@)),
                          !.col = @ - 1])
  ELSE IF x.above = <<>> THEN x
  ELSE Edited([x EXCEPT !.above = Front(@), !.cur = Last(x.above) \o @,
                        !.col = Len(Last(x.above))])

RawDelete(x) ==
  IF x.col < Len(x.cur)
    THEN Edited([x EXCEPT !.cur = substring(@, 0, x.col) \o substring(@, x.col + 1, Len(@))])
  ELSE IF x.below = <<>> THEN x
  ELSE Edited([x EXCEPT !.below = Tail(@), !.cur = @ \o Head(x.below)])

InsertLine(x, part) == RawInsert(RawNewline(x), part)

RawInsertString(x, s) ==
  LET parts == Split(s) IN FoldLeft(InsertLine, RawInsert(x, Head(parts)), Tail(parts))

DeleteOnce(x, i) == RawDelete(x)

RawDeleteForward(x, k) == FoldLeft(DeleteOnce, x, [i \in 1..k |-> i])
-----------------------------------------------------------------------------
(* Undo records: delete, or insert again, txt at a position.  The field    *)
(* was is history: the text before the edit.                               *)
Rec(x, op, r, c, txt) == [op |-> op, row |-> r, col |-> c, txt |-> txt, was |-> Text(x)]

Record(x, rec) == [x EXCEPT !.undo = Take(Append(@, rec), UndoCap), !.redo = <<>>]

ReplaceTop(x, rec) == [x EXCEPT !.undo = Append(Front(@), rec), !.redo = <<>>]

(* The top record, if an edit on this line may extend it.                  *)
Extends(x, op, r) ==
  /\ x.undo # <<>>
  /\ LET top == Last(x.undo) IN top.op = op /\ top.row = r /\ Len(top.txt) < CoalesceCap

(* %text-record-del!: a backspace prepends, a delete appends.              *)
(* Slip: any deletion on the line appends.                                 *)
RecordDelAppending(x, r, c, ch) ==
  IF Extends(x, "ins", r)
    THEN LET top == Last(x.undo) IN ReplaceTop(x, [top EXCEPT !.txt = @ \o ch])
    ELSE Record(x, Rec(x, "ins", r, c, ch))

RecordDel(x, r, c, ch) ==
  LET top == Last(x.undo)
  IN IF Extends(x, "ins", r) /\ c + 1 = top.col
       THEN ReplaceTop(x, [top EXCEPT !.col = c, !.txt = ch \o @])
     ELSE IF Extends(x, "ins", r) /\ c = top.col
       THEN ReplaceTop(x, [top EXCEPT !.txt = @ \o ch])
     ELSE Record(x, Rec(x, "ins", r, c, ch))

Insert(x, s) ==
  LET top == Last(x.undo)
  IN RawInsert(IF Extends(x, "del", row(x)) /\ top.col + Len(top.txt) = x.col
                 THEN ReplaceTop(x, [top EXCEPT !.txt = @ \o s])
                 ELSE Record(x, Rec(x, "del", row(x), x.col, s)), s)

Newline(x) == RawNewline(Record(x, Rec(x, "del", row(x), x.col, <<NL>>)))

Backspace(x) ==
  IF x.col > 0
    THEN RawBackspace(RecordDel(x, row(x), x.col - 1, substring(x.cur, x.col - 1, x.col)))
  ELSE IF x.above = <<>> THEN x
  ELSE RawBackspace(Record(x, Rec(x, "ins", row(x) - 1, Len(Last(x.above)), <<NL>>)))

Delete(x) ==
  IF x.col < Len(x.cur)
    THEN RawDelete(RecordDel(x, row(x), x.col, substring(x.cur, x.col, x.col + 1)))
  ELSE IF x.below = <<>> THEN x
  ELSE RawDelete(Record(x, Rec(x, "ins", row(x), x.col, <<NL>>)))

(* %text-apply-record!, and the inverse that it returns.                   *)
Apply(x, rec) ==
  LET y == Goto(x, rec.row, rec.col)
  IN IF rec.op = "ins" THEN RawInsertString(y, rec.txt) ELSE RawDeleteForward(y, Len(rec.txt))

Opposite(x, rec) == [rec EXCEPT !.op = IF @ = "ins" THEN "del" ELSE "ins", !.was = Text(x)]

Undo(x) ==
  IF x.undo = <<>> THEN x
  ELSE LET rec == Last(x.undo)
       IN Apply([x EXCEPT !.undo = Front(@), !.redo = Append(@, Opposite(x, rec))], rec)

Redo(x) ==
  IF x.redo = <<>> THEN x
  ELSE LET rec == Last(x.redo)
       IN Apply([x EXCEPT !.redo = Front(@), !.undo = Append(@, Opposite(x, rec))], rec)
-----------------------------------------------------------------------------
(* Mark, region, kill ring.                                                *)
SetMark(x) == [x EXCEPT !.mark = <<row(x), x.col>>]

KillPush(x, s) == [x EXCEPT !.kill = Take(Append(@, s), KillCap)]

Before(p, q) == p[1] < q[1] \/ (p[1] = q[1] /\ p[2] <= q[2])

(* %text-span-string: rows are clamped, columns by substring.              *)
Span(x, p, q) ==
  LET ls == Lines(x)
      sr == AtMost(p[1], Len(ls) - 1) + 1
      er == AtMost(q[1], Len(ls) - 1) + 1
  IN IF sr = er THEN substring(ls[sr], p[2], q[2])
     ELSE Join(<<substring(ls[sr], p[2], Len(ls[sr]))>> \o SubSeq(ls, sr + 1, er - 1)
                 \o <<substring(ls[er], 0, q[2])>>)

Region(x) ==
  LET point == <<row(x), x.col>>
      from  == IF Before(x.mark, point) THEN x.mark ELSE point
      to    == IF Before(x.mark, point) THEN point ELSE x.mark
  IN [from |-> from, txt |-> Span(x, from, to)]

KillRegion(x) ==
  LET rg == Region(x)
      y  == Record(KillPush(x, rg.txt), Rec(x, "ins", rg.from[1], rg.from[2], rg.txt))
  IN [RawDeleteForward(Goto(y, rg.from[1], rg.from[2]), Len(rg.txt)) EXCEPT !.mark = NoMark]

KillRingSave(x) == [KillPush(x, Region(x).txt) EXCEPT !.mark = NoMark]

KillLine(x) ==
  LET kill(txt) == RawDeleteForward(Record(KillPush(x, txt), Rec(x, "ins", row(x), x.col, txt)), Len(txt))
  IN IF x.col < Len(x.cur) THEN kill(substring(x.cur, x.col, Len(x.cur)))
     ELSE IF x.below # <<>> THEN kill(<<NL>>) ELSE x

Yank(x) ==
  IF x.kill = <<>> THEN x
  ELSE LET y == Record(x, Rec(x, "del", row(x), x.col, Last(x.kill)))
       IN RawInsertString([y EXCEPT !.mark = <<row(x), x.col>>], Last(x.kill))

(* text-search-move!: the first match at or after a position.              *)
Matches(x, s, r, c) ==
  {p \in (0..Len(Lines(x)) - 1) \X (0..Len(Text(x))) :
     LET line == Lines(x)[p[1] + 1]
     IN /\ Before(<<r, c>>, p) /\ p[2] + Len(s) <= Len(line)
        /\ substring(line, p[2], p[2] + Len(s)) = s}

SearchMove(x, s, r, c) ==
  LET ms == Matches(x, s, r, c)
  IN IF ms = {} THEN x
     ELSE LET m == CHOOSE p \in ms : \A q \in ms : Before(p, q)
          IN Goto([x EXCEPT !.mark = m], m[1], m[2] + Len(s))
-----------------------------------------------------------------------------
Open(ls) ==
  [above |-> <<>>, cur |-> Head(ls), below |-> Tail(ls), col |-> 0, goal |-> 0,
   modified |-> FALSE, undo |-> <<>>, redo |-> <<>>, mark |-> NoMark, kill |-> <<>>]

TextInit == \E ls \in Contents : b = Open(ls) /\ commands = 0

Move ==
  /\ b' \in {NextLine(b), PrevLine(b), Forward(b), Backward(b), LineStart(b), LineEnd(b),
             TextStart(b), TextEnd(b)}
  /\ UNCHANGED commands

(* The command b' = x.  A typed character is a new one.                    *)
Do(x) == commands < CommandMax /\ commands' = commands + 1 /\ b' = x

Edit ==
  Do(Insert(b, <<commands + 1>>)) \/ Do(Newline(b)) \/ Do(Backspace(b)) \/ Do(Delete(b))
    \/ Do(KillLine(b)) \/ Do(Yank(b))

InText(p) == p[1] < Len(Lines(b)) /\ p[2] <= Len(Lines(b)[p[1] + 1])

UseRegion ==
  /\ b.mark # NoMark /\ (InText(b.mark) \/ StaleMarks)
  /\ Do(KillRegion(b)) \/ Do(KillRingSave(b))

Search == \E ch \in 1..CommandMax : Do(SearchMove(b, <<ch>>, row(b), b.col))

MarkSaved == Do([b EXCEPT !.modified = FALSE])

TextNext ==
  Move \/ Search \/ Edit \/ UseRegion \/ MarkSaved \/ Do(SetMark(b)) \/ Do(Undo(b)) \/ Do(Redo(b))

TextSpec == TextInit /\ [][TextNext]_textVars
-----------------------------------------------------------------------------
WasBefore(records) == [n \in DOMAIN records |-> records[n].was]

History == INSTANCE UndoHistory
  WITH text <- Text(b), past <- WasBefore(b.undo), future <- WasBefore(b.redo)

(* Undo brings back the text before the last edit, redo the text before    *)
(* the undo, and an edit changes nothing that earlier undos will bring     *)
(* back: although records hold positions, not texts, and are merged.       *)
Undoing == History!Spec

(* No command changes the text of a buffer and leaves it clean: the quit   *)
(* guard of the editor asks only for a buffer that is marked modified.     *)
ChangesAreMarked == [][Text(b') # Text(b) => b'.modified]_textVars

TextTypeOK ==
  /\ b.col \in 0..Len(b.cur) /\ b.goal \in Nat /\ b.modified \in BOOLEAN
  /\ Len(b.undo) <= UndoCap /\ Len(b.kill) <= KillCap
=============================================================================
