-------------------------------- MODULE Reader --------------------------------
(***************************************************************************)
(* The Fe reader (read_ and fe_read of kernel/fe.c) as its users share it. *)
(* A symbol or number ends at a delimiter that the reader has consumed     *)
(* already; it keeps it in ctx->nextchr, one variable for the whole        *)
(* context, which no error resets.  Readers nest: a form of a program that *)
(* is being read and evaluated may load a file, or read a string of its    *)
(* own.                                                                    *)
(*                                                                         *)
(* Texts are sequences of character classes; quote, strings and dotted     *)
(* pairs, which leave no lookahead of their own behind, are left out.      *)
(***************************************************************************)
EXTENDS Integers, Sequences, SequencesExt

Blank == "_"      \* space, tab, newline: ends a comment as well
None  == ""       \* the NUL that a reader function returns at the end
Delimiters == {Blank, "(", ")", ";"}
Chars == Delimiters \cup {"a"}

CONSTANTS
  Programs,   \* the texts given to kec_eval_string / kec_eval_file
  Texts,      \* those that scripts read: files, strings
  Uses,       \* what scripts read them with: "load", "read-all", "read-string"
  DepthMax    \* bound: how deep readers nest

ASSUME ReaderAssumption ==
  /\ Programs \cup Texts \subseteq Seq(Chars)
  /\ Uses \subseteq {"load", "read-all", "read-string"} /\ DepthMax \in Nat \ {0}

VARIABLES
  nextchr,  \* ctx->nextchr, None when there is none
  stray,    \* history: "none" if it is the innermost reader's own; else how
            \* the reader that left it behind ended, "returned" or "raised"
  readers,  \* the readers in use, innermost last
  last      \* history: did the last fe_read give what it should have, and
            \* the strays that its reader had met

readerVars == <<nextchr, stray, readers, last>>
-----------------------------------------------------------------------------
(***************************************************************************)
(* read_: from the text s, of which p characters are consumed, and the     *)
(* lookahead k; forms are given back as their text.                        *)
(***************************************************************************)
CharAt(s, p)  == IF p < Len(s) THEN s[p + 1] ELSE None
Consume(s, p) == IF p < Len(s) THEN p + 1 ELSE p

(* The first position from p on whose character is in C, or the end.       *)
Find(s, p, C) ==
  CHOOSE q \in p..Len(s) :
    (q = Len(s) \/ s[q + 1] \in C) /\ \A i \in (p + 1)..q : s[i] \notin C

(* What is read so far: the text of the form, the lists that are open.     *)
Starting(p, k) == [tag |-> "reading", form |-> <<>>, open |-> 0, pos |-> p, next |-> k]

Ends(r, tag, p) == [r EXCEPT !.tag = tag, !.form = <<>>, !.pos = p, !.next = None]

Skips(r, p) == [r EXCEPT !.pos = p, !.next = None]

(* An object: in a list, it goes behind a blank.                           *)
Item(r, text) == IF r.open = 0 THEN text ELSE r.form \o <<Blank>> \o text

Opens(r, p) ==
  [r EXCEPT !.form = Item(r, <<"(">>), !.open = @ + 1, !.pos = p, !.next = None]

(* A list ends at its ")" and leaves no lookahead; by a slip, it peeks.     *)
ListAndPeek(s, r, p) ==
  [tag |-> IF r.open = 1 THEN "form" ELSE "reading", form |-> Append(r.form, ")"),
   open |-> r.open - 1, pos |-> Consume(s, p), next |-> CharAt(s, p)]

List(s, r, p) ==
  [tag |-> IF r.open = 1 THEN "form" ELSE "reading", form |-> Append(r.form, ")"),
   open |-> r.open - 1, pos |-> p, next |-> None]

Atom(r, text, p, k) ==
  [tag |-> IF r.open = 0 THEN "form" ELSE "reading", form |-> Item(r, text),
   open |-> r.open, pos |-> p, next |-> k]

(* One call of read_, up to the calls it makes itself: the lookahead or    *)
(* the next character that is not blank decides.                           *)
ReadToken(s, r) ==
  LET chr == IF r.next # None THEN r.next ELSE CharAt(s, r.pos)
      p == IF r.next # None THEN r.pos ELSE Consume(s, r.pos)
      start == Find(s, p, Chars \ {Blank})
      c == IF chr = Blank THEN CharAt(s, start) ELSE chr
      q == IF chr = Blank THEN Consume(s, start) ELSE p
      end == Find(s, q, Delimiters)
  IN CASE c = None -> Ends(r, IF r.open = 0 THEN "eof" ELSE "unclosed", q)
       [] c = ";"  -> Skips(r, Consume(s, Find(s, q, {Blank})))
       [] c = ")"  -> IF r.open = 0 THEN Ends(r, "close", q) ELSE List(s, r, q)
       [] c = "("  -> Opens(r, q)
       [] OTHER    -> Atom(r, <<c>> \o SubSeq(s, q + 1, end), Consume(s, end), CharAt(s, end))

ReadOn(s, r) == IF r.tag = "reading" THEN ReadToken(s, r) ELSE r

(* fe_read: a ")" of its own is an error ("stray ')'").  Of two tokens,    *)
(* one at least consumes a character.                                      *)
Tokens(n) == [i \in 1..n |-> i]

After(s, p, k, n) == FoldLeft(LAMBDA r, i : ReadOn(s, r), Starting(p, k), Tokens(n))

TokenMax(s) == 2 * Len(s) + 2

Read(s, p, k) == After(s, p, k, TokenMax(s))

Failed(r) == r.tag \in {"close", "unclosed"}
-----------------------------------------------------------------------------
(* A reader: who reads, what, how much of it is consumed, whether it is    *)
(* evaluating the form it has read; and (history) where it would be if it  *)
(* had the context to itself, and the strays that it read.                 *)
NewReader(use, s) == [use |-> use, text |-> s, pos |-> 0, busy |-> FALSE,
                      alonePos |-> 0, aloneNext |-> None, met |-> {}]

Top == readers[Len(readers)]
Below == SubSeq(readers, 1, Len(readers) - 1)

Evaluators == {"program", "load"}

(* A public call: run_forms. *)
Begin ==
  /\ readers = <<>>
  /\ \E s \in Programs : readers' = <<NewReader("program", s)>>
  /\ UNCHANGED <<nextchr, stray, last>>

Strayed(how) == stray' = IF nextchr' = None THEN "none" ELSE how

(* An error leaves this reader and any number of others, to a try in a     *)
(* form that is being evaluated or to the public call.                     *)
Unwinds == \E i \in 0..Len(readers) - 1 : readers' = SubSeq(readers, 1, i)

Met == Top.met \cup ({stray} \ {"none"})

(* One fe_read of the innermost reader.  read-string returns the first     *)
(* form; the others go on to the end of their text.  Evaluating an atom    *)
(* runs no code.                                                           *)
ReadForm ==
  /\ readers # <<>>
  /\ LET r == Read(Top.text, Top.pos, nextchr)
         alone == Read(Top.text, Top.alonePos, Top.aloneNext)
     IN /\ nextchr' = r.next
        /\ last' = [own |-> r.tag = alone.tag /\ r.form = alone.form, met |-> Met]
        /\ \/ /\ r.tag = "form" /\ Top.use # "read-string"
              /\ readers' = Append(Below,
                   [Top EXCEPT !.pos = r.pos, !.busy = r.form[1] = "(" /\ Top.use \in Evaluators,
                               !.alonePos = alone.pos, !.aloneNext = alone.next, !.met = Met])
              /\ stray' = "none"
           \/ /\ r.tag = "eof" \/ (r.tag = "form" /\ Top.use = "read-string")
              /\ readers' = Below /\ Strayed("returned")
           \/ Failed(r) /\ Unwinds /\ Strayed("raised")

(* An fe_read that runs out of memory, of roots or of a symbol's length    *)
(* after any of its tokens; or read-all, which keeps the form, or the      *)
(* evaluation of an atom, which may exceed the budget.  A lookahead stays. *)
ReadRaises ==
  /\ readers # <<>>
  /\ \E n \in 1..TokenMax(Top.text) :
       LET r == After(Top.text, Top.pos, nextchr, n)
       IN /\ r.tag = "form" \/ (r.tag = "reading" /\ r.open > 0)
          /\ nextchr' \in {r.next, None}
  /\ Unwinds /\ Strayed("raised")
  /\ UNCHANGED last

(* The form being evaluated starts another reader. *)
Nest ==
  /\ readers # <<>> /\ Top.busy /\ Len(readers) < DepthMax
  /\ \E use \in Uses, s \in Texts : readers' = Append(readers, NewReader(use, s))
  /\ UNCHANGED <<nextchr, stray, last>>

(* The form being evaluated raises. *)
EvalFails ==
  /\ readers # <<>> /\ Top.busy /\ Unwinds
  /\ UNCHANGED <<nextchr, stray, last>>

ReaderInit ==
  /\ nextchr = None /\ stray = "none"
  /\ readers = <<>>
  /\ last = [own |-> TRUE, met |-> {}]

ReaderNext == Begin \/ ReadForm \/ ReadRaises \/ Nest \/ EvalFails

ReaderSpec == ReaderInit /\ [][ReaderNext]_readerVars
-----------------------------------------------------------------------------
ReaderTypeOK ==
  /\ nextchr \in Delimiters \cup {None} /\ stray \in {"none", "returned", "raised"}
  /\ Len(readers) <= DepthMax
  /\ \A i \in 1..Len(readers) :
       readers[i].pos \in 0..Len(readers[i].text) /\ readers[i].use \in Uses \cup {"program"}

(* Whatever was read in between, by whom, and however it ended, a reader   *)
(* gets the forms of its own text, in order, and no error of another's;    *)
(* but for what comes after a lookahead that was left behind: by an error  *)
(* in the middle of a read (fe_error does not reset nextchr), or by        *)
(* read-string, which leaves after one form.  No other end of a reader,    *)
(* and no nesting, makes a difference.                                     *)
ReadersAreIndependent == last.met = {} => last.own

(* A lookahead that is not left behind belongs to the innermost reader, is *)
(* what it read last, and no form that could start another reader is being *)
(* evaluated.                                                              *)
LookaheadIsOwned ==
  nextchr # None /\ stray = "none" =>
    /\ readers # <<>> /\ ~Top.busy
    /\ Top.pos > 0 /\ Top.text[Top.pos] = nextchr

(* docs/language.md: read-string parses "the first s-expression in s and   *)
(* return[s] it as data"; what follows it is no part of any program.  Where*)
(* no read raised, that is.                                                *)
StringsStayApart == "raised" \notin last.met => last.own
=============================================================================
