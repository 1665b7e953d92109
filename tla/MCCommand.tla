------------------------------ MODULE MCCommand ------------------------------
(***************************************************************************)
(* What the command reads: the reader itself, programs in several files,   *)
(* the lines of a dialogue; and the collector under it all.  Four models   *)
(* without common state, explored one at a time.                           *)
(***************************************************************************)
EXTENDS MCFeCollector, MCReader, Loading, MCRepl

VARIABLE focus

commandVars == <<vars, readerVars, loadVars, replVars, focus>>

form(op, name) == [op |-> op, name |-> name]
X  == <<"x">>
SX == <<"s", "x">>
P  == form("plain", X)

MCMain == <<"t", "m">>

(* Two forms in the program's own file; up to three more files, each of    *)
(* which may be missing.  Once, the program's own file is.                 *)
MainForms == {form(op, n) : op \in {"load", "require", "try"}, n \in {X, SX}}
               \cup {P, form("bad", X), form("provide", X)}

Beside == {<<P>>, <<form("bad", X)>>, <<form("load", X)>>, <<form("require", SX), P>>, <<form("provide", X), P>>,
           <<form("try", X)>>}
Under  == {<<P>>, <<form("bad", X)>>, <<form("load", X), P>>, <<form("require", X), P>>}
AtCwd  == {<<>>, <<P>>, <<form("require", SX)>>}

Missing == <<form("missing", X)>>

MCFileSystem(main, beside, below, cwd) ==
  (MCMain :> main)
  @@ (IF beside = Missing THEN <<>> ELSE <<"t", "x">> :> beside)
  @@ (IF below = Missing THEN <<>> ELSE <<"t", "s", "x">> :> below)
  @@ (IF cwd = Missing THEN <<>> ELSE X :> cwd)

MCFileSystems ==
  {MCFileSystem(<<m, n>>, b, c, d) : m \in MainForms, n \in MainForms,
     b \in Beside \cup {Missing}, c \in Under \cup {Missing}, d \in AtCwd \cup {Missing}}
  \cup {X :> <<P>>}

(* Loading is explored from every file system, the collector from every    *)
(* heap, the others from one.                                              *)
OneFileSystem == fs = MCFileSystem(<<P, P>>, Missing, Missing, Missing)

OneHeap ==
  /\ heap = [c \in Cells |-> [type |-> "number", car |-> Nil, cdr |-> Nil]]
  /\ roots = <<Nil>>

CommandInit ==
  /\ \/ focus = "collector" /\ OneFileSystem
     \/ focus \in {"reader", "repl"} /\ OneFileSystem /\ OneHeap
     \/ focus = "loading" /\ OneHeap
  /\ ReaderInit /\ LoadInit /\ ReplInit /\ Init

CommandNext ==
  /\ \/ focus = "collector" /\ Next
     \/ focus # "collector" /\ UNCHANGED vars
  /\ \/ focus = "reader" /\ ReaderNext
     \/ focus # "reader" /\ UNCHANGED readerVars
  /\ \/ focus = "loading" /\ LoadNext
     \/ focus # "loading" /\ UNCHANGED loadVars
  /\ \/ focus = "repl" /\ ReplNext
     \/ focus # "repl" /\ UNCHANGED replVars
  /\ UNCHANGED focus

CommandSpec ==
  CommandInit /\ [][CommandNext]_commandVars
  /\ WF_commandVars(focus \in {"collector", "loading"} /\ CommandNext)

(* CollectionEnds and LoadingEnds, when they are what is explored.         *)
MarkAndSweepEnd == focus = "collector" => CollectionEnds
CommandEnds     == focus = "loading" => LoadingEnds
=============================================================================
