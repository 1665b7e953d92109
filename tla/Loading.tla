------------------------------- MODULE Loading -------------------------------
(***************************************************************************)
(* A program in several files: kec build makes one of them (main.c,        *)
(* bundle_forms), kec run evaluates them (kec.c, load, require, provide).  *)
(* The model builds a program, then runs it.                               *)
(*                                                                         *)
(* A path is the sequence of its components, a file the sequence of its    *)
(* forms.  A form is a load, require or provide, a load inside try, one    *)
(* that cannot be parsed, or any other, which counts as plain.             *)
(***************************************************************************)
EXTENDS Integers, Sequences, FiniteSets, SequencesExt

CONSTANTS
  FileSystems,    \* functions from the paths that exist to their contents
  Main,           \* the path given to build and to run
  GuardMax,       \* KEC_GUARD_MAX
  BuildDepthMax   \* BUILD_LOAD_DEPTH_MAX

(* 16 and 32 in the code: what can be built can be loaded.                 *)
ASSUME LoadingAssumption ==
  /\ GuardMax \in Nat \ {0} /\ BuildDepthMax \in Nat /\ BuildDepthMax < GuardMax
  /\ \A files \in FileSystems : \A f \in DOMAIN files :
       files[f] \in Seq([op : STRING, name : Seq(STRING)])

VARIABLES
  fs,        \* the file system
  stage,     \* "build", "run", "done"
  frames,    \* the C stack: bundle_forms; run_forms, eval_file_or_error, h_try
  raised,    \* an error, or the 1 of bundle_forms, is on its way down
  open,      \* the FILEs that are open, in the order of opening
  dirs,      \* S->load_dir
  provided, required,
  built,     \* "no", "ok", "failed"
  out,       \* the bundle
  ran,       \* history: the plain forms that were evaluated
  faulty     \* history: an error was raised

loadVars == <<fs, stage, frames, raised, open, dirs, provided, required, built, out, ran, faulty>>

dir_of(path) == Front(path)

Frame(path, by) == [path |-> path, pos |-> 1, by |-> by]

Innermost     == Last(frames)
AtEnd   == Innermost.pos > Len(fs[Innermost.path])
Form    == fs[Innermost.path][Innermost.pos]
Place   == <<Innermost.path, Innermost.pos>>
Working == frames # <<>> /\ ~raised

Stepped == [frames EXCEPT ![Len(frames)].pos = @ + 1]

Continue == frames' = Stepped /\ UNCHANGED <<open, dirs>>

Enter(path, by) ==
  /\ frames' = Append(Stepped, Frame(path, by))
  /\ open' = Append(open, path)

Throw ==
  /\ raised' = TRUE /\ faulty' = TRUE
  /\ UNCHANGED <<frames, open, dirs>>
-----------------------------------------------------------------------------
(* kec build.  Slip: the path as given comes first.                        *)
AsGivenFirst(dir, rel) == IF rel \in DOMAIN fs THEN rel ELSE dir \o rel

BuildPath(dir, rel) == IF dir \o rel \in DOMAIN fs THEN dir \o rel ELSE rel

(* bundle_forms(path, depth): too deep, no such file, or open and go on.   *)
Bundle(path) ==
  IF Len(frames) > BuildDepthMax \/ path \notin DOMAIN fs
    THEN raised' = TRUE /\ UNCHANGED <<frames, open>>
    ELSE Enter(path, "build") /\ UNCHANGED raised

BuildForm ==
  /\ stage = "build" /\ Working /\ ~AtEnd
  /\ \/ /\ Form.op = "load"
        /\ Bundle(BuildPath(dir_of(Innermost.path), Form.name))
        /\ UNCHANGED out
     \/ /\ Form.op \notin {"load", "bad"}
        /\ frames' = Stepped /\ out' = Append(out, Place)
        /\ UNCHANGED <<open, raised>>
  /\ UNCHANGED <<fs, stage, dirs, provided, required, built, ran, faulty>>

(* Both returns of bundle_forms give back the innermost file.              *)
BuildReturn ==
  /\ stage = "build" /\ frames # <<>> /\ (raised \/ AtEnd)
  /\ frames' = Front(frames) /\ open' = Front(open)
  /\ UNCHANGED <<fs, stage, raised, dirs, provided, required, built, out, ran, faulty>>

(* A parse error: longjmp to bundle, which closes what is in open_files.   *)
(* Slip: the file of the frame only.                                       *)
CloseInnermost == open' = Front(open)

CloseAll == open' = <<>>

BuildJump ==
  /\ stage = "build" /\ Working /\ ~AtEnd /\ Form.op = "bad"
  /\ frames' = <<>> /\ CloseAll
  /\ raised' = TRUE
  /\ UNCHANGED <<fs, stage, dirs, provided, required, built, out, ran, faulty>>

(* do_build writes the bundle, if it can; then kec_eval_file opens Main,   *)
(* if it can be read.                                                      *)
BuildDone ==
  /\ stage = "build" /\ frames = <<>>
  /\ built' \in {"failed"} \cup (IF raised THEN {} ELSE {"ok"})
  /\ raised' = FALSE
  /\ IF Main \in DOMAIN fs
       THEN /\ stage' = "run"
            /\ frames' = <<Frame(Main, "run")>> /\ open' = <<Main>> /\ dirs' = <<dir_of(Main)>>
            /\ UNCHANGED faulty
       ELSE stage' = "done" /\ faulty' = TRUE /\ UNCHANGED <<frames, open, dirs>>
  /\ UNCHANGED <<fs, provided, required, out, ran>>
-----------------------------------------------------------------------------
(* kec run.  Every frame holds a guard.                                    *)
GuardsFull == Len(frames) >= GuardMax

resolve_load_path(rel) ==
  LET joined == Last(dirs) \o rel
  IN IF joined \in DOMAIN fs THEN joined ELSE rel

(* eval_file_or_error: open the file, take a guard, enter the directory.   *)
eval_file_or_error(path, by) ==
  IF path \notin DOMAIN fs \/ GuardsFull
    THEN Throw
    ELSE Enter(path, by) /\ dirs' = Append(dirs, dir_of(path)) /\ UNCHANGED <<raised, faulty>>

Running(op) == stage = "run" /\ Working /\ Innermost.by # "try" /\ ~AtEnd /\ Form.op = op

EvalPlain ==
  /\ Running("plain")
  /\ Continue /\ ran' = Append(ran, Place)
  /\ UNCHANGED <<fs, stage, raised, provided, required, built, out, faulty>>

h_load ==
  /\ Running("load")
  /\ eval_file_or_error(resolve_load_path(Form.name), "load")
  /\ UNCHANGED <<fs, stage, provided, required, built, out, ran>>

(* (try (fn () (load name))): a guard, and then the load.                  *)
h_try ==
  /\ Running("try")
  /\ IF GuardsFull
       THEN Throw
       ELSE frames' = Append(Stepped, Frame(Innermost.path, "try")) /\ UNCHANGED <<open, dirs, raised, faulty>>
  /\ UNCHANGED <<fs, stage, provided, required, built, out, ran>>

(* The thunk of the try below Innermost: its form is the one before the frame's. *)
TryLoads ==
  /\ stage = "run" /\ Working /\ Innermost.by = "try" /\ Innermost.pos = 1
  /\ LET outer == frames[Len(frames) - 1]
     IN eval_file_or_error(resolve_load_path(fs[outer.path][outer.pos - 1].name), "load")
  /\ UNCHANGED <<fs, stage, provided, required, built, out, ran>>

h_provide ==
  /\ Running("provide")
  /\ provided' = provided \cup {Form.name} /\ Continue
  /\ UNCHANGED <<fs, stage, raised, required, built, out, ran, faulty>>

(* Slip: only what has been provided counts.                               *)
ProvidedOnly(key) == key \in provided

Loaded(key) == key \in provided \cup required

h_require ==
  /\ Running("require")
  /\ IF Loaded(Form.name)
       THEN Continue /\ UNCHANGED <<raised, faulty>>
       ELSE eval_file_or_error(resolve_load_path(Form.name), "require")
  /\ UNCHANGED <<fs, stage, provided, required, built, out, ran>>

BadForm ==
  /\ Running("bad")
  /\ Throw
  /\ UNCHANGED <<fs, stage, provided, required, built, out, ran>>

(* What a frame gives back when it is left, by its end or by an error.     *)
(* Slip: try starts its thunk again.                                       *)
Retry ==
  /\ frames' = IF Innermost.by = "try" /\ raised THEN [frames EXCEPT ![Len(frames)].pos = 1]
                                           ELSE Front(frames)
  /\ IF Innermost.by = "try" THEN UNCHANGED <<open, dirs>>
       ELSE open' = Front(open) /\ dirs' = Front(dirs)

Leave ==
  /\ frames' = Front(frames)
  /\ IF Innermost.by = "try" THEN UNCHANGED <<open, dirs>>
       ELSE open' = Front(open) /\ dirs' = Front(dirs)

(* The end of a file; require records its key.  The key is the name in the *)
(* form that the frame below has just passed.                              *)
RequiredKey == LET outer == frames[Len(frames) - 1] IN fs[outer.path][outer.pos - 1].name

FileEnds ==
  /\ stage = "run" /\ Working
  /\ IF Innermost.by = "try" THEN Innermost.pos > 1 ELSE AtEnd
  /\ Leave
  /\ required' = IF Innermost.by = "require" THEN required \cup {RequiredKey} ELSE required
  /\ stage' = IF Len(frames) = 1 THEN "done" ELSE stage
  /\ UNCHANGED <<fs, raised, provided, built, out, ran, faulty>>

(* longjmp from guard to guard; a try stops it.                            *)
Unwind ==
  /\ stage = "run" /\ raised
  /\ Leave
  /\ raised' = (Innermost.by # "try" /\ Len(frames) > 1)
  /\ stage' = IF Len(frames) = 1 THEN "done" ELSE stage
  /\ UNCHANGED <<fs, provided, required, built, out, ran, faulty>>
-----------------------------------------------------------------------------
LoadInit ==
  /\ fs \in FileSystems /\ stage = "build"
  /\ IF Main \in DOMAIN fs
       THEN frames = <<Frame(Main, "build")>> /\ open = <<Main>> /\ raised = FALSE
       ELSE frames = <<>> /\ open = <<>> /\ raised = TRUE
  /\ dirs = <<>> /\ provided = {} /\ required = {}
  /\ built = "no" /\ out = <<>> /\ ran = <<>> /\ faulty = FALSE

LoadNext ==
  \/ BuildForm \/ BuildReturn \/ BuildJump \/ BuildDone
  \/ EvalPlain \/ h_load \/ h_try \/ TryLoads \/ h_provide \/ h_require \/ BadForm
  \/ FileEnds \/ Unwind

(* One C thread that nothing holds up.                                     *)
LoadFairness == WF_loadVars(LoadNext)

LoadSpec == LoadInit /\ [][LoadNext]_loadVars /\ LoadFairness
-----------------------------------------------------------------------------
(* How many of the n outermost frames read a file: those of try do not.    *)
Reading(n) == Cardinality({i \in 1..n : frames[i].by # "try"})

Names(f, ops) == {fs[f][i].name : i \in {j \in DOMAIN fs[f] : fs[f][j].op \in ops}}

LoadTypeOK ==
  /\ stage \in {"build", "run", "done"} /\ raised \in BOOLEAN /\ faulty \in BOOLEAN
  /\ built \in {"no", "ok", "failed"}
  /\ Len(frames) <= GuardMax \/ stage = "build"

(* Whatever fails, and wherever it is caught, the open files are those     *)
(* that are still being read: none is leaked by a longjmp over the frames  *)
(* that opened it, and open_files never overflows.  A relative name means  *)
(* the directory of the file it is written in.                             *)
(* (build_read_error, bundle_forms, eval_file_or_error)                    *)
FilesAreThoseBeingRead ==
  /\ Len(open) = Reading(Len(frames))
  /\ \A i \in 1..Len(frames) : frames[i].by # "try" => open[Reading(i)] = frames[i].path
  /\ stage = "build" => Len(open) <= BuildDepthMax + 1 /\ dirs = <<>>
  /\ stage = "run" => Len(dirs) = Len(open) /\ \A i \in 1..Len(open) : dirs[i] = dir_of(open[i])

(* "run and build always bundle the same dependency graph": a bundle holds *)
(* the forms that a run of the program evaluates, in that order.           *)
BundleIsTheProgram ==
  (stage = "done" /\ built = "ok" /\ \A f \in DOMAIN fs : Names(f, {"require", "provide", "try"}) = {})
    => ~faulty /\ ran = out

(* require evaluates a file once: no form of a file that is only ever      *)
(* required runs twice, unless the files require each other, one is known  *)
(* by two names, or one fails (h_require records the name, not the file,   *)
(* and only when the file has ended).                                      *)
FileOf(f, name) == IF dir_of(f) \o name \in DOMAIN fs THEN dir_of(f) \o name ELSE name

Requires(f) == {FileOf(f, name) : name \in Names(f, {"require"})} \cap DOMAIN fs

NamesOf(g) == UNION {{name \in Names(f, {"require"}) : FileOf(f, name) = g} : f \in DOMAIN fs}

Circular == \E C \in SUBSET DOMAIN fs : C # {} /\ \A f \in C : Requires(f) \cap C # {}

Plainly ==
  /\ ~Circular
  /\ \A f \in DOMAIN fs : Names(f, {"load", "try"}) = {}
  /\ \A g \in DOMAIN fs : \A k, l \in NamesOf(g) : k = l

RequiredOnce == Plainly /\ ~faulty => \A i, j \in DOMAIN ran : ran[i] = ran[j] => i = j

(* Every build and every run ends, of files that load each other too.      *)
LoadingEnds == <>(stage = "done")
=============================================================================
