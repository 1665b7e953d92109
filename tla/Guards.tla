-------------------------------- MODULE Guards --------------------------------
(***************************************************************************)
(* Error recovery in runtime/kec.c: the array of jmp_bufs `recover`, its   *)
(* index `depth`, and what a longjmp must put back: the root stack index,  *)
(* the stack of load directories, the FILE* of each file being loaded, and *)
(* the buffers that host primitives hold while they may raise.             *)
(*                                                                         *)
(* The C stack is the sequence `calls` of the activations that matter: the *)
(* public entry points, try, load/require, and a primitive that holds a    *)
(* registered buffer.  A jmp_buf is the position in `calls` of the         *)
(* activation that called setjmp, or Dead once that activation returned.   *)
(* What scripts and embedders do is free: any call, return or error, at    *)
(* any time.                                                               *)
(***************************************************************************)
EXTENDS Integers, Sequences, FiniteSets

CONSTANTS
  GuardMax,   \* KEC_GUARD_MAX
  RootMax,    \* bound: GCSTACKSIZE, reached by Grow
  CallMax,    \* bound: how deep the calls nest
  Errors,     \* the messages that scripts and primitives raise
  Overflowed, \* "guard stack overflow" and the like
  NoError     \* the empty message

ASSUME GuardsAssumption ==
  /\ GuardMax \in Nat \ {0} /\ RootMax \in Nat /\ CallMax \in Nat
  /\ Overflowed \notin Errors /\ NoError \notin Errors \cup {Overflowed}

VARIABLES
  calls,     \* the activations, innermost last
  recover,   \* S->recover
  depth,     \* S->depth
  dirs,      \* S->load_dirs
  files,     \* the number of open FILE*s
  pending,   \* host->pending_count
  roots,     \* ctx->gcstack_idx
  base,      \* S->gc_base
  errmsg,    \* S->errmsg
  ctl,       \* "run"; "raise" on_error is called; "caught" setjmp returned 1; "closed"
  origin     \* history: the message that the error under way was raised with

vars == <<calls, recover, depth, dirs, files, pending, roots, base, errmsg, ctl, origin>>

Dead == 0

Messages == Errors \cup {Overflowed, NoError}

Kinds == {"open", "string", "file", "check", "try", "load", "buffer"}

(* slot and gc are the locals `slot` and `base` / `gc` of the function.    *)
Activations == [kind : Kinds, slot : 0..GuardMax, gc : 0..RootMax]

Guarding   == Kinds \ {"buffer"}   \* have called setjmp
WithFile   == {"file", "load"}     \* hold a FILE*, have pushed a directory

Top == calls[Len(calls)]

Below == SubSeq(calls, 1, Len(calls) - 1)

Inside(kinds) == calls # <<>> /\ Top.kind \in kinds

(* Inside an evaluation, where scripts run and host primitives are called. *)
Evaluating == ctl = "run" /\ Inside({"string", "file", "try", "load"})

(* Where a public entry point can be called: from outside, or again by an  *)
(* embedder's primitive; kec_open_with_arena uses run_forms for Core.      *)
Callable(kind) ==
  /\ ctl = "run" /\ Len(calls) < CallMax
  /\ calls = <<>> \/ Evaluating \/ (kind = "string" /\ Inside({"open"}))

(* Slip: depth is not raised. *)
InstallOnly(kind, gc) ==
  /\ calls' = Append(calls, [kind |-> kind, slot |-> depth, gc |-> gc])
  /\ recover' = [recover EXCEPT ![depth] = Len(calls) + 1]
  /\ UNCHANGED depth

(* setjmp(S->recover[slot]); S->depth = slot + 1 *)
Install(kind, gc) ==
  /\ calls' = Append(calls, [kind |-> kind, slot |-> depth, gc |-> gc])
  /\ recover' = [recover EXCEPT ![depth] = Len(calls) + 1]
  /\ depth' = depth + 1

(* The innermost activation returns: its jmp_buf must not be used again.   *)
Leave ==
  /\ calls' = Below
  /\ recover' = [s \in DOMAIN recover |-> IF recover[s] = Len(calls) THEN Dead ELSE recover[s]]

(* load_dir_pop and fclose; without the first by a slip. *)
CloseOnly == files' = files - 1 /\ UNCHANGED dirs

Close == files' = files - 1 /\ dirs' = dirs - 1

(* fe_error(ctx, S->errmsg) *)
RaiseAgain == ctl' = "raise" /\ UNCHANGED <<errmsg, origin>>

(* fe_error(ctx, e): on_error has yet to run. *)
Throw(e) == ctl' = "raise" /\ errmsg' = e /\ origin' = e
-----------------------------------------------------------------------------
(***************************************************************************)
(* The public entry points                                                 *)
(***************************************************************************)
(* Where run_forms leaves the root stack: a top-level call first drops the *)
(* root of the previous call's result.                                     *)
Floor == IF depth = 0 THEN base ELSE roots

(* kec_eval_string, and kec_eval_file around it: run_forms, whose loop     *)
(* pins the last value.                                                    *)
EvalString ==
  /\ Callable("string")
  /\ depth < GuardMax /\ Floor < RootMax
  /\ Install("string", Floor)
  /\ roots' = Floor + 1
  /\ errmsg' = NoError
  /\ UNCHANGED <<dirs, files, pending, base, ctl, origin>>

EvalFile ==
  /\ Callable("file")
  /\ depth < GuardMax /\ Floor < RootMax
  /\ Install("file", Floor)
  /\ roots' = Floor + 1
  /\ dirs' = dirs + 1
  /\ files' = files + 1
  /\ errmsg' = NoError
  /\ UNCHANGED <<pending, base, ctl, origin>>

(* kec_check_string: reads without evaluating; keeps the pinned result.    *)
CheckString ==
  /\ Callable("check")
  /\ depth < GuardMax
  /\ Install("check", roots)
  /\ errmsg' = NoError
  /\ UNCHANGED <<dirs, files, pending, roots, base, ctl, origin>>

(* A public call that finds no free guard, or no file, returns 1 at once.  *)
EvalRefused ==
  /\ Callable("file")
  /\ errmsg' = Overflowed
  /\ UNCHANGED <<calls, recover, depth, dirs, files, pending, roots, base, ctl, origin>>

(* They return 0.  run_forms goes back to its save point and, if the       *)
(* caller asked for the result, pins it.                                   *)
EvalReturn ==
  /\ ctl = "run" /\ Inside({"string", "file", "check"})
  /\ Leave
  /\ depth' = Top.slot
  /\ roots' \in IF Top.kind = "check" THEN {Top.gc} ELSE {Top.gc, Top.gc + 1}
  /\ IF Top.kind = "file" THEN Close ELSE UNCHANGED <<dirs, files>>
  /\ UNCHANGED <<pending, base, errmsg, ctl, origin>>

(* The end of kec_open_with_arena: the setup guard is dropped.             *)
OpenReturn ==
  /\ ctl = "run" /\ Inside({"open"})
  /\ Leave
  /\ depth' = 0
  /\ base' = roots
  /\ UNCHANGED <<dirs, files, pending, roots, errmsg, ctl, origin>>
-----------------------------------------------------------------------------
(***************************************************************************)
(* What a running script does                                              *)
(***************************************************************************)
(* Allocation leaves a root behind; eval() and the loops take roots back,  *)
(* never below what the activation found.                                  *)
Grow ==
  /\ ctl = "run" /\ calls # <<>> /\ roots < RootMax
  /\ roots' = roots + 1
  /\ UNCHANGED <<calls, recover, depth, dirs, files, pending, base, errmsg, ctl, origin>>

Shrink ==
  /\ ctl = "run" /\ calls # <<>> /\ roots > Top.gc
  /\ roots' = Top.gc
  /\ UNCHANGED <<calls, recover, depth, dirs, files, pending, base, errmsg, ctl, origin>>

Try ==
  /\ Evaluating /\ Len(calls) < CallMax
  /\ depth < GuardMax
  /\ Install("try", roots)
  /\ UNCHANGED <<dirs, files, pending, roots, base, errmsg, ctl, origin>>

(* Slip: the guard stays installed. *)
TryReturnGuarded ==
  /\ ctl = "run" /\ Inside({"try"})
  /\ Leave
  /\ UNCHANGED <<depth, dirs, files, pending, roots, base, errmsg, ctl, origin>>

TryReturn ==
  /\ ctl = "run" /\ Inside({"try"})
  /\ Leave
  /\ depth' = Top.slot
  /\ UNCHANGED <<dirs, files, pending, roots, base, errmsg, ctl, origin>>

(* load and require: eval_file_or_error once the file is open. *)
Load ==
  /\ Evaluating /\ Len(calls) < CallMax
  /\ depth < GuardMax
  /\ Install("load", roots)
  /\ dirs' = dirs + 1
  /\ files' = files + 1
  /\ UNCHANGED <<pending, roots, base, errmsg, ctl, origin>>

LoadReturn ==
  /\ ctl = "run" /\ Inside({"load"})
  /\ Leave
  /\ depth' = Top.slot
  /\ Close
  /\ roots' = Top.gc
  /\ UNCHANGED <<pending, base, errmsg, ctl, origin>>

(* read-string and the other users of kec_pending_push; they evaluate      *)
(* nothing before kec_pending_pop.                                         *)
HoldBuffer ==
  /\ Evaluating /\ Len(calls) < CallMax
  /\ calls' = Append(calls, [kind |-> "buffer", slot |-> depth, gc |-> roots])
  /\ pending' = pending + 1
  /\ UNCHANGED <<recover, depth, dirs, files, roots, base, errmsg, ctl, origin>>

FreeBuffer ==
  /\ ctl = "run" /\ Inside({"buffer"})
  /\ Leave
  /\ pending' = pending - 1
  /\ UNCHANGED <<depth, dirs, files, roots, base, errmsg, ctl, origin>>

(* Any error: raise, a syntax error, memory or the root stack exhausted.   *)
Raise ==
  /\ ctl = "run" /\ calls # <<>>
  /\ \E e \in Errors : Throw(e)
  /\ UNCHANGED <<calls, recover, depth, dirs, files, pending, roots, base>>

(* try or load with every guard slot in use. *)
NoSlot ==
  /\ Evaluating
  /\ depth = GuardMax
  /\ Throw(Overflowed)
  /\ UNCHANGED <<calls, recover, depth, dirs, files, pending, roots, base>>
-----------------------------------------------------------------------------
(***************************************************************************)
(* Unwinding                                                               *)
(***************************************************************************)
(* Slip: the first guard rather than the last. *)
Outermost == recover[0]

Nearest == recover[depth - 1]

(* on_error: the registered buffers are freed, longjmp to the top guard.   *)
OnError ==
  /\ ctl = "raise"
  /\ depth > 0
  /\ Nearest # Dead
  /\ pending' = 0
  /\ calls' = SubSeq(calls, 1, Nearest)
  /\ ctl' = "caught"
  /\ UNCHANGED <<recover, depth, dirs, files, roots, base, errmsg, origin>>

Caught(kinds) == ctl = "caught" /\ Inside(kinds)

(* try: restore depth and roots, return (:error . errmsg) ...              *)
TryCaught ==
  /\ Caught({"try"})
  /\ Leave
  /\ depth' = Top.slot
  /\ roots' = Top.gc
  /\ ctl' = "run"
  /\ UNCHANGED <<dirs, files, pending, base, errmsg, origin>>

(* ... or run out of memory building it: the enclosing guard's error.      *)
TryCaughtFails ==
  /\ Caught({"try"})
  /\ Leave
  /\ depth' = Top.slot
  /\ roots' = Top.gc
  /\ \E e \in Errors : Throw(e)
  /\ UNCHANGED <<dirs, files, pending, base>>

(* load: clean up and raise the same message again. *)
LoadCaught ==
  /\ Caught({"load"})
  /\ Leave
  /\ depth' = Top.slot
  /\ Close
  /\ RaiseAgain
  /\ UNCHANGED <<pending, roots, base>>

(* The public entry points return 1; kec_open_with_arena then closes the   *)
(* context: Core did not load.                                             *)
EvalCaught ==
  /\ Caught({"string", "file", "check"})
  /\ Leave
  /\ depth' = Top.slot
  /\ roots' = Top.gc
  /\ IF Top.kind = "file" THEN Close ELSE UNCHANGED <<dirs, files>>
  /\ ctl' = IF \E i \in 1..Len(Below) : i = Len(Below) /\ Below[i].kind = "open"
              THEN "closed" ELSE "run"
  /\ UNCHANGED <<pending, base, errmsg, origin>>

(* kec_open_with_arena closes the context and returns NULL. *)
OpenCaught ==
  /\ Caught({"open"})
  /\ Leave
  /\ depth' = 0
  /\ roots' = 0
  /\ ctl' = "closed"
  /\ UNCHANGED <<dirs, files, pending, base, errmsg, origin>>
-----------------------------------------------------------------------------
(* kec_open_with_arena has installed the setup guard in slot 0. *)
Init ==
  /\ calls = <<[kind |-> "open", slot |-> 0, gc |-> 0]>>
  /\ recover = [s \in 0..(GuardMax - 1) |-> IF s = 0 THEN 1 ELSE Dead]
  /\ depth = 1
  /\ dirs = 0 /\ files = 0 /\ pending = 0
  /\ roots = 0 /\ base = 0
  /\ errmsg = NoError /\ origin = NoError
  /\ ctl = "run"

Unwind == OnError \/ TryCaught \/ TryCaughtFails \/ LoadCaught \/ EvalCaught \/ OpenCaught

Next ==
  \/ EvalString \/ EvalFile \/ CheckString \/ EvalRefused \/ EvalReturn \/ OpenReturn
  \/ Grow \/ Shrink \/ Try \/ TryReturn \/ Load \/ LoadReturn
  \/ HoldBuffer \/ FreeBuffer \/ Raise \/ NoSlot
  \/ Unwind

Spec == Init /\ [][Next]_vars /\ WF_vars(Unwind)
-----------------------------------------------------------------------------
TypeOK ==
  /\ calls \in Seq(Activations)
  /\ recover \in [0..(GuardMax - 1) -> Nat]
  /\ depth \in 0..GuardMax
  /\ dirs \in Nat /\ files \in Nat /\ pending \in Nat
  /\ roots \in 0..RootMax /\ base \in 0..RootMax
  /\ errmsg \in Messages /\ origin \in Messages
  /\ ctl \in {"run", "raise", "caught", "closed"}

(* The guards below depth are the live activations that called setjmp, in  *)
(* call order, and no others: a longjmp never lands in a function that has *)
(* returned, and always in the innermost one that can catch.               *)
GuardsAreLive ==
  LET guards == {i \in 1..Len(calls) : calls[i].kind \in Guarding}
  IN ctl # "closed" =>
       /\ \A i \in guards : calls[i].slot < depth /\ recover[calls[i].slot] = i
       /\ \A s \in 0..(depth - 1) : recover[s] \in guards /\ calls[recover[s]].slot = s
       /\ \A i, j \in guards : i < j => calls[i].slot < calls[j].slot

(* An error is never raised where no guard is installed: fe_error's        *)
(* fallback, exit(), is out of reach of any script.                        *)
ErrorsAreGuarded == ctl = "raise" => depth > 0 /\ recover[depth - 1] # Dead

(* Whatever combination of loads, tries and errors has been gone through,  *)
(* the open files and pushed directories are those of the activations that *)
(* are still there, and so are the registered buffers (never one of an     *)
(* outer activation, which an error caught further in would free).         *)
ResourcesOwned ==
  LET owners == Cardinality({i \in 1..Len(calls) : calls[i].kind \in WithFile})
      buffers == Cardinality({i \in 1..Len(calls) : calls[i].kind = "buffer"})
  IN /\ files = owners /\ dirs = owners
     /\ pending = buffers
     /\ buffers <= 1

(* test_gc_roots.c: between public calls the root stack is at its floor,   *)
(* plus at most the previous call's result.                                *)
RootsAreBounded == calls = <<>> /\ ctl = "run" => roots \in {base, base + 1}

(* Restoring a saved root stack index only ever drops roots.  An index     *)
(* above the current one would bring stale pointers back as roots.         *)
RestoresOnlyDrop ==
  \A i \in 1..Len(calls) :
    /\ calls[i].gc <= roots
    /\ \A j \in 1..i : calls[j].gc <= calls[i].gc

(* The message that a guard finds in errmsg is the one the error was       *)
(* raised with, through any number of loads that caught and re-raised it.  *)
MessageIsKept == ctl \in {"raise", "caught"} => errmsg = origin

(* What a handler relies on when setjmp returns a second time: the guard   *)
(* is the right one, the roots it restores are below the current ones, and *)
(* errmsg is the error's.                                                  *)
GuardsSound ==
  /\ GuardsAreLive /\ ErrorsAreGuarded
  /\ RestoresOnlyDrop /\ RootsAreBounded
  /\ MessageIsKept

(* Calls nest and errors unwind as in module Unwinding: the index, the     *)
(* jmp_bufs and the restores of every handler add up to that.              *)
U == INSTANCE Unwinding WITH
       Catchers <- {"open", "string", "file", "check", "try"},
       Forwarders <- {"load"},
       Others <- {"buffer"},
       stack <- [i \in 1..Len(calls) |-> calls[i].kind],
       failing <- ctl \in {"raise", "caught"}

Unwinds == U!Spec

(* An error under way always ends in a guard that handles it. *)
ErrorsEnd == (ctl = "raise") ~> (ctl \in {"run", "closed"})
=============================================================================
