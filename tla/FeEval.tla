-------------------------------- MODULE FeEval --------------------------------
(***************************************************************************)
(* eval() of kernel/fe.c and the garbage collector: which objects the C    *)
(* frames of a running evaluation hold in local variables, and which of    *)
(* them the root stack protects when an allocation collects.               *)
(*                                                                         *)
(* Programs are arbitrary: every expression that eval() enters is chosen   *)
(* freely among a literal, a variable and the forms below.  One global     *)
(* variable stands for the symbol table, one cell for the code of a form   *)
(* or function body, one cell for a binding of an environment (which fe    *)
(* builds from two, the inner one rooted by its own constructor).  The     *)
(* forms that neither allocate nor hold a value across an evaluation (if,  *)
(* and, or, while, car, quote, ...) add nothing to these and are left out; *)
(* is, <, <= hold their first operand as cons and setcar do.               *)
(***************************************************************************)
EXTENDS FeAlloc, SequencesExt

CONSTANT Budget   \* ctx->instr_budget

ASSUME EvalAssumption == N >= 4 /\ Budget \in Nat

VARIABLES
  frames,  \* the C frames of eval(), innermost last, with their locals
  ctl,     \* what happens next: see Controls
  count    \* ctx->instr_count

vars == <<heap, freelist, gcstack, symlist, frames, ctl, count>>

(* "eval": eval() is entered on some expression, in the innermost frame's  *)
(* environment; "return": it has returned val to that frame; "step": the   *)
(* innermost frame goes on by itself; "idle": no form is being evaluated.  *)
Controls == [pc : {"idle", "eval", "return", "step"}, val : Refs]

Eval      == [pc |-> "eval", val |-> Nil]
Return(v) == [pc |-> "return", val |-> v]
Step      == [pc |-> "step", val |-> Nil]
Resting   == [pc |-> "idle", val |-> Nil]

FrameOps == {"form", "callee", "call", "list", "bind", "body",
             "cons", "cons2", "setcar", "setcar2", "set", "let", "fn", "fn2"}

Frames == [op : FrameOps,
           gc : 0..GCStackSize,      \* gc = fe_savegc(ctx) of eval
           save : 0..GCStackSize,    \* save of dolist
           env : Refs, code : Refs,  \* the environment, the code being run
           fn : Refs, va : Refs,     \* eval's locals of these names
           args : Refs, tail : Refs] \* evallist's res and the last cell of it

Top == frames[Len(frames)]

Update(f) == frames' = [frames EXCEPT ![Len(frames)] = f]

IsA(x, type) == IF x = Nil THEN FALSE ELSE heap[x].type = type

At(pc, ops) == ctl.pc = pc /\ frames # <<>> /\ Top.op \in ops

(* Slip: fe_restoregc is off by one. *)
UptoBefore(i) == SubSeq(gcstack, 1, i - 1)

Upto(i) == SubSeq(gcstack, 1, i)
-----------------------------------------------------------------------------
(***************************************************************************)
(* Allocation inside an evaluation                                         *)
(***************************************************************************)
(* The step that comes next allocates a cell. *)
NeedsCell ==
  \/ ctl.pc = "idle"
  \/ At("return", {"call", "list", "cons2", "let"})
  \/ At("step", {"bind", "fn", "fn2"})

AboutToCollect == freelist = {} /\ NeedsCell

Alive(x) == x \in Reach(heap, RootSet) \cup {Nil}

(* The objects a frame holds: those fe.c protects ... *)
Protected(f) == {f.env, f.code, f.args, f.tail} \cup (IF f.op = "fn2" THEN {f.va} ELSE {})

(* ... and those that it leaves to whatever variable they came from.       *)
Callee(f)  == IF f.op \in {"call", "bind"} THEN {f.fn} ELSE {}
Operand(f) == IF f.op \in {"cons2", "setcar2"} THEN {f.va} ELSE {}

InFlight == {ctl.val} \cup UNION {Protected(frames[i]) \cup Callee(frames[i])
                                    \cup Operand(frames[i]) : i \in 1..Len(frames)}

(* object() succeeds.  Once a collection has freed an object that a frame  *)
(* still uses, what the program does is undefined: the model stops there.  *)
Alloc(c) == (freelist = {} => \A x \in InFlight : Alive(x)) /\ Pop(c)

NewPair(c, a, d) == heap' = [HeapAfterGC EXCEPT ![c] = [type |-> "pair", car |-> a, cdr |-> d]]

(* The common end of eval(): fe_restoregc(gc), fe_pushgc(res), return res. *)
Exit(res) ==
  /\ Top.gc < GCStackSize
  /\ gcstack' = Append(Upto(Top.gc), res)
  /\ ctl' = Return(res)
-----------------------------------------------------------------------------
(***************************************************************************)
(* Entering eval()                                                         *)
(***************************************************************************)
(* The host reads the next form; the reader leaves it on the root stack.   *)
ReadForm ==
  /\ ctl.pc = "idle"
  /\ \E c \in Cells :
       /\ Alloc(c)
       /\ gcstack' = <<c>>
       /\ NewPair(c, Nil, Nil)
       /\ frames' = <<[op |-> "form", gc |-> 0, save |-> 0, env |-> Nil, code |-> c,
                       fn |-> Nil, va |-> Nil, args |-> Nil, tail |-> Nil]>>
  /\ ctl' = Eval
  /\ UNCHANGED <<symlist, count>>

Enter == ctl.pc = "eval" /\ count < Budget /\ count' = count + 1

(* A literal, the global variable or a local one: returned without a root. *)
EvalAtom ==
  /\ Enter
  /\ \E v \in {Nil, heap[symlist].car} \cup {heap[e].car : e \in Chain(heap, Top.env)} :
       ctl' = Return(v)
  /\ UNCHANGED <<heap, freelist, gcstack, symlist, frames>>

(* A form: its frame, in which the first thing to happen is `next`.        *)
EvalForm(op, next) ==
  /\ Enter
  /\ frames' = Append(frames, [op |-> op, gc |-> Len(gcstack), save |-> Len(gcstack),
                               env |-> Top.env, code |-> Top.code,
                               fn |-> Nil, va |-> Nil, args |-> Nil, tail |-> Nil])
  /\ ctl' = next
  /\ UNCHANGED <<heap, freelist, gcstack, symlist>>

EvalCompound ==
  \/ \E op \in {"callee", "cons", "setcar", "set"} : EvalForm(op, Eval)
  \/ \E op \in {"list", "body", "fn"} : EvalForm(op, Step)
  \/ At("eval", {"body"}) /\ EvalForm("let", Eval)
-----------------------------------------------------------------------------
(***************************************************************************)
(* Function calls                                                          *)
(***************************************************************************)
(* fn = eval(car(obj)) is a function; evallist starts. *)
GotCallee ==
  /\ At("return", {"callee"})
  /\ IsA(ctl.val, "func")
  /\ Update([Top EXCEPT !.op = "call", !.fn = ctl.val])
  /\ ctl' = Step
  /\ UNCHANGED <<heap, freelist, gcstack, symlist, count>>

NextArg ==
  /\ At("step", {"call", "list"})
  /\ ctl' = Eval
  /\ UNCHANGED <<heap, freelist, gcstack, symlist, frames, count>>

(* *tail = fe_cons(ctx, eval(...), &nil); tail = &cdr( *tail) *)
GotArg ==
  /\ At("return", {"call", "list"})
  /\ \E c \in Cells :
       LET cell == [type |-> "pair", car |-> ctl.val, cdr |-> Nil]
           grown == [HeapAfterGC EXCEPT ![c] = cell]
       IN /\ Alloc(c)
          /\ gcstack' = Append(gcstack, c)
          /\ \/ /\ Top.args = Nil
                /\ heap' = grown
                /\ Update([Top EXCEPT !.args = c, !.tail = c])
             \/ /\ Top.args # Nil
                /\ heap' = [grown EXCEPT ![Top.tail] =
                              [type |-> "pair", car |-> grown[Top.tail].car, cdr |-> c]]
                /\ Update([Top EXCEPT !.tail = c])
  /\ ctl' = Step
  /\ UNCHANGED <<symlist, count>>

ListDone ==
  /\ At("step", {"list"})
  /\ Exit(Top.args)
  /\ frames' = Front(frames)
  /\ UNCHANGED <<heap, freelist, symlist, count>>

ArgsDone ==
  /\ At("step", {"call"})
  /\ Update([Top EXCEPT !.op = "bind"])
  /\ UNCHANGED <<heap, freelist, gcstack, symlist, ctl, count>>

(* va = cdr(fn); argstoenv binds the parameter on top of the closure's     *)
(* environment; dolist starts on the body.                                 *)
BindArgs ==
  /\ At("step", {"bind"})
  /\ LET va == heap[Top.fn].cdr
     IN \E c \in Cells :
          /\ Alloc(c)
          /\ gcstack' = Append(gcstack, c)
          /\ NewPair(c, IF Top.args = Nil THEN Nil ELSE heap[Top.args].car, heap[va].car)
          /\ Update([Top EXCEPT !.op = "body", !.env = c, !.code = heap[va].cdr,
                                !.save = Len(gcstack) + 1])
  /\ UNCHANGED <<symlist, ctl, count>>

(* Slip: dolist does not root the environment, which let replaces. *)
NextFormNoEnv ==
  /\ At("step", {"body"}) \/ At("return", {"body"})
  /\ Top.save + 2 <= GCStackSize
  /\ gcstack' = Upto(Top.save) \o <<Top.code>>
  /\ ctl' = Eval
  /\ UNCHANGED <<heap, freelist, symlist, frames, count>>

(* One iteration of dolist: fe_restoregc(save), fe_pushgc(lst),            *)
(* fe_pushgc(env), eval.                                                   *)
NextForm ==
  /\ At("step", {"body"}) \/ At("return", {"body"})
  /\ Top.save + 2 <= GCStackSize
  /\ gcstack' = Upto(Top.save) \o <<Top.code, Top.env>>
  /\ ctl' = Eval
  /\ UNCHANGED <<heap, freelist, symlist, frames, count>>

(* dolist returns the value of its last form, nil when there is none.      *)
BodyDone ==
  /\ At("step", {"body"}) \/ At("return", {"body"})
  /\ Exit(ctl.val)
  /\ frames' = Front(frames)
  /\ UNCHANGED <<heap, freelist, symlist, count>>
-----------------------------------------------------------------------------
(***************************************************************************)
(* Primitive forms                                                         *)
(***************************************************************************)
(* va = evalarg() of P_CONS and P_SETCAR *)
GotOperand ==
  /\ At("return", {"cons", "setcar"})
  /\ Top.op = "setcar" => IsA(ctl.val, "pair")
  /\ Update([Top EXCEPT !.op = IF @ = "cons" THEN "cons2" ELSE "setcar2", !.va = ctl.val])
  /\ ctl' = Eval
  /\ UNCHANGED <<heap, freelist, gcstack, symlist, count>>

(* res = fe_cons(ctx, va, evalarg()) *)
ConsDone ==
  /\ At("return", {"cons2"})
  /\ Len(gcstack) < GCStackSize
  /\ \E c \in Cells : Alloc(c) /\ NewPair(c, Top.va, ctl.val) /\ Exit(c)
  /\ frames' = Front(frames)
  /\ UNCHANGED <<symlist, count>>

(* car(va) = evalarg() *)
SetCarDone ==
  /\ At("return", {"setcar2"})
  /\ heap' = [heap EXCEPT ![Top.va] =
                [type |-> heap[Top.va].type, car |-> ctl.val, cdr |-> heap[Top.va].cdr]]
  /\ Exit(Nil)
  /\ frames' = Front(frames)
  /\ UNCHANGED <<freelist, symlist, count>>

(* cdr(binding) = evalarg() of P_SET, binding the global or a local        *)
SetDone ==
  /\ At("return", {"set"})
  /\ \E b \in {symlist} \cup Chain(heap, Top.env) :
       heap' = [heap EXCEPT ![b] = [type |-> "pair", car |-> ctl.val, cdr |-> heap[b].cdr]]
  /\ Exit(Nil)
  /\ frames' = Front(frames)
  /\ UNCHANGED <<freelist, symlist, count>>

(* *newenv = (binding . env): the environment of the enclosing dolist      *)
LetDone ==
  /\ At("return", {"let"})
  /\ Len(gcstack) < GCStackSize
  /\ \E c \in Cells :
       /\ Alloc(c)
       /\ NewPair(c, ctl.val, Top.env)
       /\ frames' = [Front(frames) EXCEPT ![Len(frames) - 1].env = c]
  /\ Exit(Nil)
  /\ UNCHANGED <<symlist, count>>

(* P_FN: va = fe_cons(ctx, env, arg), ... *)
FnEnv ==
  /\ At("step", {"fn"})
  /\ \E c \in Cells :
       /\ Alloc(c)
       /\ gcstack' = Append(gcstack, c)
       /\ NewPair(c, Top.env, Top.code)
       /\ Update([Top EXCEPT !.op = "fn2", !.va = c])
  /\ UNCHANGED <<symlist, ctl, count>>

(* ... res = object(ctx), cdr(res) = va *)
FnDone ==
  /\ At("step", {"fn2"})
  /\ Len(gcstack) < GCStackSize
  /\ \E c \in Cells :
       /\ Alloc(c)
       /\ heap' = [HeapAfterGC EXCEPT ![c] = [type |-> "func", car |-> Nil, cdr |-> Top.va]]
       /\ Exit(c)
  /\ frames' = Front(frames)
  /\ UNCHANGED <<symlist, count>>
-----------------------------------------------------------------------------
(* The form has been evaluated: the host takes back the root stack.        *)
FormDone ==
  /\ At("return", {"form"})
  /\ frames' = <<>> /\ gcstack' = <<>> /\ ctl' = Resting
  /\ UNCHANGED <<heap, freelist, symlist, count>>

(* The errors: the instruction budget, a full arena or root stack, a value *)
(* that is not callable or not a pair.  fe_error leaves every frame; the   *)
(* host resumes with the next form.                                        *)
Failing ==
  \/ ctl.pc = "eval" /\ count = Budget
  \/ NeedsCell /\ Available = {}
  \/ At("step", {"body"}) /\ Top.save + 2 > GCStackSize
  \/ At("return", {"body"}) /\ Top.save + 2 > GCStackSize
  \/ At("return", {"callee"}) /\ ~IsA(ctl.val, "func")
  \/ At("return", {"setcar"}) /\ ~IsA(ctl.val, "pair")
  \/ frames # <<>> /\ Top.op # "form" /\ Top.gc = GCStackSize /\ ctl.pc \in {"return", "step"}

Fail ==
  /\ frames' = <<>> /\ gcstack' = <<>> /\ ctl' = Resting
  /\ UNCHANGED <<symlist, count>>

Raise == frames # <<>> /\ Failing /\ Fail /\ UNCHANGED <<heap, freelist>>

(* "gc stack overflow" in object(): the popped cell is lost. *)
Overflow ==
  /\ NeedsCell /\ frames # <<>> /\ Available # {}
  /\ Len(gcstack) = GCStackSize
  /\ heap' = HeapAfterGC
  /\ \E c \in Heads(Available) : freelist' = Available \ {c}
  /\ Fail
-----------------------------------------------------------------------------
(* The global variable (cell 1) holds a function: cell 2, whose cdr is     *)
(* (env . code), cell 3, whose code is cell 4.                             *)
Init ==
  /\ heap = [c \in Cells |->
               CASE c = 1 -> [type |-> "pair", car |-> 2, cdr |-> Nil]
                 [] c = 2 -> [type |-> "func", car |-> Nil, cdr |-> 3]
                 [] c = 3 -> [type |-> "pair", car |-> Nil, cdr |-> 4]
                 [] c = 4 -> [type |-> "pair", car |-> Nil, cdr |-> Nil]
                 [] OTHER -> FreeCell]
  /\ freelist = Cells \ 1..4
  /\ gcstack = <<>>
  /\ symlist = 1
  /\ frames = <<>>
  /\ ctl = Resting
  /\ count = 0

Next ==
  \/ ReadForm \/ EvalAtom \/ EvalCompound
  \/ GotCallee \/ NextArg \/ GotArg \/ ListDone \/ ArgsDone \/ BindArgs
  \/ NextForm \/ BodyDone
  \/ GotOperand \/ ConsDone \/ SetCarDone \/ SetDone \/ LetDone \/ FnEnv \/ FnDone
  \/ FormDone \/ Raise \/ Overflow

Spec == Init /\ [][Next]_vars
-----------------------------------------------------------------------------
TypeOK ==
  /\ heap \in Heaps
  /\ freelist \subseteq Cells
  /\ gcstack \in Seq(Refs) /\ Len(gcstack) <= GCStackSize
  /\ symlist \in Refs
  /\ frames \in Seq(Frames)
  /\ ctl \in Controls
  /\ count \in 0..Budget

(* Whenever an allocation collects, every frame's environment, code and    *)
(* argument list, the closure being built and the value just returned are  *)
(* reachable: a variable that was overwritten, a caller's stack index that *)
(* was restored or a later form of a body never frees them.                *)
ProtectedSurvive ==
  AboutToCollect =>
    \A x \in {ctl.val} \cup UNION {Protected(frames[i]) : i \in 1..Len(frames)} : Alive(x)

(* What eval() returns can be used until the next evaluation, although a   *)
(* variable's value is returned without a root of its own.                 *)
ReturnedIsAlive == ctl.pc = "return" => Alive(ctl.val)

(* The two together: no collection frees what an evaluation still uses.    *)
InFlightSurvive == ProtectedSurvive /\ ReturnedIsAlive

(* Each running eval() finds the roots of its callers as they left them,   *)
(* below the index it saved, whatever its own operands did in between.     *)
CallersRootsAreKept ==
  [][\A i \in 1..Len(frames) :
       i <= Len(frames') /\ ctl'.pc # "idle" =>
         SubSeq(gcstack', 1, frames[i].gc) = SubSeq(gcstack, 1, frames[i].gc)]_vars

(* docs/fe-kernel.md: gcstack "protects in-flight objects from             *)
(* collection".  The function being called, while its arguments are        *)
(* evaluated and bound, is one.                                            *)
CalleeSurvives ==
  AboutToCollect => \A i \in 1..Len(frames) : \A x \in Callee(frames[i]) : Alive(x)

(* The same of the first operand of cons and setcar (and setcdr, is, <,    *)
(* <=), while the second one is evaluated.                                 *)
OperandSurvives ==
  AboutToCollect => \A i \in 1..Len(frames) : \A x \in Operand(frames[i]) : Alive(x)

(* "protects in-flight objects from collection", of both.                  *)
LocalsSurvive == CalleeSurvives /\ OperandSurvives
=============================================================================
