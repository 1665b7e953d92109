---------------------------- MODULE FeEvalProofs ----------------------------
(***************************************************************************)
(* Proofs about the evaluator: for every arena, root stack, budget and     *)
(* program, what a running evaluation holds in its protected locals and    *)
(* what it returns is reachable whenever an allocation collects, and no    *)
(* eval() disturbs the roots of its callers.                               *)
(***************************************************************************)
EXTENDS FeEval, FeGraphTheorems, SequenceTheorems

Opt(S) == S \cup {Nil}

Live == Reach(heap, RootSet \cup InFlight)

(* The cells of this model: pairs, closures whose cdr is a pair, and free  *)
(* cells, which refer to nothing.                                          *)
Kinds(h) ==
  \A c \in Cells :
    /\ h[c].type \in {"pair", "func", "free"}
    /\ h[c].type = "free" => h[c] = FreeCell
    /\ h[c].type = "func" => h[c].car = Nil /\ h[c].cdr # Nil

(* A set of cells that holds whatever its cells refer to, none of it free. *)
Sound(h, S) ==
  /\ h \in Heaps /\ Kinds(h)
  /\ S \subseteq Cells /\ ClosedUnder(h, S) /\ S \cap FreeTyped(h) = {}

HeapInv ==
  /\ Sound(heap, Live) /\ freelist \subseteq FreeTyped(heap)
  /\ symlist \in Cells /\ heap[symlist].type = "pair"
  /\ gcstack \in Seq(Refs) /\ Len(gcstack) <= GCStackSize
  /\ count \in 0..Budget

-----------------------------------------------------------------------------
(* What a frame refers to, and what it relies on in the heap: the function *)
(* of a call has a closure, the first operand of setcar is a pair, and an  *)
(* argument list has a last cell.                                          *)
FrameRefs(f) == Protected(f) \cup Callee(f) \cup Operand(f)

Sane(f, h) ==
  /\ f.op \in {"call", "bind"} => f.fn # Nil /\ h[f.fn].cdr # Nil
  /\ f.op = "setcar2" => f.va # Nil /\ h[f.va].type = "pair"
  /\ f.op = "fn2" => f.va # Nil
  /\ f.args # Nil => f.tail # Nil

Well(f, h, S) == f \in Frames /\ Sane(f, h) /\ FrameRefs(f) \subseteq Opt(S)

AllWell(fs, h, S) == fs \in Seq(Frames) /\ \A i \in 1..Len(fs) : Well(fs[i], h, S)

(* x is among the first n entries of the root stack s. *)
Rooted(s, x, n) == x = Nil \/ \E k \in 1..n : s[k] = x

(* A function body's argument list lies below the index its dolist saved.  *)
Body(f, s, n) ==
  f.op = "body" => /\ f.gc <= f.save /\ f.save <= n
                   /\ Rooted(s, f.args, f.save) /\ Rooted(s, f.tail, f.save)

AllRooted(f, s, n) ==
  /\ Rooted(s, f.env, n) /\ Rooted(s, f.code, n)
  /\ Rooted(s, f.args, n) /\ Rooted(s, f.tail, n)

Callers == FrameOps \ {"bind", "fn", "fn2"}

(* A frame that has called eval(): all it protects lies below n.           *)
Below(f, s, n) == f.op \in Callers /\ f.gc <= n /\ Body(f, s, n) /\ AllRooted(f, s, n)

(* The innermost frame: a dolist between two forms has let go of its       *)
(* environment and code, which it roots again before the next one.         *)
TopOk(f, s, pc) ==
  /\ f.gc <= Len(s) /\ Body(f, s, Len(s))
  /\ f.op # "body" \/ pc = "eval" => AllRooted(f, s, Len(s))
  /\ f.op = "fn2" => Rooted(s, f.va, Len(s))
  /\ pc \in {"eval", "return"} => f.op \in Callers

(* Every frame's roots lie below the index that the next one saved.        *)
StackInv(fs, s, pc) ==
  /\ \A i, j \in 1..Len(fs) : i < j => Below(fs[i], s, fs[j].gc)
  /\ fs # <<>> => TopOk(fs[Len(fs)], s, pc)

(* Forms are evaluated by dolist or by the host; let only by dolist.       *)
Nesting(fs) ==
  \A i \in 1..Len(fs) :
    /\ fs[i].op = "form" <=> i = 1
    /\ fs[i].op = "let" => i > 1 /\ fs[i - 1].op = "body"

CtlInv ==
  /\ ctl \in Controls
  /\ ctl.pc = "idle" <=> frames = <<>>
  /\ ctl.pc # "return" => ctl.val = Nil
  /\ ctl.pc = "return" => ctl.val \in Opt(Reach(heap, RootSet))

IInv ==
  /\ HeapInv /\ CtlInv
  /\ AllWell(frames, heap, Live) /\ StackInv(frames, gcstack, ctl.pc) /\ Nesting(frames)

(* What is written keeps a closure's and a list's cdr, and a pair a pair.  *)
Evolves(h, g, S) ==
  \A x \in S : /\ h[x].cdr # Nil => g[x].cdr # Nil
               /\ h[x].type = "pair" => g[x].type = "pair"

-----------------------------------------------------------------------------
(***************************************************************************)
(* The root stack and the frames                                           *)
(***************************************************************************)
(* Roots stay where the stack below them does. *)
LEMMA RootedKept ==
  ASSUME NEW s, NEW t, NEW n, NEW x,
         \A k \in 1..n : t[k] = s[k], Rooted(s, x, n)
  PROVE  Rooted(t, x, n)
  BY DEF Rooted

LEMMA RootedWider ==
  ASSUME NEW s, NEW m \in Int, NEW n \in Int, m <= n, NEW x, Rooted(s, x, m)
  PROVE  Rooted(s, x, n)
<1>1. \A k \in 1..m : k \in 1..n
  OBVIOUS
<1>2. QED
  BY <1>1 DEF Rooted

LEMMA RootedPush ==
  ASSUME NEW s \in Seq(Refs), NEW c \in Refs
  PROVE  /\ Append(s, c) \in Seq(Refs) /\ Len(Append(s, c)) = Len(s) + 1
         /\ \A k \in 1..Len(s) : Append(s, c)[k] = s[k]
         /\ \A x : Rooted(s, x, Len(s)) => Rooted(Append(s, c), x, Len(s) + 1)
         /\ Rooted(Append(s, c), c, Len(s) + 1)
<1> DEFINE t == Append(s, c)
           n == Len(s)
<1>1. /\ n \in Nat /\ t \in Seq(Refs) /\ Len(t) = n + 1 /\ t[n + 1] = c
      /\ \A k \in 1..n : t[k] = s[k]
  BY LenProperties
<1> HIDE DEF t, n
<1>2. \A x : Rooted(s, x, n) => Rooted(t, x, n + 1)
  <2> SUFFICES ASSUME NEW x, Rooted(s, x, n) PROVE Rooted(t, x, n + 1)
    OBVIOUS
  <2>1. Rooted(t, x, n)
    BY <1>1, RootedKept
  <2>2. QED
    BY <1>1, <2>1, RootedWider
<1>3. Rooted(t, c, n + 1)
  BY <1>1 DEF Rooted
<1>4. QED
  BY <1>1, <1>2, <1>3 DEF t, n

LEMMA BelowKept ==
  ASSUME NEW f \in Frames, NEW s, NEW t, NEW n \in Int,
         \A k \in 1..n : t[k] = s[k], Below(f, s, n)
  PROVE  Below(f, t, n)
<1>1. AllRooted(f, t, n)
  BY RootedKept DEF Below, AllRooted
<1>2. Body(f, t, n)
  <2> SUFFICES ASSUME f.op = "body"
               PROVE  /\ f.gc <= f.save /\ f.save <= n
                      /\ Rooted(t, f.args, f.save) /\ Rooted(t, f.tail, f.save)
    BY DEF Body
  <2>1. /\ f.gc <= f.save /\ f.save <= n
        /\ Rooted(s, f.args, f.save) /\ Rooted(s, f.tail, f.save)
    BY DEF Below, Body
  <2>2. \A k \in 1..f.save : t[k] = s[k]
    BY <2>1 DEF Frames
  <2>3. QED
    BY <2>1, <2>2, RootedKept
<1>3. QED
  BY <1>1, <1>2 DEF Below

(* When a frame's call of eval() returns, its roots are where it left them.*)
LEMMA BelowIsTop ==
  ASSUME NEW f \in Frames, NEW s, NEW n \in Int, Below(f, s, n), Len(s) \in Int, n <= Len(s), NEW pc
  PROVE  TopOk(f, s, pc)
<1>1. AllRooted(f, s, Len(s))
  BY RootedWider DEF Below, AllRooted
<1>2. Body(f, s, Len(s))
  BY DEF Below, Body, Frames
<1>3. f.gc <= Len(s) /\ f.op # "fn2" /\ f.op \in Callers
  BY DEF Below, Frames, Callers
<1>4. QED
  BY <1>1, <1>2, <1>3 DEF TopOk

(* When a frame calls eval(), its roots are on the stack. *)
LEMMA TopIsBelow ==
  ASSUME NEW f, NEW s, TopOk(f, s, "eval")
  PROVE  Below(f, s, Len(s))
  BY DEF TopOk, Below

(* The shapes that a step of the evaluator may take: a frame is entered,   *)
LEMMA PushedFrame ==
  ASSUME NEW fs \in Seq(Frames), fs # <<>>, NEW s \in Seq(Refs), NEW f \in Frames,
         StackInv(fs, s, "eval"), NEW pc, f.gc = Len(s), TopOk(f, s, pc)
  PROVE  StackInv(Append(fs, f), s, pc)
<1> DEFINE gs == Append(fs, f)
           n == Len(fs)
<1>1. /\ n \in Nat /\ n > 0 /\ Len(gs) = n + 1 /\ gs[n + 1] = f
      /\ \A i \in 1..n : gs[i] = fs[i] /\ fs[i] \in Frames
      /\ Len(s) \in Nat
  BY EmptySeq, LenProperties
<1>2. gs # <<>>
  BY <1>1
<1>3. Below(fs[n], s, Len(s))
  BY TopIsBelow DEF StackInv
<1>4. ASSUME NEW i \in 1..n PROVE Below(fs[i], s, Len(s))
  <2>1. CASE i = n
    BY <1>3, <2>1
  <2>2. CASE i < n
    <3>1. Below(fs[i], s, fs[n].gc) /\ fs[n].gc <= Len(s)
      BY <1>1, <1>3, <2>2 DEF StackInv, Below
    <3>2. fs[n].gc \in Int /\ fs[i] \in Frames /\ Len(s) \in Int
      BY <1>1 DEF Frames
    <3>3. AllRooted(fs[i], s, Len(s))
      BY <3>1, <3>2, RootedWider DEF Below, AllRooted
    <3>4. Body(fs[i], s, Len(s)) /\ fs[i].gc <= Len(s)
      BY <3>1, <3>2 DEF Below, Body, Frames
    <3>5. QED
      BY <3>1, <3>3, <3>4 DEF Below
  <2>3. QED
    BY <1>1, <2>1, <2>2
<1> HIDE DEF gs, n
<1>5. ASSUME NEW i \in 1..Len(gs), NEW j \in 1..Len(gs), i < j PROVE Below(gs[i], s, gs[j].gc)
  <2>1. i \in 1..n
    BY <1>1, <1>5
  <2>2. CASE j = n + 1
    BY <1>1, <1>4, <2>1, <2>2
  <2>3. CASE j # n + 1
    BY <1>1, <1>5, <2>1, <2>3 DEF StackInv, n
  <2>4. QED
    BY <2>2, <2>3
<1>6. QED
  BY <1>1, <1>2, <1>5 DEF StackInv, gs

(* ... the innermost frame goes on, above the index that it saved, ...     *)
LEMMA ReplacedTop ==
  ASSUME NEW fs \in Seq(Frames), fs # <<>>, NEW s, NEW t, NEW f \in Frames,
         NEW pc, NEW q, StackInv(fs, s, pc), f.gc = fs[Len(fs)].gc,
         \A k \in 1..f.gc : t[k] = s[k], TopOk(f, t, q)
  PROVE  StackInv([fs EXCEPT ![Len(fs)] = f], t, q)
<1> DEFINE n == Len(fs)
           gs == [fs EXCEPT ![n] = f]
<1>1. /\ n \in Nat /\ n > 0 /\ Len(gs) = n /\ gs[n] = f
      /\ \A i \in 1..n : (i # n => gs[i] = fs[i]) /\ fs[i] \in Frames
      /\ gs \in Seq(Frames)
  BY EmptySeq, LenProperties
<1>2. gs # <<>>
  BY <1>1, EmptySeq
<1>3. fs[n].gc = f.gc
  OBVIOUS
<1> HIDE DEF gs, n
<1>4. \A j \in 1..n : gs[j].gc = fs[j].gc
  BY <1>1, <1>3
<1>5. ASSUME NEW i \in 1..n, NEW j \in 1..n, i < j PROVE Below(gs[i], t, gs[j].gc)
  <2>1. Below(fs[i], s, fs[j].gc) /\ gs[i] = fs[i]
    BY <1>1, <1>5 DEF StackInv, n
  <2>2. fs[j].gc <= f.gc
    <3>1. CASE j = n
      BY <1>1, <1>3, <3>1 DEF Frames
    <3>2. CASE j # n
      BY <1>1, <1>5, <1>3, <3>2 DEF StackInv, Below, n
    <3>3. QED
      BY <3>1, <3>2
  <2>3. fs[j].gc \in Int /\ fs[i] \in Frames /\ f.gc \in Int
    BY <1>1 DEF Frames
  <2>4. \A k \in 1..fs[j].gc : t[k] = s[k]
    BY <2>2, <2>3
  <2>5. Below(fs[i], t, fs[j].gc)
    BY <2>1, <2>3, <2>4, BelowKept
  <2>6. QED
    BY <1>4, <2>1, <2>5
<1>6. QED
  BY <1>1, <1>2, <1>5 DEF StackInv, gs, n

(* ... and a frame returns, dropping what is above that index.             *)
LEMMA PoppedFrame ==
  ASSUME NEW fs \in Seq(Frames), Len(fs) > 1, NEW s \in Seq(Refs), NEW t \in Seq(Refs),
         NEW pc, NEW q, StackInv(fs, s, pc),
         \A k \in 1..fs[Len(fs)].gc : t[k] = s[k], fs[Len(fs)].gc <= Len(t)
  PROVE  /\ StackInv(Front(fs), t, q)
         /\ Front(fs) \in Seq(Frames) /\ Len(Front(fs)) = Len(fs) - 1
         /\ \A i \in 1..(Len(fs) - 1) : Front(fs)[i] = fs[i]
<1> DEFINE n == Len(fs)
           gs == Front(fs)
           top == fs[n].gc
<1>1. n \in Nat /\ n > 1 /\ Len(t) \in Nat /\ \A i \in 1..n : fs[i] \in Frames
  BY LenProperties
<1>2. /\ gs \in Seq(Frames) /\ Len(gs) = n - 1
      /\ \A i \in 1..(n - 1) : gs[i] = fs[i]
  BY <1>1, SubSeqProperties DEF Front
<1>3. top \in Int /\ top <= Len(t) /\ \A k \in 1..top : t[k] = s[k]
  BY <1>1 DEF Frames
<1>4. ASSUME NEW i \in 1..n, NEW j \in 1..n, i < j PROVE Below(fs[i], t, fs[j].gc)
  <2>1. Below(fs[i], s, fs[j].gc) /\ fs[j].gc \in Int
    BY <1>1, <1>4 DEF StackInv, Frames
  <2>2. fs[j].gc <= top
    BY <1>1, <1>4, SMTT(20) DEF StackInv, Below, Frames
  <2>3. \A k \in 1..fs[j].gc : t[k] = s[k]
    BY <1>3, <2>1, <2>2
  <2>4. QED
    BY <1>1, <2>1, <2>3, BelowKept
<1>5. Below(fs[n - 1], t, top) /\ fs[n - 1] \in Frames
  BY <1>1, <1>4
<1> HIDE DEF n, gs, top
<1>6. TopOk(gs[n - 1], t, q)
  BY <1>1, <1>2, <1>3, <1>5, BelowIsTop
<1>7. ASSUME NEW i \in 1..(n - 1), NEW j \in 1..(n - 1), i < j PROVE Below(gs[i], t, gs[j].gc)
  <2>1. i \in 1..n /\ j \in 1..n
    BY <1>1
  <2>2. QED
    BY <1>2, <1>4, <1>7, <2>1
<1>8. QED
  BY <1>2, <1>6, <1>7 DEF StackInv, gs, n

(* The same three shapes, for what each frame refers to.                   *)
LEMMA PushedWell ==
  ASSUME NEW h, NEW S, NEW fs, AllWell(fs, h, S), NEW f, Well(f, h, S)
  PROVE  AllWell(Append(fs, f), h, S)
<1>1. fs \in Seq(Frames) /\ f \in Frames
  BY DEF AllWell, Well
<1>2. /\ Append(fs, f) \in Seq(Frames) /\ Len(Append(fs, f)) = Len(fs) + 1 /\ Len(fs) \in Nat
      /\ \A i \in 1..Len(fs) : Append(fs, f)[i] = fs[i]
      /\ Append(fs, f)[Len(fs) + 1] = f
  BY <1>1
<1> DEFINE gs == Append(fs, f)
<1> HIDE DEF gs
<1>3. ASSUME NEW i \in 1..Len(gs) PROVE Well(gs[i], h, S)
  <2>1. CASE i = Len(fs) + 1
    BY <1>2, <2>1 DEF gs
  <2>2. CASE i \in 1..Len(fs)
    BY <1>2, <2>2 DEF gs, AllWell
  <2>3. i = Len(fs) + 1 \/ i \in 1..Len(fs)
    BY <1>2 DEF gs
  <2>4. QED
    BY <2>1, <2>2, <2>3
<1>4. QED
  BY <1>2, <1>3 DEF AllWell, gs

LEMMA ReplacedWell ==
  ASSUME NEW h, NEW S, NEW fs, fs # <<>>, AllWell(fs, h, S), NEW f, Well(f, h, S)
  PROVE  AllWell([fs EXCEPT ![Len(fs)] = f], h, S)
<1>1. fs \in Seq(Frames) /\ f \in Frames
  BY DEF AllWell, Well
<1> DEFINE gs == [fs EXCEPT ![Len(fs)] = f]
<1>2. /\ gs \in Seq(Frames) /\ Len(gs) = Len(fs) /\ Len(fs) \in Nat
      /\ \A i \in 1..Len(fs) : gs[i] = IF i = Len(fs) THEN f ELSE fs[i]
  BY <1>1
<1> HIDE DEF gs
<1>3. \A i \in 1..Len(gs) : Well(gs[i], h, S)
  BY <1>2 DEF AllWell
<1>4. QED
  BY <1>2, <1>3 DEF AllWell, gs

LEMMA PoppedWell ==
  ASSUME NEW h, NEW S, NEW fs, Len(fs) > 1, AllWell(fs, h, S)
  PROVE  AllWell(Front(fs), h, S)
<1>1. fs \in Seq(Frames) /\ Len(fs) \in Nat
  BY DEF AllWell
<1>2. /\ Front(fs) \in Seq(Frames) /\ Len(Front(fs)) = Len(fs) - 1
      /\ \A i \in 1..(Len(fs) - 1) : Front(fs)[i] = fs[i]
  BY <1>1, SubSeqProperties DEF Front
<1>3. \A i \in 1..(Len(fs) - 1) : i \in 1..Len(fs)
  BY <1>1
<1>4. QED
  BY <1>2, <1>3 DEF AllWell

LEMMA WellKept ==
  ASSUME NEW h, NEW g, NEW S, NEW T, S \subseteq T, Evolves(h, g, S), NEW fs, AllWell(fs, h, S)
  PROVE  AllWell(fs, g, T)
<1>1. ASSUME NEW i \in 1..Len(fs) PROVE Well(fs[i], g, T)
  <2> DEFINE f == fs[i]
  <2>1. Well(f, h, S)
    BY DEF AllWell
  <2> HIDE DEF f
  <2>2. FrameRefs(f) \subseteq Opt(T)
    BY <2>1 DEF Well, Opt
  <2>3. f.op \in {"call", "bind"} => f.fn \in Opt(S)
    BY <2>1 DEF Well, FrameRefs, Callee
  <2>4. f.op = "setcar2" => f.va \in Opt(S)
    BY <2>1 DEF Well, FrameRefs, Operand
  <2>5. Sane(f, g)
    BY <2>1, <2>3, <2>4 DEF Well, Sane, Evolves, Opt
  <2>6. Well(f, g, T)
    BY <2>1, <2>2, <2>5 DEF Well
  <2>7. QED
    BY <2>6 DEF f
<1>2. QED
  BY <1>1 DEF AllWell

LEMMA Nested ==
  ASSUME NEW fs \in Seq(Frames), fs # <<>>, Nesting(fs)
  PROVE  /\ fs[Len(fs)].op # "form" => Len(fs) > 1 /\ Nesting(Front(fs))
         /\ \A f \in Frames : f.op # "form" /\ (f.op = "let" => fs[Len(fs)].op = "body")
                                => Nesting(Append(fs, f))
         /\ \A f \in Frames : f.op # "let" /\ (f.op = "form" <=> fs[Len(fs)].op = "form")
                                => Nesting([fs EXCEPT ![Len(fs)] = f])
<1>1. Len(fs) \in Nat /\ Len(fs) > 0
  BY EmptySeq, LenProperties
<1>2. ASSUME fs[Len(fs)].op # "form"
      PROVE  Len(fs) > 1 /\ Nesting(Front(fs))
  <2>1. Len(fs) > 1
    BY <1>1, <1>2 DEF Nesting
  <2>2. /\ Len(Front(fs)) = Len(fs) - 1
        /\ \A i \in 1..(Len(fs) - 1) : Front(fs)[i] = fs[i]
    BY <2>1, SubSeqProperties DEF Front
  <2>3. QED
    BY <1>1, <2>1, <2>2 DEF Nesting
<1>3. ASSUME NEW f \in Frames, f.op # "form", f.op = "let" => fs[Len(fs)].op = "body"
      PROVE  Nesting(Append(fs, f))
  <2>1. /\ Len(Append(fs, f)) = Len(fs) + 1
        /\ \A i \in 1..Len(fs) : Append(fs, f)[i] = fs[i]
        /\ Append(fs, f)[Len(fs) + 1] = f
    OBVIOUS
  <2>2. QED
    BY <1>1, <1>3, <2>1 DEF Nesting
<1>4. ASSUME NEW f \in Frames, f.op # "let", f.op = "form" <=> fs[Len(fs)].op = "form"
      PROVE  Nesting([fs EXCEPT ![Len(fs)] = f])
  <2> DEFINE gs == [fs EXCEPT ![Len(fs)] = f]
  <2>1. /\ Len(gs) = Len(fs)
        /\ \A i \in 1..Len(fs) : gs[i] = IF i = Len(fs) THEN f ELSE fs[i]
    OBVIOUS
  <2> HIDE DEF gs
  <2>2. Nesting(gs)
    BY <1>1, <1>4, <2>1 DEF Nesting
  <2>3. QED
    BY <2>2 DEF gs
<1>5. QED
  BY <1>2, <1>3, <1>4

-----------------------------------------------------------------------------
(***************************************************************************)
(* The heap                                                                *)
(***************************************************************************)
(* A cell in use is written: it is a pair afterwards.                      *)
Writes(h, S, b, a, d, g) ==
  /\ Sound(h, S) /\ b \in S /\ a \in Opt(S) /\ d \in Opt(S)
  /\ h[b].cdr # Nil => d # Nil
  /\ g = [h EXCEPT ![b] = [type |-> "pair", car |-> a, cdr |-> d]]

LEMMA Written ==
  ASSUME NEW h, NEW S, NEW b, NEW a, NEW d, NEW g, Writes(h, S, b, a, d, g)
  PROVE  Sound(g, S) /\ Evolves(h, g, S) /\ FreeTyped(g) = FreeTyped(h)
<1> DEFINE pair == [type |-> "pair", car |-> a, cdr |-> d]
<1> USE DEF Writes
<1>1. /\ S \subseteq Cells /\ h \in Heaps /\ b \in Cells /\ a \in Refs /\ d \in Refs
      /\ h[b].type # "free"
  BY DEF Sound, Opt, Refs, FreeTyped
<1>2. pair \in [type : Types, car : Refs, cdr : Refs] /\ pair.type = "pair" /\ pair.car = a /\ pair.cdr = d
  BY <1>1 DEF Types
<1> HIDE DEF pair
<1>3. g \in Heaps /\ g[b] = pair /\ \A c \in Cells : c # b => g[c] = h[c]
  BY <1>1, <1>2 DEF Heaps, pair
<1>4. FreeTyped(g) = FreeTyped(h)
  BY <1>1, <1>2, <1>3 DEF FreeTyped
<1>5. Kinds(g)
  BY <1>2, <1>3 DEF Sound, Kinds
<1>6. ClosedUnder(g, S)
  <2> SUFFICES ASSUME NEW c \in S PROVE Succ(g, c) \ {Nil} \subseteq S
    BY DEF ClosedUnder
  <2>1. CASE c = b
    BY <1>2, <1>3, <2>1 DEF Succ, Opt
  <2>2. CASE c # b
    BY <1>1, <1>3, <2>2 DEF Sound, ClosedUnder, Succ
  <2>3. QED
    BY <2>1, <2>2
<1>7. Evolves(h, g, S)
  BY <1>1, <1>2, <1>3 DEF Evolves
<1>8. QED
  BY <1>1, <1>3, <1>4, <1>5, <1>6, <1>7 DEF Sound

(* A new cell is filled in. *)
FillsIn(h, S, c, g) ==
  /\ Sound(h, S) /\ c \in Cells \ S
  /\ g \in Heaps /\ \A x \in Cells : x # c => g[x] = h[x]
  /\ g[c].type \in {"pair", "func"} /\ g[c].car \in Opt(S) /\ g[c].cdr \in Opt(S)
  /\ g[c].type = "func" => g[c].car = Nil /\ g[c].cdr # Nil

LEMMA Added ==
  ASSUME NEW h, NEW S, NEW c, NEW g, FillsIn(h, S, c, g)
  PROVE  Sound(g, S \cup {c}) /\ Evolves(h, g, S) /\ FreeTyped(g) = FreeTyped(h) \ {c}
<1> USE DEF FillsIn
<1>1. S \subseteq Cells /\ h \in Heaps
  BY DEF Sound
<1>2. FreeTyped(g) = FreeTyped(h) \ {c}
  BY <1>1 DEF FreeTyped
<1>3. Kinds(g)
  BY DEF Sound, Kinds
<1>4. ClosedUnder(g, S \cup {c})
  <2> SUFFICES ASSUME NEW x \in S \cup {c} PROVE Succ(g, x) \ {Nil} \subseteq S \cup {c}
    BY DEF ClosedUnder
  <2>1. CASE x = c
    BY <2>1 DEF Succ, Opt
  <2>2. CASE x # c
    BY <1>1, <2>2 DEF Sound, ClosedUnder, Succ
  <2>3. QED
    BY <2>1, <2>2
<1>5. Evolves(h, g, S)
  BY <1>1 DEF Evolves
<1>6. QED
  BY <1>1, <1>2, <1>3, <1>4, <1>5 DEF Sound

LEMMA CellsAreNotNil == Nil \notin Cells
  BY NAssumption DEF Cells, Nil

(* A cell that is in use refers only to what is in use. *)
LEMMA Fields ==
  ASSUME NEW h, NEW S, Sound(h, S), NEW x \in S
  PROVE  h[x].car \in Opt(S) /\ h[x].cdr \in Opt(S)
<1>1. h[x].type \in {"pair", "func"} /\ (h[x].type = "func" => h[x].car = Nil)
  BY DEF Sound, Kinds, FreeTyped
<1>2. Succ(h, x) \ {Nil} \subseteq S
  BY DEF Sound, ClosedUnder
<1>3. QED
  BY <1>1, <1>2 DEF Succ, Opt, CdrOnly

(* So an environment in use has its whole chain in use. *)
LEMMA ChainWithin ==
  ASSUME NEW h, NEW S, Sound(h, S), NEW e \in Opt(S)
  PROVE  Chain(h, e) \subseteq S
<1>1. h \in Heaps /\ S \in SUBSET Cells /\ e \in Refs
  BY DEF Sound, Opt, Refs
<1>2. \A c \in S : h[c].cdr \in S \cup {Nil}
  BY Fields DEF Opt
<1>3. e # Nil => e \in S
  BY DEF Opt
<1>4. QED
  BY <1>1, <1>2, <1>3, ChainLeast

LEMMA LiveFacts ==
  ASSUME IInv
  PROVE  /\ RootSet \subseteq Refs /\ InFlight \subseteq Refs
         /\ RootSet \subseteq Opt(Live) /\ InFlight \subseteq Opt(Live)
         /\ Reach(heap, RootSet) \subseteq Live
         /\ symlist \in Live /\ Live \subseteq Cells /\ gcstack \in Seq(Opt(Live))
<1>1. RootSet \subseteq Refs
  BY DEF IInv, HeapInv, RootSet, Refs
<1>2. InFlight \subseteq Refs
  <2>1. ctl.val \in Refs
    BY DEF IInv, CtlInv, Controls
  <2>2. \A i \in 1..Len(frames) : FrameRefs(frames[i]) \subseteq Refs
    BY DEF IInv, HeapInv, Sound, AllWell, Well, Opt, Refs
  <2>3. QED
    BY <2>1, <2>2 DEF InFlight, FrameRefs
<1>3. (RootSet \cup InFlight) \ {Nil} \subseteq Live
  BY <1>1, <1>2, RootsReachable DEF Live
<1>4. Reach(heap, RootSet) \subseteq Live
  BY ReachMonotone DEF Live
<1>5. symlist \in Live
  BY <1>3, CellsAreNotNil DEF IInv, HeapInv, RootSet
<1>6. Live \subseteq Cells
  BY DEF IInv, HeapInv, Sound
<1>7. gcstack \in Seq(Opt(Live))
  <2>1. gcstack \in Seq(Refs)
    BY DEF IInv, HeapInv
  <2>2. \A i \in 1..Len(gcstack) : gcstack[i] \in Opt(Live)
    BY <1>3 DEF RootSet, Opt
  <2>3. QED
    BY <2>1, <2>2
<1>8. QED
  BY <1>1, <1>2, <1>3, <1>4, <1>5, <1>6, <1>7 DEF Opt

(* A collection leaves alone whatever it does not sweep. *)
LEMMA Collected ==
  ASSUME IInv, NEW S, Sound(heap, S), Swept \cap S = {}
  PROVE  /\ Sound(HeapAfterGC, S)
         /\ Available \subseteq FreeTyped(HeapAfterGC)
         /\ \A x \in S : HeapAfterGC[x] = heap[x]
<1>1. S \subseteq Cells /\ heap \in Heaps /\ Swept \subseteq Cells
  BY DEF Sound, Swept, Garbage
<1>2. \A x \in Cells : HeapAfterGC[x] = IF x \in Swept THEN FreeCell ELSE heap[x]
  BY DEF HeapAfterGC
<1>3. HeapAfterGC \in Heaps
  BY <1>1 DEF HeapAfterGC, Heaps, FreeCell, Types, Refs
<1>4. FreeTyped(HeapAfterGC) = FreeTyped(heap) \cup Swept
  BY <1>1, <1>2 DEF FreeTyped, FreeCell
<1>5. \A x \in S : HeapAfterGC[x] = heap[x]
  BY <1>1, <1>2
<1>6. Kinds(HeapAfterGC)
  BY <1>1, <1>2 DEF Sound, Kinds, FreeCell
<1>7. ClosedUnder(HeapAfterGC, S)
  BY <1>1, <1>5 DEF Sound, ClosedUnder, Succ
<1>8. Available \subseteq FreeTyped(HeapAfterGC)
  BY <1>4 DEF Available, IInv, HeapInv
<1>9. S \cap FreeTyped(HeapAfterGC) = {}
  BY <1>1, <1>4 DEF Sound
<1>10. QED
  BY <1>1, <1>3, <1>5, <1>6, <1>7, <1>8, <1>9 DEF Sound

(* object() succeeds: the cell was not in use, and whatever was is still.  *)
LEMMA Allocated ==
  ASSUME IInv, NEW c \in Cells, Alloc(c)
  PROVE  /\ Sound(HeapAfterGC, Live) /\ c \in Cells \ Live
         /\ freelist' \subseteq FreeTyped(HeapAfterGC) \ {c}
         /\ \A x \in Live : HeapAfterGC[x] = heap[x]
         /\ Len(gcstack) < GCStackSize
<1>1. Sound(heap, Live) /\ Live \subseteq Cells /\ heap \in Heaps
  BY DEF IInv, HeapInv, Sound
<1>2. Swept \cap Live = {}
  <2>1. CASE freelist # {}
    BY <2>1 DEF Swept
  <2>2. CASE freelist = {}
    <3>1. \A x \in InFlight : x \in Reach(heap, RootSet) \cup {Nil}
      BY <2>2 DEF Alloc, Alive
    <3>2. RootSet \ {Nil} \subseteq Reach(heap, RootSet)
      BY LiveFacts, RootsReachable
    <3>3. ClosedUnder(heap, Reach(heap, RootSet))
      BY <1>1, ReachClosed DEF ClosedUnder
    <3>4. Reach(heap, RootSet) \in SUBSET Cells
      BY DEF Reach
    <3> DEFINE roots == RootSet \cup InFlight
    <3>5. roots \ {Nil} \subseteq Reach(heap, RootSet)
      BY <3>1, <3>2
    <3> HIDE DEF roots
    <3>6. Reach(heap, roots) \subseteq Reach(heap, RootSet)
      BY <3>3, <3>4, <3>5, ReachLeast
    <3>7. Live \subseteq Reach(heap, RootSet)
      BY <3>6 DEF Live, roots
    <3>8. QED
      BY <2>2, <3>7 DEF Swept, Garbage
  <2>3. QED
    BY <2>1, <2>2
<1>3. /\ Sound(HeapAfterGC, Live) /\ Available \subseteq FreeTyped(HeapAfterGC)
      /\ \A x \in Live : HeapAfterGC[x] = heap[x]
  BY <1>1, <1>2, Collected
<1>4. c \in Available /\ freelist' = Available \ {c} /\ Len(gcstack) < GCStackSize
  BY CellsAreNotNil DEF Alloc, Pop, Heads
<1>5. Live \cap FreeTyped(HeapAfterGC) = {}
  BY <1>3 DEF Sound
<1>6. QED
  BY <1>3, <1>4, <1>5

(* object() succeeds in making a cell: g is the heap that has it. *)
Makes(c, ty, a, d, g) ==
  /\ c \in Cells /\ Alloc(c)
  /\ ty \in {"pair", "func"} /\ a \in Opt(Live) /\ d \in Opt(Live)
  /\ ty = "func" => a = Nil /\ d # Nil
  /\ g = [HeapAfterGC EXCEPT ![c] = [type |-> ty, car |-> a, cdr |-> d]]

LEMMA Constructed ==
  ASSUME IInv, NEW c, NEW ty, NEW a, NEW d, NEW g, Makes(c, ty, a, d, g)
  PROVE  /\ Sound(g, Live \cup {c}) /\ Evolves(heap, g, Live)
         /\ freelist' \subseteq FreeTyped(g)
         /\ g[c].type = ty /\ g[c].car = a /\ g[c].cdr = d
         /\ c \in Cells \ Live /\ Len(gcstack) < GCStackSize
<1> DEFINE h == HeapAfterGC
           S == Live
           cell == [type |-> ty, car |-> a, cdr |-> d]
<1>1. /\ Sound(h, S) /\ c \in Cells \ S
      /\ freelist' \subseteq FreeTyped(h) \ {c}
      /\ \A x \in S : h[x] = heap[x]
      /\ Len(gcstack) < GCStackSize
  BY Allocated DEF Makes
<1>2. /\ g = [h EXCEPT ![c] = cell]
      /\ cell.type = ty /\ cell.car = a /\ cell.cdr = d
      /\ a \in Opt(S) /\ d \in Opt(S)
      /\ cell = [type |-> cell.type, car |-> cell.car, cdr |-> cell.cdr]
      /\ ty \in {"pair", "func"} /\ (ty = "func" => a = Nil /\ d # Nil)
  BY DEF Makes
<1> HIDE DEF h, S, cell
<1>3. /\ Sound(g, S \cup {c}) /\ Evolves(h, g, S)
      /\ FreeTyped(g) = FreeTyped(h) \ {c} /\ g[c] = cell
  <2>1. h \in Heaps /\ Opt(S) \subseteq Refs
    BY <1>1 DEF Sound, Opt, Refs
  <2>2. cell \in [type : Types, car : Refs, cdr : Refs]
    BY <1>2, <2>1 DEF Types
  <2>3. g \in Heaps /\ g[c] = cell /\ \A x \in Cells : x # c => g[x] = h[x]
    BY <1>1, <1>2, <2>1, <2>2 DEF Heaps
  <2>4. /\ g[c].type \in {"pair", "func"} /\ g[c].car \in Opt(S) /\ g[c].cdr \in Opt(S)
        /\ g[c].type = "func" => g[c].car = Nil /\ g[c].cdr # Nil
    BY <1>2, <2>3
  <2>5. FillsIn(h, S, c, g)
    <3>1. Sound(h, S) /\ c \in Cells \ S
      BY <1>1
    <3>2. QED
      BY <2>3, <2>4, <3>1 DEF FillsIn
  <2>6. QED
    BY <2>3, <2>5, Added
<1>4. Evolves(heap, g, S)
  BY <1>1, <1>3 DEF Evolves
<1>5. QED
  BY <1>1, <1>2, <1>3, <1>4 DEF S

(* What a step must keep, for any set that holds all that it leaves in use.*)
LEMMA Concluded ==
  ASSUME IInv, NEW S, Sound(heap', S), freelist' \subseteq FreeTyped(heap'),
         symlist' = symlist, symlist \in S, heap'[symlist].type = "pair",
         gcstack' \in Seq(Opt(S)), Len(gcstack') <= GCStackSize, count' \in 0..Budget,
         AllWell(frames', heap', S), CtlInv', ctl'.val \in Opt(S),
         StackInv(frames', gcstack', ctl'.pc), Nesting(frames')
  PROVE  IInv'
<1> DEFINE roots == RootSet' \cup InFlight'
<1>1. S \subseteq Cells /\ Opt(S) \subseteq Refs
  BY DEF Sound, Opt, Refs
<1>2. RootSet' \subseteq Opt(S)
  BY DEF RootSet, Opt
<1>3. InFlight' \subseteq Opt(S)
  BY DEF InFlight, AllWell, Well, FrameRefs
<1>4. roots \in SUBSET Refs /\ roots \ {Nil} \subseteq S
  BY <1>1, <1>2, <1>3 DEF Opt
<1>5. Live' = Reach(heap', roots)
  BY DEF Live
<1> HIDE DEF roots
<1>6. Live' \subseteq S
  BY <1>1, <1>4, <1>5, ReachLeast DEF Sound
<1>7. roots \ {Nil} \subseteq Live'
  BY <1>4, <1>5, RootsReachable
<1>8. ClosedUnder(heap', Live')
  BY <1>5, ReachClosed DEF ClosedUnder, Sound
<1>9. Sound(heap', Live')
  BY <1>1, <1>6, <1>8 DEF Sound
<1>10. \A i \in 1..Len(frames') : FrameRefs(frames'[i]) \subseteq Opt(Live')
  BY <1>7 DEF roots, InFlight, FrameRefs, Opt
<1>11. AllWell(frames', heap', Live')
  BY <1>10 DEF AllWell, Well
<1>12. gcstack' \in Seq(Refs)
  BY <1>1
<1>13. HeapInv'
  BY <1>1, <1>9, <1>12 DEF HeapInv
<1>14. QED
  BY <1>11, <1>13 DEF IInv

-----------------------------------------------------------------------------
(***************************************************************************)
(* The steps                                                               *)
(***************************************************************************)
LEMMA TopFacts ==
  ASSUME IInv, frames # <<>>
  PROVE  /\ frames \in Seq(Frames) /\ Len(frames) \in Nat /\ Len(frames) > 0
         /\ Top \in Frames /\ Well(Top, heap, Live) /\ TopOk(Top, gcstack, ctl.pc)
         /\ Top.gc \in Nat /\ Top.gc <= Len(gcstack) /\ Len(gcstack) \in Nat
<1>1. frames \in Seq(Frames) /\ Len(frames) \in Nat /\ Len(frames) > 0
  BY EmptySeq, LenProperties DEF IInv, AllWell
<1>2. Well(Top, heap, Live) /\ TopOk(Top, gcstack, ctl.pc)
  BY <1>1 DEF IInv, AllWell, StackInv, Top
<1>3. Top \in Frames
  BY <1>2 DEF Well
<1>4. Len(gcstack) \in Nat
  BY DEF IInv, HeapInv
<1>5. QED
  BY <1>1, <1>2, <1>3, <1>4 DEF TopOk, Frames

(* What the root stack holds is alive, and so is what it leads to. *)
LEMMA RootsAreSound ==
  ASSUME IInv
  PROVE  /\ Sound(heap, Reach(heap, RootSet))
         /\ symlist \in Reach(heap, RootSet)
         /\ \A x, n : n \in Int /\ n <= Len(gcstack) /\ Rooted(gcstack, x, n)
                        => x \in Opt(Reach(heap, RootSet))
<1>1. RootSet \ {Nil} \subseteq Reach(heap, RootSet)
  BY LiveFacts, RootsReachable
<1>2. ClosedUnder(heap, Reach(heap, RootSet))
  BY ReachClosed DEF IInv, HeapInv, Sound, ClosedUnder
<1>3. Sound(heap, Reach(heap, RootSet))
  BY <1>2, LiveFacts DEF IInv, HeapInv, Sound
<1>4. symlist \in Reach(heap, RootSet)
  BY <1>1, CellsAreNotNil DEF RootSet, IInv, HeapInv
<1>5. ASSUME NEW x, NEW n \in Int, n <= Len(gcstack), Rooted(gcstack, x, n)
      PROVE  x \in Opt(Reach(heap, RootSet))
  <2>1. \A k \in 1..n : k \in 1..Len(gcstack)
    BY <1>5 DEF IInv, HeapInv
  <2>2. x = Nil \/ x \in RootSet
    BY <1>5, <2>1 DEF Rooted, RootSet
  <2>3. QED
    BY <1>1, <2>2 DEF Opt
<1>6. QED
  BY <1>3, <1>4, <1>5

LEMMA KeepReadForm ==
  ASSUME IInv, ReadForm
  PROVE  IInv'
<1>1. PICK c \in Cells :
        /\ Alloc(c)
        /\ gcstack' = <<c>>
        /\ NewPair(c, Nil, Nil)
        /\ frames' = <<[op |-> "form", gc |-> 0, save |-> 0, env |-> Nil, code |-> c,
                        fn |-> Nil, va |-> Nil, args |-> Nil, tail |-> Nil]>>
  BY DEF ReadForm
<1>2. ctl' = Eval /\ UNCHANGED <<symlist, count>>
  BY DEF ReadForm
<1> DEFINE S == Live \cup {c}
           f == [op |-> "form", gc |-> 0, save |-> 0, env |-> Nil, code |-> c,
                 fn |-> Nil, va |-> Nil, args |-> Nil, tail |-> Nil]
<1>3. Nil \in Opt(Live)
  BY DEF Opt
<1>4. /\ Sound(heap', S) /\ freelist' \subseteq FreeTyped(heap') /\ Evolves(heap, heap', Live)
      /\ Len(gcstack) < GCStackSize
  <2>1. Makes(c, "pair", Nil, Nil, heap')
    BY <1>1, <1>3 DEF Makes, NewPair
  <2>2. QED
    BY <2>1, Constructed
<1>5. symlist \in Live /\ heap'[symlist].type = "pair"
  BY <1>4, LiveFacts DEF Evolves, IInv, HeapInv
<1>6. /\ f \in Frames /\ f.op = "form" /\ f.gc = 0 /\ f.env = Nil /\ f.code = c
      /\ f.args = Nil /\ f.tail = Nil
  <2>1. c \in Refs /\ Nil \in Refs /\ 0 \in 0..GCStackSize /\ "form" \in FrameOps
    BY AllocAssumption DEF Refs, FrameOps
  <2>2. QED
    BY <2>1 DEF Frames
<1>7. frames' = <<f>> /\ gcstack' = <<c>>
  BY <1>1
<1>8. Well(f, heap', S)
  BY <1>6 DEF Well, Sane, FrameRefs, Protected, Callee, Operand, Opt
<1> HIDE DEF f, S
<1>9. <<f>> \in Seq(Frames) /\ Len(<<f>>) = 1 /\ <<f>>[1] = f /\ <<f>> # <<>>
  BY <1>6
<1>10. AllWell(frames', heap', S)
  BY <1>7, <1>8, <1>9 DEF AllWell
<1>11. gcstack' \in Seq(Opt(S)) /\ Len(gcstack') = 1 /\ gcstack'[1] = c /\ 1 <= GCStackSize
  <2>1. c \in Opt(S)
    BY DEF Opt, S
  <2>2. Len(gcstack) \in Nat
    BY DEF IInv, HeapInv
  <2>3. QED
    BY <1>4, <1>7, <2>1, <2>2, AllocAssumption
<1>12. StackInv(frames', gcstack', ctl'.pc)
  <2>1. TopOk(f, gcstack', ctl'.pc)
    BY <1>6, <1>11 DEF TopOk, Body, AllRooted, Rooted, Callers, FrameOps
  <2>2. QED
    BY <1>7, <1>9, <2>1 DEF StackInv
<1>13. Nesting(frames')
  BY <1>6, <1>7, <1>9 DEF Nesting
<1>14. CtlInv'
  <2>1. ctl' \in Controls /\ ctl'.pc = "eval" /\ ctl'.val = Nil
    BY <1>2 DEF Eval, Controls, Refs
  <2>2. QED
    BY <1>7, <1>9, <2>1 DEF CtlInv
<1>15. ctl'.val \in Opt(S)
  BY <1>2 DEF Eval, Opt
<1>16. count' \in 0..Budget
  BY <1>2 DEF IInv, HeapInv
<1>17. symlist \in S
  BY <1>5 DEF S
<1>18. QED
  BY <1>2, <1>4, <1>5, <1>10, <1>11, <1>12, <1>13, <1>14, <1>15, <1>16, <1>17, Concluded

(* Nothing is written and nothing allocated: only the frames, the stack    *)
(* and the control change.                                                 *)
LEMMA Stepped ==
  ASSUME IInv, UNCHANGED <<heap, freelist, symlist>>, count' \in 0..Budget,
         gcstack' \in Seq(Opt(Live)), Len(gcstack') <= GCStackSize,
         AllWell(frames', heap, Live), CtlInv', ctl'.val \in Opt(Live),
         StackInv(frames', gcstack', ctl'.pc), Nesting(frames')
  PROVE  IInv'
<1>1. /\ Sound(heap', Live) /\ freelist' \subseteq FreeTyped(heap')
      /\ heap'[symlist].type = "pair"
  BY DEF IInv, HeapInv
<1>2. symlist \in Live
  BY LiveFacts
<1>3. QED
  BY <1>1, <1>2, Concluded

(* The value of a variable: the chain of a rooted environment is alive.    *)
LEMMA KeepEvalAtom ==
  ASSUME IInv, EvalAtom
  PROVE  IInv'
<1>1. /\ ctl.pc = "eval" /\ count < Budget /\ count' = count + 1
      /\ UNCHANGED <<heap, freelist, gcstack, symlist, frames>>
  BY DEF EvalAtom, Enter
<1>2. PICK v \in {Nil, heap[symlist].car} \cup {heap[e].car : e \in Chain(heap, Top.env)} :
        ctl' = Return(v)
  BY DEF EvalAtom
<1>3. frames # <<>>
  BY <1>1 DEF IInv, CtlInv
<1> DEFINE R == Reach(heap, RootSet)
<1>4. Sound(heap, R) /\ symlist \in R /\ R \subseteq Live
  BY RootsAreSound, LiveFacts
<1>5. Top.env \in Opt(R)
  <2>1. Rooted(gcstack, Top.env, Len(gcstack)) /\ Len(gcstack) \in Int
    BY <1>1, <1>3, TopFacts DEF TopOk, AllRooted
  <2>2. QED
    BY <2>1, RootsAreSound
<1> HIDE DEF R
<1>6. v \in Opt(R)
  BY <1>4, <1>5, ChainWithin, Fields DEF Opt
<1>7. ctl' \in Controls /\ ctl'.pc = "return" /\ ctl'.val = v
  BY <1>2, <1>4, <1>6 DEF Return, Controls, Opt, Refs, Sound
<1>8. RootSet' = RootSet
  BY <1>1 DEF RootSet
<1>9. CtlInv'
  BY <1>1, <1>3, <1>6, <1>7, <1>8 DEF CtlInv, R
<1>10. StackInv(frames', gcstack', ctl'.pc)
  BY <1>1, <1>7 DEF IInv, StackInv, TopOk
<1>11. /\ AllWell(frames', heap, Live) /\ Nesting(frames')
       /\ gcstack' \in Seq(Opt(Live)) /\ Len(gcstack') <= GCStackSize
  BY <1>1, LiveFacts DEF IInv, HeapInv
<1>12. count' \in 0..Budget
  BY <1>1, EvalAssumption DEF IInv, HeapInv
<1>13. ctl'.val \in Opt(Live)
  BY <1>4, <1>6, <1>7 DEF Opt
<1>14. QED
  BY <1>1, <1>9, <1>10, <1>11, <1>12, <1>13, Stepped

LEMMA KeepEvalForm ==
  ASSUME IInv, NEW op \in {"callee", "list", "body", "cons", "setcar", "set", "let", "fn"},
         NEW next, EvalForm(op, next),
         (next = Eval /\ op \in Callers) \/ next = Step,
         op = "let" => Top.op = "body"
  PROVE  IInv'
<1> DEFINE f == [op |-> op, gc |-> Len(gcstack), save |-> Len(gcstack),
                 env |-> Top.env, code |-> Top.code,
                 fn |-> Nil, va |-> Nil, args |-> Nil, tail |-> Nil]
<1>1. /\ ctl.pc = "eval" /\ count < Budget /\ count' = count + 1
      /\ frames' = Append(frames, f) /\ ctl' = next
      /\ UNCHANGED <<heap, freelist, gcstack, symlist>>
  BY DEF EvalForm, Enter
<1>2. frames # <<>>
  BY <1>1 DEF IInv, CtlInv
<1>3. /\ Len(gcstack) \in 0..GCStackSize
      /\ Top.env \in Opt(Live) /\ Top.code \in Opt(Live)
      /\ Rooted(gcstack, Top.env, Len(gcstack)) /\ Rooted(gcstack, Top.code, Len(gcstack))
  BY <1>1, <1>2, TopFacts DEF IInv, HeapInv, TopOk, AllRooted, Well, FrameRefs, Protected
<1>4. /\ f.op = op /\ f.gc = Len(gcstack) /\ f.save = Len(gcstack)
      /\ f.env = Top.env /\ f.code = Top.code /\ f.args = Nil /\ f.tail = Nil
  OBVIOUS
<1>5. f \in Frames
  <2>1. Nil \in Refs /\ Top.env \in Refs /\ Top.code \in Refs
    BY <1>2, TopFacts DEF Refs, Frames
  <2>2. op \in FrameOps
    BY DEF FrameOps
  <2>3. QED
    BY <1>3, <2>1, <2>2 DEF Frames
<1>6. Well(f, heap, Live)
  BY <1>3, <1>5 DEF Well, Sane, FrameRefs, Protected, Callee, Operand, Opt
<1> HIDE DEF f
<1>7. AllWell(frames', heap, Live)
  BY <1>1, <1>6, PushedWell DEF IInv
<1>8. ctl' \in Controls /\ ctl'.val = Nil /\ ctl'.pc \in {"eval", "step"}
      /\ (ctl'.pc = "eval" => op \in Callers)
  BY <1>1 DEF Eval, Step, Controls, Refs
<1>9. frames' # <<>>
  BY <1>1, <1>2, <1>5, TopFacts
<1>10. CtlInv'
  BY <1>8, <1>9 DEF CtlInv
<1>11. StackInv(frames', gcstack', ctl'.pc)
  <2>1. TopOk(f, gcstack, ctl'.pc)
    BY <1>3, <1>4, <1>8 DEF TopOk, Body, AllRooted, Rooted
  <2>2. gcstack \in Seq(Refs) /\ frames \in Seq(Frames)
    BY <1>2, TopFacts DEF IInv, HeapInv
  <2>3. StackInv(frames, gcstack, "eval")
    BY <1>1 DEF IInv
  <2>4. StackInv(Append(frames, f), gcstack, ctl'.pc)
    BY <1>2, <1>4, <1>5, <2>1, <2>2, <2>3, PushedFrame
  <2>5. QED
    BY <1>1, <2>4
<1>12. Nesting(frames')
  <2>1. f.op # "form" /\ (f.op = "let" => frames[Len(frames)].op = "body")
    BY <1>4 DEF Top
  <2>2. QED
    BY <1>1, <1>2, <1>5, <2>1, TopFacts, Nested DEF IInv
<1>13. count' \in 0..Budget
  BY <1>1, EvalAssumption DEF IInv, HeapInv
<1>14. gcstack' \in Seq(Opt(Live)) /\ Len(gcstack') <= GCStackSize /\ ctl'.val \in Opt(Live)
  BY <1>1, <1>8, LiveFacts DEF IInv, HeapInv, Opt
<1>15. QED
  BY <1>1, <1>7, <1>10, <1>11, <1>12, <1>13, <1>14, Stepped

LEMMA KeepEvalCompound ==
  ASSUME IInv, EvalCompound
  PROVE  IInv'
<1>1. CASE \E op \in {"callee", "cons", "setcar", "set"} : EvalForm(op, Eval)
  BY <1>1, KeepEvalForm DEF Callers, FrameOps
<1>2. CASE \E op \in {"list", "body", "fn"} : EvalForm(op, Step)
  BY <1>2, KeepEvalForm
<1>3. CASE At("eval", {"body"}) /\ EvalForm("let", Eval)
  BY <1>3, KeepEvalForm DEF Callers, FrameOps, At
<1>4. QED
  BY <1>1, <1>2, <1>3 DEF EvalCompound

(* The innermost frame goes on to another place; S is what stays in use.   *)
LEMMA TopGoesOn ==
  ASSUME IInv, frames # <<>>, NEW f, Update(f), f.gc = Top.gc,
         f.op # "let", f.op = "form" <=> Top.op = "form",
         NEW S, Live \subseteq S, Sound(heap', S), Evolves(heap, heap', Live), Well(f, heap', S),
         freelist' \subseteq FreeTyped(heap'), symlist' = symlist, count' = count,
         gcstack' \in Seq(Opt(S)), Len(gcstack') <= GCStackSize,
         \A k \in 1..Top.gc : gcstack'[k] = gcstack[k],
         ctl' \in {Eval, Step}, TopOk(f, gcstack', ctl'.pc)
  PROVE  IInv'
<1>1. /\ frames \in Seq(Frames) /\ frames' = [frames EXCEPT ![Len(frames)] = f]
      /\ f \in Frames /\ Len(frames) \in Nat /\ Len(frames) > 0
  BY TopFacts DEF Update, Well
<1>2. AllWell(frames, heap', S)
  BY WellKept DEF IInv
<1>3. AllWell(frames', heap', S)
  BY <1>1, <1>2, ReplacedWell
<1>4. StackInv(frames', gcstack', ctl'.pc)
  BY <1>1, ReplacedTop DEF IInv, Top
<1>5. Nesting(frames')
  BY <1>1, Nested DEF IInv, Top
<1>6. frames' # <<>>
  <2>1. Len(frames') = Len(frames)
    BY <1>1
  <2>2. QED
    BY <1>1, <2>1
<1>7. ctl' \in Controls /\ ctl'.val = Nil /\ ctl'.pc \in {"eval", "step"}
  BY DEF Eval, Step, Controls, Refs
<1>8. CtlInv'
  BY <1>6, <1>7 DEF CtlInv
<1>9. symlist \in S /\ heap'[symlist].type = "pair"
  BY LiveFacts DEF Evolves, IInv, HeapInv
<1>10. count' \in 0..Budget /\ ctl'.val \in Opt(S)
  BY <1>7 DEF IInv, HeapInv, Opt
<1>11. QED
  BY <1>3, <1>4, <1>5, <1>8, <1>9, <1>10, Concluded

(* ... without an allocation. *)
LEMMA TopMoves ==
  ASSUME IInv, frames # <<>>, NEW f, Update(f), f.gc = Top.gc,
         f.op # "let", f.op = "form" <=> Top.op = "form", Well(f, heap, Live),
         UNCHANGED <<heap, freelist, gcstack, symlist, count>>,
         ctl' \in {Eval, Step}, TopOk(f, gcstack, ctl'.pc)
  PROVE  IInv'
<1>1. Evolves(heap, heap', Live)
  BY DEF Evolves
<1>2. Sound(heap', Live) /\ freelist' \subseteq FreeTyped(heap') /\ Len(gcstack') <= GCStackSize
  BY DEF IInv, HeapInv
<1>3. gcstack' \in Seq(Opt(Live)) /\ Live \subseteq Live
  BY LiveFacts
<1>4. \A k \in 1..Top.gc : gcstack'[k] = gcstack[k]
  OBVIOUS
<1>5. TopOk(f, gcstack', ctl'.pc) /\ Well(f, heap', Live)
  OBVIOUS
<1>6. QED
  BY <1>1, <1>2, <1>3, <1>4, <1>5, TopGoesOn

(* The innermost frame leaves res to the one below it. *)
LEMMA Exited ==
  ASSUME IInv, frames # <<>>, Top.op # "form", NEW res, Exit(res), symlist' = symlist,
         NEW S, Live \subseteq S, Sound(heap', S), Evolves(heap, heap', Live), res \in Opt(S)
  PROVE  /\ gcstack' \in Seq(Opt(S)) /\ Len(gcstack') <= GCStackSize
         /\ Len(frames) > 1 /\ Front(frames) \in Seq(Frames) /\ Len(Front(frames)) = Len(frames) - 1
         /\ Front(frames)[Len(frames) - 1] = frames[Len(frames) - 1]
         /\ AllWell(Front(frames), heap', S) /\ Nesting(Front(frames))
         /\ StackInv(Front(frames), gcstack', "return")
         /\ ctl' \in Controls /\ ctl'.pc = "return" /\ ctl'.val = res
         /\ res \in Opt(Reach(heap', RootSet'))
         /\ symlist \in S /\ heap'[symlist].type = "pair"
<1>1. /\ frames \in Seq(Frames) /\ Len(frames) > 1 /\ Len(frames) \in Nat
      /\ Top.gc \in Nat /\ Top.gc <= Len(gcstack)
  BY TopFacts, Nested DEF IInv, Top
<1>2. /\ Top.gc < GCStackSize /\ gcstack' = Append(Upto(Top.gc), res) /\ ctl' = Return(res)
  BY DEF Exit
<1>3. gcstack \in Seq(Opt(S)) /\ Opt(S) \subseteq Refs
  BY LiveFacts DEF Opt, Sound, Refs
<1>4. /\ gcstack' \in Seq(Opt(S)) /\ Len(gcstack') = Top.gc + 1 /\ gcstack'[Top.gc + 1] = res
      /\ \A k \in 1..Top.gc : gcstack'[k] = gcstack[k]
  <2>1. /\ Upto(Top.gc) \in Seq(Opt(S)) /\ Len(Upto(Top.gc)) = Top.gc
        /\ \A k \in 1..Top.gc : Upto(Top.gc)[k] = gcstack[k]
    BY <1>1, <1>3, SubSeqProperties DEF Upto
  <2> DEFINE u == Upto(Top.gc)
  <2>2. gcstack' = Append(u, res) /\ u \in Seq(Opt(S)) /\ Len(u) = Top.gc
        /\ \A k \in 1..Top.gc : u[k] = gcstack[k]
    BY <1>2, <2>1
  <2> HIDE DEF u
  <2>3. QED
    BY <1>1, <2>2
<1>5. AllWell(Front(frames), heap', S)
  BY <1>1, WellKept, PoppedWell DEF IInv
<1>6. /\ StackInv(Front(frames), gcstack', "return") /\ Front(frames) \in Seq(Frames)
      /\ Len(Front(frames)) = Len(frames) - 1
      /\ Front(frames)[Len(frames) - 1] = frames[Len(frames) - 1]
  <2>1. gcstack \in Seq(Refs) /\ gcstack' \in Seq(Refs)
    BY <1>3, <1>4
  <2>2. StackInv(frames, gcstack, ctl.pc)
    BY DEF IInv
  <2>3. /\ \A k \in 1..frames[Len(frames)].gc : gcstack'[k] = gcstack[k]
        /\ frames[Len(frames)].gc <= Len(gcstack')
    BY <1>1, <1>4 DEF Top
  <2>4. Len(frames) - 1 \in 1..(Len(frames) - 1)
    BY <1>1
  <2>5. QED
    BY <1>1, <2>1, <2>2, <2>3, <2>4, PoppedFrame
<1>7. Nesting(Front(frames))
  BY <1>1, Nested DEF IInv, Top
<1>8. ctl' \in Controls /\ ctl'.val = res /\ ctl'.pc = "return"
  BY <1>2, <1>3 DEF Return, Controls
<1>9. res \in Opt(Reach(heap', RootSet'))
  <2>1. RootSet' \subseteq Refs /\ res \in RootSet'
    <3>1. symlist' \in Refs
      BY DEF IInv, HeapInv, Refs
    <3>2. Top.gc + 1 \in 1..Len(gcstack')
      BY <1>1, <1>4
    <3>3. res \in RootSet'
      BY <1>4, <3>2 DEF RootSet
    <3>4. QED
      BY <1>3, <1>4, <3>1, <3>3 DEF RootSet
  <2> DEFINE roots == RootSet'
  <2>2. roots \in SUBSET Refs
    BY <2>1
  <2> HIDE DEF roots
  <2>3. roots \ {Nil} \subseteq Reach(heap', roots)
    BY <2>2, RootsReachable
  <2>4. QED
    BY <2>1, <2>3 DEF roots, Opt
<1>10. symlist \in S /\ heap'[symlist].type = "pair"
  BY LiveFacts DEF Evolves, IInv, HeapInv
<1>11. Len(gcstack') <= GCStackSize
  BY <1>1, <1>2, <1>4, AllocAssumption
<1>12. QED
  BY <1>1, <1>4, <1>5, <1>6, <1>7, <1>8, <1>9, <1>10, <1>11

LEMMA TopReturns ==
  ASSUME IInv, frames # <<>>, Top.op # "form", NEW res, Exit(res), symlist' = symlist,
         NEW S, Live \subseteq S, Sound(heap', S), Evolves(heap, heap', Live), res \in Opt(S),
         freelist' \subseteq FreeTyped(heap'), count' = count, frames' = Front(frames)
  PROVE  IInv'
<1>1. /\ gcstack' \in Seq(Opt(S)) /\ Len(gcstack') <= GCStackSize
      /\ Len(frames') > 0
      /\ AllWell(frames', heap', S) /\ Nesting(frames')
      /\ StackInv(frames', gcstack', "return")
      /\ ctl' \in Controls /\ ctl'.pc = "return" /\ ctl'.val = res
      /\ res \in Opt(Reach(heap', RootSet'))
      /\ symlist \in S /\ heap'[symlist].type = "pair"
  BY Exited, TopFacts
<1>2. CtlInv'
  <2>1. frames' # <<>>
    BY <1>1
  <2>2. QED
    BY <1>1, <2>1 DEF CtlInv
<1>3. count' \in 0..Budget
  BY DEF IInv, HeapInv
<1>4. QED
  BY <1>1, <1>2, <1>3, Concluded

-----------------------------------------------------------------------------
LEMMA KeepGotCallee ==
  ASSUME IInv, GotCallee
  PROVE  IInv'
<1> DEFINE f == [Top EXCEPT !.op = "call", !.fn = ctl.val]
<1>1. /\ ctl.pc = "return" /\ frames # <<>> /\ Top.op = "callee"
      /\ ctl.val # Nil /\ heap[ctl.val].type = "func"
      /\ Update(f) /\ ctl' = Step
      /\ UNCHANGED <<heap, freelist, gcstack, symlist, count>>
  BY DEF GotCallee, At, IsA
<1>2. Top \in Frames /\ Well(Top, heap, Live) /\ TopOk(Top, gcstack, "return")
  BY <1>1, TopFacts
<1>3. ctl.val \in Live /\ heap[ctl.val].cdr # Nil /\ ctl.val \in Refs
  <2>1. ctl.val \in Opt(Live)
    BY LiveFacts DEF InFlight
  <2>2. ctl.val \in Cells /\ ctl.val \in Live
    BY <1>1, <2>1, LiveFacts DEF Opt
  <2>3. QED
    BY <1>1, <2>2 DEF IInv, HeapInv, Sound, Kinds, Refs
<1>4. /\ f \in Frames /\ f.op = "call" /\ f.fn = ctl.val /\ f.gc = Top.gc
      /\ f.env = Top.env /\ f.code = Top.code /\ f.args = Top.args /\ f.tail = Top.tail
  BY <1>2, <1>3 DEF Frames, FrameOps
<1> HIDE DEF f
<1>5. Well(f, heap, Live)
  <2>1. /\ {Top.env, Top.code, Top.args, Top.tail} \subseteq Opt(Live)
        /\ Top.args # Nil => Top.tail # Nil
    BY <1>2 DEF Well, Sane, FrameRefs, Protected
  <2>2. Sane(f, heap)
    BY <1>1, <1>3, <1>4, <2>1 DEF Sane
  <2>3. FrameRefs(f) \subseteq Opt(Live)
    BY <1>3, <1>4, <2>1 DEF FrameRefs, Protected, Callee, Operand, Opt
  <2>4. QED
    BY <1>4, <2>2, <2>3 DEF Well
<1>6. TopOk(f, gcstack, ctl'.pc)
  BY <1>1, <1>2, <1>4 DEF TopOk, AllRooted, Body, Callers, Step
<1>7. QED
  BY <1>1, <1>4, <1>5, <1>6, TopMoves

LEMMA KeepNextArg ==
  ASSUME IInv, NextArg
  PROVE  IInv'
<1>1. /\ ctl.pc = "step" /\ frames # <<>> /\ Top.op \in {"call", "list"}
      /\ ctl' = Eval
      /\ UNCHANGED <<heap, freelist, gcstack, symlist, frames, count>>
  BY DEF NextArg, At
<1>2. Top \in Frames /\ Well(Top, heap, Live) /\ TopOk(Top, gcstack, "step")
  BY <1>1, TopFacts
<1>3. Update(Top)
  BY <1>1, TopFacts DEF Update, Top
<1>4. TopOk(Top, gcstack, ctl'.pc)
  BY <1>1, <1>2 DEF TopOk, Eval, Callers, FrameOps
<1>5. QED
  BY <1>1, <1>2, <1>3, <1>4, TopMoves

LEMMA KeepArgsDone ==
  ASSUME IInv, ArgsDone
  PROVE  IInv'
<1> DEFINE f == [Top EXCEPT !.op = "bind"]
<1>1. /\ ctl.pc = "step" /\ frames # <<>> /\ Top.op = "call"
      /\ Update(f)
      /\ UNCHANGED <<heap, freelist, gcstack, symlist, ctl, count>>
  BY DEF ArgsDone, At
<1>2. Top \in Frames /\ Well(Top, heap, Live) /\ TopOk(Top, gcstack, "step")
  BY <1>1, TopFacts
<1>3. /\ f \in Frames /\ f.op = "bind" /\ f.fn = Top.fn /\ f.gc = Top.gc
      /\ f.env = Top.env /\ f.code = Top.code /\ f.args = Top.args /\ f.tail = Top.tail
  BY <1>2 DEF Frames, FrameOps
<1> HIDE DEF f
<1>4. Well(f, heap, Live)
  BY <1>1, <1>2, <1>3 DEF Well, Sane, FrameRefs, Protected, Callee, Operand, Opt
<1>5. TopOk(f, gcstack, ctl'.pc)
  BY <1>1, <1>2, <1>3 DEF TopOk, AllRooted, Body
<1>6. ctl' = Step
  BY <1>1 DEF IInv, CtlInv, Controls, Step
<1>7. QED
  BY <1>1, <1>3, <1>4, <1>5, <1>6, TopMoves

LEMMA KeepGotOperand ==
  ASSUME IInv, GotOperand
  PROVE  IInv'
<1> DEFINE f == [Top EXCEPT !.op = IF @ = "cons" THEN "cons2" ELSE "setcar2", !.va = ctl.val]
<1>1. /\ ctl.pc = "return" /\ frames # <<>> /\ Top.op \in {"cons", "setcar"}
      /\ Top.op = "setcar" => ctl.val # Nil /\ heap[ctl.val].type = "pair"
      /\ Update(f) /\ ctl' = Eval
      /\ UNCHANGED <<heap, freelist, gcstack, symlist, count>>
  BY DEF GotOperand, At, IsA
<1>2. Top \in Frames /\ Well(Top, heap, Live) /\ TopOk(Top, gcstack, "return")
  BY <1>1, TopFacts
<1>3. ctl.val \in Opt(Live) /\ ctl.val \in Refs
  BY LiveFacts DEF InFlight
<1>4. /\ f \in Frames /\ f.op \in {"cons2", "setcar2"} /\ f.va = ctl.val /\ f.gc = Top.gc
      /\ f.env = Top.env /\ f.code = Top.code /\ f.args = Top.args /\ f.tail = Top.tail
      /\ f.op = "setcar2" => Top.op = "setcar"
  BY <1>1, <1>2, <1>3 DEF Frames, FrameOps
<1> HIDE DEF f
<1>5. Well(f, heap, Live)
  BY <1>1, <1>2, <1>3, <1>4 DEF Well, Sane, FrameRefs, Protected, Callee, Operand
<1>6. TopOk(f, gcstack, ctl'.pc)
  BY <1>1, <1>2, <1>4 DEF TopOk, AllRooted, Body, Callers, FrameOps, Eval
<1>7. QED
  BY <1>1, <1>4, <1>5, <1>6, TopMoves

(* The innermost frame goes on with a new cell on the root stack. *)
LEMMA TopGrows ==
  ASSUME IInv, frames # <<>>, NEW c, c \in Cells \ Live, gcstack' = Append(gcstack, c),
         Len(gcstack) < GCStackSize,
         NEW f, Update(f), f.gc = Top.gc, f.op # "let", f.op = "form" <=> Top.op = "form",
         Sound(heap', Live \cup {c}), Evolves(heap, heap', Live), Well(f, heap', Live \cup {c}),
         freelist' \subseteq FreeTyped(heap'), symlist' = symlist, count' = count,
         ctl' = Step, f.op # "body" => AllRooted(f, gcstack', Len(gcstack) + 1),
         Body(f, gcstack', Len(gcstack) + 1),
         f.op = "fn2" => Rooted(gcstack', f.va, Len(gcstack) + 1)
  PROVE  IInv'
<1> DEFINE S == Live \cup {c}
<1>1. Live \subseteq S /\ c \in Opt(S) /\ Opt(Live) \subseteq Opt(S)
  BY DEF Opt
<1>2. Sound(heap', S) /\ Well(f, heap', S)
  OBVIOUS
<1> HIDE DEF S
<1>3. gcstack \in Seq(Opt(S)) /\ gcstack' = Append(gcstack, c) /\ Len(gcstack) \in Nat
  BY <1>1, LiveFacts, TopFacts
<1>4. /\ gcstack' \in Seq(Opt(S)) /\ Len(gcstack') = Len(gcstack) + 1
      /\ \A k \in 1..Len(gcstack) : gcstack'[k] = gcstack[k]
  BY <1>1, <1>3
<1>5. Top.gc \in Nat /\ Top.gc <= Len(gcstack)
  BY TopFacts
<1>6. \A k \in 1..Top.gc : gcstack'[k] = gcstack[k]
  BY <1>3, <1>4, <1>5
<1>7. Len(gcstack') <= GCStackSize
  BY <1>3, <1>4, AllocAssumption
<1>8. TopOk(f, gcstack', ctl'.pc)
  <2>1. f.gc <= Len(gcstack')
    BY <1>3, <1>4, <1>5
  <2>2. ctl'.pc = "step"
    BY DEF Step
  <2>3. QED
    BY <1>4, <2>1, <2>2 DEF TopOk
<1>9. ctl' \in {Eval, Step}
  OBVIOUS
<1>10. QED
  BY <1>1, <1>2, <1>4, <1>6, <1>7, <1>8, <1>9, TopGoesOn

LEMMA KeepFnEnv ==
  ASSUME IInv, FnEnv
  PROVE  IInv'
<1>1. /\ ctl.pc = "step" /\ frames # <<>> /\ Top.op = "fn" /\ UNCHANGED <<symlist, ctl, count>>
  BY DEF FnEnv, At
<1>2. PICK c \in Cells :
        /\ Alloc(c)
        /\ gcstack' = Append(gcstack, c)
        /\ NewPair(c, Top.env, Top.code)
        /\ Update([Top EXCEPT !.op = "fn2", !.va = c])
  BY DEF FnEnv
<1> DEFINE f == [Top EXCEPT !.op = "fn2", !.va = c]
<1>3. Top \in Frames /\ Well(Top, heap, Live) /\ TopOk(Top, gcstack, "step")
  BY <1>1, TopFacts
<1>4. /\ {Top.env, Top.code, Top.args, Top.tail} \subseteq Opt(Live)
      /\ Top.args # Nil => Top.tail # Nil
  BY <1>3 DEF Well, Sane, FrameRefs, Protected
<1>5. /\ Sound(heap', Live \cup {c}) /\ Evolves(heap, heap', Live)
      /\ freelist' \subseteq FreeTyped(heap')
      /\ c \in Cells \ Live /\ Len(gcstack) < GCStackSize
  <2>1. Makes(c, "pair", Top.env, Top.code, heap')
    BY <1>2, <1>4 DEF Makes, NewPair
  <2>2. QED
    BY <2>1, Constructed
<1>6. /\ f \in Frames /\ f.op = "fn2" /\ f.va = c /\ f.gc = Top.gc
      /\ f.env = Top.env /\ f.code = Top.code /\ f.args = Top.args /\ f.tail = Top.tail
  BY <1>3, <1>2 DEF Frames, FrameOps, Refs
<1>7. Update(f) /\ gcstack' = Append(gcstack, c)
  BY <1>2
<1> HIDE DEF f
<1>8. Well(f, heap', Live \cup {c})
  <2>1. Sane(f, heap')
    BY <1>2, <1>4, <1>6, CellsAreNotNil DEF Sane
  <2>2. FrameRefs(f) \subseteq Opt(Live \cup {c})
    BY <1>4, <1>6 DEF FrameRefs, Protected, Callee, Operand, Opt
  <2>3. QED
    BY <1>6, <2>1, <2>2 DEF Well
<1>9. /\ AllRooted(f, gcstack', Len(gcstack) + 1) /\ Rooted(gcstack', f.va, Len(gcstack) + 1)
  <2>1. gcstack \in Seq(Refs) /\ c \in Refs
    BY <1>2 DEF IInv, HeapInv, Refs
  <2>2. AllRooted(Top, gcstack, Len(gcstack))
    BY <1>1, <1>3 DEF TopOk
  <2>3. QED
    BY <1>6, <1>7, <2>1, <2>2, RootedPush DEF AllRooted
<1>10. Body(f, gcstack', Len(gcstack) + 1)
  BY <1>6 DEF Body
<1>11. ctl' = Step
  BY <1>1 DEF IInv, CtlInv, Controls, Step
<1>12. QED
  BY <1>1, <1>5, <1>6, <1>7, <1>8, <1>9, <1>10, <1>11, TopGrows

(* A heap that has evolved still suits the frames that were well before. *)
LEMMA FrameKept ==
  ASSUME NEW h, NEW g, NEW S, NEW T, S \subseteq T, Evolves(h, g, S), NEW f, Well(f, h, S)
  PROVE  Well(f, g, T)
<1>1. FrameRefs(f) \subseteq Opt(T)
  BY DEF Well, Opt
<1>2. f.op \in {"call", "bind"} => f.fn \in Opt(S)
  BY DEF Well, FrameRefs, Callee
<1>3. f.op = "setcar2" => f.va \in Opt(S)
  BY DEF Well, FrameRefs, Operand
<1>4. Sane(f, g)
  BY <1>2, <1>3 DEF Well, Sane, Evolves, Opt
<1>5. QED
  BY <1>1, <1>4 DEF Well

LEMMA KeepGotArg ==
  ASSUME IInv, GotArg
  PROVE  IInv'
<1>1. /\ ctl.pc = "return" /\ frames # <<>> /\ Top.op \in {"call", "list"}
      /\ ctl' = Step /\ UNCHANGED <<symlist, count>>
  BY DEF GotArg, At
<1>2. PICK c \in Cells :
        LET cell == [type |-> "pair", car |-> ctl.val, cdr |-> Nil]
            grown == [HeapAfterGC EXCEPT ![c] = cell]
        IN /\ Alloc(c)
           /\ gcstack' = Append(gcstack, c)
           /\ \/ /\ Top.args = Nil
                 /\ heap' = grown
                 /\ Update([Top EXCEPT !.args = c, !.tail = c])
              \/ /\ Top.args # Nil
                 /\ heap' = [grown EXCEPT ![Top.tail] =
                               [type |-> "pair", car |-> grown[Top.tail].car, cdr |-> c]]
                 /\ Update([Top EXCEPT !.tail = c])
  BY DEF GotArg
<1> DEFINE grown == [HeapAfterGC EXCEPT ![c] = [type |-> "pair", car |-> ctl.val, cdr |-> Nil]]
           S == Live \cup {c}
           args == IF Top.args = Nil THEN c ELSE Top.args
           f == [Top EXCEPT !.args = args, !.tail = c]
<1>3. /\ Alloc(c) /\ gcstack' = Append(gcstack, c)
      /\ Top.args = Nil => heap' = grown
      /\ Top.args # Nil => heap' = [grown EXCEPT ![Top.tail] =
                                      [type |-> "pair", car |-> grown[Top.tail].car, cdr |-> c]]
  BY <1>2
<1>4. Top \in Frames /\ Well(Top, heap, Live) /\ TopOk(Top, gcstack, "return")
  BY <1>1, TopFacts
<1>5. Update(f)
  <2>1. CASE Top.args = Nil
    BY <1>2, <2>1
  <2>2. CASE Top.args # Nil
    <3>1. f = [Top EXCEPT !.tail = c]
      BY <1>4, <2>2 DEF Frames
    <3>2. QED
      BY <1>2, <2>2, <3>1
  <2>3. QED
    BY <2>1, <2>2
<1>6. /\ {Top.env, Top.code, Top.args, Top.tail} \subseteq Opt(Live)
      /\ Top.args # Nil => Top.tail \in Live
  BY <1>4 DEF Well, Sane, FrameRefs, Protected, Opt
<1>7. /\ Sound(grown, S) /\ Evolves(heap, grown, Live) /\ freelist' \subseteq FreeTyped(grown)
      /\ c \in Cells \ Live /\ Len(gcstack) < GCStackSize
  <2>1. ctl.val \in Opt(Live) /\ Nil \in Opt(Live)
    BY LiveFacts DEF InFlight, Opt
  <2>2. Makes(c, "pair", ctl.val, Nil, grown)
    BY <1>3, <2>1 DEF Makes
  <2> HIDE DEF grown
  <2>3. QED
    BY <2>2, Constructed
<1>8. c \in Cells /\ c # Nil /\ c \in Refs /\ c \in Opt(S) /\ Live \subseteq S
  BY CellsAreNotNil DEF Refs, Opt
<1>9. /\ f \in Frames /\ f.op = Top.op /\ f.fn = Top.fn /\ f.gc = Top.gc /\ f.va = Top.va
      /\ f.env = Top.env /\ f.code = Top.code /\ f.args = args /\ f.tail = c
      /\ args \in Opt(S)
  <2>1. args \in Refs /\ args \in Opt(S)
    BY <1>6, <1>8, LiveFacts DEF Opt, Refs
  <2> HIDE DEF args
  <2>2. QED
    BY <1>4, <1>8, <2>1 DEF Frames
<1>10. /\ Sound(heap', S) /\ Evolves(heap, heap', Live) /\ freelist' \subseteq FreeTyped(heap')
  <2>1. CASE Top.args = Nil
    BY <1>3, <1>7, <2>1
  <2>2. CASE Top.args # Nil
    <3> DEFINE a == grown[Top.tail].car
    <3> HIDE DEF grown, S
    <3>1. Top.tail \in S
      BY <1>6, <1>8, <2>2
    <3>2. a \in Opt(S)
      BY <1>7, <3>1, Fields
    <3>3. heap' = [grown EXCEPT ![Top.tail] = [type |-> "pair", car |-> a, cdr |-> c]]
      BY <1>3, <2>2
    <3> HIDE DEF a
    <3>4. Writes(grown, S, Top.tail, a, c, heap')
      BY <1>7, <1>8, <3>1, <3>2, <3>3 DEF Writes
    <3>5. Sound(heap', S) /\ Evolves(grown, heap', S) /\ FreeTyped(heap') = FreeTyped(grown)
      BY <3>4, Written
    <3>6. Evolves(heap, heap', Live)
      BY <1>7, <1>8, <3>5 DEF Evolves
    <3>7. QED
      BY <1>7, <3>5, <3>6
  <2>3. QED
    BY <2>1, <2>2
<1> HIDE DEF f, args, grown
<1>11. Well(f, heap', S)
  <2>1. Well(Top, heap', S)
    BY <1>4, <1>8, <1>10, FrameKept
  <2>2. Sane(f, heap')
    BY <1>8, <1>9, <2>1 DEF Well, Sane
  <2>3. FrameRefs(f) \subseteq Opt(S)
    BY <1>8, <1>9, <2>1 DEF Well, FrameRefs, Protected, Callee, Operand
  <2>4. QED
    BY <1>9, <2>2, <2>3 DEF Well
<1>12. AllRooted(f, gcstack', Len(gcstack) + 1)
  <2>1. gcstack \in Seq(Refs)
    BY DEF IInv, HeapInv
  <2>2. AllRooted(Top, gcstack, Len(gcstack))
    BY <1>1, <1>4 DEF TopOk
  <2>3. QED
    BY <1>3, <1>8, <1>9, <2>1, <2>2, RootedPush DEF AllRooted, args
<1>13. /\ Body(f, gcstack', Len(gcstack) + 1)
       /\ f.op # "let" /\ (f.op = "form" <=> Top.op = "form") /\ f.op # "fn2"
  BY <1>1, <1>9 DEF Body
<1>14. QED
  BY <1>1, <1>3, <1>5, <1>7, <1>9, <1>10, <1>11, <1>12, <1>13, TopGrows

LEMMA KeepBindArgs ==
  ASSUME IInv, BindArgs
  PROVE  IInv'
<1> DEFINE va == heap[Top.fn].cdr
           a == IF Top.args = Nil THEN Nil ELSE heap[Top.args].car
           d == heap[va].car
           code == heap[va].cdr
<1>1. /\ ctl.pc = "step" /\ frames # <<>> /\ Top.op = "bind" /\ UNCHANGED <<symlist, ctl, count>>
  BY DEF BindArgs, At
<1>2. PICK c \in Cells :
        /\ Alloc(c)
        /\ gcstack' = Append(gcstack, c)
        /\ NewPair(c, a, d)
        /\ Update([Top EXCEPT !.op = "body", !.env = c, !.code = code,
                              !.save = Len(gcstack) + 1])
  BY DEF BindArgs
<1> DEFINE f == [Top EXCEPT !.op = "body", !.env = c, !.code = code, !.save = Len(gcstack) + 1]
           S == Live \cup {c}
<1>3. Top \in Frames /\ Well(Top, heap, Live) /\ TopOk(Top, gcstack, "step")
  BY <1>1, TopFacts
<1>4. /\ {Top.env, Top.code, Top.args, Top.tail} \subseteq Opt(Live)
      /\ Top.fn \in Live /\ va # Nil /\ (Top.args # Nil => Top.tail # Nil)
  BY <1>1, <1>3 DEF Well, Sane, FrameRefs, Protected, Callee, Opt
<1>5. Sound(heap, Live)
  BY DEF IInv, HeapInv
<1>6. va \in Live
  BY <1>4, <1>5, Fields DEF Opt
<1>7. a \in Opt(Live) /\ d \in Opt(Live) /\ code \in Opt(Live)
  <2> HIDE DEF va
  <2>1. d \in Opt(Live) /\ code \in Opt(Live)
    BY <1>5, <1>6, Fields
  <2>2. a \in Opt(Live)
    BY <1>4, <1>5, Fields DEF Opt
  <2>3. QED
    BY <2>1, <2>2
<1> HIDE DEF va, a, d, code
<1>8. /\ Sound(heap', S) /\ Evolves(heap, heap', Live)
      /\ freelist' \subseteq FreeTyped(heap')
      /\ c \in Cells \ Live /\ Len(gcstack) < GCStackSize
  <2>1. Makes(c, "pair", a, d, heap')
    BY <1>2, <1>7 DEF Makes, NewPair
  <2>2. QED
    BY <2>1, Constructed
<1>9. c \in Cells /\ c # Nil /\ c \in Refs /\ c \in Opt(S) /\ Live \subseteq S /\ code \in Opt(S)
  BY <1>7, CellsAreNotNil DEF Refs, Opt
<1>10. /\ f \in Frames /\ f.op = "body" /\ f.gc = Top.gc /\ f.save = Len(gcstack) + 1
       /\ f.env = c /\ f.code = code /\ f.args = Top.args /\ f.tail = Top.tail
  <2>1. code \in Refs
    BY <1>7, LiveFacts DEF Opt, Refs
  <2>2. Len(gcstack) + 1 \in 0..GCStackSize
    BY <1>1, <1>8, TopFacts, AllocAssumption
  <2>3. "body" \in FrameOps
    BY DEF FrameOps
  <2> DEFINE save == Len(gcstack) + 1
  <2>4. save \in 0..GCStackSize /\ save = Len(gcstack) + 1
    BY <2>2
  <2> HIDE DEF save
  <2>5. QED
    BY <1>3, <1>9, <2>1, <2>3, <2>4 DEF Frames, save
<1>11. Update(f) /\ gcstack' = Append(gcstack, c)
  BY <1>2
<1> HIDE DEF f
<1>12. Well(f, heap', S)
  <2>1. Sane(f, heap')
    BY <1>4, <1>10 DEF Sane
  <2>2. FrameRefs(f) \subseteq Opt(S)
    BY <1>4, <1>9, <1>10 DEF FrameRefs, Protected, Callee, Operand, Opt
  <2>3. QED
    BY <1>10, <2>1, <2>2 DEF Well
<1>13. Body(f, gcstack', Len(gcstack) + 1)
  <2>1. gcstack \in Seq(Refs)
    BY DEF IInv, HeapInv
  <2>2. AllRooted(Top, gcstack, Len(gcstack))
    BY <1>1, <1>3 DEF TopOk
  <2>3. /\ Rooted(gcstack', f.args, Len(gcstack) + 1)
        /\ Rooted(gcstack', f.tail, Len(gcstack) + 1)
    BY <1>9, <1>10, <1>11, <2>1, <2>2, RootedPush DEF AllRooted
  <2>4. f.gc <= f.save /\ f.save <= Len(gcstack) + 1 /\ f.save = Len(gcstack) + 1
    BY <1>1, <1>10, TopFacts
  <2>5. QED
    BY <2>3, <2>4 DEF Body
<1>14. ctl' = Step
  BY <1>1 DEF IInv, CtlInv, Controls, Step
<1>15. /\ f.op # "let" /\ (f.op = "form" <=> Top.op = "form") /\ f.op # "fn2" /\ f.op = "body"
  BY <1>1, <1>10
<1>16. QED
  BY <1>1, <1>8, <1>10, <1>11, <1>12, <1>13, <1>14, <1>15, TopGrows

LEMMA KeepListDone ==
  ASSUME IInv, ListDone
  PROVE  IInv'
<1>1. /\ frames # <<>> /\ Top.op = "list" /\ Exit(Top.args) /\ frames' = Front(frames)
      /\ UNCHANGED <<heap, freelist, symlist, count>>
  BY DEF ListDone, At
<1>2. Top.args \in Opt(Live)
  BY <1>1, TopFacts DEF Well, FrameRefs, Protected
<1>3. Sound(heap', Live) /\ freelist' \subseteq FreeTyped(heap') /\ Evolves(heap, heap', Live)
  BY <1>1 DEF IInv, HeapInv, Evolves
<1>4. Live \subseteq Live /\ Top.op # "form"
  BY <1>1
<1>5. QED
  BY <1>1, <1>2, <1>3, <1>4, TopReturns

LEMMA KeepBodyDone ==
  ASSUME IInv, BodyDone
  PROVE  IInv'
<1>1. /\ frames # <<>> /\ Top.op = "body" /\ Exit(ctl.val) /\ frames' = Front(frames)
      /\ UNCHANGED <<heap, freelist, symlist, count>>
  BY DEF BodyDone, At
<1>2. ctl.val \in Opt(Live)
  BY LiveFacts DEF InFlight
<1>3. Sound(heap', Live) /\ freelist' \subseteq FreeTyped(heap') /\ Evolves(heap, heap', Live)
  BY <1>1 DEF IInv, HeapInv, Evolves
<1>4. Live \subseteq Live /\ Top.op # "form"
  BY <1>1
<1>5. QED
  BY <1>1, <1>2, <1>3, <1>4, TopReturns

LEMMA KeepSetCarDone ==
  ASSUME IInv, SetCarDone
  PROVE  IInv'
<1>1. /\ frames # <<>> /\ Top.op = "setcar2" /\ Exit(Nil) /\ frames' = Front(frames)
      /\ UNCHANGED <<freelist, symlist, count>>
      /\ heap' = [heap EXCEPT ![Top.va] =
                    [type |-> heap[Top.va].type, car |-> ctl.val, cdr |-> heap[Top.va].cdr]]
  BY DEF SetCarDone, At
<1>2. Top.va \in Live /\ heap[Top.va].type = "pair"
  BY <1>1, TopFacts DEF Well, Sane, FrameRefs, Operand, Opt
<1>3. ctl.val \in Opt(Live) /\ Nil \in Opt(Live)
  BY LiveFacts DEF InFlight, Opt
<1>4. Sound(heap, Live) /\ freelist \subseteq FreeTyped(heap)
  BY DEF IInv, HeapInv
<1>5. heap[Top.va].cdr \in Opt(Live)
  BY <1>2, <1>4, Fields
<1>6. Writes(heap, Live, Top.va, ctl.val, heap[Top.va].cdr, heap')
  BY <1>1, <1>2, <1>3, <1>4, <1>5 DEF Writes
<1>7. Sound(heap', Live) /\ Evolves(heap, heap', Live) /\ freelist' \subseteq FreeTyped(heap')
  BY <1>1, <1>4, <1>6, Written
<1>8. Live \subseteq Live /\ Top.op # "form"
  BY <1>1
<1>9. QED
  BY <1>1, <1>3, <1>7, <1>8, TopReturns

LEMMA KeepSetDone ==
  ASSUME IInv, SetDone
  PROVE  IInv'
<1>1. /\ frames # <<>> /\ Top.op = "set" /\ Exit(Nil) /\ frames' = Front(frames)
      /\ UNCHANGED <<freelist, symlist, count>>
  BY DEF SetDone, At
<1>2. PICK b \in {symlist} \cup Chain(heap, Top.env) :
        heap' = [heap EXCEPT ![b] = [type |-> "pair", car |-> ctl.val, cdr |-> heap[b].cdr]]
  BY DEF SetDone
<1>3. ctl.val \in Opt(Live) /\ Nil \in Opt(Live)
  BY LiveFacts DEF InFlight, Opt
<1>4. Sound(heap, Live) /\ freelist \subseteq FreeTyped(heap)
  BY DEF IInv, HeapInv
<1>5. b \in Live
  <2>1. Top.env \in Opt(Live)
    BY <1>1, TopFacts DEF Well, FrameRefs, Protected
  <2>2. Chain(heap, Top.env) \subseteq Live
    BY <1>4, <2>1, ChainWithin
  <2>3. QED
    BY <1>2, <2>2, LiveFacts
<1>6. Writes(heap, Live, b, ctl.val, heap[b].cdr, heap')
  BY <1>2, <1>3, <1>4, <1>5, Fields DEF Writes
<1>7. Sound(heap', Live) /\ Evolves(heap, heap', Live) /\ freelist' \subseteq FreeTyped(heap')
  BY <1>1, <1>4, <1>6, Written
<1>8. Live \subseteq Live /\ Top.op # "form"
  BY <1>1
<1>9. QED
  BY <1>1, <1>3, <1>7, <1>8, TopReturns

LEMMA KeepConsDone ==
  ASSUME IInv, ConsDone
  PROVE  IInv'
<1>1. /\ frames # <<>> /\ Top.op = "cons2" /\ frames' = Front(frames)
      /\ UNCHANGED <<symlist, count>>
  BY DEF ConsDone, At
<1>2. PICK c \in Cells : Alloc(c) /\ NewPair(c, Top.va, ctl.val) /\ Exit(c)
  BY DEF ConsDone
<1>3. ctl.val \in Opt(Live) /\ Top.va \in Opt(Live)
  BY <1>1, LiveFacts, TopFacts DEF InFlight, Well, FrameRefs, Operand
<1>4. Makes(c, "pair", Top.va, ctl.val, heap')
  BY <1>2, <1>3 DEF Makes, NewPair
<1> DEFINE S == Live \cup {c}
<1>5. /\ Sound(heap', S) /\ Evolves(heap, heap', Live) /\ freelist' \subseteq FreeTyped(heap')
      /\ Live \subseteq S /\ c \in Opt(S)
  BY <1>4, Constructed DEF Opt
<1> HIDE DEF S
<1>6. Top.op # "form"
  BY <1>1
<1>7. QED
  BY <1>1, <1>2, <1>5, <1>6, TopReturns

LEMMA KeepFnDone ==
  ASSUME IInv, FnDone
  PROVE  IInv'
<1>1. /\ frames # <<>> /\ Top.op = "fn2" /\ frames' = Front(frames)
      /\ UNCHANGED <<symlist, count>>
  BY DEF FnDone, At
<1>2. PICK c \in Cells :
        /\ Alloc(c)
        /\ heap' = [HeapAfterGC EXCEPT ![c] = [type |-> "func", car |-> Nil, cdr |-> Top.va]]
        /\ Exit(c)
  BY DEF FnDone
<1>3. Nil \in Opt(Live) /\ Top.va \in Opt(Live) /\ Top.va # Nil
  BY <1>1, TopFacts DEF Well, Sane, FrameRefs, Protected, Opt
<1>4. Makes(c, "func", Nil, Top.va, heap')
  BY <1>2, <1>3 DEF Makes
<1> DEFINE S == Live \cup {c}
<1>5. /\ Sound(heap', S) /\ Evolves(heap, heap', Live) /\ freelist' \subseteq FreeTyped(heap')
      /\ Live \subseteq S /\ c \in Opt(S)
  BY <1>4, Constructed DEF Opt
<1> HIDE DEF S
<1>6. Top.op # "form"
  BY <1>1
<1>7. QED
  BY <1>1, <1>2, <1>5, <1>6, TopReturns

LEMMA TwoMore ==
  ASSUME NEW A, NEW u \in Seq(A), NEW v \in Seq(A), Len(v) = 2
  PROVE  /\ u \o v \in Seq(A) /\ Len(u \o v) = Len(u) + 2
         /\ \A k \in 1..Len(u) : (u \o v)[k] = u[k]
         /\ (u \o v)[Len(u) + 1] = v[1] /\ (u \o v)[Len(u) + 2] = v[2]
<1>1. /\ u \o v \in Seq(A) /\ Len(u \o v) = Len(u) + Len(v)
      /\ \A i \in 1..Len(u) + Len(v) : (u \o v)[i] = IF i <= Len(u) THEN u[i] ELSE v[i - Len(u)]
  BY ConcatProperties
<1> DEFINE t == u \o v
           n == Len(u)
<1>2. n \in Nat
  OBVIOUS
<1> HIDE DEF t, n
<1>3. \A i \in 1..(n + 2) : t[i] = IF i <= n THEN u[i] ELSE v[i - n]
  BY <1>1 DEF t, n
<1>4. \A k \in 1..n : t[k] = u[k]
  BY <1>2, <1>3
<1>5. t[n + 1] = v[1] /\ t[n + 2] = v[2]
  BY <1>2, <1>3
<1>6. QED
  BY <1>1, <1>4, <1>5 DEF t, n

LEMMA KeepNextForm ==
  ASSUME IInv, NextForm
  PROVE  IInv'
<1> DEFINE n == Top.save
           u == Upto(n)
           t == u \o <<Top.code, Top.env>>
<1>1. /\ frames # <<>> /\ Top.op = "body" /\ n + 2 <= GCStackSize
      /\ gcstack' = t /\ ctl' = Eval
      /\ UNCHANGED <<heap, freelist, symlist, frames, count>>
  BY DEF NextForm, At
<1>2. Top \in Frames /\ Well(Top, heap, Live) /\ TopOk(Top, gcstack, ctl.pc)
  BY <1>1, TopFacts
<1>3. /\ Top.gc \in Nat /\ n \in Nat /\ Top.gc <= n /\ n <= Len(gcstack) /\ Len(gcstack) \in Nat
      /\ Rooted(gcstack, Top.args, n) /\ Rooted(gcstack, Top.tail, n)
  BY <1>1, <1>2, TopFacts DEF TopOk, Body, Frames
<1>4. Top.code \in Opt(Live) /\ Top.env \in Opt(Live) /\ Opt(Live) \subseteq Refs
  BY <1>2, LiveFacts DEF Well, FrameRefs, Protected, Opt, Refs
<1>5. gcstack \in Seq(Opt(Live))
  BY LiveFacts
<1>6. u \in Seq(Opt(Live)) /\ Len(u) = n /\ \A k \in 1..n : u[k] = gcstack[k]
  BY <1>3, <1>5, SubSeqProperties DEF Upto
<1>7. /\ t \in Seq(Opt(Live)) /\ Len(t) = n + 2
      /\ t[n + 1] = Top.code /\ t[n + 2] = Top.env
      /\ \A k \in 1..n : t[k] = gcstack[k]
  <2> DEFINE v == <<Top.code, Top.env>>
             A == Opt(Live)
  <2>1. v \in Seq(A) /\ Len(v) = 2 /\ v[1] = Top.code /\ v[2] = Top.env
    BY <1>4
  <2>2. u \in Seq(A) /\ Len(u) = n /\ n \in Nat /\ \A k \in 1..n : u[k] = gcstack[k]
    BY <1>3, <1>6
  <2>3. t = u \o v
    OBVIOUS
  <2> HIDE DEF v, A, u, n, t
  <2>4. /\ u \o v \in Seq(A) /\ Len(u \o v) = n + 2
        /\ \A k \in 1..n : (u \o v)[k] = u[k]
        /\ (u \o v)[n + 1] = v[1] /\ (u \o v)[n + 2] = v[2]
    BY <2>1, <2>2, TwoMore
  <2>5. QED
    BY <2>1, <2>2, <2>3, <2>4 DEF A
<1> HIDE DEF n, u, t
<1>8. \A x : Rooted(gcstack, x, n) => Rooted(t, x, n) /\ Rooted(t, x, n + 2)
  <2> SUFFICES ASSUME NEW x, Rooted(gcstack, x, n) PROVE Rooted(t, x, n) /\ Rooted(t, x, n + 2)
    OBVIOUS
  <2>1. Rooted(t, x, n)
    BY <1>7, RootedKept
  <2>2. QED
    BY <1>3, <2>1, RootedWider
<1>9. Rooted(t, Top.code, n + 2) /\ Rooted(t, Top.env, n + 2)
  <2>1. n + 1 \in 1..(n + 2) /\ n + 2 \in 1..(n + 2)
    BY <1>3
  <2>2. QED
    BY <1>7, <2>1 DEF Rooted
<1>10. TopOk(Top, t, "eval")
  <2>1. AllRooted(Top, t, n + 2)
    BY <1>3, <1>8, <1>9 DEF AllRooted
  <2>2. Body(Top, t, n + 2)
    BY <1>3, <1>8 DEF Body, n
  <2>3. Top.gc <= n + 2 /\ Top.op \in Callers
    BY <1>1, <1>3 DEF Callers, FrameOps
  <2>4. QED
    BY <1>1, <1>7, <2>1, <2>2, <2>3 DEF TopOk
<1>11. /\ Update(Top) /\ Live \subseteq Live /\ Evolves(heap, heap', Live)
       /\ Sound(heap', Live) /\ Well(Top, heap', Live) /\ freelist' \subseteq FreeTyped(heap')
  BY <1>1, <1>2, TopFacts DEF Update, Top, Evolves, IInv, HeapInv
<1>12. /\ gcstack' \in Seq(Opt(Live)) /\ Len(gcstack') <= GCStackSize
       /\ \A k \in 1..Top.gc : gcstack'[k] = gcstack[k]
       /\ TopOk(Top, gcstack', ctl'.pc)
  BY <1>1, <1>3, <1>7, <1>10 DEF Eval
<1>13. /\ symlist' = symlist /\ count' = count /\ ctl' \in {Eval, Step}
       /\ Top.op # "let" /\ Top.op # "form"
  BY <1>1
<1>14. QED
  BY <1>1, <1>11, <1>12, <1>13, TopGoesOn

(* let binds on top of the environment of the dolist below it, which roots *)
(* it again only before the next form.                                     *)
LEMMA KeepLetDone ==
  ASSUME IInv, LetDone
  PROVE  IInv'
<1> DEFINE fs == Front(frames)
           m == Len(frames) - 1
           p == frames[m]
<1>1. /\ frames # <<>> /\ Top.op = "let" /\ Exit(Nil) /\ UNCHANGED <<symlist, count>>
      /\ Len(gcstack) < GCStackSize
  BY DEF LetDone, At
<1>2. PICK c \in Cells :
        /\ Alloc(c) /\ NewPair(c, ctl.val, Top.env)
        /\ frames' = [fs EXCEPT ![m].env = c]
  BY DEF LetDone
<1> DEFINE S == Live \cup {c}
           f == [p EXCEPT !.env = c]
<1>3. ctl.val \in Opt(Live) /\ Top.env \in Opt(Live)
  BY <1>1, LiveFacts, TopFacts DEF InFlight, Well, FrameRefs, Protected
<1>4. Makes(c, "pair", ctl.val, Top.env, heap')
  BY <1>2, <1>3 DEF Makes, NewPair
<1>5. /\ Sound(heap', S) /\ Evolves(heap, heap', Live) /\ freelist' \subseteq FreeTyped(heap')
      /\ Live \subseteq S /\ c \in Opt(S) /\ Nil \in Opt(S) /\ c \in Refs
  BY <1>4, Constructed DEF Opt, Refs
<1> HIDE DEF S
<1>6. /\ gcstack' \in Seq(Opt(S)) /\ Len(gcstack') <= GCStackSize
      /\ Len(frames) > 1 /\ fs \in Seq(Frames) /\ Len(fs) = m /\ fs[m] = p
      /\ AllWell(fs, heap', S) /\ Nesting(fs) /\ StackInv(fs, gcstack', "return")
      /\ ctl' \in Controls /\ ctl'.pc = "return" /\ ctl'.val = Nil
      /\ Nil \in Opt(Reach(heap', RootSet'))
      /\ symlist \in S /\ heap'[symlist].type = "pair"
  <2>1. Top.op # "form" /\ symlist' = symlist
    BY <1>1
  <2>2. QED
    BY <1>1, <1>5, <2>1, Exited
<1>7. m \in Nat /\ m > 0 /\ p.op = "body" /\ fs # <<>>
  <2>1. Len(frames) \in Nat
    BY <1>1, TopFacts
  <2>2. p.op = "body"
    <3>1. Len(frames) \in 1..Len(frames)
      BY <1>6, <2>1
    <3>2. QED
      BY <1>1, <3>1 DEF IInv, Nesting, Top
  <2>3. QED
    BY <1>6, <2>1, <2>2
<1> HIDE DEF fs, m, p
<1>8. p \in Frames /\ Well(p, heap', S) /\ TopOk(p, gcstack', "return")
  BY <1>6, <1>7 DEF AllWell, StackInv, Well
<1>9. /\ f \in Frames /\ f.op = "body" /\ f.gc = p.gc /\ f.save = p.save
      /\ f.env = c /\ f.code = p.code /\ f.args = p.args /\ f.tail = p.tail
  BY <1>5, <1>7, <1>8 DEF Frames
<1>10. frames' = [fs EXCEPT ![Len(fs)] = f]
  BY <1>2, <1>6
<1> HIDE DEF f
<1>11. Well(f, heap', S)
  <2>1. Sane(f, heap')
    BY <1>8, <1>9 DEF Well, Sane
  <2>2. FrameRefs(f) \subseteq Opt(S)
    BY <1>5, <1>8, <1>9 DEF Well, FrameRefs, Protected, Callee, Operand
  <2>3. QED
    BY <1>9, <2>1, <2>2 DEF Well
<1>12. AllWell(frames', heap', S)
  BY <1>6, <1>7, <1>10, <1>11, ReplacedWell
<1>13. StackInv(frames', gcstack', ctl'.pc)
  <2>1. TopOk(f, gcstack', "return")
    BY <1>7, <1>8, <1>9 DEF TopOk, Body, Callers, FrameOps
  <2>2. f.gc = fs[Len(fs)].gc /\ \A k \in 1..f.gc : gcstack'[k] = gcstack'[k]
    BY <1>6, <1>9
  <2> DEFINE t == gcstack'
  <2>3. StackInv(fs, t, "return") /\ TopOk(f, t, "return")
    BY <1>6, <2>1
  <2> HIDE DEF t
  <2>4. StackInv([fs EXCEPT ![Len(fs)] = f], t, "return")
    BY <1>6, <1>7, <1>9, <2>2, <2>3, ReplacedTop
  <2>5. QED
    BY <1>6, <1>10, <2>4 DEF t
<1>14. Nesting(frames')
  <2>1. f.op # "let" /\ (f.op = "form" <=> fs[Len(fs)].op = "form")
    BY <1>6, <1>7, <1>9
  <2>2. QED
    BY <1>6, <1>7, <1>9, <1>10, <2>1, Nested
<1>15. CtlInv'
  <2>1. frames' # <<>>
    <3>1. Len(frames') = Len(fs)
      BY <1>6, <1>10
    <3>2. QED
      BY <1>6, <1>7, <3>1
  <2>2. QED
    BY <1>6, <2>1 DEF CtlInv
<1>16. count' \in 0..Budget /\ symlist' = symlist /\ ctl'.val \in Opt(S)
  BY <1>1, <1>5, <1>6 DEF IInv, HeapInv
<1>17. QED
  BY <1>5, <1>6, <1>12, <1>13, <1>14, <1>15, <1>16, Concluded

(* The form is over, by its value or by an error. *)
LEMMA Abandoned ==
  ASSUME IInv, frames' = <<>>, gcstack' = <<>>, ctl' = Resting,
         symlist' = symlist, count' = count,
         NEW S, Sound(heap', S), symlist \in S, heap'[symlist].type = "pair",
         freelist' \subseteq FreeTyped(heap')
  PROVE  IInv'
<1>1. ctl' \in Controls /\ ctl'.pc = "idle" /\ ctl'.val = Nil
  BY DEF Resting, Controls, Refs
<1>2. CtlInv'
  BY <1>1 DEF CtlInv
<1>3. /\ <<>> \in Seq(Frames) /\ <<>> \in Seq(Opt(S)) /\ Len(<<>>) = 0
  OBVIOUS
<1>4. AllWell(frames', heap', S)
  BY <1>3 DEF AllWell
<1>5. StackInv(frames', gcstack', ctl'.pc) /\ Nesting(frames')
  BY <1>3 DEF StackInv, Nesting
<1>6. gcstack' \in Seq(Opt(S)) /\ Len(gcstack') <= GCStackSize
  BY <1>3, AllocAssumption
<1>7. count' \in 0..Budget /\ ctl'.val \in Opt(S)
  BY <1>1 DEF IInv, HeapInv, Opt
<1>8. QED
  BY <1>2, <1>4, <1>5, <1>6, <1>7, Concluded

LEMMA KeepEnded ==
  ASSUME IInv, FormDone \/ Raise
  PROVE  IInv'
<1>1. /\ frames' = <<>> /\ gcstack' = <<>> /\ ctl' = Resting
      /\ UNCHANGED <<heap, freelist, symlist, count>>
  BY DEF FormDone, Raise, Fail
<1>2. /\ Sound(heap', Live) /\ symlist \in Live /\ heap'[symlist].type = "pair"
      /\ freelist' \subseteq FreeTyped(heap')
  BY <1>1, LiveFacts DEF IInv, HeapInv
<1>3. QED
  BY <1>1, <1>2, Abandoned

LEMMA KeepOverflow ==
  ASSUME IInv, Overflow
  PROVE  IInv'
<1> DEFINE S == Reach(heap, RootSet)
<1>1. /\ frames' = <<>> /\ gcstack' = <<>> /\ ctl' = Resting
      /\ UNCHANGED <<symlist, count>> /\ heap' = HeapAfterGC
      /\ freelist' \subseteq Available
  BY DEF Overflow, Fail
<1>2. Sound(heap, S) /\ symlist \in S /\ Swept \cap S = {}
  BY RootsAreSound DEF Swept, Garbage
<1> HIDE DEF S
<1>3. /\ Sound(heap', S) /\ freelist' \subseteq FreeTyped(heap')
      /\ heap'[symlist].type = "pair"
  BY <1>1, <1>2, Collected DEF IInv, HeapInv
<1>4. QED
  BY <1>1, <1>2, <1>3, Abandoned

(* The arena that an evaluation starts from: a global that holds a closure.*)
LEMMA InitIInv ==
  ASSUME Init
  PROVE  IInv
<1> DEFINE P == {1, 2, 3, 4}
           roots == RootSet \cup InFlight
<1>1. /\ gcstack = <<>> /\ symlist = 1 /\ frames = <<>> /\ ctl = Resting /\ count = 0
      /\ freelist = Cells \ 1..4
  BY DEF Init
<1>2. P \subseteq Cells /\ 1..4 = P /\ Nil \notin P
  BY EvalAssumption, NAssumption DEF Cells, Nil
<1>3. /\ heap[1] = [type |-> "pair", car |-> 2, cdr |-> Nil]
      /\ heap[2] = [type |-> "func", car |-> Nil, cdr |-> 3]
      /\ heap[3] = [type |-> "pair", car |-> Nil, cdr |-> 4]
      /\ heap[4] = [type |-> "pair", car |-> Nil, cdr |-> Nil]
      /\ \A c \in Cells \ P : heap[c] = FreeCell
      /\ heap = [c \in Cells |-> heap[c]]
  BY <1>2 DEF Init
<1>4. heap \in Heaps
  <2>1. \A c \in Cells : heap[c] \in [type : Types, car : Refs, cdr : Refs]
    BY <1>2, <1>3 DEF Types, Refs, FreeCell
  <2>2. QED
    BY <1>3, <2>1 DEF Heaps
<1>5. Kinds(heap)
  <2>1. 3 # Nil
    BY DEF Nil
  <2>2. QED
    BY <1>3, <2>1 DEF Kinds, FreeCell
<1>6. FreeTyped(heap) = Cells \ P
  BY <1>2, <1>3 DEF FreeTyped, FreeCell
<1>7. ClosedUnder(heap, P)
  BY <1>3 DEF ClosedUnder, Succ, CdrOnly
<1>8. <<>> \in Seq(Refs) /\ <<>> \in Seq(Frames) /\ Len(<<>>) = 0
  OBVIOUS
<1>9. roots = {1, Nil}
  BY <1>1, <1>8 DEF RootSet, InFlight, Resting
<1>10. Live = Reach(heap, roots)
  BY DEF Live
<1> HIDE DEF roots, P
<1>11. Live \subseteq P
  <2>1. P \in SUBSET Cells /\ roots \ {Nil} \subseteq P
    BY <1>2, <1>9 DEF P
  <2>2. QED
    BY <1>7, <1>10, <2>1, ReachLeast
<1>12. ClosedUnder(heap, Live)
  BY <1>4, <1>10, ReachClosed DEF ClosedUnder
<1>13. Sound(heap, Live)
  BY <1>2, <1>4, <1>5, <1>6, <1>11, <1>12 DEF Sound
<1>14. HeapInv
  <2>1. symlist \in Cells /\ heap[symlist].type = "pair"
    BY <1>1, <1>2, <1>3 DEF P
  <2>2. freelist \subseteq FreeTyped(heap)
    BY <1>1, <1>2, <1>6
  <2>3. Len(gcstack) <= GCStackSize /\ gcstack \in Seq(Refs) /\ count \in 0..Budget
    BY <1>1, <1>8, AllocAssumption, EvalAssumption
  <2>4. QED
    BY <1>13, <2>1, <2>2, <2>3 DEF HeapInv
<1>15. CtlInv
  BY <1>1 DEF CtlInv, Resting, Controls, Refs
<1>16. AllWell(frames, heap, Live) /\ StackInv(frames, gcstack, ctl.pc) /\ Nesting(frames)
  BY <1>1, <1>8 DEF AllWell, StackInv, Nesting
<1>17. QED
  BY <1>14, <1>15, <1>16 DEF IInv

LEMMA Inductive == IInv /\ [Next]_vars => IInv'
<1> SUFFICES ASSUME IInv, [Next]_vars PROVE IInv'
  OBVIOUS
<1>1. CASE ReadForm       BY <1>1, KeepReadForm
<1>2. CASE EvalAtom       BY <1>2, KeepEvalAtom
<1>3. CASE EvalCompound   BY <1>3, KeepEvalCompound
<1>4. CASE GotCallee      BY <1>4, KeepGotCallee
<1>5. CASE NextArg        BY <1>5, KeepNextArg
<1>6. CASE GotArg         BY <1>6, KeepGotArg
<1>7. CASE ListDone       BY <1>7, KeepListDone
<1>8. CASE ArgsDone       BY <1>8, KeepArgsDone
<1>9. CASE BindArgs       BY <1>9, KeepBindArgs
<1>10. CASE NextForm      BY <1>10, KeepNextForm
<1>11. CASE BodyDone      BY <1>11, KeepBodyDone
<1>12. CASE GotOperand    BY <1>12, KeepGotOperand
<1>13. CASE ConsDone      BY <1>13, KeepConsDone
<1>14. CASE SetCarDone    BY <1>14, KeepSetCarDone
<1>15. CASE SetDone       BY <1>15, KeepSetDone
<1>16. CASE LetDone       BY <1>16, KeepLetDone
<1>17. CASE FnEnv         BY <1>17, KeepFnEnv
<1>18. CASE FnDone        BY <1>18, KeepFnDone
<1>19. CASE FormDone      BY <1>19, KeepEnded
<1>20. CASE Raise         BY <1>20, KeepEnded
<1>21. CASE Overflow      BY <1>21, KeepOverflow
<1>22. CASE UNCHANGED vars
  <2>1. UNCHANGED <<heap, freelist, gcstack, symlist, frames, ctl, count>>
    BY <1>22 DEF vars
  <2>2. HeapInv' /\ CtlInv'
    BY <2>1 DEF IInv, HeapInv, CtlInv, Live, RootSet, InFlight
  <2>3. Live' = Live
    BY <2>1 DEF Live, RootSet, InFlight
  <2>4. QED
    BY <2>1, <2>2, <2>3 DEF IInv
<1>23. QED
  BY <1>1, <1>2, <1>3, <1>4, <1>5, <1>6, <1>7, <1>8, <1>9, <1>10, <1>11, <1>12, <1>13, <1>14,
     <1>15, <1>16, <1>17, <1>18, <1>19, <1>20, <1>21, <1>22 DEF Next

LEMMA Invariant == Spec => []IInv
<1>1. Init => IInv
  BY InitIInv
<1>2. QED
  BY <1>1, Inductive, PTL DEF Spec

-----------------------------------------------------------------------------
(* Every variable keeps its range: the root stack never outgrows           *)
(* GCSTACKSIZE, no field of a cell dangles, the instruction count stays    *)
(* within its budget.                                                      *)
THEOREM TypeCorrect == Spec => []TypeOK
<1>1. IInv => TypeOK
  BY DEF IInv, HeapInv, CtlInv, Sound, AllWell, TypeOK, FreeTyped, Refs
<1>2. QED
  BY <1>1, Invariant, PTL

(* Whenever an allocation collects, each frame's environment, code,        *)
(* argument list and half-built closure are reachable, and so is what      *)
(* eval() has returned, although a variable's value has no root of its own.*)
THEOREM NothingInFlightIsFreed == Spec => []InFlightSurvive
<1>1. IInv => ReturnedIsAlive
  BY DEF IInv, CtlInv, ReturnedIsAlive, Alive, Opt
<1>2. IInv => ProtectedSurvive
  <2> SUFFICES ASSUME IInv, AboutToCollect,
                      NEW x \in {ctl.val} \cup UNION {Protected(frames[i]) : i \in 1..Len(frames)}
               PROVE  Alive(x)
    BY DEF ProtectedSurvive
  <2>1. CASE x = ctl.val
    BY <2>1 DEF IInv, CtlInv, Alive, Opt
  <2>2. ASSUME NEW i \in 1..Len(frames), x \in Protected(frames[i]) PROVE Alive(x)
    <3>1. /\ frames # <<>> /\ Len(frames) \in Nat /\ frames \in Seq(Frames)
          /\ frames[i] \in Frames /\ Len(gcstack) \in Nat
      <4>1. Len(frames) \in Nat /\ frames \in Seq(Frames) /\ Len(gcstack) \in Nat
        BY DEF IInv, AllWell, HeapInv
      <4>2. frames # <<>>
        BY <4>1, <2>2
      <4>3. QED
        BY <4>1, <4>2
    <3>2. \E n \in Int : n <= Len(gcstack) /\ Rooted(gcstack, x, n)
      <4>1. CASE i < Len(frames)
        <5>1. Below(frames[i], gcstack, Top.gc) /\ Top.gc \in Int /\ Top.gc <= Len(gcstack)
          BY <3>1, <4>1, TopFacts DEF IInv, StackInv, Top
        <5>2. frames[i].op # "fn2"
          BY <5>1 DEF Below, Callers
        <5>3. QED
          BY <2>2, <5>1, <5>2 DEF Below, AllRooted, Protected
      <4>2. CASE i = Len(frames)
        <5>1. TopOk(Top, gcstack, ctl.pc) /\ frames[i] = Top
          BY <3>1, <4>2, TopFacts DEF Top
        <5>2. Top.op # "body"
          BY <3>1 DEF AboutToCollect, NeedsCell, At, IInv, CtlInv
        <5>3. QED
          BY <2>2, <3>1, <5>1, <5>2 DEF TopOk, AllRooted, Protected
      <4>3. QED
        BY <3>1, <4>1, <4>2
    <3>3. QED
      BY <3>2, RootsAreSound DEF Alive, Opt
  <2>3. QED
    BY <2>1, <2>2
<1>3. QED
  BY <1>1, <1>2, Invariant, PTL DEF InFlightSurvive

-----------------------------------------------------------------------------
LEMMA SamePrefix ==
  ASSUME NEW s \in Seq(Refs), NEW t \in Seq(Refs), NEW m \in Nat, m <= Len(s), m <= Len(t),
         \A k \in 1..m : t[k] = s[k]
  PROVE  SubSeq(t, 1, m) = SubSeq(s, 1, m)
<1> DEFINE a == SubSeq(t, 1, m)
           b == SubSeq(s, 1, m)
<1>1. a \in Seq(Refs) /\ Len(a) = m /\ \A k \in 1..m : a[k] = t[k]
  BY SubSeqProperties
<1>2. b \in Seq(Refs) /\ Len(b) = m /\ \A k \in 1..m : b[k] = s[k]
  BY SubSeqProperties
<1> HIDE DEF a, b
<1>3. a = b
  BY <1>1, <1>2, SeqEqual
<1>4. QED
  BY <1>3 DEF a, b

(* A step keeps the callers' roots if it keeps what lies below the index   *)
(* that the innermost frame saved, for no caller saved a higher one.       *)
CallersKept ==
  \A i \in 1..Len(frames) :
    i <= Len(frames') /\ ctl'.pc # "idle" =>
      SubSeq(gcstack', 1, frames[i].gc) = SubSeq(gcstack, 1, frames[i].gc)

LEMMA BelowTopKept ==
  ASSUME IInv, frames # <<>>, gcstack' \in Seq(Refs), Top.gc <= Len(gcstack'),
         \A k \in 1..Top.gc : gcstack'[k] = gcstack[k]
  PROVE  CallersKept
<1> SUFFICES ASSUME NEW i \in 1..Len(frames)
             PROVE  SubSeq(gcstack', 1, frames[i].gc) = SubSeq(gcstack, 1, frames[i].gc)
  BY DEF CallersKept
<1> DEFINE m == frames[i].gc
<1>1. /\ Top.gc \in Nat /\ Top.gc <= Len(gcstack) /\ Len(gcstack) \in Nat
      /\ Len(frames) \in Nat /\ frames \in Seq(Frames) /\ gcstack \in Seq(Refs)
      /\ Len(gcstack') \in Nat
  BY TopFacts, LenProperties DEF IInv, HeapInv
<1>2. m \in Nat /\ m <= Top.gc
  <2>1. frames[i] \in Frames
    BY <1>1
  <2>2. CASE i = Len(frames)
    BY <1>1, <2>1, <2>2 DEF Top
  <2>3. CASE i < Len(frames)
    <3>1. Below(frames[i], gcstack, Top.gc)
      BY <1>1, <2>3 DEF IInv, StackInv, Top
    <3>2. QED
      BY <2>1, <3>1 DEF Below, Frames
  <2>4. QED
    BY <1>1, <2>2, <2>3
<1> HIDE DEF m
<1>3. m <= Len(gcstack) /\ m <= Len(gcstack') /\ \A k \in 1..m : gcstack'[k] = gcstack[k]
  BY <1>1, <1>2
<1>4. SubSeq(gcstack', 1, m) = SubSeq(gcstack, 1, m)
  <2> DEFINE t == gcstack'
             s == gcstack
  <2>1. t \in Seq(Refs) /\ s \in Seq(Refs) /\ m <= Len(s) /\ m <= Len(t)
        /\ \A k \in 1..m : t[k] = s[k]
    BY <1>1, <1>3
  <2> HIDE DEF t, s
  <2>2. SubSeq(t, 1, m) = SubSeq(s, 1, m)
    BY <1>2, <2>1, SamePrefix
  <2>3. QED
    BY <2>2 DEF t, s
<1>5. QED
  BY <1>4 DEF m

LEMMA StepKeepsCallers ==
  ASSUME IInv, Next
  PROVE  CallersKept
<1>1. gcstack \in Seq(Refs) /\ Len(gcstack) \in Nat
  BY DEF IInv, HeapInv
<1>2. CASE frames = <<>>
  BY <1>2 DEF CallersKept
<1>3. CASE ctl'.pc = "idle"
  BY <1>3 DEF CallersKept
<1>4. ASSUME frames # <<>>, UNCHANGED gcstack PROVE CallersKept
  BY <1>1, <1>4, TopFacts, BelowTopKept
<1>5. ASSUME frames # <<>>, NEW c \in Cells, gcstack' = Append(gcstack, c) PROVE CallersKept
  <2>1. c \in Refs /\ Top.gc \in Nat /\ Top.gc <= Len(gcstack)
    BY <1>5, TopFacts DEF Refs
  <2>2. /\ gcstack' \in Seq(Refs) /\ Len(gcstack') = Len(gcstack) + 1
        /\ \A k \in 1..Len(gcstack) : gcstack'[k] = gcstack[k]
    BY <1>1, <1>5, <2>1
  <2>3. Top.gc <= Len(gcstack') /\ \A k \in 1..Top.gc : gcstack'[k] = gcstack[k]
    BY <1>1, <2>1, <2>2
  <2>4. QED
    BY <1>5, <2>2, <2>3, BelowTopKept
<1>6. ASSUME frames # <<>>, NEW res \in Refs, Exit(res) PROVE CallersKept
  <2> DEFINE n == Top.gc
             u == Upto(n)
  <2>1. n \in Nat /\ n <= Len(gcstack)
    BY <1>6, TopFacts
  <2>2. u \in Seq(Refs) /\ Len(u) = n /\ \A k \in 1..n : u[k] = gcstack[k]
    BY <1>1, <2>1, SubSeqProperties DEF Upto
  <2>3. gcstack' = Append(u, res)
    BY <1>6 DEF Exit
  <2> HIDE DEF u
  <2>4. gcstack' \in Seq(Refs) /\ Len(gcstack') = n + 1 /\ \A k \in 1..n : gcstack'[k] = gcstack[k]
    BY <1>6, <2>1, <2>2, <2>3
  <2>5. Top.gc <= Len(gcstack')
    BY <2>1, <2>4
  <2>6. QED
    BY <1>6, <2>4, <2>5, BelowTopKept
<1>7. CASE NextForm
  <2> DEFINE n == Top.save
             u == Upto(n)
             v == <<Top.code, Top.env>>
  <2>1. frames # <<>> /\ Top.op = "body" /\ gcstack' = u \o v
    BY <1>7 DEF NextForm, At
  <2>2. /\ n \in Nat /\ n <= Len(gcstack) /\ Top.gc <= n /\ Top.gc \in Nat
        /\ Top.code \in Refs /\ Top.env \in Refs
    BY <2>1, TopFacts DEF TopOk, Body, Frames
  <2>3. u \in Seq(Refs) /\ Len(u) = n /\ \A k \in 1..n : u[k] = gcstack[k]
    BY <1>1, <2>2, SubSeqProperties DEF Upto
  <2>4. v \in Seq(Refs) /\ Len(v) = 2
    BY <2>2
  <2> HIDE DEF n, u, v
  <2>5. u \o v \in Seq(Refs) /\ Len(u \o v) = n + 2 /\ \A k \in 1..n : (u \o v)[k] = u[k]
    BY <2>3, <2>4, TwoMore
  <2>6. gcstack' \in Seq(Refs) /\ Top.gc <= Len(gcstack') /\ \A k \in 1..Top.gc : gcstack'[k] = gcstack[k]
    BY <2>1, <2>2, <2>3, <2>5
  <2>7. QED
    BY <2>1, <2>6, BelowTopKept
<1>8. ASSUME frames # <<>>, GotArg \/ BindArgs \/ FnEnv PROVE CallersKept
  <2>1. \E c \in Cells : gcstack' = Append(gcstack, c)
    BY <1>8 DEF GotArg, BindArgs, FnEnv
  <2>2. QED
    BY <1>5, <1>8, <2>1
<1>9. ASSUME frames # <<>>,
             ListDone \/ BodyDone \/ ConsDone \/ SetCarDone \/ SetDone \/ LetDone \/ FnDone
      PROVE  CallersKept
  <2>1. Top.args \in Refs /\ ctl.val \in Refs /\ Nil \in Refs /\ Cells \subseteq Refs
    BY <1>9, TopFacts, LiveFacts DEF Frames, InFlight, Refs
  <2>2. \E res \in Refs : Exit(res)
    BY <1>9, <2>1 DEF ListDone, BodyDone, ConsDone, SetCarDone, SetDone, LetDone, FnDone
  <2>3. QED
    BY <1>6, <1>9, <2>2
<1>10. CASE EvalAtom \/ EvalCompound \/ GotCallee \/ NextArg \/ ArgsDone \/ GotOperand
  <2>1. UNCHANGED gcstack
    BY <1>10 DEF EvalAtom, EvalCompound, EvalForm, GotCallee, NextArg, ArgsDone, GotOperand
  <2>2. QED
    BY <1>2, <1>4, <2>1
<1>11. CASE ReadForm
  BY <1>2, <1>11 DEF ReadForm, IInv, CtlInv
<1>12. CASE FormDone \/ Raise \/ Overflow
  BY <1>3, <1>12 DEF FormDone, Raise, Overflow, Fail, Resting
<1>13. QED
  BY <1>2, <1>7, <1>8, <1>9, <1>10, <1>11, <1>12 DEF Next

(* An eval() that is running finds the roots of its callers as they left   *)
(* them, whatever its operands and the bodies it entered pushed, dropped   *)
(* or restored: fe_restoregc never goes below the index a caller saved.    *)
THEOREM CallersFindTheirRoots == Spec => CallersRootsAreKept
<1>1. IInv /\ [Next]_vars => [CallersKept]_vars
  BY StepKeepsCallers
<1>2. QED
  BY <1>1, Invariant, PTL DEF Spec, CallersRootsAreKept, CallersKept
=============================================================================
