---------------------------- MODULE FeHeapProofs ----------------------------
(***************************************************************************)
(* Proofs about the object pool: for every number of cells, every size of  *)
(* the root stack, every set of names and every program, an allocation     *)
(* never frees or hands out a cell that something still refers to, however *)
(* constructors are interrupted; and the symbol table stays sound.         *)
(***************************************************************************)
EXTENDS FeHeap, FeGraphTheorems, FiniteSetTheorems

Live == Reach(heap, RootSet)

(* What an error leaves on the root stack at most, and what it reaches.    *)
Base == IF job.op = "idle" THEN Len(gcstack) ELSE job.base

BaseRoots == {gcstack[i] : i \in 1..Base} \cup {symlist}

Outer == Reach(heap, BaseRoots)

Making == job.op \in {"string", "bind", "link"}

(* fe_symbol has its object, whose cdr is still the link of the freelist.  *)
Linked == job.op = "string" /\ job.nodes = 0

(* No free cell is reachable, but for the head of the freelist through the *)
(* link that a half-built symbol carries; what an error leaves never meets *)
(* one.                                                                    *)
FreeSafe ==
  /\ freelist \subseteq FreeTyped(heap)
  /\ Outer \cap FreeTyped(heap) = {}
  /\ Live \cap FreeTyped(heap) \subseteq (IF Linked THEN Heads(freelist) ELSE {})

(* The locals of fe_symbol: out of reach of all that it found, rooted, and *)
(* as far built as it has come.                                            *)
JobInv ==
  /\ job.op # "symbol" /\ (job.op = "idle" => job = Idle)
  /\ job.op = "closed" => job = Closed /\ gcstack = <<>> /\ symlist = Nil
  /\ Making =>
       /\ job.base <= Len(gcstack)
       /\ job.name \in Names /\ ~Interned(job.name)
       /\ job.obj \in RootSet \ {Nil}
       /\ heap[job.obj].type = "symbol"
       /\ {job.obj, job.str, job.tail} \cap Outer = {}
       /\ job.nodes = 0 =>
            /\ job.op = "string" /\ job.str = Nil /\ job.tail = Nil
            /\ heap[job.obj].cdr \in Heads(freelist)
       /\ job.nodes > 0 => job.str \in RootSet \ {Nil} /\ heap[job.str].type = "string"
  /\ job.op = "string" /\ job.nodes > 0 =>
       job.tail \in Live /\ heap[job.tail].type = "string" /\ heap[job.tail].cdr = Nil
  /\ job.op \in {"bind", "link"} =>
       job.nodes > 0 /\ job.tail = Nil /\ text[job.str] = job.name
  /\ job.op = "link" =>
       /\ heap[job.obj].cdr \in Cells \ Outer
       /\ heap[heap[job.obj].cdr].type = "pair"
       /\ heap[heap[job.obj].cdr].car = job.str

(* The cells that the table is made of are none that fe_set writes to.     *)
TableInv ==
  /\ SymbolTableSound
  /\ \A s \in Symbols : heap[s].cdr \notin Spine

IInv == TypeOK /\ FreeSafe /\ JobInv /\ TableInv /\ BackingReleasedOnce
-----------------------------------------------------------------------------
USE NAssumption, AllocAssumption, HeapAssumption

LEMMA JobType ==
  ASSUME TypeOK
  PROVE  /\ job.op \in {"idle", "symbol", "string", "bind", "link", "closed"}
         /\ job.base \in 0..GCStackSize /\ job.nodes \in Nat
         /\ job.name \in Names \cup {NoName}
         /\ job.obj \in Refs /\ job.str \in Refs /\ job.tail \in Refs
  BY DEF TypeOK, Jobs

LEMMA CellsAreNotNil == Nil \notin Cells
  BY DEF Cells, Nil

LEMMA BaseType ==
  ASSUME TypeOK, JobInv
  PROVE  Base \in 0..Len(gcstack)
<1>1. CASE job.op = "idle"
  BY <1>1 DEF Base, TypeOK
<1>2. CASE Making
  <2>1. job.base \in 0..GCStackSize /\ job.base <= Len(gcstack)
    BY <1>2, JobType DEF JobInv
  <2>2. Base = job.base
    BY <1>2 DEF Base, Making
  <2>3. QED
    BY <2>1, <2>2 DEF TypeOK
<1>3. CASE job.op = "closed"
  BY <1>3 DEF Base, TypeOK, JobInv, Closed, Idle
<1>4. QED
  <2>1. job.op # "symbol"
    BY DEF JobInv
  <2>2. QED
    BY <1>1, <1>2, <1>3, <2>1, JobType DEF Making

LEMMA Roots ==
  ASSUME TypeOK, JobInv
  PROVE  /\ RootSet \subseteq Refs /\ BaseRoots \subseteq RootSet
         /\ Outer \subseteq Live /\ Live \subseteq Cells
         /\ RootSet \ {Nil} \subseteq Live
         /\ BaseRoots \ {Nil} \subseteq Outer
<1>1. RootSet \subseteq Refs
  BY DEF TypeOK, RootSet
<1>2. Base \in 0..Len(gcstack)
  BY BaseType
<1>3. BaseRoots \subseteq RootSet
  BY <1>2 DEF BaseRoots, RootSet, TypeOK
<1>4. Live \subseteq Cells
  BY DEF Live, Reach
<1>5. Outer \subseteq Live
  BY <1>3, ReachMonotone DEF Live, Outer
<1>6. RootSet \ {Nil} \subseteq Live /\ BaseRoots \ {Nil} \subseteq Outer
  BY <1>1, <1>3, RootsReachable DEF Live, Outer
<1>7. QED
  BY <1>1, <1>3, <1>4, <1>5, <1>6

LEMMA LiveClosed ==
  ASSUME TypeOK
  PROVE  /\ \A c \in Live : \A s \in Succ(heap, c) \ {Nil} : s \in Live
         /\ \A c \in Outer : \A s \in Succ(heap, c) \ {Nil} : s \in Outer
  BY ReachClosed DEF TypeOK, Live, Outer

(* What object() does to the heap before the caller fills the cell in.     *)
LEMMA AfterGC ==
  ASSUME TypeOK, FreeSafe, JobInv
  PROVE  /\ HeapAfterGC \in Heaps
         /\ Swept \cap Live = {} /\ Swept \cap FreeTyped(heap) = {}
         /\ \A c \in Live : HeapAfterGC[c] = heap[c]
         /\ FreeTyped(HeapAfterGC) = FreeTyped(heap) \cup Swept
         /\ Available \subseteq FreeTyped(HeapAfterGC) /\ Available \subseteq Cells
         /\ Available \cap Outer = {}
         /\ Available \cap Live \subseteq (IF Linked THEN Heads(Available) ELSE {})
         /\ Linked /\ Available # {} => Heads(freelist) \cap Cells \subseteq Heads(Available)
<1>1. Swept \subseteq Cells /\ Swept \cap Live = {} /\ Swept \cap FreeTyped(heap) = {}
  BY DEF Swept, Garbage, Live
<1>2. HeapAfterGC \in Heaps
  BY DEF HeapAfterGC, TypeOK, Heaps, FreeCell, Types, Refs
<1>3. Live \subseteq Cells /\ Outer \subseteq Live
  BY Roots
<1>4. \A c \in Live : HeapAfterGC[c] = heap[c]
  BY <1>1, <1>3 DEF HeapAfterGC
<1>5. FreeTyped(HeapAfterGC) = FreeTyped(heap) \cup Swept
  BY <1>1 DEF HeapAfterGC, FreeTyped, FreeCell
<1>6. freelist # {} => Swept = {}
  BY DEF Swept
<1>7. Available \cap Live \subseteq (IF Linked THEN Heads(Available) ELSE {})
  <2>1. CASE freelist = {}
    BY <2>1, <1>1 DEF Available
  <2>2. CASE freelist # {}
    <3>1. Available = freelist
      BY <1>6, <2>2 DEF Available
    <3>2. QED
      BY <3>1 DEF FreeSafe
  <2>3. QED
    BY <2>1, <2>2
<1>8. Heads(freelist) \cap Cells \subseteq Heads(Available)
  <2>1. CASE freelist = {}
    BY <2>1 DEF Heads, Cells, Nil
  <2>2. CASE freelist # {}
    BY <1>6, <2>2 DEF Available
  <2>3. QED
    BY <2>1, <2>2
<1>9. QED
  BY <1>1, <1>2, <1>3, <1>4, <1>5, <1>7, <1>8 DEF Available, FreeSafe, TypeOK

(* The highest cell is one. *)
LEMMA OneHead ==
  ASSUME NEW F \in SUBSET Cells, NEW c \in Heads(F), NEW d \in Heads(F)
  PROVE  c = d
<1>1. CASE F = {}
  BY <1>1 DEF Heads
<1>2. CASE F # {}
  <2>1. c \in Cells /\ d \in Cells /\ c <= d /\ d <= c
    BY <1>2 DEF Heads
  <2>2. QED
    BY <2>1 DEF Cells
<1>3. QED
  BY <1>1, <1>2
-----------------------------------------------------------------------------
(***************************************************************************)
(* The symbol table                                                        *)
(***************************************************************************)
(* The table lies within what every error leaves.                          *)
LEMMA TableWithin ==
  ASSUME TypeOK, JobInv, TableInv
  PROVE  /\ Spine \subseteq Outer
         /\ \A c \in Spine : heap[c].type = "pair" /\ heap[c].car \in Symbols
         /\ \A s \in Symbols :
              /\ s \in Outer /\ s \in Cells /\ heap[s].type = "symbol"
              /\ heap[s].cdr \in Outer /\ heap[s].cdr \in Cells
              /\ heap[heap[s].cdr].type = "pair"
              /\ heap[heap[s].cdr].car \in Outer /\ heap[heap[s].cdr].car \in Cells
              /\ heap[heap[heap[s].cdr].car].type = "string"
<1> DEFINE S == Spine \cap Outer
<1>1. heap \in Heaps /\ symlist \in Refs /\ Outer \subseteq Cells
  BY Roots DEF TypeOK
<1>2. Spine \subseteq Cells /\ \A c \in Spine : heap[c].cdr \in Spine \cup {Nil}
  BY <1>1, ChainClosed DEF Spine
<1>3. symlist # Nil => symlist \in S
  BY <1>1, Roots, ChainClosed DEF Spine, BaseRoots
<1>4. \A c \in Spine : heap[c].type = "pair" /\ heap[c].car # Nil /\ heap[c].car \in Refs
  BY <1>1, <1>2 DEF TableInv, SymbolTableSound, Heaps
<1>5. \A c \in S : heap[c].cdr \in S \cup {Nil}
  BY <1>2, <1>4, LiveClosed DEF Succ
<1>6. Spine \subseteq S
  BY <1>1, <1>3, <1>5, ChainLeast DEF Spine
<1>7. \A s \in Symbols : s \in Outer /\ s \in Cells
  BY <1>1, <1>4, <1>6, LiveClosed DEF Symbols, Succ
<1>8. \A s \in Symbols : heap[s].cdr \in Outer /\ heap[s].cdr \in Cells
  <2>1. \A s \in Symbols : heap[s].type = "symbol" /\ heap[s].cdr # Nil
    BY DEF TableInv, SymbolTableSound
  <2>2. QED
    BY <1>1, <1>7, <2>1, LiveClosed DEF Succ, CdrOnly
<1>9. \A s \in Symbols : heap[heap[s].cdr].car \in Outer /\ heap[heap[s].cdr].car \in Cells
  <2>1. \A s \in Symbols : heap[heap[s].cdr].type = "pair" /\ heap[heap[s].cdr].car # Nil
    BY DEF TableInv, SymbolTableSound
  <2>2. QED
    BY <1>1, <1>8, <2>1, LiveClosed DEF Succ
<1>10. QED
  BY <1>4, <1>6, <1>7, <1>8, <1>9 DEF Symbols, TableInv, SymbolTableSound

(* A step that leaves the cells of the table as they are, but for the      *)
(* values of the symbols, leaves the table as it is.                       *)
LEMMA TableFrame ==
  ASSUME TypeOK, TypeOK', JobInv, TableInv, symlist' = symlist,
         \A c \in Spine : heap'[c] = heap[c],
         \A s \in Symbols :
           /\ heap'[s] = heap[s]
           /\ heap'[heap[s].cdr].type = heap[heap[s].cdr].type
           /\ heap'[heap[s].cdr].car = heap[heap[s].cdr].car
           /\ heap'[heap[heap[s].cdr].car] = heap[heap[heap[s].cdr].car]
           /\ text'[heap[heap[s].cdr].car] = text[heap[heap[s].cdr].car]
  PROVE  /\ TableInv'
         /\ Symbols' = Symbols /\ \A s \in Symbols : NameOf(s)' = NameOf(s)
         /\ \A n : Interned(n)' <=> Interned(n)
<1>1. Spine' = Spine
  <2>1. heap \in Heaps /\ heap' \in Heaps /\ symlist \in Refs
    BY DEF TypeOK
  <2>2. \A c \in Chain(heap, symlist) : heap'[c].cdr = heap[c].cdr
    BY DEF Spine
  <2>3. Chain(heap', symlist) = Chain(heap, symlist)
    BY <2>1, <2>2, ChainFrame
  <2>4. QED
    BY <2>3 DEF Spine
<1>2. Symbols' = Symbols
  BY <1>1 DEF Symbols
<1>3. \A s \in Symbols : NameOf(s)' = NameOf(s)
  BY DEF NameOf
<1>4. SymbolTableSound'
  BY <1>1, <1>2, <1>3 DEF TableInv, SymbolTableSound
<1>5. \A s \in Symbols' : heap'[s].cdr \notin Spine'
  BY <1>1, <1>2 DEF TableInv
<1>6. \A n : Interned(n)' <=> Interned(n)
  BY <1>2, <1>3 DEF Interned
<1>7. QED
  BY <1>2, <1>3, <1>4, <1>5, <1>6 DEF TableInv

(* In particular one that leaves alone what every error leaves.            *)
LEMMA OuterFrame ==
  ASSUME TypeOK, TypeOK', JobInv, TableInv, symlist' = symlist,
         \A c \in Outer : heap'[c] = heap[c] /\ text'[c] = text[c]
  PROVE  /\ TableInv'
         /\ Symbols' = Symbols /\ \A s \in Symbols : NameOf(s)' = NameOf(s)
         /\ \A n : Interned(n)' <=> Interned(n)
  BY TableWithin, TableFrame
-----------------------------------------------------------------------------
(***************************************************************************)
(* Types                                                                   *)
(***************************************************************************)
LEMMA FinalizeType ==
  ASSUME TypeOK, NEW dead \in SUBSET Cells, Finalize(dead)
  PROVE  /\ text' \in [Cells -> Names \cup {NoName}]
         /\ backing' \in [Cells -> Backings \cup {NoBacking}]
         /\ DOMAIN released' = DOMAIN released
         /\ released' \in [DOMAIN released -> Nat]
<1>1. IsFiniteSet(Cells)
  BY FS_Interval DEF Cells
<1>2. \A b \in DOMAIN released : Cardinality({c \in dead : backing[c] = b}) \in Nat
  BY <1>1, FS_Subset, FS_CardinalityType
<1>3. released' \in [DOMAIN released -> Nat] /\ DOMAIN released' = DOMAIN released
  <2> DEFINE gone(b) == Cardinality({c \in dead : backing[c] = b})
  <2>1. \A b \in DOMAIN released : released[b] + gone(b) \in Nat
    <3>1. \A b \in DOMAIN released : released[b] \in Nat /\ gone(b) \in Nat
      BY <1>2 DEF TypeOK
    <3> HIDE DEF gone
    <3>2. QED
      BY <3>1
  <2>2. released' = [b \in DOMAIN released |-> released[b] + gone(b)]
    BY DEF Finalize
  <2> HIDE DEF gone
  <2>3. QED
    BY <2>1, <2>2
<1>4. text' \in [Cells -> Names \cup {NoName}]
  BY DEF TypeOK, Finalize
<1>5. backing' \in [Cells -> Backings \cup {NoBacking}]
  BY DEF TypeOK, Finalize
<1>6. QED
  BY <1>3, <1>4, <1>5

LEMMA UnwindType ==
  ASSUME TypeOK, Unwind
  PROVE  gcstack' \in Seq(Refs) /\ Len(gcstack') <= GCStackSize /\ job' \in Jobs
<1>1. PICK i \in 0..GCStackSize : i <= Len(gcstack) /\ gcstack' = SubSeq(gcstack, 1, i)
  BY JobType DEF Unwind, TypeOK
<1>2. gcstack' \in Seq(Refs) /\ Len(gcstack') = i
  BY <1>1 DEF TypeOK
<1>3. Idle \in Jobs
  BY AllocAssumption DEF Idle, Jobs, Refs
<1>4. QED
  BY <1>1, <1>2, <1>3 DEF Unwind

(* A new cell. *)
LEMMA ObjectType ==
  ASSUME TypeOK, NEW c \in Cells, NEW cell \in [type : Types, car : Refs, cdr : Refs]
  PROVE  /\ HeapAfterGC \in Heaps
         /\ [HeapAfterGC EXCEPT ![c] = cell] \in Heaps
         /\ Pop(c) => freelist' \subseteq Cells
         /\ Object(c) => gcstack' \in Seq(Refs) /\ Len(gcstack') <= GCStackSize
<1>1. FreeCell \in [type : Types, car : Refs, cdr : Refs]
  BY DEF FreeCell, Types, Refs
<1>2. HeapAfterGC \in Heaps
  BY <1>1 DEF HeapAfterGC, TypeOK, Heaps
<1>3. Pop(c) => freelist' \subseteq Cells
  BY DEF Pop, Available, Swept, Garbage, TypeOK
<1>4. Object(c) => gcstack' \in Seq(Refs) /\ Len(gcstack') <= GCStackSize
  BY AllocAssumption DEF Object, Pop, TypeOK, Refs
<1>5. QED
  BY <1>2, <1>3, <1>4 DEF Heaps

LEMMA SweptCells == Swept \subseteq Cells
  BY DEF Swept, Garbage

LEMMA HandlesType == Handles \subseteq Cells
  BY DEF Handles, Reach

LEMMA HeadsType ==
  ASSUME NEW F \in SUBSET Cells
  PROVE  Heads(F) \subseteq Refs
  BY DEF Heads, Refs

LEMMA TypeStep == TypeOK /\ TableInv /\ JobInv /\ [Next]_vars => TypeOK'
<1> SUFFICES ASSUME TypeOK, TableInv, JobInv, [Next]_vars PROVE TypeOK'
  OBVIOUS
<1>0. heap \in Heaps /\ symlist \in Refs
  BY DEF TypeOK
<1>1. ASSUME NEW n \in Names, SymbolObject(n) PROVE TypeOK'
  <2> DEFINE Made(c, link) ==
          /\ Object(c)
          /\ heap' = [HeapAfterGC EXCEPT ![c] = [type |-> "symbol", car |-> Nil, cdr |-> link]]
          /\ job' = [op |-> "string", base |-> Len(gcstack), name |-> n, nodes |-> 0,
                     obj |-> c, str |-> Nil, tail |-> Nil]
  <2>0. PICK c \in Cells : \E link \in Heads(Available \ {c}) : Made(c, link)
    BY <1>1 DEF SymbolObject
  <2>1. PICK link \in Heads(Available \ {c}) : Made(c, link)
    BY <2>0
  <2>2. Available \subseteq Cells
    BY SweptCells DEF Available, TypeOK
  <2>3. link \in Refs
    BY <2>1, <2>2, HeadsType
  <2>4. [type |-> "symbol", car |-> Nil, cdr |-> link] \in [type : Types, car : Refs, cdr : Refs]
    BY <2>3 DEF Types, Refs
  <2>5. heap' \in Heaps /\ freelist' \subseteq Cells /\ gcstack' \in Seq(Refs)
        /\ Len(gcstack') <= GCStackSize
    BY <2>1, <2>4, ObjectType DEF Object
  <2>6. job' \in Jobs
    BY <2>1, <1>1, AllocAssumption DEF Jobs, Refs, TypeOK
  <2>7. symlist' \in Refs
    BY <1>0, <1>1 DEF SymbolObject
  <2>8. QED
    BY <1>1, <2>5, <2>6, <2>7, SweptCells, FinalizeType DEF SymbolObject, TypeOK
<1>2. CASE StringNode
  <2> DEFINE node == [type |-> "string", car |-> Nil, cdr |-> Nil]
  <2>1. PICK c \in Cells :
          /\ Pop(c)
          /\ LET grown == [HeapAfterGC EXCEPT ![c] = node]
             IN \/ /\ job.nodes = 0
                   /\ gcstack' = Append(gcstack, c)
                   /\ heap' = grown
                   /\ job' = [job EXCEPT !.nodes = 1, !.str = c, !.tail = c]
                \/ /\ job.nodes > 0
                   /\ gcstack' = gcstack
                   /\ heap' = [grown EXCEPT ![job.tail] = [type |-> "string", car |-> Nil, cdr |-> c]]
                   /\ job' = [job EXCEPT !.nodes = @ + 1, !.tail = c]
    BY <1>2 DEF StringNode
  <2>2. node \in [type : Types, car : Refs, cdr : Refs] /\ c \in Refs
    BY DEF Types, Refs
  <2>3. [HeapAfterGC EXCEPT ![c] = node] \in Heaps /\ freelist' \subseteq Cells
    BY <2>1, <2>2, ObjectType
  <2>4. heap' \in Heaps
    <3>1. [type |-> "string", car |-> Nil, cdr |-> c] \in [type : Types, car : Refs, cdr : Refs]
      BY <2>2 DEF Types, Refs
    <3>2. QED
      BY <2>1, <2>3, <3>1 DEF Heaps
  <2>5. gcstack' \in Seq(Refs) /\ Len(gcstack') <= GCStackSize
    <3>1. gcstack \in Seq(Refs) /\ Len(gcstack) < GCStackSize
      BY <2>1 DEF TypeOK, Pop
    <3>2. /\ Append(gcstack, c) \in Seq(Refs) /\ Len(Append(gcstack, c)) = Len(gcstack) + 1
          /\ Len(gcstack) \in Nat /\ Len(gcstack) + 1 <= GCStackSize
      BY <2>2, <3>1
    <3>3. gcstack' \in {gcstack, Append(gcstack, c)}
      BY <2>1
    <3>4. QED
      BY <3>1, <3>2, <3>3
  <2>6. job' \in Jobs
    <3>1. job \in Jobs
      BY DEF TypeOK
    <3>2. [job EXCEPT !.nodes = 1, !.str = c, !.tail = c] \in Jobs
      BY <2>2, <3>1 DEF Jobs
    <3>3. [job EXCEPT !.nodes = @ + 1, !.tail = c] \in Jobs
      <4> DEFINE k == job.nodes + 1
      <4>1. k \in Nat
        BY JobType
      <4> HIDE DEF k
      <4>2. [job EXCEPT !.nodes = k, !.tail = c] \in Jobs
        BY <2>2, <3>1, <4>1 DEF Jobs
      <4>3. QED
        BY <4>2 DEF k
    <3>4. QED
      BY <2>1, <3>2, <3>3
  <2>7. symlist' \in Refs
    BY <1>0, <1>2 DEF StringNode
  <2>8. QED
    BY <1>2, <2>3, <2>4, <2>5, <2>6, <2>7, SweptCells, FinalizeType DEF StringNode, TypeOK
<1>3. CASE StringDone
  <2>1. job' \in Jobs
    BY <1>3, AllocAssumption DEF StringDone, TypeOK, Jobs, Refs
  <2>2. text' \in [Cells -> Names \cup {NoName}]
    BY <1>3, JobType DEF StringDone, TypeOK
  <2>3. QED
    BY <1>3, <2>1, <2>2 DEF StringDone, TypeOK
<1>4. CASE SymbolBinding
  <2>1. PICK c \in Cells :
          /\ Object(c)
          /\ heap' = [HeapAfterGC EXCEPT
                        ![c] = [type |-> "pair", car |-> job.str, cdr |-> Nil],
                        ![job.obj] = [type |-> "symbol", car |-> Nil, cdr |-> c]]
    BY <1>4 DEF SymbolBinding
  <2>2. [type |-> "pair", car |-> job.str, cdr |-> Nil] \in [type : Types, car : Refs, cdr : Refs]
    BY JobType DEF Types, Refs
  <2>3. [type |-> "symbol", car |-> Nil, cdr |-> c] \in [type : Types, car : Refs, cdr : Refs]
    BY DEF Types, Refs
  <2>4. heap' \in Heaps /\ freelist' \subseteq Cells /\ gcstack' \in Seq(Refs)
        /\ Len(gcstack') <= GCStackSize
    BY <2>1, <2>2, <2>3, ObjectType DEF Object, Heaps
  <2>5. job' \in Jobs
    BY <1>4 DEF SymbolBinding, TypeOK, Jobs
  <2>6. symlist' \in Refs
    BY <1>0, <1>4 DEF SymbolBinding
  <2>7. QED
    BY <1>4, <2>4, <2>5, <2>6, SweptCells, FinalizeType DEF SymbolBinding, TypeOK
<1>5. CASE SymbolLink
  <2>1. PICK c \in Cells :
          /\ Object(c)
          /\ heap' = [HeapAfterGC EXCEPT ![c] = [type |-> "pair", car |-> job.obj, cdr |-> symlist]]
          /\ symlist' = c
    BY <1>5 DEF SymbolLink
  <2>2. [type |-> "pair", car |-> job.obj, cdr |-> symlist] \in [type : Types, car : Refs, cdr : Refs]
    BY <1>0, JobType DEF Types
  <2>3. heap' \in Heaps /\ freelist' \subseteq Cells /\ gcstack' \in Seq(Refs)
        /\ Len(gcstack') <= GCStackSize
    BY <2>1, <2>2, ObjectType DEF Object
  <2>4. job' \in Jobs /\ symlist' \in Refs
    BY <1>5, <2>1, AllocAssumption DEF SymbolLink, Idle, Jobs, Refs
  <2>5. QED
    BY <1>5, <2>3, <2>4, SweptCells, FinalizeType DEF SymbolLink, TypeOK
<1>6. ASSUME NEW cell \in [type : Types, car : Refs, cdr : Refs], Construct(cell) PROVE TypeOK'
  <2>1. heap' \in Heaps /\ freelist' \subseteq Cells /\ gcstack' \in Seq(Refs)
        /\ Len(gcstack') <= GCStackSize
    <3>1. PICK c \in Cells : Object(c) /\ heap' = [HeapAfterGC EXCEPT ![c] = cell]
      BY <1>6 DEF Construct
    <3>2. Pop(c)
      BY <3>1 DEF Object
    <3>3. QED
      BY <3>1, <3>2, ObjectType
  <2>2. QED
    BY <1>6, <2>1, SweptCells, FinalizeType DEF Construct, TypeOK
<1>7. ASSUME NEW c \in Cells, NEW cell \in [type : Types, car : Refs, cdr : Refs],
             heap' = [heap EXCEPT ![c] = cell],
             UNCHANGED <<text, freelist, gcstack, symlist, job>>,
             backing' \in [Cells -> Backings \cup {NoBacking}],
             DOMAIN released' \subseteq Backings, released' \in [DOMAIN released' -> Nat]
      PROVE TypeOK'
  BY <1>7 DEF TypeOK, Heaps
<1>8. ASSUME NEW s \in Symbols, NEW v \in Handles \cup {Nil}, FeSet(s, v) PROVE TypeOK'
  <2>1. heap[s].cdr \in Cells /\ v \in Refs
    BY TableWithin, HandlesType DEF Refs
  <2>2. [type |-> "pair", car |-> heap[heap[s].cdr].car, cdr |-> v]
          \in [type : Types, car : Refs, cdr : Refs]
    BY <1>0, <2>1 DEF Types, Heaps
  <2>3. QED
    BY <1>7, <1>8, <2>1, <2>2 DEF FeSet, TypeOK
<1>9. ASSUME NEW p \in Handles, NEW v \in Handles \cup {Nil}, SetCar(p, v) \/ SetCdr(p, v) PROVE TypeOK'
  <2>1. p \in Cells /\ v \in Refs
    BY HandlesType DEF Refs
  <2>2. [type |-> "pair", car |-> v, cdr |-> heap[p].cdr] \in [type : Types, car : Refs, cdr : Refs]
    BY <1>0, <2>1 DEF Types, Heaps
  <2>3. [type |-> "pair", car |-> heap[p].car, cdr |-> v] \in [type : Types, car : Refs, cdr : Refs]
    BY <1>0, <2>1 DEF Types, Heaps
  <2>4. CASE SetCar(p, v)
    BY <1>7, <2>1, <2>2, <2>4 DEF SetCar, TypeOK
  <2>5. CASE SetCdr(p, v)
    BY <1>7, <2>1, <2>3, <2>5 DEF SetCdr, TypeOK
  <2>6. QED
    BY <1>9, <2>4, <2>5
<1>10. ASSUME NEW c \in Handles, NEW b \in Backings, NEW e \in Handles \cup {Nil}, SetPtr(c, b, e)
       PROVE TypeOK'
  <2>1. c \in Cells /\ e \in Refs
    BY HandlesType DEF Refs
  <2>2. [type |-> "ptr", car |-> e, cdr |-> Nil] \in [type : Types, car : Refs, cdr : Refs]
    BY <2>1 DEF Types, Refs
  <2>3. DOMAIN released' \subseteq Backings /\ released' \in [DOMAIN released' -> Nat]
    BY <1>10 DEF SetPtr, TypeOK
  <2>4. backing' \in [Cells -> Backings \cup {NoBacking}]
    BY <1>10 DEF SetPtr, TypeOK
  <2>5. QED
    BY <1>7, <1>10, <2>1, <2>2, <2>3, <2>4 DEF SetPtr
<1>11. ASSUME NEW v \in Handles \cup {Nil}, PushGC(v) PROVE TypeOK'
  <2>1. v \in Refs
    BY HandlesType DEF Refs
  <2>2. QED
    BY <1>11, <2>1, AllocAssumption DEF PushGC, TypeOK
<1>12. ASSUME NEW i \in 0..GCStackSize, RestoreGC(i) PROVE TypeOK'
  BY <1>12, AllocAssumption DEF RestoreGC, TypeOK
<1>13. CASE Close
  <2> DEFINE dead == Cells \ FreeTyped(heap)
  <2>1. heap' \in Heaps
    <3>1. FreeCell \in [type : Types, car : Refs, cdr : Refs]
      BY DEF FreeCell, Types, Refs
    <3>2. QED
      BY <1>13, <1>0, <3>1 DEF Close, Heaps
  <2>2. Closed \in Jobs
    BY AllocAssumption DEF Closed, Idle, Jobs, Refs
  <2>3. gcstack' \in Seq(Refs) /\ Len(gcstack') <= GCStackSize
    BY <1>13, AllocAssumption DEF Close
  <2>4. Finalize(dead)
    BY <1>13 DEF Close
  <2>5. freelist' \subseteq Cells /\ symlist' \in Refs /\ job' \in Jobs
    BY <1>13, <2>2 DEF Close, TypeOK, Refs
  <2>6. QED
    BY <2>1, <2>3, <2>4, <2>5, FinalizeType DEF TypeOK
<1>14. CASE OutOfMemory
  BY <1>14, UnwindType DEF OutOfMemory, TypeOK
<1>15. CASE Overflow
  <2>1. heap' \in Heaps
    <3>1. FreeCell \in [type : Types, car : Refs, cdr : Refs]
      BY DEF FreeCell, Types, Refs
    <3>2. QED
      BY <1>15, <1>0, <3>1 DEF Overflow, HeapAfterGC, Heaps
  <2>2. freelist' \subseteq Cells
    BY <1>15, SweptCells DEF Overflow, Available, TypeOK
  <2>3. QED
    BY <1>15, <2>1, <2>2, UnwindType, FinalizeType, SweptCells DEF Overflow, TypeOK
<1>16. ASSUME NEW x \in Handles \cup {Nil}, NEW y \in Handles \cup {Nil}, Cons(x, y) PROVE TypeOK'
  <2>1. [type |-> "pair", car |-> x, cdr |-> y] \in [type : Types, car : Refs, cdr : Refs]
    BY HandlesType DEF Types, Refs
  <2>2. QED
    BY <1>6, <1>16, <2>1 DEF Cons
<1>17. CASE Number
  <2>1. [type |-> "number", car |-> Nil, cdr |-> Nil] \in [type : Types, car : Refs, cdr : Refs]
    BY DEF Types, Refs
  <2>2. QED
    BY <1>6, <1>17, <2>1 DEF Number
<1>18. CASE Ptr
  <2>1. [type |-> "ptr", car |-> Nil, cdr |-> Nil] \in [type : Types, car : Refs, cdr : Refs]
    BY DEF Types, Refs
  <2>2. QED
    BY <1>6, <1>18, <2>1 DEF Ptr
<1>19. CASE UNCHANGED vars
  BY <1>19 DEF vars, TypeOK
<1>20. CASE Client
  BY <1>1, <1>8, <1>9, <1>10, <1>11, <1>12, <1>13, <1>16, <1>17, <1>18, <1>20 DEF Client
<1>21. QED
  BY <1>2, <1>3, <1>4, <1>5, <1>14, <1>15, <1>19, <1>20 DEF Next
-----------------------------------------------------------------------------
(***************************************************************************)
(* What every step must keep                                               *)
(***************************************************************************)
(* The parts of the invariant, and the two things a step may never do.     *)
Kept == (FreeSafe /\ JobInv /\ TableInv)' /\ LosesByOverflow /\ KeepsSymbols

(* What an allocation of c leaves alone when its caller fills in the cells *)
(* of W.                                                                   *)
Frame(c, W) ==
  /\ c \notin Outer /\ (~Linked => c \notin Live)
  /\ \A d \in Outer : heap'[d] = heap[d] /\ text'[d] = text[d]
  /\ \A d \in Live : text'[d] = text[d]
  /\ \A d \in Live \ W : heap'[d] = heap[d]
  /\ Reach(heap', BaseRoots) = Outer
  /\ freelist' \subseteq FreeTyped(heap')
  /\ Live \cap FreeTyped(heap') = {} /\ c \notin FreeTyped(heap')
  /\ Linked => \A d \in Heads(freelist) \cap Cells : d = c
  /\ Lost' = Lost

(* object() pops the cell c, and its caller fills in the cells W: c and    *)
(* others that live, but are none that an error leaves.                    *)
LEMMA Allocated ==
  ASSUME TypeOK, TypeOK', FreeSafe, JobInv, TableInv,
         NEW c \in Cells, Pop(c), Finalize(Swept),
         NEW W \in SUBSET Cells, c \in W,
         \A d \in W \ {c} : d \in Live \ Outer /\ heap[d].type # "free",
         \A d \in Cells \ W : heap'[d] = HeapAfterGC[d],
         \A d \in W : heap'[d].type # "free"
  PROVE  Frame(c, W)
<1>1. /\ Swept \cap Live = {} /\ Swept \cap FreeTyped(heap) = {}
      /\ \A d \in Live : HeapAfterGC[d] = heap[d]
      /\ FreeTyped(HeapAfterGC) = FreeTyped(heap) \cup Swept
      /\ Available \subseteq FreeTyped(HeapAfterGC) /\ Available \subseteq Cells
      /\ Available \cap Outer = {}
      /\ Available \cap Live \subseteq (IF Linked THEN Heads(Available) ELSE {})
      /\ Linked /\ Available # {} => Heads(freelist) \cap Cells \subseteq Heads(Available)
  BY AfterGC
<1>2. Available # {} /\ c \in Heads(Available) /\ freelist' = Available \ {c}
  BY DEF Pop
<1>3. c \in Available
  BY <1>2 DEF Heads
<1>4. Outer \subseteq Live /\ Live \subseteq Cells
  BY Roots
<1>5. c \notin Outer /\ (~Linked => c \notin Live)
  BY <1>1, <1>3
<1>6. \A d \in Live : text'[d] = text[d]
  BY <1>1, <1>4 DEF Finalize
<1>7. \A d \in Live \ W : heap'[d] = heap[d]
  BY <1>1, <1>4
<1>8. W \cap Outer = {}
  BY <1>5
<1>9. \A d \in Outer : heap'[d] = heap[d] /\ text'[d] = text[d]
  BY <1>4, <1>6, <1>7, <1>8
<1>10. Reach(heap', BaseRoots) = Outer
  <2>1. heap \in Heaps /\ heap' \in Heaps /\ BaseRoots \subseteq Refs
    BY Roots DEF TypeOK
  <2>2. QED
    BY <1>9, <2>1, ReachFrame DEF Outer
<1>11. FreeTyped(heap') = (FreeTyped(heap) \cup Swept) \ W
  <2>1. FreeTyped(heap') = FreeTyped(HeapAfterGC) \ W
    BY DEF FreeTyped
  <2>2. QED
    BY <1>1, <2>1
<1>12. \A d \in W \ {c} : d \notin FreeTyped(heap) \cup Swept
  BY <1>1 DEF FreeTyped
<1>13. freelist' \subseteq FreeTyped(heap')
  BY <1>1, <1>2, <1>11, <1>12
<1>14. Linked => \A d \in Heads(freelist) \cap Cells : d = c
  BY <1>1, <1>2, OneHead
<1>15. Live \cap FreeTyped(heap') = {}
  <2>1. Live \cap FreeTyped(heap) \subseteq {c}
    BY <1>4, <1>14 DEF FreeSafe
  <2>2. QED
    BY <1>1, <1>11, <2>1
<1>16. Lost' = Lost
  <2>1. freelist' = (freelist \cup Swept) \ {c}
    BY <1>2 DEF Available
  <2>2. c \in FreeTyped(heap) => c \in freelist
    BY <1>1, <1>3 DEF Available
  <2>3. freelist \subseteq FreeTyped(heap)
    BY DEF FreeSafe
  <2>4. Lost' = FreeTyped(heap') \ freelist'
    BY DEF Lost
  <2>5. Lost = FreeTyped(heap) \ freelist
    BY DEF Lost
  <2>6. QED
    BY <1>1, <1>11, <1>12, <2>1, <2>2, <2>3, <2>4, <2>5
<1>17. QED
  BY <1>5, <1>6, <1>7, <1>9, <1>10, <1>11, <1>13, <1>14, <1>15, <1>16 DEF Frame

(* The caller fills in the new cell only. *)
LEMMA AllocatedOne ==
  ASSUME TypeOK, TypeOK', FreeSafe, JobInv, TableInv,
         NEW c \in Cells, Pop(c), Finalize(Swept),
         \A d \in Cells \ {c} : heap'[d] = HeapAfterGC[d], heap'[c].type # "free"
  PROVE  Frame(c, {c})
<1>1. \A d \in {c} \ {c} : d \in Live \ Outer /\ heap[d].type # "free"
  OBVIOUS
<1>2. \A d \in {c} : heap'[d].type # "free"
  OBVIOUS
<1>3. {c} \in SUBSET Cells /\ c \in {c}
  OBVIOUS
<1>4. QED
  BY <1>1, <1>2, <1>3, Allocated

(* Pushing a cell adds one root, and none to those that an error leaves.   *)
LEMMA Pushed ==
  ASSUME TypeOK, JobInv, NEW c \in Refs, gcstack' = Append(gcstack, c)
  PROVE  /\ {gcstack'[i] : i \in 1..Len(gcstack')} = {gcstack[i] : i \in 1..Len(gcstack)} \cup {c}
         /\ Len(gcstack') = Len(gcstack) + 1
         /\ Base' = Base /\ symlist' = symlist => BaseRoots' = BaseRoots
<1> DEFINE n == Len(gcstack)
<1>1. gcstack \in Seq(Refs) /\ n \in Nat
  BY DEF TypeOK
<1>2. /\ gcstack' \in Seq(Refs) /\ Len(gcstack') = n + 1
      /\ \A i \in 1..n : gcstack'[i] = gcstack[i]
      /\ gcstack'[n + 1] = c
  BY <1>1
<1>3. Base \in 0..n
  BY BaseType
<1>4. Base' = Base /\ symlist' = symlist => BaseRoots' = BaseRoots
  BY <1>2, <1>3 DEF BaseRoots
<1>5. {gcstack'[i] : i \in 1..(n + 1)} = {gcstack[i] : i \in 1..n} \cup {c}
  BY <1>1, <1>2
<1>6. QED
  BY <1>2, <1>4, <1>5

(* With no constructor running, an error leaves everything. *)
LEMMA IdleOuter ==
  ASSUME job = Idle
  PROVE  BaseRoots = RootSet /\ Outer = Live /\ ~Linked /\ ~Making
  BY DEF Idle, BaseRoots, Base, RootSet, Outer, Live, Linked, Making

(* Between two constructors it is enough that no free cell is live and the *)
(* table is sound.                                                         *)
LEMMA Quiet ==
  ASSUME TypeOK', job' = Idle, freelist' \subseteq FreeTyped(heap'),
         Live' \cap FreeTyped(heap') = {}
  PROVE  FreeSafe' /\ JobInv'
<1>1. Outer' = Live' /\ ~Linked' /\ ~Making'
  BY DEF Idle, BaseRoots, Base, RootSet, Outer, Live, Linked, Making
<1>2. FreeSafe'
  BY <1>1 DEF FreeSafe
<1>3. JobInv'
  BY <1>1 DEF JobInv, Idle
<1>4. QED
  BY <1>2, <1>3

(* What lives after a step. *)
LEMMA LiveNext ==
  ASSUME NEW S \in SUBSET Cells, RootSet' \ {Nil} \subseteq S,
         \A d \in S : Succ(heap', d) \ {Nil} \subseteq S
  PROVE  Live' \subseteq S
<1>1. Reach(heap', RootSet') \subseteq S
  BY ReachLeast DEF ClosedUnder
<1>2. QED
  BY <1>1 DEF Live
-----------------------------------------------------------------------------
(***************************************************************************)
(* The steps of fe_symbol                                                  *)
(***************************************************************************)
LEMMA KeepSymbolObject ==
  ASSUME TypeOK, TypeOK', FreeSafe, JobInv, TableInv, NEW n \in Names, SymbolObject(n)
  PROVE  Kept
<1> DEFINE Made(c, link) ==
        /\ Object(c)
        /\ heap' = [HeapAfterGC EXCEPT ![c] = [type |-> "symbol", car |-> Nil, cdr |-> link]]
        /\ job' = [op |-> "string", base |-> Len(gcstack), name |-> n, nodes |-> 0,
                   obj |-> c, str |-> Nil, tail |-> Nil]
<1>0. PICK c \in Cells : \E x \in Heads(Available \ {c}) : Made(c, x)
  BY DEF SymbolObject
<1>1. PICK link \in Heads(Available \ {c}) : Made(c, link)
  BY <1>0
<1>2. Pop(c) /\ gcstack' = Append(gcstack, c) /\ symlist' = symlist /\ Finalize(Swept)
      /\ job = Idle /\ ~Interned(n)
  BY <1>1 DEF Object, SymbolObject
<1>3. BaseRoots = RootSet /\ Outer = Live /\ ~Linked
  BY <1>2, IdleOuter
<1>4. heap \in Heaps /\ heap' \in Heaps /\ HeapAfterGC \in Heaps
  BY AfterGC DEF TypeOK
<1>5. heap'[c] = [type |-> "symbol", car |-> Nil, cdr |-> link]
      /\ \A d \in Cells \ {c} : heap'[d] = HeapAfterGC[d]
  BY <1>1, <1>4 DEF Heaps
<1>6. /\ c \notin Outer /\ c \notin Live
      /\ \A d \in Outer : heap'[d] = heap[d] /\ text'[d] = text[d]
      /\ \A d \in Live \ {c} : heap'[d] = heap[d]
      /\ Reach(heap', BaseRoots) = Outer
      /\ freelist' \subseteq FreeTyped(heap')
      /\ Live \cap FreeTyped(heap') = {} /\ c \notin FreeTyped(heap')
      /\ Lost' = Lost
  <2>1. Frame(c, {c})
    BY <1>2, <1>5, AllocatedOne
  <2>2. QED
    BY <1>3, <2>1 DEF Frame
<1>7. TableInv' /\ Symbols' = Symbols /\ (\A s \in Symbols : NameOf(s)' = NameOf(s))
      /\ \A m : Interned(m)' <=> Interned(m)
  BY <1>2, <1>6, OuterFrame
<1>8. BaseRoots' = BaseRoots /\ RootSet' = RootSet \cup {c} /\ Len(gcstack') = Len(gcstack) + 1
  <2>1. Base' = Base
    BY <1>1, <1>2 DEF Base, Idle
  <2>2. QED
    BY <1>2, <2>1, Pushed DEF RootSet, Refs
<1>9. Outer' = Outer
  BY <1>6, <1>8 DEF Outer
<1>10. Linked' /\ link \in Heads(freelist')
  BY <1>1, <1>2 DEF Linked, Pop
<1>11. Live' \subseteq Live \cup {c} \cup ({link} \cap FreeTyped(heap'))
  <2> DEFINE S == Live \cup {c} \cup ({link} \cap FreeTyped(heap'))
  <2>1. S \subseteq Cells /\ RootSet' \ {Nil} \subseteq S
    BY <1>8, Roots DEF FreeTyped
  <2>2. ASSUME NEW d \in S PROVE Succ(heap', d) \ {Nil} \subseteq S
    <3>1. d \in Live => Succ(heap', d) = Succ(heap, d)
      BY <1>6 DEF Succ
    <3>2. d \in FreeTyped(heap') => Succ(heap', d) = {}
      BY DEF FreeTyped, Succ, CdrOnly
    <3>3. Succ(heap', c) = {link}
      BY <1>5 DEF Succ, CdrOnly
    <3>4. link # Nil => link \in FreeTyped(heap')
      BY <1>6, <1>10 DEF Heads
    <3>5. CASE d \in Live
      BY <3>1, <3>5, LiveClosed
    <3>6. CASE d = c
      BY <3>3, <3>4, <3>6
    <3>7. CASE d \in FreeTyped(heap')
      BY <3>2, <3>7
    <3>8. QED
      BY <3>5, <3>6, <3>7
  <2> HIDE DEF S
  <2>3. Live' \subseteq S
    BY <2>1, <2>2, LiveNext
  <2>4. QED
    BY <2>3 DEF S
<1>12. FreeSafe'
  BY <1>6, <1>9, <1>10, <1>11, <1>3 DEF FreeSafe
<1>13. JobInv'
  <2>1. job'.op = "string" /\ job'.nodes = 0 /\ job'.base = Len(gcstack) /\ job'.name = n
        /\ job'.obj = c /\ job'.str = Nil /\ job'.tail = Nil
    BY <1>1
  <2>2. job'.base <= Len(gcstack')
    BY <1>8, <2>1 DEF TypeOK
  <2>3. c \in RootSet' \ {Nil} /\ {c, Nil} \cap Outer' = {} /\ c # Nil
    BY <1>6, <1>8, <1>9, Roots DEF Cells, Nil
  <2>4. heap'[c].type = "symbol" /\ heap'[c].cdr \in Heads(freelist')
    BY <1>5, <1>10
  <2>5. ~Interned(n)'
    BY <1>2, <1>7
  <2>6. QED
    BY <2>1, <2>2, <2>3, <2>4, <2>5 DEF JobInv, Making
<1>14. QED
  BY <1>6, <1>7, <1>12, <1>13 DEF Kept, LosesByOverflow, KeepsSymbols

(* A new cell that refers to live ones adds itself to what lives, if that. *)
LEMMA Grown ==
  ASSUME TypeOK, TypeOK', FreeSafe, JobInv, NEW c \in Cells, NEW W, c \in W, Frame(c, W),
         RootSet' \subseteq RootSet \cup {c},
         \A d \in W : Succ(heap', d) \ {Nil} \subseteq Live \cup {c}
  PROVE  Live' \subseteq Live \cup {c} /\ Live' \cap FreeTyped(heap') = {}
<1> DEFINE S == Live \cup {c}
<1>1. S \subseteq Cells /\ RootSet' \ {Nil} \subseteq S
  BY Roots
<1>2. ASSUME NEW d \in S PROVE Succ(heap', d) \ {Nil} \subseteq S
  <2>1. CASE d \in W
    BY <2>1
  <2>2. CASE d \in Live \ W
    <3>1. Succ(heap', d) = Succ(heap, d)
      BY <2>2 DEF Frame, Succ
    <3>2. QED
      BY <2>2, <3>1, LiveClosed
  <2>3. QED
    BY <2>1, <2>2
<1> HIDE DEF S
<1>3. Live' \subseteq S
  BY <1>1, <1>2, LiveNext
<1>4. QED
  BY <1>3 DEF S, Frame

LEMMA GrownOne ==
  ASSUME TypeOK, TypeOK', FreeSafe, JobInv, NEW c \in Cells, Frame(c, {c}),
         RootSet' \subseteq RootSet \cup {c}, Succ(heap', c) \ {Nil} \subseteq Live \cup {c}
  PROVE  Live' \subseteq Live \cup {c} /\ Live' \cap FreeTyped(heap') = {}
<1>1. \A d \in {c} : Succ(heap', d) \ {Nil} \subseteq Live \cup {c}
  OBVIOUS
<1>2. c \in {c}
  OBVIOUS
<1>3. QED
  BY <1>1, <1>2, Grown

(* The first cell of the name, onto which the half-built symbol's link has *)
(* pointed all along if the freelist was not empty.                        *)
LEMMA KeepFirstNode ==
  ASSUME TypeOK, TypeOK', FreeSafe, JobInv, TableInv, NEW c \in Cells, Pop(c), Finalize(Swept),
         job.op = "string", job.nodes = 0, symlist' = symlist,
         gcstack' = Append(gcstack, c),
         heap' = [HeapAfterGC EXCEPT ![c] = [type |-> "string", car |-> Nil, cdr |-> Nil]],
         job' = [job EXCEPT !.nodes = 1, !.str = c, !.tail = c]
  PROVE  Kept
<1>1. Making /\ Linked
  BY DEF Making, Linked
<1>2. /\ job'.op = "string" /\ job'.nodes = 1 /\ job'.str = c /\ job'.tail = c
      /\ job'.obj = job.obj /\ job'.base = job.base /\ job'.name = job.name
  BY DEF TypeOK, Jobs
<1>3. heap'[c] = [type |-> "string", car |-> Nil, cdr |-> Nil]
      /\ \A d \in Cells \ {c} : heap'[d] = HeapAfterGC[d]
  BY AfterGC DEF Heaps
<1>4. Frame(c, {c})
  BY <1>3, AllocatedOne
<1>5. TableInv' /\ Symbols' = Symbols /\ (\A s \in Symbols : NameOf(s)' = NameOf(s))
      /\ \A m : Interned(m)' <=> Interned(m)
  BY <1>4, OuterFrame DEF Frame
<1>6. BaseRoots' = BaseRoots /\ RootSet' = RootSet \cup {c} /\ Len(gcstack') = Len(gcstack) + 1
  <2>1. Base' = Base
    BY <1>2 DEF Base
  <2>2. QED
    BY <2>1, Pushed DEF RootSet, Refs
<1>7. Outer' = Outer
  BY <1>4, <1>6 DEF Outer, Frame
<1>8. Live' \subseteq Live \cup {c} /\ Live' \cap FreeTyped(heap') = {}
  <2>1. Succ(heap', c) \ {Nil} = {}
    BY <1>3 DEF Succ, CdrOnly
  <2>2. QED
    BY <1>4, <1>6, <2>1, GrownOne
<1>9. FreeSafe'
  BY <1>4, <1>7, <1>8, Roots DEF FreeSafe, Frame
<1>10. JobInv'
  <2>1. /\ job.base <= Len(gcstack) /\ job.name \in Names /\ ~Interned(job.name)
        /\ job.obj \in RootSet \ {Nil} /\ heap[job.obj].type = "symbol"
        /\ {job.obj, job.str, job.tail} \cap Outer = {}
    BY <1>1 DEF JobInv
  <2>2. job.obj \in Live /\ job.obj \in Cells
    BY <2>1, Roots
  <2>3. job.obj # c /\ heap'[job.obj] = heap[job.obj]
    <3>1. HeapAfterGC[job.obj] = heap[job.obj]
      BY <2>2, AfterGC
    <3>2. HeapAfterGC[c].type = "free"
      BY AfterGC DEF Pop, Heads, FreeTyped
    <3>3. QED
      BY <1>3, <2>1, <2>2, <3>1, <3>2
  <2>4. job.base <= Len(gcstack') /\ ~Interned(job.name)'
    BY <1>5, <1>6, <2>1, JobType DEF TypeOK
  <2>5. c \in RootSet' \ {Nil} /\ c \in Live' /\ c \notin Outer'
    <3>1. c \in RootSet' /\ c # Nil
      BY <1>6, CellsAreNotNil
    <3>2. RootSet' \subseteq Refs
      BY <1>6, Roots DEF Refs
    <3>3. c \in Live'
      BY <3>1, <3>2, RootsReachable DEF Live
    <3>4. QED
      BY <1>4, <1>7, <3>1, <3>3 DEF Frame
  <2>6. QED
    BY <1>2, <1>3, <1>6, <1>7, <2>1, <2>3, <2>4, <2>5 DEF JobInv, Making
<1>11. QED
  BY <1>4, <1>5, <1>9, <1>10 DEF Kept, LosesByOverflow, KeepsSymbols, Frame

(* A later cell hangs off its predecessor, which is still within reach.    *)
LEMMA KeepLaterNode ==
  ASSUME TypeOK, TypeOK', FreeSafe, JobInv, TableInv, NEW c \in Cells, Pop(c), Finalize(Swept),
         job.op = "string", job.nodes > 0, symlist' = symlist, gcstack' = gcstack,
         heap' = [HeapAfterGC EXCEPT ![c] = [type |-> "string", car |-> Nil, cdr |-> Nil],
                                     ![job.tail] = [type |-> "string", car |-> Nil, cdr |-> c]],
         job' = [job EXCEPT !.nodes = @ + 1, !.tail = c]
  PROVE  Kept
<1> DEFINE t == job.tail
<1>1. Making /\ ~Linked
  BY DEF Making, Linked
<1>2. /\ job'.op = "string" /\ job'.nodes > 0 /\ job'.str = job.str /\ job'.tail = c
      /\ job'.obj = job.obj /\ job'.base = job.base /\ job'.name = job.name
  BY JobType DEF TypeOK, Jobs
<1>3. /\ job.base <= Len(gcstack) /\ job.name \in Names /\ ~Interned(job.name)
      /\ job.obj \in RootSet \ {Nil} /\ heap[job.obj].type = "symbol"
      /\ job.str \in RootSet \ {Nil} /\ heap[job.str].type = "string"
      /\ job.obj \notin Outer /\ job.str \notin Outer
      /\ t \in Live \ Outer /\ heap[t].type = "string" /\ heap[t].cdr = Nil
  BY <1>1 DEF JobInv
<1>4. t \in Cells /\ job.obj \in Live \cap Cells /\ job.str \in Live \cap Cells
  BY <1>3, Roots
<1>5. t # c
  <2>1. HeapAfterGC[t].type = "string"
    BY <1>3, AfterGC
  <2>2. HeapAfterGC[c].type = "free"
    BY AfterGC DEF Pop, Heads, FreeTyped
  <2>3. QED
    BY <2>1, <2>2
<1>6. /\ heap'[c] = [type |-> "string", car |-> Nil, cdr |-> Nil]
      /\ heap'[t] = [type |-> "string", car |-> Nil, cdr |-> c]
      /\ \A d \in Cells \ {c, t} : heap'[d] = HeapAfterGC[d]
  BY <1>4, <1>5, AfterGC DEF Heaps
<1>7. Frame(c, {c, t})
  <2>1. \A d \in {c, t} \ {c} : d \in Live \ Outer /\ heap[d].type # "free"
    BY <1>3
  <2>2. \A d \in {c, t} : heap'[d].type # "free"
    BY <1>6
  <2>3. {c, t} \in SUBSET Cells /\ c \in {c, t}
    BY <1>4
  <2> HIDE DEF t
  <2>4. QED
    BY <1>6, <2>1, <2>2, <2>3, Allocated
<1>8. TableInv' /\ Symbols' = Symbols /\ (\A s \in Symbols : NameOf(s)' = NameOf(s))
      /\ \A m : Interned(m)' <=> Interned(m)
  BY <1>7, OuterFrame DEF Frame
<1>9. BaseRoots' = BaseRoots /\ RootSet' = RootSet
  BY <1>2 DEF Base, BaseRoots, RootSet
<1>10. Outer' = Outer
  BY <1>7, <1>9 DEF Outer, Frame
<1>11. Live' \subseteq Live \cup {c} /\ Live' \cap FreeTyped(heap') = {}
  <2>1. \A d \in {c, t} : Succ(heap', d) \ {Nil} \subseteq Live \cup {c}
    BY <1>6 DEF Succ, CdrOnly
  <2> DEFINE W == {c, t}
  <2>2. /\ c \in W /\ Frame(c, W) /\ RootSet' \subseteq RootSet \cup {c}
        /\ \A d \in W : Succ(heap', d) \ {Nil} \subseteq Live \cup {c}
    BY <1>7, <1>9, <2>1
  <2> HIDE DEF W
  <2>3. QED
    BY <2>2, Grown
<1>12. c \in Live'
  <2> DEFINE S == Live' \cap Live
  <2>1. heap' \in Heaps /\ RootSet' \subseteq Refs
    BY <1>9, Roots DEF TypeOK
  <2>2. \A d \in Live' : \A x \in Succ(heap', d) \ {Nil} : x \in Live'
    BY <2>1, ReachClosed DEF Live
  <2>3. RootSet \ {Nil} \subseteq S
    BY <1>9, <2>1, Roots, RootsReachable DEF Live
  <2>4. \A d \in S : Succ(heap, d) \ {Nil} \subseteq S
    <3>1. Succ(heap, t) \ {Nil} = {}
      BY <1>3 DEF Succ
    <3>2. \A d \in S \ {t} : heap'[d] = heap[d]
      BY <1>1, <1>7 DEF Frame
    <3>3. \A d \in S \ {t} : Succ(heap, d) = Succ(heap', d)
      BY <3>2 DEF Succ
    <3>4. QED
      BY <2>2, <3>1, <3>3, LiveClosed
  <2>5. Live \subseteq S
    <3>1. S \subseteq Cells
      BY Roots
    <3> HIDE DEF S
    <3>2. Reach(heap, RootSet) \subseteq S
      BY <2>3, <2>4, <3>1, ReachLeast DEF ClosedUnder
    <3>3. QED
      BY <3>2 DEF Live
  <2>6. c \in Succ(heap', t) \ {Nil}
    BY <1>6, CellsAreNotNil DEF Succ, CdrOnly
  <2>7. QED
    BY <1>3, <2>2, <2>5, <2>6
<1>13. FreeSafe'
  BY <1>7, <1>10, <1>11, Roots DEF FreeSafe, Frame
<1>14. JobInv'
  <2>1. job.obj \notin {c, t} /\ heap'[job.obj].type = "symbol"
    <3>1. job.obj # c
      BY <1>1, <1>4, <1>7 DEF Frame
    <3>2. QED
      BY <1>3, <1>4, <1>7, <3>1 DEF Frame
  <2>2. heap'[job.str].type = "string"
    <3>1. job.str # c
      BY <1>1, <1>4, <1>7 DEF Frame
    <3>2. CASE job.str = t
      BY <1>6, <3>2
    <3>3. CASE job.str # t
      BY <1>3, <1>4, <1>7, <3>1, <3>3 DEF Frame
    <3>4. QED
      BY <3>2, <3>3
  <2>3. c \notin Outer'
    BY <1>7, <1>10 DEF Frame
  <2>4. ~Interned(job.name)' /\ gcstack' = gcstack
    BY <1>3, <1>8
  <2>5. {job'.obj, job'.str, job'.tail} \cap Outer' = {}
    BY <1>2, <1>3, <1>10, <2>3
  <2>6. heap'[job'.tail].type = "string" /\ heap'[job'.tail].cdr = Nil /\ job'.tail \in Live'
    BY <1>2, <1>6, <1>12
  <2>7. /\ job'.base <= Len(gcstack') /\ job'.name \in Names
        /\ job'.obj \in RootSet' \ {Nil} /\ heap'[job'.obj].type = "symbol"
        /\ job'.str \in RootSet' \ {Nil} /\ heap'[job'.str].type = "string"
    BY <1>2, <1>3, <1>9, <2>1, <2>2, <2>4
  <2>8. ~Interned(job.name)' /\ job'.op = "string" /\ job'.nodes # 0 /\ job'.nodes > 0
    BY <1>2, <2>4, JobType
  <2>9. QED
    BY <2>5, <2>6, <2>7, <2>8 DEF JobInv, Making
<1>15. QED
  BY <1>7, <1>8, <1>13, <1>14 DEF Kept, LosesByOverflow, KeepsSymbols, Frame

LEMMA KeepStringNode ==
  ASSUME TypeOK, TypeOK', FreeSafe, JobInv, TableInv, StringNode
  PROVE  Kept
<1> DEFINE node(x) == [type |-> "string", car |-> Nil, cdr |-> x]
<1>1. PICK c \in Cells :
        /\ Pop(c)
        /\ \/ /\ job.nodes = 0
              /\ gcstack' = Append(gcstack, c)
              /\ heap' = [HeapAfterGC EXCEPT ![c] = node(Nil)]
              /\ job' = [job EXCEPT !.nodes = 1, !.str = c, !.tail = c]
           \/ /\ job.nodes > 0
              /\ gcstack' = gcstack
              /\ heap' = [HeapAfterGC EXCEPT ![c] = node(Nil), ![job.tail] = node(c)]
              /\ job' = [job EXCEPT !.nodes = @ + 1, !.tail = c]
  BY DEF StringNode
<1>2. job.op = "string" /\ symlist' = symlist /\ Finalize(Swept)
  BY DEF StringNode
<1>3. CASE /\ job.nodes = 0
           /\ gcstack' = Append(gcstack, c)
           /\ heap' = [HeapAfterGC EXCEPT ![c] = node(Nil)]
           /\ job' = [job EXCEPT !.nodes = 1, !.str = c, !.tail = c]
  BY <1>1, <1>2, <1>3, KeepFirstNode
<1>4. CASE /\ job.nodes > 0
           /\ gcstack' = gcstack
           /\ heap' = [HeapAfterGC EXCEPT ![c] = node(Nil), ![job.tail] = node(c)]
           /\ job' = [job EXCEPT !.nodes = @ + 1, !.tail = c]
  BY <1>1, <1>2, <1>4, KeepLaterNode
<1>5. QED
  BY <1>1, <1>3, <1>4

LEMMA KeepStringDone ==
  ASSUME TypeOK, TypeOK', FreeSafe, JobInv, TableInv, StringDone
  PROVE  Kept
<1>1. /\ job.op = "string" /\ job.nodes = Nodes[job.name] /\ heap' = heap
      /\ freelist' = freelist /\ gcstack' = gcstack /\ symlist' = symlist
      /\ job' = [job EXCEPT !.op = "bind", !.tail = Nil]
      /\ text' = [text EXCEPT ![job.str] = job.name]
  BY DEF StringDone
<1>2. /\ job'.op = "bind" /\ job'.nodes = job.nodes /\ job'.str = job.str /\ job'.tail = Nil
      /\ job'.obj = job.obj /\ job'.base = job.base /\ job'.name = job.name
  BY <1>1 DEF TypeOK, Jobs
<1>3. Making /\ job.name \in Names
  BY <1>1 DEF Making, JobInv
<1>4. job.nodes > 0 /\ ~Linked
  <2>1. Nodes[job.name] \in Nat \ {0}
    BY <1>3, HeapAssumption
  <2>2. QED
    BY <1>1, <2>1 DEF Linked
<1>5. Outer' = Outer /\ Live' = Live /\ ~Linked' /\ RootSet' = RootSet
  BY <1>1, <1>2 DEF Outer, BaseRoots, Base, Live, RootSet, Linked
<1>6. job.str \in Cells /\ job.str \notin Outer
  BY <1>3, <1>4, Roots DEF JobInv
<1>7. TableInv' /\ Symbols' = Symbols /\ (\A s \in Symbols : NameOf(s)' = NameOf(s))
      /\ \A m : Interned(m)' <=> Interned(m)
  <2>1. \A d \in Outer : text'[d] = text[d]
    BY <1>1, <1>6, Roots DEF TypeOK
  <2>2. QED
    BY <1>1, <2>1, OuterFrame
<1>8. FreeSafe'
  BY <1>1, <1>4, <1>5 DEF FreeSafe
<1>9. text'[job.str] = job.name
  BY <1>1, <1>6 DEF TypeOK
<1>10. JobInv'
  <2>1. {job.obj, job.str} \cap Outer = {} /\ Nil \notin Outer
    BY <1>3, Roots, CellsAreNotNil DEF JobInv
  <2>2. QED
    BY <1>1, <1>2, <1>3, <1>4, <1>5, <1>7, <1>9, <2>1 DEF JobInv, Making
<1>11. QED
  BY <1>1, <1>7, <1>8, <1>10 DEF Kept, LosesByOverflow, KeepsSymbols, Lost

(* The binding cell: the half-built symbol is live and no error leaves it, *)
(* so both it and the new cell may be written.                             *)
LEMMA KeepSymbolBinding ==
  ASSUME TypeOK, TypeOK', FreeSafe, JobInv, TableInv, SymbolBinding
  PROVE  Kept
<1> DEFINE o == job.obj
<1>1. PICK c \in Cells :
        /\ Object(c)
        /\ heap' = [HeapAfterGC EXCEPT
                      ![c] = [type |-> "pair", car |-> job.str, cdr |-> Nil],
                      ![o] = [type |-> "symbol", car |-> Nil, cdr |-> c]]
  BY DEF SymbolBinding
<1>2. /\ Pop(c) /\ gcstack' = Append(gcstack, c) /\ symlist' = symlist /\ Finalize(Swept)
      /\ job.op = "bind" /\ job' = [job EXCEPT !.op = "link"]
  BY <1>1 DEF Object, SymbolBinding
<1>3. /\ job'.op = "link" /\ job'.nodes = job.nodes /\ job'.str = job.str /\ job'.tail = job.tail
      /\ job'.obj = o /\ job'.base = job.base /\ job'.name = job.name
  BY <1>2 DEF TypeOK, Jobs
<1>4. Making /\ ~Linked
  BY <1>2 DEF Making, Linked
<1>5. /\ job.base <= Len(gcstack) /\ job.name \in Names /\ ~Interned(job.name)
      /\ o \in RootSet \ {Nil} /\ heap[o].type = "symbol"
      /\ job.nodes > 0 /\ job.tail = Nil /\ text[job.str] = job.name
      /\ job.str \in RootSet \ {Nil} /\ heap[job.str].type = "string"
      /\ o \notin Outer /\ job.str \notin Outer
  BY <1>2, <1>4 DEF JobInv
<1>6. o \in Live \cap Cells /\ job.str \in Live \cap Cells /\ o # job.str
  BY <1>5, Roots
<1>7. o # c
  <2>1. HeapAfterGC[o].type = "symbol"
    BY <1>5, <1>6, AfterGC
  <2>2. HeapAfterGC[c].type = "free"
    BY <1>2, AfterGC DEF Pop, Heads, FreeTyped
  <2>3. QED
    BY <2>1, <2>2
<1>8. /\ heap'[c] = [type |-> "pair", car |-> job.str, cdr |-> Nil]
      /\ heap'[o] = [type |-> "symbol", car |-> Nil, cdr |-> c]
      /\ \A d \in Cells \ {c, o} : heap'[d] = HeapAfterGC[d]
  BY <1>1, <1>6, <1>7, AfterGC DEF Heaps
<1>9. Frame(c, {c, o})
  <2>1. \A d \in {c, o} \ {c} : d \in Live \ Outer /\ heap[d].type # "free"
    BY <1>5, <1>6
  <2>2. \A d \in {c, o} : heap'[d].type # "free"
    BY <1>8
  <2>3. {c, o} \in SUBSET Cells /\ c \in {c, o}
    BY <1>6
  <2> HIDE DEF o
  <2>4. QED
    BY <1>2, <1>8, <2>1, <2>2, <2>3, Allocated
<1>10. TableInv' /\ Symbols' = Symbols /\ (\A s \in Symbols : NameOf(s)' = NameOf(s))
      /\ \A m : Interned(m)' <=> Interned(m)
  BY <1>2, <1>9, OuterFrame DEF Frame
<1>11. BaseRoots' = BaseRoots /\ RootSet' = RootSet \cup {c} /\ Len(gcstack') = Len(gcstack) + 1
  <2>1. Base' = Base
    BY <1>2, <1>3 DEF Base
  <2>2. QED
    BY <1>2, <2>1, Pushed DEF RootSet, Refs
<1>12. Outer' = Outer
  BY <1>9, <1>11 DEF Outer, Frame
<1>13. Live' \subseteq Live \cup {c} /\ Live' \cap FreeTyped(heap') = {}
  <2> DEFINE W == {c, o}
  <2>1. Succ(heap', c) \ {Nil} \subseteq Live \cup {c} /\ Succ(heap', o) \ {Nil} \subseteq Live \cup {c}
    BY <1>6, <1>8 DEF Succ, CdrOnly
  <2>2. /\ c \in W /\ Frame(c, W) /\ RootSet' \subseteq RootSet \cup {c}
        /\ \A d \in W : Succ(heap', d) \ {Nil} \subseteq Live \cup {c}
    BY <1>9, <1>11, <2>1
  <2> HIDE DEF W
  <2>3. QED
    BY <2>2, Grown
<1>14. FreeSafe'
  BY <1>4, <1>9, <1>12, <1>13, Roots DEF FreeSafe, Frame
<1>15. c \notin Live /\ c \notin Outer'
  BY <1>4, <1>9, <1>12 DEF Frame
<1>16. JobInv'
  <2>1. heap'[job.str] = heap[job.str] /\ text'[job.str] = text[job.str]
    BY <1>6, <1>9, <1>15 DEF Frame
  <2>2. {job'.obj, job'.str, job'.tail} \cap Outer' = {}
    BY <1>3, <1>5, <1>12, Roots, CellsAreNotNil
  <2>3. /\ job'.base <= Len(gcstack') /\ job'.name \in Names
        /\ job'.obj \in RootSet' \ {Nil} /\ heap'[job'.obj].type = "symbol"
        /\ job'.str \in RootSet' \ {Nil} /\ heap'[job'.str].type = "string"
        /\ text'[job'.str] = job'.name /\ job'.tail = Nil
    BY <1>3, <1>5, <1>8, <1>11, <2>1, JobType DEF TypeOK
  <2>4. ~Interned(job.name)' /\ job'.op = "link" /\ job'.nodes # 0 /\ job'.nodes > 0
    BY <1>3, <1>5, <1>10, JobType
  <2>5. /\ heap'[job'.obj].cdr \in Cells \ Outer'
        /\ heap'[heap'[job'.obj].cdr].type = "pair"
        /\ heap'[heap'[job'.obj].cdr].car = job'.str
    BY <1>3, <1>8, <1>15
  <2>6. QED
    BY <2>2, <2>3, <2>4, <2>5 DEF JobInv, Making
<1>17. QED
  BY <1>9, <1>10, <1>14, <1>16 DEF Kept, LosesByOverflow, KeepsSymbols, Frame

(* The finished symbol joins the table. *)
LEMMA KeepSymbolLink ==
  ASSUME TypeOK, TypeOK', FreeSafe, JobInv, TableInv, SymbolLink
  PROVE  Kept
<1> DEFINE o == job.obj
<1>1. PICK c \in Cells :
        /\ Object(c)
        /\ heap' = [HeapAfterGC EXCEPT ![c] = [type |-> "pair", car |-> o, cdr |-> symlist]]
        /\ symlist' = c
  BY DEF SymbolLink
<1>2. /\ Pop(c) /\ gcstack' = Append(gcstack, c) /\ Finalize(Swept)
      /\ job.op = "link" /\ job' = Idle
  BY <1>1 DEF Object, SymbolLink
<1>3. Making /\ ~Linked
  BY <1>2 DEF Making, Linked
<1>4. /\ job.name \in Names /\ ~Interned(job.name)
      /\ o \in RootSet \ {Nil} /\ heap[o].type = "symbol"
      /\ job.nodes > 0 /\ text[job.str] = job.name
      /\ job.str \in RootSet \ {Nil} /\ heap[job.str].type = "string"
      /\ o \notin Outer
      /\ heap[o].cdr \in Cells \ Outer /\ heap[heap[o].cdr].type = "pair"
      /\ heap[heap[o].cdr].car = job.str
  BY <1>2, <1>3 DEF JobInv
<1>5. o \in Live \cap Cells /\ job.str \in Live \cap Cells
  BY <1>4, Roots
<1>6. heap[o].cdr \in Live
  BY <1>4, <1>5, CellsAreNotNil, LiveClosed DEF Succ, CdrOnly
<1>7. heap \in Heaps /\ heap' \in Heaps /\ symlist \in Refs
  BY DEF TypeOK
<1>8. /\ heap'[c] = [type |-> "pair", car |-> o, cdr |-> symlist]
      /\ \A d \in Cells \ {c} : heap'[d] = HeapAfterGC[d]
  BY <1>1, AfterGC DEF Heaps
<1>9. Frame(c, {c})
  BY <1>2, <1>8, AllocatedOne
<1>10. c \notin Live /\ \A d \in Live : heap'[d] = heap[d] /\ text'[d] = text[d]
  BY <1>3, <1>9 DEF Frame
<1>11. RootSet' \subseteq RootSet \cup {c}
  BY <1>1, <1>2, Pushed DEF RootSet, Refs
<1>12. Live' \cap FreeTyped(heap') = {}
  <2>1. symlist \in Live \cup {Nil}
    BY Roots DEF RootSet
  <2>2. Succ(heap', c) \ {Nil} \subseteq Live \cup {c}
    BY <1>5, <1>8, <2>1 DEF Succ
  <2>3. QED
    BY <1>9, <1>11, <2>2, GrownOne
<1>13. FreeSafe' /\ JobInv'
  BY <1>2, <1>9, <1>12, Quiet DEF Frame
<1>14. Spine' = {c} \cup Spine /\ c \notin Spine /\ Spine \subseteq Live
  <2>1. Spine \subseteq Live
    BY TableWithin, Roots
  <2>2. c \notin Spine
    BY <1>10, <2>1
  <2>3. \A d \in Chain(heap, symlist) : heap'[d].cdr = heap[d].cdr
    BY <1>10, <2>1 DEF Spine
  <2>4. heap'[c].cdr = symlist /\ c \in Cells \ Chain(heap, symlist)
    BY <1>8, <2>2 DEF Spine
  <2>5. Chain(heap', c) = {c} \cup Chain(heap, symlist)
    BY <1>7, <2>3, <2>4, ChainLink
  <2>6. QED
    BY <1>1, <2>1, <2>2, <2>5 DEF Spine
<1>15. Symbols' = Symbols \cup {o}
  <2>1. \A d \in Spine : heap'[d] = heap[d]
    BY <1>10, <1>14
  <2>2. QED
    BY <1>8, <1>14, <2>1 DEF Symbols
<1>16. ASSUME NEW s \in Symbols
       PROVE  /\ heap'[s] = heap[s] /\ heap'[heap[s].cdr] = heap[heap[s].cdr]
              /\ heap'[heap[heap[s].cdr].car] = heap[heap[heap[s].cdr].car]
              /\ NameOf(s)' = NameOf(s)
              /\ heap[s].cdr \in Live
  <2>1. s \in Live /\ heap[s].cdr \in Live /\ heap[heap[s].cdr].car \in Live
    BY TableWithin, Roots
  <2>2. QED
    BY <1>10, <2>1 DEF NameOf
<1>17. /\ heap'[o] = heap[o] /\ heap'[heap[o].cdr] = heap[heap[o].cdr]
       /\ heap'[job.str] = heap[job.str] /\ text'[heap'[heap'[o].cdr].car] = job.name
  <2>1. /\ heap'[o] = heap[o] /\ heap'[heap[o].cdr] = heap[heap[o].cdr]
        /\ heap'[job.str] = heap[job.str] /\ text'[job.str] = job.name
    BY <1>4, <1>5, <1>6, <1>10
  <2>2. QED
    BY <1>4, <2>1
<1>18. TableInv'
  <2>1. \A d \in Spine' : heap'[d].type = "pair" /\ heap'[d].car # Nil
    <3>1. \A d \in Spine : heap'[d].type = "pair" /\ heap'[d].car # Nil
      BY <1>10, <1>14 DEF TableInv, SymbolTableSound
    <3>2. QED
      BY <1>4, <1>8, <1>14, <3>1
  <2>2. ASSUME NEW s \in Symbols \cup {o}
        PROVE  /\ heap'[s].type = "symbol" /\ heap'[s].cdr # Nil
               /\ heap'[heap'[s].cdr].type = "pair" /\ heap'[heap'[s].cdr].car # Nil
               /\ heap'[heap'[heap'[s].cdr].car].type = "string"
               /\ text'[heap'[heap'[s].cdr].car] \in Names
               /\ heap'[s].cdr \notin Spine'
    <3>1. CASE s \in Symbols
      <4>1. /\ heap[s].type = "symbol" /\ heap[s].cdr # Nil
            /\ heap[heap[s].cdr].type = "pair" /\ heap[heap[s].cdr].car # Nil
            /\ heap[heap[heap[s].cdr].car].type = "string"
            /\ NameOf(s) \in Names
            /\ heap[s].cdr \notin Spine
        BY <3>1 DEF TableInv, SymbolTableSound
      <4>2. heap[s].cdr \notin Spine'
        BY <1>10, <1>14, <1>16, <3>1, <4>1
      <4>3. text'[heap'[heap'[s].cdr].car] = NameOf(s)
        BY <1>16, <3>1 DEF NameOf
      <4>4. QED
        BY <1>16, <3>1, <4>1, <4>2, <4>3
    <3>2. CASE s = o
      <4>1. heap[o].cdr # Nil /\ heap[o].cdr \notin Spine /\ heap[o].cdr # c
        BY <1>4, <1>6, <1>10, TableWithin, CellsAreNotNil
      <4>2. QED
        BY <1>4, <1>14, <1>17, <3>2, <4>1
    <3>3. QED
      BY <3>1, <3>2
  <2> DEFINE name(s) == text'[heap'[heap'[s].cdr].car]
  <2>3. ASSUME NEW s \in Symbols \cup {o}, NEW r \in Symbols \cup {o}, name(s) = name(r)
        PROVE  s = r
    <3>1. \A x \in Symbols : NameOf(x) # job.name /\ name(x) = NameOf(x)
      BY <1>4, <1>16 DEF Interned, NameOf
    <3>2. name(o) = job.name
      BY <1>17
    <3>3. \A x, y \in Symbols : NameOf(x) = NameOf(y) => x = y
      BY DEF TableInv, SymbolTableSound
    <3> HIDE DEF name
    <3>4. QED
      BY <2>3, <3>1, <3>2, <3>3
  <2>4. QED
    BY <1>15, <2>1, <2>2, <2>3 DEF TableInv, SymbolTableSound, NameOf
<1>19. KeepsSymbols
  BY <1>15, <1>16 DEF KeepsSymbols
<1>20. QED
  BY <1>9, <1>13, <1>18, <1>19 DEF Kept, LosesByOverflow, Frame

-----------------------------------------------------------------------------
(***************************************************************************)
(* Errors                                                                  *)
(***************************************************************************)
(* An error leaves a prefix of the root stack that was there when the C    *)
(* function began.                                                         *)
LEMMA UnwindRoots ==
  ASSUME TypeOK, JobInv, job # Closed, Unwind, symlist' = symlist
  PROVE  job' = Idle /\ RootSet' \subseteq BaseRoots
<1>1. PICK i \in 0..(IF job = Idle THEN Len(gcstack) ELSE job.base) :
        i <= Len(gcstack) /\ gcstack' = SubSeq(gcstack, 1, i) /\ job' = Idle
  BY DEF Unwind
<1>2. i \in 0..Base
  <2>1. CASE job = Idle
    BY <1>1, <2>1 DEF Base, Idle
  <2>2. CASE job # Idle
    BY <1>1, <2>2 DEF Base, JobInv
  <2>3. QED
    BY <2>1, <2>2
<1>3. Len(gcstack') = i /\ \A k \in 1..i : gcstack'[k] = gcstack[k]
  BY <1>1, <1>2, JobType DEF TypeOK
<1>4. {gcstack'[k] : k \in 1..i} \subseteq {gcstack[k] : k \in 1..Base}
  BY <1>2, <1>3, BaseType
<1>5. QED
  BY <1>1, <1>3, <1>4 DEF RootSet, BaseRoots

LEMMA KeepOutOfMemory ==
  ASSUME TypeOK, TypeOK', FreeSafe, JobInv, TableInv, OutOfMemory
  PROVE  Kept
<1>1. /\ heap' = heap /\ text' = text /\ freelist' = freelist /\ symlist' = symlist
      /\ job' = Idle /\ RootSet' \subseteq BaseRoots
  BY UnwindRoots DEF OutOfMemory
<1>2. Live' \subseteq Outer
  BY <1>1, ReachMonotone DEF Live, Outer
<1>3. FreeSafe' /\ JobInv'
  BY <1>1, <1>2, Quiet DEF FreeSafe
<1>4. TableInv' /\ Symbols' = Symbols /\ (\A s \in Symbols : NameOf(s)' = NameOf(s))
  BY <1>1, OuterFrame
<1>5. QED
  BY <1>1, <1>3, <1>4 DEF Kept, LosesByOverflow, KeepsSymbols, Lost

(* The cell that object() popped before fe_pushgc raised is the only loss. *)
LEMMA KeepOverflow ==
  ASSUME TypeOK, TypeOK', FreeSafe, JobInv, TableInv, Overflow
  PROVE  Kept
<1>1. /\ heap' = HeapAfterGC /\ symlist' = symlist /\ Finalize(Swept)
      /\ Len(gcstack) = GCStackSize
      /\ job' = Idle /\ RootSet' \subseteq BaseRoots
  BY UnwindRoots DEF Overflow
<1>2. PICK c \in Heads(Available) : freelist' = Available \ {c}
  BY DEF Overflow
<1>3. c \in Available
  BY <1>2 DEF Overflow, Heads
<1>4. /\ Swept \cap FreeTyped(heap) = {} /\ Available \cap Outer = {}
      /\ \A d \in Live : heap'[d] = heap[d]
      /\ FreeTyped(heap') = FreeTyped(heap) \cup Swept
      /\ Available \subseteq FreeTyped(heap')
      /\ Outer \subseteq Live /\ Live \subseteq Cells /\ Swept \cap Live = {}
  BY <1>1, AfterGC, Roots
<1>5. \A d \in Outer : heap'[d] = heap[d] /\ text'[d] = text[d]
  BY <1>1, <1>4 DEF Finalize
<1>6. Live' \subseteq Outer
  <2>1. Reach(heap', BaseRoots) = Outer
    <3>1. BaseRoots \subseteq Refs /\ heap \in Heaps /\ heap' \in Heaps
      BY Roots DEF TypeOK
    <3>2. QED
      BY <1>5, <3>1, ReachFrame DEF Outer
  <2>2. QED
    BY <1>1, <2>1, ReachMonotone DEF Live
<1>7. Live' \cap FreeTyped(heap') = {}
  BY <1>4, <1>6 DEF FreeSafe
<1>8. FreeSafe' /\ JobInv'
  BY <1>1, <1>2, <1>4, <1>7, Quiet
<1>9. TableInv' /\ Symbols' = Symbols /\ (\A s \in Symbols : NameOf(s)' = NameOf(s))
  BY <1>1, <1>5, OuterFrame
<1>10. LosesByOverflow
  <2>1. c \in FreeTyped(heap) => c \in freelist
    BY <1>3, <1>4 DEF Available
  <2>2. Lost' = Lost \cup {c} /\ c \notin Lost
    BY <1>2, <1>3, <1>4, <2>1 DEF Lost, Available, FreeSafe
  <2>3. Lost' \ Lost = {c}
    BY <2>2
  <2>4. QED
    BY <1>1, <2>2, <2>3, FS_Singleton DEF LosesByOverflow
<1>11. QED
  BY <1>8, <1>9, <1>10 DEF Kept, KeepsSymbols
-----------------------------------------------------------------------------
(***************************************************************************)
(* The program                                                             *)
(***************************************************************************)
LEMMA HandlesLive ==
  ASSUME NEW v \in Handles \cup {Nil}
  PROVE  v \in Live \cup {Nil} /\ (v # Nil => v \notin Internals)
  BY DEF Handles, Live

(* A constructor of one cell. *)
LEMMA KeepConstruct ==
  ASSUME TypeOK, TypeOK', FreeSafe, JobInv, TableInv,
         NEW type \in Types \ {"free"}, NEW a \in Live \cup {Nil}, NEW d \in Live \cup {Nil},
         Construct([type |-> type, car |-> a, cdr |-> d])
  PROVE  Kept
<1> DEFINE cell == [type |-> type, car |-> a, cdr |-> d]
<1>1. PICK c \in Cells : Object(c) /\ heap' = [HeapAfterGC EXCEPT ![c] = cell]
  BY DEF Construct
<1>2. /\ Pop(c) /\ gcstack' = Append(gcstack, c) /\ symlist' = symlist /\ Finalize(Swept)
      /\ job = Idle /\ job' = Idle
  BY <1>1 DEF Object, Construct
<1>3. heap'[c] = cell /\ \A x \in Cells \ {c} : heap'[x] = HeapAfterGC[x]
  BY <1>1, AfterGC DEF Heaps
<1>4. Frame(c, {c})
  BY <1>2, <1>3, AllocatedOne
<1>5. RootSet' \subseteq RootSet \cup {c}
  BY <1>2, Pushed DEF RootSet, Refs
<1>6. Live' \cap FreeTyped(heap') = {}
  <2>1. Succ(heap', c) \ {Nil} \subseteq Live \cup {c}
    BY <1>3 DEF Succ
  <2>2. QED
    BY <1>4, <1>5, <2>1, GrownOne
<1>7. FreeSafe' /\ JobInv'
  BY <1>2, <1>4, <1>6, Quiet DEF Frame
<1>8. TableInv' /\ Symbols' = Symbols /\ (\A s \in Symbols : NameOf(s)' = NameOf(s))
  BY <1>2, <1>4, OuterFrame DEF Frame
<1>9. QED
  BY <1>4, <1>7, <1>8 DEF Kept, LosesByOverflow, KeepsSymbols, Frame

(* A write to a live pair or pointer that is no cell of the symbol table,  *)
(* but for the values of symbols.                                          *)
LEMMA KeepMutated ==
  ASSUME TypeOK, TypeOK', FreeSafe, JobInv, TableInv, job = Idle,
         NEW p \in Live, NEW cell, cell.type = heap[p].type, cell.type \in {"pair", "ptr"},
         {cell.car, cell.cdr} \subseteq Live \cup {Nil},
         p \notin Spine, \A s \in Symbols : heap[s].cdr = p => cell.car = heap[p].car,
         heap' = [heap EXCEPT ![p] = cell],
         UNCHANGED <<text, freelist, gcstack, symlist, job>>
  PROVE  Kept
<1>1. p \in Cells /\ Live \subseteq Cells /\ Outer = Live /\ ~Linked
  BY Roots, IdleOuter
<1>2. heap'[p] = cell /\ \A x \in Cells \ {p} : heap'[x] = heap[x]
  BY <1>1 DEF TypeOK, Heaps
<1>3. Live' \subseteq Live
  <2>1. RootSet' \ {Nil} \subseteq Live
    BY Roots DEF RootSet
  <2>2. ASSUME NEW x \in Live PROVE Succ(heap', x) \ {Nil} \subseteq Live
    <3>1. CASE x = p
      BY <1>2, <3>1 DEF Succ
    <3>2. CASE x # p
      <4>1. Succ(heap', x) = Succ(heap, x)
        BY <1>1, <1>2, <3>2 DEF Succ
      <4>2. QED
        BY <4>1, LiveClosed
    <3>3. QED
      BY <3>1, <3>2
  <2>3. QED
    BY <1>1, <2>1, <2>2, LiveNext
<1>4. FreeTyped(heap') = FreeTyped(heap)
  BY <1>2 DEF FreeTyped
<1>5. FreeSafe' /\ JobInv'
  BY <1>1, <1>3, <1>4, Quiet DEF FreeSafe
<1>6. TableInv' /\ Symbols' = Symbols /\ (\A s \in Symbols : NameOf(s)' = NameOf(s))
  <2>1. \A x \in Spine : heap'[x] = heap[x]
    BY <1>1, <1>2, TableWithin
  <2>2. ASSUME NEW s \in Symbols
        PROVE  /\ heap'[s] = heap[s]
               /\ heap'[heap[s].cdr].type = heap[heap[s].cdr].type
               /\ heap'[heap[s].cdr].car = heap[heap[s].cdr].car
               /\ heap'[heap[heap[s].cdr].car] = heap[heap[heap[s].cdr].car]
    <3>1. /\ s \in Cells /\ heap[s].type = "symbol" /\ heap[s].cdr \in Cells
          /\ heap[heap[s].cdr].car \in Cells
          /\ heap[heap[heap[s].cdr].car].type = "string"
      BY TableWithin
    <3>2. s # p /\ heap[heap[s].cdr].car # p
      BY <3>1
    <3>3. QED
      BY <1>2, <3>1, <3>2
  <2>3. QED
    BY <2>1, <2>2, TableFrame
<1>7. QED
  BY <1>4, <1>5, <1>6 DEF Kept, LosesByOverflow, KeepsSymbols, Lost

LEMMA KeepFeSet ==
  ASSUME TypeOK, TypeOK', FreeSafe, JobInv, TableInv,
         NEW s \in Symbols, NEW v \in Handles \cup {Nil}, FeSet(s, v)
  PROVE  Kept
<1> DEFINE p == heap[s].cdr
           cell == [type |-> "pair", car |-> heap[p].car, cdr |-> v]
<1>1. /\ job = Idle /\ heap' = [heap EXCEPT ![p] = cell]
      /\ UNCHANGED <<text, freelist, gcstack, symlist, job>>
  BY DEF FeSet
<1>2. p \in Live /\ heap[p].type = "pair" /\ p \notin Spine
      /\ heap[p].car \in Live
  BY TableWithin, Roots DEF TableInv
<1>3. v \in Live \cup {Nil}
  BY HandlesLive
<1>4. /\ cell.type = heap[p].type /\ cell.type \in {"pair", "ptr"}
      /\ {cell.car, cell.cdr} \subseteq Live \cup {Nil}
      /\ \A r \in Symbols : heap[r].cdr = p => cell.car = heap[p].car
  BY <1>2, <1>3
<1> HIDE DEF p, cell
<1>5. QED
  BY <1>1, <1>2, <1>4, KeepMutated

LEMMA KeepSetCarCdr ==
  ASSUME TypeOK, TypeOK', FreeSafe, JobInv, TableInv,
         NEW p \in Handles, NEW v \in Handles \cup {Nil}, SetCar(p, v) \/ SetCdr(p, v)
  PROVE  Kept
<1> DEFINE Written(cell) == /\ job = Idle /\ heap' = [heap EXCEPT ![p] = cell]
                            /\ UNCHANGED <<text, freelist, gcstack, symlist, job>>
<1>1. p \in Live /\ heap[p].type = "pair" /\ v \in Live \cup {Nil}
  BY HandlesLive, Roots, CellsAreNotNil DEF SetCar, SetCdr, Handles, Live
<1>2. p \notin Spine /\ \A s \in Symbols : heap[s].cdr # p
  BY DEF Handles, Internals
<1>3. heap[p].car \in Live \cup {Nil} /\ heap[p].cdr \in Live \cup {Nil}
  BY <1>1, LiveClosed DEF Succ
<1>4. ASSUME NEW cell, Written(cell), cell.type = "pair",
             cell.car \in Live \cup {Nil}, cell.cdr \in Live \cup {Nil}
      PROVE  Kept
  <2>1. /\ cell.type = heap[p].type /\ cell.type \in {"pair", "ptr"}
        /\ {cell.car, cell.cdr} \subseteq Live \cup {Nil}
    BY <1>1, <1>4
  <2>2. QED
    BY <1>1, <1>2, <1>4, <2>1, KeepMutated
<1>5. CASE SetCar(p, v)
  <2>1. Written([type |-> "pair", car |-> v, cdr |-> heap[p].cdr])
    BY <1>5 DEF SetCar
  <2> HIDE DEF Written
  <2>2. QED
    BY <1>1, <1>3, <1>4, <2>1
<1>6. CASE SetCdr(p, v)
  <2>1. Written([type |-> "pair", car |-> heap[p].car, cdr |-> v])
    BY <1>6 DEF SetCdr
  <2> HIDE DEF Written
  <2>2. QED
    BY <1>1, <1>3, <1>4, <2>1
<1>7. QED
  BY <1>5, <1>6

LEMMA KeepSetPtr ==
  ASSUME TypeOK, TypeOK', FreeSafe, JobInv, TableInv,
         NEW c \in Handles, NEW b \in Backings, NEW e \in Handles \cup {Nil}, SetPtr(c, b, e)
  PROVE  Kept
<1> DEFINE cell == [type |-> "ptr", car |-> e, cdr |-> Nil]
<1>1. /\ job = Idle /\ heap' = [heap EXCEPT ![c] = cell] /\ heap[c].type = "ptr"
      /\ UNCHANGED <<text, freelist, gcstack, symlist, job>>
  BY DEF SetPtr
<1>2. c \in Live /\ e \in Live \cup {Nil}
  BY HandlesLive DEF Handles, Live
<1>3. c \notin Spine /\ \A s \in Symbols : heap[s].cdr # c
  BY DEF Handles, Internals
<1>4. /\ cell.type = heap[c].type /\ cell.type \in {"pair", "ptr"}
      /\ {cell.car, cell.cdr} \subseteq Live \cup {Nil}
  BY <1>1, <1>2
<1> HIDE DEF cell
<1>5. QED
  BY <1>1, <1>2, <1>3, <1>4, KeepMutated

(* fe_pushgc and fe_restoregc change the roots, within what lives. *)
LEMMA KeepRoots ==
  ASSUME TypeOK, TypeOK', FreeSafe, JobInv, TableInv, job = Idle,
         RootSet' \ {Nil} \subseteq Live,
         UNCHANGED <<heap, text, freelist, symlist, job>>
  PROVE  Kept
<1>1. Outer = Live /\ Live \subseteq Cells /\ ~Linked
  BY IdleOuter, Roots
<1>2. \A d \in Live : Succ(heap', d) \ {Nil} \subseteq Live
  BY LiveClosed
<1>3. Live' \subseteq Live
  BY <1>1, <1>2, LiveNext
<1>4. FreeSafe' /\ JobInv'
  BY <1>1, <1>3, Quiet DEF FreeSafe
<1>5. TableInv' /\ Symbols' = Symbols /\ (\A s \in Symbols : NameOf(s)' = NameOf(s))
  BY OuterFrame
<1>6. QED
  BY <1>4, <1>5 DEF Kept, LosesByOverflow, KeepsSymbols, Lost

LEMMA KeepPushGC ==
  ASSUME TypeOK, TypeOK', FreeSafe, JobInv, TableInv, NEW v \in Handles \cup {Nil}, PushGC(v)
  PROVE  Kept
<1>1. v \in Live \cup {Nil} /\ v \in Refs
  BY HandlesLive, HandlesType DEF Refs
<1>2. RootSet' = RootSet \cup {v}
  BY <1>1, Pushed DEF PushGC, RootSet
<1>3. RootSet' \ {Nil} \subseteq Live
  BY <1>1, <1>2, Roots
<1>4. QED
  BY <1>3, KeepRoots DEF PushGC

LEMMA KeepRestoreGC ==
  ASSUME TypeOK, TypeOK', FreeSafe, JobInv, TableInv, NEW i \in 0..GCStackSize, RestoreGC(i)
  PROVE  Kept
<1>1. Len(gcstack') = i /\ \A k \in 1..i : gcstack'[k] = gcstack[k]
  BY DEF RestoreGC, TypeOK
<1>2. RootSet' \subseteq RootSet
  BY <1>1 DEF RootSet, RestoreGC, TypeOK
<1>3. RootSet' \ {Nil} \subseteq Live
  BY <1>2, Roots
<1>4. QED
  BY <1>3, KeepRoots DEF RestoreGC

LEMMA KeepClose ==
  ASSUME TypeOK, TypeOK', FreeSafe, JobInv, TableInv, Close
  PROVE  Kept
<1>1. /\ gcstack' = <<>> /\ symlist' = Nil /\ job' = Closed
      /\ heap' = [c \in Cells |-> IF c \in Cells \ FreeTyped(heap) THEN FreeCell ELSE heap[c]]
      /\ freelist' = freelist \cup (Cells \ FreeTyped(heap))
  BY DEF Close
<1>2. FreeTyped(heap') = Cells
  BY <1>1 DEF FreeTyped, FreeCell
<1>3. RootSet' \subseteq {Nil} /\ BaseRoots' \subseteq {Nil}
  BY <1>1 DEF RootSet, BaseRoots, Base, Closed, Idle
<1>4. Live' = {} /\ Outer' = {}
  <2>1. ASSUME NEW h, NEW R, R \subseteq {Nil} PROVE Reach(h, R) = {}
    <3>1. {} \in SUBSET Cells /\ R \ {Nil} \subseteq {} /\ ClosedUnder(h, {})
      BY <2>1 DEF ClosedUnder
    <3>2. QED
      BY <3>1, ReachLeast
  <2>2. QED
    BY <1>3, <2>1 DEF Live, Outer
<1>5. FreeSafe'
  BY <1>1, <1>2, <1>4 DEF FreeSafe, TypeOK
<1>6. JobInv'
  BY <1>1 DEF JobInv, Making, Closed, Idle
<1>7. Spine' = {} /\ Symbols' = {}
  <2>1. Chain(heap', Nil) = {}
    BY ChainOfNil DEF TypeOK
  <2>2. QED
    BY <1>1, <2>1 DEF Spine, Symbols
<1>8. TableInv'
  BY <1>7 DEF TableInv, SymbolTableSound
<1>9. Lost' = Lost
  BY <1>1, <1>2 DEF Lost, FreeSafe, FreeTyped
<1>10. QED
  BY <1>1, <1>5, <1>6, <1>8, <1>9 DEF Kept, LosesByOverflow, KeepsSymbols

LEMMA KeepClient ==
  ASSUME TypeOK, TypeOK', FreeSafe, JobInv, TableInv, job = Idle, Client
  PROVE  Kept
<1>1. ASSUME NEW x \in Handles \cup {Nil}, NEW y \in Handles \cup {Nil}, Cons(x, y) PROVE Kept
  <2>1. x \in Live \cup {Nil} /\ y \in Live \cup {Nil} /\ "pair" \in Types \ {"free"}
    BY HandlesLive DEF Types
  <2>2. QED
    BY <1>1, <2>1, KeepConstruct DEF Cons
<1>2. CASE Number \/ Ptr
  <2>1. Nil \in Live \cup {Nil} /\ "number" \in Types \ {"free"} /\ "ptr" \in Types \ {"free"}
    BY DEF Types
  <2>2. CASE Construct([type |-> "number", car |-> Nil, cdr |-> Nil])
    BY <2>1, <2>2, KeepConstruct
  <2>3. CASE Construct([type |-> "ptr", car |-> Nil, cdr |-> Nil])
    BY <2>1, <2>3, KeepConstruct
  <2>4. QED
    BY <1>2, <2>2, <2>3 DEF Number, Ptr
<1>3. QED
  BY <1>1, <1>2, KeepSymbolObject, KeepFeSet, KeepSetPtr, KeepSetCarCdr, KeepPushGC,
     KeepRestoreGC, KeepClose DEF Client

(* Every step keeps the invariant, loses no cell but by an overflow and    *)
(* forgets no symbol.                                                      *)
LEMMA KeptByNext ==
  ASSUME TypeOK, TypeOK', FreeSafe, JobInv, TableInv, Next
  PROVE  Kept
  BY KeepClient, KeepStringNode, KeepStringDone, KeepSymbolBinding, KeepSymbolLink,
     KeepOutOfMemory, KeepOverflow DEF Next

-----------------------------------------------------------------------------
(***************************************************************************)
(* Foreign pointers                                                        *)
(***************************************************************************)
(* Finalizing releases what a dead pointer owned, once, for nothing else   *)
(* owned it; what the others own is untouched.                             *)
LEMMA FinalizedOnce ==
  ASSUME TypeOK, TypeOK', OwnedOrReleased, NEW dead \in SUBSET Cells, Finalize(dead),
         \A c \in Cells \ dead : heap[c].type = "ptr" => heap'[c].type = "ptr"
  PROVE  OwnedOrReleased'
<1> DEFINE owners(b) == {c \in dead : backing[c] = b}
<1>1. /\ released' = [b \in DOMAIN released |-> released[b] + Cardinality(owners(b))]
      /\ DOMAIN released' = DOMAIN released
      /\ backing' = [c \in Cells |-> IF c \in dead THEN NoBacking ELSE backing[c]]
  BY DEF Finalize
<1>2. /\ DOMAIN released \subseteq Backings /\ released \in [DOMAIN released -> Nat]
      /\ backing \in [Cells -> Backings \cup {NoBacking}]
  BY DEF TypeOK
<1>3. \A c \in Cells : backing[c] # NoBacking =>
        /\ backing[c] \in DOMAIN released /\ heap[c].type = "ptr"
        /\ \A x \in Cells : backing[x] = backing[c] => x = c
  BY DEF OwnedOrReleased
<1>4. \A b \in DOMAIN released : released[b] = IF Owned(b) THEN 0 ELSE 1
  BY DEF OwnedOrReleased
<1>5. ASSUME NEW b \in DOMAIN released PROVE b # NoBacking
  BY <1>2, HeapAssumption
<1>6. ASSUME NEW b \in DOMAIN released, owners(b) = {}
      PROVE  released'[b] = released[b] /\ (Owned(b)' <=> Owned(b))
  <2>1. released'[b] = released[b]
    BY <1>1, <1>2, <1>6, FS_EmptySet
  <2>2. \A c \in Cells : backing'[c] = b <=> backing[c] = b
    BY <1>1, <1>5, <1>6
  <2>3. QED
    BY <2>1, <2>2 DEF Owned
<1>7. ASSUME NEW b \in DOMAIN released, owners(b) # {}
      PROVE  released'[b] = 1 /\ ~Owned(b)'
  <2>1. PICK c \in dead : backing[c] = b
    BY <1>7
  <2>2. b # NoBacking
    BY <1>5
  <2>3. owners(b) = {c} /\ released[b] = 0
    BY <1>3, <1>4, <2>1, <2>2 DEF Owned
  <2>4. Cardinality({c}) = 1
    BY FS_Singleton
  <2>5. released'[b] = released[b] + Cardinality(owners(b))
    BY <1>1
  <2>6. Cardinality(owners(b)) = 1
    BY <2>3, <2>4
  <2>7. \A x \in Cells : backing'[x] # b
    BY <1>1, <1>3, <2>1, <2>2
  <2> HIDE DEF owners
  <2>8. QED
    BY <2>3, <2>5, <2>6, <2>7 DEF Owned
<1>8. \A b \in DOMAIN released' : released'[b] = IF Owned(b)' THEN 0 ELSE 1
  <2> SUFFICES ASSUME NEW b \in DOMAIN released
               PROVE  released'[b] = IF Owned(b)' THEN 0 ELSE 1
    BY <1>1
  <2>1. CASE owners(b) = {}
    BY <1>4, <1>6, <2>1
  <2>2. CASE owners(b) # {}
    BY <1>7, <2>2
  <2>3. QED
    BY <2>1, <2>2
<1>9. ASSUME NEW c \in Cells, backing'[c] # NoBacking
      PROVE  /\ backing'[c] \in DOMAIN released'
             /\ heap'[c].type = "ptr"
             /\ \A x \in Cells : backing'[x] = backing'[c] => x = c
  <2>1. c \notin dead /\ backing'[c] = backing[c]
    BY <1>1, <1>9
  <2>2. \A x \in Cells : backing'[x] = backing'[c] => x = c
    BY <1>1, <1>3, <1>9, <2>1
  <2>3. QED
    BY <1>1, <1>3, <1>9, <2>1, <2>2
<1>10. QED
  BY <1>8, <1>9 DEF OwnedOrReleased

LEMMA BackingsKept ==
  ASSUME TypeOK, TypeOK', OwnedOrReleased, UNCHANGED <<backing, released>>,
         \A c \in Cells : heap[c].type = "ptr" => heap'[c].type = "ptr"
  PROVE  OwnedOrReleased'
  BY DEF OwnedOrReleased, Owned

(* Between a collection and the use of the popped cell no cell that owns   *)
(* something is written.                                                   *)
LEMMA AllocatedOnce ==
  ASSUME TypeOK, TypeOK', FreeSafe, JobInv, OwnedOrReleased, Finalize(Swept),
         NEW c \in Cells, Pop(c), NEW W \in SUBSET Cells,
         \A d \in W \ {c} : heap[d].type # "ptr",
         \A d \in Cells \ W : heap'[d] = HeapAfterGC[d]
  PROVE  OwnedOrReleased'
<1>1. c \in Available /\ Swept \subseteq Cells
  BY SweptCells DEF Pop, Heads
<1>2. c \in Swept \/ heap[c].type = "free"
  BY <1>1 DEF Available, FreeSafe, FreeTyped
<1>3. \A d \in Cells \ Swept : heap[d].type = "ptr" => heap'[d].type = "ptr"
  BY <1>2 DEF HeapAfterGC
<1>4. QED
  BY <1>1, <1>3, FinalizedOnce

LEMMA OneAllocatedOnce ==
  ASSUME TypeOK, TypeOK', FreeSafe, JobInv, OwnedOrReleased, Finalize(Swept),
         NEW c \in Cells, Pop(c), \A d \in Cells \ {c} : heap'[d] = HeapAfterGC[d]
  PROVE  OwnedOrReleased'
<1>1. {c} \in SUBSET Cells /\ \A d \in {c} \ {c} : heap[d].type # "ptr"
  OBVIOUS
<1>2. QED
  BY <1>1, AllocatedOnce

LEMMA BackingStep ==
  ASSUME TypeOK, TypeOK', FreeSafe, JobInv, TableInv, OwnedOrReleased, Next
  PROVE  OwnedOrReleased'
<1>0. HeapAfterGC \in Heaps /\ heap \in Heaps
  BY AfterGC DEF TypeOK
<1>1. ASSUME NEW n \in Names, SymbolObject(n) PROVE OwnedOrReleased'
  <2>1. PICK c \in Cells : /\ Pop(c)
                           /\ \A d \in Cells \ {c} : heap'[d] = HeapAfterGC[d]
    BY <1>0, <1>1 DEF SymbolObject, Object, Heaps
  <2>2. QED
    BY <1>1, <2>1, OneAllocatedOnce DEF SymbolObject
<1>2. CASE StringNode
  <2>1. PICK c \in Cells :
          /\ Pop(c)
          /\ \/ \A d \in Cells \ {c} : heap'[d] = HeapAfterGC[d]
             \/ job.nodes > 0 /\ \A d \in Cells \ {c, job.tail} : heap'[d] = HeapAfterGC[d]
    BY <1>0, <1>2 DEF StringNode, Heaps
  <2> DEFINE W == {c} \cup (IF job.nodes > 0 THEN {job.tail} ELSE {})
  <2>2. \A d \in W \ {c} : d \in Cells /\ heap[d].type # "ptr"
    BY <1>2, Roots DEF JobInv, StringNode
  <2>3. W \in SUBSET Cells /\ \A d \in Cells \ W : heap'[d] = HeapAfterGC[d]
    BY <2>1, <2>2
  <2> HIDE DEF W
  <2>4. QED
    BY <1>2, <2>1, <2>2, <2>3, AllocatedOnce DEF StringNode
<1>3. CASE SymbolBinding
  <2>1. PICK c \in Cells :
          Pop(c) /\ \A d \in Cells \ {c, job.obj} : heap'[d] = HeapAfterGC[d]
    BY <1>0, <1>3 DEF SymbolBinding, Object, Heaps
  <2> DEFINE W == {c, job.obj}
  <2>2. job.obj \in Cells /\ heap[job.obj].type # "ptr"
    BY <1>3, Roots DEF JobInv, Making, SymbolBinding
  <2>3. /\ W \in SUBSET Cells /\ \A d \in Cells \ W : heap'[d] = HeapAfterGC[d]
        /\ \A d \in W \ {c} : heap[d].type # "ptr"
    BY <2>1, <2>2
  <2> HIDE DEF W
  <2>4. QED
    BY <1>3, <2>1, <2>3, AllocatedOnce DEF SymbolBinding
<1>4. CASE SymbolLink
  <2>1. PICK c \in Cells : Pop(c) /\ \A d \in Cells \ {c} : heap'[d] = HeapAfterGC[d]
    BY <1>0, <1>4 DEF SymbolLink, Object, Heaps
  <2>2. QED
    BY <1>4, <2>1, OneAllocatedOnce DEF SymbolLink
<1>5. ASSUME NEW cell, Construct(cell) PROVE OwnedOrReleased'
  <2>1. PICK c \in Cells : Pop(c) /\ \A d \in Cells \ {c} : heap'[d] = HeapAfterGC[d]
    BY <1>0, <1>5 DEF Construct, Object, Heaps
  <2>2. QED
    BY <1>5, <2>1, OneAllocatedOnce DEF Construct
<1>6. ASSUME NEW p, NEW cell, heap[p].type = "pair", heap' = [heap EXCEPT ![p] = cell],
             UNCHANGED <<backing, released>>
      PROVE  OwnedOrReleased'
  BY <1>0, <1>6, BackingsKept DEF Heaps
<1>7. ASSUME NEW c \in Handles, NEW b \in Backings, NEW e, SetPtr(c, b, e)
      PROVE  OwnedOrReleased'
  <2>1. c \in Cells /\ b # NoBacking
    BY HeapAssumption DEF Handles, Reach
  <2>2. /\ heap[c].type = "ptr" /\ backing[c] = NoBacking /\ b \notin DOMAIN released
        /\ backing' = [backing EXCEPT ![c] = b]
        /\ released' = [x \in DOMAIN released \cup {b} |-> IF x = b THEN 0 ELSE released[x]]
        /\ heap' = [heap EXCEPT ![c] = [type |-> "ptr", car |-> e, cdr |-> Nil]]
    BY <1>7 DEF SetPtr
  <2>3. \A x \in Cells : heap[x].type = "ptr" => heap'[x].type = "ptr"
    BY <1>0, <2>1, <2>2 DEF Heaps
  <2>4. backing'[c] = b /\ \A x \in Cells \ {c} : backing'[x] = backing[x]
    BY <2>1, <2>2 DEF TypeOK
  <2>5. \A x \in Cells : backing[x] # b
    BY <2>1, <2>2 DEF OwnedOrReleased
  <2>6. \A y \in DOMAIN released : released'[y] = released[y] /\ (Owned(y)' <=> Owned(y))
    <3>1. \A y \in DOMAIN released : y # b /\ y # NoBacking
      BY <2>2, HeapAssumption DEF TypeOK
    <3>2. QED
      BY <2>1, <2>2, <2>4, <3>1 DEF Owned
  <2>7. released'[b] = 0 /\ Owned(b)' /\ DOMAIN released' = DOMAIN released \cup {b}
    BY <2>1, <2>2, <2>4 DEF Owned
  <2>8. \A y \in DOMAIN released' : released'[y] = IF Owned(y)' THEN 0 ELSE 1
    BY <2>6, <2>7 DEF OwnedOrReleased
  <2>9. \A y \in Cells : backing'[y] # NoBacking =>
          /\ backing'[y] \in DOMAIN released' /\ heap'[y].type = "ptr"
          /\ \A x \in Cells : backing'[x] = backing'[y] => x = y
    BY <2>1, <2>2, <2>3, <2>4, <2>5, <2>7 DEF OwnedOrReleased
  <2>10. QED
    BY <2>8, <2>9 DEF OwnedOrReleased
<1>8. CASE Close
  BY <1>8, FinalizedOnce DEF Close, FreeTyped
<1>9. CASE Overflow
  <2>1. \A d \in Cells \ Swept : heap'[d] = heap[d]
    BY <1>9 DEF Overflow, HeapAfterGC
  <2>2. Swept \in SUBSET Cells /\ Finalize(Swept)
    BY <1>9, SweptCells DEF Overflow
  <2>3. \A d \in Cells \ Swept : heap[d].type = "ptr" => heap'[d].type = "ptr"
    BY <2>1
  <2>4. QED
    BY <2>2, <2>3, FinalizedOnce, Zenon
<1>10. ASSUME UNCHANGED <<heap, backing, released>> PROVE OwnedOrReleased'
  BY <1>10, BackingsKept
<1>11. ASSUME NEW s \in Symbols, NEW v, FeSet(s, v) PROVE OwnedOrReleased'
  <2> DEFINE cell == heap[s].cdr
  <2>1. heap[cell].type = "pair"
    BY DEF TableInv, SymbolTableSound
  <2>2. /\ heap' = [heap EXCEPT ![cell] =
                     [type |-> "pair", car |-> heap[cell].car, cdr |-> v]]
        /\ UNCHANGED <<backing, released>>
    BY <1>11 DEF FeSet
  <2> HIDE DEF cell
  <2>3. QED
    BY <1>6, <2>1, <2>2
<1>12. CASE Client
  <2>1. ASSUME NEW p, NEW v, SetCar(p, v) \/ SetCdr(p, v) PROVE OwnedOrReleased'
    BY <1>6, <2>1 DEF SetCar, SetCdr
  <2>2. QED
    BY <1>1, <1>5, <1>7, <1>8, <1>10, <1>11, <1>12, <2>1
    DEF Client, Cons, Number, Ptr, PushGC, RestoreGC
<1>13. QED
  BY <1>2, <1>3, <1>4, <1>9, <1>10, <1>12 DEF Next, StringDone, OutOfMemory

(* fe_close leaves no owner: what owned something was a pointer, and so    *)
(* not FREE.                                                               *)
LEMMA ClosedStep ==
  ASSUME TypeOK, TypeOK', OwnedOrReleased, OwnedOrReleased', Next
  PROVE  job' = Closed => \A b \in DOMAIN released' : released'[b] = 1
<1>1. CASE Close
  <2>1. \A c \in Cells : c \notin Cells \ FreeTyped(heap) => backing[c] = NoBacking
    BY DEF OwnedOrReleased, FreeTyped
  <2>2. \A c \in Cells : backing'[c] = NoBacking
    BY <1>1, <2>1 DEF Close, Finalize
  <2>3. \A b \in DOMAIN released' : ~Owned(b)'
    BY <2>2, HeapAssumption DEF Owned, TypeOK
  <2>4. QED
    BY <2>3 DEF OwnedOrReleased
<1>2. CASE Client /\ ~Close /\ job = Idle
  <2> DEFINE Goes == job' = job \/ job'.op = "string"
  <2>1. ASSUME NEW n \in Names, SymbolObject(n) PROVE Goes
    <3>1. PICK c \in Cells : \E link \in Heads(Available \ {c}) :
             job' = [op |-> "string", base |-> Len(gcstack), name |-> n, nodes |-> 0,
                     obj |-> c, str |-> Nil, tail |-> Nil]
      BY <2>1 DEF SymbolObject
    <3>2. QED
      BY <3>1
  <2>2. ASSUME NEW cell, Construct(cell) PROVE Goes
    BY <2>2 DEF Construct
  <2>3. ASSUME NEW x, NEW y, NEW z,
               FeSet(x, y) \/ SetPtr(x, y, z) \/ SetCar(x, y) \/ SetCdr(x, y)
                 \/ PushGC(x) \/ RestoreGC(x)
        PROVE  Goes
    BY <2>3 DEF FeSet, SetPtr, SetCar, SetCdr, PushGC, RestoreGC
  <2> HIDE DEF Goes
  <2>4. Goes
    BY <1>2, <2>1, <2>2, <2>3 DEF Client, Cons, Number, Ptr
  <2>5. QED
    BY <1>2, <2>4 DEF Goes, Idle, Closed
<1>3. CASE StringNode \/ StringDone \/ SymbolBinding \/ SymbolLink
  <2>1. job \in Jobs
    BY DEF TypeOK
  <2>2. StringNode => job'.op = "string"
    BY <2>1 DEF StringNode, Jobs
  <2>3. StringDone => job'.op = "bind"
    BY <2>1 DEF StringDone, Jobs
  <2>4. SymbolBinding => job'.op = "link"
    BY <2>1 DEF SymbolBinding, Jobs
  <2>5. SymbolLink => job'.op = "idle"
    BY DEF SymbolLink, Idle
  <2>6. QED
    BY <1>3, <2>2, <2>3, <2>4, <2>5 DEF Idle, Closed
<1>4. CASE OutOfMemory \/ Overflow
  <2>1. job' = Idle
    BY <1>4 DEF OutOfMemory, Overflow, Unwind
  <2>2. QED
    BY <2>1 DEF Idle, Closed
<1>5. QED
  BY <1>1, <1>2, <1>3, <1>4 DEF Next

-----------------------------------------------------------------------------
(***************************************************************************)
(* The theorems                                                            *)
(***************************************************************************)
LEMMA InitIInv == Init => IInv
<1> SUFFICES ASSUME Init PROVE IInv
  OBVIOUS
<1>1. TypeOK
  <2>1. FreeCell \in [type : Types, car : Refs, cdr : Refs] /\ Idle \in Jobs
    BY AllocAssumption DEF FreeCell, Types, Refs, Idle, Jobs
  <2>2. QED
    BY <2>1, AllocAssumption DEF Init, TypeOK, Heaps, Refs
<1>2. job = Idle /\ RootSet = {Nil} /\ FreeTyped(heap) = Cells
  BY DEF Init, RootSet, FreeTyped, FreeCell
<1>3. Live = {}
  <2>1. {} \in SUBSET Cells /\ RootSet \ {Nil} \subseteq {} /\ ClosedUnder(heap, {})
    BY <1>2 DEF ClosedUnder
  <2>2. QED
    BY <2>1, ReachLeast DEF Live
<1>4. FreeSafe
  BY <1>2, <1>3, IdleOuter DEF FreeSafe, Init
<1>5. JobInv
  BY <1>2 DEF JobInv, Idle, Making
<1>6. Spine = {} /\ Symbols = {}
  <2>1. Chain(heap, Nil) = {}
    BY <1>1, ChainOfNil DEF TypeOK
  <2>2. symlist = Nil
    BY DEF Init
  <2>3. QED
    BY <2>1, <2>2 DEF Spine, Symbols
<1>7. TableInv
  BY <1>6 DEF TableInv, SymbolTableSound
<1>8. BackingReleasedOnce
  BY <1>2 DEF Init, BackingReleasedOnce, OwnedOrReleased, Idle, Closed
<1>9. QED
  BY <1>1, <1>4, <1>5, <1>7, <1>8 DEF IInv

LEMMA StepIInv ==
  IInv /\ [Next]_vars => IInv' /\ (Next => LosesByOverflow /\ KeepsSymbols)
<1> SUFFICES ASSUME IInv, [Next]_vars
             PROVE  IInv' /\ (Next => LosesByOverflow /\ KeepsSymbols)
  OBVIOUS
<1>1. TypeOK /\ FreeSafe /\ JobInv /\ TableInv /\ BackingReleasedOnce
  BY DEF IInv
<1>2. TypeOK'
  BY <1>1, TypeStep
<1>3. CASE Next
  <2>1. Kept
    BY <1>1, <1>2, <1>3, KeptByNext
  <2>2. BackingReleasedOnce'
    <3>1. OwnedOrReleased
      BY <1>1 DEF BackingReleasedOnce
    <3>2. OwnedOrReleased'
      BY <1>1, <1>2, <1>3, <3>1, BackingStep
    <3>3. QED
      BY <1>1, <1>2, <1>3, <3>1, <3>2, ClosedStep DEF BackingReleasedOnce
  <2>3. QED
    BY <1>2, <2>1, <2>2 DEF Kept, IInv
<1>4. CASE UNCHANGED vars
  <2>1. /\ heap' = heap /\ text' = text /\ freelist' = freelist /\ gcstack' = gcstack
        /\ symlist' = symlist /\ job' = job /\ backing' = backing /\ released' = released
    BY <1>4 DEF vars
  <2>2. Outer' = Outer /\ Live' = Live /\ RootSet' = RootSet /\ (Linked' <=> Linked) /\ (Making' <=> Making)
    BY <2>1 DEF Outer, BaseRoots, Base, Live, RootSet, Linked, Making
  <2>3. TableInv' /\ \A n : Interned(n)' <=> Interned(n)
    BY <1>1, <1>2, <2>1, OuterFrame
  <2>4. FreeSafe' /\ JobInv' /\ BackingReleasedOnce'
    BY <1>1, <2>1, <2>2, <2>3 DEF FreeSafe, JobInv, BackingReleasedOnce, OwnedOrReleased, Owned
  <2>5. Lost' = Lost /\ Symbols' = Symbols /\ \A s \in Symbols : NameOf(s)' = NameOf(s)
    BY <1>1, <1>2, <2>1, OuterFrame DEF Lost
  <2>6. QED
    BY <1>2, <2>3, <2>4, <2>5 DEF IInv, LosesByOverflow, KeepsSymbols
<1>5. QED
  BY <1>3, <1>4

LEMMA Invariance == Spec => []IInv
<1>1. IInv /\ [Next]_vars => IInv'
  BY StepIInv
<1>2. QED
  BY <1>1, InitIInv, PTL DEF Spec

(* Every variable of the pool keeps its type: no allocation, mutation or   *)
(* error of fe.c leaves the slab or overruns the root stack.               *)
THEOREM TypeCorrect == Spec => []TypeOK
  BY Invariance, PTL DEF IInv

(* Neither a collection in the middle of a constructor nor one between two *)
(* C calls meets a cell that is free and still referred to.                *)
THEOREM HeapIsSound == Spec => []HeapSound
<1>1. IInv => HeapSound
  <2> SUFFICES ASSUME IInv PROVE HeapSound
    OBVIOUS
  <2>1. TypeOK /\ FreeSafe /\ JobInv
    BY DEF IInv
  <2>2. Live \cap FreeTyped(heap) \subseteq (IF Linked THEN Heads(freelist) ELSE {})
    BY <2>1 DEF FreeSafe
  <2>3. freelist = {} => Live \cap FreeTyped(heap) = {}
    BY <2>2, CellsAreNotNil DEF Heads, FreeTyped
  <2>4. job = Idle => Live \cap FreeTyped(heap) = {}
    BY <2>2 DEF Linked, Idle
  <2>5. QED
    BY <2>3, <2>4 DEF HeapSound, CollectorMeetsNoFreeCell, NoDanglingReference, Live
<1>2. QED
  BY <1>1, Invariance, PTL

(* The cells of a symbol under construction outlive the collections that   *)
(* its own allocations start.                                              *)
THEOREM JobCellsStayAlive == Spec => []JobCellsAlive
<1>1. IInv => JobCellsAlive
  <2> SUFFICES ASSUME IInv PROVE JobCellsAlive
    OBVIOUS
  <2>1. Nil \notin FreeTyped(heap)
    BY CellsAreNotNil DEF FreeTyped
  <2>2. TypeOK /\ JobInv
    BY DEF IInv
  <2>3. CASE ~Making
    BY <2>1, <2>2, <2>3, JobType DEF JobInv, Making, JobCellsAlive, Idle, Closed
  <2>4. CASE Making
    <3>1. job.obj \notin FreeTyped(heap)
      BY <2>2, <2>4 DEF JobInv, FreeTyped
    <3>2. job.str \notin FreeTyped(heap)
      BY <2>1, <2>2, <2>4, JobType DEF JobInv, FreeTyped
    <3>3. job.tail \notin FreeTyped(heap)
      BY <2>1, <2>2, <2>4, JobType DEF JobInv, FreeTyped, Making
    <3>4. QED
      BY <3>1, <3>2, <3>3 DEF JobCellsAlive
  <2>5. QED
    BY <2>3, <2>4
<1>2. QED
  BY <1>1, Invariance, PTL

(* Whatever interrupts fe_symbol, symlist holds complete symbols only, and *)
(* each name once.                                                         *)
THEOREM SymbolTableIsSound == Spec => []SymbolTableSound
  BY Invariance, PTL DEF IInv, TableInv

(* The gc callback gets each payload once: when its only owner has died,   *)
(* and by the end of fe_close at the latest.                               *)
THEOREM BackingsAreReleasedOnce == Spec => []BackingReleasedOnce
  BY Invariance, PTL DEF IInv

(* Only object() with a full root stack loses a cell.                      *)
THEOREM CellsAreLostOnlyByOverflow == Spec => LostOnlyByOverflow
<1>1. IInv /\ [Next]_vars => [LosesByOverflow]_vars
  BY StepIInv
<1>2. QED
  BY <1>1, Invariance, PTL DEF Spec, LostOnlyByOverflow

(* No step forgets or renames an interned symbol, except fe_close.         *)
THEOREM SymbolsStay == Spec => SymbolsAreForever
<1>1. IInv /\ [Next]_vars => [KeepsSymbols]_vars
  BY StepIInv
<1>2. QED
  BY <1>1, Invariance, PTL DEF Spec, SymbolsAreForever
=============================================================================
