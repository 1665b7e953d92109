----------------------------- MODULE FeCollector -----------------------------
(***************************************************************************)
(* collectgarbage() of kernel/fe.c, one C step at a time: the mark phase   *)
(* (fe_mark iterates on the cdr and recurses on the car, borrowing a bit   *)
(* of each cell) and the sweep over the slab, with the finalizer of each   *)
(* dead foreign pointer.  The heap it starts from is arbitrary; module     *)
(* FeHeap uses the whole collection as one atomic step, and what is shown  *)
(* here is that it may.                                                    *)
(***************************************************************************)
EXTENDS FeGraph, Sequences, FiniteSets

CONSTANT StartHeaps,    \* the heaps a collection may start from
         StartRoots     \* the root sequences (gcstack, then symlist)

ASSUME StartAssumption == /\ StartHeaps \subseteq Heaps
                          /\ StartRoots \subseteq Seq(Refs)

VARIABLES
  heap,       \* ctx->objects
  freelist,   \* the cells threaded on ctx->freelist
  roots,      \* gcstack[0 .. gcstack_idx - 1] followed by symlist
  marked,     \* the cells whose GCMARKBIT is set
  pc,         \* "roots", "mark", "sweep" or "done"
  next,       \* the next root (mark phase), the next cell (sweep)
  cur,        \* fe_mark's obj at its label begin:
  calls,      \* the pairs whose fe_mark call is inside its recursion on car
  finalized,  \* the foreign pointers whose gc callback has run
  start       \* history: the heap when the collection began

vars == <<heap, freelist, roots, marked, pc, next, cur, calls, finalized, start>>

RootSet == {roots[i] : i \in 1..Len(roots)}
Live    == Reach(start, RootSet)

(* A collection finds every FREE cell on the freelist or lost, and never a *)
(* FREE cell reachable from a root (FeHeap!CollectorMeetsNoFreeCell).               *)
Init ==
  /\ heap \in StartHeaps
  /\ roots \in StartRoots
  /\ freelist \in SUBSET FreeTyped(heap)
  /\ Reach(heap, {roots[i] : i \in 1..Len(roots)}) \cap FreeTyped(heap) = {}
  /\ marked = {}
  /\ pc = "roots"
  /\ next = 1
  /\ cur = Nil
  /\ calls = <<>>
  /\ finalized = {}
  /\ start = heap

(* Slip: the loop over the roots does not go on to the next one.           *)
MarkRootAgain ==
  /\ pc = "roots"
  /\ next <= Len(roots)
  /\ cur' = roots[next]
  /\ pc' = "mark"
  /\ UNCHANGED <<heap, freelist, roots, marked, next, calls, finalized, start>>

(* The loop over gcstack, then fe_mark(ctx->symlist). *)
MarkRoot ==
  /\ pc = "roots"
  /\ next <= Len(roots)
  /\ cur' = roots[next]
  /\ next' = next + 1
  /\ pc' = "mark"
  /\ UNCHANGED <<heap, freelist, roots, marked, calls, finalized, start>>

(* begin: of fe_mark on an unmarked cell.  The car is read before the mark *)
(* bit is set in the same word.  A pair recurses on it and comes back for  *)
(* the cdr; a foreign pointer's callback marks what the backing holds.     *)
MarkCell ==
  /\ pc = "mark"
  /\ cur # Nil
  /\ cur \notin marked
  /\ marked' = marked \cup {cur}
  /\ \/ /\ heap[cur].type = "pair"
        /\ calls' = Append(calls, cur)
        /\ cur' = heap[cur].car
     \/ /\ heap[cur].type \in CdrOnly
        /\ cur' = heap[cur].cdr
        /\ UNCHANGED calls
     \/ /\ heap[cur].type = "ptr"
        /\ cur' = heap[cur].car
        /\ UNCHANGED calls
     \/ /\ heap[cur].type \notin CdrOnly \cup {"pair", "ptr"}
        /\ cur' = Nil
        /\ UNCHANGED calls
  /\ UNCHANGED <<heap, freelist, roots, pc, next, finalized, start>>

(* fe_mark returns (nil, or already marked): the innermost pending pair    *)
(* goes on with its cdr.                                                   *)
MarkReturn ==
  /\ pc = "mark"
  /\ cur = Nil \/ cur \in marked
  /\ calls # <<>>
  /\ cur' = heap[calls[Len(calls)]].cdr
  /\ calls' = SubSeq(calls, 1, Len(calls) - 1)
  /\ UNCHANGED <<heap, freelist, roots, marked, pc, next, finalized, start>>

RootDone ==
  /\ pc = "mark"
  /\ cur = Nil \/ cur \in marked
  /\ calls = <<>>
  /\ pc' = "roots"
  /\ UNCHANGED <<heap, freelist, roots, marked, next, cur, calls, finalized, start>>

MarkDone ==
  /\ pc = "roots"
  /\ next > Len(roots)
  /\ pc' = "sweep"
  /\ next' = 1
  /\ UNCHANGED <<heap, freelist, roots, marked, cur, calls, finalized, start>>

(* One iteration of the sweep: FREE cells are skipped, a dead cell is      *)
(* finalized if it is a foreign pointer and linked on the freelist, a      *)
(* marked one loses its mark.                                              *)
SweepCell ==
  /\ pc = "sweep"
  /\ next <= N
  /\ next' = next + 1
  /\ \/ /\ heap[next].type = "free"
        /\ UNCHANGED <<heap, freelist, marked, finalized>>
     \/ /\ heap[next].type # "free"
        /\ next \notin marked
        /\ heap' = [heap EXCEPT ![next] = FreeCell]
        /\ freelist' = freelist \cup {next}
        /\ finalized' = finalized \cup
                          (IF heap[next].type = "ptr" THEN {next} ELSE {})
        /\ UNCHANGED marked
     \/ /\ heap[next].type # "free"
        /\ next \in marked
        /\ marked' = marked \ {next}
        /\ UNCHANGED <<heap, freelist, finalized>>
  /\ UNCHANGED <<roots, pc, cur, calls, start>>

(* Slip: the sweep stops before the last cell.                             *)
SweepDoneEarly ==
  /\ pc = "sweep"
  /\ next >= N
  /\ pc' = "done"
  /\ UNCHANGED <<heap, freelist, roots, marked, next, cur, calls, finalized, start>>

SweepDone ==
  /\ pc = "sweep"
  /\ next > N
  /\ pc' = "done"
  /\ UNCHANGED <<heap, freelist, roots, marked, next, cur, calls, finalized, start>>

Next == MarkRoot \/ MarkCell \/ MarkReturn \/ RootDone \/ MarkDone
        \/ SweepCell \/ SweepDone

Spec == Init /\ [][Next]_vars /\ WF_vars(Next)
-----------------------------------------------------------------------------
TypeOK ==
  /\ heap \in Heaps /\ start \in Heaps
  /\ freelist \subseteq Cells
  /\ roots \in Seq(Refs)
  /\ marked \subseteq Cells
  /\ pc \in {"roots", "mark", "sweep", "done"}
  /\ next \in Nat \ {0}
  /\ cur \in Refs
  /\ calls \in Seq(Cells)
  /\ finalized \subseteq Cells

(* When the sweep starts the marked cells are exactly the cells reachable  *)
(* from the root stack and the symbol list, whatever cycles and sharing    *)
(* the graph has: fe_mark's early return on a marked cell loses nothing.   *)
MarkedIsReachable ==
  pc = "sweep" /\ next = 1 => marked = Live

(* After the collection every unreachable cell is FREE and on the          *)
(* freelist, unless it was FREE and off it before; every reachable cell is *)
(* exactly as it was; and the finalizers that ran are those of the         *)
(* unreachable foreign pointers, each once.                                *)
CollectionIsAtomic ==
  pc = "done" =>
    LET dead == Cells \ (Live \cup FreeTyped(start))
    IN /\ FreeTyped(heap) = FreeTyped(start) \cup dead
       /\ dead \subseteq freelist
       /\ freelist \subseteq FreeTyped(heap)
       /\ \A c \in Live : heap[c] = start[c]
       /\ finalized = {c \in dead : start[c].type = "ptr"}

(* No mark survives a collection: a stale GCMARKBIT would make the next    *)
(* mark phase, or fe_write, stop at a cell it never visited.               *)
MarksCleared == pc = "done" => marked = {}

(* The mark phase ends on every graph, cyclic ones included.               *)
CollectionEnds == <>(pc = "done")
=============================================================================
