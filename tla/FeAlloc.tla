------------------------------- MODULE FeAlloc -------------------------------
(***************************************************************************)
(* object() of kernel/fe.c: how a cell is obtained.  The pieces that both  *)
(* the C constructors (FeHeap) and the evaluator (FeEval) are built from.  *)
(*                                                                         *)
(* The freelist is a set: fe_open and the sweep both push the slab in      *)
(* ascending order, and a collection starts only when the list is empty,   *)
(* so its head is always its highest cell.                                 *)
(***************************************************************************)
EXTENDS FeGraph, Sequences

CONSTANT GCStackSize   \* GCSTACKSIZE

ASSUME AllocAssumption == GCStackSize \in Nat

VARIABLES
  heap,      \* ctx->objects
  freelist,  \* ctx->freelist
  gcstack,   \* ctx->gcstack[0 .. gcstack_idx - 1]
  symlist    \* ctx->symlist

(* Slip: the symbol list is not a root.                                    *)
StackRootsOnly == {gcstack[i] : i \in 1..Len(gcstack)}

RootSet == {gcstack[i] : i \in 1..Len(gcstack)} \cup {symlist}

(* Slip: the mark phase skips the newest root.                             *)
GarbageButTop ==
  Cells \ (Reach(heap, {gcstack[i] : i \in 1..Len(gcstack) - 1} \cup {symlist})
            \cup FreeTyped(heap))

Garbage == Cells \ (Reach(heap, RootSet) \cup FreeTyped(heap))

(* The cells that the collection at the head of object() sweeps: none when *)
(* the freelist is not empty, for then it does not run.                    *)
Swept == IF freelist = {} THEN Garbage ELSE {}

Available == freelist \cup Swept

HeapAfterGC ==
  LET dead == Swept IN [c \in Cells |-> IF c \in dead THEN FreeCell ELSE heap[c]]

(* The head of a freelist, nil if it is empty. *)
Heads(F) == IF F = {} THEN {Nil} ELSE {c \in F : \A d \in F : d <= c}

(* Slip: the freelist that was read before the collection is the one that  *)
(* is popped.                                                              *)
PopStale(c) ==
  /\ Available # {}
  /\ Len(gcstack) < GCStackSize
  /\ c \in Heads(Available)
  /\ freelist' = freelist \ {c}

(* object() succeeds with the cell c.  It stays on the root stack, unless  *)
(* the caller drops it (buildstring).                                      *)
Pop(c) ==
  /\ Len(gcstack) < GCStackSize
  /\ Available # {}
  /\ c \in Heads(Available)
  /\ freelist' = Available \ {c}

Object(c) == Pop(c) /\ gcstack' = Append(gcstack, c)
=============================================================================
