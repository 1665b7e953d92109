------------------------------- MODULE FeGraph -------------------------------
(***************************************************************************)
(* The cells of a Fe arena (kernel/fe.c) as a graph: which objects exist,  *)
(* which fields of an object the collector follows, and what is reachable  *)
(* from a set of roots.  A heap is a function from cells to records        *)
(* [type, car, cdr]; only the fields that hold fe_Object pointers are      *)
(* represented (a number's payload, a cfunc's code are not).               *)
(***************************************************************************)
EXTENDS Integers

CONSTANT N   \* object_count: the number of cells carved from the arena

ASSUME NAssumption == N \in Nat

Cells == 1..N
Nil   == 0                      \* the static nil object: not a cell of the arena
Refs  == Cells \cup {Nil}

(* The enum of fe.h.  A typed foreign pointer's backing is represented by  *)
(* the one element it holds, in the car field (see Succ).                  *)
Types == {"free", "pair", "number", "symbol", "string",
          "func", "macro", "prim", "cfunc", "ptr"}

CdrOnly == {"func", "macro", "symbol", "string"}

Heaps == [Cells -> [type : Types, car : Refs, cdr : Refs]]

(* What fe_mark visits after the cell c itself: both fields of a pair, the *)
(* cdr of a function, macro, symbol or string node, the contents of a      *)
(* foreign pointer (through its registered mark callback), nothing else.   *)
Succ(h, c) ==
  (IF h[c].type \in {"pair", "ptr"} THEN {h[c].car} ELSE {})
  \cup (IF h[c].type \in CdrOnly \cup {"pair"} THEN {h[c].cdr} ELSE {})

ClosedUnder(h, S) == \A c \in S : Succ(h, c) \ {Nil} \subseteq S

(* The cells reachable from the roots R: those that no closed set holding  *)
(* the roots leaves out.                                                   *)
Reach(h, R) ==
  {c \in Cells : \A S \in SUBSET (Cells \ {c}) :
                    R \ {Nil} \subseteq S => ~ClosedUnder(h, S)}

(* The cells of the list that starts at x. *)
Chain(h, x) ==
  Reach([c \in Cells |-> [type |-> "func", car |-> Nil, cdr |-> h[c].cdr]], {x})

(* A cell the sweep (or fe_open) has just put on the freelist: its fields  *)
(* mean nothing, its cdr holds the link that `freelist` stands for.        *)
FreeCell == [type |-> "free", car |-> Nil, cdr |-> Nil]

FreeTyped(h) == {c \in Cells : h[c].type = "free"}
=============================================================================
