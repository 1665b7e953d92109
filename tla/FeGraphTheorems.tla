--------------------------- MODULE FeGraphTheorems ---------------------------
(***************************************************************************)
(* Facts about reachability in a heap of cells, for every heap and every   *)
(* set of roots.  The proofs about the collector and the allocator cite    *)
(* them and never expand Reach.                                            *)
(***************************************************************************)
EXTENDS FeGraph, TLAPS

(* Succ stays within the references. *)
LEMMA SuccType ==
  ASSUME NEW h \in Heaps, NEW c \in Cells
  PROVE  Succ(h, c) \subseteq Refs
  BY DEF Succ, Heaps

(* The reachable cells hold the roots. *)
LEMMA RootsReachable ==
  ASSUME NEW h, NEW R \in SUBSET Refs
  PROVE  R \ {Nil} \subseteq Reach(h, R)
  BY DEF Reach, Refs

(* A cell that a reachable cell refers to is reachable. *)
LEMMA ReachClosed ==
  ASSUME NEW h \in Heaps, NEW R,
         NEW c \in Reach(h, R), NEW s \in Succ(h, c) \ {Nil}
  PROVE  s \in Reach(h, R)
<1>1. c \in Cells
  BY DEF Reach
<1>2. s \in Cells
  BY <1>1, SuccType DEF Refs
<1>3. SUFFICES ASSUME NEW S \in SUBSET (Cells \ {s}), R \ {Nil} \subseteq S,
                      ClosedUnder(h, S)
               PROVE  FALSE
  BY <1>2 DEF Reach
<1>4. c \in S
  BY <1>1, <1>3 DEF Reach
<1>5. QED
  BY <1>3, <1>4 DEF ClosedUnder

(* Nothing outside a closed set that holds the roots is reachable. *)
LEMMA ReachLeast ==
  ASSUME NEW h, NEW R, NEW S \in SUBSET Cells,
         R \ {Nil} \subseteq S, ClosedUnder(h, S)
  PROVE  Reach(h, R) \subseteq S
  BY DEF Reach

(* More roots reach more. *)
LEMMA ReachMonotone ==
  ASSUME NEW h, NEW R, NEW Q, R \ {Nil} \subseteq Q
  PROVE  Reach(h, R) \subseteq Reach(h, Q)
  BY DEF Reach

(* What is reachable depends on the reachable cells only. *)
LEMMA ReachFrame ==
  ASSUME NEW h \in Heaps, NEW g \in Heaps, NEW R \in SUBSET Refs,
         \A c \in Reach(h, R) : g[c] = h[c]
  PROVE  Reach(g, R) = Reach(h, R)
<1> DEFINE S == Reach(h, R)
           T == Reach(g, R)
<1>1. S \subseteq Cells /\ T \subseteq Cells
  BY DEF Reach
<1>2. R \ {Nil} \subseteq S /\ R \ {Nil} \subseteq T
  BY RootsReachable
<1>3. \A c \in S : Succ(g, c) = Succ(h, c)
  BY DEF Succ
<1>4. ClosedUnder(g, S)
  BY <1>3, ReachClosed DEF ClosedUnder
<1>5. T \subseteq S
  BY <1>1, <1>2, <1>4, ReachLeast
<1>6. ClosedUnder(h, T)
  BY <1>3, <1>5, ReachClosed DEF ClosedUnder
<1>7. S \subseteq T
  BY <1>1, <1>2, <1>6, ReachLeast
<1>8. QED
  BY <1>5, <1>7

(* A list depends on the cdr fields of its cells only, ... *)
LEMMA ChainFrame ==
  ASSUME NEW h \in Heaps, NEW g \in Heaps, NEW x \in Refs,
         \A c \in Chain(h, x) : g[c].cdr = h[c].cdr
  PROVE  Chain(g, x) = Chain(h, x)
<1> DEFINE H == [c \in Cells |-> [type |-> "func", car |-> Nil, cdr |-> h[c].cdr]]
           G == [c \in Cells |-> [type |-> "func", car |-> Nil, cdr |-> g[c].cdr]]
<1>1. H \in Heaps /\ G \in Heaps
  BY DEF Heaps, Types, Refs
<1>2. \A c \in Reach(H, {x}) : G[c] = H[c]
  BY DEF Chain, Reach
<1>3. Reach(G, {x}) = Reach(H, {x})
  <2> HIDE DEF H, G
  <2>1. QED
    BY <1>1, <1>2, ReachFrame
<1>4. QED
  BY <1>3 DEF Chain

(* ... holds its first cell, and with each cell the next ... *)
LEMMA ChainClosed ==
  ASSUME NEW h \in Heaps, NEW x \in Refs
  PROVE  /\ Chain(h, x) \subseteq Cells
         /\ x # Nil => x \in Chain(h, x)
         /\ \A c \in Chain(h, x) : h[c].cdr \in Chain(h, x) \cup {Nil}
<1> DEFINE H == [c \in Cells |-> [type |-> "func", car |-> Nil, cdr |-> h[c].cdr]]
<1>1. H \in Heaps
  BY DEF Heaps, Types, Refs
<1>2. \A c \in Cells : Succ(H, c) = {h[c].cdr}
  BY DEF Succ, CdrOnly
<1>3. Chain(h, x) = Reach(H, {x}) /\ Reach(H, {x}) \subseteq Cells
  BY DEF Chain, Reach
<1>4. \A c \in Reach(H, {x}) : \A s \in Succ(H, c) \ {Nil} : s \in Reach(H, {x})
  <2> HIDE DEF H
  <2>1. QED
    BY <1>1, ReachClosed
<1>5. x # Nil => x \in Reach(H, {x})
  <2> HIDE DEF H
  <2>1. QED
    BY RootsReachable
<1>6. QED
  BY <1>2, <1>3, <1>4, <1>5

(* ... and no other: what holds the first cell and is closed under cdr     *)
(* holds the list.                                                         *)
LEMMA ChainLeast ==
  ASSUME NEW h \in Heaps, NEW x \in Refs, NEW S \in SUBSET Cells,
         x # Nil => x \in S, \A c \in S : h[c].cdr \in S \cup {Nil}
  PROVE  Chain(h, x) \subseteq S
<1> DEFINE H == [c \in Cells |-> [type |-> "func", car |-> Nil, cdr |-> h[c].cdr]]
<1>1. \A c \in Cells : Succ(H, c) = {h[c].cdr}
  BY DEF Succ, CdrOnly
<1>2. ClosedUnder(H, S)
  BY <1>1 DEF ClosedUnder
<1>3. Reach(H, {x}) \subseteq S
  <2> HIDE DEF H
  <2>1. QED
    BY <1>2, ReachLeast
<1>4. QED
  BY <1>3 DEF Chain

(* Nothing is on the empty list. *)
LEMMA ChainOfNil ==
  ASSUME NEW h \in Heaps
  PROVE  Chain(h, Nil) = {}
<1> DEFINE S == {}
<1>1. /\ S \in SUBSET Cells /\ Nil \in Refs /\ (Nil # Nil => Nil \in S)
      /\ \A c \in S : h[c].cdr \in S \cup {Nil}
  BY DEF Refs
<1> HIDE DEF S
<1>2. Chain(h, Nil) \subseteq S
  BY <1>1, ChainLeast
<1>3. QED
  BY <1>2 DEF S

(* A cell put in front of a list. *)
LEMMA ChainLink ==
  ASSUME NEW h \in Heaps, NEW g \in Heaps, NEW x \in Refs,
         NEW c \in Cells \ Chain(h, x), g[c].cdr = x,
         \A d \in Chain(h, x) : g[d].cdr = h[d].cdr
  PROVE  Chain(g, c) = {c} \cup Chain(h, x)
<1>1. Chain(g, x) = Chain(h, x)
  BY ChainFrame
<1>2. c \in Refs /\ c # Nil
  BY DEF Refs, Cells, Nil
<1>3. x \in Chain(g, c) \cup {Nil} /\ Chain(g, c) \subseteq Cells
  BY <1>2, ChainClosed
<1>4. Chain(g, x) \subseteq Chain(g, c)
  BY <1>2, <1>3, ChainClosed, ChainLeast
<1>5. Chain(g, c) \subseteq {c} \cup Chain(g, x)
  <2>1. \A d \in {c} \cup Chain(g, x) : g[d].cdr \in {c} \cup Chain(g, x) \cup {Nil}
    BY ChainClosed
  <2>2. {c} \cup Chain(g, x) \subseteq Cells
    BY ChainClosed
  <2> DEFINE S == {c} \cup Chain(g, x)
  <2>3. S \in SUBSET Cells /\ c \in S /\ \A d \in S : g[d].cdr \in S \cup {Nil}
    BY <2>1, <2>2
  <2> HIDE DEF S
  <2>4. Chain(g, c) \subseteq S
    BY <1>2, <2>3, ChainLeast
  <2>5. QED
    BY <2>4 DEF S
<1>6. QED
  BY <1>1, <1>2, <1>4, <1>5, ChainClosed
=============================================================================
