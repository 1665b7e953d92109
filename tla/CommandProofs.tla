---------------------------- MODULE CommandProofs ----------------------------
(***************************************************************************)
(* Proofs about what a command of kec goes through.                        *)
(*                                                                         *)
(* The collector: what is reachable is kept, and marking leaves no trace.  *)
(*                                                                         *)
(* The reader: those that share its lookahead do not disturb each other.   *)
(*                                                                         *)
(* Building and running a program in several files: the files that are     *)
(* open are those that are being read, require evaluates each once, and    *)
(* what is built is what is run.                                           *)
(*                                                                         *)
(* The repl: the reader is given whole forms.                              *)
(*                                                                         *)
(* The host loop of the editor: what a clean buffer says of the file, and  *)
(* that no unsaved text is left without a question.                        *)
(*                                                                         *)
(* Its timers: none is lost or revived, and the loop does not spin.        *)
(***************************************************************************)
EXTENDS FeCollector, Reader, Loading, ReplHost, NemacsHost, Timers, FeGraphTheorems,
        RecursionTheorems, FiniteSetTheorems

-----------------------------------------------------------------------------
(***************************************************************************)
(* The collector                                                           *)
(***************************************************************************)
(* While marking: what is marked is reachable, and what a marked cell or   *)
(* an already visited root refers to is marked, is being visited, or is    *)
(* the cdr of a pair whose recursion on car has not returned.              *)
MarkInv ==
  pc \in {"roots", "mark"} =>
    /\ heap = start
    /\ finalized = {}
    /\ freelist \subseteq FreeTyped(start)
    /\ next <= Len(roots) + 1
    /\ marked \subseteq Live
    /\ cur \in Live \cup {Nil}
    /\ \A i \in 1..Len(calls) : calls[i] \in marked /\ start[calls[i]].type = "pair"
    /\ \A c \in marked : \A s \in Succ(start, c) :
         \/ s \in marked \cup {Nil, cur}
         \/ \E i \in 1..Len(calls) : calls[i] = c /\ s = start[c].cdr
    /\ \A i \in 1..Len(roots) : i < next => roots[i] \in marked \cup {Nil, cur}
    /\ pc = "roots" => calls = <<>> /\ cur \in marked \cup {Nil}

(* While sweeping: the slab below `next` is collected, the rest untouched. *)
SweepInv ==
  pc \in {"sweep", "done"} =>
    /\ next <= N + 1
    /\ pc = "done" => next = N + 1
    /\ marked = {c \in Live : c >= next}
    /\ finalized = {c \in Cells \ (Live \cup FreeTyped(start)) :
                      c < next /\ start[c].type = "ptr"}
    /\ \A c \in Cells \ (Live \cup FreeTyped(start)) :
         c < next => heap[c].type = "free" /\ c \in freelist
    /\ \A c \in Cells : (c >= next \/ c \in Live \cup FreeTyped(start)) =>
         heap[c] = start[c]
    /\ \A c \in freelist : heap[c].type = "free"

IInv == /\ TypeOK
        /\ Live \cap FreeTyped(start) = {}
        /\ MarkInv
        /\ SweepInv

USE NAssumption, StartAssumption

LEMMA LiveRoots ==
  ASSUME TypeOK
  PROVE  /\ Live \subseteq Cells
         /\ RootSet \subseteq Refs
         /\ RootSet \ {Nil} \subseteq Live
<1>1. RootSet \subseteq Refs
  BY DEF TypeOK, RootSet
<1>2. QED
  BY <1>1, RootsReachable DEF Live, Reach

(* The initial states satisfy the invariant. *)
LEMMA InitInv == Init => IInv
<1> SUFFICES ASSUME Init PROVE IInv
  OBVIOUS
<1>1. TypeOK
  BY DEF Init, TypeOK, FreeTyped, Refs
<1>2. Live = Reach(heap, {roots[i] : i \in 1..Len(roots)})
  BY DEF Init, Live, RootSet
<1>3. Live \cap FreeTyped(start) = {}
  BY <1>2 DEF Init
<1>4. MarkInv
  BY <1>1 DEF Init, MarkInv, TypeOK
<1>5. SweepInv
  BY DEF Init, SweepInv
<1>6. QED
  BY <1>1, <1>3, <1>4, <1>5 DEF IInv

(* Every step of the collector keeps the types. *)
LEMMA TypeStep == TypeOK /\ [Next]_vars => TypeOK'
<1> SUFFICES ASSUME TypeOK, [Next]_vars PROVE TypeOK'
  OBVIOUS
<1> USE DEF TypeOK
<1>1. CASE MarkRoot
  BY <1>1 DEF MarkRoot
<1>2. CASE MarkCell
  <2>1. heap[cur] \in [type : Types, car : Refs, cdr : Refs] /\ cur \in Cells
    BY <1>2 DEF MarkCell, Heaps, Refs
  <2>2. cur' \in Refs
    BY <1>2, <2>1 DEF MarkCell, Refs
  <2>3. calls' \in Seq(Cells)
    BY <1>2, <2>1 DEF MarkCell
  <2>4. marked' \subseteq Cells
    BY <1>2, <2>1 DEF MarkCell
  <2>5. QED
    BY <1>2, <2>2, <2>3, <2>4 DEF MarkCell
<1>3. CASE MarkReturn
  <2>1. calls[Len(calls)] \in Cells
    BY <1>3 DEF MarkReturn
  <2>2. heap[calls[Len(calls)]].cdr \in Refs
    BY <2>1 DEF Heaps
  <2>3. SubSeq(calls, 1, Len(calls) - 1) \in Seq(Cells)
    BY <1>3 DEF MarkReturn
  <2>4. QED
    BY <1>3, <2>2, <2>3 DEF MarkReturn
<1>4. CASE RootDone
  BY <1>4 DEF RootDone
<1>5. CASE MarkDone
  BY <1>5 DEF MarkDone
<1>6. CASE SweepCell
  <2>1. next \in Cells
    BY <1>6 DEF SweepCell, Cells
  <2>2. [heap EXCEPT ![next] = FreeCell] \in Heaps
    BY <2>1 DEF Heaps, Types, FreeCell, Refs
  <2>3. heap' \in Heaps
    BY <1>6, <2>2 DEF SweepCell
  <2>4. freelist' \subseteq Cells /\ finalized' \subseteq Cells /\ marked' \subseteq Cells
    BY <1>6, <2>1 DEF SweepCell
  <2>5. next' \in Nat \ {0}
    BY <1>6 DEF SweepCell
  <2>6. QED
    BY <1>6, <2>3, <2>4, <2>5 DEF SweepCell
<1>7. CASE SweepDone
  BY <1>7 DEF SweepDone
<1>8. CASE UNCHANGED vars
  BY <1>8 DEF vars
<1>9. QED
  BY <1>1, <1>2, <1>3, <1>4, <1>5, <1>6, <1>7, <1>8 DEF Next

(* The mark phase is preserved by each of its steps. *)
LEMMA MarkStep == IInv /\ [Next]_vars => MarkInv'
<1> SUFFICES ASSUME IInv, [Next]_vars, pc' \in {"roots", "mark"}
             PROVE  MarkInv'
  BY DEF MarkInv
<1> USE DEF IInv
<1>0. /\ Live' = Live
      /\ Live \subseteq Cells
      /\ start \in Heaps
      /\ RootSet \ {Nil} \subseteq Live
  <2>1. UNCHANGED <<start, roots>>
    BY DEF Next, vars, MarkRoot, MarkCell, MarkReturn, RootDone, MarkDone,
           SweepCell, SweepDone
  <2>2. QED
    BY <2>1, LiveRoots DEF Live, RootSet, TypeOK
<1>1. CASE MarkRoot
  <2>1. roots[next] \in RootSet
    BY <1>1 DEF MarkRoot, RootSet, TypeOK
  <2>2. cur' \in Live \cup {Nil}
    BY <2>1, <1>0, <1>1 DEF MarkRoot
  <2>3. cur \in marked \cup {Nil}
    BY <1>1 DEF MarkRoot, MarkInv
  <2>4. QED
    BY <1>0, <1>1, <2>2, <2>3 DEF MarkRoot, MarkInv, TypeOK
<1>2. CASE MarkCell
  <2>1. cur \in Live /\ cur \in Cells /\ heap = start
    BY <1>2, <1>0 DEF MarkCell, MarkInv
  <2>2. Succ(start, cur) \subseteq Live \cup {Nil}
    BY <2>1, <1>0, ReachClosed DEF Live
  <2>3. cur' \in Live \cup {Nil} /\ marked' \subseteq Live
    BY <1>2, <2>1, <2>2 DEF MarkCell, MarkInv, Succ, CdrOnly
  <2>4. /\ Len(calls') >= Len(calls) /\ calls' \in Seq(Cells)
        /\ \A i \in 1..Len(calls) : calls'[i] = calls[i]
        /\ \A i \in 1..Len(calls') : i \in 1..Len(calls) \/ calls'[i] = cur
        /\ start[cur].type = "pair" =>
              \E i \in 1..Len(calls') : calls'[i] = cur
        /\ (\E i \in 1..Len(calls') : i \notin 1..Len(calls)) => start[cur].type = "pair"
    <3>1. CASE calls' = calls /\ start[cur].type # "pair"
      BY <3>1 DEF TypeOK
    <3>2. CASE calls' = Append(calls, cur) /\ start[cur].type = "pair"
      <4>1. Len(calls') = Len(calls) + 1 /\ calls'[Len(calls) + 1] = cur
        BY <3>2, <2>1 DEF TypeOK
      <4>2. calls' \in Seq(Cells) /\ Len(calls) \in Nat
        BY <3>2, <2>1 DEF TypeOK
      <4>3. \A i \in 1..Len(calls) : calls'[i] = calls[i]
        BY <3>2, <2>1 DEF TypeOK
      <4>4. QED
        BY <3>2, <4>1, <4>2, <4>3
    <3>3. QED
      BY <1>2, <2>1, <3>1, <3>2 DEF MarkCell, CdrOnly
  <2>5. \A i \in 1..Len(calls') : calls'[i] \in marked' /\ start'[calls'[i]].type = "pair"
    BY <1>2, <2>4 DEF MarkCell, MarkInv
  <2>6. ASSUME NEW c \in marked', NEW s \in Succ(start, c)
        PROVE  \/ s \in marked' \cup {Nil, cur'}
               \/ \E i \in 1..Len(calls') : calls'[i] = c /\ s = start[c].cdr
    <3>1. CASE c = cur
      BY <3>1, <2>6, <2>1, <2>4, <1>2 DEF MarkCell, Succ, CdrOnly
    <3>2. CASE c # cur
      <4>1. c \in marked
        BY <3>2, <1>2 DEF MarkCell
      <4>2. CASE s \in marked \cup {Nil, cur}
        BY <4>2, <1>2 DEF MarkCell
      <4>3. CASE \E i \in 1..Len(calls) : calls[i] = c /\ s = start[c].cdr
        <5>1. PICK i \in 1..Len(calls) : calls[i] = c /\ s = start[c].cdr
          BY <4>3
        <5>2. i \in 1..Len(calls') /\ calls'[i] = c
          BY <5>1, <2>4 DEF TypeOK
        <5>3. QED
          BY <5>1, <5>2
      <4>4. QED
        BY <4>1, <4>2, <4>3, <1>2 DEF MarkCell, MarkInv
    <3>3. QED
      BY <3>1, <3>2
  <2>7. \A i \in 1..Len(roots) : i < next => roots[i] \in marked' \cup {Nil, cur'}
    BY <1>2 DEF MarkCell, MarkInv
  <2>8. QED
    BY <1>0, <1>2, <2>3, <2>5, <2>6, <2>7 DEF MarkCell, MarkInv
<1>3. CASE MarkReturn
  <2>1. cur \in marked \cup {Nil} /\ heap = start /\ Len(calls) \in Nat \ {0}
    BY <1>3 DEF MarkReturn, MarkInv, TypeOK
  <2>2. /\ Len(calls') = Len(calls) - 1
        /\ \A i \in 1..Len(calls') : calls'[i] = calls[i]
    <3> DEFINE n == Len(calls) - 1
    <3>1. calls' = SubSeq(calls, 1, n)
      BY <1>3 DEF MarkReturn
    <3>2. n \in Nat /\ \A i \in 1..n : calls[i] \in Cells
      BY <2>1 DEF TypeOK
    <3> HIDE DEF n
    <3>3. /\ Len(SubSeq(calls, 1, n)) = IF 1 <= n THEN n - 1 + 1 ELSE 0
          /\ \A i \in 1 .. n - 1 + 1 : SubSeq(calls, 1, n)[i] = calls[1 + i - 1]
      BY <3>2, SubSeqProperties
    <3>4. Len(calls') = n /\ \A i \in 1..n : calls'[i] = calls[i]
      BY <3>1, <3>2, <3>3
    <3>5. QED
      BY <3>4 DEF n
  <2>3. calls[Len(calls)] \in marked /\ start[calls[Len(calls)]].type = "pair"
    BY <1>3, <2>1 DEF MarkReturn, MarkInv
  <2>4. cur' \in Succ(start, calls[Len(calls)])
    BY <1>3, <2>1, <2>3 DEF MarkReturn, Succ
  <2>5. cur' \in Live \cup {Nil}
    BY <2>3, <2>4, <1>0, <1>3, ReachClosed DEF MarkInv, MarkReturn, Live
  <2>6. ASSUME NEW c \in marked, NEW s \in Succ(start, c)
        PROVE  \/ s \in marked \cup {Nil, cur'}
               \/ \E i \in 1..Len(calls') : calls'[i] = c /\ s = start[c].cdr
    <3>1. CASE s \in marked \cup {Nil, cur}
      BY <3>1, <2>1
    <3>2. CASE \E i \in 1..Len(calls) : calls[i] = c /\ s = start[c].cdr
      <4>1. PICK i \in 1..Len(calls) : calls[i] = c /\ s = start[c].cdr
        BY <3>2
      <4>2. CASE i = Len(calls)
        BY <4>1, <4>2, <1>3, <2>1 DEF MarkReturn
      <4>3. CASE i # Len(calls)
        BY <4>1, <4>3, <2>1, <2>2
      <4>4. QED
        BY <4>2, <4>3
    <3>3. QED
      BY <3>1, <3>2, <1>3 DEF MarkReturn, MarkInv
  <2>7. \A i \in 1..Len(roots) : i < next => roots[i] \in marked \cup {Nil, cur'}
    BY <1>3, <2>1 DEF MarkReturn, MarkInv
  <2>8. \A i \in 1..Len(calls') : calls'[i] \in marked /\ start[calls'[i]].type = "pair"
    BY <1>3, <2>1, <2>2 DEF MarkReturn, MarkInv
  <2>9. QED
    BY <1>0, <1>3, <2>5, <2>6, <2>7, <2>8 DEF MarkReturn, MarkInv
<1>4. CASE RootDone
  <2>1. Len(calls) = 0
    BY <1>4 DEF RootDone, TypeOK
  <2>2. QED
    BY <1>0, <1>4, <2>1 DEF RootDone, MarkInv
<1>5. CASE UNCHANGED vars
  BY <1>0, <1>5 DEF vars, MarkInv
<1>6. QED
  BY <1>1, <1>2, <1>3, <1>4, <1>5
     DEF Next, MarkDone, SweepCell, SweepDone

(* When the last root is done the marked cells are the reachable ones: the *)
(* mark phase has built a closed set of reachable cells that holds the     *)
(* roots.                                                                  *)
LEMMA MarkedAtEnd ==
  ASSUME IInv, pc = "roots", next > Len(roots)
  PROVE  marked = Live
<1> USE DEF IInv
<1>1. /\ calls = <<>> /\ cur \in marked \cup {Nil}
      /\ marked \subseteq Live
      /\ heap = start
  BY DEF MarkInv
<1>2. RootSet \ {Nil} \subseteq marked
  BY <1>1 DEF MarkInv, RootSet, TypeOK
<1>3. ClosedUnder(start, marked)
  BY <1>1 DEF MarkInv, ClosedUnder
<1>4. Live \subseteq marked
  BY <1>2, <1>3, ReachLeast DEF Live, TypeOK
<1>5. QED
  BY <1>1, <1>4

(* The sweep is preserved by each of its steps. *)
LEMMA SweepStep == IInv /\ [Next]_vars => SweepInv'
<1> SUFFICES ASSUME IInv, [Next]_vars, pc' \in {"sweep", "done"}
             PROVE  SweepInv'
  BY DEF SweepInv
<1> USE DEF IInv
<1>0. Live' = Live /\ start' = start /\ Live \subseteq Cells /\ start \in Heaps
  <2>1. UNCHANGED <<start, roots>>
    BY DEF Next, vars, MarkRoot, MarkCell, MarkReturn, RootDone, MarkDone,
           SweepCell, SweepDone
  <2>2. QED
    BY <2>1, LiveRoots DEF Live, RootSet, TypeOK
<1>1. CASE MarkDone
  <2>1. marked = Live /\ heap = start /\ finalized = {} /\ freelist \subseteq FreeTyped(start)
    BY <1>1, MarkedAtEnd DEF MarkDone, MarkInv
  <2>2. \A c \in Cells : c >= 1 /\ ~(c < 1)
    BY DEF Cells
  <2>3. marked' = {c \in Live : c >= next'}
    BY <1>0, <1>1, <2>1, <2>2 DEF MarkDone
  <2>4. finalized' = {c \in Cells \ (Live \cup FreeTyped(start)) :
                        c < next' /\ start[c].type = "ptr"}
    BY <1>0, <1>1, <2>1, <2>2 DEF MarkDone
  <2>5. QED
    BY <1>0, <1>1, <2>1, <2>2, <2>3, <2>4 DEF MarkDone, SweepInv, FreeTyped
<1>2. CASE SweepCell
  <2>1. /\ next \in Cells /\ next' = next + 1 /\ next' <= N + 1
        /\ heap[next] = start[next]
        /\ \A c \in Cells : c < next' <=> c < next \/ c = next
        /\ \A c \in Cells : c >= next <=> c >= next' \/ c = next
        /\ \A c \in Cells : c >= next' => c # next
    BY <1>2 DEF SweepCell, SweepInv, TypeOK, Cells
  <2>2. CASE heap[next].type = "free"
    <3>1. next \in FreeTyped(start) /\ next \notin Live
      BY <2>1, <2>2 DEF FreeTyped
    <3>2. QED
      BY <1>0, <1>2, <2>1, <2>2, <3>1 DEF SweepCell, SweepInv
  <2>3. CASE heap[next].type # "free" /\ next \in marked
    <3>1. next \in Live
      BY <2>3, <1>2 DEF SweepInv, SweepCell
    <3>2. QED
      BY <1>0, <1>2, <2>1, <2>3, <3>1 DEF SweepCell, SweepInv
  <2>4. CASE heap[next].type # "free" /\ next \notin marked
    <3>1. next \notin Live /\ next \notin FreeTyped(start)
      BY <2>1, <2>4, <1>2 DEF SweepInv, SweepCell, FreeTyped, Cells
    <3>2. /\ heap' = [heap EXCEPT ![next] = FreeCell]
          /\ freelist' = freelist \cup {next}
          /\ finalized' = finalized \cup (IF start[next].type = "ptr" THEN {next} ELSE {})
          /\ marked' = marked
      BY <1>2, <2>1, <2>4 DEF SweepCell
    <3>3. /\ heap'[next].type = "free"
          /\ \A c \in Cells : c # next => heap'[c] = heap[c]
      BY <2>1, <3>2 DEF TypeOK, Heaps, FreeCell
    <3>4. marked' = {c \in Live : c >= next'}
      BY <1>0, <1>2, <2>1, <3>1, <3>2 DEF SweepInv, SweepCell
    <3>5. finalized' = {c \in Cells \ (Live \cup FreeTyped(start)) :
                          c < next' /\ start[c].type = "ptr"}
      BY <1>0, <1>2, <2>1, <3>1, <3>2 DEF SweepInv, SweepCell
    <3>6. \A c \in Cells \ (Live \cup FreeTyped(start)) :
            c < next' => heap'[c].type = "free" /\ c \in freelist'
      BY <1>0, <1>2, <2>1, <3>2, <3>3 DEF SweepInv, SweepCell
    <3>7. \A c \in Cells : (c >= next' \/ c \in Live \cup FreeTyped(start)) =>
            heap'[c] = start[c]
      BY <1>0, <1>2, <2>1, <3>1, <3>3 DEF SweepInv, SweepCell
    <3>8. \A c \in freelist' : heap'[c].type = "free"
      BY <1>2, <3>2, <3>3 DEF SweepInv, SweepCell, TypeOK
    <3>9. QED
      BY <1>0, <1>2, <2>1, <3>4, <3>5, <3>6, <3>7, <3>8 DEF SweepInv, SweepCell
  <2>5. QED
    BY <2>2, <2>3, <2>4
<1>3. CASE SweepDone
  BY <1>0, <1>3 DEF SweepDone, SweepInv, TypeOK
<1>4. CASE UNCHANGED vars
  BY <1>0, <1>4 DEF vars, SweepInv
<1>5. QED
  BY <1>1, <1>2, <1>3, <1>4
     DEF Next, MarkRoot, MarkCell, MarkReturn, RootDone

(* The invariant of the collector holds throughout every collection. *)
THEOREM Invariance == Spec => []IInv
<1>1. Init => IInv
  BY InitInv
<1>2. IInv /\ [Next]_vars => IInv'
  <2> SUFFICES ASSUME IInv, [Next]_vars PROVE IInv'
    OBVIOUS
  <2>1. TypeOK'
    BY TypeStep DEF IInv
  <2>2. UNCHANGED <<start, roots>>
    BY DEF Next, vars, MarkRoot, MarkCell, MarkReturn, RootDone, MarkDone,
           SweepCell, SweepDone
  <2>3. (Live \cap FreeTyped(start) = {})'
    BY <2>2 DEF IInv, Live, RootSet
  <2>4. QED
    BY <2>1, <2>3, MarkStep, SweepStep DEF IInv
<1>3. QED
  BY <1>1, <1>2, PTL DEF Spec

(* The types of the collector's state, fe_mark's registers included. *)
THEOREM TypeCorrect == Spec => []TypeOK
<1>1. IInv => TypeOK
  BY DEF IInv
<1>2. QED
  BY <1>1, Invariance, PTL

(* When the sweep starts, the cells that carry GCMARKBIT are exactly those *)
(* reachable from the root stack and the symbol list.                      *)
THEOREM MarkPhaseCorrect == Spec => []MarkedIsReachable
<1>1. IInv => MarkedIsReachable
  <2> SUFFICES ASSUME IInv, pc = "sweep", next = 1 PROVE marked = Live
    BY DEF MarkedIsReachable
  <2>1. marked = {c \in Live : c >= 1}
    BY DEF IInv, SweepInv
  <2>2. \A c \in Live : c >= 1
    BY LiveRoots DEF IInv, Cells
  <2>3. QED
    BY <2>1, <2>2
<1>2. QED
  BY <1>1, Invariance, PTL

(* A whole collection is the one atomic step that FeHeap takes it to be:   *)
(* it frees the unreachable cells, finalizes the foreign pointers among    *)
(* them and touches nothing else.                                          *)
THEOREM CollectionCorrect == Spec => []CollectionIsAtomic
<1>1. IInv => CollectionIsAtomic
  <2> DEFINE dead == Cells \ (Live \cup FreeTyped(start))
  <2> SUFFICES ASSUME IInv, pc = "done"
               PROVE  /\ FreeTyped(heap) = FreeTyped(start) \cup dead
                      /\ dead \subseteq freelist
                      /\ freelist \subseteq FreeTyped(heap)
                      /\ \A c \in Live : heap[c] = start[c]
                      /\ finalized = {c \in dead : start[c].type = "ptr"}
    BY DEF CollectionIsAtomic
  <2>1. next = N + 1 /\ \A c \in Cells : c < next
    BY DEF IInv, SweepInv, Cells
  <2>2. \A c \in dead : heap[c].type = "free" /\ c \in freelist
    BY <2>1 DEF IInv, SweepInv
  <2>3. \A c \in Cells \ dead : heap[c] = start[c]
    BY <2>1 DEF IInv, SweepInv
  <2>4. FreeTyped(heap) = FreeTyped(start) \cup dead
    BY <2>2, <2>3 DEF FreeTyped
  <2>5. freelist \subseteq FreeTyped(heap)
    BY DEF IInv, SweepInv, TypeOK, FreeTyped
  <2>6. \A c \in Live : heap[c] = start[c]
    BY <2>3, LiveRoots DEF IInv
  <2>7. finalized = {c \in dead : start[c].type = "ptr"}
    BY <2>1 DEF IInv, SweepInv
  <2>8. QED
    BY <2>2, <2>4, <2>5, <2>6, <2>7
<1>2. QED
  BY <1>1, Invariance, PTL

(* No mark bit survives the collection. *)
THEOREM MarksAreCleared == Spec => []MarksCleared
<1>1. IInv => MarksCleared
  <2> SUFFICES ASSUME IInv, pc = "done" PROVE marked = {}
    BY DEF MarksCleared
  <2>1. marked = {c \in Live : c >= N + 1}
    BY DEF IInv, SweepInv
  <2>2. \A c \in Live : ~(c >= N + 1)
    BY LiveRoots DEF IInv, Cells
  <2>3. QED
    BY <2>1, <2>2
<1>2. QED
  BY <1>1, Invariance, PTL

-----------------------------------------------------------------------------
(***************************************************************************)
(* The reader                                                              *)
(***************************************************************************)
Lookaheads == Delimiters \cup {None}

(* What is being read, within the text s.  A lookahead is the character    *)
(* that was consumed last, and none is left behind a list, behind a text   *)
(* or behind an error.                                                     *)
Scans(s) ==
  [tag : {"reading", "form", "eof", "close", "unclosed"}, form : Seq(Chars), open : Nat,
   pos : 0..Len(s), next : Lookaheads]

LeavesNone(s, r) ==
  /\ r.next # None => r.tag \in {"reading", "form"} /\ r.pos > 0 /\ s[r.pos] = r.next
  /\ r.tag = "form" /\ r.form[1] = "(" => r.next = None

Readings(s) == {r \in Scans(s) : LeavesNone(s, r)}

LEMMA FindIs ==
  ASSUME NEW s \in Seq(Chars), NEW p \in 0..Len(s), NEW C
  PROVE  /\ Find(s, p, C) \in p..Len(s)
         /\ Find(s, p, C) = Len(s) \/ s[Find(s, p, C) + 1] \in C
<1> DEFINE Stops(q) == (q = Len(s) \/ s[q + 1] \in C) /\ \A i \in (p + 1)..q : s[i] \notin C
           T == {q \in p..Len(s) : q = Len(s) \/ s[q + 1] \in C}
<1>1. T \in SUBSET Nat /\ Len(s) \in T
  OBVIOUS
<1>2. PICK d \in T : \A y \in T : d <= y
  <2> HIDE DEF T
  <2> QED
    BY <1>1, LeastExists
<1>3. ASSUME NEW i \in (p + 1)..d PROVE s[i] \notin C
  <2>1. i - 1 \in p..Len(s) /\ (i - 1) + 1 = i /\ ~(d <= i - 1)
    OBVIOUS
  <2>2. i - 1 \notin T
    BY <1>2, <2>1
  <2>3. QED
    BY <2>1, <2>2
<1>4. d \in p..Len(s) /\ Stops(d)
  BY <1>3
<1>5. Find(s, p, C) = CHOOSE q \in p..Len(s) : Stops(q)
  BY DEF Find
<1>6. Find(s, p, C) \in p..Len(s) /\ Stops(Find(s, p, C))
  <2> HIDE DEF Stops
  <2> QED
    BY <1>4, <1>5
<1>7. QED
  BY <1>6

LEMMA CharAtIs ==
  ASSUME NEW s \in Seq(Chars), NEW p \in 0..Len(s)
  PROVE  /\ CharAt(s, p) \in Chars \cup {None} /\ Consume(s, p) \in 0..Len(s)
         /\ CharAt(s, p) # None => Consume(s, p) > 0 /\ s[Consume(s, p)] = CharAt(s, p)
<1>1. CASE p < Len(s)
  <2>1. CharAt(s, p) = s[p + 1] /\ Consume(s, p) = p + 1 /\ p + 1 \in 1..Len(s)
    BY <1>1 DEF CharAt, Consume
  <2>2. s[p + 1] \in Chars
    BY <2>1
  <2>3. QED
    BY <2>1, <2>2
<1>2. CASE ~(p < Len(s))
  BY <1>2 DEF CharAt, Consume, None
<1>3. QED
  BY <1>1, <1>2

LEMMA ItemIs ==
  ASSUME NEW s, NEW r \in Scans(s), NEW txt \in Seq(Chars)
  PROVE  Item(r, txt) \in Seq(Chars) /\ (r.open = 0 => Item(r, txt) = txt)
<1>1. r.form \in Seq(Chars) /\ Blank \in Chars
  BY DEF Scans, Chars, Delimiters
<1>2. <<Blank>> \in Seq(Chars)
  BY <1>1
<1>3. r.form \o <<Blank>> \in Seq(Chars)
  BY <1>1, <1>2
<1>4. r.form \o <<Blank>> \o txt \in Seq(Chars)
  BY <1>3
<1>5. QED
  BY <1>4 DEF Item

LEMMA EndsIs ==
  ASSUME NEW s \in Seq(Chars), NEW r \in Scans(s), NEW q \in 0..Len(s),
         NEW tag \in {"eof", "unclosed", "close"}
  PROVE  Ends(r, tag, q) \in Readings(s)
<1>1. <<>> \in Seq(Chars) /\ r.open \in Nat /\ None \in Lookaheads
  BY DEF Scans, Lookaheads
<1>2. Ends(r, tag, q) \in Scans(s)
  BY <1>1 DEF Ends, Scans
<1>3. Ends(r, tag, q).tag = tag /\ Ends(r, tag, q).next = None
  BY DEF Ends, Scans
<1>4. QED
  BY <1>2, <1>3 DEF Readings, LeavesNone

LEMMA ListIs ==
  ASSUME NEW s \in Seq(Chars), NEW r \in Scans(s), NEW q \in 0..Len(s), r.open # 0
  PROVE  List(s, r, q) \in Readings(s)
<1>1. r.form \in Seq(Chars) /\ r.open \in Nat /\ None \in Lookaheads /\ ")" \in Chars
  BY DEF Scans, Lookaheads, Chars, Delimiters
<1>2. Append(r.form, ")") \in Seq(Chars) /\ r.open - 1 \in Nat
  BY <1>1
<1>3. List(s, r, q) \in Scans(s)
  BY <1>1, <1>2 DEF List, Scans
<1>4. LeavesNone(s, List(s, r, q))
  BY DEF List, LeavesNone
<1>5. QED
  BY <1>3, <1>4 DEF Readings

LEMMA OpensIs ==
  ASSUME NEW s \in Seq(Chars), NEW r \in Scans(s), NEW q \in 0..Len(s), r.tag = "reading"
  PROVE  Opens(r, q) \in Readings(s)
<1>1. r.open + 1 \in Nat /\ None \in Lookaheads
  BY DEF Scans, Lookaheads
<1>2. "(" \in Chars
  BY DEF Chars, Delimiters
<1>3. Item(r, <<"(">>) \in Seq(Chars)
  <2>1. <<"(">> \in Seq(Chars)
    BY <1>2
  <2>2. QED
    BY <2>1, ItemIs
<1>4. Opens(r, q) \in Scans(s)
  BY <1>1, <1>3 DEF Opens, Scans
<1>5. Opens(r, q).tag = "reading" /\ Opens(r, q).next = None
  BY DEF Opens, Scans
<1>6. QED
  BY <1>4, <1>5 DEF Readings, LeavesNone

LEMMA TokenKeeps ==
  ASSUME NEW s \in Seq(Chars), NEW r \in Scans(s), r.tag = "reading"
  PROVE  ReadToken(s, r) \in Readings(s)
<1> DEFINE chr == IF r.next # None THEN r.next ELSE CharAt(s, r.pos)
           p == IF r.next # None THEN r.pos ELSE Consume(s, r.pos)
           first == Find(s, p, Chars \ {Blank})
           c == IF chr = Blank THEN CharAt(s, first) ELSE chr
           q == IF chr = Blank THEN Consume(s, first) ELSE p
           end == Find(s, q, Delimiters)
           line == Find(s, q, {Blank})
<1>1. /\ r \in Scans(s) /\ r.pos \in 0..Len(s) /\ r.next \in Lookaheads /\ r.open \in Nat
      /\ r.form \in Seq(Chars) /\ Lookaheads \subseteq Chars \cup {None}
  BY DEF Readings, Scans, Lookaheads, Chars
<1>2. chr \in Chars \cup {None} /\ p \in 0..Len(s)
  BY <1>1, CharAtIs
<1>3. first \in 0..Len(s)
  <2> HIDE DEF p
  <2>1. first \in p..Len(s)
    BY <1>2, FindIs
  <2>2. QED
    BY <1>2, <2>1
<1>4. c \in Chars \cup {None} /\ q \in 0..Len(s)
  <2> HIDE DEF chr, p, first
  <2>1. CharAt(s, first) \in Chars \cup {None} /\ Consume(s, first) \in 0..Len(s)
    BY <1>3, CharAtIs
  <2>2. QED
    BY <1>2, <2>1
<1> HIDE DEF chr, p, first
<1>5. /\ end \in q..Len(s) /\ (end = Len(s) \/ s[end + 1] \in Delimiters) /\ end \in 0..Len(s)
      /\ line \in 0..Len(s)
  <2> HIDE DEF c, q
  <2>1. end \in q..Len(s) /\ (end = Len(s) \/ s[end + 1] \in Delimiters)
    BY <1>4, FindIs
  <2>2. line \in q..Len(s)
    BY <1>4, FindIs
  <2>3. QED
    BY <1>4, <2>1, <2>2
<1>6. CharAt(s, end) \in Lookaheads
  <2> HIDE DEF c, q, end
  <2>1. QED
    BY <1>5 DEF CharAt, Lookaheads
<1>7. ReadToken(s, r) =
        CASE c = None -> Ends(r, IF r.open = 0 THEN "eof" ELSE "unclosed", q)
          [] c = ";"  -> Skips(r, Consume(s, line))
          [] c = ")"  -> IF r.open = 0 THEN Ends(r, "close", q) ELSE List(s, r, q)
          [] c = "("  -> Opens(r, q)
          [] OTHER    -> Atom(r, <<c>> \o SubSeq(s, q + 1, end), Consume(s, end), CharAt(s, end))
  BY DEF ReadToken, chr, p, first
<1> HIDE DEF c, q, end, line
<1>8. CASE c = None
  <2>1. \A tag \in {"eof", "unclosed"} : Ends(r, tag, q) \in Readings(s)
    BY <1>1, <1>4, EndsIs
  <2>2. ReadToken(s, r) = Ends(r, IF r.open = 0 THEN "eof" ELSE "unclosed", q)
    BY <1>7, <1>8 DEF None
  <2>3. CASE r.open = 0
    BY <2>1, <2>2, <2>3
  <2>4. CASE r.open # 0
    BY <2>1, <2>2, <2>4
  <2>5. QED
    BY <2>3, <2>4
<1>9. CASE c = ";"
  <2>1. Consume(s, line) \in 0..Len(s)
    BY <1>5, CharAtIs
  <2>2. Skips(r, Consume(s, line)) \in Readings(s)
    BY <1>1, <2>1 DEF Skips, Readings, Scans, LeavesNone, Lookaheads
  <2>3. QED
    BY <1>7, <1>9, <2>2 DEF None
<1>10. CASE c = ")"
  <2>1. Ends(r, "close", q) \in Readings(s) /\ (r.open # 0 => List(s, r, q) \in Readings(s))
    BY <1>1, <1>4, EndsIs, ListIs
  <2>2. QED
    BY <1>7, <1>10, <2>1 DEF None
<1>11. CASE c = "("
  <2>1. Opens(r, q) \in Readings(s)
    BY <1>1, <1>4, OpensIs
  <2>2. QED
    BY <1>7, <1>11, <2>1 DEF None
<1>12. CASE c \notin {None, ";", ")", "("}
  <2> DEFINE txt == <<c>> \o SubSeq(s, q + 1, end)
  <2>1. SubSeq(s, q + 1, end) \in Seq(Chars)
    BY <1>4, <1>5, SliceIs
  <2>2. txt \in Seq(Chars) /\ txt[1] = c
    <3> DEFINE tail == SubSeq(s, q + 1, end)
    <3>1. tail \in Seq(Chars) /\ c \in Chars
      BY <1>4, <1>12, <2>1
    <3>2. <<c>> \in Seq(Chars) /\ Len(<<c>>) = 1
      BY <3>1
    <3> HIDE DEF tail
    <3>3. <<c>> \o tail \in Seq(Chars)
      BY <3>1, <3>2
    <3>4. (<<c>> \o tail)[1] = c
      BY <3>1, <3>2
    <3>5. QED
      BY <3>3, <3>4 DEF tail
  <2> HIDE DEF txt
  <2>3. Item(r, txt) \in Seq(Chars) /\ (r.open = 0 => Item(r, txt) = txt)
    BY <1>1, <2>2, ItemIs
  <2>4. /\ Consume(s, end) \in 0..Len(s)
        /\ CharAt(s, end) # None => Consume(s, end) > 0 /\ s[Consume(s, end)] = CharAt(s, end)
    BY <1>5, CharAtIs
  <2> DEFINE a == Atom(r, txt, Consume(s, end), CharAt(s, end))
  <2>5. a \in Scans(s)
    BY <1>1, <1>6, <2>3, <2>4 DEF Atom, Scans
  <2>6. LeavesNone(s, a)
    <3>1. a.tag = "form" => a.form[1] # "("
      BY <1>12, <2>2, <2>3 DEF Atom
    <3>2. a.tag \in {"reading", "form"} /\ a.pos = Consume(s, end) /\ a.next = CharAt(s, end)
      BY DEF Atom
    <3>3. QED
      BY <2>4, <3>1, <3>2 DEF LeavesNone
  <2>7. QED
    BY <1>7, <1>12, <2>5, <2>6 DEF Readings, txt
<1>13. QED
  BY <1>8, <1>9, <1>10, <1>11, <1>12

(* What fe_read has made of any text after some tokens, from any place and *)
(* with any lookahead.                                                     *)
LEMMA AfterIs ==
  ASSUME NEW s \in Seq(Chars), NEW p \in 0..Len(s), NEW k \in Lookaheads, NEW n \in Nat \ {0}
  PROVE  After(s, p, k, n) \in Readings(s)
<1> DEFINE toks == Tokens(n)
           a == Starting(p, k)
           A == Readings(s) \cup {a}
<1>1. n \in Nat /\ n \in 1..n /\ DOMAIN toks = 1..n /\ a \in A
  BY DEF Tokens
<1>2. \A y \in A : ReadOn(s, y) \in Readings(s)
  <2>1. a \in Scans(s) /\ a.tag = "reading"
    BY DEF Starting, Scans
  <2>2. ReadOn(s, a) \in Readings(s)
    <3> HIDE DEF a
    <3> QED
      BY <2>1, TokenKeeps DEF ReadOn
  <2>3. \A y \in Readings(s) : ReadOn(s, y) \in Readings(s)
    BY TokenKeeps DEF ReadOn, Readings
  <2>4. QED
    BY <2>2, <2>3
<1> DEFINE step == [i \in 1..n |-> [y \in A |-> ReadOn(s, y)]]
           Body(f) == [t \in SUBSET DOMAIN toks |->
                         IF t = {} THEN a ELSE ReadOn(s, f[t \ {Biggest(t)}])]
           it == CHOOSE f : f = Body(f)
<1>3. step \in [1..n -> [A -> A]]
  <2>1. \A y \in A : ReadOn(s, y) \in A
    BY <1>2
  <2> HIDE DEF A
  <2> QED
    BY <2>1
<1>4. After(s, p, k, n) = it[DOMAIN toks]
  BY DEF After, FoldLeft, MapThenFoldSet, Biggest, Max
<1> HIDE DEF A, toks, a
<1>5. PICK f : f \in [SUBSET (1..n) -> A] /\ FoldsBy(f, n, a, step)
  <2> HIDE DEF step
  <2> QED
    BY <1>1, <1>3, FoldExists
<1>6. f = Body(f)
  <2>1. ASSUME NEW t \in SUBSET (1..n)
        PROVE  f[t] = IF t = {} THEN a ELSE ReadOn(s, f[t \ {Biggest(t)}])
    <3>1. CASE t = {}
      BY <1>5, <3>1, Zenon DEF FoldsBy
    <3>2. CASE t # {}
      <4>1. Biggest(t) \in 1..n /\ t \ {Biggest(t)} \in SUBSET (1..n)
        BY <1>1, <3>2, BiggestExists
      <4>2. f[t] = step[Biggest(t)][f[t \ {Biggest(t)}]]
        <5> HIDE DEF step
        <5> QED
          BY <1>5, <3>2, Zenon DEF FoldsBy
      <4>3. f[t \ {Biggest(t)}] \in A
        BY <1>5, <4>1
      <4>4. QED
        BY <3>2, <4>1, <4>2, <4>3
    <3>3. QED
      BY <3>1, <3>2
  <2>2. DOMAIN toks = 1..n /\ f = [t \in SUBSET (1..n) |-> f[t]]
    BY <1>1, <1>5
  <2>3. QED
    BY <2>1, <2>2, Zenon
<1>7. it = Body(it)
  <2> HIDE DEF Body
  <2> QED
    BY <1>6, Zenon
<1>8. GoesBy(it, n, A, a, step)
  <2> HIDE DEF it
  <2>1. it[{}] = a
    BY <1>7
  <2>2. ASSUME NEW i \in 1..n, it[1..(i - 1)] \in A
        PROVE  it[1..i] = step[i][it[1..(i - 1)]]
    <3> DEFINE t == 1..i
    <3>1. t \in SUBSET (1..n) /\ t # {} /\ Biggest(t) = i /\ t \ {i} = 1..(i - 1)
      BY <1>1, Segments
    <3> HIDE DEF t
    <3>2. it[t] = ReadOn(s, it[t \ {Biggest(t)}])
      BY <1>1, <1>7, <3>1
    <3>3. it[1..i] = ReadOn(s, it[1..(i - 1)])
      BY <3>1, <3>2 DEF t
    <3>4. QED
      BY <2>2, <3>3
  <2>3. QED
    BY <2>1, <2>2 DEF GoesBy
<1>9. PICK g : g \in [0..n -> A] /\ g[n] = it[1..n] /\ Computes(g, n, a, step)
  <2> HIDE DEF step, it
  <2> QED
    BY <1>1, <1>3, <1>8, FoldSteps
<1>10. g[n - 1] \in A /\ g[n] = step[n][g[n - 1]]
  <2>1. n - 1 \in 0..n
    BY <1>1
  <2>2. g[n] = step[n][g[n - 1]]
    <3> HIDE DEF step
    <3> QED
      BY <1>1, <1>9 DEF Computes
  <2>3. QED
    BY <1>9, <2>1, <2>2
<1>11. g[n] = ReadOn(s, g[n - 1])
  BY <1>1, <1>10
<1>12. QED
  <2> HIDE DEF it
  <2> QED
    BY <1>1, <1>2, <1>4, <1>9, <1>10, <1>11

LEMMA ReadIs ==
  ASSUME NEW s \in Seq(Chars), NEW p \in 0..Len(s), NEW k \in Lookaheads
  PROVE  Read(s, p, k) \in Readings(s)
<1>1. TokenMax(s) \in Nat \ {0}
  BY DEF TokenMax
<1>2. QED
  BY <1>1, AfterIs DEF Read

(* The readers.  All but the innermost are evaluating a list, and would    *)
(* find no lookahead if they were alone; one that has met no stray is      *)
(* where it would be then.                                                 *)
Users == Uses \cup {"program"}

Readers ==
  [use : Users, text : Seq(Chars), pos : Nat, busy : BOOLEAN, alonePos : Nat,
   aloneNext : Lookaheads, met : SUBSET {"returned", "raised"}]

Located(x) == x.pos <= Len(x.text) /\ x.alonePos <= Len(x.text)

InStep(x, k) == x.met = {} => x.alonePos = x.pos /\ x.aloneNext = k

Suspended(x) == Located(x) /\ x.busy /\ InStep(x, None)

Own == IF stray = "none" THEN nextchr ELSE None

ReadsNext(x, k) ==
  /\ Located(x) /\ InStep(x, k)
  /\ k # None => ~x.busy /\ x.pos > 0 /\ x.text[x.pos] = k

ReaderInv ==
  /\ readers \in Seq(Readers) /\ nextchr \in Lookaheads /\ Len(readers) <= DepthMax
  /\ stray \in {"none", "returned", "raised"}
  /\ nextchr = None => stray = "none"
  /\ \A i \in 1..(Len(readers) - 1) : Suspended(readers[i])
  /\ readers # <<>> => ReadsNext(Top, Own)
  /\ readers = <<>> => Own = None
  /\ last.met = {} => last.own

(* With some of the readers gone, and a lookahead at most that was theirs. *)
LEMMA FewerReaders ==
  ASSUME ReaderInv, NEW i \in 0..(Len(readers) - 1), readers' = SubSeq(readers, 1, i),
         nextchr' \in Lookaheads, stray' \in {"none", "returned", "raised"},
         (nextchr' = None) <=> (stray' = "none"),
         last'.met = {} => last'.own
  PROVE  ReaderInv'
<1> DEFINE s == SubSeq(readers, 1, i)
<1>1. Len(readers) \in Nat /\ readers \in Seq(Readers) /\ i \in Nat /\ i <= Len(readers)
  BY DEF ReaderInv
<1>2. s \in Seq(Readers) /\ Len(s) = i /\ \A j \in 1..i : s[j] = readers[j]
  <2>1. /\ s \in Seq(Readers) /\ Len(s) = i - 1 + 1
        /\ \A j \in 1..(i - 1 + 1) : s[j] = readers[1 + j - 1]
    BY <1>1, SliceIs
  <2>2. QED
    BY <1>1, <2>1
<1>3. readers' = s /\ Own' = None
  BY DEF Own
<1> HIDE DEF s
<1>4. \A j \in 1..i : Suspended(s[j])
  BY <1>1, <1>2 DEF ReaderInv
<1>5. s # <<>> => i \in 1..i /\ Top' = s[i]
  BY <1>1, <1>2, <1>3 DEF Top
<1>6. s # <<>> => ReadsNext(Top', None)
  BY <1>4, <1>5 DEF Suspended, ReadsNext
<1>7. \A j \in 1..(Len(s) - 1) : Suspended(s[j])
  BY <1>1, <1>2, <1>4
<1>8. Len(s) <= DepthMax
  BY <1>1, <1>2, ReaderAssumption DEF ReaderInv
<1>9. QED
  BY <1>2, <1>3, <1>6, <1>7, <1>8 DEF ReaderInv

(* With another reader on top.                                             *)
LEMMA MoreReaders ==
  ASSUME ReaderInv, Own = None, readers # <<>> => Top.busy, Len(readers) < DepthMax,
         NEW use \in Users, NEW txt \in Seq(Chars),
         readers' = Append(readers, NewReader(use, txt)), nextchr' = nextchr, stray' = stray,
         last' = last
  PROVE  ReaderInv'
<1> DEFINE x == NewReader(use, txt)  n == Len(readers)
<1>1. x \in Readers /\ ReadsNext(x, None) /\ readers \in Seq(Readers) /\ n \in Nat
  BY DEF ReaderInv, NewReader, Readers, Lookaheads, ReadsNext, Located, InStep
<1>2. /\ readers' \in Seq(Readers) /\ Len(readers') = n + 1 /\ readers'[n + 1] = x
      /\ \A j \in 1..n : readers'[j] = readers[j]
  <2>1. readers' = Append(readers, x)
    OBVIOUS
  <2> HIDE DEF x, n
  <2>2. x \in Readers /\ readers \in Seq(Readers) /\ Len(readers) = n /\ n \in Nat
    BY <1>1 DEF n
  <2>3. QED
    BY <2>1, <2>2
<1> HIDE DEF x
<1>3. Top' = x /\ readers' # <<>> /\ Own' = None
  BY <1>1, <1>2 DEF Top, Own
<1>4. n > 0 => Suspended(readers[n])
  BY <1>1 DEF ReaderInv, Top, ReadsNext, Suspended
<1>5. ASSUME NEW j \in 1..(Len(readers') - 1) PROVE Suspended(readers'[j])
  <2>1. j \in 1..n /\ (j \in 1..(n - 1) \/ (j = n /\ n > 0))
    BY <1>1, <1>2, <1>5
  <2>2. Suspended(readers[j])
    BY <1>4, <2>1 DEF ReaderInv
  <2>3. QED
    BY <1>2, <2>1, <2>2
<1>6. Len(readers') <= DepthMax
  BY <1>1, <1>2, ReaderAssumption
<1>7. QED
  BY <1>1, <1>2, <1>3, <1>5, <1>6 DEF ReaderInv

(* What a reader is about to read, and what it would read if it were alone. *)
LEMMA TopIs ==
  ASSUME ReaderInv, readers # <<>>
  PROVE  /\ Len(readers) \in Nat \ {0} /\ readers \in Seq(Readers) /\ Top = readers[Len(readers)]
         /\ Top \in Readers /\ ReadsNext(Top, Own) /\ nextchr \in Lookaheads
         /\ Top.text \in Seq(Chars) /\ Top.pos \in 0..Len(Top.text)
         /\ Top.alonePos \in 0..Len(Top.text) /\ Top.aloneNext \in Lookaheads
         /\ Top.met \in SUBSET {"returned", "raised"} /\ Met \in SUBSET {"returned", "raised"}
<1>1. /\ Len(readers) \in Nat \ {0} /\ readers \in Seq(Readers) /\ Top = readers[Len(readers)]
      /\ ReadsNext(Top, Own) /\ nextchr \in Lookaheads /\ stray \in {"none", "returned", "raised"}
  BY EmptySeq DEF ReaderInv, Top
<1>2. Top \in Readers
  BY <1>1
<1>3. /\ Top.text \in Seq(Chars) /\ Top.pos \in 0..Len(Top.text)
      /\ Top.alonePos \in 0..Len(Top.text) /\ Top.aloneNext \in Lookaheads
      /\ Top.met \in SUBSET {"returned", "raised"}
  BY <1>1, <1>2 DEF Readers, ReadsNext, Located
<1>4. Met \in SUBSET {"returned", "raised"}
  BY <1>1, <1>3 DEF Met
<1>5. QED
  BY <1>1, <1>2, <1>3, <1>4

LEMMA ReadFormKeeps ==
  ASSUME ReaderInv, ReadForm
  PROVE  ReaderInv'
<1> DEFINE r == Read(Top.text, Top.pos, nextchr)
           a == Read(Top.text, Top.alonePos, Top.aloneNext)
           n == Len(readers)
<1>1. /\ readers # <<>> /\ ReadsNext(Top, Own) /\ n \in Nat \ {0} /\ Top = readers[n]
      /\ readers \in Seq(Readers) /\ nextchr \in Lookaheads /\ Top \in Readers
      /\ Top.text \in Seq(Chars) /\ Met \in SUBSET {"returned", "raised"}
  BY TopIs DEF ReadForm
<1>2. r \in Readings(Top.text) /\ a \in Readings(Top.text)
  BY <1>1, TopIs, ReadIs
<1>3. Met = {} => a = r
  <2>1. ASSUME Met = {} PROVE Top.met = {} /\ stray = "none"
    BY <2>1, <1>1 DEF Met
  <2>2. QED
    BY <1>1, <2>1 DEF ReadsNext, InStep, Own
<1>4. /\ nextchr' = r.next
      /\ last' = [own |-> r.tag = a.tag /\ r.form = a.form, met |-> Met]
      /\ \/ /\ r.tag = "form" /\ stray' = "none"
            /\ readers' = Append(Below,
                 [Top EXCEPT !.pos = r.pos, !.busy = r.form[1] = "(" /\ Top.use \in Evaluators,
                             !.alonePos = a.pos, !.aloneNext = a.next, !.met = Met])
         \/ readers' = Below /\ Strayed("returned")
         \/ Unwinds /\ Strayed("raised")
  BY DEF ReadForm
<1> HIDE DEF r, a
<1>5. /\ r \in Scans(Top.text) /\ LeavesNone(Top.text, r)
      /\ a \in Scans(Top.text) /\ LeavesNone(Top.text, a)
  BY <1>2 DEF Readings
<1>6. nextchr' \in Lookaheads /\ (last'.met = {} => last'.own)
  BY <1>3, <1>4, <1>5 DEF Scans
<1>7. CASE readers' = Below /\ Strayed("returned")
  <2>1. n - 1 \in 0..(n - 1) /\ readers' = SubSeq(readers, 1, n - 1)
    BY <1>1, <1>7 DEF Below
  <2>2. stray' \in {"none", "returned", "raised"} /\ ((nextchr' = None) <=> (stray' = "none"))
    BY <1>7 DEF Strayed
  <2>3. QED
    BY <1>6, <2>1, <2>2, FewerReaders
<1>8. CASE Unwinds /\ Strayed("raised")
  <2>1. stray' \in {"none", "returned", "raised"} /\ ((nextchr' = None) <=> (stray' = "none"))
    BY <1>8 DEF Strayed
  <2>2. QED
    BY <1>6, <1>8, <2>1, FewerReaders DEF Unwinds
<1>9. ASSUME r.tag = "form", stray' = "none",
             readers' = Append(Below,
                 [Top EXCEPT !.pos = r.pos, !.busy = r.form[1] = "(" /\ Top.use \in Evaluators,
                             !.alonePos = a.pos, !.aloneNext = a.next, !.met = Met])
       PROVE  ReaderInv'
  <2> DEFINE x == [Top EXCEPT !.pos = r.pos, !.busy = r.form[1] = "(" /\ Top.use \in Evaluators,
                              !.alonePos = a.pos, !.aloneNext = a.next, !.met = Met]
  <2>1. /\ x \in Readers /\ x.pos = r.pos /\ x.alonePos = a.pos /\ x.aloneNext = a.next
        /\ x.text = Top.text /\ x.met = Met /\ (x.busy => r.form[1] = "(")
    <3>1. /\ r.pos \in Nat /\ a.pos \in Nat /\ a.next \in Lookaheads
          /\ (r.form[1] = "(" /\ Top.use \in Evaluators) \in BOOLEAN
      BY <1>5 DEF Scans
    <3>2. QED
      BY <1>1, <3>1 DEF Readers
  <2> HIDE DEF x
  <2>2. ReadsNext(x, r.next)
    <3>1. r.pos <= Len(Top.text) /\ a.pos <= Len(Top.text)
      BY <1>1, <1>5 DEF Scans
    <3>2. InStep(x, r.next)
      BY <1>3, <2>1 DEF InStep
    <3>3. QED
      BY <1>5, <1>9, <2>1, <3>1, <3>2 DEF ReadsNext, Located, LeavesNone
  <2>3. /\ Below \in Seq(Readers) /\ Len(Below) = n - 1
        /\ \A j \in 1..(n - 1) : Below[j] = readers[j]
    <3>1. /\ SubSeq(readers, 1, n - 1) \in Seq(Readers)
          /\ Len(SubSeq(readers, 1, n - 1)) = (n - 1) - 1 + 1
          /\ \A j \in 1..((n - 1) - 1 + 1) : SubSeq(readers, 1, n - 1)[j] = readers[1 + j - 1]
      <4>1. n - 1 \in Nat /\ n - 1 <= Len(readers) /\ 1 <= (n - 1) + 1
        BY <1>1
      <4>2. PICK m \in Nat : m = n - 1 /\ m <= Len(readers) /\ 1 <= m + 1
        BY <4>1
      <4>3. /\ SubSeq(readers, 1, m) \in Seq(Readers) /\ Len(SubSeq(readers, 1, m)) = m - 1 + 1
            /\ \A j \in 1..(m - 1 + 1) : SubSeq(readers, 1, m)[j] = readers[1 + j - 1]
        BY <1>1, <4>2, SliceIs
      <4>4. QED
        BY <4>2, <4>3
    <3>2. QED
      BY <1>1, <3>1 DEF Below
  <2>4. /\ readers' \in Seq(Readers) /\ Len(readers') = n /\ readers'[n] = x
        /\ \A j \in 1..(n - 1) : readers'[j] = readers[j]
    <3>1. readers' = Append(Below, x)
      BY <1>9 DEF x
    <3> DEFINE below == Below
    <3>2. below \in Seq(Readers) /\ Len(below) = n - 1 /\ readers' = Append(below, x)
      BY <2>3, <3>1
    <3>3. \A j \in 1..(n - 1) : below[j] = readers[j]
      BY <2>3
    <3> HIDE DEF below, n
    <3>4. readers' \in Seq(Readers) /\ Len(readers') = (n - 1) + 1 /\ readers'[(n - 1) + 1] = x
      BY <2>1, <3>2
    <3>5. \A j \in 1..(n - 1) : readers'[j] = below[j]
      BY <2>1, <3>2
    <3>6. (n - 1) + 1 = n
      BY <1>1
    <3>7. QED
      BY <3>3, <3>4, <3>5, <3>6
  <2>5. Top' = x /\ readers' # <<>> /\ Own' = r.next
    BY <1>1, <1>4, <1>9, <2>4 DEF Top, Own
  <2>6. \A j \in 1..(Len(readers') - 1) : Suspended(readers'[j])
    BY <2>4 DEF ReaderInv
  <2>7. Len(readers') <= DepthMax
    BY <2>4 DEF ReaderInv
  <2>8. QED
    BY <1>6, <1>9, <2>2, <2>4, <2>5, <2>6, <2>7 DEF ReaderInv
<1>10. QED
  BY <1>4, <1>7, <1>8, <1>9

LEMMA ReadRaisesKeeps ==
  ASSUME ReaderInv, ReadRaises
  PROVE  ReaderInv'
<1>1. readers # <<>> /\ Unwinds /\ Strayed("raised") /\ last' = last
  BY DEF ReadRaises
<1>2. PICK n \in 1..TokenMax(Top.text) : nextchr' \in {After(Top.text, Top.pos, nextchr, n).next, None}
  BY DEF ReadRaises
<1>3. n \in Nat \ {0}
  BY <1>1, TopIs DEF TokenMax
<1>4. After(Top.text, Top.pos, nextchr, n) \in Readings(Top.text)
  BY <1>1, <1>3, TopIs, AfterIs
<1>5. nextchr' \in Lookaheads
  BY <1>2, <1>4 DEF Readings, Scans, Lookaheads
<1>6. stray' \in {"none", "returned", "raised"} /\ ((nextchr' = None) <=> (stray' = "none"))
  BY <1>1 DEF Strayed
<1>7. last'.met = {} => last'.own
  BY <1>1 DEF ReaderInv
<1>8. QED
  BY <1>1, <1>5, <1>6, <1>7, FewerReaders DEF Unwinds

LEMMA ReadersAreInductive ==
  ASSUME ReaderInv, [ReaderNext]_readerVars
  PROVE  ReaderInv'
<1>1. CASE UNCHANGED readerVars
  BY <1>1 DEF readerVars, ReaderInv, Top, Own
<1>2. CASE Begin
  <2>1. PICK s \in Programs : readers' = <<NewReader("program", s)>>
    BY <1>2 DEF Begin
  <2>2. readers = <<>> /\ Own = None /\ nextchr' = nextchr /\ stray' = stray /\ last' = last
    BY <1>2 DEF Begin, ReaderInv
  <2>3. s \in Seq(Chars) /\ "program" \in Users /\ Len(readers) < DepthMax
    BY <2>2, ReaderAssumption DEF Users
  <2>4. readers' = Append(readers, NewReader("program", s))
    BY <2>1, <2>2
  <2>5. QED
    BY <2>2, <2>3, <2>4, MoreReaders
<1>3. CASE ReadForm
  BY <1>3, ReadFormKeeps
<1>4. CASE ReadRaises
  BY <1>4, ReadRaisesKeeps
<1>5. CASE Nest
  <2>1. PICK use \in Uses, s \in Texts : readers' = Append(readers, NewReader(use, s))
    BY <1>5 DEF Nest
  <2>2. /\ readers # <<>> /\ Top.busy /\ Len(readers) < DepthMax
        /\ nextchr' = nextchr /\ stray' = stray /\ last' = last
    BY <1>5 DEF Nest
  <2>3. Own = None
    BY <2>2 DEF ReaderInv, ReadsNext
  <2>4. s \in Seq(Chars) /\ use \in Users
    BY ReaderAssumption DEF Users
  <2>5. QED
    BY <2>1, <2>2, <2>3, <2>4, MoreReaders
<1>6. CASE EvalFails
  <2>1. readers # <<>> /\ Top.busy /\ nextchr' = nextchr /\ stray' = stray /\ last' = last
    BY <1>6 DEF EvalFails
  <2>2. Own = None
    BY <2>1 DEF ReaderInv, ReadsNext
  <2>3. /\ nextchr' \in Lookaheads /\ stray' \in {"none", "returned", "raised"}
        /\ (nextchr' = None) <=> (stray' = "none")
        /\ last'.met = {} => last'.own
    BY <2>1, <2>2 DEF ReaderInv, Own
  <2>4. QED
    BY <1>6, <2>3, FewerReaders DEF EvalFails, Unwinds
<1>7. QED
  BY <1>1, <1>2, <1>3, <1>4, <1>5, <1>6 DEF ReaderNext

LEMMA ReadersStaySound == ReaderSpec => []ReaderInv
<1>1. ReaderInit => ReaderInv
  BY ReaderAssumption DEF ReaderInit, ReaderInv, Lookaheads, Own
<1>2. ReaderInv /\ [ReaderNext]_readerVars => ReaderInv'
  BY ReadersAreInductive
<1>3. QED
  BY <1>1, <1>2, PTL DEF ReaderSpec

(* For all programs and texts, however deep loads, read-all and            *)
(* read-string nest and however they end, a reader that meets no lookahead *)
(* left behind by a read that raised or by read-string gives the forms it  *)
(* would give if it had the context to itself.                             *)
THEOREM SharedLookaheadIsHarmless == ReaderSpec => []ReadersAreIndependent
<1>1. ReaderInv => ReadersAreIndependent
  BY DEF ReaderInv, ReadersAreIndependent
<1>2. QED
  BY <1>1, ReadersStaySound, PTL

(* A lookahead that is not left behind is the innermost reader's own last  *)
(* character, and it is there only while no form is being evaluated.       *)
THEOREM LookaheadStaysOwned == ReaderSpec => []LookaheadIsOwned
<1>1. ReaderInv => LookaheadIsOwned
  BY DEF ReaderInv, LookaheadIsOwned, ReadsNext, Own
<1>2. QED
  BY <1>1, ReadersStaySound, PTL

(* The types of the readers' state.                                        *)
THEOREM ReadersTypeCorrect == ReaderSpec => []ReaderTypeOK
<1>1. ReaderInv => ReaderTypeOK
  <2> SUFFICES ASSUME ReaderInv, NEW i \in 1..Len(readers)
               PROVE  /\ readers[i].pos \in 0..Len(readers[i].text)
                      /\ readers[i].use \in Uses \cup {"program"}
    BY DEF ReaderInv, ReaderTypeOK, Lookaheads
  <2>1. readers[i] \in Readers /\ (i \in 1..(Len(readers) - 1) \/ (readers # <<>> /\ readers[i] = Top))
    BY DEF ReaderInv, Top
  <2>2. Located(readers[i])
    BY <2>1 DEF ReaderInv, Suspended, ReadsNext
  <2>3. readers[i].text \in Seq(Chars) /\ readers[i].pos \in Nat /\ readers[i].use \in Users
    BY <2>1 DEF Readers
  <2>4. QED
    BY <2>2, <2>3 DEF Located, Users
<1>2. QED
  BY <1>1, ReadersStaySound, PTL

-----------------------------------------------------------------------------
(***************************************************************************)
(* Programs in several files                                               *)
(***************************************************************************)
FrameType == [path : DOMAIN fs, pos : Nat \ {0}, by : {"build", "run", "load", "require", "try"}]

Reads(fr, n) == Cardinality({i \in 1..n : fr[i].by # "try"})

(* The files of the frames, in order.                                      *)
Matched(fr, files) ==
  /\ Len(files) = Reads(fr, Len(fr))
  /\ \A i \in 1..Len(fr) : fr[i].by # "try" => files[Reads(fr, i)] = fr[i].path

Homes(ds, files) ==
  /\ Len(ds) = Len(files)
  /\ \A i \in 1..Len(files) : ds[i] = dir_of(files[i])

LoadInv ==
  /\ fs \in FileSystems /\ stage \in {"build", "run", "done"}
  /\ frames \in Seq(FrameType) /\ open \in Seq(DOMAIN fs)
  /\ dirs \in Seq({dir_of(f) : f \in DOMAIN fs})
  /\ Matched(frames, open)
  /\ stage = "build" => /\ dirs = <<>> /\ Len(frames) <= BuildDepthMax + 1
                        /\ \A i \in 1..Len(frames) : frames[i].by = "build"
  /\ stage = "run" => Homes(dirs, open) /\ frames # <<>>
  /\ stage = "done" => frames = <<>>
-----------------------------------------------------------------------------
LEMMA ReadsFacts ==
  ASSUME NEW fr, NEW n \in Nat
  PROVE  /\ Reads(fr, n) \in Nat /\ Reads(fr, 0) = 0
         /\ Reads(fr, n + 1) = Reads(fr, n) + (IF fr[n + 1].by # "try" THEN 1 ELSE 0)
<1> DEFINE R(m) == {i \in 1..m : fr[i].by # "try"}
<1>1. IsFiniteSet(R(n)) /\ R(0) = {} /\ n + 1 \notin R(n)
  <2>1. IsFiniteSet(1..n) /\ R(n) \subseteq 1..n
    BY FS_Interval
  <2>2. QED
    BY <2>1, FS_Subset
<1>2. R(n + 1) = IF fr[n + 1].by # "try" THEN R(n) \cup {n + 1} ELSE R(n)
  OBVIOUS
<1>3. Cardinality(R(n) \cup {n + 1}) = Cardinality(R(n)) + 1
  BY <1>1, FS_AddElement
<1>4. Cardinality(R(n)) \in Nat /\ Cardinality({}) = 0
  BY <1>1, FS_CardinalityType, FS_EmptySet
<1> HIDE DEF R
<1>5. Cardinality(R(0)) = 0
  BY <1>1, <1>4
<1>6. Cardinality(R(n + 1)) = Cardinality(R(n)) + (IF fr[n + 1].by # "try" THEN 1 ELSE 0)
  <2>1. CASE fr[n + 1].by # "try"
    <3>1. R(n + 1) = R(n) \cup {n + 1}
      BY <1>2, <2>1
    <3>2. QED
      BY <1>3, <2>1, <3>1
  <2>2. CASE fr[n + 1].by = "try"
    <3>1. R(n + 1) = R(n)
      BY <1>2, <2>2
    <3>2. QED
      BY <1>4, <2>2, <3>1
  <2>3. QED
    BY <2>1, <2>2
<1>7. QED
  BY <1>4, <1>5, <1>6 DEF R, Reads

LEMMA ReadsMonotone ==
  ASSUME NEW fr, NEW n \in Nat, NEW i \in 1..n
  PROVE  /\ Reads(fr, i) <= Reads(fr, n) /\ Reads(fr, i) \in Nat
         /\ fr[i].by # "try" => Reads(fr, i) >= 1
<1>1. Reads(fr, i) <= Reads(fr, n)
  <2> DEFINE R(m) == {j \in 1..m : fr[j].by # "try"}
  <2>1. IsFiniteSet(R(n)) /\ R(i) \subseteq R(n)
    <3>1. IsFiniteSet(1..n) /\ R(n) \subseteq 1..n
      BY FS_Interval
    <3>2. QED
      BY <3>1, FS_Subset
  <2>2. Cardinality(R(i)) <= Cardinality(R(n))
    BY <2>1, FS_Subset
  <2>3. QED
    BY <2>2 DEF Reads
<1>2. i - 1 \in Nat /\ (i - 1) + 1 = i /\ i \in Nat
  OBVIOUS
<1>3. /\ Reads(fr, i - 1) \in Nat /\ Reads(fr, i) \in Nat
      /\ Reads(fr, i) = Reads(fr, i - 1) + (IF fr[i].by # "try" THEN 1 ELSE 0)
  BY <1>2, ReadsFacts
<1>4. QED
  BY <1>1, <1>3

LEMMA ReadsAlike ==
  ASSUME NEW fr, NEW gr, NEW n \in Nat, \A i \in 1..n : fr[i].by = gr[i].by
  PROVE  Reads(fr, n) = Reads(gr, n)
<1>1. {i \in 1..n : fr[i].by # "try"} = {i \in 1..n : gr[i].by # "try"}
  OBVIOUS
<1>2. QED
  BY <1>1 DEF Reads
-----------------------------------------------------------------------------
(* What a step does to the stack of frames and to the open files.          *)
LEMMA MatchedAlike ==
  ASSUME NEW T, NEW fr \in Seq(T), NEW gr \in Seq(T), NEW files,
         Len(gr) = Len(fr), \A i \in 1..Len(fr) : gr[i].by = fr[i].by /\ gr[i].path = fr[i].path,
         Matched(fr, files)
  PROVE  Matched(gr, files)
<1>1. \A n \in 0..Len(fr) : Reads(fr, n) = Reads(gr, n)
  <2>1. SUFFICES ASSUME NEW n \in 0..Len(fr) PROVE Reads(fr, n) = Reads(gr, n)
    OBVIOUS
  <2>2. n \in Nat /\ \A i \in 1..n : fr[i].by = gr[i].by
    OBVIOUS
  <2>3. QED
    BY <2>2, ReadsAlike
<1>2. Len(fr) \in 0..Len(fr) /\ 1..Len(fr) \subseteq 0..Len(fr)
  OBVIOUS
<1>3. QED
  BY <1>1, <1>2 DEF Matched

LEMMA MatchedPush ==
  ASSUME NEW T, NEW fr \in Seq(T), NEW f \in T, NEW U, NEW files \in Seq(U), f.path \in U,
         Matched(fr, files)
  PROVE  Matched(Append(fr, f), IF f.by = "try" THEN files ELSE Append(files, f.path))
<1> DEFINE n == Len(fr)
           gr == Append(fr, f)
           more == IF f.by = "try" THEN files ELSE Append(files, f.path)
<1>1. /\ n \in Nat /\ Len(gr) = n + 1 /\ gr[n + 1] = f
      /\ \A i \in 1..n : gr[i] = fr[i]
  OBVIOUS
<1>2. \A i \in 0..n : Reads(gr, i) = Reads(fr, i)
  <2>1. SUFFICES ASSUME NEW i \in 0..n PROVE Reads(gr, i) = Reads(fr, i)
    OBVIOUS
  <2>2. i \in Nat /\ \A j \in 1..i : gr[j].by = fr[j].by
    BY <1>1
  <2>3. QED
    BY <2>2, ReadsAlike
<1>3. Reads(gr, n + 1) = Reads(fr, n) + (IF f.by # "try" THEN 1 ELSE 0) /\ Reads(fr, n) \in Nat
  <2>1. n \in 0..n
    BY <1>1
  <2>2. /\ Reads(gr, n + 1) = Reads(gr, n) + (IF gr[n + 1].by # "try" THEN 1 ELSE 0)
        /\ Reads(fr, n) \in Nat
    BY <1>1, ReadsFacts
  <2> HIDE DEF n, gr
  <2>3. QED
    BY <1>1, <1>2, <2>1, <2>2
<1>4. Len(files) = Reads(fr, n) /\ \A i \in 1..n : fr[i].by # "try" => files[Reads(fr, i)] = fr[i].path
  BY DEF Matched
<1>5. \A i \in 1..n : /\ Reads(fr, i) \in Nat /\ Reads(fr, i) <= Len(files)
                      /\ fr[i].by # "try" => Reads(fr, i) >= 1
  BY <1>1, <1>4, ReadsMonotone
<1>6. /\ Len(more) = Reads(gr, n + 1)
      /\ \A k \in 1..Len(files) : more[k] = files[k]
      /\ f.by # "try" => more[Len(files) + 1] = f.path
  BY <1>3, <1>4
<1> HIDE DEF n, gr, more
<1>7. \A i \in 1..(n + 1) : gr[i].by # "try" => more[Reads(gr, i)] = gr[i].path
  <2>1. SUFFICES ASSUME NEW i \in 1..(n + 1), gr[i].by # "try"
                 PROVE  more[Reads(gr, i)] = gr[i].path
    OBVIOUS
  <2>2. CASE i = n + 1
    BY <1>1, <1>3, <1>4, <1>6, <2>1, <2>2
  <2>3. CASE i # n + 1
    <3>1. i \in 1..n /\ i \in 0..n
      BY <1>1, <2>3
    <3>2. Reads(fr, i) \in 1..Len(files) /\ fr[i].by # "try" /\ gr[i] = fr[i]
      BY <1>1, <1>3, <1>4, <1>5, <2>1, <3>1
    <3>3. QED
      BY <1>2, <1>4, <1>6, <3>1, <3>2
  <2>4. QED
    BY <2>2, <2>3
<1>8. Matched(gr, more)
  BY <1>1, <1>6, <1>7 DEF Matched
<1>9. QED
  BY <1>8 DEF gr, more

LEMMA MatchedPop ==
  ASSUME NEW T, NEW fr \in Seq(T), fr # <<>>, NEW U, NEW files \in Seq(U), Matched(fr, files)
  PROVE  /\ Last(fr).by # "try" => Len(files) >= 1
         /\ Matched(Front(fr), IF Last(fr).by = "try" THEN files ELSE Front(files))
<1> DEFINE n == Len(fr) - 1
           gr == Front(fr)
           less == IF Last(fr).by = "try" THEN files ELSE Front(files)
<1>1. /\ n \in Nat /\ Len(fr) = n + 1 /\ Len(gr) = n /\ Last(fr) = fr[n + 1]
      /\ \A i \in 1..n : gr[i] = fr[i]
  <2>1. Len(fr) \in Nat /\ Len(fr) # 0
    BY EmptySeq
  <2>2. n \in Nat /\ gr = SubSeq(fr, 1, n) /\ Len(fr) = n + 1
    BY <2>1 DEF Front
  <2>3. Len(gr) = n /\ \A i \in 1..n : gr[i] = fr[i]
    BY <2>1, <2>2, SubSeqProperties
  <2>4. QED
    BY <2>2, <2>3 DEF Last
<1>2. \A i \in 0..n : Reads(gr, i) = Reads(fr, i)
  <2>1. SUFFICES ASSUME NEW i \in 0..n PROVE Reads(gr, i) = Reads(fr, i)
    OBVIOUS
  <2>2. i \in Nat /\ \A j \in 1..i : gr[j].by = fr[j].by
    BY <1>1
  <2>3. QED
    BY <2>2, ReadsAlike
<1>3. /\ Reads(fr, n + 1) = Reads(fr, n) + (IF fr[n + 1].by # "try" THEN 1 ELSE 0)
      /\ Reads(fr, n) \in Nat
  BY <1>1, ReadsFacts
<1>4. /\ Len(files) = Reads(fr, n + 1) /\ Len(files) \in Nat
      /\ \A i \in 1..(n + 1) : fr[i].by # "try" => files[Reads(fr, i)] = fr[i].path
  BY <1>1 DEF Matched
<1>5. fr[n + 1].by # "try" => Len(files) >= 1
  BY <1>3, <1>4
<1>6. Len(less) = Reads(fr, n) /\ \A k \in 1..Reads(fr, n) : less[k] = files[k]
  <2>1. CASE fr[n + 1].by = "try"
    BY <1>1, <1>3, <1>4, <2>1
  <2>2. CASE fr[n + 1].by # "try"
    <3>1. less = SubSeq(files, 1, Len(files) - 1) /\ Len(files) - 1 = Reads(fr, n)
      BY <1>1, <1>3, <1>4, <2>2 DEF Front
    <3>2. QED
      BY <1>3, <1>4, <3>1, SubSeqProperties
  <2>3. QED
    BY <2>1, <2>2
<1> HIDE DEF n, gr, less
<1>7. \A i \in 1..n : gr[i].by # "try" => less[Reads(gr, i)] = gr[i].path
  <2>1. SUFFICES ASSUME NEW i \in 1..n, gr[i].by # "try" PROVE less[Reads(gr, i)] = gr[i].path
    OBVIOUS
  <2>2. /\ Reads(fr, i) \in 1..Reads(fr, n) /\ i \in 1..(n + 1) /\ i \in 0..n
        /\ fr[i].by # "try" /\ gr[i] = fr[i]
    BY <1>1, <1>3, <2>1, ReadsMonotone
  <2>3. QED
    BY <1>2, <1>4, <1>6, <2>2
<1>8. Matched(gr, less)
  <2>1. n \in 0..n
    BY <1>1
  <2>2. QED
    BY <1>1, <1>2, <1>6, <1>7, <2>1 DEF Matched
<1>9. QED
  BY <1>1, <1>5, <1>8 DEF gr, less

-----------------------------------------------------------------------------
LEMMA HomesPush ==
  ASSUME NEW U, NEW files \in Seq(U), NEW V, NEW ds \in Seq(V), NEW f, Homes(ds, files)
  PROVE  Homes(Append(ds, dir_of(f)), Append(files, f))
  BY DEF Homes

LEMMA FrontType ==
  ASSUME NEW T, NEW s \in Seq(T), s # <<>>
  PROVE  /\ Front(s) \in Seq(T) /\ Len(Front(s)) = Len(s) - 1 /\ Len(s) \in Nat \ {0}
         /\ \A i \in 1..(Len(s) - 1) : Front(s)[i] = s[i]
         /\ Last(s) = s[Len(s)] /\ s[Len(s)] \in T
<1>1. Len(s) \in Nat /\ Len(s) # 0
  BY EmptySeq
<1>2. Front(s) = SubSeq(s, 1, Len(s) - 1) /\ \A i \in 1..(Len(s) - 1) : s[i] \in T
  BY <1>1 DEF Front
<1> DEFINE n == Len(s) - 1
<1>3. n \in Nat /\ \A i \in 1..n : s[i] \in T
  BY <1>1, <1>2
<1>4. /\ SubSeq(s, 1, n) \in Seq(T) /\ Len(SubSeq(s, 1, n)) = n
      /\ \A i \in 1..n : SubSeq(s, 1, n)[i] = s[i]
  <2> HIDE DEF n
  <2>1. QED
    BY <1>3, SubSeqProperties
<1>5. QED
  BY <1>1, <1>2, <1>4 DEF Last

LEMMA HomesPop ==
  ASSUME NEW U, NEW files \in Seq(U), NEW V, NEW ds \in Seq(V), Len(files) >= 1, Homes(ds, files)
  PROVE  Homes(Front(ds), Front(files)) /\ Front(ds) \in Seq(V) /\ Front(files) \in Seq(U)
<1>1. Len(files) \in Nat /\ Len(ds) = Len(files) /\ files # <<>> /\ ds # <<>>
  <2>1. Len(files) \in Nat /\ Len(ds) = Len(files)
    BY DEF Homes
  <2>2. QED
    BY <2>1
<1> DEFINE n == Len(files) - 1
<1>2. Front(files) \in Seq(U) /\ Len(Front(files)) = n /\ \A i \in 1..n : Front(files)[i] = files[i]
  BY <1>1, FrontType
<1>3. Front(ds) \in Seq(V) /\ Len(Front(ds)) = n /\ \A i \in 1..n : Front(ds)[i] = ds[i]
  <2>1. Front(ds) \in Seq(V) /\ Len(Front(ds)) = Len(ds) - 1
        /\ \A i \in 1..(Len(ds) - 1) : Front(ds)[i] = ds[i]
    BY <1>1, FrontType
  <2>2. QED
    BY <1>1, <2>1
<1>4. n \in Nat
  BY <1>1
<1>5. \A i \in 1..n : ds[i] = dir_of(files[i])
  BY <1>1 DEF Homes
<1> HIDE DEF n
<1>6. QED
  BY <1>2, <1>3, <1>4, <1>5 DEF Homes

LEMMA SteppedFacts ==
  ASSUME LoadInv, frames # <<>>
  PROVE  /\ Stepped \in Seq(FrameType) /\ Len(Stepped) = Len(frames) /\ Len(frames) \in Nat \ {0}
         /\ \A i \in 1..Len(frames) : /\ Stepped[i].by = frames[i].by
                                      /\ Stepped[i].path = frames[i].path
                                      /\ Stepped[i].pos = frames[i].pos + (IF i = Len(frames) THEN 1 ELSE 0)
         /\ Matched(Stepped, open)
<1> DEFINE n == Len(frames)
           top == [frames[n] EXCEPT !.pos = @ + 1]
<1>1. frames \in Seq(FrameType) /\ n \in Nat \ {0}
  BY EmptySeq DEF LoadInv
<1>2. frames[n] \in FrameType
  BY <1>1
<1>3. top \in FrameType /\ top.by = frames[n].by /\ top.path = frames[n].path /\ top.pos = frames[n].pos + 1
  BY <1>2 DEF FrameType
<1>4. Stepped = [frames EXCEPT ![n] = top]
  BY DEF Stepped
<1>5. \A i \in 1..n : frames[i] \in FrameType
  BY <1>1
<1> HIDE DEF top
<1>6. Stepped \in Seq(FrameType) /\ Len(Stepped) = n
  BY <1>1, <1>3, <1>4
<1>7. \A i \in 1..n : Stepped[i] = IF i = n THEN top ELSE frames[i]
  BY <1>1, <1>4
<1>8. \A i \in 1..n : /\ Stepped[i].by = frames[i].by /\ Stepped[i].path = frames[i].path
                      /\ Stepped[i].pos = frames[i].pos + (IF i = n THEN 1 ELSE 0)
  BY <1>3, <1>5, <1>7 DEF FrameType
<1>9. Matched(Stepped, open)
  <2>1. Matched(frames, open)
    BY DEF LoadInv
  <2>2. QED
    BY <1>1, <1>6, <1>8, <2>1, MatchedAlike
<1>10. QED
  BY <1>1, <1>6, <1>8, <1>9

(* The three shapes of a step within a stage.                              *)
LEMMA GoesOn ==
  ASSUME LoadInv, frames # <<>>, frames' = Stepped \/ frames' = frames, UNCHANGED <<fs, stage, open, dirs>>
  PROVE  LoadInv'
<1>1. /\ frames' \in Seq(FrameType) /\ Len(frames') = Len(frames) /\ Len(frames) \in Nat \ {0}
      /\ \A i \in 1..Len(frames) : frames'[i].by = frames[i].by
      /\ Matched(frames', open)
  <2>1. frames \in Seq(FrameType) /\ Len(frames) \in Nat \ {0} /\ Matched(frames, open)
    BY EmptySeq DEF LoadInv
  <2>2. QED
    BY <2>1, SteppedFacts
<1>2. frames' # <<>>
  BY <1>1
<1>3. QED
  BY <1>1, <1>2 DEF LoadInv, FrameType, Matched, Reads, Homes, dir_of

LEMMA Enters ==
  ASSUME LoadInv, frames # <<>>, NEW path \in DOMAIN fs,
         NEW by \in {"build", "run", "load", "require"},
         Enter(path, by), UNCHANGED <<fs, stage>>,
         \/ stage = "build" /\ by = "build" /\ UNCHANGED dirs /\ Len(frames) <= BuildDepthMax
         \/ stage = "run" /\ dirs' = Append(dirs, dir_of(path))
  PROVE  LoadInv'
<1> DEFINE f == Frame(path, by)
<1>1. f \in FrameType /\ f.by = by /\ f.path = path /\ f.by # "try"
  BY DEF Frame, FrameType
<1>2. frames' = Append(Stepped, f) /\ open' = Append(open, path)
  BY DEF Enter
<1> HIDE DEF f
<1>3. /\ Stepped \in Seq(FrameType) /\ Len(Stepped) = Len(frames) /\ Len(frames) \in Nat \ {0}
      /\ \A i \in 1..Len(frames) : Stepped[i].by = frames[i].by
      /\ Matched(Stepped, open)
  BY SteppedFacts
<1>4. open \in Seq(DOMAIN fs) /\ dirs \in Seq({dir_of(g) : g \in DOMAIN fs})
  BY DEF LoadInv
<1>5. Matched(frames', open')
  BY <1>1, <1>2, <1>3, <1>4, MatchedPush
<1>6. /\ frames' \in Seq(FrameType) /\ open' \in Seq(DOMAIN fs) /\ Len(frames') = Len(frames) + 1
      /\ frames' # <<>>
      /\ \A i \in 1..Len(frames) : frames'[i].by = frames[i].by
      /\ frames'[Len(frames) + 1].by = by
  BY <1>1, <1>2, <1>3, <1>4, SMTT(20)
<1>7. FrameType' = FrameType
  BY DEF FrameType
<1>8. CASE stage = "build" /\ by = "build" /\ UNCHANGED dirs /\ Len(frames) <= BuildDepthMax
  <2>1. \A i \in 1..Len(frames') : frames'[i].by = "build"
    <3>1. SUFFICES ASSUME NEW i \in 1..Len(frames') PROVE frames'[i].by = "build"
      OBVIOUS
    <3>2. i \in 1..Len(frames) \/ i = Len(frames) + 1
      BY <1>3, <1>6
    <3>3. QED
      BY <1>6, <1>8, <3>2 DEF LoadInv
  <2>2. Len(frames') <= BuildDepthMax + 1
    BY <1>3, <1>6, <1>8, LoadingAssumption
  <2>3. fs' \in FileSystems /\ stage' = "build" /\ dirs' = <<>>
    BY <1>8 DEF LoadInv
  <2>4. QED
    BY <1>4, <1>5, <1>6, <1>7, <1>8, <2>1, <2>2, <2>3 DEF LoadInv
<1>9. CASE stage = "run" /\ dirs' = Append(dirs, dir_of(path))
  <2>1. Homes(dirs', open')
    BY <1>2, <1>4, <1>9, HomesPush DEF LoadInv
  <2>2. dirs' \in Seq({dir_of(g) : g \in DOMAIN fs})
    <3>1. dir_of(path) \in {dir_of(g) : g \in DOMAIN fs}
      OBVIOUS
    <3>2. QED
      BY <1>4, <1>9, <3>1
  <2>3. fs' \in FileSystems /\ stage' = "run"
    BY <1>9 DEF LoadInv
  <2>4. QED
    BY <1>5, <1>6, <1>7, <2>1, <2>2, <2>3 DEF LoadInv
<1>10. QED
  BY <1>8, <1>9

LEMMA EntersTry ==
  ASSUME LoadInv, frames # <<>>, stage = "run", NEW path \in DOMAIN fs,
         frames' = Append(Stepped, Frame(path, "try")), UNCHANGED <<fs, stage, open, dirs>>
  PROVE  LoadInv'
<1> DEFINE f == Frame(path, "try")
<1>1. f \in FrameType /\ f.by = "try"
  BY DEF Frame, FrameType
<1>2. frames' = Append(Stepped, f)
  OBVIOUS
<1>3. f.path \in DOMAIN fs
  BY <1>1 DEF FrameType
<1> HIDE DEF f
<1>4. Stepped \in Seq(FrameType) /\ Matched(Stepped, open) /\ open \in Seq(DOMAIN fs)
  BY SteppedFacts DEF LoadInv
<1>5. Matched(frames', open')
  BY <1>1, <1>2, <1>3, <1>4, MatchedPush
<1>6. frames' \in Seq(FrameType) /\ frames' # <<>>
  BY <1>1, <1>2, <1>4
<1>7. FrameType' = FrameType
  BY DEF FrameType
<1>8. QED
  BY <1>5, <1>6, <1>7 DEF LoadInv

LEMMA Leaves ==
  ASSUME LoadInv, frames # <<>>, frames' = Front(frames), UNCHANGED fs,
         \/ /\ stage = "build" /\ stage' = stage
            /\ open' = Front(open) /\ UNCHANGED dirs
         \/ /\ stage = "run" /\ stage' = IF Len(frames) = 1 THEN "done" ELSE stage
            /\ Leave
  PROVE  LoadInv'
<1>1. frames \in Seq(FrameType) /\ open \in Seq(DOMAIN fs) /\ Matched(frames, open)
      /\ dirs \in Seq({dir_of(g) : g \in DOMAIN fs})
  BY DEF LoadInv
<1>2. /\ frames' \in Seq(FrameType) /\ Len(frames') = Len(frames) - 1 /\ Len(frames) \in Nat \ {0}
      /\ \A i \in 1..(Len(frames) - 1) : frames'[i] = frames[i]
      /\ Last(frames) = frames[Len(frames)]
  BY <1>1, FrontType
<1>3. /\ Last(frames).by # "try" => Len(open) >= 1
      /\ Matched(frames', IF Last(frames).by = "try" THEN open ELSE Front(open))
  BY <1>1, MatchedPop
<1>4. open # <<>> => Front(open) \in Seq(DOMAIN fs)
  BY <1>1, FrontType
<1>5. FrameType' = FrameType
  BY DEF FrameType
<1>6. CASE stage = "build" /\ stage' = stage /\ open' = Front(open) /\ UNCHANGED dirs
  <2>1. Last(frames).by = "build"
    BY <1>2, <1>6 DEF LoadInv
  <2>2. open' \in Seq(DOMAIN fs) /\ Matched(frames', open')
    BY <1>3, <1>4, <1>6, <2>1
  <2>3. \A i \in 1..Len(frames') : frames'[i].by = "build"
    BY <1>2, <1>6 DEF LoadInv
  <2>4. Len(frames') <= BuildDepthMax + 1 /\ dirs' = <<>>
    BY <1>2, <1>6, LoadingAssumption DEF LoadInv
  <2>5. QED
    BY <1>1, <1>2, <1>5, <1>6, <2>2, <2>3, <2>4 DEF LoadInv
<1>7. CASE stage = "run" /\ stage' = (IF Len(frames) = 1 THEN "done" ELSE stage) /\ Leave
  <2>1. Matched(frames', open')
    BY <1>3, <1>7 DEF Leave, Innermost
  <2>2. /\ open' \in Seq(DOMAIN fs) /\ dirs' \in Seq({dir_of(g) : g \in DOMAIN fs})
        /\ Homes(dirs', open')
    <3>1. CASE Last(frames).by = "try"
      BY <1>1, <1>7, <3>1 DEF Leave, Innermost, LoadInv
    <3>2. CASE Last(frames).by # "try"
      <4>1. Len(open) >= 1 /\ Homes(dirs, open)
        BY <1>3, <1>7, <3>2 DEF LoadInv
      <4>2. open' = Front(open) /\ dirs' = Front(dirs)
        BY <1>7, <3>2 DEF Leave, Innermost
      <4>3. QED
        BY <1>1, <4>1, <4>2, HomesPop
    <3>3. QED
      BY <3>1, <3>2
  <2>3. stage' = "done" => frames' = <<>>
    <3>1. stage' = "done" => Len(frames') = 0
      BY <1>2, <1>7
    <3>2. QED
      BY <1>2, <3>1, EmptySeq
  <2>4. stage' = "run" => frames' # <<>>
    <3>1. stage' = "run" => Len(frames') # 0
      BY <1>2, <1>7
    <3>2. QED
      BY <1>2, <3>1, EmptySeq
  <2>5. stage' \in {"run", "done"}
    BY <1>7
  <2>6. QED
    BY <1>2, <1>5, <2>1, <2>2, <2>3, <2>4, <2>5 DEF LoadInv
<1>8. QED
  BY <1>6, <1>7

LEMMA NothingOpen ==
  /\ Matched(<<>>, <<>>)
  /\ \A f, by : by # "try" => Matched(<<Frame(f, by)>>, <<f>>)
<1>1. Reads(<<>>, 0) = 0
  BY ReadsFacts
<1>2. Matched(<<>>, <<>>)
  BY <1>1 DEF Matched
<1>3. ASSUME NEW f, NEW by, by # "try" PROVE Matched(<<Frame(f, by)>>, <<f>>)
  <2> DEFINE fr == <<Frame(f, by)>>
  <2>1. Len(fr) = 1 /\ fr[1].by = by /\ fr[1].path = f
    BY DEF Frame
  <2> HIDE DEF fr
  <2>2. Reads(fr, 0) = 0 /\ Reads(fr, 0 + 1) = Reads(fr, 0) + (IF fr[0 + 1].by # "try" THEN 1 ELSE 0)
    BY ReadsFacts
  <2>3. Reads(fr, 1) = 1
    BY <1>3, <2>1, <2>2
  <2>4. Matched(fr, <<f>>)
    BY <2>1, <2>3 DEF Matched
  <2>5. QED
    BY <2>4 DEF fr
<1>4. QED
  BY <1>2, <1>3

-----------------------------------------------------------------------------
LEMMA LoadStarts == LoadInit => LoadInv
<1>1. SUFFICES ASSUME LoadInit PROVE LoadInv
  OBVIOUS
<1>2. CASE Main \in DOMAIN fs
  <2>1. frames = <<Frame(Main, "build")>> /\ open = <<Main>>
    BY <1>1, <1>2 DEF LoadInit
  <2>2. Frame(Main, "build") \in FrameType /\ Frame(Main, "build").by = "build"
    BY <1>2 DEF Frame, FrameType
  <2>3. frames \in Seq(FrameType) /\ open \in Seq(DOMAIN fs) /\ Len(frames) = 1
        /\ frames[1].by = "build"
    BY <1>2, <2>1, <2>2
  <2>4. Matched(frames, open)
    BY <2>1, NothingOpen
  <2>5. Len(frames) <= BuildDepthMax + 1
    BY <2>3, LoadingAssumption
  <2>6. QED
    BY <1>1, <2>3, <2>4, <2>5 DEF LoadInit, LoadInv
<1>3. CASE Main \notin DOMAIN fs
  <2>1. frames = <<>> /\ open = <<>>
    BY <1>1, <1>3 DEF LoadInit
  <2>2. 0 <= BuildDepthMax + 1
    BY LoadingAssumption
  <2>3. QED
    BY <1>1, <2>1, <2>2, NothingOpen DEF LoadInit, LoadInv
<1>4. QED
  BY <1>2, <1>3

LEMMA BuildKeeps == LoadInv /\ (BuildForm \/ BuildReturn \/ BuildJump \/ BuildDone) => LoadInv'
<1> SUFFICES ASSUME LoadInv, BuildForm \/ BuildReturn \/ BuildJump \/ BuildDone PROVE LoadInv'
  OBVIOUS
<1>1. CASE BuildForm
  <2>1. frames # <<>> /\ stage = "build" /\ UNCHANGED <<fs, stage, dirs>>
    BY <1>1 DEF BuildForm, Working
  <2>2. CASE frames' = Stepped /\ UNCHANGED open
    BY <2>1, <2>2, GoesOn
  <2>3. ASSUME NEW path, Bundle(path) PROVE LoadInv'
    <3>1. CASE Len(frames) > BuildDepthMax \/ path \notin DOMAIN fs
      BY <2>1, <2>3, <3>1, GoesOn DEF Bundle
    <3>2. CASE ~(Len(frames) > BuildDepthMax \/ path \notin DOMAIN fs)
      <4>1. Len(frames) <= BuildDepthMax
        BY <2>1, <3>2, SteppedFacts, LoadingAssumption
      <4>2. Enter(path, "build") /\ path \in DOMAIN fs
        BY <2>3, <3>2 DEF Bundle
      <4>3. QED
        BY <2>1, <4>1, <4>2, Enters
    <3>3. QED
      BY <3>1, <3>2
  <2>4. QED
    BY <1>1, <2>2, <2>3 DEF BuildForm
<1>2. CASE BuildReturn
  BY <1>2, Leaves DEF BuildReturn
<1>3. CASE BuildJump
  <2>1. /\ frames' = <<>> /\ open' = <<>> /\ stage' = "build" /\ UNCHANGED <<fs, dirs>>
        /\ stage = "build"
    BY <1>3 DEF BuildJump, CloseAll
  <2>2. Len(<<>>) = 0 /\ 0 <= BuildDepthMax + 1
    BY LoadingAssumption
  <2>3. QED
    BY <2>1, <2>2, NothingOpen DEF LoadInv
<1>4. CASE BuildDone
  <2>1. CASE Main \in DOMAIN fs
    <3>1. /\ frames' = <<Frame(Main, "run")>> /\ open' = <<Main>> /\ dirs' = <<dir_of(Main)>>
          /\ stage' = "run" /\ UNCHANGED fs
      BY <1>4, <2>1 DEF BuildDone
    <3>2. Frame(Main, "run") \in FrameType
      BY <2>1 DEF Frame, FrameType
    <3>3. FrameType' = FrameType
      BY <3>1 DEF FrameType
    <3>4. /\ frames' \in Seq(FrameType) /\ open' \in Seq(DOMAIN fs) /\ frames' # <<>>
          /\ dirs' \in Seq({dir_of(f) : f \in DOMAIN fs})
      BY <2>1, <3>1, <3>2
    <3>5. Homes(dirs', open')
      BY <3>1 DEF Homes
    <3>6. Matched(frames', open')
      BY <3>1, NothingOpen
    <3>7. QED
      BY <3>1, <3>3, <3>4, <3>5, <3>6 DEF LoadInv
  <2>2. CASE Main \notin DOMAIN fs
    <3>1. stage' = "done" /\ UNCHANGED <<fs, frames, open, dirs>> /\ frames = <<>>
      BY <1>4, <2>2 DEF BuildDone
    <3>2. FrameType' = FrameType
      BY <3>1 DEF FrameType
    <3>3. QED
      BY <3>1, <3>2 DEF LoadInv
  <2>3. QED
    BY <2>1, <2>2
<1>5. QED
  BY <1>1, <1>2, <1>3, <1>4

LEMMA RunKeeps ==
  LoadInv /\ (EvalPlain \/ h_load \/ h_try \/ TryLoads \/ h_provide \/ h_require \/ BadForm
                \/ FileEnds \/ Unwind) => LoadInv'
<1> SUFFICES ASSUME LoadInv, EvalPlain \/ h_load \/ h_try \/ TryLoads \/ h_provide \/ h_require \/ BadForm
                               \/ FileEnds \/ Unwind
             PROVE LoadInv'
  OBVIOUS
<1>1. ASSUME NEW path, NEW by \in {"load", "require"}, eval_file_or_error(path, by),
             stage = "run", frames # <<>>, UNCHANGED <<fs, stage>>
      PROVE  LoadInv'
  <2>1. CASE path \notin DOMAIN fs \/ GuardsFull
    <3>1. UNCHANGED <<frames, open, dirs>>
      BY <1>1, <2>1 DEF eval_file_or_error, Throw
    <3>2. QED
      BY <1>1, <3>1, GoesOn
  <2>2. CASE ~(path \notin DOMAIN fs \/ GuardsFull)
    <3>1. Enter(path, by) /\ dirs' = Append(dirs, dir_of(path)) /\ path \in DOMAIN fs
      BY <1>1, <2>2 DEF eval_file_or_error
    <3>2. QED
      BY <1>1, <3>1, Enters
  <2>3. QED
    BY <2>1, <2>2
<1>2. CASE EvalPlain \/ h_provide \/ BadForm
  <2>1. /\ frames # <<>> /\ UNCHANGED <<fs, stage, open, dirs>>
        /\ frames' = Stepped \/ frames' = frames
    BY <1>2 DEF EvalPlain, h_provide, BadForm, Running, Working, Continue, Throw
  <2>2. QED
    BY <2>1, GoesOn
<1>3. CASE h_load \/ TryLoads
  <2>1. stage = "run" /\ frames # <<>> /\ UNCHANGED <<fs, stage>>
    BY <1>3 DEF h_load, TryLoads, Running, Working
  <2>2. \E path : eval_file_or_error(path, "load")
    BY <1>3, Zenon DEF h_load, TryLoads
  <2>3. QED
    BY <1>1, <2>1, <2>2
<1>4. CASE h_require
  <2>1. stage = "run" /\ frames # <<>> /\ UNCHANGED <<fs, stage>>
    BY <1>4 DEF h_require, Running, Working
  <2>2. CASE Loaded(Form.name)
    BY <1>4, <2>1, <2>2, GoesOn DEF h_require, Continue
  <2>3. CASE ~Loaded(Form.name)
    BY <1>1, <1>4, <2>1, <2>3 DEF h_require
  <2>4. QED
    BY <2>2, <2>3
<1>5. CASE h_try
  <2>1. stage = "run" /\ frames # <<>> /\ UNCHANGED <<fs, stage>>
    BY <1>5 DEF h_try, Running, Working
  <2>2. CASE GuardsFull
    BY <1>5, <2>1, <2>2, GoesOn DEF h_try, Throw
  <2>3. CASE ~GuardsFull
    <3>1. Innermost.path \in DOMAIN fs
      <4>1. frames \in Seq(FrameType)
        BY DEF LoadInv
      <4>2. Innermost \in FrameType
        BY <2>1, <4>1, FrontType DEF Innermost
      <4>3. QED
        BY <4>2 DEF FrameType
    <3>2. QED
      BY <1>5, <2>1, <2>3, <3>1, EntersTry DEF h_try
  <2>4. QED
    BY <2>2, <2>3
<1>6. CASE FileEnds
  BY <1>6, Leaves DEF FileEnds, Working, Leave
<1>7. CASE Unwind
  BY <1>7, Leaves DEF Unwind, Leave, LoadInv
<1>8. QED
  BY <1>2, <1>3, <1>4, <1>5, <1>6, <1>7

LEMMA LoadInductive == LoadInv /\ [LoadNext]_loadVars => LoadInv'
<1>1. LoadInv /\ UNCHANGED loadVars => LoadInv'
  BY DEF LoadInv, loadVars, FrameType
<1>2. QED
  BY <1>1, BuildKeeps, RunKeeps DEF LoadNext

(* Whatever fails, and wherever it is caught, the files that are open are  *)
(* those that are still being read: for every set of files and every       *)
(* program in them, any number of guards and any depth of a build.         *)
THEOREM OpenFilesAreBeingRead == LoadSpec => []FilesAreThoseBeingRead
<1>1. ASSUME LoadInv PROVE FilesAreThoseBeingRead
  <2>1. Matched(frames, open) /\ Len(frames) \in Nat
    BY <1>1 DEF LoadInv
  <2>2. ASSUME stage = "build" PROVE Len(open) <= BuildDepthMax + 1
    <3>1. Reads(frames, Len(frames)) <= Len(frames)
      <4>1. IsFiniteSet(1..Len(frames)) /\ Cardinality(1..Len(frames)) = Len(frames)
        <5>1. 1 \in Int /\ Len(frames) \in Int
          BY <2>1
        <5>2. /\ IsFiniteSet(1..Len(frames))
              /\ Cardinality(1..Len(frames)) = IF 1 > Len(frames) THEN 0 ELSE Len(frames) - 1 + 1
          BY <5>1, FS_Interval
        <5>3. QED
          BY <2>1, <5>2
      <4>2. {i \in 1..Len(frames) : frames[i].by # "try"} \subseteq 1..Len(frames)
        OBVIOUS
      <4>3. QED
        BY <4>1, <4>2, FS_Subset DEF Reads
    <3>2. Len(open) = Reads(frames, Len(frames)) /\ Len(open) \in Nat
      BY <1>1, <2>1 DEF Matched, LoadInv
    <3>3. QED
      BY <1>1, <2>1, <2>2, <3>1, <3>2, LoadingAssumption DEF LoadInv
  <2>3. QED
    BY <1>1, <2>1, <2>2 DEF FilesAreThoseBeingRead, LoadInv, Matched, Homes, Reading, Reads
<1>2. QED
  BY <1>1, LoadStarts, LoadInductive, PTL DEF LoadSpec

LEMMA TypesRun ==
  ASSUME LoadInv, LoadTypeOK,
         EvalPlain \/ h_load \/ h_try \/ TryLoads \/ h_provide \/ h_require \/ BadForm
  PROVE  LoadTypeOK'
<1>1. stage = "run" /\ stage' = stage /\ UNCHANGED built /\ frames # <<>>
  BY DEF EvalPlain, h_load, h_try, TryLoads, h_provide, h_require, BadForm, Running, Working
<1>2. Len(Stepped) = Len(frames) /\ Stepped \in Seq(FrameType) /\ Len(frames) \in Nat \ {0}
  BY <1>1, SteppedFacts
<1>3. Len(frames) <= GuardMax /\ GuardMax \in Nat
  BY <1>1, LoadingAssumption DEF LoadTypeOK
<1>4. ASSUME NEW path, NEW by, eval_file_or_error(path, by)
      PROVE  Len(frames') <= GuardMax /\ raised' \in BOOLEAN /\ faulty' \in BOOLEAN
  <2>1. CASE Throw
    BY <2>1, <1>3 DEF Throw
  <2>2. CASE ~GuardsFull /\ Enter(path, by) /\ UNCHANGED <<raised, faulty>>
    <3>1. Len(Append(Stepped, Frame(path, by))) = Len(frames) + 1
      BY <1>2
    <3>2. QED
      BY <2>2, <3>1, <1>2, <1>3 DEF GuardsFull, Enter, LoadTypeOK
  <2>3. QED
    BY <1>4, <2>1, <2>2 DEF eval_file_or_error
<1>5. Len(frames') <= GuardMax /\ raised' \in BOOLEAN /\ faulty' \in BOOLEAN
  <2>1. CASE EvalPlain
    BY <2>1, <1>2, <1>3 DEF EvalPlain, Continue, LoadTypeOK
  <2>2. CASE h_load
    BY <2>2, <1>4 DEF h_load
  <2>3. CASE h_try
    <3>1. CASE GuardsFull
      BY <2>3, <3>1, <1>3 DEF h_try, Throw
    <3>2. CASE ~GuardsFull
      <4>1. Len(Append(Stepped, Frame(Innermost.path, "try"))) = Len(frames) + 1
        BY <1>2
      <4>2. QED
        BY <2>3, <3>2, <4>1, <1>2, <1>3 DEF h_try, GuardsFull, LoadTypeOK
    <3>3. QED
      BY <3>1, <3>2
  <2>4. CASE TryLoads
    BY <2>4, <1>4 DEF TryLoads
  <2>5. CASE h_provide
    BY <2>5, <1>2, <1>3 DEF h_provide, Continue, LoadTypeOK
  <2>6. CASE h_require
    <3>1. CASE Loaded(Form.name)
      BY <2>6, <3>1, <1>2, <1>3 DEF h_require, Continue, LoadTypeOK
    <3>2. CASE ~Loaded(Form.name)
      BY <2>6, <3>2, <1>4 DEF h_require
    <3>3. QED
      BY <3>1, <3>2
  <2>7. CASE BadForm
    BY <2>7, <1>3 DEF BadForm, Throw
  <2>8. QED
    BY <2>1, <2>2, <2>3, <2>4, <2>5, <2>6, <2>7
<1>6. QED
  BY <1>1, <1>5 DEF LoadTypeOK

LEMMA TypesKeep == LoadInv /\ LoadTypeOK /\ [LoadNext]_loadVars => LoadTypeOK'
<1> SUFFICES ASSUME LoadInv, LoadTypeOK, [LoadNext]_loadVars PROVE LoadTypeOK'
  OBVIOUS
<1>1. CASE BuildForm
  <2>1. raised' \in BOOLEAN
    BY <1>1 DEF BuildForm, Bundle, LoadTypeOK
  <2>2. QED
    BY <1>1, <2>1 DEF BuildForm, LoadTypeOK
<1>2. CASE BuildReturn
  BY <1>2 DEF BuildReturn, LoadTypeOK
<1>3. CASE BuildJump
  BY <1>3 DEF BuildJump, LoadTypeOK
<1>4. CASE BuildDone
  <2>1. Len(<<>>) = 0 /\ Len(<<Frame(Main, "run")>>) = 1
    OBVIOUS
  <2>2. Len(frames') \in {0, 1}
    BY <1>4, <2>1, Zenon DEF BuildDone
  <2>3. Len(frames') <= GuardMax
    BY <2>2, LoadingAssumption
  <2>4. faulty' \in BOOLEAN /\ raised' \in BOOLEAN /\ stage' \in {"run", "done"}
    BY <1>4 DEF BuildDone, LoadTypeOK
  <2>5. built' \in {"ok", "failed"}
    BY <1>4 DEF BuildDone
  <2>6. QED
    BY <2>3, <2>4, <2>5 DEF LoadTypeOK
<1>5. CASE EvalPlain \/ h_load \/ h_try \/ TryLoads \/ h_provide \/ h_require \/ BadForm
  BY <1>5, TypesRun
<1>6. CASE FileEnds \/ Unwind
  <2>1. stage = "run" /\ frames # <<>> /\ frames' = Front(frames) /\ UNCHANGED <<built, faulty>>
    BY <1>6 DEF FileEnds, Unwind, Leave, Working, LoadInv
  <2>2. Len(Front(frames)) = Len(frames) - 1 /\ Len(frames) \in Nat
    BY <2>1, FrontType DEF LoadInv
  <2>3. stage' \in {"run", "done"} /\ raised' \in BOOLEAN
    BY <1>6, <2>1 DEF FileEnds, Unwind, LoadTypeOK
  <2>4. QED
    BY <2>1, <2>2, <2>3, LoadingAssumption DEF LoadTypeOK
<1>7. CASE UNCHANGED loadVars
  BY <1>7 DEF loadVars, LoadTypeOK
<1>8. QED
  BY <1>1, <1>2, <1>3, <1>4, <1>5, <1>6, <1>7 DEF LoadNext

(* Loads, requires and tries nest no deeper than there are guards          *)
(* (eval_file_or_error, h_try), and every variable keeps its type.         *)
THEOREM LoadTypesCorrect == LoadSpec => []LoadTypeOK
<1>1. LoadInit => LoadTypeOK
  BY DEF LoadInit, LoadTypeOK
<1>2. QED
  BY <1>1, TypesKeep, LoadStarts, LoadInductive, PTL DEF LoadSpec

-----------------------------------------------------------------------------
(***************************************************************************)
(* require evaluates a file once                                           *)
(***************************************************************************)
(* The form that a frame has just passed.                                  *)
Passed(fr) == fs[fr.path][fr.pos - 1]

(* Every file on the stack is there because the one below it requires it.  *)
Descends(fr) ==
  /\ fr[1].by = "run" /\ \A i \in 2..Len(fr) : fr[i].by = "require"
  /\ \A i \in 1..(Len(fr) - 1) :
       /\ fr[i].pos - 1 \in DOMAIN fs[fr[i].path] /\ Passed(fr[i]).op = "require"
       /\ fr[i + 1].path = FileOf(fr[i].path, Passed(fr[i]).name)

(* A form that has run belongs to a file that is being read and is past    *)
(* it, or to one that is no longer read and whose name is recorded.        *)
Accounted(places, fr, recorded) ==
  \A r \in 1..Len(places) :
    \/ \E i \in 1..Len(fr) : fr[i].path = places[r][1] /\ places[r][2] < fr[i].pos
    \/ /\ \A i \in 1..Len(fr) : fr[i].path # places[r][1]
       /\ NamesOf(places[r][1]) \cap recorded # {}

AllDifferent(places) ==
  \A i, j \in 1..Len(places) : places[i] = places[j] => i = j

OnceInv ==
  /\ ran \in Seq((DOMAIN fs) \X Nat)
  /\ stage = "build" => ran = <<>>
  /\ stage = "run" /\ raised => faulty
  /\ Plainly /\ ~faulty =>
       /\ AllDifferent(ran)
       /\ stage = "run" => Descends(frames) /\ Accounted(ran, frames, required)

LEMMA FileType ==
  ASSUME LoadInv, NEW f \in DOMAIN fs
  PROVE  /\ fs[f] \in Seq([op : STRING, name : Seq(STRING)])
         /\ DOMAIN fs[f] = 1..Len(fs[f]) /\ Len(fs[f]) \in Nat
<1>1. fs[f] \in Seq([op : STRING, name : Seq(STRING)])
  BY LoadingAssumption DEF LoadInv
<1>2. QED
  BY <1>1

LEMMA Required ==
  ASSUME LoadInv, NEW f \in DOMAIN fs, NEW i \in DOMAIN fs[f], fs[f][i].op = "require"
  PROVE  /\ fs[f][i].name \in NamesOf(FileOf(f, fs[f][i].name))
         /\ FileOf(f, fs[f][i].name) \in DOMAIN fs
              => FileOf(f, fs[f][i].name) \in Requires(f)
<1>1. fs[f][i].name \in Names(f, {"require"})
  BY DEF Names
<1>2. QED
  BY <1>1 DEF NamesOf, Requires

(* Files that do not require each other in a circle are on the stack once. *)
LEMMA ChainIsDistinct ==
  ASSUME LoadInv, NEW fr \in Seq(FrameType), Descends(fr), ~Circular
  PROVE  \A i, j \in 1..Len(fr) : fr[i].path = fr[j].path => i = j
<1>1. \A i \in 1..Len(fr) : fr[i] \in FrameType /\ fr[i].path \in DOMAIN fs
  <2>1. \A i \in 1..Len(fr) : fr[i] \in FrameType
    OBVIOUS
  <2>2. QED
    BY <2>1 DEF FrameType
<1>2. Len(fr) \in Nat
  OBVIOUS
<1>3. ASSUME NEW i \in 1..(Len(fr) - 1) PROVE fr[i + 1].path \in Requires(fr[i].path)
  <2>1. i \in 1..Len(fr) /\ i + 1 \in 1..Len(fr)
    BY <1>2
  <2>2. /\ fr[i].pos - 1 \in DOMAIN fs[fr[i].path]
        /\ fs[fr[i].path][fr[i].pos - 1].op = "require"
        /\ fr[i + 1].path = FileOf(fr[i].path, fs[fr[i].path][fr[i].pos - 1].name)
    BY DEF Descends, Passed
  <2>3. fr[i].path \in DOMAIN fs /\ fr[i + 1].path \in DOMAIN fs
    BY <1>1, <2>1
  <2>4. QED
    BY <2>2, <2>3, Required
<1>4. ASSUME NEW i \in 1..Len(fr), NEW j \in 1..Len(fr), i < j, fr[i].path = fr[j].path
      PROVE  FALSE
  <2> DEFINE C == {fr[k].path : k \in i..(j - 1)}
  <2>1. C \in SUBSET DOMAIN fs /\ C # {}
    BY <1>1, <1>2, <1>4
  <2>2. \A f \in C : Requires(f) \cap C # {}
    <3>1. SUFFICES ASSUME NEW k \in i..(j - 1) PROVE Requires(fr[k].path) \cap C # {}
      OBVIOUS
    <3>2. k \in 1..(Len(fr) - 1) /\ (k + 1 \in i..(j - 1) \/ k + 1 = j) /\ i \in i..(j - 1)
      BY <1>2, <1>4
    <3>3. fr[k + 1].path \in C
      BY <1>4, <3>2
    <3>4. QED
      BY <1>3, <3>2, <3>3
  <2>3. QED
    BY <2>1, <2>2 DEF Circular
<1>5. QED
  BY <1>2, <1>4

(* A relative name means the directory of the file that it is written in.  *)
LEMMA WhereNamesLead ==
  ASSUME LoadInv, stage = "run", Innermost.by # "try", NEW rel
  PROVE  resolve_load_path(rel) = FileOf(Innermost.path, rel)
<1>1. /\ Matched(frames, open) /\ Homes(dirs, open) /\ frames # <<>> /\ frames \in Seq(FrameType)
      /\ open \in Seq(DOMAIN fs) /\ dirs \in Seq({dir_of(f) : f \in DOMAIN fs})
  BY DEF LoadInv
<1> DEFINE n == Len(frames)
<1>2. n \in Nat \ {0} /\ Innermost = frames[n] /\ n \in 1..n
  BY <1>1, FrontType DEF Innermost
<1>3. Reads(frames, n) = Len(open) /\ Reads(frames, n) >= 1 /\ open[Len(open)] = frames[n].path
  BY <1>1, <1>2, ReadsMonotone DEF Matched
<1>4. Len(open) \in Nat /\ Len(dirs) = Len(open) /\ dirs[Len(open)] = dir_of(open[Len(open)])
  BY <1>1, <1>3 DEF Homes
<1>5. Last(dirs) = dir_of(Innermost.path)
  BY <1>2, <1>3, <1>4 DEF Last
<1>6. QED
  BY <1>5 DEF resolve_load_path, FileOf

(* The form at which the innermost frame stands.                           *)
LEMMA Standing ==
  ASSUME LoadInv, Working, ~AtEnd
  PROVE  /\ Innermost = frames[Len(frames)] /\ Len(frames) \in Nat \ {0} /\ Innermost \in FrameType
         /\ Innermost.path \in DOMAIN fs /\ Innermost.pos \in DOMAIN fs[Innermost.path]
         /\ Innermost.pos \in Nat \ {0}
<1>1. frames # <<>> /\ frames \in Seq(FrameType)
  BY DEF Working, LoadInv
<1>2. Innermost = frames[Len(frames)] /\ Len(frames) \in Nat \ {0} /\ Innermost \in FrameType
  BY <1>1, FrontType DEF Innermost
<1>3. Innermost.path \in DOMAIN fs /\ Innermost.pos \in Nat \ {0}
  BY <1>2 DEF FrameType
<1>4. DOMAIN fs[Innermost.path] = 1..Len(fs[Innermost.path]) /\ Len(fs[Innermost.path]) \in Nat
  BY <1>3, FileType
<1>5. Innermost.pos <= Len(fs[Innermost.path])
  BY <1>3, <1>4 DEF AtEnd
<1>6. QED
  BY <1>2, <1>3, <1>4, <1>5

LEMMA GoingOn ==
  ASSUME LoadInv, frames # <<>>, Descends(frames), NEW recorded,
         NEW places \in Seq((DOMAIN fs) \X Nat),
         Accounted(places, frames, recorded)
  PROVE  Descends(Stepped) /\ Accounted(places, Stepped, recorded)
<1> DEFINE n == Len(frames)
<1>1. /\ Len(Stepped) = n /\ n \in Nat \ {0}
      /\ \A i \in 1..n : /\ Stepped[i].by = frames[i].by /\ Stepped[i].path = frames[i].path
                         /\ Stepped[i].pos = frames[i].pos + (IF i = n THEN 1 ELSE 0)
  BY SteppedFacts
<1>2. \A i \in 1..n : frames[i].pos \in Nat
  <2>1. \A i \in 1..n : frames[i] \in FrameType
    BY DEF LoadInv
  <2>2. QED
    BY <2>1 DEF FrameType
<1> HIDE DEF n
<1>3. Descends(Stepped)
  <2>1. Stepped[1].by = "run" /\ \A i \in 2..n : Stepped[i].by = "require"
    <3>1. 1 \in 1..n /\ \A i \in 2..n : i \in 1..n
      BY <1>1
    <3>2. frames[1].by = "run" /\ \A i \in 2..n : frames[i].by = "require"
      BY DEF Descends, n
    <3>3. QED
      BY <1>1, <3>1, <3>2
  <2>2. \A i \in 1..(n - 1) :
          /\ Stepped[i].pos - 1 \in DOMAIN fs[Stepped[i].path] /\ Passed(Stepped[i]).op = "require"
          /\ Stepped[i + 1].path = FileOf(Stepped[i].path, Passed(Stepped[i]).name)
    <3>1. SUFFICES ASSUME NEW i \in 1..(n - 1)
                   PROVE  /\ Stepped[i].pos - 1 \in DOMAIN fs[Stepped[i].path]
                          /\ Passed(Stepped[i]).op = "require"
                          /\ Stepped[i + 1].path = FileOf(Stepped[i].path, Passed(Stepped[i]).name)
      OBVIOUS
    <3>2. i \in 1..n /\ i + 1 \in 1..n /\ i # n
      BY <1>1
    <3>3. /\ Stepped[i].path = frames[i].path /\ Stepped[i].pos = frames[i].pos
          /\ Stepped[i + 1].path = frames[i + 1].path
      BY <1>1, <1>2, <3>2
    <3>4. Passed(Stepped[i]) = Passed(frames[i])
      BY <3>3 DEF Passed
    <3>5. QED
      BY <3>1, <3>3, <3>4 DEF Descends, n
  <2>3. QED
    BY <1>1, <2>1, <2>2 DEF Descends
<1>4. Accounted(places, Stepped, recorded)
  <2>1. SUFFICES ASSUME NEW r \in 1..Len(places)
                 PROVE  \/ \E i \in 1..n : Stepped[i].path = places[r][1] /\ places[r][2] < Stepped[i].pos
                        \/ /\ \A i \in 1..n : Stepped[i].path # places[r][1]
                           /\ NamesOf(places[r][1]) \cap recorded # {}
    BY <1>1 DEF Accounted
  <2>2. CASE \E i \in 1..n : frames[i].path = places[r][1] /\ places[r][2] < frames[i].pos
    <3>1. PICK i \in 1..n : frames[i].path = places[r][1] /\ places[r][2] < frames[i].pos
      BY <2>2
    <3>2. Stepped[i].pos = frames[i].pos \/ Stepped[i].pos = frames[i].pos + 1
      BY <1>1, <1>2
    <3>3. places[r][2] < Stepped[i].pos
      <4>1. places[r] \in (DOMAIN fs) \X Nat
        OBVIOUS
      <4>2. places[r][2] \in Nat
        BY <4>1
      <4>3. QED
        BY <1>2, <3>1, <3>2, <4>2
    <3>4. QED
      BY <1>1, <3>1, <3>3
  <2>3. CASE /\ \A i \in 1..n : frames[i].path # places[r][1]
             /\ NamesOf(places[r][1]) \cap recorded # {}
    BY <1>1, <2>3
  <2>4. QED
    BY <2>2, <2>3 DEF Accounted, n
<1>5. QED
  BY <1>3, <1>4

LEMMA OnceGoesOn ==
  ASSUME LoadInv, OnceInv, stage = "run", frames # <<>>, frames' = Stepped,
         UNCHANGED <<fs, stage, raised, faulty, ran, required>>
  PROVE  OnceInv'
<1>1. /\ Plainly' = Plainly /\ Descends(frames)' = Descends(frames')
      /\ Accounted(ran, frames, required)' = Accounted(ran, frames', required)
  BY DEF Plainly, Circular, Requires, Names, NamesOf, FileOf, Descends, Passed, Accounted
<1>2. Plainly /\ ~faulty => Descends(frames') /\ Accounted(ran, frames', required)
  BY GoingOn DEF OnceInv
<1>3. QED
  BY <1>1, <1>2 DEF OnceInv, AllDifferent

(* An error leaves nothing to show.                                        *)
LEMMA OnceFails ==
  ASSUME OnceInv, stage = "run" \/ stage' = "done", stage' \in {"run", "done"}, faulty',
         UNCHANGED <<fs, ran>>
  PROVE  OnceInv'
  BY DEF OnceInv

(* A form is evaluated.                                                    *)
LEMMA OnceEvaluates == LoadInv /\ OnceInv /\ EvalPlain => OnceInv'
<1>1. SUFFICES ASSUME LoadInv, OnceInv, EvalPlain PROVE OnceInv'
  OBVIOUS
<1>2. /\ Working /\ ~AtEnd /\ stage = "run" /\ frames # <<>> /\ frames' = Stepped
      /\ ran' = Append(ran, Place)
      /\ UNCHANGED <<fs, stage, raised, faulty, required>>
  BY <1>1 DEF EvalPlain, Running, Continue, Working
<1> DEFINE n == Len(frames)
           f == Innermost.path
           p == Innermost.pos
<1>3. /\ Innermost = frames[n] /\ n \in Nat \ {0} /\ f \in DOMAIN fs /\ p \in Nat \ {0}
  BY <1>1, <1>2, Standing
<1>4. Place = <<f, p>> /\ f = frames[n].path /\ p = frames[n].pos
  BY <1>3 DEF Place
<1>5. ran \in Seq((DOMAIN fs) \X Nat) /\ Place \in (DOMAIN fs) \X Nat
  BY <1>1, <1>3, <1>4 DEF OnceInv
<1>6. /\ Plainly' = Plainly /\ Descends(frames)' = Descends(frames')
      /\ Accounted(ran, frames, required)' = Accounted(ran', frames', required)
  BY <1>2 DEF Plainly, Circular, Requires, Names, NamesOf, FileOf, Descends, Passed, Accounted
<1> HIDE DEF n, f, p
<1> DEFINE m == Len(ran)
<1>7. /\ m \in Nat /\ Len(ran') = m + 1 /\ ran'[m + 1] = <<f, p>> /\ \A r \in 1..m : ran'[r] = ran[r]
      /\ ran' \in Seq((DOMAIN fs) \X Nat)
  BY <1>2, <1>4, <1>5
<1> HIDE DEF m
<1>8. ASSUME Plainly, ~faulty
      PROVE  /\ AllDifferent(ran') /\ Descends(frames') /\ Accounted(ran', frames', required)
  <2>1. Descends(frames) /\ Accounted(ran, frames, required) /\ AllDifferent(ran)
    BY <1>1, <1>2, <1>8 DEF OnceInv
  <2>2. Descends(frames') /\ Accounted(ran, frames', required)
    BY <1>1, <1>2, <1>5, <2>1, GoingOn
  <2>3. \A r \in 1..m : ran[r] # <<f, p>>
    <3>1. SUFFICES ASSUME NEW r \in 1..m, ran[r] = <<f, p>> PROVE FALSE
      OBVIOUS
    <3>2. ran[r][1] = f /\ ran[r][2] = p
      BY <3>1
    <3>3. n \in 1..n /\ frames[n].path = f
      BY <1>3, <1>4
    <3>4. PICK i \in 1..n : frames[i].path = f /\ p < frames[i].pos
      BY <2>1, <3>1, <3>2, <3>3 DEF Accounted, m, n
    <3>5. i = n
      <4>1. frames \in Seq(FrameType) /\ ~Circular
        BY <1>1, <1>8 DEF LoadInv, Plainly
      <4>2. \A j, k \in 1..n : frames[j].path = frames[k].path => j = k
        BY <1>1, <2>1, <4>1, ChainIsDistinct DEF n
      <4>3. QED
        BY <3>3, <3>4, <4>2
    <3>6. QED
      BY <1>3, <1>4, <3>4, <3>5
  <2>4. AllDifferent(ran')
    <3>1. SUFFICES ASSUME NEW i \in 1..(m + 1), NEW j \in 1..(m + 1), ran'[i] = ran'[j]
                   PROVE  i = j
      BY <1>7 DEF AllDifferent
    <3>2. (i \in 1..m \/ i = m + 1) /\ (j \in 1..m \/ j = m + 1)
      BY <1>7
    <3>3. CASE i \in 1..m /\ j \in 1..m
      BY <1>7, <2>1, <3>1, <3>3 DEF AllDifferent, m
    <3>4. CASE i = m + 1 \/ j = m + 1
      BY <1>7, <2>3, <3>1, <3>2, <3>4
    <3>5. QED
      BY <3>2, <3>3, <3>4
  <2>5. Accounted(ran', frames', required)
    <3>1. SUFFICES ASSUME NEW r \in 1..(m + 1)
                   PROVE  \/ \E i \in 1..Len(frames') : frames'[i].path = ran'[r][1] /\ ran'[r][2] < frames'[i].pos
                          \/ /\ \A i \in 1..Len(frames') : frames'[i].path # ran'[r][1]
                             /\ NamesOf(ran'[r][1]) \cap required # {}
      BY <1>7 DEF Accounted
    <3>2. CASE r \in 1..m
      BY <1>7, <2>2, <3>2 DEF Accounted, m
    <3>3. CASE r = m + 1
      <4>1. ran'[r][1] = f /\ ran'[r][2] = p
        BY <1>7, <3>3
      <4>2. /\ n \in 1..Len(frames') /\ frames'[n].path = frames[n].path
            /\ frames'[n].pos = frames[n].pos + 1
        BY <1>1, <1>2, <1>3, SteppedFacts DEF n
      <4>3. QED
        BY <1>3, <1>4, <4>1, <4>2
    <3>4. QED
      BY <1>7, <3>2, <3>3
  <2>6. QED
    BY <2>2, <2>4, <2>5
<1>9. QED
  BY <1>1, <1>2, <1>6, <1>7, <1>8 DEF OnceInv, AllDifferent

(* A file is entered whose name is not recorded: no form of it has run.    *)
LEMMA OnceEnters ==
  ASSUME LoadInv, OnceInv, Running("require"), ~Loaded(Form.name),
         eval_file_or_error(resolve_load_path(Form.name), "require"),
         UNCHANGED <<fs, stage, required, ran>>
  PROVE  OnceInv'
<1> DEFINE n == Len(frames)
           f == Innermost.path
           p == Innermost.pos
           g == resolve_load_path(Form.name)
           new == Frame(g, "require")
<1>1. /\ Working /\ ~AtEnd /\ stage = "run" /\ frames # <<>> /\ Innermost.by # "try"
      /\ Form.op = "require" /\ ~raised
  BY DEF Running, Working
<1>2. CASE g \notin DOMAIN fs \/ GuardsFull
  BY <1>1, <1>2, OnceFails DEF eval_file_or_error, Throw
<1>3. CASE ~(g \notin DOMAIN fs \/ GuardsFull)
  <2>1. /\ g \in DOMAIN fs /\ frames' = Append(Stepped, new) /\ UNCHANGED <<raised, faulty>>
    BY <1>3 DEF eval_file_or_error, Enter
  <2>2. /\ Innermost = frames[n] /\ n \in Nat \ {0} /\ f \in DOMAIN fs /\ p \in Nat \ {0}
        /\ p \in DOMAIN fs[f]
    BY <1>1, Standing
  <2>3. Form = fs[f][p] /\ g = FileOf(f, Form.name)
    BY <1>1, WhereNamesLead DEF Form
  <2>4. new.path = g /\ new.by = "require" /\ new.pos = 1 /\ new \in FrameType
    BY <2>1 DEF Frame, FrameType
  <2>5. /\ Stepped \in Seq(FrameType) /\ Len(Stepped) = n
        /\ \A i \in 1..n : /\ Stepped[i].by = frames[i].by /\ Stepped[i].path = frames[i].path
                           /\ Stepped[i].pos = frames[i].pos + (IF i = n THEN 1 ELSE 0)
    BY <1>1, SteppedFacts
  <2>6. f = frames[n].path /\ p = frames[n].pos
    BY <2>2
  <2> HIDE DEF n, f, p, g, new
  <2>7. /\ frames' \in Seq(FrameType) /\ Len(frames') = n + 1 /\ frames'[n + 1] = new
        /\ \A i \in 1..n : frames'[i] = Stepped[i]
    BY <2>1, <2>2, <2>4, <2>5
  <2>8. ASSUME Plainly, ~faulty
        PROVE  Descends(frames') /\ Accounted(ran, frames', required)
    <3>1. Descends(frames) /\ Accounted(ran, frames, required) /\ ran \in Seq((DOMAIN fs) \X Nat)
      BY <1>1, <2>8 DEF OnceInv
    <3>2. Descends(Stepped) /\ Accounted(ran, Stepped, required)
      BY <1>1, <3>1, GoingOn
    <3>3. Descends(frames')
      <4>1. frames'[1].by = "run" /\ \A i \in 2..(n + 1) : frames'[i].by = "require"
        <5>1. 1 \in 1..n /\ \A i \in 2..(n + 1) : i \in 2..n \/ i = n + 1
          BY <2>2
        <5>2. \A i \in 2..n : i \in 1..n
          BY <2>2
        <5>3. Stepped[1].by = "run" /\ \A i \in 2..n : Stepped[i].by = "require"
          BY <2>5, <3>2 DEF Descends
        <5>4. QED
          BY <2>4, <2>7, <5>1, <5>2, <5>3
      <4>2. ASSUME NEW i \in 1..n
            PROVE  /\ frames'[i].pos - 1 \in DOMAIN fs[frames'[i].path]
                   /\ Passed(frames'[i]).op = "require"
                   /\ frames'[i + 1].path = FileOf(frames'[i].path, Passed(frames'[i]).name)
        <5>1. CASE i \in 1..(n - 1)
          <6>1. i + 1 \in 1..n
            BY <2>2, <5>1
          <6>2. frames'[i] = Stepped[i] /\ frames'[i + 1] = Stepped[i + 1]
            BY <2>7, <6>1
          <6>3. QED
            BY <2>5, <3>2, <5>1, <6>2 DEF Descends
        <5>2. CASE i = n
          <6>1. frames'[n].path = f /\ frames'[n].pos = p + 1
            BY <2>2, <2>5, <2>6, <2>7
          <6>2. frames'[n].pos - 1 = p
            BY <2>2, <6>1
          <6>3. Passed(frames'[n]) = Form
            BY <2>3, <6>1, <6>2 DEF Passed
          <6>4. QED
            BY <1>1, <2>2, <2>3, <2>4, <2>7, <5>2, <6>1, <6>2, <6>3
        <5>3. QED
          BY <2>2, <5>1, <5>2
      <4>3. (n + 1) - 1 = n
        BY <2>2
      <4>4. QED
        BY <2>7, <4>1, <4>2, <4>3 DEF Descends
    <3>4. \A i \in 1..n : frames'[i].path # g
      <4>1. \A i, j \in 1..(n + 1) : frames'[i].path = frames'[j].path => i = j
        BY <2>7, <2>8, <3>3, ChainIsDistinct DEF Plainly
      <4>2. n + 1 \in 1..(n + 1) /\ \A i \in 1..n : i \in 1..(n + 1) /\ i # n + 1
        BY <2>2
      <4>3. QED
        BY <2>4, <2>7, <4>1, <4>2
    <3>5. NamesOf(g) \cap required = {}
      <4>1. Form.name \in NamesOf(g)
        BY <1>1, <2>2, <2>3, Required
      <4>2. \A k \in NamesOf(g) : k = Form.name
        BY <2>1, <2>8, <4>1 DEF Plainly
      <4>3. QED
        BY <4>2 DEF Loaded
    <3>6. ASSUME NEW r \in 1..Len(ran)
          PROVE  \/ \E i \in 1..(n + 1) : frames'[i].path = ran[r][1] /\ ran[r][2] < frames'[i].pos
                 \/ /\ \A i \in 1..(n + 1) : frames'[i].path # ran[r][1]
                    /\ NamesOf(ran[r][1]) \cap required # {}
      <4>1. CASE \E i \in 1..n : Stepped[i].path = ran[r][1] /\ ran[r][2] < Stepped[i].pos
        <5>1. PICK i \in 1..n : Stepped[i].path = ran[r][1] /\ ran[r][2] < Stepped[i].pos
          BY <4>1
        <5>2. i \in 1..(n + 1) /\ frames'[i] = Stepped[i]
          BY <2>2, <2>7
        <5>3. QED
          BY <5>1, <5>2
      <4>2. CASE /\ \A i \in 1..n : Stepped[i].path # ran[r][1]
                 /\ NamesOf(ran[r][1]) \cap required # {}
        <5>1. ran[r][1] # g
          BY <3>5, <4>2
        <5>2. \A i \in 1..(n + 1) : i \in 1..n \/ i = n + 1
          BY <2>2
        <5>3. QED
          BY <2>4, <2>7, <4>2, <5>1, <5>2
      <4>3. QED
        BY <2>5, <3>2, <4>1, <4>2 DEF Accounted
    <3>7. QED
      BY <2>7, <3>3, <3>6 DEF Accounted
  <2>9. /\ Plainly' = Plainly /\ Descends(frames)' = Descends(frames')
        /\ Accounted(ran, frames, required)' = Accounted(ran, frames', required)
    BY DEF Plainly, Circular, Requires, Names, NamesOf, FileOf, Descends, Passed, Accounted
  <2>10. QED
    BY <1>1, <2>1, <2>8, <2>9 DEF OnceInv, AllDifferent
<1>4. QED
  BY <1>2, <1>3

(* A file ends: its name is recorded when it leaves the stack.             *)
LEMMA OnceEnds == LoadInv /\ OnceInv /\ FileEnds => OnceInv'
<1>1. SUFFICES ASSUME LoadInv, OnceInv, FileEnds PROVE OnceInv'
  OBVIOUS
<1> DEFINE n == Len(frames)
<1>2. /\ stage = "run" /\ ~raised /\ frames # <<>> /\ frames' = Front(frames)
      /\ stage' = IF n = 1 THEN "done" ELSE stage
      /\ required' = IF Innermost.by = "require" THEN required \cup {RequiredKey} ELSE required
      /\ UNCHANGED <<fs, raised, faulty, ran>>
  BY <1>1 DEF FileEnds, Working, Leave
<1>3. /\ frames \in Seq(FrameType) /\ ran \in Seq((DOMAIN fs) \X Nat)
  BY <1>1 DEF LoadInv, OnceInv
<1>4. /\ frames' \in Seq(FrameType) /\ Len(frames') = n - 1 /\ n \in Nat \ {0}
      /\ \A i \in 1..(n - 1) : frames'[i] = frames[i]
      /\ Innermost = frames[n]
  BY <1>2, <1>3, FrontType DEF Innermost
<1> HIDE DEF n
<1>5. /\ Plainly' = Plainly /\ Descends(frames)' = Descends(frames')
      /\ Accounted(ran, frames, required)' = Accounted(ran, frames', required')
  BY <1>2 DEF Plainly, Circular, Requires, Names, NamesOf, FileOf, Descends, Passed, Accounted
<1>6. ASSUME Plainly, ~faulty, n # 1 PROVE Descends(frames') /\ Accounted(ran, frames', required')
  <2>1. Descends(frames) /\ Accounted(ran, frames, required)
    BY <1>1, <1>2, <1>6 DEF OnceInv
  <2>2. n - 1 \in Nat \ {0} /\ n \in 2..n /\ n - 1 \in 1..(n - 1) /\ (n - 1) + 1 = n
    BY <1>4, <1>6
  <2>3. Descends(frames')
    <3>1. 1 \in 1..(n - 1) /\ \A i \in 2..(n - 1) : i \in 2..n /\ i \in 1..(n - 1)
      BY <2>2
    <3>2. frames'[1].by = "run" /\ \A i \in 2..(n - 1) : frames'[i].by = "require"
      BY <1>4, <2>1, <3>1 DEF Descends, n
    <3>3. \A i \in 1..((n - 1) - 1) : i \in 1..(n - 1) /\ i + 1 \in 1..(n - 1)
      BY <2>2
    <3>4. \A i \in 1..((n - 1) - 1) : frames'[i] = frames[i] /\ frames'[i + 1] = frames[i + 1]
      BY <1>4, <3>3
    <3>5. \A i \in 1..(n - 1) :
            /\ frames[i].pos - 1 \in DOMAIN fs[frames[i].path] /\ Passed(frames[i]).op = "require"
            /\ frames[i + 1].path = FileOf(frames[i].path, Passed(frames[i]).name)
      BY <2>1 DEF Descends, n
    <3>6. \A i \in 1..((n - 1) - 1) :
            /\ frames'[i].pos - 1 \in DOMAIN fs[frames'[i].path] /\ Passed(frames'[i]).op = "require"
            /\ frames'[i + 1].path = FileOf(frames'[i].path, Passed(frames'[i]).name)
      BY <3>3, <3>4, <3>5
    <3>7. QED
      BY <1>4, <3>2, <3>6 DEF Descends
  <2>4. required' = required \cup {RequiredKey} /\ RequiredKey = Passed(frames[n - 1]).name
    BY <1>2, <1>4, <2>1, <2>2 DEF Descends, RequiredKey, Passed, n
  <2>5. RequiredKey \in NamesOf(frames[n].path)
    <3>1. /\ frames[n - 1].pos - 1 \in DOMAIN fs[frames[n - 1].path]
          /\ Passed(frames[n - 1]).op = "require"
          /\ frames[n].path = FileOf(frames[n - 1].path, Passed(frames[n - 1]).name)
      BY <2>1, <2>2 DEF Descends, n
    <3>2. frames[n - 1].path \in DOMAIN fs
      <4>1. frames[n - 1] \in FrameType
        BY <1>3, <1>4, <2>2 DEF n
      <4>2. QED
        BY <4>1 DEF FrameType
    <3>3. QED
      BY <1>1, <2>4, <3>1, <3>2, Required DEF Passed
  <2>6. \A i \in 1..(n - 1) : frames[i].path # frames[n].path
    <3>1. \A i, j \in 1..n : frames[i].path = frames[j].path => i = j
      BY <1>1, <1>3, <1>6, <2>1, ChainIsDistinct DEF Plainly, n
    <3>2. n \in 1..n /\ \A i \in 1..(n - 1) : i \in 1..n /\ i # n
      BY <1>4
    <3>3. QED
      BY <3>1, <3>2
  <2>7. ASSUME NEW r \in 1..Len(ran)
        PROVE  \/ \E i \in 1..(n - 1) : frames'[i].path = ran[r][1] /\ ran[r][2] < frames'[i].pos
               \/ /\ \A i \in 1..(n - 1) : frames'[i].path # ran[r][1]
                  /\ NamesOf(ran[r][1]) \cap required' # {}
    <3>1. CASE \E i \in 1..(n - 1) : frames[i].path = ran[r][1] /\ ran[r][2] < frames[i].pos
      BY <1>4, <3>1
    <3>2. CASE frames[n].path = ran[r][1]
      BY <1>4, <2>4, <2>5, <2>6, <3>2
    <3>3. CASE /\ \A i \in 1..n : frames[i].path # ran[r][1]
               /\ NamesOf(ran[r][1]) \cap required # {}
      <4>1. \A i \in 1..(n - 1) : i \in 1..n
        BY <1>4
      <4>2. QED
        BY <1>4, <2>4, <3>3, <4>1
    <3>4. \A i \in 1..n : i \in 1..(n - 1) \/ i = n
      BY <1>4
    <3>5. QED
      BY <2>1, <3>1, <3>2, <3>3, <3>4 DEF Accounted, n
  <2>8. QED
    BY <1>4, <2>3, <2>7 DEF Accounted
<1>7. QED
  BY <1>1, <1>2, <1>5, <1>6 DEF OnceInv, AllDifferent

(* A program that is not plain is not what the property is about.          *)
LEMMA OnceOther ==
  ASSUME OnceInv, ~Plainly, stage' \in {"run", "done"}, stage' = "run" /\ raised' => faulty',
         UNCHANGED <<fs, ran>>
  PROVE  OnceInv'
<1>1. fs' = fs
  OBVIOUS
<1>2. Plainly' = Plainly
  BY <1>1 DEF Plainly, Circular, Requires, Names, NamesOf, FileOf
<1>3. QED
  BY <1>2 DEF OnceInv

LEMMA OnceBuilds ==
  LoadInv /\ OnceInv /\ (BuildForm \/ BuildReturn \/ BuildJump \/ BuildDone) => OnceInv'
<1>1. SUFFICES ASSUME LoadInv, OnceInv, BuildForm \/ BuildReturn \/ BuildJump \/ BuildDone
               PROVE  OnceInv'
  OBVIOUS
<1>2. stage = "build" /\ ran' = <<>> /\ UNCHANGED fs
  BY <1>1 DEF OnceInv, BuildForm, BuildReturn, BuildJump, BuildDone
<1>3. ran' \in Seq((DOMAIN fs') \X Nat) /\ AllDifferent(ran')
  BY <1>2 DEF AllDifferent
<1>4. CASE stage' # "run"
  BY <1>2, <1>3, <1>4 DEF OnceInv, AllDifferent
<1>5. CASE stage' = "run"
  <2>1. frames' = <<Frame(Main, "run")>> /\ raised' = FALSE
    BY <1>1, <1>2, <1>5 DEF BuildForm, BuildReturn, BuildJump, BuildDone
  <2>2. Len(frames') = 1 /\ frames'[1].by = "run"
    BY <2>1 DEF Frame
  <2>3. Descends(frames)'
    BY <2>2 DEF Descends
  <2>4. Accounted(ran, frames, required)'
    BY <1>2 DEF Accounted
  <2>5. QED
    BY <1>2, <1>3, <2>1, <2>3, <2>4 DEF OnceInv, AllDifferent
<1>6. QED
  BY <1>4, <1>5

LEMMA OnceRuns ==
  LoadInv /\ OnceInv /\ (h_load \/ h_try \/ TryLoads \/ h_provide \/ h_require \/ BadForm
                           \/ Unwind) => OnceInv'
<1> SUFFICES ASSUME LoadInv, OnceInv,
                    h_load \/ h_try \/ TryLoads \/ h_provide \/ h_require \/ BadForm \/ Unwind
             PROVE  OnceInv'
  OBVIOUS
<1>1. CASE h_load \/ h_try
  <2>1. /\ stage = "run" /\ stage' = "run" /\ Working /\ ~AtEnd /\ Form.op \in {"load", "try"}
        /\ UNCHANGED <<fs, ran>> /\ ~raised
    BY <1>1 DEF h_load, h_try, Running, Working
  <2>2. ~Plainly
    <3>1. Innermost.path \in DOMAIN fs /\ Innermost.pos \in DOMAIN fs[Innermost.path]
      BY <2>1, Standing
    <3>2. Form.name \in Names(Innermost.path, {"load", "try"})
      BY <2>1, <3>1 DEF Names, Form
    <3>3. QED
      BY <3>1, <3>2 DEF Plainly
  <2>3. raised' => faulty'
    BY <1>1, <2>1 DEF h_load, h_try, eval_file_or_error, Throw
  <2>4. QED
    BY <2>1, <2>2, <2>3, OnceOther
<1>2. CASE TryLoads
  <2>1. /\ stage = "run" /\ stage' = "run" /\ Working /\ Innermost.by = "try"
        /\ UNCHANGED <<fs, ran>> /\ ~raised
    BY <1>2 DEF TryLoads, Working
  <2>2. raised' => faulty'
    BY <1>2, <2>1 DEF TryLoads, eval_file_or_error, Throw
  <2>3. faulty' = faulty \/ faulty' = TRUE
    BY <1>2 DEF TryLoads, eval_file_or_error, Throw
  <2>4. CASE Plainly /\ ~faulty
    <3>1. Descends(frames)
      BY <2>1, <2>4 DEF OnceInv
    <3>2. frames # <<>> /\ frames \in Seq(FrameType)
      BY <2>1 DEF Working, LoadInv
    <3>3. Innermost = frames[Len(frames)] /\ Len(frames) \in Nat \ {0}
      BY <3>2, FrontType DEF Innermost
    <3>4. Len(frames) = 1 \/ Len(frames) \in 2..Len(frames)
      <4>1. \A n \in Nat \ {0} : n = 1 \/ n \in 2..n
        OBVIOUS
      <4>2. QED
        BY <3>3, <4>1
    <3>5. QED
      BY <2>1, <3>1, <3>3, <3>4 DEF Descends
  <2>5. CASE ~Plainly
    BY <2>1, <2>2, <2>5, OnceOther
  <2>6. CASE faulty
    BY <2>1, <2>3, <2>6, OnceFails
  <2>7. QED
    BY <2>4, <2>5, <2>6
<1>3. CASE h_provide
  <2>1. /\ stage = "run" /\ frames # <<>> /\ frames' = Stepped
        /\ UNCHANGED <<fs, stage, raised, faulty, ran, required>>
    BY <1>3 DEF h_provide, Running, Working, Continue
  <2>2. QED
    BY <2>1, OnceGoesOn
<1>4. CASE h_require
  <2>1. CASE Loaded(Form.name)
    <3>1. /\ stage = "run" /\ frames # <<>> /\ frames' = Stepped
          /\ UNCHANGED <<fs, stage, raised, faulty, ran, required>>
      BY <1>4, <2>1 DEF h_require, Running, Working, Continue
    <3>2. QED
      BY <3>1, OnceGoesOn
  <2>2. CASE ~Loaded(Form.name)
    BY <1>4, <2>2, OnceEnters DEF h_require
  <2>3. QED
    BY <2>1, <2>2
<1>5. CASE BadForm
  BY <1>5, OnceFails DEF BadForm, Running, Throw
<1>6. CASE Unwind
  <2>1. /\ stage = "run" /\ raised /\ UNCHANGED <<fs, ran, faulty>> /\ stage' \in {"run", "done"}
    BY <1>6 DEF Unwind
  <2>2. faulty'
    BY <2>1 DEF OnceInv
  <2>3. QED
    BY <2>1, <2>2, OnceFails
<1>7. QED
  BY <1>1, <1>2, <1>3, <1>4, <1>5, <1>6

LEMMA OnceInductive == LoadInv /\ OnceInv /\ [LoadNext]_loadVars => OnceInv'
<1>1. ASSUME OnceInv, UNCHANGED loadVars PROVE OnceInv'
  <2>1. UNCHANGED <<fs, stage, frames, raised, required, ran, faulty>>
    BY <1>1 DEF loadVars
  <2>2. /\ Plainly' = Plainly /\ Descends(frames)' = Descends(frames)
        /\ Accounted(ran, frames, required)' = Accounted(ran, frames, required)
    BY <2>1 DEF Plainly, Circular, Requires, Names, NamesOf, FileOf, Descends, Passed, Accounted
  <2>3. QED
    BY <1>1, <2>1, <2>2 DEF OnceInv, AllDifferent
<1>2. QED
  BY <1>1, OnceBuilds, OnceRuns, OnceEvaluates, OnceEnds DEF LoadNext

(* require evaluates no form of a file twice, for every program whose      *)
(* files require but never load each other, in no circle and each under    *)
(* one name, however many paths lead to a file and whatever is provided.   *)
THEOREM RequireIsOnce == LoadSpec => []RequiredOnce
<1>1. LoadInit => OnceInv
  BY DEF LoadInit, OnceInv, AllDifferent
<1>2. OnceInv => RequiredOnce
  BY DEF OnceInv, RequiredOnce, AllDifferent
<1>3. QED
  BY <1>1, <1>2, LoadStarts, LoadInductive, OnceInductive, PTL DEF LoadSpec

-----------------------------------------------------------------------------
(***************************************************************************)
(* What is built is what is run                                            *)
(*                                                                         *)
(* Building and running visit the same forms because each follows the one  *)
(* walk through the files that their contents lay down.  A place of the    *)
(* walk is the stack of the files that are being read, each with its       *)
(* position, and the plain forms met so far.                               *)
(***************************************************************************)
AimsAt(files, f, name) == IF dir_of(f) \o name \in DOMAIN files THEN dir_of(f) \o name ELSE name

Uppermost(w) == w.stack[Len(w.stack)]

ReadToEnd(files, w) == Uppermost(w)[2] > Len(files[Uppermost(w)[1]])

NextForm(files, w) == files[Uppermost(w)[1]][Uppermost(w)[2]]

LoadedFrom(files, w) == AimsAt(files, Uppermost(w)[1], NextForm(files, w).name)

Beyond(st) == [i \in 1..Len(st) |-> IF i = Len(st) THEN <<st[i][1], st[i][2] + 1>> ELSE st[i]]

(* A build can go on from here.                                            *)
CanGo(files, w) ==
  /\ w.stack # <<>>
  /\ ~ReadToEnd(files, w) =>
       /\ NextForm(files, w).op # "bad"
       /\ NextForm(files, w).op = "load" =>
            Len(w.stack) <= BuildDepthMax /\ LoadedFrom(files, w) \in DOMAIN files

Go(files, w) ==
  IF ReadToEnd(files, w) THEN [stack |-> Front(w.stack), met |-> w.met]
  ELSE IF NextForm(files, w).op = "load"
    THEN [stack |-> Append(Beyond(w.stack), <<LoadedFrom(files, w), 1>>), met |-> w.met]
    ELSE [stack |-> Beyond(w.stack), met |-> Append(w.met, Uppermost(w))]

(* The walk that starts at v comes by w: w is in every set that holds v    *)
(* and whatever follows what it holds.                                     *)
Walked(files, places) == \A w \in places : CanGo(files, w) => Go(files, w) \in places

LeadsTo(files, v, w) == \A places : v \in places /\ Walked(files, places) => w \in places

Beginning == [stack |-> << <<Main, 1>> >>, met |-> <<>>]

Ending == [stack |-> <<>>, met |-> out]

Bare(fr) == [i \in 1..Len(fr) |-> <<fr[i].path, fr[i].pos>>]

WalkAt(fr, places) == [stack |-> Bare(fr), met |-> places]

Simple == \A f \in DOMAIN fs : Names(f, {"require", "provide", "try"}) = {}

BundleInv ==
  /\ stage = "build" =>
       /\ ran = <<>> /\ ~faulty /\ built = "no"
       /\ ~raised => Main \in DOMAIN fs /\ LeadsTo(fs, Beginning, WalkAt(frames, out))
  /\ stage # "build" /\ built = "ok" /\ Simple =>
       /\ ~faulty /\ ~raised
       /\ \A i \in 1..Len(frames) : frames[i].by \notin {"try", "require"}
       /\ LeadsTo(fs, WalkAt(frames, ran), Ending)
-----------------------------------------------------------------------------
LEMMA LeadsSelf == ASSUME NEW files, NEW v PROVE LeadsTo(files, v, v)
  BY DEF LeadsTo

LEMMA LeadsOn ==
  ASSUME NEW files, NEW v, NEW w, LeadsTo(files, v, w), CanGo(files, w)
  PROVE  LeadsTo(files, v, Go(files, w))
  BY DEF LeadsTo, Walked

LEMMA LeadsFrom ==
  ASSUME NEW files, NEW v, NEW w, LeadsTo(files, v, w), v # w
  PROVE  CanGo(files, v) /\ LeadsTo(files, Go(files, v), w)
<1>1. CanGo(files, v)
  <2>1. SUFFICES ASSUME ~CanGo(files, v) PROVE FALSE
    OBVIOUS
  <2>2. v \in {v} /\ Walked(files, {v})
    BY <2>1 DEF Walked
  <2>3. w \in {v}
    BY <2>2 DEF LeadsTo
  <2>4. QED
    BY <2>3
<1>2. ASSUME NEW places, Go(files, v) \in places, Walked(files, places) PROVE w \in places
  <2>1. Walked(files, places \cup {v})
    BY <1>2 DEF Walked
  <2>2. w \in places \cup {v}
    BY <2>1 DEF LeadsTo
  <2>3. QED
    BY <2>2
<1>3. QED
  BY <1>1, <1>2 DEF LeadsTo

LEMMA BareIs ==
  ASSUME NEW fr \in Seq(FrameType)
  PROVE  /\ Bare(fr) \in Seq((DOMAIN fs) \X Nat) /\ Len(Bare(fr)) = Len(fr)
         /\ \A i \in 1..Len(fr) : Bare(fr)[i] = <<fr[i].path, fr[i].pos>>
<1> DEFINE n == Len(fr)
<1>1. n \in Nat /\ \A i \in 1..n : fr[i] \in FrameType
  OBVIOUS
<1>2. \A i \in 1..n : <<fr[i].path, fr[i].pos>> \in (DOMAIN fs) \X Nat
  BY <1>1 DEF FrameType
<1> HIDE DEF n
<1>3. Bare(fr) = [i \in 1..n |-> <<fr[i].path, fr[i].pos>>]
  BY DEF Bare, n
<1>4. QED
  BY <1>1, <1>2, <1>3 DEF n

LEMMA BareStepped ==
  ASSUME LoadInv, frames # <<>>
  PROVE  Bare(Stepped) = Beyond(Bare(frames))
<1> DEFINE n == Len(frames)
<1>1. /\ Stepped \in Seq(FrameType) /\ Len(Stepped) = n /\ n \in Nat \ {0}
      /\ \A i \in 1..n : /\ Stepped[i].path = frames[i].path
                         /\ Stepped[i].pos = frames[i].pos + (IF i = n THEN 1 ELSE 0)
  BY SteppedFacts
<1>2. frames \in Seq(FrameType) /\ \A i \in 1..n : frames[i].pos \in Nat
  <2>1. frames \in Seq(FrameType)
    BY DEF LoadInv
  <2>2. \A i \in 1..n : frames[i] \in FrameType
    BY <2>1
  <2>3. QED
    BY <2>1, <2>2 DEF FrameType
<1>3. /\ Len(Bare(frames)) = n /\ \A i \in 1..n : Bare(frames)[i] = <<frames[i].path, frames[i].pos>>
  BY <1>2, BareIs
<1> HIDE DEF n
<1>4. Beyond(Bare(frames)) =
        [i \in 1..n |-> IF i = n THEN <<frames[i].path, frames[i].pos + 1>>
                                 ELSE <<frames[i].path, frames[i].pos>>]
  <2>1. Beyond(Bare(frames)) =
          [i \in 1..n |-> IF i = n THEN <<Bare(frames)[i][1], Bare(frames)[i][2] + 1>> ELSE Bare(frames)[i]]
    BY <1>3 DEF Beyond
  <2>2. \A i \in 1..n :
          (IF i = n THEN <<Bare(frames)[i][1], Bare(frames)[i][2] + 1>> ELSE Bare(frames)[i])
            = IF i = n THEN <<frames[i].path, frames[i].pos + 1>> ELSE <<frames[i].path, frames[i].pos>>
    BY <1>3
  <2>3. QED
    BY <2>1, <2>2
<1>5. Bare(Stepped) = [i \in 1..n |-> <<Stepped[i].path, Stepped[i].pos>>]
  BY <1>1 DEF Bare
<1>6. \A i \in 1..n : <<Stepped[i].path, Stepped[i].pos>>
                        = IF i = n THEN <<frames[i].path, frames[i].pos + 1>>
                                   ELSE <<frames[i].path, frames[i].pos>>
  BY <1>1, <1>2
<1>7. QED
  BY <1>4, <1>5, <1>6

LEMMA BareFront ==
  ASSUME NEW fr \in Seq(FrameType), fr # <<>>
  PROVE  Bare(Front(fr)) = Front(Bare(fr))
<1> DEFINE n == Len(fr)
           T == (DOMAIN fs) \X Nat
<1>1. /\ Front(fr) \in Seq(FrameType) /\ Len(Front(fr)) = n - 1 /\ n \in Nat \ {0}
      /\ \A i \in 1..(n - 1) : Front(fr)[i] = fr[i]
  BY FrontType
<1>2. /\ Bare(fr) \in Seq(T) /\ Len(Bare(fr)) = n
      /\ \A i \in 1..n : Bare(fr)[i] = <<fr[i].path, fr[i].pos>>
  BY BareIs
<1>3. Bare(fr) # <<>>
  BY <1>1, <1>2
<1>4. /\ Front(Bare(fr)) \in Seq(T) /\ Len(Front(Bare(fr))) = n - 1
      /\ \A i \in 1..(n - 1) : Front(Bare(fr))[i] = Bare(fr)[i]
  <2> HIDE DEF T
  <2> QED
    BY <1>2, <1>3, FrontType
<1>5. /\ Bare(Front(fr)) \in Seq(T) /\ Len(Bare(Front(fr))) = n - 1
      /\ \A i \in 1..(n - 1) : Bare(Front(fr))[i] = <<Front(fr)[i].path, Front(fr)[i].pos>>
  BY <1>1, BareIs
<1> HIDE DEF n, T
<1>6. \A i \in 1..(n - 1) : Bare(Front(fr))[i] = Front(Bare(fr))[i]
  <2>1. SUFFICES ASSUME NEW i \in 1..(n - 1) PROVE Bare(Front(fr))[i] = Front(Bare(fr))[i]
    OBVIOUS
  <2>2. i \in 1..n
    BY <1>1
  <2>3. Front(Bare(fr))[i] = <<fr[i].path, fr[i].pos>>
    BY <1>2, <1>4, <2>2
  <2>4. Bare(Front(fr))[i] = <<fr[i].path, fr[i].pos>>
    BY <1>1, <1>5
  <2>5. QED
    BY <2>3, <2>4
<1>7. QED
  BY <1>4, <1>5, <1>6, SeqEqual

LEMMA BareAppend ==
  ASSUME NEW fr \in Seq(FrameType), NEW f \in FrameType
  PROVE  Bare(Append(fr, f)) = Append(Bare(fr), <<f.path, f.pos>>)
<1> DEFINE n == Len(fr)
           T == (DOMAIN fs) \X Nat
           more == Append(fr, f)
           place == <<f.path, f.pos>>
<1>1. /\ more \in Seq(FrameType) /\ Len(more) = n + 1 /\ n \in Nat
      /\ more[n + 1] = f /\ \A i \in 1..n : more[i] = fr[i]
  OBVIOUS
<1>2. /\ Bare(fr) \in Seq(T) /\ Len(Bare(fr)) = n
      /\ \A i \in 1..n : Bare(fr)[i] = <<fr[i].path, fr[i].pos>>
  BY BareIs
<1>3. /\ Bare(more) \in Seq(T) /\ Len(Bare(more)) = n + 1
      /\ \A i \in 1..(n + 1) : Bare(more)[i] = <<more[i].path, more[i].pos>>
  <2> HIDE DEF more
  <2> QED
    BY <1>1, BareIs
<1>4. place \in T
  BY DEF FrameType
<1> HIDE DEF n, T, more
<1>5. /\ \A i \in 1..n : Bare(more)[i] = Bare(fr)[i]
      /\ Bare(more)[n + 1] = place
  <2>1. ASSUME NEW i \in 1..n PROVE Bare(more)[i] = Bare(fr)[i]
    <3>1. i \in 1..(n + 1) /\ more[i] = fr[i]
      BY <1>1
    <3>2. Bare(more)[i] = <<fr[i].path, fr[i].pos>>
      BY <1>3, <3>1
    <3>3. QED
      BY <1>2, <3>2
  <2>2. Bare(more)[n + 1] = place
    <3>1. n + 1 \in 1..(n + 1) /\ more[n + 1] = f
      BY <1>1
    <3>2. QED
      BY <1>3, <3>1
  <2>3. QED
    BY <2>1, <2>2
<1> HIDE DEF place
<1>6. /\ Append(Bare(fr), place) \in Seq(T) /\ Len(Append(Bare(fr), place)) = n + 1
      /\ Append(Bare(fr), place)[n + 1] = place
      /\ \A i \in 1..n : Append(Bare(fr), place)[i] = Bare(fr)[i]
  BY <1>2, <1>4
<1>7. \A i \in 1..(n + 1) : Bare(more)[i] = Append(Bare(fr), place)[i]
  <2>1. SUFFICES ASSUME NEW i \in 1..(n + 1) PROVE Bare(more)[i] = Append(Bare(fr), place)[i]
    OBVIOUS
  <2>2. i \in 1..n \/ i = n + 1
    BY <1>1
  <2>3. QED
    BY <1>5, <1>6, <2>2
<1>8. Bare(more) = Append(Bare(fr), place)
  BY <1>3, <1>6, <1>7, SeqEqual
<1>9. QED
  BY <1>8 DEF more, place
-----------------------------------------------------------------------------
(* Where the walk stands is where the innermost file does.                 *)
LEMMA WalkStands ==
  ASSUME LoadInv, frames # <<>>, NEW places
  PROVE  LET w == WalkAt(frames, places)
         IN /\ w.stack # <<>> /\ Len(w.stack) = Len(frames) /\ w.met = places
            /\ Uppermost(w) = Place /\ (ReadToEnd(fs, w) <=> AtEnd)
            /\ NextForm(fs, w) = Form
            /\ LoadedFrom(fs, w) = FileOf(Innermost.path, Form.name)
<1> DEFINE w == WalkAt(frames, places)
           n == Len(frames)
<1>1. frames \in Seq(FrameType) /\ n \in Nat \ {0} /\ Innermost = frames[n] /\ Innermost \in FrameType
  <2>1. frames \in Seq(FrameType)
    BY DEF LoadInv
  <2>2. QED
    BY <2>1, FrontType DEF Innermost
<1>2. w.stack = Bare(frames) /\ w.met = places
  BY DEF WalkAt
<1>3. Len(w.stack) = n /\ w.stack[n] = <<frames[n].path, frames[n].pos>>
  <2>1. n \in 1..n
    BY <1>1
  <2>2. QED
    BY <1>1, <1>2, <2>1, BareIs
<1>4. w.stack # <<>>
  BY <1>1, <1>3
<1> HIDE DEF w, n
<1>5. Uppermost(w) = <<Innermost.path, Innermost.pos>>
  BY <1>1, <1>3 DEF Uppermost
<1>6. Uppermost(w)[1] = Innermost.path /\ Uppermost(w)[2] = Innermost.pos
  BY <1>5
<1>7. (ReadToEnd(fs, w) <=> AtEnd) /\ NextForm(fs, w) = Form
  BY <1>6 DEF ReadToEnd, AtEnd, NextForm, Form
<1>8. LoadedFrom(fs, w) = FileOf(Innermost.path, Form.name)
  BY <1>6, <1>7 DEF LoadedFrom, AimsAt, FileOf
<1>9. QED
  BY <1>2, <1>3, <1>4, <1>5, <1>7, <1>8 DEF w, n, Place

(* The three steps of the walk, and of the frames.                         *)
LEMMA FileIsLeft ==
  ASSUME LoadInv, frames # <<>>, AtEnd, NEW places
  PROVE  /\ CanGo(fs, WalkAt(frames, places))
         /\ Go(fs, WalkAt(frames, places)) = WalkAt(Front(frames), places)
<1> DEFINE w == WalkAt(frames, places)
<1>1. w.stack # <<>> /\ w.met = places /\ ReadToEnd(fs, w)
  BY WalkStands
<1>2. frames \in Seq(FrameType) /\ w.stack = Bare(frames)
  BY DEF LoadInv, WalkAt
<1>3. Go(fs, w) = [stack |-> Front(w.stack), met |-> w.met]
  BY <1>1 DEF Go
<1>4. Front(w.stack) = Bare(Front(frames))
  BY <1>2, BareFront
<1>5. Go(fs, w) = WalkAt(Front(frames), places)
  BY <1>1, <1>3, <1>4 DEF WalkAt
<1>6. CanGo(fs, w)
  BY <1>1 DEF CanGo
<1>7. QED
  BY <1>5, <1>6

LEMMA FileIsEntered ==
  ASSUME LoadInv, Working, ~AtEnd, Form.op = "load", NEW places, NEW by,
         by \in {"build", "load"}, FileOf(Innermost.path, Form.name) \in DOMAIN fs
  PROVE  /\ CanGo(fs, WalkAt(frames, places)) <=> Len(frames) <= BuildDepthMax
         /\ Go(fs, WalkAt(frames, places)) =
              WalkAt(Append(Stepped, Frame(FileOf(Innermost.path, Form.name), by)), places)
<1> DEFINE w == WalkAt(frames, places)
           to == FileOf(Innermost.path, Form.name)
           more == Append(Stepped, Frame(to, by))
<1>1. frames # <<>>
  BY DEF Working
<1>2. /\ w.stack # <<>> /\ Len(w.stack) = Len(frames) /\ w.met = places /\ ~ReadToEnd(fs, w)
      /\ NextForm(fs, w).op = "load" /\ LoadedFrom(fs, w) = to
  BY <1>1, WalkStands
<1>3. CanGo(fs, w) <=> Len(frames) <= BuildDepthMax
  <2> HIDE DEF w, to
  <2>1. to \in DOMAIN fs
    BY DEF to
  <2>2. QED
    BY <1>2, <2>1 DEF CanGo
<1>4. Go(fs, w) = [stack |-> Append(Beyond(w.stack), <<to, 1>>), met |-> places]
  <2> HIDE DEF w, to
  <2> QED
    BY <1>2 DEF Go
<1>5. w.stack = Bare(frames) /\ Beyond(Bare(frames)) = Bare(Stepped)
  BY <1>1, BareStepped DEF WalkAt
<1>6. Frame(to, by) \in FrameType /\ Frame(to, by).path = to /\ Frame(to, by).pos = 1
  BY DEF Frame, FrameType
<1>7. Stepped \in Seq(FrameType)
  BY <1>1, SteppedFacts
<1>8. Bare(more) = Append(Bare(Stepped), <<to, 1>>)
  <2> DEFINE f == Frame(to, by)
  <2>1. f \in FrameType /\ f.path = to /\ f.pos = 1
    BY <1>6
  <2> HIDE DEF f, to
  <2>2. Bare(Append(Stepped, f)) = Append(Bare(Stepped), <<f.path, f.pos>>)
    BY <1>7, <2>1, BareAppend
  <2>3. QED
    BY <2>1, <2>2 DEF f
<1>9. Go(fs, w) = WalkAt(more, places)
  <2> HIDE DEF w, more
  <2> QED
    BY <1>4, <1>5, <1>8 DEF WalkAt
<1>10. QED
  BY <1>3, <1>9

LEMMA FormIsMet ==
  ASSUME LoadInv, Working, ~AtEnd, Form.op \notin {"load", "bad"}, NEW places
  PROVE  /\ CanGo(fs, WalkAt(frames, places))
         /\ Go(fs, WalkAt(frames, places)) = WalkAt(Stepped, Append(places, Place))
<1> DEFINE w == WalkAt(frames, places)
<1>1. frames # <<>>
  BY DEF Working
<1>2. /\ w.stack # <<>> /\ w.met = places /\ ~ReadToEnd(fs, w)
      /\ NextForm(fs, w).op \notin {"load", "bad"} /\ Uppermost(w) = Place
  BY <1>1, WalkStands
<1>3. w.stack = Bare(frames) /\ Beyond(Bare(frames)) = Bare(Stepped)
  BY <1>1, BareStepped DEF WalkAt
<1> HIDE DEF w
<1>4. CanGo(fs, w)
  BY <1>2 DEF CanGo
<1>5. Go(fs, w) = [stack |-> Bare(Stepped), met |-> Append(places, Place)]
  BY <1>2, <1>3 DEF Go
<1>6. QED
  BY <1>4, <1>5 DEF WalkAt, w

(* A run follows the walk of the build to its end: from any place that     *)
(* leads there it can go on, and so it does.                               *)
LEMMA RunGoesOn ==
  ASSUME LoadInv, frames # <<>>, LeadsTo(fs, WalkAt(frames, ran), Ending)
  PROVE  /\ CanGo(fs, WalkAt(frames, ran))
         /\ LeadsTo(fs, Go(fs, WalkAt(frames, ran)), Ending)
<1>1. WalkAt(frames, ran).stack # <<>>
  BY WalkStands
<1>2. WalkAt(frames, ran) # Ending
  BY <1>1 DEF Ending
<1> HIDE DEF WalkAt
<1>3. QED
  BY <1>2, LeadsFrom

(* A file with none of the forms that a build does not follow.             *)
LEMMA SimpleForms ==
  ASSUME LoadInv, Working, ~AtEnd, Simple
  PROVE  Form.op \notin {"require", "provide", "try"}
<1>1. Innermost.path \in DOMAIN fs /\ Innermost.pos \in DOMAIN fs[Innermost.path]
  BY Standing
<1>2. Names(Innermost.path, {"require", "provide", "try"}) = {}
  BY <1>1 DEF Simple
<1>3. QED
  BY <1>1, <1>2 DEF Names, Form
-----------------------------------------------------------------------------
LEMMA BundleStarts == LoadInit => BundleInv
<1>1. SUFFICES ASSUME LoadInit PROVE BundleInv
  OBVIOUS
<1>2. stage = "build" /\ ran = <<>> /\ ~faulty /\ built = "no" /\ out = <<>>
  BY <1>1 DEF LoadInit
<1>3. ASSUME ~raised PROVE Main \in DOMAIN fs /\ LeadsTo(fs, Beginning, WalkAt(frames, out))
  <2>1. Main \in DOMAIN fs /\ frames = <<Frame(Main, "build")>>
    BY <1>1, <1>3 DEF LoadInit
  <2>2. Bare(frames) = << <<Main, 1>> >>
    BY <2>1 DEF Bare, Frame
  <2>3. WalkAt(frames, out) = Beginning
    BY <1>2, <2>2 DEF WalkAt, Beginning
  <2>4. QED
    BY <2>1, <2>3, LeadsSelf
<1>4. QED
  BY <1>2, <1>3 DEF BundleInv

LEMMA BundleBuilds ==
  LoadInv /\ BundleInv /\ (BuildForm \/ BuildReturn \/ BuildJump) => BundleInv'
<1> SUFFICES ASSUME LoadInv, BundleInv, BuildForm \/ BuildReturn \/ BuildJump PROVE BundleInv'
  OBVIOUS
<1>1. /\ stage = "build" /\ stage' = "build" /\ UNCHANGED <<fs, ran, faulty, built>>
      /\ ran = <<>> /\ ~faulty /\ built = "no"
  BY DEF BuildForm, BuildReturn, BuildJump, BundleInv
<1> DEFINE w == WalkAt(frames, out)
           goal == WalkAt(frames', out')
<1>2. ASSUME ~raised' PROVE Main \in DOMAIN fs /\ LeadsTo(fs, Beginning, goal)
  <2>1. CASE BuildForm
    <3>1. Working /\ ~AtEnd /\ frames # <<>>
      BY <2>1 DEF BuildForm, Working
    <3>2. Main \in DOMAIN fs /\ LeadsTo(fs, Beginning, w)
      BY <1>1, <3>1 DEF BundleInv, Working
    <3>3. CanGo(fs, w) /\ goal = Go(fs, w)
      <4>1. CASE Form.op = "load"
        <5> DEFINE to == FileOf(Innermost.path, Form.name)
        <5>1. BuildPath(dir_of(Innermost.path), Form.name) = to
          BY DEF BuildPath, FileOf
        <5>2. Bundle(to) /\ out' = out
          BY <2>1, <4>1, <5>1 DEF BuildForm
        <5>3. to \in DOMAIN fs /\ ~(Len(frames) > BuildDepthMax) /\ Enter(to, "build")
          BY <1>2, <5>2 DEF Bundle
        <5>4. Len(frames) <= BuildDepthMax
          BY <3>1, <5>3, SteppedFacts, LoadingAssumption
        <5>5. frames' = Append(Stepped, Frame(to, "build"))
          BY <5>3 DEF Enter
        <5>6. /\ CanGo(fs, w) <=> Len(frames) <= BuildDepthMax
              /\ Go(fs, w) = WalkAt(Append(Stepped, Frame(to, "build")), out)
          BY <3>1, <4>1, <5>3, FileIsEntered
        <5>7. QED
          BY <5>2, <5>4, <5>5, <5>6
      <4>2. CASE Form.op # "load"
        <5>1. Form.op \notin {"load", "bad"} /\ frames' = Stepped /\ out' = Append(out, Place)
          BY <2>1, <4>2 DEF BuildForm
        <5>2. QED
          BY <3>1, <5>1, FormIsMet
      <4>3. QED
        BY <4>1, <4>2
    <3> HIDE DEF w, goal
    <3>4. QED
      BY <3>2, <3>3, LeadsOn
  <2>2. CASE BuildReturn
    <3>1. ~raised /\ AtEnd /\ frames # <<>> /\ frames' = Front(frames) /\ out' = out
      BY <1>2, <2>2 DEF BuildReturn
    <3>2. Main \in DOMAIN fs /\ LeadsTo(fs, Beginning, w)
      BY <1>1, <3>1 DEF BundleInv
    <3>3. CanGo(fs, w) /\ Go(fs, w) = goal
      BY <3>1, FileIsLeft
    <3> HIDE DEF w, goal
    <3>4. QED
      BY <3>2, <3>3, LeadsOn
  <2>3. CASE BuildJump
    BY <1>2, <2>3 DEF BuildJump
  <2>4. QED
    BY <2>1, <2>2, <2>3
<1>3. QED
  BY <1>1, <1>2 DEF BundleInv

(* The program is run from where the build began.                          *)
LEMMA BundleIsRun == LoadInv /\ BundleInv /\ BuildDone => BundleInv'
<1> SUFFICES ASSUME LoadInv, BundleInv, BuildDone PROVE BundleInv'
  OBVIOUS
<1>1. /\ stage = "build" /\ stage' # "build" /\ frames = <<>> /\ raised' = FALSE
      /\ UNCHANGED <<fs, out, ran>> /\ ran = <<>> /\ ~faulty
  BY DEF BuildDone, BundleInv
<1>2. ASSUME built' = "ok"
      PROVE  /\ ~faulty' /\ ~raised'
             /\ \A i \in 1..Len(frames') : frames'[i].by \notin {"try", "require"}
             /\ LeadsTo(fs', WalkAt(frames', ran'), Ending')
  <2>1. ~raised
    BY <1>2 DEF BuildDone
  <2>2. Main \in DOMAIN fs /\ LeadsTo(fs, Beginning, WalkAt(frames, out))
    BY <1>1, <2>1 DEF BundleInv
  <2>3. frames' = <<Frame(Main, "run")>> /\ faulty' = faulty
    BY <2>2 DEF BuildDone
  <2>4. Bare(frames') = << <<Main, 1>> >> /\ \A i \in 1..Len(frames') : frames'[i].by = "run"
    BY <2>3 DEF Bare, Frame
  <2>5. WalkAt(frames', ran') = Beginning
    BY <1>1, <2>4 DEF WalkAt, Beginning
  <2>6. WalkAt(frames, out) = Ending'
    BY <1>1 DEF WalkAt, Bare, Ending
  <2>7. QED
    BY <1>1, <2>2, <2>3, <2>4, <2>5, <2>6
<1>3. QED
  BY <1>1, <1>2 DEF BundleInv

LEMMA BundleRuns ==
  ASSUME LoadInv, BundleInv, stage # "build", Simple, built = "ok",
         EvalPlain \/ h_load \/ h_try \/ TryLoads \/ h_provide \/ h_require \/ BadForm
           \/ FileEnds \/ Unwind
  PROVE  /\ ~faulty' /\ ~raised'
         /\ \A i \in 1..Len(frames') : frames'[i].by \notin {"try", "require"}
         /\ LeadsTo(fs, WalkAt(frames', ran'), Ending) /\ UNCHANGED <<fs, out, built>>
<1> DEFINE w == WalkAt(frames, ran)
           goal == WalkAt(frames', ran')
           Follows == /\ ~faulty' /\ ~raised'
                      /\ \A i \in 1..Len(frames') : frames'[i].by \notin {"try", "require"}
                      /\ goal = Go(fs, w)
<1>1. /\ ~faulty /\ ~raised /\ stage = "run" /\ frames # <<>>
      /\ \A i \in 1..Len(frames) : frames[i].by \notin {"try", "require"}
      /\ LeadsTo(fs, w, Ending)
  <2>1. stage = "run"
    BY DEF EvalPlain, h_load, h_try, TryLoads, h_provide, h_require, BadForm, FileEnds, Unwind, Running
  <2>2. QED
    BY <2>1 DEF BundleInv, LoadInv
<1>2. /\ frames \in Seq(FrameType) /\ Len(frames) \in Nat \ {0} /\ Innermost = frames[Len(frames)]
      /\ Innermost.by \notin {"try", "require"}
  <2>1. frames \in Seq(FrameType)
    BY DEF LoadInv
  <2>2. Len(frames) \in Nat \ {0} /\ Innermost = frames[Len(frames)]
    BY <1>1, <2>1, FrontType DEF Innermost
  <2>3. Len(frames) \in 1..Len(frames)
    BY <2>2
  <2>4. QED
    BY <1>1, <2>1, <2>2, <2>3
<1>3. CanGo(fs, w) /\ LeadsTo(fs, Go(fs, w), Ending)
  BY <1>1, RunGoesOn
<1>4. UNCHANGED <<fs, out, built>>
  BY DEF EvalPlain, h_load, h_try, TryLoads, h_provide, h_require, BadForm, FileEnds, Unwind
<1>5. CASE EvalPlain
  <2>1. /\ Working /\ ~AtEnd /\ Form.op = "plain" /\ frames' = Stepped /\ ran' = Append(ran, Place)
        /\ UNCHANGED <<raised, faulty>>
    BY <1>5 DEF EvalPlain, Running, Continue
  <2>2. goal = Go(fs, w)
    BY <2>1, FormIsMet
  <2>3. \A i \in 1..Len(frames') : frames'[i].by \notin {"try", "require"}
    BY <1>1, <2>1, SteppedFacts
  <2>4. Follows
    BY <1>1, <2>1, <2>2, <2>3
  <2>5. QED
    BY <1>3, <1>4, <2>4
<1>6. CASE h_load
  <2> DEFINE to == FileOf(Innermost.path, Form.name)
  <2>1. /\ Working /\ ~AtEnd /\ Form.op = "load" /\ ran' = ran
        /\ eval_file_or_error(resolve_load_path(Form.name), "load")
    BY <1>6 DEF h_load, Running
  <2>2. resolve_load_path(Form.name) = to
    BY <1>1, <1>2, WhereNamesLead
  <2>3. to \in DOMAIN fs
    BY <1>1, <1>3, <2>1, WalkStands DEF CanGo
  <2>4. /\ CanGo(fs, w) <=> Len(frames) <= BuildDepthMax
        /\ Go(fs, w) = WalkAt(Append(Stepped, Frame(to, "load")), ran)
    BY <2>1, <2>3, FileIsEntered
  <2>5. ~GuardsFull
    <3>1. Len(frames) <= BuildDepthMax
      BY <1>3, <2>4
    <3>2. QED
      BY <1>2, <3>1, LoadingAssumption DEF GuardsFull
  <2>6. Enter(to, "load") /\ UNCHANGED <<raised, faulty>>
    BY <2>1, <2>2, <2>3, <2>5 DEF eval_file_or_error
  <2>7. frames' = Append(Stepped, Frame(to, "load"))
    BY <2>6 DEF Enter
  <2>8. goal = Go(fs, w)
    BY <2>1, <2>4, <2>7
  <2>9. \A i \in 1..Len(frames') : frames'[i].by \notin {"try", "require"}
    <3> DEFINE f == Frame(to, "load")
    <3>1. f.by = "load" /\ f \in FrameType
      BY <2>3 DEF Frame, FrameType
    <3> HIDE DEF f
    <3>2. /\ Stepped \in Seq(FrameType) /\ Len(Stepped) = Len(frames)
          /\ \A i \in 1..Len(frames) : Stepped[i].by = frames[i].by
      BY <1>1, SteppedFacts
    <3>3. /\ Len(frames') = Len(frames) + 1 /\ frames'[Len(frames) + 1] = f
          /\ \A i \in 1..Len(frames) : frames'[i] = Stepped[i]
      BY <2>7, <3>1, <3>2 DEF f
    <3>4. SUFFICES ASSUME NEW i \in 1..Len(frames') PROVE frames'[i].by \notin {"try", "require"}
      OBVIOUS
    <3>5. i \in 1..Len(frames) \/ i = Len(frames) + 1
      BY <1>2, <3>3
    <3>6. QED
      BY <1>1, <3>1, <3>2, <3>3, <3>5
  <2>10. Follows
    BY <1>1, <2>6, <2>8, <2>9
  <2>11. QED
    BY <1>3, <1>4, <2>10
<1>7. CASE h_try \/ h_provide \/ h_require
  <2>1. Working /\ ~AtEnd /\ Form.op \in {"require", "provide", "try"}
    BY <1>7 DEF h_try, h_provide, h_require, Running
  <2>2. QED
    BY <2>1, SimpleForms
<1>8. CASE TryLoads
  BY <1>2, <1>8 DEF TryLoads
<1>9. CASE BadForm
  <2>1. ~AtEnd /\ Form.op = "bad"
    BY <1>9 DEF BadForm, Running
  <2>2. QED
    BY <1>1, <1>3, <2>1, WalkStands DEF CanGo
<1>10. CASE FileEnds
  <2>1. AtEnd /\ frames' = Front(frames) /\ ran' = ran /\ UNCHANGED <<raised, faulty>>
    BY <1>2, <1>10 DEF FileEnds, Leave
  <2>2. goal = Go(fs, w)
    BY <1>1, <2>1, FileIsLeft
  <2>3. \A i \in 1..Len(frames') : frames'[i].by \notin {"try", "require"}
    <3>1. Len(frames') = Len(frames) - 1 /\ \A i \in 1..(Len(frames) - 1) : frames'[i] = frames[i]
      BY <1>1, <1>2, <2>1, FrontType
    <3>2. QED
      BY <1>1, <1>2, <3>1
  <2>4. Follows
    BY <1>1, <2>1, <2>2, <2>3
  <2>5. QED
    BY <1>3, <1>4, <2>4
<1>11. CASE Unwind
  BY <1>1, <1>11 DEF Unwind
<1>12. QED
  BY <1>5, <1>6, <1>7, <1>8, <1>9, <1>10, <1>11

LEMMA BundleInductive == LoadInv /\ BundleInv /\ [LoadNext]_loadVars => BundleInv'
<1> SUFFICES ASSUME LoadInv, BundleInv, [LoadNext]_loadVars PROVE BundleInv'
  OBVIOUS
<1>1. CASE UNCHANGED loadVars
  BY <1>1 DEF loadVars, BundleInv, Simple, Names, Ending
<1>2. CASE EvalPlain \/ h_load \/ h_try \/ TryLoads \/ h_provide \/ h_require \/ BadForm
             \/ FileEnds \/ Unwind
  <2>1. stage # "build" /\ stage' # "build" /\ UNCHANGED <<fs, out, built>>
    BY <1>2 DEF EvalPlain, h_load, h_try, TryLoads, h_provide, h_require, BadForm, FileEnds, Unwind, Running
  <2>2. Simple' = Simple /\ Ending' = Ending
    BY <2>1 DEF Simple, Names, Ending
  <2>3. built = "ok" /\ Simple =>
          /\ ~faulty' /\ ~raised'
          /\ \A i \in 1..Len(frames') : frames'[i].by \notin {"try", "require"}
          /\ LeadsTo(fs, WalkAt(frames', ran'), Ending)
    BY <1>2, <2>1, BundleRuns
  <2>4. QED
    BY <2>1, <2>2, <2>3 DEF BundleInv
<1>3. QED
  BY <1>1, <1>2, BundleBuilds, BundleIsRun DEF LoadNext

(* "run and build always bundle the same dependency graph": of every set   *)
(* of files without require, provide or try, what a successful build       *)
(* writes is what a run evaluates, in that order, and the run does not     *)
(* fail.                                                                   *)
THEOREM BuildFollowsRun == LoadSpec => []BundleIsTheProgram
<1>1. ASSUME LoadInv, BundleInv PROVE BundleIsTheProgram
  <2>1. SUFFICES ASSUME stage = "done", built = "ok", Simple PROVE ~faulty /\ ran = out
    BY DEF BundleIsTheProgram, Simple
  <2>2. ~faulty /\ LeadsTo(fs, WalkAt(frames, ran), Ending) /\ frames = <<>>
    BY <1>1, <2>1 DEF BundleInv, LoadInv
  <2>3. WalkAt(frames, ran) = [stack |-> <<>>, met |-> ran]
    BY <2>2 DEF WalkAt, Bare
  <2>4. ~CanGo(fs, WalkAt(frames, ran))
    BY <2>3 DEF CanGo
  <2>5. WalkAt(frames, ran) = Ending
    <3> HIDE DEF WalkAt
    <3> QED
      BY <2>2, <2>4, LeadsFrom
  <2>6. WalkAt(frames, ran).met = ran /\ Ending.met = out
    BY <2>3 DEF Ending
  <2>7. QED
    BY <2>2, <2>5, <2>6
<1>2. QED
  BY <1>1, LoadStarts, LoadInductive, BundleStarts, BundleInductive, PTL DEF LoadSpec

-----------------------------------------------------------------------------
(***************************************************************************)
(* The input loop of kec repl.                                             *)
(***************************************************************************)
ScanStates == [depth : Int, instr : BOOLEAN, escaped : BOOLEAN, comment : BOOLEAN]

LEMMA ScanStartType == ScanStart \in ScanStates
  BY DEF ScanStart, ScanStates

LEMMA ScanType ==
  ASSUME NEW st \in ScanStates, NEW c
  PROVE  Scan(st, c) \in ScanStates
<1>1. CASE st.comment
  BY <1>1 DEF Scan
<1>2. CASE ~st.comment /\ st.escaped
  BY <1>2 DEF Scan, ScanStates
<1>3. CASE ~st.comment /\ ~st.escaped /\ st.instr
  <2> DEFINE e == (c = "backslash")  q == (c # "quote")
  <2>1. Scan(st, c) = [st EXCEPT !.escaped = e, !.instr = q]
    BY <1>3 DEF Scan
  <2>2. e \in BOOLEAN /\ q \in BOOLEAN
    OBVIOUS
  <2> HIDE DEF e, q
  <2>3. QED
    BY <2>1, <2>2 DEF ScanStates
<1>4. CASE ~st.comment /\ ~st.escaped /\ ~st.instr
  <2> DEFINE k == (c = ";")  q == (c = "quote")
             d == CASE c = "(" -> 1 [] c = ")" -> -1 [] OTHER -> 0
  <2>1. Scan(st, c) = [st EXCEPT !.comment = k, !.instr = q, !.depth = st.depth + d]
    BY <1>4 DEF Scan
  <2>2. k \in BOOLEAN /\ q \in BOOLEAN /\ d \in Int
    OBVIOUS
  <2> HIDE DEF k, q, d
  <2>3. PICK e : e = st.depth + d /\ e \in Int
    BY <2>2 DEF ScanStates
  <2>4. [st EXCEPT !.comment = k, !.instr = q, !.depth = e] \in ScanStates
    BY <2>2, <2>3 DEF ScanStates
  <2>5. QED
    BY <2>1, <2>3, <2>4
<1>5. QED
  BY <1>1, <1>2, <1>3, <1>4

(* The depth n after the character c, m before it.                         *)
Moved(n, m, c) ==
  /\ c = "(" => n = m + 1
  /\ c = ")" => n = m - 1
  /\ c \notin {"(", ")"} => n = m

(* One character outside of strings and comments.                          *)
LEMMA ScanIs ==
  ASSUME NEW y \in ScanStates, ~y.comment, ~y.escaped, ~y.instr, NEW c
  PROVE  /\ Scan(y, c).comment = (c = ";") /\ Scan(y, c).instr = (c = "quote") /\ ~Scan(y, c).escaped
         /\ Moved(Scan(y, c).depth, y.depth, c)
<1> DEFINE k == (c = ";")  q == (c = "quote")
           e == CASE c = "(" -> 1 [] c = ")" -> -1 [] OTHER -> 0
<1>1. Scan(y, c) = [y EXCEPT !.comment = k, !.instr = q, !.depth = y.depth + e]
  BY DEF Scan
<1>2. y.depth \in Int /\ Moved(y.depth + e, y.depth, c)
  <2>1. y.depth \in Int
    BY DEF ScanStates
  <2>2. CASE c = "("
    <3>1. e = 1
      BY <2>2
    <3>2. QED
      BY <2>1, <2>2, <3>1 DEF Moved
  <2>3. CASE c = ")"
    <3>1. e = -1
      BY <2>3
    <3> HIDE DEF e
    <3>2. y.depth + e = y.depth - 1
      BY <2>1, <3>1
    <3>3. QED
      BY <2>1, <2>3, <3>2 DEF Moved
  <2>4. CASE c \notin {"(", ")"}
    <3>1. e = 0
      BY <2>4
    <3>2. QED
      BY <2>1, <2>4, <3>1 DEF Moved
  <2>5. QED
    BY <2>2, <2>3, <2>4, <2>1
<1> HIDE DEF k, q, e
<1>3. /\ Scan(y, c).comment = k /\ Scan(y, c).instr = q /\ Scan(y, c).depth = y.depth + e
      /\ Scan(y, c).escaped = y.escaped
  BY <1>1 DEF ScanStates
<1>4. QED
  BY <1>2, <1>3 DEF k, q

(* The reader's states.                                                    *)
ReadStates ==
  [in : {"nothing", "atom", "dot", "string", "escaped", "comment"}, depth : Nat,
   due : BOOLEAN, spoilt : BOOLEAN]

LEMMA AtRestType == AtRest \in ReadStates
  BY DEF AtRest, ReadStates

LEMMA MeetsIs ==
  ASSUME NEW st \in ReadStates, NEW c
  PROVE  /\ Meets(st, c) \in ReadStates
         /\ Meets(st, c).spoilt \/
              /\ Moved(Meets(st, c).depth, st.depth, c)
              /\ (Meets(st, c).in = "comment") <=> (c = ";")
              /\ (Meets(st, c).in = "string") <=> (c = "quote")
              /\ Meets(st, c).in # "escaped"
<1>0. st.depth \in Nat
  BY DEF ReadStates
<1>1. CASE c \in Blanks
  <2>1. Meets(st, c) = [st EXCEPT !.in = "nothing"] /\ c \notin {"(", ")", ";", "quote"}
    BY <1>1 DEF Meets, Blanks, EOL
  <2>2. /\ Meets(st, c) \in ReadStates /\ Meets(st, c).in = "nothing"
        /\ Meets(st, c).depth = st.depth
    BY <1>0, <2>1 DEF ReadStates
  <2>3. QED
    BY <1>0, <1>1, <2>1, <2>2 DEF Moved
<1>2. CASE c = ";"
  <2>1. Meets(st, c) = [st EXCEPT !.in = "comment"]
    BY <1>2 DEF Meets, Blanks, EOL
  <2>2. /\ Meets(st, c) \in ReadStates /\ Meets(st, c).in = "comment"
        /\ Meets(st, c).depth = st.depth
    BY <1>0, <2>1 DEF ReadStates
  <2>3. QED
    BY <1>0, <1>2, <2>1, <2>2 DEF Moved
<1>3. CASE c = "("
  <2>1. Meets(st, c) = [st EXCEPT !.in = "nothing", !.depth = st.depth + 1, !.due = FALSE]
    BY <1>3 DEF Meets, Blanks, EOL
  <2>2. PICK k \in Nat : k = st.depth + 1
    BY <1>0
  <2>3. /\ Meets(st, c) \in ReadStates /\ Meets(st, c).in = "nothing"
        /\ Meets(st, c).depth = k
    BY <2>1, <2>2 DEF ReadStates
  <2>4. QED
    BY <1>0, <1>3, <2>2, <2>3 DEF Moved
<1>4. CASE c = ")" /\ (st.depth = 0 \/ st.due)
  <2>1. Meets(st, c) = [st EXCEPT !.spoilt = TRUE]
    BY <1>4 DEF Meets, Blanks, EOL
  <2>2. QED
    BY <2>1 DEF ReadStates
<1>5. CASE c = ")" /\ ~(st.depth = 0 \/ st.due)
  <2>1. Meets(st, c) = [st EXCEPT !.in = "nothing", !.depth = st.depth - 1]
    BY <1>5 DEF Meets, Blanks, EOL
  <2>2. st.depth - 1 \in Nat
    BY <1>5 DEF ReadStates
  <2>3. /\ Meets(st, c) \in ReadStates /\ Meets(st, c).in = "nothing"
        /\ Meets(st, c).depth = st.depth - 1
    BY <1>0, <2>1, <2>2 DEF ReadStates
  <2>4. QED
    BY <1>0, <1>5, <2>1, <2>3 DEF Moved
<1>6. CASE c = "quote"
  <2>1. Meets(st, c) = [st EXCEPT !.in = "string", !.due = FALSE]
    BY <1>6 DEF Meets, Blanks, EOL
  <2>2. /\ Meets(st, c) \in ReadStates /\ Meets(st, c).in = "string"
        /\ Meets(st, c).depth = st.depth
    BY <1>0, <2>1 DEF ReadStates
  <2>3. QED
    BY <1>0, <1>6, <2>1, <2>2 DEF Moved
<1>7. CASE c \in {"tick", "backtick"}
  <2>1. Meets(st, c) = [st EXCEPT !.in = "nothing", !.due = TRUE]
    BY <1>7 DEF Meets, Blanks, EOL
  <2>2. /\ Meets(st, c) \in ReadStates /\ Meets(st, c).in = "nothing"
        /\ Meets(st, c).depth = st.depth
    BY <1>0, <2>1 DEF ReadStates
  <2>3. QED
    BY <1>0, <1>7, <2>1, <2>2 DEF Moved
<1>8. CASE c = "." /\ ~st.due /\ st.depth > 0
  <2>1. Meets(st, c) = [st EXCEPT !.in = "dot"]
    BY <1>8 DEF Meets, Blanks, EOL
  <2>2. /\ Meets(st, c) \in ReadStates /\ Meets(st, c).in = "dot"
        /\ Meets(st, c).depth = st.depth
    BY <1>0, <2>1 DEF ReadStates
  <2>3. QED
    BY <1>0, <1>8, <2>1, <2>2 DEF Moved
<1>9. CASE /\ c \notin Blanks /\ c \notin {";", "(", ")", "quote", "tick", "backtick"}
           /\ ~(c = "." /\ ~st.due /\ st.depth > 0)
  <2>1. Meets(st, c) = [st EXCEPT !.in = "atom", !.due = FALSE] /\ c \notin {"(", ")", ";", "quote"}
    BY <1>9 DEF Meets
  <2>2. /\ Meets(st, c) \in ReadStates /\ Meets(st, c).in = "atom"
        /\ Meets(st, c).depth = st.depth
    BY <1>0, <2>1 DEF ReadStates
  <2>3. QED
    BY <1>0, <1>9, <2>1, <2>2 DEF Moved
<1>10. QED
  BY <1>1, <1>2, <1>3, <1>4, <1>5, <1>6, <1>7, <1>8, <1>9

LEMMA InAtomIs ==
  ASSUME NEW st \in ReadStates, st.in \in {"atom", "dot"}, NEW c
  PROVE  /\ InAtom(st, c) \in ReadStates
         /\ InAtom(st, c).spoilt \/
              /\ Moved(InAtom(st, c).depth, st.depth, c)
              /\ (InAtom(st, c).in = "comment") <=> (c = ";")
              /\ (InAtom(st, c).in = "string") <=> (c = "quote")
              /\ InAtom(st, c).in # "escaped"
<1>1. CASE c = "quote"
  <2>1. InAtom(st, "quote") = [st EXCEPT !.spoilt = TRUE]
    BY DEF InAtom, Enders, Blanks, EOL
  <2>2. QED
    BY <1>1, <2>1 DEF ReadStates
<1>2. CASE c \in Enders
  <2> DEFINE b == (st.in = "dot")  after == [st EXCEPT !.due = b]
  <2>1. InAtom(st, c) = Meets(after, c)
    BY <1>2 DEF InAtom, Enders, Blanks, EOL
  <2>2. b \in BOOLEAN
    OBVIOUS
  <2> HIDE DEF b
  <2>3. after \in ReadStates /\ after.depth = st.depth
    BY <2>2 DEF ReadStates
  <2> HIDE DEF after
  <2>4. /\ Meets(after, c) \in ReadStates
        /\ Meets(after, c).spoilt \/
             /\ Moved(Meets(after, c).depth, after.depth, c)
             /\ (Meets(after, c).in = "comment") <=> (c = ";")
             /\ (Meets(after, c).in = "string") <=> (c = "quote")
             /\ Meets(after, c).in # "escaped"
    BY <2>3, MeetsIs
  <2>5. QED
    BY <2>1, <2>3, <2>4
<1>3. CASE c # "quote" /\ c \notin Enders
  <2>1. InAtom(st, c) = [st EXCEPT !.in = "atom"] /\ c \notin {"(", ")", ";", "quote"}
    BY <1>3 DEF InAtom, Enders
  <2>2. /\ InAtom(st, c) \in ReadStates /\ InAtom(st, c).in = "atom" /\ InAtom(st, c).depth = st.depth
        /\ st.depth \in Nat
    BY <2>1 DEF ReadStates
  <2>3. QED
    BY <1>3, <2>1, <2>2 DEF Moved
<1>4. QED
  BY <1>1, <1>2, <1>3

LEMMA InStringIs ==
  ASSUME NEW st \in ReadStates, st.in \in {"string", "escaped"}, NEW c
  PROVE  /\ InString(st, c) \in ReadStates /\ InString(st, c).depth = st.depth
         /\ InString(st, c).in = IF st.in = "escaped" THEN "string"
                                 ELSE IF c = "backslash" THEN "escaped"
                                 ELSE IF c = "quote" THEN "nothing" ELSE "string"
<1> DEFINE w == IF st.in = "escaped" THEN "string" ELSE IF c = "backslash" THEN "escaped"
                ELSE IF c = "quote" THEN "nothing" ELSE "string"
<1>1. w = IF st.in = "escaped" THEN "string" ELSE IF c = "backslash" THEN "escaped"
          ELSE IF c = "quote" THEN "nothing" ELSE "string"
  OBVIOUS
<1>2. InString(st, c) = [st EXCEPT !.in = w]
  BY DEF InString
<1> HIDE DEF w
<1>3. w \in {"string", "escaped", "nothing"}
  BY <1>1
<1>4. QED
  BY <1>1, <1>2, <1>3 DEF ReadStates

LEMMA InCommentIs ==
  ASSUME NEW st \in ReadStates, st.in = "comment", NEW c
  PROVE  /\ InComment(st, c) \in ReadStates /\ InComment(st, c).depth = st.depth
         /\ c # EOL => InComment(st, c).in = "comment"
<1> DEFINE w == IF c = EOL THEN "nothing" ELSE st.in  b == (c = "cr")
<1>1. InComment(st, c) = [st EXCEPT !.in = w, !.spoilt = b]
  BY DEF InComment
<1>2. w \in {"nothing", "comment"} /\ (c # EOL => w = "comment") /\ b \in BOOLEAN
  OBVIOUS
<1> HIDE DEF w, b
<1>3. QED
  BY <1>1, <1>2 DEF ReadStates

LEMMA ReadType ==
  ASSUME NEW st \in ReadStates, NEW c
  PROVE  ReadChar(st, c) \in ReadStates /\ (st.spoilt => ReadChar(st, c).spoilt)
<1>1. CASE st.spoilt
  BY <1>1 DEF ReadChar
<1>2. CASE ~st.spoilt /\ st.in = "comment"
  BY <1>2, InCommentIs DEF ReadChar
<1>3. CASE ~st.spoilt /\ st.in \in {"string", "escaped"}
  BY <1>3, InStringIs DEF ReadChar
<1>4. CASE ~st.spoilt /\ st.in \in {"atom", "dot"}
  BY <1>4, InAtomIs DEF ReadChar
<1>5. CASE ~st.spoilt /\ st.in = "nothing"
  BY <1>5, MeetsIs DEF ReadChar
<1>6. QED
  BY <1>1, <1>2, <1>3, <1>4, <1>5 DEF ReadStates

(* The states that paren_delta and that the reader go through, from st.    *)
Scanned(g, st, s)  == g[0] = st /\ \A i \in 1..Len(s) : g[i] = Scan(g[i - 1], s[i])
Followed(g, st, s) == g[0] = st /\ \A i \in 1..Len(s) : g[i] = ReadChar(g[i - 1], s[i])

LEMMA DeltaSteps ==
  ASSUME NEW s \in Seq(STRING)
  PROVE  \E g : /\ g \in [0..Len(s) -> ScanStates] /\ Scanned(g, ScanStart, s)
                /\ paren_delta(s) = g[Len(s)].depth
<1> DEFINE n == Len(s)
           step == [i \in 1..n |-> [x \in ScanStates |-> ScanChar(x, s[i])]]
           Body(f) == [t \in SUBSET DOMAIN s |->
                         IF t = {} THEN ScanStart ELSE ScanChar(f[t \ {Biggest(t)}], s[Biggest(t)])]
           it == CHOOSE f : f = Body(f)
<1>1. n \in Nat /\ DOMAIN s = 1..n /\ step \in [1..n -> [ScanStates -> ScanStates]]
  BY ScanType DEF ScanChar
<1>2. paren_delta(s) = it[DOMAIN s].depth
  BY DEF paren_delta, FoldLeft, MapThenFoldSet, Biggest, Max
<1>3. PICK f : f \in [SUBSET (1..n) -> ScanStates] /\ FoldsBy(f, n, ScanStart, step)
  <2> HIDE DEF n, step
  <2> QED
    BY <1>1, FoldExists, ScanStartType
<1>4. f = Body(f)
  <2>1. ASSUME NEW t \in SUBSET (1..n)
        PROVE  f[t] = IF t = {} THEN ScanStart ELSE ScanChar(f[t \ {Biggest(t)}], s[Biggest(t)])
    <3>1. CASE t = {}
      BY <1>3, <3>1, Zenon DEF FoldsBy
    <3>2. CASE t # {}
      <4>1. Biggest(t) \in 1..n /\ t \ {Biggest(t)} \in SUBSET (1..n)
        BY <1>1, <3>2, BiggestExists
      <4>2. f[t] = step[Biggest(t)][f[t \ {Biggest(t)}]]
        <5> HIDE DEF step
        <5> QED
          BY <1>3, <3>2, Zenon DEF FoldsBy
      <4>3. f[t \ {Biggest(t)}] \in ScanStates
        BY <1>3, <4>1
      <4>4. QED
        BY <3>2, <4>1, <4>2, <4>3
    <3>3. QED
      BY <3>1, <3>2
  <2>2. DOMAIN s = 1..n /\ f = [t \in SUBSET (1..n) |-> f[t]]
    BY <1>1, <1>3
  <2>3. QED
    BY <2>1, <2>2, Zenon
<1>5. it = Body(it)
  <2> HIDE DEF Body
  <2> QED
    BY <1>4, Zenon
<1>6. GoesBy(it, n, ScanStates, ScanStart, step)
  <2> HIDE DEF it
  <2>1. it[{}] = ScanStart
    BY <1>5
  <2>2. ASSUME NEW i \in 1..n, it[1..(i - 1)] \in ScanStates
        PROVE  it[1..i] = step[i][it[1..(i - 1)]]
    <3>1. it[1..i] = ScanChar(it[1..(i - 1)], s[i])
      <4>1. /\ (1..i) \ {i} = 1..(i - 1) /\ 1..i # {} /\ 1..i \in SUBSET DOMAIN s
            /\ Biggest(1..i) = i
        BY <1>1, Segments
      <4>2. \A t \in SUBSET DOMAIN s :
              it[t] = IF t = {} THEN ScanStart ELSE ScanChar(it[t \ {Biggest(t)}], s[Biggest(t)])
        BY <1>5, Zenon
      <4>3. it[1..i] = ScanChar(it[(1..i) \ {Biggest(1..i)}], s[Biggest(1..i)])
        BY <4>1, <4>2, Zenon
      <4>4. QED
        BY <4>1, <4>3, Zenon
    <3>2. QED
      BY <2>2, <3>1
  <2>3. QED
    BY <2>1, <2>2 DEF GoesBy
<1>7. PICK g : g \in [0..n -> ScanStates] /\ g[n] = it[1..n] /\ Computes(g, n, ScanStart, step)
  <2> HIDE DEF n, step, it
  <2> QED
    BY <1>1, <1>6, FoldSteps, ScanStartType
<1>8. Scanned(g, ScanStart, s)
  <2>1. ASSUME NEW i \in 1..n PROVE g[i] = Scan(g[i - 1], s[i])
    <3>1. g[i - 1] \in ScanStates
      <4>1. i - 1 \in 0..n
        BY <1>1
      <4>2. QED
        BY <1>7, <4>1
    <3>2. g[i] = step[i][g[i - 1]]
      <4> HIDE DEF step
      <4> QED
        BY <1>7, Zenon DEF Computes
    <3>3. QED
      BY <3>1, <3>2 DEF ScanChar
  <2>2. QED
    BY <1>7, <2>1 DEF Scanned, Computes
<1>9. paren_delta(s) = g[n].depth
  BY <1>1, <1>2, <1>7
<1>10. QED
  BY <1>7, <1>8, <1>9

LEMMA ParseSteps ==
  ASSUME NEW s \in Seq(STRING)
  PROVE  \E g : /\ g \in [0..Len(s) -> ReadStates] /\ Followed(g, AtRest, s)
                /\ FoldLeft(ReadChar, AtRest, s) = g[Len(s)]
<1> DEFINE n == Len(s)
           step == [i \in 1..n |-> [x \in ReadStates |-> ReadChar(x, s[i])]]
           Body(f) == [t \in SUBSET DOMAIN s |->
                         IF t = {} THEN AtRest ELSE ReadChar(f[t \ {Biggest(t)}], s[Biggest(t)])]
           it == CHOOSE f : f = Body(f)
<1>1. n \in Nat /\ DOMAIN s = 1..n /\ step \in [1..n -> [ReadStates -> ReadStates]]
  BY ReadType
<1>2. FoldLeft(ReadChar, AtRest, s) = it[DOMAIN s]
  BY DEF FoldLeft, MapThenFoldSet, Biggest, Max
<1>3. PICK f : f \in [SUBSET (1..n) -> ReadStates] /\ FoldsBy(f, n, AtRest, step)
  <2> HIDE DEF n, step
  <2> QED
    BY <1>1, FoldExists, AtRestType
<1>4. f = Body(f)
  <2>1. ASSUME NEW t \in SUBSET (1..n)
        PROVE  f[t] = IF t = {} THEN AtRest ELSE ReadChar(f[t \ {Biggest(t)}], s[Biggest(t)])
    <3>1. CASE t = {}
      BY <1>3, <3>1, Zenon DEF FoldsBy
    <3>2. CASE t # {}
      <4>1. Biggest(t) \in 1..n /\ t \ {Biggest(t)} \in SUBSET (1..n)
        BY <1>1, <3>2, BiggestExists
      <4>2. f[t] = step[Biggest(t)][f[t \ {Biggest(t)}]]
        <5> HIDE DEF step
        <5> QED
          BY <1>3, <3>2, Zenon DEF FoldsBy
      <4>3. f[t \ {Biggest(t)}] \in ReadStates
        BY <1>3, <4>1
      <4>4. QED
        BY <3>2, <4>1, <4>2, <4>3
    <3>3. QED
      BY <3>1, <3>2
  <2>2. DOMAIN s = 1..n /\ f = [t \in SUBSET (1..n) |-> f[t]]
    BY <1>1, <1>3
  <2>3. QED
    BY <2>1, <2>2, Zenon
<1>5. it = Body(it)
  <2> HIDE DEF Body
  <2> QED
    BY <1>4, Zenon
<1>6. GoesBy(it, n, ReadStates, AtRest, step)
  <2> HIDE DEF it
  <2>1. it[{}] = AtRest
    BY <1>5
  <2>2. ASSUME NEW i \in 1..n, it[1..(i - 1)] \in ReadStates
        PROVE  it[1..i] = step[i][it[1..(i - 1)]]
    <3>1. it[1..i] = ReadChar(it[1..(i - 1)], s[i])
      <4>1. /\ (1..i) \ {i} = 1..(i - 1) /\ 1..i # {} /\ 1..i \in SUBSET DOMAIN s
            /\ Biggest(1..i) = i
        BY <1>1, Segments
      <4>2. \A t \in SUBSET DOMAIN s :
              it[t] = IF t = {} THEN AtRest ELSE ReadChar(it[t \ {Biggest(t)}], s[Biggest(t)])
        BY <1>5, Zenon
      <4>3. it[1..i] = ReadChar(it[(1..i) \ {Biggest(1..i)}], s[Biggest(1..i)])
        BY <4>1, <4>2, Zenon
      <4>4. QED
        BY <4>1, <4>3, Zenon
    <3>2. QED
      BY <2>2, <3>1
  <2>3. QED
    BY <2>1, <2>2 DEF GoesBy
<1>7. PICK g : g \in [0..n -> ReadStates] /\ g[n] = it[1..n] /\ Computes(g, n, AtRest, step)
  <2> HIDE DEF n, step, it
  <2> QED
    BY <1>1, <1>6, FoldSteps, AtRestType
<1>8. Followed(g, AtRest, s)
  <2>1. ASSUME NEW i \in 1..n PROVE g[i] = ReadChar(g[i - 1], s[i])
    <3>1. g[i - 1] \in ReadStates
      <4>1. i - 1 \in 0..n
        BY <1>1
      <4>2. QED
        BY <1>7, <4>1
    <3>2. g[i] = step[i][g[i - 1]]
      <4> HIDE DEF step
      <4> QED
        BY <1>7, Zenon DEF Computes
    <3>3. QED
      BY <3>1, <3>2
  <2>2. QED
    BY <1>7, <2>1 DEF Followed, Computes
<1>9. FoldLeft(ReadChar, AtRest, s) = g[n]
  BY <1>1, <1>2, <1>7
<1>10. QED
  BY <1>7, <1>8, <1>9

(* The reader's states stay well-formed, and spoilt once they are.         *)
LEMMA FollowedType ==
  ASSUME NEW n \in Nat, NEW s, Len(s) = n, NEW g, NEW st \in ReadStates, Followed(g, st, s)
  PROVE  /\ \A i \in 0..n : g[i] \in ReadStates
         /\ ~g[n].spoilt => \A i \in 0..n : ~g[i].spoilt
<1> DEFINE T == {i \in 0..n : g[i] \in ReadStates}
<1>1. 0 \in T
  BY DEF Followed
<1>2. ASSUME NEW i \in 1..n, i - 1 \in T
      PROVE  i \in T
  <2>1. g[i] = ReadChar(g[i - 1], s[i])
    BY Zenon DEF Followed
  <2>2. QED
    BY <1>2, <2>1, ReadType
<1>3. 0..n \subseteq T
  <2> HIDE DEF T
  <2> QED
    BY <1>1, <1>2, UpTo
<1>4. \A i \in 0..n : g[i] \in ReadStates
  BY <1>3
<1>5. ASSUME ~g[n].spoilt
      PROVE  \A i \in 0..n : ~g[i].spoilt
  <2> DEFINE U == {j \in 0..n : ~g[n - j].spoilt}
  <2>1. 0 \in U
    BY <1>5
  <2>2. ASSUME NEW j \in 1..n, j - 1 \in U
        PROVE  j \in U
    <3>1. PICK i \in 1..n : i = n - (j - 1)
      OBVIOUS
    <3>2. n - j = i - 1 /\ i - 1 \in 0..n /\ ~g[i].spoilt
      BY <2>2, <3>1
    <3>3. g[i] = ReadChar(g[i - 1], s[i]) /\ g[i - 1] \in ReadStates
      BY <1>4, <3>2, Zenon DEF Followed
    <3>4. ~g[i - 1].spoilt
      BY <3>2, <3>3, ReadType
    <3>5. QED
      BY <3>2, <3>4
  <2>3. 0..n \subseteq U
    <3> HIDE DEF U
    <3> QED
      BY <2>1, <2>2, UpTo
  <2>4. ASSUME NEW i \in 0..n PROVE ~g[i].spoilt
    <3>1. n - i \in 0..n /\ n - (n - i) = i
      OBVIOUS
    <3>2. PICK k \in 0..n : k = n - i
      BY <3>1
    <3>3. k \in U /\ n - k = i
      BY <2>3, <3>1, <3>2
    <3>4. QED
      BY <3>3
  <2>5. QED
    BY <2>4
<1>6. QED
  BY <1>4, <1>5

(* The reader goes on from where it was, when a text goes on.              *)
LEMMA FollowedOn ==
  ASSUME NEW s \in Seq(STRING), NEW t \in Seq(STRING)
  PROVE  \E h : /\ Followed(h, FoldLeft(ReadChar, AtRest, s), t)
                /\ FoldLeft(ReadChar, AtRest, s \o t) = h[Len(t)]
<1> DEFINE both == s \o t
<1>1. PICK m \in Nat : m = Len(s)
  OBVIOUS
<1>2. PICK n \in Nat : n = Len(t)
  OBVIOUS
<1>3. /\ both \in Seq(STRING) /\ Len(both) = m + n
      /\ \A i \in 1..m : both[i] = s[i]
      /\ \A i \in 1..n : both[m + i] = t[i]
  BY <1>1, <1>2
<1> HIDE DEF both
<1>4. PICK f : Followed(f, AtRest, s) /\ FoldLeft(ReadChar, AtRest, s) = f[m]
  BY <1>1, ParseSteps
<1>5. PICK g : Followed(g, AtRest, both) /\ FoldLeft(ReadChar, AtRest, both) = g[m + n]
  BY <1>3, ParseSteps
<1>6. f[m] = g[m]
  <2> DEFINE T == {i \in 0..m : f[i] = g[i]}
  <2>1. 0 \in T
    BY <1>4, <1>5 DEF Followed
  <2>2. ASSUME NEW i \in 1..m, i - 1 \in T
        PROVE  i \in T
    <3>1. i \in 1..Len(s) /\ i \in 1..Len(both)
      BY <1>1, <1>3
    <3>2. f[i] = ReadChar(f[i - 1], s[i]) /\ g[i] = ReadChar(g[i - 1], both[i])
      BY <1>4, <1>5, <3>1, Zenon DEF Followed
    <3>3. f[i - 1] = g[i - 1] /\ both[i] = s[i]
      BY <1>3, <2>2
    <3>4. f[i] = g[i]
      BY <3>2, <3>3, Zenon
    <3>5. QED
      BY <3>4
  <2>3. 0..m \subseteq T
    <3> HIDE DEF T
    <3> QED
      BY <2>1, <2>2, UpTo
  <2>4. QED
    BY <2>3
<1> DEFINE h == [i \in 0..n |-> g[m + i]]
<1>7. ASSUME NEW i \in 1..n
      PROVE  h[i] = ReadChar(h[i - 1], t[i])
  <2>1. m + i \in 1..Len(both) /\ (m + i) - 1 = m + (i - 1)
    BY <1>3
  <2>2. g[m + i] = ReadChar(g[(m + i) - 1], both[m + i])
    BY <1>5, <2>1, Zenon DEF Followed
  <2>3. h[i] = g[m + i] /\ h[i - 1] = g[m + (i - 1)]
    OBVIOUS
  <2>4. QED
    BY <1>3, <2>1, <2>2, <2>3
<1>8. h[0] = f[m] /\ h[n] = g[m + n]
  BY <1>6
<1> HIDE DEF h
<1>9. Followed(h, f[m], t)
  BY <1>2, <1>7, <1>8 DEF Followed
<1>10. QED
  BY <1>2, <1>4, <1>5, <1>8, <1>9 DEF both

(* The reader and paren_delta agree on one character, as long as the       *)
(* reader is not spoilt and the line goes on.                              *)
Agree(x, d, y) ==
  /\ x.depth = d + y.depth
  /\ y.instr <=> x.in \in {"string", "escaped"}
  /\ y.escaped <=> x.in = "escaped"
  /\ y.comment <=> x.in = "comment"

LEMMA ReadAgrees ==
  ASSUME NEW x \in ReadStates, NEW y \in ScanStates, NEW d \in Int, NEW c, Agree(x, d, y),
         ~x.spoilt, ~ReadChar(x, c).spoilt
  PROVE  /\ ReadChar(x, c).depth = d + Scan(y, c).depth
         /\ c # EOL => Agree(ReadChar(x, c), d, Scan(y, c))
<1>1. CASE x.in = "comment"
  <2>1. ReadChar(x, c) = InComment(x, c)
    BY <1>1 DEF ReadChar
  <2>2. Scan(y, c) = y
    BY <1>1 DEF Scan, Agree
  <2>3. InComment(x, c).depth = x.depth /\ (c # EOL => InComment(x, c).in = "comment")
    BY <1>1, InCommentIs
  <2>4. QED
    BY <1>1, <2>1, <2>2, <2>3 DEF Agree
<1>2. CASE x.in \in {"string", "escaped"}
  <2>1. ReadChar(x, c) = InString(x, c)
    BY <1>2 DEF ReadChar
  <2>2. /\ InString(x, c).depth = x.depth
        /\ InString(x, c).in = IF x.in = "escaped" THEN "string"
                               ELSE IF c = "backslash" THEN "escaped"
                               ELSE IF c = "quote" THEN "nothing" ELSE "string"
    BY <1>2, InStringIs
  <2>3. y.instr /\ ~y.comment /\ (y.escaped <=> x.in = "escaped")
    BY <1>2 DEF Agree
  <2>4. CASE x.in = "escaped"
    <3>1. Scan(y, c) = [y EXCEPT !.escaped = FALSE]
      BY <2>3, <2>4 DEF Scan
    <3>2. QED
      BY <2>1, <2>2, <2>3, <2>4, <3>1 DEF Agree, ScanStates
  <2>5. CASE x.in = "string"
    <3> DEFINE e == (c = "backslash")  q == (c # "quote")
    <3>1. Scan(y, c) = [y EXCEPT !.escaped = e, !.instr = q]
      BY <2>3, <2>5 DEF Scan
    <3>2. /\ Scan(y, c).depth = y.depth /\ Scan(y, c).escaped = e /\ Scan(y, c).instr = q
          /\ ~Scan(y, c).comment
      <4> HIDE DEF e, q
      <4> QED
        BY <2>3, <3>1 DEF ScanStates
    <3>3. InString(x, c).in = IF c = "backslash" THEN "escaped" ELSE IF c = "quote" THEN "nothing" ELSE "string"
      BY <2>2, <2>5
    <3>4. CASE c = "backslash"
      BY <2>1, <2>2, <3>2, <3>3, <3>4 DEF Agree
    <3>5. CASE c = "quote"
      BY <2>1, <2>2, <3>2, <3>3, <3>5 DEF Agree
    <3>6. CASE c # "backslash" /\ c # "quote"
      BY <2>1, <2>2, <3>2, <3>3, <3>6 DEF Agree
    <3>7. QED
      BY <3>4, <3>5, <3>6
  <2>6. QED
    BY <1>2, <2>4, <2>5
<1>3. CASE x.in \in {"nothing", "atom", "dot"}
  <2> DEFINE r == ReadChar(x, c)  z == Scan(y, c)
  <2>1. /\ Moved(r.depth, x.depth, c)
        /\ (r.in = "comment") <=> (c = ";")
        /\ (r.in = "string") <=> (c = "quote")
        /\ r.in # "escaped"
    <3>1. CASE x.in = "nothing"
      <4>1. r = Meets(x, c)
        BY <3>1 DEF ReadChar
      <4>2. /\ Meets(x, c).spoilt \/
                 /\ Moved(Meets(x, c).depth, x.depth, c)
                 /\ (Meets(x, c).in = "comment") <=> (c = ";")
                 /\ (Meets(x, c).in = "string") <=> (c = "quote")
                 /\ Meets(x, c).in # "escaped"
        BY MeetsIs
      <4>3. QED
        BY <4>1, <4>2
    <3>2. CASE x.in \in {"atom", "dot"}
      <4>1. r = InAtom(x, c)
        BY <3>2 DEF ReadChar
      <4>2. /\ InAtom(x, c).spoilt \/
                 /\ Moved(InAtom(x, c).depth, x.depth, c)
                 /\ (InAtom(x, c).in = "comment") <=> (c = ";")
                 /\ (InAtom(x, c).in = "string") <=> (c = "quote")
                 /\ InAtom(x, c).in # "escaped"
        BY <3>2, InAtomIs
      <4>3. QED
        BY <4>1, <4>2
    <3>3. QED
      BY <1>3, <3>1, <3>2
  <2>2. ~y.comment /\ ~y.escaped /\ ~y.instr
    BY <1>3 DEF Agree
  <2>3. /\ z.comment = (c = ";") /\ z.instr = (c = "quote") /\ ~z.escaped
        /\ Moved(z.depth, y.depth, c)
    BY <2>2, ScanIs
  <2>4. z \in ScanStates
    BY ScanType
  <2> HIDE DEF r, z
  <2>5. x.depth \in Int /\ y.depth \in Int /\ x.depth = d + y.depth
    BY DEF ReadStates, ScanStates, Agree
  <2>6. r.depth = d + z.depth
    <3>1. Moved(r.depth, x.depth, c) /\ Moved(z.depth, y.depth, c)
      BY <2>1, <2>3
    <3>2. QED
      BY <3>1, <2>5 DEF Moved
  <2>7. /\ (r.in \in {"string", "escaped"}) <=> (c = "quote")
        /\ r.in # "escaped"
        /\ (r.in = "comment") <=> (c = ";")
    BY <2>1
  <2>8. (z.instr <=> c = "quote") /\ (z.comment <=> c = ";") /\ ~z.escaped
    <3>1. z.instr = (c = "quote") /\ z.comment = (c = ";") /\ ~z.escaped
      BY <2>3
    <3>2. z.instr \in BOOLEAN /\ z.comment \in BOOLEAN
      BY <2>4 DEF ScanStates
    <3>3. QED
      BY <3>1, <3>2, Zenon
  <2>9. Agree(r, d, z)
    BY <2>6, <2>7, <2>8 DEF Agree
  <2>10. QED
    BY <2>6, <2>9 DEF r, z
<1>4. QED
  BY <1>1, <1>2, <1>3 DEF ReadStates

(* What a piece adds to the depth is what paren_delta says, if the reader  *)
(* starts outside of strings and comments and is not spoilt by it.         *)
LEMMA PieceAdds ==
  ASSUME NEW piece \in Pieces, NEW st \in ReadStates, st.in \in {"nothing", "atom", "dot"},
         NEW h, Followed(h, st, piece), ~h[Len(piece)].spoilt
  PROVE  h[Len(piece)].depth = st.depth + paren_delta(piece)
<1>1. piece \in Seq(STRING) /\ \A i \in 1..(Len(piece) - 1) : piece[i] # EOL
  BY ReplAssumption DEF EOL
<1>2. PICK n \in Nat : n = Len(piece)
  BY <1>1
<1>3. PICK g : /\ g \in [0..n -> ScanStates] /\ Scanned(g, ScanStart, piece)
               /\ paren_delta(piece) = g[n].depth
  BY <1>1, <1>2, DeltaSteps
<1>4. PICK d \in Int : d = st.depth
  BY DEF ReadStates
<1>5. \A i \in 0..n : h[i] \in ReadStates /\ g[i] \in ScanStates /\ ~h[i].spoilt
  <2>1. \A i \in 0..n : h[i] \in ReadStates /\ ~h[i].spoilt
    BY <1>2, FollowedType
  <2>2. QED
    BY <1>3, <2>1
<1> DEFINE T == {i \in 0..n : h[i].depth = d + g[i].depth /\ (i < n => Agree(h[i], d, g[i]))}
<1>6. 0 \in T
  <2>1. h[0] = st /\ g[0] = ScanStart
    BY <1>3 DEF Followed, Scanned
  <2>2. Agree(st, d, ScanStart)
    <3>1. st.depth = d + ScanStart.depth
      BY <1>4 DEF ScanStart
    <3>2. ~ScanStart.instr /\ ~ScanStart.escaped /\ ~ScanStart.comment
      BY DEF ScanStart
    <3>3. QED
      BY <3>1, <3>2 DEF Agree
  <2>3. QED
    BY <2>1, <2>2 DEF Agree
<1>7. ASSUME NEW i \in 1..n, i - 1 \in T
      PROVE  i \in T
  <2>1. i \in 1..Len(piece) /\ i - 1 \in 0..n
    BY <1>2
  <2>2. h[i] = ReadChar(h[i - 1], piece[i]) /\ g[i] = Scan(g[i - 1], piece[i])
    BY <1>3, <2>1, Zenon DEF Followed, Scanned
  <2>3. /\ h[i - 1] \in ReadStates /\ g[i - 1] \in ScanStates /\ Agree(h[i - 1], d, g[i - 1])
        /\ ~h[i - 1].spoilt /\ ~h[i].spoilt
    BY <1>5, <1>7, <2>1
  <2>4. /\ h[i].depth = d + g[i].depth
        /\ piece[i] # EOL => Agree(h[i], d, g[i])
    BY <2>2, <2>3, ReadAgrees
  <2>5. i < n => piece[i] # EOL
    BY <1>1, <1>2
  <2>6. QED
    BY <2>4, <2>5
<1>8. 0..n \subseteq T
  <2> HIDE DEF T
  <2> QED
    BY <1>6, <1>7, UpTo
<1>9. n \in T
  <2> HIDE DEF T
  <2> QED
    BY <1>8
<1>10. QED
  BY <1>2, <1>3, <1>4, <1>9

LEMMA ParsedType ==
  ASSUME NEW pieces \in Seq(Pieces)
  PROVE  Parsed(pieces) \in ReadStates
<1>1. FlattenSeq(pieces) \in Seq(STRING)
  <2>1. pieces \in Seq(Seq(STRING))
    BY ReplAssumption
  <2>2. QED
    BY <2>1, FlattenType
<1>2. PICK s : s = FlattenSeq(pieces) /\ s \in Seq(STRING)
  BY <1>1
<1>3. PICK g : /\ g \in [0..Len(s) -> ReadStates] /\ Followed(g, AtRest, s)
               /\ FoldLeft(ReadChar, AtRest, s) = g[Len(s)]
  BY <1>2, ParseSteps
<1>4. Len(s) \in 0..Len(s)
  BY <1>2
<1>5. QED
  BY <1>2, <1>3, <1>4 DEF Parsed

LEMMA ParsedNone == Parsed(<<>>) = AtRest
<1>1. <<>> \in Seq(STRING) /\ Len(<<>>) = 0
  OBVIOUS
<1>2. PICK s : s = <<>>
  OBVIOUS
<1>3. PICK g : Followed(g, AtRest, s) /\ FoldLeft(ReadChar, AtRest, s) = g[Len(s)]
  BY <1>1, <1>2, ParseSteps
<1>4. QED
  BY <1>1, <1>2, <1>3, FlattenNone DEF Parsed, Followed

(* One more piece.                                                         *)
LEMMA ParsedAppend ==
  ASSUME NEW pieces \in Seq(Pieces), NEW piece \in Pieces,
         Parsed(pieces).in \in {"nothing", "atom", "dot"}, ~Parsed(Append(pieces, piece)).spoilt
  PROVE  Parsed(Append(pieces, piece)).depth = Parsed(pieces).depth + paren_delta(piece)
<1>1. pieces \in Seq(Seq(STRING)) /\ piece \in Seq(STRING)
  BY ReplAssumption
<1>2. FlattenSeq(Append(pieces, piece)) = FlattenSeq(pieces) \o piece
      /\ FlattenSeq(pieces) \in Seq(STRING)
  BY <1>1, FlattenAppend, FlattenType
<1>3. PICK s : s = FlattenSeq(pieces) /\ s \in Seq(STRING)
  BY <1>2
<1>4. PICK h : /\ Followed(h, FoldLeft(ReadChar, AtRest, s), piece)
               /\ FoldLeft(ReadChar, AtRest, s \o piece) = h[Len(piece)]
  BY <1>1, <1>3, FollowedOn
<1>5. Followed(h, Parsed(pieces), piece) /\ Parsed(Append(pieces, piece)) = h[Len(piece)]
  BY <1>2, <1>3, <1>4 DEF Parsed
<1>6. QED
  BY <1>5, ParsedType, PieceAdds

(* While a form is open its depth is that of what was collected, which was *)
(* positive after every piece.                                             *)
ReplInv ==
  /\ acc \in Seq(Pieces) /\ taken \in Seq(Seq(Pieces)) /\ level \in Int
  /\ LineByLine(acc) =>
       /\ Parsed(acc).depth = level
       /\ \A n \in 1..Len(acc) : Parsed(Prefix(acc, n)).depth > 0
  /\ FormsAreWhole

LEMMA PrefixAppend ==
  ASSUME NEW pieces \in Seq(Pieces), NEW piece \in Pieces
  PROVE  /\ Append(pieces, piece) \in Seq(Pieces)
         /\ Len(Append(pieces, piece)) = Len(pieces) + 1
         /\ Prefix(Append(pieces, piece), Len(pieces) + 1) = Append(pieces, piece)
         /\ \A n \in 0..Len(pieces) : Prefix(Append(pieces, piece), n) = Prefix(pieces, n)
         /\ Prefix(pieces, Len(pieces)) = pieces
         /\ LineByLine(Append(pieces, piece)) =>
              /\ LineByLine(pieces) /\ Parsed(pieces).in \in {"nothing", "atom", "dot"}
              /\ ~Parsed(Append(pieces, piece)).spoilt
              /\ Parsed(Append(pieces, piece)).depth = 0 => Parsed(Append(pieces, piece)) = AtRest
<1> DEFINE more == Append(pieces, piece)
<1>1. PICK k \in Nat : k = Len(pieces)
  OBVIOUS
<1>2. more \in Seq(Pieces) /\ Len(more) = k + 1 /\ \A i \in 1..k : more[i] = pieces[i]
  BY <1>1
<1>3. Prefix(more, k + 1) = more /\ Prefix(pieces, k) = pieces
  <2> HIDE DEF more
  <2> QED
    BY <1>1, <1>2, SubSeqFull DEF Prefix
<1>4. ASSUME NEW n \in 0..k
      PROVE  Prefix(more, n) = Prefix(pieces, n)
  <2> HIDE DEF more
  <2>1. /\ SubSeq(more, 1, n) \in Seq(Pieces) /\ Len(SubSeq(more, 1, n)) = n
        /\ SubSeq(pieces, 1, n) \in Seq(Pieces) /\ Len(SubSeq(pieces, 1, n)) = n
    BY <1>1, <1>2, SubSeqProperties
  <2>2. ASSUME NEW i \in 1..n PROVE SubSeq(more, 1, n)[i] = SubSeq(pieces, 1, n)[i]
    BY <1>1, <1>2, SubSeqProperties
  <2>3. QED
    BY <2>1, <2>2, SeqEqual DEF Prefix
<1>5. ASSUME LineByLine(more)
      PROVE  /\ LineByLine(pieces) /\ Parsed(pieces).in \in {"nothing", "atom", "dot"}
             /\ ~Parsed(more).spoilt /\ (Parsed(more).depth = 0 => Parsed(more) = AtRest)
  <2> DEFINE Fine(st) == /\ ~st.spoilt /\ st.in \in {"nothing", "atom", "dot"}
                         /\ st.depth = 0 => st = AtRest
  <2>1. \A n \in 1..(k + 1) : Fine(Parsed(Prefix(more, n)))
    <3> HIDE DEF more
    <3> QED
      BY <1>2, <1>5 DEF LineByLine
  <2> HIDE DEF more, Fine
  <2>2. Fine(Parsed(more))
    <3>1. k + 1 \in 1..(k + 1)
      OBVIOUS
    <3>2. QED
      BY <1>3, <2>1, <3>1
  <2>3. \A n \in 1..k : Fine(Parsed(Prefix(pieces, n)))
    <3> TAKE n \in 1..k
    <3>1. n \in 1..(k + 1) /\ n \in 0..k
      OBVIOUS
    <3>2. Prefix(more, n) = Prefix(pieces, n)
      BY <1>4, <3>1
    <3>3. QED
      BY <2>1, <3>1, <3>2
  <2>4. LineByLine(pieces)
    BY <1>1, <2>3 DEF LineByLine, Fine
  <2>5. CASE k = 0
    <3>1. pieces = <<>>
      <4>1. Len(pieces) = 0
        BY <1>1, <2>5
      <4>2. QED
        BY <4>1, EmptySeq
    <3>2. Parsed(pieces) = AtRest
      BY <3>1, ParsedNone, Zenon
    <3>3. QED
      BY <2>2, <2>4, <3>2 DEF AtRest, Fine
  <2>6. CASE k # 0
    <3>1. k \in 1..k
      BY <2>6
    <3>2. Fine(Parsed(pieces))
      BY <1>3, <2>3, <3>1
    <3>3. QED
      BY <2>2, <2>4, <3>2 DEF Fine
  <2>7. QED
    BY <2>5, <2>6
<1> HIDE DEF more
<1>6. QED
  BY <1>1, <1>2, <1>3, <1>4, <1>5 DEF more


(* With nothing collected.                                                 *)
LEMMA NothingCollected == Parsed(<<>>).depth = 0 /\ 1..Len(<<>>) = {}
<1>1. AtRest.depth = 0
  BY DEF AtRest
<1>2. QED
  BY <1>1, ParsedNone

LEMMA ReplStarts == ReplInit => ReplInv
<1>1. SUFFICES ASSUME ReplInit PROVE ReplInv
  OBVIOUS
<1>2. acc \in Seq(Pieces) /\ taken \in Seq(Seq(Pieces)) /\ level \in Int /\ Len(acc) = 0
      /\ Len(taken) = 0
  BY <1>1 DEF ReplInit
<1>3. Parsed(acc).depth = level
  <2>1. Parsed(acc) = AtRest
    BY <1>1, ParsedNone, Zenon DEF ReplInit
  <2>2. QED
    BY <1>1, <2>1 DEF ReplInit, AtRest
<1>4. FlattenSeq(taken) \o acc = read
  <2>1. taken = <<>> /\ acc = <<>> /\ read = <<>>
    BY <1>1 DEF ReplInit
  <2>2. FlattenSeq(taken) = <<>>
    BY <2>1, FlattenNone, Zenon
  <2>3. QED
    BY <2>1, <2>2
<1>5. FormsAreWhole
  <2>1. DOMAIN taken = {}
    BY <1>2
  <2>2. QED
    BY <1>4, <2>1, Zenon DEF FormsAreWhole
<1>6. QED
  BY <1>2, <1>3, <1>5 DEF ReplInv

(* A text that is evaluated as it should be. *)
AsOne(s) ==
  LineByLine(s) =>
    /\ Parsed(s) = AtRest
    /\ \A n \in 1..(Len(s) - 1) : Parsed(Prefix(s, n)).depth > 0

(* What is collected is taken: nothing is left of it, nothing is lost.     *)
LEMMA TakeKeeps ==
  ASSUME ReplInv, NEW piece \in Pieces, Take(piece), read' = Append(read, piece),
         discarded \subseteq discarded',
         Len(taken) + 1 \in discarded' \/ AsOne(Append(acc, piece))
  PROVE  ReplInv'
<1> DEFINE more == Append(acc, piece)
<1>1. acc \in Seq(Pieces) /\ taken \in Seq(Seq(Pieces)) /\ FlattenSeq(taken) \o acc = read
  BY DEF ReplInv, FormsAreWhole
<1>2. FlattenSeq(taken) \in Seq(Pieces)
  BY <1>1, FlattenType
<1>3. acc' = <<>> /\ level' = 0 /\ taken' = Append(taken, more) /\ more \in Seq(Pieces)
  BY <1>1 DEF Take
<1>4. FlattenSeq(taken) \o more = Append(FlattenSeq(taken) \o acc, piece)
  BY <1>1, <1>2
<1>5. Len(taken) + 1 \in discarded' \/ AsOne(more)
  OBVIOUS
<1> HIDE DEF more
<1>6. acc' \in Seq(Pieces) /\ taken' \in Seq(Seq(Pieces)) /\ level' \in Int
  BY <1>1, <1>3
<1>7. \A k \in DOMAIN taken \ discarded : AsOne(taken[k])
  BY DEF ReplInv, FormsAreWhole, AsOne
<1>8. \A k \in DOMAIN taken' \ discarded' : AsOne(taken'[k])
  <2> TAKE k \in DOMAIN taken' \ discarded'
  <2>1. k \in DOMAIN taken \/ k = Len(taken) + 1
    BY <1>1, <1>3
  <2>2. CASE k \in DOMAIN taken
    <3>1. taken'[k] = taken[k] /\ k \notin discarded
      BY <1>1, <1>3, <2>2
    <3>2. QED
      BY <1>7, <2>2, <3>1
  <2>3. CASE k = Len(taken) + 1
    <3>1. taken'[k] = more
      BY <1>1, <1>3, <2>3
    <3>2. QED
      BY <1>5, <2>3, <3>1
  <2>4. QED
    BY <2>1, <2>2, <2>3
<1>9. FlattenSeq(taken') \o <<>> = Append(read, piece)
  <2>1. FlattenSeq(taken') = FlattenSeq(taken) \o more
    BY <1>1, <1>3, FlattenAppend
  <2>2. (FlattenSeq(taken) \o more) \o <<>> = FlattenSeq(taken) \o more
    BY <1>2, <1>3
  <2>3. QED
    BY <1>1, <1>4, <2>1, <2>2
<1>10. FormsAreWhole'
  BY <1>3, <1>8, <1>9 DEF FormsAreWhole, AsOne, LineByLine, Parsed, Prefix
<1>11. LineByLine(acc)' =>
         /\ Parsed(acc)'.depth = level'
         /\ \A n \in 1..Len(acc') : Parsed(Prefix(acc, n))'.depth > 0
  BY <1>3, NothingCollected DEF Parsed
<1>12. QED
  BY <1>6, <1>10, <1>11 DEF ReplInv

LEMMA ReadPieceKeeps ==
  ASSUME ReplInv, NEW piece \in Pieces, ReadPiece(piece)
  PROVE  ReplInv'
<1> DEFINE more == Append(acc, piece)
<1>1. /\ acc \in Seq(Pieces) /\ taken \in Seq(Seq(Pieces)) /\ level \in Int
      /\ FlattenSeq(taken) \o acc = read
  BY DEF ReplInv, FormsAreWhole
<1>2. /\ more \in Seq(Pieces) /\ Len(more) = Len(acc) + 1 /\ Prefix(more, Len(more)) = more
      /\ \A n \in 0..Len(acc) : Prefix(more, n) = Prefix(acc, n)
      /\ LineByLine(more) =>
           /\ LineByLine(acc) /\ Parsed(acc).in \in {"nothing", "atom", "dot"}
           /\ ~Parsed(more).spoilt /\ (Parsed(more).depth = 0 => Parsed(more) = AtRest)
  BY <1>1, PrefixAppend
<1>3. read' = Append(read, piece) /\ UNCHANGED discarded
  BY DEF ReadPiece
<1>4. paren_delta(piece) \in Int
  <2>1. piece \in Seq(STRING)
    BY ReplAssumption
  <2>2. PICK g : g \in [0..Len(piece) -> ScanStates] /\ paren_delta(piece) = g[Len(piece)].depth
    BY <2>1, DeltaSteps
  <2>3. g[Len(piece)] \in ScanStates
    BY <2>1, <2>2
  <2>4. QED
    BY <2>2, <2>3 DEF ScanStates
<1>5. LineByLine(more) =>
        /\ Parsed(more).depth = level + paren_delta(piece)
        /\ \A n \in 1..Len(acc) : Parsed(Prefix(more, n)).depth > 0
  <2>1. SUFFICES ASSUME LineByLine(more)
                 PROVE  /\ Parsed(more).depth = level + paren_delta(piece)
                        /\ \A n \in 1..Len(acc) : Parsed(Prefix(more, n)).depth > 0
    OBVIOUS
  <2>2. Parsed(more).depth = Parsed(acc).depth + paren_delta(piece)
    <3> HIDE DEF more
    <3>1. Parsed(acc).in \in {"nothing", "atom", "dot"} /\ ~Parsed(more).spoilt
      BY <1>2, <2>1
    <3>2. QED
      BY <1>1, <3>1, ParsedAppend DEF more
  <2>3. /\ Parsed(acc).depth = level
        /\ \A n \in 1..Len(acc) : Parsed(Prefix(acc, n)).depth > 0
    <3> HIDE DEF more
    <3> QED
      BY <1>2, <2>1 DEF ReplInv
  <2>4. \A n \in 1..Len(acc) : Prefix(more, n) = Prefix(acc, n)
    <3> HIDE DEF more
    <3> QED
      BY <1>1, <1>2
  <2>5. QED
    <3> HIDE DEF more
    <3> QED
      BY <2>2, <2>3, <2>4
<1>6. CASE level + paren_delta(piece) > 0
  <2>1. acc' = more /\ level' = level + paren_delta(piece) /\ UNCHANGED taken
    BY <1>6 DEF ReadPiece, Collect
  <2>2. FlattenSeq(taken) \o more = Append(FlattenSeq(taken) \o acc, piece)
    <3>1. FlattenSeq(taken) \in Seq(Pieces)
      BY <1>1, FlattenType
    <3>2. QED
      BY <1>1, <3>1
  <2> HIDE DEF more
  <2>3. acc' \in Seq(Pieces) /\ taken' \in Seq(Seq(Pieces)) /\ level' \in Int
    BY <1>1, <1>2, <1>4, <2>1
  <2>4. LineByLine(acc)' =>
          /\ Parsed(acc)'.depth = level'
          /\ \A n \in 1..Len(acc') : Parsed(Prefix(acc, n))'.depth > 0
    <3>1. SUFFICES ASSUME LineByLine(more)
                   PROVE  /\ Parsed(more).depth = level'
                          /\ \A n \in 1..Len(more) : Parsed(Prefix(more, n)).depth > 0
      BY <2>1 DEF LineByLine, Parsed, Prefix
    <3>2. \A n \in 1..Len(more) : n \in 1..Len(acc) \/ n = Len(more)
      BY <1>1, <1>2
    <3>3. QED
      BY <1>2, <1>4, <1>5, <1>6, <2>1, <3>1, <3>2
  <2>5. FormsAreWhole'
    <3>1. \A k \in DOMAIN taken \ discarded : AsOne(taken[k])
      BY DEF ReplInv, FormsAreWhole, AsOne
    <3>2. QED
      BY <1>1, <1>3, <2>1, <2>2, <3>1 DEF FormsAreWhole, AsOne, LineByLine, Parsed, Prefix
  <2>6. QED
    BY <2>3, <2>4, <2>5 DEF ReplInv
<1>7. CASE ~(level + paren_delta(piece) > 0)
  <2>1. Take(piece)
    BY <1>7 DEF ReadPiece
  <2>2. AsOne(more)
    <3> HIDE DEF more
    <3>1. SUFFICES ASSUME LineByLine(more)
                   PROVE  /\ Parsed(more) = AtRest
                          /\ \A n \in 1..(Len(more) - 1) : Parsed(Prefix(more, n)).depth > 0
      BY DEF AsOne
    <3>2. Len(more) - 1 = Len(acc)
      BY <1>1, <1>2
    <3>3. Parsed(more).depth \in Nat
      BY <1>2, ParsedType DEF ReadStates
    <3>4. Parsed(more).depth = 0
      BY <1>1, <1>4, <1>5, <1>7, <3>1, <3>3
    <3>5. QED
      BY <1>2, <1>5, <3>1, <3>2, <3>4
  <2>3. QED
    BY <1>3, <2>1, <2>2, TakeKeeps
<1>8. QED
  BY <1>6, <1>7

LEMMA ReplInductive == ReplInv /\ [ReplNext]_replVars => ReplInv'
<1>1. SUFFICES ASSUME ReplInv, [ReplNext]_replVars PROVE ReplInv'
  OBVIOUS
<1>2. ASSUME NEW piece \in Pieces, DiscardForm(piece) PROVE ReplInv'
  <2>1. /\ Take(piece) /\ read' = Append(read, piece) /\ discarded \subseteq discarded'
        /\ Len(taken) + 1 \in discarded'
    BY <1>2 DEF DiscardForm
  <2>2. QED
    BY <1>1, <2>1, TakeKeeps
<1>3. CASE UNCHANGED <<acc, level, taken, discarded, read>>
  BY <1>1, <1>3 DEF ReplInv, FormsAreWhole, LineByLine, Parsed, Prefix
<1>4. QED
  BY <1>1, <1>2, <1>3, ReadPieceKeeps DEF ReplNext, Stop, replVars

(* Whatever fgets returns, and whatever the sizes of the buffers: lines    *)
(* that paren_delta was made for are evaluated with the line that closes   *)
(* their forms by the rules of the reader, and no line is lost, repeated   *)
(* or moved (do_repl, paren_delta, read_).                                 *)
THEOREM ReplFormsAreWhole == ReplSpec => []FormsAreWhole
<1>1. ReplInv => FormsAreWhole
  BY DEF ReplInv
<1>2. QED
  BY <1>1, ReplStarts, ReplInductive, PTL DEF ReplSpec

-----------------------------------------------------------------------------
(***************************************************************************)
(* The host loop                                                           *)
(***************************************************************************)
Inputs == Bytes \cup {Eof}

NemacsTypes ==
  /\ mode \in {"start", "key", "confirm", "search", "exited"}
  /\ text \in Empty..EditMax /\ disk \in Empty..EditMax /\ kept \in Empty..EditMax
  /\ edits \in 0..EditMax

(* Only an edit makes the text differ from what was last opened or saved,  *)
(* and an edit sets the flag; at the start nothing has been edited.        *)
NemacsInv ==
  /\ NemacsTypes /\ prefix \in Seq(Inputs)
  /\ ~modified => text = kept
  /\ mode = "start" => ~modified /\ text = Empty
  /\ CleanIsOnDisk

LEMMA Commands ==
  ASSUME NEW typed, Command(typed)
  PROVE  \/ EditBuffer /\ mode' = mode
         \/ SaveBuffer /\ mode' = mode
         \/ ConfirmQuit
         \/ mode' = "search" /\ UNCHANGED bufferVars
         \/ typed = <<Eof>> /\ mode' = "exited" /\ UNCHANGED bufferVars
         \/ UNCHANGED <<mode, bufferVars>>
  BY DEF Command

(* What any step that handles a byte, or the end of the input, may do to   *)
(* the buffer.                                                             *)
Effect == EditBuffer \/ SaveBuffer \/ ConfirmQuit \/ UNCHANGED bufferVars

LEMMA HandlesType ==
  ASSUME NemacsInv, NEW c \in Inputs, Handle(c)
  PROVE  /\ Effect /\ mode # "start"
         /\ mode' \in {"key", "confirm", "search", "exited"}
         /\ prefix' \in Seq(Inputs)
<1>1. CASE mode = "key" /\ Key(c)
  <2>1. Append(prefix, c) \in Seq(Inputs)
    BY DEF NemacsInv
  <2>2. prefix' \in Seq(Inputs)
    <3>1. prefix' = Append(prefix, c) \/ prefix' = <<>>
      BY <1>1, Zenon DEF Key
    <3>2. <<>> \in Seq(Inputs)
      OBVIOUS
    <3>3. QED
      BY <2>1, <3>1, <3>2, Zenon
  <2>3. \/ UNCHANGED <<mode, bufferVars>> \/ Command(Append(prefix, c))
    BY <1>1 DEF Key
  <2>4. CASE Command(Append(prefix, c))
    <3>1. PICK typed : Command(typed)
      BY <2>4
    <3>2. \/ EditBuffer /\ mode' = mode
          \/ SaveBuffer /\ mode' = mode
          \/ ConfirmQuit
          \/ mode' \in {"search", "exited"} /\ UNCHANGED bufferVars
          \/ mode' = mode /\ UNCHANGED bufferVars
      BY <3>1, Commands
    <3>3. ConfirmQuit => mode' \in {"confirm", "exited"}
      BY DEF ConfirmQuit
    <3>4. QED
      BY <1>1, <2>2, <3>2, <3>3 DEF Effect
  <2>5. QED
    BY <1>1, <2>2, <2>3, <2>4 DEF Effect
<1>2. CASE mode = "confirm" /\ Confirm(c) /\ UNCHANGED prefix
  BY <1>2 DEF Confirm, Effect, NemacsInv
<1>3. CASE mode = "search" /\ Isearch(c) /\ UNCHANGED prefix
  BY <1>3 DEF Isearch, Effect, NemacsInv
<1>4. QED
  BY <1>1, <1>2, <1>3 DEF Handle

LEMMA EffectKeeps ==
  ASSUME NemacsInv, mode # "start", mode' \in {"key", "confirm", "search", "exited"},
         prefix' \in Seq(Inputs), file' = file, Effect
  PROVE  NemacsInv'
<1> USE DEF NemacsTypes
<1>1. CASE EditBuffer
  <2>1. edits' \in Whole..EditMax /\ ((text' = edits' /\ modified' = TRUE) \/ UNCHANGED <<text, modified>>)
    BY <1>1, NemacsAssumption DEF NemacsInv, EditBuffer, Whole
  <2>2. UNCHANGED <<disk, kept, faults>>
    BY <1>1 DEF EditBuffer
  <2>3. NemacsTypes'
    BY <2>1, <2>2 DEF NemacsInv, Empty, Whole
  <2>4. (~modified' => text' = kept') /\ CleanIsOnDisk'
    BY <2>1, <2>2 DEF NemacsInv, CleanIsOnDisk
  <2>5. QED
    BY <2>3, <2>4 DEF NemacsInv
<1>2. CASE SaveBuffer
  <2>1. edits' = edits /\ text' = text /\ kept' \in {kept, text} /\ disk' \in {disk, Part, text}
    BY <1>2 DEF SaveBuffer, bufferVars
  <2>2. modified' = modified \/ modified' = FALSE
    BY <1>2 DEF SaveBuffer, bufferVars
  <2>3. NemacsTypes'
    BY <2>1, <2>2, NemacsAssumption DEF NemacsInv, Empty, Part
  <2>4. ~modified' => text' = kept'
    BY <1>2 DEF NemacsInv, SaveBuffer, bufferVars
  <2>5. CleanIsOnDisk'
    BY <1>2 DEF NemacsInv, SaveBuffer, bufferVars, CleanIsOnDisk
  <2>6. QED
    BY <2>3, <2>4, <2>5 DEF NemacsInv
<1>3. CASE ConfirmQuit
  BY <1>3 DEF NemacsInv, ConfirmQuit, bufferVars, CleanIsOnDisk
<1>4. CASE UNCHANGED bufferVars
  BY <1>4 DEF NemacsInv, bufferVars, CleanIsOnDisk
<1>5. QED
  BY <1>1, <1>2, <1>3, <1>4 DEF Effect

LEMMA NothingYet == NemacsInit => NemacsInv
<1> SUFFICES ASSUME NemacsInit PROVE NemacsInv
  OBVIOUS
<1> USE DEF NemacsInit
<1>1. NemacsTypes
  <2>1. {0, Empty} \subseteq Empty..EditMax
    BY NemacsAssumption DEF Empty
  <2>2. QED
    BY <2>1, NemacsAssumption DEF NemacsTypes
<1>2. prefix \in Seq(Inputs)
  OBVIOUS
<1>3. CleanIsOnDisk
  BY DEF CleanIsOnDisk, Empty, Whole
<1>4. QED
  BY <1>1, <1>2, <1>3 DEF NemacsInv

LEMMA Inductive == NemacsInv /\ [NemacsNext]_nemacsVars => NemacsInv'
<1> SUFFICES ASSUME NemacsInv, [NemacsNext]_nemacsVars PROVE NemacsInv'
  OBVIOUS
<1>1. CASE Start
  BY <1>1, NemacsAssumption
     DEF Start, NemacsInv, NemacsTypes, CleanIsOnDisk, Empty, Whole, Part
<1>2. CASE ReadByte
  BY <1>2, HandlesType, EffectKeeps DEF ReadByte, Inputs
<1>3. CASE ReadEof
  BY <1>3, HandlesType, EffectKeeps DEF ReadEof, Inputs
<1>4. CASE Interrupt
  <2>1. prefix' \in Seq(Inputs)
    BY <1>4 DEF Interrupt
  <2>2. QED
    BY <1>4, <2>1, EffectKeeps DEF Interrupt, Effect
<1>5. CASE IdleTick
  BY <1>5, EffectKeeps DEF IdleTick, Effect, NemacsInv
<1>6. CASE CloseInput
  BY <1>6 DEF CloseInput, NemacsInv, bufferVars, NemacsTypes, CleanIsOnDisk
<1>7. CASE UNCHANGED nemacsVars
  BY <1>7 DEF nemacsVars, NemacsInv, NemacsTypes, CleanIsOnDisk
<1>8. QED
  BY <1>1, <1>2, <1>3, <1>4, <1>5, <1>6, <1>7 DEF NemacsNext

LEMMA NemacsInvariant == NemacsSpec => []NemacsInv
  BY NothingYet, Inductive, PTL DEF NemacsSpec

FlagType == modified \in BOOLEAN

(* The mode, the flag and the three texts keep their types, whatever is    *)
(* typed and whenever it ends (nemacs_run, main.c).                        *)
THEOREM NemacsTypesCorrect == NemacsSpec => []NemacsTypeOK
<1>1. NemacsInit => FlagType
  BY DEF NemacsInit, FlagType
<1>2. NemacsInv /\ FlagType /\ [NemacsNext]_nemacsVars => FlagType'
  <2> SUFFICES ASSUME NemacsInv, modified \in BOOLEAN, [NemacsNext]_nemacsVars
               PROVE  modified' \in BOOLEAN
    BY DEF FlagType
  <2>1. ASSUME Effect PROVE modified' \in BOOLEAN
    BY <2>1 DEF Effect, EditBuffer, SaveBuffer, ConfirmQuit, bufferVars
  <2>2. CASE ReadByte
    BY <2>1, <2>2, HandlesType DEF ReadByte, Inputs
  <2>3. CASE ReadEof
    BY <2>1, <2>3, HandlesType DEF ReadEof, Inputs
  <2>4. CASE IdleTick
    BY <2>1, <2>4 DEF IdleTick, Effect
  <2>5. CASE Start \/ Interrupt \/ CloseInput \/ UNCHANGED nemacsVars
    BY <2>5 DEF Start, Interrupt, CloseInput, bufferVars, nemacsVars
  <2>6. QED
    BY <2>2, <2>3, <2>4, <2>5 DEF NemacsNext
<1>3. NemacsInv /\ FlagType => NemacsTypeOK
  BY DEF NemacsInv, NemacsTypes, NemacsTypeOK, FlagType
<1>4. QED
  BY <1>1, <1>2, <1>3, NothingYet, Inductive, PTL DEF NemacsSpec

(* A saved or freshly opened buffer is on disk (save_buffer), except where *)
(* a write failed that the flag does not tell of.                          *)
THEOREM CleanBufferIsOnDisk == NemacsSpec => []CleanIsOnDisk
<1>1. NemacsInv => CleanIsOnDisk
  BY DEF NemacsInv
<1>2. QED
  BY <1>1, NemacsInvariant, PTL

(* No key, sequence or answer ends the editor with unsaved edits unless it *)
(* asked, could not ask, or has nobody left to ask (confirm_quit).         *)
THEOREM NoSilentQuit == NemacsSpec => QuitIsAsked
<1>1. NemacsInv /\ [NemacsNext]_nemacsVars
        => [SilentExit => input = "closed" \/ "query" \in faults' \/ tty]_nemacsVars
  <2> SUFFICES ASSUME NemacsInv, NemacsNext, SilentExit
               PROVE  input = "closed" \/ "query" \in faults' \/ tty
    OBVIOUS
  <2>1. mode \in {"key", "search"} /\ mode' = "exited" /\ modified
    BY DEF SilentExit, NemacsInv
  <2>2. CASE ReadByte
    <3>1. PICK c \in Bytes : Handle(c)
      BY <2>2 DEF ReadByte
    <3>2. CASE mode = "key" /\ Key(c)
      <4>1. Command(Append(prefix, c))
        BY <2>1, <3>2 DEF Key
      <4>2. Append(prefix, c) # <<Eof>>
        <5>1. prefix \in Seq(Inputs) /\ c \in Inputs /\ c # Eof
          BY DEF NemacsInv, Inputs, Bytes, Eof
        <5>2. Append(prefix, c)[Len(prefix) + 1] = c /\ Len(prefix) \in Nat
          BY <5>1
        <5>3. Len(Append(prefix, c)) = Len(prefix) + 1
          BY <5>1
        <5>4. ASSUME Append(prefix, c) = <<Eof>> PROVE FALSE
          <6>1. Len(prefix) + 1 = 1
            BY <5>3, <5>4
          <6>2. Append(prefix, c)[1] = c
            BY <5>2, <6>1
          <6>3. QED
            BY <5>1, <5>4, <6>2
        <5>5. QED
          BY <5>4
      <4>3. ConfirmQuit
        BY <2>1, <4>1, <4>2, Commands
      <4>4. QED
        BY <2>1, <4>3 DEF ConfirmQuit
    <3>3. CASE mode = "search" /\ Isearch(c)
      BY <2>1, <3>3 DEF Isearch
    <3>4. QED
      BY <2>1, <3>1, <3>2, <3>3 DEF Handle
  <2>3. CASE Start \/ IdleTick \/ CloseInput
    BY <2>1, <2>3 DEF Start, IdleTick, CloseInput
  <2>4. CASE ReadEof \/ Interrupt
    BY <2>4 DEF ReadEof, Interrupt
  <2>5. QED
    BY <2>2, <2>3, <2>4 DEF NemacsNext
<1>2. QED
  BY <1>1, NemacsInvariant, PTL DEF NemacsSpec, QuitIsAsked

-----------------------------------------------------------------------------
(***************************************************************************)
(* Timers                                                                  *)
(***************************************************************************)
Armed == [id : 1..seq, left : Nat, every : Nat]

(* The registry and the snapshot: what each timer is, and that every timer *)
(* is either in the registry or gone.                                      *)
RegistryInv ==
  /\ seq \in 0..ArmMax /\ gone \subseteq 1..seq
  /\ timers \subseteq Armed /\ due \subseteq Armed
  /\ NeitherLostNorRevived

(* While the loop waits, the time that poll has spent so far is time in    *)
(* which no timer fired.                                                   *)
WaitInv ==
  /\ at \in {"top", "poll", "prompt", "fire"} /\ keys \in 0..KeyMax
  /\ awake \in 0..PollFloor
  /\ at = "poll" => ms \in Nat \cup {Forever} /\ slept \in Nat \cup {Forever}
  /\ at = "poll" => (ms = Forever <=> slept = Forever)
  /\ at = "poll" /\ ms # Forever => ms >= PollFloor /\ awake + slept >= PollFloor
  /\ slept \in Nat \cup {Forever}

LEMMA CommandsKeepRegistry ==
  ASSUME RegistryInv, RegistryCommand
  PROVE  /\ seq' \in 0..ArmMax /\ seq <= seq' /\ gone' \subseteq 1..seq'
         /\ timers' \subseteq Armed' /\ Armed \subseteq Armed' /\ NeitherLostNorRevived'
<1> USE TimersAssumption
<1>1. seq \in 0..ArmMax /\ ArmMax \in Nat
  BY DEF RegistryInv
<1>2. CASE RunWithTimer
  <2>1. PICK d \in Delays, r \in Repeats : \E l \in Rounded(d) :
          timers' = timers \cup {[id |-> seq + 1, left |-> l, every |-> r]}
    BY <1>2 DEF RunWithTimer
  <2>2. PICK l \in Rounded(d) : timers' = timers \cup {[id |-> seq + 1, left |-> l, every |-> r]}
    BY <2>1
  <2> DEFINE new == [id |-> seq + 1, left |-> l, every |-> r]
  <2>3. l \in Nat /\ r \in Nat
    BY DEF Rounded
  <2>4. seq' = seq + 1 /\ seq < ArmMax /\ gone' = gone
    BY <1>2 DEF RunWithTimer
  <2>5. 1..seq \subseteq 1..seq' /\ seq' \in 1..seq' /\ 1..seq' = (1..seq) \cup {seq'} /\ seq' \notin 1..seq
    BY <1>1, <2>4
  <2>6. Armed \subseteq Armed'
    BY <2>5 DEF Armed
  <2>7. new \in Armed' /\ new.id = seq'
    BY <2>3, <2>4, <2>5 DEF Armed
  <2> HIDE DEF new
  <2>8. timers' = timers \cup {new}
    BY <2>2 DEF new
  <2>9. \A tm \in timers : tm.id \in 1..seq
    BY DEF RegistryInv, Armed
  <2>10. Ids(timers') = Ids(timers) \cup {seq'}
    BY <2>7, <2>8 DEF Ids
  <2>11. Ids(timers') = (1..seq') \ gone'
    BY <2>4, <2>5, <2>10 DEF RegistryInv, NeitherLostNorRevived
  <2>12. \A t, u \in timers' : t.id = u.id => t = u
    BY <2>5, <2>7, <2>8, <2>9 DEF RegistryInv, NeitherLostNorRevived
  <2>13. NeitherLostNorRevived'
    BY <2>11, <2>12 DEF NeitherLostNorRevived, Ids
  <2>14. seq' \in 0..ArmMax /\ seq <= seq' /\ gone' \subseteq 1..seq' /\ timers' \subseteq Armed'
    BY <1>1, <2>4, <2>5, <2>6, <2>7, <2>8 DEF RegistryInv
  <2>15. QED
    BY <2>6, <2>13, <2>14
<1>3. ASSUME NEW ids \in SUBSET (1..seq), CancelTimer(ids)
      PROVE  /\ seq' = seq /\ gone' \subseteq 1..seq /\ timers' \subseteq timers
             /\ NeitherLostNorRevived'
  <2>1. timers' = {tm \in timers : tm.id \notin ids} /\ gone' = gone \cup ids /\ seq' = seq
    BY <1>3 DEF CancelTimer, Without
  <2>2. Ids(timers') = Ids(timers) \ ids
    BY <2>1 DEF Ids
  <2>3. QED
    BY <1>3, <2>1, <2>2 DEF RegistryInv, NeitherLostNorRevived, Ids
<1>4. seq' = seq => Armed' = Armed
  BY DEF Armed
<1>5. CASE \E id \in 1..seq : CancelTimer({id})
  <2>1. PICK id \in 1..seq : CancelTimer({id})
    BY <1>5
  <2>2. {id} \in SUBSET (1..seq)
    OBVIOUS
  <2>3. QED
    BY <1>1, <1>3, <1>4, <2>1, <2>2 DEF RegistryInv
<1>6. CASE CancelTimer(1..seq)
  BY <1>1, <1>3, <1>4, <1>6 DEF RegistryInv
<1>7. CASE UNCHANGED <<timers, seq, gone>>
  BY <1>1, <1>4, <1>7 DEF RegistryInv, NeitherLostNorRevived, Ids
<1>8. QED
  BY <1>2, <1>5, <1>6, <1>7 DEF RegistryCommand

(* A command, with the snapshot kept or shrunk.                            *)
LEMMA CommandKeepsInv ==
  ASSUME RegistryInv, RegistryCommand, due' \subseteq due
  PROVE  RegistryInv'
  BY CommandsKeepRegistry DEF RegistryInv

(* timers-advance!: every timer that was due is armed again or spent.      *)
LEMMA AdvanceKeeps ==
  ASSUME RegistryInv, Advance
  PROVE  RegistryInv'
<1> USE TimersAssumption
<1>1. PICK lost \in BOOLEAN : timers' = Keep \cup Rearmed(Due, lost)
  BY DEF Advance
<1>2. due' = Due /\ seq' = seq /\ gone' = gone \cup Once(Due)
  BY DEF Advance
<1>3. Keep \subseteq timers /\ Due \subseteq timers /\ timers = Keep \cup Due /\ Keep \cap Due = {}
  BY DEF Keep, Due
<1>4. \A tm \in timers : tm \in Armed /\ tm.id \in 1..seq /\ tm.left \in Nat /\ tm.every \in Nat
  BY DEF RegistryInv, Armed
<1> DEFINE again(tm) == [tm EXCEPT !.left = IF lost /\ tm.every < Precision THEN 0 ELSE tm.every]
<1>5. \A tm \in timers : again(tm) \in Armed /\ again(tm).id = tm.id
  <2>1. TAKE tm \in timers
  <2>2. tm \in Armed /\ (IF lost /\ tm.every < Precision THEN 0 ELSE tm.every) \in Nat
    BY <1>4
  <2>3. QED
    BY <2>2 DEF Armed
<1>6. Rearmed(Due, lost) = {again(tm) : tm \in {u \in Due : u.every > 0}}
  BY DEF Rearmed
<1> HIDE DEF again
<1>7. Armed' = Armed
  BY <1>2 DEF Armed
<1>8. timers' \subseteq Armed
  BY <1>1, <1>3, <1>4, <1>5, <1>6
<1>9. \A x \in timers' : \E tm \in timers :
        /\ tm.id = x.id
        /\ (tm \in Keep /\ x = tm) \/ (tm \in Due /\ tm.every > 0 /\ x = again(tm))
  BY <1>1, <1>3, <1>5, <1>6
<1>10. \A t, u \in timers : t.id = u.id => t = u
  BY DEF RegistryInv, NeitherLostNorRevived
<1>11. \A t, u \in timers' : t.id = u.id => t = u
  <2>1. TAKE x, y \in timers'
  <2>2. HAVE x.id = y.id
  <2>3. PICK t \in timers : t.id = x.id /\ ((t \in Keep /\ x = t) \/ (t \in Due /\ t.every > 0 /\ x = again(t)))
    BY <1>9
  <2>4. PICK u \in timers : u.id = y.id /\ ((u \in Keep /\ y = u) \/ (u \in Due /\ u.every > 0 /\ y = again(u)))
    BY <1>9
  <2>5. t = u
    BY <1>10, <2>2, <2>3, <2>4
  <2>6. QED
    BY <1>3, <2>3, <2>4, <2>5
<1>12. Ids(timers') = (1..seq) \ gone'
  <2>1. Ids(timers) = (1..seq) \ gone
    BY DEF RegistryInv, NeitherLostNorRevived
  <2>2. ASSUME NEW id \in Ids(timers') PROVE id \in Ids(timers) /\ id \notin Once(Due)
    <3>1. PICK x \in timers' : x.id = id
      BY DEF Ids
    <3>2. PICK t \in timers : t.id = id /\ (t \in Keep \/ t.every > 0)
      BY <1>9, <3>1
    <3>3. id \notin Once(Due)
      <4>1. SUFFICES ASSUME NEW u \in Due, u.every = 0, u.id = id PROVE FALSE
        BY DEF Once
      <4>2. u = t
        BY <1>3, <1>10, <3>2, <4>1
      <4>3. QED
        BY <1>3, <3>2, <4>1, <4>2
    <3>4. QED
      BY <3>2, <3>3 DEF Ids
  <2>3. ASSUME NEW id \in Ids(timers), id \notin Once(Due) PROVE id \in Ids(timers')
    <3>1. PICK t \in timers : t.id = id
      BY DEF Ids
    <3>2. CASE t \in Keep
      BY <1>1, <3>1, <3>2 DEF Ids
    <3>3. CASE t \in Due
      <4>1. t.every > 0
        BY <1>4, <2>3, <3>1, <3>3 DEF Once
      <4>2. again(t) \in timers' /\ again(t).id = id
        BY <1>1, <1>5, <1>6, <3>1, <3>3, <4>1
      <4>3. QED
        BY <4>2 DEF Ids
    <3>4. QED
      BY <1>3, <3>2, <3>3
  <2>4. QED
    BY <1>2, <2>1, <2>2, <2>3
<1>13. Once(Due) \subseteq 1..seq
  BY <1>3, <1>4 DEF Once
<1>14. NeitherLostNorRevived'
  BY <1>2, <1>11, <1>12 DEF NeitherLostNorRevived, Ids
<1>15. due' \subseteq Armed'
  BY <1>2, <1>3, <1>4, <1>7
<1>16. QED
  BY <1>2, <1>7, <1>8, <1>13, <1>14, <1>15 DEF RegistryInv

(* Time passes: each timer keeps its name.                                 *)
LEMMA TickKeeps ==
  ASSUME RegistryInv, Tick
  PROVE  RegistryInv'
<1> DEFINE sooner(tm) == [tm EXCEPT !.left = IF tm.left > 0 THEN tm.left - 1 ELSE 0]
<1>1. timers' = {sooner(tm) : tm \in timers} /\ UNCHANGED <<seq, due, gone>>
  BY DEF Tick
<1>2. ASSUME NEW tm \in timers PROVE sooner(tm) \in Armed /\ sooner(tm).id = tm.id
  <2>1. tm \in Armed /\ (IF tm.left > 0 THEN tm.left - 1 ELSE 0) \in Nat
    BY DEF RegistryInv, Armed
  <2>2. QED
    BY <2>1 DEF Armed
<1> HIDE DEF sooner
<1>3. Ids(timers') = Ids(timers)
  BY <1>1, <1>2 DEF Ids
<1>4. \A t, u \in timers' : t.id = u.id => t = u
  BY <1>1, <1>2 DEF RegistryInv, NeitherLostNorRevived
<1>5. Armed' = Armed
  BY <1>1 DEF Armed
<1>6. NeitherLostNorRevived'
  BY <1>1, <1>3, <1>4 DEF RegistryInv, NeitherLostNorRevived, Ids
<1>7. QED
  BY <1>1, <1>2, <1>5, <1>6 DEF RegistryInv

LEMMA RegistryIsInductive == RegistryInv /\ [TimersNext]_timersVars => RegistryInv'
<1>1. SUFFICES ASSUME RegistryInv, [TimersNext]_timersVars PROVE RegistryInv'
  OBVIOUS
<1>2. CASE UNCHANGED <<timers, seq, gone>> /\ due' \subseteq due
  BY <1>1, <1>2, CommandKeepsInv DEF RegistryCommand
<1>3. CASE Poll \/ Interrupted \/ Fired \/ UNCHANGED timersVars
  BY <1>2, <1>3 DEF Poll, Interrupted, Fired, timersVars
<1>4. CASE KeyTyped
  BY <1>1, <1>2, <1>4, CommandKeepsInv DEF KeyTyped
<1>5. CASE Thunk
  BY <1>1, <1>5, CommandKeepsInv DEF Thunk
<1>6. CASE Fire
  <2>1. PICK tm \in due : due' = due \ {tm} /\ (CancelTimer({tm.id}) \/ UNCHANGED <<timers, seq, gone>>)
    BY <1>6 DEF Fire
  <2>2. tm.id \in 1..seq
    BY <1>1 DEF RegistryInv, Armed
  <2>3. RegistryCommand
    BY <2>1, <2>2 DEF RegistryCommand
  <2>4. QED
    BY <1>1, <2>1, <2>3, CommandKeepsInv
<1>7. QED
  BY <1>1, <1>3, <1>4, <1>5, <1>6, AdvanceKeeps, TickKeeps DEF TimersNext

(* The timeout of poll, while timers are armed: never below the floor.     *)
LEMMA PollIsFloored ==
  ASSUME RegistryInv
  PROVE  PollMs = Forever \/ (PollMs \in Nat /\ PollMs >= PollFloor)
<1> DEFINE S == {tm.left : tm \in timers}
<1>1. CASE timers = {}
  BY <1>1 DEF PollMs
<1>2. CASE timers # {}
  <2>1. S \in SUBSET Nat /\ S # {}
    BY <1>2 DEF RegistryInv, Armed
  <2>2. \E d \in S : \A y \in S : d <= y
    BY <2>1, LeastExists
  <2>3. Min(S) \in Nat
    BY <2>1, <2>2 DEF Min
  <2> HIDE DEF S
  <2>4. PollMs = LET d == Min(S) IN IF d < PollFloor THEN PollFloor ELSE IF d > PollCap THEN PollCap ELSE d
    BY <1>2 DEF PollMs, S
  <2>5. QED
    BY <2>3, <2>4, TimersAssumption
<1>3. QED
  BY <1>1, <1>2

LEMMA WaitIsInductive ==
  RegistryInv /\ WaitInv /\ [TimersNext]_timersVars => WaitInv'
<1> USE TimersAssumption DEF Forever
<1>1. SUFFICES ASSUME RegistryInv, WaitInv, [TimersNext]_timersVars PROVE WaitInv'
  OBVIOUS
<1>2. PollFloor \in Nat /\ KeyMax \in Nat
  OBVIOUS
<1>3. CASE UNCHANGED timersVars
  BY <1>1, <1>3 DEF WaitInv, timersVars
<1>4. CASE Poll
  <2>1. at' = "poll" /\ ms' = PollMs /\ slept' = PollMs /\ UNCHANGED <<keys, awake>>
    BY <1>4 DEF Poll
  <2>2. PollMs = Forever \/ (PollMs \in Nat /\ PollMs >= PollFloor)
    BY <1>1, PollIsFloored
  <2>3. QED
    BY <1>1, <1>2, <2>1, <2>2 DEF WaitInv
<1>5. CASE Tick
  <2>1. /\ slept # 0 /\ awake \in 0..PollFloor /\ slept \in Nat \cup {Forever}
        /\ slept' = IF slept = Forever THEN Forever ELSE slept - 1
        /\ awake' = IF awake < PollFloor THEN awake + 1 ELSE awake
        /\ at' = at /\ ms' = ms /\ keys' = keys
    BY <1>1, <1>5 DEF WaitInv, Tick
  <2>2. awake' \in 0..PollFloor
    BY <1>2, <2>1
  <2>3. slept' \in Nat \cup {Forever} /\ (slept' = Forever <=> slept = Forever)
    BY <2>1
  <2>4. at = "poll" /\ ms # Forever => awake' + slept' >= PollFloor
    <3>1. SUFFICES ASSUME at = "poll", ms # Forever PROVE awake' + slept' >= PollFloor
      OBVIOUS
    <3>2. slept # Forever /\ awake + slept >= PollFloor
      BY <1>1, <3>1 DEF WaitInv
    <3>3. QED
      BY <1>2, <2>1, <3>2
  <2>5. QED
    BY <1>1, <2>1, <2>2, <2>3, <2>4 DEF WaitInv
<1>6. CASE Interrupted
  BY <1>1, <1>2, <1>6 DEF WaitInv, Interrupted
<1>7. CASE KeyTyped
  BY <1>1, <1>2, <1>7 DEF WaitInv, KeyTyped
<1>8. CASE Advance
  BY <1>1, <1>2, <1>8 DEF WaitInv, Advance
<1>9. CASE Thunk \/ Fire \/ Fired
  BY <1>1, <1>2, <1>9 DEF WaitInv, Thunk, Fire, Fired
<1>10. QED
  BY <1>1, <1>3, <1>4, <1>5, <1>6, <1>7, <1>8, <1>9 DEF TimersNext

LEMMA TimersStart == TimersInit => RegistryInv /\ WaitInv
<1> USE TimersAssumption
<1>1. 0 \in 0..ArmMax /\ 0 \in 0..KeyMax /\ PollFloor \in 0..PollFloor /\ 1..0 = {}
  OBVIOUS
<1>2. QED
  BY <1>1 DEF TimersInit, RegistryInv, WaitInv, NeitherLostNorRevived, Ids, Forever

LEMMA TimersKeepInv == TimersSpec => [](RegistryInv /\ WaitInv)
  BY TimersStart, RegistryIsInductive, WaitIsInductive, PTL DEF TimersSpec

(* The registry holds, once each, the timers that were armed and neither   *)
(* cancelled nor spent, for every delay, every repeat and whatever the     *)
(* thunks do to it while they fire (timers-advance!).                      *)
THEOREM TimersAreKept == TimersSpec => []NeitherLostNorRevived
<1>1. RegistryInv => NeitherLostNorRevived
  BY DEF RegistryInv
<1>2. QED
  BY <1>1, TimersKeepInv, PTL

(* From one firing to the next at least the poll floor passes, for every   *)
(* delay and repeat, those included that are lost in rounding (do_nemacs). *)
THEOREM TimersDoNotSpin == TimersSpec => NoBusySpin
<1>1. ASSUME WaitInv, [TimersNext]_timersVars
      PROVE  [at = "poll" /\ at' = "fire" => awake >= PollFloor]_timersVars
  <2>1. SUFFICES ASSUME at = "poll", at' = "fire" PROVE awake >= PollFloor
    OBVIOUS
  <2>2. Advance
    BY <1>1, <2>1
       DEF TimersNext, timersVars, Poll, Tick, Interrupted, KeyTyped, Thunk, Fire, Fired
  <2>3. QED
    BY <1>1, <2>1, <2>2, TimersAssumption DEF WaitInv, Advance, Forever
<1>2. QED
  BY <1>1, TimersKeepInv, PTL DEF TimersSpec, NoBusySpin

=============================================================================
