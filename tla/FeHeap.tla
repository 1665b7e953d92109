-------------------------------- MODULE FeHeap --------------------------------
(***************************************************************************)
(* The Fe kernel's object pool (kernel/fe.c): a fixed slab of cells,       *)
(* object() popping the freelist and collecting when it is empty, the      *)
(* bounded root stack, the list of interned symbols, foreign pointers and  *)
(* their finalizers.                                                       *)
(*                                                                         *)
(* A collection is one step (FeCollector shows that it may be).  What is   *)
(* not one step is a C function that allocates more than once: fe_symbol   *)
(* allocates four or more cells, and any of these allocations may collect, *)
(* or raise and leave what it has built so far to the collector.           *)
(***************************************************************************)
EXTENDS FeAlloc, FiniteSets

CONSTANTS
  Names,         \* symbol names (strings are not empty: reader tokens)
  Nodes,         \* Nodes[n]: string cells that hold the name n
  Backings,      \* the host's allocations that foreign pointers own
  NoName, NoBacking,
  Ops            \* the operations that the program at hand performs

ASSUME HeapAssumption ==
  /\ Nodes \in [Names -> Nat \ {0}]
  /\ NoName \notin Names
  /\ NoBacking \notin Backings
  /\ Ops \subseteq {"cons", "number", "ptr", "setcar", "setcdr", "set", "pushgc"}

VARIABLES
  text,      \* the name held by the string that starts at a cell
  job,       \* the C function that is running, with its locals
  backing,   \* a foreign pointer's payload
  released   \* how often the gc callback released each backing attached so far

vars == <<heap, text, freelist, gcstack, symlist, job, backing, released>>

Jobs == [op : {"idle", "symbol", "string", "bind", "link", "closed"},
         base : 0..GCStackSize, name : Names \cup {NoName}, nodes : Nat,
         obj : Refs, str : Refs, tail : Refs]

Idle == [op |-> "idle", base |-> 0, name |-> NoName, nodes |-> 0,
         obj |-> Nil, str |-> Nil, tail |-> Nil]

Closed == [Idle EXCEPT !.op = "closed"]
-----------------------------------------------------------------------------
(***************************************************************************)
(* What comes with object(): finalizers and errors                         *)
(***************************************************************************)
(* Slip: the cell is made FREE before its type is looked at.               *)
FinalizeUntyped(dead) ==
  /\ backing' = [c \in Cells |-> IF c \in dead THEN NoBacking ELSE backing[c]]
  /\ text' = [c \in Cells |-> IF c \in dead THEN NoName ELSE text[c]]
  /\ UNCHANGED released

(* Sweeping a foreign pointer hands its payload to the registered gc       *)
(* callback, which tolerates NULL; the cell no longer owns anything.       *)
Finalize(dead) ==
  /\ released' = [b \in DOMAIN released |->
                    released[b] + Cardinality({c \in dead : backing[c] = b})]
  /\ backing' = [c \in Cells |-> IF c \in dead THEN NoBacking ELSE backing[c]]
  /\ text' = [c \in Cells |-> IF c \in dead THEN NoName ELSE text[c]]

(* fe_error longjmps to a guard, which restores the root stack to the      *)
(* index it saved before the failing call: at most the length at which the *)
(* C function that is running began.                                       *)
Unwind == \E i \in 0..(IF job = Idle THEN Len(gcstack) ELSE job.base) :
            /\ i <= Len(gcstack)
            /\ gcstack' = SubSeq(gcstack, 1, i)
            /\ job' = Idle

(* "out of memory": a collection left the freelist empty. *)
OutOfMemory ==
  /\ job # Closed
  /\ Available = {}
  /\ Unwind
  /\ UNCHANGED <<heap, text, freelist, symlist, backing, released>>

(* "gc stack overflow" raised by the fe_pushgc inside object(): the cell   *)
(* has been popped and keeps its FREE tag.                                 *)
Overflow ==
  /\ job # Closed
  /\ Len(gcstack) = GCStackSize
  /\ Available # {}
  /\ \E c \in Heads(Available) : freelist' = Available \ {c}
  /\ heap' = HeapAfterGC
  /\ Finalize(Swept)
  /\ Unwind
  /\ UNCHANGED symlist
-----------------------------------------------------------------------------
(***************************************************************************)
(* The symbol table                                                        *)
(***************************************************************************)
(* The cells of the symlist itself: those that fe_symbol's loop visits.    *)
Spine == Chain(heap, symlist)

Symbols == {heap[c].car : c \in Spine}

NameOf(s) == text[heap[heap[s].cdr].car]

(* Slip: the search does not look at the newest symbol.                    *)
InternedBefore(n) == \E s \in Symbols : s # heap[symlist].car /\ NameOf(s) = n

Interned(n) == \E s \in Symbols : NameOf(s) = n

(* What C and Lisp code may hold: not the cells that the symbol table is   *)
(* made of (fe_symbols' list is never handed to Lisp).                     *)
Internals == Spine \cup {heap[s].cdr : s \in Symbols}

Handles == {c \in Reach(heap, RootSet) \ Internals : heap[c].type # "string"}

(* fe_symbol(name), not found on symlist: the object comes first.  Only    *)
(* its car word is initialised; its cdr still holds the freelist link.     *)
SymbolObject(n) ==
  /\ job = Idle
  /\ ~Interned(n)
  /\ \E c \in Cells : \E link \in Heads(Available \ {c}) :
       /\ Object(c)
       /\ heap' = [HeapAfterGC EXCEPT ![c] =
                     [type |-> "symbol", car |-> Nil, cdr |-> link]]
       /\ job' = [op |-> "string", base |-> Len(gcstack), name |-> n, nodes |-> 0,
                  obj |-> c, str |-> Nil, tail |-> Nil]
  /\ Finalize(Swept)
  /\ UNCHANGED symlist

(* One buildstring call of fe_string that needs a cell.  A second or later *)
(* node is linked to its predecessor, which keeps the string reachable     *)
(* from its first node, and so gives up its own root slot.                 *)
StringNode ==
  /\ job.op = "string"
  /\ job.nodes < Nodes[job.name]
  /\ \E c \in Cells :
       /\ Pop(c)
       /\ LET node == [type |-> "string", car |-> Nil, cdr |-> Nil]
              grown == [HeapAfterGC EXCEPT ![c] = node]
          IN \/ /\ job.nodes = 0
                /\ gcstack' = Append(gcstack, c)
                /\ heap' = grown
                /\ job' = [job EXCEPT !.nodes = 1, !.str = c, !.tail = c]
             \/ /\ job.nodes > 0
                /\ gcstack' = gcstack
                /\ heap' = [grown EXCEPT ![job.tail] =
                              [type |-> "string", car |-> Nil, cdr |-> c]]
                /\ job' = [job EXCEPT !.nodes = @ + 1, !.tail = c]
  /\ Finalize(Swept)
  /\ UNCHANGED symlist

(* fe_string returns the finished string; the tail was a local of its.     *)
StringDone ==
  /\ job.op = "string"
  /\ job.nodes = Nodes[job.name]
  /\ job' = [job EXCEPT !.op = "bind", !.tail = Nil]
  /\ text' = [text EXCEPT ![job.str] = job.name]
  /\ UNCHANGED <<heap, freelist, gcstack, symlist, backing, released>>

(* cdr(obj) = fe_cons(ctx, string, &nil): the binding cell, name and value *)
SymbolBinding ==
  /\ job.op = "bind"
  /\ \E c \in Cells :
       /\ Object(c)
       /\ heap' = [HeapAfterGC EXCEPT
                     ![c] = [type |-> "pair", car |-> job.str, cdr |-> Nil],
                     ![job.obj] = [type |-> "symbol", car |-> Nil, cdr |-> c]]
  /\ job' = [job EXCEPT !.op = "link"]
  /\ Finalize(Swept)
  /\ UNCHANGED symlist

(* ctx->symlist = fe_cons(ctx, obj, ctx->symlist); return obj *)
SymbolLink ==
  /\ job.op = "link"
  /\ \E c \in Cells :
       /\ Object(c)
       /\ heap' = [HeapAfterGC EXCEPT
                     ![c] = [type |-> "pair", car |-> job.obj, cdr |-> symlist]]
       /\ symlist' = c
  /\ job' = Idle
  /\ Finalize(Swept)

(* fe_set: the value field of the symbol's binding cell. *)
FeSet(s, v) ==
  /\ job = Idle
  /\ heap' = [heap EXCEPT ![heap[s].cdr] = [type |-> "pair", car |-> heap[heap[s].cdr].car,
                                            cdr |-> v]]
  /\ UNCHANGED <<text, freelist, gcstack, symlist, job, backing, released>>
-----------------------------------------------------------------------------
(***************************************************************************)
(* The other constructors and the mutators                                 *)
(***************************************************************************)
(* fe_cons of two values; fe_number and the other leaf constructors; the   *)
(* fe_ptr of two-phase construction, its payload NULL.                     *)
Construct(cell) ==
  /\ job = Idle
  /\ \E c \in Cells :
       /\ Object(c)
       /\ heap' = [HeapAfterGC EXCEPT ![c] = cell]
  /\ Finalize(Swept)
  /\ UNCHANGED <<symlist, job>>

Cons(a, d) == Construct([type |-> "pair", car |-> a, cdr |-> d])
Number     == Construct([type |-> "number", car |-> Nil, cdr |-> Nil])
Ptr        == Construct([type |-> "ptr", car |-> Nil, cdr |-> Nil])

(* fe_set_ptr on a pointer that was built empty: from here on the gc       *)
(* callback owns the backing b, which holds the element e.                 *)
SetPtr(c, b, e) ==
  /\ job = Idle
  /\ heap[c].type = "ptr"
  /\ backing[c] = NoBacking
  /\ b \notin DOMAIN released
  /\ backing' = [backing EXCEPT ![c] = b]
  /\ released' = [x \in DOMAIN released \cup {b} |-> IF x = b THEN 0 ELSE released[x]]
  /\ heap' = [heap EXCEPT ![c] = [type |-> "ptr", car |-> e, cdr |-> Nil]]
  /\ UNCHANGED <<text, freelist, gcstack, symlist, job>>

SetCar(p, v) ==
  /\ job = Idle
  /\ heap[p].type = "pair"
  /\ heap' = [heap EXCEPT ![p] = [type |-> "pair", car |-> v, cdr |-> heap[p].cdr]]
  /\ UNCHANGED <<text, freelist, gcstack, symlist, job, backing, released>>

SetCdr(p, v) ==
  /\ job = Idle
  /\ heap[p].type = "pair"
  /\ heap' = [heap EXCEPT ![p] = [type |-> "pair", car |-> heap[p].car, cdr |-> v]]
  /\ UNCHANGED <<text, freelist, gcstack, symlist, job, backing, released>>

(* fe_pushgc of a value; when the stack is full it raises. *)
PushGC(v) ==
  /\ job = Idle
  /\ Len(gcstack) < GCStackSize
  /\ gcstack' = Append(gcstack, v)
  /\ UNCHANGED <<heap, text, freelist, symlist, job, backing, released>>

(* fe_restoregc to an index that fe_savegc returned. *)
RestoreGC(i) ==
  /\ job = Idle
  /\ i < Len(gcstack)
  /\ gcstack' = SubSeq(gcstack, 1, i)
  /\ UNCHANGED <<heap, text, freelist, symlist, job, backing, released>>

(* fe_close: without roots, everything is swept. *)
Close ==
  /\ job = Idle
  /\ LET dead == Cells \ FreeTyped(heap)
     IN /\ heap' = [c \in Cells |-> IF c \in dead THEN FreeCell ELSE heap[c]]
        /\ freelist' = freelist \cup dead
        /\ Finalize(dead)
  /\ gcstack' = <<>>
  /\ symlist' = Nil
  /\ job' = Closed
-----------------------------------------------------------------------------
(* fe_open: every cell on the freelist. *)
Init ==
  /\ heap = [c \in Cells |-> FreeCell]
  /\ text = [c \in Cells |-> NoName]
  /\ freelist = Cells
  /\ gcstack = <<>>
  /\ symlist = Nil
  /\ job = Idle
  /\ backing = [c \in Cells |-> NoBacking]
  /\ released = [b \in {} |-> 0]

(* What a C caller or the evaluator does between two C functions: any      *)
(* operation of Ops on anything it can reach.                              *)
Client ==
  LET held == Handles IN
  \/ \E n \in Names : SymbolObject(n)
  \/ "set" \in Ops /\ \E s \in Symbols, v \in held \cup {Nil} : FeSet(s, v)
  \/ "cons" \in Ops /\ \E x, y \in held \cup {Nil} : Cons(x, y)
  \/ "number" \in Ops /\ Number
  \/ "ptr" \in Ops /\ Ptr
  \/ "ptr" \in Ops /\ \E c \in held, b \in Backings, e \in held \cup {Nil} : SetPtr(c, b, e)
  \/ "setcar" \in Ops /\ \E p \in held, v \in held \cup {Nil} : SetCar(p, v)
  \/ "setcdr" \in Ops /\ \E p \in held, v \in held \cup {Nil} : SetCdr(p, v)
  \/ "pushgc" \in Ops /\ \E v \in held \cup {Nil} : PushGC(v)
  \/ \E i \in 0..GCStackSize : RestoreGC(i)
  \/ Close

Next ==
  \/ job = Idle /\ Client
  \/ StringNode \/ StringDone \/ SymbolBinding \/ SymbolLink
  \/ OutOfMemory \/ Overflow

Spec == Init /\ [][Next]_vars
-----------------------------------------------------------------------------
TypeOK ==
  /\ heap \in Heaps
  /\ text \in [Cells -> Names \cup {NoName}]
  /\ freelist \subseteq Cells
  /\ gcstack \in Seq(Refs) /\ Len(gcstack) <= GCStackSize
  /\ symlist \in Refs
  /\ job \in Jobs
  /\ backing \in [Cells -> Backings \cup {NoBacking}]
  /\ DOMAIN released \subseteq Backings /\ released \in [DOMAIN released -> Nat]

(* Whenever object() is about to collect, no cell that the mark phase will *)
(* visit is FREE: not through a pair, not through a foreign pointer, and   *)
(* not through the link that a half-built symbol, already a root, still    *)
(* carries in its cdr.  The sweep relies on it: it skips FREE cells.       *)
CollectorMeetsNoFreeCell ==
  freelist = {} => Reach(heap, RootSet) \cap FreeTyped(heap) = {}

(* Between C calls nothing a program can reach has been freed under it.    *)
NoDanglingReference ==
  job = Idle => Reach(heap, RootSet) \cap FreeTyped(heap) = {}

(* The two together: between C calls and in the middle of one.             *)
HeapSound == CollectorMeetsNoFreeCell /\ NoDanglingReference

(* The cells under construction survive every collection that an           *)
(* allocation of the same constructor starts.                              *)
JobCellsAlive ==
  {job.obj, job.str, job.tail} \cap FreeTyped(heap) = {}

(* A backing that was attached is owned by one pointer and not released,   *)
(* or was released once and is owned by none.                              *)
Owned(b) == \E c \in Cells : backing[c] = b

OwnedOrReleased ==
  /\ \A b \in DOMAIN released : released[b] = IF Owned(b) THEN 0 ELSE 1
  /\ \A c \in Cells : backing[c] # NoBacking =>
       /\ backing[c] \in DOMAIN released /\ heap[c].type = "ptr"
       /\ \A x \in Cells : backing[x] = backing[c] => x = c

(* The gc callback gets each payload once: not before its owner has died,  *)
(* never twice, and, of every backing ever attached, by the end of         *)
(* fe_close.                                                               *)
BackingReleasedOnce ==
  /\ OwnedOrReleased
  /\ job = Closed => \A b \in DOMAIN released : released[b] = 1

(* Everything on symlist is a complete symbol (fe_symbol's search reads    *)
(* its binding and its name unchecked), and no name is interned twice.     *)
SymbolTableSound ==
  /\ \A c \in Spine : heap[c].type = "pair" /\ heap[c].car # Nil
  /\ \A s \in Symbols :
       /\ heap[s].type = "symbol" /\ heap[s].cdr # Nil
       /\ heap[heap[s].cdr].type = "pair" /\ heap[heap[s].cdr].car # Nil
       /\ heap[heap[heap[s].cdr].car].type = "string"
       /\ NameOf(s) \in Names
  /\ \A s, r \in Symbols : NameOf(s) = NameOf(r) => s = r

(* fe_symbol always returns the same object for a name: an interned symbol *)
(* is never collected, moved or renamed.                                   *)
KeepsSymbols ==
  job' # Closed => \A s \in Symbols : s \in Symbols' /\ NameOf(s)' = NameOf(s)

SymbolsAreForever == [][KeepsSymbols]_vars

(* Cells whose tag says FREE but that no allocation will ever return.      *)
Lost == FreeTyped(heap) \ freelist

(* A cell is lost only by an object() whose root stack is full, one cell   *)
(* at a time; every other way out of every constructor, errors included,   *)
(* leaves each cell in use, on the freelist or to the collector.           *)
LosesByOverflow ==
  Lost' # Lost =>
    /\ Len(gcstack) = GCStackSize
    /\ Lost \subseteq Lost' /\ Cardinality(Lost' \ Lost) = 1

LostOnlyByOverflow == [][LosesByOverflow]_vars
=============================================================================
