----------------------------- MODULE Containers -----------------------------
(***************************************************************************)
(* Vectors, matrices, blobs and tables as foreign objects                  *)
(* (host/containers.c): a cell of the arena and, outside the arena, its    *)
(* backing, whose blocks belong to the allocator that made them and are    *)
(* given back when the cell is collected.  An embedder may change the      *)
(* allocator between any two calls.                                        *)
(*                                                                         *)
(* The slots of a table are modelled in HashTable; here a table is two     *)
(* blocks, one of which is replaced, and the value under one key.          *)
(***************************************************************************)
EXTENDS Integers

CONSTANTS
  Cells,          \* the cells of the arena
  Allocators,     \* pairs of an alloc and a free function
  SizeMax,        \* KEC_VECTOR_MAX and KEC_BLOB_MAX
  ContainerCalls  \* bound: calls that make or change something

Nil == "nil"

ASSUME ContainersAssumption ==
  /\ SizeMax \in Nat \ {0} /\ ContainerCalls \in Nat
  /\ Nil \notin Cells /\ Allocators # {}

VARIABLES
  cell,       \* the arena: what each cell holds
  held,       \* the cells that scripts hold
  allocator,  \* container_alloc and container_free
  blocks,     \* for each allocator, how many of its blocks were taken for a
              \* cell and not given back
  making,     \* the constructor that is running
  made,       \* calls so far
  written     \* history: what was last stored, by cell and position

containersVars == <<cell, held, allocator, blocks, making, made, written>>

Backed(kind, n, init, a) ==
  [kind |-> kind, items |-> [i \in 0..(n - 1) |-> init], cols |-> 1, owner |-> a]

Nothing == [i \in {} |-> Nil]

Swept == [kind |-> "free", items |-> Nothing, cols |-> 1, owner |-> Nil]
Bare  == [Swept EXCEPT !.kind = "bare"]   \* a foreign pointer to NULL

(* A constructor: the cell it has taken, the backing it makes for it, and  *)
(* the blocks of it that it has.                                           *)
NotMaking == [cell |-> Nil, backing |-> Swept, taken |-> 0]

(* How many blocks a backing has.                                          *)
BlocksOf(x) ==
  CASE x.kind \in {"vector", "matrix"}          -> 1
    [] x.kind = "hash"                          -> 2
    [] x.kind = "blob" /\ DOMAIN x.items = {}   -> 1
    [] x.kind = "blob" /\ DOMAIN x.items # {}   -> 2
    [] OTHER                                    -> 0

(* Where a script may look: the pair of a row and a column, or an index.   *)
Positions(x) ==
  IF x.kind = "matrix"
    THEN {<<i \div x.cols, i % x.cols>> : i \in DOMAIN x.items}
    ELSE DOMAIN x.items

(* matrix_index                                                            *)
Index(x, p) == IF x.kind = "matrix" THEN p[1] * x.cols + p[2] ELSE p
-----------------------------------------------------------------------------
(* container_mark.  Slip: a matrix is not traversed.                       *)
MarksNoMatrix(x) ==
  IF x.kind \in {"vector", "hash"} THEN {x.items[i] : i \in DOMAIN x.items} \cap Cells ELSE {}

Marks(x) ==
  IF x.kind \in {"vector", "matrix", "hash"}
    THEN {x.items[i] : i \in DOMAIN x.items} \cap Cells
    ELSE {}

(* What the collector finds: no set that holds the roots and is closed     *)
(* leaves it out.                                                          *)
Reachable ==
  {c \in Cells : \A S \in SUBSET (Cells \ {c}) :
                    held \subseteq S => \E x \in S : ~(Marks(cell[x]) \subseteq S)}

(* container_gc: the free function that the backing remembers.             *)
ReturnedTo(x, a) == IF a = x.owner THEN BlocksOf(x) ELSE 0

(* The arena and the blocks when only the cells of `kept` outlive a        *)
(* collection.                                                             *)
CellsAfter(kept) == [c \in Cells |-> IF c \in kept THEN cell[c] ELSE Swept]

BlocksAfter(kept) ==
  [a \in Allocators |-> [c \in Cells |->
     blocks[a][c] - (IF c \in kept THEN 0 ELSE ReturnedTo(cell[c], a))]]

WrittenAfter(kept) == [c \in Cells |-> IF c \in kept THEN written[c] ELSE Nothing]

(* An allocation collects when no cell is free.                            *)
Kept == IF \E c \in Cells : cell[c] = Swept THEN Cells ELSE Reachable

(* No constructor is running: it is not interrupted.                       *)
Resting == making = NotMaking

MakesCall == Resting /\ made < ContainerCalls /\ made' = made + 1
-----------------------------------------------------------------------------
(* What the constructors attach: a vector, a matrix, a blob of bytes, a    *)
(* table with nothing under its key.                                       *)
Backings(init) ==
  {Backed("vector", n, init, allocator) : n \in 0..SizeMax}
  \cup {[Backed("matrix", s[1] * s[2], init, allocator) EXCEPT !.cols = s[2]] :
          s \in {t \in (1..SizeMax) \X (1..SizeMax) : t[1] * t[2] <= SizeMax}}
  \cup {Backed("blob", n, 0, allocator) : n \in 0..SizeMax}
  \cup {Backed("hash", 1, Nil, allocator)}

(* The cell comes first, with a collection if need be (which of the free   *)
(* ones it is does not matter), and a pointer to NULL in it.  Then the     *)
(* size is looked at: out of range, it ends the constructor.               *)
TakeCell ==
  /\ MakesCall
  /\ \E x \in Cells : CellsAfter(Kept)[x] = Swept
  /\ LET c == CHOOSE x \in Cells : CellsAfter(Kept)[x] = Swept IN
       /\ cell' = [CellsAfter(Kept) EXCEPT ![c] = Bare]
       /\ \/ UNCHANGED making
          \/ \E init \in held \cup {Nil} : \E x \in Backings(init) :
               making' = [cell |-> c, backing |-> x, taken |-> 0]
  /\ blocks' = BlocksAfter(Kept) /\ written' = WrittenAfter(Kept)
  /\ UNCHANGED <<held, allocator>>

(* The header of the backing, then the bytes or slots that it points to.   *)
TakeBlock ==
  /\ ~Resting
  /\ making.taken < BlocksOf(making.backing)
  /\ blocks' = [blocks EXCEPT ![allocator][making.cell] = @ + 1]
  /\ making' = [making EXCEPT !.taken = @ + 1]
  /\ UNCHANGED <<cell, held, allocator, made, written>>

(* Slip: the header stays when the bytes are refused.                      *)
GivenUpNone == 0

(* What is freed when a block is refused: the one taken before it.         *)
GivenUp == making.taken

(* No memory for a block: an error, and a bare cell that nobody holds.     *)
BlockRefused ==
  /\ ~Resting
  /\ making.taken < BlocksOf(making.backing)
  /\ blocks' = [blocks EXCEPT ![allocator][making.cell] = @ - GivenUp]
  /\ making' = NotMaking
  /\ UNCHANGED <<cell, held, allocator, made, written>>

(* fe_set_ptr: from here on the cell owns the backing.                     *)
Attach ==
  /\ ~Resting
  /\ making.taken = BlocksOf(making.backing)
  /\ LET c == making.cell
         x == making.backing IN
       /\ cell' = [cell EXCEPT ![c] = x]
       /\ held' = held \cup {c}
       /\ written' = [written EXCEPT ![c] = [p \in Positions(x) |-> x.items[Index(x, p)]]]
  /\ making' = NotMaking
  /\ UNCHANGED <<allocator, blocks, made>>

(* No cell is free even after a collection: out of memory.                 *)
NoCell ==
  /\ MakesCall
  /\ Kept = Cells /\ \A c \in Cells : cell[c] # Swept
  /\ UNCHANGED <<cell, held, allocator, blocks, making, written>>

(* vector-set!, matrix-set!, blob-set!, hash-set! and hash-del!.           *)
StoreElement ==
  /\ MakesCall
  /\ \E c \in held : \E p \in Positions(cell[c]),
                        v \in IF cell[c].kind = "blob" THEN {0, 1} ELSE held \cup {Nil} :
       /\ cell' = [cell EXCEPT ![c].items[Index(cell[c], p)] = v]
       /\ written' = [written EXCEPT ![c][p] = v]
  /\ UNCHANGED <<held, allocator, blocks, making>>

(* vector-ref, matrix-ref, hash-ref: a script holds the element.           *)
RefElement ==
  /\ Resting
  /\ \E c \in held : \E p \in Positions(cell[c]) :
       /\ cell[c].kind \in {"vector", "matrix", "hash"}
       /\ cell[c].items[Index(cell[c], p)] \in Cells
       /\ held' = held \cup {cell[c].items[Index(cell[c], p)]}
  /\ UNCHANGED <<cell, allocator, blocks, making, made, written>>

(* hash_grow takes the new slots from the allocator of the table.          *)
GrowsFrom(x) == x.owner

GrowTable ==
  /\ MakesCall
  /\ \E c \in held :
       /\ cell[c].kind = "hash"
       /\ blocks' = [a \in Allocators |-> [blocks[a] EXCEPT ![c] =
                       @ + (IF a = GrowsFrom(cell[c]) THEN 1 ELSE 0)
                         - (IF a = cell[c].owner THEN 1 ELSE 0)]]
  /\ UNCHANGED <<cell, held, allocator, making, written>>

DropContainer ==
  /\ Resting
  /\ \E c \in held : held' = held \ {c}
  /\ UNCHANGED <<cell, allocator, blocks, making, made, written>>

(* A collection that some other allocation calls for.                      *)
CollectContainers ==
  /\ Resting
  /\ \E c \in Cells \ Reachable : cell[c] # Swept
  /\ cell' = CellsAfter(Reachable) /\ blocks' = BlocksAfter(Reachable)
  /\ written' = WrittenAfter(Reachable)
  /\ UNCHANGED <<held, allocator, making, made>>

(* kec_set_container_allocator_for.                                        *)
SetAllocator ==
  /\ MakesCall
  /\ \E a \in Allocators \ {allocator} : allocator' = a
  /\ UNCHANGED <<cell, held, blocks, making, written>>

(* fe_close sweeps everything.                                             *)
CloseContext ==
  /\ MakesCall
  /\ held' = {} /\ cell' = CellsAfter({}) /\ blocks' = BlocksAfter({})
  /\ written' = WrittenAfter({})
  /\ UNCHANGED <<allocator, making>>

ContainersInit ==
  /\ cell = [c \in Cells |-> Swept] /\ held = {} /\ allocator = CHOOSE a \in Allocators : TRUE
  /\ blocks = [a \in Allocators |-> [c \in Cells |-> 0]]
  /\ making = NotMaking /\ made = 0
  /\ written = [c \in Cells |-> Nothing]

ContainersNext ==
  \/ TakeCell \/ TakeBlock \/ BlockRefused \/ Attach \/ NoCell
  \/ StoreElement \/ RefElement \/ GrowTable
  \/ DropContainer \/ CollectContainers \/ SetAllocator \/ CloseContext

ContainersSpec == ContainersInit /\ [][ContainersNext]_containersVars
-----------------------------------------------------------------------------
ContainersTypeOK ==
  /\ held \subseteq Cells /\ allocator \in Allocators /\ made \in 0..ContainerCalls
  /\ \A c \in Cells : cell[c].kind \in {"free", "bare", "vector", "matrix", "blob", "hash"}
  /\ Resting \/ (making.cell \in Cells /\ making.taken \in 0..BlocksOf(making.backing))

(* Every block that an allocator has given out is part of the backing of a *)
(* cell in use, or in the hands of the constructor that runs, and goes     *)
(* back to the same allocator: nothing leaks when a constructor is refused *)
(* a cell, its first or its second block, or when a table grows, and no    *)
(* allocator frees what another one made, whenever the embedder changes it.*)
InHand(a, c) == IF making.cell = c /\ making.backing.owner = a THEN making.taken ELSE 0

BackingsOwned ==
  \A a \in Allocators, c \in Cells :
    blocks[a][c] = InHand(a, c) + (IF cell[c].owner = a THEN BlocksOf(cell[c]) ELSE 0)

(* What a script holds, and what is in it, is never swept, and at each     *)
(* position is what was last stored there, whatever was stored elsewhere   *)
(* and however many collections ran.                                       *)
ElementsAreKept ==
  \A c \in Reachable :
    /\ cell[c] # Swept
    /\ \A p \in Positions(cell[c]) : cell[c].items[Index(cell[c], p)] = written[c][p]
=============================================================================
