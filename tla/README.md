# A TLA+ model of KEC Lisp

KEC Lisp is a Lisp interpreter in C (a fork of the Fe kernel), a runtime around
it, host primitives, a standard library and a text editor written in Lisp.  This
directory models the parts whose correctness rests on sequences of steps: the
garbage collector and everything that must stay alive under it, error recovery
by `longjmp`, the shared state of the reader, containers and their backings, the
primitives that hold buffers and files, sockets, programs in several files, and
the editor's buffer, timers and host loop.

## The system

| Part | Source | State | Operations | What is hard |
|---|---|---|---|---|
| Object pool | `kernel/fe.c` | slab of cells, freelist, root stack, symlist | `object`, constructors, `fe_symbol`, `fe_set`, `fe_set_ptr`, `fe_pushgc`/`restoregc`, `fe_close` | any allocation may collect or raise, in the middle of a constructor |
| Collector | `kernel/fe.c` | mark bits, the C stack of `fe_mark` | `fe_mark`, sweep, finalizers | cycles, sharing, lists of any shape |
| Evaluator | `kernel/fe.c` | C frames, environments, the call list, the instruction count | `eval`, `dolist`, `evallist`, `argstoenv` | C locals that the collector cannot see |
| Reader, printer | `kernel/fe.c` | `ctx->nextchr`; a borrowed mark bit | `fe_read`, `fe_write` | one lookahead for all readers, which nest |
| Runtime | `runtime/kec.c` | `recover[]`, `depth`, load directories, `gc_base`, `errmsg` | public entry points, `try`, `load`, `require`, `apply` | errors cross C frames that own resources |
| Host primitives | `host/host.c` | pending buffers, random state, counters | strings, numbers, files, bits, time | narrowing, errors that leave buffers behind |
| Containers | `host/containers.c` | backings of foreign pointers | vectors, matrices, blobs, hash tables | tombstones, growth, two-phase construction |
| Sockets | `host/net.c` | descriptors behind foreign pointers | connect, listen, accept, send, receive, TLS | timeouts, half-open handles |
| Command | `cli/main.c` | the buffer's file, the terminal | `run`, `repl`, `nemacs`, `test`, `build` | the editor's loop: keys, timers, save, quit |
| Core library | `core/*.lsp` | none | lists, strings, JSON, sort | pure functions |
| Editor | `editor/*.lsp` | text buffers, undo and redo stacks, kill ring, mark, snapshot ring, keymaps, timers, history | editing, undo, search, timers, minibuffer | undo records that hold positions; thunks that arm timers |

The parts meet in three places.  Every primitive allocates through the pool, so
the collector may run under any C function that holds an object.  Every error
goes through `fe_error` to `on_error`, which jumps over whatever C frames lie
above the nearest guard.  And the one context (freelist, root stack, lookahead,
guards) is shared by all nested loads, evaluations and reads.  Nothing in the
program runs in parallel: the interleavings are those of nested calls, of the
collector with the functions that allocate, of errors with everything, of timers
and thunks with the registry they change, and of the world (peers, signals, the
terminal, the clock) with whatever the program waits for.

## Modules

| Module | Models | Run |
|---|---|---|
| `FeGraph` | cells, references, which fields `fe_mark` follows, reachability | |
| `FeCollector` | `collectgarbage`, one visit of `fe_mark` or one cell of the sweep at a time | *command* |
| `FeAlloc` | `object()`: the freelist, the collection at its head, the root stack | through the next two |
| `FeHeap` | constructors, symbol table, foreign pointers, finalizers, errors, `fe_close` | *heap_graph*, *heap_symbols* |
| `FeEval` | `eval` and its helpers, as users of the collector | *eval_roots*, *eval_locals* |
| `Guards` | guards, `try`, `load`, public calls, resources, `on_error` | *runtime* |
| `Unwinding` | what error recovery promises: the abstract specification that `Guards` implements | *runtime* |
| `HashTable` | the hash-table primitives, slot by slot | *runtime* |
| `Dictionary` | what a hash table promises: the abstract specification that `HashTable` implements | *runtime* |
| `Containers` | vectors, matrices, blobs and tables as cells with backings from an allocator | *runtime* |
| `HostCalls` | primitives that hold buffers, files and directories, and what they compute | *runtime* |
| `NetSock` | socket handles: connect, listen, accept, TLS, close, finalizer | *net* |
| `NetStream` | the bytes of `tcp-send` and `tcp-recv` | *net* |
| `Reader` | `read_`, and the readers that share `nextchr` | *command*, *reader_string* |
| `Loading` | programs in several files: `kec build`, `kec run`, `load`, `require`, `provide`, `try` | *command* |
| `ReplHost` | how `kec repl` collects lines into forms, and what the reader makes of them | *command*, *repl_discard* |
| `TextBuffer` | the text buffer: motion, edits, undo and redo, mark, kill ring, search | *editor*, *text_undo* |
| `UndoHistory` | what undo promises: the abstract specification that `TextBuffer` implements | *editor* |
| `Timers` | the timer registry and the wait of the host loop | *editor* |
| `NemacsHost` | the host loop: keys, prefixes, search, save, quit, end of input | *editor*, *nemacs_quit* |
| `FeGraphTheorems`, `RecursionTheorems` | lemmas about reachability; about recursive functions, folds and flattened sequences | |
| `FeHeapProofs`, `FeEvalProofs` | the proofs of the pool and its symbol table, and of the evaluator as its user | |
| `HostProofs` | the proofs of hash tables (and that they implement `Dictionary`), containers, host primitives and error recovery (and that it implements `Unwinding`) | |
| `NetProofs` | the proofs of sockets and of the bytes of a connection | |
| `CommandProofs` | the proofs of the collector, the reader, programs in several files, the repl, and the editor's host loop and timers | |
| `TextProofs` | the proofs of the text buffer, and that it implements `UndoHistory` | |

`MCRuntime`, `MCCommand`, `MCNet` and `MCEditor` put components side by side for
TLC.  The components of one share no variables and, in the code, no state that
the properties speak of, so the full product would only multiply state spaces:
a variable `focus` chooses at the start which one moves, and the others keep
their initial states.  Each module has a specification of its own as well
(`Spec`, `LoadSpec`, `StreamSpec` ...).  Values of constants are in the `.cfg`
file; the definitions they use are in the `MC` module.  Each module states a type
invariant; those of the modules that have proofs are proved, on their own or as
a part of the inductive invariant.  The runs check the deeper invariants, which
fail when a variable leaves its type.

Some operators are marked as a *slip*: the form a definition would have after a
plausible mistake in the code.  They are used nowhere in the specifications;
replacing the definition that follows them makes a property fail, which is how
it is known that the property says something (`PROJECT.json`, `mutants`).

### The collector

`FeCollector` starts from any heap and any roots.  `MarkCell` is the code of
`fe_mark` between `begin:` and the end of the switch, `calls` the C stack of its
recursion on the car, `MarkReturn` its return; `SweepCell` is one iteration of
the sweep.  A foreign pointer's mark callback is represented by one element: its
backing holds one object.  `CollectionIsAtomic` states what a collection does as
a whole: exactly the unreachable cells become free, everything else is as it
was, exactly the dead foreign pointers are finalized.  It is proved for every
heap, and it is what allows `FeAlloc` to run a collection as part of one step.

Run *command*, with `focus` on the collector: all graphs on three cells, with no root (`fe_close`), one and
two.  Three cells are enough for a cycle through a shared cell and for garbage
that points into what is live.  The liveness property assumes that the
collector goes on (`WF` of `Next`): it is a loop in C that nothing interrupts.

### The pool

In `FeHeap` a C function that allocates once is one step; `fe_symbol`, which
allocates four cells or more, is a step per allocation, with `job` for its
locals.  Before each of its allocations everything may be full: `OutOfMemory`
and `Overflow` raise there, and what was built so far is left to the collector.
An error restores the root stack to some index saved by an outer guard, so to
any length up to the one at the start of the failing function.  The freelist is
a set: `fe_open` and the sweep both link the slab in ascending order and a
collection runs only when it is empty, so its head is its highest cell.

`HeapSound` says that the collector meets no free cell and that nothing reachable
is free.  `fe_symbol` tags its cell as a symbol while its cdr still holds the
freelist link, and a collection at its next allocation follows this link from a
root.  This is harmless only because a collection starts when the freelist is
empty, so the link is nil or a cell that has been used since.
`LostOnlyByOverflow`: `object()` unlinks a cell before it pushes it on the root
stack; when that overflows, the cell keeps its FREE tag on no list and no sweep
returns it.  That is the only way to lose one.
`BackingReleasedOnce`: of the backings that were ever attached to a foreign
pointer (the domain of `released`), each is owned by one cell and not released, or
was released once and is owned by none; after `fe_close` all were released.

Runs: *heap_graph*, programs over pairs, numbers and foreign pointers in three
cells with two root slots, so that errors and collections happen at every step.
*heap_symbols*, two names, one of which takes two string cells, in nine cells,
the room for two symbols or for one symbol twice, so that the collections that
`fe_symbol` starts meet its own half-built symbol.  An arbitrary program around
a half-built symbol is covered by the proof only.
The root stack is bounded by `GCStackSize`, so the state spaces are finite
without further bounds.

### The evaluator

`FeEval` follows the objects that `eval` holds in C locals.  A program is
arbitrary: at each entry of `eval` the expression is chosen among a literal, a
variable and the forms that allocate or hold a value across an evaluation
(function call, `list`, `do`, `fn`, `let`, `set`, `cons`, `setcar`).  The objects
are divided in two.  `Protected` are those that the code keeps reachable by
itself: the environment and code (pushed by `dolist`), the argument list under
construction, the pair that a closure is built from; with the returned value
(pushed on exit) they survive: `InFlightSurvive`.  `Callee` and `Operand` are the
objects that the code leaves to the variable they came from.  *eval_locals* shows
that a program may overwrite that variable, allocate, and have the object
collected while `eval` still uses it.

The frames left out (`if`, `and`, `while`, `quote`, arithmetic) hold nothing
across an allocation that those above do not; `is`, `<` and `<=` hold their first
operand as `cons` does.  Macros are left out: their call site is overwritten with
a copy of the expansion.  Bounds: two cells beyond the four of one global
function, six or twelve root slots, and the instruction budget, which the code
has too.  After a step that freed a value in use the model stops, since the
program's behaviour is undefined from there on.

### Error recovery

`Guards` keeps the C stack of the activations that own something: `calls`.  A
`jmp_buf` is the position of the activation that called `setjmp`, and `Dead`
after its return.  The arrays, counters and restores are those of the code;
what runs inside is free.  `GuardsSound` joins `GuardsAreLive` (slots below
`depth` are exactly the live guards, in order), `ErrorsAreGuarded` (no error
reaches the `exit` in `fe_error`), `RootsAreBounded` and `RestoresOnlyDrop` (the
root stack) and `MessageIsKept`.  `ResourcesOwned`: files, directories and
registered buffers are those of the activations that are left.  `Unwinds`: the
whole implements `Unwinding`, where calls nest and an error abandons those above
the nearest guard.  `ErrorsEnd` assumes weak fairness of the unwinding steps
only: each is straight-line C after a `longjmp`.

Bounds: three guard slots for 32, four nested activations, three root slots.
With three slots the guard stack overflows inside two nested guards of different
kinds, and a primitive's buffer fits on top.

### Hash tables

`HashTable` has the slots, `cap`, `used` and `count` of the code.  `hash_grow`
moves one slot per step; nothing else runs in between, the steps are there to
compare the table with `Dictionary` at each.  `Ends` is the slot where the probe
loop stops, `Vacant` the slot that it prefers for an insertion.  The refinement
mapping takes the entries of the new array and those of the old one that are
still to be moved.  `hash_index` raises in every operation for a key that is no
number, string or symbol (`Unhashable`), and for want of memory when it compares
two long strings of one length (`Long`): `IndexFails`, and `SetGrownFails` for a
`hash-set!` that has grown the table by then and leaves it grown, without the key.
The move itself compares no keys and cannot raise.  `TableSound`: a probe always ends, the counters are exact,
each entry is where a probe for its key finds it.

Bounds: four keys of which three have the same home slot, the last one of the
array so that probes wrap, two of them long strings; one key that cannot be
hashed; capacities four and eight in place of eight and up:
the load test, probe and growth do not depend on the first capacity, and at four
slots a table holds two keys and grows at the third.

### Containers

`Containers` takes a container as a cell and the blocks of its backing.  A
constructor (`making`) takes the cell first, with a collection if there is none
(`TakeCell`), then its blocks one by one (`TakeBlock`: two for a table and for a
blob that is not empty), then attaches them (`Attach`).  Any block may be refused
(`BlockRefused`): what was taken before it goes back, and the cell stays a pointer
to NULL until it is collected.  The allocator may be changed by the
embedder between any two calls.  `BackingsOwned` counts blocks for each allocator
and cell: what an allocator has given out for a cell is exactly what the
constructor at work has in hand for it, or what the cell has that names the
allocator as its owner.
`ElementsAreKept`: what scripts can reach is not swept, and every position holds
what was last stored at it (rows and columns of a matrix share one array).

Bounds: two cells, so that one container holds another and memory runs out; two
allocators; two elements; four calls that make or change something.

### Host primitives

A primitive of `HostCalls` is a sequence of instructions: copy the argument,
register the copy, make a string, free it, and so on; each acquisition may fail
and each allocation of an object may raise.  `NothingLeftBehind`: however it
ends, what it took is given back, and nothing that is registered has been freed,
with one exception that the code has: `list-dir` leaves its directory open when
a name finds no memory.  `AnswersAreRight` compares what the string primitives, `read-file`,
`read-blob` and `number->string` compute in place with what
their comments say.  A numeral is its sign and its digits.  A file is measured
before it is read, and `fread` may deliver less than that, which the code
tolerates (host.c:794, 894): the rest of the buffer is what `malloc` left there
(`Stale`), so the property is about the bytes that were delivered: a text has them
up to the first NUL, a blob has them all.  Integers wrap at `IntMax`, so that the least integer is its
own negation.

Bounds: all strings of up to three of two bytes, files with and without a NUL of
which any part is read, indices from -1 to 4, all four-bit integers in radix 2 and
3, two names in a directory.

### Sockets

`NetSock` models a primitive as its steps (`call.pc`) between which it may raise.
The kernel's descriptor table gives out the lowest free number, so that a number
closed once is used again at once.  `SocketsOwned`: every open descriptor and
TLS session has one owner, the handle or the primitive still at work, and is
closed once.  `HeldAreReady`: what a script can reach is in blocking mode, and
has finished its handshake if it is a TLS handle.  `ConnectEnds`: a connect with
a timeout ends.  Fairness: of the C steps and of a `poll` that has a timeout;
`connect` without one and the peer have none.

Two further properties are stated in the module, do not hold, and are part of
no run: `DeadlineIsCarried` (a timeout of 0 reaches `SO_RCVTIMEO` as "no
deadline", net.c:234) and `AcceptReturns` (the connection may be gone between
`poll` and the blocking `accept`, net.c:768).

`NetStream` has a peer that reads, writes, shuts down, cuts or resets, partial
writes, signals, deadlines, and errors while the received bytes are turned into a
string, in clear and over TLS.  A byte is named by its payload and its place in
it.  `BytesInOrder`: what the peer has got of a payload is a prefix of it, all of
it if `tcp-send` has answered, and payloads come one after the other; what the
script has got is in the order in which the peer wrote it, ahead of what is still
in the buffers, and free of NUL.
`NilIsTheEnd`: nil means that the peer ended its stream.  `CallsEnd` is
claimed of the calls that have a deadline: it assumes weak fairness of the
primitives' own loops, the kernel's timer in them, and nothing of the peer.

Bounds: two handles, two descriptors, two addresses, one signal; payloads of up
to two bytes sent twice, three received, one of them a NUL.

### The reader

Readers nest: a form that is being evaluated may load a file or read a string.
`Reader` gives each reader its text and position and all of them one `nextchr`,
as the code does, and records for each reader what it would have read alone.
A read may raise after any of its tokens (`ReadRaises`): `fe_symbol` and
`fe_number` allocate after the delimiter was stored (fe.c:734-738), `fe_cons` and the
root stack after that, `read-all` keeps what it read, and the atom that was read may
exceed the budget of the evaluation.  `fe_error` does not reset `nextchr`.

`ReadersAreIndependent` compares the two after every read.  A lookahead is a stray
if the reader that it belonged to is gone; a reader that has met none has read
what it would have read alone.  `stray` tells the two causes apart: a read that
raised, and `read-string`, which stops after the first form.  The second happens
without any error, which *reader_string* shows.  No other end of a reader, and no
nesting, makes a difference: that is what the property says, and what a lookahead
left behind a list, for one, would violate.

Bounds: three programs in which lists and atoms alternate, eight texts that are
empty, whole, cut off within a list, or end behind an atom or a delimiter (all texts of
up to two characters in *reader_string*), three readers deep.  A
delimiter is one character, so a text needs two for a lookahead to be left over.

### Programs in several files

`Loading` builds a program and then runs it, in a file system that does not
change.  A file is a sequence of forms; a path is a sequence of names.  Build
recurses through `bundle_forms`, and a parse error jumps out of all of it; run
recurses through `eval_file_or_error`, where each level holds a guard, a file
and a directory.  `FilesAreThoseBeingRead`: the open files and the load
directories are those of the files being read, on every path.
A `try` holds
a guard but no file, so the file of a frame is found by counting the frames
below it that read one.
`BundleIsTheProgram`: a bundle that was written holds the plain forms that a run
evaluates, in order (the comment in `bundle_forms` promises the same dependency
graph); it is about programs that only evaluate and load.  `RequiredOnce`: no
form is evaluated twice in a program that only requires, as long as no files
require each other in a circle, none is required under two names and none fails:
`h_require` records the name that it was given, not the file, and only when the
file has ended.  `CommandEnds`: build and run end, on
circular programs as well, because both have a limit of depth; the fairness is
that of one C thread.

Bounds: a main program of two forms in one directory, a file beside it, one in a
subdirectory and one in the current directory, each missing, faulty, circular,
loading itself under a `try`, or
plain: every pair of places that a relative name can mean.  Four guards and a
bundle depth of two, for 32 and 16.

### The dialogue

`ReplHost` is the loop of `do_repl`: it adds up `paren_delta` of each piece that
`fgets` returns, and evaluates what it has collected when the sum is not positive.
The text that it hands over goes to the reader, whose rules are others, and which
`ReadChar` translates from `read_` without a look at `paren_delta`: characters
that end an atom, quotes and dots that want a form behind them, strings, comments,
a stray `)`.  `FormsAreWhole`: what is evaluated leaves the reader at rest, outside of
every form, and no shorter run of its lines would have done so; every piece is
evaluated or discarded, once and in order.

It is about texts made line by line (`LineByLine`).  Excepted are those in which
the two scanners differ: `paren_delta` starts anew at each piece, so
a string must end on its line, and a line must fit the buffer of `fgets` if it has
a string or a comment at the cut; a `"` within an atom, as in `(a")`, is a
character of a symbol for the reader and starts a string for `paren_delta`, so that
the form is never complete; a CR ends a comment for the reader alone.  Excepted
as well are texts that the reader refuses (a stray `)`) and quotes that dangle
at the end of a line outside of every list: these are evaluated with the line that
they are on.  `host-repl-line` (editor/95-host.lsp) evaluates the first form of the text and
drops the rest, which is not modelled, nor is the length of symbols.

*repl_discard* shows what happens to a form that is too long: `DiscardForm` drops
what was collected and the piece that did not fit, and the rest of the same form is
evaluated as if it began one.

Bounds: twelve pieces with lists, strings with brackets and escapes, comments,
quotes, dots, a quote within an atom, a line cut by the buffer, and `:q`; four pieces.  For
*repl_discard* one list on a line of three pieces, two of which fill the buffer.

### The text buffer

`TextBuffer` has each verb as one step on the zipper of lines, the stacks of undo records with their
coalescing, the mark and the kill ring.  Records hold positions and characters;
the refinement gives each the text it was made in (`was`, a history field), and
`Undoing` says that the buffer implements `UndoHistory`: an edit remembers the
text before it, or joins the edit before it, undo and redo go back and forth
between remembered texts, and the oldest are forgotten at the cap.  `ChangesAreMarked`: no command changes the text and leaves the
buffer clean.

A verb is atomic in the model.  In the code it allocates on the way, and may run out
of memory or budget between the undo record (32-text.lsp:284) and the splice: the
record then is there without its edit.  A verb that raises half-way is not
modelled, and neither property is claimed of it.

Undo holds as long as a region is used only while its mark is in the text
(`StaleMarks = FALSE`, run *editor*).  A mark is a plain position that edits do
not move; *text_undo* lifts the condition and shows the record that undo cannot
replay.  Bounds: two lines, four commands besides motion, undo and redo included,
caps of two for undo records and coalescing and one for kills: enough to fill
each, to merge and to drop records.

### Timers

`Timers` counts ticks.  A timer holds what is left of its delay; delays and
repeats below `Precision` may be lost in rounding, so that a timer can be due for
ever.  The registry is a set: its order decides only which of the timers that are
due together fires first, which the model leaves open.  While a thunk of the
snapshot runs (`Thunk`) it may arm and cancel as often as it likes; it ends
(`Fire`) or raises, and then its timer is cancelled.
`NeitherLostNorRevived`: the registry is what was
armed and neither cancelled nor spent.  `NoBusySpin`: between two firings at
least the poll floor passes.  `TimersFire`: what is due fires or is cancelled,
unless the editor waits in a prompt.  Fairness: time passes and the loop goes
on; nobody has to type.  Bounds: three timers, three keys or signals; ticks are
relative, so there is no bound on time.

### The host loop of the editor

`NemacsHost` reads one byte at a time; the text of the buffer is a version
number, the disk has a version, or part of one after a write that failed.
`CleanIsOnDisk`: a buffer that is not marked modified is what the file holds,
except after a failure that the code does not see (`fclose` is not asked,
host.c:858) or a save of a clean buffer that failed.  `QuitIsAsked`: without a
question the editor ends with unsaved edits only when the input has ended, when
the query itself failed, or when the terminal killed it.  That last exception is
*nemacs_quit*: `edit_raw_on` leaves `ISIG` set, so at a terminal the C-c of
C-x C-c is a signal.  (`IXON` is left as well: a C-s typed at a terminal never
reaches the editor; through a pipe it does.)  After the
answer y the editor exits whether or not the save went well (main.c:422), which
`QuitIsAsked` allows: the question was on the screen.  `EditorEnds`: when the input ends
the editor ends, whatever it was waiting for; the fairness is that of the read.
Bounds: two edits, all keys that the loop tells apart.

## Runs

| Run | Module | Properties |
|---|---|---|
| *heap_graph* | `MCFeHeap` | `HeapSound`, `BackingReleasedOnce`, `LostOnlyByOverflow` |
| *heap_symbols* | `MCFeSymbols` | `JobCellsAlive`, `SymbolTableSound`, `SymbolsAreForever` |
| *eval_roots* | `MCFeEval` | `InFlightSurvive`, `CallersRootsAreKept` |
| *runtime* | `MCRuntime` | `GuardsSound`, `ResourcesOwned`, `Unwinds`, `ErrorsEnd`; `TableSound`, `IsDictionary`; `BackingsOwned`, `ElementsAreKept`; `NothingLeftBehind`, `AnswersAreRight` |
| *net* | `MCNet` | `SocketsOwned`, `HeldAreReady`, `ConnectEnds`; `BytesInOrder`, `NilIsTheEnd`, `CallsEnd` |
| *command* | `MCCommand` | `CollectionIsAtomic`, `MarkAndSweepEnd`; `ReadersAreIndependent`; `FilesAreThoseBeingRead`, `BundleIsTheProgram`, `RequiredOnce`, `CommandEnds`; `FormsAreWhole` |
| *editor* | `MCEditor` | `Undoing`, `ChangesAreMarked`; `NeitherLostNorRevived`, `NoBusySpin`, `TimersFire`; `CleanIsOnDisk`, `QuitIsAsked`, `EditorEnds` |

Five runs end in a counterexample; each is a disagreement between the code and
what its documentation or comments say (`PROJECT.json`, `findings`):

| Run | Property | What the code does |
|---|---|---|
| *eval_locals* | `LocalsSurvive` | the function being called, or a first operand, is collected while in use |
| *reader_string* | `StringsStayApart` | `read-string` leaves a delimiter to the program that called it |
| *repl_discard* | `WholeFormIsDiscarded` | the rest of a form that was too long is evaluated |
| *text_undo* | `Undoing` | undo of a kill whose mark was stale does not bring the text back |
| *nemacs_quit* | `QuitKeyAsks` | at a terminal C-x C-c ends the editor without asking |

## Proofs

`CommandProofs` proves of the collector `TypeOK`, `MarkedIsReachable`,
`CollectionIsAtomic` and `MarksCleared` for every number of cells, every heap and every root
sequence, from `NAssumption` and `StartAssumption` alone.  The inductive
invariant `IInv` says, besides types, of the mark phase: every root up to `next`
is marked or is the one being visited; a marked cell's successors are marked, or
are being visited, or hang from the cdr of a pair in `calls`; only reachable
cells are marked.  When `calls` is empty and the roots are done, the marked set
is therefore closed and holds the roots, so it contains `Reach`, the least such
set (`FeGraphTheorems`); with the third part they are equal.  Of the sweep it
says that the cells below `next` are in their final state and those from `next`
on in their initial one.  Without the clause on `calls` the invariant is not
inductive: a marked pair whose cdr is still to be visited breaks closure.

`HostProofs` proves the safety properties of `Guards` that the *runtime* run
checks (`GuardsSound`, the conjunction of five, and `ResourcesOwned`), and that
`Guards` implements `Unwinding`, for every number of guard slots, every root
stack and every nesting, from `GuardsAssumption` alone.  None of the properties
is inductive as it stands; `GuardsInv` joins them and adds

- `Nested`: only public calls are outermost, a buffer is held by the innermost
  activation only, the setup guard is slot 0, and `run_forms` had room for the
  value it pins.  Without it an error could be raised with no guard below it, a
  `longjmp` could pass over a buffer that an outer call still owns, and
  `OpenReturn`, which sets `depth` to 0, could drop the guards of others;
- `Installed`, `Returnable` and `Ordered`, the parts of `GuardsAreLive` (they
  also hold once the context is closed);
- `Owned` and `Held`: `ResourcesOwned` with the innermost activation as the only
  holder of a buffer;
- `Floored`: what the outermost call found on the root stack, from which
  `RootsAreBounded` follows when it returns.

A step calls `setjmp` (`EnterInv`), leaves a function (`ExitInv`), jumps
(`JumpInv`), registers a buffer (`HoldInv`) or does none of these (`StayInv`);
each action is an instance of one.  `JumpLeaves` is the heart of it: above the
guard that `on_error` jumps to there is at most the holder of a buffer that it
has just freed.

`FeHeapProofs` proves the properties of `FeHeap` that the runs check
(`HeapSound`, `JobCellsAlive`, `SymbolTableSound`, `BackingReleasedOnce`,
`LostOnlyByOverflow`, `SymbolsAreForever`), for every arena, root stack, set of
names and program.  `HeapSound` alone is not inductive: that nothing reachable is
free says nothing of what an error is about to leave reachable, nor of the
freelist link in a half-built symbol.  `IInv` adds

- `FreeSafe`: what an error would leave on the root stack (`Outer`) meets no free
  cell; what is reachable now meets at most one, the head of the freelist, and
  only while `fe_symbol` holds a cell whose cdr is still its link;
- `JobInv`: how far `fe_symbol` has come: its cells are rooted, out of reach of
  everything that it found, and well formed up to the next allocation.  Therefore
  an error may drop them, and a collection may not;
- `TableInv`: the cells that the symbol list is made of are not the ones that
  `fe_set` writes to.

A collection is one step there because `CollectionIsAtomic` is proved.

`FeEvalProofs` proves `TypeOK`, `InFlightSurvive` and `CallersRootsAreKept` for
every arena, root stack, budget and program.  `IInv` is the conjunction of
`HeapInv` (what frames and roots reach is closed and not free), `AllWell` (each
frame refers to such cells only), `Nesting`, `CtlInv` and `StackInv`, which is
the argument: what a frame protects lies on the root stack below the index that
the next frame saved.  So restoring that index at the end of an `eval` keeps the
callers' roots, and pushing above it harms nobody.  Only the innermost frame may
be an exception, in `dolist` between two forms, where nothing allocates.  The
lemmas follow the ways in which the innermost frame moves: it goes on
(`TopGoesOn`), pushes (`TopGrows`), calls, ends with a value (`Exited`,
`TopReturns`) or is abandoned by an error (`Abandoned`).

For hash tables `HostProofs` proves `TableSound`, and that `HashTable` implements
`Dictionary`, for every hash function, first capacity and set of keys, whatever
operations raise.  Beside
`TableSound` the invariant needs `GrowthInv`: while `hash_grow` moves slots, the old
array has few enough of them to leave the new one an empty slot, and none that is
still to be moved is in the new one already.

For containers it proves `BackingsOwned` and `ElementsAreKept` for every number of
cells, allocators and sizes.  `ContainersInv` asks more than the properties: cells
in use refer to cells in use, garbage included.  Otherwise a handle dropped and
swept could leave a dangling reference in another piece of garbage, which is
harmless until the collection after next, when the cell has been given out again.
The blocks and the history of stores are functions of the arena and of the
constructor at work then (`BlocksFor`, `WrittenFor`).

For primitives it proves `NothingLeftBehind` and `AnswersAreRight` for all
arguments.  `PrimInv` says at which instruction a primitive is, that what it holds
is what the instructions before have taken and not given back (`Holds`), and
likewise for what is registered.  `ProgramIsOrdered` checks the eleven programs
for the order this rests on: take all, register, make the object, unregister, give
back.  Splitting and printing numbers go on in steps (`SplitScan`, `Digits`), and
what they have so far is, put together, what they have passed: joined segments and
digits read back are folds over a sequence that grows, which `RecursionTheorems`
unrolls by one.

`NetProofs` proves `SocketsOwned` and `HeldAreReady` for any number of handles,
descriptors and addresses.  `SocketsOwned` counts; the invariant names the owner
instead (`OneOwner`), and `Locals`, `Making` and `Backing` say, for each place of
each primitive, which of its locals are set and what the handle has that it is making.
For the stream it proves `BytesInOrder` and `NilIsTheEnd`, from `Outgoing` (the last
byte handed over is the one that the loop has counted) and `Incoming` (what the
script has, what is in the buffers and what the peer has yet to write are
ascending; once nil was returned the buffers are empty and the peer has stopped).

`CommandProofs` proves besides

- `ReadersAreIndependent`, for every use of the reader, `read-string` included, and
  with errors after every token: a lookahead that is no stray belongs to the
  innermost reader and is the character it consumed last, so what a reader that has
  met no stray will read is what it would read with the context to itself
  (`ReaderInv`);
- `FilesAreThoseBeingRead` of programs in several files (`LoadInv`: the n-th open
  file is that of the n-th frame that reads one, and its directory is the n-th);
- `RequiredOnce`.  In the programs that it is about, each file on the stack is
  required by the one below (`Descends`); since no files require each other in a
  circle, none is on the stack twice.  A form that has run belongs to a file on
  the stack and is behind its position, or to one that is finished and whose name
  is recorded (`Accounted`);
- `BundleIsTheProgram`.  The contents of the files lay down one walk (`Go`) from
  the first form of the main file.  Building has come from the beginning of the
  walk to where it is, and when it ends, running is at a place from which the walk
  leads to the same end (`BundleInv`, `LeadsTo`).  That build stops at depth 16
  and a run has 32 guards (`BuildDepthMax < GuardMax`) is what makes the run
  succeed;
- `FormsAreWhole` of the repl: character by character, as long as the reader is not
  spoilt, it is in a string, an escape or a comment when `paren_delta` is, and its depth
  grows by the same (`ReadAgrees`); so a piece adds to the depth of the reader what
  `paren_delta` says (`PieceAdds`), and the depth of what was collected is the sum,
  positive after every piece but the last (`ReplInv`);
- `CleanIsOnDisk` and `QuitIsAsked` of the editor's host loop: while the flag is
  clear the text is the version last opened or saved (`NemacsInv`);
- `NeitherLostNorRevived` and `NoBusySpin` of its timers: every timer that is due is
  re-armed or spent in the step that takes the snapshot (`RegistryInv`), and
  while the loop waits, the ticks since the last firing and those that poll has
  left add up to the floor at least (`WaitInv`; signals start the wait again).

`TextProofs` proves `TextTypeOK` and `ChangesAreMarked` of the text buffer, and that
it implements `UndoHistory` (`Undoing`), for every text, number of commands and
cap on the stacks and on merging.  The refinement assumes `StaleMarks = FALSE`, the
setting of the run *editor*; *text_undo* shows the violation without it.  A record
holds a row, a column and a text, while what undo promises is about whole texts,
so the argument is this:

- a text has one division into lines, because no line contains a line break
  (`LinesAreUnique`), and therefore a row and a column name one point of it
  (`SpotOnce`, `GotoAt`);
- each mutator is described by the text before the point and the text after it
  (`InsertPoint`, `BackspacePoint`, `DeleteForwardPoint`, `InsertStringPoint` ...),
  multi-character edits by induction over their characters;
- the invariant `UndoGood` says that each record of either stack, applied to the
  text that the records above it lead to, gives the text it remembers (`Back`).
  Without that clause for the whole stack, and not for its top alone, undo after
  undo is not covered;
- each command is then quiet, an edit, an undo or a redo of `UndoHistory`
  (`Outcome`).  The hard ones are edits that extend the last record
  (`MergedOutcome`, `RecordDelOutcome`) and the region between mark and point
  (`RegionSpans`).

The proofs use the named assumptions on constants, which the runs evaluate, and
nothing else but the one setting named above.

Induction over data.  The induction theorems of the library take an operator as a
parameter, which no installed prover can instantiate.  `RecursionTheorems` states
the same facts for sets and functions, from the well-foundedness of the naturals:
a set of numbers that holds 0 and, with a number, the next, holds all (`UpTo`); a
recursion given by a function of its step exists and is unique
(`RecursionExists`); and what folds and `FlattenSeq` do with one element more
(`FoldSteps`, `FlattenAppend`).

Model-checked only: the liveness properties `CollectionEnds` (`MarkAndSweepEnd`), `ErrorsEnd`,
`ConnectEnds`, `CallsEnd`, `CommandEnds`, `TimersFire` and `EditorEnds`, since
fairness and `ENABLED` are out of the prover's reach.  All other properties of the
passing runs are proved.

## Plan

Model: macros and their in-place expansion in `FeEval`; the printer; symbol
protection; the snapshot ring and the structural buffer.

## Not modelled

Mathematics, bit operations, random numbers, clocks, argument parsing, rendering
and the Core library are sequential code without state shared between steps. The
printer borrows a mark bit of each pair and gives it back before it returns. The
structural buffer (zipper, snapshot ring, persistence) is reached by no command
of the program: `nemacs` edits text buffers. Keymaps, modes and the history of
the dialogue are tables. The Emacs mode, website, examples and experiments use
the language and are no part of it. TLS, the kernel, the terminal and the clock
are external.
