----------------------------- MODULE MCRuntime -----------------------------
(***************************************************************************)
(* What stands between a script and the C library: guards, tables, the     *)
(* backings of containers, and the primitives that hold resources.  They   *)
(* share no state, so each is run on its own: `focus` chooses which.       *)
(*                                                                         *)
(* Guards: three slots and calls nested four deep, enough for try inside   *)
(* load inside a public call, for every slot to be in use, and for a       *)
(* primitive that holds a buffer on top.  Tables: four keys, three of      *)
(* which collide and two of which compare byte by byte, in four slots that *)
(* can double once, so that probes wrap, tombstones fill the table and     *)
(* memory runs out, and a key of no hash.  Containers: two cells           *)
(* and two allocators, so that a container holds another while memory runs *)
(* out and the allocator changes.  Primitives: strings of up to three      *)
(* bytes of two kinds, files with NULs of which any part is read, indices  *)
(* on both sides of a string, four-bit integers.                           *)
(***************************************************************************)
EXTENDS Guards, HashTable, Containers, HostCalls

CONSTANTS k1, k2, k3, k4, pair

VARIABLE focus

runtimeVars == <<vars, tableVars, containersVars, hostVars, focus>>

MCHash == [k \in {k1, k2, k3, k4} |-> CASE k = k1 -> 3 [] k = k2 -> 7 [] k = k3 -> 15 [] k = k4 -> 4]

MCStrings == UNION {[1..n -> {1, 2}] : n \in 0..3}
MCFiles == UNION {[1..n -> {0, 1}] : n \in 0..3}
MCIndices == -1..4
MCNumbers == -8..7

RuntimeInit ==
  /\ Init /\ TableInit /\ ContainersInit /\ HostInit
  /\ focus \in {"guards", "table", "containers", "host"}

GuardsStep(A) ==
  focus = "guards" /\ A /\ UNCHANGED <<focus, tableVars, containersVars, hostVars>>
TableStep(A) ==
  focus = "table" /\ A /\ UNCHANGED <<focus, vars, containersVars, hostVars>>

RuntimeNext ==
  \/ GuardsStep(Next)
  \/ TableStep(TableNext)
  \/ focus = "containers" /\ ContainersNext /\ UNCHANGED <<focus, vars, tableVars, hostVars>>
  \/ focus = "host" /\ HostNext /\ UNCHANGED <<focus, vars, tableVars, containersVars>>

RuntimeSpec ==
  /\ RuntimeInit /\ [][RuntimeNext]_runtimeVars
  /\ WF_runtimeVars(GuardsStep(Unwind))
=============================================================================
