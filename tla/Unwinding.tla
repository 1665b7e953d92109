------------------------------ MODULE Unwinding ------------------------------
(***************************************************************************)
(* What error recovery promises (docs/ffi-bridge.md, section 5): an error  *)
(* unwinds to the nearest guard.  Calls are nested; an error abandons the  *)
(* innermost ones that cannot catch it, a load passes it on, and the first *)
(* other guard handles it.  There is no index, no jmp_buf and nothing to   *)
(* restore here; module Guards implements this.                            *)
(***************************************************************************)
EXTENDS Integers, Sequences

CONSTANTS
  Catchers,   \* the kinds of call that handle an error
  Forwarders, \* those that clean up and raise it again
  Others      \* those that an error abandons

VARIABLES
  stack,    \* the kinds of the calls, innermost last
  failing   \* an error is under way

vars == <<stack, failing>>

Kinds == Catchers \cup Forwarders \cup Others

Innermost == stack[Len(stack)]

Popped == SubSeq(stack, 1, Len(stack) - 1)

Call ==
  /\ ~failing
  /\ \E kind \in Kinds : stack' = Append(stack, kind)
  /\ UNCHANGED failing

Return ==
  /\ ~failing
  /\ stack # <<>>
  /\ stack' = Popped
  /\ UNCHANGED failing

Fail ==
  /\ ~failing
  /\ \E i \in 1..Len(stack) : stack[i] \in Catchers
  /\ failing' = TRUE
  /\ UNCHANGED stack

(* The calls above the nearest guard are gone, the guard is not. *)
Abandon ==
  /\ failing
  /\ \E i \in 1..Len(stack) :
       /\ stack[i] \notin Others
       /\ \A j \in (i + 1)..Len(stack) : stack[j] \in Others
       /\ stack' = SubSeq(stack, 1, i)
  /\ UNCHANGED failing

Forward ==
  /\ failing
  /\ stack # <<>> /\ Innermost \in Forwarders
  /\ stack' = Popped
  /\ UNCHANGED failing

(* The catcher returns the error to its caller as a value, or fails itself.*)
Handle ==
  /\ failing
  /\ stack # <<>> /\ Innermost \in Catchers
  /\ stack' = Popped
  /\ failing' \in {FALSE, \E i \in 1..Len(stack) - 1 : stack[i] \in Catchers}

Init == stack \in {<<kind>> : kind \in Catchers} /\ failing = FALSE

Next == Call \/ Return \/ Fail \/ Abandon \/ Forward \/ Handle

Spec == Init /\ [][Next]_vars
=============================================================================
