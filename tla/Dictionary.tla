------------------------------ MODULE Dictionary ------------------------------
(***************************************************************************)
(* What a hash table is to Lisp (docs/language.md, "Containers"): an       *)
(* association of keys to values, and the answer of the last operation.    *)
(***************************************************************************)
EXTENDS Integers, FiniteSets

CONSTANTS Keys, Values, Absent

VARIABLES
  dict,   \* the live associations: a function on a set of keys
  answer  \* what the last operation returned, and which operation it was

vars == <<dict, answer>>

Present(k) == k \in DOMAIN dict

Set(k, v) ==
  /\ dict' = [x \in DOMAIN dict \cup {k} |-> IF x = k THEN v ELSE dict[x]]
  /\ answer' = <<"set", v>>

Ref(k) ==
  /\ answer' = <<"ref", IF Present(k) THEN dict[k] ELSE Absent>>
  /\ UNCHANGED dict

Del(k) ==
  /\ dict' = [x \in DOMAIN dict \ {k} |-> dict[x]]
  /\ answer' = <<"del", Present(k)>>

Count ==
  /\ answer' = <<"count", Cardinality(DOMAIN dict)>>
  /\ UNCHANGED dict

List ==
  /\ answer' = <<"keys", DOMAIN dict>>
  /\ UNCHANGED dict

(* An error (no memory, no key to hash): nothing has happened. *)
Fail ==
  /\ answer' = <<"error", Absent>>
  /\ UNCHANGED dict

Init == dict = [x \in {} |-> Absent] /\ answer = <<"none", Absent>>

Next ==
  \/ \E k \in Keys : Ref(k) \/ Del(k) \/ \E v \in Values : Set(k, v)
  \/ Count \/ List \/ Fail

Spec == Init /\ [][Next]_vars
=============================================================================
