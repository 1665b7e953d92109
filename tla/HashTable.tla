------------------------------ MODULE HashTable ------------------------------
(***************************************************************************)
(* The hash tables of host/containers.c: open addressing with linear       *)
(* probing, tombstones, and doubling when three quarters of the slots are  *)
(* or have been in use.  A table implements module Dictionary.             *)
(*                                                                         *)
(* hash-set! is two steps here when it grows: the move of the entries, one *)
(* slot at a time, and the insertion.  Nothing else runs in between.  The  *)
(* index of a key may raise instead: the key is neither a number, a string *)
(* nor a symbol, or no memory is left to compare two long strings.  When   *)
(* hash-set! has grown the table by then, the table stays grown.           *)
(***************************************************************************)
EXTENDS Integers, FiniteSets

CONSTANTS
  Keys, Values,
  Unhashable,  \* keys that are neither numbers, strings nor symbols
  Long,      \* strings of one length of KEC_HASH_KEYMAX bytes or more
  Hash,      \* Hash[k]: key_hash of the key k
  FirstCap,  \* the capacity of a new table
  CapMax,    \* bound: the last capacity for which memory can be had
  Absent     \* the default of hash-ref; no key, no value

ASSUME HashAssumption ==
  /\ Hash \in [Keys -> Nat]
  /\ FirstCap \in Nat \ {0} /\ CapMax \in Nat
  /\ Long \subseteq Keys /\ Unhashable \cap Keys = {}
  /\ Absent \notin Keys \cup Unhashable \cup Values

VARIABLES
  slots,   \* h->slots[0 .. cap - 1]
  cap,     \* h->cap
  used,    \* h->used: slots that are not EMPTY
  count,   \* h->count: live entries
  old,     \* hash_grow's old array; empty when it does not run
  next,    \* the next slot of old to move
  goal,    \* the key and value that hash-set! grows for
  answer   \* what the last operation returned, and which it was

tableVars == <<slots, cap, used, count, old, next, goal, answer>>

Empty == [state |-> "empty", key |-> Absent, val |-> Absent]
Entry(k, v) == [state |-> "used", key |-> k, val |-> v]

Tomb == [state |-> "dead",  key |-> Absent, val |-> Absent]
Slot == {Empty, Tomb} \cup {Entry(k, v) : k \in Keys, v \in Values}

Goals  == [key : Keys \cup Unhashable, val : Values]
NoGoal == [key |-> Absent, val |-> Absent]

Idle == goal = NoGoal

(* How many steps of the linear probe lead from the home slot of k to i.   *)
Home(k, n)  == Hash[k] % n
Steps(k, i) == (i - Home(k, cap)) % cap

(* The slots that the probe for k visits before i. *)
Before(k, i) == {j \in 0..(cap - 1) : Steps(k, j) < Steps(k, i)}

(* Slip: the probe ends at a tombstone. *)
EndsAtTomb(k) ==
  {i \in 0..(cap - 1) :
     /\ slots[i].state # "used" \/ slots[i].key = k
     /\ \A j \in Before(k, i) : slots[j].state = "used" /\ slots[j].key # k}

(* The slot at which the probe for k ends: k itself, or an EMPTY one.      *)
Ends(k) ==
  {i \in 0..(cap - 1) :
     /\ slots[i].state = "empty" \/ slots[i].key = k
     /\ \A j \in Before(k, i) : slots[j].state # "empty" /\ slots[j].key # k}

Found(k, i) == slots[i].key = k /\ i \in Ends(k)

(* hash_index of a key that is not there: the first tombstone that the     *)
(* probe met, else the EMPTY slot it ended at.                             *)
Vacant(k) ==
  {i \in 0..(cap - 1) :
     /\ slots[i].state # "used"
     /\ \A j \in Before(k, i) : slots[j].state = "used"}

Missing(k) == \A i \in 0..(cap - 1) : ~Found(k, i)

(* The entries that the probe for k compares it with. *)
Compared(k) ==
  {i \in 0..(cap - 1) :
     /\ slots[i].state = "used"
     /\ \A j \in Before(k, i) : slots[j].state # "empty" /\ slots[j].key # k}

(* hash_index may raise: key_hash refuses the key, or key_equal copies two *)
(* long strings of one length and has no memory for it.                    *)
IndexMayRaise(k) ==
  \/ k \in Unhashable
  \/ k \in Long /\ \E i \in Compared(k) : slots[i].key \in Long

Raised == answer' = <<"error", Absent>>
-----------------------------------------------------------------------------
(***************************************************************************)
(* hash-set!                                                               *)
(***************************************************************************)
(* Slip: tombstones are not counted. *)
LoadedByLive == (count + 1) * 4 >= cap * 3

(* keep load < 0.75 *)
Loaded == (used + 1) * 4 >= cap * 3

(* A tombstone that is reused was counted already. *)
UsedAfter(i) == IF slots[i].state = "empty" THEN used + 1 ELSE used

Insert(k, v) ==
  /\ \/ \E i \in 0..(cap - 1) :
          /\ Found(k, i)
          /\ slots' = [slots EXCEPT ![i] = Entry(k, v)]
          /\ UNCHANGED <<used, count>>
     \/ /\ Missing(k)
        /\ \E i \in Vacant(k) :
             /\ slots' = [slots EXCEPT ![i] = Entry(k, v)]
             /\ used' = UsedAfter(i)
             /\ count' = count + 1
  /\ answer' = <<"set", v>>

SetKey(k, v) ==
  /\ Idle
  /\ ~Loaded
  /\ Insert(k, v)
  /\ UNCHANGED <<cap, old, next, goal>>

(* A new array of n slots. *)
Fresh(n) == [i \in 0..(n - 1) |-> Empty]

(* hash_grow has its memory: every slot of the new array is EMPTY. *)
StartGrowing(k, v) ==
  /\ Idle
  /\ Loaded
  /\ cap * 2 <= CapMax
  /\ old' = slots
  /\ slots' = Fresh(cap * 2)
  /\ cap' = cap * 2
  /\ used' = 0 /\ count' = 0 /\ next' = 0
  /\ goal' = [key |-> k, val |-> v]
  /\ UNCHANGED answer

(* It has none: the error leaves the table as it was. *)
GrowFails ==
  /\ Idle
  /\ Loaded
  /\ Raised
  /\ UNCHANGED <<slots, cap, used, count, old, next, goal>>

(* The move goes on to the next slot.                                      *)
Advance == next' = next + 1

(* rehash_slot: the home of a moved entry is the first EMPTY slot.         *)
MoveSlot ==
  /\ ~Idle
  /\ next \in DOMAIN old
  /\ Advance
  /\ \/ /\ old[next].state # "used"
        /\ UNCHANGED <<slots, used, count>>
     \/ /\ old[next].state = "used"
        /\ \E i \in 0..(cap - 1) :
             /\ slots[i].state = "empty"
             /\ \A j \in Before(old[next].key, i) : slots[j].state # "empty"
             /\ slots' = [slots EXCEPT ![i] = old[next]]
        /\ used' = used + 1
        /\ count' = count + 1
  /\ UNCHANGED <<cap, old, goal, answer>>

(* The old array is freed; then hash-set! looks for its key. *)
Grown ==
  /\ ~Idle
  /\ next \notin DOMAIN old
  /\ goal' = NoGoal
  /\ old' = <<>>
  /\ next' = 0
  /\ UNCHANGED cap

SetGrown ==
  /\ Grown
  /\ goal.key \in Keys
  /\ Insert(goal.key, goal.val)

SetGrownFails ==
  /\ Grown
  /\ IndexMayRaise(goal.key)
  /\ Raised
  /\ UNCHANGED <<slots, used, count>>
-----------------------------------------------------------------------------
(* hash-set! that need not grow, hash-ref, hash-has? and hash-del! whose    *)
(* hash_index raises.                                                      *)
IndexFails(k) ==
  /\ Idle
  /\ IndexMayRaise(k)
  /\ Raised
  /\ UNCHANGED <<slots, cap, used, count, old, next, goal>>

(* hash-ref, and hash-has? that tells found from not found. *)
RefKey(k) ==
  /\ Idle
  /\ \/ \E i \in 0..(cap - 1) : Found(k, i) /\ answer' = <<"ref", slots[i].val>>
     \/ Missing(k) /\ answer' = <<"ref", Absent>>
  /\ UNCHANGED <<slots, cap, used, count, old, next, goal>>

(* hash-del!: the slot becomes a tombstone; used stays, count drops. *)
DelKey(k) ==
  /\ Idle
  /\ \/ \E i \in 0..(cap - 1) :
          /\ Found(k, i)
          /\ slots' = [slots EXCEPT ![i] = Tomb]
          /\ count' = count - 1
          /\ answer' = <<"del", TRUE>>
     \/ /\ Missing(k)
        /\ answer' = <<"del", FALSE>>
        /\ UNCHANGED <<slots, count>>
  /\ UNCHANGED <<cap, used, old, next, goal>>

(* hash-count *)
CountKeys ==
  /\ Idle
  /\ answer' = <<"count", count>>
  /\ UNCHANGED <<slots, cap, used, count, old, next, goal>>

(* hash-keys: one pass over the slots. *)
ListKeys ==
  /\ Idle
  /\ answer' = <<"keys", {s.key : s \in {slots[i] : i \in DOMAIN slots}} \ {Absent}>>
  /\ UNCHANGED <<slots, cap, used, count, old, next, goal>>

(* make-hash-table *)
TableInit ==
  /\ slots = Fresh(FirstCap)
  /\ cap = FirstCap
  /\ used = 0 /\ count = 0
  /\ old = <<>> /\ next = 0
  /\ goal = NoGoal
  /\ answer = <<"none", Absent>>

TableNext ==
  \/ \E k \in Keys, v \in Values : SetKey(k, v)
  \/ \E k \in Keys \cup Unhashable, v \in Values : StartGrowing(k, v)
  \/ GrowFails \/ MoveSlot \/ SetGrown \/ SetGrownFails
  \/ \E k \in Keys \cup Unhashable : IndexFails(k)
  \/ \E k \in Keys : RefKey(k) \/ DelKey(k)
  \/ CountKeys \/ ListKeys

TableSpec == TableInit /\ [][TableNext]_tableVars
-----------------------------------------------------------------------------
TableTypeOK ==
  /\ cap \in Nat \ {0}
  /\ slots \in [0..(cap - 1) -> Slot]
  /\ used \in Nat /\ count \in Nat
  /\ next \in Nat
  /\ goal \in {NoGoal} \cup Goals

(* hash_index's comment: "With grow-on-load there is always an empty slot  *)
(* to stop at".  Whatever tombstones have piled up, every probe ends, and  *)
(* no more than three quarters of the slots are ever in the way.           *)
ProbesEnd ==
  /\ \E i \in 0..(cap - 1) : slots[i].state = "empty"
  /\ Idle => used * 4 < cap * 3

(* The counters are what they say, tombstones included. *)
CountersExact ==
  /\ used = Cardinality({i \in 0..(cap - 1) : slots[i].state # "empty"})
  /\ count = Cardinality({i \in 0..(cap - 1) : slots[i].state = "used"})

(* No deletion or reuse of a tombstone ever hides an entry from the probe, *)
(* or leaves a key in two slots.                                           *)
EntriesAreFound ==
  \A i \in 0..(cap - 1) : slots[i].state = "used" =>
    /\ \A j \in Before(slots[i].key, i) : slots[j].state # "empty"
    /\ \A j \in 0..(cap - 1) : slots[j].key = slots[i].key => j = i

(* The three together, which is what a probe relies on.                    *)
TableSound == ProbesEnd /\ CountersExact /\ EntriesAreFound

(* Every operation answers as an association of keys to values would, also *)
(* across a growth and across an error in the middle of hash-set!: before  *)
(* it grows, after it has grown and before it inserts, or without growth.  *)
Live == {slots[i] : i \in 0..(cap - 1)}
        \cup {old[i] : i \in {j \in DOMAIN old : j >= next}}

Dict == [k \in {s.key : s \in Live} \ {Absent} |->
           (CHOOSE s \in Live : s.key = k).val]

D == INSTANCE Dictionary WITH dict <- Dict

IsDictionary == D!Spec
=============================================================================
