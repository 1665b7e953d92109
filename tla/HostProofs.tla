----------------------------- MODULE HostProofs -----------------------------
(***************************************************************************)
(* Proofs about what the host layer gives to scripts, and how the runtime  *)
(* recovers from their errors.                                             *)
(*                                                                         *)
(* Hash tables: for every hash function, every capacity and any set of     *)
(* keys, the slots, the counters and the probe stay sound through          *)
(* insertions, deletions and growths, and a table answers as a dictionary  *)
(* does.                                                                   *)
(*                                                                         *)
(* Containers: for any number of cells, sizes and allocators, every block  *)
(* has one owner and goes back to it once, and what a script can reach is  *)
(* kept as it was stored.                                                  *)
(*                                                                         *)
(* Primitives: however one ends, its buffers and files are given back, and *)
(* what it answers is right for all strings, bounds, separators, numbers   *)
(* and radixes.                                                            *)
(*                                                                         *)
(* Error recovery: for every number of guard slots, every root stack and   *)
(* every depth of calls, no jump lands in a function that has returned and *)
(* nothing leaks; and the guards implement Unwinding.                      *)
(***************************************************************************)
EXTENDS HashTable, Containers, HostCalls, Guards, FiniteSetTheorems, FunctionTheorems,
        RecursionTheorems, TLAPS

NonEmpty == {i \in 0..(cap - 1) : slots[i].state # "empty"}
InUse    == {i \in 0..(cap - 1) : slots[i].state = "used"}

(* What hash_grow has to move, and what it has moved.                      *)
ToMove == {j \in DOMAIN old : old[j].state = "used"}
Moved  == {j \in ToMove : j < next}

(* While the table grows: what is left in the old slots is nowhere else,   *)
(* and there are few enough of them to leave an empty slot.                *)
GrowthInv ==
  /\ Idle => old = <<>> /\ next = 0
  /\ ~Idle =>
       /\ goal \in Goals
       /\ \E h \in 1..cap : cap = 2 * h /\ old \in [0..(h - 1) -> Slot] /\ next \in 0..h
       /\ used <= Cardinality(Moved)
       /\ Cardinality(ToMove) * 8 < cap * 3
       /\ \A i, j \in ToMove : old[i].key = old[j].key => i = j
       /\ \A j \in ToMove \ Moved : \A i \in 0..(cap - 1) : slots[i].key # old[j].key

IInv == TableTypeOK /\ TableSound /\ GrowthInv

-----------------------------------------------------------------------------
(***************************************************************************)
(* Slots and counters                                                      *)
(***************************************************************************)
LEMMA SlotFacts ==
  ASSUME NEW s \in Slot
  PROVE  /\ s.state \in {"empty", "dead", "used"}
         /\ s.state = "used" => /\ s.key \in Keys /\ s.val \in Values /\ s.key # Absent
                                /\ s = Entry(s.key, s.val)
         /\ s.state # "used" => s.key = Absent
  BY HashAssumption DEF Slot, Empty, Tomb, Entry

LEMMA EntryFacts ==
  ASSUME NEW k \in Keys, NEW v \in Values
  PROVE  /\ Entry(k, v) \in Slot /\ Entry(k, v).state = "used"
         /\ Entry(k, v).key = k /\ Entry(k, v).val = v /\ k # Absent
  BY HashAssumption DEF Slot, Entry

LEMMA SlotType ==
  ASSUME TableTypeOK, NEW i \in 0..(cap - 1)
  PROVE  /\ slots[i] \in Slot /\ slots[i].state \in {"empty", "dead", "used"}
         /\ slots[i].state = "used" <=> slots[i].key # Absent
         /\ slots[i].state = "used" => slots[i].key \in Keys /\ slots[i].val \in Values
<1>1. slots[i] \in Slot
  BY DEF TableTypeOK
<1>2. QED
  BY <1>1, SlotFacts

LEMMA FiniteCounts ==
  ASSUME TableTypeOK
  PROVE  /\ IsFiniteSet(NonEmpty) /\ IsFiniteSet(InUse) /\ InUse \subseteq NonEmpty
         /\ Cardinality(NonEmpty) \in Nat /\ Cardinality(InUse) \in Nat
         /\ Cardinality(InUse) <= Cardinality(NonEmpty)
<1>1. IsFiniteSet(0..(cap - 1))
  BY FS_Interval DEF TableTypeOK
<1>2. InUse \subseteq NonEmpty /\ NonEmpty \subseteq 0..(cap - 1)
  BY DEF InUse, NonEmpty
<1>3. IsFiniteSet(NonEmpty)
  BY <1>1, <1>2, FS_Subset
<1>4. QED
  BY <1>2, <1>3, FS_Subset, FS_CardinalityType

(* Fewer slots in the way than there are: one is empty. *)
LEMMA EmptySlot ==
  ASSUME NEW n \in Nat, NEW f \in [0..(n - 1) -> Slot],
         Cardinality({i \in 0..(n - 1) : f[i].state # "empty"}) < n
  PROVE  \E i \in 0..(n - 1) : f[i].state = "empty"
<1> DEFINE Full == {i \in 0..(n - 1) : f[i].state # "empty"}
<1>1. Cardinality(0..(n - 1)) = n
  BY FS_Interval
<1>2. Full # 0..(n - 1)
  <2>1. Cardinality(Full) < n
    OBVIOUS
  <2> HIDE DEF Full
  <2>2. QED
    BY <1>1, <2>1
<1>3. QED
  BY <1>2

LEMMA ProbeFrame ==
  ASSUME cap' = cap
  PROVE  \A k, i : Before(k, i)' = Before(k, i)
  BY DEF Before, Steps, Home

LEMMA BeforeIsOther ==
  ASSUME TableTypeOK, NEW k \in Keys, NEW i \in 0..(cap - 1), NEW j \in Before(k, i)
  PROVE  j \in 0..(cap - 1) /\ j # i
<1>1. Hash[k] \in Nat /\ cap \in Nat \ {0}
  BY HashAssumption DEF TableTypeOK
<1>2. Steps(k, i) \in Int
  BY <1>1 DEF Steps, Home
<1>3. QED
  BY <1>2 DEF Before

(* A probe that does not find a key has not overlooked it. *)
LEMMA MissingIsAbsent ==
  ASSUME TableTypeOK, EntriesAreFound, NEW k \in Keys, Missing(k), NEW i \in 0..(cap - 1)
  PROVE  slots[i].key # k
<1> SUFFICES ASSUME slots[i].key = k PROVE FALSE
  OBVIOUS
<1>1. slots[i].state = "used"
  BY SlotType, HashAssumption
<1>2. /\ \A j \in Before(k, i) : slots[j].state # "empty"
      /\ \A j \in 0..(cap - 1) : slots[j].key = k => j = i
  BY <1>1 DEF EntriesAreFound
<1>3. \A j \in Before(k, i) : slots[j].key # k
  BY <1>2, BeforeIsOther
<1>4. Found(k, i)
  BY <1>2, <1>3 DEF Found, Ends
<1>5. QED
  BY <1>4 DEF Missing

(* A binding of a new key, at a slot that its probe comes to without       *)
(* meeting an empty one: no other entry is hidden or doubled by it.        *)
LEMMA Put ==
  ASSUME TableTypeOK, CountersExact, EntriesAreFound, cap' = cap,
         NEW k \in Keys, NEW v \in Values, NEW i \in 0..(cap - 1),
         slots[i].state # "used", \A j \in 0..(cap - 1) : slots[j].key # k,
         \A j \in Before(k, i) : slots[j].state # "empty",
         slots' = [slots EXCEPT ![i] = Entry(k, v)],
         used' = UsedAfter(i), count' = count + 1
  PROVE  /\ slots' \in [0..(cap - 1) -> Slot] /\ used' \in Nat /\ count' \in Nat
         /\ CountersExact' /\ EntriesAreFound'
<1>1. slots' \in [0..(cap - 1) -> Slot]
  BY EntryFacts DEF TableTypeOK
<1>2. slots'[i] = Entry(k, v) /\ \A j \in (0..(cap - 1)) \ {i} : slots'[j] = slots[j]
  BY DEF TableTypeOK
<1>3. NonEmpty' = NonEmpty \cup {i} /\ InUse' = InUse \cup {i} /\ i \notin InUse
  BY <1>2, EntryFacts DEF NonEmpty, InUse
<1>4. used' = Cardinality(NonEmpty')
  <2>1. i \in NonEmpty <=> slots[i].state # "empty"
    BY DEF NonEmpty
  <2>2. used = Cardinality(NonEmpty)
    BY DEF CountersExact, NonEmpty
  <2>3. QED
    BY <1>3, <2>1, <2>2, FiniteCounts, FS_AddElement DEF UsedAfter
<1>5. count' = Cardinality(InUse')
  <2>1. count = Cardinality(InUse)
    BY DEF CountersExact, InUse
  <2>2. QED
    BY <1>3, <2>1, FiniteCounts, FS_AddElement
<1>6. CountersExact'
  BY <1>4, <1>5 DEF CountersExact, NonEmpty, InUse
<1>7. EntriesAreFound'
  <2> SUFFICES ASSUME NEW j \in 0..(cap - 1), slots'[j].state = "used"
               PROVE  /\ \A x \in Before(slots'[j].key, j) : slots'[x].state # "empty"
                      /\ \A x \in 0..(cap - 1) : slots'[x].key = slots'[j].key => x = j
    BY ProbeFrame DEF EntriesAreFound
  <2>1. CASE j = i
    <3>1. slots'[j].key = k
      BY <1>2, <2>1, EntryFacts
    <3>2. \A x \in Before(k, i) : slots'[x].state # "empty"
      BY <1>2, BeforeIsOther
    <3>3. QED
      BY <1>2, <2>1, <3>1, <3>2
  <2>2. CASE j # i
    <3>1. slots[j] = slots'[j] /\ slots[j].key \in Keys
      BY <1>2, <2>2, SlotType
    <3>2. /\ \A x \in Before(slots[j].key, j) : slots[x].state # "empty"
          /\ \A x \in 0..(cap - 1) : slots[x].key = slots[j].key => x = j
      BY <3>1 DEF EntriesAreFound
    <3>3. \A x \in Before(slots[j].key, j) : x \in 0..(cap - 1)
      BY DEF Before
    <3>4. slots'[i].state # "empty" /\ slots'[i].key = k /\ slots[j].key # k
      BY <1>2, EntryFacts
    <3>5. QED
      BY <1>2, <3>1, <3>2, <3>3, <3>4
  <2>3. QED
    BY <2>1, <2>2
<1>8. used' \in Nat /\ count' \in Nat
  BY DEF TableTypeOK, UsedAfter
<1>9. QED
  BY <1>1, <1>6, <1>7, <1>8

(* hash-set! writes one slot: the one that holds the key, or one that      *)
(* holds none, in which case the key was nowhere.                          *)
LEMMA Inserted ==
  ASSUME TableTypeOK, CountersExact, EntriesAreFound, cap' = cap,
         NEW k \in Keys, NEW v \in Values, Insert(k, v)
  PROVE  /\ slots' \in [0..(cap - 1) -> Slot] /\ used' \in Nat /\ count' \in Nat
         /\ used' <= used + 1 /\ CountersExact' /\ EntriesAreFound'
         /\ \E i \in 0..(cap - 1) :
              /\ slots' = [slots EXCEPT ![i] = Entry(k, v)]
              /\ slots[i].key \in {k, Absent}
              /\ \A j \in 0..(cap - 1) : slots[j].key = k => j = i
<1>1. CASE \E i \in 0..(cap - 1) :
             /\ Found(k, i)
             /\ slots' = [slots EXCEPT ![i] = Entry(k, v)]
             /\ UNCHANGED <<used, count>>
  <2>1. PICK i \in 0..(cap - 1) :
             /\ Found(k, i)
             /\ slots' = [slots EXCEPT ![i] = Entry(k, v)]
             /\ used' = used /\ count' = count
    BY <1>1
  <2>2. slots[i].key = k /\ slots[i].state = "used" /\ slots[i].state # "empty"
    BY <2>1, SlotType, HashAssumption DEF Found
  <2>3. slots' \in [0..(cap - 1) -> Slot]
    BY <2>1, EntryFacts DEF TableTypeOK
  <2>4. slots'[i] = Entry(k, v) /\ \A j \in (0..(cap - 1)) \ {i} : slots'[j] = slots[j]
    BY <2>1 DEF TableTypeOK
  <2>5. \A j \in 0..(cap - 1) : slots'[j].state = slots[j].state /\ slots'[j].key = slots[j].key
    BY <2>2, <2>4, EntryFacts
  <2>6. \A j \in 0..(cap - 1) : slots[j].key = k => j = i
    BY <2>2 DEF EntriesAreFound
  <2>7. NonEmpty' = NonEmpty /\ InUse' = InUse
    BY <2>5 DEF NonEmpty, InUse
  <2>8. CountersExact'
    BY <2>1, <2>7 DEF CountersExact, NonEmpty, InUse
  <2>9. EntriesAreFound'
    <3>1. \A j \in 0..(cap - 1) : \A x \in Before(slots[j].key, j) : x \in 0..(cap - 1)
      BY DEF Before
    <3>2. QED
      BY <2>5, <3>1, ProbeFrame DEF EntriesAreFound
  <2>10. used' \in Nat /\ count' \in Nat /\ used' <= used + 1
    BY <2>1 DEF TableTypeOK
  <2>11. QED
    BY <2>1, <2>2, <2>3, <2>6, <2>8, <2>9, <2>10
<1>2. CASE /\ Missing(k)
           /\ \E i \in Vacant(k) :
                /\ slots' = [slots EXCEPT ![i] = Entry(k, v)]
                /\ used' = UsedAfter(i)
                /\ count' = count + 1
  <2>1. PICK i \in Vacant(k) :
                /\ slots' = [slots EXCEPT ![i] = Entry(k, v)]
                /\ used' = UsedAfter(i)
                /\ count' = count + 1
    BY <1>2
  <2>2. /\ i \in 0..(cap - 1) /\ slots[i].state # "used"
        /\ \A j \in Before(k, i) : slots[j].state # "empty"
    BY <2>1 DEF Vacant
  <2>3. \A j \in 0..(cap - 1) : slots[j].key # k
    BY <1>2, MissingIsAbsent
  <2>4. /\ slots' \in [0..(cap - 1) -> Slot] /\ used' \in Nat /\ count' \in Nat
        /\ CountersExact' /\ EntriesAreFound'
    BY <2>1, <2>2, <2>3, Put
  <2>5. slots[i].key = Absent
    BY <2>2, SlotType
  <2>6. used' <= used + 1
    BY <2>1 DEF UsedAfter, TableTypeOK
  <2>7. QED
    BY <2>1, <2>2, <2>3, <2>4, <2>5, <2>6
<1>3. QED
  BY <1>1, <1>2 DEF Insert

-----------------------------------------------------------------------------
(***************************************************************************)
(* The steps                                                               *)
(***************************************************************************)
LEMMA StartIsSound == TableInit => IInv
<1> SUFFICES ASSUME TableInit PROVE IInv
  OBVIOUS
<1> USE DEF TableInit
<1>1. cap \in Nat \ {0} /\ \A i \in 0..(cap - 1) : slots[i] = Empty
  BY HashAssumption DEF Fresh
<1>2. NonEmpty = {} /\ InUse = {}
  BY <1>1 DEF NonEmpty, InUse, Empty
<1>3. TableTypeOK
  BY HashAssumption DEF TableTypeOK, Fresh, Slot
<1>4. CountersExact
  BY <1>2, FS_EmptySet DEF CountersExact, NonEmpty, InUse
<1>5. EntriesAreFound
  BY <1>1 DEF EntriesAreFound, Empty
<1>6. ProbesEnd
  <2>1. used = 0 /\ cap \in Nat \ {0} /\ 0 \in 0..(cap - 1)
    BY <1>1
  <2>2. QED
    BY <1>1, <2>1 DEF ProbesEnd, Empty
<1>7. GrowthInv
  BY DEF GrowthInv, Idle
<1>8. QED
  BY <1>3, <1>4, <1>5, <1>6, <1>7 DEF IInv, TableSound

(* One slot more than a table that was not loaded had in the way. *)
LEMMA Quarters ==
  ASSUME NEW u \in Nat, NEW w \in Nat, NEW c \in Nat,
         w <= u + 1, (u + 1) * 4 < c * 3
  PROVE  w * 4 < c * 3 /\ w < c
  OBVIOUS

LEMMA KeepSet ==
  ASSUME IInv, NEW k \in Keys, NEW v \in Values, SetKey(k, v)
  PROVE  IInv'
<1>1. cap' = cap /\ old' = old /\ next' = next /\ goal' = goal /\ Idle
  BY DEF SetKey
<1>2. Insert(k, v) /\ (used + 1) * 4 < cap * 3
  BY DEF SetKey, Loaded, IInv, TableTypeOK
<1>3. /\ slots' \in [0..(cap - 1) -> Slot] /\ used' \in Nat /\ count' \in Nat
      /\ used' <= used + 1 /\ CountersExact' /\ EntriesAreFound'
  BY <1>1, <1>2, Inserted DEF IInv, TableSound
<1>4. TableTypeOK'
  BY <1>1, <1>3 DEF IInv, TableTypeOK
<1>5. used' * 4 < cap' * 3
  <2>1. used' \in Nat /\ used \in Nat /\ cap \in Nat
    BY <1>3 DEF IInv, TableTypeOK
  <2>2. QED
    BY <1>1, <1>2, <1>3, <2>1, Quarters
<1>6. ProbesEnd'
  <2>1. Cardinality({i \in 0..(cap - 1) : slots'[i].state # "empty"}) = used'
    BY <1>1, <1>3 DEF CountersExact
  <2>2. used' < cap /\ cap \in Nat
    BY <1>2, <1>3, Quarters DEF IInv, TableTypeOK
  <2>3. \E i \in 0..(cap - 1) : slots'[i].state = "empty"
    BY <1>3, <2>1, <2>2, EmptySlot
  <2>4. QED
    BY <1>1, <1>5, <2>3 DEF ProbesEnd
<1>7. GrowthInv'
  BY <1>1 DEF IInv, GrowthInv, Idle
<1>8. QED
  BY <1>3, <1>4, <1>6, <1>7 DEF IInv, TableSound

(* Three quarters of the old slots are three eighths of the new ones. *)
LEMMA KeepStart ==
  ASSUME IInv, NEW k \in Keys \cup Unhashable, NEW v \in Values, StartGrowing(k, v)
  PROVE  IInv'
<1> USE DEF StartGrowing
<1>1. cap \in Nat \ {0} /\ cap' = 2 * cap /\ cap' \in Nat \ {0}
  BY DEF IInv, TableTypeOK
<1>2. /\ slots' \in [0..(cap' - 1) -> Slot]
      /\ \A i \in 0..(cap' - 1) : slots'[i] = Empty
  BY <1>1 DEF Fresh, Slot
<1>3. NonEmpty' = {} /\ InUse' = {}
  BY <1>2 DEF NonEmpty, InUse, Empty
<1>4. goal' \in Goals /\ ~Idle'
  BY HashAssumption DEF Idle, NoGoal, Goals
<1>5. TableTypeOK'
  BY <1>1, <1>2, <1>4 DEF TableTypeOK
<1>6. CountersExact'
  BY <1>3, FS_EmptySet DEF CountersExact, NonEmpty, InUse
<1>7. EntriesAreFound'
  BY <1>2 DEF EntriesAreFound, Empty
<1>8. ProbesEnd'
  BY <1>1, <1>2, <1>4 DEF ProbesEnd, Empty
<1>9. GrowthInv'
  <2>1. ToMove' = InUse /\ Moved' = {}
    BY DEF ToMove, Moved, InUse, IInv, TableTypeOK
  <2>2. Cardinality(InUse) \in Nat /\ Cardinality(InUse) <= used /\ used * 4 < cap * 3
    BY FiniteCounts DEF IInv, TableSound, ProbesEnd, CountersExact, NonEmpty
  <2>3. Cardinality(ToMove') * 8 < cap' * 3
    BY <1>1, <2>1, <2>2 DEF IInv, TableTypeOK
  <2>4. used' <= Cardinality(Moved')
    BY <2>1, FS_EmptySet
  <2>5. \A i, j \in ToMove' : old'[i].key = old'[j].key => i = j
    BY <2>1 DEF IInv, TableSound, EntriesAreFound, InUse
  <2>6. \A j \in ToMove' \ Moved' : \A i \in 0..(cap' - 1) : slots'[i].key # old'[j].key
    <3>1. \A j \in InUse : slots[j].key # Absent
      BY SlotType DEF InUse, IInv
    <3>2. QED
      BY <1>2, <2>1, <3>1 DEF Empty
  <2>7. \E h \in 1..cap' : cap' = 2 * h /\ old' \in [0..(h - 1) -> Slot] /\ next' \in 0..h
    BY <1>1 DEF IInv, TableTypeOK
  <2>8. QED
    BY <1>4, <2>3, <2>4, <2>5, <2>6, <2>7 DEF GrowthInv
<1>10. QED
  BY <1>5, <1>6, <1>7, <1>8, <1>9 DEF IInv, TableSound

LEMMA FewToMove ==
  ASSUME IInv, ~Idle
  PROVE  /\ IsFiniteSet(ToMove) /\ IsFiniteSet(Moved) /\ Moved \subseteq ToMove
         /\ Cardinality(Moved) \in Nat /\ Cardinality(ToMove) \in Nat
         /\ Cardinality(Moved) <= Cardinality(ToMove) /\ Cardinality(ToMove) * 8 < cap * 3
         /\ used <= Cardinality(Moved)
<1>1. PICK h \in 1..cap : old \in [0..(h - 1) -> Slot]
  BY DEF IInv, GrowthInv
<1>2. ToMove \subseteq 0..(h - 1) /\ Moved \subseteq ToMove
  BY <1>1 DEF ToMove, Moved
<1>3. IsFiniteSet(0..(h - 1))
  BY FS_Interval DEF IInv, TableTypeOK
<1>4. IsFiniteSet(ToMove)
  BY <1>2, <1>3, FS_Subset
<1>5. QED
  BY <1>2, <1>4, FS_Subset, FS_CardinalityType DEF IInv, GrowthInv

(* A moved entry goes to an empty slot that its probe comes to; its key is *)
(* in no other slot, for no two old slots held the same one.               *)
LEMMA Rehashed ==
  ASSUME IInv, MoveSlot, old[next].state = "used"
  PROVE  /\ ~Idle /\ next \in ToMove \ Moved /\ old[next] \in Slot
         /\ slots' \in [0..(cap - 1) -> Slot] /\ used' \in Nat /\ count' \in Nat
         /\ used' = used + 1 /\ CountersExact' /\ EntriesAreFound'
         /\ \E i \in 0..(cap - 1) :
              slots[i].key = Absent /\ slots' = [slots EXCEPT ![i] = old[next]]
<1> USE DEF MoveSlot
<1>1. PICK i \in 0..(cap - 1) :
        /\ slots[i].state = "empty"
        /\ \A j \in Before(old[next].key, i) : slots[j].state # "empty"
        /\ slots' = [slots EXCEPT ![i] = old[next]]
  BY DEF MoveSlot
<1>2. used' = used + 1 /\ count' = count + 1 /\ cap' = cap /\ ~Idle
  OBVIOUS
<1>3. PICK h \in 1..cap : old \in [0..(h - 1) -> Slot]
  BY <1>2 DEF IInv, GrowthInv
<1>4. next \in ToMove \ Moved /\ old[next] \in Slot
  BY <1>3 DEF ToMove, Moved, IInv, TableTypeOK
<1>5. \A j \in 0..(cap - 1) : slots[j].key # old[next].key
  BY <1>2, <1>4 DEF IInv, GrowthInv
<1>6. PICK k \in Keys, v \in Values : old[next] = Entry(k, v)
  BY <1>4, SlotFacts
<1>7. old[next].key = k
  BY <1>6, EntryFacts
<1>8. used' = UsedAfter(i)
  BY <1>1, <1>2 DEF UsedAfter
<1>9. TableTypeOK /\ CountersExact /\ EntriesAreFound
  BY DEF IInv, TableSound
<1>10. slots[i].state # "used" /\ slots[i].key = Absent
  BY <1>1, <1>9, SlotType
<1>11. /\ slots' \in [0..(cap - 1) -> Slot] /\ used' \in Nat /\ count' \in Nat
       /\ CountersExact' /\ EntriesAreFound'
  <2> HIDE DEF MoveSlot
  <2>1. slots' = [slots EXCEPT ![i] = Entry(k, v)]
    BY <1>1, <1>6
  <2>2. /\ \A j \in 0..(cap - 1) : slots[j].key # k
        /\ \A j \in Before(k, i) : slots[j].state # "empty"
    BY <1>1, <1>5, <1>7
  <2>3. QED
    BY <1>2, <1>8, <1>9, <1>10, <2>1, <2>2, Put
<1>12. QED
  BY <1>1, <1>2, <1>4, <1>10, <1>11

LEMMA KeepMove ==
  ASSUME IInv, MoveSlot
  PROVE  IInv'
<1>1. ~Idle /\ next \in DOMAIN old /\ UNCHANGED <<cap, old, goal>> /\ next' = next + 1
  BY DEF MoveSlot, Advance
<1>2. PICK h \in 1..cap : cap = 2 * h /\ old \in [0..(h - 1) -> Slot] /\ next \in 0..h
  BY <1>1 DEF IInv, GrowthInv
<1>3. ~Idle' /\ next \in 0..(h - 1) /\ next' \in 0..h /\ next' \in Nat
  BY <1>1, <1>2 DEF Idle, IInv, TableTypeOK
<1>4. ToMove' = ToMove
  BY <1>1 DEF ToMove
<1>5. CASE old[next].state # "used"
  <2>1. UNCHANGED <<slots, used, count>>
    BY <1>5 DEF MoveSlot
  <2>2. Moved' = Moved
    BY <1>1, <1>2, <1>3, <1>5 DEF Moved, ToMove
  <2>3. TableTypeOK'
    BY <1>1, <1>3, <2>1 DEF IInv, TableTypeOK
  <2>4. TableSound'
    <3>1. EntriesAreFound'
      BY <1>1, <2>1, ProbeFrame DEF IInv, TableSound, EntriesAreFound
    <3>2. ProbesEnd' /\ CountersExact'
      BY <1>1, <1>3, <2>1 DEF IInv, TableSound, ProbesEnd, CountersExact
    <3>3. QED
      BY <3>1, <3>2 DEF TableSound
  <2>5. GrowthInv'
    BY <1>1, <1>2, <1>3, <1>4, <2>1, <2>2 DEF IInv, GrowthInv
  <2>6. QED
    BY <2>3, <2>4, <2>5 DEF IInv
<1>6. CASE old[next].state = "used"
  <2>1. /\ next \in ToMove \ Moved
        /\ slots' \in [0..(cap - 1) -> Slot] /\ used' \in Nat /\ count' \in Nat
        /\ used' = used + 1 /\ CountersExact' /\ EntriesAreFound'
    BY <1>6, Rehashed
  <2>2. PICK i \in 0..(cap - 1) : slots' = [slots EXCEPT ![i] = old[next]]
    BY <1>6, Rehashed
  <2>3. TableTypeOK'
    BY <1>1, <1>3, <2>1 DEF IInv, TableTypeOK
  <2>4. Moved' = Moved \cup {next}
    BY <1>1, <1>2, <1>3, <2>1 DEF Moved, ToMove
  <2>5. used' <= Cardinality(Moved') /\ Cardinality(Moved') <= Cardinality(ToMove)
    <3>1. Moved' \subseteq ToMove
      BY <1>1, <2>1, <2>4, FewToMove
    <3>2. Cardinality(Moved') = Cardinality(Moved) + 1
      BY <1>1, <2>1, <2>4, FewToMove, FS_AddElement
    <3>3. IsFiniteSet(ToMove) /\ Cardinality(Moved) \in Nat /\ used <= Cardinality(Moved)
      BY <1>1, FewToMove
    <3>4. Cardinality(Moved') <= Cardinality(ToMove)
      BY <3>1, <3>3, FS_Subset
    <3>5. used \in Nat
      BY DEF IInv, TableTypeOK
    <3>6. QED
      BY <2>1, <3>2, <3>3, <3>4, <3>5
  <2>6. ProbesEnd'
    <3>1. used' < cap /\ cap \in Nat
      <4>1. Cardinality(Moved') \in Nat
        BY <1>1, <2>1, <2>4, FewToMove, FS_AddElement, FS_CardinalityType
      <4>2. QED
        BY <1>1, <2>1, <2>5, <4>1, FewToMove DEF IInv, TableTypeOK
    <3>2. Cardinality({j \in 0..(cap - 1) : slots'[j].state # "empty"}) < cap
      BY <1>1, <2>1, <3>1 DEF CountersExact
    <3>3. \E j \in 0..(cap - 1) : slots'[j].state = "empty"
      BY <2>1, <3>1, <3>2, EmptySlot
    <3>4. QED
      BY <1>1, <1>3, <3>3 DEF ProbesEnd
  <2>7. \A j \in ToMove \ Moved' : \A x \in 0..(cap - 1) : slots'[x].key # old[j].key
    BY <1>1, <2>1, <2>2, <2>4 DEF IInv, GrowthInv, TableTypeOK
  <2>8. GrowthInv'
    BY <1>1, <1>2, <1>3, <1>4, <2>5, <2>7, FewToMove DEF IInv, GrowthInv
  <2>9. QED
    BY <2>1, <2>3, <2>6, <2>8 DEF IInv, TableSound
<1>7. QED
  BY <1>5, <1>6

LEMMA KeepGrown ==
  ASSUME IInv, SetGrown
  PROVE  IInv'
<1>1. /\ ~Idle /\ next \notin DOMAIN old /\ Insert(goal.key, goal.val)
      /\ cap' = cap /\ goal' = NoGoal /\ old' = <<>> /\ next' = 0 /\ Idle'
  BY DEF SetGrown, Grown, Idle
<1>2. goal.key \in Keys /\ goal.val \in Values
  BY <1>1 DEF IInv, GrowthInv, Goals, SetGrown
<1>3. /\ slots' \in [0..(cap - 1) -> Slot] /\ used' \in Nat /\ count' \in Nat
      /\ used' <= used + 1 /\ CountersExact' /\ EntriesAreFound'
  BY <1>1, <1>2, Inserted DEF IInv, TableSound
<1>4. TableTypeOK'
  BY <1>1, <1>3 DEF IInv, TableTypeOK
<1>5. PICK h \in 1..cap : cap = 2 * h
  BY <1>1 DEF IInv, GrowthInv
<1>6. used' * 4 < cap * 3 /\ used' < cap /\ cap \in Nat
  <2>1. used \in Nat /\ cap \in Nat /\ h \in Nat \ {0}
    BY DEF IInv, TableTypeOK
  <2>2. used * 8 < cap * 3
    BY <1>1, <2>1, FewToMove
  <2>3. (used + 1) * 4 < cap * 3
    BY <1>5, <2>1, <2>2
  <2>4. QED
    BY <1>3, <2>1, <2>3, Quarters
<1>7. ProbesEnd'
  <2>1. Cardinality({i \in 0..(cap - 1) : slots'[i].state # "empty"}) < cap
    BY <1>1, <1>3, <1>6 DEF CountersExact
  <2>2. \E i \in 0..(cap - 1) : slots'[i].state = "empty"
    BY <1>3, <1>6, <2>1, EmptySlot
  <2>3. QED
    BY <1>1, <1>6, <2>2 DEF ProbesEnd
<1>8. GrowthInv'
  BY <1>1 DEF GrowthInv
<1>9. QED
  BY <1>3, <1>4, <1>7, <1>8 DEF IInv, TableSound

(* A key that cannot be looked up leaves the grown table as it is, with    *)
(* the room that was made for it.                                          *)
LEMMA KeepGrownFails ==
  ASSUME IInv, SetGrownFails
  PROVE  IInv'
<1>1. /\ ~Idle /\ UNCHANGED <<slots, cap, used, count>>
      /\ goal' = NoGoal /\ old' = <<>> /\ next' = 0 /\ Idle'
  BY DEF SetGrownFails, Grown, Idle
<1>2. PICK h \in 1..cap : cap = 2 * h
  BY <1>1 DEF IInv, GrowthInv
<1>3. used * 4 < cap * 3
  <2>1. used \in Nat /\ cap \in Nat /\ h \in Nat \ {0}
    BY DEF IInv, TableTypeOK
  <2>2. used * 8 < cap * 3
    BY <1>1, <2>1, FewToMove
  <2>3. QED
    BY <2>1, <2>2
<1>4. TableTypeOK' /\ CountersExact'
  BY <1>1 DEF IInv, TableTypeOK, TableSound, CountersExact
<1>5. EntriesAreFound'
  BY <1>1, ProbeFrame DEF IInv, TableSound, EntriesAreFound
<1>6. ProbesEnd'
  BY <1>1, <1>3 DEF IInv, TableSound, ProbesEnd
<1>7. GrowthInv'
  BY <1>1 DEF GrowthInv
<1>8. QED
  BY <1>4, <1>5, <1>6, <1>7 DEF IInv, TableSound

(* A tombstone is in the way as its entry was, and holds no key. *)
LEMMA KeepDel ==
  ASSUME IInv, NEW k \in Keys, DelKey(k)
  PROVE  IInv'
<1>1. Idle /\ UNCHANGED <<cap, used, old, next, goal>> /\ Idle'
  BY DEF DelKey, Idle
<1>2. CASE \E i \in 0..(cap - 1) : /\ Found(k, i)
                                   /\ slots' = [slots EXCEPT ![i] = Tomb]
                                   /\ count' = count - 1
  <2>1. PICK i \in 0..(cap - 1) : /\ slots[i].key = k
                                  /\ slots' = [slots EXCEPT ![i] = Tomb]
                                  /\ count' = count - 1
    BY <1>2 DEF Found
  <2>2. slots[i].state = "used"
    BY <2>1, SlotType, HashAssumption DEF IInv
  <2>3. slots'[i] = Tomb /\ \A j \in (0..(cap - 1)) \ {i} : slots'[j] = slots[j]
    BY <2>1 DEF IInv, TableTypeOK
  <2>4. Tomb.state = "dead" /\ Tomb.key = Absent /\ Tomb \in Slot
    BY DEF Tomb, Slot
  <2>5. NonEmpty' = NonEmpty /\ InUse' = InUse \ {i} /\ i \in InUse
    BY <1>1, <2>2, <2>3, <2>4 DEF NonEmpty, InUse
  <2>6. CountersExact' /\ count' \in Nat
    <3>1. used = Cardinality(NonEmpty) /\ count = Cardinality(InUse) /\ IsFiniteSet(InUse)
      BY FiniteCounts DEF IInv, TableSound, CountersExact, NonEmpty, InUse
    <3>2. Cardinality(InUse') = Cardinality(InUse) - 1 /\ Cardinality(InUse') \in Nat
      BY <2>5, <3>1, FS_RemoveElement, FS_CardinalityType
    <3>3. QED
      BY <1>1, <2>1, <2>5, <3>1, <3>2 DEF CountersExact, NonEmpty, InUse
  <2>7. TableTypeOK'
    BY <1>1, <2>1, <2>4, <2>6 DEF IInv, TableTypeOK
  <2>8. EntriesAreFound'
    <3> SUFFICES ASSUME NEW j \in 0..(cap - 1), slots'[j].state = "used"
                 PROVE  /\ \A x \in Before(slots'[j].key, j) : slots'[x].state # "empty"
                        /\ \A x \in 0..(cap - 1) : slots'[x].key = slots'[j].key => x = j
      BY <1>1, ProbeFrame DEF EntriesAreFound
    <3>1. j # i /\ slots'[j] = slots[j] /\ slots[j].key # Absent
      BY <2>3, <2>4, SlotType DEF IInv
    <3>2. /\ \A x \in Before(slots[j].key, j) : slots[x].state # "empty"
          /\ \A x \in 0..(cap - 1) : slots[x].key = slots[j].key => x = j
      BY <3>1 DEF IInv, TableSound, EntriesAreFound
    <3>3. \A x \in Before(slots[j].key, j) : x \in 0..(cap - 1)
      BY DEF Before
    <3>4. QED
      BY <2>3, <2>4, <3>1, <3>2, <3>3
  <2>9. ProbesEnd'
    BY <1>1, <2>2, <2>3 DEF IInv, TableSound, ProbesEnd
  <2>10. GrowthInv'
    BY <1>1 DEF IInv, GrowthInv
  <2>11. QED
    BY <2>6, <2>7, <2>8, <2>9, <2>10 DEF IInv, TableSound
<1>3. CASE UNCHANGED <<slots, count>>
  BY <1>1, <1>3, ProbeFrame
     DEF IInv, TableTypeOK, TableSound, ProbesEnd, CountersExact, EntriesAreFound, GrowthInv
<1>4. QED
  BY <1>2, <1>3 DEF DelKey

LEMMA KeepSame ==
  ASSUME IInv, UNCHANGED <<slots, cap, used, count, old, next, goal>>
  PROVE  IInv'
<1>1. EntriesAreFound'
  BY ProbeFrame DEF IInv, TableSound, EntriesAreFound
<1>2. TableTypeOK' /\ ProbesEnd' /\ CountersExact'
  BY DEF IInv, TableTypeOK, TableSound, ProbesEnd, CountersExact, Idle
<1>3. GrowthInv'
  BY DEF IInv, GrowthInv, Idle, ToMove, Moved
<1>4. QED
  BY <1>1, <1>2, <1>3 DEF IInv, TableSound

LEMMA Inductive == IInv /\ [TableNext]_tableVars => IInv'
<1> SUFFICES ASSUME IInv, [TableNext]_tableVars PROVE IInv'
  OBVIOUS
<1>1. ASSUME NEW k \in Keys, NEW v \in Values, SetKey(k, v) PROVE IInv'
  BY <1>1, KeepSet
<1>2. ASSUME NEW k \in Keys \cup Unhashable, NEW v \in Values, StartGrowing(k, v)
      PROVE  IInv'
  BY <1>2, KeepStart
<1>3. ASSUME NEW k \in Keys, DelKey(k) PROVE IInv'
  BY <1>3, KeepDel
<1>4. ASSUME \/ GrowFails \/ CountKeys \/ ListKeys \/ UNCHANGED tableVars
             \/ \E k \in Keys : RefKey(k)
             \/ \E k \in Keys \cup Unhashable : IndexFails(k)
      PROVE  IInv'
  <2>1. UNCHANGED <<slots, cap, used, count, old, next, goal>>
    BY <1>4 DEF GrowFails, CountKeys, ListKeys, RefKey, IndexFails, tableVars
  <2>2. QED
    BY <2>1, KeepSame
<1>5. QED
  BY <1>1, <1>2, <1>3, <1>4, KeepMove, KeepGrown, KeepGrownFails DEF TableNext

(* The slots, the counters and the key that a growth was begun for have    *)
(* the types the struct gives them.                                        *)
THEOREM TypeCorrect == TableSpec => []TableTypeOK
<1>1. IInv => TableTypeOK
  BY DEF IInv
<1>2. QED
  BY <1>1, StartIsSound, Inductive, PTL DEF TableSpec

(* Every probe ends at an empty slot, the two counters count, and every    *)
(* entry is found from its home slot, in one slot only: for every hash     *)
(* function, with tombstones, and in the middle of a growth.               *)
THEOREM TableIsSound == TableSpec => []TableSound
<1>1. IInv => TableSound
  BY DEF IInv
<1>2. QED
  BY <1>1, StartIsSound, Inductive, PTL DEF TableSpec

-----------------------------------------------------------------------------
(***************************************************************************)
(* A table is a dictionary                                                 *)
(***************************************************************************)
(* The slots that hold a key now, those that a growth has yet to move      *)
(* among them: no two hold the same one.                                   *)
Keyed == {s \in Live : s.key # Absent}

LEMMA KeyedSlots ==
  ASSUME IInv
  PROVE  /\ \A i \in InUse : slots[i] \in Keyed
         /\ \A j \in ToMove \ Moved : old[j] \in Keyed
         /\ \A s \in Keyed : \/ \E i \in InUse : s = slots[i]
                             \/ \E j \in ToMove \ Moved : s = old[j]
<1>1. /\ \A i \in 0..(cap - 1) : slots[i].state = "used" <=> slots[i].key # Absent
      /\ DOMAIN slots = 0..(cap - 1)
  BY SlotType DEF IInv, TableTypeOK
<1>2. \A j \in DOMAIN old : old[j] \in Slot /\ j \in Int
  <2>1. CASE Idle
    BY <2>1 DEF IInv, GrowthInv
  <2>2. CASE ~Idle
    BY <2>2 DEF IInv, GrowthInv
  <2>3. QED
    BY <2>1, <2>2
<1>3. \A j \in DOMAIN old : old[j].state = "used" <=> old[j].key # Absent
  BY <1>2, SlotFacts
<1>4. \A j \in DOMAIN old : j >= next <=> ~(j < next)
  BY <1>2 DEF IInv, TableTypeOK
<1>5. QED
  BY <1>1, <1>3, <1>4 DEF Keyed, Live, InUse, ToMove, Moved

LEMMA KeyedOnce ==
  ASSUME IInv, NEW s \in Keyed, NEW t \in Keyed, s.key = t.key
  PROVE  s = t
<1>1. \A i, j \in InUse : slots[i].key = slots[j].key => i = j
  BY DEF IInv, TableSound, EntriesAreFound, InUse
<1>2. ASSUME NEW j \in ToMove PROVE ~Idle
  BY <1>2 DEF IInv, GrowthInv, ToMove
<1>3. \A i, j \in ToMove : old[i].key = old[j].key => i = j
  BY <1>2 DEF IInv, GrowthInv
<1>4. \A j \in ToMove \ Moved : \A i \in InUse : slots[i].key # old[j].key
  BY <1>2 DEF IInv, GrowthInv, InUse
<1>5. QED
  BY <1>1, <1>3, <1>4, KeyedSlots

LEMMA DictFacts ==
  IInv => /\ DOMAIN Dict = {s.key : s \in Keyed}
          /\ \A s \in Keyed : Dict[s.key] = s.val
<1> SUFFICES ASSUME IInv
             PROVE  /\ DOMAIN Dict = {s.key : s \in Keyed}
                    /\ \A s \in Keyed : Dict[s.key] = s.val
  OBVIOUS
<1>1. DOMAIN Dict = {s.key : s \in Keyed}
  BY DEF Dict, Keyed
<1>2. ASSUME NEW s \in Keyed PROVE Dict[s.key] = s.val
  <2> DEFINE t == CHOOSE x \in Live : x.key = s.key
  <2>1. s \in Live /\ s.key # Absent
    BY DEF Keyed
  <2>2. t \in Live /\ t.key = s.key
    BY <2>1
  <2>3. t \in Keyed
    BY <2>1, <2>2 DEF Keyed
  <2>4. t = s
    BY <2>2, <2>3, KeyedOnce
  <2>5. Dict[s.key] = t.val
    BY <2>1 DEF Dict
  <2>6. QED
    BY <2>4, <2>5
<1>3. QED
  BY <1>1, <1>2

LEMMA NextDictFacts ==
  (IInv => /\ DOMAIN Dict = {s.key : s \in Keyed}
           /\ \A s \in Keyed : Dict[s.key] = s.val)'
  BY DictFacts, PTL

(* At rest every binding is in the slots. *)
LEMMA AtRest ==
  IInv /\ Idle => /\ Keyed = {slots[i] : i \in InUse}
                  /\ \A i \in 0..(cap - 1) : slots[i].key # Absent <=> i \in InUse
<1> SUFFICES ASSUME IInv, Idle
             PROVE  /\ Keyed = {slots[i] : i \in InUse}
                    /\ \A i \in 0..(cap - 1) : slots[i].key # Absent <=> i \in InUse
  OBVIOUS
<1>1. ToMove = {}
  BY DEF IInv, GrowthInv, ToMove
<1>2. QED
  BY <1>1, KeyedSlots, SlotType DEF IInv, InUse

LEMMA NextAtRest ==
  (IInv /\ Idle => /\ Keyed = {slots[i] : i \in InUse}
                   /\ \A i \in 0..(cap - 1) : slots[i].key # Absent <=> i \in InUse)'
  BY AtRest, PTL

LEMMA DictIsFunction == Dict = [k \in DOMAIN Dict |-> Dict[k]]
  BY DEF Dict

LEMMA NextDictIsFunction == (Dict = [k \in DOMAIN Dict |-> Dict[k]])'
  BY DictIsFunction, PTL

LEMMA SameDict ==
  ASSUME IInv, IInv', Keyed' = Keyed
  PROVE  Dict' = Dict
<1>1. DOMAIN Dict' = DOMAIN Dict
  BY DictFacts, NextDictFacts
<1>2. ASSUME NEW k \in DOMAIN Dict PROVE Dict'[k] = Dict[k]
  BY DictFacts, NextDictFacts
<1>3. QED
  BY <1>1, <1>2, DictIsFunction, NextDictIsFunction

(* One binding replaced or added. *)
LEMMA BoundDict ==
  ASSUME IInv, IInv', NEW k \in Keys, NEW v \in Values,
         Keyed' = {s \in Keyed : s.key # k} \cup {Entry(k, v)}
  PROVE  Dict' = [x \in DOMAIN Dict \cup {k} |-> IF x = k THEN v ELSE Dict[x]]
<1>1. Entry(k, v).key = k /\ Entry(k, v).val = v
  BY EntryFacts
<1>2. DOMAIN Dict' = DOMAIN Dict \cup {k}
  BY <1>1, DictFacts, NextDictFacts
<1>3. Dict'[k] = v
  BY <1>1, NextDictFacts
<1>4. ASSUME NEW x \in DOMAIN Dict, x # k PROVE Dict'[x] = Dict[x]
  <2>1. PICK s \in Keyed : s.key = x
    BY DictFacts
  <2>2. s \in Keyed'
    BY <1>4, <2>1
  <2>3. QED
    BY <2>1, <2>2, DictFacts, NextDictFacts
<1>5. QED
  BY <1>2, <1>3, <1>4, NextDictIsFunction

(* One binding removed. *)
LEMMA UnboundDict ==
  ASSUME IInv, IInv', NEW k \in Keys, Keyed' = {s \in Keyed : s.key # k}
  PROVE  Dict' = [x \in DOMAIN Dict \ {k} |-> Dict[x]]
<1>1. DOMAIN Dict' = DOMAIN Dict \ {k}
  BY DictFacts, NextDictFacts
<1>2. ASSUME NEW x \in DOMAIN Dict, x # k PROVE Dict'[x] = Dict[x]
  <2>1. PICK s \in Keyed : s.key = x
    BY DictFacts
  <2>2. s \in Keyed'
    BY <1>2, <2>1
  <2>3. QED
    BY <2>1, <2>2, DictFacts, NextDictFacts
<1>3. QED
  BY <1>1, <1>2, NextDictIsFunction

(* The live counter is the size of the dictionary: no key is in two slots. *)
LEMMA CountIsSize ==
  ASSUME IInv, Idle
  PROVE  Cardinality(DOMAIN Dict) = count
<1> DEFINE f == [i \in InUse |-> slots[i].key]
<1>1. DOMAIN Dict = {slots[i].key : i \in InUse}
  BY DictFacts, AtRest
<1>2. \A i, j \in InUse : f[i] = f[j] => i = j
  BY DEF IInv, TableSound, EntriesAreFound, InUse
<1>3. f \in Bijection(InUse, DOMAIN Dict)
  BY <1>1, <1>2, Fun_IsBij
<1>4. Cardinality(DOMAIN Dict) = Cardinality(InUse)
  BY <1>3, FiniteCounts, FS_Bijection DEF ExistsBijection, IInv
<1>5. QED
  BY <1>4 DEF IInv, TableSound, CountersExact, InUse

(* hash-set!, on a table all of whose bindings are in its slots. *)
LEMMA InsertBinds ==
  ASSUME IInv, IInv', Idle', cap' = cap, NEW k \in Keys, NEW v \in Values, Insert(k, v),
         Keyed = {slots[i] : i \in InUse}
  PROVE  D!Set(k, v)
<1>1. PICK i \in 0..(cap - 1) :
        /\ slots' = [slots EXCEPT ![i] = Entry(k, v)]
        /\ slots[i].key \in {k, Absent}
        /\ \A j \in 0..(cap - 1) : slots[j].key = k => j = i
  BY Inserted DEF IInv, TableSound
<1>2. slots'[i] = Entry(k, v) /\ \A j \in (0..(cap - 1)) \ {i} : slots'[j] = slots[j]
  BY <1>1 DEF IInv, TableTypeOK
<1>3. InUse' = InUse \cup {i}
  BY <1>2, EntryFacts DEF InUse
<1>4. \A j \in InUse : slots[j].key = k \/ j # i
  BY <1>1, SlotType DEF InUse, IInv
<1>5. Keyed' = {slots'[j] : j \in InUse'}
  BY NextAtRest
<1>6. Keyed' = {s \in Keyed : s.key # k} \cup {Entry(k, v)}
  <2>1. InUse \subseteq 0..(cap - 1)
    BY DEF InUse
  <2>2. ASSUME NEW s \in Keyed' PROVE s \in {x \in Keyed : x.key # k} \cup {Entry(k, v)}
    BY <1>1, <1>2, <1>3, <1>5, <2>1
  <2>3. ASSUME NEW s \in Keyed, s.key # k PROVE s \in Keyed'
    BY <1>2, <1>3, <1>4, <1>5, <2>1, <2>3
  <2>4. Entry(k, v) \in Keyed'
    BY <1>2, <1>3, <1>5
  <2>5. QED
    BY <2>2, <2>3, <2>4
<1>7. Dict' = [x \in DOMAIN Dict \cup {k} |-> IF x = k THEN v ELSE Dict[x]]
  BY <1>6, BoundDict
<1>8. answer' = <<"set", v>>
  BY DEF Insert
<1>9. QED
  BY <1>7, <1>8 DEF D!Set

LEMMA SetIsSet ==
  ASSUME IInv, IInv', NEW k \in Keys, NEW v \in Values, SetKey(k, v)
  PROVE  D!Set(k, v)
<1>1. Idle /\ Idle' /\ cap' = cap /\ Insert(k, v)
  BY DEF SetKey, Idle
<1>2. QED
  BY <1>1, AtRest, InsertBinds

(* The growth is over when every entry has been moved. *)
LEMMA GrownIsMoved ==
  ASSUME IInv, Grown
  PROVE  Keyed = {slots[i] : i \in InUse}
<1>1. ~Idle /\ next \notin DOMAIN old
  BY DEF Grown
<1>2. ToMove \ Moved = {}
  <2>1. PICK h \in 1..cap : old \in [0..(h - 1) -> Slot] /\ next \in 0..h
    BY <1>1 DEF IInv, GrowthInv
  <2>2. next = h
    BY <1>1, <2>1 DEF IInv, TableTypeOK
  <2>3. QED
    BY <2>1, <2>2 DEF ToMove, Moved
<1>3. QED
  BY <1>2, KeyedSlots

LEMMA GrownIsSet ==
  ASSUME IInv, IInv', SetGrown
  PROVE  \E k \in Keys, v \in Values : D!Set(k, v)
<1>1. ~Idle /\ Grown /\ cap' = cap /\ Idle' /\ Insert(goal.key, goal.val)
  BY DEF SetGrown, Grown, Idle
<1>2. goal.key \in Keys /\ goal.val \in Values
  BY <1>1 DEF IInv, GrowthInv, Goals, SetGrown
<1>3. D!Set(goal.key, goal.val)
  BY <1>1, <1>2, GrownIsMoved, InsertBinds
<1>4. QED
  BY <1>2, <1>3

(* The key for which a table has grown is refused: it binds nothing. *)
LEMMA GrownFailsIsFail ==
  ASSUME IInv, IInv', SetGrownFails
  PROVE  D!Fail
<1>1. Grown /\ Idle' /\ UNCHANGED <<slots, cap>> /\ answer' = <<"error", Absent>>
  BY DEF SetGrownFails, Grown, Idle, Raised
<1>2. Keyed = {slots[i] : i \in InUse}
  BY <1>1, GrownIsMoved
<1>3. Keyed' = {slots'[i] : i \in InUse'} /\ InUse' = InUse
  BY <1>1, NextAtRest DEF InUse
<1>4. Dict' = Dict
  BY <1>1, <1>2, <1>3, SameDict
<1>5. QED
  BY <1>1, <1>4 DEF D!Fail

LEMMA StartIsStutter ==
  ASSUME IInv, IInv', NEW k \in Keys \cup Unhashable, NEW v \in Values, StartGrowing(k, v)
  PROVE  UNCHANGED <<Dict, answer>>
<1> USE DEF StartGrowing
<1>1. \A i \in DOMAIN slots' : slots'[i].key = Absent
  BY DEF Fresh, Empty, IInv, TableTypeOK
<1>2. Keyed' = {s \in {slots[i] : i \in DOMAIN slots} : s.key # Absent}
  BY <1>1 DEF Keyed, Live, IInv, TableTypeOK
<1>3. Keyed' = Keyed
  BY <1>2 DEF Keyed, Live, IInv, TableTypeOK, GrowthInv
<1>4. QED
  BY <1>3, SameDict

LEMMA MoveIsStutter ==
  ASSUME IInv, IInv', MoveSlot
  PROVE  UNCHANGED <<Dict, answer>>
<1>1. /\ ~Idle /\ next \in DOMAIN old /\ next' = next + 1
      /\ UNCHANGED <<cap, old, answer>>
  BY DEF MoveSlot, Advance
<1>2. PICK h \in 1..cap : old \in [0..(h - 1) -> Slot]
  BY <1>1 DEF IInv, GrowthInv
<1>3. \A j \in DOMAIN old : j >= next <=> j = next \/ j >= next'
  BY <1>1, <1>2 DEF IInv, TableTypeOK
<1>4. CASE old[next].state # "used"
  <2>1. old[next].key = Absent
    BY <1>1, <1>2, <1>4, SlotFacts
  <2>2. slots' = slots
    BY <1>4 DEF MoveSlot
  <2>3. Keyed' = Keyed
    BY <1>1, <1>3, <2>1, <2>2 DEF Keyed, Live
  <2>4. QED
    BY <1>1, <2>3, SameDict
<1>5. CASE old[next].state = "used"
  <2>1. PICK i \in 0..(cap - 1) :
          slots[i].key = Absent /\ slots' = [slots EXCEPT ![i] = old[next]]
    BY <1>5, Rehashed
  <2>2. slots'[i] = old[next] /\ \A j \in (0..(cap - 1)) \ {i} : slots'[j] = slots[j]
    BY <2>1 DEF IInv, TableTypeOK
  <2>3. Keyed' = Keyed
    <3>1. ASSUME NEW s \in Keyed PROVE s \in Keyed'
      BY <1>1, <1>3, <2>1, <2>2 DEF Keyed, Live
    <3>2. ASSUME NEW s \in Keyed' PROVE s \in Keyed
      BY <1>1, <1>3, <2>1, <2>2 DEF Keyed, Live
    <3>3. QED
      BY <3>1, <3>2
  <2>4. QED
    BY <1>1, <2>3, SameDict
<1>6. QED
  BY <1>4, <1>5

LEMMA RefIsRef ==
  ASSUME IInv, IInv', NEW k \in Keys, RefKey(k)
  PROVE  D!Ref(k)
<1>1. Idle /\ UNCHANGED <<slots, cap, old, next>>
  BY DEF RefKey
<1>2. Keyed' = Keyed
  BY <1>1 DEF Keyed, Live
<1>3. Dict' = Dict
  BY <1>2, SameDict
<1>4. k # Absent /\ DOMAIN Dict = {slots[i].key : i \in InUse}
  BY <1>1, HashAssumption, AtRest, DictFacts
<1>5. CASE \E i \in 0..(cap - 1) : Found(k, i) /\ answer' = <<"ref", slots[i].val>>
  <2>1. PICK i \in 0..(cap - 1) : slots[i].key = k /\ answer' = <<"ref", slots[i].val>>
    BY <1>5 DEF Found
  <2>2. slots[i] \in Keyed /\ i \in InUse
    BY <1>1, <1>4, <2>1, AtRest, KeyedSlots
  <2>3. k \in DOMAIN Dict /\ Dict[k] = slots[i].val
    BY <1>4, <2>1, <2>2, DictFacts
  <2>4. QED
    BY <1>3, <2>1, <2>3 DEF D!Ref, D!Present
<1>6. CASE Missing(k) /\ answer' = <<"ref", Absent>>
  <2>1. k \notin DOMAIN Dict
    BY <1>4, <1>6, MissingIsAbsent DEF IInv, TableSound, InUse
  <2>2. QED
    BY <1>3, <1>6, <2>1 DEF D!Ref, D!Present
<1>7. QED
  BY <1>5, <1>6 DEF RefKey

LEMMA DelIsDel ==
  ASSUME IInv, IInv', NEW k \in Keys, DelKey(k)
  PROVE  D!Del(k)
<1>1. Idle /\ Idle' /\ UNCHANGED <<cap, old, next>>
  BY DEF DelKey, Idle
<1>2. k # Absent /\ DOMAIN Dict = {slots[i].key : i \in InUse}
  BY <1>1, HashAssumption, AtRest, DictFacts
<1>3. CASE \E i \in 0..(cap - 1) : /\ Found(k, i)
                                   /\ slots' = [slots EXCEPT ![i] = Tomb]
                                   /\ answer' = <<"del", TRUE>>
  <2>1. PICK i \in 0..(cap - 1) : /\ slots[i].key = k
                                  /\ slots' = [slots EXCEPT ![i] = Tomb]
                                  /\ answer' = <<"del", TRUE>>
    BY <1>3 DEF Found
  <2>2. i \in InUse /\ InUse \subseteq 0..(cap - 1)
    BY <1>1, <1>2, <2>1, AtRest DEF InUse
  <2>3. slots'[i] = Tomb /\ \A j \in (0..(cap - 1)) \ {i} : slots'[j] = slots[j]
    BY <2>1 DEF IInv, TableTypeOK
  <2>4. InUse' = InUse \ {i}
    BY <1>1, <2>3 DEF InUse, Tomb
  <2>5. \A j \in InUse : slots[j].key = k <=> j = i
    BY <2>1, <2>2 DEF IInv, TableSound, EntriesAreFound, InUse
  <2>6. Keyed = {slots[j] : j \in InUse} /\ Keyed' = {slots'[j] : j \in InUse'}
    BY <1>1, AtRest, NextAtRest
  <2>7. Keyed' = {s \in Keyed : s.key # k}
    BY <2>2, <2>3, <2>4, <2>5, <2>6
  <2>8. Dict' = [x \in DOMAIN Dict \ {k} |-> Dict[x]] /\ k \in DOMAIN Dict
    BY <1>2, <2>1, <2>2, <2>7, UnboundDict
  <2>9. QED
    BY <2>1, <2>8 DEF D!Del, D!Present
<1>4. CASE Missing(k) /\ answer' = <<"del", FALSE>> /\ UNCHANGED slots
  <2>1. k \notin DOMAIN Dict
    BY <1>2, <1>4, MissingIsAbsent DEF IInv, TableSound, InUse
  <2>2. Keyed' = Keyed
    BY <1>1, <1>4 DEF Keyed, Live
  <2>3. Dict' = Dict
    BY <2>2, SameDict
  <2>4. Dict' = [x \in DOMAIN Dict \ {k} |-> Dict[x]]
    BY <2>1, <2>3, DictIsFunction
  <2>5. D!Present(k) = FALSE
    BY <2>1, SMT DEF D!Present
  <2>6. answer' = <<"del", D!Present(k)>>
    BY <1>4, <2>5
  <2>7. QED
    BY <2>4, <2>6 DEF D!Del
<1>5. QED
  BY <1>3, <1>4 DEF DelKey

LEMMA SameCardinality == \A S : D!Cardinality(S) = Cardinality(S)
  BY DEF D!Cardinality, Cardinality

LEMMA ReportIsReport ==
  ASSUME IInv, IInv', NEW k, GrowFails \/ IndexFails(k) \/ CountKeys \/ ListKeys
  PROVE  D!Fail \/ D!Count \/ D!List
<1>1. Idle /\ UNCHANGED <<slots, cap, old, next>>
  BY DEF GrowFails, IndexFails, CountKeys, ListKeys
<1>2. Keyed' = Keyed
  BY <1>1 DEF Keyed, Live
<1>3. Dict' = Dict
  BY <1>2, SameDict
<1>4. CASE GrowFails \/ IndexFails(k)
  BY <1>3, <1>4 DEF GrowFails, IndexFails, Raised, D!Fail
<1>5. CASE CountKeys
  BY <1>1, <1>3, <1>5, CountIsSize, SameCardinality DEF CountKeys, D!Count
<1>6. CASE ListKeys
  <2>1. DOMAIN Dict = {s.key : s \in {slots[i] : i \in DOMAIN slots}} \ {Absent}
    <3>1. DOMAIN Dict = {slots[i].key : i \in InUse}
      BY <1>1, AtRest, DictFacts
    <3>2. \A i \in DOMAIN slots : slots[i].key # Absent <=> i \in InUse
      BY <1>1, AtRest DEF IInv, TableTypeOK
    <3>3. InUse \subseteq DOMAIN slots
      BY DEF InUse, IInv, TableTypeOK
    <3>4. QED
      BY <3>1, <3>2, <3>3
  <2>2. QED
    BY <1>3, <1>6, <2>1 DEF ListKeys, D!List
<1>7. QED
  BY <1>4, <1>5, <1>6

LEMMA StartIsStart == TableInit => D!Init
<1> SUFFICES ASSUME TableInit PROVE D!Init
  OBVIOUS
<1>1. IInv /\ answer = <<"none", Absent>> /\ Idle
  BY StartIsSound DEF TableInit, Idle
<1>2. InUse = {}
  BY HashAssumption DEF TableInit, InUse, Fresh, Empty
<1>3. DOMAIN Dict = {}
  BY <1>1, <1>2, AtRest, DictFacts
<1>4. Dict = [k \in {} |-> Absent]
  BY <1>3, DictIsFunction
<1>5. QED
  BY <1>1, <1>4 DEF D!Init

LEMMA StepIsStep ==
  IInv /\ IInv' /\ [TableNext]_tableVars => [D!Next]_(D!vars)
<1> SUFFICES ASSUME IInv, IInv', [TableNext]_tableVars
             PROVE  D!Next \/ UNCHANGED <<Dict, answer>>
  BY DEF D!vars
<1>1. ASSUME NEW k \in Keys, NEW v \in Values, SetKey(k, v) PROVE D!Next
  BY <1>1, SetIsSet DEF D!Next
<1>2. ASSUME NEW k \in Keys \cup Unhashable, NEW v \in Values, StartGrowing(k, v)
      PROVE  UNCHANGED <<Dict, answer>>
  BY <1>2, StartIsStutter
<1>3. CASE MoveSlot
  BY <1>3, MoveIsStutter
<1>4. CASE SetGrown \/ SetGrownFails
  BY <1>4, GrownIsSet, GrownFailsIsFail DEF D!Next
<1>5. ASSUME NEW k \in Keys, RefKey(k) PROVE D!Next
  BY <1>5, RefIsRef DEF D!Next
<1>6. ASSUME NEW k \in Keys, DelKey(k) PROVE D!Next
  BY <1>6, DelIsDel DEF D!Next
<1>7. ASSUME NEW k, GrowFails \/ IndexFails(k) \/ CountKeys \/ ListKeys
      PROVE  D!Next
  BY <1>7, ReportIsReport DEF D!Next
<1>8. CASE UNCHANGED tableVars
  <2>1. Keyed' = Keyed /\ answer' = answer
    BY <1>8 DEF tableVars, Keyed, Live
  <2>2. QED
    BY <2>1, SameDict
<1>9. QED
  BY <1>1, <1>2, <1>3, <1>4, <1>5, <1>6, <1>7, <1>8 DEF TableNext

(* hash-set!, hash-ref, hash-del!, hash-count and hash-keys answer as an   *)
(* association of keys to values does; the moves of a growth change no     *)
(* association, and neither a growth that finds no memory nor a key that   *)
(* hash_index refuses, before or after a growth, changes one.              *)
THEOREM TableIsDictionary == TableSpec => IsDictionary
<1>1. TableSpec => []IInv
  BY StartIsSound, Inductive, PTL DEF TableSpec
<1>2. QED
  BY <1>1, StartIsStart, StepIsStep, PTL DEF TableSpec, IsDictionary, D!Spec

-----------------------------------------------------------------------------
(***************************************************************************)
(* Containers                                                              *)
(***************************************************************************)
HeldKinds == {"free", "bare", "vector", "matrix", "blob", "hash"}
Vals  == Cells \cup {Nil, 0, 1}
Items == UNION {[0..(n - 1) -> Vals] : n \in Nat}

CellType == [kind : HeldKinds, items : Items, cols : Nat \ {0}, owner : Allocators \cup {Nil}]

Filled(ce) == {c \in Cells : ce[c] # Swept}

(* What the history and the allocators' books must be for given cells.     *)
Contents(x) == [p \in Positions(x) |-> x.items[Index(x, p)]]

WrittenFor(ce) == [c \in Cells |-> Contents(ce[c])]

Owed(x, a) == IF x.owner = a THEN BlocksOf(x) ELSE 0

BlocksFor(ce) == [a \in Allocators |-> [c \in Cells |-> Owed(ce[c], a)]]

(* No cell in use refers to one that was swept, garbage included.          *)
SoundCells(ce, he) ==
  /\ ce \in [Cells -> CellType]
  /\ \A c \in Cells : ce[c].kind = "free" => ce[c] = Swept
  /\ he \subseteq Filled(ce)
  /\ \A c \in Cells : Marks(ce[c]) \subseteq Filled(ce)

(* Between two constructors. *)
RestInv ==
  /\ SoundCells(cell, held)
  /\ allocator \in Allocators /\ made \in 0..ContainerCalls
  /\ blocks = BlocksFor(cell)
  /\ written = WrittenFor(cell)

(* Within one: its cell is bare, and has the blocks taken so far.          *)
MakingInv ==
  /\ SoundCells(cell, held)
  /\ allocator \in Allocators /\ made \in 0..ContainerCalls
  /\ making.cell \in Cells /\ cell[making.cell] = Bare
  /\ \E init \in held \cup {Nil} : making.backing \in Backings(init)
  /\ making = [cell |-> making.cell, backing |-> making.backing, taken |-> making.taken]
  /\ making.taken \in 0..BlocksOf(making.backing)
  /\ blocks \in [Allocators -> [Cells -> Nat]]
  /\ \A a \in Allocators, c \in Cells :
       blocks[a][c] = IF a = allocator /\ c = making.cell THEN making.taken
                                                         ELSE BlocksFor(cell)[a][c]
  /\ written = WrittenFor(cell)

ContainersInv == (Resting => RestInv) /\ (~Resting => MakingInv)
-----------------------------------------------------------------------------
LEMMA RowAndColumn ==
  ASSUME NEW i \in Nat, NEW w \in Nat \ {0}
  PROVE  (i \div w) * w + (i % w) = i /\ i \div w \in Nat /\ i % w \in Nat
  OBVIOUS

(* Positions name elements, one each.                                      *)
LEMMA PositionsAreElements ==
  ASSUME NEW x \in CellType
  PROVE  /\ \A p \in Positions(x) : Index(x, p) \in DOMAIN x.items
         /\ \A p, q \in Positions(x) : Index(x, p) = Index(x, q) => p = q
<1>1. PICK n \in Nat : x.items \in [0..(n - 1) -> Vals]
  BY DEF CellType, Items
<1>2. DOMAIN x.items = 0..(n - 1) /\ x.cols \in Nat \ {0}
  BY <1>1 DEF CellType
<1>3. CASE x.kind = "matrix"
  <2>1. ASSUME NEW p \in Positions(x)
        PROVE  \E i \in 0..(n - 1) : p = <<i \div x.cols, i % x.cols>> /\ Index(x, p) = i
    <3>1. PICK i \in 0..(n - 1) : p = <<i \div x.cols, i % x.cols>>
      BY <1>2, <1>3 DEF Positions
    <3>2. i \in Nat
      OBVIOUS
    <3>3. (i \div x.cols) * x.cols + (i % x.cols) = i
      BY <1>2, <3>2, RowAndColumn
    <3>4. Index(x, p) = i
      BY <1>3, <3>1, <3>3 DEF Index
    <3>5. QED
      BY <3>1, <3>4
  <2>2. QED
    BY <1>2, <2>1
<1>4. CASE x.kind # "matrix"
  BY <1>4 DEF Positions, Index
<1>5. QED
  BY <1>3, <1>4

LEMMA SweptType ==
  /\ Swept \in CellType /\ Bare \in CellType /\ Swept.kind = "free" /\ Bare # Swept /\ Bare.kind = "bare"
  /\ Marks(Swept) = {} /\ Marks(Bare) = {}
  /\ Contents(Swept) = Nothing /\ Contents(Bare) = Nothing
  /\ \A a : Owed(Swept, a) = 0 /\ Owed(Bare, a) = 0
<1>1. Nothing \in Items
  <2>1. Nothing \in [0..(0 - 1) -> Vals]
    BY DEF Nothing
  <2>2. QED
    BY <2>1 DEF Items
<1>2. /\ Swept \in CellType /\ Bare = [kind |-> "bare", items |-> Nothing, cols |-> 1, owner |-> Nil]
      /\ Bare \in CellType
  BY <1>1 DEF Swept, Bare, CellType, HeldKinds
<1>3. Positions(Swept) = {} /\ Positions(Bare) = {}
  BY <1>2 DEF Positions, Swept, Nothing
<1>4. Contents(Swept) = Nothing /\ Contents(Bare) = Nothing
  BY <1>3 DEF Contents, Nothing
<1>5. QED
  BY <1>2, <1>4 DEF Swept, Marks, Owed, BlocksOf
-----------------------------------------------------------------------------
LEMMA Reaching ==
  /\ held \subseteq Cells => held \subseteq Reachable
  /\ Reachable \subseteq Cells
  /\ \A c \in Reachable : Marks(cell[c]) \subseteq Reachable
<1>1. ASSUME held \subseteq Cells PROVE held \subseteq Reachable
  BY <1>1 DEF Reachable
<1>2. ASSUME NEW c \in Reachable, NEW d \in Marks(cell[c]) PROVE d \in Reachable
  <2>1. c \in Cells /\ d \in Cells
    BY <1>2 DEF Reachable, Marks
  <2>2. ASSUME NEW S \in SUBSET (Cells \ {d}), held \subseteq S,
               \A x \in S : Marks(cell[x]) \subseteq S
        PROVE  FALSE
    <3>1. c \notin S
      BY <1>2, <2>2
    <3>2. S \in SUBSET (Cells \ {c})
      BY <3>1
    <3>3. QED
      BY <1>2, <2>2, <3>2 DEF Reachable
  <2>3. QED
    BY <2>1, <2>2 DEF Reachable
<1>3. QED
  BY <1>1, <1>2 DEF Reachable

LEMMA ReachableInUse ==
  ASSUME SoundCells(cell, held)
  PROVE  Reachable \subseteq Filled(cell)
<1>1. SUFFICES ASSUME NEW c \in Reachable, c \notin Filled(cell) PROVE FALSE
  OBVIOUS
<1>2. Filled(cell) \in SUBSET (Cells \ {c})
  BY <1>1 DEF Filled
<1>3. held \subseteq Filled(cell) /\ \A x \in Filled(cell) : Marks(cell[x]) \subseteq Filled(cell)
  BY DEF SoundCells, Filled
<1>4. QED
  BY <1>1, <1>2, <1>3 DEF Reachable

(* A set that a collection may keep.                                       *)
Keeps(kept) == kept \subseteq Cells /\ \A c \in kept : Marks(cell[c]) \subseteq kept

LEMMA KeepersAreClosed ==
  ASSUME SoundCells(cell, held)
  PROVE  /\ Keeps(Reachable) /\ Keeps(Cells) /\ Keeps({}) /\ Keeps(Kept)
         /\ held \subseteq Reachable /\ held \subseteq Kept
<1>1. held \subseteq Cells
  BY DEF SoundCells, Filled
<1>2. Keeps(Cells) /\ Keeps({})
  BY DEF Keeps, Marks
<1>3. Keeps(Reachable) /\ held \subseteq Reachable
  BY <1>1, Reaching DEF Keeps
<1>4. QED
  BY <1>1, <1>2, <1>3 DEF Kept

(* A collection.                                                           *)
LEMMA AfterCollection ==
  ASSUME RestInv, NEW kept, Keeps(kept), NEW he, he \subseteq held, he \subseteq kept
  PROVE  /\ SoundCells(CellsAfter(kept), he)
         /\ BlocksAfter(kept) = BlocksFor(CellsAfter(kept))
         /\ WrittenAfter(kept) = WrittenFor(CellsAfter(kept))
<1> DEFINE ce == CellsAfter(kept)
<1>1. \A c \in Cells : ce[c] = IF c \in kept THEN cell[c] ELSE Swept
  BY DEF CellsAfter
<1>2. SoundCells(cell, held) /\ blocks = BlocksFor(cell) /\ written = WrittenFor(cell)
  BY DEF RestInv
<1>3. ce \in [Cells -> CellType]
  BY <1>2, SweptType DEF CellsAfter, SoundCells
<1>4. \A c \in Cells : c \in Filled(ce) <=> c \in kept /\ c \in Filled(cell)
  BY <1>1 DEF Filled
<1> HIDE DEF ce
<1>5. SoundCells(ce, he)
  <2>1. \A c \in Cells : Marks(ce[c]) \subseteq Filled(ce)
    <3>1. SUFFICES ASSUME NEW c \in Cells, NEW d \in Marks(ce[c]) PROVE d \in Filled(ce)
      OBVIOUS
    <3>2. c \in kept /\ ce[c] = cell[c]
      BY <1>1, <3>1, SweptType
    <3>3. d \in kept /\ d \in Filled(cell) /\ d \in Cells
      BY <1>2, <3>1, <3>2 DEF Keeps, SoundCells
    <3>4. QED
      BY <1>4, <3>3
  <2>2. he \subseteq Filled(ce)
    BY <1>2, <1>4 DEF SoundCells, Filled
  <2>3. \A c \in Cells : ce[c].kind = "free" => ce[c] = Swept
    BY <1>1, <1>2 DEF SoundCells
  <2>4. QED
    BY <1>3, <2>1, <2>2, <2>3 DEF SoundCells
<1>6. BlocksAfter(kept) = BlocksFor(ce)
  <2>1. ASSUME NEW a \in Allocators, NEW c \in Cells
        PROVE  blocks[a][c] - (IF c \in kept THEN 0 ELSE ReturnedTo(cell[c], a)) = Owed(ce[c], a)
    <3>1. blocks[a][c] = Owed(cell[c], a) /\ Owed(cell[c], a) \in Nat /\ ReturnedTo(cell[c], a) = Owed(cell[c], a)
      BY <1>2 DEF BlocksFor, Owed, BlocksOf, ReturnedTo
    <3>2. QED
      BY <1>1, <3>1, SweptType
  <2>2. QED
    BY <2>1 DEF BlocksAfter, BlocksFor
<1>7. WrittenAfter(kept) = WrittenFor(ce)
  BY <1>1, <1>2, SweptType DEF WrittenAfter, WrittenFor
<1>8. QED
  BY <1>5, <1>6, <1>7 DEF ce

-----------------------------------------------------------------------------
(* One cell gets another backing.                                          *)
Refill(ce, new, he, c, x) ==
  /\ SoundCells(new, he)
  /\ SoundCells(new, he \cup {c})
  /\ WrittenFor(new) = [WrittenFor(ce) EXCEPT ![c] = Contents(x)]
  /\ \A a \in Allocators : \A d \in Cells :
       BlocksFor(new)[a][d] = IF d = c THEN Owed(x, a) ELSE BlocksFor(ce)[a][d]

Fits(ce, x) == x \in CellType /\ x.kind # "free" /\ Marks(x) \subseteq Filled(ce)

LEMMA Refilled ==
  ASSUME NEW ce, NEW he, SoundCells(ce, he), NEW c \in Cells, NEW x, Fits(ce, x)
  PROVE  Refill(ce, [ce EXCEPT ![c] = x], he, c, x)
<1> DEFINE new == [ce EXCEPT ![c] = x]
<1>1. /\ ce \in [Cells -> CellType]
      /\ x \in CellType /\ x.kind # "free" /\ Marks(x) \subseteq Filled(ce)
  BY DEF SoundCells, Fits
<1>2. new \in [Cells -> CellType] /\ \A d \in Cells : new[d] = IF d = c THEN x ELSE ce[d]
  BY <1>1
<1> HIDE DEF new
<1>3. Filled(new) = Filled(ce) \cup {c}
  <2>1. x # Swept
    BY <1>1, SweptType
  <2>2. QED
    BY <1>2, <2>1 DEF Filled
<1>4. \A d \in Cells : Marks(new[d]) \subseteq Filled(new)
  BY <1>1, <1>2, <1>3 DEF SoundCells
<1>5. SoundCells(new, he) /\ SoundCells(new, he \cup {c})
  BY <1>1, <1>2, <1>3, <1>4 DEF SoundCells
<1>6. WrittenFor(new) = [WrittenFor(ce) EXCEPT ![c] = Contents(x)]
  BY <1>2 DEF WrittenFor
<1>7. \A a \in Allocators : \A d \in Cells :
        BlocksFor(new)[a][d] = IF d = c THEN Owed(x, a) ELSE BlocksFor(ce)[a][d]
  BY <1>2 DEF BlocksFor
<1>8. QED
  BY <1>5, <1>6, <1>7 DEF new, Refill

LEMMA BooksAreFunctions ==
  ASSUME NEW ce \in [Cells -> CellType]
  PROVE  /\ BlocksFor(ce) \in [Allocators -> [Cells -> Nat]]
         /\ \A x \in CellType : \A a : Owed(x, a) \in Nat /\ BlocksOf(x) \in Nat
<1>1. \A x \in CellType : \A a : Owed(x, a) \in Nat /\ BlocksOf(x) \in Nat
  BY DEF Owed, BlocksOf
<1>2. QED
  BY <1>1 DEF BlocksFor

(* What the constructors attach is well typed and refers to what is held.  *)
LEMMA BackingsAreSound ==
  ASSUME SoundCells(cell, held), allocator \in Allocators, NEW init \in held \cup {Nil}, NEW x \in Backings(init)
  PROVE  /\ x \in CellType /\ x.kind # "free" /\ x.owner = allocator
         /\ Marks(x) \subseteq held
<1>1. init \in Vals /\ allocator \in Allocators /\ SizeMax \in Nat
  BY ContainersAssumption DEF SoundCells, Filled, Vals
<1> DEFINE Made(kind, n, i, w) ==
      [kind |-> kind, items |-> [j \in 0..(n - 1) |-> i], cols |-> w, owner |-> allocator]
<1>2. ASSUME NEW kind \in HeldKinds \ {"free"}, NEW n \in Nat, NEW i \in Vals, NEW w \in Nat \ {0},
             i \in held \cup {Nil} \/ kind = "blob", x = Made(kind, n, i, w)
      PROVE  /\ x \in CellType /\ x.kind # "free" /\ x.owner = allocator
             /\ Marks(x) \subseteq held
  <2>1. [j \in 0..(n - 1) |-> i] \in Items
    BY <1>2 DEF Items
  <2>2. x \in CellType
    BY <1>1, <1>2, <2>1 DEF CellType
  <2>3. Marks(x) \subseteq held
    <3>1. SUFFICES ASSUME NEW d \in Marks(x) PROVE d \in held
      OBVIOUS
    <3>2. kind # "blob" /\ d \in Cells /\ d = i
      BY <1>2, <3>1 DEF Marks
    <3>3. QED
      BY <1>2, <3>2, ContainersAssumption
  <2>4. QED
    BY <1>2, <2>2, <2>3
<1>3. /\ \A n : Backed("vector", n, init, allocator) = Made("vector", n, init, 1)
      /\ \A n : Backed("blob", n, 0, allocator) = Made("blob", n, 0, 1)
      /\ Backed("hash", 1, Nil, allocator) = Made("hash", 1, Nil, 1)
      /\ \A n, w : [Backed("matrix", n, init, allocator) EXCEPT !.cols = w]
                     = Made("matrix", n, init, w)
  <2>1. ASSUME NEW kind, NEW n, NEW i, NEW w
        PROVE  /\ Backed(kind, n, i, allocator) = Made(kind, n, i, 1)
               /\ [Backed(kind, n, i, allocator) EXCEPT !.cols = w] = Made(kind, n, i, w)
    <3> DEFINE all == [j \in 0..(n - 1) |-> i]
    <3>1. /\ Backed(kind, n, i, allocator) =
               [kind |-> kind, items |-> all, cols |-> 1, owner |-> allocator]
          /\ \A u : Made(kind, n, i, u) =
               [kind |-> kind, items |-> all, cols |-> u, owner |-> allocator]
      BY Zenon DEF Backed
    <3> HIDE DEF all, Made
    <3>2. QED
      BY <3>1
  <2> HIDE DEF Made
  <2>2. QED
    BY <2>1
<1>4. /\ 0 \in Vals /\ Nil \in Vals /\ 1 \in Nat \ {0} /\ 0..SizeMax \subseteq Nat
      /\ {"vector", "matrix", "blob", "hash"} \subseteq HeldKinds \ {"free"}
  BY <1>1 DEF Vals, HeldKinds
<1> HIDE DEF Made
<1>5. \/ \E n \in Nat : x = Made("vector", n, init, 1)
      \/ \E n \in Nat : x = Made("blob", n, 0, 1)
      \/ x = Made("hash", 1, Nil, 1)
      \/ \E n \in Nat, w \in Nat \ {0} : x = Made("matrix", n, init, w)
  <2>1. CASE \E n \in 0..SizeMax : x = Backed("vector", n, init, allocator)
    BY <1>3, <1>4, <2>1
  <2>2. CASE \E n \in 0..SizeMax : x = Backed("blob", n, 0, allocator)
    BY <1>3, <1>4, <2>2
  <2>3. CASE x = Backed("hash", 1, Nil, allocator)
    BY <1>3, <2>3
  <2>4. CASE \E s \in (1..SizeMax) \X (1..SizeMax) :
               x = [Backed("matrix", s[1] * s[2], init, allocator) EXCEPT !.cols = s[2]]
    <3>1. PICK s \in (1..SizeMax) \X (1..SizeMax) :
                 x = [Backed("matrix", s[1] * s[2], init, allocator) EXCEPT !.cols = s[2]]
      BY <2>4
    <3>2. s[1] \in Nat /\ s[2] \in Nat \ {0}
      BY <1>1
    <3>3. s[1] * s[2] \in Nat
      BY <3>2
    <3>4. QED
      BY <1>3, <3>1, <3>2, <3>3
  <2>5. QED
    BY <2>1, <2>2, <2>3, <2>4 DEF Backings
<1>6. CASE \E n \in Nat : x = Made("vector", n, init, 1)
  BY <1>1, <1>2, <1>4, <1>6
<1>7. CASE \E n \in Nat : x = Made("blob", n, 0, 1)
  BY <1>1, <1>2, <1>4, <1>7
<1>8. CASE x = Made("hash", 1, Nil, 1)
  <2>1. "hash" \in HeldKinds \ {"free"} /\ 1 \in Nat /\ 1 \in Nat \ {0} /\ Nil \in held \cup {Nil}
    BY <1>4
  <2>2. QED
    BY <1>2, <1>4, <1>8, <2>1
<1>9. CASE \E n \in Nat, w \in Nat \ {0} : x = Made("matrix", n, init, w)
  <2>1. PICK n \in Nat, w \in Nat \ {0} : x = Made("matrix", n, init, w)
    BY <1>9
  <2>2. "matrix" \in HeldKinds \ {"free"}
    BY <1>4
  <2>3. QED
    BY <1>1, <1>2, <2>1, <2>2
<1>10. QED
  BY <1>5, <1>6, <1>7, <1>8, <1>9

-----------------------------------------------------------------------------
LEMMA StartsSound == ContainersInit => ContainersInv
<1>1. SUFFICES ASSUME ContainersInit PROVE RestInv
  BY DEF ContainersInit, ContainersInv, Resting
<1>2. \A c \in Cells : cell[c] = Swept
  BY <1>1 DEF ContainersInit
<1>3. SoundCells(cell, held)
  BY <1>1, <1>2, SweptType DEF ContainersInit, SoundCells, Filled
<1>4. blocks = BlocksFor(cell)
  BY <1>1, <1>2, SweptType DEF ContainersInit, BlocksFor
<1>5. written = WrittenFor(cell)
  BY <1>1, <1>2, SweptType DEF ContainersInit, WrittenFor
<1>6. QED
  BY <1>1, <1>3, <1>4, <1>5, ContainersAssumption DEF ContainersInit, RestInv

(* A bare cell owns nothing and holds nothing.                             *)
LEMMA CellIsBare ==
  ASSUME RestInv, TakeCell
  PROVE  /\ RestInv'
         /\ \/ making' = making
            \/ \E c \in Cells : \E init \in held \cup {Nil} : \E x \in Backings(init) :
                 cell'[c] = Bare /\ making' = [cell |-> c, backing |-> x, taken |-> 0]
<1> DEFINE ce == CellsAfter(Kept)
           Chosen(c) == \/ making' = making
                        \/ \E init \in held \cup {Nil} : \E x \in Backings(init) :
                             making' = [cell |-> c, backing |-> x, taken |-> 0]
<1>1. PICK c \in Cells :
        /\ ce[c] = Swept
        /\ cell' = [ce EXCEPT ![c] = Bare]
        /\ Chosen(c)
  <2> DEFINE c0 == CHOOSE x \in Cells : CellsAfter(Kept)[x] = Swept
  <2>1. c0 \in Cells /\ CellsAfter(Kept)[c0] = Swept
    BY Zenon DEF TakeCell
  <2>2. cell' = [ce EXCEPT ![c0] = Bare] /\ Chosen(c0)
    BY Zenon DEF TakeCell
  <2> HIDE DEF c0
  <2>3. QED
    BY <2>1, <2>2, Zenon
<1>2. /\ blocks' = BlocksAfter(Kept) /\ written' = WrittenAfter(Kept)
      /\ UNCHANGED held
  BY DEF TakeCell
<1>3. /\ SoundCells(ce, held)
      /\ BlocksAfter(Kept) = BlocksFor(ce) /\ WrittenAfter(Kept) = WrittenFor(ce)
  <2>1. SoundCells(cell, held)
    BY DEF RestInv
  <2>2. QED
    BY <2>1, KeepersAreClosed, AfterCollection
<1>4. /\ ce \in [Cells -> CellType] /\ BlocksFor(ce) \in [Allocators -> [Cells -> Nat]]
      /\ WrittenFor(ce) = [d \in Cells |-> Contents(ce[d])]
  BY <1>3, BooksAreFunctions DEF SoundCells, WrittenFor
<1>5. /\ allocator \in Allocators /\ allocator' \in Allocators
      /\ made' \in 0..ContainerCalls
  BY ContainersAssumption DEF RestInv, TakeCell, MakesCall
<1>6. /\ \A a \in Allocators : BlocksFor(ce)[a][c] = 0
      /\ WrittenFor(ce)[c] = Nothing
  BY <1>1, <1>4, SweptType DEF BlocksFor
<1> HIDE DEF ce
<1>7. /\ SoundCells(cell', held') /\ cell'[c] = Bare
      /\ WrittenFor(cell') = [WrittenFor(ce) EXCEPT ![c] = Nothing]
      /\ \A a \in Allocators : \A d \in Cells :
           BlocksFor(cell')[a][d] = IF d = c THEN 0 ELSE BlocksFor(ce)[a][d]
  <2>1. /\ Bare \in CellType /\ Bare.kind # "free" /\ Marks(Bare) \subseteq Filled(ce)
        /\ Contents(Bare) = Nothing /\ \A a : Owed(Bare, a) = 0
    BY SweptType
  <2> DEFINE new == [ce EXCEPT ![c] = Bare]
  <2>2. Refill(ce, new, held, c, Bare)
    BY <1>3, <2>1, Refilled DEF Fits
  <2>3. cell' = new /\ held' = held /\ new[c] = Bare
    BY <1>1, <1>2, <1>4
  <2> HIDE DEF new
  <2>4. QED
    BY <2>1, <2>2, <2>3 DEF Refill
<1>8. WrittenFor(cell') = WrittenFor(ce)
  BY <1>4, <1>6, <1>7
<1>9. BlocksFor(cell') = BlocksFor(ce)
  <2>1. cell' \in [Cells -> CellType]
    BY <1>7 DEF SoundCells
  <2>2. BlocksFor(cell') \in [Allocators -> [Cells -> Nat]]
    BY <2>1, BooksAreFunctions
  <2>3. \A a \in Allocators : \A d \in Cells : BlocksFor(cell')[a][d] = BlocksFor(ce)[a][d]
    BY <1>6, <1>7
  <2>4. QED
    BY <1>4, <2>2, <2>3
<1>10. RestInv'
  BY <1>2, <1>3, <1>5, <1>7, <1>8, <1>9 DEF RestInv
<1>11. QED
  BY <1>1, <1>7, <1>10

LEMMA CellTakeKeeps == ContainersInv /\ TakeCell => ContainersInv'
<1>1. SUFFICES ASSUME ContainersInv, TakeCell PROVE ContainersInv'
  OBVIOUS
<1>2. Resting /\ RestInv
  BY <1>1 DEF TakeCell, MakesCall, ContainersInv
<1>3. RestInv'
  BY <1>1, <1>2, CellIsBare
<1>4. CASE making' = making
  BY <1>2, <1>3, <1>4 DEF ContainersInv, Resting
<1>5. ASSUME NEW c \in Cells, NEW init \in held \cup {Nil}, NEW x \in Backings(init),
             cell'[c] = Bare, making' = [cell |-> c, backing |-> x, taken |-> 0]
      PROVE  ContainersInv'
  <2>1. /\ making'.cell = c /\ making'.backing = x /\ making'.taken = 0
        /\ ~Resting'
    BY <1>5, ContainersAssumption DEF Resting, NotMaking
  <2>2. held' = held /\ allocator' = allocator
    BY <1>1 DEF TakeCell
  <2>3. Backings(init)' = Backings(init)
    BY <2>2 DEF Backings
  <2>4. 0 \in 0..BlocksOf(x)
    BY DEF BlocksOf
  <2>5. /\ SoundCells(cell', held') /\ allocator' \in Allocators /\ made' \in 0..ContainerCalls
        /\ blocks' = BlocksFor(cell') /\ written' = WrittenFor(cell')
    BY <1>3 DEF RestInv
  <2>6. blocks' \in [Allocators -> [Cells -> Nat]]
    BY <2>5, BooksAreFunctions DEF SoundCells
  <2>7. \A a \in Allocators : blocks'[a][c] = 0
    BY <1>5, <2>5, SweptType DEF BlocksFor
  <2>8. MakingInv'
    BY <1>5, <2>1, <2>2, <2>3, <2>4, <2>5, <2>6, <2>7 DEF MakingInv
  <2>9. QED
    BY <2>1, <2>8 DEF ContainersInv
<1>6. QED
  BY <1>1, <1>2, <1>4, <1>5, CellIsBare

(* What a constructor knows of its backing.                                *)
LEMMA MakingFacts ==
  ASSUME MakingInv
  PROVE  /\ making.backing \in CellType /\ making.backing.kind # "free"
         /\ making.backing.owner = allocator /\ Marks(making.backing) \subseteq held
         /\ BlocksOf(making.backing) \in Nat /\ making.taken \in Nat
         /\ making.cell \in Cells /\ allocator \in Allocators
         /\ \A a \in Allocators : BlocksFor(cell)[a][making.cell] = 0
         /\ WrittenFor(cell)[making.cell] = Nothing
         /\ cell \in [Cells -> CellType]
<1>1. PICK init \in held \cup {Nil} : making.backing \in Backings(init)
  BY DEF MakingInv
<1>2. /\ making.backing \in CellType /\ making.backing.kind # "free"
      /\ making.backing.owner = allocator /\ Marks(making.backing) \subseteq held
  BY <1>1, BackingsAreSound DEF MakingInv
<1>3. BlocksOf(making.backing) \in Nat
  BY DEF BlocksOf
<1>4. making.taken \in Nat
  BY <1>3 DEF MakingInv
<1>5. cell \in [Cells -> CellType] /\ cell[making.cell] = Bare /\ making.cell \in Cells
  BY DEF MakingInv, SoundCells
<1>6. \A a \in Allocators : BlocksFor(cell)[a][making.cell] = 0
  BY <1>5, SweptType DEF BlocksFor
<1>7. WrittenFor(cell)[making.cell] = Nothing
  BY <1>5, SweptType DEF WrittenFor
<1>8. QED
  BY <1>2, <1>3, <1>4, <1>5, <1>6, <1>7 DEF MakingInv

LEMMA BlockKeeps == ContainersInv /\ TakeBlock => ContainersInv'
<1>1. SUFFICES ASSUME ContainersInv, TakeBlock PROVE ContainersInv'
  OBVIOUS
<1>2. MakingInv /\ ~Resting
  BY <1>1 DEF TakeBlock, ContainersInv
<1> DEFINE c == making.cell
           x == making.backing
           t == making.taken
<1>3. /\ making = [cell |-> c, backing |-> x, taken |-> t]
      /\ t \in Nat /\ BlocksOf(x) \in Nat /\ t < BlocksOf(x)
      /\ c \in Cells /\ allocator \in Allocators
  BY <1>1, <1>2, MakingFacts DEF TakeBlock, MakingInv
<1>4. making' = [cell |-> c, backing |-> x, taken |-> t + 1] /\ t + 1 \in 0..BlocksOf(x)
  BY <1>1, <1>3 DEF TakeBlock
<1>5. making'.cell = c /\ making'.backing = x /\ making'.taken = t + 1
  BY <1>4
<1>6. /\ UNCHANGED <<cell, held, allocator, made, written>>
      /\ blocks' = [blocks EXCEPT ![allocator][c] = @ + 1]
  BY <1>1 DEF TakeBlock
<1>7. blocks \in [Allocators -> [Cells -> Nat]] /\ blocks[allocator][c] = t
  BY <1>2, <1>3 DEF MakingInv
<1>8. /\ blocks' \in [Allocators -> [Cells -> Nat]]
      /\ \A a \in Allocators, d \in Cells :
           blocks'[a][d] = IF a = allocator /\ d = c THEN t + 1 ELSE blocks[a][d]
  BY <1>3, <1>6, <1>7
<1>9. ~Resting'
  BY <1>3, <1>5, ContainersAssumption DEF Resting, NotMaking
<1>10. /\ SoundCells(cell', held') /\ allocator' \in Allocators /\ made' \in 0..ContainerCalls
       /\ making'.cell \in Cells /\ cell'[making'.cell] = Bare
       /\ written' = WrittenFor(cell')
  BY <1>2, <1>5, <1>6 DEF MakingInv
<1>11. \E init \in held' \cup {Nil} : making'.backing \in Backings(init)'
  <2>1. PICK init \in held \cup {Nil} : x \in Backings(init)
    BY <1>2 DEF MakingInv
  <2>2. Backings(init)' = Backings(init) /\ held' = held
    BY <1>6 DEF Backings
  <2>3. QED
    BY <1>5, <2>1, <2>2
<1>12. \A a \in Allocators, d \in Cells :
         blocks'[a][d] = IF a = allocator' /\ d = making'.cell THEN making'.taken
                                                            ELSE BlocksFor(cell')[a][d]
  <2> HIDE DEF c, x, t
  <2>1. \A a \in Allocators, d \in Cells :
           ~(a = allocator /\ d = c) => blocks[a][d] = BlocksFor(cell)[a][d]
    BY <1>2 DEF MakingInv, c
  <2>2. QED
    BY <1>5, <1>6, <1>8, <2>1
<1> HIDE DEF c, x, t
<1>13. MakingInv'
  BY <1>4, <1>5, <1>8, <1>10, <1>11, <1>12 DEF MakingInv
<1>14. QED
  BY <1>9, <1>13 DEF ContainersInv

LEMMA RefusalKeeps == ContainersInv /\ BlockRefused => ContainersInv'
<1>1. SUFFICES ASSUME ContainersInv, BlockRefused PROVE ContainersInv'
  OBVIOUS
<1>2. MakingInv
  BY <1>1 DEF BlockRefused, ContainersInv
<1> DEFINE c == making.cell
           t == making.taken
           B == BlocksFor(cell)
<1>3. /\ UNCHANGED <<cell, held, allocator, made, written>> /\ making' = NotMaking
      /\ blocks' = [blocks EXCEPT ![allocator][c] = @ - t]
  BY <1>1 DEF BlockRefused, GivenUp
<1>4. /\ c \in Cells /\ allocator \in Allocators /\ t \in Nat
      /\ B \in [Allocators -> [Cells -> Nat]] /\ B[allocator][c] = 0
  BY <1>2, MakingFacts, BooksAreFunctions
<1>5. /\ blocks \in [Allocators -> [Cells -> Nat]]
      /\ \A a \in Allocators, d \in Cells :
           blocks[a][d] = IF a = allocator /\ d = c THEN t ELSE B[a][d]
  BY <1>2 DEF MakingInv
<1> HIDE DEF c, t, B
<1>6. blocks' = B
  <2>1. \A a \in Allocators, d \in Cells : blocks'[a][d] = B[a][d]
    BY <1>3, <1>4, <1>5
  <2>2. blocks' \in [Allocators -> [Cells -> Int]]
    BY <1>3, <1>4, <1>5
  <2>3. QED
    BY <1>4, <2>1, <2>2
<1>7. RestInv'
  BY <1>2, <1>3, <1>6 DEF RestInv, MakingInv, B
<1>8. Resting'
  BY <1>3 DEF Resting
<1>9. QED
  BY <1>7, <1>8 DEF ContainersInv

LEMMA AttachKeeps == ContainersInv /\ Attach => ContainersInv'
<1>1. SUFFICES ASSUME ContainersInv, Attach PROVE ContainersInv'
  OBVIOUS
<1>2. MakingInv
  BY <1>1 DEF Attach, ContainersInv
<1> DEFINE c == making.cell
           x == making.backing
           B == BlocksFor(cell)
<1>3. /\ cell' = [cell EXCEPT ![c] = x] /\ held' = held \cup {c}
      /\ written' = [written EXCEPT ![c] = Contents(x)]
      /\ making' = NotMaking /\ UNCHANGED <<allocator, blocks, made>>
      /\ making.taken = BlocksOf(x)
  BY <1>1 DEF Attach, Contents
<1>4. /\ x \in CellType /\ x.kind # "free" /\ x.owner = allocator
      /\ Marks(x) \subseteq held /\ c \in Cells /\ allocator \in Allocators
      /\ BlocksOf(x) \in Nat
  BY <1>2, MakingFacts
<1>5. /\ SoundCells(cell, held) /\ written = WrittenFor(cell)
      /\ allocator \in Allocators /\ made \in 0..ContainerCalls
      /\ blocks \in [Allocators -> [Cells -> Nat]]
      /\ \A a \in Allocators, d \in Cells :
           blocks[a][d] = IF a = allocator /\ d = c THEN making.taken ELSE B[a][d]
  BY <1>2 DEF MakingInv
<1>6. \A a \in Allocators : B[a][c] = 0
  BY <1>2, MakingFacts
<1> HIDE DEF c, x, B
<1>7. /\ SoundCells(cell', held')
      /\ WrittenFor(cell') = [WrittenFor(cell) EXCEPT ![c] = Contents(x)]
      /\ \A a \in Allocators : \A d \in Cells :
           BlocksFor(cell')[a][d] = IF d = c THEN Owed(x, a) ELSE B[a][d]
  <2> DEFINE new == [cell EXCEPT ![c] = x]
  <2>1. Marks(x) \subseteq Filled(cell)
    BY <1>4, <1>5 DEF SoundCells
  <2>2. Refill(cell, new, held, c, x)
    BY <1>4, <1>5, <2>1, Refilled DEF Fits
  <2>3. cell' = new /\ held' = held \cup {c}
    BY <1>3
  <2> HIDE DEF new
  <2>4. QED
    BY <2>2, <2>3 DEF Refill, B
<1>8. blocks' = BlocksFor(cell')
  <2>1. BlocksFor(cell') \in [Allocators -> [Cells -> Nat]]
    BY <1>7, BooksAreFunctions DEF SoundCells
  <2>2. \A a \in Allocators : Owed(x, a) = IF a = allocator THEN BlocksOf(x) ELSE 0
    BY <1>4 DEF Owed
  <2>3. /\ making.taken = BlocksOf(x) /\ blocks' = blocks
        /\ blocks \in [Allocators -> [Cells -> Nat]]
        /\ \A a \in Allocators, d \in Cells :
             blocks[a][d] = IF a = allocator /\ d = c THEN making.taken ELSE B[a][d]
    BY <1>3, <1>5
  <2>4. \A a \in Allocators : \A d \in Cells :
          BlocksFor(cell')[a][d] = IF d = c THEN Owed(x, a) ELSE B[a][d]
    BY <1>7
  <2>5. ASSUME NEW a \in Allocators, NEW d \in Cells
        PROVE  BlocksFor(cell')[a][d] = blocks[a][d]
    <3>1. CASE d = c
      BY <1>6, <2>2, <2>3, <2>4, <3>1
    <3>2. CASE d # c
      BY <2>3, <2>4, <3>2
    <3>3. QED
      BY <3>1, <3>2
  <2> DEFINE F == BlocksFor(cell')
  <2>6. F \in [Allocators -> [Cells -> Nat]] /\ \A a \in Allocators, d \in Cells : F[a][d] = blocks[a][d]
    BY <2>1, <2>5
  <2> HIDE DEF F
  <2>7. F = blocks
    BY <2>3, <2>6
  <2>8. QED
    BY <2>3, <2>7 DEF F
<1>9. RestInv'
  BY <1>3, <1>5, <1>7, <1>8 DEF RestInv
<1>10. Resting'
  BY <1>3 DEF Resting
<1>11. QED
  BY <1>9, <1>10 DEF ContainersInv

LEMMA StoreKeeps == RestInv /\ StoreElement => RestInv'
<1>1. SUFFICES ASSUME RestInv, StoreElement PROVE RestInv'
  OBVIOUS
<1>2. PICK c \in held : \E p \in Positions(cell[c]),
                           v \in IF cell[c].kind = "blob" THEN {0, 1} ELSE held \cup {Nil} :
        /\ cell' = [cell EXCEPT ![c].items[Index(cell[c], p)] = v]
        /\ written' = [written EXCEPT ![c][p] = v]
  BY <1>1 DEF StoreElement
<1>2a. PICK p \in Positions(cell[c]),
            v \in IF cell[c].kind = "blob" THEN {0, 1} ELSE held \cup {Nil} :
        /\ cell' = [cell EXCEPT ![c].items[Index(cell[c], p)] = v]
        /\ written' = [written EXCEPT ![c][p] = v]
  BY <1>2
<1>3. UNCHANGED <<held, allocator, blocks>> /\ made' \in 0..ContainerCalls
  BY <1>1, ContainersAssumption DEF StoreElement, MakesCall, RestInv
<1>4. /\ SoundCells(cell, held) /\ allocator \in Allocators
      /\ blocks = BlocksFor(cell) /\ written = WrittenFor(cell)
  BY <1>1 DEF RestInv
<1>5. c \in Cells /\ c \in Filled(cell) /\ cell \in [Cells -> CellType] /\ held \subseteq Cells
  BY <1>2, <1>4 DEF SoundCells, Filled
<1> DEFINE x == cell[c]
           i == Index(x, p)
           y == [x EXCEPT !.items = [x.items EXCEPT ![i] = v]]
<1>6. /\ x \in CellType /\ p \in Positions(x) /\ x.kind # "free"
      /\ v \in IF x.kind = "blob" THEN {0, 1} ELSE held \cup {Nil}
  BY <1>2, <1>4, <1>5 DEF SoundCells, Filled
<1>7. cell' = [cell EXCEPT ![c] = y]
  BY <1>2a, <1>5
<1>8. Marks(x) \subseteq Filled(cell)
  BY <1>4, <1>5 DEF SoundCells
<1>9. i \in DOMAIN x.items /\ \A q \in Positions(x) : Index(x, q) = i => q = p
  BY <1>6, PositionsAreElements
<1> HIDE DEF x, i
<1>10. y.items \in Items /\ v \in Vals
  <2>1. PICK n \in Nat : x.items \in [0..(n - 1) -> Vals]
    BY <1>6 DEF CellType, Items
  <2>2. v \in Vals
    BY <1>5, <1>6 DEF Vals
  <2>3. y.items = [x.items EXCEPT ![i] = v]
    BY <1>6 DEF CellType
  <2>4. y.items \in [0..(n - 1) -> Vals]
    BY <2>1, <2>2, <2>3
  <2>5. QED
    BY <2>2, <2>4 DEF Items
<1>11. /\ y = [kind |-> x.kind, items |-> y.items, cols |-> x.cols, owner |-> x.owner]
       /\ y \in CellType /\ y.kind = x.kind /\ y.cols = x.cols /\ y.owner = x.owner
       /\ y.items = [x.items EXCEPT ![i] = v]
  BY <1>6, <1>10 DEF CellType
<1>12. /\ DOMAIN y.items = DOMAIN x.items
       /\ \A j \in DOMAIN x.items : y.items[j] = IF j = i THEN v ELSE x.items[j]
  BY <1>11
<1> HIDE DEF y
<1>13. Fits(cell, y)
  <2>1. Marks(y) \subseteq Filled(cell)
    <3>1. SUFFICES ASSUME NEW d \in Marks(y) PROVE d \in Filled(cell)
      OBVIOUS
    <3>2. PICK j \in DOMAIN y.items : d = y.items[j] /\ d \in Cells
                 /\ y.kind \in {"vector", "matrix", "hash"}
      BY <3>1 DEF Marks
    <3>3. CASE j = i
      BY <1>4, <1>6, <1>11, <1>12, <3>2, <3>3, ContainersAssumption DEF SoundCells
    <3>4. CASE j # i
      <4>1. d = x.items[j] /\ j \in DOMAIN x.items
        BY <1>12, <3>2, <3>4
      <4>2. d \in Marks(x)
        BY <1>11, <3>2, <4>1 DEF Marks
      <4>3. QED
        BY <1>8, <4>2
    <3>5. QED
      BY <3>3, <3>4
  <2>2. QED
    BY <1>6, <1>11, <2>1 DEF Fits
<1>14. Refill(cell, cell', held, c, y)
  BY <1>4, <1>5, <1>7, <1>13, Refilled
<1>15. Contents(y) = [Contents(x) EXCEPT ![p] = v]
  <2>1. Positions(y) = Positions(x)
    BY <1>11, <1>12 DEF Positions
  <2>2. \A q \in Positions(x) : Index(y, q) = Index(x, q)
    BY <1>11 DEF Index
  <2>3. \A q \in Positions(x) : y.items[Index(x, q)] = IF q = p THEN v ELSE x.items[Index(x, q)]
    <3>1. \A q \in Positions(x) : Index(x, q) \in DOMAIN x.items
      BY <1>6, PositionsAreElements
    <3>2. i = Index(x, p)
      BY DEF i
    <3>3. QED
      BY <1>9, <1>12, <3>1, <3>2
  <2>4. QED
    BY <2>1, <2>2, <2>3 DEF Contents
<1>16. written' = WrittenFor(cell')
  <2>1. written' = [written EXCEPT ![c] = [written[c] EXCEPT ![p] = v]]
    BY <1>2a, <1>4, <1>5 DEF WrittenFor
  <2>2. written[c] = Contents(x)
    BY <1>4, <1>5 DEF WrittenFor, x
  <2>3. QED
    BY <1>4, <1>14, <1>15, <2>1, <2>2 DEF Refill
<1>17. blocks' = BlocksFor(cell')
  <2>1. \A a : Owed(y, a) = Owed(x, a)
    BY <1>11, <1>12 DEF Owed, BlocksOf
  <2>2. \A a \in Allocators : BlocksFor(cell)[a][c] = Owed(x, a)
    BY <1>5 DEF BlocksFor, x
  <2>3. \A a \in Allocators : \A d \in Cells : BlocksFor(cell')[a][d] = BlocksFor(cell)[a][d]
    BY <1>14, <2>1, <2>2 DEF Refill
  <2>4. cell' \in [Cells -> CellType]
    BY <1>14 DEF Refill, SoundCells
  <2>5. /\ BlocksFor(cell) \in [Allocators -> [Cells -> Nat]]
        /\ BlocksFor(cell') \in [Allocators -> [Cells -> Nat]]
    BY <1>5, <2>4, BooksAreFunctions
  <2>6. QED
    BY <1>3, <1>4, <2>3, <2>5
<1>18. QED
  BY <1>3, <1>4, <1>14, <1>16, <1>17 DEF Refill, RestInv

LEMMA RefKeeps == RestInv /\ RefElement => RestInv'
<1>1. SUFFICES ASSUME RestInv, RefElement PROVE RestInv'
  OBVIOUS
<1>2. PICK c \in held : \E p \in Positions(cell[c]) :
        /\ cell[c].kind \in {"vector", "matrix", "hash"}
        /\ cell[c].items[Index(cell[c], p)] \in Cells
        /\ held' = held \cup {cell[c].items[Index(cell[c], p)]}
  BY <1>1 DEF RefElement
<1>3. PICK p \in Positions(cell[c]) :
        /\ cell[c].kind \in {"vector", "matrix", "hash"}
        /\ cell[c].items[Index(cell[c], p)] \in Cells
        /\ held' = held \cup {cell[c].items[Index(cell[c], p)]}
  BY <1>2
<1>4. UNCHANGED <<cell, allocator, blocks, made, written>>
  BY <1>1 DEF RefElement
<1>5. SoundCells(cell, held) /\ c \in Cells /\ cell[c] \in CellType
  BY <1>1, <1>2 DEF RestInv, SoundCells, Filled
<1>6. Index(cell[c], p) \in DOMAIN cell[c].items
  BY <1>5, PositionsAreElements
<1>7. cell[c].items[Index(cell[c], p)] \in Marks(cell[c])
  BY <1>3, <1>6 DEF Marks
<1>8. held' \subseteq Filled(cell)
  BY <1>3, <1>5, <1>7 DEF SoundCells
<1>9. SoundCells(cell', held')
  BY <1>4, <1>5, <1>8 DEF SoundCells
<1>10. QED
  BY <1>1, <1>4, <1>9 DEF RestInv

LEMMA GrowKeeps == RestInv /\ GrowTable => RestInv'
<1>1. SUFFICES ASSUME RestInv, GrowTable PROVE RestInv'
  OBVIOUS
<1>2. PICK c \in held :
        blocks' = [a \in Allocators |-> [blocks[a] EXCEPT ![c] =
                     @ + (IF a = GrowsFrom(cell[c]) THEN 1 ELSE 0)
                       - (IF a = cell[c].owner THEN 1 ELSE 0)]]
  BY <1>1 DEF GrowTable
<1>3. /\ SoundCells(cell, held) /\ blocks = BlocksFor(cell)
      /\ UNCHANGED <<cell, held, allocator, written>> /\ made' \in 0..ContainerCalls
  BY <1>1, ContainersAssumption DEF RestInv, GrowTable, MakesCall
<1>4. blocks \in [Allocators -> [Cells -> Nat]] /\ c \in Cells
  BY <1>3, BooksAreFunctions DEF SoundCells, Filled
<1>5. \A a \in Allocators : [blocks[a] EXCEPT ![c] =
                     @ + (IF a = GrowsFrom(cell[c]) THEN 1 ELSE 0)
                       - (IF a = cell[c].owner THEN 1 ELSE 0)] = blocks[a]
  BY <1>4 DEF GrowsFrom
<1>6. blocks' = blocks
  BY <1>2, <1>4, <1>5
<1>7. QED
  BY <1>1, <1>3, <1>6 DEF RestInv

LEMMA CollectionKeeps == RestInv /\ (CollectContainers \/ CloseContext) => RestInv'
<1>1. SUFFICES ASSUME RestInv, NEW kept, Keeps(kept), held' \subseteq held, held' \subseteq kept,
                      cell' = CellsAfter(kept), blocks' = BlocksAfter(kept),
                      written' = WrittenAfter(kept), UNCHANGED allocator,
                      made' \in 0..ContainerCalls
               PROVE  RestInv'
  <2>1. RestInv => Keeps(Reachable) /\ Keeps({}) /\ held \subseteq Reachable
    BY KeepersAreClosed DEF RestInv
  <2>2. RestInv /\ (CollectContainers \/ CloseContext) => made' \in 0..ContainerCalls
    BY ContainersAssumption DEF RestInv, CollectContainers, CloseContext, MakesCall
  <2>3. QED
    BY <2>1, <2>2 DEF CollectContainers, CloseContext
<1>2. /\ SoundCells(CellsAfter(kept), held')
      /\ BlocksAfter(kept) = BlocksFor(CellsAfter(kept))
      /\ WrittenAfter(kept) = WrittenFor(CellsAfter(kept))
  BY <1>1, AfterCollection
<1>3. QED
  BY <1>1, <1>2 DEF RestInv

LEMMA SoundnessIsInductive == ContainersInv /\ [ContainersNext]_containersVars => ContainersInv'
<1>1. SUFFICES ASSUME ContainersInv, [ContainersNext]_containersVars PROVE ContainersInv'
  OBVIOUS
<1>2. CASE \/ StoreElement \/ RefElement \/ GrowTable \/ CollectContainers \/ CloseContext
           \/ NoCell \/ DropContainer \/ SetAllocator
  <2>1. Resting /\ making' = making
    BY <1>2 DEF StoreElement, RefElement, GrowTable, CollectContainers, CloseContext, NoCell,
                DropContainer, SetAllocator, MakesCall
  <2>2. RestInv
    BY <1>1, <2>1 DEF ContainersInv
  <2>3. ASSUME NoCell \/ DropContainer \/ SetAllocator PROVE RestInv'
    BY <2>2, <2>3, ContainersAssumption
       DEF NoCell, DropContainer, SetAllocator, RestInv, SoundCells,
           MakesCall, Filled, WrittenFor, BlocksFor
  <2>4. RestInv'
    BY <1>2, <2>2, <2>3, StoreKeeps, RefKeeps, GrowKeeps, CollectionKeeps
  <2>5. QED
    BY <2>1, <2>4 DEF ContainersInv, Resting
<1>3. CASE UNCHANGED containersVars
  <2>1. UNCHANGED <<cell, held, allocator, blocks, making, made, written>>
    BY <1>3 DEF containersVars
  <2>2. (RestInv' <=> RestInv) /\ (Resting' <=> Resting)
    BY <2>1 DEF RestInv, Resting
  <2>3. ASSUME MakingInv PROVE MakingInv'
    <3>1. PICK init \in held \cup {Nil} : making.backing \in Backings(init)
      BY <2>3 DEF MakingInv
    <3>2. Backings(init)' = Backings(init)
      BY <2>1 DEF Backings
    <3>3. \E y \in held' \cup {Nil} : making'.backing \in Backings(y)'
      BY <2>1, <3>1, <3>2
    <3>4. QED
      BY <2>1, <2>3, <3>3 DEF MakingInv
  <2>4. QED
    BY <1>1, <2>2, <2>3 DEF ContainersInv
<1>4. QED
  BY <1>1, <1>2, <1>3, CellTakeKeeps, BlockKeeps, RefusalKeeps, AttachKeeps DEF ContainersNext

LEMMA ContainersStaySound == ContainersSpec => []ContainersInv
  BY StartsSound, SoundnessIsInductive, PTL DEF ContainersSpec

(* The arena of containers is well typed for every number of cells and     *)
(* allocators and every size (kec_vector_new, kec_matrix_new, ...).        *)
THEOREM ContainersTypeCorrect == ContainersSpec => []ContainersTypeOK
<1>1. ContainersInv => ContainersTypeOK
  BY DEF ContainersInv, RestInv, MakingInv, ContainersTypeOK, SoundCells, CellType, HeldKinds,
         Filled
<1>2. QED
  BY <1>1, ContainersStaySound, PTL

(* Every block goes back to the allocator that made it, exactly once, for  *)
(* every number of allocators and every order of constructions, of blocks  *)
(* refused to them, of growths, collections and changes of the allocator   *)
(* (alloc_blob, alloc_hash, hash_grow, container_gc).                      *)
THEOREM BackingsHaveOneOwner == ContainersSpec => []BackingsOwned
<1>1. ASSUME ContainersInv PROVE BackingsOwned
  <2> SUFFICES ASSUME NEW a \in Allocators, NEW c \in Cells
               PROVE  blocks[a][c] = InHand(a, c)
                        + (IF cell[c].owner = a THEN BlocksOf(cell[c]) ELSE 0)
    BY DEF BackingsOwned
  <2>1. \A n \in Nat : 0 + n = n /\ n + 0 = n
    OBVIOUS
  <2>2. BlocksFor(cell)[a][c] = IF cell[c].owner = a THEN BlocksOf(cell[c]) ELSE 0
    BY DEF BlocksFor, Owed
  <2>3. BlocksOf(cell[c]) \in Nat
    BY DEF BlocksOf
  <2>4. CASE Resting
    <3>1. InHand(a, c) = 0 /\ blocks = BlocksFor(cell)
      BY <1>1, <2>4, ContainersAssumption
         DEF ContainersInv, RestInv, Resting, NotMaking, InHand
    <3>2. QED
      BY <2>1, <2>2, <2>3, <3>1
  <2>5. CASE ~Resting
    <3>1. MakingInv
      BY <1>1, <2>5 DEF ContainersInv
    <3>2. /\ making.backing.owner = allocator /\ making.taken \in Nat
          /\ \A b \in Allocators : BlocksFor(cell)[b][making.cell] = 0
      BY <3>1, MakingFacts
    <3>3. blocks[a][c] = IF a = allocator /\ c = making.cell THEN making.taken
                                                            ELSE BlocksFor(cell)[a][c]
      BY <3>1 DEF MakingInv
    <3>4. InHand(a, c) = IF a = allocator /\ c = making.cell THEN making.taken ELSE 0
      BY <3>2 DEF InHand
    <3>5. QED
      BY <2>1, <2>2, <2>3, <3>2, <3>3, <3>4
  <2>6. QED
    BY <2>4, <2>5
<1>2. QED
  BY <1>1, ContainersStaySound, PTL

(* Nothing that a script can reach through its containers is swept, and    *)
(* each position holds what was last stored there (container_mark).        *)
THEOREM ElementsStay == ContainersSpec => []ElementsAreKept
<1>1. ASSUME ContainersInv PROVE ElementsAreKept
  <2>1. SoundCells(cell, held) /\ written = WrittenFor(cell)
    BY <1>1 DEF ContainersInv, RestInv, MakingInv
  <2>2. Reachable \subseteq Filled(cell)
    BY <2>1, ReachableInUse
  <2>3. QED
    BY <2>1, <2>2 DEF ElementsAreKept, WrittenFor, Contents, Filled
<1>2. QED
  BY <1>1, ContainersStaySound, PTL

-----------------------------------------------------------------------------
(***************************************************************************)
(* Primitives that hold resources                                          *)
(***************************************************************************)
Primitives == {"string-ref", "string-search", "substring", "string-append", "string-split",
               "read-file", "read-blob", "write-file", "write-blob", "list-dir",
               "number->string"}

Instructions ==
  {"copy", "copyNeedle", "read", "open", "opendir", "pick", "clip", "digits", "sign", "register",
   "unregister", "string", "blob", "split", "object", "entries", "check", "free", "close",
   "closedir", "return"}

(* The instructions of a program before the k-th.                          *)
Past(p, k) == {p[i] : i \in 1..(k - 1)}

(* What has been taken and not given back, and what is registered, when    *)
(* the instructions of done have run.                                         *)
Holds(done) ==
     (IF ("copy" \in done \/ "read" \in done) /\ "free" \notin done THEN {"buffer"} ELSE {})
  \cup (IF "copyNeedle" \in done /\ "free" \notin done THEN {"needle"} ELSE {})
  \cup (IF "open" \in done /\ "close" \notin done THEN {"file"} ELSE {})
  \cup (IF "opendir" \in done /\ "closedir" \notin done THEN {"dir"} ELSE {})

Registers(done) == IF "register" \in done /\ "unregister" \notin done THEN {"buffer"} ELSE {}

Taking  == {"copy", "copyNeedle", "read", "open", "opendir"}
Raising == {"string", "blob", "split", "object", "entries", "check"}

(* The order that every primitive keeps: take, register, make, give back.  *)
Ordered(p, k) ==
  /\ p[k] \notin {"idle", "returned", "raised"}
  /\ p[k] = "return" <=> k = Len(p)
  /\ p[k] \in Taking => "register" \notin Past(p, k)
  /\ p[k] \in {"copy", "copyNeedle", "read"} => "free" \notin Past(p, k)
  /\ p[k] = "open" => "close" \notin Past(p, k)
  /\ p[k] = "opendir" => "closedir" \notin Past(p, k)
  /\ p[k] = "register" => "unregister" \notin Past(p, k)
  /\ Registers(Past(p, k)) \subseteq Holds(Past(p, k))
  /\ p[k] \in Raising => Holds(Past(p, k)) \ Registers(Past(p, k)) \subseteq {"dir"}
  /\ p[k] = "return" => Holds(Past(p, k)) = {} /\ Registers(Past(p, k)) = {}

(* The primitive is about to execute its k-th instruction.                 *)
Paused(p, k) ==
  /\ left \in Seq(Instructions) /\ Len(left) = Len(p) - k + 1
  /\ \A i \in 1..Len(left) : left[i] = p[i + k - 1]
  /\ owned = Holds(Past(p, k)) /\ registered = Registers(Past(p, k))

PrimInv ==
  \/ Idling /\ owned = {} /\ registered = {}
  \/ left = <<"returned">> /\ owned = {} /\ registered = {}
  \/ left = <<"raised">> /\ owned \subseteq {"dir"} /\ registered = {}
  \/ /\ prim.op \in Primitives
     /\ \E k \in 1..Len(Program(prim.op)) : Paused(Program(prim.op), k)

LEMMA PastNext ==
  ASSUME NEW p
  PROVE  /\ Past(p, 1) = {}
         /\ \A k \in Nat \ {0} : Past(p, k + 1) = Past(p, k) \cup {p[k]}
<1>1. ASSUME NEW k \in Nat \ {0} PROVE Past(p, k + 1) = Past(p, k) \cup {p[k]}
  <2>1. k + 1 - 1 = k /\ 1..k = (1..(k - 1)) \cup {k}
    OBVIOUS
  <2>2. QED
    BY <2>1 DEF Past
<1>2. QED
  BY <1>1 DEF Past

LEMMA PastEach ==
  ASSUME NEW p
  PROVE  /\ Past(p, 1) = {}
         /\ Past(p, 2) = {p[1]}
         /\ Past(p, 3) = {p[1], p[2]}
         /\ Past(p, 4) = {p[1], p[2], p[3]}
         /\ Past(p, 5) = {p[1], p[2], p[3], p[4]}
         /\ Past(p, 6) = {p[1], p[2], p[3], p[4], p[5]}
         /\ Past(p, 7) = {p[1], p[2], p[3], p[4], p[5], p[6]}
         /\ Past(p, 8) = {p[1], p[2], p[3], p[4], p[5], p[6], p[7]}
<1>1. Past(p, 2) = {p[1]}
  BY PastNext, 1 \in Nat \ {0}, 1 + 1 = 2
<1>2. Past(p, 3) = {p[1], p[2]}
  BY PastNext, <1>1, 2 \in Nat \ {0}, 2 + 1 = 3
<1>3. Past(p, 4) = {p[1], p[2], p[3]}
  BY PastNext, <1>2, 3 \in Nat \ {0}, 3 + 1 = 4
<1>4. Past(p, 5) = {p[1], p[2], p[3], p[4]}
  BY PastNext, <1>3, 4 \in Nat \ {0}, 4 + 1 = 5
<1>5. Past(p, 6) = {p[1], p[2], p[3], p[4], p[5]}
  BY PastNext, <1>4, 5 \in Nat \ {0}, 5 + 1 = 6
<1>6. Past(p, 7) = {p[1], p[2], p[3], p[4], p[5], p[6]}
  BY PastNext, <1>5, 6 \in Nat \ {0}, 6 + 1 = 7
<1>7. Past(p, 8) = {p[1], p[2], p[3], p[4], p[5], p[6], p[7]}
  BY PastNext, <1>6, 7 \in Nat \ {0}, 7 + 1 = 8
<1>8. QED
  BY PastNext, <1>1, <1>2, <1>3, <1>4, <1>5, <1>6, <1>7

(* The programs, one by one.                                               *)
LEMMA ProgramIsOrdered ==
  ASSUME NEW op \in Primitives
  PROVE  /\ Program(op) \in Seq(Instructions) /\ Len(Program(op)) > 0
         /\ \A k \in 1..Len(Program(op)) : Ordered(Program(op), k)
<1>1. CASE op = "string-ref"
  <2> DEFINE p == <<"copy", "pick", "free", "object", "return">>
  <2>1. Program(op) = p
    BY <1>1 DEF Program
  <2>2. p \in Seq(Instructions) /\ Len(p) = 5
    BY SMTT(60) DEF Instructions
  <2>3. /\ Past(p, 1) = {}
        /\ Past(p, 2) = {"copy"}
        /\ Past(p, 3) = {"copy", "pick"}
        /\ Past(p, 4) = {"copy", "pick", "free"}
        /\ Past(p, 5) = {"copy", "pick", "free", "object"}
    BY PastEach
  <2>4. Ordered(p, 1) /\ Ordered(p, 2)
    BY <2>2, <2>3, SMTT(60) DEF Ordered, Holds, Registers, Taking, Raising
  <2>5. Ordered(p, 3) /\ Ordered(p, 4) /\ Ordered(p, 5)
    BY <2>2, <2>3, SMTT(60) DEF Ordered, Holds, Registers, Taking, Raising
  <2>6. QED
    BY <2>1, <2>2, <2>4, <2>5
<1>2. CASE op = "string-search"
  <2> DEFINE p == <<"copy", "copyNeedle", "free", "object", "return">>
  <2>1. Program(op) = p
    BY <1>2 DEF Program
  <2>2. p \in Seq(Instructions) /\ Len(p) = 5
    BY SMTT(60) DEF Instructions
  <2>3. /\ Past(p, 1) = {}
        /\ Past(p, 2) = {"copy"}
        /\ Past(p, 3) = {"copy", "copyNeedle"}
        /\ Past(p, 4) = {"copy", "copyNeedle", "free"}
        /\ Past(p, 5) = {"copy", "copyNeedle", "free", "object"}
    BY PastEach
  <2>4. Ordered(p, 1) /\ Ordered(p, 2)
    BY <2>2, <2>3, SMTT(60) DEF Ordered, Holds, Registers, Taking, Raising
  <2>5. Ordered(p, 3) /\ Ordered(p, 4) /\ Ordered(p, 5)
    BY <2>2, <2>3, SMTT(60) DEF Ordered, Holds, Registers, Taking, Raising
  <2>6. QED
    BY <2>1, <2>2, <2>4, <2>5
<1>3. CASE op \in {"substring", "string-append"}
  <2> DEFINE p == <<"copy", "clip", "register", "string", "unregister", "free", "return">>
  <2>1. Program(op) = p
    BY <1>3 DEF Program
  <2>2. p \in Seq(Instructions) /\ Len(p) = 7
    BY SMTT(60) DEF Instructions
  <2>3. /\ Past(p, 1) = {}
        /\ Past(p, 2) = {"copy"}
        /\ Past(p, 3) = {"copy", "clip"}
        /\ Past(p, 4) = {"copy", "clip", "register"}
        /\ Past(p, 5) = {"copy", "clip", "register", "string"}
        /\ Past(p, 6) = {"copy", "clip", "register", "string", "unregister"}
        /\ Past(p, 7) = {"copy", "clip", "register", "string", "unregister", "free"}
    BY PastEach
  <2>4. Ordered(p, 1) /\ Ordered(p, 2)
    BY <2>2, <2>3, SMTT(60) DEF Ordered, Holds, Registers, Taking, Raising
  <2>5. Ordered(p, 3) /\ Ordered(p, 4)
    BY <2>2, <2>3, SMTT(60) DEF Ordered, Holds, Registers, Taking, Raising
  <2>6. Ordered(p, 5) /\ Ordered(p, 6) /\ Ordered(p, 7)
    BY <2>2, <2>3, SMTT(60) DEF Ordered, Holds, Registers, Taking, Raising
  <2>7. QED
    BY <2>1, <2>2, <2>4, <2>5, <2>6
<1>4. CASE op = "string-split"
  <2> DEFINE p == <<"copy", "register", "split", "unregister", "free", "return">>
  <2>1. Program(op) = p
    BY <1>4 DEF Program
  <2>2. p \in Seq(Instructions) /\ Len(p) = 6
    BY SMTT(60) DEF Instructions
  <2>3. /\ Past(p, 1) = {}
        /\ Past(p, 2) = {"copy"}
        /\ Past(p, 3) = {"copy", "register"}
        /\ Past(p, 4) = {"copy", "register", "split"}
        /\ Past(p, 5) = {"copy", "register", "split", "unregister"}
        /\ Past(p, 6) = {"copy", "register", "split", "unregister", "free"}
    BY PastEach
  <2>4. Ordered(p, 1) /\ Ordered(p, 2)
    BY <2>2, <2>3, SMTT(60) DEF Ordered, Holds, Registers, Taking, Raising
  <2>5. Ordered(p, 3) /\ Ordered(p, 4)
    BY <2>2, <2>3, SMTT(60) DEF Ordered, Holds, Registers, Taking, Raising
  <2>6. Ordered(p, 5) /\ Ordered(p, 6)
    BY <2>2, <2>3, SMTT(60) DEF Ordered, Holds, Registers, Taking, Raising
  <2>7. QED
    BY <2>1, <2>2, <2>4, <2>5, <2>6
<1>5. CASE op = "read-file"
  <2> DEFINE p == <<"open", "read", "close", "register", "string", "unregister", "free", "return">>
  <2>1. Program(op) = p
    BY <1>5 DEF Program
  <2>2. p \in Seq(Instructions) /\ Len(p) = 8
    BY SMTT(60) DEF Instructions
  <2>3. /\ Past(p, 1) = {}
        /\ Past(p, 2) = {"open"}
        /\ Past(p, 3) = {"open", "read"}
        /\ Past(p, 4) = {"open", "read", "close"}
        /\ Past(p, 5) = {"open", "read", "close", "register"}
        /\ Past(p, 6) = {"open", "read", "close", "register", "string"}
        /\ Past(p, 7) = {"open", "read", "close", "register", "string", "unregister"}
        /\ Past(p, 8) = {"open", "read", "close", "register", "string", "unregister", "free"}
    BY PastEach
  <2>4. Ordered(p, 1) /\ Ordered(p, 2)
    BY <2>2, <2>3, SMTT(60) DEF Ordered, Holds, Registers, Taking, Raising
  <2>5. Ordered(p, 3) /\ Ordered(p, 4)
    BY <2>2, <2>3, SMTT(60) DEF Ordered, Holds, Registers, Taking, Raising
  <2>6. Ordered(p, 5) /\ Ordered(p, 6)
    BY <2>2, <2>3, SMTT(60) DEF Ordered, Holds, Registers, Taking, Raising
  <2>7. Ordered(p, 7) /\ Ordered(p, 8)
    BY <2>2, <2>3, SMTT(60) DEF Ordered, Holds, Registers, Taking, Raising
  <2>8. QED
    BY <2>1, <2>2, <2>4, <2>5, <2>6, <2>7
<1>11. CASE op = "read-blob"
  <2> DEFINE p == <<"open", "read", "close", "register", "blob", "unregister", "free", "return">>
  <2>1. Program(op) = p
    BY <1>11 DEF Program
  <2>2. p \in Seq(Instructions) /\ Len(p) = 8
    BY SMTT(60) DEF Instructions
  <2>3. /\ Past(p, 1) = {}
        /\ Past(p, 2) = {"open"}
        /\ Past(p, 3) = {"open", "read"}
        /\ Past(p, 4) = {"open", "read", "close"}
        /\ Past(p, 5) = {"open", "read", "close", "register"}
        /\ Past(p, 6) = {"open", "read", "close", "register", "blob"}
        /\ Past(p, 7) = {"open", "read", "close", "register", "blob", "unregister"}
        /\ Past(p, 8) = {"open", "read", "close", "register", "blob", "unregister", "free"}
    BY PastEach
  <2>4. Ordered(p, 1) /\ Ordered(p, 2)
    BY <2>2, <2>3, SMTT(60) DEF Ordered, Holds, Registers, Taking, Raising
  <2>5. Ordered(p, 3) /\ Ordered(p, 4)
    BY <2>2, <2>3, SMTT(60) DEF Ordered, Holds, Registers, Taking, Raising
  <2>6. Ordered(p, 5) /\ Ordered(p, 6)
    BY <2>2, <2>3, SMTT(60) DEF Ordered, Holds, Registers, Taking, Raising
  <2>7. Ordered(p, 7) /\ Ordered(p, 8)
    BY <2>2, <2>3, SMTT(60) DEF Ordered, Holds, Registers, Taking, Raising
  <2>8. QED
    BY <2>1, <2>2, <2>4, <2>5, <2>6, <2>7
<1>6. CASE op = "write-file"
  <2> DEFINE p == <<"copy", "open", "close", "free", "check", "return">>
  <2>1. Program(op) = p
    BY <1>6 DEF Program
  <2>2. p \in Seq(Instructions) /\ Len(p) = 6
    BY SMTT(60) DEF Instructions
  <2>3. /\ Past(p, 1) = {}
        /\ Past(p, 2) = {"copy"}
        /\ Past(p, 3) = {"copy", "open"}
        /\ Past(p, 4) = {"copy", "open", "close"}
        /\ Past(p, 5) = {"copy", "open", "close", "free"}
        /\ Past(p, 6) = {"copy", "open", "close", "free", "check"}
    BY PastEach
  <2>4. Ordered(p, 1) /\ Ordered(p, 2)
    BY <2>2, <2>3, SMTT(60) DEF Ordered, Holds, Registers, Taking, Raising
  <2>5. Ordered(p, 3) /\ Ordered(p, 4)
    BY <2>2, <2>3, SMTT(60) DEF Ordered, Holds, Registers, Taking, Raising
  <2>6. Ordered(p, 5) /\ Ordered(p, 6)
    BY <2>2, <2>3, SMTT(60) DEF Ordered, Holds, Registers, Taking, Raising
  <2>7. QED
    BY <2>1, <2>2, <2>4, <2>5, <2>6
<1>7. CASE op = "write-blob"
  <2> DEFINE p == <<"open", "close", "check", "return">>
  <2>1. Program(op) = p
    BY <1>7 DEF Program
  <2>2. p \in Seq(Instructions) /\ Len(p) = 4
    BY SMTT(60) DEF Instructions
  <2>3. /\ Past(p, 1) = {}
        /\ Past(p, 2) = {"open"}
        /\ Past(p, 3) = {"open", "close"}
        /\ Past(p, 4) = {"open", "close", "check"}
    BY PastEach
  <2>4. Ordered(p, 1) /\ Ordered(p, 2) /\ Ordered(p, 3) /\ Ordered(p, 4)
    BY <2>2, <2>3, SMTT(60) DEF Ordered, Holds, Registers, Taking, Raising
  <2>5. QED
    BY <2>1, <2>2, <2>4
<1>8. CASE op = "list-dir"
  <2> DEFINE p == <<"opendir", "entries", "closedir", "return">>
  <2>1. Program(op) = p
    BY <1>8 DEF Program
  <2>2. p \in Seq(Instructions) /\ Len(p) = 4
    BY SMTT(60) DEF Instructions
  <2>3. /\ Past(p, 1) = {}
        /\ Past(p, 2) = {"opendir"}
        /\ Past(p, 3) = {"opendir", "entries"}
        /\ Past(p, 4) = {"opendir", "entries", "closedir"}
    BY PastEach
  <2>4. Ordered(p, 1) /\ Ordered(p, 2) /\ Ordered(p, 3) /\ Ordered(p, 4)
    BY <2>2, <2>3, SMTT(60) DEF Ordered, Holds, Registers, Taking, Raising
  <2>5. QED
    BY <2>1, <2>2, <2>4
<1>9. CASE op = "number->string"
  <2> DEFINE p == <<"digits", "sign", "object", "return">>
  <2>1. Program(op) = p
    BY <1>9 DEF Program
  <2>2. p \in Seq(Instructions) /\ Len(p) = 4
    BY SMTT(60) DEF Instructions
  <2>3. /\ Past(p, 1) = {}
        /\ Past(p, 2) = {"digits"}
        /\ Past(p, 3) = {"digits", "sign"}
        /\ Past(p, 4) = {"digits", "sign", "object"}
    BY PastEach
  <2>4. Ordered(p, 1) /\ Ordered(p, 2) /\ Ordered(p, 3) /\ Ordered(p, 4)
    BY <2>2, <2>3, SMTT(60) DEF Ordered, Holds, Registers, Taking, Raising
  <2>5. QED
    BY <2>1, <2>2, <2>4
<1>10. QED
  BY <1>1, <1>2, <1>3, <1>4, <1>5, <1>6, <1>7, <1>8, <1>9, <1>11 DEF Primitives

LEMMA PausedAt ==
  ASSUME NEW k \in 1..Len(Program(prim.op)), prim.op \in Primitives, Paused(Program(prim.op), k)
  PROVE  /\ Len(left) > 0 /\ Head(left) = Program(prim.op)[k]
         /\ Ordered(Program(prim.op), k) /\ ~Idling /\ ~Over
<1> DEFINE p == Program(prim.op)
<1>1. p \in Seq(Instructions) /\ Len(p) > 0 /\ Ordered(p, k)
  BY ProgramIsOrdered
<1> HIDE DEF p
<1>2. Len(left) > 0 /\ left \in Seq(Instructions) /\ left[1] = p[k] /\ Len(p) \in Nat
  <2>1. k \in Int /\ k <= Len(p) /\ 1 <= k /\ Len(p) \in Nat
    BY <1>1 DEF p
  <2>2. Len(left) > 0 /\ left \in Seq(Instructions)
    BY <2>1 DEF Paused, p
  <2>3. 1 \in 1..Len(left) /\ 1 + k - 1 = k
    BY <2>1, <2>2
  <2>4. QED
    BY <2>1, <2>2, <2>3 DEF Paused, p
<1>3. Head(left) = left[1]
  BY <1>2
<1>4. p[k] \notin {"idle", "returned", "raised"}
  BY <1>1 DEF Ordered
<1>5. ~Idling /\ ~Over
  BY <1>2, <1>4 DEF Idling, Over
<1>6. QED
  BY <1>1, <1>2, <1>3, <1>5 DEF p

LEMMA NotAtRest ==
  ASSUME Idling \/ Over, NEW x \in Instructions, At(x)
  PROVE  FALSE
<1>1. left \in {<<"idle">>, <<"returned">>, <<"raised">>}
  BY DEF Idling, Over
<1>2. Head(left) \in {"idle", "returned", "raised"}
  BY <1>1
<1>3. QED
  BY <1>2 DEF At, Instructions

(* An instruction that goes on to the next one.                            *)
LEMMA ProceedKeeps ==
  ASSUME NEW k \in 1..Len(Program(prim.op)), prim.op \in Primitives, Paused(Program(prim.op), k),
         Proceed, UNCHANGED prim, Head(left) # "return",
         owned' = Holds(Past(Program(prim.op), k) \cup {Head(left)}),
         registered' = Registers(Past(Program(prim.op), k) \cup {Head(left)})
  PROVE  PrimInv'
<1> DEFINE p == Program(prim.op)
<1>1. p \in Seq(Instructions) /\ Ordered(p, k) /\ Head(left) = p[k] /\ Len(left) > 0
  BY ProgramIsOrdered, PausedAt
<1>2. k # Len(p) /\ k \in Nat \ {0} /\ Len(p) \in Nat
  BY <1>1 DEF Ordered
<1>3. k + 1 \in 1..Len(p) /\ Past(p, k + 1) = Past(p, k) \cup {p[k]}
  BY <1>2, PastNext
<1> HIDE DEF p
<1>4. /\ left' \in Seq(Instructions) /\ Len(left') = Len(p) - (k + 1) + 1
      /\ \A i \in 1..Len(left') : left'[i] = p[i + (k + 1) - 1]
  <2>1. left \in Seq(Instructions) /\ Len(left) = Len(p) - k + 1
        /\ \A i \in 1..Len(left) : left[i] = p[i + k - 1]
    BY DEF Paused, p
  <2>2. left' = Tail(left)
    BY DEF Proceed
  <2>3. left' \in Seq(Instructions) /\ Len(left') = Len(left) - 1
        /\ \A i \in 1..Len(left') : left'[i] = left[i + 1]
    BY <2>1, <2>2, <1>1
  <2>4. ASSUME NEW i \in 1..Len(left') PROVE left'[i] = p[i + (k + 1) - 1]
    <3>1. i + 1 \in 1..Len(left) /\ (i + 1) + k - 1 = i + (k + 1) - 1
      BY <2>1, <2>3, <1>2
    <3>2. QED
      BY <3>1, <2>1, <2>3
  <2>5. QED
    BY <2>1, <2>3, <2>4, <1>2
<1>5. owned' = Holds(Past(p, k + 1)) /\ registered' = Registers(Past(p, k + 1))
  BY <1>1, <1>3 DEF p
<1>6. p = p'
  BY DEF p
<1>7. Paused(p, k + 1)'
  BY <1>4, <1>5, <1>6 DEF Paused
<1>8. QED
  BY <1>3, <1>6, <1>7 DEF PrimInv, p

(* An instruction that changes neither what is held nor what is pending.   *)
LEMMA PlainKeeps ==
  ASSUME NEW k \in 1..Len(Program(prim.op)), prim.op \in Primitives, Paused(Program(prim.op), k),
         Proceed, UNCHANGED <<prim, owned, registered>>,
         Head(left) \notin Taking \cup {"free", "close", "closedir", "register", "unregister", "return"}
  PROVE  PrimInv'
<1> DEFINE run == Past(Program(prim.op), k)
<1>1. owned = Holds(run) /\ registered = Registers(run)
  BY DEF Paused
<1> HIDE DEF run
<1>2. Holds(run) = Holds(run \cup {Head(left)}) /\ Registers(run) = Registers(run \cup {Head(left)})
  BY DEF Holds, Registers, Taking
<1>3. QED
  BY <1>1, <1>2, ProceedKeeps DEF run

(* An error in the middle of making an object.                             *)
LEMMA RaiseKeeps ==
  ASSUME NEW k \in 1..Len(Program(prim.op)), prim.op \in Primitives, Paused(Program(prim.op), k),
         Raises, Head(left) \in Raising
  PROVE  PrimInv'
<1> DEFINE run == Past(Program(prim.op), k)
<1>1. owned = Holds(run) /\ registered = Registers(run)
  BY DEF Paused
<1>2. Holds(run) \ Registers(run) \subseteq {"dir"}
  BY PausedAt DEF Ordered
<1> HIDE DEF run
<1>3. QED
  BY <1>1, <1>2 DEF Raises, PrimInv

LEMMA TakeKeeps ==
  ASSUME NEW k \in 1..Len(Program(prim.op)), prim.op \in Primitives, Paused(Program(prim.op), k),
         NEW x, NEW resource, Takes(x, resource),
         <<x, resource>> \in {<<"copy", "buffer">>, <<"copyNeedle", "needle">>,
                              <<"read", "buffer">>, <<"open", "file">>, <<"opendir", "dir">>}
  PROVE  PrimInv'
<1> DEFINE run == Past(Program(prim.op), k)
<1>1. /\ owned = Holds(run) /\ registered = Registers(run) /\ Head(left) = x
      /\ Program(prim.op)[k] = x
  BY PausedAt DEF Paused, Takes, At
<1>2. /\ "register" \notin run
      /\ x \in {"copy", "copyNeedle", "read"} => "free" \notin run
      /\ x = "open" => "close" \notin run
      /\ x = "opendir" => "closedir" \notin run
  <2>1. Ordered(Program(prim.op), k)
    BY PausedAt
  <2>2. x \in Taking
    BY DEF Taking
  <2>3. QED
    BY <1>1, <2>1, <2>2 DEF Ordered
<1> HIDE DEF run
<1>3. CASE GivesUp
  BY <1>1, <1>2, <1>3 DEF GivesUp, PrimInv, Registers
<1>4. CASE Proceed /\ owned' = owned \cup {resource} /\ UNCHANGED registered
  <2>1. Holds(run \cup {x}) = Holds(run) \cup {resource}
    BY <1>2 DEF Holds
  <2>2. Registers(run \cup {x}) = Registers(run)
    BY DEF Registers
  <2>3. x # "return" /\ UNCHANGED prim
    BY DEF Takes
  <2>4. QED
    BY <1>1, <1>4, <2>1, <2>2, <2>3, ProceedKeeps DEF run
<1>5. QED
  BY <1>3, <1>4 DEF Takes

LEMMA GiveKeeps ==
  ASSUME NEW k \in 1..Len(Program(prim.op)), prim.op \in Primitives, Paused(Program(prim.op), k),
         FreeBuffers \/ CloseFile \/ CloseDir \/ PendingPush \/ PendingPop
  PROVE  PrimInv'
<1> DEFINE run == Past(Program(prim.op), k)
<1>1. owned = Holds(run) /\ registered = Registers(run)
  BY DEF Paused
<1>2. Head(left) = "register" => "unregister" \notin run
  BY PausedAt DEF Ordered
<1>3. Proceed /\ UNCHANGED prim /\ Head(left) # "return"
  BY DEF FreeBuffers, CloseFile, CloseDir, PendingPush, PendingPop, Gives, At
<1> HIDE DEF run
<1>4. owned' = Holds(run \cup {Head(left)}) /\ registered' = Registers(run \cup {Head(left)})
  <2>1. CASE FreeBuffers
    BY <1>1, <2>1 DEF FreeBuffers, Gives, At, Holds, Registers
  <2>2. CASE CloseFile
    BY <1>1, <2>2 DEF CloseFile, Gives, At, Holds, Registers
  <2>3. CASE CloseDir
    BY <1>1, <2>3 DEF CloseDir, Gives, At, Holds, Registers
  <2>4. CASE PendingPush \/ PendingPop
    BY <1>1, <1>2, <2>4 DEF PendingPush, PendingPop, At, Holds, Registers
  <2>5. QED
    BY <2>1, <2>2, <2>3, <2>4
<1>5. QED
  BY <1>3, <1>4, ProceedKeeps DEF run

(* An instruction that is not finished.                                    *)
LEMMA LoopKeeps ==
  ASSUME NEW k \in 1..Len(Program(prim.op)), prim.op \in Primitives, Paused(Program(prim.op), k),
         UNCHANGED <<prim, left, owned, registered>>
  PROVE  PrimInv'
<1>1. Paused(Program(prim.op), k)'
  BY DEF Paused
<1>2. QED
  BY <1>1 DEF PrimInv

(* One instruction of a primitive.                                         *)
LEMMA InstructionKeeps ==
  ASSUME NEW k \in 1..Len(Program(prim.op)), prim.op \in Primitives, Paused(Program(prim.op), k),
         HostNext
  PROVE  PrimInv'
<1>1. /\ ~Idling /\ ~Over
      /\ Head(left) = "return" => Holds(Past(Program(prim.op), k)) = {}
                                  /\ Registers(Past(Program(prim.op), k)) = {}
  BY PausedAt DEF Ordered
<1>2. ~(CallString \/ CallFile \/ CallNumber \/ Evaluates)
  BY <1>1 DEF CallString, CallFile, CallNumber, Starts, Evaluates
<1>3. CASE CopyString \/ ReadBody \/ OpenOther
  BY <1>3, TakeKeeps DEF CopyString, ReadBody, OpenOther
<1>4. CASE FreeBuffers \/ CloseFile \/ CloseDir \/ PendingPush \/ PendingPop
  BY <1>4, GiveKeeps
<1>5. CASE MakeNumber \/ MakeString \/ MakeBlob \/ SplitLast \/ CheckWritten
  BY <1>5, PlainKeeps, RaiseKeeps
     DEF MakeNumber, MakeString, MakeBlob, Makes, SplitLast, CheckWritten, At, Raising, Taking
<1>6. CASE PickByte \/ Clip \/ Sign
  BY <1>6, PlainKeeps DEF PickByte, Clip, Sign, At, Taking
<1>7. CASE SplitScan
  BY <1>7, LoopKeeps, RaiseKeeps DEF SplitScan, At, Raising
<1>8. CASE ReadDir
  BY <1>8, LoopKeeps, PlainKeeps, RaiseKeeps DEF ReadDir, At, Raising, Taking
<1>9. CASE Digits
  BY <1>9, LoopKeeps, PlainKeeps DEF Digits, At, Taking
<1>10. CASE Return
  BY <1>1, <1>10 DEF Return, At, PrimInv, Paused
<1>11. QED
  BY <1>2, <1>3, <1>4, <1>5, <1>6, <1>7, <1>8, <1>9, <1>10 DEF HostNext

LEMMA CallKeeps ==
  ASSUME Idling, owned = {}, registered = {}, CallString \/ CallFile \/ CallNumber
  PROVE  PrimInv'
<1>1. PICK op \in Primitives : /\ prim'.op = op /\ left' = Program(op)
                               /\ UNCHANGED <<owned, registered>>
  BY DEF CallString, CallFile, CallNumber, Starts, Primitives
<1>2. Program(op) \in Seq(Instructions) /\ Len(Program(op)) > 0
  BY ProgramIsOrdered
<1>3. Holds(Past(Program(op), 1)) = {} /\ Registers(Past(Program(op), 1)) = {}
  BY PastNext DEF Holds, Registers
<1> DEFINE p == Program(op)
<1> HIDE DEF p
<1>4. Len(p) = Len(p) - 1 + 1 /\ \A i \in 1..Len(p) : p[i] = p[i + 1 - 1]
  BY <1>2 DEF p
<1>5. Paused(p, 1)' /\ 1 \in 1..Len(p)
  BY <1>1, <1>2, <1>3, <1>4 DEF Paused, p
<1>6. QED
  BY <1>1, <1>5 DEF PrimInv, p

LEMMA PrimitivesAreInductive == PrimInv /\ [HostNext]_hostVars => PrimInv'
<1>1. SUFFICES ASSUME PrimInv, [HostNext]_hostVars PROVE PrimInv'
  OBVIOUS
<1>2. CASE UNCHANGED hostVars
  BY <1>1, <1>2 DEF hostVars, PrimInv, Paused, Idling
<1>3. CASE HostNext /\ \E k \in 1..Len(Program(prim.op)) :
                         prim.op \in Primitives /\ Paused(Program(prim.op), k)
  BY <1>3, InstructionKeeps
<1>4. CASE HostNext /\ (Idling \/ Over) /\ registered = {} /\ (Idling => owned = {})
  <2>1. \A x \in Instructions : ~At(x)
    BY <1>4, NotAtRest
  <2>2. CallString \/ CallFile \/ CallNumber \/ Evaluates
    BY <1>4, <2>1
       DEF HostNext, CopyString, ReadBody, OpenOther, Takes, FreeBuffers, CloseFile, CloseDir,
           Gives, PendingPush, PendingPop, MakeNumber, MakeString, MakeBlob, Makes, PickByte, Clip,
           SplitScan, SplitLast, ReadDir, CheckWritten, Digits, Sign, Return, Instructions
  <2>3. CASE Evaluates
    BY <1>4, <2>3 DEF Evaluates, PrimInv, Idling
  <2>4. CASE CallString \/ CallFile \/ CallNumber
    <3>1. Idling
      BY <2>4 DEF CallString, CallFile, CallNumber, Starts
    <3>2. QED
      BY <1>4, <2>4, <3>1, CallKeeps
  <2>5. QED
    BY <2>2, <2>3, <2>4
<1>5. QED
  <2>1. Idling => ~Over
    BY DEF Idling, Over
  <2>2. QED
    BY <1>1, <1>2, <1>3, <1>4, <2>1 DEF PrimInv, Over

(* However a primitive of host.c ends, for all its arguments and whatever  *)
(* fails on the way, each buffer and each file that it took is given back, *)
(* and what on_error would free is still allocated.                        *)
THEOREM PrimitivesGiveBack == HostSpec => []NothingLeftBehind
<1>1. HostInit => PrimInv
  BY DEF HostInit, PrimInv, Idling
<1>2. PrimInv => NothingLeftBehind
  <2>1. ASSUME prim.op \in Primitives, NEW k \in 1..Len(Program(prim.op)), Paused(Program(prim.op), k)
        PROVE  NothingLeftBehind
    <3>1. ~Over /\ registered \subseteq owned /\ left # <<"returned">>
      BY <2>1, PausedAt DEF Ordered, Paused, Over
    <3>2. QED
      BY <3>1 DEF NothingLeftBehind
  <2>2. ASSUME Idling, registered = {} PROVE NothingLeftBehind
    BY <2>2 DEF NothingLeftBehind, Idling, Over
  <2>3. QED
    BY <2>1, <2>2 DEF PrimInv, NothingLeftBehind, Over
<1>3. QED
  BY <1>1, <1>2, PrimitivesAreInductive, PTL DEF HostSpec

(***************************************************************************)
(* Digits.                                                                 *)
(***************************************************************************)
Shift(radix, p, d) == p * radix + d

(* The value of the digits from a on, one at a time.                       *)
Reads(g, a, s, radix) ==
  /\ g \in [0..Len(s) -> Nat] /\ g[0] = a
  /\ \A i \in 1..Len(s) : g[i] = Shift(radix, g[i - 1], s[i])

ReadFrom(a, s, radix) == Sequence!FoldLeft(LAMBDA p, d : p * radix + d, a, s)

LEMMA ReadingSteps ==
  ASSUME NEW radix \in Nat, NEW a \in Nat, NEW s \in Seq(Nat)
  PROVE  \E g : Reads(g, a, s, radix) /\ ReadFrom(a, s, radix) = g[Len(s)]
<1> DEFINE n == Len(s)  A == Nat
<1>1. n \in Nat /\ DOMAIN s = 1..n /\ a \in A
  OBVIOUS
<1>2. ASSUME NEW i \in 1..n, NEW y \in A PROVE Shift(radix, y, s[i]) \in A
  BY DEF Shift
<1> DEFINE step == [i \in 1..n |-> [y \in A |-> Shift(radix, y, s[i])]]
           Body(f) == [t \in SUBSET DOMAIN s |->
                         IF t = {} THEN a ELSE Shift(radix, f[t \ {Biggest(t)}], s[Biggest(t)])]
           it == CHOOSE f : f = Body(f)
<1>3. step \in [1..n -> [A -> A]]
  <2> HIDE DEF A
  <2> QED
    BY <1>2
<1>4. Sequence!FoldLeft(LAMBDA p, d : p * radix + d, a, s) = it[DOMAIN s]
  BY DEF Sequence!FoldLeft, Sequence!MapThenFoldSet, Sequence!Max, Biggest, Shift
<1> HIDE DEF A
<1>5. PICK f : f \in [SUBSET (1..n) -> A] /\ FoldsBy(f, n, a, step)
  <2> HIDE DEF step
  <2> QED
    BY <1>1, <1>3, FoldExists
<1>6. f = Body(f)
  <2>1. ASSUME NEW t \in SUBSET (1..n)
        PROVE  f[t] = IF t = {} THEN a ELSE Shift(radix, f[t \ {Biggest(t)}], s[Biggest(t)])
    <3>1. CASE t = {}
      BY <1>5, <3>1, Zenon DEF FoldsBy
    <3>2. CASE t # {}
      <4>1. Biggest(t) \in 1..n /\ t \ {Biggest(t)} \in SUBSET (1..n)
        BY <1>1, <3>2, BiggestExists
      <4>2. f[t] = step[Biggest(t)][f[t \ {Biggest(t)}]]
        <5> HIDE DEF step
        <5> QED
          BY <1>5, <3>2, Zenon DEF FoldsBy
      <4>3. f[t \ {Biggest(t)}] \in A
        BY <1>5, <4>1
      <4>4. QED
        BY <3>2, <4>1, <4>2, <4>3
    <3>3. QED
      BY <3>1, <3>2
  <2>2. DOMAIN s = 1..n /\ f = [t \in SUBSET (1..n) |-> f[t]]
    BY <1>1, <1>5
  <2>3. QED
    BY <2>1, <2>2, Zenon
<1>7. it = Body(it)
  <2> HIDE DEF Body
  <2> QED
    BY <1>6, Zenon
<1>8. GoesBy(it, n, A, a, step)
  <2> HIDE DEF it
  <2>1. it[{}] = a
    BY <1>7
  <2>2. ASSUME NEW i \in 1..n, it[1..(i - 1)] \in A
        PROVE  it[1..i] = step[i][it[1..(i - 1)]]
    <3> DEFINE t == 1..i
    <3>1. t \in SUBSET (1..n) /\ t # {} /\ Biggest(t) = i /\ t \ {i} = 1..(i - 1)
      BY <1>1, Segments
    <3> HIDE DEF t
    <3>2. it[t] = Shift(radix, it[t \ {Biggest(t)}], s[Biggest(t)])
      BY <1>1, <1>7, <3>1
    <3>3. it[1..i] = Shift(radix, it[1..(i - 1)], s[i])
      BY <3>1, <3>2 DEF t
    <3>4. QED
      BY <2>2, <3>3
  <2>3. QED
    BY <2>1, <2>2 DEF GoesBy
<1>9. PICK g : g \in [0..n -> A] /\ g[n] = it[1..n] /\ Computes(g, n, a, step)
  <2> HIDE DEF step, it
  <2> QED
    BY <1>1, <1>3, <1>8, FoldSteps
<1>10. Reads(g, a, s, radix)
  <2>1. g[0] = a
    BY <1>9 DEF Computes
  <2>2. ASSUME NEW i \in 1..n PROVE g[i] = Shift(radix, g[i - 1], s[i])
    <3>1. g[i] = step[i][g[i - 1]]
      <4> HIDE DEF step
      <4> QED
        BY <1>9 DEF Computes
    <3>2. i - 1 \in 0..n
      BY <1>1
    <3>3. g[i - 1] \in A
      BY <1>9, <3>2
    <3>4. QED
      BY <3>1, <3>3
  <2>3. QED
    BY <1>9, <2>1, <2>2 DEF Reads, A
<1>11. ReadFrom(a, s, radix) = g[Len(s)]
  <2> HIDE DEF it
  <2> QED
    BY <1>1, <1>4, <1>9 DEF ReadFrom
<1>12. QED
  BY <1>10, <1>11

(* A digit more in front.                                                  *)
LEMMA ReadingOn ==
  ASSUME NEW radix \in Nat, NEW a \in Nat, NEW s \in Seq(Nat), NEW d \in Nat
  PROVE  ReadFrom(a, <<d>> \o s, radix) = ReadFrom(Shift(radix, a, d), s, radix)
<1> DEFINE t == <<d>> \o s  c == Shift(radix, a, d)
<1>1. c \in Nat
  BY DEF Shift
<1>2. /\ t \in Seq(Nat) /\ Len(t) = Len(s) + 1 /\ t[1] = d /\ Len(s) \in Nat
      /\ \A i \in 1..Len(s) : t[i + 1] = s[i]
  OBVIOUS
<1> HIDE DEF t, c
<1>3. PICK g : Reads(g, c, s, radix) /\ ReadFrom(c, s, radix) = g[Len(s)]
  BY <1>1, ReadingSteps
<1>4. PICK h : Reads(h, a, t, radix) /\ ReadFrom(a, t, radix) = h[Len(t)]
  BY <1>2, ReadingSteps
<1> DEFINE S == {i \in 0..Len(s) : h[i + 1] = g[i]}
<1>5. 0 \in S
  <2>1. h[1] = Shift(radix, h[0], t[1])
    <3>1. 1 \in 1..Len(t) /\ 1 - 1 = 0
      BY <1>2
    <3>2. QED
      BY <1>4, <3>1 DEF Reads
  <2>2. h[0 + 1] = g[0] /\ 0 \in 0..Len(s)
    BY <1>2, <1>3, <1>4, <2>1 DEF Reads, c
  <2>3. QED
    BY <2>2
<1>6. \A i \in 1..Len(s) : i - 1 \in S => i \in S
  <2>1. ASSUME NEW i \in 1..Len(s), h[(i - 1) + 1] = g[i - 1] PROVE h[i + 1] = g[i] /\ i \in 0..Len(s)
    <3>1. i + 1 \in 1..Len(t) /\ (i + 1) - 1 = i /\ (i - 1) + 1 = i /\ i \in 0..Len(s)
      BY <1>2
    <3>2. h[i + 1] = Shift(radix, h[i], t[i + 1])
      BY <1>4, <3>1 DEF Reads
    <3>3. g[i] = Shift(radix, g[i - 1], s[i])
      BY <1>3 DEF Reads
    <3>4. t[i + 1] = s[i]
      BY <1>2
    <3>5. QED
      BY <2>1, <3>1, <3>2, <3>3, <3>4
  <2>2. QED
    BY <2>1
<1> HIDE DEF S
<1>7. 0..Len(s) \subseteq S
  BY <1>2, <1>5, <1>6, UpTo
<1>8. Len(s) \in 0..Len(s)
  BY <1>2
<1>9. h[Len(s) + 1] = g[Len(s)]
  BY <1>7, <1>8 DEF S
<1>10. QED
  BY <1>2, <1>3, <1>4, <1>9 DEF t, c

LEMMA ReadingNone ==
  ASSUME NEW radix \in Nat, NEW a \in Nat
  PROVE  ReadFrom(a, <<>>, radix) = a
<1>1. <<>> \in Seq(Nat) /\ Len(<<>>) = 0
  OBVIOUS
<1>2. PICK s : s = <<>> /\ s \in Seq(Nat) /\ Len(s) = 0
  BY <1>1
<1>3. PICK g : Reads(g, a, s, radix) /\ ReadFrom(a, s, radix) = g[Len(s)]
  BY <1>2, ReadingSteps
<1>4. QED
  BY <1>2, <1>3 DEF Reads

LEMMA Divided ==
  ASSUME NEW p \in Nat, NEW r \in Nat \ {0}
  PROVE  /\ p \div r \in Nat /\ p % r \in 0..(r - 1) /\ Shift(r, p \div r, p % r) = p
         /\ p # 0 /\ p \div r = 0 => p % r # 0
<1>1. p \div r \in Nat
  OBVIOUS
<1>2. p % r \in 0..(r - 1)
  OBVIOUS
<1>3. p = r * (p \div r) + (p % r)
  OBVIOUS
<1>4. QED
  BY <1>1, <1>2, <1>3 DEF Shift

(***************************************************************************)
(* Segments and separators.                                                *)
(***************************************************************************)
LEMMA FlattenInFront ==
  ASSUME NEW E, NEW x \in Seq(E), NEW seqs \in Seq(Seq(E))
  PROVE  FlattenSeq(<<x>> \o seqs) = x \o FlattenSeq(seqs)
<1> DEFINE more == <<x>> \o seqs
<1>1. PICK n \in Nat : n = Len(seqs)
  OBVIOUS
<1>2. /\ more \in Seq(Seq(E)) /\ Len(more) = n + 1 /\ more[1] = x
      /\ \A i \in 1..n : more[i + 1] = seqs[i] /\ seqs[i] \in Seq(E)
  BY <1>1
<1> HIDE DEF more
<1>3. PICK g : g \in [0..n -> Seq(E)] /\ Joins(g, seqs) /\ FlattenSeq(seqs) = g[n]
  BY <1>1, FlattenSteps
<1>4. PICK h : h \in [0..(n + 1) -> Seq(E)] /\ Joins(h, more) /\ FlattenSeq(more) = h[n + 1]
  BY <1>2, FlattenSteps
<1> DEFINE S == {i \in 0..n : h[i + 1] = x \o g[i]}
<1>5. 0 \in S
  <2>1. 1 \in 1..Len(more) /\ 1 - 1 = 0 /\ 0 + 1 = 1 /\ 0 \in 0..n
    BY <1>1, <1>2
  <2>2. h[1] = h[0] \o x /\ h[0] = <<>> /\ g[0] = <<>>
    BY <1>2, <1>3, <1>4, <2>1 DEF Joins
  <2>3. <<>> \o x = x /\ x \o <<>> = x
    OBVIOUS
  <2>4. h[0 + 1] = x \o g[0]
    BY <2>1, <2>2, <2>3
  <2>5. QED
    BY <2>1, <2>4
<1>6. ASSUME NEW i \in 1..n, i - 1 \in S PROVE i \in S
  <2>1. /\ i + 1 \in 1..Len(more) /\ (i + 1) - 1 = i /\ (i - 1) + 1 = i /\ i \in 0..n
        /\ i - 1 \in 0..n /\ i \in 1..Len(seqs)
    BY <1>1, <1>2
  <2>2. h[i + 1] = h[i] \o more[i + 1]
    BY <1>4, <2>1 DEF Joins
  <2>3. g[i] = g[i - 1] \o seqs[i]
    BY <1>3, <2>1 DEF Joins
  <2>4. h[i] = x \o g[i - 1]
    BY <1>6, <2>1
  <2>5. more[i + 1] = seqs[i] /\ seqs[i] \in Seq(E) /\ g[i - 1] \in Seq(E)
    BY <1>2, <1>3, <2>1
  <2>6. (x \o g[i - 1]) \o seqs[i] = x \o (g[i - 1] \o seqs[i])
    <3>1. \A p, q, r \in Seq(E) : (p \o q) \o r = p \o (q \o r)
      BY ConcatAssociative
    <3>2. QED
      BY <2>5, <3>1, Zenon
  <2>7. h[i + 1] = x \o g[i]
    BY <2>2, <2>3, <2>4, <2>5, <2>6
  <2>8. QED
    BY <2>1, <2>7
<1> HIDE DEF S
<1>7. 0..n \subseteq S
  <2>1. \A i \in 1..n : i - 1 \in S => i \in S
    BY <1>6
  <2>2. QED
    BY <1>5, <2>1, UpTo
<1>8. n \in 0..n
  OBVIOUS
<1>9. h[n + 1] = x \o g[n]
  BY <1>7, <1>8 DEF S
<1>10. QED
  BY <1>1, <1>3, <1>4, <1>9 DEF more

(* The segments with the separator between them.                           *)
Between(segs, sep) ==
  [k \in 1..(2 * Len(segs) - 1) |-> IF k % 2 = 0 THEN <<sep>> ELSE segs[(k + 1) \div 2]]

Joined(segs, sep) == Sequence!FlattenSeq(Between(segs, sep))

LEMMA SameFlatten ==
  ASSUME NEW s
  PROVE  Sequence!FlattenSeq(s) = FlattenSeq(s)
  BY DEF FlattenSeq, Sequence!FlattenSeq

LEMMA ListedIs ==
  ASSUME NEW T, NEW n \in Nat, NEW f, f = [i \in 1..n |-> f[i]], \A i \in 1..n : f[i] \in T
  PROVE  f \in Seq(T) /\ Len(f) = n
<1>1. f \in [1..n -> T]
  OBVIOUS
<1>2. QED
  BY <1>1

LEMMA OneMore ==
  ASSUME NEW T, NEW x \in T, NEW s \in Seq(T), NEW m \in Nat, Len(s) = m
  PROVE  /\ <<x>> \o s \in Seq(T) /\ Len(<<x>> \o s) = m + 1 /\ (<<x>> \o s)[1] = x
         /\ \A k \in 1..m : (<<x>> \o s)[k + 1] = s[k]
<1>1. <<x>> \o s \in Seq(T)
  OBVIOUS
<1>2. Len(<<x>> \o s) = m + 1
  OBVIOUS
<1>3. (<<x>> \o s)[1] = x
  OBVIOUS
<1>4. \A k \in 1..m : (<<x>> \o s)[k + 1] = s[k]
  OBVIOUS
<1>5. QED
  BY <1>1, <1>2, <1>3, <1>4

LEMMA HalfWay ==
  ASSUME NEW n \in Nat, NEW k \in 1..(2 * n - 1)
  PROVE  k % 2 # 0 => (k + 1) \div 2 \in 1..n
  OBVIOUS

LEMMA BetweenType ==
  ASSUME NEW segs \in Seq(Seq(Nat)), segs # <<>>, NEW sep \in Nat
  PROVE  /\ Between(segs, sep) \in Seq(Seq(Nat)) /\ Len(Between(segs, sep)) = 2 * Len(segs) - 1
         /\ Len(segs) \in Nat \ {0}
<1>1. PICK n \in Nat \ {0} : n = Len(segs)
  BY EmptySeq
<1>2. \A k \in 1..(2 * n - 1) : Between(segs, sep)[k] \in Seq(Nat)
  <2>1. ASSUME NEW k \in 1..(2 * n - 1) PROVE Between(segs, sep)[k] \in Seq(Nat)
    <3>1. Between(segs, sep)[k] = IF k % 2 = 0 THEN <<sep>> ELSE segs[(k + 1) \div 2]
      BY <1>1 DEF Between
    <3>2. <<sep>> \in Seq(Nat)
      OBVIOUS
    <3>3. k % 2 # 0 => segs[(k + 1) \div 2] \in Seq(Nat)
      BY <1>1, HalfWay
    <3>4. QED
      BY <3>1, <3>2, <3>3
  <2>2. QED
    BY <2>1
<1>3. 2 * n - 1 \in Nat
  OBVIOUS
<1>4. Between(segs, sep) = [k \in 1..(2 * n - 1) |-> Between(segs, sep)[k]]
  BY <1>1 DEF Between
<1> DEFINE bt == Between(segs, sep)
<1> HIDE DEF bt
<1>5. bt = [k \in 1..(2 * n - 1) |-> bt[k]] /\ \A k \in 1..(2 * n - 1) : bt[k] \in Seq(Nat)
  BY <1>2, <1>4 DEF bt
<1>6. bt \in Seq(Seq(Nat)) /\ Len(bt) = 2 * n - 1
  <2> DEFINE m == 2 * n - 1  T == Seq(Nat)
  <2>1. m \in Nat /\ bt = [k \in 1..m |-> bt[k]] /\ \A k \in 1..m : bt[k] \in T
    BY <1>3, <1>5
  <2> HIDE DEF m, T
  <2>2. bt \in Seq(T) /\ Len(bt) = m
    BY <2>1, ListedIs
  <2>3. QED
    BY <2>2 DEF m, T
<1>7. QED
  BY <1>1, <1>6 DEF bt

LEMMA JoinedOne ==
  ASSUME NEW x \in Seq(Nat), NEW sep \in Nat
  PROVE  Joined(<<x>>, sep) = x
<1> DEFINE s == <<x>>
<1>1. s \in Seq(Seq(Nat)) /\ Len(s) = 1 /\ s[1] = x
  OBVIOUS
<1> HIDE DEF s
<1>2. 2 * Len(s) - 1 = 1 /\ 1 % 2 # 0 /\ (1 + 1) \div 2 = 1
  BY <1>1
<1>3. Between(s, sep) = [k \in 1..1 |-> x]
  <2>1. \A k \in 1..1 : k = 1
    OBVIOUS
  <2>2. QED
    BY <1>1, <1>2, <2>1 DEF Between
<1>4. [k \in 1..1 |-> x] = <<x>> \o <<>>
  OBVIOUS
<1>5. <<>> \in Seq(Seq(Nat)) /\ x \o <<>> = x
  OBVIOUS
<1>6. FlattenSeq(<<x>> \o <<>>) = x \o FlattenSeq(<<>>)
  BY <1>5, FlattenInFront
<1>7. QED
  BY <1>1, <1>3, <1>4, <1>5, <1>6, FlattenNone, SameFlatten DEF Joined, s

LEMMA JoinedMore ==
  ASSUME NEW x \in Seq(Nat), NEW segs \in Seq(Seq(Nat)), segs # <<>>, NEW sep \in Nat
  PROVE  Joined(<<x>> \o segs, sep) = x \o (<<sep>> \o Joined(segs, sep))
<1> DEFINE more == <<x>> \o segs
<1>1. PICK n \in Nat \ {0} : n = Len(segs)
  BY EmptySeq
<1>2. /\ more \in Seq(Seq(Nat)) /\ Len(more) = n + 1 /\ more[1] = x
      /\ \A i \in 1..n : more[i + 1] = segs[i]
  BY <1>1
<1> HIDE DEF more
<1>3. /\ Between(segs, sep) \in Seq(Seq(Nat)) /\ Len(Between(segs, sep)) = 2 * n - 1
      /\ \A k \in 1..(2 * n - 1) :
           Between(segs, sep)[k] = IF k % 2 = 0 THEN <<sep>> ELSE segs[(k + 1) \div 2]
  BY <1>1, BetweenType DEF Between
<1>4. more # <<>>
  BY <1>2
<1>5. /\ Between(more, sep) \in Seq(Seq(Nat)) /\ Len(Between(more, sep)) = 2 * n + 1
      /\ \A k \in 1..(2 * n + 1) :
           Between(more, sep)[k] = IF k % 2 = 0 THEN <<sep>> ELSE more[(k + 1) \div 2]
  <2>1. 2 * Len(more) - 1 = 2 * n + 1
    BY <1>2
  <2>2. Between(more, sep) \in Seq(Seq(Nat)) /\ Len(Between(more, sep)) = 2 * Len(more) - 1
    BY <1>2, <1>4, BetweenType
  <2>3. QED
    BY <2>1, <2>2 DEF Between
<1>6. PICK bs : bs = Between(segs, sep)
  OBVIOUS
<1>7. PICK bm : bm = Between(more, sep)
  OBVIOUS
<1> DEFINE ss == <<sep>>
<1>8. ss \in Seq(Nat) /\ ss = <<sep>>
  OBVIOUS
<1> HIDE DEF ss
<1> DEFINE tl == <<ss>> \o bs
<1>9. /\ tl \in Seq(Seq(Nat)) /\ Len(tl) = 2 * n
      /\ tl[1] = ss /\ \A k \in 1..(2 * n - 1) : tl[k + 1] = bs[k]
  <2>1. bs \in Seq(Seq(Nat)) /\ Len(bs) = 2 * n - 1 /\ 2 * n - 1 \in Nat /\ (2 * n - 1) + 1 = 2 * n
    BY <1>3, <1>6
  <2>2. QED
    BY <1>8, <2>1, OneMore
<1> HIDE DEF tl
<1> DEFINE al == <<x>> \o tl
<1>10. /\ al \in Seq(Seq(Nat)) /\ Len(al) = 2 * n + 1
       /\ al[1] = x /\ \A k \in 1..(2 * n) : al[k + 1] = tl[k]
  <2>1. 2 * n \in Nat
    OBVIOUS
  <2>2. QED
    BY <1>9, <2>1, OneMore
<1> HIDE DEF al
<1>11. ASSUME NEW k \in 1..(2 * n + 1) PROVE bm[k] = al[k]
  <2>1. bm[k] = IF k % 2 = 0 THEN ss ELSE more[(k + 1) \div 2]
    BY <1>5, <1>7, <1>8
  <2>2. CASE k = 1
    <3>1. 1 % 2 # 0 /\ (1 + 1) \div 2 = 1
      OBVIOUS
    <3>2. QED
      BY <1>2, <1>10, <2>1, <2>2, <3>1
  <2>3. CASE k = 2
    <3>1. 2 % 2 = 0 /\ 1 \in 1..(2 * n) /\ 1 + 1 = 2
      OBVIOUS
    <3>2. bm[k] = ss
      BY <2>1, <2>3, <3>1
    <3>3. al[2] = tl[1]
      BY <1>10, <3>1
    <3>4. QED
      BY <1>9, <2>3, <3>2, <3>3
  <2>4. CASE k > 2
    <3>1. PICK j \in 1..(2 * n - 1) : k = j + 2
      <4>1. k - 2 \in 1..(2 * n - 1) /\ k = (k - 2) + 2
        BY <2>4
      <4>2. QED
        BY <4>1
    <3>2. j + 1 \in 1..(2 * n) /\ (j + 1) + 1 = k
      BY <3>1
    <3>3. al[k] = bs[j]
      BY <1>9, <1>10, <3>2
    <3>4. bs[j] = IF j % 2 = 0 THEN ss ELSE segs[(j + 1) \div 2]
      BY <1>3, <1>6, <1>8
    <3>5. k % 2 = j % 2 /\ (k + 1) \div 2 = (j + 1) \div 2 + 1
      BY <3>1
    <3>6. CASE j % 2 = 0
      BY <2>1, <3>3, <3>4, <3>5, <3>6
    <3>7. CASE j % 2 # 0
      <4>1. (j + 1) \div 2 \in 1..n
        BY <3>7, HalfWay
      <4>2. more[(j + 1) \div 2 + 1] = segs[(j + 1) \div 2]
        BY <1>2, <4>1
      <4>3. QED
        BY <2>1, <3>3, <3>4, <3>5, <3>7, <4>2
    <3>8. QED
      BY <3>6, <3>7
  <2>5. QED
    <3>1. k = 1 \/ k = 2 \/ k > 2
      OBVIOUS
    <3>2. QED
      BY <2>2, <2>3, <2>4, <3>1
<1>12. bm = al
  <2>1. bm \in Seq(Seq(Nat)) /\ Len(bm) = 2 * n + 1
    BY <1>5, <1>7
  <2>2. QED
    BY <1>10, <1>11, <2>1, SeqEqual
<1>13. FlattenSeq(al) = x \o FlattenSeq(tl)
  BY <1>9, FlattenInFront DEF al
<1>14. FlattenSeq(tl) = ss \o FlattenSeq(bs)
  BY <1>3, <1>6, <1>8, FlattenInFront DEF tl
<1>15. QED
  BY <1>6, <1>7, <1>8, <1>12, <1>13, <1>14, SameFlatten DEF Joined, more

LEMMA JoinedType ==
  ASSUME NEW segs \in Seq(Seq(Nat)), segs # <<>>, NEW sep \in Nat
  PROVE  Joined(segs, sep) \in Seq(Nat)
  BY BetweenType, FlattenType, SameFlatten DEF Joined

(***************************************************************************)
(* Copies and C strings.                                                   *)
(***************************************************************************)
ByteStrings == Seq(Nat \ {0})

LEMMA BytesOf ==
  ASSUME NEW s \in ByteStrings
  PROVE  /\ s \in Seq(Nat) /\ Len(s) \in Nat
         /\ \A i \in 1..Len(s) : s[i] \in Nat /\ s[i] # NUL
  BY DEF ByteStrings, NUL

LEMMA LengthOf ==
  ASSUME NEW n \in Nat, NEW f, DOMAIN f = 0..n
  PROVE  Len0(f) = n
<1>1. Cardinality(0..n) = n + 1
  BY FS_Interval
<1>2. QED
  BY <1>1 DEF Len0

LEMMA CopyIs ==
  ASSUME NEW s \in ByteStrings
  PROVE  /\ DOMAIN CopyOf(s) = 0..Len(s) /\ Len0(CopyOf(s)) = Len(s)
         /\ CopyOf(s)[Len(s)] = NUL /\ \A i \in 0..(Len(s) - 1) : CopyOf(s)[i] = s[i + 1]
<1>1. Len(s) \in Nat
  BY BytesOf
<1>2. DOMAIN CopyOf(s) = 0..Len(s)
  BY DEF CopyOf
<1>3. QED
  BY <1>1, <1>2, LengthOf DEF CopyOf

EndsAt(f, n, lo, e) ==
  DOMAIN f = 0..n /\ f[e] = NUL /\ \A j \in lo..(e - 1) : f[j] # NUL

UpToEnd(f, lo, e) == [i \in 1..(e - lo) |-> f[lo + i - 1]]

LEMMA CStringIs ==
  ASSUME NEW n \in Nat, NEW f, NEW lo \in 0..n, NEW e \in lo..n, EndsAt(f, n, lo, e)
  PROVE  CString(f, lo) = UpToEnd(f, lo, e)
<1>1. Len0(f) = n
  BY LengthOf DEF EndsAt
<1>2. e = CHOOSE i \in lo..n : f[i] = NUL /\ \A j \in lo..(i - 1) : f[j] # NUL
  <2>1. ASSUME NEW i \in lo..n, f[i] = NUL, \A j \in lo..(i - 1) : f[j] # NUL PROVE i = e
    <3>1. ~(i < e)
      <4>1. i < e => i \in lo..(e - 1)
        OBVIOUS
      <4>2. QED
        BY <2>1, <4>1 DEF EndsAt
    <3>2. ~(e < i)
      <4>1. e < i => e \in lo..(i - 1)
        OBVIOUS
      <4>2. QED
        BY <2>1, <4>1 DEF EndsAt
    <3>3. QED
      BY <3>1, <3>2
  <2>2. e \in lo..n /\ f[e] = NUL /\ \A j \in lo..(e - 1) : f[j] # NUL
    BY DEF EndsAt
  <2>3. QED
    BY <2>1, <2>2
<1>3. QED
  BY <1>1, <1>2 DEF CString, UpToEnd

(* The bytes from lo to a NUL that was put at e.                           *)
CutAfter(s, e) == [CopyOf(s) EXCEPT ![e] = NUL]

LEMMA CutString ==
  ASSUME NEW s \in ByteStrings, NEW lo \in Nat, NEW e \in Nat, lo <= e, e <= Len(s)
  PROVE  CString(CutAfter(s, e), lo) = SubSeq(s, lo + 1, e)
<1>1. /\ Len(s) \in Nat /\ s \in Seq(Nat) /\ \A i \in 1..Len(s) : s[i] \in Nat /\ s[i] # NUL
  BY BytesOf
<1>2. PICK n \in Nat : n = Len(s)
  BY <1>1
<1> DEFINE c == CopyOf(s)  f == [c EXCEPT ![e] = NUL]
<1>3. /\ DOMAIN c = 0..n /\ \A i \in 0..(n - 1) : c[i] = s[i + 1]
  BY <1>2, CopyIs
<1> HIDE DEF c
<1>4. /\ DOMAIN f = 0..n /\ f[e] = NUL /\ \A i \in 0..n : i # e => f[i] = c[i]
  BY <1>2, <1>3
<1> HIDE DEF f
<1>5. ASSUME NEW j \in lo..(e - 1) PROVE f[j] = s[j + 1] /\ f[j] # NUL
  <2>1. j \in 0..n /\ j # e /\ j \in 0..(n - 1) /\ j + 1 \in 1..n
    BY <1>2
  <2>2. QED
    BY <1>1, <1>2, <1>3, <1>4, <2>1
<1>6. CString(f, lo) = UpToEnd(f, lo, e)
  <2>1. lo \in 0..n /\ e \in lo..n
    BY <1>2
  <2>2. EndsAt(f, n, lo, e)
    BY <1>4, <1>5 DEF EndsAt
  <2>3. QED
    BY <2>1, <2>2, CStringIs
<1>7. /\ SubSeq(s, lo + 1, e) \in Seq(Nat) /\ Len(SubSeq(s, lo + 1, e)) = e - lo
      /\ \A i \in 1..(e - lo) : SubSeq(s, lo + 1, e)[i] = s[lo + i]
  <2>1. lo + 1 \in Nat \ {0} /\ e <= Len(s) /\ lo + 1 <= e + 1 /\ e - (lo + 1) + 1 = e - lo
    OBVIOUS
  <2>2. PICK p : p = SubSeq(s, lo + 1, e)
    OBVIOUS
  <2>3. /\ p \in Seq(Nat) /\ Len(p) = e - (lo + 1) + 1
        /\ \A i \in 1..(e - (lo + 1) + 1) : p[i] = s[(lo + 1) + i - 1]
    BY <1>1, <2>1, <2>2, SliceIs
  <2>4. \A i \in 1..(e - lo) : p[i] = s[lo + i]
    <3>1. ASSUME NEW i \in 1..(e - lo) PROVE (lo + 1) + i - 1 = lo + i
      OBVIOUS
    <3>2. QED
      BY <2>1, <2>3, <3>1
  <2>5. QED
    BY <2>1, <2>2, <2>3, <2>4
<1> DEFINE q == UpToEnd(f, lo, e)
<1>8. q \in Seq(Nat) /\ Len(q) = e - lo /\ \A i \in 1..(e - lo) : q[i] = s[lo + i]
  <2>1. ASSUME NEW i \in 1..(e - lo) PROVE f[lo + i - 1] = s[lo + i] /\ f[lo + i - 1] \in Nat
    <3>1. lo + i - 1 \in lo..(e - 1) /\ (lo + i - 1) + 1 = lo + i /\ lo + i \in 1..Len(s)
      BY <1>1
    <3>2. QED
      BY <1>1, <1>5, <3>1
  <2> DEFINE m == e - lo
  <2>2. m \in Nat
    OBVIOUS
  <2>3. q = [i \in 1..m |-> q[i]] /\ \A i \in 1..m : q[i] \in Nat /\ q[i] = s[lo + i]
    BY <2>1 DEF UpToEnd
  <2> HIDE DEF q, m
  <2>4. q \in Seq(Nat) /\ Len(q) = m
    BY <2>2, <2>3, ListedIs
  <2>5. QED
    BY <2>3, <2>4 DEF m
<1> HIDE DEF q
<1>9. PICK p : p = SubSeq(s, lo + 1, e)
  OBVIOUS
<1>10. q = p
  <2>1. /\ p \in Seq(Nat) /\ q \in Seq(Nat) /\ Len(p) = Len(q)
        /\ \A i \in 1..Len(p) : p[i] = q[i]
    BY <1>7, <1>8, <1>9
  <2>2. QED
    BY <2>1, SeqEqual
<1>11. QED
  BY <1>6, <1>9, <1>10 DEF q, f, c, CutAfter

(* A copy is read as what was copied.                                      *)
LEMMA CopiedString ==
  ASSUME NEW s \in ByteStrings
  PROVE  CString(CopyOf(s), 0) = s
<1>1. Len(s) \in Nat /\ s \in Seq(Nat)
  BY BytesOf
<1>2. CutAfter(s, Len(s)) = CopyOf(s)
  <2>1. CopyOf(s)[Len(s)] = NUL
    BY CopyIs
  <2>2. QED
    BY <2>1 DEF CopyOf, CutAfter
<1>3. CString(CutAfter(s, Len(s)), 0) = SubSeq(s, 0 + 1, Len(s))
  <2>1. 0 \in Nat /\ 0 <= Len(s) /\ Len(s) <= Len(s)
    BY <1>1
  <2>2. QED
    BY <1>1, <2>1, CutString
<1>4. SubSeq(s, 1, Len(s)) = s
  BY <1>1
<1>5. QED
  BY <1>2, <1>3, <1>4

(* What is between the bounds of a substring.                              *)
Selected(s, i, j) ==
  SubSeq(s, (IF i < 0 THEN 0 ELSE i) + 1, IF j > Len(s) THEN Len(s) ELSE j)

LEMMA Clamped ==
  ASSUME NEW s \in ByteStrings, NEW i \in Int, NEW j \in Int
  PROVE  \E lo \in Nat, hi \in Nat :
           /\ Clamp(Len(s), i, j) = <<lo, hi>> /\ lo <= hi /\ hi <= Len(s)
           /\ SubSeq(s, lo + 1, hi) = Selected(s, i, j)
<1>1. Len(s) \in Nat
  BY BytesOf
<1>2. PICK n \in Nat : n = Len(s)
  BY <1>1
<1> DEFINE lo == IF i < 0 THEN 0 ELSE IF i > n THEN n ELSE i
           to == IF j < 0 THEN 0 ELSE IF j > n THEN n ELSE j
           hi == IF to < lo THEN lo ELSE to
           from == IF i < 0 THEN 0 ELSE i
           last == IF j > n THEN n ELSE j
<1>3. Clamp(n, i, j) = <<lo, hi>>
  BY DEF Clamp
<1>4. lo \in Nat /\ hi \in Nat /\ lo <= hi /\ hi <= n /\ from \in Int /\ last \in Int
  OBVIOUS
<1>5. (lo = from /\ hi = last) \/ (lo + 1 > hi /\ from + 1 > last)
  OBVIOUS
<1> HIDE DEF lo, hi, from, last
<1>6. SubSeq(s, lo + 1, hi) = SubSeq(s, from + 1, last)
  <2>1. CASE lo = from /\ hi = last
    BY <2>1
  <2>2. CASE lo + 1 > hi /\ from + 1 > last
    <3>1. SubSeq(s, lo + 1, hi) = <<>>
      <4>1. lo + 1 \in Int /\ hi \in Int
        BY <1>4
      <4>2. QED
        BY <2>2, <4>1, SubSeqEmpty
    <3>2. SubSeq(s, from + 1, last) = <<>>
      <4>1. from + 1 \in Int
        BY <1>4
      <4>2. QED
        BY <1>4, <2>2, <4>1, SubSeqEmpty
    <3>3. QED
      BY <3>1, <3>2
  <2>3. QED
    BY <1>5, <2>1, <2>2
<1>7. SubSeq(s, lo + 1, hi) = Selected(s, i, j)
  BY <1>2, <1>6 DEF from, last, Selected
<1>8. QED
  BY <1>2, <1>3, <1>4, <1>7

(***************************************************************************)
(* Where a primitive is.                                                   *)
(***************************************************************************)
Doing == Head(left)

(* The instruction that is executed, and the one that comes after it.      *)
Comes(p, x, y) == \E k \in 1..Len(p) : p[k] = x /\ (k < Len(p) => p[k + 1] = y)

LEMMA GoesOn ==
  ASSUME PrimInv, ~Idling, ~Over
  PROVE  /\ prim.op \in Primitives
         /\ \E y : Comes(Program(prim.op), Doing, y)
         /\ Proceed => Comes(Program(prim.op), Doing, Head(left'))
<1>1. prim.op \in Primitives /\ \E k \in 1..Len(Program(prim.op)) : Paused(Program(prim.op), k)
  BY DEF PrimInv, Over
<1>2. PICK k \in 1..Len(Program(prim.op)) : Paused(Program(prim.op), k)
  BY <1>1
<1> DEFINE p == Program(prim.op)
<1>3. Doing = p[k] /\ p \in Seq(Instructions) /\ Len(p) \in Nat
  BY <1>1, <1>2, PausedAt, ProgramIsOrdered DEF Doing
<1> HIDE DEF p
<1>4. ASSUME Proceed, k < Len(p) PROVE Head(left') = p[k + 1]
  <2>1. left \in Seq(Instructions) /\ Len(left) = Len(p) - k + 1
        /\ \A i \in 1..Len(left) : left[i] = p[i + k - 1]
    BY <1>2 DEF Paused, p
  <2>2. 2 \in 1..Len(left) /\ 2 + k - 1 = k + 1 /\ Len(left) - 1 > 0
    BY <1>2, <1>3, <1>4, <2>1
  <2>3. left[2] = p[k + 1]
    BY <2>1, <2>2
  <2>4. Head(Tail(left)) = left[2]
    BY <2>1, <2>2
  <2>5. QED
    BY <1>4, <2>3, <2>4 DEF Proceed
<1>5. k \in 1..Len(p)
  BY <1>2 DEF p
<1>6. Comes(p, Doing, p[k + 1])
  BY <1>3, <1>5 DEF Comes
<1>7. ASSUME Proceed PROVE Comes(p, Doing, Head(left'))
  BY <1>3, <1>4, <1>5, <1>7 DEF Comes
<1>8. QED
  BY <1>1, <1>6, <1>7 DEF p

Copying == {"substring", "string-append"}
Reading == {"read-file", "read-blob"}

LEMMA CopyingComes ==
  ASSUME NEW op \in Copying, NEW x, NEW y, Comes(Program(op), x, y)
  PROVE  /\ x \in {"copy", "clip", "register", "string", "unregister", "free", "return"}
         /\ x = "copy" => y = "clip"
         /\ x = "clip" => y = "register"
         /\ x = "register" => y = "string"
         /\ x = "string" => y = "unregister"
         /\ x = "unregister" => y = "free"
         /\ x = "free" => y = "return"
<1> DEFINE p == <<"copy", "clip", "register", "string", "unregister", "free", "return">>
<1>1. Program(op) = p /\ Len(p) = 7
  BY DEF Program, Copying
<1>2. PICK k \in 1..7 : p[k] = x /\ (k < 7 => p[k + 1] = y)
  BY <1>1 DEF Comes
<1>3. k = 1 \/ k = 2 \/ k = 3 \/ k = 4 \/ k = 5 \/ k = 6 \/ k = 7
  OBVIOUS
<1>4. QED
  BY <1>2, <1>3, SMTT(30)

Making(op) == IF op = "read-file" THEN "string" ELSE "blob"

LEMMA ReadingComes ==
  ASSUME NEW op \in Reading, NEW x, NEW y, Comes(Program(op), x, y)
  PROVE  /\ x \in {"open", "read", "close", "register", Making(op), "unregister", "free", "return"}
         /\ x = "open" => y = "read"
         /\ x = "read" => y = "close"
         /\ x = "close" => y = "register"
         /\ x = "register" => y = Making(op)
         /\ x = Making(op) => y = "unregister"
         /\ x = "unregister" => y = "free"
         /\ x = "free" => y = "return"
<1> DEFINE p == <<"open", "read", "close", "register", Making(op), "unregister", "free", "return">>
<1>1. Program(op) = p /\ Len(p) = 8
  BY DEF Program, Reading, Making
<1>2. PICK k \in 1..8 : p[k] = x /\ (k < 8 => p[k + 1] = y)
  BY <1>1 DEF Comes
<1>3. k = 1 \/ k = 2 \/ k = 3 \/ k = 4 \/ k = 5 \/ k = 6 \/ k = 7 \/ k = 8
  OBVIOUS
<1>4. Making(op) \in {"string", "blob"}
  BY DEF Making
<1>5. QED
  BY <1>2, <1>3, <1>4, SMTT(30)

LEMMA SplitComes ==
  ASSUME NEW x, NEW y, Comes(Program("string-split"), x, y)
  PROVE  /\ x \in {"copy", "register", "split", "unregister", "free", "return"}
         /\ x = "copy" => y = "register"
         /\ x = "register" => y = "split"
         /\ x = "split" => y = "unregister"
         /\ x = "unregister" => y = "free"
         /\ x = "free" => y = "return"
<1> DEFINE p == <<"copy", "register", "split", "unregister", "free", "return">>
<1>1. Program("string-split") = p /\ Len(p) = 6
  BY DEF Program
<1>2. PICK k \in 1..6 : p[k] = x /\ (k < 6 => p[k + 1] = y)
  BY <1>1 DEF Comes
<1>3. k = 1 \/ k = 2 \/ k = 3 \/ k = 4 \/ k = 5 \/ k = 6
  OBVIOUS
<1>4. QED
  BY <1>2, <1>3, SMTT(30)

LEMMA NumberComes ==
  ASSUME NEW x, NEW y, Comes(Program("number->string"), x, y)
  PROVE  /\ x \in {"digits", "sign", "object", "return"}
         /\ x = "digits" => y = "sign"
         /\ x = "sign" => y = "object"
         /\ x = "object" => y = "return"
<1> DEFINE p == <<"digits", "sign", "object", "return">>
<1>1. Program("number->string") = p /\ Len(p) = 4
  BY DEF Program
<1>2. PICK k \in 1..4 : p[k] = x /\ (k < 4 => p[k + 1] = y)
  BY <1>1 DEF Comes
<1>3. k = 1 \/ k = 2 \/ k = 3 \/ k = 4
  OBVIOUS
<1>4. QED
  BY <1>2, <1>3, SMTT(30)

(* The end of a primitive.                                                 *)
LEMMA DoneIs ==
  /\ left = <<"raised">> => Doing = "raised"
  /\ left = <<"returned">> => Doing = "returned"
  /\ Idling => Doing = "idle"
  BY DEF Doing, Idling

LEMMA DoneIsNext ==
  /\ left' = <<"raised">> => Doing' = "raised"
  /\ left' = <<"returned">> => Doing' = "returned"
  /\ Idling' => Doing' = "idle"
  BY DEF Doing, Idling

(***************************************************************************)
(* What is being computed, instruction by instruction.                     *)
(***************************************************************************)
Asked ==
  /\ prim.op \in Copying \cup {"string-split"} => prim.arg.s \in ByteStrings
  /\ prim.op \in Reading => prim.arg.s \in Seq(Nat)
  /\ prim.op = "string-append" => prim.arg.t \in ByteStrings
  /\ prim.op = "substring" => prim.arg.a \in Int /\ prim.arg.b \in Int
  /\ prim.op = "string-split" => prim.arg.sep \in Nat
  /\ prim.op = "number->string" =>
       prim.arg.n \in -IntMax..(IntMax - 1) /\ prim.arg.radix \in Nat \ {0, 1}

Copied == IF prim.op = "string-append" THEN prim.arg.s \o prim.arg.t ELSE prim.arg.s

Wanted == IF prim.op = "substring" THEN Selected(Copied, prim.arg.a, prim.arg.b) ELSE Copied

CopyInv ==
  prim.op \in Copying =>
    /\ Doing = "clip" => buf = CopyOf(Copied)
    /\ Doing \in {"register", "string"} => CString(buf, at) = Wanted
    /\ Doing \in {"unregister", "free", "return", "returned"} => out = Wanted

(* The buffer has what was read of the file, up to got.                    *)
PartlyRead(f, file, got) ==
  /\ got \in 0..Len(file) /\ DOMAIN f = 0..Len(file) /\ f[Len(file)] = NUL
  /\ \A i \in 0..(got - 1) : f[i] = file[i + 1]

FileRead ==
  IF prim.op = "read-file" THEN TextRead(out, prim.arg.s, end) ELSE BytesRead(out, prim.arg.s, end)

ReadInv ==
  prim.op \in Reading =>
    /\ Doing \in {"close", "register", "string", "blob"} =>
         at = 0 /\ PartlyRead(buf, prim.arg.s, end)
    /\ Doing \in {"unregister", "free", "return", "returned"} => FileRead

NoSeparator(segs, sep) == \A i \in 1..Len(segs) : \A j \in 1..Len(segs[i]) : segs[i][j] # sep

(* The segments behind end are made; there is no separator from at on.     *)
Scanned(s, sep, lo, e, segs) ==
  /\ lo \in Nat /\ e \in Nat /\ lo <= e /\ e <= Len(s)
  /\ \A j \in (lo + 1)..e : s[j] # sep
  /\ segs \in Seq(Seq(Nat)) /\ NoSeparator(segs, sep)
  /\ segs = <<>> => e = Len(s)
  /\ segs # <<>> => e < Len(s) /\ s[e + 1] = sep /\ Joined(segs, sep) = SubSeq(s, e + 2, Len(s))

Segmented(s, sep, segs) == segs # <<>> /\ NoSeparator(segs, sep) /\ s = Joined(segs, sep)

SplitInv ==
  prim.op = "string-split" =>
    /\ Doing = "copy" => out = <<>>
    /\ Doing \in {"register", "split"} =>
         buf = CopyOf(prim.arg.s) /\ Scanned(prim.arg.s, prim.arg.sep, at, end, out)
    /\ Doing \in {"unregister", "free", "return", "returned"} =>
         Segmented(prim.arg.s, prim.arg.sep, out)

Absolute(n) == IF n < 0 THEN -n ELSE n

(* The digits that are left to make and those that are made are the number.*)
Spelled(n, radix, rest, digits) ==
  /\ digits \in Seq(Nat) /\ digits # <<>> /\ rest \in Nat
  /\ ReadFrom(rest, digits, radix) = Absolute(n)
  /\ rest = 0 /\ n # 0 => Head(digits) # 0

NumberInv ==
  prim.op = "number->string" =>
    /\ Doing = "digits" => out = <<>> \/ Spelled(prim.arg.n, prim.arg.radix, end, out)
    /\ Doing = "sign" => Spelled(prim.arg.n, prim.arg.radix, 0, out)
    /\ Doing \in {"object", "return", "returned"} =>
         Numeral(out, prim.arg.n, prim.arg.radix)

AnswersInv ==
  Asked /\ CopyInv /\ ReadInv /\ SplitInv /\ NumberInv /\ (Idling => out = <<>>)

LEMMA CopiedType ==
  ASSUME Asked, prim.op \in Copying
  PROVE  Copied \in ByteStrings
  BY DEF Asked, Copied, ByteStrings, Copying

LEMMA SameRequest ==
  ASSUME prim' = prim
  PROVE  Copied' = Copied /\ Wanted' = Wanted /\ (Asked => Asked')
  BY DEF Copied, Wanted, Asked

LEMMA CopyKeeps ==
  ASSUME PrimInv, Asked, CopyInv, ~Idling, ~Over, HostNext, prim' = prim, prim.op \in Copying
  PROVE  CopyInv'
<1>1. Copied' = Copied /\ Wanted' = Wanted /\ Copied \in ByteStrings /\ prim'.op \in Copying
  BY SameRequest, CopiedType
<1>2. PICK y : Comes(Program(prim.op), Doing, y)
  BY GoesOn
<1>3. Doing \in {"copy", "clip", "register", "string", "unregister", "free", "return"}
  BY <1>2, CopyingComes
<1>4. /\ Proceed /\ Doing = "copy" => Doing' = "clip"
      /\ Proceed /\ Doing = "clip" => Doing' = "register"
      /\ Proceed /\ Doing = "register" => Doing' = "string"
      /\ Proceed /\ Doing = "string" => Doing' = "unregister"
      /\ Proceed /\ Doing = "unregister" => Doing' = "free"
      /\ Proceed /\ Doing = "free" => Doing' = "return"
  <2>1. Proceed => Comes(Program(prim.op), Doing, Doing')
    BY GoesOn DEF Doing
  <2>2. QED
    BY <2>1, CopyingComes
<1>5. ASSUME left' = <<"raised">> PROVE CopyInv'
  BY <1>5, DoneIsNext DEF CopyInv
<1>6. CASE CopyString
  <2>1. Doing = "copy" /\ (Proceed \/ left' = <<"raised">>) /\ buf' = CopyOf(Copied)
    BY <1>6 DEF CopyString, Takes, At, Doing, GivesUp, Copied, Copying
  <2>2. CASE Proceed
    BY <1>1, <1>4, <2>1, <2>2 DEF CopyInv
  <2>3. QED
    BY <1>5, <2>1, <2>2
<1>8. CASE FreeBuffers \/ CloseFile \/ CloseDir \/ PendingPush \/ PendingPop
  <2>1. Proceed /\ buf' = buf /\ at' = at /\ out' = out
        /\ Doing \in {"free", "close", "closedir", "register", "unregister"}
    BY <1>8 DEF FreeBuffers, CloseFile, CloseDir, PendingPush, PendingPop, Gives, At, Doing
  <2>2. Doing \notin {"close", "closedir"}
    BY <1>3
  <2>3. CASE Doing = "register"
    <3>1. Doing' = "string" /\ CString(buf', at') = Wanted'
      BY <1>1, <1>4, <2>1, <2>3 DEF CopyInv
    <3>2. QED
      BY <3>1 DEF CopyInv
  <2>4. CASE Doing \in {"unregister", "free"}
    <3>1. Doing' \in {"free", "return"} /\ out' = Wanted'
      BY <1>1, <1>4, <2>1, <2>4 DEF CopyInv
    <3>2. QED
      BY <3>1 DEF CopyInv
  <2>5. QED
    BY <2>1, <2>2, <2>3, <2>4
<1>9. CASE MakeString
  <2>1. Doing = "string" /\ (Proceed \/ left' = <<"raised">>) /\ out' = CString(buf, at)
    BY <1>9 DEF MakeString, Makes, At, Doing, Raises
  <2>2. CASE Proceed
    <3>1. Doing' = "unregister" /\ out' = Wanted'
      BY <1>1, <1>4, <2>1, <2>2 DEF CopyInv
    <3>2. QED
      BY <3>1 DEF CopyInv
  <2>3. QED
    BY <1>5, <2>1, <2>2
<1>10. CASE Clip
  <2>1. Doing = "clip" /\ Proceed /\ buf = CopyOf(Copied) /\ Len0(buf) = Len(Copied) /\ Len(Copied) \in Nat
    BY <1>1, <1>10, CopyIs, BytesOf DEF Clip, At, Doing, CopyInv
  <2>2. prim.op \in {"substring", "string-append"}
    BY DEF Copying
  <2>3. Doing' = "register"
    BY <1>4, <2>1
  <2>4. CString(buf', at') = Wanted
    <3>1. CASE prim.op = "substring"
      <4>1. PICK lo \in Nat, hi \in Nat :
              /\ Clamp(Len(Copied), prim.arg.a, prim.arg.b) = <<lo, hi>> /\ lo <= hi /\ hi <= Len(Copied)
              /\ SubSeq(Copied, lo + 1, hi) = Selected(Copied, prim.arg.a, prim.arg.b)
        BY <1>1, <3>1, Clamped DEF Asked
      <4>2. at' = lo /\ buf' = CutAfter(Copied, hi)
        BY <1>10, <2>1, <3>1, <4>1 DEF Clip, CutAfter
      <4>3. CString(CutAfter(Copied, hi), lo) = SubSeq(Copied, lo + 1, hi)
        BY <1>1, <4>1, CutString
      <4>4. QED
        BY <3>1, <4>1, <4>2, <4>3 DEF Wanted
    <3>2. CASE prim.op = "string-append"
      <4>1. at' = 0 /\ buf' = CutAfter(Copied, Len(Copied))
        BY <1>10, <2>1, <3>2 DEF Clip, CutAfter
      <4>2. CutAfter(Copied, Len(Copied)) = CopyOf(Copied)
        BY <1>1, CopyIs DEF CutAfter, CopyOf
      <4>3. QED
        BY <1>1, <3>2, <4>1, <4>2, CopiedString DEF Wanted
    <3>3. QED
      BY <2>2, <3>1, <3>2
  <2>5. QED
    BY <1>1, <2>3, <2>4 DEF CopyInv
<1>11. CASE Return
  <2>1. Doing = "return" /\ Doing' = "returned" /\ out' = out
    BY <1>11, DoneIsNext DEF Return, At, Doing
  <2>2. QED
    BY <1>1, <2>1 DEF CopyInv
<1>12. ~(CallString \/ CallFile \/ CallNumber \/ Evaluates)
  BY DEF CallString, CallFile, CallNumber, Starts, Evaluates
<1>13. ~(ReadBody \/ OpenOther \/ MakeNumber \/ MakeBlob \/ PickByte \/ SplitScan \/ SplitLast
          \/ ReadDir \/ CheckWritten \/ Digits \/ Sign)
  BY <1>3 DEF ReadBody, OpenOther, Takes, MakeNumber, MakeBlob, Makes, PickByte, SplitScan,
              SplitLast, ReadDir, CheckWritten, Digits, Sign, At, Doing
<1>14. QED
  BY <1>6, <1>8, <1>9, <1>10, <1>11, <1>12, <1>13 DEF HostNext

(* What is before the first NUL of a buffer.                               *)
LEMMA TextIs ==
  ASSUME NEW s \in Seq(Nat), NEW got, NEW f, PartlyRead(f, s, got)
  PROVE  TextRead(CString(f, 0), s, got)
<1>1. PICK n \in Nat : n = Len(s)
  OBVIOUS
<1>2. /\ got \in 0..n /\ DOMAIN f = 0..n /\ f[n] = NUL
      /\ \A i \in 0..(got - 1) : f[i] = s[i + 1]
  BY <1>1 DEF PartlyRead
<1> DEFINE Nuls == {i \in 0..n : f[i] = NUL}
<1>3. PICK e \in Nuls : \A i \in Nuls : e <= i
  <2>1. Nuls # {} /\ Nuls \in SUBSET Nat
    BY <1>2
  <2> HIDE DEF Nuls
  <2>2. QED
    BY <2>1, LeastExists
<1>4. e \in 0..n /\ f[e] = NUL /\ \A i \in 0..(e - 1) : f[i] # NUL
  BY <1>3
<1>5. CString(f, 0) = UpToEnd(f, 0, e)
  <2>1. 0 \in 0..n /\ EndsAt(f, n, 0, e)
    BY <1>2, <1>4 DEF EndsAt
  <2>2. QED
    BY <1>4, <2>1, CStringIs
<1> DEFINE q == UpToEnd(f, 0, e)
<1>6. Len(q) = e /\ \A i \in 1..e : q[i] = f[i - 1]
  <2> DEFINE T == {f[i] : i \in 0..n}
  <2>1. \A i \in 1..e : 0 + i - 1 = i - 1 /\ i - 1 \in 0..n
    BY <1>4
  <2>2. e - 0 = e /\ e \in Nat
    BY <1>4
  <2>3. q = [i \in 1..e |-> q[i]] /\ \A i \in 1..e : q[i] = f[i - 1] /\ q[i] \in T
    BY <2>1, <2>2 DEF UpToEnd
  <2> HIDE DEF q, T
  <2>4. QED
    BY <2>2, <2>3, ListedIs
<1> HIDE DEF q
<1>7. ASSUME NEW i \in 1..e PROVE q[i] # NUL /\ (i <= got => q[i] = s[i])
  <2>1. i - 1 \in 0..(e - 1) /\ (i - 1) + 1 = i /\ (i <= got => i - 1 \in 0..(got - 1))
    BY <1>2, <1>4
  <2>2. QED
    BY <1>2, <1>4, <1>6, <2>1
<1>8. e < got => s[e + 1] = NUL
  <2>1. e < got => e \in 0..(got - 1)
    BY <1>2, <1>4
  <2>2. QED
    BY <1>2, <1>4, <2>1
<1>9. TextRead(q, s, got)
  BY <1>1, <1>4, <1>6, <1>7, <1>8 DEF TextRead
<1>10. QED
  BY <1>5, <1>9 DEF q

LEMMA BlobIs ==
  ASSUME NEW s \in Seq(Nat), NEW got, NEW f, PartlyRead(f, s, got)
  PROVE  BytesRead([i \in 1..Len0(f) |-> f[i - 1]], s, got)
<1>1. PICK n \in Nat : n = Len(s)
  OBVIOUS
<1>2. /\ got \in 0..n /\ DOMAIN f = 0..n
      /\ \A i \in 0..(got - 1) : f[i] = s[i + 1]
  BY <1>1 DEF PartlyRead
<1>3. Len0(f) = n
  BY <1>2, LengthOf
<1> DEFINE q == [i \in 1..n |-> f[i - 1]]
<1>4. Len(q) = n /\ \A i \in 1..n : q[i] = f[i - 1]
  <2> DEFINE T == {f[i] : i \in 0..n}
  <2>1. \A i \in 1..n : i - 1 \in 0..n
    OBVIOUS
  <2>2. q = [i \in 1..n |-> q[i]] /\ \A i \in 1..n : q[i] = f[i - 1] /\ q[i] \in T
    BY <2>1
  <2> HIDE DEF q, T
  <2>3. QED
    BY <2>2, ListedIs
<1> HIDE DEF q
<1>5. ASSUME NEW i \in 1..got PROVE q[i] = s[i]
  <2>1. i \in 1..n /\ i - 1 \in 0..(got - 1) /\ (i - 1) + 1 = i
    BY <1>2
  <2>2. QED
    BY <1>2, <1>4, <2>1
<1>6. BytesRead(q, s, got)
  BY <1>1, <1>4, <1>5 DEF BytesRead
<1>7. QED
  BY <1>3, <1>6 DEF q

LEMMA ReadKeeps ==
  ASSUME PrimInv, Asked, ReadInv, ~Idling, ~Over, HostNext, prim' = prim, prim.op \in Reading
  PROVE  ReadInv'
<1> DEFINE s == prim.arg.s
<1>1. s \in Seq(Nat) /\ Len(s) \in Nat /\ prim'.op \in Reading /\ prim'.op = prim.op /\ s' = s
  BY DEF Asked
<1>2. PICK y : Comes(Program(prim.op), Doing, y)
  BY GoesOn
<1>3. Doing \in {"open", "read", "close", "register", "string", "blob", "unregister", "free", "return"}
  BY <1>2, ReadingComes DEF Making
<1>4. /\ Proceed /\ Doing = "open" => Doing' = "read"
      /\ Proceed /\ Doing = "read" => Doing' = "close"
      /\ Proceed /\ Doing = "close" => Doing' = "register"
      /\ Proceed /\ Doing = "register" => Doing' = Making(prim.op)
      /\ Proceed /\ Doing = Making(prim.op) => Doing' = "unregister"
      /\ Proceed /\ Doing = "unregister" => Doing' = "free"
      /\ Proceed /\ Doing = "free" => Doing' = "return"
  <2>1. Proceed => Comes(Program(prim.op), Doing, Doing')
    BY GoesOn DEF Doing
  <2>2. QED
    BY <2>1, ReadingComes
<1>5. ASSUME left' = <<"raised">> PROVE ReadInv'
  BY <1>5, DoneIsNext DEF ReadInv
<1>6. CASE OpenOther
  <2>1. Doing = "open" /\ (Proceed \/ left' = <<"raised">>)
    BY <1>3, <1>6 DEF OpenOther, Takes, At, Doing, GivesUp
  <2>2. CASE Proceed
    BY <1>4, <2>1, <2>2 DEF ReadInv
  <2>3. QED
    BY <1>5, <2>1, <2>2
<1>7. CASE ReadBody
  <2>1. Doing = "read" /\ (Proceed \/ left' = <<"raised">>) /\ at' = 0
    BY <1>7 DEF ReadBody, Takes, At, Doing, GivesUp
  <2>2. PICK got \in 0..Len(s), stale \in [0..Len(s) -> Stale] :
          /\ buf' = [i \in 0..Len(s) |-> IF i = Len(s) THEN NUL
                                        ELSE IF i < got THEN s[i + 1] ELSE stale[i]]
          /\ end' = got
    BY <1>7 DEF ReadBody
  <2>3. PartlyRead(buf', s, end')
    <3>1. Len(s) \in 0..Len(s)
      BY <1>1
    <3>2. ASSUME NEW i \in 0..(got - 1) PROVE i \in 0..Len(s) /\ i # Len(s) /\ i < got
      BY <1>1
    <3>3. QED
      BY <2>2, <3>1, <3>2 DEF PartlyRead
  <2>4. CASE Proceed
    <3>1. Doing' = "close"
      BY <1>4, <2>1, <2>4
    <3>2. QED
      BY <1>1, <2>1, <2>3, <3>1 DEF ReadInv
  <2>5. QED
    BY <1>5, <2>1, <2>4
<1>8. CASE FreeBuffers \/ CloseFile \/ CloseDir \/ PendingPush \/ PendingPop
  <2>1. Proceed /\ buf' = buf /\ at' = at /\ end' = end /\ out' = out
        /\ Doing \in {"free", "close", "closedir", "register", "unregister"}
    BY <1>8 DEF FreeBuffers, CloseFile, CloseDir, PendingPush, PendingPop, Gives, At, Doing
  <2>2. Doing # "closedir"
    BY <1>3
  <2>3. CASE Doing \in {"close", "register"}
    <3>1. Doing' \in {"register", "string", "blob"} /\ at = 0 /\ PartlyRead(buf, s, end)
      BY <1>4, <2>1, <2>3 DEF ReadInv, Making
    <3>2. QED
      BY <1>1, <2>1, <3>1 DEF ReadInv
  <2>4. CASE Doing \in {"unregister", "free"}
    <3>1. Doing' \in {"free", "return"} /\ FileRead'
      BY <1>1, <1>4, <2>1, <2>4 DEF ReadInv, FileRead
    <3>2. QED
      BY <3>1 DEF ReadInv
  <2>5. QED
    BY <2>1, <2>2, <2>3, <2>4
<1>9. CASE MakeString
  <2>1. Doing = "string" /\ (Proceed \/ left' = <<"raised">>) /\ out' = CString(buf, at) /\ end' = end
    BY <1>9 DEF MakeString, Makes, At, Doing, Raises
  <2>2. prim.op = "read-file" /\ Making(prim.op) = "string"
    BY <1>2, <2>1, ReadingComes DEF Making, Reading
  <2>3. CASE Proceed
    <3>1. Doing' = "unregister"
      BY <1>4, <2>1, <2>2, <2>3
    <3>2. TextRead(out', s, end')
      BY <1>1, <2>1, TextIs DEF ReadInv
    <3>3. QED
      BY <1>1, <2>2, <3>1, <3>2 DEF ReadInv, FileRead
  <2>4. QED
    BY <1>5, <2>1, <2>3
<1>10. CASE MakeBlob
  <2>1. /\ Doing = "blob" /\ (Proceed \/ left' = <<"raised">>) /\ end' = end
        /\ out' = [i \in 1..Len0(buf) |-> buf[i - 1]]
    BY <1>10 DEF MakeBlob, Makes, At, Doing, Raises
  <2>2. prim.op = "read-blob" /\ Making(prim.op) = "blob"
    BY <1>2, <2>1, ReadingComes DEF Making, Reading
  <2>3. CASE Proceed
    <3>1. Doing' = "unregister"
      BY <1>4, <2>1, <2>2, <2>3
    <3>2. BytesRead(out', s, end')
      BY <1>1, <2>1, BlobIs DEF ReadInv
    <3>3. QED
      BY <1>1, <2>2, <3>1, <3>2 DEF ReadInv, FileRead
  <2>4. QED
    BY <1>5, <2>1, <2>3
<1>11. CASE Return
  <2>1. Doing = "return" /\ Doing' = "returned" /\ out' = out /\ end' = end
    BY <1>11, DoneIsNext DEF Return, At, Doing
  <2>2. FileRead'
    BY <1>1, <2>1 DEF ReadInv, FileRead
  <2>3. QED
    BY <2>1, <2>2 DEF ReadInv
<1>12. ~(CallString \/ CallFile \/ CallNumber \/ Evaluates)
  BY DEF CallString, CallFile, CallNumber, Starts, Evaluates
<1>13. ~(CopyString \/ MakeNumber \/ PickByte \/ Clip \/ SplitScan \/ SplitLast \/ ReadDir
          \/ CheckWritten \/ Digits \/ Sign)
  BY <1>3 DEF CopyString, Takes, MakeNumber, Makes, PickByte, Clip, SplitScan, SplitLast, ReadDir,
              CheckWritten, Digits, Sign, At, Doing
<1>14. QED
  BY <1>6, <1>7, <1>8, <1>9, <1>10, <1>11, <1>12, <1>13 DEF HostNext

LEMMA TogetherIs ==
  ASSUME NEW T, NEW p \in Seq(T), NEW q \in Seq(T), NEW m \in Nat, NEW n \in Nat, Len(p) = m, Len(q) = n
  PROVE  /\ Len(p \o q) = m + n
         /\ \A k \in 1..n : (p \o q)[m + k] = q[k]
<1>1. Len(p \o q) = m + n
  OBVIOUS
<1>2. \A k \in 1..n : (p \o q)[m + k] = q[k]
  OBVIOUS
<1>3. QED
  BY <1>1, <1>2

(* What p \o q has behind p.                                              *)
Continued(p, q, m, n) == \A k \in 1..n : (p \o q)[m + k] = q[k]

LEMMA TogetherAt ==
  ASSUME NEW T, NEW p \in Seq(T), NEW q \in Seq(T), NEW m \in Nat, NEW n \in Nat,
         Len(p) = m, Len(q) = n
  PROVE  Continued(p, q, m, n)
  BY TogetherIs DEF Continued

(* A segment in front of those that are made.                              *)
LEMMA CutInTwo ==
  ASSUME NEW s \in Seq(Nat), NEW lo \in Nat, NEW e \in Nat, lo <= e, e < Len(s)
  PROVE  SubSeq(s, lo + 1, e) \o (<<s[e + 1]>> \o SubSeq(s, e + 2, Len(s))) = SubSeq(s, lo + 1, Len(s))
<1>1. PICK n \in Nat : n = Len(s)
  OBVIOUS
<1>2. PICK p : p = SubSeq(s, lo + 1, e)
  OBVIOUS
<1>3. PICK q : q = SubSeq(s, e + 2, n)
  OBVIOUS
<1>4. PICK all : all = SubSeq(s, lo + 1, n)
  OBVIOUS
<1>5. p \in Seq(Nat) /\ Len(p) = e - lo /\ \A i \in 1..(e - lo) : p[i] = s[lo + i]
  <2>1. lo + 1 \in Nat \ {0} /\ e <= Len(s) /\ lo + 1 <= e + 1
    BY <1>1
  <2>2. /\ p \in Seq(Nat) /\ Len(p) = e - (lo + 1) + 1
        /\ \A i \in 1..(e - (lo + 1) + 1) : p[i] = s[(lo + 1) + i - 1]
    BY <1>2, <2>1, SliceIs
  <2>3. e - (lo + 1) + 1 = e - lo /\ \A i \in 1..(e - lo) : (lo + 1) + i - 1 = lo + i
    OBVIOUS
  <2>4. QED
    BY <2>2, <2>3
<1>6. q \in Seq(Nat) /\ Len(q) = n - e - 1 /\ \A i \in 1..(n - e - 1) : q[i] = s[e + 1 + i]
  <2>1. e + 2 \in Nat \ {0} /\ n <= Len(s) /\ e + 2 <= n + 1
    BY <1>1
  <2>2. /\ q \in Seq(Nat) /\ Len(q) = n - (e + 2) + 1
        /\ \A i \in 1..(n - (e + 2) + 1) : q[i] = s[(e + 2) + i - 1]
    BY <1>3, <2>1, SliceIs
  <2>3. n - (e + 2) + 1 = n - e - 1 /\ \A i \in 1..(n - e - 1) : (e + 2) + i - 1 = e + 1 + i
    OBVIOUS
  <2>4. QED
    BY <2>2, <2>3
<1>7. all \in Seq(Nat) /\ Len(all) = n - lo /\ \A i \in 1..(n - lo) : all[i] = s[lo + i]
  <2>1. lo + 1 \in Nat \ {0} /\ n <= Len(s) /\ lo + 1 <= n + 1
    BY <1>1
  <2>2. /\ all \in Seq(Nat) /\ Len(all) = n - (lo + 1) + 1
        /\ \A i \in 1..(n - (lo + 1) + 1) : all[i] = s[(lo + 1) + i - 1]
    BY <1>4, <2>1, SliceIs
  <2>3. n - (lo + 1) + 1 = n - lo /\ \A i \in 1..(n - lo) : (lo + 1) + i - 1 = lo + i
    OBVIOUS
  <2>4. QED
    BY <2>2, <2>3
<1>8. s[e + 1] \in Nat
  BY <1>1
<1> DEFINE m == n - e - 1  r == <<s[e + 1]>> \o q
<1>9. /\ r \in Seq(Nat) /\ Len(r) = m + 1 /\ r[1] = s[e + 1]
      /\ \A k \in 1..m : r[k + 1] = q[k]
  <2>1. m \in Nat /\ Len(q) = m
    BY <1>1, <1>6
  <2> HIDE DEF m
  <2>2. QED
    BY <1>6, <1>8, <2>1, OneMore
<1> HIDE DEF r
<1>10. /\ p \o r \in Seq(Nat) /\ Len(p \o r) = n - lo
  <2>1. p \o r \in Seq(Nat)
    BY <1>5, <1>9
  <2>2. (e - lo) + (m + 1) = n - lo /\ e - lo \in Nat /\ m + 1 \in Nat
    BY <1>1
  <2>3. Len(p \o r) = (e - lo) + (m + 1)
    <3> HIDE DEF m
    <3> QED
      BY <1>5, <1>9, <2>2, TogetherIs
  <2>4. QED
    BY <2>1, <2>2, <2>3
<1>11. ASSUME NEW i \in 1..(n - lo) PROVE (p \o r)[i] = all[i]
  <2>1. all[i] = s[lo + i]
    BY <1>7
  <2>2. CASE i <= e - lo
    <3>1. i \in 1..(e - lo) /\ i \in 1..Len(p)
      BY <1>5, <2>2
    <3>2. (p \o r)[i] = p[i]
      BY <1>5, <1>9, <3>1
    <3>3. QED
      BY <1>5, <2>1, <3>1, <3>2
  <2>3. CASE i > e - lo
    <3> DEFINE k == i - (e - lo)
    <3>1. k \in 1..(m + 1) /\ i = Len(p) + k
      BY <1>1, <1>5, <2>3
    <3>2. (p \o r)[i] = r[k]
      <4>1. e - lo \in Nat /\ m + 1 \in Nat /\ (e - lo) + k = i
        BY <1>1
      <4>2. (p \o r)[(e - lo) + k] = r[k]
        <5> DEFINE d == e - lo  g == m + 1
        <5>1. /\ d \in Nat /\ g \in Nat /\ Len(p) = d /\ Len(r) = g
              /\ p \in Seq(Nat) /\ r \in Seq(Nat)
          BY <1>5, <1>9, <4>1
        <5>2. k \in 1..g
          BY <3>1
        <5>3. QED
          <6> HIDE DEF k, d, g
          <6>1. Continued(p, r, d, g)
            BY <5>1, TogetherAt
          <6>3. (p \o r)[d + k] = r[k]
            BY <5>2, <6>1 DEF Continued
          <6>2. QED
            BY <6>3 DEF d
      <4>3. QED
        BY <4>1, <4>2
    <3>3. CASE k = 1
      <4>1. lo + i = e + 1
        BY <3>3
      <4>2. QED
        BY <1>9, <2>1, <3>2, <3>3, <4>1
    <3>4. CASE k # 1
      <4>1. k - 1 \in 1..m /\ (k - 1) + 1 = k
        BY <1>1, <3>1, <3>4
      <4>2. r[k] = q[k - 1]
        BY <1>9, <4>1
      <4>3. q[k - 1] = s[e + 1 + (k - 1)] /\ e + 1 + (k - 1) = lo + i
        BY <1>6, <4>1
      <4>4. QED
        BY <2>1, <3>2, <4>2, <4>3
    <3>5. QED
      BY <3>3, <3>4
  <2>4. i <= e - lo \/ i > e - lo
    OBVIOUS
  <2>5. QED
    BY <2>2, <2>3, <2>4
<1>12. p \o r = all
  <2>1. Len(all) = Len(p \o r) /\ \A i \in 1..Len(all) : (p \o r)[i] = all[i]
    BY <1>7, <1>10, <1>11
  <2>2. QED
    BY <1>7, <1>10, <2>1, SeqEqual
<1>13. QED
  BY <1>1, <1>2, <1>3, <1>4, <1>12 DEF r

Begun(s, sep, lo, more) ==
  /\ more \in Seq(Seq(Nat)) /\ more # <<>> /\ NoSeparator(more, sep)
  /\ Joined(more, sep) = SubSeq(s, lo + 1, Len(s))

LEMMA SegmentInFront ==
  ASSUME NEW s \in ByteStrings, NEW sep \in Nat, NEW lo, NEW e, NEW segs, Scanned(s, sep, lo, e, segs)
  PROVE  Begun(s, sep, lo, <<SubSeq(s, lo + 1, e)>> \o segs)
<1>1. s \in Seq(Nat) /\ Len(s) \in Nat
  BY BytesOf
<1>2. /\ lo \in Nat /\ e \in Nat /\ lo <= e /\ e <= Len(s)
      /\ \A j \in (lo + 1)..e : s[j] # sep
      /\ segs \in Seq(Seq(Nat)) /\ NoSeparator(segs, sep)
  BY DEF Scanned
<1> DEFINE x == SubSeq(s, lo + 1, e)  more == <<x>> \o segs
<1>3. x \in Seq(Nat) /\ \A j \in 1..Len(x) : x[j] # sep
  <2>1. lo + 1 \in Nat \ {0} /\ e <= Len(s) /\ lo + 1 <= e + 1
    BY <1>1, <1>2
  <2>2. PICK p : p = SubSeq(s, lo + 1, e)
    OBVIOUS
  <2>3. /\ p \in Seq(Nat) /\ Len(p) = e - (lo + 1) + 1
        /\ \A i \in 1..(e - (lo + 1) + 1) : p[i] = s[(lo + 1) + i - 1]
    BY <1>1, <1>2, <2>1, <2>2, SliceIs
  <2>4. ASSUME NEW j \in 1..Len(p) PROVE p[j] # sep
    <3>1. p[j] = s[(lo + 1) + j - 1] /\ (lo + 1) + j - 1 \in (lo + 1)..e
      BY <1>2, <2>3
    <3>2. QED
      BY <1>2, <3>1
  <2>5. QED
    BY <2>2, <2>3, <2>4
<1> HIDE DEF x
<1>4. PICK m \in Nat : m = Len(segs)
  BY <1>2
<1>5. /\ more \in Seq(Seq(Nat)) /\ Len(more) = m + 1 /\ more[1] = x
      /\ \A k \in 1..m : more[k + 1] = segs[k]
  BY <1>2, <1>3, <1>4, OneMore
<1> HIDE DEF more
<1>6. more # <<>>
  BY <1>5
<1>7. NoSeparator(more, sep)
  <2>1. ASSUME NEW i \in 1..Len(more), NEW j \in 1..Len(more[i]) PROVE more[i][j] # sep
    <3>1. CASE i = 1
      BY <1>3, <1>5, <3>1
    <3>2. CASE i # 1
      <4>1. i - 1 \in 1..m /\ (i - 1) + 1 = i
        BY <1>5, <3>2
      <4>2. more[i] = segs[i - 1]
        BY <1>5, <4>1
      <4>3. QED
        BY <1>2, <1>4, <4>1, <4>2 DEF NoSeparator
    <3>3. QED
      BY <3>1, <3>2
  <2>2. QED
    BY <2>1 DEF NoSeparator
<1>8. CASE segs = <<>>
  <2>1. e = Len(s)
    BY <1>8 DEF Scanned
  <2>2. more = <<x>>
    BY <1>3, <1>8 DEF more
  <2>3. Joined(<<x>>, sep) = x
    BY <1>3, JoinedOne
  <2>4. Joined(more, sep) = SubSeq(s, lo + 1, Len(s))
    BY <2>1, <2>2, <2>3 DEF x
  <2>5. QED
    BY <1>5, <1>6, <1>7, <2>4 DEF more, x, Begun
<1>9. CASE segs # <<>>
  <2>1. e < Len(s) /\ s[e + 1] = sep /\ Joined(segs, sep) = SubSeq(s, e + 2, Len(s))
    BY <1>9 DEF Scanned
  <2>2. Joined(more, sep) = x \o (<<sep>> \o Joined(segs, sep))
    BY <1>2, <1>3, <1>9, JoinedMore DEF more
  <2>3. x \o (<<s[e + 1]>> \o SubSeq(s, e + 2, Len(s))) = SubSeq(s, lo + 1, Len(s))
    BY <1>1, <1>2, <2>1, CutInTwo DEF x
  <2>4. Joined(more, sep) = SubSeq(s, lo + 1, Len(s))
    BY <2>1, <2>2, <2>3
  <2>5. QED
    BY <1>5, <1>6, <1>7, <2>4 DEF more, x, Begun
<1>10. QED
  BY <1>8, <1>9

LEMMA SplitKeeps ==
  ASSUME PrimInv, Asked, SplitInv, ~Idling, ~Over, HostNext, prim' = prim, prim.op = "string-split"
  PROVE  SplitInv'
<1> DEFINE s == prim.arg.s  sep == prim.arg.sep
<1>1. s \in ByteStrings /\ sep \in Nat /\ Len(s) \in Nat /\ s' = s /\ sep' = sep
      /\ prim'.op = "string-split" /\ s = prim.arg.s /\ sep = prim.arg.sep
  BY BytesOf DEF Asked
<1>2. PICK y : Comes(Program("string-split"), Doing, y)
  BY GoesOn
<1>3. Doing \in {"copy", "register", "split", "unregister", "free", "return"}
  BY <1>2, SplitComes
<1>4. /\ Proceed /\ Doing = "copy" => Doing' = "register"
      /\ Proceed /\ Doing = "register" => Doing' = "split"
      /\ Proceed /\ Doing = "split" => Doing' = "unregister"
      /\ Proceed /\ Doing = "unregister" => Doing' = "free"
      /\ Proceed /\ Doing = "free" => Doing' = "return"
  <2>1. Proceed => Comes(Program("string-split"), Doing, Doing')
    BY GoesOn DEF Doing
  <2>2. QED
    BY <2>1, SplitComes
<1> HIDE DEF s, sep
<1>5. ASSUME left' = <<"raised">> PROVE SplitInv'
  BY <1>5, DoneIsNext DEF SplitInv
<1>6. CASE CopyString
  <2>1. /\ Doing = "copy" /\ (Proceed \/ left' = <<"raised">>) /\ buf' = CopyOf(s)
        /\ end' = Len0(buf') /\ at' = Len0(buf') /\ out' = out
    BY <1>1, <1>6 DEF CopyString, Takes, At, Doing, GivesUp
  <2>2. CASE Proceed
    <3>1. out = <<>> /\ Doing' = "register" /\ end' = Len(s) /\ at' = Len(s)
      BY <1>1, <1>4, <2>1, <2>2, CopyIs DEF SplitInv
    <3>2. \A j \in (Len(s) + 1)..Len(s) : FALSE
      BY <1>1
    <3>3. <<>> \in Seq(Seq(Nat)) /\ NoSeparator(<<>>, sep)
      BY DEF NoSeparator
    <3>4. Scanned(s, sep, Len(s), Len(s), <<>>)
      BY <1>1, <3>2, <3>3 DEF Scanned
    <3>5. QED
      BY <1>1, <2>1, <3>1, <3>4 DEF SplitInv
  <2>3. QED
    BY <1>5, <2>1, <2>2
<1>7. CASE FreeBuffers \/ CloseFile \/ CloseDir \/ PendingPush \/ PendingPop
  <2>1. Proceed /\ buf' = buf /\ at' = at /\ end' = end /\ out' = out
        /\ Doing \in {"free", "close", "closedir", "register", "unregister"}
    BY <1>7 DEF FreeBuffers, CloseFile, CloseDir, PendingPush, PendingPop, Gives, At, Doing
  <2>2. CASE Doing = "register"
    <3>1. Doing' = "split" /\ buf' = CopyOf(s) /\ Scanned(s, sep, at', end', out')
      BY <1>1, <1>4, <2>1, <2>2 DEF SplitInv
    <3>2. QED
      BY <1>1, <3>1 DEF SplitInv
  <2>3. CASE Doing \in {"unregister", "free"}
    <3>1. Doing' \in {"free", "return"} /\ Segmented(s, sep, out')
      BY <1>1, <1>4, <2>1, <2>3 DEF SplitInv
    <3>2. QED
      BY <1>1, <3>1 DEF SplitInv
  <2>4. QED
    BY <1>3, <2>1, <2>2, <2>3
<1>8. ASSUME Doing = "split"
      PROVE  /\ buf = CopyOf(s) /\ Scanned(s, sep, at, end, out)
             /\ CString([buf EXCEPT ![end] = NUL], at) = SubSeq(s, at + 1, end)
  <2>1. buf = CopyOf(s) /\ Scanned(s, sep, at, end, out)
    BY <1>1, <1>8 DEF SplitInv
  <2>2. CString(CutAfter(s, end), at) = SubSeq(s, at + 1, end)
    BY <1>1, <2>1, CutString DEF Scanned
  <2>3. QED
    BY <2>1, <2>2 DEF CutAfter
<1>9. CASE SplitScan
  <2>1. Doing = "split" /\ at > 0
    BY <1>9 DEF SplitScan, At, Doing
  <2>2. at \in Nat /\ end \in Nat /\ at <= end /\ end <= Len(s)
    BY <1>8, <2>1 DEF Scanned
  <2>3. at - 1 \in 0..(Len(s) - 1) /\ (at - 1) + 1 = at
    BY <1>1, <2>1, <2>2
  <2>4. buf[at - 1] = s[at]
    <3>1. CopyOf(s)[at - 1] = s[(at - 1) + 1]
      BY <1>1, <2>3, CopyIs
    <3>2. QED
      BY <1>8, <2>1, <2>3, <3>1
  <2>5. buf' = buf
    BY <1>9 DEF SplitScan
  <2>6. CASE buf[at - 1] # sep /\ at' = at - 1 /\ UNCHANGED <<left, end, out>>
    <3>1. ASSUME NEW j \in ((at - 1) + 1)..end PROVE s[j] # sep
      <4>1. j = at \/ j \in (at + 1)..end
        BY <2>2
      <4>2. QED
        BY <1>8, <2>1, <2>4, <2>6, <4>1 DEF Scanned
    <3>2. at - 1 \in Nat /\ at - 1 <= end
      BY <2>2, <2>3
    <3>3. Scanned(s, sep, at - 1, end, out)
      BY <1>8, <2>1, <3>1, <3>2 DEF Scanned
    <3>4. Doing' = "split"
      BY <2>1, <2>6 DEF Doing
    <3>5. QED
      BY <1>1, <1>8, <2>1, <2>5, <2>6, <3>3, <3>4 DEF SplitInv
  <2>7. CASE buf[at - 1] = sep /\ out' = Segment(at - 1) /\ end' = at - 1 /\ at' = at - 1 /\ left' = left
    <3> DEFINE more == <<SubSeq(s, at + 1, end)>> \o out
    <3>1. out' = more
      BY <1>8, <2>1, <2>3, <2>7 DEF Segment
    <3>9. Begun(s, sep, at, more)
      BY <1>1, <1>8, <2>1, SegmentInFront
    <3> HIDE DEF more
    <3>2. /\ more \in Seq(Seq(Nat)) /\ more # <<>> /\ NoSeparator(more, sep)
          /\ Joined(more, sep) = SubSeq(s, at + 1, Len(s))
      BY <3>9 DEF Begun
    <3>3. at - 1 \in Nat /\ at - 1 <= at - 1 /\ at - 1 < Len(s) /\ (at - 1) + 2 = at + 1
          /\ at - 1 <= Len(s) /\ \A j \in ((at - 1) + 1)..(at - 1) : FALSE
      BY <1>1, <2>2, <2>3
    <3>4. s[(at - 1) + 1] = sep
      BY <2>3, <2>4, <2>7
    <3>5. Scanned(s, sep, at - 1, at - 1, more)
      BY <3>2, <3>3, <3>4 DEF Scanned
    <3>6. Doing' = "split"
      BY <2>1, <2>7 DEF Doing
    <3>7. QED
      BY <1>1, <1>8, <2>1, <2>5, <2>7, <3>1, <3>5, <3>6 DEF SplitInv
  <2>8. CASE left' = <<"raised">>
    BY <1>5, <2>8
  <2>9. QED
    BY <1>1, <1>9, <2>6, <2>7, <2>8 DEF SplitScan, Raises
<1>10. CASE SplitLast
  <2>1. Doing = "split" /\ at = 0 /\ ((Proceed /\ out' = Segment(-1)) \/ left' = <<"raised">>)
    BY <1>10 DEF SplitLast, At, Doing, Raises
  <2>2. CASE Proceed /\ out' = Segment(-1)
    <3> DEFINE more == <<SubSeq(s, at + 1, end)>> \o out
    <3>1. -1 + 1 = 0
      OBVIOUS
    <3>2. out' = more
      BY <1>8, <2>1, <2>2, <3>1 DEF Segment
    <3>9. Begun(s, sep, at, more)
      BY <1>1, <1>8, <2>1, SegmentInFront
    <3> HIDE DEF more
    <3>3. /\ more # <<>> /\ NoSeparator(more, sep)
          /\ Joined(more, sep) = SubSeq(s, at + 1, Len(s))
      BY <3>9 DEF Begun
    <3>4. SubSeq(s, at + 1, Len(s)) = s
      <4>1. s \in Seq(Nat) /\ at + 1 = 1
        BY <1>1, <2>1, BytesOf
      <4>2. QED
        BY <4>1
    <3>5. Segmented(s, sep, out')
      BY <3>2, <3>3, <3>4 DEF Segmented
    <3>6. Doing' = "unregister"
      BY <1>4, <2>1, <2>2
    <3>7. QED
      BY <1>1, <3>5, <3>6 DEF SplitInv
  <2>3. QED
    BY <1>5, <2>1, <2>2
<1>11. CASE Return
  <2>1. Doing = "return" /\ Doing' = "returned" /\ out' = out
    BY <1>11, DoneIsNext DEF Return, At, Doing
  <2>2. QED
    BY <1>1, <2>1 DEF SplitInv
<1>12. ~(CallString \/ CallFile \/ CallNumber \/ Evaluates)
  BY DEF CallString, CallFile, CallNumber, Starts, Evaluates
<1>13. ~(ReadBody \/ OpenOther \/ MakeNumber \/ MakeString \/ MakeBlob \/ PickByte \/ Clip
          \/ ReadDir \/ CheckWritten \/ Digits \/ Sign)
  BY <1>3 DEF ReadBody, OpenOther, Takes, MakeNumber, MakeString, MakeBlob, Makes, PickByte, Clip,
              ReadDir, CheckWritten, Digits, Sign, At, Doing
<1>14. QED
  BY <1>6, <1>7, <1>9, <1>10, <1>11, <1>12, <1>13 DEF HostNext

LEMMA DigitInFront ==
  ASSUME NEW n \in Int, NEW radix \in Nat \ {0, 1}, NEW rest \in Nat, NEW digits \in Seq(Nat),
         ReadFrom(rest, digits, radix) = Absolute(n), rest # 0 \/ n = 0
  PROVE  Spelled(n, radix, rest \div radix, <<rest % radix>> \o digits)
<1>1. radix \in Nat \ {0} /\ radix \in Nat
  OBVIOUS
<1> DEFINE q == rest \div radix  d == rest % radix  more == <<d>> \o digits
<1>2. q \in Nat /\ d \in Nat /\ Shift(radix, q, d) = rest /\ (rest # 0 /\ q = 0 => d # 0)
  <2>1. d \in 0..(radix - 1) => d \in Nat
    BY <1>1
  <2>2. QED
    BY <1>1, <2>1, Divided
<1> HIDE DEF q, d
<1>3. ReadFrom(q, more, radix) = ReadFrom(rest, digits, radix)
  BY <1>1, <1>2, ReadingOn
<1>4. more \in Seq(Nat) /\ more # <<>> /\ Head(more) = d
  BY <1>2
<1> HIDE DEF more
<1>5. Spelled(n, radix, q, more)
  BY <1>2, <1>3, <1>4 DEF Spelled
<1>6. QED
  BY <1>5 DEF q, d, more

LEMMA MagnitudeIs ==
  ASSUME NEW n \in -IntMax..(IntMax - 1)
  PROVE  n \in Int /\ Magnitude(n) \in Nat /\ Magnitude(n) = Absolute(n) /\ (Magnitude(n) = 0 => n = 0)
<1>1. IntMax \in Nat
  BY HostCallsAssumption
<1>2. CASE n < 0
  <2>1. 0 - n \in 0..(2 * IntMax - 1) /\ 2 * IntMax \in Nat \ {0} /\ 0 - n = -n /\ n # 0 /\ -n # 0
    BY <1>1, <1>2
  <2>2. \A m \in Nat \ {0} : \A i \in 0..(m - 1) : i % m = i
    OBVIOUS
  <2>3. (0 - n) % (2 * IntMax) = 0 - n
    BY <2>1, <2>2
  <2>4. QED
    BY <1>1, <1>2, <2>1, <2>3 DEF Magnitude, Absolute
<1>3. CASE ~(n < 0)
  BY <1>1, <1>3 DEF Magnitude, Absolute
<1>4. QED
  BY <1>2, <1>3

(* The sign in front of the digits.                                        *)
LEMMA SignInFront ==
  ASSUME NEW n \in Int, NEW radix \in Nat \ {0, 1}, NEW digits, Spelled(n, radix, 0, digits)
  PROVE  Numeral(IF n < 0 THEN <<Minus>> \o digits ELSE digits, n, radix)
<1>1. /\ digits \in Seq(Nat) /\ digits # <<>> /\ Value(digits, radix) = Absolute(n)
      /\ Head(digits) \in Nat /\ (n # 0 => Head(digits) # 0)
  <2>1. Value(digits, radix) = ReadFrom(0, digits, radix)
    BY DEF Value, ReadFrom
  <2>2. ReadFrom(0, digits, radix) = Absolute(n) /\ digits \in Seq(Nat) /\ digits # <<>>
        /\ (n # 0 => Head(digits) # 0)
    BY DEF Spelled
  <2>3. Head(digits) \in Nat
    BY <2>2
  <2>4. QED
    BY <2>1, <2>2, <2>3
<1>2. CASE n < 0
  <2> DEFINE more == <<Minus>> \o digits
  <2>1. digits \in Seq(Int) /\ Minus \in Int
    BY <1>1 DEF Minus
  <2>2. Head(more) = Minus /\ Tail(more) = digits
    <3>1. /\ more \in Seq(Int) /\ Len(more) = Len(digits) + 1 /\ more[1] = Minus
          /\ \A k \in 1..Len(digits) : more[k + 1] = digits[k]
      BY <2>1, OneMore
    <3> HIDE DEF more
    <3>2. Head(more) = Minus
      BY <3>1
    <3>3. /\ Tail(more) \in Seq(Int) /\ Len(Tail(more)) = Len(digits)
          /\ \A k \in 1..Len(digits) : Tail(more)[k] = digits[k]
      BY <2>1, <3>1
    <3>4. Tail(more) = digits
      BY <2>1, <3>3, SeqEqual
    <3>5. QED
      BY <3>2, <3>4
  <2> HIDE DEF more
  <2>3. n = -Absolute(n) /\ n # 0
    BY <1>2 DEF Absolute
  <2>4. Numeral(more, n, radix)
    BY <1>1, <1>2, <2>2, <2>3 DEF Numeral
  <2>5. QED
    BY <1>2, <2>4 DEF more
<1>3. CASE ~(n < 0)
  <2>1. Head(digits) # Minus
    BY <1>1 DEF Minus
  <2>2. QED
    BY <1>1, <1>3, <2>1 DEF Numeral, Absolute
<1>4. QED
  BY <1>2, <1>3

LEMMA NumberKeeps ==
  ASSUME PrimInv, Asked, NumberInv, ~Idling, ~Over, HostNext, prim' = prim,
         prim.op = "number->string"
  PROVE  NumberInv'
<1> DEFINE n == prim.arg.n  radix == prim.arg.radix
<1>1. n \in -IntMax..(IntMax - 1) /\ radix \in Nat \ {0, 1} /\ n' = n /\ radix' = radix
      /\ prim'.op = "number->string" /\ n = prim.arg.n /\ radix = prim.arg.radix
  BY DEF Asked
<1>2. PICK y : Comes(Program("number->string"), Doing, y)
  BY GoesOn
<1>3. Doing \in {"digits", "sign", "object", "return"}
  BY <1>2, NumberComes
<1>4. /\ Proceed /\ Doing = "digits" => Doing' = "sign"
      /\ Proceed /\ Doing = "sign" => Doing' = "object"
      /\ Proceed /\ Doing = "object" => Doing' = "return"
  <2>1. Proceed => Comes(Program("number->string"), Doing, Doing')
    BY GoesOn DEF Doing
  <2>2. QED
    BY <2>1, NumberComes
<1> HIDE DEF n, radix
<1>5. ASSUME left' = <<"raised">> PROVE NumberInv'
  BY <1>5, DoneIsNext DEF NumberInv
<1>6. CASE Digits
  <2>1. Doing = "digits" /\ (out = <<>> \/ Spelled(n, radix, end, out))
    BY <1>1, <1>6 DEF Digits, At, Doing, NumberInv
  <2>2. CASE /\ out = <<>> /\ end' = Magnitude(n) \div radix /\ out' = <<Magnitude(n) % radix>>
             /\ left' = left
    <3>1. n \in Int /\ Magnitude(n) \in Nat /\ Magnitude(n) = Absolute(n) /\ (Magnitude(n) = 0 => n = 0)
      BY <1>1, MagnitudeIs
    <3> DEFINE e == <<>>
    <3>2. e \in Seq(Nat) /\ e = <<>>
      OBVIOUS
    <3>3. ReadFrom(Magnitude(n), e, radix) = Magnitude(n)
      BY <1>1, <3>1, <3>2, ReadingNone
    <3>4. <<Magnitude(n) % radix>> = <<Magnitude(n) % radix>> \o e
      OBVIOUS
    <3> HIDE DEF e
    <3>5. Spelled(n, radix, Magnitude(n) \div radix, <<Magnitude(n) % radix>> \o e)
      BY <1>1, <3>1, <3>2, <3>3, DigitInFront
    <3>6. Doing' = "digits" /\ Spelled(n, radix, end', out')
      BY <2>1, <2>2, <3>4, <3>5 DEF Doing
    <3>7. QED
      BY <1>1, <3>6 DEF NumberInv
  <2>3. CASE /\ out # <<>> /\ end > 0 /\ end' = end \div radix /\ out' = <<end % radix>> \o out
             /\ left' = left
    <3>1. /\ end \in Nat /\ end # 0 /\ out \in Seq(Nat) /\ n \in Int
          /\ ReadFrom(end, out, radix) = Absolute(n)
      BY <1>1, <2>1, <2>3, MagnitudeIs DEF Spelled
    <3>2. Spelled(n, radix, end \div radix, <<end % radix>> \o out)
      BY <1>1, <3>1, DigitInFront
    <3>3. Doing' = "digits" /\ Spelled(n, radix, end', out')
      BY <2>1, <2>3, <3>2 DEF Doing
    <3>4. QED
      BY <1>1, <3>3 DEF NumberInv
  <2>4. CASE out # <<>> /\ end <= 0 /\ Proceed /\ UNCHANGED <<end, out>>
    <3>1. Spelled(n, radix, end, out) /\ end = 0
      BY <2>1, <2>4 DEF Spelled
    <3>2. Doing' = "sign" /\ Spelled(n, radix, 0, out')
      BY <1>4, <2>1, <2>4, <3>1
    <3>3. QED
      BY <1>1, <3>2 DEF NumberInv
  <2>5. QED
    BY <1>1, <1>6, <2>2, <2>3, <2>4 DEF Digits
<1>7. CASE MakeNumber
  <2>1. Doing = "object" /\ (Proceed \/ left' = <<"raised">>) /\ out' = out
    BY <1>7 DEF MakeNumber, Makes, At, Doing, Raises
  <2>2. CASE Proceed
    <3>1. Doing' = "return" /\ Numeral(out', n, radix)
      BY <1>1, <1>4, <2>1, <2>2 DEF NumberInv
    <3>2. QED
      BY <1>1, <3>1 DEF NumberInv
  <2>3. QED
    BY <1>5, <2>1, <2>2
<1>8. CASE Return
  <2>1. Doing = "return" /\ Doing' = "returned" /\ out' = out
    BY <1>8, DoneIsNext DEF Return, At, Doing
  <2>2. QED
    BY <1>1, <2>1 DEF NumberInv
<1>12. CASE Sign
  <2>1. /\ Doing = "sign" /\ Proceed /\ Spelled(n, radix, 0, out)
        /\ out' = IF n < 0 THEN <<Minus>> \o out ELSE out
    BY <1>1, <1>12 DEF Sign, At, Doing, NumberInv
  <2>2. Doing' = "object" /\ n \in Int
    BY <1>1, <1>4, <2>1, MagnitudeIs
  <2>3. Numeral(out', n, radix)
    BY <1>1, <2>1, <2>2, SignInFront
  <2>4. QED
    BY <1>1, <2>2, <2>3 DEF NumberInv
<1>9. ~(CallString \/ CallFile \/ CallNumber \/ Evaluates)
  BY DEF CallString, CallFile, CallNumber, Starts, Evaluates
<1>10. ~(CopyString \/ ReadBody \/ MakeBlob \/ OpenOther \/ FreeBuffers \/ CloseFile \/ CloseDir \/ PendingPush \/ PendingPop
          \/ MakeString \/ PickByte \/ Clip \/ SplitScan \/ SplitLast \/ ReadDir \/ CheckWritten)
  BY <1>3 DEF CopyString, ReadBody, MakeBlob, OpenOther, Takes, FreeBuffers, CloseFile, CloseDir,
              Gives, PendingPush, PendingPop, MakeString, Makes, PickByte, Clip, SplitScan, SplitLast, ReadDir,
              CheckWritten, At, Doing
<1>11. QED
  BY <1>6, <1>7, <1>8, <1>9, <1>10, <1>12 DEF HostNext

(* A call.                                                                 *)
LEMMA FirstInstructions ==
  /\ \A op \in {"substring", "string-append", "string-split"} : Head(Program(op)) = "copy"
  /\ \A op \in {"read-file", "read-blob"} : Head(Program(op)) = "open"
  /\ Head(Program("number->string")) = "digits"
  BY DEF Program

LEMMA CallAnswers ==
  ASSUME AnswersInv, CallString \/ CallFile \/ CallNumber
  PROVE  AnswersInv'
<1>1. Idling /\ out = <<>> /\ out' = <<>>
  BY DEF CallString, CallFile, CallNumber, Starts, AnswersInv
<1>2. left' = Program(prim'.op)
  BY DEF CallString, CallFile, CallNumber, Starts
<1>3. Asked'
  <2>1. CASE CallString
    <3>1. PICK s \in Strings :
            \/ \E i \in Indices : i >= 0 /\ Starts("string-ref", [s |-> s, i |-> i])
            \/ \E a, b \in Indices : Starts("substring", [s |-> s, a |-> a, b |-> b])
            \/ \E sep \in Seps : Starts("string-split", [s |-> s, sep |-> sep])
            \/ \E op \in {"string-append", "string-search"}, t \in Strings :
                 Starts(op, [s |-> s, t |-> t])
      BY <2>1 DEF CallString
    <3>2. s \in ByteStrings
      BY HostCallsAssumption DEF ByteStrings
    <3>3. CASE \E i \in Indices : i >= 0 /\ Starts("string-ref", [s |-> s, i |-> i])
      <4>1. prim'.op = "string-ref"
        BY <3>3 DEF Starts
      <4>2. QED
        BY <4>1 DEF Asked, Copying, Reading
    <3>4. CASE \E a, b \in Indices : Starts("substring", [s |-> s, a |-> a, b |-> b])
      <4>1. PICK a \in Indices, b \in Indices : Starts("substring", [s |-> s, a |-> a, b |-> b])
        BY <3>4
      <4>2. prim' = [op |-> "substring", arg |-> [s |-> s, a |-> a, b |-> b]]
        BY <4>1 DEF Starts
      <4>3. a \in Int /\ b \in Int
        BY HostCallsAssumption
      <4>4. QED
        BY <3>2, <4>2, <4>3 DEF Asked, Copying, Reading
    <3>5. CASE \E sep \in Seps : Starts("string-split", [s |-> s, sep |-> sep])
      <4>1. PICK sep \in Seps : Starts("string-split", [s |-> s, sep |-> sep])
        BY <3>5
      <4>2. prim' = [op |-> "string-split", arg |-> [s |-> s, sep |-> sep]]
        BY <4>1 DEF Starts
      <4>3. sep \in Nat
        BY HostCallsAssumption
      <4>4. QED
        BY <3>2, <4>2, <4>3 DEF Asked, Copying, Reading
    <3>6. CASE \E op \in {"string-append", "string-search"}, t \in Strings :
                 Starts(op, [s |-> s, t |-> t])
      <4>1. PICK op \in {"string-append", "string-search"}, t \in Strings :
              Starts(op, [s |-> s, t |-> t])
        BY <3>6
      <4>2. prim' = [op |-> op, arg |-> [s |-> s, t |-> t]]
        BY <4>1 DEF Starts
      <4>3. t \in ByteStrings
        BY HostCallsAssumption DEF ByteStrings
      <4>4. QED
        BY <3>2, <4>1, <4>2, <4>3 DEF Asked, Copying, Reading
    <3>7. QED
      BY <3>1, <3>3, <3>4, <3>5, <3>6
  <2>2. CASE CallFile
    BY <2>2, HostCallsAssumption DEF CallFile, Starts, Asked, Copying, Reading
  <2>3. CASE CallNumber
    BY <2>3, HostCallsAssumption DEF CallNumber, Starts, Asked, Copying, Reading
  <2>4. QED
    BY <2>1, <2>2, <2>3
<1>4. CopyInv' /\ ReadInv'
  <2>1. /\ prim'.op \in Copying => Doing' = "copy"
        /\ prim'.op \in Reading => Doing' = "open"
    BY <1>2, FirstInstructions DEF Doing, Copying, Reading
  <2>2. QED
    BY <2>1 DEF CopyInv, ReadInv
<1>5. SplitInv'
  <2>1. prim'.op = "string-split" => Doing' = "copy"
    BY <1>2, FirstInstructions DEF Doing
  <2>2. QED
    BY <1>1, <2>1 DEF SplitInv
<1>6. NumberInv'
  <2>1. prim'.op = "number->string" => Doing' = "digits"
    BY <1>2, FirstInstructions DEF Doing
  <2>2. QED
    BY <1>1, <2>1 DEF NumberInv
<1>7. QED
  BY <1>1, <1>3, <1>4, <1>5, <1>6 DEF AnswersInv

(* A primitive that runs is not idle when the instruction is over.         *)
LEMMA StaysBusy ==
  ASSUME PrimInv, ~Idling, ~Over, HostNext, prim' = prim
  PROVE  ~Idling'
<1>1. PICK k \in 1..Len(Program(prim.op)) : Paused(Program(prim.op), k) /\ prim.op \in Primitives
  BY DEF PrimInv, Over
<1> DEFINE p == Program(prim.op)
<1>2. p \in Seq(Instructions) /\ Len(p) \in Nat
  BY <1>1, ProgramIsOrdered
<1> HIDE DEF p
<1>3. left \in Seq(Instructions)
  BY <1>1 DEF Paused
<1>4. Tail(left) # <<"idle">>
  <2>1. SUFFICES ASSUME Tail(left) = <<"idle">> PROVE FALSE
    OBVIOUS
  <2>2. left # <<>>
    BY <1>1, <1>2 DEF Paused, p
  <2>3. Tail(left) \in Seq(Instructions)
    BY <1>3, <2>2
  <2>4. Len(<<"idle">>) = 1 /\ <<"idle">>[1] = "idle"
    OBVIOUS
  <2> DEFINE t == Tail(left)
  <2>8. t = <<"idle">>
    BY <2>1
  <2>5. t[1] = "idle" /\ 1 \in 1..Len(t)
    <3> HIDE DEF t
    <3> QED
      BY <2>8, <2>4
  <2>6. t[1] \in Instructions
    BY <2>3, <2>5
  <2>7. QED
    BY <2>5, <2>6 DEF Instructions
<1>5. left' \in {Tail(left), left, <<"raised">>, <<"returned">>}
  BY DEF HostNext, CopyString, ReadBody, OpenOther, Takes, FreeBuffers, CloseFile, CloseDir,
         Gives, PendingPush, PendingPop, MakeNumber, MakeString, MakeBlob, Makes, PickByte, Clip, SplitScan,
         SplitLast, ReadDir, CheckWritten, Digits, Sign, Return, Proceed, Raises, GivesUp,
         CallString, CallFile, CallNumber, Starts, Evaluates
<1>6. <<"raised">> # <<"idle">> /\ <<"returned">> # <<"idle">>
  OBVIOUS
<1>7. QED
  BY <1>4, <1>5, <1>6 DEF Idling

LEMMA AnswersAreInductive == PrimInv /\ PrimInv' /\ AnswersInv /\ [HostNext]_hostVars => AnswersInv'
<1> SUFFICES ASSUME PrimInv, PrimInv', AnswersInv, [HostNext]_hostVars PROVE AnswersInv'
  OBVIOUS
<1>1. CASE UNCHANGED hostVars
  <2>1. prim' = prim /\ left' = left /\ buf' = buf /\ at' = at /\ end' = end /\ out' = out
    BY <1>1 DEF hostVars
  <2>2. Doing' = Doing /\ (Idling' <=> Idling) /\ Copied' = Copied /\ Wanted' = Wanted /\ Asked'
    BY <2>1, SameRequest DEF Doing, Idling, AnswersInv
  <2>3. CopyInv' /\ ReadInv' /\ SplitInv' /\ NumberInv'
    BY <2>1, <2>2 DEF AnswersInv, CopyInv, ReadInv, FileRead, SplitInv, NumberInv
  <2>4. QED
    BY <2>1, <2>2, <2>3 DEF AnswersInv
<1>2. CASE CallString \/ CallFile \/ CallNumber
  BY <1>2, CallAnswers
<1>3. CASE Evaluates
  <2>1. prim'.op = "none" /\ out' = <<>>
    BY <1>3 DEF Evaluates
  <2>2. QED
    BY <2>1 DEF AnswersInv, Asked, CopyInv, ReadInv, SplitInv, NumberInv, Copying, Reading
<1>4. CASE HostNext /\ ~(CallString \/ CallFile \/ CallNumber \/ Evaluates)
  <2>1. ~Idling /\ ~Over
    <3>1. SUFFICES ASSUME Idling \/ Over PROVE FALSE
      OBVIOUS
    <3>2. \A x \in Instructions : ~At(x)
      BY <3>1, NotAtRest
    <3>3. QED
      BY <1>4, <3>2
         DEF HostNext, CopyString, ReadBody, OpenOther, Takes, FreeBuffers, CloseFile, CloseDir,
             Gives, PendingPush, PendingPop, MakeNumber, MakeString, MakeBlob, Makes, PickByte, Clip, SplitScan,
             SplitLast, ReadDir, CheckWritten, Digits, Sign, Return, Instructions
  <2>2. prim' = prim
    BY <1>4 DEF HostNext, CopyString, ReadBody, OpenOther, Takes, FreeBuffers, CloseFile, CloseDir,
             Gives, PendingPush, PendingPop, MakeNumber, MakeString, MakeBlob, Makes, PickByte, Clip, SplitScan,
             SplitLast, ReadDir, CheckWritten, Digits, Sign, Return
  <2>3. ~Idling'
    BY <1>4, <2>1, <2>2, StaysBusy
  <2>4. CopyInv'
    <3>1. CASE prim.op \in Copying
      BY <1>4, <2>1, <2>2, <3>1, CopyKeeps DEF AnswersInv
    <3>2. CASE prim.op \notin Copying
      BY <2>2, <3>2 DEF CopyInv
    <3>3. QED
      BY <3>1, <3>2
  <2>5. SplitInv'
    <3>1. CASE prim.op = "string-split"
      BY <1>4, <2>1, <2>2, <3>1, SplitKeeps DEF AnswersInv
    <3>2. CASE prim.op # "string-split"
      BY <2>2, <3>2 DEF SplitInv
    <3>3. QED
      BY <3>1, <3>2
  <2>6. NumberInv'
    <3>1. CASE prim.op = "number->string"
      BY <1>4, <2>1, <2>2, <3>1, NumberKeeps DEF AnswersInv
    <3>2. CASE prim.op # "number->string"
      BY <2>2, <3>2 DEF NumberInv
    <3>3. QED
      BY <3>1, <3>2
  <2>7. ReadInv'
    <3>1. CASE prim.op \in Reading
      BY <1>4, <2>1, <2>2, <3>1, ReadKeeps DEF AnswersInv
    <3>2. CASE prim.op \notin Reading
      BY <2>2, <3>2 DEF ReadInv
    <3>3. QED
      BY <3>1, <3>2
  <2>8. QED
    BY <2>2, <2>3, <2>4, <2>5, <2>6, <2>7, SameRequest DEF AnswersInv
<1>5. QED
  BY <1>1, <1>2, <1>3, <1>4

(* A string or a number that a primitive answers with is the right one,    *)
(* for strings of any length, any separator, any bounds, any radix and     *)
(* every int32_t of any width, the least one included: segments joined by  *)
(* the separator are the string, the parts are cut where they should be,   *)
(* all that was read of a file is in the text or the blob, and a numeral   *)
(* is read back as the number.                                             *)
THEOREM PrimitivesAnswer == HostSpec => []AnswersAreRight
<1>1. HostInit => PrimInv /\ AnswersInv
  <2>1. HostInit => PrimInv
    BY DEF HostInit, PrimInv, Idling
  <2>2. HostInit => AnswersInv
    BY DEF HostInit, AnswersInv, Asked, CopyInv, ReadInv, SplitInv, NumberInv, Copying, Reading
  <2>3. QED
    BY <2>1, <2>2
<1>2. AnswersInv => AnswersAreRight
  <2> SUFFICES ASSUME AnswersInv, left = <<"returned">> PROVE AnswersAreRight
    BY DEF AnswersAreRight
  <2>1. Doing = "returned" /\ Asked
    BY DoneIs DEF AnswersInv
  <2>2. CASE prim.op = "string-split"
    <3>1. Segmented(prim.arg.s, prim.arg.sep, out)
      BY <2>1, <2>2 DEF AnswersInv, SplitInv
    <3>2. QED
      BY <2>2, <3>1 DEF AnswersAreRight, Segmented, NoSeparator, Joined, Between
  <2>3. CASE prim.op \in Copying
    <3>1. out = Wanted
      BY <2>1, <2>3 DEF AnswersInv, CopyInv
    <3>2. CASE prim.op = "substring"
      BY <3>1, <3>2 DEF AnswersAreRight, Wanted, Copied, Selected
    <3>3. CASE prim.op = "string-append"
      BY <3>1, <3>3 DEF AnswersAreRight, Wanted, Copied
    <3>4. QED
      BY <2>3, <3>2, <3>3 DEF Copying
  <2>4. CASE prim.op = "number->string"
    <3>1. Numeral(out, prim.arg.n, prim.arg.radix)
      BY <2>1, <2>4 DEF AnswersInv, NumberInv
    <3>2. QED
      BY <2>4, <3>1 DEF AnswersAreRight
  <2>5. CASE prim.op \in Reading
    <3>1. FileRead
      BY <2>1, <2>5 DEF AnswersInv, ReadInv
    <3>2. QED
      BY <2>5, <3>1 DEF AnswersAreRight, FileRead, Reading
  <2>6. CASE prim.op \notin Copying \cup Reading \cup {"string-split", "number->string"}
    BY <2>6 DEF AnswersAreRight, Copying, Reading
  <2>7. QED
    BY <2>2, <2>3, <2>4, <2>5, <2>6
<1>3. PrimInv /\ AnswersInv /\ [HostNext]_hostVars => (PrimInv /\ AnswersInv)'
  BY PrimitivesAreInductive, AnswersAreInductive
<1>4. QED
  BY <1>1, <1>2, <1>3, PTL DEF HostSpec

-----------------------------------------------------------------------------
(***************************************************************************)
(* Error recovery: guards, root stack and open files                       *)
(***************************************************************************)
USE GuardsAssumption

(* What holds of the C stack alone: only public calls are outermost, a     *)
(* buffer is held by the innermost activation, the setup guard is slot 0,  *)
(* and run_forms had room to pin a value.                                  *)
Nested ==
  \A i \in 1..Len(calls) :
    /\ calls[i].kind \in {"try", "load", "buffer"} => i > 1
    /\ calls[i].kind = "buffer" => i = Len(calls)
    /\ calls[i].kind = "open" => i = 1 /\ calls[i].slot = 0
    /\ calls[i].kind \in {"string", "file"} => calls[i].gc < RootMax

(* The two directions of GuardsAreLive, and the order of the slots.        *)
Installed ==
  \A i \in 1..Len(calls) : calls[i].kind \in Guarding =>
    calls[i].slot < depth /\ recover[calls[i].slot] = i

Returnable ==
  \A s \in 0..(depth - 1) :
    /\ recover[s] \in 1..Len(calls)
    /\ calls[recover[s]].kind \in Guarding
    /\ calls[recover[s]].slot = s

SlotsOrdered ==
  \A i, j \in 1..Len(calls) :
    i < j /\ calls[i].kind \in Guarding /\ calls[j].kind \in Guarding =>
      calls[i].slot < calls[j].slot

Owners == {i \in 1..Len(calls) : calls[i].kind \in WithFile}

Owned == files = Cardinality(Owners) /\ dirs = Cardinality(Owners)

Held == pending = IF Inside({"buffer"}) THEN 1 ELSE 0

(* What the outermost call found on the root stack. *)
Floored ==
  /\ calls # <<>> /\ calls[1].kind \in {"string", "file"} => calls[1].gc = base
  /\ calls # <<>> /\ calls[1].kind = "check" => calls[1].gc \in {base, base + 1}

GuardsLive == Nested /\ Installed /\ Returnable /\ SlotsOrdered

GuardsInv ==
  /\ TypeOK
  /\ GuardsLive
  /\ Owned
  /\ Held
  /\ RestoresOnlyDrop
  /\ Floored
  /\ RootsAreBounded
  /\ ErrorsAreGuarded
  /\ MessageIsKept

-----------------------------------------------------------------------------
(***************************************************************************)
(* Sequences of activations                                                *)
(***************************************************************************)
LEMMA PrefixOf ==
  ASSUME NEW S, NEW s \in Seq(S), NEW k \in 0..Len(s)
  PROVE  /\ SubSeq(s, 1, k) \in Seq(S)
         /\ Len(SubSeq(s, 1, k)) = k
         /\ \A i \in 1..k : SubSeq(s, 1, k)[i] = s[i]
<1>1. \A i \in 1..k : s[i] \in S
  OBVIOUS
<1>2. k \in Int /\ (1 <= k => k - 1 + 1 = k) /\ (~(1 <= k) => k = 0)
  OBVIOUS
<1> QED
  BY <1>1, <1>2, SubSeqProperties

LEMMA Pushed ==
  ASSUME NEW S, NEW s \in Seq(S), NEW a \in S
  PROVE  /\ Append(s, a) \in Seq(S)
         /\ Len(Append(s, a)) = Len(s) + 1
         /\ \A i \in 1..Len(s) : Append(s, a)[i] = s[i]
         /\ Append(s, a)[Len(s) + 1] = a
OBVIOUS

LEMMA OwnersFinite == TypeOK => IsFiniteSet(Owners) /\ Cardinality(Owners) \in Nat
<1> SUFFICES ASSUME TypeOK PROVE IsFiniteSet(Owners) /\ Cardinality(Owners) \in Nat
  OBVIOUS
<1>1. IsFiniteSet(1..Len(calls))
  BY FS_Interval DEF TypeOK
<1>2. IsFiniteSet(Owners)
  BY <1>1, FS_Subset DEF Owners
<1> QED
  BY <1>2, FS_CardinalityType

-----------------------------------------------------------------------------
(***************************************************************************)
(* The stack of guards                                                     *)
(***************************************************************************)
(* The innermost activation, when it has called setjmp, holds the last     *)
(* slot in use.                                                            *)
LEMMA TopHoldsLastSlot ==
  ASSUME TypeOK, GuardsLive, calls # <<>>, Top.kind \in Guarding
  PROVE  Top.slot = depth - 1 /\ recover[depth - 1] = Len(calls)
<1> DEFINE n == Len(calls)
<1>1. n \in 1..n /\ n \in Nat /\ Top = calls[n] /\ Top \in Activations
  BY DEF TypeOK, Top
<1>2. Top.slot < depth /\ recover[Top.slot] = n /\ Top.slot \in Nat /\ depth \in Nat
  BY <1>1 DEF GuardsLive, Installed, TypeOK, Activations
<1>3. recover[depth - 1] \in 1..n /\ calls[recover[depth - 1]].kind \in Guarding
      /\ calls[recover[depth - 1]].slot = depth - 1
  BY <1>2 DEF GuardsLive, Returnable
<1>4. CASE recover[depth - 1] = n
  BY <1>1, <1>3, <1>4
<1>5. CASE recover[depth - 1] # n
  <2>1. calls[recover[depth - 1]].slot < calls[n].slot
    BY <1>1, <1>3, <1>5 DEF GuardsLive, SlotsOrdered
  <2> QED
    BY <2>1, <1>1, <1>2, <1>3
<1> QED
  BY <1>4, <1>5

(* Wherever a script runs, a guard is installed. *)
LEMMA SomeGuard ==
  ASSUME TypeOK, GuardsLive, calls # <<>>
  PROVE  depth > 0 /\ recover[depth - 1] \in 1..Len(calls) /\ recover[depth - 1] # Dead
<1>1. 1 \in 1..Len(calls) /\ calls[1] \in Activations /\ depth \in Nat
  BY DEF TypeOK
<1>2. calls[1].kind \in Guarding /\ calls[1].slot \in Nat
  BY <1>1 DEF GuardsLive, Nested, Guarding, Activations, Kinds
<1>3. depth > 0
  BY <1>1, <1>2 DEF GuardsLive, Installed
<1> QED
  BY <1>1, <1>3 DEF GuardsLive, Returnable, Dead

(* Without one, no activation is left. *)
LEMMA NoGuard ==
  ASSUME TypeOK, GuardsLive, depth = 0
  PROVE  calls = <<>>
BY SomeGuard

LEMMA InstallLive ==
  ASSUME TypeOK, GuardsLive, ~Inside({"buffer"}), depth < GuardMax,
         NEW kind \in Guarding \ {"open"}, NEW gc \in 0..RootMax,
         kind \in {"try", "load"} => calls # <<>>,
         kind \in {"string", "file"} => gc < RootMax,
         Install(kind, gc)
  PROVE  /\ GuardsLive'
         /\ calls' \in Seq(Activations)
         /\ recover' \in [0..(GuardMax - 1) -> Nat]
         /\ depth' \in 0..GuardMax
         /\ Owners' = IF kind \in WithFile THEN Owners \cup {Len(calls) + 1} ELSE Owners
<1> DEFINE n == Len(calls)
           a == [kind |-> kind, slot |-> depth, gc |-> gc]
<1>1. n \in Nat /\ depth \in 0..(GuardMax - 1) /\ depth' = depth + 1 /\ GuardMax \in Nat
  BY DEF TypeOK, Install
<1>2. a \in Activations
  BY <1>1 DEF Activations, Guarding
<1>3. /\ calls' \in Seq(Activations) /\ Len(calls') = n + 1
      /\ \A i \in 1..n : calls'[i] = calls[i]
      /\ calls'[n + 1] = a
  BY <1>2, Pushed DEF TypeOK, Install
<1>4. /\ recover' \in [0..(GuardMax - 1) -> Nat]
      /\ recover'[depth] = n + 1
      /\ \A s \in 0..(depth - 1) : recover'[s] = recover[s]
  BY <1>1 DEF TypeOK, Install
<1>5. \A i \in 1..n : calls[i].kind # "buffer"
  BY <1>1 DEF GuardsLive, Nested, Inside, Top
<1>6. \A i \in 1..(n + 1) : i \in 1..n \/ i = n + 1
  BY <1>1
<1>7. Nested'
  <2>1. ASSUME NEW i \in 1..n
        PROVE  /\ calls'[i].kind \in {"try", "load", "buffer"} => i > 1
               /\ calls'[i].kind = "buffer" => i = Len(calls')
               /\ calls'[i].kind = "open" => i = 1 /\ calls'[i].slot = 0
               /\ calls'[i].kind \in {"string", "file"} => calls'[i].gc < RootMax
    BY <1>3, <1>5 DEF GuardsLive, Nested
  <2>2. calls # <<>> => n + 1 > 1
    BY <1>1 DEF TypeOK
  <2>3. /\ a.kind \in {"try", "load", "buffer"} => n + 1 > 1
        /\ a.kind # "buffer" /\ a.kind # "open"
        /\ a.kind \in {"string", "file"} => a.gc < RootMax
    BY <2>2 DEF Guarding
  <2> QED
    BY <2>1, <2>3, <1>3, <1>6 DEF Nested
<1>8. Installed'
  <2>1. ASSUME NEW i \in 1..n, calls[i].kind \in Guarding
        PROVE  calls'[i].slot < depth' /\ recover'[calls'[i].slot] = i
    <3>1. calls[i] \in Activations
      BY <2>1 DEF TypeOK
    <3>2. calls[i].slot \in Nat
      BY <3>1 DEF Activations
    <3>3. calls[i].slot < depth /\ recover[calls[i].slot] = i
      BY <2>1 DEF GuardsLive, Installed
    <3>4. calls[i].slot \in 0..(depth - 1) /\ calls[i].slot < depth'
      BY <3>2, <3>3, <1>1
    <3> QED
      BY <3>3, <3>4, <1>3, <1>4
  <2>2. a.slot < depth' /\ recover'[a.slot] = n + 1
    BY <1>1, <1>4
  <2>3. ASSUME NEW i \in 1..(n + 1), calls'[i].kind \in Guarding
        PROVE  calls'[i].slot < depth' /\ recover'[calls'[i].slot] = i
    <3>1. CASE i \in 1..n
      BY <3>1, <2>1, <2>3, <1>3
    <3>2. CASE i = n + 1
      BY <3>2, <2>2, <1>3
    <3> QED
      BY <3>1, <3>2, <1>6
  <2> QED
    BY <2>3, <1>3 DEF Installed
<1>9. Returnable'
  <2>1. ASSUME NEW s \in 0..(depth - 1)
        PROVE  /\ recover'[s] \in 1..n
               /\ calls'[recover'[s]].kind \in Guarding
               /\ calls'[recover'[s]].slot = s
    <3>1. /\ recover[s] \in 1..n /\ calls[recover[s]].kind \in Guarding
          /\ calls[recover[s]].slot = s
      BY DEF GuardsLive, Returnable
    <3> QED
      BY <3>1, <1>3, <1>4
  <2>2. \A s \in 0..(depth' - 1) : s \in 0..(depth - 1) \/ s = depth
    BY <1>1
  <2>3. ASSUME NEW s \in 0..(depth' - 1)
        PROVE  /\ recover'[s] \in 1..(n + 1)
               /\ calls'[recover'[s]].kind \in Guarding
               /\ calls'[recover'[s]].slot = s
    <3>1. CASE s \in 0..(depth - 1)
      BY <3>1, <2>1, <1>1
    <3>2. CASE s = depth
      BY <3>2, <1>1, <1>3, <1>4
    <3> QED
      BY <3>1, <3>2, <2>2
  <2> QED
    BY <2>3, <1>3 DEF Returnable
<1>10. SlotsOrdered'
  <2>1. ASSUME NEW i \in 1..n, NEW j \in 1..n
        PROVE  i < j /\ calls'[i].kind \in Guarding /\ calls'[j].kind \in Guarding =>
                 calls'[i].slot < calls'[j].slot
    BY <1>3 DEF GuardsLive, SlotsOrdered
  <2>2. ASSUME NEW i \in 1..n, calls'[i].kind \in Guarding
        PROVE  calls'[i].slot < a.slot
    BY <1>3, <2>2 DEF GuardsLive, Installed
  <2>3. ASSUME NEW i \in 1..(n + 1), NEW j \in 1..(n + 1), i < j,
               calls'[i].kind \in Guarding, calls'[j].kind \in Guarding
        PROVE  calls'[i].slot < calls'[j].slot
    <3>1. i \in 1..n /\ (j \in 1..n \/ j = n + 1)
      BY <1>1, <1>6, <2>3
    <3>2. CASE j \in 1..n
      BY <2>1, <2>3, <3>1, <3>2
    <3>3. CASE j = n + 1
      BY <1>3, <2>2, <2>3, <3>1, <3>3
    <3> QED
      BY <3>1, <3>2, <3>3
  <2> QED
    BY <1>3, <2>3 DEF SlotsOrdered
<1>11. Owners' = IF kind \in WithFile THEN Owners \cup {n + 1} ELSE Owners
  BY <1>3, <1>6, <1>1 DEF Owners
<1> QED
  BY <1>1, <1>3, <1>4, <1>7, <1>8, <1>9, <1>10, <1>11 DEF GuardsLive

(* What any shortening of `calls` keeps. *)
LEMMA ShorterNested ==
  ASSUME TypeOK, Nested, NEW k \in 0..Len(calls), calls' = SubSeq(calls, 1, k)
  PROVE  /\ calls' \in Seq(Activations)
         /\ Len(calls') = k
         /\ \A i \in 1..k : calls'[i] = calls[i] /\ i \in 1..Len(calls)
         /\ Nested'
<1>1. /\ calls' \in Seq(Activations) /\ Len(calls') = k
      /\ \A i \in 1..k : calls'[i] = calls[i]
  BY PrefixOf DEF TypeOK
<1>2. \A i \in 1..k : i \in 1..Len(calls) /\ (i = Len(calls) => i = k)
  BY DEF TypeOK
<1>3. ASSUME NEW i \in 1..k
      PROVE  /\ calls'[i].kind \in {"try", "load", "buffer"} => i > 1
             /\ calls'[i].kind = "buffer" => i = k
             /\ calls'[i].kind = "open" => i = 1 /\ calls'[i].slot = 0
             /\ calls'[i].kind \in {"string", "file"} => calls'[i].gc < RootMax
  BY <1>1, <1>2 DEF Nested
<1> QED
  BY <1>1, <1>2, <1>3 DEF Nested

(* The innermost activation gives its slot back, if it has one. *)
GivesBack ==
  \/ Top.kind \in Guarding /\ depth' = Top.slot
  \/ Top.kind = "buffer" /\ depth' = depth

LEMMA LeaveLive ==
  ASSUME TypeOK, GuardsLive, calls # <<>>, Leave, GivesBack
  PROVE  /\ GuardsLive'
         /\ calls' \in Seq(Activations)
         /\ recover' \in [0..(GuardMax - 1) -> Nat]
         /\ depth' \in 0..GuardMax
         /\ Len(calls') = Len(calls) - 1
         /\ \A i \in 1..(Len(calls) - 1) :
              calls'[i] = calls[i] /\ i \in 1..Len(calls) /\ calls[i].kind # "buffer"
         /\ Owners' = Owners \ {Len(calls)}
<1> DEFINE n == Len(calls)
<1>1. n \in Nat \ {0} /\ n \in 1..n /\ n - 1 \in 0..n /\ Top = calls[n] /\ Top \in Activations
  BY DEF TypeOK, Top
<1>2. /\ calls' \in Seq(Activations) /\ Len(calls') = n - 1
      /\ \A i \in 1..(n - 1) : calls'[i] = calls[i] /\ i \in 1..n
      /\ Nested'
  BY <1>1, ShorterNested DEF Leave, Below, GuardsLive
<1>3. recover' = [s \in DOMAIN recover |-> IF recover[s] = n THEN Dead ELSE recover[s]]
  BY DEF Leave
<1>4. recover' \in [0..(GuardMax - 1) -> Nat]
  BY <1>3 DEF TypeOK, Dead
<1>5. depth' <= depth /\ depth' \in 0..GuardMax /\ depth \in 0..GuardMax /\ GuardMax \in Nat
  <2>1. CASE Top.kind \in Guarding /\ depth' = Top.slot
    <3>1. Top.slot = depth - 1 /\ Top.slot \in Nat
      BY <2>1, <1>1, TopHoldsLastSlot DEF Activations
    <3> QED
      BY <2>1, <3>1 DEF TypeOK
  <2>2. CASE Top.kind = "buffer" /\ depth' = depth
    BY <2>2 DEF TypeOK
  <2> QED
    BY <2>1, <2>2 DEF GivesBack
<1>6. ASSUME NEW i \in 1..(n - 1), calls[i].kind \in Guarding
      PROVE  calls[i].slot < depth' /\ calls[i].slot \in Nat
  <2>1. i \in 1..n /\ i < n /\ calls[i] \in Activations
    BY <1>1 DEF TypeOK
  <2>2. calls[i].slot < depth /\ calls[i].slot \in Nat
    BY <1>6, <2>1 DEF GuardsLive, Installed, Activations
  <2>3. CASE Top.kind \in Guarding /\ depth' = Top.slot
    BY <2>3, <2>1, <2>2, <1>1, <1>6 DEF GuardsLive, SlotsOrdered
  <2>4. CASE Top.kind = "buffer" /\ depth' = depth
    BY <2>4, <2>2
  <2> QED
    BY <2>3, <2>4 DEF GivesBack
<1>7. Installed'
  <2>1. ASSUME NEW i \in 1..(n - 1), calls[i].kind \in Guarding
        PROVE  recover'[calls[i].slot] = i
    <3>1. i \in 1..n /\ i # n
      BY <1>1
    <3>2. recover[calls[i].slot] = i
      BY <2>1, <3>1 DEF GuardsLive, Installed
    <3>3. calls[i].slot \in 0..(GuardMax - 1)
      BY <2>1, <1>5, <1>6
    <3> QED
      BY <3>1, <3>2, <3>3, <1>3 DEF TypeOK
  <2> QED
    BY <2>1, <1>2, <1>6 DEF Installed
<1>8. Returnable'
  <2>1. ASSUME NEW s \in Nat, s < depth'
        PROVE  recover'[s] = recover[s] /\ recover[s] \in 1..(n - 1)
               /\ calls[recover[s]].kind \in Guarding /\ calls[recover[s]].slot = s
    <3>1. s < depth /\ s \in 0..(depth - 1)
      BY <1>5, <2>1
    <3>4. s \in 0..(GuardMax - 1)
      BY <1>5, <3>1
    <3>2. /\ recover[s] \in 1..n /\ calls[recover[s]].kind \in Guarding
          /\ calls[recover[s]].slot = s
      BY <3>1 DEF GuardsLive, Returnable
    <3>3. recover[s] # n
      <4>1. CASE Top.kind \in Guarding /\ depth' = Top.slot
        BY <4>1, <3>2, <1>1, <2>1
      <4>2. CASE Top.kind = "buffer" /\ depth' = depth
        BY <4>2, <3>2, <1>1 DEF Guarding
      <4> QED
        BY <4>1, <4>2 DEF GivesBack
    <3>5. recover'[s] = recover[s]
      BY <3>3, <3>4, <1>3 DEF TypeOK
    <3>6. recover[s] \in 1..(n - 1)
      BY <3>2, <3>3, <1>1
    <3> QED
      BY <3>2, <3>5, <3>6
  <2>4. depth' \in Int
    BY <1>5
  <2>5. \A d \in Int : \A s \in 0..(d - 1) : s \in Nat /\ s < d
    OBVIOUS
  <2>2. \A s \in 0..(depth' - 1) : s \in Nat /\ s < depth'
    BY <2>4, <2>5, Zenon
  <2>3. ASSUME NEW s \in Nat, s < depth'
        PROVE  /\ recover'[s] \in 1..Len(calls')
               /\ calls'[recover'[s]].kind \in Guarding
               /\ calls'[recover'[s]].slot = s
    <3>1. /\ recover'[s] = recover[s] /\ recover[s] \in 1..(n - 1)
          /\ calls[recover[s]].kind \in Guarding /\ calls[recover[s]].slot = s
      BY <2>1, <2>3
    <3>2. calls'[recover[s]] = calls[recover[s]] /\ Len(calls') = n - 1
      BY <3>1, <1>2
    <3> QED
      BY <3>1, <3>2
  <2> QED
    BY <2>2, <2>3 DEF Returnable
<1>9. SlotsOrdered'
  BY <1>2 DEF GuardsLive, SlotsOrdered
<1>10. \A i \in 1..(n - 1) : calls[i].kind # "buffer"
  BY <1>1, <1>2 DEF GuardsLive, Nested
<1>11. Owners' = Owners \ {n}
  <2>1. \A i \in 1..n : i # n => i \in 1..(n - 1)
    BY <1>1
  <2>2. \A i \in 1..(n - 1) : i # n
    BY <1>1
  <2> QED
    BY <2>1, <2>2, <1>2 DEF Owners
<1> QED
  BY <1>2, <1>4, <1>5, <1>7, <1>8, <1>9, <1>10, <1>11 DEF GuardsLive

(* What is above the last guard holds a buffer and nothing else.           *)
LEMMA JumpLeaves ==
  ASSUME TypeOK, GuardsLive, depth > 0
  PROVE  \A i \in (recover[depth - 1] + 1)..Len(calls) : calls[i].kind = "buffer"
<1> DEFINE n == Len(calls)
           k == recover[depth - 1]
<1>1. n \in Nat /\ depth \in Nat /\ depth - 1 \in 0..(depth - 1)
  BY DEF TypeOK
<1>2. k \in 1..n /\ calls[k].kind \in Guarding /\ calls[k].slot = depth - 1
  BY <1>1 DEF GuardsLive, Returnable
<1> HIDE DEF k
<1>3. ASSUME NEW i \in (k + 1)..n, calls[i].kind # "buffer"
      PROVE  FALSE
  <2>1. i \in 1..n /\ k < i
    BY <1>2
  <2>2. calls[i] \in Activations
    BY <2>1 DEF TypeOK
  <2>3. calls[i].kind \in Guarding /\ calls[i].slot \in Nat
    BY <1>3, <2>2 DEF Activations, Guarding
  <2>4. calls[i].slot < depth
    BY <2>1, <2>3 DEF GuardsLive, Installed
  <2>5. calls[k].slot < calls[i].slot
    BY <1>2, <2>1, <2>3 DEF GuardsLive, SlotsOrdered
  <2> QED
    BY <2>3, <2>4, <2>5, <1>1, <1>2
<1> QED
  BY <1>3 DEF k

(* longjmp lands in a live function. *)
LEMMA JumpLive ==
  ASSUME TypeOK, GuardsLive, depth > 0, calls' = SubSeq(calls, 1, recover[depth - 1]),
         UNCHANGED <<recover, depth>>
  PROVE  /\ GuardsLive'
         /\ calls' \in Seq(Activations)
         /\ calls' # <<>>
         /\ Len(calls') <= Len(calls)
         /\ \A i \in 1..Len(calls') : calls'[i] = calls[i] /\ i \in 1..Len(calls)
         /\ Top'.kind \in Guarding
         /\ Owners' = Owners
<1> DEFINE n == Len(calls)
           k == recover[depth - 1]
<1>1. n \in Nat /\ depth \in Nat /\ depth - 1 \in 0..(depth - 1)
  BY DEF TypeOK
<1>2. k \in 1..n /\ calls[k].kind \in Guarding /\ calls[k].slot = depth - 1
  BY <1>1 DEF GuardsLive, Returnable
<1>3. k \in 0..n /\ k \in Nat /\ k <= n /\ k > 0
  BY <1>1, <1>2
<1> HIDE DEF k
<1>4. /\ calls' \in Seq(Activations) /\ Len(calls') = k
      /\ \A i \in 1..k : calls'[i] = calls[i] /\ i \in 1..n
      /\ Nested'
  BY <1>3, ShorterNested DEF GuardsLive, k
<1>5. \A i \in 1..n : calls[i].kind \in Guarding => i \in 1..k
  <2>1. \A i \in (k + 1)..n : calls[i].kind = "buffer"
    BY JumpLeaves DEF k
  <2>2. \A i \in 1..n : i \in 1..k \/ i \in (k + 1)..n
    BY <1>3
  <2> QED
    BY <2>1, <2>2 DEF Guarding
<1>6. Installed' /\ SlotsOrdered'
  BY <1>4 DEF GuardsLive, Installed, SlotsOrdered
<1>7. Returnable'
  BY <1>4, <1>5 DEF GuardsLive, Returnable
<1>8. Owners' = Owners
  BY <1>4, <1>5 DEF Owners, WithFile, Guarding, Kinds
<1>9. Top'.kind \in Guarding /\ calls' # <<>>
  BY <1>2, <1>3, <1>4 DEF Top
<1> QED
  BY <1>3, <1>4, <1>6, <1>7, <1>8, <1>9 DEF GuardsLive

-----------------------------------------------------------------------------
(***************************************************************************)
(* The three ways in which a step changes the C stack                      *)
(***************************************************************************)
(* Opening and closing files. *)
Opens(kind) ==
  IF kind \in WithFile THEN files' = files + 1 /\ dirs' = dirs + 1
                       ELSE UNCHANGED <<files, dirs>>

Closes(kind) == IF kind \in WithFile THEN Close ELSE UNCHANGED <<files, dirs>>

(* A function calls setjmp. *)
LEMMA EnterInv ==
  ASSUME GuardsInv, ctl = "run", ~Inside({"buffer"}), depth < GuardMax,
         NEW kind \in Guarding \ {"open"}, NEW gc \in 0..RootMax,
         kind \in {"try", "load"} => calls # <<>>,
         kind \in {"string", "file"} => gc < RootMax,
         calls = <<>> /\ kind \in {"string", "file"} => gc = base,
         calls = <<>> /\ kind = "check" => gc \in {base, base + 1},
         \A i \in 1..Len(calls) : calls[i].gc <= gc,
         Install(kind, gc), Opens(kind),
         roots' \in gc..RootMax, errmsg' \in Messages,
         UNCHANGED <<pending, base, ctl, origin>>
  PROVE  GuardsInv'
<1> DEFINE n == Len(calls)
<1> USE DEF GuardsInv
<1>1. /\ GuardsLive'
      /\ calls' \in Seq(Activations)
      /\ recover' \in [0..(GuardMax - 1) -> Nat]
      /\ depth' \in 0..GuardMax
      /\ Owners' = IF kind \in WithFile THEN Owners \cup {n + 1} ELSE Owners
  BY InstallLive
<1>2. /\ n \in Nat /\ Len(calls') = n + 1
      /\ \A i \in 1..n : calls'[i] = calls[i] /\ calls[i] \in Activations
      /\ calls'[n + 1].kind = kind /\ calls'[n + 1].gc = gc
  BY Pushed DEF TypeOK, Install
<1>3. \A i \in 1..(n + 1) : i \in 1..n \/ i = n + 1
  BY <1>2
<1>4. roots' \in 0..RootMax /\ gc <= roots'
  OBVIOUS
<1>5. Owned' /\ files' \in Nat /\ dirs' \in Nat
  <2>1. IsFiniteSet(Owners) /\ Cardinality(Owners) \in Nat
    BY OwnersFinite
  <2>2. n + 1 \notin Owners
    BY <1>2 DEF Owners
  <2>3. Cardinality(Owners \cup {n + 1}) = Cardinality(Owners) + 1
    BY <2>1, <2>2, FS_AddElement
  <2>4. CASE kind \in WithFile
    BY <2>1, <2>3, <2>4, <1>1 DEF Owned, Opens
  <2>5. CASE kind \notin WithFile
    BY <2>1, <2>5, <1>1 DEF Owned, Opens
  <2> QED
    BY <2>4, <2>5
<1>6. TypeOK'
  BY <1>1, <1>4, <1>5 DEF TypeOK
<1>7. Held'
  <2>1. calls' # <<>> /\ Top'.kind = kind /\ kind # "buffer"
    BY <1>2 DEF Top, Guarding
  <2> QED
    BY <2>1 DEF Held, Inside
<1>8. RestoresOnlyDrop'
  <2>1. ASSUME NEW i \in 1..(n + 1)
        PROVE  calls'[i].gc <= gc
    BY <1>2, <1>3
  <2>2. ASSUME NEW i \in 1..(n + 1)
        PROVE  calls'[i].gc \in Int
    BY <1>2, <1>3 DEF Activations
  <2>3. ASSUME NEW i \in 1..(n + 1)
        PROVE  calls'[i].gc <= roots'
    BY <2>1, <2>2, <1>4
  <2>4. ASSUME NEW i \in 1..(n + 1), NEW j \in 1..i
        PROVE  calls'[j].gc <= calls'[i].gc
    <3>1. CASE i = n + 1
      BY <3>1, <2>1, <1>2
    <3>2. CASE i \in 1..n
      BY <3>2, <1>2 DEF RestoresOnlyDrop
    <3> QED
      BY <3>1, <3>2, <1>3
  <2> QED
    BY <2>3, <2>4, <1>2 DEF RestoresOnlyDrop
<1>9. Floored'
  <2>1. CASE calls = <<>>
    BY <2>1, <1>2 DEF Floored
  <2>2. CASE calls # <<>>
    <3>1. calls'[1] = calls[1]
      BY <2>2, <1>2 DEF TypeOK
    <3> QED
      BY <2>2, <3>1 DEF Floored
  <2> QED
    BY <2>1, <2>2
<1>10. RootsAreBounded' /\ ErrorsAreGuarded' /\ MessageIsKept'
  BY <1>2 DEF RootsAreBounded, ErrorsAreGuarded, MessageIsKept
<1> QED
  BY <1>1, <1>5, <1>6, <1>7, <1>8, <1>9, <1>10

(* The innermost function returns or gives up. *)
LEMMA ExitInv ==
  ASSUME GuardsInv, calls # <<>>, Leave, GivesBack, Closes(Top.kind),
         pending' = IF Top.kind = "buffer" THEN pending - 1 ELSE pending,
         roots' \in 0..RootMax, base' \in 0..RootMax,
         \A i \in 1..(Len(calls) - 1) : calls[i].gc <= roots',
         errmsg' \in Messages, origin' \in Messages,
         ctl' \in {"run", "raise", "closed"},
         Len(calls) > 1 => base' = base,
         Len(calls) = 1 /\ ctl' = "run" => roots' \in {base', base' + 1},
         ctl' = "raise" => Len(calls) > 1 /\ errmsg' = origin'
  PROVE  GuardsInv'
<1> DEFINE n == Len(calls)
<1> USE DEF GuardsInv
<1>1. /\ GuardsLive'
      /\ calls' \in Seq(Activations)
      /\ recover' \in [0..(GuardMax - 1) -> Nat]
      /\ depth' \in 0..GuardMax
      /\ Len(calls') = n - 1
      /\ \A i \in 1..(n - 1) : calls'[i] = calls[i] /\ i \in 1..n /\ calls[i].kind # "buffer"
      /\ Owners' = Owners \ {n}
  BY LeaveLive
<1>2. n \in Nat \ {0} /\ n \in 1..n
  BY DEF TypeOK
<1>3. Owned' /\ files' \in Nat /\ dirs' \in Nat
  <2>1. IsFiniteSet(Owners) /\ Cardinality(Owners) \in Nat
    BY OwnersFinite
  <2>2. IsFiniteSet(Owners \ {n}) /\ Cardinality(Owners \ {n}) \in Nat
    BY <2>1, FS_RemoveElement, FS_CardinalityType
  <2>3. CASE Top.kind \in WithFile
    <3>1. n \in Owners
      BY <2>3, <1>2 DEF Owners, Top
    <3>2. Cardinality(Owners \ {n}) = Cardinality(Owners) - 1
      BY <3>1, <2>1, FS_RemoveElement
    <3>3. files' = files - 1 /\ dirs' = dirs - 1
      BY <2>3 DEF Closes, Close
    <3> QED
      BY <3>2, <3>3, <2>2, <1>1 DEF Owned
  <2>4. CASE Top.kind \notin WithFile
    <3>1. n \notin Owners
      BY <2>4 DEF Owners, Top
    <3>2. Owners \ {n} = Owners
      BY <3>1
    <3> QED
      BY <2>4, <3>2, <2>1, <1>1 DEF Owned, Closes
  <2> QED
    BY <2>3, <2>4
<1>4. ~Inside({"buffer"})'
  <2>1. CASE n = 1
    BY <2>1, <1>1 DEF Inside, TypeOK
  <2>2. CASE n > 1
    <3>1. n - 1 \in 1..(n - 1)
      BY <2>2, <1>2
    <3> QED
      BY <3>1, <1>1 DEF Inside, Top
  <2>3. \A m \in Nat \ {0} : m = 1 \/ m > 1
    OBVIOUS
  <2> QED
    BY <2>1, <2>2, <2>3, <1>2, Zenon
<1>5. Held' /\ pending' \in Nat
  <2>1. pending' = 0
    <3>1. CASE Top.kind = "buffer"
      BY <3>1 DEF Held, Inside
    <3>2. CASE Top.kind # "buffer"
      BY <3>2 DEF Held, Inside
    <3> QED
      BY <3>1, <3>2
  <2> QED
    BY <2>1, <1>4 DEF Held
<1>6. TypeOK'
  BY <1>1, <1>3, <1>5 DEF TypeOK
<1>7. RestoresOnlyDrop'
  <2>1. ASSUME NEW i \in 1..(n - 1), NEW j \in 1..i
        PROVE  calls'[i].gc <= roots' /\ calls'[j].gc <= calls'[i].gc
    <3>1. j \in 1..(n - 1) /\ i \in 1..n
      BY <1>2
    <3> QED
      BY <3>1, <1>1 DEF RestoresOnlyDrop
  <2>2. ASSUME NEW i \in 1..(n - 1)
        PROVE  calls'[i].gc <= roots'
    BY <1>1
  <2> QED
    BY <2>1, <2>2, <1>1 DEF RestoresOnlyDrop
<1>8. calls' # <<>> => n > 1 /\ calls'[1] = calls[1]
  BY <1>1, <1>2
<1>9. Floored'
  BY <1>8 DEF Floored
<1>10. RootsAreBounded'
  <2>1. calls' = <<>> => n = 1
    BY <1>1, <1>2
  <2> QED
    BY <2>1 DEF RootsAreBounded
<1>11. ErrorsAreGuarded'
  <2> SUFFICES ASSUME ctl' = "raise"
               PROVE  depth' > 0 /\ recover'[depth' - 1] # Dead
    BY DEF ErrorsAreGuarded
  <2>1. n > 1 /\ 1 \in 1..(n - 1) /\ 1 \in 1..n /\ calls[1] \in Activations
    BY <1>2 DEF TypeOK
  <2>2. calls'[1] = calls[1]
    BY <2>1, <1>1
  <2>3. calls[1].slot \in Nat /\ calls[1].kind \in Kinds
    BY <2>1 DEF Activations
  <2>4. calls[1].kind # "buffer"
    BY <2>1, <1>1
  <2>5. calls[1].kind \in Guarding
    BY <2>3, <2>4 DEF Guarding
  <2>6. depth' \in Nat /\ calls[1].slot < depth'
    BY <2>1, <2>2, <2>5, <1>1 DEF GuardsLive, Installed
  <2>7. depth' > 0
    BY <2>3, <2>6
  <2>8. \A d \in Nat : d > 0 => d - 1 \in 0..(d - 1)
    OBVIOUS
  <2>9. recover'[depth' - 1] \in 1..Len(calls')
    <3>1. depth' - 1 \in 0..(depth' - 1)
      BY <2>6, <2>7, <2>8, Zenon
    <3> QED
      BY <3>1, <1>1 DEF GuardsLive, Returnable
  <2>10. \A m : 0 \notin 1..m
    OBVIOUS
  <2> QED
    BY <2>7, <2>9, <2>10, Zenon DEF Dead
<1>12. MessageIsKept'
  BY DEF MessageIsKept
<1> QED
  BY <1>1, <1>3, <1>5, <1>6, <1>7, <1>9, <1>10, <1>11, <1>12

(* Nothing is called and nothing returns. *)
LEMMA StayInv ==
  ASSUME GuardsInv, UNCHANGED <<calls, recover, depth, dirs, files, pending, base>>,
         roots' \in 0..RootMax,
         \A i \in 1..Len(calls) : calls[i].gc <= roots',
         calls = <<>> => roots' = roots,
         errmsg' \in Messages, origin' \in Messages,
         ctl' = ctl \/ (calls # <<>> /\ ctl' = "raise"),
         ctl' \in {"raise", "caught"} => errmsg' = origin'
  PROVE  GuardsInv'
<1> USE DEF GuardsInv
<1>1. TypeOK'
  BY DEF TypeOK
<1>2. GuardsLive' /\ Owned' /\ Held' /\ Floored'
  BY DEF GuardsLive, Nested, Installed, Returnable, SlotsOrdered, Owned, Owners, Held, Inside, Top, Floored
<1>3. RestoresOnlyDrop'
  BY DEF RestoresOnlyDrop
<1>4. RootsAreBounded'
  BY DEF RootsAreBounded
<1>5. ErrorsAreGuarded'
  <2>1. CASE ctl' = ctl
    BY <2>1 DEF ErrorsAreGuarded
  <2>2. CASE calls # <<>>
    BY <2>2, SomeGuard DEF ErrorsAreGuarded
  <2> QED
    BY <2>1, <2>2
<1>6. MessageIsKept'
  BY DEF MessageIsKept
<1> QED
  BY <1>1, <1>2, <1>3, <1>4, <1>5, <1>6

(* A primitive registers a buffer. *)
LEMMA HoldInv == GuardsInv /\ HoldBuffer => GuardsInv'
<1> SUFFICES ASSUME GuardsInv, HoldBuffer PROVE GuardsInv'
  OBVIOUS
<1> USE DEF GuardsInv
<1> DEFINE n == Len(calls)
           a == [kind |-> "buffer", slot |-> depth, gc |-> roots]
<1>1. /\ Evaluating /\ ctl = "run" /\ calls # <<>> /\ Top.kind # "buffer"
      /\ calls' = Append(calls, a)
      /\ pending' = pending + 1
      /\ UNCHANGED <<recover, depth, dirs, files, roots, base, errmsg, ctl, origin>>
  BY DEF HoldBuffer, Evaluating, Inside
<1>2. a \in Activations
  BY DEF TypeOK, Activations, Kinds
<1>3. /\ n \in Nat /\ n > 0 /\ n \in 1..n
      /\ calls' \in Seq(Activations) /\ Len(calls') = n + 1
      /\ \A i \in 1..n : calls'[i] = calls[i]
      /\ calls'[n + 1] = a
  BY <1>1, <1>2, Pushed DEF TypeOK
<1>4. \A i \in 1..(n + 1) : i \in 1..n \/ i = n + 1
  BY <1>3
<1>5. \A i \in 1..n : i \in 1..(n + 1)
  BY <1>3
<1>6. a.kind = "buffer" /\ a.kind \notin Guarding /\ a.kind \notin WithFile /\ a.gc = roots
  BY DEF Guarding, WithFile
<1> HIDE DEF a
<1>7. \A i \in 1..n : calls[i].kind # "buffer"
  BY <1>1, <1>3 DEF GuardsLive, Nested, Top
<1>8. Nested'
  <2>1. ASSUME NEW i \in 1..n
        PROVE  /\ calls'[i].kind \in {"try", "load", "buffer"} => i > 1
               /\ calls'[i].kind = "buffer" => i = Len(calls')
               /\ calls'[i].kind = "open" => i = 1 /\ calls'[i].slot = 0
               /\ calls'[i].kind \in {"string", "file"} => calls'[i].gc < RootMax
    BY <1>3, <1>7 DEF GuardsLive, Nested
  <2>2. n + 1 > 1
    BY <1>3
  <2> QED
    BY <2>1, <2>2, <1>3, <1>4, <1>6 DEF Nested
<1>9. Installed'
  BY <1>1, <1>3, <1>4, <1>6 DEF GuardsLive, Installed
<1>10. Returnable'
  BY <1>1, <1>3, <1>5 DEF GuardsLive, Returnable
<1>11. SlotsOrdered'
  <2>1. ASSUME NEW i \in 1..(n + 1), NEW j \in 1..(n + 1), i < j,
               calls'[i].kind \in Guarding, calls'[j].kind \in Guarding
        PROVE  calls'[i].slot < calls'[j].slot
    <3>1. i \in 1..n /\ j \in 1..n
      BY <2>1, <1>3, <1>4, <1>6
    <3> QED
      BY <3>1, <2>1, <1>3 DEF GuardsLive, SlotsOrdered
  <2> QED
    BY <2>1, <1>3 DEF SlotsOrdered
<1>12. Owned'
  <2>1. Owners' = Owners
    BY <1>3, <1>4, <1>5, <1>6 DEF Owners
  <2> QED
    BY <2>1, <1>1 DEF Owned
<1>13. Held'
  <2>1. calls' # <<>> /\ Top'.kind = "buffer"
    BY <1>3, <1>6 DEF Top
  <2>2. pending = 0
    BY <1>1 DEF Held, Inside
  <2>3. pending' = 1
    BY <2>2, <1>1
  <2> QED
    BY <2>1, <2>3 DEF Held, Inside
<1>14. TypeOK'
  BY <1>1, <1>3 DEF TypeOK
<1>15. RestoresOnlyDrop'
  <2>1. ASSUME NEW i \in 1..(n + 1)
        PROVE  calls'[i].gc <= roots
    <3>1. CASE i \in 1..n
      BY <3>1, <1>3 DEF RestoresOnlyDrop
    <3>2. CASE i = n + 1
      BY <3>2, <1>3, <1>6 DEF TypeOK
    <3> QED
      BY <3>1, <3>2, <1>4
  <2>2. ASSUME NEW i \in 1..(n + 1), NEW j \in 1..i
        PROVE  calls'[j].gc <= calls'[i].gc
    <3>1. CASE i = n + 1
      BY <3>1, <2>1, <1>3, <1>6
    <3>2. CASE i \in 1..n
      BY <3>2, <1>3 DEF RestoresOnlyDrop
    <3> QED
      BY <3>1, <3>2, <1>4
  <2> QED
    BY <2>1, <2>2, <1>1, <1>3 DEF RestoresOnlyDrop
<1>16. calls'[1] = calls[1] /\ calls' # <<>>
  BY <1>3
<1>17. Floored'
  BY <1>1, <1>16 DEF Floored
<1>18. RootsAreBounded' /\ ErrorsAreGuarded' /\ MessageIsKept'
  BY <1>1, <1>16 DEF RootsAreBounded, ErrorsAreGuarded, MessageIsKept
<1> QED
  BY <1>8, <1>9, <1>10, <1>11, <1>12, <1>13, <1>14, <1>15, <1>17, <1>18 DEF GuardsLive

(* on_error jumps. *)
LEMMA JumpInv == GuardsInv /\ OnError => GuardsInv'
<1> SUFFICES ASSUME GuardsInv, OnError PROVE GuardsInv'
  OBVIOUS
<1> USE DEF GuardsInv
<1>1. /\ ctl = "raise" /\ depth > 0 /\ pending' = 0 /\ ctl' = "caught"
      /\ calls' = SubSeq(calls, 1, recover[depth - 1])
      /\ UNCHANGED <<recover, depth, dirs, files, roots, base, errmsg, origin>>
  BY DEF OnError, Nearest
<1>2. /\ GuardsLive'
      /\ calls' \in Seq(Activations)
      /\ calls' # <<>>
      /\ Len(calls') <= Len(calls)
      /\ \A i \in 1..Len(calls') : calls'[i] = calls[i] /\ i \in 1..Len(calls)
      /\ Top'.kind \in Guarding
      /\ Owners' = Owners
  BY <1>1, JumpLive
<1>3. TypeOK' /\ Owned'
  BY <1>1, <1>2 DEF TypeOK, Owned
<1>4. Held'
  BY <1>1, <1>2 DEF Held, Inside, Guarding
<1>5. RestoresOnlyDrop'
  <2>1. \A i \in 1..Len(calls') : \A j \in 1..i : j \in 1..Len(calls')
    BY <1>2
  <2> QED
    BY <2>1, <1>1, <1>2 DEF RestoresOnlyDrop
<1>6. calls'[1] = calls[1] /\ calls # <<>>
  BY <1>2
<1>7. Floored'
  BY <1>1, <1>6 DEF Floored
<1>8. RootsAreBounded' /\ ErrorsAreGuarded' /\ MessageIsKept'
  BY <1>1 DEF RootsAreBounded, ErrorsAreGuarded, MessageIsKept
<1> QED
  BY <1>2, <1>3, <1>4, <1>5, <1>7, <1>8

-----------------------------------------------------------------------------
(***************************************************************************)
(* Every action keeps the invariant                                        *)
(***************************************************************************)
LEMMA NothingInstalled ==
  ASSUME TypeOK, GuardsLive, calls = <<>>
  PROVE  depth = 0
<1> SUFFICES ASSUME depth # 0 PROVE FALSE
  OBVIOUS
<1>1. depth - 1 \in 0..(depth - 1)
  BY DEF TypeOK
<1>2. Len(calls) = 0
  OBVIOUS
<1>3. recover[depth - 1] \in 1..0
  BY <1>1, <1>2 DEF GuardsLive, Returnable
<1> QED
  BY <1>3

(* What the innermost activation found. *)
LEMMA TopFacts ==
  ASSUME GuardsInv, calls # <<>>
  PROVE  /\ Len(calls) \in Nat \ {0} /\ Top = calls[Len(calls)] /\ Top \in Activations
         /\ Top.gc \in 0..RootMax /\ roots \in 0..RootMax /\ base \in 0..RootMax
         /\ Top.gc <= roots
         /\ \A i \in 1..(Len(calls) - 1) : calls[i].gc <= Top.gc /\ calls[i].gc <= roots
         /\ Top.kind \in {"try", "load", "buffer"} => Len(calls) > 1
         /\ Top.kind = "open" => Len(calls) = 1 /\ Top.slot = 0
         /\ Top.kind \in {"string", "file"} => Top.gc < RootMax
         /\ Len(calls) = 1 /\ Top.kind \in {"string", "file"} => Top.gc = base
         /\ Len(calls) = 1 /\ Top.kind = "check" => Top.gc \in {base, base + 1}
<1> DEFINE n == Len(calls)
<1>1. n \in Nat \ {0} /\ n \in 1..n /\ Top = calls[n] /\ Top \in Activations
  BY DEF GuardsInv, TypeOK, Top
<1>2. \A i \in 1..(n - 1) : i \in 1..n
  BY <1>1
<1>3. Top.gc \in 0..RootMax /\ roots \in 0..RootMax /\ base \in 0..RootMax
  BY <1>1 DEF GuardsInv, TypeOK, Activations
<1>4. Top.gc <= roots /\ \A i \in 1..(n - 1) : calls[i].gc <= Top.gc /\ calls[i].gc <= roots
  BY <1>1, <1>2 DEF GuardsInv, RestoresOnlyDrop
<1>5. /\ Top.kind \in {"try", "load", "buffer"} => n > 1
      /\ Top.kind = "open" => n = 1 /\ Top.slot = 0
      /\ Top.kind \in {"string", "file"} => Top.gc < RootMax
  BY <1>1 DEF GuardsInv, GuardsLive, Nested
<1>6. /\ n = 1 /\ Top.kind \in {"string", "file"} => Top.gc = base
      /\ n = 1 /\ Top.kind = "check" => Top.gc \in {base, base + 1}
  BY <1>1 DEF GuardsInv, Floored
<1> QED
  BY <1>1, <1>3, <1>4, <1>5, <1>6

(* What run_forms takes as its save point. *)
LEMMA FloorFacts ==
  ASSUME GuardsInv, ctl = "run"
  PROVE  /\ Floor \in 0..RootMax /\ roots \in 0..RootMax
         /\ calls = <<>> => Floor = base /\ roots \in {base, base + 1}
         /\ \A i \in 1..Len(calls) : calls[i].gc <= roots /\ calls[i].gc <= Floor
<1>1. roots \in 0..RootMax /\ base \in 0..RootMax /\ depth \in Nat
  BY DEF GuardsInv, TypeOK
<1>2. calls = <<>> => depth = 0
  BY NothingInstalled DEF GuardsInv
<1>3. depth = 0 => calls = <<>>
  BY NoGuard DEF GuardsInv
<1>4. \A i \in 1..Len(calls) : calls[i].gc <= roots
  BY DEF GuardsInv, RestoresOnlyDrop
<1>5. depth # 0 => Floor = roots
  BY DEF Floor
<1>6. depth = 0 => Floor = base
  BY DEF Floor
<1>7. calls = <<>> => \A i \in 1..Len(calls) : FALSE
  OBVIOUS
<1>8. calls = <<>> => roots \in {base, base + 1}
  BY DEF GuardsInv, RootsAreBounded
<1> QED
  BY <1>1, <1>2, <1>3, <1>4, <1>5, <1>6, <1>7, <1>8

(* The public entry points, try and load call setjmp. *)
LEMMA EntryInv ==
  ASSUME GuardsInv, EvalString \/ EvalFile \/ CheckString \/ Try \/ Load
  PROVE  GuardsInv'
<1>1. ctl = "run" /\ ~Inside({"buffer"}) /\ depth < GuardMax
  BY DEF EvalString, EvalFile, CheckString, Try, Load, Callable, Evaluating, Inside
<1>2. /\ Floor \in 0..RootMax /\ roots \in 0..RootMax
      /\ calls = <<>> => Floor = base /\ roots \in {base, base + 1}
      /\ \A i \in 1..Len(calls) : calls[i].gc <= roots /\ calls[i].gc <= Floor
  BY <1>1, FloorFacts
<1>3. errmsg \in Messages /\ NoError \in Messages
  BY DEF GuardsInv, TypeOK, Messages
<1>4. CASE EvalString
  <2>1. /\ Install("string", Floor) /\ Floor < RootMax /\ roots' = Floor + 1
        /\ errmsg' = NoError /\ Opens("string")
        /\ UNCHANGED <<pending, base, ctl, origin>>
    BY <1>4 DEF EvalString, Opens, WithFile
  <2>2. roots' \in Floor..RootMax
    BY <2>1, <1>2
  <2> QED
    BY <1>1, <1>2, <1>3, <2>1, <2>2, EnterInv DEF Guarding, Kinds
<1>5. CASE EvalFile
  <2>1. /\ Install("file", Floor) /\ Floor < RootMax /\ roots' = Floor + 1
        /\ errmsg' = NoError /\ Opens("file")
        /\ UNCHANGED <<pending, base, ctl, origin>>
    BY <1>5 DEF EvalFile, Opens, WithFile
  <2>2. roots' \in Floor..RootMax
    BY <2>1, <1>2
  <2> QED
    BY <1>1, <1>2, <1>3, <2>1, <2>2, EnterInv DEF Guarding, Kinds
<1>6. roots \in roots..RootMax
  BY <1>2
<1>7. CASE CheckString
  <2>1. /\ Install("check", roots) /\ roots' = roots
        /\ errmsg' = NoError /\ Opens("check")
        /\ UNCHANGED <<pending, base, ctl, origin>>
    BY <1>7 DEF CheckString, Opens, WithFile
  <2> QED
    BY <1>1, <1>2, <1>3, <1>6, <2>1, EnterInv DEF Guarding, Kinds
<1>8. CASE Try
  <2>1. /\ Install("try", roots) /\ roots' = roots /\ calls # <<>>
        /\ errmsg' = errmsg /\ Opens("try")
        /\ UNCHANGED <<pending, base, ctl, origin>>
    BY <1>8 DEF Try, Opens, WithFile, Evaluating, Inside
  <2> QED
    BY <1>1, <1>2, <1>3, <1>6, <2>1, EnterInv DEF Guarding, Kinds
<1>9. CASE Load
  <2>1. /\ Install("load", roots) /\ roots' = roots /\ calls # <<>>
        /\ errmsg' = errmsg /\ Opens("load")
        /\ UNCHANGED <<pending, base, ctl, origin>>
    BY <1>9 DEF Load, Opens, WithFile, Evaluating, Inside
  <2> QED
    BY <1>1, <1>2, <1>3, <1>6, <2>1, EnterInv DEF Guarding, Kinds
<1> QED
  BY <1>4, <1>5, <1>7, <1>8, <1>9

(* The functions that return. *)
LEMMA ReturnInv ==
  ASSUME GuardsInv, EvalReturn \/ OpenReturn \/ TryReturn \/ LoadReturn \/ FreeBuffer
  PROVE  GuardsInv'
<1> DEFINE n == Len(calls)
<1>1. calls # <<>> /\ Leave /\ ctl' = "run" /\ UNCHANGED <<errmsg, origin>>
  BY DEF EvalReturn, OpenReturn, TryReturn, LoadReturn, FreeBuffer, Inside
<1>2. errmsg' \in Messages /\ origin' \in Messages
  BY <1>1 DEF GuardsInv, TypeOK
<1>3. /\ n \in Nat \ {0} /\ Top \in Activations
      /\ Top.gc \in 0..RootMax /\ roots \in 0..RootMax /\ base \in 0..RootMax
      /\ Top.gc <= roots
      /\ \A i \in 1..(n - 1) : calls[i].gc <= Top.gc /\ calls[i].gc <= roots
      /\ Top.kind \in {"try", "load", "buffer"} => n > 1
      /\ Top.kind = "open" => n = 1 /\ Top.slot = 0
      /\ Top.kind \in {"string", "file"} => Top.gc < RootMax
      /\ n = 1 /\ Top.kind \in {"string", "file"} => Top.gc = base
      /\ n = 1 /\ Top.kind = "check" => Top.gc \in {base, base + 1}
  BY <1>1, TopFacts
<1>4. ASSUME NEW i \in 1..(n - 1)
      PROVE  calls[i].gc \in Int
  <2>1. i \in 1..n
    BY <1>3
  <2>2. calls[i] \in Activations
    BY <2>1 DEF GuardsInv, TypeOK
  <2> QED
    BY <2>2 DEF Activations
<1>5. CASE EvalReturn
  <2>1. /\ Top.kind \in {"string", "file", "check"} /\ GivesBack /\ Closes(Top.kind)
        /\ roots' \in IF Top.kind = "check" THEN {Top.gc} ELSE {Top.gc, Top.gc + 1}
        /\ UNCHANGED <<pending, base>>
    BY <1>5 DEF EvalReturn, Inside, GivesBack, Guarding, Kinds, Closes, WithFile
  <2>2. Top.kind # "buffer"
    BY <2>1
  <2>3. roots' = Top.gc \/ (Top.kind \in {"string", "file"} /\ roots' = Top.gc + 1)
    BY <2>1
  <2>4. roots' \in 0..RootMax /\ Top.gc <= roots'
    BY <2>3, <1>3
  <2>5. \A i \in 1..(n - 1) : calls[i].gc <= roots'
    BY <2>4, <1>3, <1>4
  <2>6. n = 1 => roots' \in {base', base' + 1}
    BY <2>1, <2>3, <1>3
  <2>7. base' \in 0..RootMax
    BY <2>1, <1>3
  <2> QED
    BY <1>1, <1>2, <2>1, <2>2, <2>4, <2>5, <2>6, <2>7, ExitInv
<1>6. CASE OpenReturn
  <2>1. /\ Top.kind = "open" /\ Closes(Top.kind) /\ depth' = 0
        /\ base' = roots /\ UNCHANGED <<pending, roots>>
    BY <1>6 DEF OpenReturn, Inside, Closes, WithFile
  <2>2. GivesBack
    BY <2>1, <1>3 DEF GivesBack, Guarding, Kinds
  <2>6. n = 1
    BY <2>1, <1>3
  <2>3. n = 1 /\ \A i \in 1..(n - 1) : FALSE
    BY <2>6
  <2>4. Top.kind # "buffer" /\ roots' \in 0..RootMax /\ base' \in 0..RootMax
        /\ roots' \in {base', base' + 1}
    BY <2>1, <1>3
  <2>5. ~(n > 1)
    BY <2>3
  <2> QED
    BY <1>1, <1>2, <2>1, <2>2, <2>3, <2>4, <2>5, ExitInv
<1>7. CASE TryReturn
  <2>1. /\ Top.kind = "try" /\ GivesBack /\ Closes(Top.kind) /\ UNCHANGED <<pending, roots, base>>
    BY <1>7 DEF TryReturn, Inside, GivesBack, Guarding, Kinds, Closes, WithFile
  <2>2. n > 1 /\ ~(n = 1) /\ Top.kind # "buffer"
    BY <2>1, <1>3
  <2> QED
    BY <1>1, <1>2, <1>3, <2>1, <2>2, ExitInv
<1>8. CASE LoadReturn
  <2>1. /\ Top.kind = "load" /\ GivesBack /\ Closes(Top.kind) /\ roots' = Top.gc
        /\ UNCHANGED <<pending, base>>
    BY <1>8 DEF LoadReturn, Inside, GivesBack, Guarding, Kinds, Closes, WithFile
  <2>2. n > 1 /\ ~(n = 1) /\ Top.kind # "buffer"
    BY <2>1, <1>3
  <2> QED
    BY <1>1, <1>2, <1>3, <2>1, <2>2, ExitInv
<1>9. CASE FreeBuffer
  <2>1. /\ Top.kind = "buffer" /\ GivesBack /\ Closes(Top.kind) /\ pending' = pending - 1
        /\ UNCHANGED <<roots, base>>
    BY <1>9 DEF FreeBuffer, Inside, GivesBack, Closes, WithFile
  <2>3. n > 1
    BY <2>1, <1>3
  <2>7. \A m \in Nat : m > 1 => ~(m = 1)
    OBVIOUS
  <2>2. n > 1 /\ ~(n = 1)
    BY <2>3, <2>7, <1>3, Zenon
  <2>4. pending' = IF Top.kind = "buffer" THEN pending - 1 ELSE pending
    BY <2>1
  <2>5. roots' \in 0..RootMax /\ base' \in 0..RootMax /\ base' = base
        /\ \A i \in 1..(n - 1) : calls[i].gc <= roots'
    BY <2>1, <1>3
  <2>6. ctl' \in {"run", "raise", "closed"} /\ ~(ctl' = "raise")
    BY <1>1
  <2> QED
    BY <1>1, <1>2, <2>1, <2>2, <2>4, <2>5, <2>6, ExitInv
<1> QED
  BY <1>5, <1>6, <1>7, <1>8, <1>9

(* The functions whose setjmp returns 1. *)
LEMMA CatchInv ==
  ASSUME GuardsInv, TryCaught \/ TryCaughtFails \/ LoadCaught \/ EvalCaught \/ OpenCaught
  PROVE  GuardsInv'
<1> DEFINE n == Len(calls)
<1>1. calls # <<>> /\ Leave /\ ctl = "caught" /\ UNCHANGED <<pending, base>>
  BY DEF TryCaught, TryCaughtFails, LoadCaught, EvalCaught, OpenCaught, Caught, Inside
<1>2. errmsg \in Messages /\ origin \in Messages /\ errmsg = origin
  BY <1>1 DEF GuardsInv, TypeOK, MessageIsKept
<1>3. /\ n \in Nat \ {0} /\ Top \in Activations
      /\ Top.gc \in 0..RootMax /\ roots \in 0..RootMax /\ base \in 0..RootMax
      /\ Top.gc <= roots
      /\ \A i \in 1..(n - 1) : calls[i].gc <= Top.gc /\ calls[i].gc <= roots
      /\ Top.kind \in {"try", "load", "buffer"} => n > 1
      /\ Top.kind = "open" => n = 1 /\ Top.slot = 0
      /\ Top.kind \in {"string", "file"} => Top.gc < RootMax
      /\ n = 1 /\ Top.kind \in {"string", "file"} => Top.gc = base
      /\ n = 1 /\ Top.kind = "check" => Top.gc \in {base, base + 1}
  BY <1>1, TopFacts
<1>4. \A m \in Nat : m > 1 => ~(m = 1)
  OBVIOUS
<1>5. Top.kind \in {"try", "load"} => n > 1 /\ ~(n = 1)
  <2>1. Top.kind \in {"try", "load"} => n > 1
    BY <1>3
  <2> QED
    BY <2>1, <1>3, <1>4, Zenon
<1>6. CASE TryCaught \/ TryCaughtFails
  <2>1. /\ Top.kind = "try" /\ GivesBack /\ Closes(Top.kind) /\ roots' = Top.gc
        /\ \/ ctl' = "run" /\ UNCHANGED <<errmsg, origin>>
           \/ ctl' = "raise" /\ \E e \in Errors : errmsg' = e /\ origin' = e
    BY <1>6 DEF TryCaught, TryCaughtFails, Throw, Caught, Inside, GivesBack, Guarding, Kinds,
                Closes, WithFile
  <2>2. n > 1 /\ ~(n = 1) /\ Top.kind # "buffer"
    BY <2>1, <1>5
  <2>3. /\ errmsg' \in Messages /\ origin' \in Messages
        /\ ctl' \in {"run", "raise", "closed"}
        /\ ctl' = "raise" => errmsg' = origin'
    BY <2>1, <1>2 DEF Messages
  <2> QED
    BY <1>1, <1>3, <2>1, <2>2, <2>3, ExitInv
<1>7. CASE LoadCaught
  <2>1. /\ Top.kind = "load" /\ GivesBack /\ Closes(Top.kind)
        /\ ctl' = "raise" /\ UNCHANGED <<roots, errmsg, origin>>
    BY <1>7 DEF LoadCaught, RaiseAgain, Caught, Inside, GivesBack, Guarding, Kinds, Closes, WithFile
  <2>2. n > 1 /\ ~(n = 1) /\ Top.kind # "buffer"
    BY <2>1, <1>5
  <2> QED
    BY <1>1, <1>2, <1>3, <2>1, <2>2, ExitInv
<1>8. CASE EvalCaught
  <2>1. /\ Top.kind \in {"string", "file", "check"} /\ GivesBack /\ Closes(Top.kind)
        /\ roots' = Top.gc /\ UNCHANGED <<errmsg, origin>>
    BY <1>8 DEF EvalCaught, Caught, Inside, GivesBack, Guarding, Kinds, Closes, WithFile
  <2>2. ctl' \in {"run", "raise", "closed"} /\ ctl' # "raise"
    BY <1>8 DEF EvalCaught
  <2>3. Top.kind # "buffer"
    BY <2>1
  <2>4. n = 1 => roots' \in {base', base' + 1}
    BY <2>1, <1>1, <1>3
  <2> QED
    BY <1>1, <1>2, <1>3, <2>1, <2>2, <2>3, <2>4, ExitInv
<1>9. CASE OpenCaught
  <2>1. /\ Top.kind = "open" /\ Closes(Top.kind) /\ depth' = 0 /\ roots' = 0
        /\ ctl' = "closed" /\ UNCHANGED <<errmsg, origin>>
    BY <1>9 DEF OpenCaught, Caught, Inside, Closes, WithFile
  <2>2. GivesBack
    BY <2>1, <1>3 DEF GivesBack, Guarding, Kinds
  <2>3. n = 1
    BY <2>1, <1>3
  <2>4. \A i \in 1..(n - 1) : FALSE
    BY <2>3
  <2>5. Top.kind # "buffer" /\ roots' \in 0..RootMax /\ ~(n > 1)
    BY <2>1, <2>3
  <2> QED
    BY <1>1, <1>2, <1>3, <2>1, <2>2, <2>3, <2>4, <2>5, ExitInv
<1> QED
  BY <1>6, <1>7, <1>8, <1>9

(* What a script does without calling or returning. *)
LEMMA QuietInv ==
  ASSUME GuardsInv, EvalRefused \/ Grow \/ Shrink \/ Raise \/ NoSlot
  PROVE  GuardsInv'
<1>1. ctl = "run" /\ UNCHANGED <<calls, recover, depth, dirs, files, pending, base>>
  BY DEF EvalRefused, Grow, Shrink, Raise, NoSlot, Callable, Evaluating
<1>2. errmsg \in Messages /\ origin \in Messages /\ roots \in 0..RootMax
  BY DEF GuardsInv, TypeOK
<1>3. \A i \in 1..Len(calls) : calls[i].gc <= roots /\ calls[i].gc \in Int
  <2>1. \A i \in 1..Len(calls) : calls[i] \in Activations
    BY DEF GuardsInv, TypeOK
  <2> QED
    BY <2>1 DEF GuardsInv, RestoresOnlyDrop, Activations
<1>4. CASE EvalRefused
  <2>1. errmsg' = Overflowed /\ UNCHANGED <<roots, ctl, origin>>
    BY <1>4 DEF EvalRefused
  <2>2. errmsg' \in Messages /\ ctl' \notin {"raise", "caught"}
    BY <2>1, <1>1 DEF Messages
  <2> QED
    BY <1>1, <1>2, <1>3, <2>1, <2>2, StayInv
<1>5. CASE Grow
  <2>1. calls # <<>> /\ roots < RootMax /\ roots' = roots + 1 /\ UNCHANGED <<errmsg, ctl, origin>>
    BY <1>5 DEF Grow
  <2>2. roots' \in 0..RootMax /\ roots <= roots'
    BY <2>1, <1>2
  <2>3. \A i \in 1..Len(calls) : calls[i].gc <= roots'
    BY <2>1, <1>2, <1>3
  <2>4. ctl' \notin {"raise", "caught"}
    BY <2>1, <1>1
  <2> QED
    BY <1>1, <1>2, <2>1, <2>2, <2>3, <2>4, StayInv
<1>6. CASE Shrink
  <2>1. calls # <<>> /\ roots' = Top.gc /\ UNCHANGED <<errmsg, ctl, origin>>
    BY <1>6 DEF Shrink
  <2>2. /\ Len(calls) \in Nat \ {0} /\ Top = calls[Len(calls)]
        /\ Top.gc \in 0..RootMax
        /\ \A i \in 1..(Len(calls) - 1) : calls[i].gc <= Top.gc
    BY <2>1, TopFacts
  <2>3. \A i \in 1..Len(calls) : calls[i].gc <= Top.gc
    <3>1. \A i \in 1..Len(calls) : i \in 1..(Len(calls) - 1) \/ i = Len(calls)
      BY <2>2
    <3> QED
      BY <3>1, <2>2
  <2>4. ctl' \notin {"raise", "caught"}
    BY <2>1, <1>1
  <2> QED
    BY <1>1, <1>2, <2>1, <2>2, <2>3, <2>4, StayInv
<1>7. CASE Raise \/ NoSlot
  <2>1. calls # <<>> /\ ctl' = "raise" /\ UNCHANGED roots
    BY <1>7 DEF Raise, NoSlot, Throw, Evaluating, Inside
  <2>2. errmsg' \in Messages /\ origin' \in Messages /\ errmsg' = origin'
    BY <1>7 DEF Raise, NoSlot, Throw, Messages
  <2> QED
    BY <1>1, <1>2, <1>3, <2>1, <2>2, StayInv
<1> QED
  BY <1>4, <1>5, <1>6, <1>7

(* kec_open_with_arena leaves the context in order. *)
LEMMA InitInv == Init => GuardsInv
<1> SUFFICES ASSUME Init PROVE GuardsInv
  OBVIOUS
<1> DEFINE a == [kind |-> "open", slot |-> 0, gc |-> 0]
<1>1. a \in Activations
  BY DEF Activations, Kinds
<1>2. /\ calls = <<a>> /\ Len(calls) = 1 /\ calls[1] = a /\ calls # <<>> /\ Top = a
      /\ calls \in Seq(Activations)
  BY <1>1 DEF Init, Top
<1>3. a.kind = "open" /\ a.slot = 0 /\ a.gc = 0 /\ a.kind \in Guarding /\ a.kind \notin WithFile
  BY DEF Guarding, WithFile, Kinds
<1> HIDE DEF a
<1>4. \A i \in 1..1 : i = 1
  OBVIOUS
<1>5. TypeOK
  BY <1>2 DEF Init, TypeOK, Dead, Messages
<1>6. depth = 1 /\ recover[0] = 1
  BY DEF Init
<1>7. GuardsLive
  <2>1. Nested /\ SlotsOrdered
    BY <1>2, <1>3, <1>4 DEF Nested, SlotsOrdered
  <2>2. Installed
    BY <1>2, <1>3, <1>4, <1>6 DEF Installed
  <2>3. \A s \in 0..(depth - 1) : s = 0
    BY <1>6
  <2>4. Returnable
    BY <2>3, <1>2, <1>3, <1>6 DEF Returnable
  <2> QED
    BY <2>1, <2>2, <2>4 DEF GuardsLive
<1>8. Owned
  <2>1. Owners = {}
    BY <1>2, <1>3, <1>4 DEF Owners
  <2> QED
    BY <2>1, FS_EmptySet DEF Owned, Init
<1>9. Held
  BY <1>2, <1>3 DEF Held, Inside, Init
<1>10. RestoresOnlyDrop
  BY <1>2, <1>3, <1>4 DEF RestoresOnlyDrop, Init
<1>11. Floored
  BY <1>2, <1>3 DEF Floored
<1>12. RootsAreBounded /\ ErrorsAreGuarded /\ MessageIsKept
  BY <1>2 DEF RootsAreBounded, ErrorsAreGuarded, MessageIsKept, Init
<1> QED
  BY <1>5, <1>7, <1>8, <1>9, <1>10, <1>11, <1>12 DEF GuardsInv

LEMMA NextInv == GuardsInv /\ [Next]_vars => GuardsInv'
<1> SUFFICES ASSUME GuardsInv, [Next]_vars PROVE GuardsInv'
  OBVIOUS
<1>1. CASE UNCHANGED vars
  BY <1>1 DEF vars, GuardsInv, TypeOK, GuardsLive, Nested, Installed, Returnable, SlotsOrdered, Owned, Owners,
              Held, Inside, Top, RestoresOnlyDrop, Floored, RootsAreBounded, ErrorsAreGuarded,
              MessageIsKept
<1>2. CASE EvalString \/ EvalFile \/ CheckString \/ Try \/ Load
  BY <1>2, EntryInv
<1>3. CASE EvalReturn \/ OpenReturn \/ TryReturn \/ LoadReturn \/ FreeBuffer
  BY <1>3, ReturnInv
<1>4. CASE EvalRefused \/ Grow \/ Shrink \/ Raise \/ NoSlot
  BY <1>4, QuietInv
<1>5. CASE HoldBuffer
  BY <1>5, HoldInv
<1>6. CASE OnError
  BY <1>6, JumpInv
<1>7. CASE TryCaught \/ TryCaughtFails \/ LoadCaught \/ EvalCaught \/ OpenCaught
  BY <1>7, CatchInv
<1> QED
  BY <1>1, <1>2, <1>3, <1>4, <1>5, <1>6, <1>7 DEF Next, Unwind

LEMMA SpecInv == Spec => []GuardsInv
  BY InitInv, NextInv, PTL DEF Spec

-----------------------------------------------------------------------------
(***************************************************************************)
(* The theorems                                                            *)
(***************************************************************************)
(* The types of the state, for every number of slots and every nesting.    *)
THEOREM GuardsTypeCorrect == Spec => []TypeOK
  BY SpecInv, PTL DEF GuardsInv

(* longjmp never lands in a function that has returned: the jmp_bufs below *)
(* `depth` are those of the live calls of setjmp, in call order.           *)
THEOREM JumpsAreSafe == Spec => []GuardsAreLive
<1>1. GuardsInv => GuardsAreLive
  <2> SUFFICES ASSUME GuardsInv PROVE GuardsAreLive
    OBVIOUS
  <2> DEFINE guards == {i \in 1..Len(calls) : calls[i].kind \in Guarding}
  <2>1. \A i \in guards : calls[i].slot < depth /\ recover[calls[i].slot] = i
    BY DEF GuardsInv, GuardsLive, Installed
  <2>2. \A s \in 0..(depth - 1) : recover[s] \in guards /\ calls[recover[s]].slot = s
    BY DEF GuardsInv, GuardsLive, Returnable
  <2>3. \A i, j \in guards : i < j => calls[i].slot < calls[j].slot
    BY DEF GuardsInv, GuardsLive, SlotsOrdered
  <2> QED
    BY <2>1, <2>2, <2>3 DEF GuardsAreLive
<1> QED
  BY <1>1, SpecInv, PTL

(* fe_error never reaches its exit(): some guard is installed whenever an  *)
(* error is raised.                                                        *)
THEOREM EveryErrorIsGuarded == Spec => []ErrorsAreGuarded
  BY SpecInv, PTL DEF GuardsInv

(* Files, load directories and buffers are those of the live activations:  *)
(* no error path leaks one or releases one twice.                          *)
THEOREM NothingLeaks == Spec => []ResourcesOwned
<1>1. GuardsInv => ResourcesOwned
  <2> SUFFICES ASSUME GuardsInv PROVE ResourcesOwned
    OBVIOUS
  <2> DEFINE buffers == {i \in 1..Len(calls) : calls[i].kind = "buffer"}
  <2>1. files = Cardinality(Owners) /\ dirs = Cardinality(Owners)
    BY DEF GuardsInv, Owned
  <2>2. Len(calls) \in Nat
    BY DEF GuardsInv, TypeOK
  <2>3. pending = Cardinality(buffers) /\ Cardinality(buffers) <= 1
    <3>1. CASE Inside({"buffer"})
      <4>1. buffers = {Len(calls)}
        BY <3>1, <2>2 DEF GuardsInv, GuardsLive, Nested, Inside, Top, TypeOK
      <4>2. Cardinality(buffers) = 1
        BY <4>1, FS_Singleton, Zenon
      <4>3. pending = 1
        BY <3>1 DEF GuardsInv, Held
      <4> QED
        BY <4>2, <4>3
    <3>2. CASE ~Inside({"buffer"})
      <4>1. buffers = {}
        BY <3>2, <2>2 DEF GuardsInv, GuardsLive, Nested, Inside, Top, TypeOK
      <4>2. Cardinality(buffers) = 0
        BY <4>1, FS_EmptySet, Zenon
      <4>3. pending = 0
        BY <3>2 DEF GuardsInv, Held
      <4> QED
        BY <4>2, <4>3
    <3> QED
      BY <3>1, <3>2
  <2> QED
    BY <2>1, <2>3 DEF ResourcesOwned, Owners
<1> QED
  BY <1>1, SpecInv, PTL

(* Between public calls the root stack is at its floor, plus one result.   *)
THEOREM RootsDoNotAccumulate == Spec => []RootsAreBounded
  BY SpecInv, PTL DEF GuardsInv

(* Restoring a saved root stack index never revives a dropped root.        *)
THEOREM RestoresAreSafe == Spec => []RestoresOnlyDrop
  BY SpecInv, PTL DEF GuardsInv

(* errmsg is the message the error was raised with, through any number of  *)
(* loads.                                                                  *)
THEOREM MessagesSurvive == Spec => []MessageIsKept
  BY SpecInv, PTL DEF GuardsInv

(* Error handling as a whole: a longjmp lands in a function that has not   *)
(* returned, an error always finds a guard, the root stack neither grows   *)
(* between public calls nor gets back what was dropped, and the guard that *)
(* handles an error reads the message it was raised with.                  *)
THEOREM GuardsAreSound == Spec => []GuardsSound
  BY JumpsAreSafe, EveryErrorIsGuarded, RootsDoNotAccumulate, RestoresAreSafe,
     MessagesSurvive, PTL DEF GuardsSound

-----------------------------------------------------------------------------
(***************************************************************************)
(* Guards implements Unwinding                                             *)
(***************************************************************************)
(* The abstract stack: what U substitutes for Unwinding's variable.        *)
KindsOf(s) == [i \in 1..Len(s) |-> s[i].kind]

LEMMA KindsOfProperties ==
  ASSUME NEW s \in Seq(Activations)
  PROVE  /\ KindsOf(s) \in Seq(Kinds)
         /\ Len(KindsOf(s)) = Len(s)
         /\ \A i \in 1..Len(s) : KindsOf(s)[i] = s[i].kind
<1>1. ASSUME NEW i \in 1..Len(s)
      PROVE  s[i].kind \in Kinds
  <2>1. s[i] \in Activations
    OBVIOUS
  <2> QED
    BY <2>1 DEF Activations
<1>2. KindsOf(s) \in [1..Len(s) -> Kinds] /\ Len(s) \in Nat
  BY <1>1 DEF KindsOf
<1>3. KindsOf(s) \in Seq(Kinds)
  BY <1>2, SeqDef
<1>4. DOMAIN KindsOf(s) = 1..Len(s) /\ DOMAIN KindsOf(s) = 1..Len(KindsOf(s))
  BY <1>2, <1>3, LenProperties
<1>5. Len(KindsOf(s)) = Len(s)
  BY <1>2, <1>3, <1>4, LenProperties
<1>6. \A i \in 1..Len(s) : KindsOf(s)[i] = s[i].kind
  BY DEF KindsOf
<1> QED
  BY <1>3, <1>5, <1>6

LEMMA KindsOfAppend ==
  ASSUME NEW s \in Seq(Activations), NEW a \in Activations
  PROVE  KindsOf(Append(s, a)) = Append(KindsOf(s), a.kind)
<1> DEFINE l == KindsOf(Append(s, a))
           r == Append(KindsOf(s), a.kind)
<1>1. /\ Append(s, a) \in Seq(Activations) /\ Len(Append(s, a)) = Len(s) + 1
      /\ \A i \in 1..Len(s) : Append(s, a)[i] = s[i]
      /\ Append(s, a)[Len(s) + 1] = a
  BY Pushed
<1>2. /\ l \in Seq(Kinds) /\ Len(l) = Len(s) + 1
      /\ \A i \in 1..(Len(s) + 1) : l[i] = Append(s, a)[i].kind
  BY <1>1, KindsOfProperties
<1>3. /\ KindsOf(s) \in Seq(Kinds) /\ Len(KindsOf(s)) = Len(s)
      /\ \A i \in 1..Len(s) : KindsOf(s)[i] = s[i].kind
  BY KindsOfProperties
<1>4. a.kind \in Kinds /\ Len(s) \in Nat
  BY DEF Activations
<1>5. /\ r \in Seq(Kinds) /\ Len(r) = Len(s) + 1
      /\ \A i \in 1..Len(s) : r[i] = KindsOf(s)[i]
      /\ r[Len(s) + 1] = a.kind
  BY <1>3, <1>4, Pushed
<1> HIDE DEF l, r
<1>6. ASSUME NEW i \in 1..(Len(s) + 1)
      PROVE  l[i] = r[i]
  <2>1. CASE i \in 1..Len(s)
    BY <2>1, <1>1, <1>2, <1>3, <1>5
  <2>2. CASE i = Len(s) + 1
    BY <2>2, <1>1, <1>2, <1>5
  <2> QED
    BY <2>1, <2>2, <1>4
<1>7. l = r
  BY <1>2, <1>5, <1>6, SeqEqual
<1> QED
  BY <1>7 DEF l, r

LEMMA KindsOfPrefix ==
  ASSUME NEW s \in Seq(Activations), NEW k \in 0..Len(s)
  PROVE  KindsOf(SubSeq(s, 1, k)) = SubSeq(KindsOf(s), 1, k)
<1> DEFINE l == KindsOf(SubSeq(s, 1, k))
           r == SubSeq(KindsOf(s), 1, k)
<1>1. /\ SubSeq(s, 1, k) \in Seq(Activations) /\ Len(SubSeq(s, 1, k)) = k
      /\ \A i \in 1..k : SubSeq(s, 1, k)[i] = s[i]
  BY PrefixOf
<1>2. /\ l \in Seq(Kinds) /\ Len(l) = k
      /\ \A i \in 1..k : l[i] = SubSeq(s, 1, k)[i].kind
  BY <1>1, KindsOfProperties
<1>3. /\ KindsOf(s) \in Seq(Kinds) /\ Len(KindsOf(s)) = Len(s)
      /\ \A i \in 1..Len(s) : KindsOf(s)[i] = s[i].kind
  BY KindsOfProperties
<1>4. /\ r \in Seq(Kinds) /\ Len(r) = k
      /\ \A i \in 1..k : r[i] = KindsOf(s)[i]
  BY <1>3, PrefixOf
<1>5. \A i \in 1..k : i \in 1..Len(s)
  OBVIOUS
<1>6. \A i \in 1..k : l[i] = r[i]
  BY <1>1, <1>2, <1>3, <1>4, <1>5
<1> HIDE DEF l, r
<1>7. l = r
  BY <1>2, <1>4, <1>6, SeqEqual
<1> QED
  BY <1>7 DEF l, r

Catchers == {"open", "string", "file", "check", "try"}

Stack == KindsOf(calls)

(* A call, a return, a jump, and what they are to Unwinding. *)
LEMMA CallMaps ==
  ASSUME TypeOK, ctl = "run", ctl' = "run",
         NEW a \in Activations, calls' = Append(calls, a)
  PROVE  U!Call
<1>1. Stack' = Append(Stack, a.kind)
  BY KindsOfAppend DEF Stack, TypeOK
<1>2. a.kind \in Kinds
  BY DEF Activations
<1>3. a.kind \in U!Kinds
  BY <1>2 DEF U!Kinds, Kinds
<1> QED
  BY <1>1, <1>3 DEF U!Call, Stack, KindsOf

LEMMA PoppedMaps ==
  ASSUME TypeOK, calls # <<>>, calls' = Below
  PROVE  /\ Stack' = SubSeq(Stack, 1, Len(Stack) - 1)
         /\ Stack # <<>> /\ Len(Stack) = Len(calls) /\ Stack[Len(Stack)] = Top.kind
<1>1. Len(calls) \in Nat \ {0} /\ Len(calls) - 1 \in 0..Len(calls) /\ Len(calls) \in 1..Len(calls)
  BY DEF TypeOK
<1>2. /\ Len(Stack) = Len(calls) /\ Stack \in Seq(Kinds)
      /\ \A i \in 1..Len(calls) : Stack[i] = calls[i].kind
  BY KindsOfProperties DEF TypeOK, Stack
<1>3. Stack # <<>> /\ Stack[Len(Stack)] = Top.kind
  BY <1>1, <1>2 DEF Top
<1>4. Stack' = SubSeq(Stack, 1, Len(calls) - 1)
  BY <1>1, KindsOfPrefix DEF TypeOK, Stack, Below
<1> QED
  BY <1>2, <1>3, <1>4

(* The outermost call is a public one. *)
LEMMA OutermostCatches ==
  ASSUME TypeOK, GuardsLive, calls # <<>>
  PROVE  Stack[1] \in Catchers /\ 1 \in 1..Len(Stack) /\ Len(Stack) = Len(calls)
<1>1. 1 \in 1..Len(calls) /\ calls[1] \in Activations
  BY DEF TypeOK
<1>2. calls[1].kind \in Kinds /\ calls[1].kind \notin {"load", "buffer"}
  BY <1>1 DEF GuardsLive, Nested, Activations
<1>3. Len(Stack) = Len(calls) /\ Stack[1] = calls[1].kind
  BY <1>1, KindsOfProperties DEF TypeOK, Stack
<1> QED
  BY <1>1, <1>2, <1>3 DEF Kinds, Catchers

LEMMA JumpMaps == GuardsInv /\ OnError => U!Abandon
<1> SUFFICES ASSUME GuardsInv, OnError PROVE U!Abandon
  OBVIOUS
<1> DEFINE k == recover[depth - 1]
<1>1. /\ ctl = "raise" /\ depth > 0 /\ ctl' = "caught" /\ calls' = SubSeq(calls, 1, k)
      /\ UNCHANGED <<recover, depth>>
  BY DEF OnError, Nearest
<1>2. TypeOK /\ GuardsLive
  BY DEF GuardsInv
<1>3. depth - 1 \in 0..(depth - 1) /\ Len(calls) \in Nat
  BY <1>1, <1>2 DEF TypeOK
<1>4. k \in 1..Len(calls) /\ calls[k].kind \in Guarding
  BY <1>2, <1>3 DEF GuardsLive, Returnable
<1>5. k \in 0..Len(calls)
  BY <1>3, <1>4
<1> HIDE DEF k
<1>6. /\ Len(Stack) = Len(calls)
      /\ \A i \in 1..Len(calls) : Stack[i] = calls[i].kind
  BY <1>2, KindsOfProperties DEF TypeOK, Stack
<1>7. Stack' = SubSeq(Stack, 1, k)
  BY <1>1, <1>2, <1>5, KindsOfPrefix DEF TypeOK, Stack
<1>8. \A j \in (k + 1)..Len(calls) : calls[j].kind = "buffer"
  BY <1>1, <1>2, JumpLeaves DEF k
<1>9. \A j \in (k + 1)..Len(calls) : j \in 1..Len(calls)
  BY <1>4
<1>10. Stack[k] \notin {"buffer"} /\ \A j \in (k + 1)..Len(Stack) : Stack[j] \in {"buffer"}
  BY <1>4, <1>6, <1>8, <1>9 DEF Guarding
<1>11. k \in 1..Len(Stack)
  BY <1>4, <1>6
<1>12. (ctl \in {"raise", "caught"}) = TRUE /\ (ctl' \in {"raise", "caught"}) = TRUE
  BY <1>1
<1>13. \E i \in 1..Len(Stack) :
         /\ Stack[i] \notin {"buffer"}
         /\ \A j \in (i + 1)..Len(Stack) : Stack[j] \in {"buffer"}
         /\ Stack' = SubSeq(Stack, 1, i)
  BY <1>7, <1>10, <1>11
<1> QED
  BY <1>12, <1>13, Zenon DEF U!Abandon, Stack, KindsOf

(* Every step of the code is one of Unwinding's, or none. *)
LEMMA StepMaps == GuardsInv /\ [Next]_vars => [U!Next]_U!vars
<1> SUFFICES ASSUME GuardsInv, [Next]_vars PROVE [U!Next]_U!vars
  OBVIOUS
<1>1. TypeOK /\ GuardsLive
  BY DEF GuardsInv
<1> DEFINE n == Len(calls)
<1>2. CASE UNCHANGED vars
  BY <1>2 DEF vars, U!vars
<1>3. CASE EvalString \/ EvalFile \/ CheckString \/ Try \/ Load \/ HoldBuffer
  <2>1. ctl = "run" /\ ctl' = "run"
    BY <1>3 DEF EvalString, EvalFile, CheckString, Try, Load, HoldBuffer, Callable, Evaluating
  <2>2. depth \in 0..GuardMax /\ roots \in 0..RootMax /\ Floor \in 0..RootMax
    BY <1>1 DEF TypeOK, Floor
  <2>3. \E kind \in Kinds, gc \in 0..RootMax :
          calls' = Append(calls, [kind |-> kind, slot |-> depth, gc |-> gc])
    BY <1>3, <2>2
       DEF EvalString, EvalFile, CheckString, Try, Load, HoldBuffer, Install, Kinds
  <2>4. PICK kind \in Kinds, gc \in 0..RootMax :
          calls' = Append(calls, [kind |-> kind, slot |-> depth, gc |-> gc])
    BY <2>3
  <2>5. [kind |-> kind, slot |-> depth, gc |-> gc] \in Activations
    BY <2>2 DEF Activations
  <2> QED
    BY <1>1, <2>1, <2>4, <2>5, CallMaps DEF U!Next
<1>4. CASE EvalReturn \/ OpenReturn \/ TryReturn \/ LoadReturn \/ FreeBuffer
  <2>1. ctl = "run" /\ ctl' = "run" /\ calls # <<>> /\ calls' = Below
    BY <1>4 DEF EvalReturn, OpenReturn, TryReturn, LoadReturn, FreeBuffer, Inside, Leave
  <2>2. Stack' = SubSeq(Stack, 1, Len(Stack) - 1) /\ Stack # <<>>
    BY <1>1, <2>1, PoppedMaps
  <2>3. U!Return
    BY <2>1, <2>2 DEF U!Return, U!Popped, Stack, KindsOf
  <2> QED
    BY <2>3 DEF U!Next
<1>5. CASE EvalRefused \/ Grow \/ Shrink
  <2>1. UNCHANGED <<calls, ctl>>
    BY <1>5 DEF EvalRefused, Grow, Shrink
  <2> QED
    BY <2>1 DEF U!vars
<1>6. CASE Raise \/ NoSlot
  <2>1. ctl = "run" /\ ctl' = "raise" /\ calls # <<>> /\ calls' = calls
    BY <1>6 DEF Raise, NoSlot, Throw, Evaluating, Inside
  <2>2. Stack[1] \in Catchers /\ 1 \in 1..Len(Stack)
    BY <1>1, <2>1, OutermostCatches
  <2>3. U!Fail
    BY <2>1, <2>2 DEF U!Fail, Stack, KindsOf, Catchers
  <2> QED
    BY <2>3 DEF U!Next
<1>7. CASE OnError
  BY <1>7, JumpMaps DEF U!Next
<1>8. CASE LoadCaught
  <2>1. ctl = "caught" /\ ctl' = "raise" /\ calls # <<>> /\ calls' = Below /\ Top.kind = "load"
    BY <1>8 DEF LoadCaught, RaiseAgain, Caught, Inside, Leave
  <2>2. Stack' = SubSeq(Stack, 1, Len(Stack) - 1) /\ Stack # <<>> /\ Stack[Len(Stack)] = "load"
    BY <1>1, <2>1, PoppedMaps
  <2>4. (ctl \in {"raise", "caught"}) = TRUE /\ (ctl' \in {"raise", "caught"}) = TRUE
    BY <2>1
  <2>5. Stack[Len(Stack)] \in {"load"}
    BY <2>2
  <2>3. U!Forward
    BY <2>2, <2>4, <2>5, Zenon DEF U!Forward, U!Popped, U!Innermost, Stack, KindsOf
  <2> QED
    BY <2>3 DEF U!Next
<1>9. CASE TryCaught \/ EvalCaught \/ OpenCaught
  <2>1. /\ ctl = "caught" /\ ctl' \in {"run", "closed"} /\ calls # <<>> /\ calls' = Below
        /\ Top.kind \in Catchers
    BY <1>9 DEF TryCaught, EvalCaught, OpenCaught, Caught, Inside, Leave, Catchers
  <2>2. /\ Stack' = SubSeq(Stack, 1, Len(Stack) - 1)
        /\ Stack # <<>> /\ Stack[Len(Stack)] \in Catchers
    BY <1>1, <2>1, PoppedMaps
  <2>4. (ctl \in {"raise", "caught"}) = TRUE /\ (ctl' \in {"raise", "caught"}) = FALSE
    BY <2>1
  <2>3. U!Handle
    BY <2>2, <2>4, Zenon DEF U!Handle, U!Popped, U!Innermost, Stack, KindsOf, Catchers
  <2> QED
    BY <2>3 DEF U!Next
<1>10. CASE TryCaughtFails
  <2>1. /\ ctl = "caught" /\ ctl' = "raise" /\ calls # <<>> /\ calls' = Below
        /\ Top.kind = "try"
    BY <1>10 DEF TryCaughtFails, Throw, Caught, Inside, Leave
  <2>2. /\ Stack' = SubSeq(Stack, 1, Len(Stack) - 1)
        /\ Stack # <<>> /\ Stack[Len(Stack)] \in Catchers /\ Len(Stack) = n
    BY <1>1, <2>1, PoppedMaps DEF Catchers
  <2>3. n \in Nat /\ n > 1
    BY <2>1, TopFacts
  <2>4. 1 \in 1..(Len(Stack) - 1)
    BY <2>2, <2>3
  <2>5. Stack[1] \in Catchers
    BY <1>1, <2>1, OutermostCatches
  <2>7. (ctl \in {"raise", "caught"}) = TRUE /\ (ctl' \in {"raise", "caught"}) = TRUE
    BY <2>1
  <2>8. (\E i \in 1..(Len(Stack) - 1) : Stack[i] \in Catchers) = TRUE
    BY <2>4, <2>5
  <2>6. U!Handle
    BY <2>2, <2>7, <2>8, Zenon DEF U!Handle, U!Popped, U!Innermost, Stack, KindsOf, Catchers
  <2> QED
    BY <2>6 DEF U!Next
<1> QED
  BY <1>2, <1>3, <1>4, <1>5, <1>6, <1>7, <1>8, <1>9, <1>10 DEF Next, Unwind

(* The array, the index and the restores of every handler add up to: an    *)
(* error unwinds to the nearest guard (module Unwinding).                  *)
THEOREM GuardsImplementUnwinding == Spec => Unwinds
<1>1. Init => U!Init
  <2> SUFFICES ASSUME Init PROVE U!Init
    OBVIOUS
  <2>1. TypeOK /\ calls # <<>> /\ Len(calls) = 1 /\ calls[1].kind = "open" /\ ctl = "run"
    BY InitInv DEF GuardsInv, Init
  <2>2. KindsOf(calls) = <<"open">>
    BY <2>1 DEF KindsOf
  <2> QED
    BY <2>1, <2>2 DEF U!Init, KindsOf
<1> QED
  BY <1>1, SpecInv, StepMaps, PTL DEF Spec, Unwinds, U!Spec
=============================================================================
