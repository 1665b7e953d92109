-------------------------- MODULE RecursionTheorems --------------------------
(***************************************************************************)
(* Induction and recursion over initial segments of the natural numbers,   *)
(* from the well-foundedness of <.  A property is given as a set and a     *)
(* recursive definition as a function of its step, so that every fact      *)
(* below is one that first-order provers can instantiate; the folds and    *)
(* the flattening of sequences in the models are recursions of this form.  *)
(***************************************************************************)
EXTENDS Integers, Sequences, SequencesExt, SequenceTheorems, WellFoundedInduction, TLAPS

(* A set of natural numbers that is not empty has a least element.         *)
LEMMA LeastExists ==
  ASSUME NEW T \in SUBSET Nat, T # {}
  PROVE  \E d \in T : \A y \in T : d <= y
<1>1. IsWellFoundedOn(OpToRel(<, Nat), Nat)
  BY NatLessThanWellFounded
<1>2. \E x \in T : \A y \in T : ~(<<y, x>> \in OpToRel(<, Nat))
  BY <1>1, WFMin
<1>3. \E x \in T : \A y \in T : ~(y < x)
  BY <1>2 DEF OpToRel
<1>4. QED
  BY <1>3

(* Induction up to n: the least number outside would have a predecessor.   *)
LEMMA UpTo ==
  ASSUME NEW n \in Nat, NEW T, 0 \in T, \A i \in 1..n : i - 1 \in T => i \in T
  PROVE  0..n \subseteq T
<1> DEFINE Rest == {i \in 0..n : i \notin T}
<1>1. SUFFICES ASSUME Rest # {} PROVE FALSE
  OBVIOUS
<1>2. Rest \in SUBSET Nat
  OBVIOUS
<1>3. PICK d \in Rest : \A y \in Rest : d <= y
  <2> HIDE DEF Rest
  <2> QED
    BY <1>1, <1>2, LeastExists
<1>4. d \in 1..n
  BY <1>3
<1>5. d - 1 \in T
  BY <1>3, <1>4
<1>6. QED
  BY <1>3, <1>4, <1>5

(* A recursion of n steps: g[i] is made of g[i - 1] by step[i].            *)
Computes(g, n, a, step) == g[0] = a /\ \A i \in 1..n : g[i] = step[i][g[i - 1]]

(* It has a solution, with values in A.                                    *)
LEMMA RecursionExists ==
  ASSUME NEW n \in Nat, NEW A, NEW a \in A, NEW step \in [1..n -> [A -> A]]
  PROVE  \E g \in [0..n -> A] : Computes(g, n, a, step)
<1> DEFINE T == {m \in 0..n : \E g \in [0..m -> A] : Computes(g, m, a, step)}
<1>1. 0 \in T
  <2> DEFINE g == [i \in 0..0 |-> a]
  <2>1. g \in [0..0 -> A] /\ Computes(g, 0, a, step)
    BY DEF Computes
  <2>2. QED
    <3> HIDE DEF g
    <3> QED
      BY <2>1
<1>2. ASSUME NEW m \in 1..n, m - 1 \in T
      PROVE  m \in T
  <2>1. PICK g \in [0..(m - 1) -> A] : Computes(g, m - 1, a, step)
    BY <1>2
  <2> DEFINE h == [i \in 0..m |-> IF i = m THEN step[m][g[m - 1]] ELSE g[i]]
  <2>2. g[m - 1] \in A
    OBVIOUS
  <2>3. h \in [0..m -> A] /\ h[0] = a
    BY <2>1, <2>2 DEF Computes
  <2>4. ASSUME NEW i \in 1..m PROVE h[i] = step[i][h[i - 1]]
    <3>1. CASE i = m
      <4>1. h[i] = step[m][g[m - 1]] /\ h[i - 1] = g[m - 1]
        BY <3>1
      <4>2. QED
        BY <3>1, <4>1, Zenon
    <3>2. CASE i # m
      <4>1. h[i] = g[i] /\ h[i - 1] = g[i - 1] /\ i \in 1..(m - 1)
        BY <3>2
      <4>2. QED
        BY <2>1, <4>1, Zenon DEF Computes
    <3>3. QED
      BY <3>1, <3>2
  <2>5. Computes(h, m, a, step)
    <3> HIDE DEF h
    <3> QED
      BY <2>3, <2>4 DEF Computes
  <2>6. QED
    <3> HIDE DEF h
    <3> QED
      BY <2>3, <2>5
<1>3. 0..n \subseteq T
  <2> HIDE DEF T
  <2> QED
    BY <1>1, <1>2, UpTo
<1>4. n \in T
  <2> HIDE DEF T
  <2> QED
    BY <1>3
<1>5. QED
  BY <1>4, Zenon

(* The greatest element, as the folds choose it.                           *)
Biggest(S) == CHOOSE x \in S : \A y \in S : x >= y

LEMMA BiggestIs ==
  ASSUME NEW S \in SUBSET Int, NEW m \in S, \A y \in S : y <= m
  PROVE  Biggest(S) = m
<1>1. \A x \in S : (\A y \in S : x >= y) <=> x = m
  OBVIOUS
<1>2. QED
  BY <1>1 DEF Biggest

(* There is one, in a set of indices.                                      *)
LEMMA BiggestExists ==
  ASSUME NEW n \in Nat, NEW S \in SUBSET (1..n), S # {}
  PROVE  Biggest(S) \in S /\ S \ {Biggest(S)} \in SUBSET (1..n)
<1> DEFINE T == {k \in 0..n : \E x \in S : x = n - k}
<1>1. T \in SUBSET Nat /\ T # {}
  <2>1. PICK x \in S : TRUE
    OBVIOUS
  <2>2. n - x \in T
    BY <2>1
  <2>3. QED
    BY <2>2
<1>2. PICK d \in T : \A y \in T : d <= y
  <2> HIDE DEF T
  <2> QED
    BY <1>1, LeastExists
<1>3. n - d \in S
  OBVIOUS
<1>4. ASSUME NEW y \in S PROVE y <= n - d
  <2>1. n - y \in T
    OBVIOUS
  <2>2. QED
    BY <1>2, <2>1
<1>5. Biggest(S) = n - d
  <2> HIDE DEF T
  <2>1. S \in SUBSET Int
    OBVIOUS
  <2>2. QED
    BY <1>3, <1>4, <2>1, BiggestIs
<1>6. QED
  BY <1>3, <1>5

LEMMA Segments ==
  ASSUME NEW n \in Nat, NEW i \in 1..n
  PROVE  /\ (1..i) \ {i} = 1..(i - 1) /\ 1..i # {} /\ 1..i \in SUBSET (1..n)
         /\ Biggest(1..i) = i
<1>1. 1..i \in SUBSET Int /\ i \in 1..i /\ \A y \in 1..i : y <= i
  OBVIOUS
<1>2. Biggest(1..i) = i
  BY <1>1, BiggestIs
<1>3. i \in 1..i /\ \A y \in 1..i : y \in 1..n
  OBVIOUS
<1>4. (1..i) \ {i} = 1..(i - 1)
  OBVIOUS
<1>5. QED
  BY <1>2, <1>3, <1>4

(* A fold takes the greatest index away until none is left: its recursion, *)
(* over sets of n indices, step[i] being its operator on element i.        *)
FoldsBy(f, n, a, step) ==
  \A s \in SUBSET (1..n) : f[s] = IF s = {} THEN a ELSE step[Biggest(s)][f[s \ {Biggest(s)}]]

(* It has a solution, with values in A.                                    *)
LEMMA FoldExists ==
  ASSUME NEW n \in Nat, NEW A, NEW a \in A, NEW step \in [1..n -> [A -> A]]
  PROVE  \E f \in [SUBSET (1..n) -> A] : FoldsBy(f, n, a, step)
<1> DEFINE T == {m \in 0..n : \E f \in [SUBSET (1..m) -> A] : FoldsBy(f, m, a, step)}
<1>1. 0 \in T
  <2> DEFINE f == [s \in SUBSET (1..0) |-> a]
  <2>1. \A s \in SUBSET (1..0) : s = {}
    OBVIOUS
  <2>2. f \in [SUBSET (1..0) -> A] /\ FoldsBy(f, 0, a, step)
    BY <2>1 DEF FoldsBy
  <2>3. QED
    <3> HIDE DEF f
    <3>1. 0 \in 0..n
      OBVIOUS
    <3>2. QED
      BY <2>2, <3>1, Zenon
<1>2. ASSUME NEW m \in 1..n, m - 1 \in T
      PROVE  m \in T
  <2>1. PICK f \in [SUBSET (1..(m - 1)) -> A] : FoldsBy(f, m - 1, a, step)
    BY <1>2
  <2> DEFINE D == SUBSET (1..(m - 1))
             h == [s \in SUBSET (1..m) |-> IF m \in s THEN step[m][f[s \ {m}]] ELSE f[s]]
  <2>2. ASSUME NEW s \in SUBSET (1..m) PROVE s \ {m} \in D /\ (m \notin s => s \in D)
    OBVIOUS
  <2>3. \A s \in D : f[s] \in A
    OBVIOUS
  <2>4. h \in [SUBSET (1..m) -> A]
    <3> SUFFICES ASSUME NEW s \in SUBSET (1..m)
                 PROVE  (IF m \in s THEN step[m][f[s \ {m}]] ELSE f[s]) \in A
      OBVIOUS
    <3>1. f[s \ {m}] \in A /\ (m \notin s => f[s] \in A)
      BY <2>2, <2>3
    <3>2. QED
      BY <3>1
  <2>5. ASSUME NEW s \in SUBSET (1..m), s # {}
        PROVE  h[s] = step[Biggest(s)][h[s \ {Biggest(s)}]]
    <3>1. CASE m \in s
      <4>1. Biggest(s) = m
        BY <3>1, BiggestIs
      <4>2. s \ {m} \in D /\ m \notin s \ {m} /\ s \ {m} \in SUBSET (1..m)
        BY <2>2
      <4>3. h[s \ {m}] = f[s \ {m}]
        BY <4>2
      <4>4. QED
        BY <3>1, <4>1, <4>3
    <3>2. CASE m \notin s
      <4>1. s \in D /\ s \ {Biggest(s)} \in D
        BY <2>2, <3>2
      <4>2. f[s] = step[Biggest(s)][f[s \ {Biggest(s)}]]
        <5> HIDE DEF h
        <5> QED
          BY <2>1, <2>5, <4>1, Zenon DEF FoldsBy
      <4>3. h[s \ {Biggest(s)}] = f[s \ {Biggest(s)}] /\ h[s] = f[s]
        BY <3>2, <4>1
      <4>4. QED
        BY <4>2, <4>3
    <3>3. QED
      BY <3>1, <3>2
  <2>6. h[{}] = a
    <3>1. {} \in D
      OBVIOUS
    <3>2. f[{}] = a
      BY <2>1, <3>1, Zenon DEF FoldsBy
    <3>3. QED
      BY <3>2
  <2>7. FoldsBy(h, m, a, step)
    <3> HIDE DEF h
    <3> QED
      BY <2>5, <2>6 DEF FoldsBy
  <2>8. QED
    <3> HIDE DEF h
    <3> QED
      BY <2>4, <2>7
<1>3. 0..n \subseteq T
  <2> HIDE DEF T
  <2> QED
    BY <1>1, <1>2, UpTo
<1>4. n \in T
  <2> HIDE DEF T
  <2> QED
    BY <1>3
<1>5. QED
  BY <1>4, Zenon

(* What the recursion of a fold computes from a sequence, where it only    *)
(* meets sets of the first indices, it computes one element after the      *)
(* other.                                                                  *)
GoesBy(it, n, A, a, step) ==
  /\ it[{}] = a
  /\ \A i \in 1..n : it[1..(i - 1)] \in A => it[1..i] = step[i][it[1..(i - 1)]]

LEMMA FoldSteps ==
  ASSUME NEW n \in Nat, NEW A, NEW a \in A, NEW step \in [1..n -> [A -> A]],
         NEW it, GoesBy(it, n, A, a, step)
  PROVE  \E g \in [0..n -> A] : g[n] = it[1..n] /\ Computes(g, n, a, step)
<1>1. PICK g \in [0..n -> A] : Computes(g, n, a, step)
  BY RecursionExists
<1> DEFINE T == {i \in 0..n : it[1..i] = g[i]}
<1>2. 0 \in T
  <2>1. 1..0 = {}
    OBVIOUS
  <2>2. it[{}] = a
    BY DEF GoesBy
  <2>3. g[0] = a
    BY <1>1 DEF Computes
  <2>4. QED
    BY <2>1, <2>2, <2>3
<1>3. ASSUME NEW i \in 1..n, i - 1 \in T
      PROVE  i \in T
  <2>1. it[1..i] = step[i][it[1..(i - 1)]]
    <3>1. g[i - 1] \in A /\ it[1..(i - 1)] = g[i - 1]
      BY <1>3
    <3>2. QED
      BY <3>1, Zenon DEF GoesBy
  <2>2. g[i] = step[i][g[i - 1]]
    BY <1>1, Zenon DEF Computes
  <2>3. QED
    BY <1>3, <2>1, <2>2
<1>4. 0..n \subseteq T
  <2> HIDE DEF T
  <2> QED
    BY <1>2, <1>3, UpTo
<1>5. g[n] = it[1..n]
  BY <1>4
<1>6. QED
  BY <1>1, <1>5

(***************************************************************************)
(* Flattening.                                                             *)
(***************************************************************************)
Joins(g, seqs) ==
  /\ g[0] = <<>>
  /\ \A i \in 1..Len(seqs) : g[i] = g[i - 1] \o seqs[i]

(* FlattenSeq puts the sequences together from the first to the last.      *)
LEMMA FlattenSteps ==
  ASSUME NEW E, NEW seqs \in Seq(Seq(E))
  PROVE  \E g \in [0..Len(seqs) -> Seq(E)] : Joins(g, seqs) /\ FlattenSeq(seqs) = g[Len(seqs)]
<1> DEFINE n == Len(seqs)
           step == [i \in 1..n |-> [s \in Seq(E) |-> s \o seqs[i]]]
           Body(f) == [i \in 1..n |-> IF i = 1 THEN seqs[i] ELSE f[i - 1] \o seqs[i]]
           it == CHOOSE f : f = Body(f)
<1>1. n \in Nat /\ <<>> \in Seq(E) /\ \A i \in 1..n : seqs[i] \in Seq(E)
  OBVIOUS
<1>2. step \in [1..n -> [Seq(E) -> Seq(E)]]
  <2> SUFFICES ASSUME NEW i \in 1..n, NEW s \in Seq(E) PROVE s \o seqs[i] \in Seq(E)
    OBVIOUS
  <2> QED
    BY <1>1
<1>3. PICK g \in [0..n -> Seq(E)] : Computes(g, n, <<>>, step)
  <2> HIDE DEF n, step
  <2> QED
    BY <1>1, <1>2, RecursionExists
<1>4. ASSUME NEW i \in 1..n
      PROVE  g[i] = g[i - 1] \o seqs[i]
  <2>1. g[i - 1] \in Seq(E)
    <3>1. i - 1 \in 0..n
      BY <1>1
    <3>2. QED
      BY <3>1
  <2>2. g[i] = step[i][g[i - 1]]
    BY <1>3, Zenon DEF Computes
  <2>3. QED
    BY <2>1, <2>2
<1>5. g[0] = <<>> /\ (n # 0 => g[1] = seqs[1])
  <2>1. g[0] = <<>>
    BY <1>3 DEF Computes
  <2>2. ASSUME n # 0 PROVE g[1] = seqs[1]
    <3>1. 1 \in 1..n /\ 1 - 1 = 0
      BY <1>1, <2>2
    <3>2. g[1] = <<>> \o seqs[1]
      BY <1>4, <2>1, <3>1
    <3>3. QED
      BY <1>1, <3>1, <3>2, ConcatEmptySeq
  <2>3. QED
    BY <2>1, <2>2
<1>6. Joins(g, seqs)
  BY <1>4, <1>5 DEF Joins
<1>7. CASE n = 0
  <2>1. seqs = <<>> /\ FlattenSeq(seqs) = seqs
    BY <1>7 DEF FlattenSeq
  <2>2. FlattenSeq(seqs) = g[n]
    BY <1>5, <1>7, <2>1
  <2>3. QED
    BY <1>6, <2>2
<1>8. CASE n # 0
  <2>1. FlattenSeq(seqs) = it[n]
    BY <1>8, Zenon DEF FlattenSeq
  <2> DEFINE h == [i \in 1..n |-> g[i]]
  <2>2. h = Body(h)
    <3>1. ASSUME NEW i \in 1..n PROVE g[i] = IF i = 1 THEN seqs[i] ELSE h[i - 1] \o seqs[i]
      <4>1. CASE i = 1
        BY <1>5, <1>8, <4>1
      <4>2. CASE i # 1
        <5>1. h[i - 1] = g[i - 1]
          BY <4>2
        <5>2. QED
          BY <1>4, <4>2, <5>1
      <4>3. QED
        BY <4>1, <4>2
    <3>2. QED
      BY <3>1, Zenon
  <2>3. it = Body(it)
    <3> HIDE DEF Body, h
    <3> QED
      BY <2>2, Zenon
  <2> DEFINE T == {i \in 0..n : i = 0 \/ it[i] = g[i]}
  <2>4. ASSUME NEW i \in 1..n, i - 1 \in T
        PROVE  i \in T
    <3>1. it[i] = IF i = 1 THEN seqs[i] ELSE it[i - 1] \o seqs[i]
      <4> HIDE DEF it
      <4> QED
        BY <2>3
    <3>2. g[i] = IF i = 1 THEN seqs[i] ELSE g[i - 1] \o seqs[i]
      BY <1>4, <1>5, <1>8, Zenon
    <3> HIDE DEF it, step
    <3>3. QED
      BY <2>4, <3>1, <3>2
  <2>5. 0 \in T
    OBVIOUS
  <2>6. 0..n \subseteq T
    <3> HIDE DEF T, n
    <3> QED
      BY <1>1, <2>4, <2>5, UpTo
  <2>7. it[n] = g[n]
    <3> HIDE DEF it, step
    <3> QED
      BY <1>1, <1>8, <2>6
  <2>8. QED
    <3> HIDE DEF it, step
    <3> QED
      BY <1>6, <2>1, <2>7
<1>9. QED
  BY <1>7, <1>8

(* Two ways to put the same sequences together agree.                      *)
Alike(n, s, t) == \A i \in 1..n : s[i] = t[i]

LEMMA JoinsAlike ==
  ASSUME NEW n \in Nat, NEW s, NEW t, NEW g, NEW h, n <= Len(s), n <= Len(t),
         Len(s) \in Nat, Len(t) \in Nat,
         Alike(n, s, t), Joins(g, s), Joins(h, t)
  PROVE  g[n] = h[n]
<1> DEFINE T == {i \in 0..n : g[i] = h[i]}
<1>1. 0 \in T
  BY DEF Joins
<1>2. ASSUME NEW i \in 1..n, i - 1 \in T
      PROVE  i \in T
  <2>1. i \in 1..Len(s) /\ i \in 1..Len(t)
    OBVIOUS
  <2>2. g[i] = g[i - 1] \o s[i] /\ h[i] = h[i - 1] \o t[i]
    BY <2>1, Zenon DEF Joins
  <2>3. g[i - 1] = h[i - 1] /\ s[i] = t[i]
    BY <1>2 DEF Alike
  <2>4. i \in 0..n
    OBVIOUS
  <2>5. g[i] = h[i]
    BY <2>2, <2>3, Zenon
  <2>6. QED
    BY <2>4, <2>5
<1>3. 0..n \subseteq T
  <2> HIDE DEF T
  <2> QED
    BY <1>1, <1>2, UpTo
<1>4. QED
  BY <1>3

LEMMA FlattenAppend ==
  ASSUME NEW E, NEW seqs \in Seq(Seq(E)), NEW x \in Seq(E)
  PROVE  FlattenSeq(Append(seqs, x)) = FlattenSeq(seqs) \o x
<1> DEFINE more == Append(seqs, x)
<1>1. PICK n \in Nat : n = Len(seqs)
  OBVIOUS
<1>2. /\ more \in Seq(Seq(E)) /\ Len(more) = n + 1 /\ more[n + 1] = x
      /\ Alike(n, more, seqs)
  BY <1>1 DEF Alike
<1> HIDE DEF more
<1>3. PICK g : Joins(g, seqs) /\ FlattenSeq(seqs) = g[n]
  BY <1>1, FlattenSteps
<1>4. PICK h : Joins(h, more) /\ FlattenSeq(more) = h[n + 1]
  BY <1>2, FlattenSteps
<1>5. h[n] = g[n]
  <2>1. n <= Len(more) /\ n <= Len(seqs) /\ Len(more) \in Nat /\ Len(seqs) \in Nat
    BY <1>1, <1>2
  <2>2. Joins(h, more) /\ Joins(g, seqs) /\ Alike(n, more, seqs)
    BY <1>2, <1>3, <1>4
  <2>3. QED
    BY <2>1, <2>2, JoinsAlike
<1>6. h[n + 1] = h[n] \o x
  <2>1. n + 1 \in 1..Len(more) /\ (n + 1) - 1 = n
    BY <1>2
  <2>2. QED
    BY <1>2, <1>4, <2>1 DEF Joins
<1>7. QED
  BY <1>3, <1>4, <1>5, <1>6 DEF more

LEMMA FlattenNone == FlattenSeq(<<>>) = <<>>
  BY DEF FlattenSeq

LEMMA FlattenType ==
  ASSUME NEW E, NEW seqs \in Seq(Seq(E))
  PROVE  FlattenSeq(seqs) \in Seq(E)
<1>1. PICK g \in [0..Len(seqs) -> Seq(E)] : Joins(g, seqs) /\ FlattenSeq(seqs) = g[Len(seqs)]
  BY FlattenSteps
<1>2. Len(seqs) \in 0..Len(seqs)
  OBVIOUS
<1>3. QED
  BY <1>1, <1>2

(* A part of a sequence.                                                   *)
LEMMA SliceIs ==
  ASSUME NEW T, NEW s \in Seq(T), NEW m \in Nat \ {0}, NEW k \in Nat, k <= Len(s), m <= k + 1
  PROVE  /\ SubSeq(s, m, k) \in Seq(T) /\ Len(SubSeq(s, m, k)) = k - m + 1
         /\ \A i \in 1..(k - m + 1) : SubSeq(s, m, k)[i] = s[m + i - 1]
<1>1. SubSeq(s, m, k) \in Seq(T) /\ Len(SubSeq(s, m, k)) = k - m + 1
  OBVIOUS
<1>2. ASSUME NEW i \in 1..(k - m + 1) PROVE SubSeq(s, m, k)[i] = s[m + i - 1]
  OBVIOUS
<1>3. QED
  BY <1>1, <1>2
=============================================================================
