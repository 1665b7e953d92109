------------------------------ MODULE TextProofs ------------------------------
(***************************************************************************)
(* Proofs about the text buffer of the editor: no command changes the text *)
(* and leaves it clean, and undo and redo bring back the texts that they   *)
(* promise.                                                                *)
(***************************************************************************)
EXTENDS TextBuffer, RecursionTheorems, FiniteSetTheorems

(***************************************************************************)
(* Its commands                                                            *)
(***************************************************************************)
ByteTexts == Seq(Nat)

EditRecords == [op : {"ins", "del"}, row : Nat, col : Nat, txt : ByteTexts, was : ByteTexts]

Buffers ==
  [above : Seq(ByteTexts), cur : ByteTexts, below : Seq(ByteTexts), col : Nat, goal : Nat,
   modified : BOOLEAN, undo : Seq(EditRecords), redo : Seq(EditRecords),
   mark : {NoMark} \cup (Nat \X Nat), kill : Seq(ByteTexts)]

(* The point is on the line, and the records that are undone and redone    *)
(* are together never more than the stack may hold.                        *)
WellFormed(x) ==
  /\ x \in Buffers /\ x.col <= Len(x.cur)
  /\ Len(x.undo) + Len(x.redo) <= UndoCap /\ Len(x.kill) <= KillCap

LEMMA SubstringType ==
  ASSUME NEW s \in ByteTexts, NEW i \in Nat, NEW j \in Nat
  PROVE  /\ substring(s, i, j) \in ByteTexts
         /\ i <= j /\ j <= Len(s) => Len(substring(s, i, j)) = j - i
<1> DEFINE k == AtMost(j, Len(s))
<1>1. Len(s) \in Nat /\ k \in 0..Len(s) /\ (j <= Len(s) => k = j)
  BY DEF AtMost, ByteTexts
<1> HIDE DEF k
<1>2. CASE i <= k
  <2>1. i + 1 \in 1..(Len(s) + 1) /\ k \in ((i + 1) - 1)..Len(s)
    BY <1>1, <1>2
  <2>2. /\ SubSeq(s, i + 1, k) \in ByteTexts
        /\ Len(SubSeq(s, i + 1, k)) = IF i + 1 <= k THEN k - (i + 1) + 1 ELSE 0
    BY <2>1, SubSeqProperties DEF ByteTexts
  <2>3. QED
    BY <1>1, <1>2, <2>2 DEF substring, k
<1>3. CASE i > k
  <2>1. SubSeq(s, i + 1, k) = <<>>
    BY <1>1, <1>3, SubSeqEmpty DEF ByteTexts
  <2>2. <<>> \in ByteTexts
    BY DEF ByteTexts
  <2>3. QED
    <3>1. ~(i <= j /\ j <= Len(s))
      BY <1>1, <1>3
    <3>2. substring(s, i, j) = <<>>
      BY <2>1 DEF substring, k
    <3>3. QED
      BY <2>2, <3>1, <3>2
<1>4. QED
  BY <1>1, <1>2, <1>3

LEMMA FrontLast ==
  ASSUME NEW T, NEW s \in Seq(T), s # <<>>
  PROVE  /\ Front(s) \in Seq(T) /\ Last(s) \in T /\ Len(Front(s)) = Len(s) - 1
         /\ Front(s) \o <<Last(s)>> = s /\ Len(s) \in Nat \ {0}
<1>1. Len(s) \in Nat \ {0}
  BY EmptySeq
<1>2. PICK n \in Nat \ {0} : n = Len(s)
  BY <1>1
<1>3. PICK f : f = SubSeq(s, 1, n - 1)
  OBVIOUS
<1>4. f \in Seq(T) /\ Len(f) = (n - 1) - 1 + 1 /\ \A i \in 1..((n - 1) - 1 + 1) : f[i] = s[1 + i - 1]
  BY <1>2, <1>3, SliceIs
<1>5. Front(s) = f /\ Len(f) = n - 1 /\ \A i \in 1..(n - 1) : f[i] = s[i]
  BY <1>2, <1>3, <1>4 DEF Front
<1>6. Last(s) = s[n] /\ s[n] \in T
  BY <1>1, <1>2 DEF Last
<1>7. f \o <<s[n]>> = s
  <2>1. /\ f \o <<s[n]>> \in Seq(T) /\ Len(f \o <<s[n]>>) = n
        /\ \A i \in 1..n : (f \o <<s[n]>>)[i] = s[i]
    BY <1>1, <1>2, <1>4, <1>5, <1>6, SMTT(15)
  <2>2. QED
    BY <1>2, <2>1, SeqEqual
<1>8. QED
  BY <1>1, <1>2, <1>4, <1>5, <1>6, <1>7

LEMMA HeadTail ==
  ASSUME NEW T, NEW s \in Seq(T), s # <<>>
  PROVE  Head(s) \in T /\ Tail(s) \in Seq(T) /\ <<Head(s)>> \o Tail(s) = s
<1>1. Head(s) \in T /\ Tail(s) \in Seq(T)
  BY HeadTailProperties
<1>2. QED
  BY <1>1

LEMMA TakeType ==
  ASSUME NEW T, NEW s \in Seq(T), NEW n \in Nat
  PROVE  Take(s, n) \in Seq(T) /\ Len(Take(s, n)) <= n /\ Len(Take(s, n)) <= Len(s)
<1>1. PICK m \in Nat : m = Len(s)
  OBVIOUS
<1>2. PICK k : k = AtMost(n, m) /\ k \in 0..m /\ k <= n
  BY DEF AtMost
<1>3. m - k + 1 \in 1..(Len(s) + 1) /\ m \in ((m - k + 1) - 1)..Len(s)
  BY <1>1, <1>2
<1>4. /\ SubSeq(s, m - k + 1, m) \in Seq(T)
      /\ Len(SubSeq(s, m - k + 1, m)) = IF m - k + 1 <= m THEN m - (m - k + 1) + 1 ELSE 0
  BY <1>3, SubSeqProperties
<1>5. QED
  BY <1>1, <1>2, <1>4, SMTT(15) DEF Take

(* Moving from line to line keeps the lines.                               *)
LEMMA LinesType ==
  ASSUME NEW x \in Buffers
  PROVE  /\ Lines(x) \in Seq(ByteTexts) /\ Len(Lines(x)) = Len(x.above) + 1 + Len(x.below)
         /\ Len(Lines(x)) \in Nat \ {0}
  BY DEF Lines, Buffers

LEMMA MovedOn ==
  ASSUME NEW a \in Seq(ByteTexts), NEW c \in ByteTexts, NEW d \in Seq(ByteTexts), d # <<>>
  PROVE  Append(a, c) \o <<Head(d)>> \o Tail(d) = a \o <<c>> \o d
<1>1. Head(d) \in ByteTexts /\ Tail(d) \in Seq(ByteTexts) /\ <<Head(d)>> \o Tail(d) = d
  BY HeadTail
<1> DEFINE h == <<Head(d)>>  t == Tail(d)
<1>2. h \in Seq(ByteTexts) /\ t \in Seq(ByteTexts) /\ h \o t = d
  BY <1>1
<1>3. Append(a, c) = a \o <<c>> /\ Append(a, c) \in Seq(ByteTexts)
  OBVIOUS
<1> HIDE DEF h, t
<1>4. (Append(a, c) \o h) \o t = Append(a, c) \o (h \o t)
  <2>1. \A p, q, r \in Seq(ByteTexts) : (p \o q) \o r = p \o (q \o r)
    BY ConcatAssociative, SMTT(30)
  <2>2. QED
    BY <1>2, <1>3, <2>1, Zenon
<1>5. (Append(a, c) \o h) \o t = a \o <<c>> \o d
  BY <1>2, <1>3, <1>4
<1>6. QED
  BY <1>5 DEF h, t

LEMMA MovedBack ==
  ASSUME NEW a \in Seq(ByteTexts), NEW c \in ByteTexts, NEW d \in Seq(ByteTexts), a # <<>>
  PROVE  Front(a) \o <<Last(a)>> \o (<<c>> \o d) = a \o <<c>> \o d
<1>1. Front(a) \o <<Last(a)>> = a
  BY FrontLast
<1>2. <<c>> \in Seq(ByteTexts)
  OBVIOUS
<1>3. a \o (<<c>> \o d) = (a \o <<c>>) \o d
  BY <1>2, ConcatAssociative
<1>4. QED
  BY <1>1, <1>3

LEMMA CutAt ==
  ASSUME NEW T, NEW ls \in Seq(T), NEW k \in 1..Len(ls)
  PROVE  /\ SubSeq(ls, 1, k - 1) \in Seq(T) /\ ls[k] \in T /\ SubSeq(ls, k + 1, Len(ls)) \in Seq(T)
         /\ SubSeq(ls, 1, k - 1) \o <<ls[k]>> \o SubSeq(ls, k + 1, Len(ls)) = ls
<1>1. PICK n \in Nat : n = Len(ls)
  OBVIOUS
<1>2. ls[k] \in T /\ k \in 1..n
  BY <1>1
<1>3. PICK p : p = SubSeq(ls, 1, k - 1)
  OBVIOUS
<1>4. PICK q : q = SubSeq(ls, k + 1, n)
  OBVIOUS
<1>5. p \in Seq(T) /\ Len(p) = k - 1 /\ \A i \in 1..(k - 1) : p[i] = ls[i]
  <2>1. 1 \in Nat \ {0} /\ k - 1 \in Nat /\ k - 1 <= Len(ls) /\ 1 <= (k - 1) + 1
    BY <1>1, <1>2
  <2>2. p \in Seq(T) /\ Len(p) = (k - 1) - 1 + 1 /\ \A i \in 1..((k - 1) - 1 + 1) : p[i] = ls[1 + i - 1]
    BY <1>3, <2>1, SliceIs
  <2>3. QED
    BY <1>2, <2>2
<1>6. q \in Seq(T) /\ Len(q) = n - k /\ \A i \in 1..(n - k) : q[i] = ls[k + i]
  <2>1. k + 1 \in Nat \ {0} /\ n <= Len(ls) /\ k + 1 <= n + 1
    BY <1>1, <1>2
  <2>2. q \in Seq(T) /\ Len(q) = n - (k + 1) + 1 /\ \A i \in 1..(n - (k + 1) + 1) : q[i] = ls[(k + 1) + i - 1]
    BY <1>4, <2>1, SliceIs
  <2>3. QED
    BY <1>2, <2>2
<1>7. PICK r : r = p \o <<ls[k]>>
  OBVIOUS
<1>8. r \in Seq(T) /\ Len(r) = k /\ \A m \in 1..k : r[m] = ls[m]
  BY <1>2, <1>5, <1>7
<1>9. r \o q = ls
  <2>1. r \o q \in Seq(T) /\ Len(r \o q) = n
    <3>1. r \in Seq(T) /\ q \in Seq(T) /\ Len(r) = k /\ Len(q) = n - k
      BY <1>6, <1>8
    <3>2. Len(r \o q) = k + (n - k)
      BY <3>1
    <3>3. QED
      BY <1>2, <3>1, <3>2
  <2>2. ASSUME NEW i \in 1..n PROVE (r \o q)[i] = ls[i]
    <3>1. CASE i <= k
      BY <1>6, <1>8, <3>1
    <3>2. CASE i > k
      <4>1. i - k \in 1..(n - k) /\ (r \o q)[i] = q[i - k]
        BY <1>2, <1>6, <1>8, <3>2
      <4>2. QED
        BY <1>2, <1>6, <4>1
    <3>3. i <= k \/ i > k
      BY <1>2
    <3>4. QED
      BY <3>1, <3>2, <3>3
  <2>3. QED
    BY <1>1, <2>1, <2>2, SeqEqual
<1>10. QED
  BY <1>1, <1>2, <1>3, <1>4, <1>5, <1>6, <1>7, <1>9

(***************************************************************************)
(* Motion: the lines stay as they are, and with them the records.          *)
(***************************************************************************)
Moved(x, y) ==
  /\ WellFormed(y) /\ Lines(y) = Lines(x) /\ y.modified = x.modified
  /\ y.undo = x.undo /\ y.redo = x.redo /\ y.kill = x.kill /\ y.mark = x.mark

LEMMA SetColMoves ==
  ASSUME NEW x, WellFormed(x), NEW c \in Nat, c <= Len(x.cur)
  PROVE  Moved(x, SetCol(x, c)) /\ SetCol(x, c).cur = x.cur
  BY DEF Moved, WellFormed, SetCol, Lines, Buffers

LEMMA FromGoalMoves ==
  ASSUME NEW x \in Buffers, Len(x.undo) + Len(x.redo) <= UndoCap, Len(x.kill) <= KillCap
  PROVE  Moved(x, FromGoal(x)) /\ FromGoal(x).cur = x.cur
<1>1. PICK c \in Nat : c = AtMost(x.goal, Len(x.cur)) /\ c <= Len(x.cur)
  BY DEF AtMost, Buffers, ByteTexts
<1>2. QED
  BY <1>1 DEF Moved, WellFormed, FromGoal, Lines, Buffers

LEMMA NextLineMoves ==
  ASSUME NEW x, WellFormed(x)
  PROVE  Moved(x, NextLine(x))
<1>1. CASE x.below = <<>>
  BY <1>1 DEF NextLine, Moved
<1>2. CASE x.below # <<>>
  <2>1. /\ x \in Buffers /\ x.above \in Seq(ByteTexts) /\ x.cur \in ByteTexts /\ x.below \in Seq(ByteTexts)
        /\ Len(x.undo) + Len(x.redo) <= UndoCap /\ Len(x.kill) <= KillCap
    BY DEF WellFormed, Buffers
  <2>2. PICK h, t : /\ h = Head(x.below) /\ t = Tail(x.below)
                    /\ h \in ByteTexts /\ t \in Seq(ByteTexts)
    BY <1>2, <2>1, HeadTail
  <2>3. Append(x.above, x.cur) \o <<h>> \o t = x.above \o <<x.cur>> \o x.below
    BY <1>2, <2>1, <2>2, MovedOn
  <2> DEFINE a == Append(x.above, x.cur)
  <2>4. a \in Seq(ByteTexts)
    BY <2>1
  <2> HIDE DEF a
  <2> DEFINE y == [x EXCEPT !.above = a, !.cur = h, !.below = t]
  <2>5. /\ y \in Buffers /\ y.above = a /\ y.cur = h /\ y.below = t /\ y.modified = x.modified
        /\ y.undo = x.undo /\ y.redo = x.redo /\ y.kill = x.kill /\ y.mark = x.mark
    BY <2>1, <2>2, <2>4 DEF Buffers
  <2>6. NextLine(x) = FromGoal(y)
    BY <1>2, <2>2, <2>4 DEF NextLine, a
  <2> HIDE DEF y
  <2>7. Lines(y) = Lines(x)
    BY <2>3, <2>4, <2>5 DEF Lines, a
  <2>8. Moved(y, FromGoal(y))
    BY <2>1, <2>5, FromGoalMoves
  <2>9. QED
    BY <2>5, <2>6, <2>7, <2>8 DEF Moved
<1>3. QED
  BY <1>1, <1>2

LEMMA PrevLineMoves ==
  ASSUME NEW x, WellFormed(x)
  PROVE  Moved(x, PrevLine(x))
<1>1. CASE x.above = <<>>
  BY <1>1 DEF PrevLine, Moved
<1>2. CASE x.above # <<>>
  <2>1. /\ x \in Buffers /\ x.above \in Seq(ByteTexts) /\ x.cur \in ByteTexts /\ x.below \in Seq(ByteTexts)
        /\ Len(x.undo) + Len(x.redo) <= UndoCap /\ Len(x.kill) <= KillCap
    BY DEF WellFormed, Buffers
  <2>2. PICK f, l : /\ f = Front(x.above) /\ l = Last(x.above)
                    /\ f \in Seq(ByteTexts) /\ l \in ByteTexts
    BY <1>2, <2>1, FrontLast
  <2> DEFINE d == <<x.cur>> \o x.below
  <2>3. d \in Seq(ByteTexts)
    BY <2>1
  <2>4. f \o <<l>> \o d = x.above \o <<x.cur>> \o x.below
    BY <1>2, <2>1, <2>2, <2>3, MovedBack
  <2> HIDE DEF d
  <2> DEFINE y == [x EXCEPT !.below = d, !.cur = l, !.above = f]
  <2>5. /\ y \in Buffers /\ y.above = f /\ y.cur = l /\ y.below = d /\ y.modified = x.modified
        /\ y.undo = x.undo /\ y.redo = x.redo /\ y.kill = x.kill /\ y.mark = x.mark
    BY <2>1, <2>2, <2>3 DEF Buffers
  <2>6. PrevLine(x) = FromGoal(y)
    BY <1>2, <2>2, <2>3 DEF PrevLine, d
  <2> HIDE DEF y
  <2>7. Lines(y) = Lines(x)
    BY <2>4, <2>5 DEF Lines
  <2>8. Moved(y, FromGoal(y))
    BY <2>1, <2>5, FromGoalMoves
  <2>9. QED
    BY <2>5, <2>6, <2>7, <2>8 DEF Moved
<1>3. QED
  BY <1>1, <1>2

LEMMA MovedTwice ==
  ASSUME NEW x, NEW y, NEW z, Moved(x, y), Moved(y, z)
  PROVE  Moved(x, z)
  BY DEF Moved

LEMMA GotoMoves ==
  ASSUME NEW x, WellFormed(x), NEW r \in Nat, NEW c \in Nat
  PROVE  Moved(x, Goto(x, r, c))
<1>1. x \in Buffers /\ Lines(x) \in Seq(ByteTexts) /\ Len(Lines(x)) \in Nat \ {0}
  BY LinesType DEF WellFormed
<1>2. PICK ls : ls = Lines(x) /\ ls \in Seq(ByteTexts) /\ Len(ls) \in Nat \ {0}
  BY <1>1
<1>3. PICK k : k = AtMost(r, Len(ls) - 1) + 1 /\ k \in 1..Len(ls)
  BY <1>2 DEF AtMost
<1> DEFINE p == SubSeq(ls, 1, k - 1)  q == SubSeq(ls, k + 1, Len(ls))  col == AtMost(c, Len(ls[k]))
<1>4. /\ p \in Seq(ByteTexts) /\ q \in Seq(ByteTexts) /\ ls[k] \in ByteTexts
      /\ p \o <<ls[k]>> \o q = ls
  BY <1>2, <1>3, CutAt
<1>5. col \in Nat /\ col <= Len(ls[k])
  <2>1. Len(ls[k]) \in Nat
    BY <1>4 DEF ByteTexts
  <2>2. QED
    BY <2>1 DEF AtMost
<1> DEFINE y == [x EXCEPT !.above = p, !.cur = ls[k], !.below = q]
<1>6. Goto(x, r, c) = SetCol(y, col)
  BY <1>2, <1>3, <1>4, <1>5 DEF Goto
<1> HIDE DEF p, q, col
<1>7. /\ y \in Buffers /\ y.above = p /\ y.cur = ls[k] /\ y.below = q /\ y.modified = x.modified
      /\ y.undo = x.undo /\ y.redo = x.redo /\ y.kill = x.kill /\ y.mark = x.mark
  BY <1>1, <1>4 DEF Buffers
<1> HIDE DEF y
<1>8. Lines(y) = Lines(x)
  BY <1>2, <1>4, <1>7 DEF Lines
<1>9. PICK z : z = SetCol(y, col)
  OBVIOUS
<1>10. /\ z \in Buffers /\ z.above = p /\ z.cur = ls[k] /\ z.below = q /\ z.modified = x.modified
       /\ z.undo = x.undo /\ z.redo = x.redo /\ z.kill = x.kill /\ z.mark = x.mark /\ z.col = col
  BY <1>5, <1>7, <1>9 DEF Buffers, SetCol
<1>11. Lines(z) = Lines(x)
  BY <1>7, <1>8, <1>10 DEF Lines
<1>12. QED
  BY <1>5, <1>6, <1>9, <1>10, <1>11 DEF Moved, WellFormed

LEMMA MotionMoves ==
  ASSUME NEW x, WellFormed(x),
         NEW y \in {NextLine(x), PrevLine(x), Forward(x), Backward(x), LineStart(x), LineEnd(x),
                    TextStart(x), TextEnd(x)}
  PROVE  Moved(x, y)
<1> DEFINE Z == {z \in Nat : TRUE}
<1>1. \A z : WellFormed(z) => 0 <= Len(z.cur) /\ Len(z.cur) \in Nat /\ z.col \in Nat
  BY DEF WellFormed, Buffers, ByteTexts
<1>2. \A z : WellFormed(z) => Moved(z, SetCol(z, 0)) /\ Moved(z, SetCol(z, Len(z.cur)))
  BY <1>1, SetColMoves
<1>3. Moved(x, NextLine(x)) /\ Moved(x, PrevLine(x))
  BY NextLineMoves, PrevLineMoves
<1>4. Moved(x, Forward(x))
  <2>1. CASE x.col < Len(x.cur)
    <3>1. x.col + 1 \in Nat /\ x.col + 1 <= Len(x.cur)
      BY <1>1, <2>1
    <3>2. QED
      BY <2>1, <3>1, SetColMoves DEF Forward
  <2>2. CASE ~(x.col < Len(x.cur)) /\ x.below # <<>>
    BY <1>2, <1>3, <2>2, MovedTwice DEF Forward, Moved
  <2>3. CASE ~(x.col < Len(x.cur)) /\ x.below = <<>>
    BY <2>3 DEF Forward, Moved
  <2>4. QED
    BY <2>1, <2>2, <2>3
<1>5. Moved(x, Backward(x))
  <2>1. CASE x.col > 0
    <3>1. x.col - 1 \in Nat /\ x.col - 1 <= Len(x.cur)
      <4>1. x.col \in Nat /\ Len(x.cur) \in Nat /\ x.col <= Len(x.cur)
        BY <1>1 DEF WellFormed
      <4>2. QED
        BY <2>1, <4>1
    <3>2. QED
      BY <2>1, <3>1, SetColMoves DEF Backward
  <2>2. CASE ~(x.col > 0) /\ x.above # <<>>
    BY <1>2, <1>3, <2>2, MovedTwice DEF Backward, Moved
  <2>3. CASE ~(x.col > 0) /\ x.above = <<>>
    BY <2>3 DEF Backward, Moved
  <2>4. QED
    BY <2>1, <2>2, <2>3
<1>6. Moved(x, LineStart(x)) /\ Moved(x, LineEnd(x))
  BY <1>2 DEF LineStart, LineEnd
<1>7. Moved(x, TextStart(x)) /\ Moved(x, TextEnd(x))
  <2>1. Len(Lines(x)) \in Nat
    BY LinesType DEF WellFormed
  <2>2. Moved(x, Goto(x, 0, 0)) /\ Moved(x, Goto(x, Len(Lines(x)), 0))
    BY <2>1, GotoMoves
  <2>3. QED
    BY <1>2, <2>2, MovedTwice DEF TextStart, TextEnd, LineEnd, Moved
<1>8. QED
  BY <1>3, <1>4, <1>5, <1>6, <1>7

(***************************************************************************)
(* The raw mutators: what they change they mark.                           *)
(***************************************************************************)
SameStacks(x, y) == y.undo = x.undo /\ y.redo = x.redo /\ y.kill = x.kill /\ y.mark = x.mark

Marked(x, y) == WellFormed(y) /\ y.modified /\ SameStacks(x, y)

Touched(x, y) == WellFormed(y) /\ (y.modified \/ Lines(y) = Lines(x)) /\ SameStacks(x, y)

LEMMA BufferFields ==
  ASSUME NEW x, WellFormed(x)
  PROVE  /\ x \in Buffers /\ x.above \in Seq(ByteTexts) /\ x.cur \in ByteTexts /\ x.below \in Seq(ByteTexts)
         /\ x.col \in Nat /\ x.goal \in Nat /\ x.col <= Len(x.cur) /\ Len(x.cur) \in Nat
         /\ x.undo \in Seq(EditRecords) /\ x.redo \in Seq(EditRecords) /\ x.kill \in Seq(ByteTexts)
         /\ x.mark \in {NoMark} \cup (Nat \X Nat) /\ x.modified \in BOOLEAN
         /\ Len(x.undo) \in Nat /\ Len(x.redo) \in Nat
         /\ Len(x.undo) + Len(x.redo) <= UndoCap /\ Len(x.kill) <= KillCap
  BY DEF WellFormed, Buffers, ByteTexts

(* The fields that a raw mutator assigns.                                  *)
LEMMA EditedIs ==
  ASSUME NEW x, WellFormed(x), NEW a \in Seq(ByteTexts), NEW c \in ByteTexts, NEW d \in Seq(ByteTexts),
         NEW k \in Nat, k <= Len(c)
  PROVE  Marked(x, Edited([x EXCEPT !.above = a, !.cur = c, !.below = d, !.col = k]))
<1> DEFINE y == [x EXCEPT !.above = a, !.cur = c, !.below = d, !.col = k]
<1>0. x \in Buffers /\ Len(x.undo) + Len(x.redo) <= UndoCap /\ Len(x.kill) <= KillCap
  BY BufferFields
<1>1. /\ y \in Buffers /\ y.col = k /\ y.cur = c /\ SameStacks(x, y)
  BY <1>0 DEF Buffers, SameStacks
<1> HIDE DEF y
<1>2. PICK z : z = Edited(y)
  OBVIOUS
<1>3. /\ z \in Buffers /\ z.modified = TRUE /\ z.col = k /\ z.cur = c /\ SameStacks(x, z)
  BY <1>1, <1>2 DEF Edited, Buffers, SameStacks
<1>4. Marked(x, z)
  BY <1>0, <1>3 DEF Marked, WellFormed, SameStacks
<1>5. QED
  BY <1>2, <1>4 DEF y

LEMMA CutType ==
  ASSUME NEW s \in ByteTexts, NEW i \in Nat
  PROVE  /\ substring(s, 0, i) \in ByteTexts /\ substring(s, i, Len(s)) \in ByteTexts
         /\ i <= Len(s) => Len(substring(s, 0, i)) = i
<1>1. Len(s) \in Nat /\ 0 \in Nat /\ 0 <= i /\ i - 0 = i
  BY DEF ByteTexts
<1>2. QED
  BY <1>1, SubstringType

LEMMA JoinedLen ==
  ASSUME NEW T, NEW p \in Seq(T), NEW q \in Seq(T)
  PROVE  Len(p \o q) = Len(p) + Len(q)
  OBVIOUS

LEMMA RawInsertMarks ==
  ASSUME NEW x, WellFormed(x), NEW s \in ByteTexts
  PROVE  Marked(x, RawInsert(x, s))
<1>0. Len(s) \in Nat
  BY DEF ByteTexts
<1>1. /\ x \in Buffers /\ x.above \in Seq(ByteTexts) /\ x.cur \in ByteTexts /\ x.below \in Seq(ByteTexts)
      /\ x.col \in Nat /\ x.col <= Len(x.cur) /\ Len(x.cur) \in Nat /\ Len(s) \in Nat
  BY <1>0, BufferFields
<1> DEFINE p == substring(x.cur, 0, x.col)  q == substring(x.cur, x.col, Len(x.cur))
           c == p \o s \o q  k == x.col + Len(s)
<1>2. p \in ByteTexts /\ q \in ByteTexts /\ Len(p) = x.col
  BY <1>1, CutType
<1> HIDE DEF p, q
<1>3. c \in ByteTexts /\ Len(c) = x.col + Len(s) + Len(q) /\ Len(q) \in Nat
  <2>1. p \in Seq(Nat) /\ q \in Seq(Nat) /\ s \in Seq(Nat) /\ Len(p) = x.col
    BY <1>1, <1>2 DEF ByteTexts
  <2>2. Len(p \o s) = x.col + Len(s)
    <3>1. Len(p \o s) = Len(p) + Len(s)
      BY <2>1, JoinedLen, Zenon
    <3>2. QED
      BY <2>1, <3>1, Zenon
  <2>22. p \o s \in Seq(Nat)
    BY <2>1
  <2>23. Len((p \o s) \o q) = Len(p \o s) + Len(q)
    BY <2>1, <2>22
  <2>3. (p \o s) \o q \in Seq(Nat) /\ Len((p \o s) \o q) = x.col + Len(s) + Len(q)
    <3>1. (p \o s) \o q \in Seq(Nat)
      BY <2>1, <2>22
    <3>2. QED
      BY <3>1, <2>2, <2>23, Zenon
  <2>4. QED
    BY <2>1, <2>3 DEF ByteTexts
<1>4. k \in Nat /\ k <= Len(c)
  BY <1>1, <1>3
<1>5. [x EXCEPT !.above = x.above, !.cur = c, !.below = x.below, !.col = k]
        = [x EXCEPT !.cur = c, !.col = k]
  <2> HIDE DEF c, k
  <2> QED
    BY <1>1 DEF Buffers
<1>6. RawInsert(x, s) = Edited([x EXCEPT !.cur = c, !.col = k])
  BY DEF RawInsert, p, q
<1> HIDE DEF c, k
<1>7. Marked(x, Edited([x EXCEPT !.above = x.above, !.cur = c, !.below = x.below, !.col = k]))
  BY <1>1, <1>3, <1>4, EditedIs
<1>8. QED
  BY <1>5, <1>6, <1>7, Zenon

LEMMA RawNewlineMarks ==
  ASSUME NEW x, WellFormed(x)
  PROVE  Marked(x, RawNewline(x))
<1>1. /\ x \in Buffers /\ x.above \in Seq(ByteTexts) /\ x.cur \in ByteTexts /\ x.below \in Seq(ByteTexts)
      /\ x.col \in Nat /\ x.col <= Len(x.cur) /\ Len(x.cur) \in Nat
  BY BufferFields
<1> DEFINE p == substring(x.cur, 0, x.col)  q == substring(x.cur, x.col, Len(x.cur))
           a == Append(x.above, p)
<1>2. p \in ByteTexts /\ q \in ByteTexts
  BY <1>1, CutType
<1> HIDE DEF p, q
<1>3. a \in Seq(ByteTexts) /\ 0 \in Nat /\ 0 <= Len(q)
  BY <1>1, <1>2 DEF ByteTexts
<1>4. [x EXCEPT !.above = a, !.cur = q, !.below = x.below, !.col = 0]
        = [x EXCEPT !.above = a, !.cur = q, !.col = 0]
  <2> HIDE DEF a
  <2> QED
    BY <1>1 DEF Buffers
<1>5. RawNewline(x) = Edited([x EXCEPT !.above = a, !.cur = q, !.col = 0])
  BY DEF RawNewline, p, q
<1> HIDE DEF a
<1>6. Marked(x, Edited([x EXCEPT !.above = a, !.cur = q, !.below = x.below, !.col = 0]))
  BY <1>1, <1>2, <1>3, EditedIs
<1>7. QED
  BY <1>4, <1>5, <1>6, Zenon

LEMMA RawBackspaceMarks ==
  ASSUME NEW x, WellFormed(x)
  PROVE  Marked(x, RawBackspace(x)) \/ RawBackspace(x) = x
<1>1. /\ x \in Buffers /\ x.above \in Seq(ByteTexts) /\ x.cur \in ByteTexts /\ x.below \in Seq(ByteTexts)
      /\ x.col \in Nat /\ x.col <= Len(x.cur) /\ Len(x.cur) \in Nat
  BY BufferFields
<1>2. CASE x.col > 0
  <2> DEFINE p == substring(x.cur, 0, x.col - 1)  q == substring(x.cur, x.col, Len(x.cur))
             c == p \o q  k == x.col - 1
  <2>1. k \in Nat /\ p \in ByteTexts /\ q \in ByteTexts /\ Len(p) = k
    <3>1. k \in Nat /\ k <= Len(x.cur)
      BY <1>1, <1>2
    <3> HIDE DEF k
    <3>2. QED
      BY <1>1, <3>1, CutType DEF k
  <2> HIDE DEF p, q
  <2>2. c \in ByteTexts /\ k <= Len(c)
    BY <2>1 DEF ByteTexts
  <2>3. [x EXCEPT !.above = x.above, !.cur = c, !.below = x.below, !.col = k]
          = [x EXCEPT !.cur = c, !.col = k]
    <3> HIDE DEF c, k
    <3> QED
      BY <1>1 DEF Buffers
  <2>4. RawBackspace(x) = Edited([x EXCEPT !.cur = c, !.col = k])
    BY <1>2 DEF RawBackspace, p, q
  <2> HIDE DEF c, k
  <2>5. Marked(x, Edited([x EXCEPT !.above = x.above, !.cur = c, !.below = x.below, !.col = k]))
    BY <1>1, <2>1, <2>2, EditedIs
  <2>6. QED
    BY <2>3, <2>4, <2>5, Zenon
<1>3. CASE ~(x.col > 0) /\ x.above = <<>>
  BY <1>1, <1>3 DEF RawBackspace
<1>4. CASE ~(x.col > 0) /\ x.above # <<>>
  <2> DEFINE f == Front(x.above)  l == Last(x.above)
             c == l \o x.cur  k == Len(l)
  <2>1. f \in Seq(ByteTexts) /\ l \in ByteTexts
    BY <1>1, <1>4, FrontLast
  <2> HIDE DEF f, l
  <2>2. c \in ByteTexts /\ k \in Nat /\ k <= Len(c)
    BY <1>1, <2>1 DEF ByteTexts
  <2>3. [x EXCEPT !.above = f, !.cur = c, !.below = x.below, !.col = k]
          = [x EXCEPT !.above = f, !.cur = c, !.col = k]
    <3> HIDE DEF c, k
    <3> QED
      BY <1>1 DEF Buffers
  <2>4. RawBackspace(x) = Edited([x EXCEPT !.above = f, !.cur = c, !.col = k])
    BY <1>4 DEF RawBackspace, f, l
  <2> HIDE DEF c, k
  <2>5. Marked(x, Edited([x EXCEPT !.above = f, !.cur = c, !.below = x.below, !.col = k]))
    BY <1>1, <2>1, <2>2, EditedIs
  <2>6. QED
    BY <2>3, <2>4, <2>5, Zenon
<1>5. QED
  BY <1>2, <1>3, <1>4

LEMMA RawDeleteMarks ==
  ASSUME NEW x, WellFormed(x)
  PROVE  Marked(x, RawDelete(x)) \/ RawDelete(x) = x
<1>1. /\ x \in Buffers /\ x.above \in Seq(ByteTexts) /\ x.cur \in ByteTexts /\ x.below \in Seq(ByteTexts)
      /\ x.col \in Nat /\ x.col <= Len(x.cur) /\ Len(x.cur) \in Nat
  BY BufferFields
<1>2. CASE x.col < Len(x.cur)
  <2> DEFINE p == substring(x.cur, 0, x.col)  q == substring(x.cur, x.col + 1, Len(x.cur))
             c == p \o q
  <2>1. p \in ByteTexts /\ q \in ByteTexts /\ Len(p) = x.col
    <3>1. x.col + 1 \in Nat
      BY <1>1
    <3>2. QED
      BY <1>1, <3>1, CutType
  <2> HIDE DEF p, q
  <2>2. c \in ByteTexts /\ x.col <= Len(c)
    BY <1>1, <2>1 DEF ByteTexts
  <2>3. [x EXCEPT !.above = x.above, !.cur = c, !.below = x.below, !.col = x.col]
          = [x EXCEPT !.cur = c]
    <3> HIDE DEF c
    <3> QED
      BY <1>1 DEF Buffers
  <2>4. RawDelete(x) = Edited([x EXCEPT !.cur = c])
    BY <1>2 DEF RawDelete, p, q
  <2> HIDE DEF c
  <2>5. Marked(x, Edited([x EXCEPT !.above = x.above, !.cur = c, !.below = x.below, !.col = x.col]))
    BY <1>1, <2>2, EditedIs
  <2>6. QED
    BY <2>3, <2>4, <2>5, Zenon
<1>3. CASE ~(x.col < Len(x.cur)) /\ x.below = <<>>
  BY <1>3 DEF RawDelete
<1>4. CASE ~(x.col < Len(x.cur)) /\ x.below # <<>>
  <2> DEFINE h == Head(x.below)  t == Tail(x.below)
             c == x.cur \o h
  <2>1. h \in ByteTexts /\ t \in Seq(ByteTexts)
    BY <1>1, <1>4, HeadTail
  <2> HIDE DEF h, t
  <2>2. c \in ByteTexts /\ x.col <= Len(c)
    BY <1>1, <2>1 DEF ByteTexts
  <2>3. [x EXCEPT !.above = x.above, !.cur = c, !.below = t, !.col = x.col]
          = [x EXCEPT !.below = t, !.cur = c]
    <3> HIDE DEF c
    <3> QED
      BY <1>1 DEF Buffers
  <2>4. RawDelete(x) = Edited([x EXCEPT !.below = t, !.cur = c])
    BY <1>4 DEF RawDelete, h, t
  <2> HIDE DEF c
  <2>5. Marked(x, Edited([x EXCEPT !.above = x.above, !.cur = c, !.below = t, !.col = x.col]))
    BY <1>1, <2>1, <2>2, EditedIs
  <2>6. QED
    BY <2>3, <2>4, <2>5, Zenon
<1>5. QED
  BY <1>2, <1>3, <1>4

(* string-split gives at least one line.                                   *)
(* Characters are put into lines one after the other.                      *)
SplitRun(g, s) ==
  /\ g[0] = <<(<<>>)>> /\ g[Len(s)] = Split(s)
  /\ \A i \in 1..Len(s) : g[i] = SplitChar(g[i - 1], s[i])
  /\ \A i \in 0..Len(s) : g[i] \in Seq(ByteTexts) /\ g[i] # <<>>

LEMMA SplitRuns ==
  ASSUME NEW s \in ByteTexts
  PROVE  \E g : SplitRun(g, s)
<1> DEFINE n == Len(s)  A == Seq(ByteTexts) \ {<<>>}  first == <<(<<>>)>>
<1>1. n \in Nat /\ DOMAIN s = 1..n /\ first \in A
  BY DEF ByteTexts
<1>2. ASSUME NEW i \in 1..n, NEW y \in A PROVE SplitChar(y, s[i]) \in A
  <2>1. s[i] \in Nat /\ Len(y) \in 1..Len(y) /\ y[Len(y)] \in ByteTexts /\ Len(y) \in Nat \ {0}
    <3>1. y \in Seq(ByteTexts) /\ y # <<>>
      OBVIOUS
    <3>2. Len(y) \in Nat \ {0}
      BY <3>1, EmptySeq
    <3>3. QED
      BY <3>1, <3>2 DEF ByteTexts
  <2>2. Append(y[Len(y)], s[i]) \in ByteTexts /\ <<>> \in ByteTexts
    BY <2>1 DEF ByteTexts
  <2>3. Append(y, <<>>) \in A
    BY <2>2
  <2>4. PICK e \in ByteTexts : e = Append(y[Len(y)], s[i])
    BY <2>2
  <2>5. [y EXCEPT ![Len(y)] = e] \in A
    <3>1. [y EXCEPT ![Len(y)] = e] \in Seq(ByteTexts) /\ Len([y EXCEPT ![Len(y)] = e]) = Len(y)
      BY <2>1, ExceptSeq
    <3>2. QED
      BY <2>1, <3>1
  <2>6. QED
    BY <2>3, <2>4, <2>5 DEF SplitChar
<1> HIDE DEF first
<1> DEFINE step == [i \in 1..n |-> [y \in A |-> SplitChar(y, s[i])]]
           Body(f) == [t \in SUBSET DOMAIN s |->
                         IF t = {} THEN first ELSE SplitChar(f[t \ {Biggest(t)}], s[Biggest(t)])]
           it == CHOOSE f : f = Body(f)
<1>3. step \in [1..n -> [A -> A]]
  <2> HIDE DEF A
  <2> QED
    BY <1>2
<1>4. FoldLeft(SplitChar, first, s) = it[DOMAIN s]
  BY DEF FoldLeft, MapThenFoldSet, Biggest, Max
<1> HIDE DEF A
<1>5. PICK f : f \in [SUBSET (1..n) -> A] /\ FoldsBy(f, n, first, step)
  <2> HIDE DEF step
  <2> QED
    BY <1>1, <1>3, FoldExists
<1>6. f = Body(f)
  <2>1. ASSUME NEW t \in SUBSET (1..n)
        PROVE  f[t] = IF t = {} THEN first ELSE SplitChar(f[t \ {Biggest(t)}], s[Biggest(t)])
    <3>1. CASE t = {}
      BY <1>5, <3>1, Zenon DEF FoldsBy
    <3>2. CASE t # {}
      <4>1. Biggest(t) \in 1..n /\ t \ {Biggest(t)} \in SUBSET (1..n)
        BY <1>1, <3>2, BiggestExists
      <4>2. f[t] = step[Biggest(t)][f[t \ {Biggest(t)}]]
        <5> HIDE DEF step
        <5> QED
          BY <1>5, <3>2, Zenon DEF FoldsBy
      <4>3. f[t \ {Biggest(t)}] \in A
        BY <1>5, <4>1
      <4>4. QED
        BY <3>2, <4>1, <4>2, <4>3
    <3>3. QED
      BY <3>1, <3>2
  <2>2. DOMAIN s = 1..n /\ f = [t \in SUBSET (1..n) |-> f[t]]
    BY <1>1, <1>5
  <2>3. QED
    BY <2>1, <2>2, Zenon
<1>7. it = Body(it)
  <2> HIDE DEF Body
  <2> QED
    BY <1>6, Zenon
<1>8. GoesBy(it, n, A, first, step)
  <2> HIDE DEF it
  <2>1. it[{}] = first
    BY <1>7
  <2>2. ASSUME NEW i \in 1..n, it[1..(i - 1)] \in A
        PROVE  it[1..i] = step[i][it[1..(i - 1)]]
    <3> DEFINE t == 1..i
    <3>1. t \in SUBSET (1..n) /\ t # {} /\ Biggest(t) = i /\ t \ {i} = 1..(i - 1)
      BY <1>1, Segments
    <3> HIDE DEF t
    <3>2. it[t] = SplitChar(it[t \ {Biggest(t)}], s[Biggest(t)])
      BY <1>1, <1>7, <3>1
    <3>3. it[1..i] = SplitChar(it[1..(i - 1)], s[i])
      BY <3>1, <3>2 DEF t
    <3>4. QED
      BY <2>2, <3>3
  <2>3. QED
    BY <2>1, <2>2 DEF GoesBy
<1>9. PICK g \in [0..n -> A] : g[n] = it[1..n] /\ Computes(g, n, first, step)
  <2> HIDE DEF step, it
  <2> QED
    BY <1>1, <1>3, <1>8, FoldSteps
<1>10. ASSUME NEW i \in 1..n PROVE g[i] = SplitChar(g[i - 1], s[i])
  <2>1. g[i] = step[i][g[i - 1]] /\ g[i - 1] \in A
    <3> HIDE DEF step
    <3> QED
      BY <1>1, <1>9 DEF Computes
  <2>2. QED
    BY <2>1
<1>11. g[0] = first /\ g[n] = FoldLeft(SplitChar, first, s)
  <2> HIDE DEF it, step
  <2> QED
    BY <1>1, <1>4, <1>9 DEF Computes
<1>12. ASSUME NEW i \in 0..n PROVE g[i] \in Seq(ByteTexts) /\ g[i] # <<>>
  BY <1>9 DEF A
<1>13. SplitRun(g, s)
  BY <1>10, <1>11, <1>12 DEF SplitRun, Split, first
<1>14. QED
  BY <1>13

LEMMA SplitType ==
  ASSUME NEW s \in ByteTexts
  PROVE  Split(s) \in Seq(ByteTexts) /\ Split(s) # <<>>
<1>1. Len(s) \in 0..Len(s)
  BY DEF ByteTexts
<1>2. QED
  BY <1>1, SplitRuns DEF SplitRun

(* Lines are inserted one after the other.                                 *)
InsertRun(g, x, s) ==
  LET parts == Tail(Split(s))
  IN /\ g[0] = RawInsert(x, Head(Split(s))) /\ g[Len(parts)] = RawInsertString(x, s)
     /\ \A i \in 1..Len(parts) : g[i] = InsertLine(g[i - 1], parts[i])
     /\ \A i \in 0..Len(parts) : Marked(x, g[i])

LEMMA InsertStringRuns ==
  ASSUME NEW x, WellFormed(x), NEW s \in ByteTexts
  PROVE  \E g : InsertRun(g, x, s)
<1> DEFINE parts == Tail(Split(s))  first == RawInsert(x, Head(Split(s)))
           n == Len(parts)  A == {y \in Buffers : Marked(x, y)}
<1>1. n \in Nat /\ DOMAIN parts = 1..n /\ first \in A
  <2>1. parts \in Seq(ByteTexts) /\ Head(Split(s)) \in ByteTexts
    BY SplitType, HeadTail
  <2>2. Marked(x, first)
    BY <2>1, RawInsertMarks
  <2>3. first \in A
    <3> HIDE DEF first
    <3> QED
      BY <2>2 DEF Marked, WellFormed
  <2>4. n \in Nat /\ DOMAIN parts = 1..n
    <3> HIDE DEF parts
    <3> QED
      BY <2>1
  <2>5. QED
    BY <2>3, <2>4
<1>2. ASSUME NEW i \in 1..n, NEW y \in A PROVE InsertLine(y, parts[i]) \in A
  <2>1. parts[i] \in ByteTexts
    BY SplitType, HeadTail
  <2>2. WellFormed(y)
    BY DEF Marked
  <2>3. Marked(y, RawNewline(y))
    BY <2>2, RawNewlineMarks
  <2>4. WellFormed(RawNewline(y))
    BY <2>3 DEF Marked
  <2>5. PICK z : z = RawInsert(RawNewline(y), parts[i]) /\ Marked(RawNewline(y), z)
    BY <2>1, <2>4, RawInsertMarks
  <2>6. Marked(x, z) /\ z \in Buffers
    BY <2>3, <2>5 DEF Marked, SameStacks, WellFormed
  <2>7. QED
    BY <2>5, <2>6 DEF InsertLine
<1> HIDE DEF first, parts
<1> DEFINE step == [i \in 1..n |-> [y \in A |-> InsertLine(y, parts[i])]]
           Body(f) == [t \in SUBSET DOMAIN parts |->
                         IF t = {} THEN first ELSE InsertLine(f[t \ {Biggest(t)}], parts[Biggest(t)])]
           it == CHOOSE f : f = Body(f)
<1>3. step \in [1..n -> [A -> A]]
  <2> HIDE DEF A
  <2> QED
    BY <1>2
<1>4. FoldLeft(InsertLine, first, parts) = it[DOMAIN parts]
  BY DEF FoldLeft, MapThenFoldSet, Biggest, Max
<1> HIDE DEF A
<1>5. PICK f : f \in [SUBSET (1..n) -> A] /\ FoldsBy(f, n, first, step)
  <2> HIDE DEF step
  <2> QED
    BY <1>1, <1>3, FoldExists
<1>6. f = Body(f)
  <2>1. ASSUME NEW t \in SUBSET (1..n)
        PROVE  f[t] = IF t = {} THEN first ELSE InsertLine(f[t \ {Biggest(t)}], parts[Biggest(t)])
    <3>1. CASE t = {}
      BY <1>5, <3>1, Zenon DEF FoldsBy
    <3>2. CASE t # {}
      <4>1. Biggest(t) \in 1..n /\ t \ {Biggest(t)} \in SUBSET (1..n)
        BY <1>1, <3>2, BiggestExists
      <4>2. f[t] = step[Biggest(t)][f[t \ {Biggest(t)}]]
        <5> HIDE DEF step
        <5> QED
          BY <1>5, <3>2, Zenon DEF FoldsBy
      <4>3. f[t \ {Biggest(t)}] \in A
        BY <1>5, <4>1
      <4>4. QED
        BY <3>2, <4>1, <4>2, <4>3
    <3>3. QED
      BY <3>1, <3>2
  <2>2. DOMAIN parts = 1..n /\ f = [t \in SUBSET (1..n) |-> f[t]]
    BY <1>1, <1>5
  <2>3. QED
    BY <2>1, <2>2, Zenon
<1>7. it = Body(it)
  <2> HIDE DEF Body
  <2> QED
    BY <1>6, Zenon
<1>8. GoesBy(it, n, A, first, step)
  <2> HIDE DEF it
  <2>1. it[{}] = first
    BY <1>7
  <2>2. ASSUME NEW i \in 1..n, it[1..(i - 1)] \in A
        PROVE  it[1..i] = step[i][it[1..(i - 1)]]
    <3> DEFINE t == 1..i
    <3>1. t \in SUBSET (1..n) /\ t # {} /\ Biggest(t) = i /\ t \ {i} = 1..(i - 1)
      BY <1>1, Segments
    <3> HIDE DEF t
    <3>2. it[t] = InsertLine(it[t \ {Biggest(t)}], parts[Biggest(t)])
      BY <1>1, <1>7, <3>1
    <3>3. it[1..i] = InsertLine(it[1..(i - 1)], parts[i])
      BY <3>1, <3>2 DEF t
    <3>4. QED
      BY <2>2, <3>3
  <2>3. QED
    BY <2>1, <2>2 DEF GoesBy
<1>9. PICK g \in [0..n -> A] : g[n] = it[1..n] /\ Computes(g, n, first, step)
  <2> HIDE DEF step, it
  <2> QED
    BY <1>1, <1>3, <1>8, FoldSteps
<1>10. ASSUME NEW i \in 1..n PROVE g[i] = InsertLine(g[i - 1], parts[i])
  <2>1. g[i] = step[i][g[i - 1]] /\ g[i - 1] \in A
    <3> HIDE DEF step
    <3> QED
      BY <1>1, <1>9 DEF Computes
  <2>2. QED
    BY <2>1
<1>11. g[0] = first /\ g[n] = FoldLeft(InsertLine, first, parts)
  <2> HIDE DEF it, step
  <2> QED
    BY <1>1, <1>4, <1>9 DEF Computes
<1>12. ASSUME NEW i \in 0..n PROVE Marked(x, g[i])
  BY <1>9 DEF A
<1>13. InsertRun(g, x, s)
  BY <1>10, <1>11, <1>12 DEF InsertRun, RawInsertString, first, parts
<1>14. QED
  BY <1>13

LEMMA InsertStringMarks ==
  ASSUME NEW x, WellFormed(x), NEW s \in ByteTexts
  PROVE  Marked(x, RawInsertString(x, s))
<1>1. PICK parts : parts = Tail(Split(s))
  OBVIOUS
<1>2. parts \in Seq(ByteTexts)
  BY <1>1, SplitType, HeadTail
<1>3. Len(parts) \in 0..Len(parts)
  BY <1>2
<1>4. PICK g : InsertRun(g, x, s)
  BY InsertStringRuns
<1>5. g[Len(parts)] = RawInsertString(x, s) /\ \A i \in 0..Len(parts) : Marked(x, g[i])
  BY <1>1, <1>4 DEF InsertRun
<1>6. QED
  BY <1>3, <1>5

(* Characters are deleted one after the other.                             *)
DeleteRun(g, x, n) ==
  /\ g[0] = x /\ g[n] = RawDeleteForward(x, n)
  /\ \A i \in 1..n : g[i] = RawDelete(g[i - 1])
  /\ \A i \in 0..n : Touched(x, g[i])

LEMMA DeleteForwardRuns ==
  ASSUME NEW x, WellFormed(x), NEW n \in Nat
  PROVE  \E g : DeleteRun(g, x, n)
<1> DEFINE times == [i \in 1..n |-> i]  A == {y \in Buffers : Touched(x, y)}
<1>1. n \in Nat /\ DOMAIN times = 1..n /\ x \in A
  BY DEF Touched, WellFormed, SameStacks
<1>2. ASSUME NEW i \in 1..n, NEW y \in A PROVE DeleteOnce(y, times[i]) \in A
  <2>1. WellFormed(y)
    BY DEF Touched
  <2>2. PICK z : z = RawDelete(y) /\ (Marked(y, z) \/ z = y)
    BY <2>1, RawDeleteMarks
  <2>3. Touched(x, z) /\ z \in Buffers
    BY <2>2 DEF Touched, Marked, SameStacks, WellFormed
  <2>4. QED
    BY <2>2, <2>3 DEF DeleteOnce
<1> HIDE DEF times
<1> DEFINE step == [i \in 1..n |-> [y \in A |-> DeleteOnce(y, times[i])]]
           Body(f) == [t \in SUBSET DOMAIN times |->
                         IF t = {} THEN x ELSE DeleteOnce(f[t \ {Biggest(t)}], times[Biggest(t)])]
           it == CHOOSE f : f = Body(f)
<1>3. step \in [1..n -> [A -> A]]
  <2> HIDE DEF A
  <2> QED
    BY <1>2
<1>4. FoldLeft(DeleteOnce, x, times) = it[DOMAIN times]
  BY DEF FoldLeft, MapThenFoldSet, Biggest, Max
<1> HIDE DEF A
<1>5. PICK f : f \in [SUBSET (1..n) -> A] /\ FoldsBy(f, n, x, step)
  <2> HIDE DEF step
  <2> QED
    BY <1>1, <1>3, FoldExists
<1>6. f = Body(f)
  <2>1. ASSUME NEW t \in SUBSET (1..n)
        PROVE  f[t] = IF t = {} THEN x ELSE DeleteOnce(f[t \ {Biggest(t)}], times[Biggest(t)])
    <3>1. CASE t = {}
      BY <1>5, <3>1, Zenon DEF FoldsBy
    <3>2. CASE t # {}
      <4>1. Biggest(t) \in 1..n /\ t \ {Biggest(t)} \in SUBSET (1..n)
        BY <1>1, <3>2, BiggestExists
      <4>2. f[t] = step[Biggest(t)][f[t \ {Biggest(t)}]]
        <5> HIDE DEF step
        <5> QED
          BY <1>5, <3>2, Zenon DEF FoldsBy
      <4>3. f[t \ {Biggest(t)}] \in A
        BY <1>5, <4>1
      <4>4. QED
        BY <3>2, <4>1, <4>2, <4>3
    <3>3. QED
      BY <3>1, <3>2
  <2>2. DOMAIN times = 1..n /\ f = [t \in SUBSET (1..n) |-> f[t]]
    BY <1>1, <1>5
  <2>3. QED
    BY <2>1, <2>2, Zenon
<1>7. it = Body(it)
  <2> HIDE DEF Body
  <2> QED
    BY <1>6, Zenon
<1>8. GoesBy(it, n, A, x, step)
  <2> HIDE DEF it
  <2>1. it[{}] = x
    BY <1>7
  <2>2. ASSUME NEW i \in 1..n, it[1..(i - 1)] \in A
        PROVE  it[1..i] = step[i][it[1..(i - 1)]]
    <3> DEFINE t == 1..i
    <3>1. t \in SUBSET (1..n) /\ t # {} /\ Biggest(t) = i /\ t \ {i} = 1..(i - 1)
      BY <1>1, Segments
    <3> HIDE DEF t
    <3>2. it[t] = DeleteOnce(it[t \ {Biggest(t)}], times[Biggest(t)])
      BY <1>1, <1>7, <3>1
    <3>3. it[1..i] = DeleteOnce(it[1..(i - 1)], times[i])
      BY <3>1, <3>2 DEF t
    <3>4. QED
      BY <2>2, <3>3
  <2>3. QED
    BY <2>1, <2>2 DEF GoesBy
<1>9. PICK g \in [0..n -> A] : g[n] = it[1..n] /\ Computes(g, n, x, step)
  <2> HIDE DEF step, it
  <2> QED
    BY <1>1, <1>3, <1>8, FoldSteps
<1>10. ASSUME NEW i \in 1..n PROVE g[i] = RawDelete(g[i - 1])
  <2>1. g[i] = step[i][g[i - 1]] /\ g[i - 1] \in A
    <3> HIDE DEF step
    <3> QED
      BY <1>1, <1>9 DEF Computes
  <2>2. QED
    BY <2>1 DEF DeleteOnce
<1>11. g[0] = x /\ g[n] = FoldLeft(DeleteOnce, x, times)
  <2> HIDE DEF it, step
  <2> QED
    BY <1>1, <1>4, <1>9 DEF Computes
<1>12. ASSUME NEW i \in 0..n PROVE Touched(x, g[i])
  BY <1>9 DEF A
<1>13. DeleteRun(g, x, n)
  BY <1>10, <1>11, <1>12 DEF DeleteRun, RawDeleteForward, times
<1>14. QED
  BY <1>13

LEMMA DeleteForwardTouches ==
  ASSUME NEW x, WellFormed(x), NEW n \in Nat
  PROVE  Touched(x, RawDeleteForward(x, n))
<1>1. n \in 0..n
  OBVIOUS
<1>2. QED
  BY <1>1, DeleteForwardRuns DEF DeleteRun

(***************************************************************************)
(* Recording an edit leaves the text alone.                                *)
(***************************************************************************)
Noted(x, y) ==
  /\ WellFormed(y) /\ y.above = x.above /\ y.cur = x.cur /\ y.below = x.below /\ y.col = x.col
  /\ y.modified = x.modified

(* What a command may do to a buffer.                                      *)
Fair(x, y) == WellFormed(y) /\ (y.modified \/ Lines(y) = Lines(x))

LEMMA JoinType ==
  ASSUME NEW ls \in Seq(ByteTexts), ls # <<>>
  PROVE  Join(ls) \in ByteTexts
<1>1. NL \in Nat /\ Len(ls) \in Nat \ {0}
  BY EmptySeq DEF NL
<1> DEFINE rest == [i \in 1..(Len(ls) - 1) |-> <<NL>> \o ls[i + 1]]
<1>2. rest \in Seq(Seq(Nat))
  <2>1. ASSUME NEW i \in 1..(Len(ls) - 1) PROVE <<NL>> \o ls[i + 1] \in Seq(Nat)
    <3>1. ls[i + 1] \in Seq(Nat)
      BY <1>1 DEF ByteTexts
    <3>2. QED
      BY <1>1, <3>1
  <2>2. Len(ls) - 1 \in Nat
    BY <1>1
  <2>3. QED
    BY <2>1, <2>2, IsASeq
<1> HIDE DEF rest
<1>3. FlattenSeq(rest) \in Seq(Nat)
  BY <1>2, FlattenType
<1>4. Head(ls) \in Seq(Nat)
  BY HeadTail DEF ByteTexts
<1>5. Join(ls) = Head(ls) \o FlattenSeq(rest)
  BY DEF Join, rest
<1>6. QED
  BY <1>3, <1>4, <1>5 DEF ByteTexts

LEMMA TextType ==
  ASSUME NEW x \in Buffers
  PROVE  Text(x) \in ByteTexts
<1>1. Lines(x) \in Seq(ByteTexts) /\ Len(Lines(x)) \in Nat \ {0}
  BY LinesType
<1>2. Lines(x) # <<>>
  BY <1>1
<1>3. QED
  BY <1>1, <1>2, JoinType DEF Text

LEMMA RecType ==
  ASSUME NEW x \in Buffers, NEW op \in {"ins", "del"}, NEW r \in Nat, NEW c \in Nat, NEW s \in ByteTexts
  PROVE  Rec(x, op, r, c, s) \in EditRecords
  BY TextType DEF Rec, EditRecords

LEMMA StacksSet ==
  ASSUME NEW x, WellFormed(x), NEW u \in Seq(EditRecords), NEW r \in Seq(EditRecords),
         Len(u) + Len(r) <= UndoCap
  PROVE  Noted(x, [x EXCEPT !.undo = u, !.redo = r])
<1>1. x \in Buffers /\ Len(x.kill) <= KillCap /\ x.col <= Len(x.cur)
  BY BufferFields
<1>2. PICK y : y = [x EXCEPT !.undo = u, !.redo = r]
  OBVIOUS
<1>3. /\ y \in Buffers /\ y.undo = u /\ y.redo = r /\ y.above = x.above /\ y.cur = x.cur
      /\ y.below = x.below /\ y.col = x.col /\ y.modified = x.modified /\ y.kill = x.kill
  BY <1>1, <1>2 DEF Buffers
<1>4. WellFormed(y)
  BY <1>1, <1>3 DEF WellFormed
<1>5. QED
  BY <1>2, <1>3, <1>4 DEF Noted

LEMMA KillSetNotes ==
  ASSUME NEW x, WellFormed(x), NEW k \in Seq(ByteTexts), Len(k) <= KillCap
  PROVE  Noted(x, [x EXCEPT !.kill = k])
<1>1. x \in Buffers /\ x.col <= Len(x.cur) /\ Len(x.undo) + Len(x.redo) <= UndoCap
  BY BufferFields
<1>2. PICK y : y = [x EXCEPT !.kill = k]
  OBVIOUS
<1>3. /\ y \in Buffers /\ y.undo = x.undo /\ y.redo = x.redo /\ y.above = x.above /\ y.cur = x.cur
      /\ y.below = x.below /\ y.col = x.col /\ y.modified = x.modified /\ y.kill = k
  BY <1>1, <1>2 DEF Buffers
<1>4. Noted(x, y)
  BY <1>1, <1>3 DEF WellFormed, Noted
<1>5. QED
  BY <1>2, <1>4

LEMMA MarkSetNotes ==
  ASSUME NEW x, WellFormed(x), NEW m \in {NoMark} \cup (Nat \X Nat)
  PROVE  Noted(x, [x EXCEPT !.mark = m])
<1>1. /\ x \in Buffers /\ x.col <= Len(x.cur)
      /\ Len(x.undo) + Len(x.redo) <= UndoCap /\ Len(x.kill) <= KillCap
  BY BufferFields
<1>2. PICK y : y = [x EXCEPT !.mark = m]
  OBVIOUS
<1>3. /\ y \in Buffers /\ y.undo = x.undo /\ y.redo = x.redo /\ y.above = x.above /\ y.cur = x.cur
      /\ y.below = x.below /\ y.col = x.col /\ y.modified = x.modified /\ y.kill = x.kill
  BY <1>1, <1>2 DEF Buffers
<1>4. Noted(x, y)
  BY <1>1, <1>3 DEF WellFormed, Noted
<1>5. QED
  BY <1>2, <1>4

LEMMA EmptyStack == <<>> \in Seq(EditRecords) /\ Len(<<>>) = 0
  OBVIOUS

LEMMA RecordNotes ==
  ASSUME NEW x, WellFormed(x), NEW rec \in EditRecords
  PROVE  Noted(x, Record(x, rec))
<1>1. UndoCap \in Nat
  BY TextAssumption
<1>2. x.undo \in Seq(EditRecords)
  BY BufferFields
<1> DEFINE u == Take(Append(x.undo, rec), UndoCap)
<1>3. u \in Seq(EditRecords) /\ Len(u) <= UndoCap
  <2>1. Append(x.undo, rec) \in Seq(EditRecords)
    BY <1>2
  <2>2. QED
    BY <1>1, <2>1, TakeType
<1>4. Record(x, rec) = [x EXCEPT !.undo = u, !.redo = <<>>]
  BY DEF Record
<1> HIDE DEF u
<1> DEFINE e == <<>>
<1>5. e \in Seq(EditRecords) /\ Len(e) = 0
  BY EmptyStack
<1>6. Record(x, rec) = [x EXCEPT !.undo = u, !.redo = e]
  BY <1>4
<1> HIDE DEF e
<1>7. Len(u) \in Nat
  BY <1>3
<1>8. Len(u) + Len(e) <= UndoCap
  BY <1>1, <1>3, <1>5, <1>7
<1>9. Noted(x, [x EXCEPT !.undo = u, !.redo = e])
  BY <1>3, <1>5, <1>8, StacksSet, Zenon
<1>10. QED
  BY <1>6, <1>9, Zenon

LEMMA ReplaceTopNotes ==
  ASSUME NEW x, WellFormed(x), NEW rec \in EditRecords, x.undo # <<>>
  PROVE  Noted(x, ReplaceTop(x, rec))
<1>1. UndoCap \in Nat
  BY TextAssumption
<1>2. /\ x.undo \in Seq(EditRecords)
      /\ Len(x.undo) + Len(x.redo) <= UndoCap /\ Len(x.undo) \in Nat /\ Len(x.redo) \in Nat
  BY BufferFields
<1> DEFINE f == Front(x.undo)  u == Append(f, rec)
<1>3. f \in Seq(EditRecords) /\ Len(f) = Len(x.undo) - 1
  BY <1>2, FrontLast
<1> HIDE DEF f
<1>4. u \in Seq(EditRecords) /\ Len(u) = Len(x.undo)
  BY <1>2, <1>3
<1> DEFINE e == <<>>
<1>5. e \in Seq(EditRecords) /\ Len(e) = 0
  BY EmptyStack
<1>6. ReplaceTop(x, rec) = [x EXCEPT !.undo = u, !.redo = e]
  BY DEF ReplaceTop, f
<1> HIDE DEF u, e
<1>7. Len(u) + Len(e) <= UndoCap
  <2>1. PICK m \in Nat, n \in Nat : m = Len(x.undo) /\ n = Len(x.redo)
    BY <1>2
  <2>2. m + 0 <= UndoCap
    <3>1. m + n <= UndoCap
      BY <1>2, <2>1, Zenon
    <3>2. QED
      BY <1>1, <3>1
  <2>3. Len(u) = m /\ Len(e) = 0
    BY <1>4, <1>5, <2>1
  <2>4. QED
    BY <2>2, <2>3, Zenon
<1>8. Noted(x, [x EXCEPT !.undo = u, !.redo = e])
  BY <1>4, <1>5, <1>7, StacksSet, Zenon
<1>9. QED
  BY <1>6, <1>8, Zenon

(* The record that an edit may extend is one.                              *)
LEMMA TopIsARecord ==
  ASSUME NEW x, WellFormed(x), x.undo # <<>>
  PROVE  LET top == Last(x.undo)
         IN /\ top \in EditRecords /\ top.txt \in ByteTexts
            /\ \A s \in ByteTexts :
                 /\ [top EXCEPT !.txt = s] \in EditRecords
                 /\ \A c \in Nat : [top EXCEPT !.col = c, !.txt = s] \in EditRecords
<1>1. Last(x.undo) \in EditRecords
  BY BufferFields, FrontLast
<1>2. PICK top : top = Last(x.undo) /\ top \in EditRecords
  BY <1>1
<1>3. QED
  BY <1>2 DEF EditRecords

LEMMA JoinedTexts ==
  ASSUME NEW s \in ByteTexts, NEW t \in ByteTexts
  PROVE  s \o t \in ByteTexts
  BY DEF ByteTexts

LEMMA RecordDelNotes ==
  ASSUME NEW x, WellFormed(x), NEW r \in Nat, NEW c \in Nat, NEW ch \in ByteTexts
  PROVE  Noted(x, RecordDel(x, r, c, ch))
<1>1. x \in Buffers
  BY BufferFields
<1> DEFINE top == Last(x.undo)  ext == Extends(x, "ins", r)
<1>2. ext => x.undo # <<>>
  BY DEF Extends
<1>3. CASE ext /\ c + 1 = top.col
  <2>1. [top EXCEPT !.col = c, !.txt = ch \o @] \in EditRecords
    BY <1>2, <1>3, TopIsARecord, JoinedTexts
  <2>2. Noted(x, ReplaceTop(x, [top EXCEPT !.col = c, !.txt = ch \o @]))
    BY <1>2, <1>3, <2>1, ReplaceTopNotes
  <2>3. QED
    BY <1>3, <2>2 DEF RecordDel
<1>4. CASE ext /\ ~(c + 1 = top.col) /\ c = top.col
  <2>1. [top EXCEPT !.txt = @ \o ch] \in EditRecords
    BY <1>2, <1>4, TopIsARecord, JoinedTexts
  <2>2. Noted(x, ReplaceTop(x, [top EXCEPT !.txt = @ \o ch]))
    BY <1>2, <1>4, <2>1, ReplaceTopNotes
  <2>3. QED
    BY <1>4, <2>2 DEF RecordDel
<1>5. CASE ~(ext /\ c + 1 = top.col) /\ ~(ext /\ c = top.col)
  <2>1. Noted(x, Record(x, Rec(x, "ins", r, c, ch)))
    BY <1>1, RecType, RecordNotes
  <2>2. QED
    BY <1>5, <2>1 DEF RecordDel
<1>6. QED
  BY <1>3, <1>4, <1>5

(* A raw mutator after recording.                                          *)
LEMMA NotedLines ==
  ASSUME NEW x, NEW y, Noted(x, y)
  PROVE  WellFormed(y) /\ Lines(y) = Lines(x)
  BY DEF Noted, Lines

LEMMA MarkedIsFair ==
  ASSUME NEW x, NEW y, NEW z, Noted(x, y), Marked(y, z) \/ Touched(y, z) \/ z = y
  PROVE  Fair(x, z)
<1>1. WellFormed(y) /\ Lines(y) = Lines(x)
  BY NotedLines
<1>2. QED
  BY <1>1 DEF Marked, Touched, Fair

LEMMA InsertIsFair ==
  ASSUME NEW x, WellFormed(x), NEW s \in ByteTexts
  PROVE  Fair(x, Insert(x, s))
<1>1. x \in Buffers /\ x.col \in Nat /\ x.above \in Seq(ByteTexts)
  BY BufferFields
<1>2. row(x) \in Nat
  BY <1>1 DEF row
<1> DEFINE top == Last(x.undo)
           y == IF Extends(x, "del", row(x)) /\ top.col + Len(top.txt) = x.col
                  THEN ReplaceTop(x, [top EXCEPT !.txt = @ \o s])
                  ELSE Record(x, Rec(x, "del", row(x), x.col, s))
<1>3. Noted(x, y)
  <2>1. CASE Extends(x, "del", row(x)) /\ top.col + Len(top.txt) = x.col
    <3>1. x.undo # <<>>
      BY <2>1 DEF Extends
    <3>2. [top EXCEPT !.txt = @ \o s] \in EditRecords
      BY <3>1, TopIsARecord, JoinedTexts
    <3>3. QED
      BY <2>1, <3>1, <3>2, ReplaceTopNotes
  <2>2. CASE ~(Extends(x, "del", row(x)) /\ top.col + Len(top.txt) = x.col)
    BY <1>1, <1>2, <2>2, RecType, RecordNotes
  <2>3. QED
    BY <2>1, <2>2
<1>4. Insert(x, s) = RawInsert(y, s)
  BY DEF Insert
<1> HIDE DEF y
<1>5. Marked(y, RawInsert(y, s))
  BY <1>3, NotedLines, RawInsertMarks
<1>6. QED
  BY <1>3, <1>4, <1>5, MarkedIsFair

LEMMA NewlineIsFair ==
  ASSUME NEW x, WellFormed(x)
  PROVE  Fair(x, Newline(x))
<1>1. x \in Buffers /\ x.col \in Nat /\ x.above \in Seq(ByteTexts)
  BY BufferFields
<1>2. row(x) \in Nat /\ <<NL>> \in ByteTexts
  BY <1>1 DEF row, NL, ByteTexts
<1> DEFINE y == Record(x, Rec(x, "del", row(x), x.col, <<NL>>))
<1>3. Noted(x, y)
  BY <1>1, <1>2, RecType, RecordNotes
<1>4. Newline(x) = RawNewline(y)
  BY DEF Newline
<1> HIDE DEF y
<1>5. Marked(y, RawNewline(y))
  BY <1>3, NotedLines, RawNewlineMarks
<1>6. QED
  BY <1>3, <1>4, <1>5, MarkedIsFair

LEMMA NothingIsFair ==
  ASSUME NEW x, WellFormed(x)
  PROVE  Fair(x, x)
  BY DEF Fair

LEMMA BackspaceIsFair ==
  ASSUME NEW x, WellFormed(x)
  PROVE  Fair(x, Backspace(x))
<1>1. /\ x \in Buffers /\ x.col \in Nat /\ x.above \in Seq(ByteTexts) /\ x.cur \in ByteTexts
      /\ x.col <= Len(x.cur) /\ Len(x.cur) \in Nat
  BY BufferFields
<1>2. row(x) \in Nat /\ <<NL>> \in ByteTexts
  BY <1>1 DEF row, NL, ByteTexts
<1>3. CASE x.col > 0
  <2> DEFINE y == RecordDel(x, row(x), x.col - 1, substring(x.cur, x.col - 1, x.col))
  <2>1. x.col - 1 \in Nat
    BY <1>1, <1>3
  <2>2. substring(x.cur, x.col - 1, x.col) \in ByteTexts
    BY <1>1, <2>1, SubstringType
  <2>3. Noted(x, y)
    BY <1>2, <2>1, <2>2, RecordDelNotes
  <2>4. Backspace(x) = RawBackspace(y)
    BY <1>3 DEF Backspace
  <2> HIDE DEF y
  <2>5. Marked(y, RawBackspace(y)) \/ RawBackspace(y) = y
    BY <2>3, NotedLines, RawBackspaceMarks
  <2>6. QED
    BY <2>3, <2>4, <2>5, MarkedIsFair
<1>4. CASE ~(x.col > 0) /\ x.above = <<>>
  BY <1>4, NothingIsFair DEF Backspace
<1>5. CASE ~(x.col > 0) /\ x.above # <<>>
  <2> DEFINE y == Record(x, Rec(x, "ins", row(x) - 1, Len(Last(x.above)), <<NL>>))
  <2>1. row(x) - 1 \in Nat /\ Len(Last(x.above)) \in Nat
    <3>1. Last(x.above) \in ByteTexts /\ Len(x.above) \in Nat \ {0}
      BY <1>1, <1>5, FrontLast
    <3>2. QED
      BY <3>1 DEF row, ByteTexts
  <2>2. Noted(x, y)
    BY <1>1, <1>2, <2>1, RecType, RecordNotes
  <2>3. Backspace(x) = RawBackspace(y)
    BY <1>5 DEF Backspace
  <2> HIDE DEF y
  <2>4. Marked(y, RawBackspace(y)) \/ RawBackspace(y) = y
    BY <2>2, NotedLines, RawBackspaceMarks
  <2>5. QED
    BY <2>2, <2>3, <2>4, MarkedIsFair
<1>6. QED
  BY <1>3, <1>4, <1>5

LEMMA DeleteIsFair ==
  ASSUME NEW x, WellFormed(x)
  PROVE  Fair(x, Delete(x))
<1>1. /\ x \in Buffers /\ x.col \in Nat /\ x.above \in Seq(ByteTexts) /\ x.cur \in ByteTexts
      /\ x.col <= Len(x.cur) /\ Len(x.cur) \in Nat
  BY BufferFields
<1>2. row(x) \in Nat /\ <<NL>> \in ByteTexts
  BY <1>1 DEF row, NL, ByteTexts
<1>3. CASE x.col < Len(x.cur)
  <2> DEFINE y == RecordDel(x, row(x), x.col, substring(x.cur, x.col, x.col + 1))
  <2>1. x.col + 1 \in Nat
    BY <1>1
  <2>2. substring(x.cur, x.col, x.col + 1) \in ByteTexts
    BY <1>1, <2>1, SubstringType
  <2>3. Noted(x, y)
    BY <1>1, <1>2, <2>2, RecordDelNotes
  <2>4. Delete(x) = RawDelete(y)
    BY <1>3 DEF Delete
  <2> HIDE DEF y
  <2>5. Marked(y, RawDelete(y)) \/ RawDelete(y) = y
    BY <2>3, NotedLines, RawDeleteMarks
  <2>6. QED
    BY <2>3, <2>4, <2>5, MarkedIsFair
<1>4. CASE ~(x.col < Len(x.cur)) /\ x.below = <<>>
  BY <1>4, NothingIsFair DEF Delete
<1>5. CASE ~(x.col < Len(x.cur)) /\ x.below # <<>>
  <2> DEFINE y == Record(x, Rec(x, "ins", row(x), x.col, <<NL>>))
  <2>1. Noted(x, y)
    BY <1>1, <1>2, RecType, RecordNotes
  <2>2. Delete(x) = RawDelete(y)
    BY <1>5 DEF Delete
  <2> HIDE DEF y
  <2>3. Marked(y, RawDelete(y)) \/ RawDelete(y) = y
    BY <2>1, NotedLines, RawDeleteMarks
  <2>4. QED
    BY <2>1, <2>2, <2>3, MarkedIsFair
<1>6. QED
  BY <1>3, <1>4, <1>5

LEMMA KillPushNotes ==
  ASSUME NEW x, WellFormed(x), NEW s \in ByteTexts
  PROVE  Noted(x, KillPush(x, s))
<1>1. KillCap \in Nat /\ x.kill \in Seq(ByteTexts)
  BY BufferFields, TextAssumption
<1> DEFINE k == Take(Append(x.kill, s), KillCap)
<1>2. k \in Seq(ByteTexts) /\ Len(k) <= KillCap
  <2>1. Append(x.kill, s) \in Seq(ByteTexts)
    BY <1>1
  <2>2. QED
    BY <1>1, <2>1, TakeType
<1>3. KillPush(x, s) = [x EXCEPT !.kill = k]
  BY DEF KillPush
<1> HIDE DEF k
<1>4. QED
  BY <1>2, <1>3, KillSetNotes

LEMMA NotedTwice ==
  ASSUME NEW x, NEW y, NEW z, Noted(x, y), Noted(y, z)
  PROVE  Noted(x, z)
  BY DEF Noted

LEMMA KillingIsFair ==
  ASSUME NEW x, WellFormed(x), NEW s \in ByteTexts
  PROVE  Fair(x, RawDeleteForward(Record(KillPush(x, s), Rec(x, "ins", row(x), x.col, s)), Len(s)))
<1>1. x \in Buffers /\ x.col \in Nat /\ x.above \in Seq(ByteTexts)
  BY BufferFields
<1>2. row(x) \in Nat /\ Len(s) \in Nat
  BY <1>1 DEF row, ByteTexts
<1> DEFINE k == KillPush(x, s)  rec == Rec(x, "ins", row(x), x.col, s)  y == Record(k, rec)
<1>3. Noted(x, k) /\ WellFormed(k)
  BY KillPushNotes, NotedLines
<1>4. rec \in EditRecords
  BY <1>1, <1>2, RecType
<1> HIDE DEF k, rec
<1>5. Noted(k, y)
  BY <1>3, <1>4, RecordNotes
<1> HIDE DEF y
<1>6. Noted(x, y) /\ WellFormed(y)
  BY <1>3, <1>5, NotedTwice, NotedLines
<1>7. Touched(y, RawDeleteForward(y, Len(s)))
  BY <1>2, <1>6, DeleteForwardTouches
<1>8. Fair(x, RawDeleteForward(y, Len(s)))
  BY <1>6, <1>7, MarkedIsFair
<1>9. QED
  BY <1>8 DEF y, k, rec

LEMMA KillLineIsFair ==
  ASSUME NEW x, WellFormed(x)
  PROVE  Fair(x, KillLine(x))
<1>1. x.col \in Nat /\ x.cur \in ByteTexts /\ Len(x.cur) \in Nat
  BY BufferFields
<1>2. substring(x.cur, x.col, Len(x.cur)) \in ByteTexts /\ <<NL>> \in ByteTexts
  <2>1. substring(x.cur, x.col, Len(x.cur)) \in ByteTexts
    BY <1>1, SubstringType
  <2>2. QED
    BY <2>1 DEF NL, ByteTexts
<1>3. CASE x.col < Len(x.cur)
  BY <1>2, <1>3, KillingIsFair DEF KillLine
<1>4. CASE ~(x.col < Len(x.cur)) /\ x.below # <<>>
  BY <1>2, <1>4, KillingIsFair DEF KillLine
<1>5. CASE ~(x.col < Len(x.cur)) /\ x.below = <<>>
  BY <1>5, NothingIsFair DEF KillLine
<1>6. QED
  BY <1>3, <1>4, <1>5

LEMMA PointIsAMark ==
  ASSUME NEW x, WellFormed(x)
  PROVE  row(x) \in Nat /\ x.col \in Nat /\ <<row(x), x.col>> \in {NoMark} \cup (Nat \X Nat)
<1>1. x.col \in Nat /\ x.above \in Seq(ByteTexts)
  BY BufferFields
<1>2. row(x) \in Nat
  BY <1>1 DEF row
<1>3. QED
  BY <1>1, <1>2

LEMMA SetMarkIsFair ==
  ASSUME NEW x, WellFormed(x)
  PROVE  Fair(x, SetMark(x))
<1>1. Noted(x, SetMark(x))
  BY PointIsAMark, MarkSetNotes DEF SetMark
<1>2. QED
  BY <1>1, MarkedIsFair

LEMMA YankIsFair ==
  ASSUME NEW x, WellFormed(x)
  PROVE  Fair(x, Yank(x))
<1>1. CASE x.kill = <<>>
  BY <1>1, NothingIsFair DEF Yank
<1>2. CASE x.kill # <<>>
  <2>1. x \in Buffers /\ x.kill \in Seq(ByteTexts)
    BY BufferFields
  <2>2. Last(x.kill) \in ByteTexts /\ row(x) \in Nat /\ x.col \in Nat
    BY <1>2, <2>1, FrontLast, PointIsAMark
  <2> DEFINE y == Record(x, Rec(x, "del", row(x), x.col, Last(x.kill)))
             m == <<row(x), x.col>>
             z == [y EXCEPT !.mark = m]
  <2>3. Noted(x, y)
    BY <2>1, <2>2, RecType, RecordNotes
  <2>4. m \in {NoMark} \cup (Nat \X Nat)
    BY PointIsAMark
  <2>5. Yank(x) = RawInsertString(z, Last(x.kill))
    BY <1>2 DEF Yank
  <2> HIDE DEF y, m
  <2>6. Noted(y, z)
    BY <2>3, <2>4, NotedLines, MarkSetNotes
  <2> HIDE DEF z
  <2>7. Noted(x, z) /\ WellFormed(z)
    BY <2>3, <2>6, NotedTwice, NotedLines
  <2>8. Marked(z, RawInsertString(z, Last(x.kill)))
    BY <2>2, <2>7, InsertStringMarks
  <2>9. QED
    BY <2>5, <2>7, <2>8, MarkedIsFair
<1>3. QED
  BY <1>1, <1>2

(* Undo and redo move a record from one stack to the other.                *)
LEMMA ApplyIsFair ==
  ASSUME NEW x, NEW y, Noted(x, y), NEW rec \in EditRecords
  PROVE  Fair(x, Apply(y, rec))
<1>1. rec.row \in Nat /\ rec.col \in Nat /\ rec.txt \in ByteTexts
  BY DEF EditRecords
<1>2. WellFormed(y)
  BY NotedLines
<1> DEFINE z == Goto(y, rec.row, rec.col)
<1>3. Moved(y, z)
  BY <1>1, <1>2, GotoMoves
<1>4. Apply(y, rec) = IF rec.op = "ins" THEN RawInsertString(z, rec.txt)
                                        ELSE RawDeleteForward(z, Len(rec.txt))
  BY DEF Apply
<1> HIDE DEF z
<1>5. WellFormed(z) /\ Lines(z) = Lines(x)
  BY <1>3, NotedLines DEF Moved
<1>6. Marked(z, RawInsertString(z, rec.txt))
  BY <1>1, <1>5, InsertStringMarks
<1>7. Touched(z, RawDeleteForward(z, Len(rec.txt)))
  <2>1. Len(rec.txt) \in Nat
    BY <1>1 DEF ByteTexts
  <2>2. QED
    BY <1>5, <2>1, DeleteForwardTouches
<1>8. CASE rec.op = "ins"
  BY <1>4, <1>5, <1>6, <1>8 DEF Fair, Marked
<1>9. CASE rec.op # "ins"
  BY <1>4, <1>5, <1>7, <1>9 DEF Fair, Touched
<1>10. QED
  BY <1>8, <1>9

LEMMA OppositeType ==
  ASSUME NEW x \in Buffers, NEW rec \in EditRecords
  PROVE  Opposite(x, rec) \in EditRecords
<1>1. Text(x) \in ByteTexts
  BY TextType
<1> DEFINE op == IF rec.op = "ins" THEN "del" ELSE "ins"
<1>2. op \in {"ins", "del"}
  OBVIOUS
<1>3. Opposite(x, rec) = [rec EXCEPT !.op = op, !.was = Text(x)]
  BY DEF Opposite
<1> HIDE DEF op
<1>4. QED
  BY <1>1, <1>2, <1>3 DEF EditRecords

LEMMA AppendedIs ==
  ASSUME NEW T, NEW s \in Seq(T), NEW e \in T
  PROVE  Append(s, e) \in Seq(T) /\ Len(Append(s, e)) = Len(s) + 1
  OBVIOUS

LEMMA PopPush ==
  ASSUME NEW x, WellFormed(x), NEW u \in Seq(EditRecords), NEW r \in Seq(EditRecords), u # <<>>,
         Len(u) + Len(r) <= UndoCap
  PROVE  /\ Last(u) \in EditRecords /\ Front(u) \in Seq(EditRecords)
         /\ Append(r, Opposite(x, Last(u))) \in Seq(EditRecords)
         /\ Len(Front(u)) + Len(Append(r, Opposite(x, Last(u)))) <= UndoCap
         /\ Len(Append(r, Opposite(x, Last(u)))) + Len(Front(u)) <= UndoCap
<1>1. x \in Buffers /\ UndoCap \in Nat /\ Len(u) \in Nat /\ Len(r) \in Nat
  <2>1. Len(u) \in Nat /\ Len(r) \in Nat
    OBVIOUS
  <2>2. QED
    BY <2>1, TextAssumption DEF WellFormed
<1>2. Last(u) \in EditRecords /\ Front(u) \in Seq(EditRecords) /\ Len(Front(u)) = Len(u) - 1
  BY FrontLast
<1>3. PICK o : o = Opposite(x, Last(u)) /\ o \in EditRecords
  BY <1>1, <1>2, OppositeType
<1>4. Append(r, o) \in Seq(EditRecords) /\ Len(Append(r, o)) = Len(r) + 1
  BY <1>3, AppendedIs
<1>5. PICK n : n = Len(Append(r, o)) /\ n = Len(r) + 1
  BY <1>4
<1>6. Len(Front(u)) + n <= UndoCap /\ n + Len(Front(u)) <= UndoCap
  BY <1>1, <1>2, <1>5
<1>7. QED
  BY <1>2, <1>3, <1>4, <1>5, <1>6

LEMMA UndoIsFair ==
  ASSUME NEW x, WellFormed(x)
  PROVE  Fair(x, Undo(x)) /\ Fair(x, Redo(x))
<1>1. /\ x.undo \in Seq(EditRecords) /\ x.redo \in Seq(EditRecords)
      /\ Len(x.undo) + Len(x.redo) <= UndoCap /\ Len(x.redo) + Len(x.undo) <= UndoCap
  <2>1. /\ x.undo \in Seq(EditRecords) /\ x.redo \in Seq(EditRecords)
        /\ Len(x.undo) + Len(x.redo) <= UndoCap /\ Len(x.undo) \in Nat /\ Len(x.redo) \in Nat
    BY BufferFields
  <2>2. PICK m \in Nat, n \in Nat : m = Len(x.undo) /\ n = Len(x.redo)
    BY <2>1
  <2>3. m + n = n + m
    OBVIOUS
  <2>4. QED
    BY <2>1, <2>2, <2>3, Zenon
<1>2. Fair(x, Undo(x))
  <2>1. CASE x.undo = <<>>
    BY <2>1, NothingIsFair DEF Undo
  <2>2. CASE x.undo # <<>>
    <3> DEFINE u == Front(x.undo)  r == Append(x.redo, Opposite(x, Last(x.undo)))
    <3>1. /\ Last(x.undo) \in EditRecords /\ u \in Seq(EditRecords) /\ r \in Seq(EditRecords)
          /\ Len(u) + Len(r) <= UndoCap
      BY <1>1, <2>2, PopPush
    <3>2. Undo(x) = Apply([x EXCEPT !.undo = u, !.redo = r], Last(x.undo))
      BY <2>2 DEF Undo
    <3> HIDE DEF u, r
    <3>3. Noted(x, [x EXCEPT !.undo = u, !.redo = r])
      BY <3>1, StacksSet
    <3>4. QED
      BY <3>1, <3>2, <3>3, ApplyIsFair
  <2>3. QED
    BY <2>1, <2>2
<1>3. Fair(x, Redo(x))
  <2>1. CASE x.redo = <<>>
    BY <2>1, NothingIsFair DEF Redo
  <2>2. CASE x.redo # <<>>
    <3> DEFINE r == Front(x.redo)  u == Append(x.undo, Opposite(x, Last(x.redo)))
    <3>1. /\ Last(x.redo) \in EditRecords /\ u \in Seq(EditRecords) /\ r \in Seq(EditRecords)
          /\ Len(u) + Len(r) <= UndoCap
      BY <1>1, <2>2, PopPush
    <3>2. Redo(x) = Apply([x EXCEPT !.redo = r, !.undo = u], Last(x.redo))
      BY <2>2 DEF Redo
    <3> HIDE DEF u, r
    <3>3. [x EXCEPT !.redo = r, !.undo = u] = [x EXCEPT !.undo = u, !.redo = r]
      <4>1. x \in Buffers
        BY BufferFields
      <4>2. QED
        BY <4>1 DEF Buffers
    <3>4. Noted(x, [x EXCEPT !.redo = r, !.undo = u])
      BY <3>1, <3>3, StacksSet
    <3>5. QED
      BY <3>1, <3>2, <3>4, ApplyIsFair
  <2>3. QED
    BY <2>1, <2>2
<1>4. QED
  BY <1>2, <1>3

LEMMA PartType ==
  ASSUME NEW T, NEW s \in Seq(T), NEW m \in Nat \ {0}, NEW k \in Nat, k <= Len(s)
  PROVE  SubSeq(s, m, k) \in Seq(T)
<1>1. CASE m <= k + 1
  BY <1>1, SliceIs
<1>2. CASE ~(m <= k + 1)
  <2>1. m \in Int /\ k \in Int /\ m > k
    BY <1>2
  <2>2. SubSeq(s, m, k) = <<>>
    BY <2>1, SubSeqEmpty
  <2>3. QED
    BY <2>2
<1>3. QED
  BY <1>1, <1>2

LEMMA SpanType ==
  ASSUME NEW x \in Buffers, NEW p \in Nat \X Nat, NEW q \in Nat \X Nat
  PROVE  Span(x, p, q) \in ByteTexts
<1>1. p[1] \in Nat /\ p[2] \in Nat /\ q[1] \in Nat /\ q[2] \in Nat
  OBVIOUS
<1>2. PICK ls : ls = Lines(x) /\ ls \in Seq(ByteTexts) /\ Len(ls) \in Nat \ {0}
  BY LinesType
<1> DEFINE sr == AtMost(p[1], Len(ls) - 1) + 1  er == AtMost(q[1], Len(ls) - 1) + 1
<1>3. sr \in 1..Len(ls) /\ er \in 1..Len(ls)
  BY <1>1, <1>2 DEF AtMost
<1> DEFINE one == substring(ls[sr], p[2], q[2])
           all == <<substring(ls[sr], p[2], Len(ls[sr]))>> \o SubSeq(ls, sr + 1, er - 1)
                    \o <<substring(ls[er], 0, q[2])>>
<1>4. Span(x, p, q) = IF sr = er THEN one ELSE Join(all)
  BY <1>2 DEF Span
<1> HIDE DEF sr, er
<1>5. ls[sr] \in ByteTexts /\ ls[er] \in ByteTexts /\ Len(ls[sr]) \in Nat /\ 0 \in Nat
  BY <1>2, <1>3 DEF ByteTexts
<1>6. /\ one \in ByteTexts /\ substring(ls[sr], p[2], Len(ls[sr])) \in ByteTexts
      /\ substring(ls[er], 0, q[2]) \in ByteTexts
  BY <1>1, <1>5, SubstringType
<1>7. SubSeq(ls, sr + 1, er - 1) \in Seq(ByteTexts)
  <2>1. sr + 1 \in Nat \ {0} /\ er - 1 \in Nat /\ er - 1 <= Len(ls)
    BY <1>2, <1>3
  <2>2. QED
    BY <1>2, <2>1, PartType
<1>8. all \in Seq(ByteTexts) /\ all # <<>>
  <2>1. PICK f, l, m : /\ f = substring(ls[sr], p[2], Len(ls[sr])) /\ l = substring(ls[er], 0, q[2])
                       /\ m = SubSeq(ls, sr + 1, er - 1)
                       /\ f \in ByteTexts /\ l \in ByteTexts /\ m \in Seq(ByteTexts)
    BY <1>6, <1>7
  <2>2. <<f>> \o m \in Seq(ByteTexts) /\ Len(<<f>> \o m) = 1 + Len(m)
    BY <2>1
  <2>3. (<<f>> \o m) \o <<l>> \in Seq(ByteTexts) /\ Len((<<f>> \o m) \o <<l>>) = 1 + Len(m) + 1
    BY <2>1, <2>2
  <2>4. (<<f>> \o m) \o <<l>> # <<>>
    <3>1. Len(m) \in Nat
      BY <2>1
    <3>2. QED
      BY <2>3, <3>1
  <2>5. QED
    BY <2>1, <2>3, <2>4
<1> HIDE DEF one, all
<1>9. QED
  BY <1>4, <1>6, <1>8, JoinType

LEMMA RegionType ==
  ASSUME NEW x, WellFormed(x), x.mark # NoMark
  PROVE  Region(x).from \in Nat \X Nat /\ Region(x).txt \in ByteTexts
<1>1. x \in Buffers /\ x.mark \in Nat \X Nat
  BY BufferFields
<1> DEFINE point == <<row(x), x.col>>
<1>2. point \in Nat \X Nat
  <2>1. row(x) \in Nat /\ x.col \in Nat
    BY PointIsAMark
  <2>2. \A i, j \in Nat : <<i, j>> \in Nat \X Nat
    OBVIOUS
  <2>3. QED
    BY <2>1, <2>2, Zenon
<1> DEFINE from == IF Before(x.mark, point) THEN x.mark ELSE point
           to == IF Before(x.mark, point) THEN point ELSE x.mark
<1>3. from \in Nat \X Nat /\ to \in Nat \X Nat
  BY <1>1, <1>2
<1>4. Region(x) = [from |-> from, txt |-> Span(x, from, to)]
  BY DEF Region
<1> HIDE DEF from, to, point
<1>5. Span(x, from, to) \in ByteTexts
  BY <1>1, <1>3, SpanType
<1>6. QED
  BY <1>3, <1>4, <1>5

LEMMA KillRegionIsFair ==
  ASSUME NEW x, WellFormed(x), x.mark # NoMark
  PROVE  Fair(x, KillRegion(x)) /\ Fair(x, KillRingSave(x))
<1>1. NoMark \in {NoMark} \cup (Nat \X Nat) /\ x \in Buffers
  BY BufferFields
<1>2. PICK rg : rg = Region(x) /\ rg.from \in Nat \X Nat /\ rg.txt \in ByteTexts
  BY RegionType
<1>3. rg.from[1] \in Nat /\ rg.from[2] \in Nat /\ Len(rg.txt) \in Nat
  BY <1>2 DEF ByteTexts
<1>4. Noted(x, KillPush(x, rg.txt)) /\ WellFormed(KillPush(x, rg.txt))
  BY <1>2, KillPushNotes, NotedLines
<1>5. Fair(x, KillRegion(x))
  <2> DEFINE k == KillPush(x, rg.txt)
             rec == Rec(x, "ins", rg.from[1], rg.from[2], rg.txt)
             y == Record(k, rec)
             z == Goto(y, rg.from[1], rg.from[2])
             w == RawDeleteForward(z, Len(rg.txt))
             v == [w EXCEPT !.mark = NoMark]
  <2>1. KillRegion(x) = v
    BY <1>2 DEF KillRegion
  <2>2. rec \in EditRecords
    BY <1>1, <1>2, <1>3, RecType
  <2>3. Noted(x, k) /\ WellFormed(k)
    BY <1>4
  <2> HIDE DEF k, rec
  <2>4. Noted(k, y)
    BY <2>2, <2>3, RecordNotes
  <2> HIDE DEF y
  <2>5. WellFormed(y) /\ Lines(y) = Lines(x)
    BY <2>3, <2>4, NotedTwice, NotedLines
  <2>6. Moved(y, z)
    BY <1>3, <2>5, GotoMoves
  <2> HIDE DEF z
  <2>7. WellFormed(z) /\ Lines(z) = Lines(x)
    BY <2>5, <2>6 DEF Moved
  <2>8. Touched(z, w)
    BY <1>3, <2>7, DeleteForwardTouches
  <2> HIDE DEF w
  <2>9. WellFormed(w) /\ (w.modified \/ Lines(w) = Lines(x))
    BY <2>7, <2>8 DEF Touched
  <2>10. Noted(w, v)
    BY <1>1, <2>9, MarkSetNotes
  <2> HIDE DEF v
  <2>11. WellFormed(v) /\ Lines(v) = Lines(w) /\ v.modified = w.modified
    BY <2>10, NotedLines DEF Noted
  <2>12. Fair(x, v)
    BY <2>9, <2>11 DEF Fair
  <2>13. QED
    BY <2>1, <2>12
<1>6. Fair(x, KillRingSave(x))
  <2> DEFINE k == KillPush(x, rg.txt)  v == [k EXCEPT !.mark = NoMark]
  <2>1. KillRingSave(x) = v
    BY <1>2 DEF KillRingSave
  <2>2. Noted(x, k) /\ WellFormed(k)
    BY <1>4
  <2> HIDE DEF k
  <2>3. Noted(k, v)
    BY <1>1, <2>2, MarkSetNotes
  <2> HIDE DEF v
  <2>4. Noted(x, v)
    BY <2>2, <2>3, NotedTwice
  <2>5. QED
    BY <2>1, <2>4, MarkedIsFair
<1>7. QED
  BY <1>5, <1>6

(* A search that finds something has a first match.                        *)
LEMMA FirstMatch ==
  ASSUME NEW found \in SUBSET (Nat \X Nat), found # {}
  PROVE  \E p \in found : \A q \in found : Before(p, q)
<1> DEFINE Rows == {r \in Nat : \E p \in found : p[1] = r}
<1>1. Rows \in SUBSET Nat /\ Rows # {}
  OBVIOUS
<1> HIDE DEF Rows
<1>2. PICK r \in Rows : \A y \in Rows : r <= y
  BY <1>1, LeastExists
<1> DEFINE Cols == {c \in Nat : \E p \in found : p[1] = r /\ p[2] = c}
<1>3. Cols \in SUBSET Nat /\ Cols # {}
  BY <1>2 DEF Rows
<1> HIDE DEF Cols
<1>4. PICK c \in Cols : \A y \in Cols : c <= y
  BY <1>3, LeastExists
<1>5. PICK p \in found : p[1] = r /\ p[2] = c
  BY <1>4 DEF Cols
<1>6. ASSUME NEW q \in found PROVE Before(p, q)
  <2>1. q[1] \in Nat /\ q[2] \in Nat /\ r \in Nat /\ c \in Nat
    BY <1>1, <1>2, <1>3, <1>4
  <2>2. q[1] \in Rows /\ r <= q[1]
    BY <1>2, <2>1 DEF Rows
  <2>3. q[1] = r => c <= q[2]
    BY <1>4, <2>1 DEF Cols
  <2>4. QED
    BY <1>5, <2>1, <2>2, <2>3 DEF Before
<1>7. QED
  BY <1>6

LEMMA SearchIsFair ==
  ASSUME NEW x, WellFormed(x), NEW s \in ByteTexts, NEW r \in Nat, NEW c \in Nat
  PROVE  Fair(x, SearchMove(x, s, r, c))
<1> DEFINE found == Matches(x, s, r, c)
           m == CHOOSE p \in found : \A q \in found : Before(p, q)
<1>1. found \in SUBSET (Nat \X Nat)
  <2>1. found \subseteq (0..Len(Lines(x)) - 1) \X (0..Len(Text(x)))
    BY DEF Matches
  <2>2. 0..Len(Lines(x)) - 1 \subseteq Nat /\ 0..Len(Text(x)) \subseteq Nat
    <3>1. Len(Lines(x)) \in Nat /\ Len(Text(x)) \in Nat
      BY BufferFields, LinesType, TextType DEF ByteTexts
    <3>2. QED
      BY <3>1
  <2> HIDE DEF found
  <2>3. QED
    BY <2>1, <2>2
<1>2. SearchMove(x, s, r, c) = IF found = {} THEN x
                               ELSE Goto([x EXCEPT !.mark = m], m[1], m[2] + Len(s))
  BY DEF SearchMove
<1> HIDE DEF found
<1>3. CASE found = {}
  BY <1>2, <1>3, NothingIsFair
<1>4. CASE found # {}
  <2>1. m \in found
    BY <1>1, <1>4, FirstMatch
  <2> HIDE DEF m
  <2>2. m \in Nat \X Nat
    BY <1>1, <2>1
  <2>3. m[1] \in Nat /\ m[2] + Len(s) \in Nat /\ m \in {NoMark} \cup (Nat \X Nat)
    BY <2>2 DEF ByteTexts
  <2> DEFINE y == [x EXCEPT !.mark = m]
  <2>4. Noted(x, y)
    BY <2>3, MarkSetNotes
  <2> HIDE DEF y
  <2>5. WellFormed(y) /\ Lines(y) = Lines(x)
    BY <2>4, NotedLines
  <2>6. Moved(y, Goto(y, m[1], m[2] + Len(s)))
    BY <2>3, <2>5, GotoMoves
  <2>7. Fair(x, Goto(y, m[1], m[2] + Len(s)))
    BY <2>5, <2>6 DEF Moved, Fair
  <2>8. QED
    BY <1>2, <1>4, <2>7 DEF y
<1>5. QED
  BY <1>3, <1>4

LEMMA SavedIsFair ==
  ASSUME NEW x, WellFormed(x)
  PROVE  Fair(x, [x EXCEPT !.modified = FALSE])
  BY DEF WellFormed, Fair, Lines, Buffers

(***************************************************************************)
(* The commands.                                                           *)
(***************************************************************************)
TextInv == WellFormed(b) /\ commands \in Nat

LEMMA OpenIsWellFormed ==
  ASSUME NEW ls \in Seq(ByteTexts), ls # <<>>
  PROVE  WellFormed(Open(ls))
<1>1. Head(ls) \in ByteTexts /\ Tail(ls) \in Seq(ByteTexts) /\ UndoCap \in Nat /\ KillCap \in Nat
  BY HeadTail, TextAssumption
<1>2. PICK x : x = Open(ls)
  OBVIOUS
<1>3. PICK h, t : h = Head(ls) /\ t = Tail(ls) /\ h \in ByteTexts /\ t \in Seq(ByteTexts)
  BY <1>1
<1> DEFINE es == <<>>  tx == <<>>
<1>4. es \in Seq(EditRecords) /\ Len(es) = 0 /\ tx \in Seq(ByteTexts) /\ Len(tx) = 0
  OBVIOUS
<1>5. x = [above |-> tx, cur |-> h, below |-> t, col |-> 0, goal |-> 0,
           modified |-> FALSE, undo |-> es, redo |-> es, mark |-> NoMark, kill |-> tx]
  BY <1>2, <1>3 DEF Open
<1> HIDE DEF es, tx
<1>6. /\ x \in Buffers /\ x.col = 0 /\ x.cur = h /\ x.undo = es /\ x.redo = es /\ x.kill = tx
  BY <1>3, <1>4, <1>5 DEF Buffers
<1>7. 0 <= Len(h)
  BY <1>3 DEF ByteTexts
<1>8. Len(es) + Len(es) <= UndoCap /\ Len(tx) <= KillCap
  BY <1>1, <1>4
<1>9. WellFormed(x)
  BY <1>6, <1>7, <1>8 DEF WellFormed
<1>10. QED
  BY <1>2, <1>9

LEMMA TextNextFair ==
  ASSUME TextInv, TextNext
  PROVE  Fair(b, b') /\ commands' \in Nat
<1>1. WellFormed(b) /\ commands \in Nat /\ CommandMax \in Nat
  BY TextAssumption DEF TextInv
<1>2. ASSUME NEW x, Do(x) PROVE b' = x /\ commands' \in Nat
  BY <1>1, <1>2 DEF Do
<1>3. CASE Move
  <2>1. Moved(b, b')
    BY <1>1, <1>3, MotionMoves DEF Move
  <2>2. QED
    BY <1>1, <1>3, <2>1 DEF Moved, Fair, Move
<1>4. CASE Search
  <2>1. PICK ch \in 1..CommandMax : Do(SearchMove(b, <<ch>>, row(b), b.col))
    BY <1>4 DEF Search
  <2>2. <<ch>> \in ByteTexts
    BY <1>1 DEF ByteTexts
  <2>3. Fair(b, SearchMove(b, <<ch>>, row(b), b.col))
    BY <1>1, <2>2, PointIsAMark, SearchIsFair
  <2>4. QED
    BY <1>2, <2>1, <2>3
<1>5. CASE Edit
  <2>1. <<commands + 1>> \in ByteTexts
    BY <1>1 DEF ByteTexts
  <2>2. /\ Fair(b, Insert(b, <<commands + 1>>)) /\ Fair(b, Newline(b)) /\ Fair(b, Backspace(b))
        /\ Fair(b, Delete(b)) /\ Fair(b, KillLine(b)) /\ Fair(b, Yank(b))
    BY <1>1, <2>1, InsertIsFair, NewlineIsFair, BackspaceIsFair, DeleteIsFair, KillLineIsFair,
       YankIsFair
  <2>3. QED
    BY <1>2, <1>5, <2>2 DEF Edit
<1>6. CASE UseRegion
  <2>1. b.mark # NoMark /\ (Do(KillRegion(b)) \/ Do(KillRingSave(b)))
    BY <1>6 DEF UseRegion
  <2>2. Fair(b, KillRegion(b)) /\ Fair(b, KillRingSave(b))
    BY <1>1, <2>1, KillRegionIsFair
  <2>3. QED
    BY <1>2, <2>1, <2>2
<1>7. CASE MarkSaved
  BY <1>1, <1>2, <1>7, SavedIsFair DEF MarkSaved
<1>8. CASE Do(SetMark(b)) \/ Do(Undo(b)) \/ Do(Redo(b))
  BY <1>1, <1>2, <1>8, SetMarkIsFair, UndoIsFair
<1>9. QED
  BY <1>3, <1>4, <1>5, <1>6, <1>7, <1>8 DEF TextNext

LEMMA TextSpecInv == TextSpec => []TextInv
<1>1. TextInit => TextInv
  <2>1. ASSUME NEW ls \in Contents PROVE WellFormed(Open(ls))
    BY TextAssumption, OpenIsWellFormed DEF ByteTexts
  <2>2. QED
    BY <2>1 DEF TextInit, TextInv
<1>2. TextInv /\ [TextNext]_textVars => TextInv'
  <2>1. TextInv /\ TextNext => TextInv'
    <3> SUFFICES ASSUME TextInv, TextNext PROVE TextInv'
      OBVIOUS
    <3>1. Fair(b, b') /\ commands' \in Nat
      BY TextNextFair
    <3>2. QED
      BY <3>1 DEF TextInv, Fair
  <2>2. TextInv /\ UNCHANGED textVars => TextInv'
    BY DEF TextInv, textVars
  <2>3. QED
    BY <2>1, <2>2
<1>3. QED
  BY <1>1, <1>2, PTL DEF TextSpec

(* The point stays on its line and the stacks stay within their bounds,    *)
(* whatever commands the editor runs on a text buffer.                     *)
THEOREM TextTypes == TextSpec => []TextTypeOK
<1>1. TextInv => TextTypeOK
  <2> SUFFICES ASSUME TextInv PROVE TextTypeOK
    OBVIOUS
  <2>1. /\ b.col \in Nat /\ b.goal \in Nat /\ b.col <= Len(b.cur) /\ Len(b.cur) \in Nat
        /\ b.modified \in BOOLEAN /\ Len(b.undo) \in Nat /\ Len(b.redo) \in Nat
        /\ Len(b.undo) + Len(b.redo) <= UndoCap /\ Len(b.kill) <= KillCap /\ UndoCap \in Nat
    BY BufferFields, TextAssumption DEF TextInv
  <2>2. PICK m \in Nat, n \in Nat : m = Len(b.undo) /\ n = Len(b.redo) /\ m + n <= UndoCap
    BY <2>1
  <2>3. m <= UndoCap
    <3>1. \A i, j, k \in Nat : i + j <= k => i <= k
      OBVIOUS
    <3>2. QED
      BY <2>1, <2>2, <3>1, Zenon
  <2>4. QED
    BY <2>1, <2>2, <2>3 DEF TextTypeOK
<1>2. QED
  BY <1>1, TextSpecInv, PTL

(* No command of the editor changes the text of a buffer and leaves the    *)
(* buffer clean, for any text and any caps: not undo and redo, which apply *)
(* records, nor the commands that delete a region that is given by a mark. *)
THEOREM TextChangesAreMarked == TextSpec => ChangesAreMarked
<1>1. TextInv /\ TextNext => (Text(b') # Text(b) => b'.modified)
  <2> SUFFICES ASSUME TextInv, TextNext PROVE Text(b') # Text(b) => b'.modified
    OBVIOUS
  <2>1. b'.modified \/ Lines(b') = Lines(b)
    BY TextNextFair DEF Fair
  <2>2. QED
    BY <2>1 DEF Text
<1>2. TextInv /\ [TextNext]_textVars => [Text(b') # Text(b) => b'.modified]_textVars
  BY <1>1
<1>3. QED
  BY <1>2, TextSpecInv, PTL DEF TextSpec, ChangesAreMarked

-----------------------------------------------------------------------------
(***************************************************************************)
(* Undo and redo                                                           *)
(*                                                                         *)
(* A record holds a row, a column and a text, and no more.  It gives back  *)
(* the text before the edit because a row and a column name one point of a *)
(* text: lines hold no line break, so a text has one division into lines.  *)
(* That makes "each record, applied in turn from the last one, gives what  *)
(* it remembers" an invariant of every command.                            *)
(***************************************************************************)
(***************************************************************************)
(* The text around the point                                               *)
(*                                                                         *)
(* Records hold rows and columns, and a text is a list of lines.  The      *)
(* proof about undo works on flat texts instead: what stands before the    *)
(* point and what stands after it.                                         *)
(***************************************************************************)
(* What stands between two lines.                                          *)
Break == <<NL>>

Ended(ls) == FlattenSeq([i \in 1..Len(ls) |-> ls[i] \o Break])

Led(ls) == FlattenSeq([i \in 1..Len(ls) |-> Break \o ls[i]])

LEMMA TextFacts ==
  /\ Break \in ByteTexts /\ <<>> \in ByteTexts
  /\ \A p, q \in ByteTexts : p \o q \in ByteTexts /\ Len(p \o q) = Len(p) + Len(q)
  /\ \A p \in ByteTexts : p \o <<>> = p /\ <<>> \o p = p /\ Len(p) \in Nat
<1>1. Break \in ByteTexts /\ <<>> \in ByteTexts
  BY DEF ByteTexts, NL, Break
<1>2. \A p, q \in ByteTexts : p \o q \in ByteTexts /\ Len(p \o q) = Len(p) + Len(q)
  BY ConcatProperties DEF ByteTexts
<1>3. \A p \in ByteTexts : p \o <<>> = p /\ <<>> \o p = p /\ Len(p) \in Nat
  BY ConcatEmptySeq DEF ByteTexts
<1>4. QED
  BY <1>1, <1>2, <1>3

LEMMA TextAssoc ==
  ASSUME NEW p \in ByteTexts, NEW q \in ByteTexts, NEW r \in ByteTexts
  PROVE  (p \o q) \o r = p \o (q \o r)
  BY ConcatAssociative, SMTT(30) DEF ByteTexts

(* Three texts in a row may be put together in either order.               *)
Associates(p, q, r) == (p \o q) \o r = p \o (q \o r)

LEMMA Associated ==
  ASSUME NEW p \in ByteTexts, NEW q \in ByteTexts, NEW r \in ByteTexts
  PROVE  Associates(p, q, r)
  BY TextAssoc DEF Associates

LEMMA Cancel ==
  /\ \A p, q, r \in ByteTexts : p \o q = p \o r => q = r
  /\ \A p, q, r \in ByteTexts : q \o p = r \o p => q = r
  BY ConcatSimplifications DEF ByteTexts

(* A sequence of what is made of the lines, one by one.                    *)
LEMMA MappedAppend ==
  ASSUME NEW f, NEW ls \in Seq(ByteTexts), NEW l \in ByteTexts,
         f = [x \in ByteTexts |-> f[x]], \A x \in ByteTexts : f[x] \in ByteTexts
  PROVE  /\ [i \in 1..Len(Append(ls, l)) |-> f[Append(ls, l)[i]]]
              = Append([i \in 1..Len(ls) |-> f[ls[i]]], f[l])
         /\ [i \in 1..Len(ls) |-> f[ls[i]]] \in Seq(ByteTexts)
<1> DEFINE more == Append(ls, l)  n == Len(ls)
           m1 == [i \in 1..Len(more) |-> f[more[i]]]
           m == [i \in 1..n |-> f[ls[i]]]
<1>1. n \in Nat /\ Len(more) = n + 1 /\ more[n + 1] = l /\ \A i \in 1..n : more[i] = ls[i]
  OBVIOUS
<1>2. \A i \in 1..n : ls[i] \in ByteTexts
  OBVIOUS
<1>3. m \in Seq(ByteTexts) /\ Len(m) = n /\ \A i \in 1..n : m[i] = f[ls[i]]
  <2> HIDE DEF n
  <2> QED
    BY <1>1, <1>2
<1>4. more \in Seq(ByteTexts)
  OBVIOUS
<1>5. m1 \in Seq(ByteTexts) /\ Len(m1) = n + 1 /\ \A i \in 1..(n + 1) : m1[i] = f[more[i]]
  <2> HIDE DEF n, more
  <2>1. \A i \in 1..(n + 1) : more[i] \in ByteTexts
    BY <1>1, <1>4
  <2>2. \A i \in 1..(n + 1) : f[more[i]] \in ByteTexts
    BY <2>1
  <2>3. PICK k \in Nat : k = n + 1
    BY <1>1
  <2>4. m1 = [i \in 1..k |-> f[more[i]]]
    BY <1>1, <2>3
  <2>5. \A i \in 1..k : f[more[i]] \in ByteTexts
    BY <2>2, <2>3
  <2> HIDE DEF m1
  <2>6. m1 \in [1..k -> ByteTexts]
    BY <2>4, <2>5, Zenon
  <2>7. m1 \in Seq(ByteTexts) /\ Len(m1) = k
    BY <2>6
  <2>8. QED
    BY <2>3, <2>4, <2>7
<1> HIDE DEF m, m1, n, more
<1>6. f[l] \in ByteTexts
  OBVIOUS
<1>7. PICK e : e = f[l] /\ e \in ByteTexts
  BY <1>6
<1>8. /\ Append(m, e) \in Seq(ByteTexts) /\ Len(Append(m, e)) = n + 1 /\ Append(m, e)[n + 1] = e
      /\ \A i \in 1..n : Append(m, e)[i] = m[i]
  BY <1>1, <1>3, <1>7
<1>9. \A i \in 1..(n + 1) : m1[i] = Append(m, e)[i]
  <2>1. SUFFICES ASSUME NEW i \in 1..(n + 1) PROVE m1[i] = Append(m, e)[i]
    OBVIOUS
  <2>2. i \in 1..n \/ i = n + 1
    BY <1>1
  <2>3. CASE i \in 1..n
    <3>1. m1[i] = f[ls[i]] /\ m[i] = f[ls[i]]
      BY <1>1, <1>3, <1>5, <2>3
    <3>2. QED
      BY <1>8, <2>3, <3>1
  <2>4. CASE i = n + 1
    BY <1>1, <1>5, <1>7, <1>8, <2>4
  <2>5. QED
    BY <2>2, <2>3, <2>4
<1>10. m1 = Append(m, e)
  BY <1>5, <1>8, <1>9, SeqEqual
<1>11. QED
  BY <1>3, <1>7, <1>10 DEF m, m1, n, more

LEMMA EndedAppend ==
  ASSUME NEW ls \in Seq(ByteTexts), NEW l \in ByteTexts
  PROVE  Ended(Append(ls, l)) = Ended(ls) \o (l \o Break) /\ Ended(ls) \in ByteTexts
<1> DEFINE f == [x \in ByteTexts |-> x \o Break]
           g(s) == [i \in 1..Len(s) |-> f[s[i]]]
<1>1. \A x \in ByteTexts : f[x] \in ByteTexts /\ f[x] = x \o Break
  BY TextFacts
<1>2. f = [x \in ByteTexts |-> f[x]]
  OBVIOUS
<1>3. \A s \in Seq(ByteTexts) : Ended(s) = FlattenSeq(g(s))
  <2>1. SUFFICES ASSUME NEW s \in Seq(ByteTexts)
                 PROVE  [i \in 1..Len(s) |-> s[i] \o Break] = g(s)
    BY DEF Ended
  <2>2. \A i \in 1..Len(s) : s[i] \in ByteTexts
    OBVIOUS
  <2>3. \A i \in 1..Len(s) : f[s[i]] = s[i] \o Break
    BY <1>1, <2>2
  <2> HIDE DEF f
  <2>4. QED
    BY <2>3
<1> HIDE DEF f
<1>4. g(Append(ls, l)) = Append(g(ls), f[l]) /\ g(ls) \in Seq(ByteTexts)
  BY <1>1, <1>2, MappedAppend
<1>5. Append(ls, l) \in Seq(ByteTexts)
  OBVIOUS
<1>6. f[l] = l \o Break /\ f[l] \in ByteTexts
  BY <1>1
<1> HIDE DEF g
<1>7. FlattenSeq(Append(g(ls), f[l])) = FlattenSeq(g(ls)) \o f[l] /\ FlattenSeq(g(ls)) \in ByteTexts
  BY <1>4, <1>6, FlattenAppend, FlattenType DEF ByteTexts
<1>8. QED
  BY <1>3, <1>4, <1>5, <1>6, <1>7

LEMMA LedAppend ==
  ASSUME NEW ls \in Seq(ByteTexts), NEW l \in ByteTexts
  PROVE  Led(Append(ls, l)) = Led(ls) \o (Break \o l) /\ Led(ls) \in ByteTexts
<1> DEFINE f == [x \in ByteTexts |-> Break \o x]
           g(s) == [i \in 1..Len(s) |-> f[s[i]]]
<1>1. \A x \in ByteTexts : f[x] \in ByteTexts /\ f[x] = Break \o x
  BY TextFacts
<1>2. f = [x \in ByteTexts |-> f[x]]
  OBVIOUS
<1>3. \A s \in Seq(ByteTexts) : Led(s) = FlattenSeq(g(s))
  <2>1. SUFFICES ASSUME NEW s \in Seq(ByteTexts)
                 PROVE  [i \in 1..Len(s) |-> Break \o s[i]] = g(s)
    BY DEF Led
  <2>2. \A i \in 1..Len(s) : s[i] \in ByteTexts
    OBVIOUS
  <2>3. \A i \in 1..Len(s) : f[s[i]] = Break \o s[i]
    BY <1>1, <2>2
  <2> HIDE DEF f
  <2>4. QED
    BY <2>3
<1> HIDE DEF f
<1>4. g(Append(ls, l)) = Append(g(ls), f[l]) /\ g(ls) \in Seq(ByteTexts)
  BY <1>1, <1>2, MappedAppend
<1>5. Append(ls, l) \in Seq(ByteTexts)
  OBVIOUS
<1>6. f[l] = Break \o l /\ f[l] \in ByteTexts
  BY <1>1
<1> HIDE DEF g
<1>7. FlattenSeq(Append(g(ls), f[l])) = FlattenSeq(g(ls)) \o f[l] /\ FlattenSeq(g(ls)) \in ByteTexts
  BY <1>4, <1>6, FlattenAppend, FlattenType DEF ByteTexts
<1>8. QED
  BY <1>3, <1>4, <1>5, <1>6, <1>7

LEMMA NoneEnded == Ended(<<>>) = <<>> /\ Led(<<>>) = <<>>
<1>1. \A f : [i \in 1..0 |-> f[i]] = <<>>
  OBVIOUS
<1>2. Len(<<>>) = 0
  OBVIOUS
<1>3. [i \in 1..Len(<<>>) |-> <<>>[i] \o Break] = <<>> /\ [i \in 1..Len(<<>>) |-> Break \o <<>>[i]] = <<>>
  BY <1>2
<1>4. QED
  BY <1>3, FlattenNone DEF Ended, Led

LEMMA LinesAre ==
  ASSUME NEW ls \in Seq(ByteTexts)
  PROVE  Ended(ls) \in ByteTexts /\ Led(ls) \in ByteTexts
  BY EndedAppend, LedAppend, TextFacts

(* Induction over the lines, from the first to the last.                   *)
LEMMA LineByLineUp ==
  ASSUME NEW T, <<>> \in T, NEW E,
         \A s \in Seq(E), l \in E : s \in T => Append(s, l) \in T
  PROVE  Seq(E) \subseteq T
<1>1. SUFFICES ASSUME NEW s \in Seq(E) PROVE s \in T
  OBVIOUS
<1>2. PICK n \in Nat : n = Len(s)
  OBVIOUS
<1> DEFINE P(i) == SubSeq(s, 1, i)
           U == {i \in 0..n : P(i) \in T}
<1>3. P(0) = <<>> /\ P(n) = s
  BY <1>2, SubSeqEmpty, SubSeqFull
<1>4. ASSUME NEW i \in 1..n PROVE P(i - 1) \in Seq(E) /\ s[i] \in E /\ P(i) = Append(P(i - 1), s[i])
  <2>1. P(i) = P(i - 1) \o <<s[i]>>
    <3>1. 1 \in 1..Len(s) /\ i \in 1..Len(s)
      BY <1>2
    <3>2. QED
      BY <3>1, SubSeqRecursiveSecond
  <2>2. s[i] \in E
    BY <1>2
  <2>3. P(i - 1) \in Seq(E)
    <3>1. 1 \in Nat \ {0} /\ i - 1 \in Nat /\ i - 1 <= Len(s) /\ 1 <= (i - 1) + 1
      BY <1>2
    <3>2. QED
      BY <3>1, SliceIs
  <2>4. PICK t : t = P(i - 1) /\ t \in Seq(E)
    BY <2>3
  <2>5. Append(t, s[i]) = t \o <<s[i]>>
    BY <2>2, <2>4
  <2> HIDE DEF P
  <2>6. QED
    BY <2>1, <2>2, <2>4, <2>5
<1> HIDE DEF P
<1>5. ASSUME NEW i \in 1..n, i - 1 \in U PROVE i \in U
  <2>1. P(i - 1) \in T
    BY <1>5
  <2>2. PICK t \in Seq(E), l \in E : t = P(i - 1) /\ l = s[i]
    BY <1>4
  <2>3. Append(t, l) \in T
    BY <2>1, <2>2
  <2>4. P(i) \in T
    BY <1>4, <2>2, <2>3
  <2>5. QED
    BY <1>2, <2>4
<1>6. 0 \in U
  BY <1>2, <1>3
<1> HIDE DEF U
<1>7. 0..n \subseteq U
  BY <1>5, <1>6, UpTo
<1>8. n \in U
  BY <1>7
<1>9. QED
  BY <1>3, <1>8 DEF U

LEMMA MoreLines ==
  ASSUME NEW a \in Seq(ByteTexts), NEW s \in Seq(ByteTexts), NEW l \in ByteTexts
  PROVE  /\ a \o Append(s, l) = Append(a \o s, l) /\ a \o s \in Seq(ByteTexts)
         /\ Append(s, l) \in Seq(ByteTexts)
         /\ s # <<>> => Head(Append(s, l)) = Head(s) /\ Tail(Append(s, l)) = Append(Tail(s), l)
<1>1. /\ Append(s, l) = s \o <<l>> /\ <<l>> \in Seq(ByteTexts) /\ a \o s \in Seq(ByteTexts)
      /\ Append(s, l) \in Seq(ByteTexts)
  BY AppendIsConcat
<1>2. (a \o s) \o <<l>> = a \o (s \o <<l>>)
  BY <1>1, ConcatAssociative
<1>3. Append(a \o s, l) = (a \o s) \o <<l>>
  BY <1>1, AppendIsConcat
<1>4. ASSUME s # <<>>
      PROVE  Head(Append(s, l)) = Head(s) /\ Tail(Append(s, l)) = Append(Tail(s), l)
  <2>1. PICK n \in Nat \ {0} : n = Len(s)
    BY <1>4, EmptySeq
  <2>2. PICK t : t = Append(s, l)
    BY Zenon
  <2>3. /\ t \in Seq(ByteTexts) /\ Len(t) = n + 1 /\ t[n + 1] = l /\ t[1] = s[1]
        /\ \A i \in 1..n : t[i] = s[i]
    BY <2>1, <2>2
  <2>4. t # <<>>
    BY <2>3
  <2>5. PICK u : u = Tail(t)
    BY Zenon
  <2>6. u \in Seq(ByteTexts) /\ Len(u) = n /\ \A i \in 1..n : u[i] = t[i + 1]
    <3>1. /\ Tail(t) \in Seq(ByteTexts) /\ Len(Tail(t)) = Len(t) - 1
          /\ \A i \in 1..Len(Tail(t)) : Tail(t)[i] = t[i + 1]
      BY <2>3, <2>4, HeadTailProperties
    <3>2. Len(u) = n
      BY <2>1, <2>3, <2>5, <3>1
    <3>3. QED
      BY <2>5, <3>1, <3>2, Zenon
  <2>7. PICK v : v = Tail(s) /\ v \in Seq(ByteTexts) /\ Len(v) = n - 1 /\ \A i \in 1..(n - 1) : v[i] = s[i + 1]
    <3>1. /\ Tail(s) \in Seq(ByteTexts) /\ Len(Tail(s)) = Len(s) - 1
          /\ \A i \in 1..Len(Tail(s)) : Tail(s)[i] = s[i + 1]
      BY <1>4, HeadTailProperties
    <3>2. QED
      BY <2>1, <3>1
  <2>8. PICK w : /\ w = Append(v, l) /\ w \in Seq(ByteTexts) /\ Len(w) = n /\ w[n] = l
                 /\ \A i \in 1..(n - 1) : w[i] = v[i]
    <3>1. /\ Append(v, l) \in Seq(ByteTexts) /\ Len(Append(v, l)) = (n - 1) + 1
          /\ Append(v, l)[(n - 1) + 1] = l /\ \A i \in 1..(n - 1) : Append(v, l)[i] = v[i]
      BY <2>1, <2>7
    <3>2. (n - 1) + 1 = n
      BY <2>1
    <3>3. QED
      BY <3>1, <3>2
  <2>9. ASSUME NEW i \in 1..n PROVE u[i] = w[i]
    <3>1. CASE i = n
      BY <2>1, <2>3, <2>6, <2>8, <3>1
    <3>2. CASE i # n
      <4>1. i \in 1..(n - 1) /\ i + 1 \in 1..n
        BY <2>1, <3>2
      <4>2. QED
        BY <2>3, <2>6, <2>7, <2>8, <4>1
    <3>3. QED
      BY <3>1, <3>2
  <2>10. u = w
    BY <2>6, <2>8, <2>9, SeqEqual
  <2>11. Head(t) = t[1] /\ Head(s) = s[1]
    OBVIOUS
  <2>12. QED
    BY <2>2, <2>3, <2>5, <2>7, <2>8, <2>10, <2>11
<1>5. QED
  BY <1>1, <1>2, <1>3, <1>4

LEMMA JoinLed ==
  ASSUME NEW ls \in Seq(ByteTexts), ls # <<>>
  PROVE  /\ Join(ls) = Head(ls) \o Led(Tail(ls))
         /\ Head(ls) \in ByteTexts /\ Tail(ls) \in Seq(ByteTexts) /\ Join(ls) \in ByteTexts
<1>1. PICK n \in Nat \ {0} : n = Len(ls)
  BY EmptySeq
<1>2. PICK t : /\ t = Tail(ls) /\ t \in Seq(ByteTexts) /\ Len(t) = n - 1
               /\ \A i \in 1..(n - 1) : t[i] = ls[i + 1]
  <2>1. /\ Tail(ls) \in Seq(ByteTexts) /\ Len(Tail(ls)) = Len(ls) - 1
        /\ \A i \in 1..Len(Tail(ls)) : Tail(ls)[i] = ls[i + 1]
    BY HeadTailProperties
  <2>2. QED
    BY <1>1, <2>1
<1>3. [i \in 1..(Len(ls) - 1) |-> Break \o ls[i + 1]] = [i \in 1..Len(t) |-> Break \o t[i]]
  BY <1>1, <1>2
<1>4. Head(ls) \in ByteTexts
  BY HeadTail
<1>5. QED
  BY <1>2, <1>3, <1>4, JoinType DEF Join, Led, Break

LEMMA JoinAppend ==
  ASSUME NEW ls \in Seq(ByteTexts), ls # <<>>, NEW l \in ByteTexts
  PROVE  Join(Append(ls, l)) = Join(ls) \o (Break \o l)
<1>1. /\ Join(ls) = Head(ls) \o Led(Tail(ls))
      /\ Head(ls) \in ByteTexts /\ Tail(ls) \in Seq(ByteTexts)
  BY JoinLed
<1>2. PICK more : more = Append(ls, l)
  OBVIOUS
<1>3. more \in Seq(ByteTexts) /\ more # <<>>
  BY <1>2
<1>4. Join(more) = Head(more) \o Led(Tail(more))
  BY <1>3, JoinLed
<1>5. Head(more) = Head(ls) /\ Tail(more) = Append(Tail(ls), l)
  BY <1>2, MoreLines
<1>6. Led(Append(Tail(ls), l)) = Led(Tail(ls)) \o (Break \o l) /\ Led(Tail(ls)) \in ByteTexts
  BY <1>1, LedAppend
<1>7. Break \o l \in ByteTexts
  BY TextFacts
<1>8. (Head(ls) \o Led(Tail(ls))) \o (Break \o l) = Head(ls) \o (Led(Tail(ls)) \o (Break \o l))
  BY <1>1, <1>6, <1>7, TextAssoc
<1>9. QED
  BY <1>1, <1>2, <1>4, <1>5, <1>6, <1>8, Zenon

LEMMA JoinEnded ==
  ASSUME NEW a \in Seq(ByteTexts), NEW c \in ByteTexts
  PROVE  Join(Append(a, c)) = Ended(a) \o c
<1> DEFINE T == {s \in Seq(ByteTexts) : \A l \in ByteTexts : Join(Append(s, l)) = Ended(s) \o l}
<1>1. <<>> \in T
  <2>1. SUFFICES ASSUME NEW l \in ByteTexts PROVE Join(Append(<<>>, l)) = Ended(<<>>) \o l
    OBVIOUS
  <2>2. PICK one : one = <<l>>
    OBVIOUS
  <2>3. one \in Seq(ByteTexts) /\ one # <<>> /\ Head(one) = l /\ Tail(one) = <<>> /\ Append(<<>>, l) = one
    BY <2>2
  <2>4. Join(one) = l \o Led(<<>>)
    BY <2>3, JoinLed
  <2>5. QED
    BY <2>3, <2>4, NoneEnded, TextFacts
<1>2. ASSUME NEW s \in Seq(ByteTexts), NEW l \in ByteTexts, s \in T
      PROVE  Append(s, l) \in T
  <2>1. SUFFICES ASSUME NEW k \in ByteTexts PROVE Join(Append(Append(s, l), k)) = Ended(Append(s, l)) \o k
    OBVIOUS
  <2>2. PICK more : more = Append(s, l) /\ more \in Seq(ByteTexts) /\ more # <<>>
    <3>1. Append(s, l) \in Seq(ByteTexts) /\ Append(s, l) # <<>>
      OBVIOUS
    <3>2. QED
      BY <3>1
  <2>3. Join(Append(more, k)) = Join(more) \o (Break \o k)
    BY <2>2, JoinAppend
  <2>4. Join(more) = Ended(s) \o l
    BY <1>2, <2>2
  <2>5. Ended(more) = Ended(s) \o (l \o Break) /\ Ended(s) \in ByteTexts
    BY <2>2, EndedAppend
  <2>6. (Ended(s) \o l) \o (Break \o k) = (Ended(s) \o (l \o Break)) \o k
    <3>1. PICK p : p = Ended(s) /\ p \in ByteTexts
      BY <2>5
    <3>0. p \o l \in ByteTexts /\ Break \in ByteTexts
      BY <3>1, TextFacts
    <3>2. (p \o l) \o (Break \o k) = ((p \o l) \o Break) \o k
      <4>1. Associates(p \o l, Break, k)
        BY <3>0, Associated
      <4>2. QED
        BY <4>1, Zenon DEF Associates
    <3>3. (p \o l) \o Break = p \o (l \o Break)
      <4>1. Associates(p, l, Break)
        BY <3>0, <3>1, Associated
      <4>2. QED
        BY <4>1, Zenon DEF Associates
    <3>4. QED
      BY <3>1, <3>2, <3>3, Zenon
  <2>7. QED
    BY <2>2, <2>3, <2>4, <2>5, <2>6, Zenon
<1> HIDE DEF T
<1>3. Seq(ByteTexts) \subseteq T
  BY <1>1, <1>2, LineByLineUp
<1>4. QED
  BY <1>3 DEF T

LEMMA JoinAround ==
  ASSUME NEW a \in Seq(ByteTexts), NEW c \in ByteTexts, NEW d \in Seq(ByteTexts)
  PROVE  Join(a \o <<c>> \o d) = (Ended(a) \o c) \o Led(d)
<1>1. PICK x : x = a \o <<c>> /\ x \in Seq(ByteTexts) /\ x # <<>> /\ x = Append(a, c)
  <2>1. Append(a, c) = a \o <<c>> /\ Append(a, c) \in Seq(ByteTexts)
    BY AppendIsConcat
  <2>2. Append(a, c) # <<>>
    OBVIOUS
  <2>3. QED
    BY <2>1, <2>2
<1>2. Join(x) = Ended(a) \o c /\ Join(x) \in ByteTexts
  BY <1>1, JoinEnded, JoinLed
<1> DEFINE T == {s \in Seq(ByteTexts) : Join(x \o s) = Join(x) \o Led(s)}
<1>3. <<>> \in T
  <2>1. x \o <<>> = x
    BY <1>1, ConcatEmptySeq
  <2>2. Join(x) \o <<>> = Join(x)
    BY <1>2, TextFacts
  <2>3. <<>> \in Seq(ByteTexts)
    OBVIOUS
  <2>4. QED
    BY <2>1, <2>2, <2>3, NoneEnded
<1>4. ASSUME NEW s \in Seq(ByteTexts), NEW l \in ByteTexts, s \in T
      PROVE  Append(s, l) \in T
  <2>1. x \o Append(s, l) = Append(x \o s, l) /\ x \o s \in Seq(ByteTexts) /\ Append(s, l) \in Seq(ByteTexts)
    BY <1>1, MoreLines
  <2>2. x \o s # <<>>
    BY <1>1, ConcatEqualIffEmpty
  <2>3. Join(Append(x \o s, l)) = Join(x \o s) \o (Break \o l)
    BY <2>1, <2>2, JoinAppend
  <2>4. Join(x \o s) = Join(x) \o Led(s)
    BY <1>4
  <2>5. Led(Append(s, l)) = Led(s) \o (Break \o l) /\ Led(s) \in ByteTexts
    BY LedAppend
  <2>6. (Join(x) \o Led(s)) \o (Break \o l) = Join(x) \o (Led(s) \o (Break \o l))
    <3>1. Break \o l \in ByteTexts
      BY TextFacts
    <3>2. QED
      BY <1>2, <2>5, <3>1, TextAssoc
  <2>7. QED
    BY <2>1, <2>3, <2>4, <2>5, <2>6, Zenon
<1> HIDE DEF T
<1>5. Seq(ByteTexts) \subseteq T
  BY <1>3, <1>4, LineByLineUp
<1>6. QED
  BY <1>1, <1>2, <1>5 DEF T

LEMMA EndedTogether ==
  ASSUME NEW a \in Seq(ByteTexts), NEW d \in Seq(ByteTexts)
  PROVE  Ended(a \o d) = Ended(a) \o Ended(d)
<1> DEFINE T == {s \in Seq(ByteTexts) : Ended(a \o s) = Ended(a) \o Ended(s)}
<1>1. <<>> \in T
  <2>1. a \o <<>> = a
    BY ConcatEmptySeq
  <2>2. Ended(a) \o <<>> = Ended(a)
    BY LinesAre, TextFacts
  <2>3. <<>> \in Seq(ByteTexts)
    OBVIOUS
  <2>4. QED
    BY <2>1, <2>2, <2>3, NoneEnded
<1>2. ASSUME NEW s \in Seq(ByteTexts), NEW l \in ByteTexts, s \in T
      PROVE  Append(s, l) \in T
  <2>1. a \o Append(s, l) = Append(a \o s, l) /\ a \o s \in Seq(ByteTexts) /\ Append(s, l) \in Seq(ByteTexts)
    BY MoreLines
  <2>2. /\ Ended(Append(a \o s, l)) = Ended(a \o s) \o (l \o Break)
        /\ Ended(Append(s, l)) = Ended(s) \o (l \o Break)
        /\ Ended(s) \in ByteTexts /\ Ended(a) \in ByteTexts /\ l \o Break \in ByteTexts
    BY <2>1, EndedAppend, LinesAre, TextFacts
  <2>3. (Ended(a) \o Ended(s)) \o (l \o Break) = Ended(a) \o (Ended(s) \o (l \o Break))
    BY <2>2, TextAssoc
  <2>4. Ended(a \o s) = Ended(a) \o Ended(s)
    BY <1>2
  <2>5. QED
    BY <2>1, <2>2, <2>3, <2>4, Zenon
<1> HIDE DEF T
<1>3. Seq(ByteTexts) \subseteq T
  BY <1>1, <1>2, LineByLineUp
<1>4. QED
  BY <1>3 DEF T

LEMMA LedFirst ==
  ASSUME NEW h \in ByteTexts, NEW d \in Seq(ByteTexts)
  PROVE  Led(<<h>> \o d) = (Break \o h) \o Led(d)
<1>1. PICK x : x = <<h>> /\ x \in Seq(ByteTexts)
  <2>1. <<h>> \in Seq(ByteTexts)
    OBVIOUS
  <2>2. QED
    BY <2>1
<1>2. PICK p : p = Break \o h /\ p \in ByteTexts
  BY TextFacts
<1>3. Led(x) = p
  <2>1. x = Append(<<>>, h) /\ <<>> \in Seq(ByteTexts)
    BY <1>1
  <2>2. Led(x) = Led(<<>>) \o p
    BY <1>2, <2>1, LedAppend
  <2>3. QED
    BY <1>2, <2>2, NoneEnded, TextFacts
<1> DEFINE T == {s \in Seq(ByteTexts) : Led(x \o s) = p \o Led(s)}
<1>4. <<>> \in T
  <2>1. x \o <<>> = x
    BY <1>1, ConcatEmptySeq
  <2>2. p \o <<>> = p
    BY <1>2, TextFacts
  <2>3. <<>> \in Seq(ByteTexts)
    OBVIOUS
  <2>4. QED
    BY <1>3, <2>1, <2>2, <2>3, NoneEnded
<1>5. ASSUME NEW s \in Seq(ByteTexts), NEW l \in ByteTexts, s \in T
      PROVE  Append(s, l) \in T
  <2>1. x \o Append(s, l) = Append(x \o s, l) /\ x \o s \in Seq(ByteTexts) /\ Append(s, l) \in Seq(ByteTexts)
    BY <1>1, MoreLines
  <2>2. /\ Led(Append(x \o s, l)) = Led(x \o s) \o (Break \o l)
        /\ Led(Append(s, l)) = Led(s) \o (Break \o l)
        /\ Led(s) \in ByteTexts /\ Break \o l \in ByteTexts
    BY <2>1, LedAppend, TextFacts
  <2>3. (p \o Led(s)) \o (Break \o l) = p \o (Led(s) \o (Break \o l))
    BY <1>2, <2>2, TextAssoc
  <2>4. Led(x \o s) = p \o Led(s)
    BY <1>5
  <2>5. QED
    BY <2>1, <2>2, <2>3, <2>4, Zenon
<1> HIDE DEF T
<1>6. Seq(ByteTexts) \subseteq T
  BY <1>4, <1>5, LineByLineUp
<1>7. QED
  BY <1>1, <1>2, <1>6 DEF T

(* A line holds no newline, so that a text has one division into lines.    *)
Plain == Seq(Nat \ {NL})

LEMMA PlainFacts ==
  /\ \A l \in Plain : l \in ByteTexts /\ Len(l) \in Nat /\ \A i \in 1..Len(l) : l[i] # NL
  /\ \A s \in Seq(Plain) : s \in Seq(ByteTexts)
  /\ <<>> \in Plain /\ \A k, l \in Plain : k \o l \in Plain
<1>1. Plain \subseteq ByteTexts
  BY DEF Plain, ByteTexts
<1>2. \A l \in Plain : Len(l) \in Nat /\ \A i \in 1..Len(l) : l[i] # NL
  BY DEF Plain
<1>3. \A s \in Seq(Plain) : s \in Seq(ByteTexts)
  BY <1>1
<1>4. <<>> \in Plain /\ \A k, l \in Plain : k \o l \in Plain
  BY DEF Plain
<1>5. QED
  BY <1>1, <1>2, <1>3, <1>4

LEMMA ConcatAt ==
  ASSUME NEW p \in ByteTexts, NEW q \in ByteTexts
  PROVE  /\ Len(p \o q) = Len(p) + Len(q) /\ Len(p) \in Nat
         /\ \A i \in 1..Len(p) : (p \o q)[i] = p[i]
         /\ \A i \in 1..Len(q) : (p \o q)[Len(p) + i] = q[i]
  BY DEF ByteTexts

LEMMA SameLength ==
  ASSUME NEW p \in ByteTexts, NEW q \in ByteTexts, NEW r \in ByteTexts, NEW s \in ByteTexts,
         p \o q = r \o s, Len(p) = Len(r)
  PROVE  p = r /\ q = s
<1>1. PICK n \in Nat : n = Len(p) /\ n = Len(r)
  BY ConcatAt
<1>2. \A i \in 1..n : p[i] = r[i]
  BY <1>1, ConcatAt
<1>3. p = r
  BY <1>1, <1>2, SeqEqual DEF ByteTexts
<1>4. QED
  BY <1>3, Cancel

LEMMA BreakFirst ==
  ASSUME NEW u \in ByteTexts
  PROVE  /\ Break \o u \in ByteTexts /\ (Break \o u)[1] = NL /\ Len(Break \o u) \in Nat \ {0}
<1>1. Len(Break) = 1 /\ Break[1] = NL /\ 1 \in 1..1
  BY DEF Break
<1>2. Break \in ByteTexts /\ Break \o u \in ByteTexts
  BY TextFacts
<1>3. QED
  BY <1>1, <1>2, ConcatAt

(* The text t begins with the line l, and u is what follows.               *)
Begins(t, l, u) == t = l \o (Break \o u)

LEMMA FirstLine ==
  ASSUME NEW t, NEW l \in Plain, NEW k \in Plain, NEW u \in ByteTexts, NEW v \in ByteTexts,
         Begins(t, l, u), Begins(t, k, v)
  PROVE  l = k /\ u = v
<1>1. PICK p : p = Break \o u /\ p \in ByteTexts /\ p[1] = NL /\ Len(p) \in Nat \ {0}
  BY BreakFirst
<1>2. PICK q : q = Break \o v /\ q \in ByteTexts /\ q[1] = NL /\ Len(q) \in Nat \ {0}
  BY BreakFirst
<1>3. /\ l \in ByteTexts /\ Len(l) \in Nat /\ \A i \in 1..Len(l) : l[i] # NL
      /\ k \in ByteTexts /\ Len(k) \in Nat /\ \A i \in 1..Len(k) : k[i] # NL
  BY PlainFacts
<1>4. l \o p = k \o q
  BY <1>1, <1>2 DEF Begins
<1>5. (l \o p)[Len(l) + 1] = NL /\ (k \o q)[Len(k) + 1] = NL
  BY <1>1, <1>2, <1>3, ConcatAt
<1>6. ~(Len(l) < Len(k))
  <2>1. SUFFICES ASSUME Len(l) < Len(k) PROVE FALSE
    OBVIOUS
  <2>2. Len(l) + 1 \in 1..Len(k)
    BY <1>3, <2>1
  <2>3. (k \o q)[Len(l) + 1] = k[Len(l) + 1]
    BY <1>2, <1>3, <2>2, ConcatAt
  <2>4. QED
    BY <1>3, <1>4, <1>5, <2>2, <2>3
<1>7. ~(Len(k) < Len(l))
  <2>1. SUFFICES ASSUME Len(k) < Len(l) PROVE FALSE
    OBVIOUS
  <2>2. Len(k) + 1 \in 1..Len(l)
    BY <1>3, <2>1
  <2>3. (l \o p)[Len(k) + 1] = l[Len(k) + 1]
    BY <1>1, <1>3, <2>2, ConcatAt
  <2>4. QED
    BY <1>3, <1>4, <1>5, <2>2, <2>3
<1>8. Len(l) = Len(k)
  BY <1>3, <1>6, <1>7
<1>9. l = k /\ p = q
  <2>1. l \in ByteTexts /\ k \in ByteTexts /\ p \in ByteTexts /\ q \in ByteTexts
    BY <1>1, <1>2, <1>3
  <2>2. QED
    BY <1>4, <1>8, <2>1, SameLength
<1>10. u = v
  <2>1. Break \o u = Break \o v
    BY <1>1, <1>2, <1>9
  <2>2. Break \in ByteTexts
    BY TextFacts
  <2>3. QED
    BY <2>1, <2>2, Cancel
<1>11. QED
  BY <1>9, <1>10

LEMMA EndThenMore ==
  ASSUME NEW p \in ByteTexts, NEW l \in ByteTexts, NEW u \in ByteTexts
  PROVE  (p \o (l \o Break)) \o u = p \o (l \o (Break \o u))
<1>1. Break \in ByteTexts /\ l \o Break \in ByteTexts
  BY TextFacts
<1>2. (p \o (l \o Break)) \o u = p \o ((l \o Break) \o u)
  <2>1. Associates(p, l \o Break, u)
    BY <1>1, Associated
  <2>2. QED
    BY <2>1, Zenon DEF Associates
<1>3. (l \o Break) \o u = l \o (Break \o u)
  <2>1. Associates(l, Break, u)
    BY <1>1, Associated
  <2>2. QED
    BY <2>1, Zenon DEF Associates
<1>4. QED
  BY <1>2, <1>3, Zenon

LEMMA PlainAppend ==
  ASSUME NEW s \in Seq(Plain), NEW l \in Plain
  PROVE  Append(s, l) \in Seq(Plain) /\ Len(Append(s, l)) = Len(s) + 1 /\ Len(s) \in Nat
  OBVIOUS

(* As many lines at the start of the same text are the same lines.         *)
OnlyLines(s) ==
  \A r \in Seq(Plain) : \A u, v \in ByteTexts :
    Len(s) = Len(r) /\ Ended(s) \o u = Ended(r) \o v => s = r /\ u = v

LEMMA OnlyLinesStep ==
  ASSUME NEW s \in Seq(Plain), NEW l \in Plain, OnlyLines(s)
  PROVE  OnlyLines(Append(s, l))
<1>1. SUFFICES ASSUME NEW r \in Seq(Plain), NEW u \in ByteTexts, NEW v \in ByteTexts,
                      Len(Append(s, l)) = Len(r), Ended(Append(s, l)) \o u = Ended(r) \o v
               PROVE  Append(s, l) = r /\ u = v
  BY DEF OnlyLines
<1>2. r # <<>> /\ Len(r) = Len(s) + 1 /\ Len(s) \in Nat
  BY <1>1, PlainAppend, EmptySeq
<1>3. PICK f, k : f = Front(r) /\ k = Last(r)
  OBVIOUS
<1>4. f \in Seq(Plain) /\ k \in Plain /\ Len(f) = Len(r) - 1 /\ f \o <<k>> = r
  BY <1>2, <1>3, FrontLast
<1>5. r = Append(f, k)
  BY <1>4, AppendIsConcat
<1>6. Len(s) = Len(f)
  BY <1>2, <1>4
<1>7. s \in Seq(ByteTexts) /\ f \in Seq(ByteTexts) /\ l \in ByteTexts /\ k \in ByteTexts
  BY <1>4, PlainFacts
<1>8. /\ Ended(Append(s, l)) = Ended(s) \o (l \o Break) /\ Ended(s) \in ByteTexts
      /\ Ended(r) = Ended(f) \o (k \o Break) /\ Ended(f) \in ByteTexts
  BY <1>5, <1>7, EndedAppend
<1>9. PICK p, q : p = Ended(s) /\ q = Ended(f) /\ p \in ByteTexts /\ q \in ByteTexts
  BY <1>8
<1>10. PICK m, n : m = l \o (Break \o u) /\ n = k \o (Break \o v)
  OBVIOUS
<1>11. m \in ByteTexts /\ n \in ByteTexts
  BY <1>7, <1>10, TextFacts
<1>12. p \o m = q \o n
  <2>1. (p \o (l \o Break)) \o u = p \o m
    <3>1. p \in ByteTexts /\ l \in ByteTexts
      BY <1>7, <1>9
    <3>2. (p \o (l \o Break)) \o u = p \o (l \o (Break \o u))
      BY <3>1, EndThenMore
    <3>3. QED
      BY <1>10, <3>2, Zenon
  <2>2. (q \o (k \o Break)) \o v = q \o n
    <3>1. q \in ByteTexts /\ k \in ByteTexts
      BY <1>7, <1>9
    <3>2. (q \o (k \o Break)) \o v = q \o (k \o (Break \o v))
      BY <3>1, EndThenMore
    <3>3. QED
      BY <1>10, <3>2, Zenon
  <2>3. QED
    BY <1>1, <1>8, <1>9, <2>1, <2>2, Zenon
<1>13. s = f /\ m = n
  BY <1>4, <1>6, <1>9, <1>11, <1>12, Zenon DEF OnlyLines
<1>14. Begins(m, l, u) /\ Begins(m, k, v)
  BY <1>10, <1>13 DEF Begins
<1>15. l = k /\ u = v
  BY <1>4, <1>14, FirstLine
<1>16. QED
  BY <1>5, <1>13, <1>15

LEMMA LinesAreUnique ==
  ASSUME NEW s \in Seq(Plain)
  PROVE  OnlyLines(s)
<1>1. OnlyLines(<<>>)
  <2>1. SUFFICES ASSUME NEW r \in Seq(Plain), NEW u \in ByteTexts, NEW v \in ByteTexts,
                        Len(<<>>) = Len(r), Ended(<<>>) \o u = Ended(r) \o v
                 PROVE  <<>> = r /\ u = v
    BY Zenon DEF OnlyLines
  <2>2. r = <<>>
    BY <2>1, EmptySeq
  <2>3. <<>> \o u = u /\ <<>> \o v = v
    BY TextFacts
  <2>4. QED
    BY <2>1, <2>2, <2>3, NoneEnded
<1> DEFINE T == {r \in Seq(Plain) : OnlyLines(r)}
<1>2. <<>> \in T
  BY <1>1
<1>3. \A r \in Seq(Plain), l \in Plain : r \in T => Append(r, l) \in T
  BY OnlyLinesStep, PlainAppend
<1> HIDE DEF T
<1>4. Seq(Plain) \subseteq T
  BY <1>2, <1>3, LineByLineUp
<1>5. QED
  BY <1>4 DEF T

LEMMA CutIs ==
  ASSUME NEW T, NEW s \in Seq(T), NEW i \in Nat, NEW j \in Nat, i <= j, j <= Len(s)
  PROVE  /\ substring(s, i, j) = SubSeq(s, i + 1, j)
         /\ substring(s, i, j) \in Seq(T) /\ Len(substring(s, i, j)) = j - i
<1>1. substring(s, i, j) = SubSeq(s, i + 1, j)
  BY DEF substring, AtMost
<1>2. /\ SubSeq(s, i + 1, j) \in Seq(T) /\ Len(SubSeq(s, i + 1, j)) = j - (i + 1) + 1
  BY SliceIs
<1>3. j - (i + 1) + 1 = j - i
  OBVIOUS
<1>4. QED
  BY <1>1, <1>2, <1>3

LEMMA CutsMeet ==
  ASSUME NEW T, NEW s \in Seq(T), NEW i \in Nat, NEW j \in Nat, NEW k \in Nat,
         i <= j, j <= k, k <= Len(s)
  PROVE  substring(s, i, j) \o substring(s, j, k) = substring(s, i, k)
<1>1. /\ substring(s, i, j) = SubSeq(s, i + 1, j) /\ substring(s, j, k) = SubSeq(s, j + 1, k)
      /\ substring(s, i, k) = SubSeq(s, i + 1, k)
  BY DEF substring, AtMost
<1>2. i + 1 \in 1..Len(s) + 1 /\ j \in (i + 1) - 1..Len(s) /\ k \in j..Len(s)
  OBVIOUS
<1>3. SubSeq(s, i + 1, j) \o SubSeq(s, j + 1, k) = SubSeq(s, i + 1, k)
  BY <1>2, ConcatAdjacentSubSeq
<1>4. QED
  BY <1>1, <1>3

LEMMA CutsOf ==
  ASSUME NEW T, NEW s \in Seq(T)
  PROVE  /\ substring(s, 0, Len(s)) = s
         /\ \A i \in 0..Len(s) : substring(s, i, i) = <<>>
         /\ \A i \in 1..Len(s) : substring(s, i - 1, i) = <<s[i]>>
<1>0. Len(s) \in Nat
  OBVIOUS
<1>1. substring(s, 0, Len(s)) = s
  <2>1. substring(s, 0, Len(s)) = SubSeq(s, 1, Len(s))
    BY <1>0 DEF substring, AtMost
  <2>2. QED
    BY <2>1, SubSeqFull
<1>2. ASSUME NEW i \in 0..Len(s) PROVE substring(s, i, i) = <<>>
  <2>1. substring(s, i, i) = SubSeq(s, i + 1, i)
    BY DEF substring, AtMost
  <2>2. QED
    BY <2>1, SubSeqEmpty
<1>3. ASSUME NEW i \in 1..Len(s) PROVE substring(s, i - 1, i) = <<s[i]>>
  <2>1. substring(s, i - 1, i) = SubSeq(s, (i - 1) + 1, i) /\ (i - 1) + 1 = i
    BY DEF substring, AtMost
  <2>2. SubSeq(s, i, i) = SubSeq(s, i, i - 1) \o <<s[i]>>
    <3>1. i \in 1..Len(s) /\ i \in i..Len(s)
      OBVIOUS
    <3>2. QED
      BY <3>1, SubSeqRecursiveSecond
  <2>3. SubSeq(s, i, i - 1) = <<>>
    BY SubSeqEmpty
  <2>4. <<>> \o <<s[i]>> = <<s[i]>>
    <3>1. <<s[i]>> \in Seq(T)
      OBVIOUS
    <3>2. QED
      BY <3>1, ConcatEmptySeq
  <2>5. QED
    BY <2>1, <2>2, <2>3, <2>4
<1>4. QED
  BY <1>1, <1>2, <1>3

LEMMA CutLine ==
  ASSUME NEW l \in Plain, NEW c \in Nat, c <= Len(l)
  PROVE  /\ substring(l, 0, c) \in Plain /\ substring(l, c, Len(l)) \in Plain
         /\ substring(l, 0, c) \o substring(l, c, Len(l)) = l
         /\ Len(substring(l, 0, c)) = c
<1>1. Len(l) \in Nat
  BY PlainFacts
<1>2. substring(l, 0, c) \in Plain /\ Len(substring(l, 0, c)) = c - 0
  BY CutIs DEF Plain
<1>3. substring(l, c, Len(l)) \in Plain
  BY <1>1, CutIs DEF Plain
<1>4. substring(l, 0, c) \o substring(l, c, Len(l)) = substring(l, 0, Len(l))
  BY <1>1, CutsMeet DEF Plain
<1>5. substring(l, 0, Len(l)) = l
  BY CutsOf DEF Plain
<1>6. QED
  BY <1>2, <1>3, <1>4, <1>5

(* The text before the point, and after it.                                *)
Pre(x) == Ended(x.above) \o substring(x.cur, 0, x.col)

Post(x) == substring(x.cur, x.col, Len(x.cur)) \o Led(x.below)

Divided(x) == x.above \in Seq(Plain) /\ x.cur \in Plain /\ x.below \in Seq(Plain)

Sound(x) == WellFormed(x) /\ Divided(x)

(* A text that ends in row r and column c.                                 *)
Spot(p, r, c) ==
  \E ls \in Seq(Plain), l \in Plain : p = Ended(ls) \o l /\ Len(ls) = r /\ Len(l) = c

LEMMA SoundFields ==
  ASSUME NEW x, Sound(x)
  PROVE  /\ x \in Buffers /\ WellFormed(x) /\ x.above \in Seq(Plain) /\ x.cur \in Plain /\ x.below \in Seq(Plain)
         /\ x.above \in Seq(ByteTexts) /\ x.cur \in ByteTexts /\ x.below \in Seq(ByteTexts)
         /\ x.col \in Nat /\ x.col <= Len(x.cur) /\ Len(x.cur) \in Nat
         /\ Ended(x.above) \in ByteTexts /\ Led(x.below) \in ByteTexts
         /\ substring(x.cur, 0, x.col) \in Plain /\ substring(x.cur, x.col, Len(x.cur)) \in Plain
         /\ substring(x.cur, 0, x.col) \in ByteTexts /\ substring(x.cur, x.col, Len(x.cur)) \in ByteTexts
         /\ substring(x.cur, 0, x.col) \o substring(x.cur, x.col, Len(x.cur)) = x.cur
         /\ Len(substring(x.cur, 0, x.col)) = x.col
<1>1. WellFormed(x) /\ x.above \in Seq(Plain) /\ x.cur \in Plain /\ x.below \in Seq(Plain)
  BY DEF Sound, Divided
<1>2. x \in Buffers /\ x.col \in Nat /\ x.col <= Len(x.cur) /\ Len(x.cur) \in Nat
  BY <1>1, BufferFields
<1>3. x.above \in Seq(ByteTexts) /\ x.cur \in ByteTexts /\ x.below \in Seq(ByteTexts)
  BY <1>1, PlainFacts
<1>4. Ended(x.above) \in ByteTexts /\ Led(x.below) \in ByteTexts
  BY <1>3, LinesAre
<1>5. /\ substring(x.cur, 0, x.col) \in Plain /\ substring(x.cur, x.col, Len(x.cur)) \in Plain
      /\ substring(x.cur, 0, x.col) \o substring(x.cur, x.col, Len(x.cur)) = x.cur
      /\ Len(substring(x.cur, 0, x.col)) = x.col
  BY <1>1, <1>2, CutLine
<1>6. substring(x.cur, 0, x.col) \in ByteTexts /\ substring(x.cur, x.col, Len(x.cur)) \in ByteTexts
  BY <1>5, PlainFacts
<1>7. QED
  BY <1>1, <1>2, <1>3, <1>4, <1>5, <1>6

LEMMA TextSplits ==
  ASSUME NEW x, Sound(x)
  PROVE  /\ Text(x) = Pre(x) \o Post(x) /\ Pre(x) \in ByteTexts /\ Post(x) \in ByteTexts
         /\ Spot(Pre(x), row(x), x.col)
<1>1. PICK a, p, q, d : a = Ended(x.above) /\ p = substring(x.cur, 0, x.col)
                        /\ q = substring(x.cur, x.col, Len(x.cur)) /\ d = Led(x.below)
  OBVIOUS
<1>2. /\ a \in ByteTexts /\ p \in ByteTexts /\ q \in ByteTexts /\ d \in ByteTexts /\ p \o q = x.cur
      /\ x.above \in Seq(ByteTexts) /\ x.cur \in ByteTexts /\ x.below \in Seq(ByteTexts)
  BY <1>1, SoundFields
<1>3. Text(x) = (a \o (p \o q)) \o d
  <2>1. Text(x) = Join(x.above \o <<x.cur>> \o x.below)
    BY DEF Text, Lines
  <2>2. Join(x.above \o <<x.cur>> \o x.below) = (Ended(x.above) \o x.cur) \o Led(x.below)
    BY <1>2, JoinAround
  <2>3. QED
    BY <1>1, <1>2, <2>1, <2>2, Zenon
<1>4. (a \o (p \o q)) \o d = (a \o p) \o (q \o d)
  <2>1. a \o (p \o q) = (a \o p) \o q
    <3>1. Associates(a, p, q)
      BY <1>2, Associated
    <3>2. QED
      BY <3>1, Zenon DEF Associates
  <2>2. a \o p \in ByteTexts
    BY <1>2, TextFacts
  <2>3. ((a \o p) \o q) \o d = (a \o p) \o (q \o d)
    BY <1>2, <2>2, TextAssoc
  <2>4. QED
    BY <2>1, <2>3
<1>5. a \o p \in ByteTexts /\ q \o d \in ByteTexts
  BY <1>2, TextFacts
<1>6. Pre(x) = a \o p /\ Post(x) = q \o d
  BY <1>1 DEF Pre, Post
<1>7. Spot(Pre(x), row(x), x.col)
  <2>1. x.above \in Seq(Plain) /\ p \in Plain /\ Len(p) = x.col
    BY <1>1, SoundFields
  <2>2. QED
    BY <1>1, <1>6, <2>1 DEF Spot, row
<1>8. QED
  BY <1>3, <1>4, <1>5, <1>6, <1>7, Zenon

(* The point of y is between p and q, on the line below the lines a and    *)
(* above the lines d.                                                      *)
Points(y, a, p, q, d) == y.above = a /\ y.cur = p \o q /\ y.below = d /\ y.col = Len(p)

At(y, p, q) == Sound(y) /\ Pre(y) = p /\ Post(y) = q

LEMMA PointsAt ==
  ASSUME NEW y, WellFormed(y), NEW a \in Seq(Plain), NEW p \in Plain, NEW q \in Plain, NEW d \in Seq(Plain),
         Points(y, a, p, q, d)
  PROVE  At(y, Ended(a) \o p, q \o Led(d))
<1>1. p \o q \in Plain
  BY PlainFacts
<1>2. Sound(y)
  BY <1>1 DEF Points, Sound, Divided
<1>3. PICK l, t : l = substring(y.cur, 0, y.col) /\ t = substring(y.cur, y.col, Len(y.cur))
  OBVIOUS
<1>4. l \o t = p \o q /\ Len(l) = Len(p) /\ l \in ByteTexts /\ t \in ByteTexts
  BY <1>2, <1>3, SoundFields DEF Points
<1>5. p \in ByteTexts /\ q \in ByteTexts
  BY PlainFacts
<1>6. l = p /\ t = q
  BY <1>4, <1>5, SameLength
<1>7. QED
  BY <1>2, <1>3, <1>6 DEF Pre, Post, Points, At

LEMMA InsertPoint ==
  ASSUME NEW x, Sound(x), NEW s \in Plain
  PROVE  LET y == RawInsert(x, s) IN Sound(y) /\ Pre(y) = Pre(x) \o s /\ Post(y) = Post(x)
<1>1. PICK p, q : p = substring(x.cur, 0, x.col) /\ q = substring(x.cur, x.col, Len(x.cur))
  OBVIOUS
<1>2. /\ p \in Plain /\ q \in Plain /\ Len(p) = x.col /\ x.above \in Seq(Plain) /\ x.below \in Seq(Plain)
      /\ x \in Buffers /\ WellFormed(x)
  BY <1>1, SoundFields
<1>3. s \in ByteTexts /\ p \in ByteTexts /\ q \in ByteTexts /\ p \o s \in Plain
  BY <1>2, PlainFacts
<1>4. PICK y : y = RawInsert(x, s) /\ WellFormed(y)
  BY <1>2, <1>3, RawInsertMarks DEF Marked
<1>5. y.above = x.above /\ y.below = x.below /\ y.cur = p \o s \o q /\ y.col = x.col + Len(s)
  BY <1>1, <1>2, <1>4 DEF RawInsert, Edited, Buffers
<1>6. Points(y, x.above, p \o s, q, x.below)
  <2>1. Len(p \o s) = Len(p) + Len(s)
    BY <1>3, TextFacts
  <2>2. QED
    BY <1>2, <1>5, <2>1 DEF Points
<1>7. At(y, Ended(x.above) \o (p \o s), q \o Led(x.below))
  BY <1>2, <1>3, <1>4, <1>6, PointsAt
<1>8. Ended(x.above) \o (p \o s) = (Ended(x.above) \o p) \o s
  <2>1. Ended(x.above) \in ByteTexts
    BY SoundFields
  <2>2. QED
    BY <1>3, <2>1, TextAssoc
<1>9. QED
  BY <1>1, <1>4, <1>7, <1>8 DEF Pre, Post, At

LEMMA NewlinePoint ==
  ASSUME NEW x, Sound(x)
  PROVE  LET y == RawNewline(x) IN Sound(y) /\ Pre(y) = Pre(x) \o Break /\ Post(y) = Post(x)
<1>1. PICK p, q : p = substring(x.cur, 0, x.col) /\ q = substring(x.cur, x.col, Len(x.cur))
  OBVIOUS
<1>2. /\ p \in Plain /\ q \in Plain /\ x.above \in Seq(Plain) /\ x.below \in Seq(Plain)
      /\ x \in Buffers /\ WellFormed(x) /\ x.above \in Seq(ByteTexts)
  BY <1>1, SoundFields
<1>3. p \in ByteTexts /\ q \in ByteTexts /\ <<>> \in Plain
  BY <1>2, PlainFacts
<1>4. PICK y : y = RawNewline(x) /\ WellFormed(y)
  BY <1>2, RawNewlineMarks DEF Marked
<1>5. y.above = Append(x.above, p) /\ y.below = x.below /\ y.cur = q /\ y.col = 0
  BY <1>1, <1>2, <1>4 DEF RawNewline, Edited, Buffers
<1>6. Points(y, Append(x.above, p), <<>>, q, x.below) /\ Append(x.above, p) \in Seq(Plain)
  <2>1. <<>> \o q = q /\ Len(<<>>) = 0
    BY <1>3, TextFacts
  <2>2. Append(x.above, p) \in Seq(Plain)
    BY <1>2, PlainAppend
  <2>3. QED
    BY <1>5, <2>1, <2>2 DEF Points
<1>7. At(y, Ended(Append(x.above, p)) \o <<>>, q \o Led(x.below))
  BY <1>2, <1>3, <1>4, <1>6, PointsAt
<1>8. PICK a : a = Ended(x.above) /\ a \in ByteTexts /\ Ended(Append(x.above, p)) = a \o (p \o Break)
  BY <1>2, <1>3, EndedAppend
<1>9. Pre(y) = (a \o p) \o Break
  <2>1. Break \in ByteTexts /\ p \o Break \in ByteTexts
    BY <1>3, TextFacts
  <2>2. a \o (p \o Break) \in ByteTexts
    BY <1>8, <2>1, TextFacts
  <2>3. (a \o (p \o Break)) \o <<>> = a \o (p \o Break)
    BY <2>2, TextFacts
  <2>4. (a \o p) \o Break = a \o (p \o Break)
    BY <1>3, <1>8, <2>1, TextAssoc
  <2>5. QED
    BY <1>7, <1>8, <2>3, <2>4 DEF At
<1>10. QED
  BY <1>1, <1>4, <1>7, <1>8, <1>9 DEF Pre, Post, At

LEMMA BackspacePoint ==
  ASSUME NEW x, Sound(x), Pre(x) # <<>>
  PROVE  LET y == RawBackspace(x)
         IN /\ Sound(y) /\ Post(y) = Post(x)
            /\ Pre(x) = Pre(y) \o (IF x.col > 0 THEN <<x.cur[x.col]>> ELSE Break)
<1>1. PICK p, q : p = substring(x.cur, 0, x.col) /\ q = substring(x.cur, x.col, Len(x.cur))
  OBVIOUS
<1>2. /\ p \in Plain /\ q \in Plain /\ x.above \in Seq(Plain) /\ x.below \in Seq(Plain)
      /\ x \in Buffers /\ WellFormed(x) /\ x.above \in Seq(ByteTexts) /\ p \o q = x.cur
      /\ x.col \in Nat /\ x.col <= Len(x.cur) /\ Len(x.cur) \in Nat /\ x.cur \in Plain /\ Len(p) = x.col
  BY <1>1, SoundFields
<1>3. p \in ByteTexts /\ q \in ByteTexts /\ <<>> \in Plain
  BY <1>2, PlainFacts
<1>4. PICK a : a = Ended(x.above) /\ a \in ByteTexts
  BY SoundFields
<1>5. CASE x.col > 0
  <2>0. PICK c : c = x.col - 1 /\ c \in Nat /\ c <= x.col /\ c + 1 = x.col /\ c <= Len(x.cur) /\ x.col \in 1..Len(x.cur)
    <3>1. x.col - 1 \in Nat /\ x.col - 1 <= x.col /\ (x.col - 1) + 1 = x.col /\ x.col - 1 <= Len(x.cur)
      BY <1>2, <1>5
    <3>2. QED
      BY <1>2, <1>5, <3>1
  <2>1. PICK f : f = substring(x.cur, 0, c) /\ f \in Plain /\ Len(f) = c
    BY <1>2, <2>0, CutLine
  <2>2. f \o <<x.cur[x.col]>> = p
    <3>1. f \o substring(x.cur, c, x.col) = p
      <4>1. x.cur \in Seq(Nat \ {NL}) /\ 0 \in Nat /\ c \in Nat /\ x.col \in Nat
        BY <1>2, <2>0 DEF Plain
      <4>2. 0 <= c /\ c <= x.col /\ x.col <= Len(x.cur)
        BY <1>2, <2>0
      <4>3. substring(x.cur, 0, c) \o substring(x.cur, c, x.col) = substring(x.cur, 0, x.col)
        BY <4>1, <4>2, CutsMeet
      <4>4. QED
        BY <1>1, <2>1, <4>3
    <3>2. substring(x.cur, c, x.col) = <<x.cur[x.col]>>
      BY <1>2, <2>0, CutsOf DEF Plain
    <3>3. QED
      BY <3>1, <3>2
  <2>3. PICK y : y = RawBackspace(x)
    OBVIOUS
  <2>4. y.above = x.above /\ y.below = x.below /\ y.cur = f \o q /\ y.col = c
    BY <1>1, <1>2, <1>5, <2>0, <2>1, <2>3 DEF RawBackspace, Edited, Buffers
  <2>5. WellFormed(y)
    BY <1>2, <2>3, RawBackspaceMarks DEF Marked
  <2>6. Points(y, x.above, f, q, x.below)
    BY <2>1, <2>4 DEF Points
  <2>7. At(y, a \o f, q \o Led(x.below))
    BY <1>2, <1>4, <2>1, <2>5, <2>6, PointsAt
  <2>8. Pre(x) = (a \o f) \o <<x.cur[x.col]>>
    <3>1. f \in ByteTexts
      BY <2>1, PlainFacts
    <3>2. <<x.cur[x.col]>> \in ByteTexts
      BY <1>2, <1>5 DEF ByteTexts, Plain
    <3>3. (a \o f) \o <<x.cur[x.col]>> = a \o (f \o <<x.cur[x.col]>>)
      <4>1. Associates(a, f, <<x.cur[x.col]>>)
        BY <1>4, <3>1, <3>2, Associated
      <4>2. QED
        BY <4>1, Zenon DEF Associates
    <3>4. QED
      BY <1>1, <1>4, <2>2, <3>3 DEF Pre
  <2>9. QED
    BY <1>1, <1>5, <2>3, <2>7, <2>8 DEF Post, At
<1>6. CASE ~(x.col > 0)
  <2>1. x.col = 0 /\ p = <<>> /\ q = x.cur
    <3>1. x.col = 0
      BY <1>2, <1>6
    <3>2. p = <<>>
      BY <1>2, <1>3, <3>1, EmptySeq DEF ByteTexts
    <3>3. QED
      BY <1>2, <1>3, <3>1, <3>2, TextFacts
  <2>2. Pre(x) = a
    BY <1>1, <1>4, <2>1, TextFacts DEF Pre
  <2>3. x.above # <<>>
    BY <1>4, <2>2, NoneEnded
  <2>4. PICK f, l : f = Front(x.above) /\ l = Last(x.above) /\ f \in Seq(Plain) /\ l \in Plain
                    /\ f \o <<l>> = x.above
    BY <1>2, <2>3, FrontLast
  <2>5. f \in Seq(ByteTexts) /\ l \in ByteTexts /\ x.cur \in ByteTexts
    BY <1>2, <2>4, PlainFacts
  <2>6. a = Ended(f) \o (l \o Break) /\ Ended(f) \in ByteTexts
    <3>1. x.above = Append(f, l)
      BY <2>4, AppendIsConcat
    <3>2. QED
      BY <1>4, <2>5, <3>1, EndedAppend
  <2>7. PICK y : y = RawBackspace(x)
    OBVIOUS
  <2>8. y.above = f /\ y.below = x.below /\ y.cur = l \o q /\ y.col = Len(l)
    BY <1>2, <1>6, <2>1, <2>3, <2>4, <2>7 DEF RawBackspace, Edited, Buffers
  <2>9. WellFormed(y)
    BY <1>2, <2>7, RawBackspaceMarks DEF Marked
  <2>10. Points(y, f, l, q, x.below)
    BY <2>8 DEF Points
  <2>11. At(y, Ended(f) \o l, q \o Led(x.below))
    BY <1>2, <2>4, <2>9, <2>10, PointsAt
  <2>12. (Ended(f) \o l) \o Break = Ended(f) \o (l \o Break)
    BY <2>5, <2>6, TextFacts, TextAssoc
  <2>13. QED
    BY <1>1, <1>6, <2>2, <2>6, <2>7, <2>11, <2>12 DEF Post, At
<1>7. QED
  BY <1>5, <1>6

LEMMA DeletePoint ==
  ASSUME NEW x, Sound(x), Post(x) # <<>>
  PROVE  LET y == RawDelete(x)
         IN /\ Sound(y) /\ Pre(y) = Pre(x)
            /\ Post(x) = (IF x.col < Len(x.cur) THEN <<x.cur[x.col + 1]>> ELSE Break) \o Post(y)
<1>1. PICK p, q : p = substring(x.cur, 0, x.col) /\ q = substring(x.cur, x.col, Len(x.cur))
  OBVIOUS
<1>2. /\ p \in Plain /\ q \in Plain /\ x.above \in Seq(Plain) /\ x.below \in Seq(Plain)
      /\ x \in Buffers /\ WellFormed(x) /\ x.below \in Seq(ByteTexts) /\ p \o q = x.cur
      /\ x.col \in Nat /\ x.col <= Len(x.cur) /\ Len(x.cur) \in Nat /\ x.cur \in Plain /\ Len(p) = x.col
  BY <1>1, SoundFields
<1>3. p \in ByteTexts /\ q \in ByteTexts /\ <<>> \in Plain
  BY <1>2, PlainFacts
<1>4. PICK d : d = Led(x.below) /\ d \in ByteTexts
  BY SoundFields
<1>5. CASE x.col < Len(x.cur)
  <2>0. PICK c : c = x.col + 1 /\ c \in Nat /\ x.col <= c /\ c - 1 = x.col /\ c <= Len(x.cur) /\ c \in 1..Len(x.cur)
    <3>1. x.col + 1 \in Nat /\ x.col <= x.col + 1 /\ (x.col + 1) - 1 = x.col /\ x.col + 1 <= Len(x.cur)
          /\ x.col + 1 \in 1..Len(x.cur)
      BY <1>2, <1>5
    <3>2. QED
      BY <3>1
  <2>1. PICK f : f = substring(x.cur, c, Len(x.cur)) /\ f \in Plain
    BY <1>2, <2>0, CutLine
  <2>2. <<x.cur[c]>> \o f = q
    <3>1. substring(x.cur, x.col, c) \o f = q
      <4>1. x.cur \in Seq(Nat \ {NL}) /\ Len(x.cur) \in Nat /\ c \in Nat /\ x.col \in Nat
        BY <1>2, <2>0 DEF Plain
      <4>2. x.col <= c /\ c <= Len(x.cur) /\ Len(x.cur) <= Len(x.cur)
        BY <1>2, <2>0
      <4>3. substring(x.cur, x.col, c) \o substring(x.cur, c, Len(x.cur)) = substring(x.cur, x.col, Len(x.cur))
        BY <4>1, <4>2, CutsMeet
      <4>4. QED
        BY <1>1, <2>1, <4>3
    <3>2. substring(x.cur, c - 1, c) = <<x.cur[c]>>
      BY <1>2, <2>0, CutsOf DEF Plain
    <3>3. QED
      BY <2>0, <3>1, <3>2
  <2>3. PICK y : y = RawDelete(x)
    OBVIOUS
  <2>4. y.above = x.above /\ y.below = x.below /\ y.cur = p \o f /\ y.col = x.col
    BY <1>1, <1>2, <1>5, <2>0, <2>1, <2>3 DEF RawDelete, Edited, Buffers
  <2>5. WellFormed(y)
    BY <1>2, <2>3, RawDeleteMarks DEF Marked
  <2>6. Points(y, x.above, p, f, x.below)
    BY <1>2, <2>4 DEF Points
  <2>7. At(y, Ended(x.above) \o p, f \o d)
    BY <1>2, <1>4, <2>1, <2>5, <2>6, PointsAt
  <2>8. Post(x) = <<x.cur[c]>> \o (f \o d)
    <3>1. f \in ByteTexts
      BY <2>1, PlainFacts
    <3>2. <<x.cur[c]>> \in ByteTexts
      BY <1>2, <2>0 DEF ByteTexts, Plain
    <3>3. (<<x.cur[c]>> \o f) \o d = <<x.cur[c]>> \o (f \o d)
      BY <1>4, <3>1, <3>2, TextAssoc
    <3>4. QED
      BY <1>1, <1>4, <2>2, <3>3 DEF Post
  <2>9. QED
    BY <1>1, <1>5, <2>0, <2>3, <2>7, <2>8 DEF Pre, At
<1>6. CASE ~(x.col < Len(x.cur))
  <2>1. x.col = Len(x.cur) /\ q = <<>> /\ p = x.cur
    <3>1. x.col = Len(x.cur)
      BY <1>2, <1>6
    <3>2. Len(p) + Len(q) = Len(x.cur)
      BY <1>2, <1>3, TextFacts
    <3>3. Len(q) = 0
      BY <1>2, <1>3, <3>1, <3>2, TextFacts
    <3>4. q = <<>>
      BY <1>3, <3>3, EmptySeq DEF ByteTexts
    <3>5. QED
      BY <1>2, <1>3, <3>1, <3>4, TextFacts
  <2>2. Post(x) = d
    BY <1>1, <1>4, <2>1, TextFacts DEF Post
  <2>3. x.below # <<>>
    BY <1>4, <2>2, NoneEnded
  <2>4. PICK h, e : h = Head(x.below) /\ e = Tail(x.below) /\ h \in Plain /\ e \in Seq(Plain)
                    /\ <<h>> \o e = x.below
    BY <1>2, <2>3, HeadTail
  <2>5. e \in Seq(ByteTexts) /\ h \in ByteTexts
    BY <2>4, PlainFacts
  <2>6. d = (Break \o h) \o Led(e) /\ Led(e) \in ByteTexts
    <3>1. Led(<<h>> \o e) = (Break \o h) \o Led(e)
      BY <2>5, LedFirst
    <3>2. Led(e) \in ByteTexts
      BY <2>5, LinesAre
    <3>3. QED
      BY <1>4, <2>4, <3>1, <3>2
  <2>7. PICK y : y = RawDelete(x)
    OBVIOUS
  <2>8. y.above = x.above /\ y.below = e /\ y.cur = p \o h /\ y.col = x.col
    BY <1>2, <1>6, <2>1, <2>3, <2>4, <2>7 DEF RawDelete, Edited, Buffers
  <2>9. WellFormed(y)
    BY <1>2, <2>7, RawDeleteMarks DEF Marked
  <2>10. Points(y, x.above, p, h, e)
    BY <1>2, <2>8 DEF Points
  <2>11. At(y, Ended(x.above) \o p, h \o Led(e))
    BY <1>2, <2>4, <2>9, <2>10, PointsAt
  <2>12. (Break \o h) \o Led(e) = Break \o (h \o Led(e))
    BY <2>5, <2>6, TextFacts, TextAssoc
  <2>13. QED
    BY <1>1, <1>6, <2>2, <2>6, <2>7, <2>11, <2>12 DEF Pre, At
<1>7. QED
  BY <1>5, <1>6

(* m characters that are to be deleted stand between the point and q.      *)
Left(y, p, q, m) ==
  Sound(y) /\ Pre(y) = p /\ \E t \in ByteTexts : Len(t) = m /\ Post(y) = t \o q

LEMMA DeleteLeaves ==
  ASSUME NEW y, NEW p, NEW q \in ByteTexts, NEW m \in Nat, Left(y, p, q, m + 1)
  PROVE  Left(RawDelete(y), p, q, m)
<1>1. PICK t \in ByteTexts : Len(t) = m + 1 /\ Post(y) = t \o q
  BY DEF Left
<1>2. Sound(y) /\ Pre(y) = p
  BY DEF Left
<1>3. t # <<>>
  BY <1>1, EmptySeq DEF ByteTexts
<1>4. PICK h, e : h = <<Head(t)>> /\ e = Tail(t) /\ h \in ByteTexts /\ e \in ByteTexts /\ h \o e = t /\ Len(h) = 1
  <2>1. Head(t) \in Nat /\ Tail(t) \in ByteTexts /\ <<Head(t)>> \o Tail(t) = t
    BY <1>3, HeadTail DEF ByteTexts
  <2>2. <<Head(t)>> \in ByteTexts /\ Len(<<Head(t)>>) = 1
    BY <2>1 DEF ByteTexts
  <2>3. QED
    BY <2>1, <2>2
<1>5. Len(e) = m
  <2>1. Len(t) = Len(h) + Len(e) /\ Len(e) \in Nat
    BY <1>4, TextFacts
  <2>2. QED
    BY <1>1, <1>4, <2>1
<1>6. PICK r : r = e \o q /\ r \in ByteTexts /\ Post(y) = h \o r
  <2>1. (h \o e) \o q = h \o (e \o q)
    <3>1. Associates(h, e, q)
      BY <1>4, Associated
    <3>2. QED
      BY <3>1, Zenon DEF Associates
  <2>2. e \o q \in ByteTexts
    BY <1>4, TextFacts
  <2>3. QED
    BY <1>1, <1>4, <2>1, <2>2
<1>7. Post(y) # <<>>
  <2>1. Len(h \o r) = Len(h) + Len(r) /\ Len(r) \in Nat
    BY <1>4, <1>6, TextFacts
  <2>2. QED
    BY <1>4, <1>6, <2>1
<1>8. PICK z, c : /\ z = RawDelete(y) /\ Sound(z) /\ Pre(z) = p /\ Post(y) = c \o Post(z)
                  /\ c = IF y.col < Len(y.cur) THEN <<y.cur[y.col + 1]>> ELSE Break
  BY <1>2, <1>7, DeletePoint
<1>9. c \in ByteTexts /\ Len(c) = 1
  <2>1. y.cur \in ByteTexts /\ y.col \in Nat /\ Len(y.cur) \in Nat
    BY <1>2, SoundFields
  <2>2. CASE y.col < Len(y.cur)
    <3>1. PICK n : n = y.col + 1 /\ n \in 1..Len(y.cur)
      BY <2>1, <2>2
    <3>2. y.cur[n] \in Nat
      BY <2>1, <3>1, SMTT(20) DEF ByteTexts
    <3>3. c = <<y.cur[n]>>
      BY <1>8, <2>2, <3>1
    <3>4. QED
      BY <3>2, <3>3 DEF ByteTexts
  <2>3. CASE ~(y.col < Len(y.cur))
    <3>1. c = Break
      BY <1>8, <2>3
    <3>2. QED
      BY <3>1 DEF ByteTexts, Break, NL
  <2>4. QED
    BY <2>2, <2>3
<1>10. Post(z) \in ByteTexts
  BY <1>8, TextSplits
<1>11. Post(z) = r
  <2>1. c \o Post(z) = h \o r /\ Len(c) = Len(h)
    BY <1>4, <1>6, <1>8, <1>9
  <2>2. PICK w : w = Post(z) /\ w \in ByteTexts
    BY <1>10
  <2>3. c \o w = h \o r
    BY <2>1, <2>2
  <2>4. c \in ByteTexts /\ w \in ByteTexts /\ h \in ByteTexts /\ r \in ByteTexts
    BY <1>4, <1>6, <1>9, <2>2
  <2>5. w = r
    BY <2>1, <2>3, <2>4, SameLength
  <2>6. QED
    BY <2>2, <2>5
<1>12. QED
  BY <1>4, <1>5, <1>6, <1>8, <1>11 DEF Left

LEMMA DeleteForwardPoint ==
  ASSUME NEW x, Sound(x), NEW s \in ByteTexts, NEW q \in ByteTexts, Post(x) = s \o q
  PROVE  At(RawDeleteForward(x, Len(s)), Pre(x), q)
<1>1. PICK k \in Nat : k = Len(s)
  BY TextFacts
<1>2. PICK g : DeleteRun(g, x, k)
  BY DeleteForwardRuns DEF Sound
<1>3. PICK p : p = Pre(x)
  OBVIOUS
<1> DEFINE T == {i \in 0..k : Left(g[i], p, q, k - i)}
<1>4. 0 \in T
  <2>1. g[0] = x /\ k - 0 = k
    BY <1>2 DEF DeleteRun
  <2>2. Left(x, p, q, k)
    BY <1>1, <1>3 DEF Left
  <2>3. QED
    BY <2>1, <2>2
<1>5. ASSUME NEW i \in 1..k, i - 1 \in T PROVE i \in T
  <2>1. PICK m \in Nat : m = k - i
    OBVIOUS
  <2>2. Left(g[i - 1], p, q, m + 1)
    <3>1. k - (i - 1) = m + 1
      BY <2>1
    <3>2. QED
      BY <1>5, <3>1
  <2>3. Left(RawDelete(g[i - 1]), p, q, m)
    BY <2>2, DeleteLeaves
  <2>4. g[i] = RawDelete(g[i - 1])
    BY <1>2 DEF DeleteRun
  <2>5. QED
    BY <2>1, <2>3, <2>4
<1> HIDE DEF T
<1>6. 0..k \subseteq T
  BY <1>4, <1>5, UpTo
<1>7. Left(g[k], p, q, 0)
  <2>1. k \in T /\ k - k = 0
    BY <1>6
  <2>2. QED
    BY <2>1 DEF T
<1>8. PICK t \in ByteTexts : Len(t) = 0 /\ Post(g[k]) = t \o q
  BY <1>7 DEF Left
<1>9. t = <<>>
  BY <1>8, EmptySeq DEF ByteTexts
<1>10. Post(g[k]) = q
  BY <1>8, <1>9, TextFacts
<1>11. g[k] = RawDeleteForward(x, Len(s))
  BY <1>1, <1>2 DEF DeleteRun
<1>12. QED
  BY <1>3, <1>7, <1>10, <1>11 DEF Left, At

LEMMA OneMore ==
  ASSUME NEW T, NEW s \in Seq(T), NEW i \in 1..Len(s)
  PROVE  /\ SubSeq(s, 1, i) = Append(SubSeq(s, 1, i - 1), s[i])
         /\ SubSeq(s, 1, i - 1) \in Seq(T) /\ s[i] \in T
<1>1. SubSeq(s, 1, i) = SubSeq(s, 1, i - 1) \o <<s[i]>>
  <2>1. 1 \in 1..Len(s)
    OBVIOUS
  <2>2. QED
    BY <2>1, SubSeqRecursiveSecond
<1>2. s[i] \in T
  OBVIOUS
<1>3. SubSeq(s, 1, i - 1) \in Seq(T)
  <2>1. 1 \in Nat \ {0} /\ i - 1 \in Nat /\ i - 1 <= Len(s) /\ 1 <= (i - 1) + 1
    OBVIOUS
  <2>2. QED
    BY <2>1, SliceIs
<1>4. PICK t \in Seq(T) : t = SubSeq(s, 1, i - 1)
  BY <1>3
<1>5. Append(t, s[i]) = t \o <<s[i]>>
  BY <1>2, <1>4
<1>6. QED
  BY <1>1, <1>2, <1>4, <1>5

LEMMA LastReplaced ==
  ASSUME NEW T, NEW f \in Seq(T), NEW l \in T, NEW m \in T, NEW s, s = Append(f, l)
  PROVE  [s EXCEPT ![Len(s)] = m] = Append(f, m)
<1>1. PICK n \in Nat : n = Len(f)
  OBVIOUS
<1>2. s \in Seq(T) /\ Len(s) = n + 1 /\ \A i \in 1..n : s[i] = f[i]
  BY <1>1
<1>3. PICK u : u = [s EXCEPT ![n + 1] = m]
  OBVIOUS
<1>4. u \in Seq(T) /\ Len(u) = n + 1 /\ \A i \in 1..n + 1 : u[i] = IF i = n + 1 THEN m ELSE s[i]
  <2>1. PICK k \in Nat : k = n + 1
    OBVIOUS
  <2>2. s \in Seq(T) /\ Len(s) = k
    BY <1>2, <2>1
  <2>3. s \in [1..k -> T]
    <3>1. s \in [1..Len(s) -> T]
      BY <2>2, LenProperties
    <3>2. QED
      BY <2>2, <3>1
  <2>4. u = [s EXCEPT ![k] = m]
    BY <1>3, <2>1
  <2>5. u \in [1..k -> T] /\ \A i \in 1..k : u[i] = IF i = k THEN m ELSE s[i]
    BY <2>3, <2>4, Zenon
  <2>6. u \in Seq(T) /\ Len(u) = k
    BY <2>5
  <2>7. QED
    BY <2>1, <2>5, <2>6
<1>5. PICK v : v = Append(f, m)
  OBVIOUS
<1>6. v \in Seq(T) /\ Len(v) = n + 1 /\ \A i \in 1..n + 1 : v[i] = IF i = n + 1 THEN m ELSE f[i]
  BY <1>1, <1>5
<1>7. \A i \in 1..n + 1 : u[i] = v[i]
  BY <1>2, <1>4, <1>6
<1>8. u = v
  BY <1>4, <1>6, <1>7, SeqEqual
<1>9. QED
  BY <1>2, <1>3, <1>5, <1>8

(* What has been split so far, put together again.                         *)
JoinsTo(ls, t) == ls \in Seq(Plain) /\ ls # <<>> /\ Join(ls) = t

LEMMA SplitCharJoinsTo ==
  ASSUME NEW ls, NEW t \in ByteTexts, JoinsTo(ls, t), NEW c \in Nat
  PROVE  JoinsTo(SplitChar(ls, c), Append(t, c))
<1>1. ls \in Seq(Plain) /\ ls \in Seq(ByteTexts) /\ ls # <<>> /\ Join(ls) = t
  BY PlainFacts DEF JoinsTo
<1>2. Append(t, c) = t \o <<c>>
  BY AppendIsConcat DEF ByteTexts
<1>3. CASE c = NL
  <2>1. SplitChar(ls, c) = Append(ls, <<>>)
    BY <1>3 DEF SplitChar
  <2>2. <<>> \in Plain /\ <<>> \in ByteTexts
    BY PlainFacts
  <2>3. Append(ls, <<>>) \in Seq(Plain) /\ Append(ls, <<>>) # <<>>
    <3>1. Append(ls, <<>>) \in Seq(Plain) /\ Len(Append(ls, <<>>)) = Len(ls) + 1 /\ Len(ls) \in Nat
      BY <1>1, <2>2, PlainAppend
    <3>2. QED
      BY <3>1, EmptySeq
  <2>4. Join(Append(ls, <<>>)) = Join(ls) \o (Break \o <<>>)
    BY <1>1, <2>2, JoinAppend
  <2>5. Break \o <<>> = <<c>>
    BY <1>3, TextFacts DEF Break
  <2>6. QED
    BY <1>1, <1>2, <2>1, <2>3, <2>4, <2>5 DEF JoinsTo
<1>4. CASE c # NL
  <2>1. PICK f, l : f = Front(ls) /\ l = Last(ls) /\ f \in Seq(Plain) /\ l \in Plain /\ f \o <<l>> = ls
                    /\ Len(f) = Len(ls) - 1 /\ Len(ls) \in Nat \ {0}
    BY <1>1, FrontLast
  <2>2. f \in Seq(ByteTexts) /\ l \in ByteTexts /\ <<c>> \in Plain /\ <<c>> \in ByteTexts
    <3>1. <<c>> \in Plain
      BY <1>4 DEF Plain
    <3>2. QED
      BY <2>1, <3>1, PlainFacts
  <2>3. l \o <<c>> \in Plain /\ l \o <<c>> \in ByteTexts
    BY <2>1, <2>2, PlainFacts
  <2>4. ls = Append(f, l)
    BY <2>1, AppendIsConcat
  <2>5. PICK m : m = l \o <<c>> /\ m \in Plain /\ m \in ByteTexts
    BY <2>3
  <2>6. SplitChar(ls, c) = [ls EXCEPT ![Len(ls)] = m]
    <3>1. ls[Len(ls)] = l
      BY <1>1, <2>1 DEF Last
    <3>2. Append(l, c) = m
      BY <2>2, <2>5, AppendIsConcat DEF ByteTexts
    <3>3. QED
      BY <1>4, <3>1, <3>2 DEF SplitChar
  <2>7. [ls EXCEPT ![Len(ls)] = m] = Append(f, m)
    <3>1. f \in Seq(Plain) /\ l \in Plain /\ m \in Plain
      BY <2>1, <2>5
    <3>2. QED
      BY <2>4, <3>1, LastReplaced
  <2>8. Append(f, m) \in Seq(Plain) /\ Append(f, m) # <<>>
    <3>1. Append(f, m) \in Seq(Plain) /\ Len(Append(f, m)) = Len(f) + 1 /\ Len(f) \in Nat
      BY <2>1, <2>5, PlainAppend
    <3>2. QED
      BY <3>1, EmptySeq
  <2>9. Join(Append(f, m)) = Ended(f) \o m /\ t = Ended(f) \o l
    BY <1>1, <2>2, <2>4, <2>5, JoinEnded
  <2>10. (Ended(f) \o l) \o <<c>> = Ended(f) \o (l \o <<c>>)
    <3>1. Ended(f) \in ByteTexts
      BY <2>2, LinesAre
    <3>2. QED
      BY <2>2, <3>1, TextAssoc
  <2>11. QED
    BY <1>2, <2>5, <2>6, <2>7, <2>8, <2>9, <2>10 DEF JoinsTo
<1>5. QED
  BY <1>3, <1>4

LEMMA SplitJoinsTo ==
  ASSUME NEW s \in ByteTexts
  PROVE  JoinsTo(Split(s), s)
<1>1. PICK k \in Nat : k = Len(s)
  BY TextFacts
<1>2. PICK g : SplitRun(g, s)
  BY SplitRuns
<1> DEFINE T == {i \in 0..k : JoinsTo(g[i], SubSeq(s, 1, i))}
<1>3. 0 \in T
  <2>1. g[0] = <<(<<>>)>> /\ SubSeq(s, 1, 0) = <<>>
    BY <1>2, SubSeqEmpty DEF SplitRun
  <2>2. <<>> \in Plain /\ <<>> \in ByteTexts
    BY PlainFacts
  <2>3. <<>> \in Seq(ByteTexts)
    OBVIOUS
  <2>4. Append(<<>>, <<>>) = <<(<<>>)>>
    OBVIOUS
  <2>5. Join(Append(<<>>, <<>>)) = Ended(<<>>) \o <<>>
    BY <2>2, <2>3, JoinEnded
  <2>6. Ended(<<>>) \o <<>> = <<>>
    BY <2>2, NoneEnded, TextFacts
  <2>7. <<(<<>>)>> \in Seq(Plain) /\ <<(<<>>)>> # <<>>
    BY <2>2
  <2>8. PICK ls : ls = <<(<<>>)>> /\ ls \in Seq(Plain) /\ ls # <<>> /\ Join(ls) = <<>>
    BY <2>4, <2>5, <2>6, <2>7
  <2>9. JoinsTo(ls, <<>>)
    BY <2>8 DEF JoinsTo
  <2>10. JoinsTo(g[0], SubSeq(s, 1, 0))
    BY <2>1, <2>8, <2>9, Zenon
  <2>11. QED
    BY <2>10
<1>4. ASSUME NEW i \in 1..k, i - 1 \in T PROVE i \in T
  <2>1. PICK t : t = SubSeq(s, 1, i - 1) /\ t \in ByteTexts /\ s[i] \in Nat
                 /\ SubSeq(s, 1, i) = Append(t, s[i])
    <3>1. i \in 1..Len(s) /\ s \in Seq(Nat)
      BY <1>1 DEF ByteTexts
    <3>2. QED
      BY <3>1, OneMore DEF ByteTexts
  <2>2. JoinsTo(g[i - 1], t)
    BY <1>4, <2>1
  <2>3. JoinsTo(SplitChar(g[i - 1], s[i]), Append(t, s[i]))
    BY <2>1, <2>2, SplitCharJoinsTo
  <2>4. g[i] = SplitChar(g[i - 1], s[i])
    BY <1>1, <1>2 DEF SplitRun
  <2>5. JoinsTo(g[i], SubSeq(s, 1, i))
    BY <2>1, <2>3, <2>4, Zenon
  <2>6. QED
    BY <2>5
<1> HIDE DEF T
<1>5. 0..k \subseteq T
  BY <1>3, <1>4, UpTo
<1>6. JoinsTo(g[k], SubSeq(s, 1, k))
  BY <1>5 DEF T
<1>7. g[k] = Split(s) /\ SubSeq(s, 1, k) = s
  BY <1>1, <1>2, SubSeqFull DEF SplitRun, ByteTexts
<1>8. QED
  BY <1>6, <1>7

LEMMA InsertLinePoint ==
  ASSUME NEW y, Sound(y), NEW l \in Plain
  PROVE  At(InsertLine(y, l), Pre(y) \o (Break \o l), Post(y))
<1>1. PICK z : z = RawNewline(y) /\ Sound(z) /\ Pre(z) = Pre(y) \o Break /\ Post(z) = Post(y)
  BY NewlinePoint
<1>2. PICK w : w = RawInsert(z, l) /\ Sound(w) /\ Pre(w) = Pre(z) \o l /\ Post(w) = Post(z)
  BY <1>1, InsertPoint
<1>3. (Pre(y) \o Break) \o l = Pre(y) \o (Break \o l)
  <2>1. Pre(y) \in ByteTexts
    BY TextSplits
  <2>2. l \in ByteTexts /\ Break \in ByteTexts
    BY PlainFacts, TextFacts
  <2>3. QED
    BY <2>1, <2>2, TextAssoc
<1>4. QED
  BY <1>1, <1>2, <1>3 DEF InsertLine, At

(* The lines t have been inserted after the text u.                        *)
Typed(y, u, t, q) == At(y, u \o Led(t), q)

LEMMA TypedMore ==
  ASSUME NEW y, NEW u \in ByteTexts, NEW t \in Seq(ByteTexts), NEW q, Typed(y, u, t, q), NEW l \in Plain
  PROVE  Typed(InsertLine(y, l), u, Append(t, l), q)
<1>1. Sound(y) /\ Pre(y) = u \o Led(t) /\ Post(y) = q
  BY DEF Typed, At
<1>2. At(InsertLine(y, l), (u \o Led(t)) \o (Break \o l), q)
  BY <1>1, InsertLinePoint
<1>3. (u \o Led(t)) \o (Break \o l) = u \o Led(Append(t, l))
  <2>1. l \in ByteTexts
    BY PlainFacts
  <2>2. Led(Append(t, l)) = Led(t) \o (Break \o l) /\ Led(t) \in ByteTexts
    BY <2>1, LedAppend
  <2>3. Break \o l \in ByteTexts
    BY <2>1, TextFacts
  <2>4. (u \o Led(t)) \o (Break \o l) = u \o (Led(t) \o (Break \o l))
    BY <2>2, <2>3, TextAssoc
  <2>5. QED
    BY <2>2, <2>4
<1>4. QED
  BY <1>2, <1>3, Zenon DEF Typed

LEMMA InsertStringPoint ==
  ASSUME NEW x, Sound(x), NEW s \in ByteTexts
  PROVE  At(RawInsertString(x, s), Pre(x) \o s, Post(x))
<1>1. PICK h, e : h = Head(Split(s)) /\ e = Tail(Split(s)) /\ h \in Plain /\ e \in Seq(Plain)
  <2>1. Split(s) \in Seq(Plain) /\ Split(s) # <<>>
    BY SplitJoinsTo DEF JoinsTo
  <2>2. QED
    BY <2>1, HeadTail
<1>2. h \in ByteTexts /\ e \in Seq(ByteTexts) /\ s = h \o Led(e) /\ Led(e) \in ByteTexts
  <2>1. Split(s) \in Seq(Plain) /\ Split(s) # <<>> /\ Join(Split(s)) = s
    BY SplitJoinsTo DEF JoinsTo
  <2>2. Split(s) \in Seq(ByteTexts)
    BY <2>1, PlainFacts
  <2>3. Join(Split(s)) = h \o Led(e)
    BY <1>1, <2>1, <2>2, JoinLed
  <2>4. h \in ByteTexts /\ e \in Seq(ByteTexts)
    BY <1>1, PlainFacts
  <2>5. Led(e) \in ByteTexts
    BY <2>4, LinesAre
  <2>6. QED
    BY <2>1, <2>3, <2>4, <2>5
<1>3. PICK k \in Nat : k = Len(e)
  BY <1>1
<1>4. PICK g : InsertRun(g, x, s)
  BY InsertStringRuns DEF Sound
<1>5. PICK p, q : p = Pre(x) /\ q = Post(x) /\ p \in ByteTexts /\ q \in ByteTexts
  BY TextSplits
<1>6. PICK u : u = p \o h /\ u \in ByteTexts
  BY <1>2, <1>5, TextFacts
<1> DEFINE T == {i \in 0..k : Typed(g[i], u, SubSeq(e, 1, i), q)}
<1>7. 0 \in T
  <2>1. g[0] = RawInsert(x, h)
    BY <1>1, <1>4 DEF InsertRun
  <2>2. At(g[0], u, q)
    BY <1>1, <1>5, <1>6, <2>1, InsertPoint DEF At
  <2>3. u \o Led(<<>>) = u
    BY <1>6, NoneEnded, TextFacts
  <2>4. SubSeq(e, 1, 0) = <<>>
    BY SubSeqEmpty
  <2>5. Typed(g[0], u, <<>>, q)
    BY <2>2, <2>3, Zenon DEF Typed
  <2>6. Typed(g[0], u, SubSeq(e, 1, 0), q)
    BY <2>4, <2>5, Zenon
  <2>7. QED
    BY <2>6
<1>8. ASSUME NEW i \in 1..k, i - 1 \in T PROVE i \in T
  <2>1. PICK t : t = SubSeq(e, 1, i - 1) /\ t \in Seq(Plain) /\ e[i] \in Plain
                 /\ SubSeq(e, 1, i) = Append(t, e[i])
    <3>1. i \in 1..Len(e)
      BY <1>3
    <3>2. QED
      BY <1>1, <3>1, OneMore
  <2>2. PICK l : l = e[i] /\ l \in Plain /\ t \in Seq(ByteTexts)
    BY <2>1, PlainFacts
  <2>3. Typed(g[i - 1], u, t, q)
    BY <1>8, <2>1
  <2>4. Typed(InsertLine(g[i - 1], l), u, Append(t, l), q)
    BY <1>6, <2>2, <2>3, TypedMore
  <2>5. g[i] = InsertLine(g[i - 1], l)
    BY <1>1, <1>3, <1>4, <2>2 DEF InsertRun
  <2>6. Typed(g[i], u, SubSeq(e, 1, i), q)
    BY <2>1, <2>2, <2>4, <2>5, Zenon
  <2>7. QED
    BY <2>6
<1> HIDE DEF T
<1>9. 0..k \subseteq T
  BY <1>7, <1>8, UpTo
<1>10. Typed(g[k], u, SubSeq(e, 1, k), q)
  BY <1>9 DEF T
<1>11. SubSeq(e, 1, k) = e
  BY <1>1, <1>3, SubSeqFull
<1>12. u \o Led(e) = p \o s
  <2>1. (p \o h) \o Led(e) = p \o (h \o Led(e))
    <3>1. p \in ByteTexts /\ h \in ByteTexts /\ Led(e) \in ByteTexts
      BY <1>2, <1>5
    <3>2. QED
      <4>1. Associates(p, h, Led(e))
        BY <3>1, Associated
      <4>2. QED
        BY <4>1, Zenon DEF Associates
  <2>2. QED
    BY <1>2, <1>6, <2>1
<1>13. g[k] = RawInsertString(x, s)
  BY <1>1, <1>3, <1>4 DEF InsertRun
<1>14. At(g[k], u \o Led(e), q)
  BY <1>10, <1>11, Zenon DEF Typed
<1>15. QED
  BY <1>5, <1>12, <1>13, <1>14, Zenon

LEMMA SoundLines ==
  ASSUME NEW x, Sound(x)
  PROVE  /\ Lines(x) \in Seq(Plain) /\ Lines(x) \in Seq(ByteTexts) /\ Len(Lines(x)) \in Nat \ {0}
         /\ row(x) \in Nat /\ row(x) < Len(Lines(x)) /\ Text(x) \in ByteTexts /\ Text(x) = Join(Lines(x))
<1>1. x.above \in Seq(Plain) /\ x.cur \in Plain /\ x.below \in Seq(Plain) /\ x \in Buffers
  BY SoundFields
<1>2. <<x.cur>> \in Seq(Plain)
  BY <1>1
<1>3. x.above \o <<x.cur>> \in Seq(Plain)
  BY <1>1, <1>2, ConcatProperties
<1>4. (x.above \o <<x.cur>>) \o x.below \in Seq(Plain)
  BY <1>1, <1>3, ConcatProperties
<1>5. Lines(x) \in Seq(Plain)
  BY <1>4 DEF Lines
<1>6. Len(Lines(x)) = Len(x.above) + 1 + Len(x.below)
  BY <1>1, LinesType
<1>7. Len(x.above) \in Nat /\ Len(x.below) \in Nat
  BY <1>1
<1>8. Lines(x) \in Seq(ByteTexts)
  BY <1>5, PlainFacts
<1>9. Text(x) \in ByteTexts /\ Text(x) = Join(Lines(x))
  BY <1>1, TextType DEF Text
<1>10. row(x) \in Nat /\ row(x) < Len(Lines(x)) /\ Len(Lines(x)) \in Nat \ {0}
  <2>1. PICK m \in Nat, n \in Nat : m = Len(x.above) /\ n = Len(x.below)
    BY <1>7
  <2>2. Len(Lines(x)) = m + 1 + n
    BY <1>6, <2>1
  <2>3. row(x) = m
    BY <2>1 DEF row
  <2>4. QED
    BY <2>2, <2>3
<1>11. QED
  BY <1>5, <1>8, <1>9, <1>10

(* The position is one of the text.                                        *)
Inside(x, r, c) == r < Len(Lines(x)) /\ c <= Len(Lines(x)[r + 1])

LEMMA GotoSound ==
  ASSUME NEW x, Sound(x), NEW r \in Nat, NEW c \in Nat
  PROVE  LET y == Goto(x, r, c)
         IN /\ Sound(y) /\ Text(y) = Text(x) /\ y.undo = x.undo /\ y.redo = x.redo
            /\ Inside(x, r, c) => /\ row(y) = r /\ y.col = c /\ y.cur = Lines(x)[r + 1]
                                  /\ y.above = SubSeq(Lines(x), 1, r)
<1>1. PICK ls : ls = Lines(x) /\ ls \in Seq(Plain) /\ Len(ls) \in Nat \ {0}
  BY SoundLines
<1>2. PICK k : k = AtMost(r, Len(ls) - 1) + 1 /\ k \in 1..Len(ls) /\ (r < Len(ls) => k = r + 1)
  BY <1>1 DEF AtMost
<1>3. PICK p, q : p = SubSeq(ls, 1, k - 1) /\ q = SubSeq(ls, k + 1, Len(ls))
                  /\ p \in Seq(Plain) /\ q \in Seq(Plain) /\ ls[k] \in Plain /\ Len(p) = k - 1
  <2>1. SubSeq(ls, 1, k - 1) \in Seq(Plain) /\ SubSeq(ls, k + 1, Len(ls)) \in Seq(Plain) /\ ls[k] \in Plain
    BY <1>1, <1>2, CutAt
  <2>2. Len(SubSeq(ls, 1, k - 1)) = k - 1
    BY <1>1, <1>2
  <2>3. QED
    BY <2>1, <2>2
<1>4. PICK y : y = Goto(x, r, c)
  OBVIOUS
<1>5. Moved(x, y)
  BY <1>4, GotoMoves DEF Sound
<1>6. /\ y.above = p /\ y.cur = ls[k] /\ y.below = q /\ y.col = AtMost(c, Len(ls[k]))
  <2>1. PICK z : z = [x EXCEPT !.above = p, !.cur = ls[k], !.below = q]
    OBVIOUS
  <2>2. PICK col : col = AtMost(c, Len(ls[k]))
    OBVIOUS
  <2>3. Goto(x, r, c) = SetCol(z, col)
    BY <1>1, <1>2, <1>3, <2>1, <2>2 DEF Goto
  <2>4. x \in Buffers
    BY SoundFields
  <2>5. z.above = p /\ z.cur = ls[k] /\ z.below = q /\ z = [z EXCEPT !.col = z.col]
    BY <2>1, <2>4 DEF Buffers
  <2>6. DOMAIN z = DOMAIN x
    BY <2>1
  <2>7. y = [z EXCEPT !.col = col, !.goal = col]
    BY <1>4, <2>3 DEF SetCol
  <2>8. QED
    BY <2>1, <2>2, <2>4, <2>5, <2>6, <2>7 DEF Buffers
<1>7. Sound(y) /\ Text(y) = Text(x) /\ y.undo = x.undo /\ y.redo = x.redo
  BY <1>3, <1>5, <1>6 DEF Sound, Divided, Moved, Text
<1>8. ASSUME Inside(x, r, c) 
      PROVE  row(y) = r /\ y.col = c /\ y.cur = Lines(x)[r + 1] /\ y.above = SubSeq(Lines(x), 1, r)
  <2>1. k = r + 1 /\ c <= Len(ls[k])
    BY <1>1, <1>2, <1>8 DEF Inside
  <2>2. Len(ls[k]) \in Nat
    BY <1>3, PlainFacts
  <2>3. row(y) = r
    BY <1>3, <1>6, <2>1 DEF row
  <2>4. y.col = c
    BY <1>6, <2>1, <2>2 DEF AtMost
  <2>5. k - 1 = r
    BY <1>2, <2>1
  <2>6. y.above = SubSeq(Lines(x), 1, r)
    BY <1>1, <1>3, <1>6, <2>5
  <2>7. QED
    BY <1>1, <1>6, <2>1, <2>3, <2>4, <2>6
<1>9. QED
  BY <1>4, <1>7, <1>8

(* The text t is p before a point, and q after it.                         *)
Around(t, p, q) == p \in ByteTexts /\ q \in ByteTexts /\ t = p \o q

(* p ends with the line l, under the lines ls.                             *)
EndsOn(t, p, q, r, c, ls, l) ==
  /\ ls \in Seq(Plain) /\ l \in Plain /\ Len(ls) = r /\ Len(l) = c
  /\ p = Ended(ls) \o l /\ t = Ended(ls) \o (l \o q)
  /\ ls \in Seq(ByteTexts) /\ l \in ByteTexts /\ Ended(ls) \in ByteTexts /\ l \o q \in ByteTexts

LEMMA SpotEnds ==
  ASSUME NEW t, NEW p, NEW q, Around(t, p, q), NEW r, NEW c, Spot(p, r, c)
  PROVE  \E ls, l : EndsOn(t, p, q, r, c, ls, l)
<1>1. PICK ls \in Seq(Plain), l \in Plain : p = Ended(ls) \o l /\ Len(ls) = r /\ Len(l) = c
  BY DEF Spot
<1>2. ls \in Seq(ByteTexts) /\ l \in ByteTexts /\ q \in ByteTexts /\ t = p \o q
  BY <1>1, PlainFacts DEF Around
<1>3. Ended(ls) \in ByteTexts /\ l \o q \in ByteTexts
  BY <1>2, LinesAre, TextFacts
<1>4. (Ended(ls) \o l) \o q = Ended(ls) \o (l \o q)
  <2>1. Associates(Ended(ls), l, q)
    BY <1>2, <1>3, Associated
  <2>2. QED
    BY <2>1, Zenon DEF Associates
<1>5. t = Ended(ls) \o (l \o q)
  BY <1>1, <1>2, <1>4
<1>6. EndsOn(t, p, q, r, c, ls, l)
  BY <1>1, <1>2, <1>3, <1>5 DEF EndsOn
<1>7. QED
  BY <1>6

LEMMA SpotDistance ==
  ASSUME NEW t, NEW p, NEW q, NEW k, NEW m, Around(t, p, q), Around(t, k, m),
         NEW r, NEW c, NEW d, Spot(p, r, c), Spot(k, r, d)
  PROVE  \E a \in Nat : Len(p) = a + c /\ Len(k) = a + d
<1>1. PICK s, l : EndsOn(t, p, q, r, c, s, l)
  BY SpotEnds
<1>2. /\ s \in Seq(Plain) /\ l \in Plain /\ p = Ended(s) \o l /\ Len(s) = r /\ Len(l) = c /\ t = Ended(s) \o (l \o q)
      /\ l \in ByteTexts /\ Ended(s) \in ByteTexts /\ l \o q \in ByteTexts
  BY <1>1 DEF EndsOn
<1>3. PICK z, n : EndsOn(t, k, m, r, d, z, n)
  BY SpotEnds
<1>4. /\ z \in Seq(Plain) /\ n \in Plain /\ k = Ended(z) \o n /\ Len(z) = r /\ Len(n) = d /\ t = Ended(z) \o (n \o m)
      /\ n \in ByteTexts /\ Ended(z) \in ByteTexts /\ n \o m \in ByteTexts
  BY <1>3 DEF EndsOn
<1>5. s = z
  <2>1. PICK u, v : u = l \o q /\ v = n \o m /\ u \in ByteTexts /\ v \in ByteTexts
    BY <1>2, <1>4
  <2>2. Ended(s) \o u = Ended(z) \o v /\ Len(s) = Len(z)
    BY <1>2, <1>4, <2>1
  <2>3. OnlyLines(s)
    BY <1>2, LinesAreUnique
  <2>4. QED
    BY <1>4, <2>1, <2>2, <2>3 DEF OnlyLines
<1>6. Len(p) = Len(Ended(s)) + c /\ Len(k) = Len(Ended(s)) + d /\ Len(Ended(s)) \in Nat
  BY <1>2, <1>4, <1>5, TextFacts
<1>7. QED
  BY <1>6

LEMMA SpotOnce ==
  ASSUME NEW t, NEW p, NEW q, NEW k, NEW m, Around(t, p, q), Around(t, k, m),
         NEW r, NEW c, Spot(p, r, c), Spot(k, r, c)
  PROVE  p = k /\ q = m
<1>1. Len(p) = Len(k)
  BY SpotDistance
<1>2. p \in ByteTexts /\ q \in ByteTexts /\ k \in ByteTexts /\ m \in ByteTexts /\ p \o q = k \o m
  BY DEF Around
<1>3. QED
  BY <1>1, <1>2, SameLength

LEMMA SpotType ==
  ASSUME NEW p, NEW r, NEW c, Spot(p, r, c)
  PROVE  r \in Nat /\ c \in Nat
  BY PlainFacts DEF Spot

(* A line that is longer than the first one of a text would have its break. *)
LEMMA FirstLineBounds ==
  ASSUME NEW l \in Plain, NEW m \in Plain, NEW q \in ByteTexts, NEW ls \in Seq(ByteTexts),
         l \o q = m \o Led(ls)
  PROVE  Len(l) <= Len(m)
<1>1. SUFFICES ASSUME ~(Len(l) <= Len(m)) PROVE FALSE
  OBVIOUS
<1>2. /\ l \in ByteTexts /\ m \in ByteTexts /\ Led(ls) \in ByteTexts /\ Len(l) \in Nat /\ Len(m) \in Nat
      /\ Len(q) \in Nat /\ Len(Led(ls)) \in Nat
  BY PlainFacts, LinesAre, TextFacts
<1>3. Len(l) + Len(q) = Len(m) + Len(Led(ls))
  BY <1>2, TextFacts
<1>4. ls # <<>>
  <2>1. Len(Led(ls)) # 0
    BY <1>1, <1>2, <1>3
  <2>2. Len(<<>>) = 0
    OBVIOUS
  <2>3. QED
    BY <2>1, <2>2, NoneEnded
<1>5. PICK h, e : h = Head(ls) /\ e = Tail(ls) /\ h \in ByteTexts /\ e \in Seq(ByteTexts) /\ <<h>> \o e = ls
  BY <1>4, HeadTail
<1>6. PICK u : u = h \o Led(e) /\ u \in ByteTexts /\ Led(ls) = Break \o u
  <2>1. Led(ls) = (Break \o h) \o Led(e)
    BY <1>5, LedFirst
  <2>2. Led(e) \in ByteTexts /\ Break \in ByteTexts
    BY <1>5, LinesAre, TextFacts
  <2>3. (Break \o h) \o Led(e) = Break \o (h \o Led(e))
    BY <1>5, <2>2, TextAssoc
  <2>4. h \o Led(e) \in ByteTexts
    BY <1>5, <2>2, TextFacts
  <2>5. QED
    BY <2>1, <2>3, <2>4
<1>7. Led(ls)[1] = NL /\ Len(Led(ls)) \in Nat \ {0}
  BY <1>6, BreakFirst
<1>8. (m \o Led(ls))[Len(m) + 1] = NL
  <2>1. 1 \in 1..Len(Led(ls))
    BY <1>7
  <2>2. QED
    BY <1>2, <1>7, <2>1, ConcatAt
<1>9. PICK n : n = Len(m) + 1 /\ n \in 1..Len(l)
  BY <1>1, <1>2
<1>10. (l \o q)[n] = l[n]
  BY <1>2, <1>9, ConcatAt
<1>11. l[n] # NL
  BY <1>9, PlainFacts
<1>12. QED
  BY <1>8, <1>9, <1>10, <1>11

LEMMA JoinBreak ==
  ASSUME NEW ls \in Seq(ByteTexts), ls # <<>>
  PROVE  Ended(ls) = Join(ls) \o Break
<1>1. PICK f, l : f \in Seq(ByteTexts) /\ l \in ByteTexts /\ f \o <<l>> = ls
  BY FrontLast
<1>2. ls = Append(f, l)
  BY <1>1, AppendIsConcat
<1>3. Join(ls) = Ended(f) \o l /\ Ended(ls) = Ended(f) \o (l \o Break) /\ Ended(f) \in ByteTexts
  BY <1>1, <1>2, JoinEnded, EndedAppend
<1>4. (Ended(f) \o l) \o Break = Ended(f) \o (l \o Break)
  BY <1>1, <1>3, TextFacts, TextAssoc
<1>5. QED
  BY <1>3, <1>4

LEMMA SpotInside ==
  ASSUME NEW x, Sound(x), NEW p, NEW q, Around(Text(x), p, q), NEW r, NEW c, Spot(p, r, c)
  PROVE  Inside(x, r, c)
<1>1. PICK ls : ls = Lines(x) /\ ls \in Seq(Plain) /\ ls \in Seq(ByteTexts) /\ Len(ls) \in Nat \ {0}
  BY SoundLines
<1>2. PICK t : t = Text(x) /\ t \in ByteTexts /\ t = Join(ls)
  BY <1>1, SoundLines
<1>3. PICK a, l : EndsOn(t, p, q, r, c, a, l)
  BY <1>2, SpotEnds
<1>4. /\ a \in Seq(Plain) /\ l \in Plain /\ Len(a) = r /\ Len(l) = c /\ t = Ended(a) \o (l \o q)
      /\ a \in Seq(ByteTexts) /\ l \in ByteTexts /\ Ended(a) \in ByteTexts /\ l \o q \in ByteTexts
  BY <1>3 DEF EndsOn
<1>5. PICK u : u = l \o q /\ u \in ByteTexts
  BY <1>4
<1>6. r < Len(ls)
  <2>1. SUFFICES ASSUME ~(r < Len(ls)) PROVE FALSE
    OBVIOUS
  <2>2. PICK n \in Nat : n = Len(ls) /\ n <= Len(a)
    BY <1>1, <1>4, <2>1
  <2>3. PICK d, e : /\ d = SubSeq(a, 1, n) /\ e = SubSeq(a, n + 1, Len(a)) /\ d \in Seq(Plain) /\ Len(d) = n
                    /\ e \in Seq(Plain) /\ d \o e = a
    <3>1. SubSeq(a, 1, n) \in Seq(Plain) /\ Len(SubSeq(a, 1, n)) = n
      <4>1. 1 \in Nat \ {0} /\ 1 <= n + 1 /\ n - 1 + 1 = n
        BY <2>2
      <4>2. SubSeq(a, 1, n) \in Seq(Plain) /\ Len(SubSeq(a, 1, n)) = n - 1 + 1
        BY <1>4, <2>2, <4>1, SliceIs
      <4>3. QED
        BY <4>1, <4>2
    <3>2. SubSeq(a, n + 1, Len(a)) \in Seq(Plain)
      <4>1. n + 1 \in Nat \ {0} /\ Len(a) \in Nat /\ Len(a) <= Len(a)
        BY <2>2
      <4>2. QED
        BY <1>4, <4>1, PartType
    <3>3. SubSeq(a, 1, n) \o SubSeq(a, n + 1, Len(a)) = SubSeq(a, 1, Len(a))
      <4>1. 1 \in 1..Len(a) + 1 /\ n \in 1 - 1..Len(a) /\ Len(a) \in n..Len(a)
        BY <2>2
      <4>2. QED
        BY <1>4, <4>1, ConcatAdjacentSubSeq
    <3>4. SubSeq(a, 1, Len(a)) = a
      BY <1>4, SubSeqFull
    <3>5. QED
      BY <2>2, <3>1, <3>2, <3>3, <3>4, Zenon
  <2>4. PICK v : v = Ended(e) \o (u \o Break) /\ v \in ByteTexts /\ Len(v) > 0
    <3>1. Ended(e) \in ByteTexts
      BY <2>3, PlainFacts, LinesAre
    <3>2. u \o Break \in ByteTexts /\ Break \in ByteTexts
      BY <1>5, TextFacts
    <3>3. PICK w : w = u \o Break /\ w \in ByteTexts /\ Len(w) \in Nat \ {0}
      <4>1. Len(u \o Break) = Len(u) + Len(Break) /\ Len(u) \in Nat /\ Len(Break) = 1
        BY <1>5, <3>2, TextFacts DEF Break
      <4>2. PICK j \in Nat : j = Len(u) /\ Len(u \o Break) = j + 1
        BY <4>1
      <4>3. Len(u \o Break) \in Nat \ {0}
        BY <4>2
      <4>4. QED
        BY <3>2, <4>3, Zenon
    <3>4. Ended(e) \o w \in ByteTexts /\ Len(Ended(e) \o w) = Len(Ended(e)) + Len(w) /\ Len(Ended(e)) \in Nat
      BY <3>1, <3>3, TextFacts
    <3>5. Len(Ended(e) \o w) > 0
      BY <3>3, <3>4
    <3>6. QED
      BY <3>3, <3>4, <3>5
  <2>5. Ended(ls) = Ended(d) \o v
    <3>1. Ended(ls) = t \o Break
      <4>1. ls # <<>>
        BY <1>1, EmptySeq
      <4>2. QED
        BY <1>1, <1>2, <4>1, JoinBreak
    <3>2. t = Ended(a) \o u
      BY <1>4, <1>5
    <3>3. Ended(a) = Ended(d) \o Ended(e)
      BY <2>3, PlainFacts, EndedTogether
    <3>4. Ended(d) \in ByteTexts /\ Ended(e) \in ByteTexts /\ Break \in ByteTexts
      BY <2>3, PlainFacts, LinesAre, TextFacts
    <3>5. (Ended(a) \o u) \o Break = Ended(a) \o (u \o Break)
      <4>1. Ended(a) \in ByteTexts
        BY <1>4
      <4>2. QED
        BY <1>5, <3>4, <4>1, TextAssoc
    <3>6. u \o Break \in ByteTexts
      BY <1>5, <3>4, TextFacts
    <3>7. (Ended(d) \o Ended(e)) \o (u \o Break) = Ended(d) \o (Ended(e) \o (u \o Break))
      BY <3>4, <3>6, TextAssoc
    <3>8. QED
      BY <2>4, <3>1, <3>2, <3>3, <3>5, <3>7
  <2>6. Ended(ls) \o <<>> = Ended(d) \o v
    BY <1>1, <2>5, LinesAre, TextFacts
  <2>7. v = <<>>
    <3>1. OnlyLines(ls) /\ <<>> \in ByteTexts /\ Len(ls) = Len(d)
      BY <1>1, <2>2, <2>3, LinesAreUnique, TextFacts
    <3>2. QED
      BY <2>3, <2>4, <2>6, <3>1 DEF OnlyLines
  <2>8. QED
    BY <2>4, <2>7
<1>7. PICK k : k = r + 1 /\ k \in 1..Len(ls) /\ r \in Nat /\ k - 1 = r
  BY <1>1, <1>4, <1>6
<1>8. PICK d, m, e : /\ d = SubSeq(ls, 1, k - 1) /\ m = ls[k]
                     /\ d \in Seq(Plain) /\ m \in Plain /\ e \in Seq(Plain) /\ d \o <<m>> \o e = ls
  <2>1. PICK d, m, e : d = SubSeq(ls, 1, k - 1) /\ m = ls[k] /\ e = SubSeq(ls, k + 1, Len(ls))
    OBVIOUS
  <2>2. d \in Seq(Plain) /\ m \in Plain /\ e \in Seq(Plain)
    BY <1>1, <1>7, <2>1, CutAt
  <2>3. d \o <<m>> \o e = ls
    BY <1>1, <1>7, <2>1, CutAt
  <2>4. QED
    BY <2>1, <2>2, <2>3
<1>9. Len(d) = r
  BY <1>1, <1>7, <1>8
<1>10. d \in Seq(ByteTexts) /\ m \in ByteTexts /\ e \in Seq(ByteTexts) /\ Ended(d) \in ByteTexts /\ Led(e) \in ByteTexts
  BY <1>8, PlainFacts, LinesAre
<1>11. PICK v : v = m \o Led(e) /\ v \in ByteTexts /\ t = Ended(d) \o v
  <2>1. t = (Ended(d) \o m) \o Led(e)
    <3>1. Join(d \o <<m>> \o e) = (Ended(d) \o m) \o Led(e)
      BY <1>10, JoinAround
    <3>2. QED
      BY <1>2, <1>8, <3>1, Zenon
  <2>2. (Ended(d) \o m) \o Led(e) = Ended(d) \o (m \o Led(e))
    BY <1>10, TextAssoc
  <2>3. m \o Led(e) \in ByteTexts
    BY <1>10, TextFacts
  <2>4. QED
    BY <2>1, <2>2, <2>3
<1>12. u = v
  <2>1. OnlyLines(a) /\ Len(a) = Len(d) /\ Ended(a) \o u = Ended(d) \o v
    BY <1>4, <1>5, <1>9, <1>11, LinesAreUnique
  <2>2. QED
    BY <1>5, <1>8, <1>11, <2>1 DEF OnlyLines
<1>13. Len(l) <= Len(m)
  <2>1. l \o q = m \o Led(e) /\ q \in ByteTexts
    BY <1>5, <1>11, <1>12 DEF Around
  <2>2. QED
    BY <1>4, <1>8, <1>10, <2>1, FirstLineBounds
<1>14. QED
  BY <1>1, <1>4, <1>6, <1>7, <1>8, <1>13 DEF Inside

(* Going to where a text ends goes there.                                  *)
LEMMA GotoAt ==
  ASSUME NEW x, Sound(x), NEW p, NEW q, Around(Text(x), p, q), NEW r, NEW c, Spot(p, r, c)
  PROVE  At(Goto(x, r, c), p, q)
<1>1. Inside(x, r, c) /\ r \in Nat /\ c \in Nat
  BY SpotInside, SpotType
<1>2. PICK y : y = Goto(x, r, c) /\ Sound(y) /\ Text(y) = Text(x) /\ row(y) = r /\ y.col = c
  BY <1>1, GotoSound
<1>3. Around(Text(x), Pre(y), Post(y)) /\ Spot(Pre(y), r, c)
  BY <1>2, TextSplits DEF Around
<1>4. p = Pre(y) /\ q = Post(y)
  BY <1>3, SpotOnce
<1>5. QED
  BY <1>2, <1>4 DEF At

(* Applied to the text t, the record gives the text that it remembers.     *)
Undone(t, rec, p, q) ==
  \/ rec.op = "ins" /\ t = p \o q /\ rec.was = p \o (rec.txt \o q)
  \/ rec.op = "del" /\ t = p \o (rec.txt \o q) /\ rec.was = p \o q

Takes(t, rec) ==
  rec \in EditRecords /\ \E p \in ByteTexts, q \in ByteTexts : Spot(p, rec.row, rec.col) /\ Undone(t, rec, p, q)

(* Applied in turn from the last one, each record gives what it remembers. *)
After(t, rs, n) == IF n = Len(rs) THEN t ELSE rs[n + 1].was

Back(t, rs) == rs \in Seq(EditRecords) /\ \A n \in 1..Len(rs) : Takes(After(t, rs, n), rs[n])

UndoGood(x) == Sound(x) /\ Back(Text(x), x.undo) /\ Back(Text(x), x.redo)

LEMMA BackNone ==
  ASSUME NEW t
  PROVE  Back(t, <<>>)
<1>1. <<>> \in Seq(EditRecords) /\ Len(<<>>) = 0
  OBVIOUS
<1>2. QED
  BY <1>1 DEF Back

LEMMA BackPush ==
  ASSUME NEW t, NEW rs, Back(t, rs), NEW rec, NEW u, Takes(u, rec), rec.was = t
  PROVE  Back(u, Append(rs, rec))
<1>1. rs \in Seq(EditRecords) /\ rec \in EditRecords
  BY DEF Back, Takes
<1>2. PICK n \in Nat : n = Len(rs)
  BY <1>1
<1>3. PICK z : z = Append(rs, rec)
  OBVIOUS
<1>4. z \in Seq(EditRecords) /\ Len(z) = n + 1 /\ z[n + 1] = rec /\ \A i \in 1..n : z[i] = rs[i]
  BY <1>1, <1>2, <1>3
<1>5. ASSUME NEW i \in 1..n + 1 PROVE Takes(After(u, z, i), z[i])
  <2>1. CASE i = n + 1
    BY <1>4, <2>1 DEF After
  <2>2. CASE i = n
    <3>1. i \in 1..n /\ i # n + 1
      BY <1>5, <2>2
    <3>2. z[i] = rs[i] /\ After(t, rs, i) = t
      BY <1>2, <1>4, <2>2, <3>1 DEF After
    <3>3. After(u, z, i) = t
      BY <1>4, <2>2, <3>1 DEF After
    <3>4. Takes(After(t, rs, i), rs[i])
      BY <1>2, <3>1 DEF Back
    <3>5. QED
      BY <3>2, <3>3, <3>4
  <2>3. CASE i < n
    <3>1. i \in 1..n /\ i + 1 \in 1..n /\ i # n + 1 /\ i # n
      BY <1>2, <2>3
    <3>2. z[i] = rs[i] /\ z[i + 1] = rs[i + 1]
      BY <1>4, <3>1
    <3>3. After(u, z, i) = rs[i + 1].was /\ After(t, rs, i) = rs[i + 1].was
      BY <1>2, <1>4, <3>1, <3>2 DEF After
    <3>4. Takes(After(t, rs, i), rs[i])
      BY <1>2, <3>1 DEF Back
    <3>5. QED
      BY <3>2, <3>3, <3>4
  <2>4. QED
    BY <1>2, <2>1, <2>2, <2>3
<1>6. QED
  BY <1>3, <1>4, <1>5 DEF Back

LEMMA BackPop ==
  ASSUME NEW t, NEW rs, Back(t, rs), rs # <<>>
  PROVE  Takes(t, Last(rs)) /\ Back(Last(rs).was, Front(rs))
<1>1. rs \in Seq(EditRecords)
  BY Zenon DEF Back
<1>2. PICK n \in Nat : Len(rs) = n + 1
  <2>1. Len(rs) \in Nat \ {0}
    BY <1>1, EmptySeq
  <2>2. Len(rs) - 1 \in Nat /\ Len(rs) = (Len(rs) - 1) + 1
    BY <2>1
  <2>3. QED
    BY <2>2, Zenon
<1>3. PICK f, l : f = Front(rs) /\ l = Last(rs) /\ f \in Seq(EditRecords) /\ l \in EditRecords
                  /\ Len(f) = n
  <2>1. Len(Front(rs)) = Len(rs) - 1
    BY <1>1, FrontLast
  <2>2. Front(rs) \in Seq(EditRecords) /\ Last(rs) \in EditRecords
    BY <1>1, FrontLast
  <2>3. Len(Front(rs)) = n
    BY <1>2, <2>1
  <2>4. QED
    BY <2>2, <2>3, Zenon
<1>4. rs[n + 1] = l
  BY <1>2, <1>3 DEF Last
<1>5. \A i \in 1..n : f[i] = rs[i]
  <2>1. f = SubSeq(rs, 1, n)
    BY <1>2, <1>3 DEF Front
  <2>2. QED
    BY <1>1, <1>2, <2>1
<1>6. Takes(t, l)
  <2>1. n + 1 \in 1..Len(rs) /\ After(t, rs, n + 1) = t
    BY <1>2 DEF After
  <2>2. Takes(After(t, rs, n + 1), rs[n + 1])
    BY <2>1 DEF Back
  <2>3. QED
    BY <1>4, <2>1, <2>2
<1>7. ASSUME NEW i \in 1..n PROVE Takes(After(l.was, f, i), f[i])
  <2>1. i \in 1..Len(rs) /\ i # Len(rs)
    BY <1>2
  <2>2. Takes(After(t, rs, i), rs[i])
    BY <2>1 DEF Back
  <2>3. After(t, rs, i) = rs[i + 1].was
    BY <2>1 DEF After
  <2>4. After(l.was, f, i) = rs[i + 1].was
    <3>1. CASE i = n
      BY <1>3, <1>4, <3>1 DEF After
    <3>2. CASE i # n
      <4>1. i + 1 \in 1..n
        BY <3>2
      <4>2. QED
        BY <1>3, <1>5, <3>2, <4>1 DEF After
    <3>3. QED
      BY <3>1, <3>2
  <2>5. QED
    BY <1>5, <2>2, <2>3, <2>4
<1>8. QED
  BY <1>3, <1>6, <1>7 DEF Back

LEMMA BackTail ==
  ASSUME NEW t, NEW rs, Back(t, rs), rs # <<>>
  PROVE  Back(t, Tail(rs))
<1>1. rs \in Seq(EditRecords)
  BY DEF Back
<1>2. PICK n \in Nat : Len(rs) = n + 1
  <2>1. Len(rs) \in Nat \ {0}
    BY <1>1, EmptySeq
  <2>2. Len(rs) - 1 \in Nat /\ Len(rs) = (Len(rs) - 1) + 1
    BY <2>1
  <2>3. QED
    BY <2>2
<1>3. PICK z : z = Tail(rs)
  OBVIOUS
<1>4. z \in Seq(EditRecords) /\ Len(z) = n /\ \A i \in 1..n : z[i] = rs[i + 1]
  BY <1>1, <1>2, <1>3
<1>5. ASSUME NEW i \in 1..n PROVE Takes(After(t, z, i), z[i])
  <2>1. i + 1 \in 1..Len(rs)
    BY <1>2
  <2>2. Takes(After(t, rs, i + 1), rs[i + 1])
    BY <2>1 DEF Back
  <2>3. After(t, z, i) = After(t, rs, i + 1)
    <3>1. CASE i = n
      BY <1>2, <1>4, <3>1 DEF After
    <3>2. CASE i # n
      <4>1. i + 1 \in 1..n /\ i + 1 # Len(rs)
        BY <1>2, <3>2
      <4>2. z[i + 1] = rs[(i + 1) + 1]
        BY <1>4, <4>1
      <4>3. QED
        BY <1>4, <3>2, <4>1, <4>2 DEF After
    <3>3. QED
      BY <3>1, <3>2
  <2>4. z[i] = rs[i + 1]
    BY <1>4
  <2>5. QED
    BY <2>2, <2>3, <2>4
<1>6. QED
  BY <1>3, <1>4, <1>5 DEF Back

LEMMA RememberedIs ==
  ASSUME NEW rs \in Seq(EditRecords)
  PROVE  /\ WasBefore(rs) \in Seq(ByteTexts) /\ Len(WasBefore(rs)) = Len(rs)
         /\ \A i \in 1..Len(rs) : WasBefore(rs)[i] = rs[i].was
<1>1. PICK n \in Nat : n = Len(rs) /\ DOMAIN rs = 1..n
  OBVIOUS
<1>2. ASSUME NEW i \in 1..n PROVE rs[i].was \in ByteTexts
  <2>1. PICK rec : rec = rs[i]
    OBVIOUS
  <2>2. rec \in EditRecords
    BY <1>1, <2>1
  <2>3. QED
    BY <2>1, <2>2 DEF EditRecords
<1>3. PICK w : w = WasBefore(rs) /\ w \in [1..n -> ByteTexts] /\ \A i \in 1..n : w[i] = rs[i].was
  <2>1. PICK w : w = [i \in 1..n |-> rs[i].was]
    OBVIOUS
  <2>2. w \in [1..n -> ByteTexts] /\ \A i \in 1..n : w[i] = rs[i].was
    BY <1>2, <2>1
  <2>3. w = WasBefore(rs)
    BY <1>1, <2>1, Zenon DEF WasBefore
  <2>4. QED
    BY <2>2, <2>3, Zenon
<1>4. w \in Seq(ByteTexts) /\ Len(w) = n
  BY <1>3
<1>5. QED
  BY <1>1, <1>3, <1>4

LEMMA RememberPush ==
  ASSUME NEW rs \in Seq(EditRecords), NEW rec \in EditRecords
  PROVE  WasBefore(Append(rs, rec)) = Append(WasBefore(rs), rec.was)
<1>1. PICK n \in Nat : n = Len(rs)
  OBVIOUS
<1>2. PICK z : z = Append(rs, rec) /\ z \in Seq(EditRecords) /\ Len(z) = n + 1 /\ z[n + 1] = rec
               /\ \A i \in 1..n : z[i] = rs[i]
  <2>1. PICK z : z = Append(rs, rec)
    OBVIOUS
  <2>2. z \in Seq(EditRecords) /\ Len(z) = n + 1 /\ z[n + 1] = rec /\ \A i \in 1..n : z[i] = rs[i]
    BY <1>1, <2>1
  <2>3. QED
    BY <2>1, <2>2
<1>3. PICK v : v = WasBefore(z)
  OBVIOUS
<1>4. v \in Seq(ByteTexts) /\ Len(v) = n + 1 /\ \A i \in 1..n + 1 : v[i] = z[i].was
  BY <1>2, <1>3, RememberedIs
<1>5. PICK u : u = WasBefore(rs)
  OBVIOUS
<1>6. u \in Seq(ByteTexts) /\ Len(u) = n /\ \A i \in 1..n : u[i] = rs[i].was
  BY <1>1, <1>5, RememberedIs
<1>7. PICK e : e = rec.was /\ e \in ByteTexts
  BY DEF EditRecords
<1>8. PICK w : w = Append(u, e)
  OBVIOUS
<1>9. w \in Seq(ByteTexts) /\ Len(w) = n + 1 /\ w[n + 1] = e /\ \A i \in 1..n : w[i] = u[i]
  BY <1>6, <1>7, <1>8
<1>10. ASSUME NEW i \in 1..n + 1 PROVE v[i] = w[i]
  <2>1. CASE i = n + 1
    BY <1>2, <1>4, <1>7, <1>9, <2>1
  <2>2. CASE i # n + 1
    <3>1. i \in 1..n
      BY <2>2
    <3>2. QED
      BY <1>2, <1>4, <1>6, <1>9, <3>1
  <2>3. QED
    BY <2>1, <2>2
<1>11. v = w
  BY <1>4, <1>9, <1>10, SeqEqual
<1>12. QED
  BY <1>2, <1>3, <1>5, <1>7, <1>8, <1>11

LEMMA LastFront ==
  ASSUME NEW T, NEW u \in Seq(T), NEW e \in T, NEW s, s = Append(u, e)
  PROVE  Front(s) = u /\ Last(s) = e /\ s # <<>> /\ s \in Seq(T)
<1>1. PICK n \in Nat : n = Len(u)
  OBVIOUS
<1>2. s \in Seq(T) /\ Len(s) = n + 1 /\ s[n + 1] = e /\ \A i \in 1..n : s[i] = u[i]
  BY <1>1
<1>3. s # <<>>
  BY <1>2, EmptySeq
<1>4. PICK f : f = Front(s)
  OBVIOUS
<1>5. f \in Seq(T) /\ Len(f) = n
  <2>1. f \in Seq(T) /\ Len(f) = Len(s) - 1
    BY <1>2, <1>3, <1>4, FrontLast
  <2>2. QED
    BY <1>2, <2>1
<1>6. \A i \in 1..n : f[i] = u[i]
  <2>1. f = SubSeq(s, 1, n)
    BY <1>2, <1>4 DEF Front
  <2>2. \A i \in 1..n : f[i] = s[i]
    BY <1>2, <2>1
  <2>3. QED
    BY <1>2, <2>2
<1>7. f = u
  BY <1>1, <1>5, <1>6, SeqEqual
<1>8. Last(s) = e
  BY <1>2 DEF Last
<1>9. QED
  BY <1>2, <1>3, <1>4, <1>7, <1>8

LEMMA RememberPop ==
  ASSUME NEW rs \in Seq(EditRecords), rs # <<>>
  PROVE  /\ WasBefore(rs) # <<>> /\ Last(WasBefore(rs)) = Last(rs).was
         /\ Front(WasBefore(rs)) = WasBefore(Front(rs))
         /\ WasBefore(rs) = Append(WasBefore(Front(rs)), Last(rs).was)
<1>1. PICK f, l : f = Front(rs) /\ l = Last(rs) /\ f \in Seq(EditRecords) /\ l \in EditRecords /\ f \o <<l>> = rs
  BY FrontLast
<1>2. rs = Append(f, l)
  BY <1>1, AppendIsConcat
<1>3. PICK u, e : u = WasBefore(f) /\ e = l.was
  OBVIOUS
<1>4. u \in Seq(ByteTexts) /\ e \in ByteTexts
  BY <1>1, <1>3, RememberedIs DEF EditRecords
<1>5. WasBefore(rs) = Append(u, e)
  BY <1>1, <1>2, <1>3, RememberPush
<1>6. Front(WasBefore(rs)) = u /\ Last(WasBefore(rs)) = e /\ WasBefore(rs) # <<>>
  BY <1>4, <1>5, LastFront
<1>7. QED
  BY <1>1, <1>3, <1>5, <1>6, Zenon

LEMMA RememberTail ==
  ASSUME NEW rs \in Seq(EditRecords), rs # <<>>
  PROVE  WasBefore(Tail(rs)) = Tail(WasBefore(rs))
<1>1. PICK n \in Nat : Len(rs) = n + 1
  <2>1. Len(rs) \in Nat \ {0}
    BY EmptySeq
  <2>2. Len(rs) - 1 \in Nat /\ Len(rs) = (Len(rs) - 1) + 1
    BY <2>1
  <2>3. QED
    BY <2>2, Zenon
<1>2. PICK z : z = Tail(rs)
  OBVIOUS
<1>3. z \in Seq(EditRecords) /\ Len(z) = n /\ \A i \in 1..n : z[i] = rs[i + 1]
  BY <1>1, <1>2
<1>4. PICK v : v = WasBefore(z)
  OBVIOUS
<1>5. v \in Seq(ByteTexts) /\ Len(v) = n /\ \A i \in 1..n : v[i] = z[i].was
  BY <1>3, <1>4, RememberedIs
<1>6. PICK u : u = WasBefore(rs)
  OBVIOUS
<1>7. u \in Seq(ByteTexts) /\ Len(u) = n + 1 /\ \A i \in 1..n + 1 : u[i] = rs[i].was
  BY <1>1, <1>6, RememberedIs
<1>8. PICK w : w = Tail(u)
  OBVIOUS
<1>9. w \in Seq(ByteTexts) /\ Len(w) = n /\ \A i \in 1..n : w[i] = u[i + 1]
  BY <1>7, <1>8
<1>10. ASSUME NEW i \in 1..n PROVE v[i] = w[i]
  <2>1. i + 1 \in 1..n + 1
    OBVIOUS
  <2>2. QED
    BY <1>3, <1>5, <1>7, <1>9, <2>1
<1>11. v = w
  BY <1>5, <1>9, <1>10, SeqEqual
<1>12. QED
  BY <1>2, <1>4, <1>6, <1>8, <1>11, Zenon

LEMMA RememberNone == WasBefore(<<>>) = <<>>
<1>1. <<>> \in Seq(EditRecords) /\ Len(<<>>) = 0
  OBVIOUS
<1>2. WasBefore(<<>>) \in Seq(ByteTexts) /\ Len(WasBefore(<<>>)) = 0
  BY <1>1, RememberedIs, Zenon
<1>3. QED
  BY <1>2, EmptySeq

(* The oldest record is dropped when there would be too many.              *)
LEMMA TakeDropsOne ==
  ASSUME NEW T, NEW s \in Seq(T), NEW n \in Nat, s # <<>>, Len(s) <= n + 1
  PROVE  Take(s, n) \in {s, Tail(s)}
<1>1. PICK k \in Nat : Len(s) = k + 1
  <2>1. Len(s) \in Nat \ {0}
    BY EmptySeq
  <2>2. Len(s) - 1 \in Nat /\ Len(s) = (Len(s) - 1) + 1
    BY <2>1
  <2>3. QED
    BY <2>2, Zenon
<1>2. CASE k < n
  <2>1. AtMost(n, Len(s)) = Len(s)
    BY <1>1, <1>2 DEF AtMost
  <2>2. Len(s) - Len(s) + 1 = 1
    BY <1>1
  <2>3. Take(s, n) = SubSeq(s, 1, Len(s))
    BY <2>1, <2>2 DEF Take
  <2>4. QED
    BY <2>3, SubSeqFull
<1>3. CASE ~(k < n)
  <2>1. n = k
    BY <1>1, <1>3
  <2>2. AtMost(n, Len(s)) = k
    BY <1>1, <2>1 DEF AtMost
  <2>3. Len(s) - k + 1 = 2
    BY <1>1
  <2>4. Take(s, n) = SubSeq(s, 2, Len(s))
    BY <2>2, <2>3 DEF Take
  <2>5. SubSeq(s, 2, Len(s)) = Tail(s)
    <3>1. PICK w : w = Tail(s)
      OBVIOUS
    <3>2. w \in Seq(T) /\ Len(w) = k /\ \A i \in 1..k : w[i] = s[i + 1]
      BY <1>1, <3>1
    <3>3. PICK v : v = SubSeq(s, 2, Len(s))
      OBVIOUS
    <3>4. v \in Seq(T) /\ Len(v) = k /\ \A i \in 1..k : v[i] = s[i + 1]
      <4>1. 2 \in Nat \ {0} /\ Len(s) \in Nat /\ Len(s) <= Len(s) /\ 2 <= Len(s) + 1 /\ Len(s) - 2 + 1 = k
        BY <1>1
      <4>2. v \in Seq(T) /\ Len(v) = Len(s) - 2 + 1 /\ \A i \in 1..(Len(s) - 2 + 1) : v[i] = s[2 + i - 1]
        BY <3>3, <4>1, SliceIs
      <4>3. QED
        BY <4>1, <4>2
    <3>5. \A i \in 1..k : v[i] = w[i]
      BY <3>2, <3>4
    <3>6. v = w
      BY <3>2, <3>4, <3>5, SeqEqual
    <3>7. QED
      BY <3>1, <3>3, <3>6
  <2>6. QED
    BY <2>4, <2>5
<1>4. QED
  BY <1>2, <1>3

(* What a command is to the user of undo: nothing, an edit, undo, redo.    *)
Quiet(x, y) == Text(y) = Text(x) /\ y.undo = x.undo /\ y.redo = x.redo

Edits(x, y) ==
  /\ LET longer == Append(WasBefore(x.undo), Text(x))
     IN WasBefore(y.undo) \in {longer, Tail(longer)}
                                \cup (IF WasBefore(x.undo) = <<>> THEN {} ELSE {WasBefore(x.undo)})
  /\ WasBefore(y.redo) = <<>>

Undoes(x, y) ==
  /\ WasBefore(x.undo) # <<>> /\ Text(y) = Last(WasBefore(x.undo))
  /\ WasBefore(y.undo) = Front(WasBefore(x.undo)) /\ WasBefore(y.redo) = Append(WasBefore(x.redo), Text(x))

Redoes(x, y) ==
  /\ WasBefore(x.redo) # <<>> /\ Text(y) = Last(WasBefore(x.redo))
  /\ WasBefore(y.redo) = Front(WasBefore(x.redo)) /\ WasBefore(y.undo) = Append(WasBefore(x.undo), Text(x))

Outcome(x, y) == UndoGood(y) /\ (Quiet(x, y) \/ Edits(x, y) \/ Undoes(x, y) \/ Redoes(x, y))

LEMMA QuietOutcome ==
  ASSUME NEW x, UndoGood(x), NEW y, Sound(y), Quiet(x, y)
  PROVE  Outcome(x, y)
  BY DEF Outcome, UndoGood, Quiet

LEMMA GoodFields ==
  ASSUME NEW x, UndoGood(x)
  PROVE  /\ Sound(x) /\ WellFormed(x) /\ x \in Buffers /\ Back(Text(x), x.undo) /\ Back(Text(x), x.redo)
         /\ x.undo \in Seq(EditRecords) /\ x.redo \in Seq(EditRecords) /\ Len(x.undo) <= UndoCap
         /\ UndoCap \in Nat /\ Text(x) \in ByteTexts
<1>1. Sound(x) /\ Back(Text(x), x.undo) /\ Back(Text(x), x.redo)
  BY DEF UndoGood
<1>2. WellFormed(x) /\ x \in Buffers
  BY <1>1, SoundFields
<1>3. /\ x.undo \in Seq(EditRecords) /\ x.redo \in Seq(EditRecords) /\ Len(x.undo) \in Nat /\ Len(x.redo) \in Nat
      /\ Len(x.undo) + Len(x.redo) <= UndoCap
  BY <1>2, BufferFields
<1>4. UndoCap \in Nat
  BY TextAssumption
<1>5. Len(x.undo) <= UndoCap
  <2>1. PICK i \in Nat, j \in Nat, k \in Nat : i = Len(x.undo) /\ j = Len(x.redo) /\ k = UndoCap
    BY <1>3, <1>4
  <2>2. i + j <= k
    BY <1>3, <2>1
  <2>3. i <= k
    BY <2>2
  <2>4. QED
    BY <2>1, <2>3
<1>6. Text(x) \in ByteTexts
  BY <1>1, SoundLines
<1>7. QED
  BY <1>1, <1>2, <1>3, <1>4, <1>5, <1>6

(* An edit that is recorded.                                               *)
LEMMA RecordedOutcome ==
  ASSUME NEW x, UndoGood(x), NEW y, Sound(y), NEW rec, y.undo = Take(Append(x.undo, rec), UndoCap),
         y.redo = <<>>, Takes(Text(y), rec), rec.was = Text(x)
  PROVE  Outcome(x, y)
<1>1. /\ Back(Text(x), x.undo) /\ x.undo \in Seq(EditRecords) /\ Len(x.undo) <= UndoCap /\ UndoCap \in Nat
      /\ rec \in EditRecords
  BY GoodFields DEF Takes
<1>2. PICK s : s = Append(x.undo, rec) /\ s \in Seq(EditRecords) /\ s # <<>> /\ Len(s) <= UndoCap + 1
  <2>1. PICK n \in Nat : n = Len(x.undo) /\ n <= UndoCap
    BY <1>1
  <2>2. Append(x.undo, rec) \in Seq(EditRecords) /\ Len(Append(x.undo, rec)) = n + 1
    BY <1>1, <2>1, AppendedIs
  <2>3. PICK s : s = Append(x.undo, rec)
    OBVIOUS
  <2>4. s \in Seq(EditRecords) /\ Len(s) = n + 1
    BY <2>2, <2>3
  <2>5. s # <<>>
    BY <2>4, EmptySeq
  <2>6. Len(s) <= UndoCap + 1
    BY <1>1, <2>1, <2>4
  <2>7. QED
    BY <2>3, <2>4, <2>5, <2>6
<1>3. y.undo \in {s, Tail(s)}
  BY <1>1, <1>2, TakeDropsOne
<1>4. Back(Text(y), s)
  BY <1>1, <1>2, BackPush
<1>5. Back(Text(y), Tail(s))
  BY <1>2, <1>4, BackTail
<1>6. UndoGood(y)
  BY <1>3, <1>4, <1>5, BackNone DEF UndoGood
<1>7. WasBefore(s) = Append(WasBefore(x.undo), Text(x))
  BY <1>1, <1>2, RememberPush
<1>8. WasBefore(Tail(s)) = Tail(WasBefore(s))
  BY <1>2, RememberTail
<1>9. WasBefore(y.redo) = <<>>
  BY RememberNone
<1>10. Edits(x, y)
  BY <1>3, <1>7, <1>8, <1>9 DEF Edits
<1>11. QED
  BY <1>6, <1>10 DEF Outcome

(* An edit that extends the last record.                                   *)
LEMMA MergedOutcome ==
  ASSUME NEW x, UndoGood(x), x.undo # <<>>, NEW y, Sound(y), NEW rec, y.undo = Append(Front(x.undo), rec),
         y.redo = <<>>, Takes(Text(y), rec), rec.was = Last(x.undo).was
  PROVE  Outcome(x, y)
<1>1. Back(Text(x), x.undo) /\ x.undo \in Seq(EditRecords) /\ rec \in EditRecords
  BY GoodFields DEF Takes
<1>2. Back(Last(x.undo).was, Front(x.undo))
  BY <1>1, BackPop
<1>3. Back(Text(y), y.undo)
  BY <1>2, BackPush
<1>4. UndoGood(y)
  BY <1>3, BackNone DEF UndoGood
<1>5. Front(x.undo) \in Seq(EditRecords)
  BY <1>1, FrontLast
<1>6. WasBefore(y.undo) = Append(WasBefore(Front(x.undo)), rec.was)
  BY <1>1, <1>5, RememberPush
<1>7. WasBefore(x.undo) = Append(WasBefore(Front(x.undo)), Last(x.undo).was) /\ WasBefore(x.undo) # <<>>
  BY <1>1, RememberPop
<1>8. WasBefore(y.undo) = WasBefore(x.undo)
  BY <1>6, <1>7
<1>9. Edits(x, y)
  BY <1>7, <1>8, RememberNone DEF Edits
<1>10. QED
  BY <1>4, <1>9 DEF Outcome

(* The next four: what an edit inserts or deletes, its record undoes.      *)
LEMMA InsertedTakes ==
  ASSUME NEW t, NEW p \in ByteTexts, NEW q \in ByteTexts, NEW rec \in EditRecords, rec.op = "del",
         Spot(p, rec.row, rec.col), t = (p \o rec.txt) \o q, rec.was = p \o q
  PROVE  Takes(t, rec)
<1>1. rec.txt \in ByteTexts
  BY DEF EditRecords
<1>2. (p \o rec.txt) \o q = p \o (rec.txt \o q)
  BY <1>1, TextAssoc
<1>3. QED
  BY <1>2 DEF Takes, Undone

LEMMA DeletedTakes ==
  ASSUME NEW t, NEW p \in ByteTexts, NEW q \in ByteTexts, NEW rec \in EditRecords, rec.op = "ins",
         Spot(p, rec.row, rec.col), t = p \o q, rec.was = p \o (rec.txt \o q)
  PROVE  Takes(t, rec)
  BY DEF Takes, Undone

LEMMA DelTaken ==
  ASSUME NEW t, NEW rec, Takes(t, rec), rec.op = "del"
  PROVE  \E p, q : /\ Around(t, p, rec.txt \o q) /\ Spot(p, rec.row, rec.col) /\ rec.was = p \o q
                   /\ q \in ByteTexts
<1>1. PICK p \in ByteTexts, q \in ByteTexts : Spot(p, rec.row, rec.col) /\ Undone(t, rec, p, q)
  BY DEF Takes
<1>2. t = p \o (rec.txt \o q) /\ rec.was = p \o q
  BY <1>1 DEF Undone
<1>3. rec.txt \in ByteTexts
  BY DEF Takes, EditRecords
<1>4. rec.txt \o q \in ByteTexts
  BY <1>3, TextFacts
<1>5. QED
  BY <1>1, <1>2, <1>4 DEF Around

LEMMA InsTaken ==
  ASSUME NEW t, NEW rec, Takes(t, rec), rec.op = "ins"
  PROVE  \E p, q : /\ Around(t, p, q) /\ Spot(p, rec.row, rec.col) /\ rec.was = p \o (rec.txt \o q)
                   /\ q \in ByteTexts
<1>1. PICK p \in ByteTexts, q \in ByteTexts : Spot(p, rec.row, rec.col) /\ Undone(t, rec, p, q)
  BY DEF Takes
<1>2. t = p \o q /\ rec.was = p \o (rec.txt \o q)
  BY <1>1 DEF Undone
<1>3. QED
  BY <1>1, <1>2 DEF Around

LEMMA NotedPoint ==
  ASSUME NEW x, Sound(x), NEW z, Noted(x, z)
  PROVE  /\ Sound(z) /\ WellFormed(z) /\ Pre(z) = Pre(x) /\ Post(z) = Post(x) /\ Text(z) = Text(x)
         /\ row(z) = row(x) /\ z.col = x.col /\ z.cur = x.cur /\ z.above = x.above /\ z.below = x.below
<1>1. /\ WellFormed(z) /\ z.above = x.above /\ z.cur = x.cur /\ z.below = x.below /\ z.col = x.col
  BY DEF Noted
<1>2. Sound(z)
  BY <1>1 DEF Sound, Divided
<1>3. Pre(z) = Pre(x) /\ Post(z) = Post(x)
  BY <1>1 DEF Pre, Post
<1>4. Text(z) = Text(x)
  BY <1>1 DEF Text, Lines
<1>5. row(z) = row(x)
  BY <1>1 DEF row
<1>6. QED
  BY <1>1, <1>2, <1>3, <1>4, <1>5

LEMMA StacksAre ==
  ASSUME NEW x \in Buffers, NEW rec
  PROVE  /\ Record(x, rec).undo = Take(Append(x.undo, rec), UndoCap) /\ Record(x, rec).redo = <<>>
         /\ ReplaceTop(x, rec).undo = Append(Front(x.undo), rec) /\ ReplaceTop(x, rec).redo = <<>>
         /\ Record(x, rec).kill = x.kill
  BY DEF Buffers, Record, ReplaceTop

LEMMA RecIs ==
  ASSUME NEW x, Sound(x), NEW op \in {"ins", "del"}, NEW r \in Nat, NEW c \in Nat, NEW s \in ByteTexts,
         NEW rec, rec = Rec(x, op, r, c, s)
  PROVE  /\ rec \in EditRecords /\ rec.op = op /\ rec.row = r /\ rec.col = c /\ rec.txt = s
         /\ rec.was = Text(x)
<1>1. rec \in EditRecords
  BY SoundFields, RecType
<1>2. QED
  BY <1>1 DEF Rec

(* What is inserted at the point is recorded there.                        *)
LEMMA InsertionOutcome ==
  ASSUME NEW x, UndoGood(x), NEW s \in ByteTexts, NEW y, At(y, Pre(x) \o s, Post(x)),
         y.undo = Record(x, Rec(x, "del", row(x), x.col, s)).undo, y.redo = <<>>
  PROVE  Outcome(x, y)
<1>1. Sound(x) /\ x \in Buffers
  BY GoodFields
<1>2. PICK p, q : p = Pre(x) /\ q = Post(x)
  OBVIOUS
<1>3. p \in ByteTexts /\ q \in ByteTexts /\ Text(x) = p \o q /\ Spot(p, row(x), x.col)
  BY <1>1, <1>2, TextSplits
<1>4. row(x) \in Nat /\ x.col \in Nat
  BY <1>3, SpotType
<1>5. PICK rec : rec = Rec(x, "del", row(x), x.col, s)
  OBVIOUS
<1>6. /\ rec \in EditRecords /\ rec.op = "del" /\ rec.row = row(x) /\ rec.col = x.col /\ rec.txt = s
      /\ rec.was = Text(x)
  BY <1>1, <1>4, <1>5, RecIs
<1>7. Sound(y) /\ Text(y) = (p \o s) \o q
  BY <1>2, TextSplits DEF At
<1>8. Takes(Text(y), rec)
  BY <1>3, <1>6, <1>7, InsertedTakes
<1>9. y.undo = Take(Append(x.undo, rec), UndoCap)
  BY <1>1, <1>5, StacksAre
<1>10. QED
  BY <1>6, <1>7, <1>8, <1>9, RecordedOutcome

LEMMA RecInsIs ==
  ASSUME NEW x, Sound(x), NEW r \in Nat, NEW c \in Nat, NEW s \in ByteTexts
  PROVE  \E rec : /\ rec = Rec(x, "ins", r, c, s) /\ rec \in EditRecords /\ rec.op = "ins" /\ rec.row = r
                  /\ rec.col = c /\ rec.txt = s /\ rec.was = Text(x)
<1>1. PICK rec : rec = Rec(x, "ins", r, c, s)
  OBVIOUS
<1>2. /\ rec \in EditRecords /\ rec.op = "ins" /\ rec.row = r /\ rec.col = c /\ rec.txt = s /\ rec.was = Text(x)
  BY <1>1, RecIs
<1>3. QED
  BY <1>1, <1>2

(* What is deleted after p is recorded where p ends.                       *)
Deletes(x, p, s, q, y) ==
  /\ p \in ByteTexts /\ s \in ByteTexts /\ q \in ByteTexts /\ Text(x) = p \o (s \o q)
  /\ Sound(y) /\ Text(y) = p \o q

DeletionOf(x, r, c, s, y) == y.undo = Record(x, Rec(x, "ins", r, c, s)).undo /\ y.redo = <<>>

LEMMA DeletionOutcome ==
  ASSUME NEW x, UndoGood(x), NEW p, NEW s, NEW q, NEW y, Deletes(x, p, s, q, y),
         NEW r, NEW c, Spot(p, r, c), DeletionOf(x, r, c, s, y)
  PROVE  Outcome(x, y)
<1>1. Sound(x) /\ x \in Buffers
  BY GoodFields
<1>2. r \in Nat /\ c \in Nat
  BY SpotType
<1>3. s \in ByteTexts
  BY DEF Deletes
<1>4. PICK rec : rec = Rec(x, "ins", r, c, s) /\ rec \in EditRecords /\ rec.op = "ins" /\ rec.row = r
                 /\ rec.col = c /\ rec.txt = s /\ rec.was = Text(x)
  BY <1>1, <1>2, <1>3, RecInsIs
<1>5. /\ rec.was = p \o (rec.txt \o q) /\ Spot(p, rec.row, rec.col) /\ p \in ByteTexts /\ q \in ByteTexts
      /\ Text(y) = p \o q /\ Sound(y)
  BY <1>4 DEF Deletes
<1>6. Takes(Text(y), rec)
  BY <1>4, <1>5, DeletedTakes
<1>7. y.undo = Take(Append(x.undo, rec), UndoCap) /\ y.redo = <<>>
  BY <1>1, <1>4, StacksAre DEF DeletionOf
<1>8. QED
  BY <1>4, <1>5, <1>6, <1>7, RecordedOutcome

LEMMA NewlineOutcome ==
  ASSUME NEW x, UndoGood(x)
  PROVE  Outcome(x, Newline(x))
<1>1. Sound(x) /\ x \in Buffers /\ WellFormed(x)
  BY GoodFields
<1>2. row(x) \in Nat /\ x.col \in Nat /\ Break \in ByteTexts
  BY <1>1, TextSplits, SpotType, TextFacts
<1>3. PICK rec : rec = Rec(x, "del", row(x), x.col, Break) /\ rec \in EditRecords
  BY <1>1, <1>2, RecIs
<1>4. PICK z : z = Record(x, rec) /\ Noted(x, z)
  BY <1>1, <1>3, RecordNotes
<1>5. Sound(z) /\ WellFormed(z) /\ Pre(z) = Pre(x) /\ Post(z) = Post(x)
  BY <1>1, <1>4, NotedPoint
<1>6. PICK y : y = RawNewline(z)
  OBVIOUS
<1>7. At(y, Pre(x) \o Break, Post(x))
  BY <1>5, <1>6, NewlinePoint DEF At
<1>8. y.undo = z.undo /\ y.redo = z.redo
  BY <1>5, <1>6, RawNewlineMarks DEF Marked, SameStacks
<1>9. y.undo = Record(x, Rec(x, "del", row(x), x.col, Break)).undo /\ y.redo = <<>>
  BY <1>1, <1>3, <1>4, <1>8, StacksAre
<1>10. Outcome(x, y)
  BY <1>2, <1>7, <1>9, InsertionOutcome
<1>11. y = Newline(x)
  BY <1>3, <1>4, <1>6 DEF Newline, Break
<1>12. QED
  BY <1>10, <1>11

(* The top record may be extended.                                         *)
LEMMA ExtendsIs ==
  ASSUME NEW x, UndoGood(x), NEW op, NEW r, Extends(x, op, r)
  PROVE  \E top : /\ top = Last(x.undo) /\ x.undo # <<>> /\ top \in EditRecords /\ top.op = op /\ top.row = r
                  /\ Takes(Text(x), top)
<1>1. PICK top : top = Last(x.undo) /\ x.undo # <<>> /\ top.op = op /\ top.row = r
  BY DEF Extends
<1>2. Takes(Text(x), top)
  BY <1>1, GoodFields, BackPop
<1>3. top \in EditRecords
  BY <1>2 DEF Takes
<1>4. QED
  BY <1>1, <1>2, <1>3

LEMMA InsertOutcome ==
  ASSUME NEW x, UndoGood(x), NEW s \in Plain
  PROVE  Outcome(x, Insert(x, s))
<1>1. Sound(x) /\ x \in Buffers /\ WellFormed(x)
  BY GoodFields
<1>2. row(x) \in Nat /\ x.col \in Nat /\ s \in ByteTexts
  BY <1>1, TextSplits, SpotType, PlainFacts
<1>3. ASSUME NEW z, Noted(x, z), NEW y, y = RawInsert(z, s)
      PROVE  At(y, Pre(x) \o s, Post(x)) /\ y.undo = z.undo /\ y.redo = z.redo
  <2>1. Sound(z) /\ WellFormed(z) /\ Pre(z) = Pre(x) /\ Post(z) = Post(x)
    BY <1>1, <1>3, NotedPoint
  <2>2. At(y, Pre(x) \o s, Post(x))
    BY <1>3, <2>1, InsertPoint DEF At
  <2>3. y.undo = z.undo /\ y.redo = z.redo
    BY <1>2, <1>3, <2>1, RawInsertMarks DEF Marked, SameStacks
  <2>4. QED
    BY <2>2, <2>3
<1>4. PICK u : u = Last(x.undo)
  OBVIOUS
<1>5. CASE Extends(x, "del", row(x)) /\ u.col + Len(u.txt) = x.col
  <2>1. /\ u \in EditRecords /\ u.op = "del" /\ u.row = row(x) /\ x.undo # <<>> /\ Takes(Text(x), u)
    BY <1>4, <1>5, ExtendsIs
  <2>2. u.txt \in ByteTexts /\ u.col \in Nat
    BY <2>1 DEF EditRecords
  <2>3. PICK p, q : /\ Around(Text(x), p, u.txt \o q) /\ Spot(p, row(x), u.col) /\ u.was = p \o q
                    /\ q \in ByteTexts
    BY <2>1, DelTaken
  <2>4. Around(Text(x), Pre(x), Post(x)) /\ Spot(Pre(x), row(x), x.col)
    BY <1>1, TextSplits DEF Around
  <2>5. p \o u.txt = Pre(x) /\ q = Post(x) /\ p \in ByteTexts
    <3>1. PICK w, m : w = u.txt /\ m = w \o q /\ w \in ByteTexts /\ m \in ByteTexts
      BY <2>2, <2>3, TextFacts
    <3>2. PICK a \in Nat : Len(p) = a + u.col /\ Len(Pre(x)) = a + x.col
      <4>1. Around(Text(x), p, m)
        BY <2>3, <3>1
      <4>2. QED
        BY <2>3, <2>4, <4>1, SpotDistance
    <3>3. p \in ByteTexts /\ Text(x) = p \o m
      BY <2>3, <3>1 DEF Around
    <3>4. (p \o w) \o q = p \o m
      <4>1. Associates(p, w, q)
        BY <2>3, <3>1, <3>3, Associated
      <4>2. QED
        BY <3>1, <4>1, Zenon DEF Associates
    <3>5. p \o w \in ByteTexts /\ Len(p \o w) = Len(p) + Len(w) /\ Len(w) \in Nat
      BY <3>1, <3>3, TextFacts
    <3>6. Len(p \o w) = Len(Pre(x))
      BY <1>2, <1>5, <2>2, <3>1, <3>2, <3>5, SMTT(20)
    <3>7. PICK k, n : k = Pre(x) /\ n = Post(x) /\ k \in ByteTexts /\ n \in ByteTexts /\ Text(x) = k \o n
      BY <2>4 DEF Around
    <3>8. PICK v : v = p \o w /\ v \in ByteTexts /\ v \o q = k \o n /\ Len(v) = Len(k)
      BY <3>3, <3>4, <3>5, <3>6, <3>7
    <3>9. v = k /\ q = n
      <4>1. v \in ByteTexts /\ q \in ByteTexts /\ k \in ByteTexts /\ n \in ByteTexts
        BY <2>3, <3>7, <3>8
      <4>2. v \o q = k \o n /\ Len(v) = Len(k)
        BY <3>8
      <4>3. QED
        BY <4>1, <4>2, SameLength
    <3>10. QED
      BY <3>1, <3>3, <3>7, <3>8, <3>9
  <2>6. PICK rec : rec = [u EXCEPT !.txt = u.txt \o s]
    OBVIOUS
  <2>7. /\ rec \in EditRecords /\ rec.op = "del" /\ rec.row = row(x) /\ rec.col = u.col /\ rec.was = u.was
        /\ rec.txt = u.txt \o s
    <3>1. u.txt \o s \in ByteTexts
      BY <1>2, <2>2, TextFacts
    <3>2. QED
      BY <2>1, <2>6, <3>1 DEF EditRecords
  <2>8. PICK z : z = ReplaceTop(x, rec) /\ Noted(x, z)
    BY <1>1, <2>1, <2>7, ReplaceTopNotes
  <2>9. PICK y : y = RawInsert(z, s) /\ At(y, Pre(x) \o s, Post(x)) /\ y.undo = z.undo /\ y.redo = z.redo
    BY <1>3, <2>8
  <2>10. y.undo = Append(Front(x.undo), rec) /\ y.redo = <<>>
    BY <1>1, <2>8, <2>9, StacksAre
  <2>11. Sound(y) /\ Text(y) = (Pre(x) \o s) \o Post(x)
    BY <2>9, TextSplits DEF At
  <2>12. Text(y) = (p \o rec.txt) \o q
    <3>1. (p \o u.txt) \o s = p \o (u.txt \o s)
      BY <1>2, <2>2, <2>5, TextAssoc
    <3>2. QED
      BY <2>5, <2>7, <2>11, <3>1
  <2>13. Takes(Text(y), rec)
    BY <2>3, <2>5, <2>7, <2>12, InsertedTakes
  <2>14. Outcome(x, y)
    BY <1>4, <2>1, <2>7, <2>10, <2>11, <2>13, MergedOutcome
  <2>15. y = Insert(x, s)
    BY <1>4, <1>5, <2>6, <2>8, <2>9 DEF Insert
  <2>16. QED
    BY <2>14, <2>15
<1>6. CASE ~(Extends(x, "del", row(x)) /\ u.col + Len(u.txt) = x.col)
  <2>1. PICK rec : rec = Rec(x, "del", row(x), x.col, s) /\ rec \in EditRecords
    BY <1>1, <1>2, RecIs
  <2>2. PICK z : z = Record(x, rec) /\ Noted(x, z)
    BY <1>1, <2>1, RecordNotes
  <2>3. PICK y : y = RawInsert(z, s) /\ At(y, Pre(x) \o s, Post(x)) /\ y.undo = z.undo /\ y.redo = z.redo
    BY <1>3, <2>2
  <2>4. y.undo = Record(x, Rec(x, "del", row(x), x.col, s)).undo /\ y.redo = <<>>
    BY <1>1, <2>1, <2>2, <2>3, StacksAre
  <2>5. Outcome(x, y)
    BY <1>2, <2>3, <2>4, InsertionOutcome
  <2>6. y = Insert(x, s)
    BY <1>4, <1>6, <2>1, <2>2, <2>3 DEF Insert
  <2>7. QED
    BY <2>5, <2>6
<1>7. QED
  BY <1>5, <1>6

(* A record that has been extended.                                        *)
Extended(rec, c, s, new) ==
  /\ new \in EditRecords /\ new.op = rec.op /\ new.row = rec.row /\ new.col = c /\ new.txt = s
  /\ new.was = rec.was

LEMMA MergeRec ==
  ASSUME NEW rec \in EditRecords, NEW s \in ByteTexts, NEW c \in Nat
  PROVE  /\ Extended(rec, c, s, [rec EXCEPT !.col = c, !.txt = s])
         /\ Extended(rec, rec.col, s, [rec EXCEPT !.txt = s])
<1>1. Extended(rec, c, s, [rec EXCEPT !.col = c, !.txt = s])
  BY DEF EditRecords, Extended
<1>2. Extended(rec, rec.col, s, [rec EXCEPT !.txt = s])
  BY DEF EditRecords, Extended
<1>3. QED
  BY <1>1, <1>2

(* The record that gives what deleting s after p took from the text.       *)
Restores(rec, p, s, q) == rec.was = p \o (s \o q) /\ rec.op = "ins" /\ Spot(p, rec.row, rec.col) /\ rec.txt = s

LEMMA RestoredTakes ==
  ASSUME NEW t, NEW p \in ByteTexts, NEW q \in ByteTexts, t = p \o q, NEW rec \in EditRecords, NEW s,
         Restores(rec, p, s, q)
  PROVE  Takes(t, rec)
  BY DeletedTakes DEF Restores

DeletionMerges(x, r, c, s, y) == y.undo = RecordDel(x, r, c, s).undo /\ y.redo = <<>>

LEMMA RecordDelOutcome ==
  ASSUME NEW x, UndoGood(x), NEW p, NEW s, NEW q, NEW y, Deletes(x, p, s, q, y), Len(s) = 1,
         NEW r, NEW c, Spot(p, r, c), DeletionMerges(x, r, c, s, y)
  PROVE  Outcome(x, y)
<1>1. Sound(x) /\ x \in Buffers
  BY GoodFields
<1>2. r \in Nat /\ c \in Nat
  BY SpotType
<1>3. /\ p \in ByteTexts /\ s \in ByteTexts /\ q \in ByteTexts /\ Text(x) = p \o (s \o q)
      /\ Sound(y) /\ Text(y) = p \o q
  BY DEF Deletes
<1>4. PICK u : u = Last(x.undo)
  OBVIOUS
<1>5. PICK m : m = s \o q /\ m \in ByteTexts /\ Around(Text(x), p, m)
  BY <1>3, TextFacts DEF Around
<1>6. CASE Extends(x, "ins", r) /\ c + 1 = u.col
  <2>1. /\ u \in EditRecords /\ u.op = "ins" /\ u.row = r /\ x.undo # <<>> /\ Takes(Text(x), u)
    BY <1>4, <1>6, ExtendsIs
  <2>2. PICK w : w = u.txt /\ w \in ByteTexts /\ u.col = c + 1
    BY <1>6, <2>1 DEF EditRecords
  <2>3. PICK k, n : Around(Text(x), k, n) /\ Spot(k, r, c + 1) /\ u.was = k \o (w \o n) /\ n \in ByteTexts
    BY <2>1, <2>2, InsTaken
  <2>4. k \in ByteTexts /\ Text(x) = k \o n
    BY <2>3 DEF Around
  <2>5. PICK a \in Nat : Len(p) = a + c /\ Len(k) = a + (c + 1)
    BY <1>5, <2>3, SpotDistance
  <2>6. PICK e : e = p \o s /\ e \in ByteTexts /\ Len(e) = Len(k) /\ e \o q = k \o n
    <3>1. p \o s \in ByteTexts /\ Len(p \o s) = Len(p) + Len(s)
      BY <1>3, TextFacts
    <3>2. Len(p \o s) = Len(k)
      BY <1>2, <2>5, <3>1
    <3>3. (p \o s) \o q = p \o (s \o q)
      BY <1>3, TextAssoc
    <3>4. QED
      BY <1>3, <2>4, <3>1, <3>2, <3>3
  <2>7. e = k /\ q = n
    <3>1. e \in ByteTexts /\ q \in ByteTexts /\ k \in ByteTexts /\ n \in ByteTexts
      BY <1>3, <2>3, <2>4, <2>6
    <3>2. e \o q = k \o n /\ Len(e) = Len(k)
      BY <2>6
    <3>3. QED
      BY <3>1, <3>2, SameLength
  <2>8. PICK f : f = s \o w /\ f \in ByteTexts
    BY <1>3, <2>2, TextFacts
  <2>9. u.was = p \o (f \o q)
    <3>1. u.was = (p \o s) \o (w \o q)
      BY <2>3, <2>6, <2>7
    <3>2. w \o q \in ByteTexts
      BY <1>3, <2>2, TextFacts
    <3>3. (p \o s) \o (w \o q) = p \o (s \o (w \o q))
      BY <1>3, <3>2, TextAssoc
    <3>4. s \o (w \o q) = (s \o w) \o q
      BY <1>3, <2>2, TextAssoc
    <3>5. QED
      BY <2>8, <3>1, <3>3, <3>4
  <2>10. PICK rec : rec = [u EXCEPT !.col = c, !.txt = f]
    OBVIOUS
  <2>11. rec \in EditRecords /\ rec.op = "ins" /\ rec.row = r /\ rec.col = c /\ rec.txt = f /\ rec.was = u.was
    <3>1. Extended(u, c, f, rec)
      BY <1>2, <2>1, <2>8, <2>10, MergeRec
    <3>2. QED
      BY <2>1, <3>1 DEF Extended
  <2>12. Restores(rec, p, f, q)
    BY <2>9, <2>11 DEF Restores
  <2>13. Takes(Text(y), rec)
    BY <1>3, <2>11, <2>12, RestoredTakes
  <2>14. RecordDel(x, r, c, s) = ReplaceTop(x, rec)
    BY <1>4, <1>6, <2>2, <2>8, <2>10 DEF RecordDel
  <2>15. y.undo = Append(Front(x.undo), rec) /\ y.redo = <<>>
    BY <1>1, <2>14, StacksAre DEF DeletionMerges
  <2>16. QED
    BY <1>3, <1>4, <2>1, <2>11, <2>13, <2>15, MergedOutcome
<1>7. CASE Extends(x, "ins", r) /\ c + 1 # u.col /\ c = u.col
  <2>1. /\ u \in EditRecords /\ u.op = "ins" /\ u.row = r /\ x.undo # <<>> /\ Takes(Text(x), u)
    BY <1>4, <1>7, ExtendsIs
  <2>2. PICK w : w = u.txt /\ w \in ByteTexts /\ u.col = c
    BY <1>7, <2>1 DEF EditRecords
  <2>3. PICK k, n : Around(Text(x), k, n) /\ Spot(k, r, c) /\ u.was = k \o (w \o n) /\ n \in ByteTexts
    BY <2>1, <2>2, InsTaken
  <2>4. p = k /\ m = n
    BY <1>5, <2>3, SpotOnce
  <2>5. PICK f : f = w \o s /\ f \in ByteTexts
    BY <1>3, <2>2, TextFacts
  <2>6. u.was = p \o (f \o q)
    <3>1. u.was = p \o (w \o (s \o q))
      BY <1>5, <2>3, <2>4
    <3>2. w \o (s \o q) = (w \o s) \o q
      BY <1>3, <2>2, TextAssoc
    <3>3. QED
      BY <2>5, <3>1, <3>2
  <2>7. PICK rec : rec = [u EXCEPT !.txt = f]
    OBVIOUS
  <2>8. rec \in EditRecords /\ rec.op = "ins" /\ rec.row = r /\ rec.col = c /\ rec.txt = f /\ rec.was = u.was
    <3>1. Extended(u, u.col, f, rec)
      BY <1>2, <2>1, <2>5, <2>7, MergeRec
    <3>2. QED
      BY <2>1, <2>2, <3>1 DEF Extended
  <2>9. Restores(rec, p, f, q)
    BY <2>6, <2>8 DEF Restores
  <2>10. Takes(Text(y), rec)
    BY <1>3, <2>8, <2>9, RestoredTakes
  <2>11. RecordDel(x, r, c, s) = ReplaceTop(x, rec)
    BY <1>4, <1>7, <2>2, <2>5, <2>7 DEF RecordDel
  <2>12. y.undo = Append(Front(x.undo), rec) /\ y.redo = <<>>
    BY <1>1, <2>11, StacksAre DEF DeletionMerges
  <2>13. QED
    BY <1>3, <1>4, <2>1, <2>8, <2>10, <2>12, MergedOutcome
<1>8. CASE ~(Extends(x, "ins", r) /\ c + 1 = u.col) /\ ~(Extends(x, "ins", r) /\ c = u.col)
  <2>1. RecordDel(x, r, c, s) = Record(x, Rec(x, "ins", r, c, s))
    BY <1>4, <1>8 DEF RecordDel
  <2>2. DeletionOf(x, r, c, s, y)
    BY <2>1 DEF DeletionOf, DeletionMerges
  <2>3. QED
    BY <2>2, DeletionOutcome
<1>9. QED
  BY <1>6, <1>7, <1>8

LEMMA SomethingBefore ==
  ASSUME NEW x, Sound(x), x.col > 0 \/ x.above # <<>>
  PROVE  Pre(x) # <<>>
<1>1. PICK p, a : /\ p = substring(x.cur, 0, x.col) /\ a = Ended(x.above) /\ p \in ByteTexts /\ a \in ByteTexts
                  /\ Len(p) = x.col /\ x.above \in Seq(Plain) /\ Pre(x) = a \o p
  BY SoundFields DEF Pre
<1>2. Len(Pre(x)) = Len(a) + Len(p) /\ Len(a) \in Nat /\ Len(p) \in Nat
  BY <1>1, TextFacts
<1>3. Len(a) > 0 \/ Len(p) > 0
  <2>1. CASE x.above # <<>>
    <3>1. PICK f, l : f \in Seq(Plain) /\ l \in Plain /\ f \o <<l>> = x.above
      <4>1. Front(x.above) \in Seq(Plain) /\ Last(x.above) \in Plain /\ Front(x.above) \o <<Last(x.above)>> = x.above
        BY <1>1, <2>1, FrontLast
      <4>2. QED
        BY <4>1
    <3>2. x.above = Append(f, l) /\ f \in Seq(ByteTexts) /\ l \in ByteTexts
      BY <3>1, AppendIsConcat, PlainFacts
    <3>3. a = Ended(f) \o (l \o Break) /\ Ended(f) \in ByteTexts
      BY <1>1, <3>2, EndedAppend
    <3>4. PICK w : w = l \o Break /\ w \in ByteTexts
      BY <3>2, TextFacts
    <3>5. Len(w) = Len(l) + Len(Break) /\ Len(l) \in Nat /\ Len(Break) = 1
      BY <3>2, <3>4, TextFacts DEF Break
    <3>6. Len(a) = Len(Ended(f)) + Len(w) /\ Len(Ended(f)) \in Nat
      BY <3>3, <3>4, TextFacts
    <3>7. QED
      BY <3>5, <3>6
  <2>2. QED
    BY <1>1, <2>1
<1>4. Len(Pre(x)) # 0
  BY <1>2, <1>3
<1>5. QED
  BY <1>4

LEMMA SomethingAfter ==
  ASSUME NEW x, Sound(x), x.col < Len(x.cur) \/ x.below # <<>>
  PROVE  Post(x) # <<>>
<1>1. PICK p, q, d : /\ p = substring(x.cur, 0, x.col) /\ q = substring(x.cur, x.col, Len(x.cur))
                     /\ d = Led(x.below) /\ p \in ByteTexts /\ q \in ByteTexts /\ d \in ByteTexts /\ p \o q = x.cur
                     /\ Len(p) = x.col /\ x.below \in Seq(ByteTexts) /\ Post(x) = q \o d
  BY SoundFields DEF Post
<1>2. Len(Post(x)) = Len(q) + Len(d) /\ Len(d) \in Nat /\ Len(q) \in Nat
  BY <1>1, TextFacts
<1>3. Len(d) > 0 \/ Len(q) > 0
  <2>1. CASE x.below # <<>>
    <3>1. PICK h, e : h \in ByteTexts /\ e \in Seq(ByteTexts) /\ <<h>> \o e = x.below
      <4>1. Head(x.below) \in ByteTexts /\ Tail(x.below) \in Seq(ByteTexts) /\ <<Head(x.below)>> \o Tail(x.below) = x.below
        BY <1>1, <2>1, HeadTail
      <4>2. QED
        BY <4>1
    <3>2. d = (Break \o h) \o Led(e) /\ Led(e) \in ByteTexts
      BY <1>1, <3>1, LedFirst, LinesAre
    <3>3. PICK w : w = Break \o h /\ w \in ByteTexts
      BY <3>1, TextFacts
    <3>4. Len(w) = Len(Break) + Len(h) /\ Len(h) \in Nat /\ Len(Break) = 1
      BY <3>1, <3>3, TextFacts DEF Break
    <3>5. Len(d) = Len(w) + Len(Led(e)) /\ Len(Led(e)) \in Nat
      BY <3>2, <3>3, TextFacts
    <3>6. PICK i \in Nat, j \in Nat : Len(d) = (1 + i) + j
      BY <3>4, <3>5
    <3>7. QED
      BY <3>6
  <2>2. CASE x.col < Len(x.cur)
    <3>1. Len(x.cur) = Len(p) + Len(q) /\ Len(p) \in Nat
      BY <1>1, TextFacts
    <3>2. QED
      BY <1>1, <1>2, <2>2, <3>1
  <2>3. QED
    BY <2>1, <2>2
<1>4. Len(Post(x)) # 0
  BY <1>2, <1>3
<1>5. QED
  BY <1>4

LEMMA BackspaceSpot ==
  ASSUME NEW x, Sound(x), NEW y, y = RawBackspace(x)
  PROVE  /\ y.undo = x.undo /\ y.redo = x.redo
         /\ x.col > 0 => row(y) = row(x) /\ y.col = x.col - 1
         /\ x.col = 0 /\ x.above # <<>> => row(y) = row(x) - 1 /\ y.col = Len(Last(x.above))
<1>1. x \in Buffers /\ WellFormed(x) /\ x.above \in Seq(Plain) /\ x.col \in Nat
  BY SoundFields
<1>2. y.undo = x.undo /\ y.redo = x.redo
  BY <1>1, RawBackspaceMarks DEF Marked, SameStacks
<1>3. ASSUME x.col > 0 PROVE row(y) = row(x) /\ y.col = x.col - 1
  <2>1. y.above = x.above /\ y.col = x.col - 1
    BY <1>1, <1>3 DEF RawBackspace, Edited, Buffers
  <2>2. QED
    BY <2>1 DEF row
<1>4. ASSUME x.col = 0, x.above # <<>> PROVE row(y) = row(x) - 1 /\ y.col = Len(Last(x.above))
  <2>1. y.above = Front(x.above) /\ y.col = Len(Last(x.above))
    BY <1>1, <1>4 DEF RawBackspace, Edited, Buffers
  <2>2. Len(Front(x.above)) = Len(x.above) - 1
    BY <1>1, <1>4, FrontLast
  <2>3. QED
    BY <2>1, <2>2 DEF row
<1>5. QED
  BY <1>2, <1>3, <1>4

LEMMA BackspaceOutcome ==
  ASSUME NEW x, UndoGood(x)
  PROVE  Outcome(x, Backspace(x))
<1>1. Sound(x) /\ x \in Buffers /\ WellFormed(x)
  BY GoodFields
<1>2. /\ x.col \in Nat /\ x.cur \in Plain /\ x.above \in Seq(Plain) /\ row(x) \in Nat /\ x.cur \in ByteTexts
      /\ x.col <= Len(x.cur) /\ Len(x.cur) \in Nat
  BY <1>1, SoundFields, SoundLines
<1>3. CASE x.col > 0
  <2>1. PICK s, c : s = <<x.cur[x.col]>> /\ c = x.col - 1
    OBVIOUS
  <2>2. x.col \in 1..Len(x.cur) /\ c \in Nat
    BY <1>2, <1>3, <2>1
  <2>3. s \in ByteTexts /\ Len(s) = 1 /\ s = substring(x.cur, c, x.col)
    <3>1. substring(x.cur, x.col - 1, x.col) = <<x.cur[x.col]>>
      BY <1>2, <2>2, CutsOf DEF Plain
    <3>2. x.cur[x.col] \in Nat
      BY <1>2, <2>2 DEF ByteTexts
    <3>3. QED
      BY <2>1, <3>1, <3>2 DEF ByteTexts
  <2>4. PICK z : z = RecordDel(x, row(x), c, s) /\ Noted(x, z)
    BY <1>1, <1>2, <2>2, <2>3, RecordDelNotes
  <2>5. Sound(z) /\ Pre(z) = Pre(x) /\ Post(z) = Post(x) /\ row(z) = row(x) /\ z.col = x.col /\ z.cur = x.cur
    BY <1>1, <2>4, NotedPoint
  <2>6. Pre(z) # <<>>
    BY <1>3, <2>5, SomethingBefore
  <2>7. PICK y : /\ y = RawBackspace(z) /\ Sound(y) /\ Post(y) = Post(z)
                 /\ Pre(z) = Pre(y) \o (IF z.col > 0 THEN <<z.cur[z.col]>> ELSE Break)
    BY <2>5, <2>6, BackspacePoint
  <2>8. Pre(x) = Pre(y) \o s
    BY <1>3, <2>1, <2>5, <2>7
  <2>9. y.undo = z.undo /\ y.redo = z.redo /\ row(y) = row(x) /\ y.col = c
    BY <1>3, <2>1, <2>5, <2>7, BackspaceSpot
  <2>10. PICK p, q : p = Pre(y) /\ q = Post(x) /\ p \in ByteTexts /\ q \in ByteTexts /\ Text(y) = p \o q
    BY <1>1, <2>5, <2>7, TextSplits
  <2>11. Spot(p, row(x), c)
    BY <2>7, <2>9, <2>10, TextSplits
  <2>12. Text(x) = p \o (s \o q)
    <3>1. Text(x) = (p \o s) \o q
      BY <1>1, <2>8, <2>10, TextSplits
    <3>2. (p \o s) \o q = p \o (s \o q)
      <4>1. Associates(p, s, q)
        BY <2>3, <2>10, Associated
      <4>2. QED
        BY <4>1, Zenon DEF Associates
    <3>3. QED
      BY <3>1, <3>2
  <2>13. Deletes(x, p, s, q, y)
    BY <2>3, <2>7, <2>10, <2>12 DEF Deletes
  <2>14. y.redo = <<>>
    BY <1>1, <2>4, <2>9, StacksAre DEF RecordDel
  <2>15. DeletionMerges(x, row(x), c, s, y)
    BY <2>4, <2>9, <2>14 DEF DeletionMerges
  <2>16. Outcome(x, y)
    BY <2>3, <2>11, <2>13, <2>15, RecordDelOutcome
  <2>17. y = Backspace(x)
    BY <1>3, <2>1, <2>3, <2>4, <2>7 DEF Backspace
  <2>18. QED
    BY <2>16, <2>17
<1>4. CASE x.col = 0 /\ x.above # <<>>
  <2>1. PICK r, c : r = row(x) - 1 /\ c = Len(Last(x.above)) /\ r \in Nat /\ c \in Nat
    <3>1. Last(x.above) \in Plain /\ Len(x.above) \in Nat \ {0}
      BY <1>2, <1>4, FrontLast
    <3>2. Len(Last(x.above)) \in Nat /\ row(x) - 1 \in Nat
      BY <3>1, PlainFacts DEF row
    <3>3. QED
      BY <3>2
  <2>2. Break \in ByteTexts
    BY TextFacts
  <2>3. PICK rec : rec = Rec(x, "ins", r, c, Break) /\ rec \in EditRecords
    BY <1>1, <2>1, <2>2, RecInsIs
  <2>4. PICK z : z = Record(x, rec) /\ Noted(x, z)
    BY <1>1, <2>3, RecordNotes
  <2>5. /\ Sound(z) /\ Pre(z) = Pre(x) /\ Post(z) = Post(x) /\ row(z) = row(x) /\ z.col = x.col /\ z.cur = x.cur
        /\ z.above = x.above
    BY <1>1, <2>4, NotedPoint
  <2>6. Pre(z) # <<>>
    BY <1>4, <2>5, SomethingBefore
  <2>7. PICK y : /\ y = RawBackspace(z) /\ Sound(y) /\ Post(y) = Post(z)
                 /\ Pre(z) = Pre(y) \o (IF z.col > 0 THEN <<z.cur[z.col]>> ELSE Break)
    BY <2>5, <2>6, BackspacePoint
  <2>8. Pre(x) = Pre(y) \o Break
    BY <1>4, <2>5, <2>7
  <2>9. y.undo = z.undo /\ y.redo = z.redo /\ row(y) = r /\ y.col = c
    BY <1>4, <2>1, <2>5, <2>7, BackspaceSpot
  <2>10. PICK p, q : p = Pre(y) /\ q = Post(x) /\ p \in ByteTexts /\ q \in ByteTexts /\ Text(y) = p \o q
    BY <1>1, <2>5, <2>7, TextSplits
  <2>11. Spot(p, r, c)
    BY <2>7, <2>9, <2>10, TextSplits
  <2>12. Text(x) = p \o (Break \o q)
    <3>1. Text(x) = (p \o Break) \o q
      BY <1>1, <2>8, <2>10, TextSplits
    <3>2. (p \o Break) \o q = p \o (Break \o q)
      <4>1. Associates(p, Break, q)
        BY <2>2, <2>10, Associated
      <4>2. QED
        BY <4>1, Zenon DEF Associates
    <3>3. QED
      BY <3>1, <3>2
  <2>13. Deletes(x, p, Break, q, y)
    BY <2>2, <2>7, <2>10, <2>12 DEF Deletes
  <2>14. DeletionOf(x, r, c, Break, y)
    BY <1>1, <2>3, <2>4, <2>9, StacksAre DEF DeletionOf
  <2>15. Outcome(x, y)
    BY <2>11, <2>13, <2>14, DeletionOutcome
  <2>16. y = Backspace(x)
    BY <1>2, <1>4, <2>1, <2>3, <2>4, <2>7 DEF Backspace, Break
  <2>17. QED
    BY <2>15, <2>16
<1>5. CASE x.col = 0 /\ x.above = <<>>
  <2>1. Backspace(x) = x
    BY <1>5 DEF Backspace
  <2>2. Quiet(x, x)
    BY DEF Quiet
  <2>3. QED
    BY <1>1, <2>1, <2>2, QuietOutcome
<1>6. QED
  BY <1>2, <1>3, <1>4, <1>5

LEMMA DeleteOutcome ==
  ASSUME NEW x, UndoGood(x)
  PROVE  Outcome(x, Delete(x))
<1>1. Sound(x) /\ x \in Buffers /\ WellFormed(x)
  BY GoodFields
<1>2. /\ x.col \in Nat /\ x.cur \in Plain /\ row(x) \in Nat /\ x.cur \in ByteTexts
      /\ x.col <= Len(x.cur) /\ Len(x.cur) \in Nat /\ Spot(Pre(x), row(x), x.col)
  BY <1>1, SoundFields, SoundLines, TextSplits
<1>3. ASSUME NEW z, Noted(x, z), x.col < Len(x.cur) \/ x.below # <<>>,
             NEW s, s = IF x.col < Len(x.cur) THEN <<x.cur[x.col + 1]>> ELSE Break, s \in ByteTexts,
             NEW y, y = RawDelete(z)
      PROVE  Deletes(x, Pre(x), s, Post(y), y) /\ y.undo = z.undo /\ y.redo = z.redo
  <2>1. /\ Sound(z) /\ WellFormed(z) /\ Pre(z) = Pre(x) /\ Post(z) = Post(x) /\ z.col = x.col /\ z.cur = x.cur
        /\ z.below = x.below
    BY <1>1, <1>3, NotedPoint
  <2>2. Post(z) # <<>>
    BY <1>3, <2>1, SomethingAfter
  <2>3. /\ Sound(y) /\ Pre(y) = Pre(z)
        /\ Post(z) = (IF z.col < Len(z.cur) THEN <<z.cur[z.col + 1]>> ELSE Break) \o Post(y)
    BY <1>3, <2>1, <2>2, DeletePoint
  <2>4. y.undo = z.undo /\ y.redo = z.redo
    BY <1>3, <2>1, RawDeleteMarks DEF Marked, SameStacks
  <2>5. Post(x) = s \o Post(y)
    BY <1>3, <2>1, <2>3
  <2>6. Text(x) = Pre(x) \o Post(x) /\ Pre(x) \in ByteTexts
    BY <1>1, TextSplits
  <2>7. Text(y) = Pre(y) \o Post(y) /\ Post(y) \in ByteTexts
    BY <2>3, TextSplits
  <2>8. Deletes(x, Pre(x), s, Post(y), y)
    BY <1>3, <2>1, <2>3, <2>5, <2>6, <2>7 DEF Deletes
  <2>9. QED
    BY <2>4, <2>8
<1>4. CASE x.col < Len(x.cur)
  <2>1. PICK s : s = <<x.cur[x.col + 1]>>
    OBVIOUS
  <2>2. PICK k : k = x.col + 1 /\ k \in 1..Len(x.cur) /\ k - 1 = x.col
    BY <1>2, <1>4
  <2>3. s \in ByteTexts /\ Len(s) = 1 /\ s = substring(x.cur, x.col, x.col + 1)
    <3>1. substring(x.cur, k - 1, k) = <<x.cur[k]>>
      BY <1>2, <2>2, CutsOf DEF Plain
    <3>2. x.cur[k] \in Nat
      BY <1>2, <2>2 DEF ByteTexts
    <3>3. QED
      BY <2>1, <2>2, <3>1, <3>2 DEF ByteTexts
  <2>4. PICK z : z = RecordDel(x, row(x), x.col, s) /\ Noted(x, z)
    BY <1>1, <1>2, <2>3, RecordDelNotes
  <2>5. PICK y : y = RawDelete(z)
    OBVIOUS
  <2>6. s = IF x.col < Len(x.cur) THEN <<x.cur[x.col + 1]>> ELSE Break
    BY <1>4, <2>1
  <2>7. Deletes(x, Pre(x), s, Post(y), y) /\ y.undo = z.undo /\ y.redo = z.redo
    BY <1>3, <1>4, <2>3, <2>4, <2>5, <2>6
  <2>8. y.redo = <<>>
    BY <1>1, <2>4, <2>7, StacksAre DEF RecordDel
  <2>9. DeletionMerges(x, row(x), x.col, s, y)
    BY <2>4, <2>7, <2>8 DEF DeletionMerges
  <2>10. Outcome(x, y)
    BY <1>2, <2>3, <2>7, <2>9, RecordDelOutcome
  <2>11. y = Delete(x)
    BY <1>4, <2>3, <2>4, <2>5 DEF Delete
  <2>12. QED
    BY <2>10, <2>11
<1>5. CASE ~(x.col < Len(x.cur)) /\ x.below # <<>>
  <2>1. Break \in ByteTexts
    BY TextFacts
  <2>2. PICK rec : rec = Rec(x, "ins", row(x), x.col, Break) /\ rec \in EditRecords
    BY <1>1, <1>2, <2>1, RecInsIs
  <2>3. PICK z : z = Record(x, rec) /\ Noted(x, z)
    BY <1>1, <2>2, RecordNotes
  <2>4. PICK y : y = RawDelete(z)
    OBVIOUS
  <2>5. Deletes(x, Pre(x), Break, Post(y), y) /\ y.undo = z.undo /\ y.redo = z.redo
    BY <1>3, <1>5, <2>1, <2>3, <2>4
  <2>6. DeletionOf(x, row(x), x.col, Break, y)
    BY <1>1, <2>2, <2>3, <2>5, StacksAre DEF DeletionOf
  <2>7. Outcome(x, y)
    BY <1>2, <2>5, <2>6, DeletionOutcome
  <2>8. y = Delete(x)
    BY <1>5, <2>2, <2>3, <2>4 DEF Delete, Break
  <2>9. QED
    BY <2>7, <2>8
<1>6. CASE ~(x.col < Len(x.cur)) /\ x.below = <<>>
  <2>1. Delete(x) = x
    BY <1>6 DEF Delete
  <2>2. Quiet(x, x)
    BY DEF Quiet
  <2>3. QED
    BY <1>1, <2>1, <2>2, QuietOutcome
<1>7. QED
  BY <1>4, <1>5, <1>6

(* What follows the point is deleted and can be yanked.                    *)
LEMMA KillingOutcome ==
  ASSUME NEW x, UndoGood(x), NEW s \in ByteTexts, NEW q \in ByteTexts, Post(x) = s \o q
  PROVE  Outcome(x, RawDeleteForward(Record(KillPush(x, s), Rec(x, "ins", row(x), x.col, s)), Len(s)))
<1>1. Sound(x) /\ x \in Buffers /\ WellFormed(x)
  BY GoodFields
<1>2. /\ x.col \in Nat /\ row(x) \in Nat /\ Spot(Pre(x), row(x), x.col) /\ Pre(x) \in ByteTexts
      /\ Text(x) = Pre(x) \o Post(x)
  BY <1>1, SoundFields, SoundLines, TextSplits
<1>3. PICK rec : rec = Rec(x, "ins", row(x), x.col, s) /\ rec \in EditRecords
  BY <1>1, <1>2, RecInsIs
<1>4. PICK w : w = KillPush(x, s) /\ Noted(x, w)
  BY <1>1, KillPushNotes
<1>5. w.undo = x.undo /\ w \in Buffers /\ WellFormed(w)
  BY <1>1, <1>4 DEF KillPush, Noted, WellFormed, Buffers
<1>6. PICK z : z = Record(w, rec) /\ Noted(w, z)
  BY <1>3, <1>5, RecordNotes
<1>7. Noted(x, z)
  BY <1>4, <1>6, NotedTwice
<1>8. Sound(z) /\ WellFormed(z) /\ Pre(z) = Pre(x) /\ Post(z) = s \o q
  BY <1>1, <1>7, NotedPoint
<1>9. z.undo = Record(x, rec).undo /\ z.redo = <<>>
  BY <1>1, <1>5, <1>6, StacksAre
<1>10. PICK y : y = RawDeleteForward(z, Len(s))
  OBVIOUS
<1>11. At(y, Pre(x), q)
  BY <1>8, <1>10, DeleteForwardPoint
<1>12. y.undo = z.undo /\ y.redo = z.redo
  <2>1. Len(s) \in Nat
    BY TextFacts
  <2>2. QED
    BY <1>8, <1>10, <2>1, DeleteForwardTouches DEF Touched, SameStacks
<1>13. Deletes(x, Pre(x), s, q, y)
  <2>1. Sound(y) /\ Text(y) = Pre(x) \o q
    BY <1>11, TextSplits DEF At
  <2>2. QED
    BY <1>2, <2>1 DEF Deletes
<1>14. DeletionOf(x, row(x), x.col, s, y)
  BY <1>3, <1>9, <1>12 DEF DeletionOf
<1>15. Outcome(x, y)
  BY <1>2, <1>13, <1>14, DeletionOutcome
<1>16. QED
  BY <1>3, <1>4, <1>6, <1>10, <1>15

LEMMA KillLineOutcome ==
  ASSUME NEW x, UndoGood(x)
  PROVE  Outcome(x, KillLine(x))
<1>1. Sound(x)
  BY GoodFields
<1>2. PICK p, q, d : /\ p = substring(x.cur, 0, x.col) /\ q = substring(x.cur, x.col, Len(x.cur))
                     /\ d = Led(x.below) /\ p \in ByteTexts /\ q \in ByteTexts /\ d \in ByteTexts
                     /\ p \o q = x.cur /\ Len(p) = x.col /\ x.below \in Seq(ByteTexts) /\ Post(x) = q \o d
                     /\ x.col \in Nat /\ x.col <= Len(x.cur) /\ Len(x.cur) \in Nat
  BY <1>1, SoundFields DEF Post
<1>3. CASE x.col < Len(x.cur)
  <2>1. Outcome(x, RawDeleteForward(Record(KillPush(x, q), Rec(x, "ins", row(x), x.col, q)), Len(q)))
    BY <1>2, KillingOutcome
  <2>2. KillLine(x) = RawDeleteForward(Record(KillPush(x, q), Rec(x, "ins", row(x), x.col, q)), Len(q))
    BY <1>2, <1>3 DEF KillLine
  <2>3. QED
    BY <2>1, <2>2
<1>4. CASE ~(x.col < Len(x.cur)) /\ x.below # <<>>
  <2>1. q = <<>>
    <3>1. Len(x.cur) = Len(p) + Len(q) /\ Len(q) \in Nat
      <4>1. p \in ByteTexts /\ q \in ByteTexts /\ p \o q = x.cur
        BY <1>2
      <4>2. Len(p \o q) = Len(p) + Len(q) /\ Len(q) \in Nat
        BY <4>1, TextFacts
      <4>3. QED
        BY <4>1, <4>2, Zenon
    <3>2. Len(q) = 0
      BY <1>2, <1>4, <3>1
    <3>3. QED
      BY <1>2, <3>2, EmptySeq DEF ByteTexts
  <2>2. Post(x) = d
    BY <1>2, <2>1, TextFacts
  <2>3. PICK h, e : h \in ByteTexts /\ e \in Seq(ByteTexts) /\ <<h>> \o e = x.below
    <3>1. Head(x.below) \in ByteTexts /\ Tail(x.below) \in Seq(ByteTexts) /\ <<Head(x.below)>> \o Tail(x.below) = x.below
      BY <1>2, <1>4, HeadTail
    <3>2. QED
      BY <3>1
  <2>4. PICK m : m = h \o Led(e) /\ m \in ByteTexts /\ d = Break \o m /\ Break \in ByteTexts
    <3>1. d = (Break \o h) \o Led(e) /\ Led(e) \in ByteTexts
      BY <1>2, <2>3, LedFirst, LinesAre
    <3>2. h \o Led(e) \in ByteTexts /\ Break \in ByteTexts
      BY <2>3, <3>1, TextFacts
    <3>3. (Break \o h) \o Led(e) = Break \o (h \o Led(e))
      BY <2>3, <3>1, <3>2, TextAssoc
    <3>4. QED
      BY <3>1, <3>2, <3>3
  <2>5. Outcome(x, RawDeleteForward(Record(KillPush(x, Break), Rec(x, "ins", row(x), x.col, Break)), Len(Break)))
    BY <2>2, <2>4, KillingOutcome
  <2>6. KillLine(x)
          = RawDeleteForward(Record(KillPush(x, Break), Rec(x, "ins", row(x), x.col, Break)), Len(Break))
    BY <1>4 DEF KillLine, Break
  <2>7. QED
    BY <2>5, <2>6
<1>5. CASE ~(x.col < Len(x.cur)) /\ x.below = <<>>
  <2>1. KillLine(x) = x
    BY <1>5 DEF KillLine
  <2>2. Quiet(x, x)
    BY DEF Quiet
  <2>3. QED
    BY <1>1, <2>1, <2>2, QuietOutcome
<1>6. QED
  BY <1>3, <1>4, <1>5

LEMMA YankOutcome ==
  ASSUME NEW x, UndoGood(x)
  PROVE  Outcome(x, Yank(x))
<1>1. Sound(x) /\ x \in Buffers /\ WellFormed(x)
  BY GoodFields
<1>2. x.kill \in Seq(ByteTexts) /\ row(x) \in Nat /\ x.col \in Nat /\ x.mark \in {NoMark} \cup (Nat \X Nat)
  BY <1>1, BufferFields, SoundLines
<1>3. CASE x.kill = <<>>
  <2>1. Yank(x) = x
    BY <1>3 DEF Yank
  <2>2. Quiet(x, x)
    BY DEF Quiet
  <2>3. QED
    BY <1>1, <2>1, <2>2, QuietOutcome
<1>4. CASE x.kill # <<>>
  <2>1. PICK s : s = Last(x.kill) /\ s \in ByteTexts
    BY <1>2, <1>4, FrontLast
  <2>2. PICK rec : rec = Rec(x, "del", row(x), x.col, s) /\ rec \in EditRecords
    BY <1>1, <1>2, <2>1, RecIs
  <2>3. PICK w : w = Record(x, rec) /\ Noted(x, w)
    BY <1>1, <2>2, RecordNotes
  <2>4. WellFormed(w) /\ w \in Buffers
    BY <2>3 DEF Noted, WellFormed
  <2>5. PICK m : m = <<row(x), x.col>> /\ m \in {NoMark} \cup (Nat \X Nat)
    BY <1>1, PointIsAMark
  <2>6. PICK z : z = [w EXCEPT !.mark = m]
    OBVIOUS
  <2>7. Noted(w, z) /\ z.undo = w.undo /\ z.redo = w.redo
    <3>1. Noted(w, z)
      BY <2>4, <2>5, <2>6, MarkSetNotes
    <3>2. z.undo = w.undo /\ z.redo = w.redo
      BY <2>4, <2>6 DEF Buffers
    <3>3. QED
      BY <3>1, <3>2
  <2>8. Noted(x, z)
    BY <2>3, <2>7, NotedTwice
  <2>9. Sound(z) /\ WellFormed(z) /\ Pre(z) = Pre(x) /\ Post(z) = Post(x)
    BY <1>1, <2>8, NotedPoint
  <2>10. PICK y : y = RawInsertString(z, s)
    OBVIOUS
  <2>11. At(y, Pre(x) \o s, Post(x))
    <3>1. At(y, Pre(z) \o s, Post(z))
      BY <2>1, <2>9, <2>10, InsertStringPoint
    <3>2. QED
      BY <2>9, <3>1
  <2>12. y.undo = z.undo /\ y.redo = z.redo
    BY <2>1, <2>9, <2>10, InsertStringMarks DEF Marked, SameStacks
  <2>13. y.undo = Record(x, Rec(x, "del", row(x), x.col, s)).undo /\ y.redo = <<>>
    BY <1>1, <2>2, <2>3, <2>7, <2>12, StacksAre
  <2>14. Outcome(x, y)
    BY <2>1, <2>11, <2>13, InsertionOutcome
  <2>15. y = Yank(x)
    BY <1>4, <2>1, <2>2, <2>3, <2>5, <2>6, <2>10 DEF Yank
  <2>16. QED
    BY <2>14, <2>15
<1>5. QED
  BY <1>3, <1>4

(* A record that is applied gives the text that it remembers.              *)
LEMMA ApplyGives ==
  ASSUME NEW x, Sound(x), NEW rec, Takes(Text(x), rec), NEW y, y = Apply(x, rec)
  PROVE  Sound(y) /\ Text(y) = rec.was /\ y.undo = x.undo /\ y.redo = x.redo
<1>1. rec \in EditRecords /\ rec.txt \in ByteTexts /\ rec.row \in Nat /\ rec.col \in Nat /\ rec.op \in {"ins", "del"}
  BY DEF Takes, EditRecords
<1>2. PICK s : s = rec.txt /\ s \in ByteTexts
  BY <1>1
<1>3. PICK z : z = Goto(x, rec.row, rec.col) /\ Sound(z) /\ z.undo = x.undo /\ z.redo = x.redo
  <2>1. PICK r \in Nat, c \in Nat : r = rec.row /\ c = rec.col
    BY <1>1
  <2>2. Sound(Goto(x, r, c)) /\ Goto(x, r, c).undo = x.undo /\ Goto(x, r, c).redo = x.redo
    BY GotoSound
  <2>3. QED
    BY <2>1, <2>2
<1>4. WellFormed(z)
  BY <1>3 DEF Sound
<1>5. CASE rec.op = "ins"
  <2>1. PICK p, q : Around(Text(x), p, q) /\ Spot(p, rec.row, rec.col) /\ rec.was = p \o (s \o q) /\ q \in ByteTexts
    BY <1>2, <1>5, InsTaken
  <2>2. At(z, p, q)
    BY <1>3, <2>1, GotoAt
  <2>3. y = RawInsertString(z, s)
    BY <1>2, <1>3, <1>5 DEF Apply
  <2>4. At(y, p \o s, q)
    <3>1. At(y, Pre(z) \o s, Post(z))
      BY <1>2, <1>3, <2>3, InsertStringPoint
    <3>2. QED
      BY <2>2, <3>1 DEF At
  <2>5. Sound(y) /\ Text(y) = (p \o s) \o q
    BY <2>4, TextSplits DEF At
  <2>6. (p \o s) \o q = p \o (s \o q)
    <3>1. p \in ByteTexts
      BY <2>1 DEF Around
    <3>2. QED
      BY <1>2, <2>1, <3>1, TextAssoc
  <2>7. y.undo = z.undo /\ y.redo = z.redo
    BY <1>2, <1>4, <2>3, InsertStringMarks DEF Marked, SameStacks
  <2>8. QED
    BY <1>3, <2>1, <2>5, <2>6, <2>7
<1>6. CASE rec.op = "del"
  <2>1. PICK p, q : Around(Text(x), p, s \o q) /\ Spot(p, rec.row, rec.col) /\ rec.was = p \o q /\ q \in ByteTexts
    BY <1>2, <1>6, DelTaken
  <2>2. At(z, p, s \o q)
    BY <1>3, <2>1, GotoAt
  <2>3. y = RawDeleteForward(z, Len(s))
    BY <1>2, <1>3, <1>6 DEF Apply
  <2>4. At(y, p, q)
    <3>1. Post(z) = s \o q /\ Pre(z) = p
      BY <2>2 DEF At
    <3>2. At(y, Pre(z), q)
      BY <1>2, <1>3, <2>1, <2>3, <3>1, DeleteForwardPoint
    <3>3. QED
      BY <3>1, <3>2
  <2>5. Sound(y) /\ Text(y) = p \o q
    BY <2>4, TextSplits DEF At
  <2>6. y.undo = z.undo /\ y.redo = z.redo
    <3>1. Len(s) \in Nat
      BY <1>2, TextFacts
    <3>2. QED
      BY <1>4, <2>3, <3>1, DeleteForwardTouches DEF Touched, SameStacks
  <2>7. QED
    BY <1>3, <2>1, <2>5, <2>6
<1>7. QED
  BY <1>1, <1>5, <1>6

(* The inverse that is kept gives the text back.                           *)
LEMMA OppositeTakes ==
  ASSUME NEW x, Sound(x), NEW rec, Takes(Text(x), rec), NEW op, op = Opposite(x, rec)
  PROVE  Takes(rec.was, op) /\ op.was = Text(x)
<1>1. rec \in EditRecords /\ rec.op \in {"ins", "del"}
  BY DEF Takes, EditRecords
<1>2. op \in EditRecords
  BY <1>1, SoundFields, OppositeType
<1>3. /\ op.row = rec.row /\ op.col = rec.col /\ op.txt = rec.txt /\ op.was = Text(x)
      /\ op.op = IF rec.op = "ins" THEN "del" ELSE "ins"
  BY <1>1 DEF Opposite, EditRecords
<1>4. PICK p \in ByteTexts, q \in ByteTexts : Spot(p, rec.row, rec.col) /\ Undone(Text(x), rec, p, q)
  BY DEF Takes
<1>5. Undone(rec.was, op, p, q)
  BY <1>1, <1>3, <1>4 DEF Undone
<1>6. Spot(p, op.row, op.col)
  BY <1>3, <1>4
<1>7. QED
  BY <1>2, <1>3, <1>4, <1>5, <1>6 DEF Takes

(* The stacks may be set before.                                           *)
Applied(z, rec, y) == Sound(y) /\ Text(y) = rec.was /\ y.undo = z.undo /\ y.redo = z.redo

LEMMA ApplyAfter ==
  ASSUME NEW x, Sound(x), NEW z, Noted(x, z), NEW rec, Takes(Text(x), rec)
  PROVE  Applied(z, rec, Apply(z, rec))
<1>1. Sound(z) /\ Text(z) = Text(x)
  BY NotedPoint
<1>2. PICK y : y = Apply(z, rec)
  OBVIOUS
<1>3. Sound(y) /\ Text(y) = rec.was /\ y.undo = z.undo /\ y.redo = z.redo
  BY <1>1, <1>2, ApplyGives
<1>4. QED
  BY <1>2, <1>3 DEF Applied

LEMMA UndoOutcome ==
  ASSUME NEW x, UndoGood(x)
  PROVE  Outcome(x, Undo(x))
<1>1. /\ Sound(x) /\ x \in Buffers /\ WellFormed(x) /\ Back(Text(x), x.undo) /\ Back(Text(x), x.redo)
      /\ x.undo \in Seq(EditRecords) /\ x.redo \in Seq(EditRecords)
  BY GoodFields
<1>2. CASE x.undo = <<>>
  <2>1. Undo(x) = x
    BY <1>2 DEF Undo
  <2>2. Quiet(x, x)
    BY DEF Quiet
  <2>3. QED
    BY <1>1, <2>1, <2>2, QuietOutcome
<1>3. CASE x.undo # <<>>
  <2>1. PICK rec : rec = Last(x.undo) /\ Takes(Text(x), rec) /\ Back(rec.was, Front(x.undo))
    BY <1>1, <1>3, BackPop
  <2>2. PICK op : op = Opposite(x, rec) /\ Takes(rec.was, op) /\ op.was = Text(x) /\ op \in EditRecords
    <3>1. Takes(rec.was, Opposite(x, rec)) /\ Opposite(x, rec).was = Text(x)
      BY <1>1, <2>1, OppositeTakes
    <3>2. QED
      BY <3>1 DEF Takes
  <2>3. PICK u, r : u = Front(x.undo) /\ r = Append(x.redo, op)
    OBVIOUS
  <2>4. u \in Seq(EditRecords) /\ r \in Seq(EditRecords) /\ Len(u) + Len(r) <= UndoCap
    <3>1. Len(x.undo) + Len(x.redo) <= UndoCap
      BY <1>1 DEF WellFormed
    <3>2. QED
      BY <1>1, <1>3, <2>1, <2>2, <2>3, <3>1, PopPush
  <2>5. PICK z : z = [x EXCEPT !.undo = u, !.redo = r] /\ Noted(x, z)
    BY <1>1, <2>4, StacksSet
  <2>6. z.undo = u /\ z.redo = r
    BY <1>1, <2>5 DEF Buffers
  <2>7. PICK y : y = Apply(z, rec)
    OBVIOUS
  <2>8. Sound(y) /\ Text(y) = rec.was /\ y.undo = u /\ y.redo = r
    <3>1. Applied(z, rec, Apply(z, rec))
      BY <1>1, <2>1, <2>5, ApplyAfter
    <3>2. QED
      BY <2>6, <2>7, <3>1 DEF Applied
  <2>9. Back(rec.was, r)
    BY <1>1, <2>2, <2>3, BackPush
  <2>10. UndoGood(y)
    BY <2>1, <2>3, <2>8, <2>9 DEF UndoGood
  <2>11. WasBefore(x.undo) # <<>> /\ Last(WasBefore(x.undo)) = rec.was /\ Front(WasBefore(x.undo)) = WasBefore(u)
    BY <1>1, <1>3, <2>1, <2>3, RememberPop
  <2>12. WasBefore(r) = Append(WasBefore(x.redo), Text(x))
    BY <1>1, <2>2, <2>3, RememberPush
  <2>13. Undoes(x, y)
    BY <2>8, <2>11, <2>12 DEF Undoes
  <2>14. y = Undo(x)
    BY <1>3, <2>1, <2>2, <2>3, <2>5, <2>7 DEF Undo
  <2>15. QED
    BY <2>10, <2>13, <2>14 DEF Outcome
<1>4. QED
  BY <1>2, <1>3

LEMMA RedoOutcome ==
  ASSUME NEW x, UndoGood(x)
  PROVE  Outcome(x, Redo(x))
<1>1. /\ Sound(x) /\ x \in Buffers /\ WellFormed(x) /\ Back(Text(x), x.undo) /\ Back(Text(x), x.redo)
      /\ x.undo \in Seq(EditRecords) /\ x.redo \in Seq(EditRecords)
  BY GoodFields
<1>2. CASE x.redo = <<>>
  <2>1. Redo(x) = x
    BY <1>2 DEF Redo
  <2>2. Quiet(x, x)
    BY DEF Quiet
  <2>3. QED
    BY <1>1, <2>1, <2>2, QuietOutcome
<1>3. CASE x.redo # <<>>
  <2>1. PICK rec : rec = Last(x.redo) /\ Takes(Text(x), rec) /\ Back(rec.was, Front(x.redo))
    BY <1>1, <1>3, BackPop
  <2>2. PICK op : op = Opposite(x, rec) /\ Takes(rec.was, op) /\ op.was = Text(x) /\ op \in EditRecords
    <3>1. Takes(rec.was, Opposite(x, rec)) /\ Opposite(x, rec).was = Text(x)
      BY <1>1, <2>1, OppositeTakes
    <3>2. QED
      BY <3>1 DEF Takes
  <2>3. PICK u, r : r = Front(x.redo) /\ u = Append(x.undo, op)
    OBVIOUS
  <2>4. u \in Seq(EditRecords) /\ r \in Seq(EditRecords) /\ Len(u) + Len(r) <= UndoCap
    <3>1. Len(x.redo) + Len(x.undo) <= UndoCap
      <4>1. Len(x.undo) + Len(x.redo) <= UndoCap /\ Len(x.undo) \in Nat /\ Len(x.redo) \in Nat
        BY <1>1, BufferFields
      <4>2. PICK m \in Nat, n \in Nat : m = Len(x.undo) /\ n = Len(x.redo)
        BY <4>1
      <4>3. m + n = n + m
        OBVIOUS
      <4>4. QED
        BY <4>1, <4>2, <4>3, Zenon
    <3>2. QED
      BY <1>1, <1>3, <2>1, <2>2, <2>3, <3>1, PopPush
  <2>5. PICK z : z = [x EXCEPT !.undo = u, !.redo = r] /\ Noted(x, z)
    BY <1>1, <2>4, StacksSet
  <2>6. z.undo = u /\ z.redo = r
    BY <1>1, <2>5 DEF Buffers
  <2>7. PICK y : y = Apply(z, rec)
    OBVIOUS
  <2>8. Sound(y) /\ Text(y) = rec.was /\ y.undo = u /\ y.redo = r
    <3>1. Applied(z, rec, Apply(z, rec))
      BY <1>1, <2>1, <2>5, ApplyAfter
    <3>2. QED
      BY <2>6, <2>7, <3>1 DEF Applied
  <2>9. Back(rec.was, u)
    BY <1>1, <2>2, <2>3, BackPush
  <2>10. UndoGood(y)
    BY <2>1, <2>3, <2>8, <2>9 DEF UndoGood
  <2>11. WasBefore(x.redo) # <<>> /\ Last(WasBefore(x.redo)) = rec.was /\ Front(WasBefore(x.redo)) = WasBefore(r)
    BY <1>1, <1>3, <2>1, <2>3, RememberPop
  <2>12. WasBefore(u) = Append(WasBefore(x.undo), Text(x))
    BY <1>1, <2>2, <2>3, RememberPush
  <2>13. Redoes(x, y)
    BY <2>8, <2>11, <2>12 DEF Redoes
  <2>14. y = Redo(x)
    <3>1. z = [x EXCEPT !.redo = r, !.undo = u]
      BY <1>1, <2>5, Zenon DEF Buffers
    <3>2. QED
      BY <1>3, <2>1, <2>2, <2>3, <2>7, <3>1 DEF Redo
  <2>15. QED
    BY <2>10, <2>13, <2>14 DEF Outcome
<1>4. QED
  BY <1>2, <1>3

LEMMA ConcatParts ==
  ASSUME NEW E, NEW T, NEW s \in Seq(E), NEW t \in Seq(E), NEW z, z = s \o t, z \in Seq(T)
  PROVE  s \in Seq(T) /\ t \in Seq(T)
<1>1. PICK m \in Nat, n \in Nat : m = Len(s) /\ n = Len(t)
  OBVIOUS
<1>2. Len(z) = m + n /\ (\A i \in 1..m : z[i] = s[i]) /\ \A i \in 1..n : z[m + i] = t[i]
  BY <1>1
<1>3. ASSUME NEW i \in 1..m PROVE s[i] \in T
  <2>1. i \in 1..m + n
    OBVIOUS
  <2>2. z[i] \in T
    BY <1>2, <2>1
  <2>3. QED
    BY <1>2, <2>2, Zenon
<1>4. ASSUME NEW i \in 1..n PROVE t[i] \in T
  <2>1. m + i \in 1..m + n
    OBVIOUS
  <2>2. z[m + i] \in T
    BY <1>2, <2>1
  <2>3. QED
    BY <1>2, <2>2, Zenon
<1>5. s \in Seq(T)
  <2>1. s \in [1..Len(s) -> E]
    BY LenProperties
  <2>2. s \in [1..m -> T]
    BY <1>1, <1>3, <2>1, Zenon
  <2>3. QED
    BY <2>2
<1>6. t \in Seq(T)
  <2>1. t \in [1..Len(t) -> E]
    BY LenProperties
  <2>2. t \in [1..n -> T]
    BY <1>1, <1>4, <2>1, Zenon
  <2>3. QED
    BY <2>2
<1>7. QED
  BY <1>5, <1>6

LEMMA MovedOutcome ==
  ASSUME NEW x, UndoGood(x), NEW y, Moved(x, y)
  PROVE  Outcome(x, y) /\ Sound(y) /\ Quiet(x, y)
<1>1. Lines(x) \in Seq(Plain)
  BY GoodFields, SoundLines
<1>2. WellFormed(y) /\ Lines(y) = Lines(x) /\ y.undo = x.undo /\ y.redo = x.redo
  BY DEF Moved
<1>3. y.above \in Seq(ByteTexts) /\ y.cur \in ByteTexts /\ y.below \in Seq(ByteTexts)
  BY <1>2, BufferFields
<1>4. PICK w : w = <<y.cur>> /\ w \in Seq(ByteTexts)
  <2>1. <<y.cur>> \in Seq(ByteTexts)
    BY <1>3
  <2>2. QED
    BY <2>1, Zenon
<1>13. PICK u : u = y.above \o w
  OBVIOUS
<1>5. u \in Seq(ByteTexts)
  BY <1>3, <1>4, <1>13, ConcatProperties
<1>6. u \o y.below \in Seq(Plain)
  BY <1>1, <1>2, <1>4, <1>13 DEF Lines
<1>7. u \in Seq(Plain) /\ y.below \in Seq(Plain)
  BY <1>3, <1>5, <1>6, ConcatParts
<1>8. y.above \in Seq(Plain) /\ w \in Seq(Plain)
  BY <1>3, <1>4, <1>13, <1>7, ConcatParts
<1>9. y.cur \in Plain
  <2>1. w[1] = y.cur /\ Len(w) = 1
    BY <1>4
  <2>2. 1 \in 1..Len(w)
    BY <2>1
  <2>3. w[1] \in Plain
    BY <1>8, <2>2
  <2>4. QED
    BY <2>1, <2>3, Zenon
<1>10. Sound(y)
  BY <1>2, <1>7, <1>8, <1>9 DEF Sound, Divided
<1>11. Quiet(x, y)
  BY <1>2 DEF Quiet, Text
<1>12. QED
  BY <1>10, <1>11, QuietOutcome

LEMMA NotedOutcome ==
  ASSUME NEW x, UndoGood(x), NEW y, WellFormed(y), y.above = x.above, y.cur = x.cur, y.below = x.below,
         y.undo = x.undo, y.redo = x.redo
  PROVE  Outcome(x, y)
<1>1. Sound(y)
  BY GoodFields DEF Sound, Divided
<1>2. Quiet(x, y)
  BY DEF Quiet, Text, Lines
<1>3. QED
  BY <1>1, <1>2, QuietOutcome

LEMMA SetMarkOutcome ==
  ASSUME NEW x, UndoGood(x)
  PROVE  Outcome(x, SetMark(x))
<1>1. WellFormed(x) /\ x \in Buffers
  BY GoodFields
<1>2. PICK m : m = <<row(x), x.col>> /\ m \in {NoMark} \cup (Nat \X Nat)
  BY <1>1, PointIsAMark
<1>3. PICK y : y = [x EXCEPT !.mark = m] /\ Noted(x, y)
  BY <1>1, <1>2, MarkSetNotes
<1>4. y.undo = x.undo /\ y.redo = x.redo
  BY <1>1, <1>3 DEF Buffers
<1>5. Outcome(x, y)
  BY <1>3, <1>4, NotedOutcome DEF Noted
<1>6. QED
  BY <1>2, <1>3, <1>5 DEF SetMark

LEMMA SavedOutcome ==
  ASSUME NEW x, UndoGood(x)
  PROVE  Outcome(x, [x EXCEPT !.modified = FALSE])
<1>1. WellFormed(x) /\ x \in Buffers
  BY GoodFields
<1>2. PICK y : y = [x EXCEPT !.modified = FALSE]
  OBVIOUS
<1>3. WellFormed(y)
  BY <1>1, <1>2 DEF WellFormed, Buffers
<1>4. /\ y.above = x.above /\ y.cur = x.cur /\ y.below = x.below /\ y.undo = x.undo /\ y.redo = x.redo
  BY <1>1, <1>2 DEF Buffers
<1>5. QED
  BY <1>2, <1>3, <1>4, NotedOutcome

LEMMA SavingOutcome ==
  ASSUME NEW x, UndoGood(x), x.mark # NoMark
  PROVE  Outcome(x, KillRingSave(x))
<1>1. WellFormed(x) /\ x \in Buffers
  BY GoodFields
<1>2. PICK s : s = Region(x).txt /\ s \in ByteTexts
  BY <1>1, RegionType
<1>3. PICK w : w = KillPush(x, s) /\ Noted(x, w)
  BY <1>1, <1>2, KillPushNotes
<1>4. w \in Buffers /\ WellFormed(w) /\ w.undo = x.undo /\ w.redo = x.redo
  BY <1>1, <1>3 DEF KillPush, Noted, WellFormed, Buffers
<1>5. PICK y : y = [w EXCEPT !.mark = NoMark] /\ Noted(w, y)
  BY <1>4, MarkSetNotes
<1>6. y.undo = x.undo /\ y.redo = x.redo
  BY <1>4, <1>5 DEF Buffers
<1>7. Noted(x, y)
  BY <1>3, <1>5, NotedTwice
<1>8. Outcome(x, y)
  BY <1>6, <1>7, NotedOutcome DEF Noted
<1>9. QED
  BY <1>2, <1>3, <1>5, <1>8 DEF KillRingSave

(* The text before a position.                                             *)
Upto(x, r, c) == Ended(SubSeq(Lines(x), 1, r)) \o substring(Lines(x)[r + 1], 0, c)

LEMMA GotoUpto ==
  ASSUME NEW x, Sound(x), NEW r \in Nat, NEW c \in Nat, Inside(x, r, c)
  PROVE  \E q : Around(Text(x), Upto(x, r, c), q) /\ Spot(Upto(x, r, c), r, c)
<1>1. PICK y : y = Goto(x, r, c)
  OBVIOUS
<1>2. /\ Sound(y) /\ Text(y) = Text(x) /\ row(y) = r /\ y.col = c /\ y.cur = Lines(x)[r + 1]
      /\ y.above = SubSeq(Lines(x), 1, r)
  <2>1. /\ Sound(Goto(x, r, c)) /\ Text(Goto(x, r, c)) = Text(x) /\ row(Goto(x, r, c)) = r
        /\ Goto(x, r, c).col = c /\ Goto(x, r, c).cur = Lines(x)[r + 1]
        /\ Goto(x, r, c).above = SubSeq(Lines(x), 1, r)
    BY GotoSound
  <2>2. QED
    BY <1>1, <2>1, Zenon
<1>3. Pre(y) = Upto(x, r, c)
  BY <1>2 DEF Pre, Upto
<1>4. Around(Text(x), Pre(y), Post(y)) /\ Spot(Pre(y), r, c)
  BY <1>2, TextSplits DEF Around
<1>5. QED
  BY <1>3, <1>4

AreTexts(a, g, h, k, m, t) ==
  /\ a \in ByteTexts /\ g \in ByteTexts /\ h \in ByteTexts
  /\ k \in ByteTexts /\ m \in ByteTexts /\ t \in ByteTexts

Regroups(a, g, h, k, m, t) ==
  (a \o (((g \o h) \o k) \o m)) \o t = (a \o g) \o (((h \o k) \o m) \o t)

LEMMA Regroup ==
  ASSUME NEW a, NEW g, NEW h, NEW k, NEW m, NEW t, AreTexts(a, g, h, k, m, t)
  PROVE  Regroups(a, g, h, k, m, t)
<1>1. g \in ByteTexts /\ h \in ByteTexts /\ k \in ByteTexts /\ m \in ByteTexts
  BY DEF AreTexts
<1>2. h \o k \in ByteTexts /\ (h \o k) \o m \in ByteTexts /\ (g \o h) \o k = g \o (h \o k)
  <2>1. h \o k \in ByteTexts
    BY <1>1, TextFacts
  <2>2. (h \o k) \o m \in ByteTexts
    BY <1>1, <2>1, TextFacts
  <2>3. Associates(g, h, k)
    BY <1>1, Associated
  <2>4. QED
    BY <2>1, <2>2, <2>3, Zenon DEF Associates
<1>3. PICK v, u : v = h \o k /\ u = v \o m
  OBVIOUS
<1>4. g \in ByteTexts /\ v \in ByteTexts /\ m \in ByteTexts
  BY <1>1, <1>2, <1>3
<1>5. (g \o v) \o m = g \o (v \o m)
  BY <1>4, TextAssoc
<1>6. ((g \o h) \o k) \o m = g \o u
  BY <1>2, <1>3, <1>5, Zenon
<1>7. a \in ByteTexts /\ g \in ByteTexts /\ u \in ByteTexts
  BY <1>2, <1>3 DEF AreTexts
<1>8. a \o (g \o u) = (a \o g) \o u /\ a \o g \in ByteTexts
  BY <1>7, TextAssoc, TextFacts
<1>9. PICK p : p = a \o g
  OBVIOUS
<1>10. p \in ByteTexts /\ u \in ByteTexts /\ t \in ByteTexts
  BY <1>7, <1>8, <1>9 DEF AreTexts
<1>11. (p \o u) \o t = p \o (u \o t)
  BY <1>10, TextAssoc
<1>12. QED
  BY <1>3, <1>6, <1>8, <1>9, <1>11, Zenon DEF Regroups

LEMMA OneEnded ==
  ASSUME NEW l \in ByteTexts, NEW d \in Seq(ByteTexts)
  PROVE  <<l>> \o d \in Seq(ByteTexts) /\ Ended(<<l>> \o d) = (l \o Break) \o Ended(d)
<1>1. PICK one : one = <<l>> /\ one \in Seq(ByteTexts)
  <2>1. <<l>> \in Seq(ByteTexts)
    OBVIOUS
  <2>2. QED
    BY <2>1, Zenon
<1>2. one = Append(<<>>, l) /\ <<>> \in Seq(ByteTexts)
  BY <1>1
<1>3. Ended(one) = Ended(<<>>) \o (l \o Break)
  BY <1>2, EndedAppend
<1>4. l \o Break \in ByteTexts
  BY TextFacts
<1>5. Ended(one) = l \o Break
  BY <1>3, <1>4, NoneEnded, TextFacts
<1>6. Ended(one \o d) = Ended(one) \o Ended(d)
  BY <1>1, EndedTogether
<1>7. one \o d \in Seq(ByteTexts)
  BY <1>1, ConcatProperties
<1>8. QED
  BY <1>1, <1>5, <1>6, <1>7

(* The text between two positions leads from the one to the other.         *)
Leads(x, r, c, v, d) ==
  /\ Span(x, <<r, c>>, <<v, d>>) \in ByteTexts
  /\ Upto(x, v, d) = Upto(x, r, c) \o Span(x, <<r, c>>, <<v, d>>)

LEMMA SpanBetween ==
  ASSUME NEW x, Sound(x), NEW r \in Nat, NEW c \in Nat, NEW v \in Nat, NEW d \in Nat,
         Inside(x, r, c), Inside(x, v, d), Before(<<r, c>>, <<v, d>>)
  PROVE  Leads(x, r, c, v, d)
<1>1. PICK ls : ls = Lines(x) /\ ls \in Seq(Plain) /\ ls \in Seq(ByteTexts) /\ Len(ls) \in Nat \ {0}
  BY SoundLines
<1>2. PICK n \in Nat : n = Len(ls)
  BY <1>1
<1>3. r < n /\ v < n /\ c <= Len(ls[r + 1]) /\ d <= Len(ls[v + 1])
  BY <1>1, <1>2 DEF Inside
<1>4. r < v \/ (r = v /\ c <= d)
  BY DEF Before
<1>5. PICK k, m : k = ls[r + 1] /\ m = ls[v + 1] /\ k \in Plain /\ m \in Plain /\ c <= Len(k) /\ d <= Len(m)
  <2>1. r + 1 \in 1..Len(ls) /\ v + 1 \in 1..Len(ls)
    BY <1>2, <1>3
  <2>2. ls[r + 1] \in Plain /\ ls[v + 1] \in Plain
    BY <1>1, <2>1, ElementOfSeq
  <2>3. QED
    BY <1>3, <2>2
<1>6. k \in ByteTexts /\ m \in ByteTexts /\ Len(k) \in Nat /\ Len(m) \in Nat
  BY <1>5, PlainFacts
<1>7. AtMost(r, Len(ls) - 1) = r /\ AtMost(v, Len(ls) - 1) = v
  BY <1>2, <1>3 DEF AtMost
<1>8. PICK a : a = SubSeq(ls, 1, r) /\ a \in Seq(ByteTexts) /\ Ended(a) \in ByteTexts
  <2>1. SubSeq(ls, 1, r) \in Seq(ByteTexts)
    <3>1. 1 \in Nat \ {0} /\ r \in Nat /\ r <= Len(ls)
      BY <1>2, <1>3
    <3>2. QED
      BY <1>1, <3>1, PartType
  <2>2. QED
    BY <2>1, LinesAre
<1>9. PICK g, h : /\ g = substring(k, 0, c) /\ h = substring(k, c, Len(k)) /\ g \in ByteTexts /\ h \in ByteTexts
                  /\ g \o h = k
  <2>1. substring(k, 0, c) \in Plain /\ substring(k, c, Len(k)) \in Plain
        /\ substring(k, 0, c) \o substring(k, c, Len(k)) = k
    BY <1>5, CutLine
  <2>2. QED
    BY <2>1, PlainFacts
<1>10. Upto(x, r, c) = Ended(a) \o g
  BY <1>1, <1>5, <1>8, <1>9 DEF Upto
<1>11. PICK t : t = substring(m, 0, d) /\ t \in ByteTexts
  <2>1. substring(m, 0, d) \in Plain
    BY <1>5, CutLine
  <2>2. QED
    BY <2>1, PlainFacts
<1>12. PICK s : s = Span(x, <<r, c>>, <<v, d>>)
  OBVIOUS
<1>13. CASE r = v
  <2>1. c <= d /\ m = k
    BY <1>4, <1>5, <1>13
  <2>2. s = substring(k, c, d)
    BY <1>1, <1>5, <1>7, <1>12, <1>13 DEF Span
  <2>3. s \in ByteTexts
    BY <1>5, <1>6, <2>1, <2>2, CutIs DEF ByteTexts
  <2>4. g \o s = t
    <3>1. substring(k, 0, c) \o substring(k, c, d) = substring(k, 0, d)
      <4>1. k \in Seq(Nat \ {NL}) /\ 0 \in Nat /\ 0 <= c /\ c <= d /\ d <= Len(k)
        BY <1>5, <2>1 DEF Plain
      <4>2. QED
        BY <4>1, CutsMeet
    <3>2. QED
      BY <1>9, <1>11, <2>1, <2>2, <3>1
  <2>5. Upto(x, v, d) = Ended(a) \o t
    BY <1>1, <1>5, <1>8, <1>11, <1>13 DEF Upto
  <2>6. (Ended(a) \o g) \o s = Ended(a) \o (g \o s)
    <3>1. Associates(Ended(a), g, s)
      BY <1>8, <1>9, <2>3, Associated
    <3>2. QED
      BY <3>1, Zenon DEF Associates
  <2>7. QED
    BY <1>10, <1>12, <2>3, <2>4, <2>5, <2>6, Zenon DEF Leads
<1>14. CASE r < v
  <2>1. PICK mid : mid = SubSeq(ls, r + 2, v) /\ mid \in Seq(ByteTexts) /\ Ended(mid) \in ByteTexts
    <3>1. SubSeq(ls, r + 2, v) \in Seq(ByteTexts)
      <4>1. r + 2 \in Nat \ {0} /\ v \in Nat /\ v <= Len(ls)
        BY <1>2, <1>3
      <4>2. QED
        BY <1>1, <4>1, PartType
    <3>2. QED
      BY <3>1, LinesAre
  <2>2. SubSeq(ls, 1, v) = a \o (<<k>> \o mid)
    <3>1. SubSeq(ls, 1, r) \o SubSeq(ls, r + 1, v) = SubSeq(ls, 1, v)
      <4>1. 1 \in 1..Len(ls) + 1 /\ r \in 1 - 1..Len(ls) /\ v \in r..Len(ls)
        BY <1>2, <1>3, <1>14
      <4>2. QED
        BY <1>1, <4>1, ConcatAdjacentSubSeq
    <3>2. SubSeq(ls, r + 1, v) = <<ls[r + 1]>> \o SubSeq(ls, (r + 1) + 1, v)
      <4>1. r + 1 \in 1..Len(ls) /\ v \in (r + 1)..Len(ls)
        BY <1>2, <1>3, <1>14
      <4>2. QED
        BY <1>1, <4>1, SubSeqRecursiveFirst
    <3>3. (r + 1) + 1 = r + 2
      OBVIOUS
    <3>4. QED
      BY <1>5, <1>8, <2>1, <3>1, <3>2, <3>3
  <2>3. PICK w : w = <<h>> \o mid /\ w \in Seq(ByteTexts) /\ Ended(w) = (h \o Break) \o Ended(mid)
    BY <1>9, <2>1, OneEnded
  <2>4. s = Join(w \o <<t>>)
    <3>1. ls[r + 1] = k /\ ls[v + 1] = m /\ v + 1 - 1 = v /\ (r + 1) + 1 = r + 2 /\ r + 1 # v + 1
      BY <1>5, <1>14
    <3>2. s = Join(<<substring(ls[r + 1], c, Len(ls[r + 1]))>> \o SubSeq(ls, (r + 1) + 1, v + 1 - 1)
                     \o <<substring(ls[v + 1], 0, d)>>)
      <4>1. PICK p, q : p = <<r, c>> /\ q = <<v, d>>
        OBVIOUS
      <4>2. p[1] = r /\ p[2] = c /\ q[1] = v /\ q[2] = d
        BY <4>1
      <4>3. PICK i, j : i = r + 1 /\ j = v + 1 /\ i # j
        BY <3>1
      <4>4. AtMost(p[1], Len(ls) - 1) + 1 = i /\ AtMost(q[1], Len(ls) - 1) + 1 = j
        BY <1>7, <4>2, <4>3
      <4>5. Span(x, p, q) = Join(<<substring(ls[i], p[2], Len(ls[i]))>> \o SubSeq(ls, i + 1, j - 1)
                                   \o <<substring(ls[j], 0, q[2])>>)
        BY <1>1, <4>3, <4>4, Zenon DEF Span
      <4>6. QED
        BY <1>12, <4>1, <4>2, <4>3, <4>5
    <3>3. QED
      BY <1>9, <1>11, <2>1, <2>3, <3>1, <3>2
  <2>5. s = Ended(w) \o t /\ s \in ByteTexts
    <3>1. Append(w, t) = w \o <<t>>
      BY <1>11, <2>3, AppendIsConcat
    <3>2. Join(Append(w, t)) = Ended(w) \o t
      BY <1>11, <2>3, JoinEnded
    <3>3. Ended(w) \o t \in ByteTexts
      BY <1>11, <2>3, LinesAre, TextFacts
    <3>4. QED
      BY <2>4, <3>1, <3>2, <3>3
  <2>6. PICK z : z = <<k>> \o mid /\ z \in Seq(ByteTexts) /\ Ended(z) = (k \o Break) \o Ended(mid)
    BY <1>6, <2>1, OneEnded
  <2>7. Ended(SubSeq(ls, 1, v)) = Ended(a) \o Ended(z)
    BY <1>8, <2>2, <2>6, EndedTogether
  <2>8. Upto(x, v, d) = (Ended(a) \o (((g \o h) \o Break) \o Ended(mid))) \o t
    BY <1>1, <1>5, <1>9, <1>11, <2>6, <2>7 DEF Upto
  <2>9. Break \in ByteTexts
    BY TextFacts
  <2>10. (Ended(a) \o (((g \o h) \o Break) \o Ended(mid))) \o t
           = (Ended(a) \o g) \o (((h \o Break) \o Ended(mid)) \o t)
    <3>1. AreTexts(Ended(a), g, h, Break, Ended(mid), t)
      BY <1>8, <1>9, <1>11, <2>1, <2>9 DEF AreTexts
    <3>2. Regroups(Ended(a), g, h, Break, Ended(mid), t)
      BY <3>1, Regroup, Zenon
    <3>3. QED
      BY <3>2, Zenon DEF Regroups
  <2>11. QED
    BY <1>10, <1>12, <2>3, <2>5, <2>8, <2>10, Zenon DEF Leads
<1>15. QED
  BY <1>4, <1>12, <1>13, <1>14

(* A region lies between two positions of the text, its mark being one.    *)
Spans(x, r, c, s, q) ==
  /\ r \in Nat /\ c \in Nat /\ s \in ByteTexts /\ q \in ByteTexts
  /\ Around(Text(x), Upto(x, r, c), s \o q) /\ Spot(Upto(x, r, c), r, c)

LEMMA SpanSpans ==
  ASSUME NEW x, Sound(x), NEW r \in Nat, NEW c \in Nat, NEW v \in Nat, NEW d \in Nat,
         Inside(x, r, c), Inside(x, v, d), Before(<<r, c>>, <<v, d>>)
  PROVE  \E q : Spans(x, r, c, Span(x, <<r, c>>, <<v, d>>), q)
<1>1. PICK p, k, s : p = Upto(x, r, c) /\ k = Upto(x, v, d) /\ s = Span(x, <<r, c>>, <<v, d>>)
  OBVIOUS
<1>2. s \in ByteTexts /\ k = p \o s
  <2>1. Leads(x, r, c, v, d)
    BY SpanBetween
  <2>2. QED
    BY <1>1, <2>1, Zenon DEF Leads
<1>3. PICK m : Around(Text(x), p, m) /\ Spot(p, r, c)
  BY <1>1, GotoUpto
<1>4. PICK q : Around(Text(x), k, q)
  BY <1>1, GotoUpto
<1>5. p \in ByteTexts /\ m \in ByteTexts /\ q \in ByteTexts
  BY <1>3, <1>4 DEF Around
<1>6. m = s \o q
  <2>1. p \o m = k \o q
    BY <1>3, <1>4 DEF Around
  <2>2. (p \o s) \o q = p \o (s \o q)
    <3>1. Associates(p, s, q)
      BY <1>2, <1>5, Associated
    <3>2. QED
      BY <3>1, Zenon DEF Associates
  <2>3. s \o q \in ByteTexts
    BY <1>2, <1>5, TextFacts
  <2>4. PICK u : u = s \o q /\ u \in ByteTexts
    BY <2>3
  <2>5. p \o m = p \o u
    BY <1>2, <2>1, <2>2, <2>4, Zenon
  <2>6. m = u
    BY <1>5, <2>4, <2>5, Cancel
  <2>7. QED
    BY <2>4, <2>6
<1>7. Spans(x, r, c, s, q)
  BY <1>1, <1>2, <1>3, <1>5, <1>6 DEF Spans
<1>8. QED
  BY <1>1, <1>7

LEMMA RegionSpans ==
  ASSUME NEW x, Sound(x), x.mark # NoMark, Inside(x, x.mark[1], x.mark[2])
  PROVE  \E r, c, q : Region(x).from = <<r, c>> /\ Spans(x, r, c, Region(x).txt, q)
<1>1. x \in Buffers /\ WellFormed(x)
  BY SoundFields
<1>2. PICK i \in Nat, j \in Nat : x.mark = <<i, j>>
  <2>1. x.mark \in Nat \X Nat
    BY <1>1, BufferFields
  <2>2. QED
    BY <2>1
<1>3. Inside(x, i, j)
  BY <1>2
<1>4. PICK n, l : n = row(x) /\ l = x.col /\ n \in Nat /\ l \in Nat /\ Inside(x, n, l)
  <2>1. Around(Text(x), Pre(x), Post(x)) /\ Spot(Pre(x), row(x), x.col)
    BY TextSplits DEF Around
  <2>2. Inside(x, row(x), x.col) /\ row(x) \in Nat /\ x.col \in Nat
    BY <2>1, SpotInside, SpotType
  <2>3. QED
    BY <2>2
<1>5. CASE Before(<<i, j>>, <<n, l>>)
  <2>1. Region(x).from = <<i, j>> /\ Region(x).txt = Span(x, <<i, j>>, <<n, l>>)
    BY <1>2, <1>4, <1>5 DEF Region
  <2>2. PICK q : Spans(x, i, j, Span(x, <<i, j>>, <<n, l>>), q)
    BY <1>3, <1>4, <1>5, SpanSpans
  <2>3. QED
    BY <2>1, <2>2
<1>6. CASE ~Before(<<i, j>>, <<n, l>>)
  <2>1. Region(x).from = <<n, l>> /\ Region(x).txt = Span(x, <<n, l>>, <<i, j>>)
    BY <1>2, <1>4, <1>6 DEF Region
  <2>2. Before(<<n, l>>, <<i, j>>)
    BY <1>4, <1>6 DEF Before
  <2>3. PICK q : Spans(x, n, l, Span(x, <<n, l>>, <<i, j>>), q)
    BY <1>3, <1>4, <2>2, SpanSpans
  <2>4. QED
    BY <2>1, <2>3
<1>7. QED
  BY <1>5, <1>6

LEMMA KillRegionOutcome ==
  ASSUME NEW x, UndoGood(x), x.mark # NoMark, Inside(x, x.mark[1], x.mark[2])
  PROVE  Outcome(x, KillRegion(x))
<1>1. Sound(x) /\ x \in Buffers /\ WellFormed(x)
  BY GoodFields
<1>2. PICK r, c, q : Region(x).from = <<r, c>> /\ Spans(x, r, c, Region(x).txt, q)
  BY <1>1, RegionSpans
<1>3. PICK s, p : s = Region(x).txt /\ p = Upto(x, r, c)
  OBVIOUS
<1>4. /\ r \in Nat /\ c \in Nat /\ s \in ByteTexts /\ q \in ByteTexts
      /\ Around(Text(x), p, s \o q) /\ Spot(p, r, c)
  BY <1>2, <1>3 DEF Spans
<1>5. PICK rec : rec = Rec(x, "ins", r, c, s) /\ rec \in EditRecords
  BY <1>1, <1>4, RecInsIs
<1>6. PICK w : w = KillPush(x, s) /\ Noted(x, w)
  BY <1>1, <1>4, KillPushNotes
<1>7. w.undo = x.undo /\ w \in Buffers /\ WellFormed(w)
  BY <1>1, <1>6 DEF KillPush, Noted, WellFormed, Buffers
<1>8. PICK y : y = Record(w, rec) /\ Noted(w, y)
  BY <1>5, <1>7, RecordNotes
<1>9. Noted(x, y)
  BY <1>6, <1>8, NotedTwice
<1>10. Sound(y) /\ Text(y) = Text(x)
  BY <1>1, <1>9, NotedPoint
<1>11. y.undo = Record(x, rec).undo /\ y.redo = <<>>
  BY <1>1, <1>7, <1>8, StacksAre
<1>12. PICK z : z = Goto(y, r, c) /\ At(z, p, s \o q) /\ z.undo = y.undo /\ z.redo = y.redo
  <2>1. At(Goto(y, r, c), p, s \o q)
    BY <1>4, <1>10, GotoAt
  <2>2. Moved(y, Goto(y, r, c))
    BY <1>4, <1>10, GotoMoves DEF Sound
  <2>3. QED
    BY <2>1, <2>2 DEF Moved
<1>13. PICK u : u = RawDeleteForward(z, Len(s)) /\ At(u, p, q) /\ u.undo = z.undo /\ u.redo = z.redo
  <2>1. Sound(z) /\ WellFormed(z) /\ Pre(z) = p /\ Post(z) = s \o q
    BY <1>12 DEF At, Sound
  <2>2. At(RawDeleteForward(z, Len(s)), p, q)
    BY <1>4, <2>1, DeleteForwardPoint
  <2>3. Len(s) \in Nat
    BY <1>4, TextFacts
  <2>4. Touched(z, RawDeleteForward(z, Len(s)))
    BY <2>1, <2>3, DeleteForwardTouches
  <2>5. QED
    BY <2>2, <2>4 DEF Touched, SameStacks
<1>14. Sound(u) /\ Text(u) = p \o q /\ WellFormed(u) /\ u \in Buffers
  BY <1>13, TextSplits, SoundFields DEF At
<1>15. PICK v : v = [u EXCEPT !.mark = NoMark] /\ Noted(u, v)
  BY <1>14, MarkSetNotes
<1>16. v.undo = u.undo /\ v.redo = u.redo
  BY <1>14, <1>15 DEF Buffers
<1>17. Deletes(x, p, s, q, v)
  <2>1. Sound(v) /\ Text(v) = p \o q
    BY <1>14, <1>15, NotedPoint
  <2>2. QED
    BY <1>4, <2>1 DEF Deletes, Around
<1>18. DeletionOf(x, r, c, s, v)
  BY <1>5, <1>11, <1>12, <1>13, <1>16 DEF DeletionOf
<1>19. Outcome(x, v)
  BY <1>4, <1>17, <1>18, DeletionOutcome
<1>20. v = KillRegion(x)
  <2>1. PICK rg : rg = Region(x) /\ rg.from[1] = r /\ rg.from[2] = c /\ rg.txt = s
    BY <1>2, <1>3
  <2>2. KillRegion(x) = [RawDeleteForward(Goto(Record(KillPush(x, rg.txt), Rec(x, "ins", rg.from[1], rg.from[2], rg.txt)),
                                               rg.from[1], rg.from[2]), Len(rg.txt)) EXCEPT !.mark = NoMark]
    BY <2>1 DEF KillRegion
  <2>3. QED
    BY <1>5, <1>6, <1>8, <1>12, <1>13, <1>15, <2>1, <2>2
<1>21. QED
  BY <1>19, <1>20

LEMMA SearchOutcome ==
  ASSUME NEW x, UndoGood(x), NEW s \in ByteTexts, NEW r \in Nat, NEW c \in Nat
  PROVE  Outcome(x, SearchMove(x, s, r, c))
<1> DEFINE found == Matches(x, s, r, c)
           m == CHOOSE p \in found : \A q \in found : Before(p, q)
<1>1. Sound(x) /\ x \in Buffers /\ WellFormed(x)
  BY GoodFields
<1>2. found \in SUBSET (Nat \X Nat)
  <2>1. found \subseteq (0..Len(Lines(x)) - 1) \X (0..Len(Text(x)))
    BY DEF Matches
  <2>2. Len(Lines(x)) \in Nat /\ Len(Text(x)) \in Nat
    BY <1>1, SoundLines, TextFacts
  <2>3. 0..Len(Lines(x)) - 1 \subseteq Nat /\ 0..Len(Text(x)) \subseteq Nat
    BY <2>2
  <2> HIDE DEF found
  <2>4. QED
    BY <2>1, <2>3
<1>3. SearchMove(x, s, r, c) = IF found = {} THEN x
                               ELSE Goto([x EXCEPT !.mark = m], m[1], m[2] + Len(s))
  BY DEF SearchMove
<1> HIDE DEF found
<1>4. CASE found = {}
  <2>1. Quiet(x, x)
    BY DEF Quiet
  <2>2. QED
    BY <1>1, <1>3, <1>4, <2>1, QuietOutcome
<1>5. CASE found # {}
  <2>1. m \in found
    BY <1>2, <1>5, FirstMatch
  <2> HIDE DEF m
  <2>2. m[1] \in Nat /\ m[2] \in Nat /\ m \in {NoMark} \cup (Nat \X Nat)
    BY <1>2, <2>1
  <2>3. m[2] + Len(s) \in Nat
    BY <2>2 DEF ByteTexts
  <2>4. PICK y : y = [x EXCEPT !.mark = m] /\ Noted(x, y)
    BY <1>1, <2>2, MarkSetNotes
  <2>5. y.undo = x.undo /\ y.redo = x.redo
    BY <1>1, <2>4 DEF Buffers
  <2>6. UndoGood(y) /\ Text(y) = Text(x)
    <3>1. Outcome(x, y)
      BY <2>4, <2>5, NotedOutcome DEF Noted
    <3>2. Text(y) = Text(x)
      BY <1>1, <2>4, NotedPoint
    <3>3. QED
      BY <3>1, <3>2 DEF Outcome
  <2>7. PICK z : z = Goto(y, m[1], m[2] + Len(s)) /\ Moved(y, z)
    <3>1. WellFormed(y)
      BY <2>4 DEF Noted
    <3>2. QED
      BY <2>2, <2>3, <3>1, GotoMoves
  <2>8. Sound(z) /\ Quiet(y, z)
    BY <2>6, <2>7, MovedOutcome
  <2>9. Quiet(x, z)
    BY <2>5, <2>6, <2>8 DEF Quiet
  <2>10. Outcome(x, z)
    BY <2>8, <2>9, QuietOutcome
  <2>11. QED
    BY <1>3, <1>5, <2>4, <2>7, <2>10
<1>6. QED
  BY <1>4, <1>5

(* Every command is nothing, an edit, an undo or a redo.                   *)
UndoInv == UndoGood(b) /\ commands \in Nat

LEMMA OpenIsGood ==
  ASSUME NEW ls \in Seq(Plain), ls # <<>>
  PROVE  UndoGood(Open(ls)) /\ WasBefore(Open(ls).undo) = <<>> /\ WasBefore(Open(ls).redo) = <<>>
<1>1. PICK x : x = Open(ls)
  OBVIOUS
<1>2. WellFormed(x)
  BY <1>1, PlainFacts, OpenIsWellFormed
<1>3. Head(ls) \in Plain /\ Tail(ls) \in Seq(Plain)
  BY HeadTailProperties
<1>4. x.above = <<>> /\ x.cur = Head(ls) /\ x.below = Tail(ls) /\ x.undo = <<>> /\ x.redo = <<>>
  BY <1>1 DEF Open
<1>5. <<>> \in Seq(Plain)
  OBVIOUS
<1>6. Sound(x)
  BY <1>2, <1>3, <1>4, <1>5 DEF Sound, Divided
<1>7. UndoGood(x)
  BY <1>4, <1>6, BackNone DEF UndoGood
<1>8. QED
  BY <1>1, <1>4, <1>7, RememberNone

LEMMA TextNextOutcome ==
  ASSUME StaleMarks = FALSE, UndoInv, TextNext
  PROVE  Outcome(b, b') /\ commands' \in Nat
<1>1. UndoGood(b) /\ commands \in Nat /\ CommandMax \in Nat /\ WellFormed(b)
  BY TextAssumption, GoodFields DEF UndoInv
<1>2. ASSUME NEW x, Do(x) PROVE b' = x /\ commands' \in Nat
  BY <1>1, <1>2 DEF Do
<1>3. CASE Move
  <2>1. Moved(b, b')
    BY <1>1, <1>3, MotionMoves DEF Move
  <2>2. Outcome(b, b')
    BY <1>1, <2>1, MovedOutcome
  <2>3. QED
    BY <1>1, <1>3, <2>2 DEF Move
<1>4. CASE Search
  <2>1. PICK ch \in 1..CommandMax : Do(SearchMove(b, <<ch>>, row(b), b.col))
    BY <1>4 DEF Search
  <2>2. <<ch>> \in ByteTexts
    BY <1>1 DEF ByteTexts
  <2>3. row(b) \in Nat /\ b.col \in Nat
    BY <1>1, GoodFields, PointIsAMark
  <2>4. Outcome(b, SearchMove(b, <<ch>>, row(b), b.col))
    BY <1>1, <2>2, <2>3, SearchOutcome
  <2>5. QED
    BY <1>2, <2>1, <2>4
<1>5. CASE Edit
  <2>1. <<commands + 1>> \in Plain
    BY <1>1 DEF Plain, NL
  <2>2. /\ Outcome(b, Insert(b, <<commands + 1>>)) /\ Outcome(b, Newline(b)) /\ Outcome(b, Backspace(b))
        /\ Outcome(b, Delete(b)) /\ Outcome(b, KillLine(b)) /\ Outcome(b, Yank(b))
    BY <1>1, <2>1, InsertOutcome, NewlineOutcome, BackspaceOutcome, DeleteOutcome, KillLineOutcome,
       YankOutcome
  <2>3. QED
    BY <1>2, <1>5, <2>2 DEF Edit
<1>6. CASE UseRegion
  <2>1. b.mark # NoMark /\ (Do(KillRegion(b)) \/ Do(KillRingSave(b))) /\ Inside(b, b.mark[1], b.mark[2])
    BY <1>6 DEF UseRegion, InText, Inside
  <2>2. Outcome(b, KillRegion(b)) /\ Outcome(b, KillRingSave(b))
    BY <1>1, <2>1, KillRegionOutcome, SavingOutcome
  <2>3. QED
    BY <1>2, <2>1, <2>2
<1>7. CASE MarkSaved
  BY <1>1, <1>2, <1>7, SavedOutcome DEF MarkSaved
<1>8. CASE Do(SetMark(b)) \/ Do(Undo(b)) \/ Do(Redo(b))
  BY <1>1, <1>2, <1>8, SetMarkOutcome, UndoOutcome, RedoOutcome
<1>9. QED
  BY <1>3, <1>4, <1>5, <1>6, <1>7, <1>8 DEF TextNext

LEMMA UndoStaysGood == StaleMarks = FALSE => (TextSpec => []UndoInv)
<1> SUFFICES ASSUME StaleMarks = FALSE PROVE TextSpec => []UndoInv
  OBVIOUS
<1>1. TextInit => UndoInv
  <2>1. ASSUME NEW ls \in Contents PROVE UndoGood(Open(ls))
    <3>1. ls \in Seq(Plain) /\ ls # <<>>
      BY TextAssumption DEF Plain
    <3>2. QED
      BY <3>1, OpenIsGood
  <2>2. QED
    BY <2>1 DEF TextInit, UndoInv
<1>2. UndoInv /\ [TextNext]_textVars => UndoInv'
  <2>1. ASSUME UndoInv, TextNext PROVE UndoInv'
    <3>1. Outcome(b, b') /\ commands' \in Nat
      BY <2>1, TextNextOutcome
    <3>2. QED
      BY <3>1 DEF UndoInv, Outcome
  <2>2. UndoInv /\ UNCHANGED textVars => UndoInv'
    BY DEF UndoInv, textVars
  <2>3. QED
    BY <2>1, <2>2
<1>3. QED
  BY <1>1, <1>2, PTL DEF TextSpec

(* Undo brings back the text before the last edit, redo the text before    *)
(* the undo, and an edit disturbs nothing that earlier undos will bring    *)
(* back, for any text, any number of commands, any caps of the stacks and  *)
(* of merging, as long as no region is used whose mark has left the text.  *)
THEOREM UndoKeepsItsPromise == StaleMarks = FALSE => (TextSpec => Undoing)
<1> SUFFICES ASSUME StaleMarks = FALSE PROVE TextSpec => Undoing
  OBVIOUS
<1>1. TextInit => History!Init
  <2>1. ASSUME NEW ls \in Contents
        PROVE  WasBefore(Open(ls).undo) = <<>> /\ WasBefore(Open(ls).redo) = <<>>
    <3>1. ls \in Seq(Plain) /\ ls # <<>>
      BY TextAssumption DEF Plain
    <3>2. QED
      BY <3>1, OpenIsGood
  <2>2. QED
    BY <2>1 DEF TextInit, History!Init
<1>2. UndoInv /\ [TextNext]_textVars => [History!Next]_<<Text(b), WasBefore(b.undo), WasBefore(b.redo)>>
  <2>1. ASSUME UndoInv, TextNext
        PROVE  [History!Next]_<<Text(b), WasBefore(b.undo), WasBefore(b.redo)>>
    <3>1. Outcome(b, b')
      BY <2>1, TextNextOutcome
    <3>2. CASE Quiet(b, b')
      BY <3>2 DEF Quiet
    <3>3. CASE Edits(b, b')
      BY <3>3 DEF Edits, History!Next, History!Edit
    <3>4. CASE Undoes(b, b')
      BY <3>4 DEF Undoes, History!Next, History!Undo, Last, Front, History!Last, History!Front
    <3>5. CASE Redoes(b, b')
      BY <3>5 DEF Redoes, History!Next, History!Redo, Last, Front, History!Last, History!Front
    <3>6. QED
      BY <3>1, <3>2, <3>3, <3>4, <3>5 DEF Outcome
  <2>2. UndoInv /\ UNCHANGED textVars => UNCHANGED <<Text(b), WasBefore(b.undo), WasBefore(b.redo)>>
    BY DEF textVars
  <2>3. QED
    BY <2>1, <2>2
<1>3. QED
  BY <1>1, <1>2, UndoStaysGood, PTL DEF TextSpec, Undoing, History!Spec
=============================================================================
