--------------------------- MODULE FlowLayoutProofs ---------------------------
(***************************************************************************)
(* The placement of do_layout, for rows of any number of chips of any      *)
(* sizes, of any width, and for any spacings.                              *)
(***************************************************************************)
EXTENDS FlowLayout, NatRecursion, SequenceTheorems

Rectangle == [x : Nat, y : Nat, w : Nat \ {0}, h : Nat \ {0}]

\* The loop has gone through some of the chips.
LoopOK ==
  /\ items \in Seq(Size) /\ width \in Width
  /\ row \in [x : Nat, y : Nat, h : Nat, placed : Seq(Rectangle)]
  /\ Len(placed) <= Len(items)

\* Every chip lies on the line under way, left of where the next one goes and no
\* taller than the line is noted to be, or on a line above it.
LinesApart ==
  \A i \in DOMAIN placed :
    \/ /\ placed[i].y = row.y /\ placed[i].h <= row.h
       /\ placed[i].x + placed[i].w <= row.x
    \/ placed[i].y + placed[i].h <= row.y

\* The first line begins flat at the left edge; another chip goes behind the last
\* one.
NextBehindLast ==
  /\ placed = << >> => row.x = 0 /\ row.h = 0
  /\ placed # << >> =>
       /\ row.x > 0
       /\ row.x = placed[Len(placed)].x + placed[Len(placed)].w + m_h_spacing

LayoutInv ==
  /\ LoopOK
  /\ LinesApart
  /\ NextBehindLast
  /\ NoOverlap
  /\ InsideWidth

\* The line compute_height is on when do_layout is on its own.
Measured == Lines(items, width)[Len(placed)]

\* do_layout's place on the line under way is the sum of the chips on it.
OnReach == \E j \in 0..Len(placed) : row.x = Reach(items)[Len(placed)] - Reach(items)[j]

\* The two loops are on the same line, unless one is full to the last pixel.
InStep == ~FillsALine => Measured.x = row.x /\ Measured.y = row.y /\ Measured.h = row.h

\* The height of the line under way is that of a chip on it.
TallestOnLine == placed # << >> => \E i \in DOMAIN placed : placed[i].y = row.y /\ placed[i].h = row.h

\* What relates the height the card has given the row to the lines do_layout
\* makes of it.
HeightInv ==
  /\ LayoutInv
  /\ Len(items) <= MaxChips
  /\ height = ComputeHeight(items, width)
  /\ OnReach
  /\ InStep
  /\ TallestOnLine

-----------------------------------------------------------------------------
Line == [x : Nat, y : Nat, h : Nat]

\* A turn of compute_height's loop goes from line to line.
LEMMA HeightStepType ==
  ASSUME NEW line \in Line, NEW item \in Size, NEW w
  PROVE  HeightStep(line, item, w) \in Line
<1>1. /\ item.w \in Nat /\ item.h \in Nat /\ m_h_spacing \in Nat /\ m_v_spacing \in Nat
      /\ line.x \in Nat /\ line.y \in Nat /\ line.h \in Nat
  BY LayoutAssumption DEF Line
<1>2. QED
  BY <1>1 DEF HeightStep, Line, MaxOf

\* compute_height's loop, for any set A of lines its turns do not leave.
LEMMA LinesRecursion ==
  ASSUME NEW A, [x |-> 0, y |-> 0, h |-> 0] \in A, NEW chips, NEW w,
         NEW N \in Nat, N = Len(chips),
         \A line \in A : \A n \in 1..N : HeightStep(line, chips[n], w) \in A
  PROVE  /\ Lines(chips, w) \in [0..N -> A]
         /\ Lines(chips, w)[0] = [x |-> 0, y |-> 0, h |-> 0]
         /\ \A n \in 1..N : Lines(chips, w)[n] = HeightStep(Lines(chips, w)[n - 1], chips[n], w)
<1> DEFINE base == [x |-> 0, y |-> 0, h |-> 0]
           step == [n \in 1..N |-> [line \in A |-> HeightStep(line, chips[n], w)]]
           Eqn(f) == f = [n \in 0..N |-> IF n = 0 THEN base ELSE HeightStep(f[n - 1], chips[n], w)]
           lines == Lines(chips, w)
<1>1. base \in A
  OBVIOUS
<1> HIDE DEF base
<1>2. step \in Steps(N, A)
  BY DEF Steps
<1>3. PICK f : Follows(f, N, A, base, step)
  <2> HIDE DEF step
  <2>1. QED
    BY <1>1, <1>2, Recursion
<1>4. Eqn(f)
  <2>1. ASSUME NEW n \in 1..N PROVE f[n] = HeightStep(f[n - 1], chips[n], w)
    <3>1. f[n - 1] \in A
      BY <1>3 DEF Follows
    <3>2. QED
      BY <1>3, <3>1 DEF Follows
  <2>2. QED
    BY <1>3, <2>1 DEF Follows
<1>5. Eqn(lines)
  <2>1. lines = CHOOSE g : Eqn(g)
    BY DEF Lines, base
  <2> HIDE DEF Eqn
  <2>2. QED
    BY <1>4, <2>1
<1> DEFINE S == {n \in 0..N : lines[n] \in A}
<1> HIDE DEF lines
<1>6. 0 \in S
  BY <1>1, <1>5
<1>7. ASSUME NEW n \in 1..N, n - 1 \in S PROVE n \in S
  BY <1>5, <1>7
<1>8. 0..N \subseteq S
  <2> HIDE DEF S
  <2>1. QED
    BY <1>6, <1>7, Induction
<1>9. lines \in [0..N -> A] /\ lines[0] = base
  BY <1>5, <1>8
<1>10. \A n \in 1..N : lines[n] = HeightStep(lines[n - 1], chips[n], w)
  BY <1>5
<1>11. QED
  BY <1>9, <1>10 DEF lines, base

\* compute_height's loop over the chips of a row.
LEMMA LinesSteps ==
  ASSUME NEW chips \in Seq(Size), NEW w
  PROVE  /\ \A n \in 0..Len(chips) : Lines(chips, w)[n] \in Line
         /\ Lines(chips, w)[0] = [x |-> 0, y |-> 0, h |-> 0]
         /\ \A n \in 1..Len(chips) :
              Lines(chips, w)[n] = HeightStep(Lines(chips, w)[n - 1], chips[n], w)
<1>1. [x |-> 0, y |-> 0, h |-> 0] \in Line /\ Len(chips) \in Nat
  BY DEF Line
<1>2. \A line \in Line : \A n \in 1..Len(chips) : HeightStep(line, chips[n], w) \in Line
  BY HeightStepType
<1>3. /\ Lines(chips, w) \in [0..Len(chips) -> Line]
      /\ Lines(chips, w)[0] = [x |-> 0, y |-> 0, h |-> 0]
      /\ \A n \in 1..Len(chips) :
           Lines(chips, w)[n] = HeightStep(Lines(chips, w)[n - 1], chips[n], w)
  BY <1>1, <1>2, LinesRecursion
<1>4. QED
  BY <1>3

\* The height of a row is a number.
LEMMA ComputeHeightType ==
  ASSUME NEW chips \in Seq(Size), NEW w
  PROVE  ComputeHeight(chips, w) \in Nat
<1>1. Lines(chips, w)[Len(chips)] \in Line
  <2>1. Len(chips) \in 0..Len(chips)
    OBVIOUS
  <2>2. QED
    BY <2>1, LinesSteps
<1>2. QED
  BY <1>1 DEF ComputeHeight, Line

\* The reach of the chips grows by one chip and its spacing at a time.
LEMMA ReachSteps ==
  ASSUME NEW chips \in Seq(Size)
  PROVE  /\ \A n \in 0..Len(chips) : Reach(chips)[n] \in Nat
         /\ Reach(chips)[0] = 0
         /\ \A n \in 1..Len(chips) :
              Reach(chips)[n] = Reach(chips)[n - 1] + chips[n].w + m_h_spacing
<1> DEFINE N == Len(chips)
           step == [n \in 1..N |-> [end \in Nat |-> end + chips[n].w + m_h_spacing]]
           Eqn(f) == f = [n \in 0..N |-> IF n = 0 THEN 0 ELSE f[n - 1] + chips[n].w + m_h_spacing]
           reach == Reach(chips)
<1>1. N \in Nat /\ m_h_spacing \in Nat /\ \A n \in 1..N : chips[n].w \in Nat
  BY LayoutAssumption
<1>2. step \in Steps(N, Nat)
  <2> HIDE DEF N
  <2>1. QED
    BY <1>1 DEF Steps
<1>3. PICK f : Follows(f, N, Nat, 0, step)
  <2> HIDE DEF step, N
  <2>1. QED
    BY <1>1, <1>2, Recursion
<1>4. Eqn(f)
  <2> HIDE DEF N
  <2>1. ASSUME NEW n \in 1..N PROVE f[n] = f[n - 1] + chips[n].w + m_h_spacing
    <3>1. f[n - 1] \in Nat
      BY <1>1, <1>3 DEF Follows
    <3>2. QED
      BY <1>3, <3>1 DEF Follows
  <2>2. QED
    BY <1>3, <2>1 DEF Follows
<1>5. Eqn(reach)
  <2>1. reach = CHOOSE g : Eqn(g)
    BY DEF Reach
  <2> HIDE DEF Eqn
  <2>2. QED
    BY <1>4, <2>1
<1> DEFINE S == {n \in 0..N : reach[n] \in Nat}
<1> HIDE DEF reach, N
<1>6. 0 \in S
  BY <1>1, <1>5
<1>7. ASSUME NEW n \in 1..N, n - 1 \in S PROVE n \in S
  BY <1>1, <1>5, <1>7
<1>8. 0..N \subseteq S
  <2> HIDE DEF S
  <2>1. QED
    BY <1>1, <1>6, <1>7, Induction
<1>9. (\A n \in 0..N : reach[n] \in Nat) /\ reach[0] = 0
  BY <1>1, <1>5, <1>8
<1>10. ASSUME NEW n \in 1..N PROVE reach[n] = reach[n - 1] + chips[n].w + m_h_spacing
  <2>1. n \in 0..N /\ n # 0
    BY <1>1
  <2>2. QED
    BY <1>5, <2>1
<1>11. QED
  BY <1>9, <1>10 DEF reach, N

-----------------------------------------------------------------------------
\* A loop that begins has placed nothing.
LEMMA EmptyKeeps ==
  ASSUME NEW chips \in Seq(Size), NEW w \in Width,
         items' = chips, width' = w, row' = EmptyRow
  PROVE  LayoutInv'
<1>1. placed' = << >> /\ row'.x = 0 /\ row'.y = 0 /\ row'.h = 0
  BY DEF EmptyRow, placed
<1>2. row' \in [x : Nat, y : Nat, h : Nat, placed : Seq(Rectangle)]
  BY DEF EmptyRow
<1>3. LoopOK'
  BY <1>1, <1>2 DEF LoopOK
<1>4. DOMAIN placed' = {}
  BY <1>1
<1>5. QED
  BY <1>1, <1>3, <1>4 DEF LayoutInv, LinesApart, NextBehindLast, NoOverlap, InsideWidth

\* At first there is no chip.
LEMMA LayoutInit == Init => LayoutInv
<1> SUFFICES ASSUME Init PROVE LayoutInv
  OBVIOUS
<1>1. placed = << >> /\ row.x = 0 /\ row.y = 0 /\ row.h = 0
  BY DEF Init, EmptyRow, placed
<1>2. LoopOK
  BY <1>1 DEF Init, EmptyRow, LoopOK
<1>3. DOMAIN placed = {}
  BY <1>1
<1>4. QED
  BY <1>1, <1>2, <1>3 DEF LayoutInv, LinesApart, NextBehindLast, NoOverlap, InsideWidth

\* One turn of the loop, told as where the chip goes and what row it leaves.
LEMMA PlaceShape ==
  ASSUME LoopOK, Place, NEW item, item = items[Len(placed) + 1]
  PROVE  /\ item \in Size
         /\ \E x \in Nat, y \in Nat, h \in Nat :
              /\ placed' = Append(placed, [x |-> x, y |-> y, w |-> item.w, h |-> item.h])
              /\ row'.x = x + item.w + m_h_spacing /\ row'.y = y /\ row'.h = h
              /\ row' \in [x : Nat, y : Nat, h : Nat, placed : Seq(Rectangle)]
              /\ \/ /\ row.x > 0 /\ row.x + item.w >= width
                    /\ x = 0 /\ y = row.y + row.h + m_v_spacing /\ h = item.h
                 \/ /\ row.x = 0 \/ row.x + item.w < width
                    /\ x = row.x /\ y = row.y /\ h = MaxOf(row.h, item.h)
                    /\ h >= row.h /\ h >= item.h
<1>1. item \in Size
  BY DEF LoopOK, Place, LaidOut, placed
<1>2. item.w \in Nat \ {0} /\ item.h \in Nat \ {0} /\ width \in Nat
  BY <1>1, LayoutAssumption DEF LoopOK
<1>3. /\ row.x \in Nat /\ row.y \in Nat /\ row.h \in Nat /\ row.placed \in Seq(Rectangle)
      /\ m_h_spacing \in Nat /\ m_v_spacing \in Nat
  BY LayoutAssumption DEF LoopOK
<1>4. row' = LayoutStep(row, item, width)
  BY DEF Place, placed
<1>5. ASSUME NEW x \in Nat, NEW y \in Nat, NEW h \in Nat, row' = PlaceAt(row, item, x, y, h)
      PROVE  /\ placed' = Append(placed, [x |-> x, y |-> y, w |-> item.w, h |-> item.h])
             /\ row'.x = x + item.w + m_h_spacing /\ row'.y = y /\ row'.h = h
             /\ row' \in [x : Nat, y : Nat, h : Nat, placed : Seq(Rectangle)]
  <2>1. [x |-> x, y |-> y, w |-> item.w, h |-> item.h] \in Rectangle
    BY <1>2 DEF Rectangle
  <2>2. Append(row.placed, [x |-> x, y |-> y, w |-> item.w, h |-> item.h]) \in Seq(Rectangle)
    BY <1>3, <2>1
  <2>3. x + item.w + m_h_spacing \in Nat
    BY <1>2, <1>3
  <2>4. QED
    BY <1>5, <2>2, <2>3 DEF PlaceAt, placed
<1>6. CASE Wraps(row, item, width)
  <2>1. row' = PlaceAt(row, item, 0, row.y + row.h + m_v_spacing, item.h)
    BY <1>4, <1>6 DEF LayoutStep
  <2>2. row.x > 0 /\ row.x + item.w >= width
    BY <1>2, <1>3, <1>6 DEF Wraps, Right
  <2>3. row.y + row.h + m_v_spacing \in Nat /\ item.h \in Nat
    BY <1>2, <1>3
  <2> DEFINE y == row.y + row.h + m_v_spacing
  <2> HIDE DEF y
  <2>4. row' = PlaceAt(row, item, 0, y, item.h) /\ y \in Nat /\ y = row.y + row.h + m_v_spacing
    BY <2>1, <2>3 DEF y
  <2>5. /\ placed' = Append(placed, [x |-> 0, y |-> y, w |-> item.w, h |-> item.h])
        /\ row'.x = 0 + item.w + m_h_spacing /\ row'.y = y /\ row'.h = item.h
        /\ row' \in [x : Nat, y : Nat, h : Nat, placed : Seq(Rectangle)]
    BY <1>5, <2>3, <2>4
  <2>6. QED
    BY <1>1, <2>2, <2>3, <2>4, <2>5
<1>7. CASE ~Wraps(row, item, width)
  <2>1. row' = PlaceAt(row, item, row.x, row.y, MaxOf(row.h, item.h))
    BY <1>4, <1>7 DEF LayoutStep
  <2>2. row.x = 0 \/ row.x + item.w < width
    BY <1>2, <1>3, <1>7 DEF Wraps, Right
  <2>3. /\ MaxOf(row.h, item.h) \in Nat
        /\ MaxOf(row.h, item.h) >= row.h /\ MaxOf(row.h, item.h) >= item.h
    BY <1>2, <1>3 DEF MaxOf
  <2> DEFINE h == MaxOf(row.h, item.h)
  <2> HIDE DEF h
  <2>4. item \in Size /\ row.x \in Nat /\ row.y \in Nat /\ h \in Nat
    BY <1>1, <1>3, <2>3 DEF h
  <2>5. /\ row' = PlaceAt(row, item, row.x, row.y, h)
        /\ h = MaxOf(row.h, item.h) /\ h >= row.h /\ h >= item.h
    BY <2>1, <2>3 DEF h
  <2>6. /\ placed' = Append(placed, [x |-> row.x, y |-> row.y, w |-> item.w, h |-> item.h])
        /\ row'.x = row.x + item.w + m_h_spacing /\ row'.y = row.y /\ row'.h = h
        /\ row' \in [x : Nat, y : Nat, h : Nat, placed : Seq(Rectangle)]
    BY <1>5, <2>4, <2>5
  <2>7. QED
    BY <2>2, <2>4, <2>5, <2>6
<1>8. QED
  BY <1>6, <1>7

\* A turn of the loop puts a chip to the right of its line or below everything.
LEMMA PlaceKeeps == ASSUME LayoutInv, Place PROVE LayoutInv'
<1>0. LoopOK /\ LinesApart /\ NextBehindLast /\ NoOverlap /\ InsideWidth
  BY DEF LayoutInv
<1> DEFINE item == items[Len(placed) + 1]
<1>i. item \in Size
  BY <1>0, PlaceShape
<1>1. PICK x \in Nat, y \in Nat, h \in Nat :
           /\ placed' = Append(placed, [x |-> x, y |-> y, w |-> item.w, h |-> item.h])
           /\ row'.x = x + item.w + m_h_spacing /\ row'.y = y /\ row'.h = h
           /\ row' \in [x : Nat, y : Nat, h : Nat, placed : Seq(Rectangle)]
           /\ \/ /\ row.x > 0 /\ row.x + item.w >= width
                 /\ x = 0 /\ y = row.y + row.h + m_v_spacing /\ h = item.h
              \/ /\ row.x = 0 \/ row.x + item.w < width
                 /\ x = row.x /\ y = row.y /\ h >= row.h /\ h >= item.h
  BY <1>0, PlaceShape
<1> HIDE DEF item
<1>2. /\ item.w \in Nat \ {0} /\ item.h \in Nat \ {0} /\ width \in Nat
      /\ m_h_spacing \in Nat /\ m_v_spacing \in Nat
      /\ row.x \in Nat /\ row.y \in Nat /\ row.h \in Nat
  BY <1>0, <1>i, LayoutAssumption DEF LoopOK
<1> DEFINE n == Len(placed) + 1
           new == [x |-> x, y |-> y, w |-> item.w, h |-> item.h]
<1>3. /\ placed \in Seq(Rectangle) /\ UNCHANGED <<items, width>>
      /\ Len(placed) \in Nat /\ Len(placed) < Len(items)
  BY <1>0 DEF LoopOK, placed, Place, LaidOut
<1>4. /\ DOMAIN placed' = 1..n /\ Len(placed') = n /\ DOMAIN placed = 1..(n - 1)
      /\ placed'[n] = new
      /\ \A i \in 1..(n - 1) : placed'[i] = placed[i]
  BY <1>1, <1>3
<1>5. \A i \in 1..(n - 1) : /\ placed[i].x \in Nat /\ placed[i].y \in Nat
                           /\ placed[i].w \in Nat /\ placed[i].h \in Nat
  <2>1. \A i \in 1..(n - 1) : placed[i] \in Rectangle
    BY <1>3, <1>4
  <2>2. QED
    BY <2>1 DEF Rectangle
<1>6. new.x = x /\ new.y = y /\ new.w = item.w /\ new.h = item.h
  OBVIOUS
<1> HIDE DEF n, new
<1>where. /\ row'.x = x + item.w + m_h_spacing /\ row'.y = y /\ row'.h = h
          /\ x \in Nat /\ y \in Nat /\ h \in Nat
          /\ \/ /\ row.x > 0 /\ row.x + item.w >= width
                /\ x = 0 /\ y = row.y + row.h + m_v_spacing /\ h = item.h
             \/ /\ row.x = 0 \/ row.x + item.w < width
                /\ x = row.x /\ y = row.y /\ h >= row.h /\ h >= item.h
  BY <1>1
<1>7. LoopOK'
  <2>1. Len(placed') <= Len(items)
    BY <1>3, <1>4 DEF n, LoopOK
  <2>2. QED
    BY <1>0, <1>1, <1>3, <2>1 DEF LoopOK
<1>n. n \in Nat \ {0}
  BY <1>3 DEF n
<1>8. LinesApart'
  <2> SUFFICES ASSUME NEW i \in 1..n
               PROVE  \/ /\ placed'[i].y = row'.y /\ placed'[i].h <= row'.h
                         /\ placed'[i].x + placed'[i].w <= row'.x
                      \/ placed'[i].y + placed'[i].h <= row'.y
    BY <1>4 DEF LinesApart
  <2>1. CASE i = n
    <3>1. /\ placed'[i].y = y /\ placed'[i].h = item.h
          /\ placed'[i].x = x /\ placed'[i].w = item.w
      BY <1>4, <1>6, <2>1
    <3>2. QED
      BY <1>2, <1>where, <3>1
  <2>2. CASE i # n
    <3>1. i \in 1..(n - 1)
      BY <1>n, <2>2
    <3>2. \/ /\ placed[i].y = row.y /\ placed[i].h <= row.h
             /\ placed[i].x + placed[i].w <= row.x
          \/ placed[i].y + placed[i].h <= row.y
      BY <1>0, <1>4, <3>1 DEF LinesApart
    <3>3. placed'[i] = placed[i]
      BY <1>4, <3>1
    <3>4. /\ placed[i].x \in Nat /\ placed[i].y \in Nat
          /\ placed[i].w \in Nat /\ placed[i].h \in Nat
      BY <1>5, <3>1
    <3>5. \/ /\ placed[i].y = row'.y /\ placed[i].h <= row'.h
             /\ placed[i].x + placed[i].w <= row'.x
          \/ placed[i].y + placed[i].h <= row'.y
      BY <1>2, <1>where, <3>2, <3>4
    <3>6. QED
      BY <3>3, <3>5
  <2>3. QED
    BY <2>1, <2>2
<1>9. NextBehindLast'
  <2>1. placed' # << >> /\ placed'[Len(placed')] = new
    BY <1>4, <1>n
  <2>2. row'.x > 0 /\ row'.x = new.x + new.w + m_h_spacing
    BY <1>1, <1>2, <1>6
  <2>3. QED
    BY <2>1, <2>2 DEF NextBehindLast
<1>10. NoOverlap'
  <2>1. ASSUME NEW i \in 1..(n - 1) PROVE Disjoint(placed[i], new) /\ Disjoint(new, placed[i])
    <3>1. \/ /\ placed[i].y = row.y /\ placed[i].h <= row.h
             /\ placed[i].x + placed[i].w <= row.x
          \/ placed[i].y + placed[i].h <= row.y
      BY <1>0, <1>4 DEF LinesApart
    <3>2. /\ placed[i].x \in Nat /\ placed[i].y \in Nat
          /\ placed[i].w \in Nat /\ placed[i].h \in Nat
      BY <1>5
    <3>3. placed[i].x + placed[i].w <= x \/ placed[i].y + placed[i].h <= y
      BY <1>2, <1>where, <3>1, <3>2
    <3>4. QED
      BY <1>6, <3>3 DEF Disjoint
  <2>2. ASSUME NEW i \in 1..n, NEW j \in 1..n, i # j
        PROVE  Disjoint(placed'[i], placed'[j])
    <3>1. CASE i = n
      BY <1>4, <1>n, <2>1, <2>2, <3>1
    <3>2. CASE j = n
      BY <1>4, <1>n, <2>1, <2>2, <3>2
    <3>3. CASE i # n /\ j # n
      <4>1. i \in 1..(n - 1) /\ j \in 1..(n - 1)
        BY <1>n, <3>3
      <4>2. Disjoint(placed[i], placed[j])
        BY <1>0, <1>4, <2>2, <4>1 DEF NoOverlap
      <4>3. QED
        BY <1>4, <4>1, <4>2
    <3>4. QED
      BY <3>1, <3>2, <3>3
  <2>3. QED
    BY <1>4, <2>2 DEF NoOverlap
<1>11. InsideWidth'
  <2>1. new.x > 0 => new.x + new.w <= width
    BY <1>1, <1>2, <1>6
  <2>2. QED
    BY <1>0, <1>3, <1>4, <1>n, <2>1 DEF InsideWidth
<1>12. QED
  BY <1>7, <1>8, <1>9, <1>10, <1>11 DEF LayoutInv

\* Every step keeps the invariant.
LEMMA LayoutNext == LayoutInv /\ [Next]_vars => LayoutInv'
<1> SUFFICES ASSUME LayoutInv, [Next]_vars PROVE LayoutInv'
  OBVIOUS
<1>0. items \in Seq(Size) /\ width \in Width
  BY DEF LayoutInv, LoopOK
<1>1. CASE Place
  BY <1>1, PlaceKeeps
<1>2. ASSUME NEW chips \in Seq(Size), NEW w \in Width, Relayout(chips, w) PROVE LayoutInv'
  BY <1>2, EmptyKeeps DEF Relayout
<1>3. CASE Rebuild
  <2>1. << >> \in Seq(Size)
    OBVIOUS
  <2>2. QED
    BY <1>0, <1>2, <1>3, <2>1 DEF Rebuild
<1>4. ASSUME NEW size \in Size, AddItem(size) PROVE LayoutInv'
  <2>1. Append(items, size) \in Seq(Size)
    BY <1>0
  <2>2. QED
    BY <1>0, <1>2, <1>4, <2>1 DEF AddItem
<1>5. ASSUME NEW w \in Width, Resize(w) PROVE LayoutInv'
  BY <1>0, <1>2, <1>5 DEF Resize
<1>6. CASE UNCHANGED vars
  BY <1>6 DEF vars, LayoutInv, LoopOK, LinesApart, NextBehindLast, NoOverlap, InsideWidth, placed
<1>7. QED
  BY <1>1, <1>3, <1>4, <1>5, <1>6 DEF Next

\* The layout's invariant.
LEMMA LayoutAlways == Spec => []LayoutInv
BY LayoutInit, LayoutNext, PTL DEF Spec

\* No two chips of a row overlap, however many there are and whatever their sizes
\* (do_layout, schedext-window-internal.cpp:210-229).
THEOREM ChipsNeverOverlap == Spec => []NoOverlap
<1>1. LayoutInv => NoOverlap
  BY DEF LayoutInv
<1>2. QED
  BY LayoutAlways, <1>1, PTL

\* Only a chip at the left edge, wider than the row by itself, may be cut off.
THEOREM ChipsStayInside == Spec => []InsideWidth
<1>1. LayoutInv => InsideWidth
  BY DEF LayoutInv
<1>2. QED
  BY LayoutAlways, <1>1, PTL

-----------------------------------------------------------------------------
\* A row whose loop begins is in step with its height.
LEMMA BeginsInStep ==
  ASSUME NEW chips \in Seq(Size), NEW w \in Width, Len(chips) <= MaxChips,
         items' = chips, width' = w, row' = EmptyRow, height' = ComputeHeight(chips, w)
  PROVE  HeightInv'
<1>1. LayoutInv'
  BY EmptyKeeps
<1>2. placed' = << >> /\ row'.x = 0 /\ row'.y = 0 /\ row'.h = 0
  BY DEF EmptyRow, placed
<1>3. Len(placed') = 0
  BY <1>2
<1>4. OnReach'
  <2>1. Reach(items')[0] = 0
    BY ReachSteps
  <2>2. row'.x = Reach(items')[Len(placed')] - Reach(items')[0] /\ 0 \in 0..Len(placed')
    BY <1>2, <1>3, <2>1
  <2>3. QED
    BY <2>2 DEF OnReach
<1>5. InStep'
  <2>1. Lines(items', width')[0] = [x |-> 0, y |-> 0, h |-> 0]
    BY LinesSteps
  <2>2. Measured' = [x |-> 0, y |-> 0, h |-> 0]
    BY <1>3, <2>1 DEF Measured
  <2>3. QED
    BY <1>2, <2>2 DEF InStep
<1>6. TallestOnLine'
  BY <1>2 DEF TallestOnLine
<1>7. QED
  BY <1>1, <1>4, <1>5, <1>6 DEF HeightInv

\* No chip, no height.
LEMMA HeightInit == Init => HeightInv
<1> SUFFICES ASSUME Init PROVE HeightInv
  OBVIOUS
<1>1. LayoutInv
  BY LayoutInit
<1>2. /\ items = << >> /\ placed = << >> /\ Len(placed) = 0 /\ Len(items) = 0
      /\ row.x = 0 /\ row.y = 0 /\ row.h = 0 /\ height = 0
  BY DEF Init, EmptyRow, placed
<1>3. Reach(items)[0] = 0 /\ Lines(items, width)[0] = [x |-> 0, y |-> 0, h |-> 0]
  <2>1. items \in Seq(Size)
    BY <1>2
  <2>2. QED
    BY <2>1, ReachSteps, LinesSteps
<1>4. height = ComputeHeight(items, width)
  BY <1>2, <1>3 DEF ComputeHeight
<1>5. OnReach
  <2>1. row.x = Reach(items)[Len(placed)] - Reach(items)[0] /\ 0 \in 0..Len(placed)
    BY <1>2, <1>3
  <2>2. QED
    BY <2>1 DEF OnReach
<1>6. InStep
  BY <1>2, <1>3 DEF InStep, Measured
<1>7. TallestOnLine
  BY <1>2 DEF TallestOnLine
<1>8. Len(items) <= MaxChips
  BY <1>2, LayoutAssumption
<1>9. QED
  BY <1>1, <1>4, <1>5, <1>6, <1>7, <1>8 DEF HeightInv

\* A turn of do_layout's loop and the same turn of compute_height's end on the
\* same line: they decide differently only about a chip that would end on the
\* row's last pixel.
LEMMA PlaceInStep == ASSUME HeightInv, Place PROVE HeightInv'
<1>0. LayoutInv /\ LoopOK /\ NextBehindLast /\ OnReach /\ InStep /\ TallestOnLine
  BY DEF HeightInv, LayoutInv
<1> DEFINE item == items[Len(placed) + 1]
<1>i. item \in Size
  BY <1>0, PlaceShape
<1>1. PICK x \in Nat, y \in Nat, h \in Nat :
           /\ placed' = Append(placed, [x |-> x, y |-> y, w |-> item.w, h |-> item.h])
           /\ row'.x = x + item.w + m_h_spacing /\ row'.y = y /\ row'.h = h
           /\ row' \in [x : Nat, y : Nat, h : Nat, placed : Seq(Rectangle)]
           /\ \/ /\ row.x > 0 /\ row.x + item.w >= width
                 /\ x = 0 /\ y = row.y + row.h + m_v_spacing /\ h = item.h
              \/ /\ row.x = 0 \/ row.x + item.w < width
                 /\ x = row.x /\ y = row.y /\ h = MaxOf(row.h, item.h)
                 /\ h >= row.h /\ h >= item.h
  BY <1>0, PlaceShape
<1> DEFINE k == Len(placed)
           R(n) == Reach(items)[n]
<1>2. /\ items \in Seq(Size) /\ UNCHANGED <<items, width, height>>
      /\ placed \in Seq(Rectangle) /\ k \in Nat /\ k + 1 \in 1..Len(items)
  BY <1>0 DEF LoopOK, placed, Place, LaidOut
<1>3. /\ item.w \in Nat \ {0} /\ item.h \in Nat \ {0} /\ width \in Nat
      /\ m_h_spacing \in Nat /\ m_v_spacing \in Nat
      /\ row.x \in Nat /\ row.y \in Nat /\ row.h \in Nat
  BY <1>0, <1>i, LayoutAssumption DEF LoopOK
<1>4. Len(placed') = k + 1
  BY <1>1, <1>2
<1>5. R(k) \in Nat /\ R(k + 1) = R(k) + item.w + m_h_spacing
  <2>1. k \in 0..Len(items) /\ (k + 1) - 1 = k
    BY <1>2
  <2>2. QED
    BY <1>2, <2>1, ReachSteps
<1>6. PICK j \in 0..k : row.x = R(k) - R(j)
  BY <1>0 DEF OnReach
<1>j. R(j) \in Nat /\ R(k + 1) \in Nat
  <2>1. j \in 0..Len(items) /\ k + 1 \in 0..Len(items)
    BY <1>2
  <2>2. QED
    BY <1>2, <2>1, ReachSteps
<1>7. LayoutInv'
  BY <1>0, PlaceKeeps
<1>8. OnReach'
  <2>1. CASE x = 0
    <3>1. row'.x = R(k + 1) - R(k)
      BY <1>1, <1>3, <1>5, <2>1
    <3>2. k \in 0..Len(placed') /\ row'.x = Reach(items')[Len(placed')] - Reach(items')[k]
      BY <1>2, <1>4, <3>1
    <3>3. QED
      BY <3>2 DEF OnReach
  <2>2. CASE x = row.x
    <3>1. row'.x = R(k + 1) - R(j)
      <4> HIDE DEF R, k, item
      <4>1. row'.x = (R(k) - R(j)) + item.w + m_h_spacing
        BY <1>1, <1>6, <2>2
      <4>2. QED
        BY <1>3, <1>5, <1>j, <4>1
    <3>2. j \in 0..Len(placed') /\ row'.x = Reach(items')[Len(placed')] - Reach(items')[j]
      BY <1>2, <1>4, <3>1
    <3>3. QED
      BY <3>2 DEF OnReach
  <2>3. QED
    BY <1>1, <2>1, <2>2
<1>9. InStep'
  <2> SUFFICES ASSUME ~FillsALine'
               PROVE  Measured'.x = row'.x /\ Measured'.y = row'.y /\ Measured'.h = row'.h
    BY DEF InStep
  <2>1. ~FillsALine
    BY <1>2 DEF FillsALine
  <2>2. Measured.x = row.x /\ Measured.y = row.y /\ Measured.h = row.h
    BY <1>0, <2>1 DEF InStep
  <2>3. Measured' = HeightStep(Measured, item, width)
    <3>1. Lines(items, width)[k + 1] = HeightStep(Lines(items, width)[(k + 1) - 1], item, width)
      BY <1>2, LinesSteps
    <3>2. (k + 1) - 1 = k
      BY <1>2
    <3>3. QED
      BY <1>2, <1>4, <3>1, <3>2 DEF Measured
  <2>4. row.x + item.w # width
    <3>1. j \in 0..((k + 1) - 1) /\ k + 1 \in DOMAIN items
      BY <1>2
    <3>2. R(k + 1) - R(j) # width + m_h_spacing
      BY <2>1, <3>1 DEF FillsALine
    <3>3. QED
      <4> HIDE DEF R, k, item
      <4>1. QED
        BY <1>3, <1>5, <1>6, <1>j, <3>2
  <2> DEFINE line == Measured
  <2>5. Measured' = HeightStep(line, item, width) /\ line.x = row.x /\ line.y = row.y /\ line.h = row.h
    BY <2>2, <2>3
  <2> HIDE DEF line, item, k
  <2>6. CASE row.x > 0 /\ row.x + item.w > width
    <3>1. Measured' = [x |-> item.w + m_h_spacing, y |-> row.y + row.h + m_v_spacing, h |-> item.h]
      BY <2>5, <2>6 DEF HeightStep
    <3>2. x = 0 /\ y = row.y + row.h + m_v_spacing /\ h = item.h
      BY <1>1, <1>3, <2>6
    <3>3. QED
      BY <1>1, <1>3, <3>1, <3>2
  <2>7. CASE ~(row.x > 0 /\ row.x + item.w > width)
    <3>1. Measured' = [x |-> row.x + item.w + m_h_spacing, y |-> row.y, h |-> MaxOf(row.h, item.h)]
      BY <2>5, <2>7 DEF HeightStep
    <3>2. row.x = 0 \/ row.x + item.w < width
      BY <1>3, <2>4, <2>7
    <3>3. x = row.x /\ y = row.y /\ h = MaxOf(row.h, item.h)
      <4>1. CASE row.x = 0
        BY <1>1, <4>1
      <4>2. CASE row.x + item.w < width
        <5>1. ~(row.x + item.w >= width)
          BY <1>3, <4>2
        <5>2. QED
          BY <1>1, <5>1
      <4>3. QED
        BY <3>2, <4>1, <4>2
    <3>4. QED
      BY <1>1, <3>1, <3>3
  <2>8. QED
    BY <2>6, <2>7
<1>10. TallestOnLine'
  <2> DEFINE new == [x |-> x, y |-> y, w |-> item.w, h |-> item.h]
  <2>1. /\ DOMAIN placed' = 1..(k + 1) /\ DOMAIN placed = 1..k
        /\ placed'[k + 1] = new /\ \A i \in 1..k : placed'[i] = placed[i]
    BY <1>1, <1>2
  <2>2. CASE h = item.h
    <3>1. placed'[k + 1].y = row'.y /\ placed'[k + 1].h = row'.h /\ k + 1 \in DOMAIN placed'
      BY <1>1, <1>2, <2>1, <2>2
    <3>2. QED
      BY <3>1 DEF TallestOnLine
  <2>3. CASE h # item.h
    <3>1. y = row.y /\ h = row.h /\ row.h > item.h
      BY <1>1, <1>3, <2>3 DEF MaxOf
    <3>2. placed # << >>
      BY <1>0, <1>3, <3>1 DEF NextBehindLast
    <3>3. PICK i \in 1..k : placed[i].y = row.y /\ placed[i].h = row.h
      BY <1>0, <2>1, <3>2 DEF TallestOnLine
    <3>4. placed'[i].y = row'.y /\ placed'[i].h = row'.h /\ i \in DOMAIN placed'
      BY <1>1, <1>2, <2>1, <3>1, <3>3
    <3>5. QED
      BY <3>4 DEF TallestOnLine
  <2>4. QED
    BY <2>2, <2>3
<1>11. QED
  BY <1>2, <1>7, <1>8, <1>9, <1>10 DEF HeightInv

\* Every step keeps the invariant.
LEMMA HeightNext == HeightInv /\ [Next]_vars => HeightInv'
<1> SUFFICES ASSUME HeightInv, [Next]_vars PROVE HeightInv'
  OBVIOUS
<1>0. items \in Seq(Size) /\ width \in Width /\ Len(items) <= MaxChips
  BY DEF HeightInv, LayoutInv, LoopOK
<1>1. CASE Place
  BY <1>1, PlaceInStep
<1>2. ASSUME NEW chips \in Seq(Size), NEW w \in Width, Len(chips) <= MaxChips, Relayout(chips, w)
      PROVE  HeightInv'
  BY <1>2, BeginsInStep DEF Relayout
<1>3. CASE Rebuild
  <2>1. << >> \in Seq(Size) /\ Len(<< >>) <= MaxChips
    BY LayoutAssumption
  <2>2. QED
    BY <1>0, <1>2, <1>3, <2>1 DEF Rebuild
<1>4. ASSUME NEW size \in Size, AddItem(size) PROVE HeightInv'
  <2>1. Append(items, size) \in Seq(Size) /\ Len(Append(items, size)) <= MaxChips
    BY <1>0, <1>4, LayoutAssumption DEF AddItem
  <2>2. QED
    BY <1>0, <1>2, <1>4, <2>1 DEF AddItem
<1>5. ASSUME NEW w \in Width, Resize(w) PROVE HeightInv'
  BY <1>0, <1>2, <1>5 DEF Resize
<1>6. CASE UNCHANGED vars
  <2>1. LayoutInv'
    BY <1>6, LayoutNext DEF HeightInv
  <2>2. UNCHANGED <<items, width, height, row>> /\ placed' = placed
    BY <1>6 DEF vars, placed
  <2>3. QED
    BY <2>1, <2>2 DEF HeightInv, OnReach, InStep, TallestOnLine, Measured, FillsALine
<1>7. QED
  BY <1>1, <1>3, <1>4, <1>5, <1>6 DEF Next

\* The height's invariant.
LEMMA HeightAlways == Spec => []HeightInv
BY HeightInit, HeightNext, PTL DEF Spec

\* A row has no more chips than MaxChips, its loop places no more than it has,
\* and the height it asks for is a number.
THEOREM LayoutTypeCorrect == Spec => []TypeOK
<1>1. HeightInv => TypeOK
  <2> SUFFICES ASSUME HeightInv PROVE TypeOK
    OBVIOUS
  <2>1. /\ items \in Seq(Size) /\ width \in Width /\ Len(placed) <= Len(items)
        /\ Len(items) <= MaxChips /\ height = ComputeHeight(items, width)
    BY DEF HeightInv, LayoutInv, LoopOK
  <2>2. height \in Nat
    BY <2>1, ComputeHeightType
  <2>3. QED
    BY <2>1, <2>2 DEF TypeOK
<1>2. QED
  BY HeightAlways, <1>1, PTL

\* The height heightForWidth asks for (compute_height,
\* schedext-window-internal.cpp:188-208) is the one the chips then take in
\* setGeometry, neither less nor more, for any chips and any width, unless they
\* fill some line to its last pixel.
THEOREM ReservedHeightIsExact == Spec => []HeightIsExact
<1>1. HeightInv => HeightIsExact
  <2> SUFFICES ASSUME HeightInv, LaidOut, placed # << >>, ~FillsALine
               PROVE  /\ \A i \in DOMAIN placed : placed[i].y + placed[i].h <= height
                      /\ \E i \in DOMAIN placed : placed[i].y + placed[i].h = height
    BY DEF HeightIsExact
  <2>1. LoopOK /\ LinesApart /\ InStep /\ TallestOnLine
    BY DEF HeightInv, LayoutInv
  <2>2. height = row.y + row.h
    BY <2>1 DEF HeightInv, InStep, Measured, ComputeHeight, LaidOut
  <2>3. /\ row.y \in Nat /\ row.h \in Nat
        /\ \A i \in DOMAIN placed : placed[i].y \in Nat /\ placed[i].h \in Nat
    <3>1. row.y \in Nat /\ row.h \in Nat /\ placed \in Seq(Rectangle)
      BY <2>1 DEF LoopOK, placed
    <3>2. \A i \in DOMAIN placed : placed[i] \in Rectangle
      BY <3>1
    <3>3. QED
      BY <3>1, <3>2 DEF Rectangle
  <2>4. \A i \in DOMAIN placed : placed[i].y + placed[i].h <= height
    BY <2>1, <2>2, <2>3 DEF LinesApart
  <2>5. \E i \in DOMAIN placed : placed[i].y + placed[i].h = height
    BY <2>1, <2>2 DEF TallestOnLine
  <2>6. QED
    BY <2>4, <2>5
<1>2. QED
  BY HeightAlways, <1>1, PTL

-----------------------------------------------------------------------------
\* The line compute_height is on, for another width, when do_layout is on its own.
MeasuredAt(w) == Lines(items, w)[Len(placed)]

\* How far one line of equal chips is below the one before.
Pitch == items[1].h + m_v_spacing

\* For a narrower row compute_height is on the same line and at least as far, or
\* on a later line.
Behind(w) ==
  /\ \/ MeasuredAt(w).y = row.y /\ row.x <= MeasuredAt(w).x
     \/ \E k \in Nat \ {0} : MeasuredAt(w).y = row.y + k * Pitch
  /\ MeasuredAt(w).h = row.h
  /\ placed = << >> => MeasuredAt(w).x = 0
  /\ placed # << >> => row.h = items[1].h

NarrowInv ==
  /\ LayoutInv
  /\ OneHeight => \A w \in Width : w < width => Behind(w)

\* A row whose loop begins is not ahead of a narrower one.
LEMMA BeginsBehind ==
  ASSUME NEW chips \in Seq(Size), NEW w \in Width,
         items' = chips, width' = w, row' = EmptyRow
  PROVE  NarrowInv'
<1>1. LayoutInv'
  BY EmptyKeeps
<1>2. placed' = << >> /\ row'.x = 0 /\ row'.y = 0 /\ row'.h = 0 /\ Len(placed') = 0
  BY DEF EmptyRow, placed
<1>3. ASSUME NEW v \in Width PROVE Behind(v)'
  <2>1. Lines(items', v)[0] = [x |-> 0, y |-> 0, h |-> 0]
    BY LinesSteps
  <2>2. MeasuredAt(v)' = [x |-> 0, y |-> 0, h |-> 0]
    BY <1>2, <2>1 DEF MeasuredAt
  <2>3. QED
    BY <1>2, <2>2 DEF Behind
<1>4. QED
  BY <1>1, <1>3 DEF NarrowInv

\* The same chip after do_layout's row (x, y) and compute_height's line (lx, ly)
\* of a narrower row, both on one line: where the row wraps, the line does.
LEMMA SameLineTurns ==
  ASSUME NEW chip \in Nat \ {0}, NEW p \in Nat, NEW gap \in Nat,
         NEW wide \in Nat, NEW w \in Nat, w < wide,
         NEW x \in Nat, NEW y \in Nat, NEW lx \in Nat, NEW ly \in Nat,
         NEW x1, NEW y1, NEW lx1, NEW ly1,
         \/ x > 0 /\ x + chip >= wide /\ x1 = chip + gap /\ y1 = y + p
         \/ (x = 0 \/ x + chip < wide) /\ x1 = x + chip + gap /\ y1 = y,
         \/ lx > 0 /\ lx + chip > w /\ lx1 = chip + gap /\ ly1 = ly + p
         \/ ~(lx > 0 /\ lx + chip > w) /\ lx1 = lx + chip + gap /\ ly1 = ly,
         ly = y, x <= lx
  PROVE  (ly1 = y1 /\ x1 <= lx1) \/ ly1 = y1 + p
OBVIOUS

\* ... and with the line q below: it stays ahead by q, gains or loses one line,
\* and where it loses one it is at least as far on its own.
LEMMA LaterLineTurns ==
  ASSUME NEW chip \in Nat \ {0}, NEW p \in Nat, NEW gap \in Nat,
         NEW wide \in Nat, NEW w \in Nat,
         NEW x \in Nat, NEW y \in Nat, NEW lx \in Nat, NEW ly \in Nat, NEW q \in Nat,
         NEW x1, NEW y1, NEW lx1, NEW ly1,
         \/ x > 0 /\ x + chip >= wide /\ x1 = chip + gap /\ y1 = y + p
         \/ (x = 0 \/ x + chip < wide) /\ x1 = x + chip + gap /\ y1 = y,
         \/ lx > 0 /\ lx + chip > w /\ lx1 = chip + gap /\ ly1 = ly + p
         \/ ~(lx > 0 /\ lx + chip > w) /\ lx1 = lx + chip + gap /\ ly1 = ly,
         ly = y + q
  PROVE  \/ ly1 = y1 + q
         \/ ly1 = y1 + (q + p)
         \/ ly1 = y1 + (q - p) /\ x1 <= lx1
OBVIOUS

\* A turn of do_layout's loop that takes a new line has compute_height on a new
\* line too, or already on a later one.
LEMMA PlaceBehind == ASSUME NarrowInv, Place PROVE NarrowInv'
<1>0. LayoutInv /\ LoopOK /\ NextBehindLast
  BY DEF NarrowInv, LayoutInv
<1>1. LayoutInv'
  BY <1>0, PlaceKeeps
<1> SUFFICES ASSUME OneHeight', NEW w \in Width, w < width' PROVE Behind(w)'
  BY <1>1 DEF NarrowInv
<1> DEFINE item == items[Len(placed) + 1]
           k == Len(placed)
           line == MeasuredAt(w)
<1>i. item \in Size
  BY <1>0, PlaceShape
<1>2. PICK x \in Nat, y \in Nat, h \in Nat :
           /\ placed' = Append(placed, [x |-> x, y |-> y, w |-> item.w, h |-> item.h])
           /\ row'.x = x + item.w + m_h_spacing /\ row'.y = y /\ row'.h = h
           /\ \/ /\ row.x > 0 /\ row.x + item.w >= width
                 /\ x = 0 /\ y = row.y + row.h + m_v_spacing /\ h = item.h
              \/ /\ row.x = 0 \/ row.x + item.w < width
                 /\ x = row.x /\ y = row.y /\ h = MaxOf(row.h, item.h)
  BY <1>0, PlaceShape
<1>3. /\ items \in Seq(Size) /\ UNCHANGED <<items, width>>
      /\ placed \in Seq(Rectangle) /\ k \in Nat /\ k + 1 \in 1..Len(items)
  BY <1>0 DEF LoopOK, placed, Place, LaidOut
<1>4. /\ item.w \in Nat \ {0} /\ item.h \in Nat \ {0} /\ width \in Nat /\ w \in Nat
      /\ m_h_spacing \in Nat /\ m_v_spacing \in Nat
      /\ row.x \in Nat /\ row.y \in Nat /\ row.h \in Nat
  BY <1>0, <1>i, LayoutAssumption DEF LoopOK
<1>5. OneHeight /\ w < width /\ Behind(w)
  <2>1. OneHeight /\ w < width
    BY <1>3 DEF OneHeight
  <2>2. QED
    BY <2>1 DEF NarrowInv
<1>6. item.h = items[1].h /\ Pitch = item.h + m_v_spacing /\ Pitch \in Nat /\ Pitch' = Pitch
  <2>1. 1 \in DOMAIN items /\ k + 1 \in DOMAIN items
    BY <1>3
  <2>2. items[k + 1].h = items[1].h
    BY <1>5, <2>1 DEF OneHeight
  <2>3. QED
    BY <1>3, <1>4, <2>2 DEF Pitch
<1>7. line \in Line /\ MeasuredAt(w)' = HeightStep(line, item, w)
  <2>1. Len(placed') = k + 1
    BY <1>2, <1>3
  <2>2. /\ (k + 1) - 1 = k /\ k \in 0..Len(items)
        /\ Lines(items, w)[k + 1] = HeightStep(Lines(items, w)[(k + 1) - 1], item, w)
    BY <1>3, LinesSteps
  <2>3. Lines(items, w)[k] \in Line
    BY <1>3, <2>2, LinesSteps
  <2>4. QED
    BY <1>3, <2>1, <2>2, <2>3 DEF MeasuredAt
<1>8. /\ line.x \in Nat /\ line.y \in Nat /\ line.h \in Nat /\ line.h = row.h
      /\ row.x > 0 => row.h = item.h
      /\ line.x > 0 => row.h = item.h
      /\ row.h = 0 \/ row.h = item.h
      /\ placed' # << >>
  <2>1. line.x \in Nat /\ line.y \in Nat /\ line.h \in Nat
    BY <1>7 DEF Line
  <2>2. CASE placed = << >>
    BY <1>0, <1>2, <1>3, <1>5, <2>1, <2>2 DEF Behind, NextBehindLast
  <2>3. CASE placed # << >>
    BY <1>2, <1>3, <1>5, <1>6, <2>1, <2>3 DEF Behind
  <2>4. QED
    BY <2>2, <2>3
<1> DEFINE next == MeasuredAt(w)'
<1>9. \/ /\ line.x > 0 /\ line.x + item.w > w
         /\ next.x = item.w + m_h_spacing /\ next.y = line.y + Pitch /\ next.h = item.h
      \/ /\ ~(line.x > 0 /\ line.x + item.w > w)
         /\ next.x = line.x + item.w + m_h_spacing /\ next.y = line.y /\ next.h = item.h
  <2>1. CASE line.x > 0 /\ line.x + item.w > w
    <3>1. next = [x |-> item.w + m_h_spacing, y |-> line.y + line.h + m_v_spacing, h |-> item.h]
      BY <1>7, <2>1 DEF HeightStep
    <3>2. line.y + line.h + m_v_spacing = line.y + Pitch
      BY <1>4, <1>6, <1>8, <2>1
    <3>3. QED
      BY <2>1, <3>1, <3>2
  <2>2. CASE ~(line.x > 0 /\ line.x + item.w > w)
    <3>1. next = [x |-> line.x + item.w + m_h_spacing, y |-> line.y, h |-> MaxOf(line.h, item.h)]
      BY <1>7, <2>2 DEF HeightStep
    <3>2. MaxOf(line.h, item.h) = item.h
      BY <1>4, <1>8 DEF MaxOf
    <3>3. QED
      BY <2>2, <3>1, <3>2
  <2>3. QED
    BY <2>1, <2>2
<1>10. \/ /\ row.x > 0 /\ row.x + item.w >= width
          /\ row'.x = item.w + m_h_spacing /\ row'.y = row.y + Pitch /\ row'.h = item.h
       \/ /\ row.x = 0 \/ row.x + item.w < width
          /\ row'.x = row.x + item.w + m_h_spacing /\ row'.y = row.y /\ row'.h = item.h
  <2>1. MaxOf(row.h, item.h) = item.h
    BY <1>4, <1>8 DEF MaxOf
  <2>2. row.x > 0 => row.y + row.h + m_v_spacing = row.y + Pitch
    BY <1>4, <1>6, <1>8
  <2>3. QED
    BY <1>2, <1>4, <2>1, <2>2
<1>11. \/ next.y = row'.y /\ row'.x <= next.x
       \/ \E m \in Nat \ {0} : next.y = row'.y + m * Pitch
  <2> DEFINE chip == item.w  p == Pitch  x1 == row'.x  y1 == row'.y  lx1 == next.x  ly1 == next.y
             lx == line.x  ly == line.y  x0 == row.x  y0 == row.y
  <2>1. /\ chip \in Nat \ {0} /\ p \in Nat /\ width \in Nat /\ w \in Nat /\ w < width
        /\ m_h_spacing \in Nat
        /\ x0 \in Nat /\ y0 \in Nat /\ lx \in Nat /\ ly \in Nat
    BY <1>4, <1>5, <1>6, <1>8
  <2>2. \/ x0 > 0 /\ x0 + chip >= width /\ x1 = chip + m_h_spacing /\ y1 = y0 + p
        \/ (x0 = 0 \/ x0 + chip < width) /\ x1 = x0 + chip + m_h_spacing /\ y1 = y0
    BY <1>10
  <2>3. \/ lx > 0 /\ lx + chip > w /\ lx1 = chip + m_h_spacing /\ ly1 = ly + p
        \/ ~(lx > 0 /\ lx + chip > w) /\ lx1 = lx + chip + m_h_spacing /\ ly1 = ly
    BY <1>9
  <2>4. \/ ly = y0 /\ x0 <= lx
        \/ \E m \in Nat \ {0} : ly = y0 + m * p
    BY <1>5 DEF Behind
  <2> SUFFICES \/ ly1 = y1 /\ x1 <= lx1
               \/ \E m \in Nat \ {0} : ly1 = y1 + m * p
    OBVIOUS
  <2> HIDE DEF chip, p, x1, y1, lx1, ly1, lx, ly, x0, y0
  <2>5. CASE ly = y0 /\ x0 <= lx
    <3>1. (ly1 = y1 /\ x1 <= lx1) \/ ly1 = y1 + p
      BY <2>1, <2>2, <2>3, <2>5, SameLineTurns
    <3>2. 1 * p = p
      BY <2>1
    <3>3. QED
      BY <3>1, <3>2
  <2>6. ASSUME NEW m \in Nat \ {0}, ly = y0 + m * p
        PROVE  \/ ly1 = y1 /\ x1 <= lx1
               \/ \E l \in Nat \ {0} : ly1 = y1 + l * p
    <3> DEFINE q == m * p
    <3>1. q \in Nat /\ ly = y0 + q
      BY <2>1, <2>6
    <3>2. (m + 1) * p = q + p /\ (m - 1) * p = q - p /\ (m = 1 => q = p)
      BY <2>1
    <3>3. y1 \in Nat
      BY <2>1, <2>2
    <3> HIDE DEF q
    <3>4. ly1 = y1 + q \/ ly1 = y1 + (q + p) \/ (ly1 = y1 + (q - p) /\ x1 <= lx1)
      BY <2>1, <2>2, <2>3, <3>1, LaterLineTurns
    <3>5. CASE ly1 = y1 + q
      BY <3>5 DEF q
    <3>6. CASE ly1 = y1 + (q + p)
      <4>1. m + 1 \in Nat \ {0} /\ ly1 = y1 + (m + 1) * p
        BY <3>2, <3>6
      <4>2. QED
        BY <4>1
    <3>7. CASE ly1 = y1 + (q - p) /\ x1 <= lx1
      <4>1. CASE m = 1
        <5>1. q - p = 0
          BY <2>1, <3>2, <4>1
        <5>2. ly1 = y1
          BY <3>3, <3>7, <5>1
        <5>3. QED
          BY <3>7, <5>2
      <4>2. CASE m # 1
        <5>1. m - 1 \in Nat \ {0} /\ ly1 = y1 + (m - 1) * p
          BY <3>2, <3>7, <4>2
        <5>2. QED
          BY <5>1
      <4>3. QED
        BY <4>1, <4>2
    <3>8. QED
      BY <3>4, <3>5, <3>6, <3>7
  <2>7. QED
    BY <2>4, <2>5, <2>6
<1>12. QED
  BY <1>6, <1>8, <1>9, <1>10, <1>11, <1>3 DEF Behind

\* Every step keeps the invariant.
LEMMA NarrowNext == NarrowInv /\ [Next]_vars => NarrowInv'
<1> SUFFICES ASSUME NarrowInv, [Next]_vars PROVE NarrowInv'
  OBVIOUS
<1>0. items \in Seq(Size) /\ width \in Width
  BY DEF NarrowInv, LayoutInv, LoopOK
<1>1. CASE Place
  BY <1>1, PlaceBehind
<1>2. ASSUME NEW chips \in Seq(Size), NEW w \in Width, Relayout(chips, w) PROVE NarrowInv'
  BY <1>2, BeginsBehind DEF Relayout
<1>3. CASE Rebuild
  <2>1. << >> \in Seq(Size)
    OBVIOUS
  <2>2. QED
    BY <1>0, <1>2, <1>3, <2>1 DEF Rebuild
<1>4. ASSUME NEW size \in Size, AddItem(size) PROVE NarrowInv'
  <2>1. Append(items, size) \in Seq(Size)
    BY <1>0
  <2>2. QED
    BY <1>0, <1>2, <1>4, <2>1 DEF AddItem
<1>5. ASSUME NEW w \in Width, Resize(w) PROVE NarrowInv'
  BY <1>0, <1>2, <1>5 DEF Resize
<1>6. CASE UNCHANGED vars
  <2>1. LayoutInv'
    BY <1>6, LayoutNext DEF NarrowInv
  <2>2. UNCHANGED <<items, width, row>> /\ placed' = placed
    BY <1>6 DEF vars, placed
  <2>3. QED
    BY <2>1, <2>2 DEF NarrowInv, Behind, MeasuredAt, Pitch, OneHeight
<1>7. QED
  BY <1>1, <1>3, <1>4, <1>5, <1>6 DEF Next

\* At first there is no chip.
LEMMA NarrowInit == Init => NarrowInv
<1> SUFFICES ASSUME Init PROVE NarrowInv
  OBVIOUS
<1>1. LayoutInv
  BY LayoutInit
<1>2. /\ items = << >> /\ items \in Seq(Size) /\ placed = << >> /\ Len(placed) = 0
      /\ row.x = 0 /\ row.y = 0 /\ row.h = 0
  BY DEF Init, EmptyRow, placed
<1>3. ASSUME NEW w \in Width PROVE Behind(w)
  <2>1. MeasuredAt(w) = [x |-> 0, y |-> 0, h |-> 0]
    BY <1>2, LinesSteps DEF MeasuredAt
  <2>2. QED
    BY <1>2, <2>1 DEF Behind
<1>4. QED
  BY <1>1, <1>3 DEF NarrowInv

\* A height that compute_height finds at some width holds equal chips as
\* do_layout places them at every greater width, for any number of chips and any
\* widths, also where a chip ends on the row's last pixel: what the band of the
\* card rests on, whose height was measured at the smallest width only
\* (schedext-window-internal.hpp:66-71).
THEOREM NarrowMeasureAlwaysHolds == Spec => []NarrowMeasureHolds
<1>1. NarrowInv => NarrowMeasureHolds
  <2> SUFFICES ASSUME NarrowInv, LaidOut, OneHeight, NEW w \in Width, w < width,
                      NEW i \in DOMAIN placed
               PROVE  placed[i].y + placed[i].h <= ComputeHeight(items, w)
    BY DEF NarrowMeasureHolds
  <2>1. LoopOK /\ LinesApart /\ Behind(w) /\ placed # << >>
    BY DEF NarrowInv, LayoutInv
  <2>2. /\ row.y \in Nat /\ row.h \in Nat
        /\ placed[i].y \in Nat /\ placed[i].h \in Nat
    <3>1. row.y \in Nat /\ row.h \in Nat /\ placed[i] \in Rectangle
      BY <2>1 DEF LoopOK, placed
    <3>2. QED
      BY <3>1 DEF Rectangle
  <2>3. placed[i].y + placed[i].h <= row.y + row.h
    BY <2>1, <2>2 DEF LinesApart
  <2>4. Pitch \in Nat
    <3>1. items \in Seq(Size) /\ 1 \in DOMAIN items
      BY <2>1 DEF LoopOK, LaidOut
    <3>2. QED
      BY <3>1, LayoutAssumption DEF Pitch
  <2>5. MeasuredAt(w).y >= row.y /\ MeasuredAt(w).h = row.h
    <3>1. ASSUME NEW m \in Nat \ {0}, MeasuredAt(w).y = row.y + m * Pitch
          PROVE  MeasuredAt(w).y >= row.y
      <4>1. m * Pitch \in Nat
        BY <2>4
      <4>2. QED
        BY <2>2, <3>1, <4>1
    <3>2. QED
      BY <2>1, <2>2, <3>1 DEF Behind
  <2>6. ComputeHeight(items, w) = MeasuredAt(w).y + MeasuredAt(w).h /\ MeasuredAt(w).y \in Nat
    <3>1. ComputeHeight(items, w) = MeasuredAt(w).y + MeasuredAt(w).h
      BY DEF ComputeHeight, MeasuredAt, LaidOut
    <3>2. MeasuredAt(w) \in Line
      <4>1. items \in Seq(Size) /\ Len(placed) \in 0..Len(items)
        BY <2>1 DEF LoopOK, LaidOut
      <4>2. QED
        BY <4>1, LinesSteps DEF MeasuredAt
    <3>3. QED
      BY <3>1, <3>2 DEF Line
  <2>7. QED
    BY <2>2, <2>3, <2>5, <2>6
<1>2. QED
  BY NarrowInit, NarrowNext, <1>1, PTL DEF Spec
=============================================================================
