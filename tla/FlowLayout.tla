----------------------------- MODULE FlowLayout ------------------------------
(***************************************************************************)
(* The wrapping layout of the info card's chip rows (class FlowLayout and  *)
(* rebuild_chip_row in src/schedext-window-internal.cpp).  The card asks   *)
(* heightForWidth how tall the row will be, gives it a rectangle of that   *)
(* size, and setGeometry places the chips in it.                           *)
(***************************************************************************)
EXTENDS Integers, Sequences

CONSTANTS
  Size,        \* sizes of chips, [w |-> width, h |-> height]
  Width,       \* widths of the row
  MaxChips,    \* bound on the chips of a row
  m_h_spacing,
  m_v_spacing

ASSUME LayoutAssumption ==
  /\ Size \subseteq [w : Nat \ {0}, h : Nat \ {0}]
  /\ Width \subseteq Nat \ {0}
  /\ {MaxChips, m_h_spacing, m_v_spacing} \subseteq Nat

VARIABLES
  items,    \* m_items: the sizes of the chips, in order
  width,    \* width of the row
  height,   \* height the card has given it
  row       \* do_layout's x, y and row_height, and the rectangles it has placed

vars == <<items, width, height, row>>

placed == row.placed
EmptyRow == [x |-> 0, y |-> 0, h |-> 0, placed |-> << >>]

MaxOf(a, b) == IF a > b THEN a ELSE b

\* One turn of compute_height's loop.
HeightStep_SpacingDropped(line, item, w) ==
  IF line.x > 0 /\ line.x + item.w > w
  THEN [x |-> item.w + m_h_spacing, y |-> line.y + line.h, h |-> item.h]
  ELSE [x |-> line.x + item.w + m_h_spacing, y |-> line.y, h |-> MaxOf(line.h, item.h)]

HeightStep(line, item, w) ==
  IF line.x > 0 /\ line.x + item.w > w
  THEN [x |-> item.w + m_h_spacing, y |-> line.y + line.h + m_v_spacing, h |-> item.h]
  ELSE [x |-> line.x + item.w + m_h_spacing, y |-> line.y, h |-> MaxOf(line.h, item.h)]

\* compute_height's x, y and row_height after n chips, in a row of width w
Lines(chips, w) ==
  LET line[n \in 0..Len(chips)] ==
        IF n = 0 THEN [x |-> 0, y |-> 0, h |-> 0] ELSE HeightStep(line[n - 1], chips[n], w)
  IN line

\* compute_height, which heightForWidth returns
ComputeHeight(chips, w) ==
  LET last == Lines(chips, w)[Len(chips)] IN last.y + last.h

Right_TwoShort(w) == w - 2

\* QRect::right() of a rectangle that starts at 0: the last pixel inside it.
Right(w) == w - 1

Wraps(line, item, w) == line.x > 0 /\ line.x + item.w > Right(w)

\* `line` after `item` is placed at (x, y) in a line of height h.
PlaceAt(line, item, x, y, h) ==
  [x      |-> x + item.w + m_h_spacing,
   y      |-> y,
   h      |-> h,
   placed |-> Append(line.placed, [x |-> x, y |-> y, w |-> item.w, h |-> item.h])]

LayoutStep_RowNotReset(line, item, w) ==
  IF Wraps(line, item, w)
  THEN PlaceAt(line, item, line.x, line.y + line.h + m_v_spacing, item.h)
  ELSE PlaceAt(line, item, line.x, line.y, MaxOf(line.h, item.h))

LayoutStep_HeightOfLast(line, item, w) ==
  IF Wraps(line, item, w)
  THEN PlaceAt(line, item, 0, line.y + line.h + m_v_spacing, item.h)
  ELSE PlaceAt(line, item, line.x, line.y, item.h)

\* One turn of do_layout's loop.
LayoutStep(line, item, w) ==
  IF Wraps(line, item, w)
  THEN PlaceAt(line, item, 0, line.y + line.h + m_v_spacing, item.h)
  ELSE PlaceAt(line, item, line.x, line.y, MaxOf(line.h, item.h))

-----------------------------------------------------------------------------
Init ==
  /\ items = << >>
  /\ width \in Width
  /\ height = 0
  /\ row = EmptyRow

\* do_layout has come to its end.
LaidOut == Len(placed) = Len(items)

\* The card gives the row the height it asks for, and do_layout begins.
Relayout(chips, w) ==
  /\ LaidOut
  /\ items' = chips
  /\ width' = w
  /\ height' = ComputeHeight(chips, w)
  /\ row' = EmptyRow

\* The next turn of its loop.
Place ==
  /\ ~LaidOut
  /\ row' = LayoutStep(row, items[Len(placed) + 1], width)
  /\ UNCHANGED <<items, width, height>>

Rebuild_PlacesKept ==
  /\ LaidOut
  /\ items' = << >> /\ height' = 0
  /\ UNCHANGED <<width, row>>

\* rebuild_chip_row for another scheduler: a new layout without chips.
Rebuild == Relayout(<< >>, width)

\* ... and one chip after the other is added to it.
AddItem(size) ==
  /\ Len(items) < MaxChips
  /\ Relayout(Append(items, size), width)

\* The window is resized.
Resize(w) == w # width /\ Relayout(items, w)

Next ==
  \/ Place
  \/ Rebuild
  \/ \E size \in Size : AddItem(size)
  \/ \E w \in Width : Resize(w)

Spec == Init /\ [][Next]_vars

-----------------------------------------------------------------------------
TypeOK ==
  /\ items \in Seq(Size) /\ Len(items) <= MaxChips
  /\ width \in Width
  /\ height \in Nat
  /\ Len(placed) <= Len(items)

Disjoint(a, b) ==
  \/ a.x + a.w <= b.x \/ b.x + b.w <= a.x
  \/ a.y + a.h <= b.y \/ b.y + b.h <= a.y

\* No two chips of a row overlap, whatever their sizes and the width.
NoOverlap ==
  \A i, j \in DOMAIN placed : i # j => Disjoint(placed[i], placed[j])

\* A chip that is not at the left edge ends inside the row: only one that is
\* wider than the row by itself may be cut off.
InsideWidth ==
  \A i \in DOMAIN placed : placed[i].x > 0 => placed[i].x + placed[i].w <= width

\* How far n chips with their spacings reach on one endless line.
Reach(chips) ==
  LET end[n \in 0..Len(chips)] ==
        IF n = 0 THEN 0 ELSE end[n - 1] + chips[n].w + m_h_spacing
  IN end

\* A row that fills some line to the last pixel.
FillsALine ==
  \E i \in DOMAIN items : \E j \in 0..(i - 1) :
    Reach(items)[i] - Reach(items)[j] = width + m_h_spacing

\* When no line is filled to the last pixel, the height the card reserved is
\* exactly the one the chips take.
HeightIsExact ==
  LaidOut /\ placed # << >> /\ ~FillsALine =>
    /\ \A i \in DOMAIN placed : placed[i].y + placed[i].h <= height
    /\ \E i \in DOMAIN placed : placed[i].y + placed[i].h = height

\* The chips of a row have the same font, padding and number of text lines.
OneHeight == \A i, j \in DOMAIN items : items[i].h = items[j].h

\* A height measured at a width holds the chips, as do_layout places them, at
\* every greater width ("All fixed-band height measurements are taken at this
\* width, which keeps the no-clipping guarantee valid for every window size the
\* user can reach", schedext-window-internal.hpp:69).
NarrowMeasureHolds ==
  LaidOut /\ OneHeight =>
    \A w \in Width : w < width =>
      \A i \in DOMAIN placed : placed[i].y + placed[i].h <= ComputeHeight(items, w)

\* The reserved height holds all chips ("heightForWidth() reports the wrapped
\* height so the outer layout ... accounts for wrapping").
HeightHoldsChips ==
  \A i \in DOMAIN placed : placed[i].y + placed[i].h <= height
=============================================================================
