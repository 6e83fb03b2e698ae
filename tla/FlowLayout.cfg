\* Up to four chips of six sizes in rows of every width around theirs.
SPECIFICATION Spec
CONSTANTS
  Size <- MCSize
  Width = {1, 2, 3, 4, 5, 6, 7, 8}
  MaxChips = 4
  m_h_spacing = 1
  m_v_spacing = 1
INVARIANTS
  TypeOK
  NoOverlap
  InsideWidth
  NarrowMeasureHolds
  HeightIsExact
