SPECIFICATION Spec
CONSTANTS
  t1 = t1
  t2 = t2
  Tables = {t1, t2}
  Values = {1, 2}
  Cap = 2
  MaxMoves = 3
  Slots = 3
  None = None
INVARIANTS TypeOK  EditsOnTheirRows KeepsRead
SYMMETRY Symmetry
\* After the last move nothing is left to do.
CHECK_DEADLOCK FALSE
