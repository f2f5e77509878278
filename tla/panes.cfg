SPECIFICATION Spec
CONSTANTS
  t1 = t1
  t2 = t2
  a = a
  b = b
  Tables = {t1, t2}
  Columns = {a, b}
  MaxMoves = 4
  None = None
INVARIANTS PicksKept DrawnIsAsked Inspected
SYMMETRY Symmetry
CHECK_DEADLOCK FALSE
