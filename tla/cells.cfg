SPECIFICATION Spec
CONSTANTS
  t1 = t1
  t2 = t2
  Tables = {t1, t2}
  Rows = 3
  PageRows = 1
  Cap = 2
  Height = 2
  Sources = 2
  Kinds = {"cut"}
  Tasks = 1
  MaxMoves = 3
  None = None
INVARIANTS TypeOK Filled WholeBlock AsTyped
SYMMETRY Symmetry
\* After the last move nothing is left to do.
CHECK_DEADLOCK FALSE
