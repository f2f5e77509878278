SPECIFICATION TablesSpec
CONSTANTS
  f1 = f1
  f2 = f2
  o1 = o1
  o2 = o2
  Last = 2
  Files = {f1, f2}
  Ops = {o1, o2}
  MaxCalls = 5
  Nothing = Nothing
INVARIANT Known
PROPERTY KeepsData
SYMMETRY Symmetry
\* After the last call nothing is left to do.
CHECK_DEADLOCK FALSE
