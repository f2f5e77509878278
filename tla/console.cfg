SPECIFICATION ConsoleSpec
CONSTANTS
  x1 = x1
  x2 = x2
  v1 = v1
  p1 = p1
  Runs = {x1, x2}
  Reads = {p1}
  None = None
  Changes = {v1}
  MaxTabs = 2
  MaxRuns = 2
INVARIANTS CancelHeard Labelled RowsRan
SYMMETRY Symmetry
\* When every query has been made nothing is left to do.
CHECK_DEADLOCK FALSE
