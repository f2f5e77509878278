SPECIFICATION SyncSpec
CONSTANTS
  r1 = r1
  r2 = r2
  f1 = f1
  f2 = f2
  q1 = q1
  Opened <- TwoTabs
  Files = {f1, f2}
  TableOf <- Tables
  Results = {q1}
  MaxMoves = 3
  Nothing = Nothing
INVARIANTS ShownOnce InOrder Follows
PROPERTY KeepsOpened
\* The user need not do anything more.
CHECK_DEADLOCK FALSE
