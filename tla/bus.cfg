SPECIFICATION FairSpec
CONSTANTS
  w1 = w1
  w2 = w2
  w3 = w3
  Windows = {w1, w2, w3}
  Openings = {o1, o2}
  Commands = {c1}
  Themes = {t1, t2}
  MaxPosts = 2
  None = None
INVARIANTS TypeOK NobodyAsleep InTurn Agree
PROPERTY Forwarded
\* The user may close every window.
CHECK_DEADLOCK FALSE
