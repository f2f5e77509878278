SPECIFICATION Spec
CONSTANTS
  a = a
  b = b
  s1 = s1
  s2 = s2
  p1 = p1
  p2 = p2
  Machines = {a, b}
  Slots = {s1, s2}
  Pids = {p1, p2}
  None = None
INVARIANTS HeldKnowingly CleanRelease
\* Once both properties are excused, they stay so.
CONSTRAINT Unexcused
SYMMETRY Symmetry
