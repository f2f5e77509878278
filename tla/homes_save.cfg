SPECIFICATION Spec
CONSTANTS
  w1 = w1
  w2 = w2
  e1 = e1
  e2 = e2
  Windows = {w1, w2}
  Edits = {e1, e2}
  Absent = Absent
  Cut = Cut
  NoWindow = NoWindow
  Hazards = {"io"}
  Volumes = {TRUE, FALSE}
  Remembered = {TRUE}
  MaxCrashes = 1
SYMMETRY Symmetry
INVARIANTS WorkKept UnderLock LiveHomeStays WorkOffered
PROPERTIES KeptSpec RecordGrows
\* A session that was discarded or swept leaves nothing to do.
CHECK_DEADLOCK FALSE
