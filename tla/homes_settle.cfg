SPECIFICATION FairSpec
CONSTANTS
  w1 = w1
  w2 = w2
  e1 = e1
  e2 = e2
  Windows = {w1, w2}
  Edits = {}
  Absent = Absent
  Cut = Cut
  NoWindow = NoWindow
  Hazards = {"io", "reopen", "overlap", "stale"}
  Volumes = {TRUE, FALSE}
  Remembered = {TRUE, FALSE}
  MaxCrashes = 1

INVARIANT OneOwner
PROPERTY Settles
\* A session that was discarded or swept leaves nothing to do.
CHECK_DEADLOCK FALSE
