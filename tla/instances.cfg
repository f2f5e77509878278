SPECIFICATION FairLaunchSpec
CONSTANTS
  l1 = l1
  l2 = l2
  l3 = l3
  Launches = {l1, l2, l3}
  Nobody = Nobody
  Hazards = {"bind", "boot"}
INVARIANTS OneInstance Reachable
PROPERTY Answered
\* When every launch has ended nothing is left to do.
CHECK_DEADLOCK FALSE
