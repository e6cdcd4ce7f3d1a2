SPECIFICATION Spec
CONSTANTS
  u1 = u1
  u2 = u2
  w1 = w1
  w2 = w2
  f1 = f1
  Nobody = Nobody
  Unreadable = Unreadable
  NoMarker = NoMarker
  Updates = {u1, u2}
  Workspaces = {w1}
  Unprobed = {}
  Jobs = {}
  Files = {f1}
  SlowRuns = FALSE
  MaxCommits = 1
  MaxCrashes = 0
INVARIANTS
  MutualExclusion
CHECK_DEADLOCK FALSE
