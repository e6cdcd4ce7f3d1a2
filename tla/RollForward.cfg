SPECIFICATION FairSpec
CONSTANTS
  u1 = u1
  u2 = u2
  w1 = w1
  w2 = w2
  f1 = f1
  Nobody = Nobody
  Unreadable = Unreadable
  NoMarker = NoMarker
  Updates = {u1, u2}
  Workspaces = {}
  Unprobed = {}
  Jobs = {}
  Files = {f1}
  SlowRuns = FALSE
  MaxCommits = 2
  MaxCrashes = 0
PROPERTIES
  RollsForward
CHECK_DEADLOCK FALSE
