SPECIFICATION FairSpec
CONSTANTS
  u1 = u1
  u2 = u2
  w1 = w1
  w2 = w2
  s1 = s1
  f1 = f1
  f2 = f2
  Nobody = Nobody
  Unreadable = Unreadable
  NoMarker = NoMarker
  Updates = {u1, u2}
  Workspaces = {w1, w2}
  Unprobed = {w1}
  Jobs = {s1}
  Files = {f1, f2}
  SlowRuns = TRUE
  MaxCommits = 3
  MaxCrashes = 1
CONSTRAINT PairOrThree
INVARIANTS
  TypeOK
  ExclusiveUnlessBreached
  PointerCovered
  TornOnlyByJobs
PROPERTIES
  IndexFollowsHistory
  DefersOnlyToLive
  RunsEnd
CHECK_DEADLOCK FALSE
