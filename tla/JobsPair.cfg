SPECIFICATION Spec
CONSTANTS
  j1 = j1
  j2 = j2
  r1 = r1
  r2 = r2
  NoJob = NoJob
  p1 = p1
  c1 = c1
  Jobs = {j1, j2}
  Repos = {r1, r2}
  RepoOf <- OwnRepo
  Origins = {"api", "webhook"}
  ProgressTasks = {p1}
  CancelRequests = {c1}
  RoutedRepos = {}
  DeletableRepos = {r2}
  WritesMayFail = TRUE
  MaxCrashes = 1
CONSTRAINT FirstRequested
INVARIANTS
  SlotNotPoisoned
  TokensMatchTasks
PROPERTIES
  RowsFollowJobStatus
CHECK_DEADLOCK FALSE
