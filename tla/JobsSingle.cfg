SPECIFICATION FairSpec
CONSTANTS
  j1 = j1
  j2 = j2
  r1 = r1
  r2 = r2
  NoJob = NoJob
  p1 = p1
  p2 = p2
  c1 = c1
  c2 = c2
  Jobs = {j1}
  Repos = {r1}
  RepoOf <- SameRepo
  Origins = {"api", "webhook", "poll"}
  ProgressTasks = {p1, p2}
  CancelRequests = {c1, c2}
  RoutedRepos = {}
  DeletableRepos = {r1}
  WritesMayFail = FALSE
  MaxCrashes = 1
INVARIANTS
  TypeOK
  FinalWriteIsLast
  ActiveHasOwner
  CancelWins
PROPERTIES
  JobsEnd
CHECK_DEADLOCK FALSE
