SPECIFICATION Spec
CONSTANTS
  j1 = j1
  j2 = j2
  r1 = r1
  r2 = r2
  NoJob = NoJob
  Jobs = {j1, j2}
  Repos = {r1}
  RepoOf <- SameRepo
  Origins = {"api"}
  ProgressTasks = {}
  CancelRequests = {}
  RoutedRepos = {}
  DeletableRepos = {}
  WritesMayFail = FALSE
  MaxCrashes = 0
INVARIANTS
  OneActiveJobPerRepo
CHECK_DEADLOCK FALSE
