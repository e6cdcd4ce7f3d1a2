SPECIFICATION FairSpec
CONSTANTS
  MaxCommits = 1
  MaxEvents = 2
  MaxFailures = 0
PROPERTIES LockGivenBack
CHECK_DEADLOCK FALSE
