SPECIFICATION FairSpec
CONSTANTS
  MaxCommits = 2
  MaxEvents = 3
  MaxFailures = 1
INVARIANTS TypeOK NothingForgotten OneUpdate LockReleased
PROPERTIES Answered
CONSTRAINT ThreadsOrHook
CHECK_DEADLOCK FALSE
