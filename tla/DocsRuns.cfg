SPECIFICATION FairSpec
CONSTANTS
  Files = {f, g}
  Modes = {"llm", "deterministic"}
  Unset = Unset
  Budget = 1
  MaxCommits = 2
  MaxConfigs = 1
  MaxReleases = 1
  MaxFaults = 1
INVARIANTS TypeOK DocsCovered PlannedRunHeals
PROPERTIES CatchesUp
CHECK_DEADLOCK FALSE
