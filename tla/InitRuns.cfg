SPECIFICATION FairSpec
CONSTANTS
  Pages = {m1, m2}
  Templates = {}
  Early = {m1}
  Keyed = {m1, m2}
  LevelOf <- MCLevelOf
  Levels = 2
  CallsFor <- MCCallsFor
  Gone = {m1}
  Modes = {"llm", "deterministic"}
  NoVersion = NoVersion
  MaxFaults = 2
  MaxEdits = 1
  MaxRuns = 2
INVARIANTS TypeOK LedgerBacked SkippedIsWritten FtsCovers FreshRunSyncs
PROPERTIES RowsFollowWiki RunsEnd
CHECK_DEADLOCK FALSE
