SPECIFICATION FairSpec
CONSTANTS
  Clients = {c1, c2}
  Closer = closer
  Aliases = {d, a, b}
  Default = d
  NoContext = NoContext
  MAX_LOADED = 1
  MaxContexts = 3
INVARIANTS TypeOK CapBound CachedIsUsable EveryContextAccounted
PROPERTIES DefaultStays NobodyWaitsForEver
CHECK_DEADLOCK FALSE
