SPECIFICATION RigFairSpec
CONSTANTS
  Uses <- Keying
  Blocks = 1
  MaxBlocks = 1
  MaxRuns = 3
  Concurrent = TRUE
CHECK_DEADLOCK FALSE
INVARIANTS RigTypeOK NobodyKeyedSilently PlaysKeyed OkReleases
PROPERTIES RunsEnd
