SPECIFICATION RigSpec
CONSTANTS
  Uses <- Playing
  Blocks = 2
  MaxBlocks = 2
  MaxRuns = 2
  Concurrent = FALSE
CHECK_DEADLOCK FALSE
INVARIANTS PlaysThePacket
