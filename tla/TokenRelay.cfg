SPECIFICATION FairSpec
CONSTANTS
  Batch = 2
  MaxFrames = 5
  Scenarios <- Both
INVARIANTS TypeOK StreamIsFramed TextIsWhole
PROPERTIES RelayEnds
CHECK_DEADLOCK FALSE
