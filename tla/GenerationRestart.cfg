SPECIFICATION FairSpec
CONSTANTS
  Requests = {r1}
  Watchdogs = {w1}
  MaxCrashes = 1
  MaxRows = 1
  Scenarios <- OnlyRestarts
PROPERTIES DeadAgentIsCaught
CHECK_DEADLOCK FALSE
