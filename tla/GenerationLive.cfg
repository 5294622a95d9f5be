SPECIFICATION FairSpec
CONSTANTS
  Requests = {r1}
  Watchdogs = {w1, w2}
  MaxCrashes = 0
  MaxRows = 1
  Scenarios <- Answering
PROPERTIES EveryMessageAnswered
CHECK_DEADLOCK FALSE
