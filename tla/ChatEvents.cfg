SPECIFICATION FairSpec
CONSTANTS
  Messages <- MCMessages
  Clients = {c1, c2}
  MaxQueue = 2
  Scenarios <- NoGaps
INVARIANTS TypeOK CaughtUp
PROPERTIES MessageArrives
CHECK_DEADLOCK FALSE
