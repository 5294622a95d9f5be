SPECIFICATION FairSpec
CONSTANTS
  Messages <- MCMessages
  Clients = {c1}
  MaxQueue = 2
  Scenarios <- OnlyGap
PROPERTIES MessageIsSeen
CHECK_DEADLOCK FALSE
