SPECIFICATION Spec
CONSTANTS
  Requests = {r1, r2}
  Watchdogs = {w1, w2}
  MaxCrashes = 1
  MaxRows = 2
  Scenarios <- Safety
SYMMETRY Symmetric
INVARIANTS TypeOK ReportInv AnswersRight
CHECK_DEADLOCK FALSE
