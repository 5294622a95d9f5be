SPECIFICATION BoundedSpec
CONSTANTS
  Messages <- MCMessages3
  Tokens <- MCTokens
  ChunkTokens = 2
  Summaries = {s1, s2, s3}
  NoSummary = NoSummary
  Tasks = {t1, t2}
  Scenarios <- Maximal
SYMMETRY Symmetric
INVARIANTS TypeOK ClaimInv RecapsTellOnce QueueMoves InFlightBounded
PROPERTIES EditsSurvive KeepsLedger
CHECK_DEADLOCK FALSE
