SPECIFICATION Spec
CONSTANTS
  Messages <- MCMessages1
  Tokens <- MCTokens
  ChunkTokens = 1
  Summaries = {s1, s2}
  NoSummary = NoSummary
  Tasks = {t1, t2}
  Scenarios <- Overlapping
SYMMETRY Symmetric
PROPERTIES TerminalIsFinal
CHECK_DEADLOCK FALSE
