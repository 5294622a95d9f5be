SPECIFICATION FairSpec
CONSTANTS
  Messages <- MCMessages2
  Tokens <- MCTokens
  ChunkTokens = 1
  Summaries = {s1, s2}
  NoSummary = NoSummary
  Tasks = {t1}
  Scenarios <- Misjudged
PROPERTIES EverySummaryEnds
CHECK_DEADLOCK FALSE
