SPECIFICATION MCSpec
CONSTANTS
  Parts = {"history", "chapters", "budget", "recall"}
  Messages <- MCMessages
  Summaries = {s1, s2}
  NoSummary = NoSummary
  Loaders = {l1}
  MaxDeleted = 1
  MaxLength = 4
  MaxTokens = 3
  Chunk = 2
  MinUsable = 2
  DefaultReserve = 2
  ReserveOf <- MCReserve
  SafeTenths = 9
  MaxHistory = 2
  MaxTurns = 3
  Unlisted = Unlisted
  NoSetting = NoSetting
  BatchSize = 2
  MaxFacts = 3
  NoNumber = NoNumber
SYMMETRY AnySummary
CHECK_DEADLOCK FALSE
INVARIANTS PromptTypeOK LedgerTells PromptTells PromptInOrder ChaptersRight BudgetIsSound RecallIsSound
PROPERTIES OffersStand
