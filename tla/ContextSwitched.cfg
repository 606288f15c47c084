SPECIFICATION MCSpec
CONSTANTS
  Windows = {0, 10, 20}
  Tokenisers = {1, 2}
  Languages <- MCLanguages
  Sizes = {4, 32}
  Fixed = 8
  Frame = 16
  Stub = 4
  MinDemotable = 8
  SummaryTokens = 4
  SummaryChars = 12
  MinSample = 8
  MinSaving = 2
  HistoryBudget = 16
  Reserve = 0
  KeepRecent = 3
  HostBudgets = {1, 12}
  DemotionLadder <- MCLadder
  MaxMessages = 4
  MaxRequests = 2
  MaxMade = 6
  MaxResults = 2
  MaxTurns = 2
  Prompts = {1, 2}
CHECK_DEADLOCK FALSE
INVARIANT
  SwitchedFits
