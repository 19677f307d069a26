SPECIFICATION FairSpec
CONSTANTS
  Cases = 2
  LiteratureCases = {1}
  Executors <- MCExecutors
  RequiredCases = 2
  RequiredPasses = 1
  MaxCaseCost = 2
  MaxTotalCost = 3
  MaxOwnCalls = 3
  MaxOtherCalls = 1
INVARIANTS
  BudgetStopsLaterWork
  OverrunIsReported
  ReadyIsEarned
PROPERTIES
  RunEnds
