SPECIFICATION FairSolveSpec
CONSTANTS
  ExitCodes = {0, 1}
  Models <- MCModels
  Options <- MCOptions
  ClaimedStatuses <- MCStatuses
  MaxAttempts = 2
  MaxVersion = 2
INVARIANTS
  AcceptedResultIsReal
  TrustedResultIsAsSolved
  NothingKeepsRunning
PROPERTIES
  SolveIsSettled
CHECK_DEADLOCK FALSE
