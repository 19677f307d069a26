SPECIFICATION FairSpec
CONSTANTS
  r1 = r1
  r2 = r2
  Request <- MCRequest
  Kind = {"table", "pdf"}
  Output = {"figure"}
  MaxFiles = 2
  MaxRuns = 2
  MaxRevision = 4
INVARIANTS
  UnderstandingIsCurrent
  BytesBehindRows
PROPERTIES
  NothingIsLost
  RequestsEnd
CHECK_DEADLOCK FALSE
