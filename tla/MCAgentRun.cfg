SPECIFICATION FairSpec
CONSTANTS
  r1 = r1
  r2 = r2
  Run <- MCRun
  MaxRetries = 2
INVARIANTS
  UsageCoversRequests
  ExecutionsAreBounded
PROPERTIES
  RunsEnd
