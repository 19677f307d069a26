SPECIFICATION FairClientsSpec
CONSTANTS
  c1 = c1
  c2 = c2
  Client <- MCClient
  Requests = {"reason", "data", "reviewed_run", "mathematical_run", "verification_run",
              "repair", "repair_loop"}
  MaxRequests = 4
  MaxSolveAttempts = 2
  MaxRevision = 30
  MaxRepairCycles = 2
  ReviewedVersions = {2}
  InitialStages = {"INGEST", "SELECT"}
INVARIANTS
  FreshReads
  RepairsAreCounted
PROPERTIES
  VerifiedResultIsFinal
  ImplementsVerification
  RequestsEnd
CHECK_DEADLOCK FALSE
