SPECIFICATION Spec
CONSTANTS
  MaxRevision = 15
  MaxRepairCycles = 1
  ReviewedVersions = {2}
  InitialStages = {"INGEST"}
INVARIANTS
  PrerequisitesReady
  ReviewsRestOnPassedRuns
  VerifiedResultIsProven
CHECK_DEADLOCK FALSE
