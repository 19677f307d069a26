SPECIFICATION SubmissionSpec
CONSTANTS
  Client = {c1, c2}
  Reference = {r1}
  LiveSource = FALSE
  MaxRequests = 4
SYMMETRY Symmetry
CHECK_DEADLOCK FALSE
INVARIANTS
  PapersAreNumbered
  FrozenIsApproved
  SnapshotsStayProven
  ReadinessIsBacked
