SPECIFICATION SubmissionSpec
CONSTANTS
  Client = {c1}
  Reference = {r1}
  LiveSource = FALSE
  MaxRequests = 2
CHECK_DEADLOCK FALSE
INVARIANT PaperCanBeCorrected
