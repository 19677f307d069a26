SPECIFICATION Spec
CONSTANTS
  p1 = p1
  p2 = p2
  Model = {"model"}
  Prober <- MCProber
  Caller = {"caller"}
  Endpoint = {"first", "unset"}
  NoCredential = {"unset"}
  Profile = {"one"}
  MaxEdits = 3
  MaxProbes = 2
SYMMETRY Symmetry
INVARIANTS
  ReadyHasEvidence
  GuardedBySameRows
  GuardedByNewestProbe
