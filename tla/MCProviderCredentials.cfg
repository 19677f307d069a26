SPECIFICATION CredentialSpec
CONSTANTS
  r1 = r1
  r2 = r2
  r3 = r3
  Request <- MCRequest
  MaxSecrets = 4
  MaxGiven = 1
  Disturbances = {"refuse", "patch", "crash"}
SYMMETRY Symmetry
INVARIANTS
  ReferenceResolves
PROPERTIES
  RotationIsFresh
