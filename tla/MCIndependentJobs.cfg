SPECIFICATION FairSpec
CONSTANTS
  w1 = w1
  w2 = w2
  Worker <- MCWorker
  Scenario = {"demand", "weather"}
  Required = {"demand"}
INVARIANTS
  ExecutedAtMostOnce
  PassIsEarned
  NoFalseMismatch
PROPERTIES
  ImplementsOutcomes
  JobsSettle
