SPECIFICATION Spec
CONSTANTS
  r1 = r1
  r2 = r2
  r3 = r3
  rules = rules
  issues = issues
  Run <- TwoRuns
  Artifact <- TwoArtifacts
  Rules = rules
  MaxFaults = 1
PROPERTY CleansPartiallyDeleted
CHECK_DEADLOCK FALSE
