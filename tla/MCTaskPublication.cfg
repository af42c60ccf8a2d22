SPECIFICATION FairSpec
CONSTANTS
  r1 = r1
  r2 = r2
  r3 = r3
  rules = rules
  issues = issues
  Run <- MCRun
  Artifact <- TwoArtifacts
  Rules = rules
  MaxFaults = 2
INVARIANTS
  TypeOK
  UnownedIsWhole
PROPERTIES
  PublishesAtomically
  RecoversAndPublishes
CHECK_DEADLOCK FALSE
