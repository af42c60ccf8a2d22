SPECIFICATION Spec
CONSTANTS
  s1 = s1  s2 = s2  None = None
  Session <- MCSession
  MaxBatch = 3
INVARIANTS TypeOK AnswersAreOwn WorkerFollowsLeases InStep
PROPERTIES CallsReturn NoOrphanWaits
CHECK_DEADLOCK FALSE
