SPECIFICATION FairReviewSpec
CONSTANTS
  boundaries = boundaries
  tests = tests
  before = before
  after = after
  Stage <- MCStage
  Source <- MCSource
  MaxRuns = 2
  MaxEdits = 1
INVARIANTS
  CompletedIsCertified
  FailedStageFailsRun
PROPERTIES
  SuccessIsReviewed
  ReviewEnds
CHECK_DEADLOCK FALSE
