SPECIFICATION Spec
CONSTANTS
  r1 = r1  r2 = r2  a = a  b = b  c1 = c1  c2 = c2
  Ignore = Ignore  Config = Config  Manifest = Manifest  None = None
  Run <- MCRun
  Source <- MCSource
  Content <- MCContent
  Hides <- MCHides
  Start <- MCStart
  SkipReview = TRUE
  Attempts = 2
  MaxEdits = 2
SYMMETRY Symmetry
PROPERTIES ServesWhatItSaw ServesFreshResults
CHECK_DEADLOCK FALSE
