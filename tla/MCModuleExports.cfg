SPECIFICATION Spec
CONSTANTS
  a = a  b = b  c = c  d = d  e = e  x = x
  Default = Default  None = None
  Module <- MCModule
  Shared <- MCShared
  Script <- MCScript
  Name <- MCName
  Program <- MCProgram
  Asks <- MCAsks
  MaxQuestions = 3
INVARIANTS TypeOK AnswersAreReachable NothingIsMissed AnswersStay
CHECK_DEADLOCK FALSE
