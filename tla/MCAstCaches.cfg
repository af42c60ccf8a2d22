SPECIFICATION Spec
CONSTANTS
  r1 = r1  r2 = r2  a = a  b = b  c1 = c1  c2 = c2
  Config = Config  Runtime = Runtime  None = None
  Run <- MCRun
  Source <- MCSource
  Python <- MCPython
  Content <- MCContent
  Start <- MCStart
  MaxEdits = 2
SYMMETRY Symmetry
INVARIANTS TypeOK AstsAreOwn
