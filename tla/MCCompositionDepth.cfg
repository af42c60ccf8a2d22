SPECIFICATION CompositionSpec
CONSTANTS
  Nothing = Nothing
  Order <- MCOrder
  Graph <- MCGraph
  MaxDepth = 3
INVARIANTS CompositionTypeOK ComponentsAreStrong MemoIsExact SearchDecides
PROPERTIES AnalysisEnds
CHECK_DEADLOCK FALSE
