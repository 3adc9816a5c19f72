CONSTANTS
  s1 = s1
  s2 = s2
  NestedEvents <- NestedAll
  ScriptThreads = {s1, s2}
  MaxDepth = 2
SPECIFICATION Spec
INVARIANTS
  
  NoThreadOutlives
PROPERTIES
  ReenteredOnlyFromInside
  StockedFromDefinitions
  LoadingEnds
  
CHECK_DEADLOCK FALSE
