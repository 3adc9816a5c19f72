CONSTANTS
  s1 = s1
  outer = outer
  inner = inner
  Scripts = {s1}
  Stockers <- StockersDef
  EarlyDrop = TRUE
  KitSize = 1
  MaxHandled = 2
  MaxThreads = 3
SPECIFICATION ITSpec
INVARIANTS
  SoundAlone
  StockingUndisturbed
CHECK_DEADLOCK FALSE
