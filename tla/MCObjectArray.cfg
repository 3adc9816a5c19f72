CONSTANTS
  game = game
  worker = worker
  ChunkSize = 2
  Chunks = 2
  Starts <- StartsDef
  Users <- UsersDef
  GameThread = game
  MaxChanges = 2
SPECIFICATION Spec
INVARIANTS
  SearchesComplete
PROPERTIES
  SearchesReturn
CHECK_DEADLOCK FALSE
