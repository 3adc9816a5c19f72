CONSTANTS
  game = game
  http = http
  Threads = {game, http}
  LoginThread = game
  MaxOther = 2
SPECIFICATION Spec
INVARIANTS
  OldFlagsRestored
CHECK_DEADLOCK FALSE
