CONSTANTS
  game = game
  http = http
  Threads = {game, http}
  LoginThread = game
  MaxOther = 3
SPECIFICATION Spec
INVARIANTS
  GuardUpWhenQuiet
  CrashNeedsRace
  UnhookedClean
  InitializedAfterOffsets
PROPERTIES
  MissedOnlyWhileDown
  UsesEnd
CHECK_DEADLOCK FALSE
