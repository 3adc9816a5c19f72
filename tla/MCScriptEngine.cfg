CONSTANTS
  a = a
  b = b
  c = c
  t1 = t1
  t2 = t2
  Threads = {t1, t2}
  Modules = {a, b, c}
  Missing = {c}
  Catching = {a, "execute"}
  Limit = 7
  Names <- NamesDef
  Calls <- CallsDef
SPECIFICATION Spec
INVARIANTS
  JumpsComeHome
  FailedModulesLeave
  LevelsLeakByErrors
  OptionalsAreTheCallers
PROPERTIES
  ErrorsLand
CHECK_DEADLOCK FALSE
