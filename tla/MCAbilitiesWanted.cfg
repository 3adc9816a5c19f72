CONSTANTS
  purple = purple
  sprint = sprint
  jump = jump
  search = search
  vehicle = vehicle
  none = none
  s1 = s1
  s2 = s2
  Abilities = {purple, sprint, jump, search, vehicle}
  Original = purple
  NoClass = none
  DefaultRequests <- DefaultRequestsDef
  Scripts = {s1, s2}
  ScriptAbilities = {vehicle, sprint}
  EffectExists = TRUE
  MaxRequests = 1
SPECIFICATION Spec
INVARIANTS
  WantedIsActivated
CHECK_DEADLOCK FALSE
