CONSTANTS
  here = here
  there = there
  wall = wall
  floor = floor
  dance = dance
  wave = wave
  cart = cart
  none = none
  Version = "4.21"
  Fortnite3 = FALSE
  Places = {here, there}
  Classes = {wall, floor}
  Emotes = {}
  Vehicles = {}
  None = none
  MaxPieces = 3
SPECIFICATION Spec
INVARIANTS
  HeldButtonBuildsOnce
PROPERTIES
  EditKeepsPlace
CHECK_DEADLOCK FALSE
