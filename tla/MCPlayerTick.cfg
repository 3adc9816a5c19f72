CONSTANTS
  here = here
  there = there
  wall = wall
  floor = floor
  dance = dance
  wave = wave
  cart = cart
  none = none
  Version = "4.21"
  Fortnite3 = FALSE
  Places = {here, there}
  Classes = {wall}
  Emotes = {dance, wave}
  Vehicles = {cart}
  None = none
  MaxPieces = 2
SPECIFICATION Spec
INVARIANTS
  OnlyOldPawnPlaysOn
  VehiclesLeftHaveAuthority
PROPERTIES
  EmotesEnd
CHECK_DEADLOCK FALSE
