CONSTANTS
  rifle = rifle
  pistol = pistol
  shield = shield
  bullets = bullets
  shells = shells
  wood = wood
  trap = trap
  none = none
  chest = chest
  box1 = box1
  box2 = box2
  vending = vending
  Definitions <- DefinitionsDef
  NoDef = none
  ClassOf <- ClassOfDef
  Wid = {rifle, pistol}
  AmmoOf <- AmmoOfDef
  Tables <- TablesDef
  Containers = {chest, box1, box2, vending}
  Group <- GroupDef
  NumToDrop <- NumToDropDef
  FloorSpots = 2
  MaxClears = 2
SPECIFICATION Spec
INVARIANTS
  LootIsFromTable
  ChestsAreComplete
  FaultsAreEmptiness
PROPERTIES
  SearchesEnd
CHECK_DEADLOCK FALSE
