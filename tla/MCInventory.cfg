CONSTANTS
  pickaxe = pickaxe
  ammo = ammo
  Garbage = Garbage
  Definitions = {pickaxe, ammo}
  StartingItems <- StartingItemsDef
  PickaxeFound = TRUE
  SlotCount = 2
  KnownEntrySize = TRUE
  Reallocs = {"kept", "shrunk"}
  MaxCount = 2
  MaxGuid = 4
  MaxPickup = 3
SPECIFICATION Spec
INVARIANTS
  ArraysParallel
  OneItemPerSlot
  PickedItemsHaveOneSlot
PROPERTIES
  SwapSparesSlotZero
  StacksNeverMultiply
  ImplementsExchange
CHECK_DEADLOCK FALSE
