-------------------------- MODULE InventoryProofs --------------------------
(***************************************************************************)
(* Proofs about Inventory, for every quickbar size, every starting kit and *)
(* every bound: the arrays, the slots, the refinement of ItemExchange, and *)
(* the totals of what is carried and what lies on the ground.              *)
(* The last part is about InventoryThreads, the same two array operations  *)
(* access by access, for any scripts, kits and bounds.                     *)
(***************************************************************************)
EXTENDS Inventory, InventoryThreads, SequenceTheorems, FiniteSetTheorems,
        WellFoundedInduction, TLAPS

(* Whatever cells are lost, Remove leaves a sequence of                    *)
(* elements and garbage that is one shorter.                               *)
LEMMA RemovedFromType ==
  ASSUME NEW S, Garbage \in S, NEW s \in Seq(S), NEW i \in 1 .. Len(s), NEW t
  PROVE  /\ RemovedFrom(s, i, t) \in Seq(S)
         /\ Len(RemovedFrom(s, i, t)) = Len(s) - 1
<1>1. Len(s) \in Nat \ {0} /\ Len(s) - 1 \in Nat
  OBVIOUS
<1>2. \A j \in 1 .. Len(s) - 1 : s[j] \in S /\ s[j + 1] \in S
  BY <1>1
<1>3. QED
  BY <1>1, <1>2 DEF RemovedFrom

(* When no cell is lost, only elements are left.                           *)
LEMMA RemovedFromKept ==
  ASSUME NEW S, NEW s \in Seq(S), NEW i \in 1 .. Len(s)
  PROVE  RemovedFrom(s, i, {}) \in Seq(S)
<1>1. Len(s) \in Nat \ {0} /\ Len(s) - 1 \in Nat
  OBVIOUS
<1>2. \A j \in 1 .. Len(s) - 1 : s[j] \in S /\ s[j + 1] \in S
  BY <1>1
<1>3. QED
  BY <1>1, <1>2 DEF RemovedFrom

Cell == Item \cup {Garbage}

(* A reused cell is told apart from every item, whatever its three fields. *)
LEMMA GarbageIsNoItem == Garbage \notin Item
BY GarbageAssumption, Zenon DEF Item

(* The position found for a carried guid is a readable one that holds it.  *)
LEMMA PositionOfLive ==
  ASSUME NEW g \in LiveGuids
  PROVE  PositionOf(g) \in Positions /\ instances[PositionOf(g)].guid = g
<1>1. \E i \in Positions : instances[i].guid = g
  BY DEF LiveGuids
<1>2. QED
  BY <1>1, Zenon DEF PositionOf

(* A position is one of the instances and holds an item.                   *)
LEMMA PositionsHoldItems ==
  ASSUME TypeOK, NEW i \in Positions
  PROVE  i \in 1 .. Len(instances) /\ instances[i] \in Item
<1>1. instances \in Seq(Item \cup {Garbage})
  BY DEF TypeOK
<1>2. QED
  BY <1>1 DEF Positions

(* CreateItem makes an item of the type.                                   *)
LEMMA CreatedItemType ==
  ASSUME TypeOK, nextGuid <= MaxGuid,
         NEW def \in Definitions, NEW count \in 0 .. MaxCount
  PROVE  CreatedItem(def, count) \in Item
BY InventoryAssumption DEF CreatedItem, CreatedCount, Item, TypeOK

(* Inventory() creates items of the type, numbered from 1.                 *)
LEMMA StartingInstancesType ==
  /\ StartingInstances \in Seq(Item)
  /\ Len(StartingInstances) = Len(StartingItems)
<1>1. /\ StartingItems \in Seq([def : Definitions, count : 0 .. MaxCount])
      /\ Len(StartingItems) <= MaxGuid /\ Len(StartingItems) \in Nat
      /\ MaxGuid \in Nat /\ MaxCount \in Nat \ {0}
  BY InventoryAssumption
<1>2. ASSUME NEW i \in 1 .. Len(StartingItems)
      PROVE  [guid |-> i, def |-> StartingItems[i].def,
              count |-> CreatedCount(StartingItems[i].count)] \in Item
  <2>1. StartingItems[i] \in [def : Definitions, count : 0 .. MaxCount]
    BY <1>1, ElementOfSeq, Zenon
  <2>2. QED
    BY <1>1, <2>1 DEF Item, CreatedCount
<1>3. QED
  BY <1>1, <1>2 DEF StartingInstances

(* Appending one value to two aligned arrays, or removing one position     *)
(* from both, keeps them aligned.                                          *)
LEMMA AppendAligned ==
  ASSUME NEW S, NEW a \in Seq(S), NEW b \in Seq(S), NEW e, Aligned(a, b)
  PROVE  Aligned(Append(a, e), Append(b, e))
BY DEF Aligned

(* Removing one position from two aligned arrays keeps them aligned,       *)
(* whatever cells each of them loses.                                      *)
LEMMA RemovedFromAligned ==
  ASSUME NEW S, NEW a \in Seq(S), NEW b \in Seq(S), NEW i \in 1 .. Len(a),
         NEW t, NEW u, Aligned(a, b)
  PROVE  Aligned(RemovedFrom(a, i, t), RemovedFrom(b, i, u))
<1>1. Len(a) \in Nat \ {0} /\ Len(b) = Len(a) /\ Len(a) - 1 \in Nat
  BY DEF Aligned
<1>2. \A j \in 1 .. Len(a) : Garbage \notin {a[j], b[j]} => a[j] = b[j]
  BY <1>1 DEF Aligned
<1>3. /\ Len(RemovedFrom(a, i, t)) = Len(a) - 1
      /\ Len(RemovedFrom(b, i, u)) = Len(a) - 1
      /\ DOMAIN RemovedFrom(a, i, t) = 1 .. Len(a) - 1
  BY <1>1 DEF RemovedFrom
<1>4. ASSUME NEW j \in 1 .. Len(a) - 1,
             Garbage \notin {RemovedFrom(a, i, t)[j], RemovedFrom(b, i, u)[j]}
      PROVE  RemovedFrom(a, i, t)[j] = RemovedFrom(b, i, u)[j]
  <2>1. j \in 1 .. Len(a) /\ j + 1 \in 1 .. Len(a)
    BY <1>1
  <2>2. QED
    BY <1>1, <1>2, <1>4, <2>1 DEF RemovedFrom
<1>5. QED
  BY <1>3, <1>4 DEF Aligned

----------------------------------------------------------------------------
(* The inductive invariant: the types, the alignment of the arrays, and no *)
(* garbage at all when realloc leaves the old block as it was.             *)
Clean == realloc = "kept" => instances \in Seq(Item) /\ entries \in Seq(Item)

IInv == TypeOK /\ ArraysAligned /\ Clean

(* Before Inventory() has run both arrays are empty.                       *)
LEMMA InitIInv == Init => IInv
<1> SUFFICES ASSUME Init PROVE IInv
  OBVIOUS
<1> USE InventoryAssumption DEF Init
<1>1. TypeOK
  <2>1. focus \in Slots /\ nextGuid \in 1 .. MaxGuid + 1 /\ nextPickup \in 1 .. MaxPickup + 1
    BY DEF Slots
  <2>2. instances \in Seq(Item \cup {Garbage}) /\ entries \in Seq(Item \cup {Garbage})
    OBVIOUS
  <2>3. slots \in [Slots -> SUBSET (1 .. MaxGuid)]
    OBVIOUS
  <2>4. QED
    BY <2>1, <2>2, <2>3, Zenon DEF TypeOK
<1>2. ArraysAligned
  BY DEF ArraysAligned, Aligned
<1>3. Clean
  BY DEF Clean
<1>4. QED
  BY <1>1, <1>2, <1>3 DEF IInv

(* What every action that adds one item does to the arrays.                *)
LEMMA AddStep ==
  ASSUME IInv, NEW item \in Item,
         realloc' = realloc,
         instances' = Append(instances, item), entries' = Appended(entries, item)
  PROVE  /\ instances' \in Seq(Cell) /\ entries' \in Seq(Cell)
         /\ ArraysAligned' /\ Clean'
<1>1. instances \in Seq(Cell) /\ entries \in Seq(Cell) /\ item \in Cell
  BY DEF IInv, TypeOK, Cell
<1>2. instances' \in Seq(Cell) /\ entries' \in Seq(Cell)
  BY <1>1 DEF Appended
<1>3. ArraysAligned'
  BY <1>1, AppendAligned DEF IInv, ArraysAligned, Appended
<1>4. Clean'
  BY DEF IInv, Clean, Appended
<1>5. QED
  BY <1>2, <1>3, <1>4

(* What every action that removes one position does to the arrays.         *)
LEMMA RemoveStep ==
  ASSUME NEW a \in Seq(Cell), NEW b \in Seq(Cell), NEW i \in 1 .. Len(a),
         NEW t \in SUBSET Lost(a), NEW u \in SUBSET Lost(b),
         KnownEntrySize => Aligned(a, b),
         realloc = "kept" => a \in Seq(Item) /\ b \in Seq(Item),
         realloc' = realloc,
         instances' = RemovedFrom(a, i, t), entries' = WithoutEntry(b, i, u)
  PROVE  /\ instances' \in Seq(Cell) /\ entries' \in Seq(Cell)
         /\ ArraysAligned' /\ Clean'
<1>1. Garbage \in Cell
  BY DEF Cell
<1>2. KnownEntrySize => i \in 1 .. Len(b)
  BY DEF Aligned
<1>3. instances' \in Seq(Cell)
  BY <1>1, RemovedFromType
<1>4. entries' \in Seq(Cell)
  BY <1>1, <1>2, RemovedFromType DEF WithoutEntry
<1>5. ArraysAligned'
  BY RemovedFromAligned DEF ArraysAligned, WithoutEntry
<1>6. Clean'
  <2>1. realloc = "kept" => t = {} /\ u = {}
    BY DEF Lost
  <2>2. QED
    BY <1>2, <2>1, RemovedFromKept DEF Clean, WithoutEntry
<1>7. QED
  BY <1>3, <1>4, <1>5, <1>6

(* AddToInventory keeps the type of the quickbar.                          *)
LEMMA SlotsWithType ==
  ASSUME TypeOK, NEW s, NEW g \in 1 .. MaxGuid
  PROVE  SlotsWith(s, g) \in [Slots -> SUBSET (1 .. MaxGuid)]
BY DEF TypeOK, SlotsWith

(* SpawnPickupAtLocation makes a pickup of the type while ids last.        *)
LEMMA SpawnedPickupType ==
  ASSUME TypeOK, nextPickup <= MaxPickup,
         NEW def \in Definitions, NEW count \in Amount
  PROVE  /\ SpawnedPickup(def, count) \in Pickup
         /\ nextPickup + 1 \in 1 .. MaxPickup + 1
BY InventoryAssumption DEF TypeOK, SpawnedPickup, Pickup

(* Every action keeps the types, the alignment of the arrays and, if the   *)
(* heap leaves old blocks as they were, their freedom from garbage.        *)
LEMMA StepIInv == IInv /\ [Next]_vars => IInv'
<1> SUFFICES ASSUME IInv, [Next]_vars
             PROVE  IInv'
  OBVIOUS
<1> USE InventoryAssumption DEF IInv
<1>1. CASE StartInventory
  <2>1. /\ instances' \in Seq(Item) /\ entries' \in Seq(Item)
    BY <1>1, StartingInstancesType DEF StartInventory
  <2>2. ArraysAligned' /\ Clean'
    BY <1>1, <2>1 DEF StartInventory, ArraysAligned, Aligned, Clean
  <2>3. slots' \in [Slots -> SUBSET (1 .. MaxGuid)]
    BY <1>1 DEF StartInventory, TypeOK, Slots
  <2>4. nextGuid' \in 1 .. MaxGuid + 1
    BY <1>1 DEF StartInventory
  <2>5. TypeOK'
    BY <1>1, <2>1, <2>3, <2>4 DEF StartInventory, TypeOK
  <2>6. QED
    BY <2>2, <2>5
<1>2. ASSUME NEW d \in Definitions, NEW c \in Amount, SpawnPickup(d, c)
      PROVE  IInv'
  <2>1. TypeOK'
    BY <1>2, SpawnedPickupType DEF SpawnPickup, TypeOK
  <2>2. ArraysAligned' /\ Clean'
    BY <1>2 DEF SpawnPickup, ArraysAligned, Clean
  <2>3. QED
    BY <2>1, <2>2
<1>3. ASSUME NEW p \in ground, PickupToFreeSlot(p)
      PROVE  IInv'
  <2>1. p.def \in Definitions /\ p.count \in 0 .. MaxCount /\ nextGuid \in 1 .. MaxGuid
    BY <1>3 DEF PickupToFreeSlot, TypeOK, Pickup, Amount
  <2>2. CreatedItem(p.def, p.count) \in Item
    BY <1>3, <2>1, CreatedItemType DEF PickupToFreeSlot
  <2>3. /\ instances' \in Seq(Cell) /\ entries' \in Seq(Cell)
        /\ ArraysAligned' /\ Clean'
    BY <1>3, <2>2, AddStep DEF PickupToFreeSlot
  <2>4. slots' \in [Slots -> SUBSET (1 .. MaxGuid)]
    BY <1>3, <2>1, SlotsWithType DEF PickupToFreeSlot, CreatedItem
  <2>5. ground' \subseteq Pickup /\ nextGuid' \in 1 .. MaxGuid + 1
    BY <1>3, <2>1 DEF PickupToFreeSlot, GroundWithout, TypeOK
  <2>6. TypeOK'
    BY <1>3, <2>3, <2>4, <2>5 DEF PickupToFreeSlot, TypeOK, Cell
  <2>7. QED
    BY <2>3, <2>6
<1>4. ASSUME NEW p \in ground, PickupSwap(p)
      PROVE  IInv'
  <2>1. p.def \in Definitions /\ p.count \in 0 .. MaxCount /\ nextGuid \in 1 .. MaxGuid
    BY <1>4 DEF PickupSwap, TypeOK, Pickup, Amount
  <2> DEFINE item == CreatedItem(p.def, p.count)
  <2>2. item \in Item
    BY <1>4, <2>1, CreatedItemType DEF PickupSwap
  <2>3. PICK g \in QuickbarItems(focus) :
          /\ \E lost \in SUBSET Lost(Append(instances, item)) :
               instances' = RemovedFrom(Append(instances, item), PositionOf(g), lost)
          /\ \E lost \in SUBSET Lost(Appended(entries, item)) :
               entries' = WithoutEntry(Appended(entries, item), PositionOf(g), lost)
          /\ ground' = GroundWithout(p)
               \cup {SpawnedPickup(instances[PositionOf(g)].def, SwappedCount(p))}
          /\ slots' = SlotsWith(focus, item.guid)
    BY <1>4 DEF PickupSwap
  <2>4. /\ PositionOf(g) \in 1 .. Len(instances)
        /\ instances[PositionOf(g)] \in Item
    BY PositionOfLive, PositionsHoldItems DEF QuickbarItems
  <2> HIDE DEF item
  <2>5. /\ Append(instances, item) \in Seq(Cell) /\ Appended(entries, item) \in Seq(Cell)
        /\ PositionOf(g) \in 1 .. Len(Append(instances, item))
    BY <2>2, <2>4 DEF TypeOK, Cell, Appended
  <2>6. /\ KnownEntrySize => Aligned(Append(instances, item), Appended(entries, item))
        /\ realloc = "kept" => /\ Append(instances, item) \in Seq(Item)
                               /\ Appended(entries, item) \in Seq(Item)
    BY <2>2, AppendAligned DEF ArraysAligned, Clean, Appended, TypeOK
  <2>7. /\ instances' \in Seq(Cell) /\ entries' \in Seq(Cell)
        /\ ArraysAligned' /\ Clean'
    BY <1>4, <2>3, <2>5, <2>6, RemoveStep DEF PickupSwap
  <2>8. slots' \in [Slots -> SUBSET (1 .. MaxGuid)]
    BY <2>1, <2>3, SlotsWithType DEF item, CreatedItem
  <2>9. ground' \subseteq Pickup /\ nextPickup' \in 1 .. MaxPickup + 1
    <3>1. instances[PositionOf(g)].def \in Definitions
      BY <2>4 DEF Item
    <3>2. SpawnedPickup(instances[PositionOf(g)].def, 1) \in Pickup
      BY <1>4, <3>1, SpawnedPickupType, InventoryAssumption DEF PickupSwap, Amount
    <3>3. QED
      BY <1>4, <2>3, <3>2 DEF PickupSwap, GroundWithout, SwappedCount, TypeOK
  <2>10. TypeOK'
    BY <1>4, <2>1, <2>7, <2>8, <2>9 DEF PickupSwap, TypeOK, Cell
  <2>11. QED
    BY <2>7, <2>10
<1>5. ASSUME NEW k \in Positions, NEW c \in Amount,
             InventoryDrop(instances[k].guid, c)
      PROVE  IInv'
  <2> DEFINE i == PositionOf(instances[k].guid)
  <2>1. /\ \E lost \in SUBSET Lost(instances) :
             instances' = RemovedFrom(instances, i, lost)
        /\ \E lost \in SUBSET Lost(entries) :
             entries' = WithoutEntry(entries, i, lost)
        /\ ground' = ground \cup {SpawnedPickup(instances[i].def, c)}
    BY <1>5 DEF InventoryDrop
  <2>2. /\ PositionOf(instances[k].guid) \in 1 .. Len(instances)
        /\ instances[PositionOf(instances[k].guid)] \in Item
    BY <1>5, PositionOfLive, PositionsHoldItems DEF InventoryDrop
  <2>3. /\ instances' \in Seq(Cell) /\ entries' \in Seq(Cell)
        /\ ArraysAligned' /\ Clean'
    BY <1>5, <2>1, <2>2, RemoveStep DEF InventoryDrop, TypeOK, Cell, ArraysAligned, Clean
  <2>4. ground' \subseteq Pickup /\ nextPickup' \in 1 .. MaxPickup + 1
    BY <1>5, <2>1, <2>2, SpawnedPickupType DEF InventoryDrop, TypeOK, Item
  <2>5. focus' \in Slots
    BY <1>5 DEF InventoryDrop, TypeOK
  <2>6. TypeOK'
    BY <1>5, <2>3, <2>4, <2>5 DEF InventoryDrop, TypeOK, Cell
  <2>7. QED
    BY <2>3, <2>6
<1>6. ASSUME NEW d \in Definitions, NEW s \in 0 .. SlotCount, ScriptAddToInventory(d, s)
      PROVE  IInv'
  <2>1. nextGuid \in 1 .. MaxGuid
    BY <1>6 DEF ScriptAddToInventory, TypeOK
  <2>2. CreatedItem(d, 0) \in Item
    BY <1>6, CreatedItemType DEF ScriptAddToInventory
  <2>3. /\ instances' \in Seq(Cell) /\ entries' \in Seq(Cell)
        /\ ArraysAligned' /\ Clean'
    BY <1>6, <2>2, AddStep DEF ScriptAddToInventory
  <2>4. slots' \in [Slots -> SUBSET (1 .. MaxGuid)]
    BY <1>6, <2>1, SlotsWithType DEF ScriptAddToInventory, CreatedItem
  <2>5. TypeOK'
    BY <1>6, <2>1, <2>3, <2>4 DEF ScriptAddToInventory, TypeOK, Cell
  <2>6. QED
    BY <2>3, <2>5
<1>7. ASSUME NEW s \in Slots, SelectSlot(s)
      PROVE  IInv'
  BY <1>7 DEF SelectSlot, TypeOK, ArraysAligned, Clean
<1>8. CASE ReadGarbage
  BY <1>8 DEF ReadGarbage, TypeOK, ArraysAligned, Clean
<1>9. CASE UNCHANGED vars
  BY <1>9 DEF vars, TypeOK, ArraysAligned, Clean
<1>10. QED
  BY <1>1, <1>2, <1>3, <1>4, <1>5, <1>6, <1>7, <1>8, <1>9 DEF Next

----------------------------------------------------------------------------
(* IInv is an invariant.                                                   *)
LEMMA Invariance == Spec => []IInv
BY InitIInv, StepIInv, PTL DEF Spec

(* The variables of the inventory keep their types.                        *)
THEOREM TypeCorrect == Spec => []TypeOK
<1>1. IInv => TypeOK
  BY DEF IInv
<1>2. QED
  BY Invariance, <1>1, PTL

(* ItemInstances and ItemEntries stay parallel through every sequence of   *)
(* pickups, swaps, drops and script additions, whatever the heap does, and *)
(* with a heap that leaves the old block of a realloc as it was they are   *)
(* equal and every instance can be dereferenced.                           *)
THEOREM ArraysStayParallel == Spec => []ArraysParallel
<1>1. IInv => ArraysParallel
  <2> SUFFICES ASSUME IInv, KnownEntrySize, realloc = "kept"
               PROVE  Readable /\ entries = instances
    BY DEF ArraysParallel, ArraysEqual, IInv
  <2>1. instances \in Seq(Item) /\ entries \in Seq(Item)
    BY DEF IInv, Clean
  <2>2. \A i \in 1 .. Len(instances) : instances[i] # Garbage
    BY <2>1, GarbageIsNoItem
  <2>3. \A i \in 1 .. Len(entries) : entries[i] # Garbage
    BY <2>1, GarbageIsNoItem
  <2>4. /\ Len(entries) = Len(instances)
        /\ \A i \in 1 .. Len(instances) : entries[i] = instances[i]
    BY <2>1, <2>2, <2>3 DEF IInv, ArraysAligned, Aligned
  <2>5. QED
    BY <2>1, <2>2, <2>4, SeqEqual DEF Readable
<1>2. QED
  BY Invariance, <1>1, PTL

----------------------------------------------------------------------------
(* The items of an array, whatever their positions.                        *)
ReadableIn(a) == {i \in DOMAIN a : a[i] # Garbage}
ItemsIn(a)    == {a[i] : i \in ReadableIn(a)}
Differ(a)     == \A i, j \in ReadableIn(a) : a[i].guid = a[j].guid => i = j

LEMMA CarriedItems ==
  /\ Positions = ReadableIn(instances)
  /\ LiveGuids = {x.guid : x \in ItemsIn(instances)}
BY DEF Positions, LiveGuids, ReadableIn, ItemsIn

LEMMA ItemsOfType ==
  ASSUME NEW a \in Seq(Cell)
  PROVE  ItemsIn(a) \subseteq Item
BY DEF ItemsIn, ReadableIn, Cell

(* An item appended with a guid of its own.                                *)
LEMMA AppendItems ==
  ASSUME NEW a \in Seq(Cell), NEW e \in Item, Differ(a),
         \A x \in ItemsIn(a) : x.guid # e.guid
  PROVE  /\ ItemsIn(Append(a, e)) = ItemsIn(a) \cup {e}
         /\ Differ(Append(a, e))
<1> DEFINE b == Append(a, e)
           n == Len(a)
<1>1. /\ n \in Nat /\ DOMAIN a = 1 .. n /\ DOMAIN b = 1 .. n + 1 /\ b[n + 1] = e
      /\ \A i \in 1 .. n : b[i] = a[i]
  OBVIOUS
<1>2. e # Garbage
  BY GarbageIsNoItem
<1> HIDE DEF b, n
<1>3. ReadableIn(b) = ReadableIn(a) \cup {n + 1}
  BY <1>1, <1>2 DEF ReadableIn
<1>4. \A i \in ReadableIn(a) : b[i] = a[i] /\ a[i] \in ItemsIn(a)
  BY <1>1 DEF ReadableIn, ItemsIn
<1>5. ItemsIn(b) = ItemsIn(a) \cup {e}
  BY <1>1, <1>3, <1>4 DEF ItemsIn
<1>6. Differ(b)
  BY <1>1, <1>3, <1>4 DEF Differ
<1> QED
  BY <1>5, <1>6 DEF b

(* The position from which Remove takes the element it leaves at j.        *)
From(i, j) == IF j < i THEN j ELSE j + 1

(* What Remove makes of a: b has every other element, or garbage.          *)
MovedDown(a, i, lost, b) ==
  /\ DOMAIN b = 1 .. Len(a) - 1
  /\ \A j \in 1 .. Len(a) - 1 :
       /\ From(i, j) \in 1 .. Len(a) /\ From(i, j) # i
       /\ b[j] \in {a[From(i, j)], Garbage}
       /\ lost = {} => b[j] = a[From(i, j)]
  /\ \A j, k \in 1 .. Len(a) - 1 : From(i, j) = From(i, k) => j = k
  /\ \A k \in 1 .. Len(a) : k # i => \E j \in 1 .. Len(a) - 1 : From(i, j) = k

LEMMA RemovedFromCells ==
  ASSUME NEW a \in Seq(Cell), NEW i \in 1 .. Len(a), NEW lost
  PROVE  MovedDown(a, i, lost, RemovedFrom(a, i, lost))
<1>1. Len(a) \in Nat \ {0} /\ Len(a) - 1 \in Nat
  OBVIOUS
<1>2. ASSUME NEW k \in 1 .. Len(a), k # i
      PROVE  \E j \in 1 .. Len(a) - 1 : From(i, j) = k
  <2>1. CASE k < i
    BY <1>1, <2>1 DEF From
  <2>2. CASE k > i
    <3>1. k - 1 \in 1 .. Len(a) - 1 /\ From(i, k - 1) = k
      BY <1>1, <2>2 DEF From
    <3> QED
      BY <3>1
  <2> QED
    BY <1>2, <2>1, <2>2
<1>3. \A j, k \in 1 .. Len(a) - 1 : From(i, j) = From(i, k) => j = k
  BY <1>1 DEF From
<1>4. \A j \in 1 .. Len(a) - 1 : From(i, j) \in 1 .. Len(a) /\ From(i, j) # i
  BY <1>1 DEF From
<1>5. \A j \in 1 .. Len(a) - 1 :
        /\ RemovedFrom(a, i, lost)[j] \in {a[From(i, j)], Garbage}
        /\ lost = {} => RemovedFrom(a, i, lost)[j] = a[From(i, j)]
  BY DEF From, RemovedFrom
<1>6. DOMAIN RemovedFrom(a, i, lost) = 1 .. Len(a) - 1
  BY DEF RemovedFrom
<1> QED
  BY <1>2, <1>3, <1>4, <1>5, <1>6 DEF MovedDown

(* Remove takes away the item at its position, no more than the heap loses *)
(* besides, and nothing else if every cell it leaves is readable.          *)
LEMMA RemoveItems ==
  ASSUME NEW a \in Seq(Cell), NEW i \in ReadableIn(a), NEW lost, Differ(a)
  PROVE  LET b == RemovedFrom(a, i, lost)
         IN  /\ ItemsIn(b) \subseteq ItemsIn(a) \ {a[i]}
             /\ Differ(b)
             /\ ReadableIn(b) = DOMAIN b => ItemsIn(b) = ItemsIn(a) \ {a[i]}
             /\ lost = {} => ItemsIn(b) = ItemsIn(a) \ {a[i]}
<1> DEFINE b == RemovedFrom(a, i, lost)
           n == Len(a)
<1>0. i \in 1 .. n /\ DOMAIN a = 1 .. n /\ n \in Nat
  BY DEF ReadableIn
<1>9. MovedDown(a, i, lost, b)
  BY <1>0, RemovedFromCells
<1> HIDE DEF b
<1>1. /\ DOMAIN b = 1 .. n - 1
      /\ \A j \in 1 .. n - 1 :
           /\ From(i, j) \in 1 .. n /\ From(i, j) # i
           /\ b[j] \in {a[From(i, j)], Garbage}
           /\ lost = {} => b[j] = a[From(i, j)]
      /\ \A j, k \in 1 .. n - 1 : From(i, j) = From(i, k) => j = k
      /\ \A k \in 1 .. n : k # i => \E j \in 1 .. n - 1 : From(i, j) = k
  BY <1>9 DEF MovedDown
<1> HIDE DEF n
<1>2. \A j \in ReadableIn(b) :
        /\ j \in 1 .. n - 1 /\ From(i, j) \in ReadableIn(a) \ {i} /\ b[j] = a[From(i, j)]
  BY <1>0, <1>1 DEF ReadableIn
<1>3. \A k \in ReadableIn(a) : a[k] = a[i] => k = i
  BY DEF Differ
<1>4. ItemsIn(b) \subseteq ItemsIn(a) \ {a[i]}
  BY <1>2, <1>3 DEF ItemsIn
<1>5. Differ(b)
  BY <1>1, <1>2 DEF Differ
<1>6. ASSUME \A j \in 1 .. n - 1 : b[j] = a[From(i, j)]
      PROVE  ItemsIn(a) \ {a[i]} \subseteq ItemsIn(b)
  <2>1. ASSUME NEW x \in ItemsIn(a), x # a[i]
        PROVE  x \in ItemsIn(b)
    <3>1. PICK k \in ReadableIn(a) : a[k] = x
      BY DEF ItemsIn
    <3>2. PICK j \in 1 .. n - 1 : From(i, j) = k
      BY <1>0, <1>1, <2>1, <3>1 DEF ReadableIn
    <3>3. b[j] = x /\ j \in ReadableIn(b)
      BY <1>1, <1>6, <3>1, <3>2 DEF ReadableIn
    <3> QED
      BY <3>3 DEF ItemsIn
  <2> QED
    BY <2>1
<1>7. ReadableIn(b) = DOMAIN b => ItemsIn(b) = ItemsIn(a) \ {a[i]}
  BY <1>1, <1>2, <1>4, <1>6
<1>8. lost = {} => ItemsIn(b) = ItemsIn(a) \ {a[i]}
  BY <1>1, <1>4, <1>6
<1> QED
  BY <1>4, <1>5, <1>7, <1>8 DEF b

----------------------------------------------------------------------------
(* Guids, slots and pickups: the second inductive invariant.  Numbers that *)
(* were given out are below the counters, and no two things share one;     *)
(* every guid is in at most one slot, a picked item in some; a slot that   *)
(* no script wrote to has at most one carried item.                        *)
Numbered ==
  /\ \A x \in ItemsIn(instances) : x.guid < nextGuid
  /\ \A s \in Slots : \A g \in slots[s] : g < nextGuid
  /\ \A g \in scripted : g < nextGuid

PickupsDiffer ==
  /\ \A p \in ground : p.id < nextPickup
  /\ \A p, q \in ground : p.id = q.id => p = q

SlotsDiffer ==
  \A s, t \in Slots : \A g \in slots[s] \cap slots[t] : s = t

PickedAreSlotted ==
  \A x \in ItemsIn(instances) :
    x.guid \notin scripted /\ x.guid > Len(StartingItems) =>
      \E s \in Slots : x.guid \in slots[s]

OnePerSlot ==
  \A s \in Slots : slots[s] \cap scripted = {} =>
    \A x, y \in ItemsIn(instances) :
      x.guid \in slots[s] /\ y.guid \in slots[s] => x = y

NothingYet ==
  ~ready => /\ instances = <<>> /\ nextGuid = 1 /\ scripted = {}
            /\ \A s \in Slots : slots[s] = {}

GInv ==
  /\ Differ(instances) /\ Numbered /\ PickupsDiffer /\ SlotsDiffer
  /\ PickedAreSlotted /\ OnePerSlot /\ NothingYet

(* The numbers compared are naturals.                                      *)
LEMMA Numbers ==
  ASSUME TypeOK
  PROVE  /\ nextGuid \in Nat /\ nextGuid >= 1 /\ nextPickup \in Nat
         /\ ItemsIn(instances) \subseteq Item
         /\ \A x \in ItemsIn(instances) : x.guid \in Nat
         /\ \A s \in Slots : slots[s] \subseteq Nat
         /\ scripted \subseteq Nat
         /\ \A p \in ground : p \in Pickup /\ p.id \in Nat
         /\ focus \in Slots
<1>1. instances \in Seq(Cell) /\ MaxGuid \in Nat /\ MaxPickup \in Nat
  BY InventoryAssumption DEF TypeOK, Cell
<1>2. ItemsIn(instances) \subseteq Item
  BY <1>1, ItemsOfType
<1> QED
  BY <1>1, <1>2 DEF TypeOK, Item, Pickup

(* CreateItem gives the next guid, which nothing has yet.                  *)
LEMMA NewItem ==
  ASSUME IInv, GInv, nextGuid <= MaxGuid,
         NEW def \in Definitions, NEW count \in 0 .. MaxCount
  PROVE  /\ CreatedItem(def, count) \in Item
         /\ CreatedItem(def, count).guid = nextGuid
         /\ CreatedItem(def, count).def = def
         /\ ItemsIn(Append(instances, CreatedItem(def, count)))
              = ItemsIn(instances) \cup {CreatedItem(def, count)}
         /\ Differ(Append(instances, CreatedItem(def, count)))
         /\ \A x \in ItemsIn(instances) : x.guid # nextGuid
<1> DEFINE item == CreatedItem(def, count)
<1>1. item \in Item
  BY CreatedItemType DEF IInv
<1>2. item.guid = nextGuid /\ item.def = def
  BY DEF CreatedItem
<1>3. \A x \in ItemsIn(instances) : x.guid # nextGuid
  BY Numbers DEF IInv, GInv, Numbered
<1>4. instances \in Seq(Cell) /\ Differ(instances)
  BY DEF IInv, GInv, TypeOK, Cell
<1> HIDE DEF item
<1> QED
  BY <1>1, <1>2, <1>3, <1>4, AppendItems DEF item

(* AddToInventory to a slot s of the bar, or beside it.                    *)
LEMMA SlotsAfter ==
  ASSUME TypeOK, NEW s, NEW g, slots' = SlotsWith(s, g), NEW t \in Slots
  PROVE  slots'[t] = IF t = s THEN slots[t] \cup {g} ELSE slots[t]
BY DEF TypeOK, SlotsWith

(* What an item with the next guid does to the numbers and the slots.      *)
LEMMA AddedGuid ==
  ASSUME IInv, GInv, NEW s, slots' = SlotsWith(s, nextGuid),
         nextGuid' = nextGuid + 1, scripted' \subseteq scripted \cup {nextGuid},
         NEW item, item.guid = nextGuid,
         ItemsIn(instances') \subseteq ItemsIn(instances) \cup {item}
  PROVE  /\ \A t \in Slots : slots'[t] = IF t = s THEN slots[t] \cup {nextGuid} ELSE slots[t]
         /\ \A t \in Slots : nextGuid \notin slots[t]
         /\ Numbered' /\ SlotsDiffer'
<1>1. \A t \in Slots : slots'[t] = IF t = s THEN slots[t] \cup {nextGuid} ELSE slots[t]
  BY SlotsAfter DEF IInv
<1>2. /\ nextGuid \in Nat /\ \A x \in ItemsIn(instances) : x.guid \in Nat
      /\ scripted \subseteq Nat /\ \A t \in Slots : slots[t] \subseteq Nat
  BY Numbers DEF IInv
<1>3. /\ \A x \in ItemsIn(instances) : x.guid < nextGuid
      /\ \A t \in Slots : \A g \in slots[t] : g < nextGuid
      /\ \A g \in scripted : g < nextGuid
  BY DEF GInv, Numbered
<1>4. \A t \in Slots : nextGuid \notin slots[t]
  BY <1>2, <1>3
<1>5. Numbered'
  <2>1. \A x \in ItemsIn(instances') : x.guid < nextGuid'
    BY <1>2, <1>3
  <2>2. ASSUME NEW t \in Slots, NEW g \in slots'[t]
        PROVE  g < nextGuid'
    <3>1. g = nextGuid \/ g \in slots[t]
      BY <1>1
    <3>2. g \in slots[t] => g \in Nat /\ g < nextGuid
      BY <1>2, <1>3
    <3> QED
      BY <1>2, <3>1, <3>2
  <2>3. \A g \in scripted' : g < nextGuid'
    BY <1>2, <1>3
  <2> QED
    BY <2>1, <2>2, <2>3 DEF Numbered
<1>6. SlotsDiffer'
  <2>1. ASSUME NEW t \in Slots, NEW u \in Slots, NEW g \in slots'[t], g \in slots'[u]
        PROVE  t = u
    <3>1. CASE g = nextGuid
      BY <1>1, <1>4, <2>1, <3>1
    <3>2. CASE g # nextGuid
      <4>1. g \in slots[t] /\ g \in slots[u]
        BY <1>1, <2>1, <3>2
      <4> QED
        BY <4>1 DEF GInv, SlotsDiffer
    <3> QED
      BY <3>1, <3>2
  <2> QED
    BY <2>1 DEF SlotsDiffer
<1> QED
  BY <1>1, <1>4, <1>5, <1>6

(* What a pickup with the next number does to the pickups.                 *)
LEMMA AddedPickup ==
  ASSUME IInv, GInv, NEW q, q.id = nextPickup, nextPickup' = nextPickup + 1,
         ground' \subseteq ground \cup {q}
  PROVE  PickupsDiffer'
<1>1. nextPickup \in Nat /\ \A p \in ground : p.id \in Nat /\ p.id < nextPickup
  BY Numbers DEF IInv, GInv, PickupsDiffer
<1> QED
  BY <1>1 DEF GInv, PickupsDiffer

LEMMA PickupToFreeSlotGInv ==
  ASSUME IInv, GInv, NEW p \in ground, PickupToFreeSlot(p)
  PROVE  GInv'
<1> USE DEF IInv, GInv
<1> DEFINE item == CreatedItem(p.def, p.count)
<1>1. p.def \in Definitions /\ p.count \in 0 .. MaxCount /\ nextGuid <= MaxGuid /\ ready
  BY DEF PickupToFreeSlot, Running, TypeOK, Pickup, Amount
<1>2. PICK s \in Slots :
        SlotFree(s) /\ instances' = Append(instances, item) /\ slots' = SlotsWith(s, item.guid)
  BY DEF PickupToFreeSlot
<1>3. /\ item \in Item /\ item.guid = nextGuid
      /\ ItemsIn(instances') = ItemsIn(instances) \cup {item} /\ Differ(instances')
      /\ \A x \in ItemsIn(instances) : x.guid # nextGuid
  BY <1>1, <1>2, NewItem
<1> HIDE DEF item
<1>4. /\ nextGuid' = nextGuid + 1 /\ scripted' = scripted /\ ready' = ready
      /\ ground' \subseteq ground /\ nextPickup' = nextPickup
  BY DEF PickupToFreeSlot, GroundWithout
<1>5. Numbered' /\ SlotsDiffer'
  BY <1>2, <1>3, <1>4, AddedGuid
<1>6. /\ \A t \in Slots : slots'[t] = IF t = s THEN slots[t] \cup {nextGuid} ELSE slots[t]
      /\ \A t \in Slots : nextGuid \notin slots[t]
  BY <1>2, <1>3, <1>4, AddedGuid
<1>7. \A x \in ItemsIn(instances) : x.guid \notin slots[s]
  BY <1>2, CarriedItems DEF SlotFree, QuickbarItems
<1>8. PickedAreSlotted'
  BY <1>3, <1>4, <1>6 DEF PickedAreSlotted
<1>9. OnePerSlot'
  BY <1>3, <1>4, <1>6, <1>7 DEF OnePerSlot
<1>10. PickupsDiffer'
  BY <1>4 DEF PickupsDiffer
<1> QED
  BY <1>1, <1>3, <1>4, <1>5, <1>8, <1>9, <1>10 DEF NothingYet

(* The item of the focused slot goes, the new one takes its slot.          *)
LEMMA SwapEffect ==
  ASSUME IInv, GInv, NEW p \in ground, PickupSwap(p)
  PROVE  /\ CreatedItem(p.def, p.count).guid = nextGuid
         /\ CreatedItem(p.def, p.count).def = p.def
         /\ \A x \in ItemsIn(instances) : x.guid # nextGuid
         /\ slots' = SlotsWith(focus, nextGuid) /\ Differ(instances')
         /\ \E old \in ItemsIn(instances) :
              LET left == (ItemsIn(instances) \cup {CreatedItem(p.def, p.count)}) \ {old}
              IN  /\ old.guid \in slots[focus]
                  /\ ground' = (ground \ {p}) \cup {SpawnedPickup(old.def, 1)}
                  /\ ItemsIn(instances') \subseteq left
                  /\ Readable' \/ realloc = "kept" => ItemsIn(instances') = left
<1> USE DEF IInv, GInv
<1> DEFINE item == CreatedItem(p.def, p.count)
           a    == Append(instances, item)
<1>1. p.def \in Definitions /\ p.count \in 0 .. MaxCount /\ nextGuid <= MaxGuid
  BY DEF PickupSwap, TypeOK, Pickup, Amount
<1>2. PICK g \in QuickbarItems(focus) :
        /\ \E lost \in SUBSET Lost(a) : instances' = RemovedFrom(a, PositionOf(g), lost)
        /\ ground' = GroundWithout(p)
             \cup {SpawnedPickup(instances[PositionOf(g)].def, SwappedCount(p))}
        /\ slots' = SlotsWith(focus, item.guid)
  BY DEF PickupSwap
<1>3. PICK lost \in SUBSET Lost(a) : instances' = RemovedFrom(a, PositionOf(g), lost)
  BY <1>2
<1>4. /\ item \in Item /\ item.guid = nextGuid /\ item.def = p.def
      /\ ItemsIn(a) = ItemsIn(instances) \cup {item} /\ Differ(a)
      /\ \A x \in ItemsIn(instances) : x.guid # nextGuid
  BY <1>1, NewItem
<1>5. /\ g \in slots[focus] /\ g \in LiveGuids /\ PositionOf(g) \in Positions
      /\ instances[PositionOf(g)].guid = g /\ PositionOf(g) \in 1 .. Len(instances)
  BY PositionOfLive, PositionsHoldItems DEF QuickbarItems
<1> DEFINE old == instances[PositionOf(g)]
<1>6. /\ old \in ItemsIn(instances) /\ a \in Seq(Cell) /\ a[PositionOf(g)] = old
      /\ PositionOf(g) \in ReadableIn(a)
  BY <1>4, <1>5 DEF ItemsIn, ReadableIn, Positions, TypeOK, Cell
<1>7. realloc = "kept" => lost = {}
  BY <1>3 DEF Lost
<1>8. Readable' => ReadableIn(instances') = DOMAIN instances'
  BY DEF Readable, ReadableIn
<1> HIDE DEF item, a
<1>9. /\ ItemsIn(instances') \subseteq (ItemsIn(instances) \cup {item}) \ {old}
      /\ Differ(instances')
      /\ Readable' \/ realloc = "kept" =>
           ItemsIn(instances') = (ItemsIn(instances) \cup {item}) \ {old}
  BY <1>3, <1>4, <1>6, <1>7, <1>8, RemoveItems
<1>10. ground' = (ground \ {p}) \cup {SpawnedPickup(old.def, 1)}
  BY <1>2 DEF GroundWithout, SwappedCount
<1> QED
  BY <1>2, <1>4, <1>5, <1>6, <1>9, <1>10 DEF item

LEMMA PickupSwapGInv ==
  ASSUME IInv, GInv, NEW p \in ground, PickupSwap(p)
  PROVE  GInv'
<1> USE DEF IInv, GInv
<1> DEFINE item == CreatedItem(p.def, p.count)
<1>1. /\ item.guid = nextGuid
      /\ \A x \in ItemsIn(instances) : x.guid # nextGuid
      /\ slots' = SlotsWith(focus, nextGuid) /\ Differ(instances')
  BY SwapEffect
<1>2. PICK old \in ItemsIn(instances) :
        /\ old.guid \in slots[focus]
        /\ ground' = (ground \ {p}) \cup {SpawnedPickup(old.def, 1)}
        /\ ItemsIn(instances') \subseteq (ItemsIn(instances) \cup {item}) \ {old}
  BY SwapEffect
<1> HIDE DEF item
<1>3. /\ nextGuid' = nextGuid + 1 /\ scripted' = scripted /\ ready' = ready
      /\ nextPickup' = nextPickup + 1 /\ ready
  BY DEF PickupSwap, Running
<1>4. /\ \A t \in Slots : slots'[t] = IF t = focus THEN slots[t] \cup {nextGuid} ELSE slots[t]
      /\ \A t \in Slots : nextGuid \notin slots[t]
      /\ Numbered' /\ SlotsDiffer'
  BY <1>1, <1>2, <1>3, AddedGuid
<1>5. PickupsDiffer'
  <2>1. SpawnedPickup(old.def, 1).id = nextPickup
    BY DEF SpawnedPickup
  <2> QED
    BY <1>2, <1>3, <2>1, AddedPickup
<1>6. PickedAreSlotted'
  BY <1>1, <1>2, <1>3, <1>4, Numbers DEF PickedAreSlotted
<1>7. OnePerSlot'
  <2>1. ASSUME NEW t \in Slots, slots'[t] \cap scripted' = {},
               NEW x \in ItemsIn(instances'), NEW y \in ItemsIn(instances'),
               x.guid \in slots'[t], y.guid \in slots'[t]
        PROVE  x = y
    <3>1. slots[t] \cap scripted = {}
      BY <1>3, <1>4, <2>1
    <3>2. CASE t # focus
      BY <1>1, <1>2, <1>4, <2>1, <3>1, <3>2 DEF OnePerSlot
    <3>3. CASE t = focus
      <4>1. \A z \in ItemsIn(instances) : z.guid \in slots[t] => z = old
        BY <1>2, <3>1, <3>3 DEF OnePerSlot
      <4>2. \A z \in ItemsIn(instances') : z.guid \in slots'[t] => z = item
        BY <1>1, <1>2, <1>4, <3>3, <4>1
      <4> QED
        BY <2>1, <4>2
    <3> QED
      BY <3>2, <3>3
  <2> QED
    BY <2>1 DEF OnePerSlot
<1> QED
  BY <1>1, <1>3, <1>4, <1>5, <1>6, <1>7 DEF NothingYet

(* A drop leaves every guid where it is in the quickbar.                   *)
LEMMA InventoryDropGInv ==
  ASSUME IInv, GInv, NEW k \in Positions, NEW c, InventoryDrop(instances[k].guid, c)
  PROVE  GInv'
<1> USE DEF IInv, GInv
<1> DEFINE i == PositionOf(instances[k].guid)
<1>1. /\ i \in ReadableIn(instances) /\ i \in 1 .. Len(instances)
      /\ instances \in Seq(Cell) /\ ready
  BY PositionOfLive, PositionsHoldItems, CarriedItems DEF InventoryDrop, Running, TypeOK, Cell
<1>2. PICK lost : instances' = RemovedFrom(instances, i, lost)
  BY DEF InventoryDrop
<1>3. /\ ground' = ground \cup {SpawnedPickup(instances[i].def, c)}
      /\ nextPickup' = nextPickup + 1
      /\ slots' = slots /\ nextGuid' = nextGuid /\ scripted' = scripted /\ ready' = ready
  BY DEF InventoryDrop
<1> HIDE DEF i
<1>4. ItemsIn(instances') \subseteq ItemsIn(instances) /\ Differ(instances')
  BY <1>1, <1>2, RemoveItems
<1>5. PickupsDiffer'
  <2>1. SpawnedPickup(instances[i].def, c).id = nextPickup
    BY DEF SpawnedPickup
  <2> QED
    BY <1>3, <2>1, AddedPickup
<1>6. Numbered' /\ SlotsDiffer'
  BY <1>3, <1>4 DEF Numbered, SlotsDiffer
<1>7. PickedAreSlotted' /\ OnePerSlot'
  BY <1>3, <1>4 DEF PickedAreSlotted, OnePerSlot
<1> QED
  BY <1>1, <1>3, <1>4, <1>5, <1>6, <1>7 DEF NothingYet

LEMMA ScriptAddToInventoryGInv ==
  ASSUME IInv, GInv, NEW d \in Definitions, NEW s, ScriptAddToInventory(d, s)
  PROVE  GInv'
<1> USE DEF IInv, GInv
<1> DEFINE item == CreatedItem(d, 0)
<1>1. /\ nextGuid <= MaxGuid /\ ready /\ instances' = Append(instances, item)
      /\ slots' = SlotsWith(s, item.guid) /\ scripted' = scripted \cup {nextGuid}
      /\ nextGuid' = nextGuid + 1
      /\ ground' = ground /\ nextPickup' = nextPickup /\ ready' = ready
  BY DEF ScriptAddToInventory, Running
<1>2. /\ item \in Item /\ item.guid = nextGuid
      /\ ItemsIn(instances') = ItemsIn(instances) \cup {item} /\ Differ(instances')
  BY <1>1, NewItem, InventoryAssumption
<1> HIDE DEF item
<1>3. /\ \A t \in Slots : slots'[t] = IF t = s THEN slots[t] \cup {nextGuid} ELSE slots[t]
      /\ \A t \in Slots : nextGuid \notin slots[t]
      /\ Numbered' /\ SlotsDiffer'
  BY <1>1, <1>2, AddedGuid
<1>4. PickupsDiffer'
  BY <1>1 DEF PickupsDiffer
<1>5. PickedAreSlotted'
  BY <1>1, <1>2, <1>3 DEF PickedAreSlotted
<1>6. OnePerSlot'
  BY <1>1, <1>2, <1>3 DEF OnePerSlot
<1> QED
  BY <1>1, <1>2, <1>3, <1>4, <1>5, <1>6 DEF NothingYet

(* The kit is numbered 1 to Len(StartingItems), of which 1 may be in slot  *)
(* 0 and no other in any.                                                  *)
LEMMA StartInventoryGInv ==
  ASSUME IInv, GInv, StartInventory
  PROVE  GInv'
<1> USE DEF IInv, GInv
<1>1. /\ instances' = StartingInstances /\ nextGuid' = Len(StartingItems) + 1
      /\ slots' = (IF PickaxeFound THEN [slots EXCEPT ![0] = {1}] ELSE slots)
      /\ ready' /\ scripted' = {} /\ ground' = ground /\ nextPickup' = nextPickup
      /\ \A s \in Slots : slots[s] = {}
  BY DEF StartInventory, NothingYet
<1>2. /\ Len(StartingItems) \in Nat /\ PickaxeFound => Len(StartingItems) >= 1
      /\ SlotCount \in Nat \ {0}
  BY InventoryAssumption
<1>3. \A i \in DOMAIN StartingInstances :
        i \in 1 .. Len(StartingItems) /\ StartingInstances[i].guid = i
  BY DEF StartingInstances
<1>4. Differ(instances')
  BY <1>1, <1>3 DEF Differ, ReadableIn
<1>5. \A x \in ItemsIn(instances') : x.guid \in 1 .. Len(StartingItems)
  BY <1>1, <1>3 DEF ItemsIn, ReadableIn
<1>6. \A s \in Slots : slots'[s] = IF s = 0 /\ PickaxeFound THEN {1} ELSE {}
  BY <1>1 DEF TypeOK
<1>7. Numbered'
  BY <1>1, <1>2, <1>5, <1>6 DEF Numbered
<1>8. SlotsDiffer'
  BY <1>6 DEF SlotsDiffer
<1>9. PickedAreSlotted'
  BY <1>1, <1>2, <1>5 DEF PickedAreSlotted
<1>10. OnePerSlot'
  <2>1. \A x, y \in ItemsIn(instances') : x.guid = y.guid => x = y
    BY <1>4 DEF Differ, ItemsIn
  <2> QED
    BY <1>6, <2>1 DEF OnePerSlot
<1>11. PickupsDiffer' /\ NothingYet'
  BY <1>1 DEF PickupsDiffer, NothingYet
<1> QED
  BY <1>4, <1>7, <1>8, <1>9, <1>10, <1>11

LEMMA InitGInv == Init => GInv
<1> SUFFICES ASSUME Init PROVE GInv
  OBVIOUS
<1>1. ReadableIn(instances) = {} /\ ItemsIn(instances) = {}
  BY DEF Init, ReadableIn, ItemsIn
<1>2. /\ \A s \in Slots : slots[s] = {}
      /\ scripted = {} /\ ground = {} /\ nextGuid = 1 /\ instances = <<>>
  BY DEF Init
<1> QED
  BY <1>1, <1>2 DEF GInv, Differ, Numbered, PickupsDiffer, SlotsDiffer, PickedAreSlotted,
                    OnePerSlot, NothingYet

(* Every action keeps the second invariant.                                *)
LEMMA StepGInv == IInv /\ GInv /\ [Next]_vars => GInv'
<1> SUFFICES ASSUME IInv, GInv, [Next]_vars
             PROVE  GInv'
  OBVIOUS
<1>1. CASE StartInventory
  BY <1>1, StartInventoryGInv
<1>2. ASSUME NEW d \in Definitions, NEW c \in Amount, SpawnPickup(d, c)
      PROVE  GInv'
  <2>1. SpawnedPickup(d, c).id = nextPickup
    BY DEF SpawnedPickup
  <2>2. PickupsDiffer'
    BY <1>2, <2>1, AddedPickup DEF SpawnPickup
  <2> QED
    BY <1>2, <2>2 DEF SpawnPickup, GInv, Differ, Numbered, SlotsDiffer, PickedAreSlotted,
                      OnePerSlot, NothingYet
<1>3. ASSUME NEW p \in ground, PickupToFreeSlot(p)
      PROVE  GInv'
  BY <1>3, PickupToFreeSlotGInv
<1>4. ASSUME NEW p \in ground, PickupSwap(p)
      PROVE  GInv'
  BY <1>4, PickupSwapGInv
<1>5. ASSUME NEW k \in Positions, NEW c \in Amount,
             InventoryDrop(instances[k].guid, c)
      PROVE  GInv'
  BY <1>5, InventoryDropGInv
<1>6. ASSUME NEW d \in Definitions, NEW s \in 0 .. SlotCount, ScriptAddToInventory(d, s)
      PROVE  GInv'
  BY <1>6, ScriptAddToInventoryGInv
<1>7. ASSUME NEW s \in Slots, SelectSlot(s)
      PROVE  GInv'
  BY <1>7 DEF SelectSlot, GInv, Differ, Numbered, PickupsDiffer, SlotsDiffer,
              PickedAreSlotted, OnePerSlot, NothingYet
<1>8. CASE ReadGarbage
  BY <1>8 DEF ReadGarbage, GInv, Differ, Numbered, PickupsDiffer, SlotsDiffer,
              PickedAreSlotted, OnePerSlot, NothingYet
<1>9. CASE UNCHANGED vars
  BY <1>9 DEF vars, GInv, Differ, Numbered, PickupsDiffer, SlotsDiffer,
              PickedAreSlotted, OnePerSlot, NothingYet
<1> QED
  BY <1>1, <1>2, <1>3, <1>4, <1>5, <1>6, <1>7, <1>8, <1>9 DEF Next

LEMMA GInvariance == Spec => [](IInv /\ GInv)
<1>1. Init => IInv /\ GInv
  BY InitIInv, InitGInv
<1>2. (IInv /\ GInv) /\ [Next]_vars => (IInv /\ GInv)'
  BY StepIInv, StepGInv
<1> QED
  BY <1>1, <1>2, PTL DEF Spec

(* Every item that was picked up and is still carried is in exactly one    *)
(* slot of the quickbar, whatever scripts add and drops take away.         *)
THEOREM PickedItemsAreSlotted == Spec => []PickedItemsHaveOneSlot
<1>1. IInv /\ GInv => PickedItemsHaveOneSlot
  <2> SUFFICES ASSUME IInv, GInv, NEW g \in LiveGuids \ scripted, g > Len(StartingItems)
               PROVE  Cardinality({s \in Slots : g \in slots[s]}) = 1
    BY DEF PickedItemsHaveOneSlot
  <2>1. PICK x \in ItemsIn(instances) : x.guid = g
    BY CarriedItems
  <2>2. PICK s \in Slots : g \in slots[s]
    BY <2>1 DEF GInv, PickedAreSlotted
  <2>3. {t \in Slots : g \in slots[t]} = {s}
    BY <2>2 DEF GInv, SlotsDiffer
  <2> QED
    BY <2>3, FS_Singleton
<1> QED
  BY <1>1, GInvariance, PTL

(* Two carried items share a slot only if a script wrote to it.            *)
THEOREM SlotsHoldOne == Spec => []OneItemPerSlot
<1>1. IInv /\ GInv => OneItemPerSlot
  <2> SUFFICES ASSUME IInv, GInv, NEW s \in Slots, slots[s] \cap scripted = {},
                      Cardinality(QuickbarItems(s)) > 1
               PROVE  FALSE
    BY DEF OneItemPerSlot
  <2>1. \A g, h \in QuickbarItems(s) : g = h
    BY CarriedItems DEF GInv, OnePerSlot, QuickbarItems
  <2>2. CASE QuickbarItems(s) = {}
    BY <2>2, FS_EmptySet
  <2>3. CASE QuickbarItems(s) # {}
    <3>1. PICK g : QuickbarItems(s) = {g}
      BY <2>1, <2>3
    <3>2. Cardinality(QuickbarItems(s)) = 1
      BY <3>1, FS_Singleton
    <3> QED
      BY <3>2
  <2> QED
    BY <2>2, <2>3
<1> QED
  BY <1>1, GInvariance, PTL

(* A pickup never costs the player what lies in slot 0, only a drop does,  *)
(* or the heap.                                                            *)
THEOREM SwapsSpareSlotZero == Spec => SwapSparesSlotZero
<1> DEFINE Spared == \A g \in QuickbarItems(0) :
                       Readable' /\ g \notin LiveGuids' => Len(instances') < Len(instances)
<1>1. IInv /\ GInv /\ [Next]_vars => [Spared]_vars
  <2> SUFFICES ASSUME IInv, GInv, Next, NEW g \in QuickbarItems(0), Readable',
                      g \notin LiveGuids'
               PROVE  Len(instances') < Len(instances)
    BY DEF vars
  <2>0. /\ g \in slots[0] /\ \E x \in ItemsIn(instances) : x.guid = g
        /\ \A x \in ItemsIn(instances') : x.guid # g
        /\ 0 \in Slots
    BY CarriedItems, InventoryAssumption DEF QuickbarItems, LiveGuids, Positions, ReadableIn,
       ItemsIn, Slots
  <2>1. CASE StartInventory
    BY <2>0, <2>1 DEF StartInventory, GInv, NothingYet
  <2>2. ASSUME instances' = instances
        PROVE  FALSE
    BY <2>0, <2>2
  <2>3. ASSUME NEW p \in ground, PickupToFreeSlot(p)
        PROVE  FALSE
    <3>1. /\ p.def \in Definitions /\ p.count \in 0 .. MaxCount /\ nextGuid <= MaxGuid
          /\ instances' = Append(instances, CreatedItem(p.def, p.count))
      BY <2>3 DEF PickupToFreeSlot, IInv, TypeOK, Pickup, Amount
    <3> QED
      BY <2>0, <3>1, NewItem
  <2>4. ASSUME NEW d \in Definitions, NEW s, ScriptAddToInventory(d, s)
        PROVE  FALSE
    <3>1. nextGuid <= MaxGuid /\ instances' = Append(instances, CreatedItem(d, 0))
      BY <2>4 DEF ScriptAddToInventory
    <3> QED
      BY <2>0, <3>1, NewItem, InventoryAssumption
  <2>5. ASSUME NEW p \in ground, PickupSwap(p)
        PROVE  FALSE
    <3>1. PICK old \in ItemsIn(instances) :
            /\ old.guid \in slots[focus]
            /\ ItemsIn(instances')
                 = (ItemsIn(instances) \cup {CreatedItem(p.def, p.count)}) \ {old}
      BY <2>5, SwapEffect
    <3>2. focus # 0 /\ focus \in Slots
      BY <2>5 DEF PickupSwap, FocusReplaceable, IInv, TypeOK
    <3>3. old.guid # g
      BY <2>0, <3>1, <3>2 DEF GInv, SlotsDiffer
    <3> QED
      BY <2>0, <3>1, <3>3
  <2>6. ASSUME NEW k \in Positions, NEW c, InventoryDrop(instances[k].guid, c)
        PROVE  Len(instances') < Len(instances)
    <3> DEFINE i == PositionOf(instances[k].guid)
    <3>1. i \in 1 .. Len(instances) /\ instances \in Seq(Cell) /\ Garbage \in Cell
      BY <2>6, PositionOfLive, PositionsHoldItems DEF InventoryDrop, IInv, TypeOK, Cell
    <3>2. PICK lost : instances' = RemovedFrom(instances, i, lost)
      BY <2>6 DEF InventoryDrop
    <3> HIDE DEF i
    <3>3. Len(instances') = Len(instances) - 1 /\ Len(instances) \in Nat
      BY <3>1, <3>2, RemovedFromType
    <3> QED
      BY <3>3
  <2> QED
    BY <2>1, <2>2, <2>3, <2>4, <2>5, <2>6
       DEF Next, SpawnPickup, SelectSlot, ReadGarbage
<1> QED
  BY <1>1, GInvariance, PTL DEF Spec, SwapSparesSlotZero

----------------------------------------------------------------------------
(* The inventory implements ItemExchange: what Trade sees of the state.    *)
Open    == ready /\ Faithful
Carried == {[id |-> instances[i].guid, def |-> instances[i].def] :
              i \in {j \in Positions : Faithful}}
Lying   == {[id |-> p.id, def |-> p.def] : p \in {q \in ground : Faithful}}

ThingOf(x)  == [id |-> x.guid, def |-> x.def]
SightOf(p)  == [id |-> p.id, def |-> p.def]
Things(X)   == {ThingOf(x) : x \in X}
Sights(G)   == {SightOf(p) : p \in G}

LEMMA SeenByTrade ==
  /\ Faithful => Carried = Things(ItemsIn(instances)) /\ Lying = Sights(ground)
  /\ Faithful' => Carried' = Things(ItemsIn(instances')) /\ Lying' = Sights(ground')
BY DEF Carried, Lying, Open, Things, Sights, ThingOf, SightOf, ItemsIn, ReadableIn, Positions

(* Things with guids of their own are told apart, and so are pickups.      *)
LEMMA ThingsWithout ==
  ASSUME NEW X, \A x, y \in X : x.guid = y.guid => x = y, NEW o \in X
  PROVE  Things(X \ {o}) = Things(X) \ {ThingOf(o)}
BY DEF Things, ThingOf

LEMMA SightsWithout ==
  ASSUME NEW G, \A p, q \in G : p.id = q.id => p = q, NEW o \in G
  PROVE  Sights(G \ {o}) = Sights(G) \ {SightOf(o)}
BY DEF Sights, SightOf

LEMMA ThingsWith ==
  ASSUME NEW X, NEW o
  PROVE  Things(X \cup {o}) = Things(X) \cup {ThingOf(o)}
BY DEF Things

LEMMA SightsWith ==
  ASSUME NEW G, NEW o
  PROVE  Sights(G \cup {o}) = Sights(G) \cup {SightOf(o)}
BY DEF Sights

(* The next guid and the next pickup are new to Trade as well.             *)
LEMMA NumbersAreNew ==
  ASSUME IInv, GInv
  PROVE  /\ \A x \in Things(ItemsIn(instances)) : x.id # nextGuid
         /\ \A x \in Sights(ground) : x.id # nextPickup
         /\ \A x, y \in ItemsIn(instances) : x.guid = y.guid => x = y
         /\ \A p, q \in ground : p.id = q.id => p = q
<1>1. /\ \A x \in ItemsIn(instances) : x.guid # nextGuid
      /\ \A p \in ground : p.id # nextPickup
  BY Numbers DEF IInv, GInv, Numbered, PickupsDiffer
<1>2. \A x, y \in ItemsIn(instances) : x.guid = y.guid => x = y
  BY DEF GInv, Differ, ItemsIn
<1> QED
  BY <1>1, <1>2 DEF GInv, PickupsDiffer, Things, ThingOf, Sights, SightOf

LEMMA InitRefines == Init => Trade!Init
<1> SUFFICES ASSUME Init PROVE Trade!Init
  OBVIOUS
<1>1. Positions = {} /\ ground = {} /\ ready = FALSE
  BY DEF Init, Positions
<1> QED
  BY <1>1 DEF Trade!Init

(* An item more, a pickup more: the steps that take from one side only.    *)
LEMMA StartRefines ==
  ASSUME IInv, GInv, GInv', Faithful, StartInventory
  PROVE  Trade!Stock
<1>1. /\ ready = FALSE /\ ready' = TRUE /\ realloc' = realloc /\ ground' = ground
  BY DEF StartInventory, IInv, TypeOK
<1>2. Faithful'
  BY <1>1 DEF Faithful
<1>3. Open = FALSE /\ Open' = TRUE /\ Lying' = Lying
  BY <1>1, <1>2 DEF Open, Lying
<1>4. \A x, y \in Carried' : x.id = y.id => x = y
  BY DEF Carried, GInv, Differ, Positions, ReadableIn
<1> QED
  BY <1>3, <1>4 DEF Trade!Stock, Open, Carried, Lying

LEMMA SpawnRefines ==
  ASSUME IInv, GInv, Faithful, NEW d, NEW c, SpawnPickup(d, c)
  PROVE  Trade!Spawn
<1>1. /\ ready' = ready /\ realloc' = realloc /\ instances' = instances
      /\ ground' = ground \cup {SpawnedPickup(d, c)}
  BY DEF SpawnPickup
<1>2. Faithful' /\ Open' = Open /\ Carried' = Carried
  BY <1>1 DEF Faithful, Open, Carried, Positions
<1> DEFINE x == SightOf(SpawnedPickup(d, c))
<1>3. x.id = nextPickup
  BY DEF SightOf, SpawnedPickup
<1> HIDE DEF x
<1>4. Lying' = Lying \cup {x} /\ \A y \in Lying : y.id # x.id
  BY <1>1, <1>2, <1>3, SeenByTrade, SightsWith, NumbersAreNew DEF x
<1>5. x \in Lying'
  BY <1>4
<1> QED
  BY <1>2, <1>4, <1>5 DEF Trade!Spawn, Trade!Fresh, Open, Carried, Lying

LEMMA ScriptAddRefines ==
  ASSUME IInv, GInv, Faithful, NEW d \in Definitions, NEW s, ScriptAddToInventory(d, s)
  PROVE  Trade!Give
<1> DEFINE item == CreatedItem(d, 0)
           x    == ThingOf(item)
<1>1. /\ ready /\ ready' = ready /\ realloc' = realloc /\ ground' = ground
      /\ nextGuid <= MaxGuid /\ instances' = Append(instances, item)
  BY DEF ScriptAddToInventory, Running
<1>2. Open /\ Open' = Open /\ Faithful' /\ Lying' = Lying
  BY <1>1 DEF Faithful, Open, Lying
<1>3. ItemsIn(instances') = ItemsIn(instances) \cup {item} /\ item.guid = nextGuid
  BY <1>1, NewItem, InventoryAssumption
<1> HIDE DEF item
<1>4. x.id = nextGuid
  BY <1>3 DEF ThingOf
<1>5. Carried' = Carried \cup {x} /\ \A y \in Carried : y.id # x.id
  BY <1>2, <1>3, <1>4, SeenByTrade, ThingsWith, NumbersAreNew
<1> HIDE DEF x
<1>6. x \in Carried'
  BY <1>5
<1> QED
  BY <1>2, <1>5, <1>6 DEF Trade!Give, Trade!Fresh, Open, Carried, Lying

LEMMA PickupRefines ==
  ASSUME IInv, GInv, Faithful, NEW p \in ground, PickupToFreeSlot(p)
  PROVE  \E q \in Lying : Trade!Take(q)
<1> DEFINE item == CreatedItem(p.def, p.count)
           x    == ThingOf(item)
           q    == SightOf(p)
<1>1. /\ ready /\ ready' = ready /\ realloc' = realloc /\ ground' = ground \ {p}
      /\ nextGuid <= MaxGuid /\ instances' = Append(instances, item)
      /\ p.def \in Definitions /\ p.count \in 0 .. MaxCount
  BY DEF PickupToFreeSlot, Running, GroundWithout, IInv, TypeOK, Pickup, Amount
<1>2. Open /\ Open' = Open /\ Faithful'
  BY <1>1 DEF Faithful, Open
<1>3. /\ ItemsIn(instances') = ItemsIn(instances) \cup {item}
      /\ item.guid = nextGuid /\ item.def = p.def
  BY <1>1, NewItem
<1> HIDE DEF item
<1>4. x.id = nextGuid /\ x.def = q.def
  BY <1>3 DEF ThingOf, SightOf
<1>5. Carried' = Carried \cup {x} /\ \A y \in Carried : y.id # x.id
  BY <1>2, <1>3, <1>4, SeenByTrade, ThingsWith, NumbersAreNew
<1>6. q \in Lying /\ Lying' = Lying \ {q}
  BY <1>1, <1>2, SeenByTrade, SightsWithout, NumbersAreNew DEF Sights
<1> HIDE DEF x, q
<1>7. x \in Carried'
  BY <1>5
<1>8. Trade!Take(q)
  BY <1>2, <1>4, <1>5, <1>6, <1>7 DEF Trade!Take, Trade!Fresh, Open, Carried, Lying
<1> QED
  BY <1>6, <1>8

LEMMA DropRefines ==
  ASSUME IInv, GInv, Faithful, NEW k \in Positions, NEW c, InventoryDrop(instances[k].guid, c)
  PROVE  \E o \in Carried : Trade!Drop(o)
<1> DEFINE i == PositionOf(instances[k].guid)
<1>1. /\ ready /\ ready' = ready /\ realloc' = realloc /\ i \in ReadableIn(instances)
      /\ ground' = ground \cup {SpawnedPickup(instances[i].def, c)}
      /\ \E lost \in SUBSET Lost(instances) : instances' = RemovedFrom(instances, i, lost)
  BY PositionOfLive, CarriedItems DEF InventoryDrop, Running
<1>2. Open /\ Open' = Open /\ Faithful' /\ realloc = "kept"
  BY <1>1 DEF Faithful, Open
<1>3. instances' = RemovedFrom(instances, i, {})
  BY <1>1, <1>2 DEF Lost
<1> HIDE DEF i
<1>4. PICK old \in ItemsIn(instances) : old = instances[i]
  BY <1>1 DEF ItemsIn
<1> DEFINE gone == ThingOf(old)
           q    == SightOf(SpawnedPickup(old.def, c))
<1>5. ItemsIn(instances') = ItemsIn(instances) \ {old}
  <2>1. instances \in Seq(Cell) /\ Differ(instances)
    BY DEF IInv, GInv, TypeOK, Cell
  <2> QED
    BY <1>1, <1>3, <1>4, <2>1, RemoveItems
<1>6. gone \in Carried /\ Carried' = Carried \ {gone}
  BY <1>2, <1>5, SeenByTrade, ThingsWithout, NumbersAreNew DEF Things
<1>7. q.id = nextPickup /\ q.def = gone.def
  BY DEF SightOf, ThingOf, SpawnedPickup
<1>8. Lying' = Lying \cup {q} /\ \A y \in Lying : y.id # q.id
  BY <1>1, <1>2, <1>4, <1>7, SeenByTrade, SightsWith, NumbersAreNew
<1> HIDE DEF gone, q
<1>9. q \in Lying'
  BY <1>8
<1>10. Trade!Drop(gone)
  BY <1>2, <1>6, <1>7, <1>8, <1>9 DEF Trade!Drop, Trade!Fresh, Open, Carried, Lying
<1> QED
  BY <1>6, <1>10

LEMMA SwapRefines ==
  ASSUME IInv, GInv, Faithful, NEW p \in ground, PickupSwap(p)
  PROVE  \E q \in Lying, o \in Carried : Trade!Swap(q, o)
<1> DEFINE item == CreatedItem(p.def, p.count)
           x    == ThingOf(item)
           q    == SightOf(p)
<1>1. /\ ready /\ ready' = ready /\ realloc' = realloc /\ realloc = "kept"
      /\ item.guid = nextGuid /\ item.def = p.def
      /\ \A z \in ItemsIn(instances) : z.guid # nextGuid
  BY SwapEffect DEF PickupSwap, Running, Faithful
<1>2. PICK old \in ItemsIn(instances) :
        /\ ground' = (ground \ {p}) \cup {SpawnedPickup(old.def, 1)}
        /\ ItemsIn(instances') = (ItemsIn(instances) \cup {item}) \ {old}
  BY <1>1, SwapEffect
<1> DEFINE gone == ThingOf(old)
           r    == SightOf(SpawnedPickup(old.def, 1))
<1>3. Open /\ Open' = Open /\ Faithful'
  BY <1>1 DEF Faithful, Open
<1>4. ItemsIn(instances') = (ItemsIn(instances) \ {old}) \cup {item}
  BY <1>1, <1>2
<1> HIDE DEF item
<1>5. x.id = nextGuid /\ x.def = q.def /\ r.id = nextPickup /\ r.def = gone.def
  BY <1>1 DEF ThingOf, SightOf, SpawnedPickup
<1>6. gone \in Carried /\ Carried' = (Carried \ {gone}) \cup {x} /\ \A y \in Carried : y.id # x.id
  <2>1. /\ Carried = Things(ItemsIn(instances)) /\ Carried' = Things(ItemsIn(instances'))
        /\ \A y \in Carried : y.id # nextGuid
    BY <1>3, SeenByTrade, NumbersAreNew
  <2>2. gone \in Things(ItemsIn(instances))
    BY DEF Things
  <2>3. Things(ItemsIn(instances) \ {old}) = Things(ItemsIn(instances)) \ {gone}
    BY ThingsWithout, NumbersAreNew
  <2>4. Things(ItemsIn(instances')) = Things(ItemsIn(instances) \ {old}) \cup {x}
    BY <1>4, ThingsWith
  <2> QED
    BY <1>5, <2>1, <2>2, <2>3, <2>4
<1>7. q \in Lying /\ Lying' = (Lying \ {q}) \cup {r} /\ \A y \in Lying : y.id # r.id
  <2>1. /\ Lying = Sights(ground) /\ Lying' = Sights(ground')
        /\ \A y \in Lying : y.id # nextPickup
    BY <1>3, SeenByTrade, NumbersAreNew
  <2>2. q \in Sights(ground)
    BY DEF Sights
  <2>3. Sights(ground \ {p}) = Sights(ground) \ {q}
    BY SightsWithout, NumbersAreNew
  <2>4. Sights(ground') = Sights(ground \ {p}) \cup {r}
    BY <1>2, SightsWith
  <2> QED
    BY <1>5, <2>1, <2>2, <2>3, <2>4
<1> HIDE DEF x, q, gone, r
<1>8. x \in Carried' /\ r \in Lying'
  BY <1>6, <1>7
<1>9. Trade!Swap(q, gone)
  BY <1>3, <1>5, <1>6, <1>7, <1>8 DEF Trade!Swap, Trade!Fresh, Open, Carried, Lying
<1> QED
  BY <1>6, <1>7, <1>9

(* With a heap that leaves old blocks as they were every step is one of    *)
(* Trade, or a stutter; with any other Trade sees nothing at all.          *)
LEMMA StepRefines == IInv /\ GInv /\ GInv' /\ [Next]_vars => [Trade!Next]_<<Open, Carried, Lying>>
<1> SUFFICES ASSUME IInv, GInv, GInv', [Next]_vars
             PROVE  [Trade!Next]_<<Open, Carried, Lying>>
  OBVIOUS
<1>1. realloc' = realloc
  BY DEF Next, vars, StartInventory, SpawnPickup, PickupToFreeSlot, PickupSwap, InventoryDrop,
         ScriptAddToInventory, SelectSlot, ReadGarbage
<1>2. CASE ~Faithful
  BY <1>1, <1>2 DEF Faithful, Open, Carried, Lying
<1>3. CASE Faithful
  <2>1. CASE StartInventory
    BY <1>3, <2>1, StartRefines DEF Trade!Next
  <2>2. ASSUME NEW d \in Definitions, NEW c \in Amount, SpawnPickup(d, c)
        PROVE  Trade!Next
    BY <1>3, <2>2, SpawnRefines DEF Trade!Next
  <2>3. ASSUME NEW p \in ground, PickupToFreeSlot(p)
        PROVE  Trade!Next
    BY <1>3, <2>3, PickupRefines DEF Trade!Next, Lying
  <2>4. ASSUME NEW p \in ground, PickupSwap(p)
        PROVE  Trade!Next
    BY <1>3, <2>4, SwapRefines DEF Trade!Next, Lying, Carried
  <2>5. ASSUME NEW k \in Positions, NEW c \in Amount,
               InventoryDrop(instances[k].guid, c)
        PROVE  Trade!Next
    BY <1>3, <2>5, DropRefines DEF Trade!Next, Carried
  <2>6. ASSUME NEW d \in Definitions, NEW s \in 0 .. SlotCount, ScriptAddToInventory(d, s)
        PROVE  Trade!Next
    BY <1>3, <2>6, ScriptAddRefines DEF Trade!Next
  <2>7. ASSUME ready' = ready, instances' = instances, ground' = ground
        PROVE  UNCHANGED <<Open, Carried, Lying>>
    BY <1>1, <2>7 DEF Open, Carried, Lying, Positions, Faithful
  <2> QED
    BY <2>1, <2>2, <2>3, <2>4, <2>5, <2>6, <2>7 DEF Next, vars, SelectSlot, ReadGarbage
<1> QED
  BY <1>2, <1>3

(* Pickups, drops and swaps are exchanges, one for one, of the same        *)
(* definition.                                                             *)
THEOREM InventoryImplementsExchange == Spec => ImplementsExchange
<1>1. Init => Trade!Init
  BY InitRefines
<1>2. (IInv /\ GInv) /\ (IInv /\ GInv)' /\ [Next]_vars => [Trade!Next]_<<Open, Carried, Lying>>
  BY StepRefines
<1>3. [Trade!Next]_<<Open, Carried, Lying>> => [Trade!Next]_Trade!xvars
  BY DEF Trade!xvars, Open, Carried, Lying
<1> QED
  BY <1>1, <1>2, <1>3, GInvariance, PTL DEF Spec, ImplementsExchange, Trade!Spec

----------------------------------------------------------------------------
(* Sums over finite sets, as the folds of the community modules define     *)
(* them.                                                                   *)

(* What the fold of the community modules computes for weights w: the sum  *)
(* of each set of points, an arbitrary point first.                        *)
Sums(w, it) ==
  it = [s \in SUBSET DOMAIN w |->
          IF s = {} THEN 0
          ELSE w[CHOOSE x \in s : TRUE] + it[s \ {CHOOSE x \in s : TRUE}]]

IsSum(w, n) == \E it : Sums(w, it) /\ n = it[DOMAIN w]

Weights(w) ==
  /\ IsFiniteSet(DOMAIN w) /\ w = [x \in DOMAIN w |-> w[x]]
  /\ \A x \in DOMAIN w : w[x] \in Nat

(* A set of natural numbers that is not empty has a least element.         *)
LEMMA LeastNumber ==
  ASSUME NEW S, S \subseteq Nat, S # {}
  PROVE  \E m \in S : \A l \in S : m <= l
<1>1. PICK m \in S : \A l \in S : ~ (<<l, m>> \in OpToRel(<, Nat))
  BY NatLessThanWellFounded, WFMin
<1>2. ASSUME NEW l \in S PROVE m <= l
  <2>1. ~(l < m)
    BY <1>1 DEF OpToRel
  <2> QED
    BY <2>1
<1> QED
  BY <1>2

(* Among finite sets there is one with the fewest elements.                *)
LEMMA FewestElements ==
  ASSUME NEW B, B # {}, \A s \in B : IsFiniteSet(s)
  PROVE  \E s \in B : \A t \in B : Cardinality(s) <= Cardinality(t)
<1> DEFINE C == {Cardinality(s) : s \in B}
<1>1. C \subseteq Nat /\ C # {}
  BY FS_CardinalityType
<1>2. \E m \in C : \A l \in C : m <= l
  BY <1>1, LeastNumber
<1> QED
  BY <1>2

(* Among subsets of a finite set there is one that contains no other.      *)
LEMMA SmallestSet ==
  ASSUME NEW D, IsFiniteSet(D), NEW B, B \subseteq SUBSET D, B # {}
  PROVE  \E s \in B : \A t \in SUBSET s : t # s => t \notin B
<1>1. \A s \in SUBSET D : IsFiniteSet(s) /\ Cardinality(s) \in Nat
  BY FS_Subset, FS_CardinalityType
<1>2. PICK s \in B : \A t \in B : Cardinality(s) <= Cardinality(t)
  BY <1>1, FewestElements
<1>3. ASSUME NEW t \in SUBSET s, t # s PROVE t \notin B
  <2>1. Cardinality(t) <= Cardinality(s) /\ Cardinality(t) # Cardinality(s)
    BY <1>1, <1>3, FS_Subset
  <2>2. Cardinality(t) \in Nat /\ Cardinality(s) \in Nat
    BY <1>1
  <2>3. ~(Cardinality(s) <= Cardinality(t))
    BY <2>1, <2>2
  <2> QED
    BY <1>2, <2>3
<1> QED
  BY <1>3

(* One point is taken out.                                                 *)
LEMMA SmallerSet ==
  ASSUME NEW s, IsFiniteSet(s), NEW x \in s
  PROVE  /\ IsFiniteSet(s \ {x}) /\ Cardinality(s \ {x}) < Cardinality(s)
         /\ Cardinality(s) \in Nat \ {0} /\ Cardinality(s \ {x}) = Cardinality(s) - 1
<1>1. Cardinality(s) \in Nat /\ Cardinality(s \ {x}) \in Nat /\ IsFiniteSet(s \ {x})
  BY FS_CardinalityType, FS_RemoveElement
<1>2. Cardinality(s \ {x}) = Cardinality(s) - 1
  BY FS_RemoveElement
<1> QED
  BY <1>1, <1>2

(* The sums exist: with those of the sets of fewer than n points known,    *)
(* one more step gives those of n points.                                  *)
LEMMA SumsExist ==
  ASSUME NEW w, Weights(w)
  PROVE  \E it : Sums(w, it)
<1> DEFINE D == DOMAIN w
           Small(n) == {s \in SUBSET D : Cardinality(s) <= n}
           First(s) == CHOOSE x \in s : TRUE
           Body(g, s) == IF s = {} THEN 0 ELSE w[First(s)] + g[s \ {First(s)}]
           Upto(n) == \E g : g = [s \in Small(n) |-> Body(g, s)]
           Bad == {n \in Nat : ~Upto(n)}
<1>1. IsFiniteSet(D) /\ \A s \in SUBSET D : IsFiniteSet(s) /\ Cardinality(s) \in Nat
                                            /\ Cardinality(s) <= Cardinality(D)
  BY FS_Subset, FS_CardinalityType DEF Weights
<1>2. \A s : s # {} => First(s) \in s
  OBVIOUS
<1>3. 0 \notin Bad
  <2> DEFINE g == [s \in Small(0) |-> 0]
  <2>1. \A s \in Small(0) : s = {}
    BY <1>1, FS_EmptySet
  <2>2. g = [s \in Small(0) |-> Body(g, s)]
    BY <2>1
  <2> QED
    BY <2>2
<1>4. ASSUME NEW n \in Nat, n \notin Bad PROVE n + 1 \notin Bad
  <2>1. PICK g : g = [s \in Small(n) |-> Body(g, s)]
    BY <1>4
  <2> DEFINE h == [s \in Small(n + 1) |-> Body(g, s)]
  <2>2. \A s \in Small(n) : s \in Small(n + 1) /\ h[s] = g[s]
    <3> SUFFICES ASSUME NEW s \in Small(n) PROVE s \in Small(n + 1) /\ h[s] = g[s]
      OBVIOUS
    <3>1. s \in Small(n + 1)
      BY <1>1
    <3>2. g[s] = Body(g, s)
      BY <2>1
    <3> QED
      BY <3>1, <3>2
  <2>3. \A s \in Small(n + 1) : Body(g, s) = Body(h, s)
    <3> SUFFICES ASSUME NEW s \in Small(n + 1), s # {} PROVE Body(g, s) = Body(h, s)
      OBVIOUS
    <3>1. First(s) \in s /\ IsFiniteSet(s) /\ s \ {First(s)} \in SUBSET D
      BY <1>1, <1>2
    <3>2. Cardinality(s \ {First(s)}) = Cardinality(s) - 1
      BY <3>1, SmallerSet
    <3>3. s \ {First(s)} \in Small(n)
      <4> HIDE DEF First
      <4>1. Cardinality(s) <= n + 1 /\ Cardinality(s) \in Nat
        BY <1>1
      <4> QED
        BY <3>1, <3>2, <4>1
    <3> HIDE DEF h, Small, First
    <3> QED
      BY <2>2, <3>3
  <2>4. h = [s \in Small(n + 1) |-> Body(h, s)]
    BY <2>3
  <2> HIDE DEF h
  <2> QED
    BY <2>4
<1>5. \A n \in Nat : n \notin Bad
  <2>1. Bad \subseteq Nat
    OBVIOUS
  <2> HIDE DEF Bad
  <2> SUFFICES ASSUME Bad # {} PROVE FALSE
    OBVIOUS
  <2>2. PICK m \in Bad : \A l \in Bad : m <= l
    BY <2>1, LeastNumber
  <2>3. m \in Nat /\ m # 0 /\ m - 1 \in Nat
    BY <1>3, <2>1, <2>2
  <2>4. m - 1 \notin Bad
    BY <2>2, <2>3
  <2>5. (m - 1) + 1 \notin Bad
    BY <1>4, <2>3, <2>4
  <2>6. (m - 1) + 1 = m
    BY <2>3
  <2> QED
    BY <2>2, <2>5, <2>6
<1>6. Cardinality(D) \in Nat
  BY <1>1, FS_CardinalityType
<1>7. PICK g : g = [s \in Small(Cardinality(D)) |-> Body(g, s)]
  <2>1. Upto(Cardinality(D))
    <3> HIDE DEF Upto
    <3> QED
      BY <1>5, <1>6
  <2> QED
    BY <2>1
<1>8. Small(Cardinality(D)) = SUBSET D
  BY <1>1
<1> QED
  BY <1>7, <1>8 DEF Sums

(* Any point may be taken out first, and the sums are numbers.             *)
LEMMA SumsTakeOut ==
  ASSUME NEW w, Weights(w), NEW it, Sums(w, it)
  PROVE  \A s \in SUBSET DOMAIN w :
           /\ it[s] \in Nat /\ (s = {} => it[s] = 0)
           /\ \A x \in s : it[s] = w[x] + it[s \ {x}]
<1> DEFINE D == DOMAIN w
           First(s) == CHOOSE x \in s : TRUE
           Good(s) == /\ it[s] \in Nat /\ (s = {} => it[s] = 0)
                      /\ \A x \in s : it[s] = w[x] + it[s \ {x}]
           Bad == {s \in SUBSET D : ~Good(s)}
<1>1. \A s \in SUBSET D : IsFiniteSet(s) /\ Cardinality(s) \in Nat
  BY FS_Subset, FS_CardinalityType DEF Weights
<1>2. \A s \in SUBSET D :
        it[s] = IF s = {} THEN 0 ELSE w[First(s)] + it[s \ {First(s)}]
  BY DEF Sums
<1>3. \A s : s # {} => First(s) \in s
  OBVIOUS
<1>4. \A x \in D : w[x] \in Nat
  BY DEF Weights
<1> HIDE DEF First
<1>5. ASSUME NEW s \in SUBSET D, s # {},
             \A t \in SUBSET s : t # s => Good(t)
      PROVE  Good(s)
  <2> DEFINE c == First(s)
             r == s \ {c}
  <2>1. c \in s /\ c \in D
    BY <1>3, <1>5
  <2>2. it[s] = w[c] + it[r]
    BY <1>2, <1>5
  <2>3. Good(r)
    <3> HIDE DEF Good
    <3>1. r \in SUBSET s /\ r # s
      BY <2>1
    <3> QED
      BY <1>5, <3>1
  <2>4. it[s] \in Nat
    BY <1>4, <2>1, <2>2, <2>3
  <2>5. ASSUME NEW x \in s PROVE it[s] = w[x] + it[s \ {x}]
    <3>1. CASE x = c
      BY <2>2, <3>1
    <3>2. CASE x # c
      <4> DEFINE b == s \ {x}
                 q == s \ {x, c}
      <4>1. x \in r /\ c \in b /\ r \ {x} = q /\ b \ {c} = q
        BY <2>1, <3>2
      <4>2. it[r] = w[x] + it[q]
        BY <2>3, <4>1
      <4>3. Good(b) /\ Good(q)
        <5> HIDE DEF Good
        <5>1. b \in SUBSET s /\ b # s /\ q \in SUBSET s /\ q # s
          BY <2>5
        <5> QED
          BY <1>5, <5>1
      <4>4. it[b] = w[c] + it[q]
        BY <4>1, <4>3
      <4>5. x \in D /\ w[x] \in Nat /\ w[c] \in Nat
        BY <1>4, <1>5, <2>1
      <4>6. it[r] \in Nat /\ it[b] \in Nat /\ it[q] \in Nat
        BY <2>3, <4>3
      <4> HIDE DEF q, b, r, c, Good
      <4>7. w[c] + it[r] = w[x] + it[b]
        BY <4>2, <4>4, <4>5, <4>6
      <4> QED
        BY <2>2, <4>7 DEF b
    <3> QED
      BY <3>1, <3>2
  <2> QED
    BY <1>5, <2>4, <2>5
<1>6. Bad = {}
  <2>1. Bad \subseteq SUBSET D
    OBVIOUS
  <2> SUFFICES ASSUME Bad # {} PROVE FALSE
    OBVIOUS
  <2> HIDE DEF Good
  <2>3. PICK s \in Bad : \A t \in SUBSET s : t # s => t \notin Bad
    <3>1. IsFiniteSet(D)
      BY DEF Weights
    <3> HIDE DEF Bad
    <3> QED
      BY <2>1, <3>1, SmallestSet
  <2>4. s # {}
    <3> SUFFICES ASSUME s = {} PROVE FALSE
      OBVIOUS
    <3>1. it[{}] = 0
      BY <1>2
    <3>2. Good({})
      BY <3>1 DEF Good
    <3> QED
      BY <2>3, <3>2
  <2>5. ASSUME NEW t \in SUBSET s, t # s PROVE Good(t)
    BY <2>3, <2>5
  <2>6. Good(s)
    BY <1>5, <2>4, <2>5
  <2> QED
    BY <2>3, <2>6
<1> QED
  <2> HIDE DEF Good
  <2>1. \A s \in SUBSET D : Good(s)
    BY <1>6
  <2> QED
    BY <2>1 DEF Good

(* Points sent to points that weigh as much, no two to the same: the sum   *)
(* does not shrink.                                                        *)
Sent(h, v, t, w, s) ==
  /\ \A y \in t : h[y] \in s /\ v[y] <= w[h[y]]
  /\ \A y, z \in t : h[y] = h[z] => y = z

LEMMA SentSums ==
  ASSUME NEW w, Weights(w), NEW it, Sums(w, it),
         NEW v, Weights(v), NEW jt, Sums(v, jt),
         NEW h, NEW t \in SUBSET DOMAIN v, NEW s \in SUBSET DOMAIN w, Sent(h, v, t, w, s)
  PROVE  jt[t] <= it[s]
<1> DEFINE Good(a) == \A b \in SUBSET DOMAIN w : Sent(h, v, a, w, b) => jt[a] <= it[b]
           Bad == {a \in SUBSET DOMAIN v : ~Good(a)}
<1>1. \A a \in SUBSET DOMAIN v :
        /\ jt[a] \in Nat /\ (a = {} => jt[a] = 0)
        /\ \A x \in a : jt[a] = v[x] + jt[a \ {x}]
  BY SumsTakeOut
<1>2. \A b \in SUBSET DOMAIN w :
        it[b] \in Nat /\ \A x \in b : it[b] = w[x] + it[b \ {x}]
  BY SumsTakeOut
<1>3. ASSUME NEW a \in SUBSET DOMAIN v, a # {},
             \A c \in SUBSET a : c # a => Good(c)
      PROVE  Good(a)
  <2> SUFFICES ASSUME NEW b \in SUBSET DOMAIN w, Sent(h, v, a, w, b)
               PROVE  jt[a] <= it[b]
    OBVIOUS
  <2>1. PICK y \in a : TRUE
    BY <1>3
  <2> DEFINE c == a \ {y}
             d == b \ {h[y]}
  <2>2. h[y] \in b /\ v[y] <= w[h[y]]
    BY DEF Sent
  <2>3. Sent(h, v, c, w, d)
    BY DEF Sent
  <2>4. Good(c)
    <3> HIDE DEF Good
    <3>1. c \in SUBSET a /\ c # a
      OBVIOUS
    <3> QED
      BY <1>3, <3>1
  <2>5. c \in SUBSET DOMAIN v /\ d \in SUBSET DOMAIN w
    OBVIOUS
  <2>6. jt[c] <= it[d]
    BY <2>3, <2>4, <2>5
  <2>7. jt[a] = v[y] + jt[c] /\ it[b] = w[h[y]] + it[d]
    BY <1>1, <1>2, <2>2
  <2>8. jt[c] \in Nat /\ it[d] \in Nat /\ v[y] \in Nat /\ w[h[y]] \in Nat
    BY <1>1, <1>2, <2>2, <2>5 DEF Weights
  <2> HIDE DEF c, d
  <2> QED
    BY <2>2, <2>6, <2>7, <2>8
<1>4. Bad = {}
  <2>1. Bad \subseteq SUBSET DOMAIN v
    OBVIOUS
  <2> SUFFICES ASSUME Bad # {} PROVE FALSE
    OBVIOUS
  <2> HIDE DEF Good
  <2>2. PICK a \in Bad : \A c \in SUBSET a : c # a => c \notin Bad
    <3>1. IsFiniteSet(DOMAIN v)
      BY DEF Weights
    <3> HIDE DEF Bad
    <3> QED
      BY <2>1, <3>1, SmallestSet
  <2>3. a # {}
    <3> SUFFICES ASSUME a = {} PROVE FALSE
      OBVIOUS
    <3>1. jt[{}] = 0 /\ \A b \in SUBSET DOMAIN w : it[b] \in Nat
      BY <1>1, <1>2
    <3>2. \A b \in SUBSET DOMAIN w : jt[{}] <= it[b]
      BY <3>1
    <3>3. Good({})
      BY <3>2 DEF Good
    <3> QED
      BY <2>2, <3>3
  <2>4. Good(a)
    BY <1>3, <2>2, <2>3
  <2> QED
    BY <2>2, <2>4
<1> QED
  <2> HIDE DEF Good
  <2>1. Good(t)
    BY <1>4
  <2> QED
    BY <2>1 DEF Good

(* One point may leave that weighs at least r, one may come that weighs at *)
(* most a; the others are sent to points that weigh as much.               *)
Leaves(w, s, r) ==
  \/ s = DOMAIN w /\ r = 0
  \/ \E x \in DOMAIN w : s = DOMAIN w \ {x} /\ r <= w[x]
Comes(v, t, a) ==
  \/ t = DOMAIN v /\ a = 0
  \/ \E y \in DOMAIN v : t = DOMAIN v \ {y} /\ v[y] <= a

LEMMA SumsChange ==
  ASSUME NEW w, Weights(w), NEW n, IsSum(w, n),
         NEW v, Weights(v), NEW m, IsSum(v, m),
         NEW s, NEW r \in Nat, Leaves(w, s, r),
         NEW t, NEW a \in Nat, Comes(v, t, a),
         NEW h, Sent(h, v, t, w, s)
  PROVE  n \in Nat /\ m \in Nat /\ m + r <= n + a
<1>1. PICK it : Sums(w, it) /\ n = it[DOMAIN w]
  BY DEF IsSum
<1>2. PICK jt : Sums(v, jt) /\ m = jt[DOMAIN v]
  BY DEF IsSum
<1>3. s \in SUBSET DOMAIN w /\ t \in SUBSET DOMAIN v
  BY DEF Leaves, Comes
<1>4. jt[t] <= it[s]
  BY <1>1, <1>2, <1>3, SentSums
<1>5. n \in Nat /\ it[s] \in Nat /\ m \in Nat /\ jt[t] \in Nat
  BY <1>1, <1>2, <1>3, SumsTakeOut
<1>6. it[s] + r <= n
  <2>1. CASE s = DOMAIN w /\ r = 0
    BY <2>1, <1>1, <1>5
  <2>2. ASSUME NEW x \in DOMAIN w, s = DOMAIN w \ {x}, r <= w[x]
        PROVE  it[s] + r <= n
    <3>1. n = w[x] + it[s]
      BY <2>2, <1>1, SumsTakeOut
    <3>2. w[x] \in Nat
      BY DEF Weights
    <3> QED
      BY <2>2, <3>1, <3>2, <1>5
  <2> QED
    BY <2>1, <2>2 DEF Leaves
<1>7. m <= jt[t] + a
  <2>1. CASE t = DOMAIN v /\ a = 0
    BY <2>1, <1>2, <1>5
  <2>2. ASSUME NEW y \in DOMAIN v, t = DOMAIN v \ {y}, v[y] <= a
        PROVE  m <= jt[t] + a
    <3>1. m = v[y] + jt[t]
      BY <2>2, <1>2, SumsTakeOut
    <3>2. v[y] \in Nat
      BY DEF Weights
    <3> QED
      BY <2>2, <3>1, <3>2, <1>5
  <2> QED
    BY <2>1, <2>2 DEF Comes
<1> QED
  BY <1>4, <1>5, <1>6, <1>7

(* The folds of Total are such sums.                                       *)
CountsOf(f, S) == MapThenSumSet(LAMBDA i : f[i].count, S)

LEMMA CountsAreSums ==
  ASSUME NEW S, NEW f, Weights([i \in S |-> f[i].count])
  PROVE  IsSum([i \in S |-> f[i].count], CountsOf(f, S))
<1> DEFINE w == [i \in S |-> f[i].count]
           P(it) == it = [s \in SUBSET S |->
                            IF s = {} THEN 0
                            ELSE LET x == CHOOSE x \in s : TRUE IN f[x].count + it[s \ {x}]]
<1>1. ASSUME NEW it PROVE P(it) <=> Sums(w, it)
  <2>1. DOMAIN w = S
    OBVIOUS
  <2>2. \A s \in SUBSET S : s # {} => w[CHOOSE x \in s : TRUE] = f[CHOOSE x \in s : TRUE].count
    OBVIOUS
  <2> HIDE DEF w
  <2> QED
    BY <2>1, <2>2 DEF Sums
<1>2. \E it : P(it)
  <2>1. Weights(w)
    OBVIOUS
  <2>2. PICK it : Sums(w, it)
    <3> HIDE DEF w
    <3> QED
      BY <2>1, SumsExist
  <2> HIDE DEF P, w
  <2> QED
    BY <1>1, <2>2
<1> DEFINE it == CHOOSE g : P(g)
<1>3. P(it)
  <2> HIDE DEF P
  <2> QED
    BY <1>2
<1>4. CountsOf(f, S) = it[S]
  BY Zenon DEF CountsOf, MapThenSumSet, MapThenFoldSet
<1>5. Sums(w, it)
  <2> HIDE DEF P, it, w
  <2> QED
    BY <1>1, <1>3
<1> QED
  BY <1>4, <1>5 DEF IsSum

(* The same for the pickups, each with what picking it up would give.      *)
LEMMA PickupCountsAreSums ==
  ASSUME NEW S, Weights([p \in S |-> CreatedCount(p.count)])
  PROVE  IsSum([p \in S |-> CreatedCount(p.count)],
               MapThenSumSet(LAMBDA p : CreatedCount(p.count), S))
<1> DEFINE w == [p \in S |-> CreatedCount(p.count)]
           P(it) == it = [s \in SUBSET S |->
                            IF s = {} THEN 0
                            ELSE LET x == CHOOSE x \in s : TRUE IN CreatedCount(x.count) + it[s \ {x}]]
<1>1. ASSUME NEW it PROVE P(it) <=> Sums(w, it)
  <2>1. DOMAIN w = S
    OBVIOUS
  <2>2. \A s \in SUBSET S : s # {} => w[CHOOSE x \in s : TRUE] = CreatedCount((CHOOSE x \in s : TRUE).count)
    OBVIOUS
  <2> HIDE DEF w
  <2> QED
    BY <2>1, <2>2 DEF Sums
<1>2. \E it : P(it)
  <2>1. Weights(w)
    OBVIOUS
  <2>2. PICK it : Sums(w, it)
    <3> HIDE DEF w
    <3> QED
      BY <2>1, SumsExist
  <2> HIDE DEF P, w
  <2> QED
    BY <1>1, <2>2
<1> DEFINE it == CHOOSE g : P(g)
<1>3. P(it)
  <2> HIDE DEF P
  <2> QED
    BY <1>2
<1>4. MapThenSumSet(LAMBDA p : CreatedCount(p.count), S) = it[S]
  BY Zenon DEF MapThenSumSet, MapThenFoldSet
<1>5. Sums(w, it)
  <2> HIDE DEF P, it, w
  <2> QED
    BY <1>1, <1>3
<1> QED
  BY <1>4, <1>5 DEF IsSum

----------------------------------------------------------------------------
(* Stacks: the inventory's counts, and the pickups'.                       *)
Counts(a)   == [i \in ReadableIn(a) |-> a[i].count]
Amounts(G)  == [p \in G |-> CreatedCount(p.count)]
Carrying(a) == CountsOf(a, ReadableIn(a))
Strewn(G)   == MapThenSumSet(LAMBDA p : CreatedCount(p.count), G)

LEMMA CountsWeigh ==
  ASSUME NEW a \in Seq(Cell)
  PROVE  Weights(Counts(a)) /\ IsSum(Counts(a), Carrying(a))
<1>1. Len(a) \in Nat /\ DOMAIN a = 1 .. Len(a)
  OBVIOUS
<1>2. IsFiniteSet(ReadableIn(a))
  <2>1. IsFiniteSet(1 .. Len(a))
    BY <1>1, FS_Interval
  <2>2. ReadableIn(a) \subseteq 1 .. Len(a)
    BY <1>1 DEF ReadableIn
  <2> QED
    BY <2>1, <2>2, FS_Subset
<1>3. \A i \in ReadableIn(a) : a[i].count \in Nat
  BY InventoryAssumption DEF ReadableIn, Cell, Item
<1>4. Weights(Counts(a))
  BY <1>2, <1>3 DEF Weights, Counts
<1>5. Weights([i \in ReadableIn(a) |-> a[i].count])
  BY <1>4 DEF Counts
<1>6. IsSum([i \in ReadableIn(a) |-> a[i].count], Carrying(a))
  <2> DEFINE S == ReadableIn(a)
  <2>1. Weights([i \in S |-> a[i].count])
    BY <1>5
  <2> HIDE DEF S
  <2>2. IsSum([i \in S |-> a[i].count], CountsOf(a, S))
    BY <2>1, CountsAreSums
  <2> QED
    BY <2>2 DEF S, Carrying
<1> QED
  BY <1>4, <1>6 DEF Counts

LEMMA AmountsWeigh ==
  ASSUME NEW G \in SUBSET Pickup, IsFiniteSet(G)
  PROVE  Weights(Amounts(G)) /\ IsSum(Amounts(G), Strewn(G))
<1>1. \A p \in G : CreatedCount(p.count) \in Nat
  BY InventoryAssumption DEF Pickup, Amount, CreatedCount
<1>2. Weights(Amounts(G))
  BY <1>1 DEF Weights, Amounts
<1>3. Weights([p \in G |-> CreatedCount(p.count)])
  BY <1>2 DEF Amounts
<1>4. IsSum([p \in G |-> CreatedCount(p.count)], Strewn(G))
  BY <1>3, PickupCountsAreSums, Zenon DEF Strewn
<1> QED
  BY <1>2, <1>4 DEF Amounts

(* An item comes at the end.                                               *)
LEMMA AppendCarrying ==
  ASSUME NEW a \in Seq(Cell), NEW e \in Item
  PROVE  /\ Carrying(a) \in Nat /\ Carrying(Append(a, e)) \in Nat
         /\ Carrying(Append(a, e)) <= Carrying(a) + e.count
<1> DEFINE b == Append(a, e)
           n == Len(a) + 1
           w == Counts(a)
           v == Counts(b)
           s == DOMAIN w
           t == DOMAIN v \ {n}
           h == [j \in t |-> j]
<1>1. /\ b \in Seq(Cell) /\ e \in Cell
      /\ DOMAIN a = 1 .. Len(a) /\ Len(a) \in Nat
      /\ DOMAIN b = 1 .. n /\ b[n] = e /\ \A j \in 1 .. Len(a) : b[j] = a[j]
  BY DEF Cell
<1>2. e # Garbage /\ e.count \in Nat
  BY GarbageIsNoItem, InventoryAssumption DEF Item
<1> HIDE DEF b
<1>3. n \in DOMAIN v /\ v[n] = e.count
  BY <1>1, <1>2 DEF Counts, ReadableIn
<1>4. \A j \in t : j \in s /\ v[j] = w[j] /\ w[j] \in Nat
  <2>1. \A j \in t : j \in s /\ v[j] = w[j]
    BY <1>1 DEF Counts, ReadableIn
  <2> QED
    BY <2>1, CountsWeigh DEF Weights
<1> HIDE DEF w, v
<1>5. Sent(h, v, t, w, s)
  BY <1>4 DEF Sent
<1>6. Comes(v, t, e.count)
  BY <1>2, <1>3 DEF Comes
<1>7. Leaves(w, s, 0)
  BY DEF Leaves
<1>8. Weights(w) /\ IsSum(w, Carrying(a)) /\ Weights(v) /\ IsSum(v, Carrying(b))
  BY <1>1, CountsWeigh DEF w, v
<1> HIDE DEF s, t, h
<1>9. /\ Carrying(a) \in Nat /\ Carrying(b) \in Nat
      /\ Carrying(b) + 0 <= Carrying(a) + e.count
  BY <1>2, <1>5, <1>6, <1>7, <1>8, SumsChange
<1> QED
  BY <1>9 DEF b

(* Remove takes what lies at its position, whatever else the heap takes.   *)
LEMMA RemoveCarrying ==
  ASSUME NEW a \in Seq(Cell), NEW i \in ReadableIn(a), NEW lost
  PROVE  /\ Carrying(a) \in Nat /\ Carrying(RemovedFrom(a, i, lost)) \in Nat
         /\ Carrying(RemovedFrom(a, i, lost)) + a[i].count <= Carrying(a)
<1> DEFINE b == RemovedFrom(a, i, lost)
           w == Counts(a)
           v == Counts(b)
           s == DOMAIN w \ {i}
           t == DOMAIN v
           h == [j \in t |-> From(i, j)]
<1>0. i \in 1 .. Len(a) /\ DOMAIN a = 1 .. Len(a) /\ Len(a) \in Nat
  BY DEF ReadableIn
<1>1. b \in Seq(Cell)
  BY <1>0, RemovedFromType DEF Cell
<1>2. MovedDown(a, i, lost, b)
  BY <1>0, RemovedFromCells
<1> HIDE DEF b
<1>3. \A j \in ReadableIn(b) :
        From(i, j) \in ReadableIn(a) \ {i} /\ b[j] = a[From(i, j)]
  BY <1>0, <1>2 DEF MovedDown, ReadableIn
<1>4. \A j, k \in ReadableIn(b) : From(i, j) = From(i, k) => j = k
  BY <1>2 DEF MovedDown, ReadableIn
<1>5. /\ DOMAIN w = ReadableIn(a) /\ DOMAIN v = ReadableIn(b)
      /\ \A k \in ReadableIn(a) : w[k] = a[k].count
      /\ \A k \in ReadableIn(b) : v[k] = b[k].count
  BY DEF Counts
<1>6. Weights(w) /\ IsSum(w, Carrying(a)) /\ Weights(v) /\ IsSum(v, Carrying(b))
  BY <1>1, CountsWeigh
<1> HIDE DEF w, v
<1>7. a[i].count \in Nat
  BY <1>5, <1>6 DEF Weights
<1>8. Sent(h, v, t, w, s)
  <2>1. \A j \in t : h[j] \in s /\ v[j] = w[h[j]] /\ w[h[j]] \in Nat
    BY <1>3, <1>5, <1>6 DEF Weights
  <2>2. \A j, k \in t : h[j] = h[k] => j = k
    BY <1>4, <1>5
  <2> QED
    BY <2>1, <2>2 DEF Sent
<1>9. Leaves(w, s, a[i].count)
  BY <1>5, <1>7 DEF Leaves
<1>10. Comes(v, t, 0)
  BY DEF Comes
<1> HIDE DEF s, t, h
<1>11. /\ Carrying(a) \in Nat /\ Carrying(b) \in Nat
       /\ Carrying(b) + a[i].count <= Carrying(a) + 0
  BY <1>6, <1>7, <1>8, <1>9, <1>10, SumsChange
<1> QED
  BY <1>11 DEF b

(* Pickups: one is taken, one is put down, or both.                        *)
LEMMA StrewnChange ==
  ASSUME NEW G \in SUBSET Pickup, IsFiniteSet(G),
         NEW B \in SUBSET Pickup, IsFiniteSet(B),
         NEW s, NEW r \in Nat, Leaves(Amounts(G), s, r),
         NEW t, NEW c \in Nat, Comes(Amounts(B), t, c),
         t \subseteq s
  PROVE  Strewn(G) \in Nat /\ Strewn(B) \in Nat /\ Strewn(B) + r <= Strewn(G) + c
<1> DEFINE w == Amounts(G)
           v == Amounts(B)
           h == [p \in t |-> p]
<1>1. Weights(w) /\ IsSum(w, Strewn(G)) /\ Weights(v) /\ IsSum(v, Strewn(B))
  BY AmountsWeigh
<1>2. \A p \in t : p \in s /\ v[p] = w[p] /\ w[p] \in Nat
  <2>1. t \subseteq DOMAIN v /\ s \subseteq DOMAIN w
    BY DEF Leaves, Comes
  <2>2. \A p \in DOMAIN v \cap DOMAIN w : v[p] = w[p]
    BY DEF Amounts
  <2> HIDE DEF w, v
  <2> QED
    BY <1>1, <2>1, <2>2 DEF Weights
<1>3. Sent(h, v, t, w, s)
  <2> HIDE DEF w, v
  <2> QED
    BY <1>2 DEF Sent
<1> HIDE DEF h
<1> QED
  BY <1>1, <1>3, SumsChange

(* What Total adds up.                                                     *)
LEMMA TotalIs ==
  /\ Total = Carrying(instances) + Strewn(ground)
  /\ Total' = Carrying(instances') + Strewn(ground')
<1>1. Total = Carrying(instances) + Strewn(ground)
  BY Zenon DEF Total, CountsOf, Carrying, Strewn, Positions, ReadableIn, MapThenSumSet, MapThenFoldSet
<1>2. Total' = Carrying(instances') + Strewn(ground')
  BY Zenon DEF Total, CountsOf, Carrying, Strewn, Positions, ReadableIn, MapThenSumSet, MapThenFoldSet
<1> QED
  BY <1>1, <1>2

LEMMA GroundStaysFinite == IsFiniteSet(ground) /\ [Next]_vars => IsFiniteSet(ground')
<1> SUFFICES ASSUME IsFiniteSet(ground), [Next]_vars
             PROVE  IsFiniteSet(ground')
  OBVIOUS
<1>1. \A p : IsFiniteSet(ground \ {p}) /\ \A q : IsFiniteSet((ground \ {p}) \cup {q})
  BY FS_RemoveElement, FS_AddElement
<1>2. \A q : IsFiniteSet(ground \cup {q})
  BY FS_AddElement
<1>3. \/ ground' = ground
      \/ \E q : ground' = ground \cup {q}
      \/ \E p : ground' = ground \ {p}
      \/ \E p, q : ground' = (ground \ {p}) \cup {q}
  BY DEF Next, StartInventory, SpawnPickup, PickupToFreeSlot, PickupSwap, InventoryDrop,
         ScriptAddToInventory, SelectSlot, ReadGarbage, GroundWithout, vars
<1>4. ASSUME NEW p, NEW q, ground' = (ground \ {p}) \cup {q} PROVE IsFiniteSet(ground')
  BY <1>1, <1>4, Zenon
<1>5. ASSUME NEW p, ground' = ground \ {p} PROVE IsFiniteSet(ground')
  BY <1>1, <1>5, Zenon
<1>6. ASSUME NEW q, ground' = ground \cup {q} PROVE IsFiniteSet(ground')
  BY <1>2, <1>6, Zenon
<1> QED
  BY <1>3, <1>4, <1>5, <1>6, Zenon

LEMMA PickupCarries ==
  ASSUME IInv, NEW p \in ground, nextGuid <= MaxGuid
  PROVE  /\ CreatedItem(p.def, p.count) \in Item
         /\ CreatedCount(p.count) \in Nat \ {0}
         /\ CreatedItem(p.def, p.count).count = CreatedCount(p.count)
<1>1. p.def \in Definitions /\ p.count \in 0 .. MaxCount /\ MaxCount \in Nat
  BY InventoryAssumption DEF IInv, TypeOK, Pickup, Amount
<1>2. CreatedCount(p.count) \in Nat \ {0}
  BY <1>1 DEF CreatedCount
<1>3. CreatedItem(p.def, p.count) \in Item
  BY <1>1, CreatedItemType DEF IInv
<1> QED
  BY <1>2, <1>3 DEF CreatedItem

(* The three steps that change both the instances and the pickups.         *)
LEMMA PickupToFreeSlotTotal ==
  ASSUME IInv, IInv', IsFiniteSet(ground), IsFiniteSet(ground'),
         NEW p \in ground, PickupToFreeSlot(p)
  PROVE  Total' <= Total
<1> DEFINE item == CreatedItem(p.def, p.count)
           n    == CreatedCount(p.count)
<1>1. nextGuid <= MaxGuid /\ instances' = Append(instances, item) /\ ground' = ground \ {p}
  BY DEF PickupToFreeSlot, GroundWithout
<1>2. item \in Item /\ n \in Nat \ {0} /\ item.count = n
  BY <1>1, PickupCarries
<1> HIDE DEF item
<1>3. instances \in Seq(Cell) /\ ground \in SUBSET Pickup /\ ground' \in SUBSET Pickup
  BY DEF IInv, TypeOK, Cell
<1>4. /\ Carrying(instances) \in Nat /\ Carrying(instances') \in Nat
      /\ Carrying(instances') <= Carrying(instances) + n
  BY <1>1, <1>2, <1>3, AppendCarrying
<1>5. Leaves(Amounts(ground), ground \ {p}, n) /\ Comes(Amounts(ground'), ground', 0)
  BY <1>2 DEF Leaves, Comes, Amounts
<1>6. /\ Strewn(ground) \in Nat /\ Strewn(ground') \in Nat
      /\ Strewn(ground') + n <= Strewn(ground) + 0
  BY <1>1, <1>2, <1>3, <1>5, StrewnChange
<1> QED
  BY <1>2, <1>4, <1>6, TotalIs

LEMMA PickupSwapTotal ==
  ASSUME IInv, IInv', IsFiniteSet(ground), IsFiniteSet(ground'),
         NEW p \in ground, PickupSwap(p)
  PROVE  Total' <= Total
<1> DEFINE item == CreatedItem(p.def, p.count)
           n    == CreatedCount(p.count)
           a    == Append(instances, item)
<1>1. PICK g \in QuickbarItems(focus) :
        /\ \E lost \in SUBSET Lost(a) : instances' = RemovedFrom(a, PositionOf(g), lost)
        /\ ground' = GroundWithout(p)
             \cup {SpawnedPickup(instances[PositionOf(g)].def, SwappedCount(p))}
  BY DEF PickupSwap
<1>2. PICK lost : instances' = RemovedFrom(a, PositionOf(g), lost)
  BY <1>1
<1> DEFINE i == PositionOf(g)
           q == SpawnedPickup(instances[i].def, 1)
<1>3. ground' = (ground \ {p}) \cup {q} /\ CreatedCount(q.count) = 1 /\ nextGuid <= MaxGuid
  BY <1>1 DEF PickupSwap, GroundWithout, SwappedCount, SpawnedPickup, CreatedCount
<1>4. item \in Item /\ n \in Nat \ {0} /\ item.count = n
  BY <1>3, PickupCarries
<1>5. i \in 1 .. Len(instances) /\ instances[i] \in Item
  BY PositionOfLive, PositionsHoldItems DEF QuickbarItems, IInv
<1>6. instances \in Seq(Cell) /\ ground \in SUBSET Pickup /\ ground' \in SUBSET Pickup
  BY DEF IInv, TypeOK, Cell
<1>7. a \in Seq(Cell) /\ i \in DOMAIN a /\ a[i] = instances[i]
  BY <1>4, <1>5, <1>6 DEF Cell
<1>8. i \in ReadableIn(a) /\ a[i].count \in Nat \ {0}
  BY <1>5, <1>7, GarbageIsNoItem, InventoryAssumption DEF ReadableIn, Item
<1>9. /\ Carrying(instances) \in Nat /\ Carrying(a) \in Nat
      /\ Carrying(a) <= Carrying(instances) + n
  BY <1>4, <1>6, AppendCarrying
<1> HIDE DEF a, item, i
<1>10. Carrying(instances') \in Nat /\ Carrying(instances') + a[i].count <= Carrying(a)
  BY <1>2, <1>7, <1>8, RemoveCarrying DEF i
<1>11. /\ Leaves(Amounts(ground), ground \ {p}, n)
       /\ Comes(Amounts(ground'), ground' \ {q}, 1)
  BY <1>3, <1>4 DEF Leaves, Comes, Amounts
<1>12. ground' \ {q} \subseteq ground \ {p}
  BY <1>3
<1>13. /\ Strewn(ground) \in Nat /\ Strewn(ground') \in Nat
       /\ Strewn(ground') + n <= Strewn(ground) + 1
  BY <1>4, <1>6, <1>11, <1>12, StrewnChange
<1> QED
  BY <1>4, <1>8, <1>9, <1>10, <1>13, TotalIs

LEMMA InventoryDropTotal ==
  ASSUME IInv, IInv', GInv, IsFiniteSet(ground), IsFiniteSet(ground'),
         NEW k \in Positions, NEW c \in Amount, InventoryDrop(instances[k].guid, c)
  PROVE  /\ ground' = ground \cup {SpawnedPickup(instances[k].def, c)}
         /\ instances[k].guid \notin LiveGuids'
         /\ Total' + instances[k].count <= Total + CreatedCount(c)
<1> DEFINE i == PositionOf(instances[k].guid)
           q == SpawnedPickup(instances[i].def, c)
           n == CreatedCount(c)
<1>1. PICK lost : instances' = RemovedFrom(instances, i, lost)
  BY DEF InventoryDrop
<1>2. ground' = ground \cup {q} /\ CreatedCount(q.count) = n
  BY DEF InventoryDrop, SpawnedPickup
<1>3. i \in Positions /\ instances[i].guid = instances[k].guid
  BY PositionOfLive DEF InventoryDrop
<1>4. i = k /\ k \in ReadableIn(instances)
  BY <1>3, CarriedItems DEF GInv, Differ
<1>5. instances \in Seq(Cell) /\ ground \in SUBSET Pickup /\ ground' \in SUBSET Pickup
  BY DEF IInv, TypeOK, Cell
<1>6. instances[k].count \in Nat /\ n \in Nat
  <2>1. instances[k] \in Item
    BY PositionsHoldItems DEF IInv
  <2> QED
    BY <2>1, InventoryAssumption DEF Item, Amount, CreatedCount
<1>7. instances[k].guid \notin LiveGuids'
  <2>1. ItemsIn(instances') \subseteq ItemsIn(instances) \ {instances[k]}
    BY <1>1, <1>4, <1>5, RemoveItems DEF GInv
  <2>2. \A x \in ItemsIn(instances) : x.guid = instances[k].guid => x = instances[k]
    BY <1>4 DEF ItemsIn, GInv, Differ
  <2>3. LiveGuids' = {x.guid : x \in ItemsIn(instances')}
    BY DEF Positions, LiveGuids, ReadableIn, ItemsIn
  <2> QED
    BY <2>1, <2>2, <2>3
<1> HIDE DEF i, n
<1>8. /\ Carrying(instances) \in Nat /\ Carrying(instances') \in Nat
      /\ Carrying(instances') + instances[k].count <= Carrying(instances)
  BY <1>1, <1>4, <1>5, RemoveCarrying
<1>9. /\ Leaves(Amounts(ground), ground, 0)
      /\ Comes(Amounts(ground'), ground' \ {q}, n)
  BY <1>2, <1>6 DEF Leaves, Comes, Amounts
<1>10. ground' \ {q} \subseteq ground
  BY <1>2
<1>11. /\ Strewn(ground) \in Nat /\ Strewn(ground') \in Nat
       /\ Strewn(ground') + 0 <= Strewn(ground) + n
  BY <1>5, <1>6, <1>9, <1>10, StrewnChange
<1>12. Total' + instances[k].count <= Total + n
  BY <1>6, <1>8, <1>11, TotalIs
<1> QED
  BY <1>2, <1>4, <1>7, <1>12 DEF n

(* Only a drop leaves fewer instances.                                     *)
LEMMA OnlyDropsShrink ==
  ASSUME IInv, GInv, Next, Len(instances') < Len(instances)
  PROVE  \E k \in Positions, c \in Amount : InventoryDrop(instances[k].guid, c)
<1> USE DEF IInv
<1>1. instances \in Seq(Cell) /\ Len(instances) \in Nat /\ Garbage \in Cell
  BY DEF TypeOK, Cell
<1>2. ~StartInventory
  BY StartingInstancesType, <1>1 DEF StartInventory, GInv, NothingYet
<1>3. ASSUME NEW e, instances' = Append(instances, e) PROVE FALSE
  BY <1>1, <1>3
<1>4. ASSUME NEW p \in ground, PickupSwap(p) PROVE FALSE
  <2> DEFINE item == CreatedItem(p.def, p.count)
             a    == Append(instances, item)
  <2>1. PICK g \in QuickbarItems(focus) :
          \E lost \in SUBSET Lost(a) : instances' = RemovedFrom(a, PositionOf(g), lost)
    BY <1>4 DEF PickupSwap
  <2>2. PICK lost : instances' = RemovedFrom(a, PositionOf(g), lost)
    BY <2>1
  <2>3. PositionOf(g) \in 1 .. Len(instances)
    BY PositionOfLive, PositionsHoldItems DEF QuickbarItems
  <2>4. nextGuid <= MaxGuid
    BY <1>4 DEF PickupSwap
  <2>5. item \in Cell
    BY <2>4, PickupCarries DEF Cell
  <2>6. a \in Seq(Cell) /\ Len(a) = Len(instances) + 1 /\ PositionOf(g) \in 1 .. Len(a)
    BY <1>1, <2>3, <2>5
  <2> HIDE DEF a
  <2>7. Len(instances') = Len(a) - 1
    BY <1>1, <2>2, <2>6, RemovedFromType
  <2> QED
    BY <1>1, <2>6, <2>7
<1>5. ASSUME instances' = instances PROVE FALSE
  BY <1>1, <1>5
<1> QED
  BY <1>2, <1>3, <1>4, <1>5
     DEF Next, SpawnPickup, PickupToFreeSlot, ScriptAddToInventory, SelectSlot, ReadGarbage

(* Taking a pickup makes no more of anything: it becomes one item of what  *)
(* its count gives, and a swap puts down 1 of a stack.  A drop makes as    *)
(* much as its event asks for, takes its stack away and leaves the rest as *)
(* it is.  What the heap loses is lost.                                    *)
THEOREM NothingIsMultiplied == Spec => StacksNeverMultiply
<1> DEFINE Taken   == ground \ ground' # {} => Total' <= Total
           Dropped == Len(instances') < Len(instances) =>
                        \E i \in Positions, c \in Amount :
                          /\ ground' = ground \cup {SpawnedPickup(instances[i].def, c)}
                          /\ instances[i].guid \notin LiveGuids'
                          /\ Total' + instances[i].count <= Total + CreatedCount(c)
<1>1. Init => IsFiniteSet(ground)
  BY FS_EmptySet DEF Init
<1>2. IsFiniteSet(ground) /\ [Next]_vars => IsFiniteSet(ground)'
  BY GroundStaysFinite
<1>3. ASSUME IInv, GInv, IInv', IsFiniteSet(ground), IsFiniteSet(ground)', [Next]_vars
      PROVE  [Taken /\ Dropped]_vars
  <2> SUFFICES ASSUME Next PROVE Taken /\ Dropped
    BY <1>3 DEF vars
  <2>1. Taken
    <3>1. ASSUME NEW p \in ground, PickupToFreeSlot(p) PROVE Total' <= Total
      BY <1>3, <3>1, PickupToFreeSlotTotal
    <3>2. ASSUME NEW p \in ground, PickupSwap(p) PROVE Total' <= Total
      BY <1>3, <3>2, PickupSwapTotal
    <3>3. \/ \E p \in ground : PickupToFreeSlot(p) \/ PickupSwap(p)
          \/ ground \subseteq ground'
      BY DEF Next, StartInventory, SpawnPickup, InventoryDrop, ScriptAddToInventory, SelectSlot,
             ReadGarbage
    <3> QED
      BY <3>1, <3>2, <3>3
  <2>2. Dropped
    <3> SUFFICES ASSUME Len(instances') < Len(instances)
                 PROVE  \E i \in Positions, c \in Amount :
                          /\ ground' = ground \cup {SpawnedPickup(instances[i].def, c)}
                          /\ instances[i].guid \notin LiveGuids'
                          /\ Total' + instances[i].count <= Total + CreatedCount(c)
      OBVIOUS
    <3>1. PICK k \in Positions, c \in Amount : InventoryDrop(instances[k].guid, c)
      BY <1>3, OnlyDropsShrink
    <3> QED
      BY <1>3, <3>1, InventoryDropTotal
  <2> QED
    BY <2>1, <2>2
<1> QED
  BY <1>1, <1>2, <1>3, GInvariance, PTL DEF Spec, StacksNeverMultiply

----------------------------------------------------------------------------
(* The same arrays access by access: InventoryThreads.                     *)

(* Where each thread is, and that a thread is inside an operation exactly  *)
(* if it is at one of its steps.                                           *)
Places == [op : {"none", "add", "remove"}, array : Arrays,
           step : {"idle", "realloc", "assign", "index", "store", "copy"}]

Placed ==
  /\ at \in [Threads -> Places]
  /\ calls \in [Threads -> Nat]
  /\ \A t \in Threads : at[t].op = "none" <=> at[t].step = "idle"

(* The entries of OnLoadingScreenDropped that have returned were inside    *)
(* those that still run, and each had joined its thread; the first to      *)
(* return sets the flag, and only then does the game thread add.           *)
Returned == (1 .. entered) \ loading

Stocked ==
  /\ entered \in 0 .. Len(Stockers) /\ loading \subseteq 1 .. entered
  /\ \A m \in Returned : StockingDone(m) /\ \A n \in loading : n < m
  /\ bLoadingScreenDropped <=> Returned # {}
  /\ at["game"].op = "add" => bLoadingScreenDropped

(* A thread's step is its own: nobody else moves, and the operation it is  *)
(* in goes on or ends.                                                     *)
LEMMA StepIsOwn ==
  ASSUME NEW t \in Threads, Placed, Step(t)
  PROVE  /\ Placed' /\ UNCHANGED <<calls, overlapped, load>> /\ fault = "none"
         /\ \A u \in Threads \ {t} : at'[u] = at[u]
         /\ at'[t].op \in {at[t].op, "none"} /\ Busy(t)
<1>1. UNCHANGED <<calls, overlapped, load>> /\ fault = "none"
  <2>1. CASE Realloc(t)
    BY <2>1 DEF Realloc
  <2>2. CASE Assign(t)
    BY <2>2 DEF Assign
  <2>3. CASE ReadIndex(t)
    BY <2>3 DEF ReadIndex, In
  <2>4. CASE Store(t)
    BY <2>4 DEF Store, In
  <2>5. CASE CopyDown(t)
    BY <2>5 DEF CopyDown, In
  <2> QED
    BY <2>1, <2>2, <2>3, <2>4, <2>5 DEF Step
<1>2. at[t] \in Places /\ at[t].step # "idle"
  <2>1. CASE Realloc(t)
    BY <2>1 DEF Placed, Realloc
  <2>2. CASE Assign(t)
    BY <2>2 DEF Placed, Assign
  <2>3. CASE ReadIndex(t) \/ Store(t) \/ CopyDown(t)
    BY <2>3 DEF Placed, ReadIndex, Store, CopyDown, In
  <2> QED
    BY <2>1, <2>2, <2>3 DEF Step
<1>3. at[t].op # "none" /\ Busy(t)
  BY <1>2 DEF Placed, Busy
<1>4. \/ UNCHANGED at
      \/ \E s \in {"assign", "index", "copy", "store"} : at' = [at EXCEPT ![t].step = s]
      \/ at' = [at EXCEPT ![t] = [@ EXCEPT !.array = "ItemEntries", !.step = "realloc"]]
      \/ at' = [at EXCEPT ![t] = Idle]
  <2>1. CASE Realloc(t)
    BY <2>1 DEF Realloc, Fail, Goto
  <2>2. CASE Assign(t)
    BY <2>2 DEF Assign, Goto
  <2>3. CASE ReadIndex(t)
    BY <2>3 DEF ReadIndex, Goto
  <2>4. CASE Store(t)
    BY <2>4 DEF Store, Fail, ArrayDone
  <2>5. CASE CopyDown(t)
    BY <2>5 DEF CopyDown, Fail, ArrayDone
  <2> QED
    BY <2>1, <2>2, <2>3, <2>4, <2>5 DEF Step
<1>5. \E m \in Places :
        /\ at' = [at EXCEPT ![t] = m]
        /\ \/ m.op = at[t].op /\ m.step # "idle"
           \/ m.op = "none" /\ m.step = "idle"
  <2>1. CASE UNCHANGED at
    BY <1>2, <2>1 DEF Placed
  <2>2. ASSUME NEW s \in {"assign", "index", "copy", "store"}, at' = [at EXCEPT ![t].step = s]
        PROVE  \E m \in Places : at' = [at EXCEPT ![t] = m] /\ m.op = at[t].op /\ m.step # "idle"
    <3>1. [at[t] EXCEPT !.step = s] \in Places
      BY <1>2 DEF Places
    <3> QED
      BY <1>2, <2>2, <3>1 DEF Places
  <2>3. CASE at' = [at EXCEPT ![t] = [@ EXCEPT !.array = "ItemEntries", !.step = "realloc"]]
    <3>1. [at[t] EXCEPT !.array = "ItemEntries", !.step = "realloc"] \in Places
      BY <1>2 DEF Places, Arrays
    <3> QED
      BY <1>2, <2>3, <3>1 DEF Places
  <2>4. CASE at' = [at EXCEPT ![t] = Idle]
    <3>1. Idle \in Places /\ Idle.op = "none" /\ Idle.step = "idle"
      BY DEF Places, Idle, Arrays
    <3> QED
      BY <2>4, <3>1
  <2> QED
    BY <1>4, <2>1, <2>2, <2>3, <2>4
<1>6. /\ at' \in [Threads -> Places]
      /\ \A u \in Threads \ {t} : at'[u] = at[u]
      /\ \/ at'[t].op = at[t].op /\ at'[t].step # "idle"
         \/ at'[t].op = "none" /\ at'[t].step = "idle"
  BY <1>5 DEF Placed
<1> QED
  BY <1>1, <1>3, <1>6 DEF Placed

(* Entering an operation, where a thread meets those that are inside one.  *)
LEMMA EnterSteps ==
  ASSUME NEW t \in Threads, EnterAdd(t) \/ EnterRemove(t)
  PROVE  \E op \in {"add", "remove"} : \E x :
           /\ op = "add" => MayAdd(t) /\ x = ItemOf(t)
           /\ op = "remove" => MayRemove(t) /\ x \in 1 .. Count["ItemInstances"]
           /\ at' = [at EXCEPT ![t] = [op |-> op, array |-> "ItemInstances", step |-> "realloc"]]
           /\ calls' = [calls EXCEPT ![t] = @ + 1]
           /\ arg' = [arg EXCEPT ![t] = x]
           /\ ~Busy(t) /\ fault = "none"
           /\ overlapped' = (overlapped \/ Meets(t))
           /\ UNCHANGED <<heap, freed, Data, Count, reg, load, misread, fault>>
BY DEF EnterAdd, EnterRemove, Enter, mem

LEMMA EnterIsOwn ==
  ASSUME NEW t \in Threads, Placed, EnterAdd(t) \/ EnterRemove(t)
  PROVE  /\ Placed' /\ UNCHANGED <<heap, freed, Data, Count, reg, load, misread, fault>>
         /\ ~Busy(t) /\ fault = "none"
         /\ \A u \in Threads \ {t} : at'[u] = at[u] /\ calls'[u] = calls[u]
         /\ at'[t].array = "ItemInstances" /\ at'[t].step = "realloc"
         /\ \/ at'[t].op = "add" /\ MayAdd(t)
            \/ at'[t].op = "remove" /\ MayRemove(t)
         /\ overlapped' = (overlapped \/ Meets(t))
<1>1. PICK op \in {"add", "remove"} :
        /\ op = "add" => MayAdd(t)
        /\ op = "remove" => MayRemove(t)
        /\ at' = [at EXCEPT ![t] = [op |-> op, array |-> "ItemInstances", step |-> "realloc"]]
        /\ calls' = [calls EXCEPT ![t] = @ + 1]
        /\ ~Busy(t) /\ fault = "none"
        /\ overlapped' = (overlapped \/ Meets(t))
        /\ UNCHANGED <<heap, freed, Data, Count, reg, load, misread, fault>>
  BY EnterSteps
<1>2. at' \in [Threads -> Places] /\ calls' \in [Threads -> Nat]
  BY <1>1 DEF Placed, Places, Arrays
<1>3. /\ \A u \in Threads \ {t} : at'[u] = at[u] /\ calls'[u] = calls[u]
      /\ at'[t] = [op |-> op, array |-> "ItemInstances", step |-> "realloc"]
  BY <1>1 DEF Placed
<1>4. Placed'
  BY <1>1, <1>2, <1>3 DEF Placed
<1> QED
  BY <1>1, <1>3, <1>4

(* The thread of an entry that has returned is done with the kit, so       *)
(* neither adds nor is inside an operation again.                          *)
LEMMA ReturnedRests ==
  ASSUME Placed, Stocked, NEW m \in Returned, NEW t \in Threads,
         Busy(t) \/ MayAdd(t) \/ MayRemove(t)
  PROVE  t # Stockers[m] /\ Stockers[m] \in Threads /\ m \in DOMAIN Stockers
<1>1. m \in DOMAIN Stockers
  BY InventoryThreadsAssumption DEF Stocked, Returned
<1>2. Stockers[m] \in ToSet(Stockers)
  BY <1>1 DEF ToSet
<1>3. Stockers[m] \in Threads /\ Stockers[m] # "game" /\ Stockers[m] \notin Scripts
  BY <1>2, InventoryThreadsAssumption DEF Threads
<1>4. ~Busy(Stockers[m]) /\ calls[Stockers[m]] = KitSize
  BY DEF Stocked, StockingDone
<1> QED
  BY <1>1, <1>3, <1>4, InventoryThreadsAssumption DEF MayAdd, MayRemove

LEMMA StockedInvariance == ITSpec => [](Placed /\ Stocked)
<1>1. ITInit => Placed /\ Stocked
  BY InventoryThreadsAssumption
     DEF ITInit, Placed, Places, Stocked, Returned, Idle, Arrays, Threads
<1>2. ASSUME Placed, Stocked, [ITNext]_itvars
      PROVE  Placed' /\ Stocked'
  <2>0. "game" \in Threads
    BY DEF Threads
  <2>1. ASSUME NEW t \in Threads, Step(t)
        PROVE  Placed' /\ Stocked'
    <3>1. /\ Placed' /\ Busy(t) /\ UNCHANGED <<calls, load>>
          /\ \A u \in Threads \ {t} : at'[u] = at[u]
          /\ at'[t].op \in {at[t].op, "none"}
      BY <1>2, <2>1, StepIsOwn
    <3>2. ASSUME NEW m \in Returned PROVE StockingDone(m)'
      BY <1>2, <3>1, <3>2, ReturnedRests DEF Stocked, StockingDone, Busy
    <3>3. at'["game"].op = "add" => at["game"].op = "add"
      BY <2>0, <3>1
    <3> QED
      BY <1>2, <3>1, <3>2, <3>3 DEF Stocked, Returned, load
  <2>2. ASSUME NEW t \in Threads, EnterAdd(t) \/ EnterRemove(t)
        PROVE  Placed' /\ Stocked'
    <3>1. /\ Placed' /\ UNCHANGED load
          /\ \A u \in Threads \ {t} : at'[u] = at[u] /\ calls'[u] = calls[u]
          /\ \/ at'[t].op = "add" /\ MayAdd(t)
             \/ at'[t].op = "remove" /\ MayRemove(t)
      BY <1>2, <2>2, EnterIsOwn
    <3>2. ASSUME NEW m \in Returned PROVE StockingDone(m)'
      BY <1>2, <3>1, <3>2, ReturnedRests DEF Stocked, StockingDone, Busy
    <3>3. at'["game"].op = "add" => bLoadingScreenDropped
      <4>1. CASE t = "game"
        <5>1. "game" \notin Scripts /\ \A n \in 1 .. entered : Stockers[n] # "game"
          BY <1>2, InventoryThreadsAssumption DEF Stocked, ToSet
        <5> QED
          BY <3>1, <4>1, <5>1 DEF MayAdd, PickupGuard
      <4>2. CASE t # "game"
        BY <1>2, <2>0, <3>1, <4>2 DEF Stocked
      <4> QED
        BY <4>1, <4>2
    <3> QED
      BY <1>2, <3>1, <3>2, <3>3 DEF Stocked, Returned, load
  <2>3. CASE EnterLoading
    <3>1. /\ ~bLoadingScreenDropped /\ UNCHANGED <<at, calls, bLoadingScreenDropped>>
          /\ entered' = entered + 1 /\ loading' = loading \cup {entered + 1}
          /\ entered < Len(Stockers)
      BY <2>3 DEF EnterLoading
    <3>2. Placed'
      BY <1>2, <3>1 DEF Placed
    <3>3. Returned = {} /\ loading = 1 .. entered
      BY <1>2, <3>1 DEF Stocked, Returned
    <3>4. entered \in Nat /\ Len(Stockers) \in Nat
      BY <1>2, InventoryThreadsAssumption DEF Stocked
    <3>5. Returned' = {} /\ entered' \in 0 .. Len(Stockers) /\ loading' \subseteq 1 .. entered'
      BY <3>1, <3>3, <3>4 DEF Returned
    <3> QED
      BY <1>2, <3>1, <3>2, <3>5 DEF Stocked
  <2>4. ASSUME NEW n \in loading, FinishLoading(n)
        PROVE  Placed' /\ Stocked'
    <3>1. /\ \A m \in loading : m <= n
          /\ StockingDone(n) /\ UNCHANGED <<at, calls, entered>>
          /\ bLoadingScreenDropped' = TRUE /\ loading' = loading \ {n}
      BY <2>4 DEF FinishLoading, Joined
    <3>2. Placed'
      BY <1>2, <3>1 DEF Placed
    <3>3. Returned' = Returned \cup {n} /\ n \in 1 .. entered /\ entered \in Nat
      BY <1>2, <3>1 DEF Stocked, Returned
    <3>4. \A m \in Returned' : StockingDone(m)'
      BY <1>2, <3>1, <3>3 DEF Stocked, StockingDone, Busy
    <3>5. \A m \in Returned' : \A k \in loading' : k < m
      BY <1>2, <3>1, <3>3 DEF Stocked
    <3> QED
      BY <1>2, <3>1, <3>2, <3>3, <3>4, <3>5 DEF Stocked
  <2>5. CASE UNCHANGED <<at, calls, load>>
    BY <1>2, <2>5 DEF Placed, Stocked, Returned, StockingDone, Busy, load
  <2>6. CASE SearchGarbage
    <3>1. UNCHANGED <<at, calls, load>>
      BY <2>6 DEF SearchGarbage
    <3> QED
      BY <2>5, <3>1
  <2>7. CASE UNCHANGED itvars
    <3>1. UNCHANGED <<at, calls, load>>
      BY <2>7 DEF itvars
    <3> QED
      BY <2>5, <3>1
  <2> QED
    BY <1>2, <2>1, <2>2, <2>3, <2>4, <2>6, <2>7 DEF ITNext
<1> QED
  BY <1>1, <1>2, PTL DEF ITSpec

(* The guard of ServerHandlePickup and the joins keep a pickup out of the  *)
(* arrays until the kit of an entry of OnLoadingScreenDropped is stocked,  *)
(* and the only threads it can then meet there are those of the entries    *)
(* around that one: however often the event is delivered inside itself,    *)
(* whatever the heap does and whatever drops the engine delivers too early. *)
THEOREM StockingIsUndisturbed == ITSpec => []StockingUndisturbed
<1>1. Stocked => StockingUndisturbed
  <2> SUFFICES ASSUME Stocked, at["game"].op = "add"
               PROVE  \E m \in Returned :
                        /\ StockingDone(m)
                        /\ \A n \in 1 .. entered : ~StockingDone(n) => n \in loading /\ n < m
    BY DEF StockingUndisturbed, Returned
  <2>1. PICK m \in Returned : TRUE
    BY DEF Stocked
  <2>2. StockingDone(m) /\ \A n \in loading : n < m
    BY DEF Stocked
  <2>3. ASSUME NEW n \in 1 .. entered, ~StockingDone(n) PROVE n \in loading /\ n < m
    BY <2>2, <2>3 DEF Stocked, Returned
  <2> QED
    BY <2>2, <2>3
<1> QED
  BY <1>1, StockedInvariance, PTL

----------------------------------------------------------------------------
(* The inductive invariant of an undisturbed thread.                       *)

ThreadItem == Threads \X Nat
ThreadCell == ThreadItem \cup {Unset}

OtherOf(a) == IF a = "ItemInstances" THEN "ItemEntries" ELSE "ItemInstances"
CellsOf(a) == heap[Data[a]]

(* An array as it is between operations.                                   *)
Whole(a) ==
  /\ Data[a] \notin freed /\ CellsOf(a) \in Seq(ThreadCell)
  /\ Count[a] = Len(CellsOf(a))

(* Two arrays are parallel when they agree wherever both hold an item; if  *)
(* no cell was ever misread (lost is FALSE) they are equal and hold items. *)
Match(lost, s, r) ==
  /\ s \in Seq(ThreadCell) /\ r \in Seq(ThreadCell) /\ Len(s) = Len(r)
  /\ \A i \in 1 .. Len(s) : s[i] = r[i] \/ s[i] = Unset \/ r[i] = Unset
  /\ ~lost => s = r /\ s \in Seq(ThreadItem)

(* What the array a thread is at held when the thread came to it, what it  *)
(* should hold when the thread leaves, and the block that will hold it.    *)
Target(t) == IF at[t].step = "assign" THEN reg[t].new ELSE Data[at[t].array]
Base(t) ==
  IF at[t].step = "realloc" THEN CellsOf(at[t].array)
  ELSE IF at[t].op = "remove" THEN reg[t].old
  ELSE [i \in 1 .. Count[at[t].array] |-> heap[Target(t)][i]]
Without(s, i) == [j \in 1 .. Len(s) - 1 |-> IF j < i THEN s[j] ELSE s[j + 1]]
Result(t, s)  == IF at[t].op = "add" THEN Append(s, arg[t]) ELSE Without(s, arg[t])

(* The steps each operation has, and what it carries: Remove's old block   *)
(* is the shrunk one or freed.                                             *)
AddOK(t) ==
  /\ at[t].op = "add" /\ at[t].step \in {"realloc", "assign", "index", "store"}
  /\ arg[t] \in ThreadItem
  /\ at[t].step = "store" => reg[t].index = Count[at[t].array]

RemoveOK(t) ==
  /\ at[t].op = "remove" /\ at[t].step \in {"realloc", "assign", "copy"}
  /\ arg[t] \in 1 .. Len(Base(t))
  /\ at[t].step # "realloc" => reg[t].from = Target(t) \/ reg[t].from \in freed

(* A thread inside an operation: the array it is not at is whole and       *)
(* matches what was there before, or the result once the thread has passed *)
(* it; the array it is at has its block and the right number of cells.     *)
BusyOK(t) ==
  LET x == at[t].array
  IN  /\ Whole(OtherOf(x))
      /\ Match(misread, CellsOf(OtherOf(x)),
               IF x = "ItemInstances" THEN Base(t) ELSE Result(t, Base(t)))
      /\ Base(t) \in Seq(ThreadCell) /\ Count[x] = Len(Base(t))
      /\ Target(t) \in DOMAIN heap \ freed /\ Target(t) # Data[OtherOf(x)]
      /\ at[t].step # "realloc" => heap[Target(t)] = Resized(Base(t), NewSize(t))
      /\ AddOK(t) \/ RemoveOK(t)

(* The variables as long as no two threads have met.                       *)
Registers == [old : Seq(ThreadCell), from : Nat, new : Nat, index : Nat]

MemOK ==
  /\ heap \in Seq(Seq(ThreadCell)) /\ freed \subseteq DOMAIN heap
  /\ Data \in [Arrays -> DOMAIN heap] /\ Data["ItemInstances"] # Data["ItemEntries"]
  /\ Count \in [Arrays -> Nat]
  /\ arg = [t \in Threads |-> arg[t]]
  /\ reg \in [Threads -> Registers]

AtRest ==
  /\ Whole("ItemInstances") /\ Whole("ItemEntries")
  /\ Match(misread, CellsOf("ItemInstances"), CellsOf("ItemEntries"))

Alone ==
  /\ fault = "none" \/ (misread /\ fault = "garbageRead")
  /\ MemOK
  /\ \A t, u \in Threads : Busy(t) /\ Busy(u) => t = u
  /\ \A t \in Threads : Busy(t) => BusyOK(t)
  /\ Quiet => AtRest

----------------------------------------------------------------------------
(* The blocks realloc gives.                                               *)

LEMMA CellsAppended ==
  ASSUME NEW S, NEW s \in Seq(S), NEW e \in S
  PROVE  /\ Append(s, e) \in Seq(S)
         /\ DOMAIN s = 1 .. Len(s) /\ DOMAIN Append(s, e) = 1 .. Len(s) + 1
         /\ \A j \in 1 .. Len(s) : Append(s, e)[j] = s[j]
         /\ Append(s, e)[Len(s) + 1] = e /\ Len(s) \in Nat
OBVIOUS

LEMMA CellReplaced ==
  ASSUME NEW S, NEW s \in Seq(S), NEW d \in DOMAIN s, NEW e \in S
  PROVE  /\ [s EXCEPT ![d] = e] \in Seq(S) /\ DOMAIN [s EXCEPT ![d] = e] = DOMAIN s
         /\ [s EXCEPT ![d] = e][d] = e
         /\ \A j \in DOMAIN s \ {d} : [s EXCEPT ![d] = e][j] = s[j]
OBVIOUS

(* One cell more, once it is written: Append.                              *)
LEMMA ResizedLonger ==
  ASSUME NEW s \in Seq(ThreadCell), NEW e \in ThreadItem
  PROVE  /\ Resized(s, Len(s) + 1) \in Seq(ThreadCell)
         /\ Len(Resized(s, Len(s) + 1)) = Len(s) + 1
         /\ [Resized(s, Len(s) + 1) EXCEPT ![Len(s) + 1] = e] = Append(s, e)
         /\ [i \in 1 .. Len(s) |-> Resized(s, Len(s) + 1)[i]] = s
<1> DEFINE n == Len(s) + 1
           r == Resized(s, n)
<1>1. n \in Nat /\ n = Len(s) + 1 /\ Len(s) \in Nat
  OBVIOUS
<1>2. r = [i \in 1 .. n |-> IF i <= Len(s) THEN s[i] ELSE Unset]
  BY DEF Resized
<1>3. \A i \in 1 .. n : r[i] \in ThreadCell
  BY <1>1, <1>2 DEF ThreadCell
<1>4. r \in Seq(ThreadCell) /\ Len(r) = n
  BY <1>1, <1>2, <1>3
<1>5. [r EXCEPT ![n] = e] = Append(s, e)
  <2> DEFINE a == [r EXCEPT ![n] = e]
             b == Append(s, e)
  <2>1. a \in Seq(ThreadCell) /\ Len(a) = n
    <3>1. a = [i \in 1 .. n |-> IF i = n THEN e ELSE r[i]]
      BY <1>1, <1>2
    <3>2. \A i \in 1 .. n : (IF i = n THEN e ELSE r[i]) \in ThreadCell
      BY <1>1, <1>2 DEF ThreadCell
    <3>3. a \in [1 .. n -> ThreadCell]
      BY <3>1, <3>2
    <3> HIDE DEF a, n
    <3> QED
      BY <1>1, <3>3
  <2>2. b \in Seq(ThreadCell) /\ Len(b) = n
    BY <1>1 DEF ThreadCell
  <2>3. \A i \in 1 .. n : a[i] = b[i]
    BY <1>1, <1>2
  <2> HIDE DEF a, b
  <2>4. a = b
    BY <1>1, <2>1, <2>2, <2>3, SeqEqual
  <2> QED
    BY <2>4 DEF a, b
<1>6. [i \in 1 .. Len(s) |-> r[i]] = s
  <2>1. \A i \in 1 .. Len(s) : r[i] = s[i]
    BY <1>1, <1>2
  <2> HIDE DEF r, n
  <2> QED
    BY <2>1
<1> QED
  BY <1>4, <1>5, <1>6
(* One cell less: the others are copied down.                              *)
LEMMA ResizedShorter ==
  ASSUME NEW s \in Seq(ThreadCell), NEW i \in 1 .. Len(s)
  PROVE  /\ Resized(s, Len(s) - 1) \in Seq(ThreadCell)
         /\ Len(Resized(s, Len(s) - 1)) = Len(s) - 1
         /\ \A j \in 1 .. Len(s) - 1 : Resized(s, Len(s) - 1)[j] = s[j]
<1> DEFINE n == Len(s) - 1
           r == Resized(s, n)
<1>1. n \in Nat /\ n + 1 = Len(s) /\ Len(s) \in Nat
  OBVIOUS
<1>2. r = [j \in 1 .. n |-> IF j <= Len(s) THEN s[j] ELSE Unset]
  BY DEF Resized
<1>3. \A j \in 1 .. n : r[j] = s[j] /\ s[j] \in ThreadCell
  BY <1>1, <1>2
<1>4. r \in Seq(ThreadCell) /\ Len(r) = n
  <2>1. r \in [1 .. n -> ThreadCell]
    BY <1>2, <1>3
  <2> HIDE DEF r, n
  <2> QED
    BY <1>1, <2>1
<1> QED
  BY <1>3, <1>4

LEMMA WithoutHas ==
  ASSUME NEW S, NEW s \in Seq(S), NEW i \in 1 .. Len(s)
  PROVE  /\ Without(s, i) \in Seq(S) /\ Len(Without(s, i)) = Len(s) - 1
         /\ \A j \in 1 .. Len(s) - 1 : Without(s, i)[j] = IF j < i THEN s[j] ELSE s[j + 1]
<1>1. Len(s) - 1 \in Nat
  OBVIOUS
<1>2. \A j \in 1 .. Len(s) - 1 : s[j] \in S /\ s[j + 1] \in S
  OBVIOUS
<1> QED
  BY <1>1, <1>2 DEF Without

(* The result of an operation on what an array held.                       *)
LEMMA ResultHas ==
  ASSUME NEW t, NEW s \in Seq(ThreadCell),
         at[t].op = "add" => arg[t] \in ThreadItem,
         at[t].op # "add" => arg[t] \in 1 .. Len(s)
  PROVE  /\ Result(t, s) \in Seq(ThreadCell)
         /\ Len(Result(t, s)) = IF at[t].op = "add" THEN Len(s) + 1 ELSE Len(s) - 1
<1>1. CASE at[t].op = "add"
  BY <1>1, AppendProperties DEF Result, ThreadCell
<1>2. CASE at[t].op # "add"
  BY <1>2, WithoutHas DEF Result
<1> QED
  BY <1>1, <1>2

(* The same operation on two arrays that match keeps them so ...           *)
LEMMA ResultsMatch ==
  ASSUME NEW t, NEW lost, NEW u, NEW s, Match(lost, u, s),
         at[t].op = "add" => arg[t] \in ThreadItem,
         at[t].op # "add" => arg[t] \in 1 .. Len(s)
  PROVE  Match(lost, Result(t, u), Result(t, s))
<1>1. /\ u \in Seq(ThreadCell) /\ s \in Seq(ThreadCell) /\ Len(u) = Len(s)
      /\ Len(s) \in Nat
      /\ \A i \in 1 .. Len(s) : u[i] = s[i] \/ u[i] = Unset \/ s[i] = Unset
      /\ ~lost => u = s /\ u \in Seq(ThreadItem)
  BY DEF Match
<1>2. CASE at[t].op = "add"
  <2>1. PICK e \in ThreadItem : e = arg[t]
    BY <1>2
  <2>2. e \in ThreadCell
    BY DEF ThreadCell
  <2>3. /\ Result(t, u) = Append(u, e) /\ Result(t, s) = Append(s, e)
    BY <1>2, <2>1 DEF Result
  <2>4. /\ Append(u, e) \in Seq(ThreadCell) /\ Append(s, e) \in Seq(ThreadCell)
        /\ Len(Append(u, e)) = Len(s) + 1 /\ Len(Append(s, e)) = Len(s) + 1
        /\ \A i \in 1 .. Len(s) : Append(u, e)[i] = u[i] /\ Append(s, e)[i] = s[i]
        /\ Append(u, e)[Len(s) + 1] = e /\ Append(s, e)[Len(s) + 1] = e
    BY <1>1, <2>2
  <2>5. ~lost => Append(u, e) = Append(s, e) /\ Append(u, e) \in Seq(ThreadItem)
    BY <1>1
  <2>6. \A i \in 1 .. Len(s) + 1 : i \in 1 .. Len(s) \/ i = Len(s) + 1
    BY <1>1
  <2> QED
    BY <1>1, <2>3, <2>4, <2>5, <2>6 DEF Match
<1>3. CASE at[t].op # "add"
  <2>1. PICK i : i = arg[t] /\ i \in 1 .. Len(s)
    BY <1>3
  <2>2. /\ Result(t, u) = Without(u, i) /\ Result(t, s) = Without(s, i)
    BY <1>3, <2>1 DEF Result
  <2>3. /\ Without(u, i) \in Seq(ThreadCell) /\ Len(Without(u, i)) = Len(s) - 1
        /\ \A j \in 1 .. Len(s) - 1 : Without(u, i)[j] = IF j < i THEN u[j] ELSE u[j + 1]
    <3>1. i \in 1 .. Len(u)
      BY <1>1, <2>1
    <3>2. /\ Without(u, i) \in Seq(ThreadCell) /\ Len(Without(u, i)) = Len(u) - 1
          /\ \A j \in 1 .. Len(u) - 1 : Without(u, i)[j] = IF j < i THEN u[j] ELSE u[j + 1]
      BY <1>1, <3>1, WithoutHas
    <3> QED
      BY <1>1, <3>2
  <2>4. /\ Without(s, i) \in Seq(ThreadCell) /\ Len(Without(s, i)) = Len(s) - 1
        /\ \A j \in 1 .. Len(s) - 1 : Without(s, i)[j] = IF j < i THEN s[j] ELSE s[j + 1]
    BY <1>1, <2>1, WithoutHas
  <2>5. ~lost => Without(u, i) = Without(s, i) /\ Without(u, i) \in Seq(ThreadItem)
    BY <1>1, <2>1, WithoutHas
  <2>6. \A j \in 1 .. Len(s) - 1 : j \in 1 .. Len(s) /\ j + 1 \in 1 .. Len(s)
    BY <1>1
  <2> QED
    BY <1>1, <2>2, <2>3, <2>4, <2>5, <2>6 DEF Match
<1> QED
  BY <1>2, <1>3

(* ... and so does losing cells on the way, which the flag then says.      *)
LEMMA BlurredMatch ==
  ASSUME NEW lost, NEW after, lost => after, NEW v, NEW r, Match(lost, v, r),
         NEW w \in Seq(ThreadCell), Len(w) = Len(r),
         \A j \in 1 .. Len(r) : w[j] = r[j] \/ w[j] = Unset,
         w = r \/ after
  PROVE  Match(after, v, w) /\ Match(after, w, v)
<1>1. /\ v \in Seq(ThreadCell) /\ r \in Seq(ThreadCell) /\ Len(v) = Len(r)
      /\ \A i \in 1 .. Len(v) : v[i] = r[i] \/ v[i] = Unset \/ r[i] = Unset
      /\ ~lost => v = r /\ v \in Seq(ThreadItem)
  BY DEF Match
<1>2. \A i \in 1 .. Len(v) : v[i] = w[i] \/ v[i] = Unset \/ w[i] = Unset
  BY <1>1
<1>3. ~after => v = w /\ v \in Seq(ThreadItem) /\ w \in Seq(ThreadItem)
  BY <1>1
<1> QED
  BY <1>1, <1>2, <1>3 DEF Match

----------------------------------------------------------------------------
(* A thread that is alone keeps the arrays sound, step by step.            *)

(* Whoever is inside alone: the rest are idle, before its step and after.  *)
LEMMA OthersIdle ==
  ASSUME NEW t \in Threads, Placed, Alone, Step(t)
  PROVE  /\ Busy(t) /\ BusyOK(t) /\ MemOK /\ fault = "none"
         /\ \A u \in Threads \ {t} : ~Busy(u) /\ ~Busy(u)'
         /\ Placed' /\ at[t].array \in Arrays
<1>1. /\ Placed' /\ Busy(t) /\ fault = "none"
      /\ \A u \in Threads \ {t} : at'[u] = at[u]
  BY StepIsOwn
<1>2. \A u \in Threads \ {t} : ~Busy(u)
  BY <1>1 DEF Alone
<1>3. \A u \in Threads \ {t} : ~Busy(u)'
  BY <1>1, <1>2 DEF Busy
<1> QED
  BY <1>1, <1>2, <1>3 DEF Alone, Placed, Places

(* ... so the invariant holds again if it does for that thread, or, when   *)
(* it has left, for the arrays at rest.                                    *)
LEMMA AloneAgain ==
  ASSUME NEW t \in Threads, \A u \in Threads \ {t} : ~Busy(u)',
         fault' = "none", MemOK', Busy(t)' => BusyOK(t)', ~Busy(t)' => AtRest'
  PROVE  Alone'
BY DEF Alone, Quiet

(* Entering: alone, because whoever is inside would have been met.         *)
LEMMA EnterAlone ==
  ASSUME NEW t \in Threads, Placed, Alone, EnterAdd(t) \/ EnterRemove(t),
         ~overlapped'
  PROVE  Alone'
<1>1. /\ Placed' /\ UNCHANGED <<heap, freed, Data, Count, reg, misread, fault>>
      /\ ~Busy(t) /\ fault = "none"
      /\ \A u \in Threads \ {t} : at'[u] = at[u]
      /\ at'[t].array = "ItemInstances" /\ at'[t].step = "realloc"
      /\ at'[t].op \in {"add", "remove"}
      /\ overlapped' = (overlapped \/ Meets(t))
  BY EnterIsOwn
<1>2. PICK x :
        /\ arg' = [arg EXCEPT ![t] = x]
        /\ at'[t].op = "add" => x = ItemOf(t)
        /\ at'[t].op = "remove" => x \in 1 .. Count["ItemInstances"]
  <2>1. PICK op \in {"add", "remove"} : \E x :
          /\ op = "add" => x = ItemOf(t)
          /\ op = "remove" => x \in 1 .. Count["ItemInstances"]
          /\ at' = [at EXCEPT ![t] = [op |-> op, array |-> "ItemInstances", step |-> "realloc"]]
          /\ arg' = [arg EXCEPT ![t] = x]
    BY EnterSteps
  <2>2. at'[t].op = op
    BY <2>1 DEF Placed
  <2> QED
    BY <2>1, <2>2
<1>3. \A u \in Threads \ {t} : ~Busy(u)
  <2>1. ~Meets(t)
    BY <1>1
  <2> QED
    BY <2>1 DEF Meets
<1>4. AtRest /\ MemOK
  BY <1>1, <1>3 DEF Alone, Quiet
<1>5. \A u \in Threads \ {t} : ~Busy(u)'
  BY <1>1, <1>3 DEF Busy
<1>6. MemOK'
  <2>1. arg' = [u \in Threads |-> arg'[u]]
    BY <1>2, <1>4 DEF MemOK
  <2> QED
    BY <1>1, <1>4, <2>1 DEF MemOK
<1>7. /\ arg'[t] = x
      /\ at'[t].op = "add" => x \in ThreadItem
  <2>1. t \in DOMAIN arg
    BY <1>4 DEF MemOK
  <2>2. ItemOf(t) \in ThreadItem
    BY DEF ThreadItem, ItemOf, Placed
  <2> QED
    BY <1>2, <2>1, <2>2
<1>8. /\ Base(t)' = CellsOf("ItemInstances") /\ Target(t)' = Data["ItemInstances"]
      /\ Whole("ItemEntries")' /\ CellsOf("ItemEntries")' = CellsOf("ItemEntries")
      /\ Data["ItemInstances"] \in DOMAIN heap \ freed
  BY <1>1, <1>4 DEF Base, Target, CellsOf, AtRest, Whole, MemOK, Arrays
<1>9. AddOK(t)' \/ RemoveOK(t)'
  <2>1. Count["ItemInstances"] = Len(CellsOf("ItemInstances"))
    BY <1>4 DEF AtRest, Whole
  <2>2. CASE at'[t].op = "add"
    BY <1>1, <1>2, <1>7, <2>2 DEF AddOK
  <2>3. CASE at'[t].op = "remove"
    <3>1. arg'[t] \in 1 .. Len(Base(t)')
      BY <1>2, <1>7, <1>8, <2>1, <2>3
    <3> QED
      BY <1>1, <2>3, <3>1 DEF RemoveOK
  <2> QED
    BY <1>1, <2>2, <2>3
<1>10. Match(misread', CellsOf("ItemEntries"), CellsOf("ItemInstances"))
  BY <1>1, <1>4 DEF AtRest, Match
<1>11. BusyOK(t)'
  BY <1>1, <1>4, <1>8, <1>9, <1>10 DEF BusyOK, OtherOf, AtRest, Whole, MemOK
<1>12. Busy(t)'
  BY <1>1 DEF Busy
<1> QED
  BY <1>1, <1>5, <1>6, <1>11, <1>12, AloneAgain

(* realloc keeps the block or moves it; the other array's is another.      *)
LEMMA ReallocAlone ==
  ASSUME NEW t \in Threads, Placed, Alone, Realloc(t)
  PROVE  Alone'
<1>1. /\ Busy(t) /\ BusyOK(t) /\ MemOK /\ fault = "none"
      /\ \A u \in Threads \ {t} : ~Busy(u) /\ ~Busy(u)'
      /\ Placed' /\ at[t].array \in Arrays
  BY OthersIdle DEF Step
<1>2. PICK a, o, p, s, n : /\ a = at[t].array /\ o = OtherOf(a) /\ p = Data[a]
                           /\ s = heap[p] /\ n = NewSize(t)
  OBVIOUS
<1>3. /\ a \in Arrays /\ o \in Arrays /\ o # a
      /\ at[t].step = "realloc" /\ UNCHANGED <<arg, misread>>
  BY <1>1, <1>2 DEF OtherOf, Arrays, Realloc, Fail
<1>4. /\ Base(t) = s /\ s \in Seq(ThreadCell) /\ Count[a] = Len(s)
      /\ p \in DOMAIN heap \ freed /\ Data[o] \in DOMAIN heap /\ p # Data[o]
      /\ Whole(o)
      /\ Match(misread, CellsOf(o), IF a = "ItemInstances" THEN s ELSE Result(t, s))
      /\ AddOK(t) \/ RemoveOK(t)
  BY <1>1, <1>2, <1>3 DEF BusyOK, Base, CellsOf, Target, MemOK
<1>5. /\ n = IF at[t].op = "add" THEN Len(s) + 1 ELSE Len(s) - 1
      /\ at[t].op = "remove" => Count[a] > 0
      /\ at[t].op \in {"add", "remove"}
      /\ n \in Nat
  BY <1>2, <1>4 DEF NewSize, AddOK, RemoveOK
<1>6. /\ Resized(s, n) \in Seq(ThreadCell)
      /\ at[t].op = "add" => [i \in 1 .. Len(s) |-> Resized(s, n)[i]] = s
  <2>1. CASE at[t].op = "add"
    <3>1. arg[t] \in ThreadItem
      BY <1>4, <2>1 DEF AddOK, RemoveOK
    <3> QED
      BY <1>4, <1>5, <2>1, <3>1, ResizedLonger
  <2>2. CASE at[t].op # "add"
    <3>1. arg[t] \in 1 .. Len(s)
      BY <1>4, <2>2 DEF AddOK, RemoveOK
    <3> QED
      BY <1>4, <1>5, <2>2, <3>1, ResizedShorter
  <2> QED
    BY <2>1, <2>2
<1> DEFINE kept(q) == IF at[t].op = "add" THEN [NoReg EXCEPT !.new = q]
                      ELSE [old |-> s, from |-> p, new |-> q, index |-> 0]
<1>7. PICK q :
        /\ q \in DOMAIN heap' \ freed' /\ heap'[q] = Resized(s, n)
        /\ heap' \in Seq(Seq(ThreadCell)) /\ DOMAIN heap \subseteq DOMAIN heap'
        /\ freed' \subseteq DOMAIN heap'
        /\ q # Data[o] /\ heap'[Data[o]] = heap[Data[o]] /\ (Data[o] \in freed' => Data[o] \in freed)
        /\ reg' = [reg EXCEPT ![t] = kept(q)]
        /\ at[t].op = "remove" => q = p \/ p \in freed'
        /\ at' = [at EXCEPT ![t].step = "assign"]
        /\ UNCHANGED <<Data, Count, fault>>
  <2>1. /\ heap \in Seq(Seq(ThreadCell)) /\ freed \subseteq DOMAIN heap
    BY <1>1 DEF MemOK
  <2>2. /\ at' = [at EXCEPT ![t].step = "assign"] /\ UNCHANGED <<Data, Count, fault>>
        /\ \/ /\ heap' = [heap EXCEPT ![p] = Resized(s, n)]
              /\ reg' = [reg EXCEPT ![t] = kept(p)]
              /\ UNCHANGED freed
           \/ /\ heap' = Append([heap EXCEPT ![p] = <<>>], Resized(s, n))
              /\ reg' = [reg EXCEPT ![t] = kept(Len(heap) + 1)]
              /\ freed' = IF s = <<>> THEN freed ELSE freed \cup {p}
    <3>1. p \notin freed /\ ~(at[t].op = "remove" /\ Count[a] = 0)
      BY <1>4, <1>5
    <3> QED
      BY <1>2, <3>1 DEF Realloc, Goto
  <2>3. PICK r : r = Resized(s, n)
    OBVIOUS
  <2> HIDE DEF kept
  <2>4. CASE heap' = [heap EXCEPT ![p] = r] /\ UNCHANGED freed
             /\ reg' = [reg EXCEPT ![t] = kept(p)]
    <3>1. /\ heap' \in Seq(Seq(ThreadCell)) /\ DOMAIN heap' = DOMAIN heap
          /\ heap'[p] = r /\ heap'[Data[o]] = heap[Data[o]]
      BY <1>4, <1>6, <2>1, <2>3, <2>4
    <3> QED
      BY <1>4, <2>1, <2>2, <2>3, <2>4, <3>1
  <2>5. CASE heap' = Append([heap EXCEPT ![p] = <<>>], r)
             /\ freed' = (IF s = <<>> THEN freed ELSE freed \cup {p})
             /\ reg' = [reg EXCEPT ![t] = kept(Len(heap) + 1)]
    <3>1. PICK h : h = [heap EXCEPT ![p] = <<>>]
      OBVIOUS
    <3>2. /\ h \in Seq(Seq(ThreadCell)) /\ Len(h) = Len(heap) /\ DOMAIN h = DOMAIN heap
          /\ h[Data[o]] = heap[Data[o]]
      BY <1>4, <2>1, <3>1
    <3>3. r \in Seq(ThreadCell)
      BY <1>6, <2>3
    <3>4. /\ Append(h, r) \in Seq(Seq(ThreadCell))
          /\ DOMAIN h = 1 .. Len(h) /\ DOMAIN Append(h, r) = 1 .. Len(h) + 1
          /\ \A j \in 1 .. Len(h) : Append(h, r)[j] = h[j]
          /\ Append(h, r)[Len(h) + 1] = r /\ Len(h) \in Nat
      BY ONLY <3>2, <3>3, CellsAppended
    <3>5. heap' = Append(h, r)
      BY <2>5, <3>1
    <3>6. PICK q : q = Len(heap) + 1
      OBVIOUS
    <3>7. /\ q \in DOMAIN heap' /\ q \notin DOMAIN heap /\ heap'[q] = r
          /\ DOMAIN heap \subseteq DOMAIN heap' /\ heap' \in Seq(Seq(ThreadCell))
          /\ heap'[Data[o]] = heap[Data[o]]
      BY <1>4, <3>2, <3>4, <3>5, <3>6
    <3>8. q \notin freed' /\ q # Data[o] /\ freed' \subseteq DOMAIN heap'
          /\ (Data[o] \in freed' => Data[o] \in freed)
      BY <1>4, <2>1, <2>5, <3>7
    <3>9. reg' = [reg EXCEPT ![t] = kept(q)]
      BY <2>5, <3>6
    <3>10. at[t].op = "remove" => p \in freed'
      <4>1. at[t].op = "remove" => s # <<>>
        BY <1>4, <1>5
      <4> QED
        BY <2>5, <4>1
    <3> QED
      BY <2>2, <2>3, <3>7, <3>8, <3>9, <3>10
  <2> QED
    BY <2>2, <2>3, <2>4, <2>5
<1>8. /\ at'[t].step = "assign" /\ at'[t].op = at[t].op /\ at'[t].array = a
      /\ Busy(t)'
  BY <1>1, <1>2, <1>5, <1>7 DEF Placed, Places, Busy
<1>9. /\ reg'[t] = kept(q) /\ kept(q).new = q
      /\ at[t].op = "remove" => kept(q).old = s /\ kept(q).from = p
      /\ reg' \in [Threads -> Registers]
  <2>1. s \in Seq(ThreadCell) /\ q \in Nat /\ p \in Nat /\ <<>> \in Seq(ThreadCell)
    <3>1. heap \in Seq(Seq(ThreadCell))
      BY <1>1 DEF MemOK
    <3>2. p \in Nat
      BY <1>4, <3>1
    <3>3. q \in Nat
      BY <1>7
    <3>4. <<>> \in Seq(ThreadCell)
      OBVIOUS
    <3> QED
      BY <1>4, <3>2, <3>3, <3>4
  <2>2. kept(q) \in Registers
    BY <2>1 DEF Registers, NoReg
  <2>3. kept(q).new = q /\ (at[t].op = "remove" => kept(q).old = s /\ kept(q).from = p)
    BY <2>1 DEF NoReg
  <2>4. reg \in [Threads -> Registers]
    BY <1>1 DEF MemOK
  <2> HIDE DEF kept
  <2> QED
    BY <1>7, <2>2, <2>3, <2>4
<1> HIDE DEF kept
<1>10. MemOK'
  BY <1>1, <1>3, <1>7, <1>9 DEF MemOK
<1>11. Base(t)' = s /\ Target(t)' = q /\ NewSize(t)' = n
  <2>1. Target(t)' = q
    BY <1>8, <1>9 DEF Target
  <2>2. CASE at[t].op = "add"
    <3>1. Base(t)' = [i \in 1 .. Count'[a] |-> heap'[q][i]]
      BY <1>8, <2>1, <2>2 DEF Base
    <3>2. Base(t)' = s
      BY <1>4, <1>6, <1>7, <2>2, <3>1
    <3>3. NewSize(t)' = n
      BY <1>2, <1>7, <1>8 DEF NewSize
    <3> QED
      BY <2>1, <3>2, <3>3
  <2>3. CASE at[t].op = "remove"
    BY <1>2, <1>5, <1>7, <1>8, <1>9, <2>1, <2>3 DEF Base, NewSize
  <2> QED
    BY <1>5, <2>2, <2>3
<1>12. Whole(o)' /\ CellsOf(o)' = CellsOf(o)
  BY <1>4, <1>7 DEF Whole, CellsOf
<1>13. AddOK(t)' \/ RemoveOK(t)'
  BY <1>1, <1>3, <1>4, <1>5, <1>7, <1>8, <1>9, <1>11 DEF AddOK, RemoveOK
<1>14. Result(t, s)' = Result(t, s)
  BY <1>1, <1>3, <1>8 DEF Result
<1>15. BusyOK(t)'
  BY <1>2, <1>3, <1>4, <1>7, <1>8, <1>11, <1>12, <1>13, <1>14 DEF BusyOK
<1> QED
  BY <1>1, <1>7, <1>8, <1>10, <1>15, AloneAgain

LEMMA AssignAlone ==
  ASSUME NEW t \in Threads, Placed, Alone, Assign(t)
  PROVE  Alone'
<1>1. /\ Busy(t) /\ BusyOK(t) /\ MemOK /\ fault = "none"
      /\ \A u \in Threads \ {t} : ~Busy(u) /\ ~Busy(u)'
      /\ Placed' /\ at[t].array \in Arrays
  BY OthersIdle DEF Step
<1>2. PICK a, o, q, s, n : /\ a = at[t].array /\ o = OtherOf(a) /\ q = reg[t].new
                           /\ s = Base(t) /\ n = NewSize(t)
  OBVIOUS
<1>3. /\ a \in Arrays /\ o \in Arrays /\ o # a
      /\ {a, o} = {"ItemInstances", "ItemEntries"}
      /\ at[t].step = "assign" /\ at[t].op \in {"add", "remove"}
  BY <1>1, <1>2 DEF OtherOf, Arrays, Assign, BusyOK, AddOK, RemoveOK
<1>4. /\ Data' = [Data EXCEPT ![a] = q]
      /\ at' = [at EXCEPT ![t].step = IF at[t].op = "add" THEN "index" ELSE "copy"]
      /\ reg' = [reg EXCEPT ![t].new = 1]
      /\ UNCHANGED <<heap, freed, Count, arg, misread, fault>>
  BY <1>2 DEF Assign, Goto, NoReg
<1>5. /\ Target(t) = q /\ s \in Seq(ThreadCell) /\ Count[a] = Len(s)
      /\ q \in DOMAIN heap \ freed /\ q # Data[o] /\ heap[q] = Resized(s, n)
      /\ Whole(o)
      /\ Match(misread, CellsOf(o), IF a = "ItemInstances" THEN s ELSE Result(t, s))
      /\ AddOK(t) \/ RemoveOK(t)
  BY <1>1, <1>2, <1>3 DEF BusyOK, Target
<1>6. /\ Data' \in [Arrays -> DOMAIN heap] /\ Data'[a] = q /\ Data'[o] = Data[o]
  BY <1>1, <1>3, <1>4, <1>5 DEF MemOK
<1>7. /\ reg' \in [Threads -> Registers]
      /\ reg'[t].old = reg[t].old /\ reg'[t].from = reg[t].from
  BY <1>1, <1>4 DEF MemOK, Registers
<1>8. MemOK'
  BY <1>1, <1>3, <1>4, <1>5, <1>6, <1>7 DEF MemOK
<1>9. /\ at'[t].step = IF at[t].op = "add" THEN "index" ELSE "copy"
      /\ at'[t].op = at[t].op /\ at'[t].array = a
      /\ Busy(t)'
  BY <1>1, <1>2, <1>3, <1>4 DEF Placed, Places, Busy
<1>10. Base(t)' = s /\ Target(t)' = q /\ NewSize(t)' = n
  <2>1. Target(t)' = q
    BY <1>3, <1>6, <1>9 DEF Target
  <2>2. NewSize(t)' = n
    BY <1>2, <1>4, <1>9 DEF NewSize
  <2>3. CASE at[t].op = "add"
    <3>1. s = [i \in 1 .. Count[a] |-> heap[q][i]]
      <4>1. at[t].step # "realloc" /\ at[t].op # "remove"
        BY <1>3, <2>3
      <4>2. Base(t) = [i \in 1 .. Count[at[t].array] |-> heap[Target(t)][i]]
        BY ONLY <4>1 DEF Base
      <4> QED
        BY <1>2, <1>5, <4>2
    <3>2. Base(t)' = [i \in 1 .. Count'[a] |-> heap'[q][i]]
      BY <1>9, <2>1, <2>3 DEF Base
    <3> QED
      BY <1>4, <2>1, <2>2, <3>1, <3>2
  <2>4. CASE at[t].op = "remove"
    BY <1>2, <1>3, <1>7, <1>9, <2>1, <2>2, <2>4 DEF Base
  <2> QED
    BY <1>3, <2>3, <2>4
<1>11. Whole(o)' /\ CellsOf(o)' = CellsOf(o)
  BY <1>4, <1>5, <1>6 DEF Whole, CellsOf
<1>12. AddOK(t)' \/ RemoveOK(t)'
  <2>1. CASE at[t].op = "add"
    BY <1>4, <1>5, <1>9, <2>1 DEF AddOK, RemoveOK
  <2>2. CASE at[t].op = "remove"
    <3>1. arg[t] \in 1 .. Len(s) /\ (reg[t].from = q \/ reg[t].from \in freed)
      BY <1>2, <1>3, <1>5, <2>2 DEF AddOK, RemoveOK
    <3> QED
      BY <1>4, <1>7, <1>9, <1>10, <2>2, <3>1 DEF RemoveOK
  <2> QED
    BY <1>3, <2>1, <2>2
<1>13. Result(t, s)' = Result(t, s)
  BY <1>4, <1>9 DEF Result
<1>14. BusyOK(t)'
  BY <1>2, <1>4, <1>5, <1>6, <1>9, <1>10, <1>11, <1>12, <1>13 DEF BusyOK
<1> QED
  BY <1>1, <1>4, <1>8, <1>9, <1>14, AloneAgain

LEMMA ReadIndexAlone ==
  ASSUME NEW t \in Threads, Placed, Alone, ReadIndex(t)
  PROVE  Alone'
<1>1. /\ Busy(t) /\ BusyOK(t) /\ MemOK /\ fault = "none"
      /\ \A u \in Threads \ {t} : ~Busy(u) /\ ~Busy(u)'
      /\ Placed' /\ at[t].array \in Arrays
  BY OthersIdle DEF Step
<1>2. PICK a, o, s, n : /\ a = at[t].array /\ o = OtherOf(a)
                        /\ s = Base(t) /\ n = NewSize(t)
  OBVIOUS
<1>3. /\ a \in Arrays /\ at[t].step = "index" /\ at[t].op = "add"
      /\ reg' = [reg EXCEPT ![t].index = Count[a]]
      /\ at' = [at EXCEPT ![t].step = "store"]
      /\ UNCHANGED <<heap, freed, Data, Count, arg, misread, fault>>
  BY <1>1, <1>2 DEF ReadIndex, In, Goto, mem
<1>4. /\ Target(t) = Data[a] /\ s \in Seq(ThreadCell) /\ Count[a] = Len(s)
      /\ Data[a] \in DOMAIN heap \ freed /\ Data[a] # Data[o]
      /\ heap[Data[a]] = Resized(s, n)
      /\ Whole(o)
      /\ Match(misread, CellsOf(o), IF a = "ItemInstances" THEN s ELSE Result(t, s))
      /\ AddOK(t)
  BY <1>1, <1>2, <1>3 DEF BusyOK, Target, RemoveOK
<1>5. /\ reg' \in [Threads -> Registers] /\ reg'[t].index = Count[a]
  <2>1. reg \in [Threads -> Registers]
    BY <1>1 DEF MemOK
  <2>2. Count[a] \in Nat
    BY <1>1, <1>3 DEF MemOK
  <2> QED
    BY <1>2, <1>3, <2>1, <2>2 DEF Registers
<1>6. MemOK'
  BY <1>1, <1>3, <1>5 DEF MemOK
<1>7. /\ at'[t].step = "store" /\ at'[t].op = "add" /\ at'[t].array = a
      /\ Busy(t)'
  BY <1>1, <1>2, <1>3 DEF Placed, Places, Busy
<1>8. Base(t)' = s /\ Target(t)' = Data[a] /\ NewSize(t)' = n
  <2>1. Target(t)' = Data[a] /\ NewSize(t)' = n
    BY <1>2, <1>3, <1>7 DEF Target, NewSize
  <2>2. s = [i \in 1 .. Count[a] |-> heap[Data[a]][i]]
    <3>1. at[t].step # "realloc" /\ at[t].op # "remove"
      BY <1>3
    <3>2. Base(t) = [i \in 1 .. Count[at[t].array] |-> heap[Target(t)][i]]
      BY ONLY <3>1 DEF Base
    <3>3. s = Base(t) /\ at[t].array = a
      BY <1>2
    <3>4. Target(t) = Data[a]
      BY <1>4
    <3> QED
      BY ONLY <3>2, <3>3, <3>4
  <2>3. Base(t)' = [i \in 1 .. Count'[a] |-> heap'[Data[a]][i]]
    BY <1>7, <2>1 DEF Base
  <2> QED
    BY <1>3, <2>1, <2>2, <2>3
<1>9. Whole(o)' /\ CellsOf(o)' = CellsOf(o)
  BY <1>3, <1>4 DEF Whole, CellsOf
<1>10. AddOK(t)'
  BY <1>3, <1>4, <1>5, <1>7 DEF AddOK
<1>11. Result(t, s)' = Result(t, s)
  BY <1>3, <1>7 DEF Result
<1>12. BusyOK(t)'
  BY <1>2, <1>3, <1>4, <1>7, <1>8, <1>9, <1>10, <1>11 DEF BusyOK
<1> QED
  BY <1>1, <1>3, <1>6, <1>7, <1>12, AloneAgain

(* A thread that has written its result to an array, but for the cells it  *)
(* lost, goes on to the second or, after that, is done: the two match.     *)
LEMMA WrittenAlone ==
  ASSUME NEW t \in Threads, Placed, Alone, Step(t), at[t].step # "realloc",
         at[t].step # "assign", NEW w \in Seq(ThreadCell),
         LET a == at[t].array
             r == Result(t, Base(t))
         IN  /\ heap' = [heap EXCEPT ![Data[a]] = w]
             /\ Count' = [Count EXCEPT ![a] = Len(w)]
             /\ Len(w) = Len(r) /\ \A j \in 1 .. Len(r) : w[j] = r[j] \/ w[j] = Unset
             /\ w = r \/ misread',
         misread => misread',
         ArrayDone(t), UNCHANGED <<freed, Data, fault>>
  PROVE  Alone'
<1>1. /\ Busy(t) /\ BusyOK(t) /\ MemOK /\ fault = "none"
      /\ \A u \in Threads \ {t} : ~Busy(u) /\ ~Busy(u)'
      /\ Placed' /\ at[t].array \in Arrays
  BY OthersIdle
<1>2. PICK a, o, s, r : /\ a = at[t].array /\ o = OtherOf(a) /\ s = Base(t)
                        /\ r = Result(t, s)
  OBVIOUS
<1>3. /\ a \in Arrays /\ o \in Arrays /\ o # a
      /\ {a, o} = {"ItemInstances", "ItemEntries"}
  BY <1>1, <1>2 DEF OtherOf, Arrays
<1>4. /\ s \in Seq(ThreadCell)
      /\ Data[a] \in DOMAIN heap \ freed /\ Data[a] # Data[o]
      /\ Whole(o)
      /\ Match(misread, CellsOf(o), IF a = "ItemInstances" THEN s ELSE r)
      /\ AddOK(t) \/ RemoveOK(t)
  BY <1>1, <1>2, <1>3 DEF BusyOK, Target
<1>5. /\ at[t].op = "add" => arg[t] \in ThreadItem
      /\ at[t].op # "add" => arg[t] \in 1 .. Len(s)
  BY <1>2, <1>4 DEF AddOK, RemoveOK
<1>6. /\ heap' \in Seq(Seq(ThreadCell)) /\ DOMAIN heap' = DOMAIN heap
      /\ heap'[Data[a]] = w /\ heap'[Data[o]] = heap[Data[o]]
      /\ Count' \in [Arrays -> Nat] /\ Count'[a] = Len(w) /\ Count'[o] = Count[o]
  <2>1. heap \in Seq(Seq(ThreadCell)) /\ Count \in [Arrays -> Nat] /\ Data[o] \in DOMAIN heap
    BY <1>1, <1>3 DEF MemOK
  <2>2. heap' = [heap EXCEPT ![Data[a]] = w] /\ Count' = [Count EXCEPT ![a] = Len(w)]
    BY <1>2
  <2>3. /\ heap' \in Seq(Seq(ThreadCell)) /\ DOMAIN heap' = DOMAIN heap
        /\ heap'[Data[a]] = w /\ heap'[Data[o]] = heap[Data[o]]
    <3>1. PICK d, h : d = Data[a] /\ h = [heap EXCEPT ![d] = w]
      OBVIOUS
    <3>2. /\ h \in Seq(Seq(ThreadCell)) /\ DOMAIN h = DOMAIN heap
          /\ h[d] = w /\ \A j \in DOMAIN heap \ {d} : h[j] = heap[j]
      BY <1>4, <2>1, <3>1, CellReplaced
    <3> QED
      BY <1>4, <2>1, <2>2, <3>1, <3>2
  <2>4. Len(w) \in Nat
    OBVIOUS
  <2>5. Count' \in [Arrays -> Nat] /\ Count'[a] = Len(w) /\ Count'[o] = Count[o]
    <3>1. PICK c \in Nat : c = Len(w)
      BY <2>4
    <3>2. Count' = [Count EXCEPT ![a] = c]
      BY <2>2, <3>1
    <3> QED
      BY ONLY <1>3, <2>1, <3>1, <3>2
  <2> QED
    BY <2>3, <2>5
<1>7. /\ at' = [at EXCEPT ![t] = IF a = "ItemInstances"
                                 THEN [@ EXCEPT !.array = "ItemEntries", !.step = "realloc"]
                                 ELSE Idle]
      /\ reg' = [reg EXCEPT ![t] = NoReg]
      /\ arg' = IF a = "ItemInstances" THEN arg ELSE [arg EXCEPT ![t] = Unset]
  BY <1>2 DEF ArrayDone, EntriesToo
<1>8. MemOK'
  <2>1. reg' \in [Threads -> Registers]
    <3>1. NoReg \in Registers
      BY DEF NoReg, Registers
    <3>2. reg \in [Threads -> Registers]
      BY <1>1 DEF MemOK
    <3> QED
      BY <1>7, <3>1, <3>2
  <2>2. arg' = [u \in Threads |-> arg'[u]]
    BY <1>1, <1>7 DEF MemOK
  <2> QED
    BY <1>1, <1>6, <2>1, <2>2 DEF MemOK
<1>9. Whole(a)' /\ CellsOf(a)' = w /\ Whole(o)' /\ CellsOf(o)' = CellsOf(o)
  BY <1>4, <1>6 DEF Whole, CellsOf
<1>10. Len(w) = Len(r) /\ (\A j \in 1 .. Len(r) : w[j] = r[j] \/ w[j] = Unset) /\ (w = r \/ misread')
  BY <1>2
<1>11. CASE a = "ItemInstances"
  <2>1. o = "ItemEntries" /\ Match(misread, CellsOf(o), s)
    BY <1>2, <1>4, <1>11 DEF OtherOf
  <2>2. PICK u : u = CellsOf(o)
    OBVIOUS
  <2>3. /\ Match(misread, s, u) /\ u \in Seq(ThreadCell) /\ Len(u) = Len(s)
    BY <2>1, <2>2 DEF Match
  <2>4. Match(misread, Result(t, u), r)
    BY <1>2, <1>5, <2>1, <2>2, ResultsMatch
  <2>5. Match(misread', w, Result(t, u))
    BY <1>10, <2>4, BlurredMatch
  <2>6. /\ at'[t].array = o /\ at'[t].step = "realloc" /\ at'[t].op = at[t].op
        /\ Busy(t)' /\ OtherOf(o) = a
    BY <1>1, <1>7, <1>11, <2>1 DEF Placed, Places, Busy, OtherOf
  <2>7. Base(t)' = u /\ Target(t)' = Data[o]
    BY <1>9, <2>1, <2>2, <2>6 DEF Base, Target
  <2>8. Result(t, u)' = Result(t, u) /\ UNCHANGED arg
    BY <1>7, <1>11, <2>6 DEF Result
  <2>9. AddOK(t)' \/ RemoveOK(t)'
    BY <1>4, <1>5, <2>3, <2>6, <2>7, <2>8 DEF AddOK, RemoveOK
  <2>10. /\ Count'[o] = Len(u) /\ Data[o] \in DOMAIN heap' \ freed
    BY <1>1, <1>3, <1>4, <1>6, <2>1, <2>2 DEF Whole, MemOK
  <2>11. Match(misread', CellsOf(a)', Result(t, u)')
    BY <1>9, <2>5, <2>8
  <2>12. BusyOK(t)'
    BY <1>4, <1>9, <1>11, <2>1, <2>3, <2>6, <2>7, <2>9, <2>10, <2>11 DEF BusyOK
  <2> QED
    BY <1>1, <1>8, <2>6, <2>12, AloneAgain
<1>12. CASE a # "ItemInstances"
  <2>1. a = "ItemEntries" /\ o = "ItemInstances" /\ Match(misread, CellsOf(o), r)
    BY <1>3, <1>4, <1>12
  <2>2. Match(misread', CellsOf(o), w)
    BY <1>10, <2>1, BlurredMatch
  <2>3. AtRest'
    BY <1>9, <2>1, <2>2 DEF AtRest
  <2>4. ~Busy(t)'
    BY <1>7, <1>12 DEF Busy, Idle, Placed
  <2> QED
    BY <1>1, <1>8, <2>3, <2>4, AloneAgain
<1> QED
  BY <1>11, <1>12

LEMMA StoreAlone ==
  ASSUME NEW t \in Threads, Placed, Alone, Store(t)
  PROVE  Alone'
<1>1. /\ BusyOK(t) /\ MemOK /\ at[t].array \in Arrays
  BY OthersIdle DEF Step
<1>2. PICK a, s, n, k, e, d : /\ a = at[t].array /\ s = Base(t) /\ n = NewSize(t)
                              /\ k = reg[t].index /\ e = arg[t] /\ d = Data[a]
  OBVIOUS
<1>3. at[t].step = "store" /\ at[t].op = "add"
  BY DEF Store, In
<1>4. /\ s \in Seq(ThreadCell) /\ k = Len(s) /\ n = k + 1 /\ k \in Nat /\ e \in ThreadItem
      /\ d \in DOMAIN heap \ freed /\ heap[d] = Resized(s, k + 1)
  BY <1>1, <1>2, <1>3 DEF BusyOK, Target, AddOK, RemoveOK, NewSize
<1>5. PICK w : w = Append(s, e)
  OBVIOUS
<1>6. /\ Len(heap[d]) = k + 1 /\ [heap[d] EXCEPT ![k + 1] = e] = w
      /\ w \in Seq(ThreadCell) /\ Len(w) = k + 1
  BY <1>4, <1>5, ResizedLonger, AppendProperties DEF ThreadCell
<1>7. /\ heap' = [heap EXCEPT ![d][k + 1] = e]
      /\ Count' = [Count EXCEPT ![a] = k + 1]
      /\ ArrayDone(t) /\ UNCHANGED <<freed, Data, misread, fault>>
  <2>1. ~(d \in freed \/ k >= Len(heap[d]))
    BY <1>4, <1>6
  <2> QED
    BY <1>2, <2>1 DEF Store, StoredCount
<1>8. Result(t, s) = w
  BY <1>2, <1>3, <1>5 DEF Result
<1>9. heap' = [heap EXCEPT ![d] = w]
  BY <1>6, <1>7
<1>10. Step(t)
  BY DEF Step
<1> QED
  BY <1>2, <1>3, <1>6, <1>7, <1>8, <1>9, <1>10, WrittenAlone

(* Whatever was read too late is lost, every other cell is copied.         *)
LEMMA CopyDownAlone ==
  ASSUME NEW t \in Threads, Placed, Alone, CopyDown(t)
  PROVE  Alone'
<1>1. /\ BusyOK(t) /\ MemOK /\ at[t].array \in Arrays
  BY OthersIdle DEF Step
<1>2. PICK a, s, i, d : a = at[t].array /\ s = reg[t].old /\ i = arg[t] /\ d = Data[a]
  OBVIOUS
<1>3. at[t].step = "copy" /\ at[t].op = "remove"
  BY DEF CopyDown, In
<1>4. /\ Base(t) = s /\ Target(t) = d
  BY <1>2, <1>3 DEF Base, Target
<1>5. /\ s \in Seq(ThreadCell) /\ Len(s) \in Nat /\ Count[a] = Len(s) /\ i \in 1 .. Len(s)
      /\ d \in DOMAIN heap \ freed /\ heap[d] = Resized(s, Len(s) - 1)
      /\ reg[t].from = d \/ reg[t].from \in freed
  BY <1>1, <1>2, <1>3, <1>4 DEF BusyOK, AddOK, RemoveOK, NewSize
<1>6. /\ heap[d] \in Seq(ThreadCell) /\ Len(heap[d]) = Len(s) - 1
      /\ \A j \in 1 .. Len(s) - 1 : heap[d][j] = s[j]
  BY <1>5, ResizedShorter
<1>7. PICK r : r = Without(s, i)
  OBVIOUS
<1>8. /\ r \in Seq(ThreadCell) /\ Len(r) = Len(s) - 1
      /\ \A j \in 1 .. Len(s) - 1 : r[j] = IF j < i THEN s[j] ELSE s[j + 1]
  BY <1>5, <1>7, WithoutHas
<1>9. Kept(t) = Len(s) - 1
  BY <1>2, <1>5 DEF Kept
<1>10. \A k \in 1 .. Len(s) : OldCell(t, k) = s[k]
  <2> SUFFICES ASSUME NEW k \in 1 .. Len(s) PROVE OldCell(t, k) = s[k]
    OBVIOUS
  <2>1. CASE Reclaimed(t, k)
    BY <1>2, <1>5, <2>1 DEF OldCell
  <2>2. CASE ~Reclaimed(t, k)
    <3>1. reg[t].from = d /\ k <= Len(heap[d])
      <4>1. reg[t].from \notin freed /\ ~(k > Len(heap[reg[t].from]))
        BY <2>2 DEF Reclaimed
      <4> QED
        BY <1>5, <1>6, <4>1
    <3>2. OldCell(t, k) = heap[d][k]
      BY <2>2, <3>1 DEF OldCell
    <3> QED
      BY <1>5, <1>6, <3>1, <3>2
  <2> QED
    BY <2>1, <2>2
<1> DEFINE source(j) == IF j < i THEN j ELSE j + 1
<1>11. PICK reused :
         /\ reused \subseteq 1 .. Len(s)
         /\ heap' = [heap EXCEPT ![d] = [j \in DOMAIN @ |->
                       IF j > Kept(t) THEN @[j]
                       ELSE IF source(j) \in reused THEN Unset
                       ELSE OldCell(t, source(j))]]
         /\ misread' = (misread \/ reused # {})
         /\ Count' = [Count EXCEPT ![a] = @ - 1]
         /\ ArrayDone(t) /\ UNCHANGED <<freed, Data, fault>>
  <2>1. ~(d \in freed \/ Kept(t) > Len(heap[d]))
    BY <1>5, <1>6, <1>9
  <2> DEFINE risked == {k \in (1 .. Count[at[t].array]) \ {arg[t]} : Reclaimed(t, k)}
             Source(j) == IF j < arg[t] THEN j ELSE j + 1
             copied(x) == [heap EXCEPT ![Data[at[t].array]] = [j \in DOMAIN @ |->
                             IF j > Kept(t) THEN @[j]
                             ELSE IF Source(j) \in x THEN Unset
                             ELSE OldCell(t, Source(j))]]
  <2>2. PICK reused \in SUBSET risked :
          /\ heap' = copied(reused)
          /\ misread' = (misread \/ reused # {})
          /\ Count' = [Count EXCEPT ![at[t].array] = @ - 1]
          /\ ArrayDone(t) /\ UNCHANGED <<freed, Data, fault>>
    <3>1. ~(Data[at[t].array] \in freed \/ Kept(t) > Len(heap[Data[at[t].array]]))
      BY <1>2, <2>1
    <3> QED
      BY ONLY CopyDown(t), <3>1 DEF CopyDown
  <2>3. reused \subseteq 1 .. Len(s)
    BY <1>2, <1>5
  <2>4. heap' = [heap EXCEPT ![d] = [j \in DOMAIN @ |->
                  IF j > Kept(t) THEN @[j]
                  ELSE IF source(j) \in reused THEN Unset
                  ELSE OldCell(t, source(j))]]
    BY <1>2, <2>2
  <2>5. Count' = [Count EXCEPT ![a] = @ - 1]
    BY <1>2, <2>2
  <2> QED
    BY <2>2, <2>3, <2>4, <2>5
<1>12. PICK w : w = [j \in 1 .. Len(s) - 1 |->
                       IF source(j) \in reused THEN Unset ELSE s[source(j)]]
  OBVIOUS
<1>13. /\ w \in Seq(ThreadCell) /\ Len(w) = Len(r)
       /\ \A j \in 1 .. Len(r) : w[j] = r[j] \/ w[j] = Unset
  <2>1. Len(s) - 1 \in Nat
    BY <1>5
  <2>2. \A j \in 1 .. Len(s) - 1 : source(j) \in 1 .. Len(s) /\ r[j] = s[source(j)]
    BY <1>5, <1>8
  <2>3. \A j \in 1 .. Len(s) - 1 : s[source(j)] \in ThreadCell /\ Unset \in ThreadCell
    BY <1>5, <2>2 DEF ThreadCell
  <2> HIDE DEF source
  <2>4. w \in [1 .. Len(s) - 1 -> ThreadCell]
    BY <1>12, <2>3
  <2>5. w \in Seq(ThreadCell) /\ Len(w) = Len(s) - 1
    BY <2>1, <2>4
  <2> QED
    BY <1>8, <1>12, <2>2, <2>5
<1>14. w = r \/ misread'
  <2>1. CASE reused = {}
    <3>1. \A j \in 1 .. Len(s) - 1 : w[j] = r[j]
      BY <1>5, <1>8, <1>12, <2>1
    <3>2. w = r
      BY <1>8, <1>13, <3>1, SeqEqual
    <3> QED
      BY <3>2
  <2>2. CASE reused # {}
    BY <1>11, <2>2
  <2> QED
    BY <2>1, <2>2
<1>15. heap' = [heap EXCEPT ![d] = w]
  <2>1. DOMAIN heap[d] = 1 .. Len(s) - 1
    BY <1>5, <1>6
  <2>2. \A j \in 1 .. Len(s) - 1 : ~(j > Kept(t)) /\ source(j) \in 1 .. Len(s)
    BY <1>5, <1>9
  <2> HIDE DEF source
  <2>3. \A j \in 1 .. Len(s) - 1 : OldCell(t, source(j)) = s[source(j)]
    BY <1>10, <2>2
  <2>4. [j \in DOMAIN heap[d] |-> IF j > Kept(t) THEN heap[d][j]
                                  ELSE IF source(j) \in reused THEN Unset
                                  ELSE OldCell(t, source(j))] = w
    BY <1>12, <2>1, <2>2, <2>3
  <2> QED
    BY <1>11, <2>4
<1>16. Count' = [Count EXCEPT ![a] = Len(w)]
  <2>1. Len(w) = Count[a] - 1
    BY <1>5, <1>8, <1>13
  <2> QED
    BY <1>1, <1>2, <1>11, <2>1 DEF MemOK
<1>17. Result(t, s) = r
  BY <1>2, <1>3, <1>7 DEF Result
<1>18. Step(t) /\ (misread => misread')
  BY <1>11 DEF Step
<1> HIDE DEF source
<1> QED
  BY <1>2, <1>3, <1>4, <1>11, <1>13, <1>14, <1>15, <1>16, <1>17, <1>18, WrittenAlone

(* A handler that finds a cell without an item has met somebody, or cells  *)
(* were misread before.                                                    *)
LEMMA SearchAlone ==
  ASSUME Placed, Alone, SearchGarbage, ~overlapped'
  PROVE  Alone'
<1>1. /\ fault = "none" /\ ~Busy("game") /\ ~Meets("game")
      /\ Unset \in ToSet(Content("ItemInstances"))
      /\ fault' = "garbageRead"
      /\ UNCHANGED <<heap, freed, Data, Count, at, arg, reg, misread>>
  BY DEF SearchGarbage, mem
<1>2. \A u \in Threads : ~Busy(u)
  BY <1>1 DEF Meets
<1>3. AtRest
  BY <1>2 DEF Alone, Quiet
<1>4. misread
  <2> SUFFICES ASSUME ~misread PROVE FALSE
    OBVIOUS
  <2>1. PICK s \in Seq(ThreadItem) : s = CellsOf("ItemInstances")
    BY <1>3 DEF AtRest, Match
  <2>2. Data["ItemInstances"] \notin freed /\ Count["ItemInstances"] = Len(s)
    BY <1>3, <2>1 DEF AtRest, Whole
  <2>3. \A i \in 1 .. Len(s) : CellAt("ItemInstances", i) = s[i]
    BY <2>1, <2>2 DEF CellAt, CellsOf
  <2>4. PICK i \in 1 .. Len(s) : s[i] = Unset
    BY <1>1, <2>2, <2>3 DEF Content, ToSet
  <2>5. Unset \notin ThreadItem
    BY DEF Unset, ThreadItem
  <2> QED
    BY <2>4, <2>5
<1>5. \A u \in Threads : ~Busy(u)'
  BY <1>1, <1>2 DEF Busy
<1>6. MemOK'
  BY <1>1 DEF Alone, MemOK
<1>7. AtRest'
  BY <1>1, <1>3 DEF AtRest, Whole, CellsOf
<1> QED
  BY <1>1, <1>4, <1>5, <1>6, <1>7 DEF Alone

(* A step adds nothing to the overlaps, entering sees whoever it meets.    *)
LEMMA AloneInvariance == ITSpec => [](Placed /\ (~overlapped => Alone))
<1>1. ITInit => Placed /\ Alone
  <2> SUFFICES ASSUME ITInit PROVE Placed /\ Alone
    OBVIOUS
  <2>1. Placed /\ \A t \in Threads : ~Busy(t)
    BY DEF ITInit, Placed, Places, Idle, Arrays, Threads, Busy
  <2>2. /\ heap \in Seq(Seq(ThreadCell)) /\ heap[1] = <<>> /\ heap[2] = <<>>
        /\ DOMAIN heap = {1, 2} /\ <<>> \in Seq(ThreadItem) /\ <<>> \in Seq(ThreadCell)
    BY DEF ITInit
  <2>3. MemOK
    BY <2>2 DEF ITInit, MemOK, Registers, NoReg, Arrays
  <2>4. CellsOf("ItemInstances") = <<>> /\ CellsOf("ItemEntries") = <<>>
    BY <2>2 DEF ITInit, CellsOf, Arrays
  <2>5. AtRest
    BY <2>2, <2>4 DEF ITInit, AtRest, Whole, Match, Arrays
  <2> QED
    BY <2>1, <2>3, <2>5 DEF Alone, ITInit
<1>2. ASSUME Placed, ~overlapped => Alone, [ITNext]_itvars
      PROVE  Placed' /\ (~overlapped => Alone)'
  <2>1. ASSUME NEW t \in Threads, Step(t)
        PROVE  Placed' /\ (~overlapped => Alone)'
    <3>1. Placed' /\ UNCHANGED overlapped
      BY <1>2, <2>1, StepIsOwn
    <3>2. Alone => Alone'
      BY <1>2, <2>1, ReallocAlone, AssignAlone, ReadIndexAlone, StoreAlone, CopyDownAlone
         DEF Step
    <3> QED
      BY <1>2, <3>1, <3>2
  <2>2. ASSUME NEW t \in Threads, EnterAdd(t) \/ EnterRemove(t)
        PROVE  Placed' /\ (~overlapped => Alone)'
    <3>1. Placed' /\ (overlapped => overlapped')
      BY <1>2, <2>2, EnterIsOwn
    <3> QED
      BY <1>2, <2>2, <3>1, EnterAlone
  <2>3. CASE UNCHANGED <<heap, freed, Data, Count, at, arg, reg, calls, overlapped, misread, fault>>
    <3>1. Placed' /\ \A u \in Threads : Busy(u)' <=> Busy(u)
      BY <1>2, <2>3 DEF Placed, Busy
    <3>2. MemOK => MemOK'
      BY <2>3 DEF MemOK
    <3>3. AtRest => AtRest'
      BY <2>3 DEF AtRest, Whole, CellsOf
    <3>4. ASSUME NEW u \in Threads, BusyOK(u) PROVE BusyOK(u)'
      <4>1. PICK x, o, b, c, r : /\ x = at[u].array /\ o = OtherOf(x) /\ b = Base(u)
                                 /\ c = CellsOf(o) /\ r = Result(u, b)
        OBVIOUS
      <4>2. /\ Target(u)' = Target(u) /\ NewSize(u)' = NewSize(u)
            /\ CellsOf(o)' = c /\ Result(u, b)' = r
        BY <2>3, <4>1 DEF Target, NewSize, CellsOf, Result
      <4>3. Base(u)' = b
        <5>1. UNCHANGED <<at, reg, Count, heap, Data>>
          BY <2>3
        <5> QED
          BY ONLY <4>1, <4>2, <5>1 DEF Base, CellsOf
      <4>4. (AddOK(u) => AddOK(u)') /\ (RemoveOK(u) => RemoveOK(u)')
        BY <2>3, <4>1, <4>2, <4>3 DEF AddOK, RemoveOK
      <4>5. Whole(o) => Whole(o)'
        BY <2>3, <4>1, <4>2 DEF Whole
      <4> QED
        BY <2>3, <3>4, <4>1, <4>2, <4>3, <4>4, <4>5 DEF BusyOK
    <3>5. Alone => Alone'
      BY <2>3, <3>1, <3>2, <3>3, <3>4 DEF Alone, Quiet
    <3> QED
      BY <1>2, <2>3, <3>1, <3>5
  <2>4. CASE EnterLoading \/ \E n \in loading : FinishLoading(n)
    <3>1. UNCHANGED <<heap, freed, Data, Count, at, arg, reg, calls, overlapped, misread, fault>>
      BY <2>4 DEF EnterLoading, FinishLoading, mem
    <3> QED
      BY <2>3, <3>1
  <2>5. CASE SearchGarbage
    <3>1. Placed' /\ (overlapped => overlapped')
      BY <1>2, <2>5 DEF SearchGarbage, Placed
    <3> QED
      BY <1>2, <2>5, <3>1, SearchAlone
  <2>6. CASE UNCHANGED itvars
    <3>1. UNCHANGED <<heap, freed, Data, Count, at, arg, reg, calls, overlapped, misread, fault>>
      BY <2>6 DEF itvars, mem
    <3> QED
      BY <2>3, <3>1
  <2> QED
    BY <1>2, <2>1, <2>2, <2>4, <2>5, <2>6 DEF ITNext
<1> QED
  BY <1>1, <1>2, PTL DEF ITSpec

(* As long as no two threads were inside Add or Remove at once, no block   *)
(* is freed twice or overrun, and between operations the two arrays are    *)
(* parallel.  Remove reads the block it has given back: the cells it loses *)
(* that way are all that a thread alone can do, and without them the       *)
(* arrays are equal, every cell is an item and no handler reads garbage.   *)
THEOREM AloneIsSound == ITSpec => []SoundAlone
<1>1. Placed /\ (~overlapped => Alone) => SoundAlone
  <2> SUFFICES ASSUME Alone
               PROVE  /\ fault \in {"none", "garbageRead"}
                      /\ Quiet =>
                           /\ \A a \in Arrays : Data[a] \notin freed /\ Count[a] = Len(heap[Data[a]])
                           /\ Count["ItemInstances"] = Count["ItemEntries"]
                           /\ \A i \in 1 .. Count["ItemInstances"] :
                                LET x == CellAt("ItemInstances", i)
                                    y == CellAt("ItemEntries", i)
                                IN  Unset \notin {x, y} => x = y
                      /\ ~misread =>
                           /\ fault = "none"
                           /\ Quiet => /\ Content("ItemInstances") = Content("ItemEntries")
                                       /\ Unset \notin ToSet(Content("ItemInstances"))
    BY DEF SoundAlone
  <2>1. fault \in {"none", "garbageRead"} /\ (~misread => fault = "none")
    BY DEF Alone
  <2>2. ASSUME Quiet
        PROVE  /\ \A a \in Arrays : Data[a] \notin freed /\ Count[a] = Len(heap[Data[a]])
               /\ Count["ItemInstances"] = Count["ItemEntries"]
               /\ \A i \in 1 .. Count["ItemInstances"] :
                    LET x == CellAt("ItemInstances", i)
                        y == CellAt("ItemEntries", i)
                    IN  Unset \notin {x, y} => x = y
               /\ ~misread => /\ Content("ItemInstances") = Content("ItemEntries")
                              /\ Unset \notin ToSet(Content("ItemInstances"))
    <3>1. AtRest
      BY <2>2 DEF Alone
    <3>2. PICK u, v : u = CellsOf("ItemInstances") /\ v = CellsOf("ItemEntries")
      OBVIOUS
    <3>3. /\ u \in Seq(ThreadCell) /\ v \in Seq(ThreadCell) /\ Len(u) = Len(v)
          /\ \A i \in 1 .. Len(u) : u[i] = v[i] \/ u[i] = Unset \/ v[i] = Unset
          /\ ~misread => u = v /\ u \in Seq(ThreadItem)
      BY <3>1, <3>2 DEF AtRest, Match
    <3>4. /\ Data["ItemInstances"] \notin freed /\ Count["ItemInstances"] = Len(u)
          /\ Data["ItemEntries"] \notin freed /\ Count["ItemEntries"] = Len(u)
          /\ u = heap[Data["ItemInstances"]] /\ v = heap[Data["ItemEntries"]]
      BY <3>1, <3>2, <3>3 DEF AtRest, Whole, CellsOf
    <3>5. \A i \in 1 .. Len(u) : CellAt("ItemInstances", i) = u[i] /\ CellAt("ItemEntries", i) = v[i]
      BY <3>3, <3>4 DEF CellAt
    <3>6. ASSUME ~misread
          PROVE  /\ Content("ItemInstances") = Content("ItemEntries")
                 /\ Unset \notin ToSet(Content("ItemInstances"))
      <4>1. Content("ItemInstances") = [i \in 1 .. Len(u) |-> u[i]]
        BY <3>4, <3>5 DEF Content
      <4>2. Content("ItemEntries") = [i \in 1 .. Len(u) |-> u[i]]
        BY <3>3, <3>4, <3>5, <3>6 DEF Content
      <4>3. Unset \notin ThreadItem /\ \A i \in 1 .. Len(u) : u[i] \in ThreadItem
        BY <3>3, <3>6 DEF Unset, ThreadItem
      <4> QED
        BY <4>1, <4>2, <4>3 DEF ToSet
    <3> QED
      BY <3>3, <3>4, <3>5, <3>6 DEF Arrays
  <2> QED
    BY <2>1, <2>2
<1> QED
  BY <1>1, AloneInvariance, PTL

=============================================================================
