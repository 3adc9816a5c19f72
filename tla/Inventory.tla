------------------------------ MODULE Inventory ------------------------------
(***************************************************************************)
(* The player's inventory: the two parallel arrays of FortInventory        *)
(* (ItemInstances and ItemEntries), the primary quickbar, and the pickups  *)
(* lying in the world.  Every action is one handler of GameFunctions.h run *)
(* to its end, as the game thread runs it; the interleaving of two threads *)
(* inside AddToInventory is the subject of InventoryThreads.               *)
(***************************************************************************)
EXTENDS Integers, FiniteSets, SequencesExt

CONSTANTS
  Definitions,     \* the item definitions (UObject pointers) that are told apart
  StartingItems,   \* what Inventory() creates: <<[def, count], ...>> in order
  PickaxeFound,    \* EquipPickaxe resolved a definition: StartingItems[1] is it
  SlotCount,       \* slots of the primary quickbar (6 in the game)
  KnownEntrySize,  \* the entry size is one of the cases of the switch
  Reallocs,        \* what the heap may do to the block Remove shrinks (see Lost)
  Garbage,         \* the value of an array cell whose memory was reused
  MaxCount,        \* bound: largest stack
  MaxGuid,         \* bound: items ever created
  MaxPickup        \* bound: pickups ever spawned

Slots   == 0 .. SlotCount - 1
Amount  == 0 .. MaxCount  \* 0 stands for every count that is not positive

ASSUME InventoryAssumption ==
  /\ SlotCount \in Nat \ {0}
  /\ MaxCount \in Nat \ {0} /\ MaxGuid \in Nat /\ MaxPickup \in Nat
  /\ PickaxeFound \in BOOLEAN /\ KnownEntrySize \in BOOLEAN
  /\ Reallocs \subseteq {"kept", "shrunk", "moved"}
  /\ StartingItems \in Seq([def : Definitions, count : 0 .. MaxCount])
  /\ Len(StartingItems) <= MaxGuid
  /\ PickaxeFound => StartingItems # <<>>

(* A reused memory cell is not mistaken for an item.                       *)
ASSUME GarbageAssumption ==
  Garbage \notin [guid : 1 .. MaxGuid, def : Definitions, count : 1 .. MaxCount]

VARIABLES
  realloc,    \* what the process's heap does: one of Reallocs
  ready,      \* Inventory() has run
  instances,  \* FortInventory.ItemInstances: the items carried
  entries,    \* FortInventory.ItemEntries: a copy of each item's entry
  slots,      \* guids the quickbar was given, per primary slot
  focus,      \* PrimaryQuickbar.CurrentFocusedSlot
  ground,     \* the pickups in the world
  nextGuid,   \* the next item guid
  nextPickup, \* the next pickup actor
  scripted,   \* guids of the items scripts created (history)
  crashed     \* a handler dereferenced a garbage instance

vars == <<realloc, ready, instances, entries, slots, focus, ground, nextGuid,
          nextPickup, scripted, crashed>>

Item   == [guid : 1 .. MaxGuid, def : Definitions, count : 1 .. MaxCount]
Pickup == [id : 1 .. MaxPickup, def : Definitions, count : Amount]

TypeOK ==
  /\ realloc \in Reallocs
  /\ ready \in BOOLEAN /\ crashed \in BOOLEAN
  /\ instances \in Seq(Item \cup {Garbage})
  /\ entries \in Seq(Item \cup {Garbage})
  /\ slots \in [Slots -> SUBSET (1 .. MaxGuid)]
  /\ focus \in Slots
  /\ ground \subseteq Pickup
  /\ nextGuid \in 1 .. MaxGuid + 1
  /\ nextPickup \in 1 .. MaxPickup + 1
  /\ scripted \subseteq 1 .. MaxGuid

----------------------------------------------------------------------------
(* Readable positions and lookups.                                         *)

Positions  == {i \in DOMAIN instances : instances[i] # Garbage}
LiveGuids  == {instances[i].guid : i \in Positions}
PositionOf(g) == CHOOSE i \in Positions : instances[i].guid = g

(* GetQuickBarSlottedItem: a guid of the slot whose item is still carried. *)
QuickbarItems(s) == slots[s] \cap LiveGuids

SlotFree_Negated(s) == QuickbarItems(s) # {}
SlotFree(s)         == QuickbarItems(s) = {}

(* With slot 0 (the pickaxe's) focused a full bar refuses the pickup.      *)
FocusReplaceable_Always == TRUE
FocusReplaceable        == focus # 0

(* Remove reallocates the block and only then copies the elements, from    *)
(* the old address: nothing is lost if the heap leaves the old block as it *)
(* was, the last cell may be when it is shrunk in place, any when it moves.*)
Lost(arr) == CASE realloc = "kept"   -> {}
               [] realloc = "shrunk" -> {Len(arr)}
               [] realloc = "moved"  -> DOMAIN arr

RemovedFrom(arr, i, lost) ==
  [j \in 1 .. Len(arr) - 1 |->
     LET k == IF j < i THEN j ELSE j + 1
     IN  IF k \in lost THEN Garbage ELSE arr[k]]

(* The entry of the item removed from ItemInstances at i.                  *)
WithoutEntry_Next(arr, i, lost) ==
  IF KnownEntrySize THEN RemovedFrom(arr, IF i < Len(arr) THEN i + 1 ELSE i, lost)
  ELSE arr
WithoutEntry(arr, i, lost) ==
  IF KnownEntrySize THEN RemovedFrom(arr, i, lost) ELSE arr

(* CreateItem: a count that is not positive leaves the one the engine      *)
(* gave, 1.                                                                *)
CreatedCount(count) == IF count > 0 THEN count ELSE 1

CreatedItem(def, count) ==
  [guid |-> nextGuid, def |-> def, count |-> CreatedCount(count)]

Appended(arr, item) == IF KnownEntrySize THEN Append(arr, item) ELSE arr

(* AddToInventory to a primary slot; the quickbar ignores other slots.     *)
SlotsWith_Next(s, g) ==
  IF s + 1 \in Slots THEN [slots EXCEPT ![s + 1] = @ \cup {g}] ELSE slots
SlotsWith(s, g) == IF s \in Slots THEN [slots EXCEPT ![s] = @ \cup {g}] ELSE slots

(* Pickup destroys the actor it took; a swap puts down a count of 1.       *)
GroundWithout_Kept(p) == ground
GroundWithout(p)      == ground \ {p}

SwappedCount_OfPickup(p) == p.count
SwappedCount(p)          == 1

SpawnedPickup(def, count) == [id |-> nextPickup, def |-> def, count |-> count]

Running == ready /\ ~crashed
Readable == \A i \in DOMAIN instances : instances[i] # Garbage

----------------------------------------------------------------------------
Init ==
  /\ realloc \in Reallocs
  /\ ready = FALSE /\ crashed = FALSE
  /\ instances = <<>> /\ entries = <<>>
  /\ slots = [s \in Slots |-> {}] /\ focus = 0
  /\ ground = {} /\ nextGuid = 1 /\ nextPickup = 1
  /\ scripted = {}

StartingInstances ==
  [i \in 1 .. Len(StartingItems) |->
     [guid |-> i, def |-> StartingItems[i].def,
      count |-> CreatedCount(StartingItems[i].count)]]

(* The Inventory() thread: the pickaxe goes to primary slot 0, the rest to *)
(* the secondary bar or to no bar.  A definition that is not found makes   *)
(* CreateItem return null and AddToInventory do nothing, so StartingItems  *)
(* lists the found ones.                                                   *)
StartInventory ==
  /\ ~ready
  /\ ready' = TRUE
  /\ instances' = StartingInstances
  /\ entries' = IF KnownEntrySize THEN StartingInstances ELSE <<>>
  /\ slots' = IF PickaxeFound THEN [slots EXCEPT ![0] = {1}] ELSE slots
  /\ nextGuid' = Len(StartingItems) + 1
  /\ UNCHANGED <<realloc, focus, ground, nextPickup, scripted, crashed>>

(* SpawnPickupAtLocation: containers, floor loot and scripts drop loot;    *)
(* spawnPickup passes on any number.                                       *)
SpawnPickup(def, count) ==
  /\ nextPickup <= MaxPickup
  /\ ground' = ground \cup {SpawnedPickup(def, count)}
  /\ nextPickup' = nextPickup + 1
  /\ UNCHANGED <<realloc, ready, instances, entries, slots, focus, nextGuid,
                 scripted, crashed>>

(* Pickup, a slot is free: the first free one receives the item.           *)
PickupToFreeSlot(p) ==
  /\ Running /\ Readable
  /\ nextGuid <= MaxGuid
  /\ \E s \in Slots :
       LET item == CreatedItem(p.def, p.count)
       IN  /\ SlotFree(s)
           /\ \A t \in Slots : t < s => ~SlotFree(t)
           /\ instances' = Append(instances, item)
           /\ entries' = Appended(entries, item)
           /\ slots' = SlotsWith(s, item.guid)
  /\ ground' = GroundWithout(p)
  /\ nextGuid' = nextGuid + 1
  /\ UNCHANGED <<realloc, ready, focus, nextPickup, scripted, crashed>>

(* Pickup, every slot is taken: the item of the focused slot is put on the *)
(* ground with a count of 1 and removed after the new one was added; with  *)
(* slot 0 focused the handler does nothing.                                *)
PickupSwap(p) ==
  /\ Running /\ Readable
  /\ nextGuid <= MaxGuid /\ nextPickup <= MaxPickup
  /\ \A s \in Slots : ~SlotFree(s)
  /\ FocusReplaceable
  /\ \E g \in QuickbarItems(focus) :
       LET i    == PositionOf(g)
           item == CreatedItem(p.def, p.count)
           a    == Append(instances, item)
           b    == Appended(entries, item)
       IN  /\ \E lost \in SUBSET Lost(a) : instances' = RemovedFrom(a, i, lost)
           /\ \E lost \in SUBSET Lost(b) : entries' = WithoutEntry(b, i, lost)
           /\ ground' = GroundWithout(p)
                        \cup {SpawnedPickup(instances[i].def, SwappedCount(p))}
           /\ slots' = SlotsWith(focus, item.guid)
  /\ nextGuid' = nextGuid + 1
  /\ nextPickup' = nextPickup + 1
  /\ UNCHANGED <<realloc, ready, focus, scripted, crashed>>

(* InventoryDrop of a carried guid: the count the event asks for lands on  *)
(* the ground, be it more than the stack or nothing, the whole item goes,  *)
(* the first slot still filled is activated.                               *)
InventoryDrop(g, count) ==
  /\ Running /\ Readable
  /\ nextPickup <= MaxPickup
  /\ g \in LiveGuids
  /\ LET i == PositionOf(g)
     IN  /\ \E lost \in SUBSET Lost(instances) :
              instances' = RemovedFrom(instances, i, lost)
         /\ \E lost \in SUBSET Lost(entries) :
              entries' = WithoutEntry(entries, i, lost)
         /\ ground' = ground \cup {SpawnedPickup(instances[i].def, count)}
  /\ LET filled == {s \in Slots : slots[s] \cap (LiveGuids \ {g}) # {}}
     IN  IF filled = {} THEN focus' = focus
         ELSE focus' \in filled /\ \A s \in filled : focus' <= s
  /\ nextPickup' = nextPickup + 1
  /\ UNCHANGED <<realloc, ready, slots, nextGuid, scripted, crashed>>

(* duk_addtoinventory: a script names any slot, taken or not; slot         *)
(* SlotCount stands for every number outside the bar.                      *)
ScriptAddToInventory(def, s) ==
  /\ Running /\ Readable
  /\ nextGuid <= MaxGuid
  /\ LET item == CreatedItem(def, 0)
     IN  /\ instances' = Append(instances, item)
         /\ entries' = Appended(entries, item)
         /\ slots' = SlotsWith(s, item.guid)
  /\ scripted' = scripted \cup {nextGuid}
  /\ nextGuid' = nextGuid + 1
  /\ UNCHANGED <<realloc, ready, focus, ground, nextPickup, crashed>>

(* The player selects another slot (the engine's own quickbar handling).   *)
SelectSlot(s) ==
  /\ Running /\ focus # s
  /\ focus' = s
  /\ UNCHANGED <<realloc, ready, instances, entries, slots, ground, nextGuid,
                 nextPickup, scripted, crashed>>

(* Pickup, InventoryDrop and Equip call GetGuid on the instances in turn.  *)
ReadGarbage ==
  /\ Running /\ ~Readable
  /\ crashed' = TRUE
  /\ UNCHANGED <<realloc, ready, instances, entries, slots, focus, ground,
                 nextGuid, nextPickup, scripted>>

Next ==
  \/ StartInventory
  \/ \E d \in Definitions, c \in Amount : SpawnPickup(d, c)
  \/ \E p \in ground : PickupToFreeSlot(p) \/ PickupSwap(p)
  \/ \E i \in Positions, c \in Amount : InventoryDrop(instances[i].guid, c)
  \/ \E d \in Definitions, s \in 0 .. SlotCount : ScriptAddToInventory(d, s)
  \/ \E s \in Slots : SelectSlot(s)
  \/ ReadGarbage

Spec == Init /\ [][Next]_vars

----------------------------------------------------------------------------
(* Properties.                                                             *)

Aligned(a, b) ==
  /\ Len(a) = Len(b)
  /\ \A i \in DOMAIN a : Garbage \notin {a[i], b[i]} => a[i] = b[i]

(* The two parallel arrays of FortInventory have the same length, and at   *)
(* every position whose memory is still readable in both, the entry is the *)
(* one of the instance: InventoryDrop and Pickup remove from both by the   *)
(* index they found in one.                                                *)
ArraysAligned == KnownEntrySize => Aligned(instances, entries)

(* If realloc leaves the old block as it was, no cell is ever garbage and  *)
(* the arrays are equal.                                                   *)
ArraysEqual ==
  KnownEntrySize /\ realloc = "kept" => Readable /\ entries = instances

(* The two arrays stay parallel, whatever the heap does.                   *)
ArraysParallel == ArraysAligned /\ ArraysEqual

(* A quickbar slot holds two carried items only if a script wrote to it:   *)
(* Pickup fills free slots and empties a slot it writes over.              *)
OneItemPerSlot ==
  \A s \in Slots : Cardinality(QuickbarItems(s)) > 1 => slots[s] \cap scripted # {}

(* Every item picked up and still carried is in exactly one slot of the    *)
(* primary quickbar: none is carried where the player cannot select it.    *)
PickedItemsHaveOneSlot ==
  \A g \in LiveGuids \ scripted :
    g > Len(StartingItems) => Cardinality({s \in Slots : g \in slots[s]}) = 1

(* What lies in slot 0 (the pickaxe) leaves the inventory only by a drop,  *)
(* which shrinks it, never in exchange for a pickup - unless the heap lost *)
(* cells of the arrays.                                                    *)
SwapSparesSlotZero ==
  [][\A g \in QuickbarItems(0) :
       Readable' /\ g \notin LiveGuids' => Len(instances') < Len(instances)]_vars

(* All there is: what is carried and what picking up the ground would give. *)
Total == MapThenSumSet(LAMBDA i : instances[i].count, Positions)
           + MapThenSumSet(LAMBDA p : CreatedCount(p.count), ground)

(* Taking a pickup, in exchange or not, never makes more of anything: what *)
(* the player and the ground hold together does not grow, whatever counts  *)
(* the pickups carry.  A drop puts down what its event asks for and not    *)
(* what was held, so there it may grow - but only in the one pickup that   *)
(* stands for the stack: the stack is gone and no other one has grown.     *)
StacksNeverMultiply ==
  [][/\ ground \ ground' # {} => Total' <= Total
     /\ Len(instances') < Len(instances) =>
          \E i \in Positions, c \in Amount :
            /\ ground' = ground \cup {SpawnedPickup(instances[i].def, c)}
            /\ instances[i].guid \notin LiveGuids'
            /\ Total' + instances[i].count <= Total + CreatedCount(c)]_vars

(* Pickups and drops are exchanges: every pickup taken is one item gained  *)
(* of the same definition, every item lost is one pickup of its definition *)
(* - as long as the heap loses none.                                       *)
Faithful == realloc = "kept"
Trade == INSTANCE ItemExchange WITH
           open    <- ready /\ Faithful,
           carried <- {[id |-> instances[i].guid, def |-> instances[i].def] :
                         i \in {j \in Positions : Faithful}},
           lying   <- {[id |-> p.id, def |-> p.def] : p \in {q \in ground : Faithful}}

ImplementsExchange == Trade!Spec

=============================================================================
