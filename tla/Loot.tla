-------------------------------- MODULE Loot --------------------------------
(***************************************************************************)
(* The loot of a match: PrepareArray sorts the rows of the loot table into *)
(* five pairs of parallel global arrays, SpawnPickupsAthena_Terrain puts   *)
(* loot on the floor, InteractWith empties chests and ammo boxes.  All of  *)
(* this is the game thread's; a script may meanwhile call clear() on any   *)
(* of the arrays.                                                          *)
(***************************************************************************)
EXTENDS Integers, FiniteSets, SequencesExt

CONSTANTS
  Definitions,  \* the item definitions of the game
  NoDef,        \* no definition: a row that says "None", an unknown ammo
  ClassOf,      \* the exact class of each definition
  Wid,          \* the definitions with "WID" in their name
  AmmoOf,       \* the ammo of each weapon
  Tables,       \* loot tables: <<[def, weight, count], ...>>, weight in %
  Containers,   \* the "Tiered_" actors
  Group,        \* their loot tier group
  NumToDrop,    \* iterations of the ammo box's loop over NumItemsToDropRange
  FloorSpots,   \* number of floor loot actors
  MaxClears     \* bound: calls of clear() by scripts

Kinds  == {"Ammo", "Weapon", "Consumables", "Resource", "Traps"}
Arrays == Kinds \X {"ItemDefs", "ItemCount"}
Spots  == 1 .. FloorSpots
Sources == Containers \cup Spots

ASSUME LootAssumption ==
  /\ NoDef \notin Definitions /\ Wid \subseteq Definitions
  /\ ClassOf \in [Definitions -> {"ammo", "ranged", "deco", "resource", "other"}]
  /\ AmmoOf \in [Definitions -> Definitions \cup {NoDef}]
  /\ Tables \subseteq Seq([def : Definitions \cup {NoDef}, weight : Nat, count : Nat])
  /\ Group \in [Containers -> {"Loot_Treasure", "Loot_Ammo", "other"}]
  /\ NumToDrop \in [Containers -> Nat]
  /\ FloorSpots \in Nat /\ MaxClears \in Nat
  /\ Containers \cap Spots = {}

VARIABLES
  Rows,      \* the rows of the game's loot table
  block,     \* each array's Data: "null", "live" or "freed"
  ItemDefs,  \* WeaponItemDefs, AmmoItemDefs, ...
  ItemCount, \* WeaponItemCount, AmmoItemCount, ...
  step,      \* what the game thread has done of PrepareArray and the floor
  adding,    \* a row's definition is in its array, its count not yet
  visit,     \* the container being emptied
  pick,      \* the indices rand() gave for a chest
  bAlreadySearched,
  LastItemDefinition,
  loot,      \* what each container and floor spot has put down, in order
  clears,    \* calls of clear() so far
  fault

arrays == <<Rows, block, ItemDefs, ItemCount, adding, clears>>
vars   == <<arrays, step, visit, pick, bAlreadySearched, LastItemDefinition, loot, fault>>

Thing    == [def : Definitions, count : Nat]
NoVisit  == "none"
NoPick   == [k \in {"Weapon", "Resource", "Consumables"} |-> 0]

TypeOK ==
  /\ Rows \in Tables
  /\ block \in [Arrays -> {"null", "live", "freed"}]
  /\ ItemDefs \in [Kinds -> Seq(Definitions)]
  /\ ItemCount \in [Kinds -> Seq(Nat)]
  /\ step \in 0 .. Len(Rows) + FloorSpots
  /\ adding \in BOOLEAN
  /\ visit \in Containers \cup {NoVisit}
  /\ pick \in [{"Weapon", "Resource", "Consumables"} -> Nat]
  /\ bAlreadySearched \in [Containers -> BOOLEAN]
  /\ LastItemDefinition \in Definitions \cup {NoDef}
  /\ loot \in [Sources -> Seq(Thing)]
  /\ clears \in 0 .. MaxClears
  /\ fault \in {"none", "freed block", "division by zero", "empty array"}

Init ==
  /\ Rows \in Tables
  /\ block = [a \in Arrays |-> "null"]
  /\ ItemDefs = [k \in Kinds |-> <<>>] /\ ItemCount = [k \in Kinds |-> <<>>]
  /\ step = 0 /\ adding = FALSE
  /\ visit = NoVisit /\ pick = NoPick
  /\ bAlreadySearched = [c \in Containers |-> FALSE]
  /\ LastItemDefinition = NoDef
  /\ loot = [s \in Sources |-> <<>>]
  /\ clears = 0 /\ fault = "none"

----------------------------------------------------------------------------
(* SetupItemDefinitions: GItemDefs holds three exact classes.              *)
ItemDefClasses == {"ammo", "ranged", "resource"}
GItemDefs == {d \in Definitions : ClassOf[d] \in ItemDefClasses}

(* PrepareArray takes a row that names a known definition and whose weight *)
(* is above 0 once stoi has cut off the fraction.  It looks for the first  *)
(* definition whose path contains the row's; a row holds an asset's whole  *)
(* path, which no other asset's contains.                                  *)
Taken(row)           == row.def \in GItemDefs /\ row.weight \div 100 > 0

KindOf(def) ==
  CASE ClassOf[def] = "ammo"     -> "Ammo"
    [] ClassOf[def] = "ranged"   -> IF def \in Wid THEN "Weapon" ELSE "Consumables"
    [] ClassOf[def] = "deco"     -> "Traps"
    [] ClassOf[def] = "resource" -> "Resource"

(* A row's definition goes to one array of its kind's pair, its count to   *)
(* the other; Add on an array that a script has cleared reallocates a      *)
(* block that is gone.  A clear may come between the two Adds, but not     *)
(* inside one.                                                             *)
NextRow   == Rows[step + 1]
PairOf(k) == {<<k, "ItemDefs">>, <<k, "ItemCount">>}

SkipRow ==
  /\ fault = "none" /\ step < Len(Rows) /\ ~Taken(NextRow)
  /\ step' = step + 1
  /\ UNCHANGED <<arrays, visit, pick, bAlreadySearched, LastItemDefinition, loot, fault>>

AddItemDef ==
  /\ fault = "none" /\ step < Len(Rows) /\ Taken(NextRow) /\ ~adding
  /\ LET k == KindOf(NextRow.def)
     IN  IF block[<<k, "ItemDefs">>] = "freed"
         THEN fault' = "freed block" /\ UNCHANGED <<block, ItemDefs, adding>>
         ELSE /\ block' = [block EXCEPT ![<<k, "ItemDefs">>] = "live"]
              /\ ItemDefs' = [ItemDefs EXCEPT ![k] = Append(@, NextRow.def)]
              /\ adding' = TRUE
              /\ UNCHANGED fault
  /\ UNCHANGED <<Rows, ItemCount, clears, step, visit, pick, bAlreadySearched,
                 LastItemDefinition, loot>>

CountAdded_Weight(row) == row.weight
CountAdded(row)        == row.count

AddItemCount ==
  /\ fault = "none" /\ adding
  /\ LET k == KindOf(NextRow.def)
     IN  IF block[<<k, "ItemCount">>] = "freed"
         THEN fault' = "freed block" /\ UNCHANGED <<block, ItemCount, adding, step>>
         ELSE /\ block' = [block EXCEPT ![<<k, "ItemCount">>] = "live"]
              /\ ItemCount' = [ItemCount EXCEPT ![k] = Append(@, CountAdded(NextRow))]
              /\ adding' = FALSE /\ step' = step + 1
              /\ UNCHANGED fault
  /\ UNCHANGED <<Rows, ItemDefs, clears, visit, pick, bAlreadySearched,
                 LastItemDefinition, loot>>

PrepareRow == SkipRow \/ AddItemDef \/ AddItemCount

----------------------------------------------------------------------------
(* Reading entry i of a pair: nothing may have been freed under it.        *)
Readable(k, i) == i \in DOMAIN ItemDefs[k] \cap DOMAIN ItemCount[k]
Entry(k, i)    == [def |-> ItemDefs[k][i], count |-> ItemCount[k][i]]

(* The ammo of a weapon: the first entry of AmmoItemDefs that is its.      *)
AmmoFor_NotTheFirst(def) ==
  LET matches == {j \in 2 .. Len(ItemDefs["Ammo"]) : ItemDefs["Ammo"][j] = AmmoOf[def]}
  IN  IF matches = {} THEN 0 ELSE CHOOSE j \in matches : \A l \in matches : j <= l

AmmoFor(def) ==
  LET matches == {j \in DOMAIN ItemDefs["Ammo"] : ItemDefs["Ammo"][j] = AmmoOf[def]}
  IN  IF matches = {} THEN 0 ELSE CHOOSE j \in matches : \A l \in matches : j <= l

(* SpawnPickupAtLocation for each pair and index, then for the weapon's    *)
(* ammo.                                                                   *)
PutDown(source, entries) ==
  loot' = [loot EXCEPT ![source] = @ \o entries]

WithAmmo(things, def) ==
  LET j == AmmoFor(def)
  IN  IF j = 0 THEN things ELSE Append(things, Entry("Ammo", j))

AmmoReadable(def) == AmmoFor(def) = 0 \/ Readable("Ammo", AmmoFor(def))

(* RandomIntegerInRange asks the engine for an integer up to Max - 1.      *)
RandomIntegerInRange_UpToMax(min, max) == min .. max
RandomIntegerInRange(min, max)         == min .. max - 1

KindOnFloor(n) ==
  CASE n = 1 -> "Weapon" [] n = 2 -> "Consumables" [] n = 3 -> "Traps" [] n = 4 -> "Resource"

(* One floor loot actor; only the traps are tested for being there at all, *)
(* and an empty range gives index 0.                                       *)
NothingOnFloor(n) == n = 0 \/ (n = 3 /\ ItemDefs["Traps"] = <<>>)

FloorLeft         == step < Len(Rows) + FloorSpots

SpawnOnFloor ==
  /\ fault = "none" /\ Len(Rows) <= step /\ FloorLeft
  /\ \E n \in RandomIntegerInRange(0, 4) :
       IF NothingOnFloor(n) THEN UNCHANGED <<loot, fault>>
       ELSE LET k == KindOnFloor(n)
            IN  IF ItemDefs[k] = <<>>
                THEN fault' = "empty array" /\ UNCHANGED loot
                ELSE \E i \in RandomIntegerInRange(0, Len(ItemDefs[k])) :
                       LET def == ItemDefs[k][i + 1]
                       IN  IF Readable(k, i + 1) /\ (k = "Weapon" => AmmoReadable(def))
                           THEN /\ PutDown(step - Len(Rows) + 1,
                                     IF k = "Weapon" THEN WithAmmo(<<Entry(k, i + 1)>>, def)
                                     ELSE <<Entry(k, i + 1)>>)
                                /\ UNCHANGED fault
                           ELSE fault' = "freed block" /\ UNCHANGED loot
  /\ step' = step + 1
  /\ UNCHANGED <<arrays, visit, pick, bAlreadySearched, LastItemDefinition>>

----------------------------------------------------------------------------
(* InteractWith, which the dispatcher runs once the loading screen is gone *)
(* (Session); a container searched before gives nothing.                   *)
MaySearch(c) ==
  fault = "none" /\ step = Len(Rows) + FloorSpots /\ visit = NoVisit

Searchable(c) == ~bAlreadySearched[c]

SearchOther(c) ==
  /\ MaySearch(c) /\ Group[c] = "other"
  /\ bAlreadySearched' = [bAlreadySearched EXCEPT ![c] = TRUE]
  /\ UNCHANGED <<arrays, step, visit, pick, LastItemDefinition, loot, fault>>

(* rand() % Num().                                                         *)
Drawable_ButLast(k) == 1 .. Len(ItemDefs[k]) - 1
Drawable(k)         == 1 .. Len(ItemDefs[k])

(* A chest: an index for each of three arrays ...                          *)
OpenChest(c) ==
  /\ MaySearch(c) /\ Group[c] = "Loot_Treasure" /\ Searchable(c)
  /\ IF \E k \in DOMAIN pick : ItemDefs[k] = <<>>
     THEN fault' = "division by zero" /\ UNCHANGED <<visit, pick>>
     ELSE /\ \E p \in [DOMAIN pick -> 1 .. Len(Rows)] :
               (\A k \in DOMAIN pick : p[k] \in Drawable(k)) /\ pick' = p
          /\ visit' = c
          /\ UNCHANGED fault
  /\ UNCHANGED <<arrays, step, bAlreadySearched, LastItemDefinition, loot>>

(* ... then the three pickups and the weapon's ammo.                       *)
EmptyChest ==
  /\ fault = "none" /\ visit # NoVisit /\ Group[visit] = "Loot_Treasure"
  /\ IF (\A k \in DOMAIN pick : Readable(k, pick[k]))
        /\ AmmoReadable(ItemDefs["Weapon"][pick["Weapon"]])
     THEN /\ PutDown(visit,
               WithAmmo(<<Entry("Weapon", pick["Weapon"]),
                          Entry("Resource", pick["Resource"]),
                          Entry("Consumables", pick["Consumables"])>>,
                        ItemDefs["Weapon"][pick["Weapon"]]))
          /\ bAlreadySearched' = [bAlreadySearched EXCEPT ![visit] = TRUE]
          /\ visit' = NoVisit /\ pick' = NoPick
          /\ UNCHANGED fault
     ELSE /\ fault' = "freed block"
          /\ UNCHANGED <<loot, bAlreadySearched, visit, pick>>
  /\ UNCHANGED <<arrays, step, LastItemDefinition>>

(* An ammo box: NumToDrop entries, each drawn again while it is the last   *)
(* definition any box put down; such a draw changes nothing.               *)
OpenAmmoBox(c) ==
  /\ MaySearch(c) /\ Group[c] = "Loot_Ammo" /\ Searchable(c)
  /\ visit' = c
  /\ UNCHANGED <<arrays, step, pick, bAlreadySearched, LastItemDefinition, loot, fault>>

LastAfter(def) == def

DropAmmo ==
  /\ fault = "none" /\ visit # NoVisit /\ Group[visit] = "Loot_Ammo"
  /\ Len(loot[visit]) < NumToDrop[visit]
  /\ IF ItemDefs["Ammo"] = <<>>
     THEN fault' = "division by zero" /\ UNCHANGED <<loot, LastItemDefinition>>
     ELSE \E i \in Drawable("Ammo") :
            /\ ItemDefs["Ammo"][i] # LastItemDefinition
            /\ IF Readable("Ammo", i)
               THEN /\ PutDown(visit, <<Entry("Ammo", i)>>)
                    /\ LastItemDefinition' = LastAfter(ItemDefs["Ammo"][i])
                    /\ UNCHANGED fault
               ELSE fault' = "freed block" /\ UNCHANGED <<loot, LastItemDefinition>>
  /\ UNCHANGED <<arrays, step, visit, pick, bAlreadySearched>>

CloseAmmoBox ==
  /\ fault = "none" /\ visit # NoVisit /\ Group[visit] = "Loot_Ammo"
  /\ Len(loot[visit]) >= NumToDrop[visit]
  /\ bAlreadySearched' = [bAlreadySearched EXCEPT ![visit] = TRUE]
  /\ visit' = NoVisit
  /\ UNCHANGED <<arrays, step, pick, LastItemDefinition, loot, fault>>

(* TArray.clear() of a script: free, and Data keeps the address.           *)
ScriptClear(a) ==
  /\ fault = "none" /\ clears < MaxClears
  /\ clears' = clears + 1
  /\ IF block[a] = "freed" THEN fault' = "freed block" ELSE UNCHANGED fault
  /\ block' = [block EXCEPT ![a] = IF @ = "null" THEN "null" ELSE "freed"]
  /\ IF a[2] = "ItemDefs"
     THEN ItemDefs' = [ItemDefs EXCEPT ![a[1]] = <<>>] /\ UNCHANGED ItemCount
     ELSE ItemCount' = [ItemCount EXCEPT ![a[1]] = <<>>] /\ UNCHANGED ItemDefs
  /\ UNCHANGED <<Rows, adding, step, visit, pick, bAlreadySearched, LastItemDefinition, loot>>

GameThread == PrepareRow \/ SpawnOnFloor \/ EmptyChest \/ DropAmmo \/ CloseAmmoBox

Next ==
  \/ PrepareRow \/ SpawnOnFloor
  \/ \E c \in Containers : SearchOther(c) \/ OpenChest(c) \/ OpenAmmoBox(c)
  \/ EmptyChest \/ DropAmmo \/ CloseAmmoBox
  \/ \E a \in Arrays : ScriptClear(a)

(* The game thread is scheduled, and rand() ends up at every index; nobody *)
(* has to open anything.                                                   *)
Spec == Init /\ [][Next]_vars /\ WF_vars(GameThread)

----------------------------------------------------------------------------
(* Properties.                                                             *)

Prepared == step >= Len(Rows)
Offered  == {Rows[i].def : i \in {j \in DOMAIN Rows : Rows[j].weight >= 100}}
Stacks   == {[def |-> Rows[i].def, count |-> Rows[i].count] :
               i \in {j \in DOMAIN Rows : Rows[j].weight >= 100}}
KindsOffered == {KindOf(d) : d \in Offered \cap GItemDefs}
AmmoOffered  == {d \in Offered \cap GItemDefs : KindOf(d) = "Ammo"}

(* Whatever a script clears and whenever, everything that is put down is a *)
(* definition of the table with the count of one of its rows, be it        *)
(* cleared between the two Adds of a row: the two arrays of a kind never   *)
(* get out of step while both can be read.                                 *)
LootIsFromTable ==
  \A s \in Sources : \A i \in DOMAIN loot[s] : loot[s][i] \in Stacks

(* A chest that was searched has given a weapon, a resource and a          *)
(* consumable, and the weapon's ammo if the table offers it among the      *)
(* ammos and no script cleared an array.                                   *)
ChestsAreComplete ==
  \A c \in Containers :
    Group[c] = "Loot_Treasure" /\ bAlreadySearched[c] =>
      LET kinds == [i \in DOMAIN loot[c] |-> KindOf(loot[c][i].def)]
      IN  /\ SubSeq(kinds, 1, 3) = <<"Weapon", "Resource", "Consumables">>
          /\ AmmoOf[loot[c][1].def] \in AmmoOffered /\ clears = 0
               => Len(kinds) = 4 /\ loot[c][4].def = AmmoOf[loot[c][1].def]

(* Nothing fails if the table offers every kind that is drawn without a    *)
(* test and no script clears an array.                                     *)
FaultsAreEmptiness ==
  fault # "none" =>
    clears > 0 \/ ~({"Weapon", "Consumables", "Resource", "Ammo"} \subseteq KindsOffered)

(* Whoever opens a container gets it emptied: the loop of an ammo box ends *)
(* unless all the ammo there is is the one put down last.                  *)
SearchesEnd ==
  visit # NoVisit ~>
    \/ visit = NoVisit \/ fault # "none"
    \/ ToSet(ItemDefs["Ammo"]) \subseteq {LastItemDefinition}

=============================================================================
