------------------------------- MODULE MCLoot -------------------------------
(* Loot with a table of two weapons that share an ammo, a consumable, two  *)
(* ammos, a resource, a trap, a row that says None and a row of weight 0.5;*)
(* or with a table that offers one ammo and no resource.                    *)
EXTENDS Loot

CONSTANTS rifle, pistol, shield, bullets, shells, wood, trap, none,
          chest, box1, box2, vending

DefinitionsDef == {rifle, pistol, shield, bullets, shells, wood, trap}

ClassOfDef ==
  [d \in DefinitionsDef |->
     CASE d \in {rifle, pistol, shield} -> "ranged"
       [] d \in {bullets, shells}       -> "ammo"
       [] d = wood                      -> "resource"
       [] d = trap                      -> "deco"]

AmmoOfDef ==
  [d \in DefinitionsDef |->
     CASE d = rifle -> bullets [] d = pistol -> shells [] OTHER -> none]

Row(d, w, c) == [def |-> d, weight |-> w, count |-> c]

FullTable ==
  <<Row(rifle, 100, 1), Row(none, 300, 0), Row(bullets, 250, 20), Row(shield, 100, 3),
    Row(shells, 100, 5), Row(pistol, 50, 1), Row(wood, 100, 30), Row(trap, 100, 2)>>

SmallTable ==
  <<Row(pistol, 100, 1), Row(rifle, 120, 2), Row(shells, 100, 5), Row(shield, 100, 3),
    Row(bullets, 90, 20)>>

TablesDef == {FullTable, SmallTable}

Boxes   == {box1, box2}
GroupDef ==
  [c \in {chest, box1, box2, vending} |->
     CASE c = chest -> "Loot_Treasure" [] c \in Boxes -> "Loot_Ammo" [] OTHER -> "other"]
NumToDropDef == [c \in {chest, box1, box2, vending} |-> IF c = box1 THEN 2 ELSE 1]

=============================================================================
