----------------------------- MODULE MCInventory -----------------------------
(* Inventory with two slots that starts with the pickaxe and a stack of    *)
(* ammo; scripts and pickups add more of either.                           *)
EXTENDS Inventory

CONSTANTS pickaxe, ammo

StartingItemsDef == <<[def |-> pickaxe, count |-> 0], [def |-> ammo, count |-> 2]>>

=============================================================================
