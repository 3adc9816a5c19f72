----------------------------- MODULE MCPlayerTick -----------------------------
(* PlayerTick on the newest engine with two places.  MCPlayerTick.cfg has  *)
(* two emotes, a vehicle and two buildings of a class; MCBuilding.cfg has  *)
(* three buildings of two classes, no emote and no vehicle.                *)
EXTENDS PlayerTick

CONSTANTS here, there, wall, floor, dance, wave, cart, none

=============================================================================
