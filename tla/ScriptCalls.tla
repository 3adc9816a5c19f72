---------------------------- MODULE ScriptCalls ----------------------------
(***************************************************************************)
(* The functions that EraScript::Init gives to scripts, as functions of    *)
(* the argument list: whether the call throws, and what it asks of the     *)
(* game.  A function reads its arguments from the value stack by index,    *)
(* and so does what it pushes itself: duk_get_fvector leaves X, Y and Z    *)
(* above the arguments.                                                    *)
(***************************************************************************)
EXTENDS Naturals, Sequences

(* The values that the functions tell apart.  "X", "Y" and "Z" are the     *)
(* numbers duk_get_fvector reads out of a vector; "undefined" is what is   *)
(* read beyond the top of the stack, "default" what a function uses when   *)
(* the argument is not there.                                              *)
Arguments  ==
  {"object", "number", "boolean", "vector", "rotator", "string", "null"}
Components == {"X", "Y", "Z"}
Values     == Arguments \cup Components \cup {"undefined", "default"}

(* The global names, in the order Init registers them.                     *)
Registry ==
  <<"console", "require", "FVector", "FRotator", "executeConsoleCommand",
    "findObject", "getObjectName", "processEvent", "getLocation",
    "setScaleActor", "spawnPickup", "spawnActor", "teleport", "grantAbility",
    "messageBox", "destroyActor", "findActorsOfClass", "addToInventory",
    "isInVehicle", "getVehicle", "playSound", "getLocalPlayer",
    "ammoItemCount", "ammoItemDefs", "consumablesItemCount",
    "consumablesItemDefs", "resourceItemCount", "resourceItemDefs",
    "trapsItemCount", "trapsItemDefs", "weaponItemCount", "weaponItemDefs",
    "gameMode", "world", "fortniteVersion">>

GameFunctions == {Registry[i] : i \in 5 .. 22}

(* ARGS_LENGTH of each function.                                           *)
NeedsTwo  == {"processEvent", "setScaleActor", "spawnActor", "teleport"}
NeedsNone == {"isInVehicle", "getVehicle", "getLocalPlayer"}
MinArgs(f) == IF f \in NeedsNone THEN 0 ELSE IF f \in NeedsTwo THEN 2 ELSE 1

(* Functions whose first argument is checked with VALIDATE_PTR, whose      *)
(* second must be a vector, and whose first is a string made into a        *)
(* std::string unchecked.                                                  *)
TakeObject == {"getObjectName", "setScaleActor", "getLocation", "spawnPickup",
               "spawnActor", "destroyActor", "teleport", "grantAbility",
               "findActorsOfClass", "addToInventory", "playSound"}
TakeVector == {"setScaleActor", "spawnActor", "teleport"}
TakeString == {"findObject", "executeConsoleCommand", "messageBox"}

Reading(stack, i) == IF i < Len(stack) THEN stack[i + 1] ELSE "undefined"

IsNumber(v) == v = "number" \/ v \in Components
IsVector(v) == v = "vector"

Throws(f, args) ==
  \/ Len(args) < MinArgs(f)
  \/ f \in TakeObject /\ Reading(args, 0) # "object"
  \/ f \in TakeVector /\ ~IsVector(Reading(args, 1))

(* std::string of the null that duk_get_string returns for another value;  *)
(* processEvent passes both its pointers on unchecked.                     *)
Crashes(f, args) ==
  /\ Len(args) >= MinArgs(f)
  /\ \/ f \in TakeString /\ Reading(args, 0) # "string"
     \/ f = "processEvent" /\ \E i \in 0 .. 1 : Reading(args, i) # "object"

(* duk_is_fvector(1) ? duk_get_fvector(1): the stack the function goes on  *)
(* with.                                                                   *)
AfterVector(stack) ==
  IF IsVector(Reading(stack, 1)) THEN stack \o <<"X", "Y", "Z">> ELSE stack

VectorOr(stack, i)  == IF IsVector(Reading(stack, i)) THEN "vector" ELSE "default"
KindOr(stack, i, kind) == IF Reading(stack, i) = kind THEN kind ELSE "default"
NumberOr(stack, i)  == IF IsNumber(Reading(stack, i)) THEN Reading(stack, i) ELSE "default"

(* What the engine call of the function is given for its second, third and *)
(* fourth argument; "undefined" where it has none.                         *)
SpawnPickup_AboveVector(args) ==
  <<VectorOr(args, 1), NumberOr(AfterVector(args), 2), "undefined">>
SpawnPickup(args)       == <<VectorOr(args, 1), NumberOr(args, 2), "undefined">>
FindObject(args)        == <<KindOr(args, 1, "boolean"), "undefined", "undefined">>
ProcessEvent(args)      == <<KindOr(args, 1, "object"), "undefined", "undefined">>
PlaceActor(args)        == <<VectorOr(args, 1), KindOr(AfterVector(args), 2, "rotator"), "undefined">>
SetScaleActor(args)     == <<VectorOr(args, 1), "undefined", "undefined">>
IndexOrAll(args)        == <<NumberOr(args, 1), "undefined", "undefined">>
PlaySound(args)         == <<VectorOr(args, 1), NumberOr(AfterVector(args), 2),
                             NumberOr(AfterVector(args), 3)>>

Uses(f, args) ==
  CASE f = "spawnPickup"               -> SpawnPickup(args)
    [] f = "findObject"                -> FindObject(args)
    [] f = "processEvent"              -> ProcessEvent(args)
    [] f \in {"spawnActor", "teleport"} -> PlaceActor(args)
    [] f = "setScaleActor"             -> SetScaleActor(args)
    [] f \in {"findActorsOfClass", "addToInventory"} -> IndexOrAll(args)
    [] f = "playSound"                 -> PlaySound(args)
    [] OTHER                           -> <<"undefined", "undefined", "undefined">>

(* The kinds that the signatures in the comments give to the arguments     *)
(* after the first.                                                        *)
Signature(f) ==
  CASE f = "spawnPickup"               -> <<"vector", "number">>
    [] f = "findObject"                -> <<"boolean">>
    [] f = "processEvent"              -> <<"object">>
    [] f \in {"spawnActor", "teleport"} -> <<"vector", "rotator">>
    [] f = "setScaleActor"             -> <<"vector">>
    [] f \in {"findActorsOfClass", "addToInventory"} -> <<"number">>
    [] f = "playSound"                 -> <<"vector", "number", "number">>
    [] OTHER                           -> << >>

(* What a caller who reads the signature expects the function to use.      *)
Expected(f, args, i) ==
  IF Reading(args, i) = Signature(f)[i] THEN Reading(args, i) ELSE "default"

(* playSound reads its volume and pitch above the vector, so a call that   *)
(* leaves them out finds the vector's own components there.                *)
Misread(f, args) ==
  f = "playSound" /\ IsVector(Reading(args, 1)) /\ Len(args) < 4

=============================================================================
