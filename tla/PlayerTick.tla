----------------------------- MODULE PlayerTick -----------------------------
(***************************************************************************)
(* What the player does after the loading screen, between and inside the   *)
(* frames: GameManager::Tick (Functions.h) caches the preview of an edit,  *)
(* swaps net roles in vehicles, builds while the mouse button is held and  *)
(* ends emotes the player walked away from; the other handlers start what  *)
(* Tick goes on with.  Between two of them the game moves the player, aims *)
(* the build preview, seats and unseats the player, ends animations.       *)
(***************************************************************************)
EXTENDS Naturals, Sequences, FiniteSets

CONSTANTS
  Version,    \* the engine: "4.16", "4.19", "4.20" or "4.21"; see MouseBuild
  Fortnite3,  \* Fortnite 3.0 to 3.4, the first of 4.20
  Places,     \* where a player, a preview or a building can be
  Classes,    \* the building pieces
  Emotes,     \* the emotes' animations
  Vehicles,
  None,       \* a null pointer
  MaxPieces   \* bound: buildings put up, edited ones included

Pawns  == {"first", "summoned"}
Pieces == 1 .. MaxPieces

ASSUME PlayerTickAssumption ==
  /\ Version \in {"4.16", "4.19", "4.20", "4.21"} /\ Fortnite3 \in BOOLEAN
  /\ MaxPieces \in Nat
  /\ None \notin Places \cup Classes \cup Emotes \cup Vehicles \cup Pieces

VARIABLES
  \* the game's
  position,          \* of PlayerPawn
  aim,               \* CurrentBuildableClass and LastBuildLocation
  piece,             \* the buildings, in the order they were put up
  standing,          \* those that were not destroyed
  EditBuildingActor, \* the building being edited
  playing,           \* the montage each pawn plays
  vehicle,           \* the one the player sits in
  role,              \* Role of every vehicle: TRUE for ROLE_AutonomousProxy
  \* the program's
  PlayerPawn, bJumpedFromBus,
  ComponentLocation,
  BuildingOffset,    \* BuildExec has been called
  BuildingActorLast, LastClass,
  CurrentEmote, EmotePosition, bIsEmoting,
  \* history
  turbo,             \* the buildings Tick put up, in order
  seen,              \* a Tick has run since the edit began
  early,             \* the last Tick returned early
  exiting,           \* ExitVehicle ran and the game has not unseated yet
  loose,             \* vehicles left otherwise than by a plain exit
  fault

built   == <<piece, standing>>
game    == <<position, aim, built, EditBuildingActor, playing, vehicle>>
emote   == <<CurrentEmote, EmotePosition, bIsEmoting>>
last    == <<BuildingActorLast, LastClass>>
history == <<turbo, seen, early, exiting, loose>>
vars    == <<game, role, PlayerPawn, bJumpedFromBus, ComponentLocation,
             BuildingOffset, last, emote, history, fault>>

Piece == [class : Classes, place : Places]

TypeOK ==
  /\ position \in Places
  /\ aim \in Piece
  /\ piece \in Seq(Piece) /\ Len(piece) <= MaxPieces
  /\ standing \subseteq Pieces
  /\ EditBuildingActor \in Pieces \cup {None}
  /\ playing \in [Pawns -> Emotes \cup {None}]
  /\ vehicle \in Vehicles \cup {None}
  /\ role \in [Vehicles -> BOOLEAN]
  /\ PlayerPawn \in Pawns /\ bJumpedFromBus \in BOOLEAN
  /\ ComponentLocation \in Places \cup {None}
  /\ BuildingOffset \in BOOLEAN
  /\ BuildingActorLast \in Pieces \cup {None} /\ LastClass \in Classes \cup {None}
  /\ CurrentEmote \in Emotes \cup {None} /\ EmotePosition \in Places \cup {None}
  /\ bIsEmoting \in BOOLEAN
  /\ turbo \in Seq(Pieces)
  /\ seen \in BOOLEAN /\ early \in BOOLEAN /\ exiting \in BOOLEAN
  /\ loose \subseteq Vehicles
  /\ fault \in {"none", "null vehicle"}

Init ==
  /\ position \in Places /\ aim \in Piece
  /\ piece = <<>> /\ standing = {} /\ EditBuildingActor = None
  /\ playing = [p \in Pawns |-> None]
  /\ vehicle = None /\ role = [v \in Vehicles |-> FALSE]
  /\ PlayerPawn = "first" /\ bJumpedFromBus = FALSE
  /\ ComponentLocation = None
  /\ BuildingOffset = FALSE
  /\ BuildingActorLast = None /\ LastClass = None
  /\ CurrentEmote = None /\ EmotePosition = None /\ bIsEmoting = FALSE
  /\ turbo = <<>> /\ seen = FALSE /\ early = FALSE
  /\ exiting = FALSE /\ loose = {}
  /\ fault = "none"

Alive == fault = "none"

----------------------------------------------------------------------------
(* Tick, part by part.                                                     *)

(* The preview of the building being edited stands where it stands.        *)
RefreshPreview ==
  IF EditBuildingActor # None
  THEN ComponentLocation' = piece[EditBuildingActor].place /\ seen' = TRUE
  ELSE UNCHANGED <<ComponentLocation, seen>>

(* From 4.21 on the seated player's vehicle is an autonomous proxy.        *)
SwapRoles ==
  IF Version = "4.21" /\ bJumpedFromBus /\ vehicle # None
  THEN /\ role' = [role EXCEPT ![vehicle] = TRUE]
       /\ loose' = IF exiting THEN loose \cup {vehicle} ELSE loose
  ELSE UNCHANGED <<role, loose>>

(* Building with the mouse: from 4.20 on, except in Fortnite 3.0 to 3.4,   *)
(* once the game has called BuildExec, and not while editing.              *)
MouseBuild ==
  /\ Version \in {"4.20", "4.21"} /\ ~Fortnite3
  /\ BuildingOffset /\ EditBuildingActor = None

(* Is the last building what would be built?  If it was destroyed, its     *)
(* memory may still say so or not.                                         *)
SameAsLast_OtherClass ==
  IF BuildingActorLast = None THEN {FALSE}
  ELSE {piece[BuildingActorLast].place = aim.place /\ LastClass # aim.class}

SameAsLast ==
  IF BuildingActorLast = None \/ LastClass = None THEN {FALSE}
  ELSE LET same == /\ piece[BuildingActorLast].place = aim.place
                   /\ LastClass = aim.class
       IN  IF same /\ BuildingActorLast \notin standing THEN BOOLEAN ELSE {same}

(* One more building, and the ones destroyed for it.                       *)
Placed(what, destroyed) ==
  /\ piece' = Append(piece, what)
  /\ standing' = (standing \ destroyed) \cup {Len(piece) + 1}

BuildHere ==
  /\ Len(piece) < MaxPieces
  /\ Placed(aim, {})
  /\ BuildingActorLast' = Len(piece) + 1 /\ LastClass' = aim.class
  /\ turbo' = Append(turbo, Len(piece) + 1)

(* The emote ends when the player is not where it began; StopMontage stops *)
(* the montage on whatever pawn is the player's now.                       *)
MontageStopped_Cleared == None
MontageStopped         == CurrentEmote

Moved == position # EmotePosition

EmoteOver_WhilePlaying ==
  bIsEmoting /\ Moved /\ playing[PlayerPawn] = CurrentEmote
EmoteOver == bIsEmoting /\ Moved

CheckEmote ==
  IF EmoteOver
  THEN /\ bIsEmoting' = FALSE /\ CurrentEmote' = None
       /\ playing' = IF MontageStopped # None /\ playing[PlayerPawn] = MontageStopped
                     THEN [playing EXCEPT ![PlayerPawn] = None] ELSE playing
       /\ UNCHANGED EmotePosition
  ELSE UNCHANGED <<emote, playing>>

(* One Tick: held says whether the button is down in build mode where the  *)
(* game lets the player build.                                             *)
Tick(held) ==
  /\ Alive
  /\ RefreshPreview
  /\ SwapRoles
  /\ IF held /\ MouseBuild
     THEN \E same \in SameAsLast :
            /\ early' = same
            /\ IF same THEN UNCHANGED <<built, last, turbo, emote, playing>>
               ELSE BuildHere /\ CheckEmote
     ELSE /\ early' = FALSE
          /\ CheckEmote
          /\ UNCHANGED <<built, last, turbo>>
  /\ UNCHANGED <<position, aim, EditBuildingActor, vehicle, PlayerPawn,
                 bJumpedFromBus, BuildingOffset, exiting, fault>>

----------------------------------------------------------------------------
(* The other handlers.                                                     *)

(* BuildExec: the game's build tool calls it once; it detaches itself.     *)
BuildExec ==
  /\ Alive /\ ~BuildingOffset /\ BuildingOffset' = TRUE
  /\ UNCHANGED <<game, role, PlayerPawn, bJumpedFromBus, ComponentLocation,
                 last, emote, history, fault>>

(* ServerCreateBuilding: builds without a look at the last building.       *)
Build ==
  /\ Alive /\ Len(piece) < MaxPieces
  /\ Placed(aim, {})
  /\ UNCHANGED <<position, aim, EditBuildingActor, playing, vehicle, role,
                 PlayerPawn, bJumpedFromBus, ComponentLocation, BuildingOffset,
                 last, emote, history, fault>>

(* ServerBeginEditingBuildingActor; the game then holds the building.      *)
BeginEditingBuildingActor(b) ==
  /\ Alive /\ EditBuildingActor = None /\ b \in standing
  /\ EditBuildingActor' = b /\ seen' = FALSE
  /\ UNCHANGED <<position, aim, built, playing, vehicle, role, PlayerPawn,
                 bJumpedFromBus, ComponentLocation, BuildingOffset, last, emote,
                 turbo, early, exiting, loose, fault>>

(* The new building is put where Tick last saw a preview; when it has      *)
(* never seen one the place is the zero vector, here any place.            *)
EditPlaces_Aim == {aim.place}
EditPlaces     == IF ComponentLocation = None THEN Places ELSE {ComponentLocation}

ServerFinishEditingBuildingActor(class) ==
  /\ Alive /\ EditBuildingActor # None /\ Len(piece) < MaxPieces
  /\ \E place \in EditPlaces :
       Placed([class |-> class, place |-> place], {EditBuildingActor})
  /\ EditBuildingActor' = None
  /\ UNCHANGED <<position, aim, playing, vehicle, role, PlayerPawn,
                 bJumpedFromBus, ComponentLocation, BuildingOffset, last, emote,
                 history, fault>>

(* ServerPlayEmoteItem, from 4.19 on.                                      *)
Emote(e) ==
  /\ Alive /\ Version # "4.16"
  /\ CurrentEmote' = e /\ EmotePosition' = position /\ bIsEmoting' = TRUE
  /\ playing' = [playing EXCEPT ![PlayerPawn] = e]
  /\ UNCHANGED <<position, aim, built, EditBuildingActor, vehicle, role,
                 PlayerPawn, bJumpedFromBus, ComponentLocation, BuildingOffset,
                 last, history, fault>>

(* JumpFromAircraft: a new pawn; which one FindActorsFromClass returns     *)
(* first is the game's choice.                                             *)
JumpFromAircraft ==
  /\ Alive /\ ~bJumpedFromBus /\ vehicle = None
  /\ bJumpedFromBus' = TRUE
  /\ PlayerPawn' \in Pawns /\ position' \in Places
  /\ UNCHANGED <<aim, built, EditBuildingActor, playing, vehicle, role,
                 ComponentLocation, BuildingOffset, last, emote, history, fault>>

(* ServerAttemptExitVehicle: the handler, before the game's own.           *)
RoleOnExit_Kept(v) == role[v]
RoleOnExit(v)      == FALSE

ExitVehicle ==
  /\ Alive
  /\ IF vehicle = None
     THEN fault' = "null vehicle" /\ UNCHANGED <<role, exiting>>
     ELSE /\ role' = [role EXCEPT ![vehicle] = RoleOnExit(vehicle)]
          /\ exiting' = TRUE
          /\ UNCHANGED fault
  /\ UNCHANGED <<game, PlayerPawn, bJumpedFromBus, ComponentLocation,
                 BuildingOffset, last, emote, turbo, seen, early, loose>>

----------------------------------------------------------------------------
(* The game and the player.                                                *)

Leave ==
  /\ Alive /\ vehicle # None
  /\ vehicle' = None /\ exiting' = FALSE
  /\ loose' = IF exiting THEN loose ELSE loose \cup {vehicle}
  /\ UNCHANGED <<position, aim, built, EditBuildingActor, playing, role,
                 PlayerPawn, bJumpedFromBus, ComponentLocation, BuildingOffset,
                 last, emote, turbo, seen, early, fault>>

Enter(v) ==
  /\ Alive /\ vehicle = None /\ vehicle' = v
  /\ UNCHANGED <<position, aim, built, EditBuildingActor, playing, role,
                 PlayerPawn, bJumpedFromBus, ComponentLocation, BuildingOffset,
                 last, emote, history, fault>>

EndEdit ==
  /\ Alive /\ EditBuildingActor # None /\ EditBuildingActor' = None
  /\ UNCHANGED <<position, aim, built, playing, vehicle, role, PlayerPawn,
                 bJumpedFromBus, ComponentLocation, BuildingOffset, last, emote,
                 history, fault>>

MoveTo(place) ==
  /\ Alive /\ position # place /\ position' = place
  /\ UNCHANGED <<aim, built, EditBuildingActor, playing, vehicle, role,
                 PlayerPawn, bJumpedFromBus, ComponentLocation, BuildingOffset,
                 last, emote, history, fault>>

Aim(class, place) ==
  /\ Alive /\ aim' = [class |-> class, place |-> place] /\ aim' # aim
  /\ UNCHANGED <<position, built, EditBuildingActor, playing, vehicle, role,
                 PlayerPawn, bJumpedFromBus, ComponentLocation, BuildingOffset,
                 last, emote, history, fault>>

MontageEnds(p) ==
  /\ Alive /\ playing[p] # None /\ playing' = [playing EXCEPT ![p] = None]
  /\ UNCHANGED <<position, aim, built, EditBuildingActor, vehicle, role,
                 PlayerPawn, bJumpedFromBus, ComponentLocation, BuildingOffset,
                 last, emote, history, fault>>

Next ==
  \/ \E held \in BOOLEAN : Tick(held)
  \/ BuildExec \/ Build
  \/ \E b \in standing : BeginEditingBuildingActor(b)
  \/ \E c \in Classes : ServerFinishEditingBuildingActor(c)
  \/ \E e \in Emotes : Emote(e)
  \/ JumpFromAircraft \/ ExitVehicle
  \/ Leave \/ EndEdit
  \/ \E v \in Vehicles : Enter(v)
  \/ \E p \in Places : MoveTo(p)
  \/ \E c \in Classes, p \in Places : Aim(c, p)
  \/ \E p \in Pawns : MontageEnds(p)

(* The engine ticks every frame.                                           *)
Spec == Init /\ [][Next]_vars /\ WF_vars(\E held \in BOOLEAN : Tick(held))

----------------------------------------------------------------------------
(* Properties.                                                             *)

(* Holding the button builds a piece once: two buildings that Tick put up  *)
(* one after the other differ while both stand, whatever was edited, built *)
(* by ServerCreateBuilding or done elsewhere in between.                   *)
HeldButtonBuildsOnce ==
  \A i \in 1 .. Len(turbo) - 1 :
    {turbo[i], turbo[i + 1]} \subseteq standing
      => piece[turbo[i]] # piece[turbo[i + 1]]

(* An edited building stands where the one it replaces stood, provided one *)
(* Tick came between the two events of the edit: the place is cached.      *)
EditKeepsPlace ==
  [][\A b \in DOMAIN piece :
       b \in standing \ standing' /\ seen
         => piece'[Len(piece')].place = piece[b].place]_vars

(* The program can only forget a montage that the pawn before the jump     *)
(* plays: the player's own pawn plays the emote it remembers or nothing,   *)
(* and what was begun on the first pawn and is not stopped in time plays   *)
(* on there, since Tick stops emotes on the pawn the player has then.      *)
OnlyOldPawnPlaysOn ==
  \A p \in Pawns : playing[p] # None =>
    \/ p = PlayerPawn /\ bIsEmoting /\ CurrentEmote = playing[p]
    \/ p = "first" /\ PlayerPawn = "summoned"

(* A vehicle the player has left is an authority again, unless the game    *)
(* unseated the player by itself or ticked between the handler and the     *)
(* unseating.                                                              *)
VehiclesLeftHaveAuthority ==
  \A v \in Vehicles \ {vehicle} : role[v] => v \in loose

(* A player who walked away stops emoting, or walks back, or Tick keeps    *)
(* returning early because the button is held over the last building.      *)
EmotesEnd == bIsEmoting /\ Moved ~> ~bIsEmoting \/ ~Moved \/ early \/ ~Alive

=============================================================================
