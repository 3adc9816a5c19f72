--------------------------- MODULE PlayerTickProofs ---------------------------
(***************************************************************************)
(* Proofs for PlayerTick, for every engine version and any sets of places, *)
(* pieces, emotes and vehicles.                                            *)
(***************************************************************************)
EXTENDS PlayerTick, TLAPS

(* The pointers to buildings point to buildings.                           *)
PointersOK ==
  /\ standing \subseteq DOMAIN piece
  /\ EditBuildingActor # None => EditBuildingActor \in DOMAIN piece
  /\ BuildingActorLast # None => BuildingActorLast \in DOMAIN piece
  /\ \A i \in DOMAIN turbo : turbo[i] \in DOMAIN piece

(* BuildingActorLast and LastClass describe the last building of Tick.     *)
LastKnown ==
  turbo # <<>> =>
    /\ BuildingActorLast = turbo[Len(turbo)]
    /\ LastClass = piece[BuildingActorLast].class

(* The cached place is the one of the building being edited, once seen.    *)
PreviewKnown ==
  EditBuildingActor # None /\ seen =>
    ComponentLocation = piece[EditBuildingActor].place

(* Only the first pawn can play what is forgotten, and until the jump it   *)
(* is the player's.                                                        *)
EmoteKnown ==
  /\ OnlyOldPawnPlaysOn
  /\ ~bJumpedFromBus => PlayerPawn = "first"

(* Every autonomous vehicle is left loosely or the player sits in it and   *)
(* has not asked to leave.                                                 *)
RolesKnown ==
  /\ \A v \in Vehicles : role[v] => v \in loose \/ (v = vehicle /\ ~exiting)
  /\ exiting => vehicle # None

IInv == /\ TypeOK /\ PointersOK /\ LastKnown /\ PreviewKnown /\ EmoteKnown
        /\ RolesKnown /\ HeldButtonBuildsOnce

(* TypeOK by the parts that change together.                               *)
BuildTypes ==
  /\ aim \in Piece
  /\ piece \in Seq(Piece) /\ Len(piece) <= MaxPieces
  /\ standing \subseteq Pieces
  /\ EditBuildingActor \in Pieces \cup {None}
  /\ ComponentLocation \in Places \cup {None}
  /\ BuildingOffset \in BOOLEAN
  /\ BuildingActorLast \in Pieces \cup {None} /\ LastClass \in Classes \cup {None}
  /\ turbo \in Seq(Pieces)
  /\ seen \in BOOLEAN /\ early \in BOOLEAN

EmoteTypes ==
  /\ position \in Places
  /\ playing \in [Pawns -> Emotes \cup {None}]
  /\ PlayerPawn \in Pawns /\ bJumpedFromBus \in BOOLEAN
  /\ CurrentEmote \in Emotes \cup {None} /\ EmotePosition \in Places \cup {None}
  /\ bIsEmoting \in BOOLEAN

RoleTypes ==
  /\ vehicle \in Vehicles \cup {None}
  /\ role \in [Vehicles -> BOOLEAN]
  /\ exiting \in BOOLEAN
  /\ loose \subseteq Vehicles
  /\ fault \in {"none", "null vehicle"}

-----------------------------------------------------------------------------
(* Which steps touch the buildings and what the program knows of them ...  *)
LEMMA BuildFrame ==
  [Next]_vars =>
    \/ \E held \in BOOLEAN : Tick(held)
    \/ Build \/ EndEdit
    \/ \E b \in standing : BeginEditingBuildingActor(b)
    \/ \E c \in Classes : ServerFinishEditingBuildingActor(c)
    \/ \E c \in Classes, p \in Places : Aim(c, p)
    \/ BuildExec
    \/ UNCHANGED <<aim, piece, standing, EditBuildingActor, ComponentLocation,
                   BuildingOffset, BuildingActorLast, LastClass, turbo, seen, early>>
BY DEF Next, Emote, JumpFromAircraft, ExitVehicle, Leave, Enter, MoveTo,
       MontageEnds, vars, game, built, last, history

(* ... which the emote and the player's pawn ...                           *)
LEMMA EmoteFrame ==
  [Next]_vars =>
    \/ \E held \in BOOLEAN : Tick(held)
    \/ \E e \in Emotes : Emote(e)
    \/ JumpFromAircraft
    \/ \E p \in Places : MoveTo(p)
    \/ \E p \in Pawns : MontageEnds(p)
    \/ UNCHANGED <<position, playing, PlayerPawn, bJumpedFromBus,
                   CurrentEmote, EmotePosition, bIsEmoting>>
BY DEF Next, BuildExec, Build, BeginEditingBuildingActor,
       ServerFinishEditingBuildingActor, ExitVehicle, Leave, EndEdit, Enter,
       Aim, vars, game, emote

(* ... and which the vehicles.                                             *)
LEMMA RolesFrame ==
  [Next]_vars =>
    \/ \E held \in BOOLEAN : Tick(held)
    \/ ExitVehicle \/ Leave
    \/ \E v \in Vehicles : Enter(v)
    \/ UNCHANGED <<vehicle, role, exiting, loose, fault>>
BY DEF Next, BuildExec, Build, BeginEditingBuildingActor,
       ServerFinishEditingBuildingActor, Emote, JumpFromAircraft, EndEdit,
       MoveTo, Aim, MontageEnds, vars, game, history

(* What a Tick does to the buildings: nothing, or one more that differs    *)
(* from the last.                                                          *)
LEMMA TickBuilds ==
  ASSUME NEW held \in BOOLEAN, Tick(held)
  PROVE  \/ UNCHANGED <<piece, standing, BuildingActorLast, LastClass, turbo>>
         \/ BuildHere /\ FALSE \in SameAsLast
<1>1. CASE held /\ MouseBuild
  <2> PICK same \in SameAsLast :
        IF same THEN UNCHANGED <<built, last, turbo, emote, playing>>
        ELSE BuildHere /\ CheckEmote
    BY <1>1 DEF Tick
  <2>1. same \in BOOLEAN
    BY DEF SameAsLast
  <2>2. CASE same
    BY <2>2 DEF built, last
  <2>3. CASE ~same
    <3>1. same = FALSE
      BY <2>1, <2>3
    <3>2. FALSE \in SameAsLast
      BY <3>1
    <3>. QED
      BY <2>3, <3>2
  <2>. QED
    BY <2>2, <2>3
<1>2. CASE ~(held /\ MouseBuild)
  BY <1>2 DEF Tick, built, last
<1>. QED
  BY <1>1, <1>2

(* What a Tick does to the emote.                                          *)
LEMMA TickEmotes ==
  ASSUME NEW held \in BOOLEAN, Tick(held)
  PROVE  UNCHANGED <<CurrentEmote, EmotePosition, bIsEmoting, playing>> \/ CheckEmote
BY DEF Tick, emote

-----------------------------------------------------------------------------

(* The types of the buildings.                                             *)
LEMMA BuildTypesStep ==
  BuildTypes /\ PointersOK /\ [Next]_vars => BuildTypes'
<1> SUFFICES ASSUME BuildTypes, PointersOK, [Next]_vars PROVE BuildTypes'
  OBVIOUS
<1> USE PlayerTickAssumption DEF BuildTypes, PointersOK
<1>1. ASSUME NEW held \in BOOLEAN, Tick(held) PROVE BuildTypes'
  <2>1. ComponentLocation' \in Places \cup {None} /\ seen' \in BOOLEAN
    <3>1. RefreshPreview
      BY <1>1 DEF Tick
    <3>2. \A i \in DOMAIN piece : piece[i] \in Piece
      OBVIOUS
    <3>3. EditBuildingActor # None => piece[EditBuildingActor].place \in Places
      BY <3>2 DEF Piece
    <3>. QED
      BY <3>1, <3>3 DEF RefreshPreview
  <2>2. /\ piece' \in Seq(Piece) /\ Len(piece') <= MaxPieces /\ standing' \subseteq Pieces
        /\ BuildingActorLast' \in Pieces \cup {None} /\ LastClass' \in Classes \cup {None}
        /\ turbo' \in Seq(Pieces)
    <3>1. CASE BuildHere
      <4>1. Len(piece) + 1 \in Pieces /\ aim.class \in Classes
        BY <3>1 DEF BuildHere, Piece, Pieces
      <4>2. piece' \in Seq(Piece) /\ Len(piece') = Len(piece) + 1
        BY <3>1 DEF BuildHere, Placed
      <4>. QED
        BY <3>1, <4>1, <4>2 DEF BuildHere, Placed
    <3>. QED
      BY <1>1, <3>1, TickBuilds
  <2>3. early' \in BOOLEAN
    BY <1>1 DEF Tick, SameAsLast
  <2>4. UNCHANGED <<aim, EditBuildingActor, BuildingOffset>>
    BY <1>1 DEF Tick
  <2>. QED
    BY <2>1, <2>2, <2>3, <2>4
<1>2. CASE Build
  <2>1. Len(piece) + 1 \in Pieces
    BY <1>2 DEF Build, Pieces
  <2>2. piece' \in Seq(Piece) /\ Len(piece') = Len(piece) + 1
    BY <1>2 DEF Build, Placed
  <2>. QED
    BY <1>2, <2>1, <2>2 DEF Build, Placed, last, history
<1>3. ASSUME NEW c \in Classes, ServerFinishEditingBuildingActor(c) PROVE BuildTypes'
  <2> PICK place \in EditPlaces : Placed([class |-> c, place |-> place], {EditBuildingActor})
    BY <1>3 DEF ServerFinishEditingBuildingActor
  <2>1. place \in Places
    BY DEF EditPlaces
  <2>2. Len(piece) + 1 \in Pieces
    BY <1>3 DEF ServerFinishEditingBuildingActor, Pieces
  <2>3. [class |-> c, place |-> place] \in Piece
    BY <2>1 DEF Piece
  <2>4. piece' \in Seq(Piece) /\ Len(piece') = Len(piece) + 1
    BY <2>3 DEF Placed
  <2>. QED
    BY <1>3, <2>2, <2>4 DEF ServerFinishEditingBuildingActor, Placed, last, history
<1>4. CASE EndEdit \/ BuildExec
  BY <1>4 DEF EndEdit, BuildExec, game, built, last, history
<1>5. ASSUME NEW b \in standing, BeginEditingBuildingActor(b) PROVE BuildTypes'
  BY <1>5 DEF BeginEditingBuildingActor, built, last
<1>6. ASSUME NEW c \in Classes, NEW p \in Places, Aim(c, p) PROVE BuildTypes'
  BY <1>6 DEF Aim, built, last, history, Piece
<1>. QED
  BY <1>1, <1>2, <1>3, <1>4, <1>5, <1>6, BuildFrame

(* The types of the emote and the player's pawn.                           *)
LEMMA EmoteTypesStep ==
  EmoteTypes /\ [Next]_vars => EmoteTypes'
<1> SUFFICES ASSUME EmoteTypes, [Next]_vars PROVE EmoteTypes'
  OBVIOUS
<1> USE DEF EmoteTypes
<1>1. ASSUME NEW held \in BOOLEAN, Tick(held) PROVE EmoteTypes'
  <2>1. UNCHANGED <<position, PlayerPawn, bJumpedFromBus>>
    BY <1>1 DEF Tick
  <2>2. CASE CheckEmote
    BY <2>1, <2>2 DEF CheckEmote, emote
  <2>. QED
    BY <1>1, <2>1, <2>2, TickEmotes
<1>2. ASSUME NEW e \in Emotes, Emote(e) PROVE EmoteTypes'
  BY <1>2 DEF Emote
<1>3. CASE JumpFromAircraft
  BY <1>3 DEF JumpFromAircraft, emote
<1>4. ASSUME NEW p \in Places, MoveTo(p) PROVE EmoteTypes'
  BY <1>4 DEF MoveTo, emote
<1>5. ASSUME NEW p \in Pawns, MontageEnds(p) PROVE EmoteTypes'
  BY <1>5 DEF MontageEnds, emote
<1>. QED
  BY <1>1, <1>2, <1>3, <1>4, <1>5, EmoteFrame

(* The types of the vehicles.                                              *)
LEMMA RoleTypesStep ==
  RoleTypes /\ [Next]_vars => RoleTypes'
<1> SUFFICES ASSUME RoleTypes, [Next]_vars PROVE RoleTypes'
  OBVIOUS
<1> USE DEF RoleTypes
<1>1. ASSUME NEW held \in BOOLEAN, Tick(held) PROVE RoleTypes'
  BY <1>1 DEF Tick, SwapRoles
<1>2. CASE ExitVehicle
  BY <1>2 DEF ExitVehicle, game, RoleOnExit
<1>3. CASE Leave
  BY <1>3 DEF Leave
<1>4. ASSUME NEW v \in Vehicles, Enter(v) PROVE RoleTypes'
  BY <1>4 DEF Enter, history
<1>. QED
  BY <1>1, <1>2, <1>3, <1>4, RolesFrame

(* Every step keeps the types.                                             *)
LEMMA TypeStep ==
  TypeOK /\ PointersOK /\ [Next]_vars => TypeOK'
BY BuildTypesStep, EmoteTypesStep, RoleTypesStep DEF TypeOK, BuildTypes, EmoteTypes, RoleTypes

(* A building once put up keeps its class and place.                       *)
LEMMA PiecesStay ==
  ASSUME BuildTypes, [Next]_vars
  PROVE  /\ DOMAIN piece \subseteq DOMAIN piece'
         /\ \A i \in DOMAIN piece : piece'[i] = piece[i]
<1> USE DEF BuildTypes, Piece
<1>1. ASSUME NEW what \in Piece, piece' = Append(piece, what)
      PROVE  /\ DOMAIN piece \subseteq DOMAIN piece'
             /\ \A i \in DOMAIN piece : piece'[i] = piece[i]
  BY <1>1
<1>2. CASE piece' = piece
  BY <1>2
<1>3. piece' = piece \/ \E what \in Piece : piece' = Append(piece, what)
  <2>1. ASSUME NEW held \in BOOLEAN, Tick(held)
        PROVE  piece' = piece \/ \E what \in Piece : piece' = Append(piece, what)
    BY <2>1, TickBuilds DEF BuildHere, Placed
  <2>2. ASSUME NEW c \in Classes, ServerFinishEditingBuildingActor(c)
        PROVE  \E what \in Piece : piece' = Append(piece, what)
    BY <2>2, PlayerTickAssumption DEF ServerFinishEditingBuildingActor, Placed, EditPlaces
  <2>. QED
    BY <2>1, <2>2, BuildFrame DEF Build, Placed, EndEdit, BuildExec, game, built,
       BeginEditingBuildingActor, Aim
<1>. QED
  BY <1>1, <1>2, <1>3

(* What a Tick that builds leaves behind.                                  *)
LEMMA BuildHereFacts ==
  ASSUME BuildTypes, BuildHere
  PROVE  /\ Len(piece') = Len(piece) + 1 /\ piece'[Len(piece) + 1] = aim
         /\ Len(turbo') = Len(turbo) + 1 /\ turbo'[Len(turbo) + 1] = Len(piece) + 1
         /\ \A j \in DOMAIN turbo : turbo'[j] = turbo[j]
         /\ turbo' # <<>>
         /\ standing' = standing \cup {Len(piece) + 1}
BY DEF BuildTypes, BuildHere, Placed

(* No pointer leaves the buildings: they are never taken out.              *)
LEMMA PointersStep ==
  BuildTypes /\ PointersOK /\ [Next]_vars => PointersOK'
<1> SUFFICES ASSUME BuildTypes, PointersOK, [Next]_vars PROVE PointersOK'
  OBVIOUS
<1>0. DOMAIN piece \subseteq DOMAIN piece'
  BY PiecesStay
<1>1. ASSUME NEW held \in BOOLEAN, Tick(held) PROVE PointersOK'
  <2>1. UNCHANGED EditBuildingActor
    BY <1>1 DEF Tick
  <2>2. CASE BuildHere
    <3>1. Len(piece) + 1 \in DOMAIN piece'
      BY <2>2, BuildHereFacts DEF BuildTypes
    <3>2. BuildingActorLast' = Len(piece) + 1
      BY <2>2 DEF BuildHere
    <3>3. \A i \in DOMAIN turbo' : turbo'[i] \in DOMAIN piece'
      BY <1>0, <2>2, <3>1, BuildHereFacts DEF BuildTypes, PointersOK
    <3>. QED
      BY <1>0, <2>1, <2>2, <3>1, <3>2, <3>3, BuildHereFacts DEF PointersOK
  <2>. QED
    BY <1>0, <1>1, <2>1, <2>2, TickBuilds DEF PointersOK
<1>2. ASSUME NEW what \in Piece, NEW S, Placed(what, S),
             UNCHANGED <<BuildingActorLast, turbo>>,
             EditBuildingActor' \in {EditBuildingActor, None}
      PROVE  PointersOK'
  <2>1. Len(piece) + 1 \in DOMAIN piece'
    BY <1>2 DEF Placed, BuildTypes
  <2>. QED
    BY <1>0, <1>2, <2>1 DEF Placed, PointersOK
<1>3. CASE Build
  BY <1>2, <1>3 DEF Build, last, history, BuildTypes
<1>4. ASSUME NEW c \in Classes, ServerFinishEditingBuildingActor(c) PROVE PointersOK'
  <2> PICK place \in EditPlaces : Placed([class |-> c, place |-> place], {EditBuildingActor})
    BY <1>4 DEF ServerFinishEditingBuildingActor
  <2>1. [class |-> c, place |-> place] \in Piece
    BY DEF EditPlaces, BuildTypes, Piece
  <2>. QED
    BY <1>2, <1>4, <2>1 DEF ServerFinishEditingBuildingActor, last, history
<1>5. CASE EndEdit
  BY <1>5 DEF EndEdit, built, last, history, PointersOK
<1>6. CASE BuildExec
  BY <1>6 DEF BuildExec, game, built, last, history, PointersOK
<1>7. ASSUME NEW b \in standing, BeginEditingBuildingActor(b) PROVE PointersOK'
  BY <1>7 DEF BeginEditingBuildingActor, built, last, PointersOK
<1>8. ASSUME NEW c \in Classes, NEW p \in Places, Aim(c, p) PROVE PointersOK'
  BY <1>8 DEF Aim, built, last, history, PointersOK
<1>9. CASE UNCHANGED <<piece, standing, EditBuildingActor, BuildingActorLast, turbo>>
  BY <1>9 DEF PointersOK
<1>. QED
  BY <1>1, <1>3, <1>4, <1>5, <1>6, <1>7, <1>8, <1>9, BuildFrame

(* Only Tick writes the last building, with the history.                   *)
LEMMA LastStep ==
  BuildTypes /\ PointersOK /\ LastKnown /\ [Next]_vars => LastKnown'
<1> SUFFICES ASSUME BuildTypes, PointersOK, LastKnown, [Next]_vars PROVE LastKnown'
  OBVIOUS
<1>0. \A i \in DOMAIN piece : piece'[i] = piece[i]
  BY PiecesStay
<1>1. CASE BuildHere
  <2>1. /\ turbo'[Len(turbo')] = Len(piece) + 1
        /\ piece'[Len(piece) + 1] = aim
    BY <1>1, BuildHereFacts DEF BuildTypes
  <2>. QED
    BY <1>1, <2>1 DEF BuildHere, LastKnown
<1>2. CASE UNCHANGED <<BuildingActorLast, LastClass, turbo>>
  <2> SUFFICES ASSUME turbo # <<>>
               PROVE  /\ BuildingActorLast' = turbo'[Len(turbo')]
                      /\ LastClass' = piece'[BuildingActorLast'].class
    BY <1>2 DEF LastKnown
  <2>1. BuildingActorLast = turbo[Len(turbo)] /\ LastClass = piece[BuildingActorLast].class
    BY DEF LastKnown
  <2>2. Len(turbo) \in DOMAIN turbo
    BY DEF BuildTypes
  <2>3. BuildingActorLast \in DOMAIN piece
    BY <2>1, <2>2 DEF PointersOK
  <2>. QED
    BY <1>0, <1>2, <2>1, <2>3
<1>3. BuildHere \/ UNCHANGED <<BuildingActorLast, LastClass, turbo>>
  BY BuildFrame, TickBuilds DEF Build, EndEdit, BuildExec, last, history,
     BeginEditingBuildingActor, ServerFinishEditingBuildingActor, Aim
<1>. QED
  BY <1>1, <1>2, <1>3

(* A Tick refreshes the place, the begin of an edit makes it unseen.       *)
LEMMA PreviewStep ==
  BuildTypes /\ PointersOK /\ PreviewKnown /\ [Next]_vars => PreviewKnown'
<1> SUFFICES ASSUME BuildTypes, PointersOK, PreviewKnown, [Next]_vars PROVE PreviewKnown'
  OBVIOUS
<1>0. \A i \in DOMAIN piece : piece'[i] = piece[i]
  BY PiecesStay
<1>1. ASSUME NEW held \in BOOLEAN, Tick(held) PROVE PreviewKnown'
  BY <1>0, <1>1 DEF Tick, RefreshPreview, PreviewKnown, PointersOK
<1>2. ASSUME NEW b \in standing, BeginEditingBuildingActor(b) PROVE PreviewKnown'
  BY <1>2 DEF BeginEditingBuildingActor, PreviewKnown
<1>3. CASE EditBuildingActor' = None
  BY <1>3 DEF PreviewKnown
<1>4. CASE UNCHANGED <<EditBuildingActor, ComponentLocation, seen>>
  BY <1>0, <1>4 DEF PreviewKnown, PointersOK
<1>5. CASE Build
  BY <1>4, <1>5 DEF Build, history
<1>6. CASE EndEdit
  BY <1>3, <1>6 DEF EndEdit
<1>7. CASE BuildExec
  BY <1>4, <1>7 DEF BuildExec, game, history
<1>8. ASSUME NEW c \in Classes, ServerFinishEditingBuildingActor(c) PROVE PreviewKnown'
  BY <1>3, <1>8 DEF ServerFinishEditingBuildingActor
<1>9. ASSUME NEW c \in Classes, NEW p \in Places, Aim(c, p) PROVE PreviewKnown'
  BY <1>4, <1>9 DEF Aim, history
<1>. QED
  BY <1>1, <1>2, <1>4, <1>5, <1>6, <1>7, <1>8, <1>9, BuildFrame

(* What the program forgets it has stopped on the player's pawn.           *)
LEMMA EmoteStep ==
  EmoteTypes /\ EmoteKnown /\ [Next]_vars => EmoteKnown'
<1> SUFFICES ASSUME EmoteTypes, EmoteKnown, [Next]_vars PROVE EmoteKnown'
  OBVIOUS
<1> USE DEF EmoteTypes, EmoteKnown, OnlyOldPawnPlaysOn, Pawns
<1>1. ASSUME NEW held \in BOOLEAN, Tick(held) PROVE EmoteKnown'
  <2>1. UNCHANGED <<PlayerPawn, bJumpedFromBus>>
    BY <1>1 DEF Tick
  <2>2. CASE CheckEmote
    <3>1. CASE ~EmoteOver
      BY <2>1, <2>2, <3>1 DEF CheckEmote, emote
    <3>2. CASE EmoteOver
      <4>1. playing'[PlayerPawn] = None
        BY <2>2, <3>2 DEF CheckEmote, MontageStopped
      <4>2. \A p \in Pawns \ {PlayerPawn} : playing'[p] = playing[p]
        BY <2>2, <3>2 DEF CheckEmote
      <4>. QED
        BY <2>1, <4>1, <4>2
    <3>. QED
      BY <3>1, <3>2
  <2>. QED
    BY <1>1, <2>1, <2>2, TickEmotes
<1>2. ASSUME NEW e \in Emotes, Emote(e) PROVE EmoteKnown'
  BY <1>2 DEF Emote
<1>3. CASE JumpFromAircraft
  BY <1>3 DEF JumpFromAircraft, emote
<1>4. ASSUME NEW p \in Places, MoveTo(p) PROVE EmoteKnown'
  BY <1>4 DEF MoveTo, emote
<1>5. ASSUME NEW p \in Pawns, MontageEnds(p) PROVE EmoteKnown'
  BY <1>5 DEF MontageEnds, emote
<1>. QED
  BY <1>1, <1>2, <1>3, <1>4, <1>5, EmoteFrame

(* ExitVehicle is the only way out that leaves an authority behind.        *)
LEMMA RolesStep ==
  RoleTypes /\ RolesKnown /\ [Next]_vars => RolesKnown'
<1> SUFFICES ASSUME RoleTypes, RolesKnown, [Next]_vars PROVE RolesKnown'
  OBVIOUS
<1> USE PlayerTickAssumption DEF RoleTypes, RolesKnown
<1>1. ASSUME NEW held \in BOOLEAN, Tick(held) PROVE RolesKnown'
  <2>1. UNCHANGED <<vehicle, exiting>> /\ SwapRoles
    BY <1>1 DEF Tick
  <2>. QED
    BY <2>1 DEF SwapRoles
<1>2. CASE ExitVehicle
  <2>1. CASE vehicle = None
    BY <1>2, <2>1 DEF ExitVehicle, game
  <2>2. CASE vehicle # None
    <3>1. /\ UNCHANGED <<vehicle, loose>> /\ exiting'
          /\ role' = [role EXCEPT ![vehicle] = FALSE]
      BY <1>2, <2>2 DEF ExitVehicle, RoleOnExit, game
    <3>. QED
      BY <2>2, <3>1
  <2>. QED
    BY <2>1, <2>2
<1>3. CASE Leave
  BY <1>3 DEF Leave
<1>4. ASSUME NEW v \in Vehicles, Enter(v) PROVE RolesKnown'
  BY <1>4 DEF Enter, history
<1>5. CASE UNCHANGED <<vehicle, role, exiting, loose>>
  BY <1>5
<1>. QED
  BY <1>1, <1>2, <1>3, <1>4, <1>5, RolesFrame

(* Tick builds only what differs from the last building it made.           *)
LEMMA HeldStep ==
  BuildTypes /\ PointersOK /\ LastKnown /\ HeldButtonBuildsOnce /\ [Next]_vars
    => HeldButtonBuildsOnce'
<1> SUFFICES ASSUME BuildTypes, PointersOK, LastKnown, HeldButtonBuildsOnce, [Next]_vars,
                    NEW i \in 1 .. Len(turbo') - 1,
                    turbo'[i] \in standing', turbo'[i + 1] \in standing'
             PROVE  piece'[turbo'[i]] # piece'[turbo'[i + 1]]
  BY DEF HeldButtonBuildsOnce
<1>0. \A j \in DOMAIN piece : piece'[j] = piece[j]
  BY PiecesStay
<1>1. ASSUME i \in 1 .. Len(turbo) - 1,
             turbo'[i] = turbo[i], turbo'[i + 1] = turbo[i + 1],
             standing' \subseteq standing \cup {Len(piece) + 1}
      PROVE  piece'[turbo'[i]] # piece'[turbo'[i + 1]]
  <2>1. turbo[i] \in DOMAIN piece /\ turbo[i + 1] \in DOMAIN piece
    BY <1>1 DEF PointersOK, BuildTypes
  <2>2. turbo[i] \in standing /\ turbo[i + 1] \in standing
    BY <1>1, <2>1 DEF BuildTypes
  <2>. QED
    BY <1>0, <1>1, <2>1, <2>2 DEF HeldButtonBuildsOnce
<1>2. CASE BuildHere /\ FALSE \in SameAsLast
  <2>1. CASE i < Len(turbo)
    BY <1>1, <1>2, <2>1, BuildHereFacts DEF BuildTypes
  <2>2. CASE i = Len(turbo)
    <3>1. turbo # <<>> /\ i \in DOMAIN turbo
      BY <2>2 DEF BuildTypes
    <3>2. turbo'[i] = BuildingActorLast /\ turbo'[i + 1] = Len(piece) + 1
      BY <1>2, <2>2, <3>1, BuildHereFacts DEF LastKnown
    <3>3. BuildingActorLast \in DOMAIN piece
      BY <2>2, <3>1 DEF LastKnown, PointersOK
    <3>4. BuildingActorLast \in standing
      BY <1>2, <3>2, <3>3, BuildHereFacts DEF BuildTypes
    <3>5. piece[BuildingActorLast] \in Piece
      BY <3>3 DEF BuildTypes
    <3>6. LastClass = piece[BuildingActorLast].class
      BY <3>1 DEF LastKnown
    <3>7. BuildingActorLast # None /\ (LastClass = None => aim.class # LastClass)
      BY <3>3, PlayerTickAssumption DEF BuildTypes, Pieces, Piece
    <3>8. ~(piece[BuildingActorLast].place = aim.place /\ LastClass = aim.class)
      BY <1>2, <3>4, <3>7 DEF SameAsLast
    <3>9. piece[BuildingActorLast] # aim
      BY <3>6, <3>8
    <3>. QED
      BY <1>0, <1>2, <3>2, <3>3, <3>9, BuildHereFacts
  <2>. QED
    BY <1>2, <2>1, <2>2, BuildHereFacts DEF BuildTypes
<1>3. CASE UNCHANGED turbo /\ standing' \subseteq standing \cup {Len(piece) + 1}
  BY <1>1, <1>3
<1>4. \/ BuildHere /\ FALSE \in SameAsLast
      \/ UNCHANGED turbo /\ standing' \subseteq standing \cup {Len(piece) + 1}
  BY BuildFrame, TickBuilds DEF Build, Placed, EndEdit, BuildExec, game, built, history,
     BeginEditingBuildingActor, ServerFinishEditingBuildingActor, Aim
<1>. QED
  BY <1>2, <1>3, <1>4

(* The invariant holds at first ...                                        *)
LEMMA InitInv == Init => IInv
<1> SUFFICES ASSUME Init PROVE IInv
  OBVIOUS
<1> USE PlayerTickAssumption DEF Init
<1>1. TypeOK
  <2>1. BuildTypes
    <3>1. piece \in Seq(Piece) /\ Len(piece) <= MaxPieces
      OBVIOUS
    <3>2. turbo \in Seq(Pieces)
      OBVIOUS
    <3>. QED
      BY <3>1, <3>2, Zenon DEF BuildTypes
  <2>2. EmoteTypes
    BY DEF EmoteTypes, Pawns
  <2>3. RoleTypes
    BY DEF RoleTypes
  <2>. QED
    BY <2>1, <2>2, <2>3 DEF TypeOK, BuildTypes, EmoteTypes, RoleTypes
<1>2. PointersOK /\ LastKnown /\ PreviewKnown /\ EmoteKnown /\ RolesKnown
  BY DEF PointersOK, LastKnown, PreviewKnown, EmoteKnown, OnlyOldPawnPlaysOn, RolesKnown,
         Pawns
<1>3. HeldButtonBuildsOnce
  BY DEF HeldButtonBuildsOnce
<1>. QED
  BY <1>1, <1>2, <1>3 DEF IInv

(* ... and always.                                                         *)
LEMMA Invariance == Spec => []IInv
<1>1. TypeOK => BuildTypes /\ EmoteTypes /\ RoleTypes
  BY DEF TypeOK, BuildTypes, EmoteTypes, RoleTypes
<1>2. IInv /\ [Next]_vars => IInv'
  BY <1>1, TypeStep, PointersStep, LastStep, PreviewStep, EmoteStep, RolesStep,
     HeldStep DEF IInv
<1>. QED
  BY InitInv, <1>2, PTL DEF Spec

(* The state stays in its types: what Tick caches are places, buildings    *)
(* and emotes there are.                                                   *)
THEOREM TypeCorrect == Spec => []TypeOK
<1>1. IInv => TypeOK
  BY DEF IInv
<1>. QED
  BY Invariance, <1>1, PTL

(* Holding the mouse button never puts the same piece twice in a row in    *)
(* one place while both stand: Tick compares with the last building.       *)
THEOREM HeldButton == Spec => []HeldButtonBuildsOnce
<1>1. IInv => HeldButtonBuildsOnce
  BY DEF IInv
<1>. QED
  BY Invariance, <1>1, PTL

(* The player's pawn plays only the emote the program remembers, whatever  *)
(* jump or other emote came between; only the pawn the jump replaced may   *)
(* play on, which is what Tick cannot stop.                                *)
THEOREM OnlyTheOldPawnPlaysOn == Spec => []OnlyOldPawnPlaysOn
<1>1. IInv => OnlyOldPawnPlaysOn
  BY DEF IInv, EmoteKnown
<1>. QED
  BY Invariance, <1>1, PTL

(* A vehicle the player left after asking, with no Tick in between, is an  *)
(* authority again.                                                        *)
THEOREM LeftVehiclesAreAuthorities == Spec => []VehiclesLeftHaveAuthority
<1>1. IInv => VehiclesLeftHaveAuthority
  BY DEF IInv, RolesKnown, VehiclesLeftHaveAuthority
<1>. QED
  BY Invariance, <1>1, PTL

(* An edit that saw a Tick puts the new building where the old one stood.  *)
THEOREM EditsKeepTheirPlace == Spec => EditKeepsPlace
<1> DEFINE Step == \A b \in DOMAIN piece :
                     b \in standing \ standing' /\ seen
                       => piece'[Len(piece')].place = piece[b].place
<1>1. IInv /\ [Next]_vars => [Step]_vars
  <2> SUFFICES ASSUME IInv, [Next]_vars, NEW b \in DOMAIN piece,
                      b \in standing, b \notin standing', seen
               PROVE  piece'[Len(piece')].place = piece[b].place
    OBVIOUS
  <2>0. BuildTypes
    BY DEF IInv, TypeOK, BuildTypes
  <2>1. ASSUME NEW c \in Classes, ServerFinishEditingBuildingActor(c)
        PROVE  piece'[Len(piece')].place = piece[b].place
    <3> PICK p \in EditPlaces : Placed([class |-> c, place |-> p], {EditBuildingActor})
      BY <2>1 DEF ServerFinishEditingBuildingActor
    <3>1. b = EditBuildingActor
      BY DEF Placed
    <3>2. ComponentLocation = piece[b].place
      BY <2>1, <3>1 DEF ServerFinishEditingBuildingActor, IInv, PreviewKnown
    <3>3. piece[b] \in Piece
      BY <2>0 DEF BuildTypes
    <3>4. p = piece[b].place
      BY <3>2, <3>3, PlayerTickAssumption DEF EditPlaces, Piece
    <3>5. piece'[Len(piece')] = [class |-> c, place |-> p]
      BY <2>0 DEF Placed, BuildTypes
    <3>. QED
      BY <3>4, <3>5
  <2>2. \E c \in Classes : ServerFinishEditingBuildingActor(c)
    <3>1. ASSUME NEW held \in BOOLEAN, Tick(held) PROVE standing \subseteq standing'
      BY <3>1, TickBuilds DEF BuildHere, Placed
    <3>. QED
      BY <3>1, BuildFrame DEF Build, Placed, EndEdit, BuildExec, game, built,
         BeginEditingBuildingActor, Aim
  <2>. QED
    BY <2>1, <2>2
<1>. QED
  BY Invariance, <1>1, PTL DEF Spec, EditKeepsPlace

=============================================================================
