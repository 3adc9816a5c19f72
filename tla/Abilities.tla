------------------------------ MODULE Abilities ------------------------------
(***************************************************************************)
(* GrantAbility lends the one default gameplay effect to each ability in   *)
(* turn: it writes the class into the effect's first granted ability,      *)
(* makes the effect last for ever and applies it to the player.  The       *)
(* thread of GrantDefaultAbilities and the threads of the user's scripts   *)
(* do this with no lock.                                                   *)
(***************************************************************************)
EXTENDS Naturals, Sequences, FiniteSets

CONSTANTS
  Abilities,       \* the ability classes that are told apart
  Original,        \* the ability the effect grants before anybody writes to it
  NoClass,         \* a class that GetObjectFromName did not find
  DefaultRequests, \* what GrantDefaultAbilities asks for, in order
  Scripts,         \* the script threads
  ScriptAbilities, \* the classes scripts pass to grantAbility
  EffectExists,    \* one of the lookups of GrantAbility finds the effect
  MaxRequests      \* bound: grantAbility calls of each script

ASSUME AbilitiesAssumption ==
  /\ Original \in Abilities /\ NoClass \notin Abilities
  /\ DefaultRequests \in Seq(Abilities \cup {NoClass})
  /\ ScriptAbilities \subseteq Abilities
  /\ EffectExists \in BOOLEAN /\ MaxRequests \in Nat

Worker  == "thread_abilities"
Threads == Scripts \cup {Worker}

VARIABLES
  PawnComponent,   \* the engine has given the pawn its component
  AbilitySystemComponent, \* Globals::AbilitySystemComponent is set
  GrantedAbility,  \* GrantedAbilities[0].Ability of the default effect
  DurationPolicy,  \* "HasDuration" until a GrantAbility makes it "Infinite"
  at,              \* where each thread is in GrantAbility
  class,           \* the AbilityClass each thread was called with
  calls,           \* calls of GrantAbility each thread has begun
  granted,         \* what the player was given: [ability, duration] (history)
  overlapped,      \* a thread wrote to the effect another was about to apply (history)
  early,           \* the component was read off the pawn before it had one (history)
  fault            \* a null object was used

component == <<PawnComponent, AbilitySystemComponent, early>>
vars == <<component, GrantedAbility, DurationPolicy, at, class, calls, granted,
          overlapped, fault>>

Policies == {"HasDuration", "Infinite"}

TypeOK ==
  /\ PawnComponent \in BOOLEAN /\ AbilitySystemComponent \in BOOLEAN /\ early \in BOOLEAN
  /\ GrantedAbility \in Abilities /\ DurationPolicy \in Policies
  /\ at \in [Threads -> {"start", "idle", "overwrite", "endure", "apply"}]
  /\ class \in [Threads -> Abilities \cup {NoClass}]
  /\ calls \in [Threads -> Nat]
  /\ granted \subseteq [ability : Abilities, duration : Policies]
  /\ overlapped \in BOOLEAN /\ fault \in BOOLEAN

Init ==
  /\ PawnComponent \in BOOLEAN /\ AbilitySystemComponent = FALSE /\ early = FALSE
  /\ GrantedAbility = Original /\ DurationPolicy = "HasDuration"
  /\ at = [t \in Threads |-> IF t = Worker THEN "start" ELSE "idle"]
  /\ class = [t \in Threads |-> NoClass]
  /\ calls = [t \in Threads |-> 0]
  /\ granted = {} /\ overlapped = FALSE /\ fault = FALSE

----------------------------------------------------------------------------
PawnGetsComponent ==
  /\ ~fault /\ ~PawnComponent
  /\ PawnComponent' = TRUE
  /\ UNCHANGED <<AbilitySystemComponent, early, GrantedAbility, DurationPolicy, at,
                 class, calls, granted, overlapped, fault>>

(* GrantDefaultAbilities first reads the component off the pawn, whatever  *)
(* it finds there.                                                         *)
ComponentAtStart_Skipped == AbilitySystemComponent
ComponentAtStart         == PawnComponent

StartDefaults ==
  /\ ~fault /\ at[Worker] = "start"
  /\ AbilitySystemComponent' = ComponentAtStart
  /\ early' = ~PawnComponent
  /\ at' = [at EXCEPT ![Worker] = "idle"]
  /\ UNCHANGED <<PawnComponent, GrantedAbility, DurationPolicy, class, calls, granted,
                 overlapped, fault>>

(* The calls: the worker's in order, a script's with an object it has.     *)
Calls(t, c) ==
  IF t = Worker THEN calls[t] < Len(DefaultRequests) /\ c = DefaultRequests[calls[t] + 1]
  ELSE calls[t] < MaxRequests /\ c \in ScriptAbilities

(* The lookup of the default effect; the first use of one that was not     *)
(* found ends the game.                                                    *)
CallGrantAbility(t, c) ==
  /\ ~fault /\ at[t] = "idle" /\ Calls(t, c)
  /\ class' = [class EXCEPT ![t] = c]
  /\ calls' = [calls EXCEPT ![t] = @ + 1]
  /\ at' = [at EXCEPT ![t] = "overwrite"]
  /\ fault' = ~EffectExists
  /\ UNCHANGED <<component, GrantedAbility, DurationPolicy,
                 granted, overlapped>>

(* A class that was not found leaves the ability written before.           *)
WrittenAbility_Kept(c) == GrantedAbility
WrittenAbility(c)      == IF c # NoClass THEN c ELSE GrantedAbility

Overwrite(t) ==
  /\ ~fault /\ at[t] = "overwrite"
  /\ GrantedAbility' = WrittenAbility(class[t])
  /\ overlapped' = (overlapped \/ \E u \in Threads \ {t} : at[u] \in {"endure", "apply"})
  /\ at' = [at EXCEPT ![t] = "endure"]
  /\ UNCHANGED <<component, DurationPolicy, class, calls, granted,
                 fault>>

WrittenPolicy_Kept == DurationPolicy
WrittenPolicy      == "Infinite"

MakeInfinite(t) ==
  /\ ~fault /\ at[t] = "endure"
  /\ DurationPolicy' = WrittenPolicy
  /\ at' = [at EXCEPT ![t] = "apply"]
  /\ UNCHANGED <<component, GrantedAbility, class, calls, granted,
                 overlapped, fault>>

(* The engine grants what the effect says when it is applied.              *)
ApplyEffect(t) ==
  /\ ~fault /\ at[t] = "apply"
  /\ IF AbilitySystemComponent
     THEN /\ granted' = granted \cup {[ability |-> GrantedAbility, duration |-> DurationPolicy]}
          /\ at' = [at EXCEPT ![t] = "idle"]
          /\ UNCHANGED fault
     ELSE fault' = TRUE /\ UNCHANGED <<granted, at>>
  /\ UNCHANGED <<component, GrantedAbility, DurationPolicy, class,
                 calls, overlapped>>

Next ==
  \/ PawnGetsComponent \/ StartDefaults
  \/ \E t \in Threads :
       \/ \E c \in Abilities \cup {NoClass} : CallGrantAbility(t, c)
       \/ Overwrite(t) \/ MakeInfinite(t) \/ ApplyEffect(t)

Spec == Init /\ [][Next]_vars

----------------------------------------------------------------------------
(* Properties.                                                             *)

Given        == {g.ability : g \in granted}
DefaultsDone == at[Worker] = "idle" /\ calls[Worker] = Len(DefaultRequests)
Found        == {DefaultRequests[i] : i \in DOMAIN DefaultRequests} \ {NoClass}

(* When thread_abilities is joined every default ability that was found is *)
(* granted, unless a script wrote to the effect in the middle of a grant.  *)
DefaultsGranted == DefaultsDone /\ ~overlapped => Found \subseteq Given

(* Nothing is granted for a while only.                                    *)
NothingForAWhile == \A g \in granted : g.duration = "Infinite"

(* If the first default ability is found, the player is never given what   *)
(* the effect granted before: a class that is not found later only grants  *)
(* again what was granted last.                                            *)
OriginalNotGiven ==
  /\ DefaultRequests # <<>> /\ DefaultRequests[1] # NoClass
  /\ Original \notin Found \cup ScriptAbilities
  => Original \notin Given

(* A null component is used only if a script did not wait for the default  *)
(* abilities, or if these were asked for before the pawn had its own.      *)
FaultNeedsHaste ==
  fault => ~EffectExists
           \/ (~AbilitySystemComponent
               /\ (early \/ (at[Worker] = "start" /\ \E s \in Scripts : at[s] = "apply")))

(* GrantAbility's comment: "overwrite current gameplay ability with the    *)
(* one we want to activate" - so the one wanted is the one activated.      *)
WantedIsActivated == DefaultsDone => Found \subseteq Given

=============================================================================
