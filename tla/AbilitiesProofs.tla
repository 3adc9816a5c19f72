-------------------------- MODULE AbilitiesProofs --------------------------
(***************************************************************************)
(* Proofs about Abilities, for every list of default abilities and every   *)
(* set of script threads.                                                  *)
(***************************************************************************)
EXTENDS Abilities, TLAPS

Class == Abilities \cup {NoClass}

(* A thread that has written its class finds it in the effect until it has *)
(* applied it, unless another thread wrote in between.                     *)
EffectHeld ==
  \A t \in Threads :
    ~overlapped /\ at[t] \in {"endure", "apply"} /\ class[t] # NoClass
      => GrantedAbility = class[t]

(* The effect is applied only once it lasts for ever.                      *)
InfiniteFirst == \A t \in Threads : at[t] = "apply" => DurationPolicy = "Infinite"

(* The worker is at the request it counted last, and those before it that  *)
(* were found are granted.                                                 *)
Busy == at[Worker] \notin {"start", "idle"}

WorkerInOrder ==
  /\ calls[Worker] <= Len(DefaultRequests)
  /\ at[Worker] = "start" => calls[Worker] = 0
  /\ Busy => calls[Worker] > 0 /\ class[Worker] = DefaultRequests[calls[Worker]]
  /\ ~overlapped =>
       \A i \in 1 .. calls[Worker] :
         (Busy => i < calls[Worker]) /\ DefaultRequests[i] # NoClass
           => DefaultRequests[i] \in Given

(* Once the worker has started the component is there, or it looked for it *)
(* before the pawn had one.                                                *)
ComponentFirst ==
  at[Worker] # "start" => AbilitySystemComponent \/ early

(* What the effect granted at first is gone before anybody applies it.     *)
OriginalReplaced ==
  /\ DefaultRequests # <<>> /\ DefaultRequests[1] # NoClass
  /\ Original \notin Found \cup ScriptAbilities
  => /\ (\E t \in Threads : at[t] \in {"endure", "apply"}) => GrantedAbility # Original
     /\ calls[Worker] > 1 \/ (calls[Worker] = 1 /\ at[Worker] = "idle")
          => GrantedAbility # Original
     /\ \A t \in Threads : at[t] = "overwrite" =>
          /\ class[t] # Original
          /\ class[t] = NoClass => t = Worker /\ calls[Worker] > 1
     /\ Original \notin Given

IInv ==
  /\ TypeOK /\ EffectHeld /\ InfiniteFirst /\ WorkerInOrder
  /\ ComponentFirst /\ NothingForAWhile /\ FaultNeedsHaste /\ OriginalReplaced

(* The worker has not started and no script runs.                          *)
LEMMA InitIInv == Init => IInv
<1> SUFFICES ASSUME Init PROVE IInv
  OBVIOUS
<1> USE AbilitiesAssumption DEF Init
<1>1. TypeOK
  BY DEF TypeOK, Policies
<1>2. EffectHeld /\ InfiniteFirst /\ ComponentFirst /\ NothingForAWhile /\ FaultNeedsHaste
  BY DEF EffectHeld, InfiniteFirst, ComponentFirst, NothingForAWhile, FaultNeedsHaste,
     Worker, Threads
<1>3. WorkerInOrder
  BY DEF WorkerInOrder, Busy, Worker, Threads
<1>4. OriginalReplaced
  BY DEF OriginalReplaced, Given, Worker, Threads
<1> QED
  BY <1>1, <1>2, <1>3, <1>4 DEF IInv

(* Types are kept: only found classes are written to the effect.           *)
LEMMA StepType == IInv /\ [Next]_vars => TypeOK'
<1> SUFFICES ASSUME TypeOK, [Next]_vars
             PROVE  TypeOK'
  BY DEF IInv
<1> USE AbilitiesAssumption DEF TypeOK, Policies, component
<1>0. CASE PawnGetsComponent
  BY <1>0 DEF PawnGetsComponent
<1>1. CASE StartDefaults
  BY <1>1 DEF StartDefaults, ComponentAtStart
<1>2. ASSUME NEW t \in Threads, NEW c \in Class, CallGrantAbility(t, c)
      PROVE  TypeOK'
  BY <1>2 DEF CallGrantAbility, Calls, Class
<1>3. ASSUME NEW t \in Threads, Overwrite(t)
      PROVE  TypeOK'
  BY <1>3 DEF Overwrite, WrittenAbility
<1>4. ASSUME NEW t \in Threads, MakeInfinite(t)
      PROVE  TypeOK'
  BY <1>4 DEF MakeInfinite, WrittenPolicy
<1>5. ASSUME NEW t \in Threads, ApplyEffect(t)
      PROVE  TypeOK'
  <2>1. granted' \subseteq [ability : Abilities, duration : Policies]
    BY <1>5 DEF ApplyEffect
  <2>2. /\ at' \in [Threads -> {"start", "idle", "overwrite", "endure", "apply"}]
        /\ fault' \in BOOLEAN
    BY <1>5 DEF ApplyEffect
  <2> QED
    BY <1>5, <2>1, <2>2 DEF ApplyEffect
<1>6. CASE UNCHANGED vars
  BY <1>6 DEF vars
<1> QED
  BY <1>0, <1>1, <1>2, <1>3, <1>4, <1>5, <1>6 DEF Next, Class

(* A write between the write and the application of another is recorded.   *)
LEMMA StepHeld == IInv /\ [Next]_vars => EffectHeld'
<1> SUFFICES ASSUME TypeOK, EffectHeld, [Next]_vars
             PROVE  EffectHeld'
  BY DEF IInv
<1> USE AbilitiesAssumption DEF TypeOK, EffectHeld, component
<1>0. CASE PawnGetsComponent
  BY <1>0 DEF PawnGetsComponent
<1>1. CASE StartDefaults
  BY <1>1 DEF StartDefaults, ComponentAtStart
<1>2. ASSUME NEW t \in Threads, NEW c \in Class, CallGrantAbility(t, c)
      PROVE  EffectHeld'
  BY <1>2 DEF CallGrantAbility, Calls, Class
<1>3. ASSUME NEW t \in Threads, Overwrite(t)
      PROVE  EffectHeld'
  BY <1>3 DEF Overwrite, WrittenAbility
<1>4. ASSUME NEW t \in Threads, MakeInfinite(t)
      PROVE  EffectHeld'
  BY <1>4 DEF MakeInfinite, WrittenPolicy
<1>5. ASSUME NEW t \in Threads, ApplyEffect(t)
      PROVE  EffectHeld'
  BY <1>5 DEF ApplyEffect
<1>6. CASE UNCHANGED vars
  BY <1>6 DEF vars
<1> QED
  BY <1>0, <1>1, <1>2, <1>3, <1>4, <1>5, <1>6 DEF Next, Class

(* Nothing makes the effect end again.                                     *)
LEMMA StepInfinite == IInv /\ [Next]_vars => InfiniteFirst'
<1> SUFFICES ASSUME TypeOK, InfiniteFirst, [Next]_vars
             PROVE  InfiniteFirst'
  BY DEF IInv
<1> USE AbilitiesAssumption DEF TypeOK, InfiniteFirst, component
<1>0. CASE PawnGetsComponent
  BY <1>0 DEF PawnGetsComponent
<1>1. CASE StartDefaults
  BY <1>1 DEF StartDefaults, ComponentAtStart
<1>2. ASSUME NEW t \in Threads, NEW c \in Class, CallGrantAbility(t, c)
      PROVE  InfiniteFirst'
  BY <1>2 DEF CallGrantAbility, Calls, Class
<1>3. ASSUME NEW t \in Threads, Overwrite(t)
      PROVE  InfiniteFirst'
  BY <1>3 DEF Overwrite, WrittenAbility
<1>4. ASSUME NEW t \in Threads, MakeInfinite(t)
      PROVE  InfiniteFirst'
  BY <1>4 DEF MakeInfinite, WrittenPolicy
<1>5. ASSUME NEW t \in Threads, ApplyEffect(t)
      PROVE  InfiniteFirst'
  BY <1>5 DEF ApplyEffect
<1>6. CASE UNCHANGED vars
  BY <1>6 DEF vars
<1> QED
  BY <1>0, <1>1, <1>2, <1>3, <1>4, <1>5, <1>6 DEF Next, Class

(* The worker grants its list in order.                                    *)
LEMMA StepOrder == IInv /\ [Next]_vars => WorkerInOrder'
<1> SUFFICES ASSUME TypeOK, EffectHeld, WorkerInOrder, [Next]_vars
             PROVE  WorkerInOrder'
  BY DEF IInv
<1> USE AbilitiesAssumption DEF TypeOK, EffectHeld, WorkerInOrder, Busy, Given,
       Threads, component
<1>0. CASE PawnGetsComponent
  BY <1>0 DEF PawnGetsComponent
<1>1. CASE StartDefaults
  BY <1>1 DEF StartDefaults, ComponentAtStart
<1>2. ASSUME NEW t \in Threads, NEW c \in Class, CallGrantAbility(t, c)
      PROVE  WorkerInOrder'
  BY <1>2 DEF CallGrantAbility, Calls, Class
<1>3. ASSUME NEW t \in Threads, Overwrite(t)
      PROVE  WorkerInOrder'
  BY <1>3 DEF Overwrite, WrittenAbility
<1>4. ASSUME NEW t \in Threads, MakeInfinite(t)
      PROVE  WorkerInOrder'
  BY <1>4 DEF MakeInfinite, WrittenPolicy
<1>5. ASSUME NEW t \in Threads, ApplyEffect(t)
      PROVE  WorkerInOrder'
  <2>1. CASE ~AbilitySystemComponent
    BY <1>5, <2>1 DEF ApplyEffect
  <2>2. CASE AbilitySystemComponent
    <3> DEFINE new == [ability |-> GrantedAbility, duration |-> DurationPolicy]
    <3>1. /\ calls' = calls /\ class' = class /\ overlapped' = overlapped
          /\ granted \subseteq granted' /\ Given \subseteq Given'
          /\ at' = [at EXCEPT ![t] = "idle"] /\ at[t] = "apply"
      BY <1>5, <2>2 DEF ApplyEffect
    <3>2. GrantedAbility \in Given'
      <4>1. new \in granted' /\ new.ability = GrantedAbility
        BY <1>5, <2>2 DEF ApplyEffect
      <4> QED
        BY <4>1
    <3> HIDE DEF new
    <3>3. CASE t = Worker
      <4>1. ~Busy' /\ Busy /\ calls[Worker] \in Nat /\ at'[Worker] = "idle"
        BY <3>1, <3>3
      <4>2. ~overlapped /\ DefaultRequests[calls[Worker]] # NoClass =>
              DefaultRequests[calls[Worker]] \in Given'
        BY <3>1, <3>2, <3>3, <4>1
      <4>3. ASSUME ~overlapped, NEW i \in 1 .. calls[Worker], DefaultRequests[i] # NoClass
            PROVE  DefaultRequests[i] \in Given'
        <5>1. CASE i = calls[Worker]
          BY <4>2, <4>3, <5>1
        <5>2. CASE i < calls[Worker]
          BY <3>1, <4>1, <4>3, <5>2
        <5> QED
          BY <4>1, <5>1, <5>2
      <4> QED
        BY <3>1, <4>1, <4>3
    <3>4. CASE t # Worker
      BY <3>1, <3>4
    <3> QED
      BY <3>3, <3>4
  <2> QED
    BY <2>1, <2>2
<1>6. CASE UNCHANGED vars
  BY <1>6 DEF vars
<1> QED
  BY <1>0, <1>1, <1>2, <1>3, <1>4, <1>5, <1>6 DEF Next, Class

(* The component stays set.                                                *)
LEMMA StepComponent == IInv /\ [Next]_vars => ComponentFirst'
<1> SUFFICES ASSUME TypeOK, ComponentFirst, [Next]_vars
             PROVE  ComponentFirst'
  BY DEF IInv
<1> USE AbilitiesAssumption DEF TypeOK, ComponentFirst, Threads, component
<1>0. CASE PawnGetsComponent
  BY <1>0 DEF PawnGetsComponent
<1>1. CASE StartDefaults
  BY <1>1 DEF StartDefaults, ComponentAtStart
<1>2. ASSUME NEW t \in Threads, NEW c \in Class, CallGrantAbility(t, c)
      PROVE  ComponentFirst'
  BY <1>2 DEF CallGrantAbility, Calls, Class
<1>3. ASSUME NEW t \in Threads, Overwrite(t)
      PROVE  ComponentFirst'
  BY <1>3 DEF Overwrite, WrittenAbility
<1>4. ASSUME NEW t \in Threads, MakeInfinite(t)
      PROVE  ComponentFirst'
  BY <1>4 DEF MakeInfinite, WrittenPolicy
<1>5. ASSUME NEW t \in Threads, ApplyEffect(t)
      PROVE  ComponentFirst'
  BY <1>5 DEF ApplyEffect
<1>6. CASE UNCHANGED vars
  BY <1>6 DEF vars
<1> QED
  BY <1>0, <1>1, <1>2, <1>3, <1>4, <1>5, <1>6 DEF Next, Class

(* Every grant is made from an effect that lasts.                          *)
LEMMA StepNothing == IInv /\ [Next]_vars => NothingForAWhile'
<1> SUFFICES ASSUME TypeOK, InfiniteFirst, NothingForAWhile, [Next]_vars
             PROVE  NothingForAWhile'
  BY DEF IInv
<1> USE AbilitiesAssumption DEF TypeOK, InfiniteFirst, NothingForAWhile, component
<1>0. CASE PawnGetsComponent
  BY <1>0 DEF PawnGetsComponent
<1>1. CASE StartDefaults
  BY <1>1 DEF StartDefaults, ComponentAtStart
<1>2. ASSUME NEW t \in Threads, NEW c \in Class, CallGrantAbility(t, c)
      PROVE  NothingForAWhile'
  BY <1>2 DEF CallGrantAbility, Calls, Class
<1>3. ASSUME NEW t \in Threads, Overwrite(t)
      PROVE  NothingForAWhile'
  BY <1>3 DEF Overwrite, WrittenAbility
<1>4. ASSUME NEW t \in Threads, MakeInfinite(t)
      PROVE  NothingForAWhile'
  BY <1>4 DEF MakeInfinite, WrittenPolicy
<1>5. ASSUME NEW t \in Threads, ApplyEffect(t)
      PROVE  NothingForAWhile'
  BY <1>5 DEF ApplyEffect
<1>6. CASE UNCHANGED vars
  BY <1>6 DEF vars
<1> QED
  BY <1>0, <1>1, <1>2, <1>3, <1>4, <1>5, <1>6 DEF Next, Class

(* The worker has the component when it applies, or was early.             *)
LEMMA StepFault == IInv /\ [Next]_vars => FaultNeedsHaste'
<1> SUFFICES ASSUME TypeOK, ComponentFirst, FaultNeedsHaste, [Next]_vars
             PROVE  FaultNeedsHaste'
  BY DEF IInv
<1> USE AbilitiesAssumption DEF TypeOK, ComponentFirst, FaultNeedsHaste,
       Threads, component
<1>0. CASE PawnGetsComponent
  BY <1>0 DEF PawnGetsComponent
<1>1. CASE StartDefaults
  BY <1>1 DEF StartDefaults, ComponentAtStart
<1>2. ASSUME NEW t \in Threads, NEW c \in Class, CallGrantAbility(t, c)
      PROVE  FaultNeedsHaste'
  BY <1>2 DEF CallGrantAbility, Calls, Class
<1>3. ASSUME NEW t \in Threads, Overwrite(t)
      PROVE  FaultNeedsHaste'
  BY <1>3 DEF Overwrite, WrittenAbility
<1>4. ASSUME NEW t \in Threads, MakeInfinite(t)
      PROVE  FaultNeedsHaste'
  BY <1>4 DEF MakeInfinite, WrittenPolicy
<1>5. ASSUME NEW t \in Threads, ApplyEffect(t)
      PROVE  FaultNeedsHaste'
  BY <1>5 DEF ApplyEffect
<1>6. CASE UNCHANGED vars
  BY <1>6 DEF vars
<1> QED
  BY <1>0, <1>1, <1>2, <1>3, <1>4, <1>5, <1>6 DEF Next, Class

(* The first write replaces the original ability for good.                 *)
LEMMA StepOriginal == IInv /\ [Next]_vars => OriginalReplaced'
<1> SUFFICES ASSUME TypeOK, WorkerInOrder, OriginalReplaced, [Next]_vars
             PROVE  OriginalReplaced'
  BY DEF IInv
<1> USE AbilitiesAssumption DEF TypeOK, WorkerInOrder, OriginalReplaced, Busy, Given,
       Found, Threads, component
<1>0. CASE PawnGetsComponent
  BY <1>0 DEF PawnGetsComponent
<1>1. CASE StartDefaults
  BY <1>1 DEF StartDefaults, ComponentAtStart
<1>2. ASSUME NEW t \in Threads, NEW c \in Class, CallGrantAbility(t, c)
      PROVE  OriginalReplaced'
  BY <1>2 DEF CallGrantAbility, Calls, Class
<1>3. ASSUME NEW t \in Threads, Overwrite(t)
      PROVE  OriginalReplaced'
  BY <1>3 DEF Overwrite, WrittenAbility
<1>4. ASSUME NEW t \in Threads, MakeInfinite(t)
      PROVE  OriginalReplaced'
  BY <1>4 DEF MakeInfinite, WrittenPolicy
<1>5. ASSUME NEW t \in Threads, ApplyEffect(t)
      PROVE  OriginalReplaced'
  BY <1>5 DEF ApplyEffect
<1>6. CASE UNCHANGED vars
  BY <1>6 DEF vars
<1> QED
  BY <1>0, <1>1, <1>2, <1>3, <1>4, <1>5, <1>6 DEF Next, Class

(* IInv is an invariant.                                                   *)
LEMMA Invariance == Spec => []IInv
<1>1. IInv /\ [Next]_vars => IInv'
  BY StepType, StepHeld, StepInfinite, StepOrder, StepComponent, StepNothing,
     StepFault, StepOriginal DEF IInv
<1> QED
  BY InitIInv, <1>1, PTL DEF Spec

(* Every variable keeps its type: the effect always grants a found class.  *)
THEOREM TypeCorrect == Spec => []TypeOK
<1>1. IInv => TypeOK
  BY DEF IInv
<1> QED
  BY Invariance, <1>1, PTL

(* Without an overlapping script the worker grants all it was to grant.    *)
THEOREM DefaultsAreGranted == Spec => []DefaultsGranted
<1>1. IInv => DefaultsGranted
  <2> SUFFICES ASSUME IInv, DefaultsDone, ~overlapped, NEW a \in Found
               PROVE  a \in Given
    BY DEF DefaultsGranted
  <2>1. PICK i \in DOMAIN DefaultRequests : DefaultRequests[i] = a /\ a # NoClass
    BY DEF Found
  <2>2. ~Busy /\ i \in 1 .. calls[Worker]
    BY <2>1, AbilitiesAssumption DEF DefaultsDone, Busy
  <2> QED
    BY <2>1, <2>2 DEF IInv, WorkerInOrder
<1> QED
  BY Invariance, <1>1, PTL

(* Whatever overlaps, what is granted is granted for ever.                 *)
THEOREM GrantsLast == Spec => []NothingForAWhile
<1>1. IInv => NothingForAWhile
  BY DEF IInv
<1> QED
  BY Invariance, <1>1, PTL

(* Whatever overlaps, the effect's own ability is not granted.             *)
THEOREM OriginalIsNotGiven == Spec => []OriginalNotGiven
<1>1. IInv => OriginalNotGiven
  BY DEF IInv, OriginalReplaced, OriginalNotGiven
<1> QED
  BY Invariance, <1>1, PTL

(* Only a script can use the ability component before the worker has read  *)
(* it, and the worker only misses it if it read before the pawn had one.   *)
THEOREM FaultsAreHaste == Spec => []FaultNeedsHaste
<1>1. IInv => FaultNeedsHaste
  BY DEF IInv
<1> QED
  BY Invariance, <1>1, PTL

=============================================================================
