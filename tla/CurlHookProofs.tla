--------------------------- MODULE CurlHookProofs ---------------------------
(***************************************************************************)
(* Proofs about CurlHook, for any set of threads: what PAGE_GUARD hooking  *)
(* keeps true, that only an Unhook that overlaps another thread's single   *)
(* step can leave an exception nobody handles, and which requests of a     *)
(* login the hook may miss.                                                *)
(***************************************************************************)
EXTENDS CurlHook, TLAPS

(* Nothing happens on the page before Hook has armed it.                   *)
ArmedFirst ==
  ~started =>
    /\ ~guard /\ ~detoured
    /\ \A t \in Threads : ~Stepping(t) /\ at[t] \in {"idle", "fetch"}

(* After the protection is restored neither the guard nor a pending step   *)
(* is left, except when Unhook was unclean.                                *)
RestoredClean ==
  /\ \A t \in Threads : at[t] = "remove" /\ ~unclean =>
       ~guard /\ \A u \in Threads : ~Stepping(u)
  /\ started /\ ~VEH_Handle /\ ~unclean =>
       ~guard /\ \A u \in Threads : ~Stepping(u)

(* The handler is gone before the detour is attached, and from then on     *)
(* either somebody is attaching it or it is committed.                     *)
AttachedAfterRemoval ==
  /\ \A t \in Threads : at[t] = "attach" => ~VEH_Handle
  /\ started /\ ~VEH_Handle /\ ~detoured => \E t \in Threads : at[t] = "attach"

TravelledOnce == ~bMatchmaking => travelled = 0

(* The restart runs SetOffsets before everything else it does; and once    *)
(* the login thread is done with the token request, the request was        *)
(* missed or the offsets are set.                                          *)
OffsetsFirst ==
  /\ bHookRestarted => offsets
  /\ \A t \in Threads : at[t] \in {"unhook", "remove", "attach", "restarted"} => offsets

InToken == at[LoginThread] \in {"fetch", "hook", "scan"} /\ use[LoginThread] = "token"

TokenFirst ==
  /\ login > 0 /\ ~InToken => offsets \/ "token" \in missed
  /\ \A t \in Threads : use[t] = "ClientQuestLogin" => t = LoginThread /\ login > 0

IInv ==
  /\ TypeOK /\ TravelledOnce
  /\ ArmedFirst /\ RestoredClean /\ AttachedAfterRemoval
  /\ CrashNeedsRace /\ GuardUpWhenQuiet
  /\ OffsetsFirst /\ TokenFirst /\ InitializedAfterOffsets

(* The page is not guarded and no thread runs.                             *)
LEMMA InitIInv == Init => IInv
<1> SUFFICES ASSUME Init PROVE IInv
  OBVIOUS
<1>1. TypeOK
  <2>1. MaxOther \in Nat /\ "page" \in Uses
    BY CurlHookAssumption DEF Uses
  <2>2. /\ use \in [Threads -> Uses] /\ other \in [Threads -> 0 .. MaxOther]
        /\ missed \subseteq Uses
    BY <2>1 DEF Init
  <2>3. /\ at \in [Threads -> Places] /\ trap \in [Threads -> BOOLEAN]
        /\ exception \in [Threads -> {"none", "GUARD_PAGE", "SINGLE_STEP"}]
    BY DEF Init, Places
  <2>4. /\ VEH_Handle \in BOOLEAN /\ guard \in BOOLEAN /\ started \in BOOLEAN
        /\ detoured \in BOOLEAN /\ unclean \in BOOLEAN /\ crashed \in BOOLEAN
    BY DEF Init
  <2>5. /\ bHookRestarted \in BOOLEAN /\ bInitGlobals \in BOOLEAN
        /\ bMatchmaking \in BOOLEAN /\ offsets \in BOOLEAN /\ hooked \in BOOLEAN
    BY DEF Init
  <2>6. travelled \in 0 .. 1 /\ login \in 0 .. 3
    BY DEF Init
  <2> QED
    BY <2>2, <2>3, <2>4, <2>5, <2>6 DEF TypeOK
<1>2. ArmedFirst /\ RestoredClean /\ AttachedAfterRemoval /\ TravelledOnce
  BY DEF Init, ArmedFirst, RestoredClean, AttachedAfterRemoval, TravelledOnce, Stepping
<1>3. CrashNeedsRace /\ GuardUpWhenQuiet /\ OffsetsFirst /\ TokenFirst
      /\ InitializedAfterOffsets
  BY DEF Init, CrashNeedsRace, GuardUpWhenQuiet, OffsetsFirst, TokenFirst,
     InitializedAfterOffsets
<1> QED
  BY <1>1, <1>2, <1>3 DEF IInv

(* A step of the system is one of these.                                   *)
Step(t) == OnPage(t) \/ Handler(t) \/ Unhandled(t) \/ InHook(t)

(* How Next splits: the DLL's own thread, an arrival, and a thread's step. *)
LEMMA NextCases ==
  [Next]_vars =>
    \/ Register \/ Arm \/ UNCHANGED vars
    \/ \E t \in Threads : (\E u \in Uses : Come(t, u)) \/ Step(t)
BY DEF Next, Step

(* Types are kept; matchmaking travels once, because the flag is set with it. *)
LEMMA StepType == IInv /\ [Next]_vars => TypeOK' /\ TravelledOnce'
<1> SUFFICES ASSUME TypeOK, TravelledOnce, [Next]_vars
             PROVE  TypeOK' /\ TravelledOnce'
  BY DEF IInv
<1> USE DEF TypeOK, TravelledOnce, Places, page, flow, flags
<1>1. CASE Register
  BY <1>1 DEF Register
<1>2. CASE Arm
  BY <1>2 DEF Arm, MayArm
<1>3. CASE UNCHANGED vars
  BY <1>3 DEF vars
<1>4. ASSUME NEW t \in Threads, NEW u \in Uses, Come(t, u)
      PROVE  TypeOK' /\ TravelledOnce'
  <2>1. MaxOther \in Nat
    BY CurlHookAssumption
  <2>2. login' \in 0 .. 3 /\ other' \in [Threads -> 0 .. MaxOther]
    BY <1>4, <2>1 DEF Come
  <2>3. at' \in [Threads -> Places] /\ use' \in [Threads -> Uses]
    BY <1>4 DEF Come
  <2> QED
    BY <1>4, <2>2, <2>3 DEF Come
<1>5. ASSUME NEW t \in Threads, Step(t)
      PROVE  TypeOK' /\ TravelledOnce'
  <2>1. CASE AccessGuarded(t)
    <3>1. guard' \in BOOLEAN
          /\ exception' \in [Threads -> {"none", "GUARD_PAGE", "SINGLE_STEP"}]
      BY <2>1 DEF AccessGuarded
    <3> QED
      BY <2>1, <3>1 DEF AccessGuarded
  <2>2. CASE FetchOpen(t)
    BY <2>2 DEF FetchOpen
  <2>3. CASE StepIntoHook(t)
    BY <2>3 DEF StepIntoHook
  <2>4. CASE HandleGuardPage(t)
    BY <2>4 DEF HandleGuardPage, GuardWhileStepping, TrapAfterFault
  <2>5. CASE HandleSingleStep(t)
    BY <2>5 DEF HandleSingleStep
  <2>6. CASE Unhandled(t)
    BY <2>6 DEF Unhandled
  <2>7. CASE StartRestart(t)
    BY <2>7 DEF StartRestart, Ready, RestartDue
  <2>8. CASE SetOffsets(t)
    BY <2>8 DEF SetOffsets
  <2>9. CASE RestoreProtection(t)
    <3>1. unclean' \in BOOLEAN
      BY <2>9, Zenon DEF RestoreProtection
    <3>2. at' \in [Threads -> Places]
      BY <2>9 DEF RestoreProtection
    <3> QED
      BY <2>9, <3>1, <3>2 DEF RestoreProtection, GuardAfterRestore
  <2>10. CASE RemoveHandler(t)
    <3>1. unclean' \in BOOLEAN
      BY <2>10, Zenon DEF RemoveHandler
    <3>2. at' \in [Threads -> Places]
      BY <2>10 DEF RemoveHandler
    <3> QED
      BY <2>10, <3>1, <3>2 DEF RemoveHandler
  <2>11. CASE AttachDetour(t)
    BY <2>11 DEF AttachDetour
  <2>12. CASE SetRestarted(t)
    BY <2>12 DEF SetRestarted
  <2>13. CASE InitializeOnQuestLogin(t)
    BY <2>13 DEF InitializeOnQuestLogin, Ready, InitializeDue
  <2>14. CASE TravelOnMatchmaking(t)
    BY <2>14 DEF TravelOnMatchmaking, TravelDue, Ready
  <2>15. CASE PassOn(t)
    BY <2>15 DEF PassOn, Ready, RestartDue
  <2> QED
    BY <1>5, <2>1, <2>2, <2>3, <2>4, <2>5, <2>6, <2>7, <2>8, <2>9, <2>10, <2>11,
       <2>12, <2>13, <2>14, <2>15
       DEF Step, OnPage, Handler, InHook
<1> QED
  BY <1>1, <1>2, <1>3, <1>4, <1>5, NextCases

(* The guard, the exceptions and the detour all wait for Arm.              *)
LEMMA StepArmed == IInv /\ [Next]_vars => ArmedFirst'
<1> SUFFICES ASSUME TypeOK, ArmedFirst, [Next]_vars
             PROVE  ArmedFirst'
  BY DEF IInv
<1> USE DEF TypeOK, ArmedFirst, Stepping, page, flow
<1>1. CASE Register
  BY <1>1 DEF Register
<1>2. CASE Arm
  BY <1>2 DEF Arm, MayArm
<1>3. CASE UNCHANGED vars
  BY <1>3 DEF vars
<1>4. ASSUME NEW t \in Threads, NEW u \in Uses, Come(t, u)
      PROVE  ArmedFirst'
  BY <1>4 DEF Come
<1>5. ASSUME NEW t \in Threads, Step(t)
      PROVE  ArmedFirst'
  <2>1. CASE AccessGuarded(t)
    BY <2>1 DEF AccessGuarded
  <2>2. CASE FetchOpen(t)
    BY <2>2 DEF FetchOpen
  <2>3. CASE StepIntoHook(t)
    BY <2>3 DEF StepIntoHook
  <2>4. CASE HandleGuardPage(t)
    BY <2>4 DEF HandleGuardPage, GuardWhileStepping, TrapAfterFault
  <2>5. CASE HandleSingleStep(t)
    BY <2>5 DEF HandleSingleStep
  <2>6. CASE Unhandled(t)
    BY <2>6 DEF Unhandled
  <2>7. CASE StartRestart(t)
    BY <2>7 DEF StartRestart, Ready, RestartDue
  <2>8. CASE SetOffsets(t)
    BY <2>8 DEF SetOffsets
  <2>9. CASE RestoreProtection(t)
    BY <2>9 DEF RestoreProtection, GuardAfterRestore
  <2>10. CASE RemoveHandler(t)
    BY <2>10 DEF RemoveHandler
  <2>11. CASE AttachDetour(t)
    BY <2>11 DEF AttachDetour
  <2>12. CASE SetRestarted(t)
    BY <2>12 DEF SetRestarted
  <2>13. CASE InitializeOnQuestLogin(t)
    BY <2>13 DEF InitializeOnQuestLogin, Ready, InitializeDue
  <2>14. CASE TravelOnMatchmaking(t)
    BY <2>14 DEF TravelOnMatchmaking, TravelDue, Ready
  <2>15. CASE PassOn(t)
    BY <2>15 DEF PassOn, Ready, RestartDue
  <2> QED
    BY <1>5, <2>1, <2>2, <2>3, <2>4, <2>5, <2>6, <2>7, <2>8, <2>9, <2>10, <2>11,
       <2>12, <2>13, <2>14, <2>15
       DEF Step, OnPage, Handler, InHook
<1> QED
  BY <1>1, <1>2, <1>3, <1>4, <1>5, NextCases

(* Unhook leaves no guard and no pending step, or records that it was      *)
(* unclean; and nothing but a fault on a guarded page starts a new step.   *)
LEMMA StepClean == IInv /\ [Next]_vars => RestoredClean'
<1> SUFFICES ASSUME TypeOK, ArmedFirst, RestoredClean, [Next]_vars
             PROVE  RestoredClean'
  BY DEF IInv
<1> USE DEF TypeOK, ArmedFirst, RestoredClean, Stepping, page, flow
<1>1. CASE Register
  BY <1>1 DEF Register
<1>2. CASE Arm
  BY <1>2 DEF Arm, MayArm
<1>3. CASE UNCHANGED vars
  BY <1>3 DEF vars
<1>4. ASSUME NEW t \in Threads, NEW u \in Uses, Come(t, u)
      PROVE  RestoredClean'
  BY <1>4 DEF Come
<1>5. ASSUME NEW t \in Threads, Step(t)
      PROVE  RestoredClean'
  <2>1. CASE AccessGuarded(t)
    BY <2>1 DEF AccessGuarded
  <2>2. CASE FetchOpen(t)
    BY <2>2 DEF FetchOpen
  <2>3. CASE StepIntoHook(t)
    BY <2>3 DEF StepIntoHook
  <2>4. CASE HandleGuardPage(t)
    BY <2>4 DEF HandleGuardPage, GuardWhileStepping, TrapAfterFault
  <2>5. CASE HandleSingleStep(t)
    BY <2>5 DEF HandleSingleStep
  <2>6. CASE Unhandled(t)
    BY <2>6 DEF Unhandled
  <2>7. CASE StartRestart(t)
    BY <2>7 DEF StartRestart, Ready, RestartDue
  <2>8. CASE SetOffsets(t)
    BY <2>8 DEF SetOffsets
  <2>9. CASE RestoreProtection(t)
    BY <2>9 DEF RestoreProtection, GuardAfterRestore
  <2>10. CASE RemoveHandler(t)
    BY <2>10 DEF RemoveHandler
  <2>11. CASE AttachDetour(t)
    BY <2>11 DEF AttachDetour
  <2>12. CASE SetRestarted(t)
    BY <2>12 DEF SetRestarted
  <2>13. CASE InitializeOnQuestLogin(t)
    BY <2>13 DEF InitializeOnQuestLogin, Ready, InitializeDue
  <2>14. CASE TravelOnMatchmaking(t)
    BY <2>14 DEF TravelOnMatchmaking, TravelDue, Ready
  <2>15. CASE PassOn(t)
    BY <2>15 DEF PassOn, Ready, RestartDue
  <2> QED
    BY <1>5, <2>1, <2>2, <2>3, <2>4, <2>5, <2>6, <2>7, <2>8, <2>9, <2>10, <2>11,
       <2>12, <2>13, <2>14, <2>15
       DEF Step, OnPage, Handler, InHook
<1> QED
  BY <1>1, <1>2, <1>3, <1>4, <1>5, NextCases

(* The handler goes before "attach", the detour comes after it.            *)
LEMMA StepAttached == IInv /\ [Next]_vars => AttachedAfterRemoval'
<1> SUFFICES ASSUME TypeOK, ArmedFirst, AttachedAfterRemoval, [Next]_vars
             PROVE  AttachedAfterRemoval'
  BY DEF IInv
<1> USE DEF TypeOK, ArmedFirst, AttachedAfterRemoval, page, flow
<1>1. CASE Register
  BY <1>1 DEF Register
<1>2. CASE Arm
  BY <1>2 DEF Arm, MayArm
<1>3. CASE UNCHANGED vars
  BY <1>3 DEF vars
<1>4. ASSUME NEW t \in Threads, NEW u \in Uses, Come(t, u)
      PROVE  AttachedAfterRemoval'
  BY <1>4 DEF Come
<1>5. ASSUME NEW t \in Threads, Step(t)
      PROVE  AttachedAfterRemoval'
  <2>1. CASE AccessGuarded(t)
    BY <2>1 DEF AccessGuarded
  <2>2. CASE FetchOpen(t)
    BY <2>2 DEF FetchOpen
  <2>3. CASE StepIntoHook(t)
    BY <2>3 DEF StepIntoHook
  <2>4. CASE HandleGuardPage(t)
    BY <2>4 DEF HandleGuardPage, GuardWhileStepping, TrapAfterFault
  <2>5. CASE HandleSingleStep(t)
    BY <2>5 DEF HandleSingleStep
  <2>6. CASE Unhandled(t)
    BY <2>6 DEF Unhandled
  <2>7. CASE StartRestart(t)
    BY <2>7 DEF StartRestart, Ready, RestartDue
  <2>8. CASE SetOffsets(t)
    BY <2>8 DEF SetOffsets
  <2>9. CASE RestoreProtection(t)
    BY <2>9 DEF RestoreProtection, GuardAfterRestore
  <2>10. CASE RemoveHandler(t)
    BY <2>10 DEF RemoveHandler
  <2>11. CASE AttachDetour(t)
    BY <2>11 DEF AttachDetour
  <2>12. CASE SetRestarted(t)
    BY <2>12 DEF SetRestarted
  <2>13. CASE InitializeOnQuestLogin(t)
    BY <2>13 DEF InitializeOnQuestLogin, Ready, InitializeDue
  <2>14. CASE TravelOnMatchmaking(t)
    BY <2>14 DEF TravelOnMatchmaking, TravelDue, Ready
  <2>15. CASE PassOn(t)
    BY <2>15 DEF PassOn, Ready, RestartDue
  <2> QED
    BY <1>5, <2>1, <2>2, <2>3, <2>4, <2>5, <2>6, <2>7, <2>8, <2>9, <2>10, <2>11,
       <2>12, <2>13, <2>14, <2>15
       DEF Step, OnPage, Handler, InHook
<1> QED
  BY <1>1, <1>2, <1>3, <1>4, <1>5, NextCases

(* Whatever lowers the guard leaves a step pending or the handler removed. *)
LEMMA StepGuarded == IInv /\ [Next]_vars => GuardUpWhenQuiet'
<1> SUFFICES ASSUME TypeOK, ArmedFirst, AttachedAfterRemoval, GuardUpWhenQuiet, [Next]_vars
             PROVE  GuardUpWhenQuiet'
  BY DEF IInv
<1> USE DEF TypeOK, ArmedFirst, AttachedAfterRemoval, GuardUpWhenQuiet,
    Restarting, Stepping, page, flow
<1>1. CASE Register
  BY <1>1 DEF Register
<1>2. CASE Arm
  BY <1>2 DEF Arm, MayArm
<1>3. CASE UNCHANGED vars
  BY <1>3 DEF vars
<1>4. ASSUME NEW t \in Threads, NEW u \in Uses, Come(t, u)
      PROVE  GuardUpWhenQuiet'
  BY <1>4 DEF Come
<1>5. ASSUME NEW t \in Threads, Step(t)
      PROVE  GuardUpWhenQuiet'
  <2>1. CASE AccessGuarded(t)
    BY <2>1 DEF AccessGuarded
  <2>2. CASE FetchOpen(t)
    BY <2>2 DEF FetchOpen
  <2>3. CASE StepIntoHook(t)
    BY <2>3 DEF StepIntoHook
  <2>4. CASE HandleGuardPage(t)
    BY <2>4 DEF HandleGuardPage, GuardWhileStepping, TrapAfterFault
  <2>5. CASE HandleSingleStep(t)
    BY <2>5 DEF HandleSingleStep
  <2>6. CASE Unhandled(t)
    BY <2>6 DEF Unhandled
  <2>7. CASE StartRestart(t)
    BY <2>7 DEF StartRestart, Ready, RestartDue
  <2>8. CASE SetOffsets(t)
    BY <2>8 DEF SetOffsets
  <2>9. CASE RestoreProtection(t)
    BY <2>9 DEF RestoreProtection, GuardAfterRestore
  <2>10. CASE RemoveHandler(t)
    BY <2>10 DEF RemoveHandler
  <2>11. CASE AttachDetour(t)
    BY <2>11 DEF AttachDetour
  <2>12. CASE SetRestarted(t)
    BY <2>12 DEF SetRestarted
  <2>13. CASE InitializeOnQuestLogin(t)
    BY <2>13 DEF InitializeOnQuestLogin, Ready, InitializeDue
  <2>14. CASE TravelOnMatchmaking(t)
    BY <2>14 DEF TravelOnMatchmaking, TravelDue, Ready
  <2>15. CASE PassOn(t)
    BY <2>15 DEF PassOn, Ready, RestartDue
  <2> QED
    BY <1>5, <2>1, <2>2, <2>3, <2>4, <2>5, <2>6, <2>7, <2>8, <2>9, <2>10, <2>11,
       <2>12, <2>13, <2>14, <2>15
       DEF Step, OnPage, Handler, InHook
<1> QED
  BY <1>1, <1>2, <1>3, <1>4, <1>5, NextCases

(* An exception without a handler is one that Unhook overlapped.           *)
LEMMA StepCrash == IInv /\ [Next]_vars => CrashNeedsRace'
<1> SUFFICES ASSUME TypeOK, ArmedFirst, RestoredClean, CrashNeedsRace, [Next]_vars
             PROVE  CrashNeedsRace'
  BY DEF IInv
<1> USE DEF TypeOK, ArmedFirst, RestoredClean, CrashNeedsRace, Stepping, page,
    flow
<1>1. CASE Register
  BY <1>1 DEF Register
<1>2. CASE Arm
  BY <1>2 DEF Arm, MayArm
<1>3. CASE UNCHANGED vars
  BY <1>3 DEF vars
<1>4. ASSUME NEW t \in Threads, NEW u \in Uses, Come(t, u)
      PROVE  CrashNeedsRace'
  BY <1>4 DEF Come
<1>5. ASSUME NEW t \in Threads, Step(t)
      PROVE  CrashNeedsRace'
  <2>1. CASE AccessGuarded(t)
    BY <2>1 DEF AccessGuarded
  <2>2. CASE FetchOpen(t)
    BY <2>2 DEF FetchOpen
  <2>3. CASE StepIntoHook(t)
    BY <2>3 DEF StepIntoHook
  <2>4. CASE HandleGuardPage(t)
    BY <2>4 DEF HandleGuardPage, GuardWhileStepping, TrapAfterFault
  <2>5. CASE HandleSingleStep(t)
    BY <2>5 DEF HandleSingleStep
  <2>6. CASE Unhandled(t)
    BY <2>6 DEF Unhandled
  <2>7. CASE StartRestart(t)
    BY <2>7 DEF StartRestart, Ready, RestartDue
  <2>8. CASE SetOffsets(t)
    BY <2>8 DEF SetOffsets
  <2>9. CASE RestoreProtection(t)
    BY <2>9 DEF RestoreProtection, GuardAfterRestore
  <2>10. CASE RemoveHandler(t)
    BY <2>10 DEF RemoveHandler
  <2>11. CASE AttachDetour(t)
    BY <2>11 DEF AttachDetour
  <2>12. CASE SetRestarted(t)
    BY <2>12 DEF SetRestarted
  <2>13. CASE InitializeOnQuestLogin(t)
    BY <2>13 DEF InitializeOnQuestLogin, Ready, InitializeDue
  <2>14. CASE TravelOnMatchmaking(t)
    BY <2>14 DEF TravelOnMatchmaking, TravelDue, Ready
  <2>15. CASE PassOn(t)
    BY <2>15 DEF PassOn, Ready, RestartDue
  <2> QED
    BY <1>5, <2>1, <2>2, <2>3, <2>4, <2>5, <2>6, <2>7, <2>8, <2>9, <2>10, <2>11,
       <2>12, <2>13, <2>14, <2>15
       DEF Step, OnPage, Handler, InHook
<1> QED
  BY <1>1, <1>2, <1>3, <1>4, <1>5, NextCases

(* SetOffsets comes first in the restart.                                  *)
LEMMA StepOffsets == IInv /\ [Next]_vars => OffsetsFirst'
<1> SUFFICES ASSUME TypeOK, OffsetsFirst, [Next]_vars
             PROVE  OffsetsFirst'
  BY DEF IInv
<1> USE DEF TypeOK, OffsetsFirst, page, flow, flags
<1>1. CASE Register
  BY <1>1 DEF Register
<1>2. CASE Arm
  BY <1>2 DEF Arm, MayArm
<1>3. CASE UNCHANGED vars
  BY <1>3 DEF vars
<1>4. ASSUME NEW t \in Threads, NEW u \in Uses, Come(t, u)
      PROVE  OffsetsFirst'
  BY <1>4 DEF Come
<1>5. ASSUME NEW t \in Threads, Step(t)
      PROVE  OffsetsFirst'
  <2>1. CASE AccessGuarded(t)
    BY <2>1 DEF AccessGuarded
  <2>2. CASE FetchOpen(t)
    BY <2>2 DEF FetchOpen
  <2>3. CASE StepIntoHook(t)
    BY <2>3 DEF StepIntoHook
  <2>4. CASE HandleGuardPage(t)
    BY <2>4 DEF HandleGuardPage, GuardWhileStepping, TrapAfterFault
  <2>5. CASE HandleSingleStep(t)
    BY <2>5 DEF HandleSingleStep
  <2>6. CASE Unhandled(t)
    BY <2>6 DEF Unhandled
  <2>7. CASE StartRestart(t)
    BY <2>7 DEF StartRestart, Ready, RestartDue
  <2>8. CASE SetOffsets(t)
    BY <2>8 DEF SetOffsets
  <2>9. CASE RestoreProtection(t)
    BY <2>9 DEF RestoreProtection, GuardAfterRestore
  <2>10. CASE RemoveHandler(t)
    BY <2>10 DEF RemoveHandler
  <2>11. CASE AttachDetour(t)
    BY <2>11 DEF AttachDetour
  <2>12. CASE SetRestarted(t)
    BY <2>12 DEF SetRestarted
  <2>13. CASE InitializeOnQuestLogin(t)
    BY <2>13 DEF InitializeOnQuestLogin, Ready, InitializeDue
  <2>14. CASE TravelOnMatchmaking(t)
    BY <2>14 DEF TravelOnMatchmaking, TravelDue, Ready
  <2>15. CASE PassOn(t)
    BY <2>15 DEF PassOn, Ready, RestartDue
  <2> QED
    BY <1>5, <2>1, <2>2, <2>3, <2>4, <2>5, <2>6, <2>7, <2>8, <2>9, <2>10, <2>11,
       <2>12, <2>13, <2>14, <2>15
       DEF Step, OnPage, Handler, InHook
<1> QED
  BY <1>1, <1>2, <1>3, <1>4, <1>5, NextCases

(* The login thread leaves the token request by missing it or by setting   *)
(* the offsets.                                                            *)
LEMMA StepToken == IInv /\ [Next]_vars => TokenFirst'
<1> SUFFICES ASSUME TypeOK, OffsetsFirst, TokenFirst, [Next]_vars
             PROVE  TokenFirst'
  BY DEF IInv
<1> USE DEF TypeOK, OffsetsFirst, TokenFirst, InToken, page, flow, flags
<1>1. CASE Register
  BY <1>1 DEF Register
<1>2. CASE Arm
  BY <1>2 DEF Arm, MayArm
<1>3. CASE UNCHANGED vars
  BY <1>3 DEF vars
<1>4. ASSUME NEW t \in Threads, NEW u \in Uses, Come(t, u)
      PROVE  TokenFirst'
  <2>1. ~(InToken /\ t = LoginThread) /\ login \in Nat
    BY <1>4 DEF Come
  <2>2. /\ Login[1] = "token" /\ Login[2] = "ClientQuestLogin"
        /\ Login[3] = "matchmakingservice"
    BY DEF Login
  <2>3. offsets' = offsets /\ missed' = missed /\ bHookRestarted' = bHookRestarted
    BY <1>4 DEF Come
  <2>4. CASE t = LoginThread /\ login < 3 /\ u = Login[login + 1] /\ login' = login + 1
    <3>1. login = 0 => InToken'
      BY <1>4, <2>2, <2>4 DEF Come
    <3>2. InToken => login = 0
      BY <1>4, <2>4 DEF Come
    <3> QED
      BY <1>4, <2>2, <2>3, <2>4, <3>1, <3>2 DEF Come
  <2>5. CASE /\ login' = login
             /\ \/ u \in {"other", "page"}
                \/ t = LoginThread /\ \E i \in 1 .. login : u = Login[i]
    <3>1. InToken => InToken'
      BY <1>4, <2>1 DEF Come
    <3> QED
      BY <1>4, <2>3, <2>5, <3>1 DEF Come
  <2> QED
    BY <1>4, <2>4, <2>5 DEF Come
<1>5. ASSUME NEW t \in Threads, Step(t)
      PROVE  TokenFirst'
  <2>1. CASE AccessGuarded(t)
    BY <2>1 DEF AccessGuarded
  <2>2. CASE FetchOpen(t)
    BY <2>2 DEF FetchOpen
  <2>3. CASE StepIntoHook(t)
    BY <2>3 DEF StepIntoHook
  <2>4. CASE HandleGuardPage(t)
    BY <2>4 DEF HandleGuardPage, GuardWhileStepping, TrapAfterFault
  <2>5. CASE HandleSingleStep(t)
    BY <2>5 DEF HandleSingleStep
  <2>6. CASE Unhandled(t)
    BY <2>6 DEF Unhandled
  <2>7. CASE StartRestart(t)
    BY <2>7 DEF StartRestart, Ready, RestartDue
  <2>8. CASE SetOffsets(t)
    BY <2>8 DEF SetOffsets
  <2>9. CASE RestoreProtection(t)
    BY <2>9 DEF RestoreProtection, GuardAfterRestore
  <2>10. CASE RemoveHandler(t)
    BY <2>10 DEF RemoveHandler
  <2>11. CASE AttachDetour(t)
    BY <2>11 DEF AttachDetour
  <2>12. CASE SetRestarted(t)
    BY <2>12 DEF SetRestarted
  <2>13. CASE InitializeOnQuestLogin(t)
    BY <2>13 DEF InitializeOnQuestLogin, Ready, InitializeDue
  <2>14. CASE TravelOnMatchmaking(t)
    BY <2>14 DEF TravelOnMatchmaking, TravelDue, Ready
  <2>15. CASE PassOn(t)
    BY <2>15 DEF PassOn, Ready, RestartDue
  <2> QED
    BY <1>5, <2>1, <2>2, <2>3, <2>4, <2>5, <2>6, <2>7, <2>8, <2>9, <2>10, <2>11,
       <2>12, <2>13, <2>14, <2>15
       DEF Step, OnPage, Handler, InHook
<1> QED
  BY <1>1, <1>2, <1>3, <1>4, <1>5, NextCases

(* The quest login is sent after the token request.                        *)
LEMMA StepInitialized == IInv /\ [Next]_vars => InitializedAfterOffsets'
<1> SUFFICES ASSUME TypeOK, TokenFirst, InitializedAfterOffsets, [Next]_vars
             PROVE  InitializedAfterOffsets'
  BY DEF IInv
<1> USE DEF TypeOK, TokenFirst, InToken, InitializedAfterOffsets, page, flow,
    flags
<1>1. CASE Register
  BY <1>1 DEF Register
<1>2. CASE Arm
  BY <1>2 DEF Arm, MayArm
<1>3. CASE UNCHANGED vars
  BY <1>3 DEF vars
<1>4. ASSUME NEW t \in Threads, NEW u \in Uses, Come(t, u)
      PROVE  InitializedAfterOffsets'
  BY <1>4 DEF Come
<1>5. ASSUME NEW t \in Threads, Step(t)
      PROVE  InitializedAfterOffsets'
  <2>1. CASE AccessGuarded(t)
    BY <2>1 DEF AccessGuarded
  <2>2. CASE FetchOpen(t)
    BY <2>2 DEF FetchOpen
  <2>3. CASE StepIntoHook(t)
    BY <2>3 DEF StepIntoHook
  <2>4. CASE HandleGuardPage(t)
    BY <2>4 DEF HandleGuardPage, GuardWhileStepping, TrapAfterFault
  <2>5. CASE HandleSingleStep(t)
    BY <2>5 DEF HandleSingleStep
  <2>6. CASE Unhandled(t)
    BY <2>6 DEF Unhandled
  <2>7. CASE StartRestart(t)
    BY <2>7 DEF StartRestart, Ready, RestartDue
  <2>8. CASE SetOffsets(t)
    BY <2>8 DEF SetOffsets
  <2>9. CASE RestoreProtection(t)
    BY <2>9 DEF RestoreProtection, GuardAfterRestore
  <2>10. CASE RemoveHandler(t)
    BY <2>10 DEF RemoveHandler
  <2>11. CASE AttachDetour(t)
    BY <2>11 DEF AttachDetour
  <2>12. CASE SetRestarted(t)
    BY <2>12 DEF SetRestarted
  <2>13. CASE InitializeOnQuestLogin(t)
    BY <2>13 DEF InitializeOnQuestLogin, Ready, InitializeDue
  <2>14. CASE TravelOnMatchmaking(t)
    BY <2>14 DEF TravelOnMatchmaking, TravelDue, Ready
  <2>15. CASE PassOn(t)
    BY <2>15 DEF PassOn, Ready, RestartDue
  <2> QED
    BY <1>5, <2>1, <2>2, <2>3, <2>4, <2>5, <2>6, <2>7, <2>8, <2>9, <2>10, <2>11,
       <2>12, <2>13, <2>14, <2>15
       DEF Step, OnPage, Handler, InHook
<1> QED
  BY <1>1, <1>2, <1>3, <1>4, <1>5, NextCases

(* IInv is an invariant.                                                   *)
LEMMA Invariance == Spec => []IInv
<1>1. IInv /\ [Next]_vars => IInv'
  BY StepType, StepArmed, StepClean, StepAttached, StepGuarded, StepCrash,
     StepOffsets, StepToken, StepInitialized DEF IInv
<1> QED
  BY InitIInv, <1>1, PTL DEF Spec

(* Every variable keeps its type; the game travels at most once.           *)
THEOREM TypeCorrect == Spec => []TypeOK
<1>1. IInv => TypeOK
  BY DEF IInv
<1> QED
  BY Invariance, <1>1, PTL

(* No interleaving of faults and single steps loses the guard (LeoHandler).*)
THEOREM GuardIsKept == Spec => []GuardUpWhenQuiet
<1>1. IInv => GuardUpWhenQuiet
  BY DEF IInv
<1> QED
  BY Invariance, <1>1, PTL

(* An exception goes unhandled only if Unhook overlapped a single step.    *)
THEOREM CrashesAreRaces == Spec => []CrashNeedsRace
<1>1. IInv => CrashNeedsRace
  BY DEF IInv
<1> QED
  BY Invariance, <1>1, PTL

(* Unhook leaves a guard behind only in the same case.                     *)
THEOREM UnhookIsClean == Spec => []UnhookedClean
<1>1. IInv => UnhookedClean
  BY DEF IInv, RestoredClean, UnhookedClean, TypeOK
<1> QED
  BY Invariance, <1>1, PTL

(* The hooks are initialized without offsets only if the token request was *)
(* missed.                                                                 *)
THEOREM OffsetsPrecedeHooks == Spec => []InitializedAfterOffsets
<1>1. IInv => InitializedAfterOffsets
  BY DEF IInv
<1> QED
  BY Invariance, <1>1, PTL

(* A request is missed only before the hook, during another thread's step, *)
(* or between Unhook and the commit of the detour.                         *)
THEOREM MissesAreWindows == Spec => MissedOnlyWhileDown
<1> DEFINE Down == ~started \/ Restarting \/ \E t \in Threads : Stepping(t)
<1>1. IInv /\ [Next]_vars => (missed' # missed => Down)
  <2> SUFFICES ASSUME IInv, [Next]_vars, missed' # missed
               PROVE  Down
    OBVIOUS
  <2>1. PICK t \in Threads : FetchOpen(t)
    BY DEF Next, Register, Arm, Come, OnPage, Handler, InHook, AccessGuarded,
       StepIntoHook, HandleGuardPage, HandleSingleStep, Unhandled, StartRestart,
       SetOffsets, RestoreProtection, RemoveHandler, AttachDetour, SetRestarted,
       InitializeOnQuestLogin, TravelOnMatchmaking, PassOn, vars
  <2>2. ~guard /\ ~detoured
    BY <2>1 DEF FetchOpen
  <2>3. CASE VEH_Handle
    BY <2>2, <2>3 DEF IInv, GuardUpWhenQuiet
  <2>4. CASE ~VEH_Handle
    BY <2>2, <2>4 DEF IInv, AttachedAfterRemoval, Restarting
  <2> QED
    BY <2>3, <2>4
<1>2. IInv /\ [Next]_vars =>
        [missed' # missed =>
           ~started \/ Restarting \/ \E t \in Threads : Stepping(t)]_vars
  BY <1>1
<1> QED
  BY Invariance, <1>2, PTL DEF Spec, MissedOnlyWhileDown

=============================================================================
