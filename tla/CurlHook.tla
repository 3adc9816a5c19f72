------------------------------ MODULE CurlHook ------------------------------
(***************************************************************************)
(* How the DLL gets hold of the game's HTTP requests, from StartHook to    *)
(* the travel into the match (LeoSpecial.h, CURLhook.h).  At first         *)
(* curl_easy_setopt is hooked by a PAGE_GUARD on its page: the first fetch *)
(* from the page faults, the processor drops the guard, LeoHandler sends   *)
(* the thread to the hook (or lets it go on) and single-steps it once to   *)
(* put the guard back.  The first login request replaces this by a detour. *)
(* The steps of the threads that run curl interleave freely.               *)
(***************************************************************************)
EXTENDS Naturals, Sequences, FiniteSets

CONSTANTS
  Threads,      \* the threads that execute code on the hooked page
  LoginThread,  \* the one that logs in and asks for a match
  MaxOther      \* bound: other uses of the page by each thread, and retries

(* The URLs that CurlEasyHook2 tells apart, in the order of a login.       *)
Login == <<"token", "ClientQuestLogin", "matchmakingservice">>

(* "page" is the execution of another function of the same page.           *)
Uses == {Login[i] : i \in 1 .. 3} \cup {"other", "page"}

ASSUME CurlHookAssumption ==
  /\ IsFiniteSet(Threads) /\ LoginThread \in Threads
  /\ MaxOther \in Nat

VARIABLES
  VEH_Handle,     \* LeoHandler is registered
  guard,          \* PAGE_GUARD is set on the page of og_fun
  started,        \* Hook() has armed the guard
  detoured,       \* DetourTransactionCommit has patched curl_easy_setopt
  at,             \* where each thread is
  use,            \* what each thread came for
  exception,      \* the exception raised in each thread, not yet handled
  trap,           \* the trap flag (0x100) of each thread
  bHookRestarted, bInitGlobals, bMatchmaking,
  offsets,        \* EraInit::SetOffsets has run
  hooked,         \* InitializeHooks and InitializeGlobals have run
  travelled,      \* OpenAthenaTerrain was called
  login,          \* requests of Login sent so far
  other,          \* other uses of the page so far, per thread
  missed,         \* requests of Login that ran the original unhooked (history)
  unclean,        \* a thread was between fault and single-step at Unhook (history)
  crashed

page  == <<VEH_Handle, guard, started, detoured>>
flow  == <<at, use, exception, trap>>
flags == <<bHookRestarted, bInitGlobals, bMatchmaking, offsets, hooked, travelled>>
vars  == <<page, flow, flags, login, other, missed, unclean, crashed>>

Places == {"idle", "fetch", "hook", "scan", "unhook", "remove", "attach", "restarted",
           "return"}

TypeOK ==
  /\ VEH_Handle \in BOOLEAN /\ guard \in BOOLEAN /\ started \in BOOLEAN
  /\ detoured \in BOOLEAN
  /\ at \in [Threads -> Places] /\ use \in [Threads -> Uses]
  /\ exception \in [Threads -> {"none", "GUARD_PAGE", "SINGLE_STEP"}]
  /\ trap \in [Threads -> BOOLEAN]
  /\ bHookRestarted \in BOOLEAN /\ bInitGlobals \in BOOLEAN
  /\ bMatchmaking \in BOOLEAN /\ offsets \in BOOLEAN /\ hooked \in BOOLEAN
  /\ travelled \in 0 .. 1
  /\ login \in 0 .. 3 /\ other \in [Threads -> 0 .. MaxOther]
  /\ missed \subseteq Uses /\ unclean \in BOOLEAN /\ crashed \in BOOLEAN

Init ==
  /\ VEH_Handle = FALSE /\ guard = FALSE /\ started = FALSE /\ detoured = FALSE
  /\ at = [t \in Threads |-> "idle"] /\ use = [t \in Threads |-> "page"]
  /\ exception = [t \in Threads |-> "none"] /\ trap = [t \in Threads |-> FALSE]
  /\ bHookRestarted = FALSE /\ bInitGlobals = FALSE /\ bMatchmaking = FALSE
  /\ offsets = FALSE /\ hooked = FALSE /\ travelled = 0
  /\ login = 0 /\ other = [t \in Threads |-> 0]
  /\ missed = {} /\ unclean = FALSE /\ crashed = FALSE

----------------------------------------------------------------------------
(* LeoHook::Hook, on the DLL's own thread: the handler, then the guard.    *)
MayArm_AtOnce == TRUE
MayArm        == VEH_Handle

Register ==
  /\ ~crashed /\ ~VEH_Handle /\ ~started
  /\ VEH_Handle' = TRUE
  /\ UNCHANGED <<guard, started, detoured, flow, flags, login, other, missed,
                 unclean, crashed>>

Arm ==
  /\ ~crashed /\ MayArm /\ ~started
  /\ guard' = TRUE /\ started' = TRUE
  /\ UNCHANGED <<VEH_Handle, detoured, flow, flags, login, other, missed,
                 unclean, crashed>>

(* A thread comes to the page: for the next request of the login or an     *)
(* earlier one again, for another request, or for another function.        *)
Come(t, u) ==
  /\ ~crashed /\ at[t] = "idle" /\ exception[t] = "none"
  /\ \/ /\ t = LoginThread /\ login < 3 /\ u = Login[login + 1]
        /\ login' = login + 1 /\ UNCHANGED other
     \/ /\ \/ u \in {"other", "page"}
           \/ t = LoginThread /\ \E i \in 1 .. login : u = Login[i]
        /\ other[t] < MaxOther
        /\ other' = [other EXCEPT ![t] = @ + 1] /\ UNCHANGED login
  /\ at' = [at EXCEPT ![t] = "fetch"]
  /\ use' = [use EXCEPT ![t] = u]
  /\ UNCHANGED <<page, exception, trap, flags, missed, unclean, crashed>>

(* An access to the page faults, and raising the exception drops the       *)
(* guard: a fetch, a read by FindPattern, which scans the whole image, or  *)
(* a read by DetourAttach.                                                 *)
AccessGuarded(t) ==
  /\ ~crashed /\ at[t] \in {"fetch", "scan", "attach"}
  /\ exception[t] = "none" /\ guard
  /\ guard' = FALSE
  /\ exception' = [exception EXCEPT ![t] = "GUARD_PAGE"]
  /\ UNCHANGED <<VEH_Handle, started, detoured, at, use, trap, flags, login,
                 other, missed, unclean, crashed>>

(* The fetch succeeds: into the detour once there is one, else on into the *)
(* original; a thread being single-stepped traps after the instruction.    *)
FetchOpen(t) ==
  /\ ~crashed /\ at[t] = "fetch" /\ exception[t] = "none" /\ ~guard
  /\ at' = [at EXCEPT ![t] = IF use[t] # "page" /\ detoured THEN "hook" ELSE "idle"]
  /\ missed' = IF use[t] = "page" \/ detoured THEN missed ELSE missed \cup {use[t]}
  /\ exception' = [exception EXCEPT ![t] = IF trap[t] THEN "SINGLE_STEP" ELSE "none"]
  /\ trap' = [trap EXCEPT ![t] = FALSE]
  /\ UNCHANGED <<page, use, flags, login, other, unclean, crashed>>

(* The first instruction of the hook, single-stepped.                      *)
StepIntoHook(t) ==
  /\ ~crashed /\ at[t] = "hook" /\ exception[t] = "none" /\ trap[t]
  /\ exception' = [exception EXCEPT ![t] = "SINGLE_STEP"]
  /\ trap' = [trap EXCEPT ![t] = FALSE]
  /\ UNCHANGED <<page, at, use, flags, login, other, missed, unclean, crashed>>

(* LeoHandler on a guard violation: XIP is moved only at og_fun itself,    *)
(* and the guard stays down until the single step.                         *)
GuardWhileStepping_Reapplied == TRUE
GuardWhileStepping           == guard

TrapAfterFault_Never == FALSE
TrapAfterFault       == TRUE

HandleGuardPage(t) ==
  /\ ~crashed /\ exception[t] = "GUARD_PAGE" /\ VEH_Handle
  /\ at' = [at EXCEPT ![t] = IF @ = "fetch" /\ use[t] # "page" THEN "hook" ELSE @]
  /\ trap' = [trap EXCEPT ![t] = TrapAfterFault]
  /\ exception' = [exception EXCEPT ![t] = "none"]
  /\ guard' = GuardWhileStepping
  /\ UNCHANGED <<VEH_Handle, started, detoured, use, flags, login, other,
                 missed, unclean, crashed>>

(* LeoHandler on a single step: the guard goes back on the page.           *)
HandleSingleStep(t) ==
  /\ ~crashed /\ exception[t] = "SINGLE_STEP" /\ VEH_Handle
  /\ guard' = TRUE
  /\ exception' = [exception EXCEPT ![t] = "none"]
  /\ UNCHANGED <<VEH_Handle, started, detoured, at, use, trap, flags, login,
                 other, missed, unclean, crashed>>

(* Nobody else handles these two exceptions.                               *)
Unhandled(t) ==
  /\ ~crashed /\ exception[t] # "none" /\ ~VEH_Handle
  /\ crashed' = TRUE
  /\ UNCHANGED <<page, flow, flags, login, other, missed, unclean>>

Ready(t) == ~crashed /\ at[t] = "hook" /\ exception[t] = "none" /\ ~trap[t]

----------------------------------------------------------------------------
(* CurlEasyHook2 with a token URL while bHookRestarted is not set:         *)
(* SetOffsets, Unhook, the detour, and the flag.                           *)
RestartDue_FlagInverted(u) == u = "token" /\ bHookRestarted
RestartDue(u)              == u = "token" /\ ~bHookRestarted

StartRestart(t) ==
  /\ Ready(t) /\ RestartDue(use[t])
  /\ at' = [at EXCEPT ![t] = "scan"]
  /\ UNCHANGED <<page, use, exception, trap, flags, login, other, missed,
                 unclean, crashed>>

SetOffsets(t) ==
  /\ ~crashed /\ at[t] = "scan" /\ exception[t] = "none" /\ ~guard
  /\ offsets' = TRUE
  /\ at' = [at EXCEPT ![t] = "unhook"]
  /\ exception' = [exception EXCEPT ![t] = IF trap[t] THEN "SINGLE_STEP" ELSE "none"]
  /\ trap' = [trap EXCEPT ![t] = FALSE]
  /\ UNCHANGED <<page, use, bHookRestarted, bInitGlobals, bMatchmaking, hooked,
                 travelled, login, other, missed, unclean, crashed>>

Stepping(t) == exception[t] # "none" \/ trap[t]

(* Unhook restores the protection ...                                      *)
GuardAfterRestore_Kept == guard
GuardAfterRestore      == FALSE

RestoreProtection(t) ==
  /\ ~crashed /\ at[t] = "unhook" /\ exception[t] = "none"
  /\ guard' = GuardAfterRestore
  /\ unclean' = (unclean \/ \E u \in Threads : Stepping(u))
  /\ at' = [at EXCEPT ![t] = "remove"]
  /\ UNCHANGED <<VEH_Handle, started, detoured, use, exception, trap, flags,
                 login, other, missed, crashed>>

(* ... and removes the handler; a fault between the two has still found it. *)
RemoveHandler(t) ==
  /\ ~crashed /\ at[t] = "remove"
  /\ VEH_Handle' = FALSE
  /\ unclean' = (unclean \/ \E u \in Threads : Stepping(u))
  /\ at' = [at EXCEPT ![t] = "attach"]
  /\ UNCHANGED <<guard, started, detoured, use, exception, trap, flags, login,
                 other, missed, crashed>>

AttachDetour(t) ==
  /\ ~crashed /\ at[t] = "attach" /\ exception[t] = "none" /\ ~guard
  /\ detoured' = TRUE
  /\ at' = [at EXCEPT ![t] = "restarted"]
  /\ UNCHANGED <<VEH_Handle, guard, started, use, exception, trap, flags,
                 login, other, missed, unclean, crashed>>

SetRestarted(t) ==
  /\ ~crashed /\ at[t] = "restarted"
  /\ bHookRestarted' = TRUE
  /\ at' = [at EXCEPT ![t] = "return"]
  /\ UNCHANGED <<page, use, exception, trap, bInitGlobals, bMatchmaking,
                 offsets, hooked, travelled, login, other, missed, unclean,
                 crashed>>

(* ClientQuestLogin: the flag first, then InitializeHooks and the globals. *)
InitializeDue(u) == u = "ClientQuestLogin" /\ ~bInitGlobals

InitializeOnQuestLogin(t) ==
  /\ Ready(t) /\ InitializeDue(use[t])
  /\ bInitGlobals' = TRUE
  /\ hooked' = TRUE
  /\ at' = [at EXCEPT ![t] = "return"]
  /\ UNCHANGED <<page, use, exception, trap, bHookRestarted, bMatchmaking,
                 offsets, travelled, login, other, missed, unclean, crashed>>

(* matchmakingservice: the first such request travels to the map.          *)
TravelDue(u)           == u = "matchmakingservice" /\ ~bMatchmaking

TravelOnMatchmaking(t) ==
  /\ Ready(t) /\ TravelDue(use[t])
  /\ bMatchmaking' = TRUE
  /\ travelled' = travelled + 1
  /\ at' = [at EXCEPT ![t] = "return"]
  /\ UNCHANGED <<page, use, exception, trap, bHookRestarted, bInitGlobals,
                 offsets, hooked, login, other, missed, unclean, crashed>>

(* The hook passes the option on to CurlSet and returns.                   *)
PassOn(t) ==
  /\ \/ ~crashed /\ at[t] = "return"
     \/ /\ Ready(t)
        /\ ~RestartDue(use[t]) /\ ~InitializeDue(use[t]) /\ ~TravelDue(use[t])
  /\ at' = [at EXCEPT ![t] = "idle"]
  /\ UNCHANGED <<page, use, exception, trap, flags, login, other, missed,
                 unclean, crashed>>

InHook(t) ==
  \/ StartRestart(t) \/ SetOffsets(t) \/ RestoreProtection(t) \/ RemoveHandler(t)
  \/ AttachDetour(t) \/ SetRestarted(t)
  \/ InitializeOnQuestLogin(t) \/ TravelOnMatchmaking(t) \/ PassOn(t)

OnPage(t) == AccessGuarded(t) \/ FetchOpen(t) \/ StepIntoHook(t)

Handler(t) == HandleGuardPage(t) \/ HandleSingleStep(t)

Next ==
  \/ Register \/ Arm
  \/ \E t \in Threads :
       \/ \E u \in Uses : Come(t, u)
       \/ OnPage(t) \/ Handler(t) \/ Unhandled(t) \/ InHook(t)

(* Every thread is scheduled; nothing makes the game send a request.       *)
Fairness ==
  /\ WF_vars(Register \/ Arm)
  /\ \A t \in Threads : WF_vars(OnPage(t) \/ Handler(t) \/ Unhandled(t) \/ InHook(t))

Spec == Init /\ [][Next]_vars /\ Fairness

----------------------------------------------------------------------------
(* Properties.                                                             *)

Restarting == \E t \in Threads : at[t] \in {"remove", "attach"}

(* While the handler is registered the guard is down only between a fault  *)
(* and the single step that follows it, or once Unhook has restored the    *)
(* protection: no interleaving of faults loses it.                         *)
GuardUpWhenQuiet ==
  started /\ VEH_Handle /\ ~guard =>
    Restarting \/ \E t \in Threads : Stepping(t)

(* A login request runs the original unhooked only before the hook is      *)
(* armed, while another thread is between fault and single step, or in the *)
(* window between Unhook and the commit of the detour.                     *)
MissedOnlyWhileDown ==
  [][missed' # missed =>
       ~started \/ Restarting \/ \E t \in Threads : Stepping(t)]_vars

(* Neither exception goes unhandled unless Unhook caught another thread    *)
(* between its fault and its single step.                                  *)
CrashNeedsRace == crashed => unclean

(* Unhook leaves no guard behind, with the same exception.                 *)
UnhookedClean == started /\ ~VEH_Handle /\ guard => unclean

(* ProcessEvent is hooked and the globals are read without SetOffsets only *)
(* if the hook did not see the token request.                              *)
InitializedAfterOffsets == hooked /\ ~offsets => "token" \in missed

(* Every use of the page ends: no thread is caught between faults and      *)
(* single steps for ever.                                                  *)
UsesEnd == \A t \in Threads : at[t] # "idle" ~> (at[t] = "idle" \/ crashed)

(* Unhook's comments: "Restore old Flags", then "Remove the VEH": when it  *)
(* has done both, the page is no longer guarded.                           *)
OldFlagsRestored == started /\ ~VEH_Handle => ~guard

=============================================================================
