------------------------------- MODULE Session -------------------------------
(***************************************************************************)
(* One match, seen from ProcessEventHook (Hooks.h): the flags of the       *)
(* dispatcher, the handlers that take several steps (Init,                 *)
(* OnLoadingScreenDropped with its two threads, JumpFromAircraft), the     *)
(* handlers that only use what those prepared, and the threads that run    *)
(* the user's script.  A long handler calls engine functions through the   *)
(* trampoline; the engine may deliver another event to the hook before the *)
(* call returns, so handlers nest on the game thread's stack.              *)
(***************************************************************************)
EXTENDS Naturals, Sequences, FiniteSets

CONSTANTS
  NestedEvents,  \* events the engine may deliver inside a running handler
  ScriptThreads, \* the threads CreateThread(EraScript::Execute) may start
  MaxDepth       \* bound: handlers nested, and entries of each long handler

(* What has been set up, by the globals that hold it.  "Controller" stands *)
(* for all that InitializeGlobals reads; "ScriptFunctions" for the names   *)
(* registered in the script heap after DukContext was published.           *)
Resources == {"Controller", "PlayerPawn", "ItemDefinitions", "DukContext",
              "ScriptFunctions", "Inventory", "EditTool",
              "AbilitySystemComponent", "Abilities", "LootArrays", "FloorLoot"}

LongEvents == {"ReadyToStartMatch", "LoadingScreenDropped", "ExitedDropZone"}

(* Handlers of one step: those the dispatcher runs only after the loading  *)
(* screen, and those it runs whenever the event comes.                     *)
GuardedEvents   == {"ServerHandlePickup", "Tick", "ServerAttemptExitVehicle",
                    "ServerAttemptInteract", "ServerExecuteInventoryItem",
                    "ServerPlayEmoteItem", "ServerBeginEditingBuildingActor",
                    "ServerEditBuildingActor"}
UnguardedEvents == {"ServerCreateBuilding", "ServerAttemptInventoryDrop",
                    "CheatScript"}
ShortEvents == GuardedEvents \cup UnguardedEvents
Events      == LongEvents \cup ShortEvents

(* The globals a handler uses without having set them itself.              *)
Needs(e) ==
  CASE e = "ServerHandlePickup"              -> {"Controller", "PlayerPawn", "Inventory"}
    [] e = "Tick"                            -> {"Controller", "PlayerPawn"}
    [] e = "ServerAttemptExitVehicle"        -> {"PlayerPawn"}
    [] e = "ServerAttemptInteract"           -> {"Controller", "LootArrays"}
    [] e = "ServerExecuteInventoryItem"      -> {"PlayerPawn", "Inventory"}
    [] e = "ServerPlayEmoteItem"             -> {"PlayerPawn"}
    [] e = "ServerBeginEditingBuildingActor" -> {"PlayerPawn", "EditTool"}
    [] e = "ServerEditBuildingActor"         -> {"Controller"}
    [] e = "ServerCreateBuilding"            -> {"Controller"}
    [] e = "ServerAttemptInventoryDrop"      -> {"PlayerPawn", "Inventory"}
    [] e = "CheatScript"                     -> {"PlayerPawn"}
    [] e = "ReadyToStartMatch"               -> {}
    [] e = "LoadingScreenDropped"            -> {"Controller", "PlayerPawn"}
    [] e = "ExitedDropZone"                  -> {"Controller", "Inventory"}

(* The calls of the long handlers in program order, by what each sets up;  *)
(* the empty sets are calls that only give the engine a chance to deliver  *)
(* an event.                                                               *)
InitSteps == <<{"Controller"}, {"PlayerPawn"}, {"ItemDefinitions"}, {},
               {"DukContext"}, {"ScriptFunctions"}>>
LoadSteps == <<{}, {"LootArrays"}, {"FloorLoot"}>>
JumpSteps == <<{"PlayerPawn"}, {}>>

Steps(e) ==
  CASE e = "ReadyToStartMatch"    -> InitSteps
    [] e = "LoadingScreenDropped" -> LoadSteps
    [] e = "ExitedDropZone"       -> JumpSteps

(* The two threads that OnLoadingScreenDropped starts and joins.           *)
Workers == {"thread_inventory", "thread_abilities"}

(* What a thread sets up next, with that many steps left.                  *)
WorkerPiece(w, left) ==
  IF w = "thread_inventory"
  THEN IF left = 2 THEN "Inventory" ELSE "EditTool"
  ELSE IF left = 2 THEN "AbilitySystemComponent" ELSE "Abilities"
WorkerNeeds(w) == IF w = "thread_inventory" THEN {"Controller", "PlayerPawn"}
                  ELSE {"PlayerPawn"}

Entries == 1 .. MaxDepth
Frame   == [event : LongEvents, step : 0 .. 6, entry : Entries]

ASSUME SessionAssumption ==
  /\ NestedEvents \subseteq Events
  /\ MaxDepth \in Nat \ {0}
  /\ IsFiniteSet(ScriptThreads)

VARIABLES
  bMatchStarted, bLoadingScreenDropped, bJumpedFromBus,
  stack,     \* the long handlers running on the game thread
  have,      \* the resources set up so far
  worker,    \* steps left to the two threads of each entry
  script,    \* state of each script thread
  runs,      \* how often each long handler was entered (history)
  fault      \* who used a resource that is not there, or "none"

flags == <<bMatchStarted, bLoadingScreenDropped, bJumpedFromBus>>
vars  == <<flags, stack, have, worker, script, runs, fault>>

TypeOK ==
  /\ bMatchStarted \in BOOLEAN /\ bLoadingScreenDropped \in BOOLEAN
  /\ bJumpedFromBus \in BOOLEAN
  /\ stack \in Seq(Frame) /\ Len(stack) <= MaxDepth
  /\ have \subseteq Resources
  /\ worker \in [Workers \X Entries -> 0 .. 2]
  /\ script \in [ScriptThreads -> {"off", "started", "evaluating", "done"}]
  /\ runs \in [LongEvents -> 0 .. MaxDepth]
  /\ fault \in {"none", "script", "interpreter"} \cup Events \cup Workers

(* The hooks are in place and the map has loaded: what InitializeGlobals   *)
(* found in the lobby went away with the lobby's world.                    *)
Init ==
  /\ bMatchStarted = FALSE /\ bLoadingScreenDropped = FALSE
  /\ bJumpedFromBus = FALSE
  /\ stack = <<>>
  /\ have = {}
  /\ worker = [we \in Workers \X Entries |-> 0]
  /\ script = [s \in ScriptThreads |-> "off"]
  /\ runs = [e \in LongEvents |-> 0]
  /\ fault = "none"

Alive == fault = "none"
Top   == stack[Len(stack)]
Rest  == [i \in 1 .. Len(stack) - 1 |-> stack[i]]

(* The engine calls the hook: with nothing running, or from inside a call. *)
CanDeliver(e) ==
  Alive /\ (stack = <<>> \/ (e \in NestedEvents /\ Len(stack) < MaxDepth))

----------------------------------------------------------------------------
(* The conditions of the dispatcher's chain.                               *)
LoadGuard_NotStarted == ~bLoadingScreenDropped
LoadGuard            == bMatchStarted /\ ~bLoadingScreenDropped

LongAccepts_AlwaysJump(e) ==
  CASE e = "ReadyToStartMatch"    -> ~bMatchStarted
    [] e = "LoadingScreenDropped" -> LoadGuard
    [] e = "ExitedDropZone"       -> bLoadingScreenDropped
LongAccepts(e) ==
  CASE e = "ReadyToStartMatch"    -> ~bMatchStarted
    [] e = "LoadingScreenDropped" -> LoadGuard
    [] e = "ExitedDropZone"       -> bLoadingScreenDropped /\ ~bJumpedFromBus

ShortAccepts_OnceStarted(e) == e \in GuardedEvents => bMatchStarted
ShortAccepts(e)             == e \in GuardedEvents => bLoadingScreenDropped

(* A long handler is entered; OnLoadingScreenDropped starts its threads.   *)
EnterHandler(e) ==
  /\ CanDeliver(e) /\ LongAccepts(e)
  /\ runs[e] < MaxDepth
  /\ stack' = Append(stack, [event |-> e, step |-> 0, entry |-> runs[e] + 1])
  /\ runs' = [runs EXCEPT ![e] = @ + 1]
  /\ worker' = [we \in Workers \X Entries |->
                  IF e = "LoadingScreenDropped" /\ we[2] = runs[e] + 1 THEN 2
                  ELSE worker[we]]
  /\ UNCHANGED <<flags, have, script, fault>>

(* The next call of the handler on top returns, or it used something that  *)
(* is not there.                                                           *)
HandlerStep ==
  /\ Alive /\ stack # <<>>
  /\ Top.step < Len(Steps(Top.event))
  /\ IF Needs(Top.event) \subseteq have
     THEN /\ have' = have \cup Steps(Top.event)[Top.step + 1]
          /\ stack' = [stack EXCEPT ![Len(stack)].step = @ + 1]
          /\ UNCHANGED fault
     ELSE /\ fault' = Top.event
          /\ UNCHANGED <<have, stack>>
  /\ UNCHANGED <<flags, worker, script, runs>>

(* thread_inventory.join(); thread_abilities.join()                        *)
Joined_InventoryOnly(n) == worker[<<"thread_inventory", n>>] = 0
Joined(n)               == \A w \in Workers : worker[<<w, n>>] = 0

(* The handler returns and the dispatcher sets its flag.                   *)
HandlerReturn ==
  /\ Alive /\ stack # <<>>
  /\ Top.step = Len(Steps(Top.event))
  /\ Top.event = "LoadingScreenDropped" => Joined(Top.entry)
  /\ bMatchStarted' = (bMatchStarted \/ Top.event = "ReadyToStartMatch")
  /\ bLoadingScreenDropped' =
       (bLoadingScreenDropped \/ Top.event = "LoadingScreenDropped")
  /\ bJumpedFromBus' = (bJumpedFromBus \/ Top.event = "ExitedDropZone")
  /\ stack' = Rest
  /\ UNCHANGED <<have, worker, script, runs, fault>>

(* A thread sets up its next piece, or uses a global that is not set.      *)
Unfinished_FirstStepOnly(w, n) == worker[<<w, n>>] = 2
Unfinished(w, n)               == worker[<<w, n>>] > 0

WorkerStep(w, n) ==
  /\ Alive /\ Unfinished(w, n)
  /\ IF WorkerNeeds(w) \subseteq have
     THEN /\ have' = have \cup {WorkerPiece(w, worker[<<w, n>>])}
          /\ worker' = [worker EXCEPT ![<<w, n>>] = @ - 1]
          /\ UNCHANGED fault
     ELSE /\ fault' = w
          /\ UNCHANGED <<have, worker>>
  /\ UNCHANGED <<flags, stack, script, runs>>

(* A short handler that finds its globals changes nothing modelled here;   *)
(* one that does not ends the game.                                        *)
HandleTooEarly(e) ==
  /\ CanDeliver(e) /\ ShortAccepts(e)
  /\ ~(Needs(e) \subseteq have)
  /\ fault' = e
  /\ UNCHANGED <<flags, stack, have, worker, script, runs>>

(* CheatScript "execute": a new thread each time, all on the one context.  *)
StartScript(s) ==
  /\ CanDeliver("CheatScript")
  /\ script[s] = "off"
  /\ script' = [script EXCEPT ![s] = "started"]
  /\ UNCHANGED <<flags, stack, have, worker, runs, fault>>

EvalScript(s) ==
  /\ Alive /\ script[s] = "started"
  /\ IF "DukContext" \in have
     THEN script' = [script EXCEPT ![s] = "evaluating"] /\ UNCHANGED fault
     ELSE fault' = "script" /\ UNCHANGED script
  /\ UNCHANGED <<flags, stack, have, worker, runs>>

ScriptDone(s) ==
  /\ Alive /\ script[s] = "evaluating"
  /\ script' = [script EXCEPT ![s] = "done"]
  /\ UNCHANGED <<flags, stack, have, worker, runs, fault>>

(* Who is inside the interpreter's heap: scripts, and the game thread      *)
(* while it registers the functions.                                       *)
Evaluating  == {s \in ScriptThreads : script[s] = "evaluating"}
Registering == \E i \in DOMAIN stack :
                 stack[i].event = "ReadyToStartMatch" /\ stack[i].step = 5

(* Two threads inside the one heap: it may be left broken.                 *)
InterpreterRace ==
  /\ Alive
  /\ Cardinality(Evaluating) > 1 \/ (Evaluating # {} /\ Registering)
  /\ fault' = "interpreter"
  /\ UNCHANGED <<flags, stack, have, worker, script, runs>>

GameThread == HandlerStep \/ HandlerReturn

Next ==
  \/ \E e \in LongEvents : EnterHandler(e)
  \/ HandlerStep \/ HandlerReturn
  \/ \E w \in Workers, n \in Entries : WorkerStep(w, n)
  \/ \E e \in ShortEvents : HandleTooEarly(e)
  \/ \E s \in ScriptThreads : StartScript(s) \/ EvalScript(s) \/ ScriptDone(s)
  \/ InterpreterRace

(* The scheduler runs every thread; nothing makes the engine send an event *)
(* and nothing bounds a user's script.                                     *)
Fairness ==
  /\ WF_vars(GameThread)
  /\ \A w \in Workers, n \in Entries : WF_vars(WorkerStep(w, n))

Spec == Init /\ [][Next]_vars /\ Fairness

----------------------------------------------------------------------------
(* Properties.                                                             *)

(* Once the dispatcher says the loading screen has dropped, everything the *)
(* guarded handlers use is there, whatever was nested in whatever: both    *)
(* threads were joined before the flag was set.                            *)
ReadyOnceLoaded == bLoadingScreenDropped => have = Resources

(* No thread outlives the handler that started it: a joinable std::thread  *)
(* going out of scope would end the process.                               *)
NoThreadOutlives ==
  \A w \in Workers, n \in Entries :
    worker[<<w, n>>] > 0 =>
      \E i \in DOMAIN stack :
        stack[i].event = "LoadingScreenDropped" /\ stack[i].entry = n

(* Only handlers the dispatcher does not guard, and scripts, ever use      *)
(* something that is not set up: neither a guarded handler, nor a long     *)
(* one, nor a worker thread does.                                          *)
GuardedNeverTooEarly ==
  fault \in {"none", "script", "interpreter"} \cup UnguardedEvents

(* A long handler that ran before runs again only from inside its own      *)
(* first run, before the flag is set: never after it has returned.         *)
ReenteredOnlyFromInside ==
  [][\A e \in LongEvents :
       runs[e] > 0 /\ runs'[e] > runs[e] => \E i \in DOMAIN stack : stack[i].event = e]_vars

(* The inventory is stocked from the item definitions, so they come first. *)
StockedFromDefinitions ==
  [][("Inventory" \notin have /\ "Inventory" \in have')
       => "ItemDefinitions" \in have]_vars

(* The joins return: once OnLoadingScreenDropped is running, the flag is   *)
(* set, unless something used what is not there.                           *)
LoadingEnds ==
  (\E i \in DOMAIN stack : stack[i].event = "LoadingScreenDropped")
    ~> (bLoadingScreenDropped \/ ~Alive)

(* The match goes through lobby, started, loaded, jumped, in order and     *)
(* once, and no phase begins before what its handlers use is there.        *)
Phase ==
  IF bJumpedFromBus THEN "jumped"
  ELSE IF bLoadingScreenDropped THEN "loaded"
  ELSE IF bMatchStarted THEN "started" ELSE "lobby"

Match == INSTANCE MatchPhases WITH
           phase      <- Phase,
           StartNeeds <- UNION {InitSteps[i] : i \in DOMAIN InitSteps}

ImplementsPhases == Match!Spec

=============================================================================
