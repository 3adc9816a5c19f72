# A TLA+ model of EraFN

EraFN is a DLL that is injected into an Unreal Engine 4 game. It redirects the
game's HTTP requests, detours the engine's `ProcessEvent`, and does in C++ what
the game's server would have done for one local player: it opens the map, gives
the player an inventory, abilities and loot, and answers the events the client
sends. The default build defines `RELEASEVERSION` only (`OffsetTable.h`); the
code under `SERVERCODE`, `TESTINGVERSION`, `CUSTOMCHEATSCRIPTS`, `NAMESCHECK` and
`BOTS` is not compiled and is not modelled.

This directory models that program in TLA+, checks the models with TLC on small
instances and proves their main invariants with TLAPS for all instances.

    tlc -workers 2 -config MCInventory.cfg MCInventory
    tlapm InventoryProofs.tla

## 1. Inventory of the system

| Part | Source | State it keeps | Operations |
|---|---|---|---|
| Injection and request hook | `dllmain.cpp`, `LeoSpecial.h`, `CURLhook.h` | the page protection, the vectored handler, each thread's trap flag, `bHookRestarted`, `bInitGlobals`, `bMatchmaking` | `Hook`, `LeoHandler`, `Unhook`, `CurlEasyHook2` |
| Event dispatcher, match life cycle | `Hooks.h`, `Functions.h` | `bMatchStarted`, `bLoadingScreenDropped`, `bJumpedFromBus`, `Globals` | `ProcessEventHook`, `Init`, `OnLoadingScreenDropped`, `JumpFromAircraft`, two worker threads |
| Inventory, quickbar | `GameFunctions.h` 1061-1330, 2040-2190, 2430-2490 | `ItemInstances`, `ItemEntries`, the quickbar, pickups | `CreateItem`, `AddToInventory`, `Inventory`, `Pickup`, `InventoryDrop`, `Equip` |
| `TArray` | `UnrealEngineStructs.h` 100-170 | `Data`, `Count`, `Max` | `Add`, `Remove`, `Clear`, index |
| Abilities | `GameFunctions.h` 1330-1460 | the one default gameplay effect | `GrantAbility`, `GrantDefaultAbilities` |
| Loot | `GameFunctions.h` 1700-2035, `ScriptClasses.h` | five pairs of parallel arrays, `LastItemDefinition`, `bAlreadySearched` | `SetupItemDefinitions`, `PrepareArray`, `SpawnPickupsAthena_Terrain`, `InteractWith` |
| The player's frames | `Functions.h` 190-310, `GameFunctions.h` 2700-2860 | the building being edited, the last building, the emote, net roles | `Tick`, `BuildExec`, `Build`, the two edit events, `Emote`, `ExitVehicle` |
| Script engine | `Script.h`, `ScriptFunctions.h`, `ScriptClasses.h`, `source/duk_module_node.h`, the error handling of `source/duktape.c` | one Duktape heap: its catchpoint, call depth and require cache | `Init`, `Execute`, `require`, 18 game functions, two constructors, array proxies, `ErrorHandler` |
| Object array, reflection | `UnrealEngineStructs.h` 320-600 | the function statics that keep an answer; the array is the engine's | `FindObjectById`, `NumChunks`, `GetObjectFromName`, `FindOffset`, `FindBitFieldOffset` |
| Offsets, version detection | `OffsetInitialize.h`, `OffsetTable.h`, `Internals.h` | `OffsetTable`, `CurrentEngineVersion` | `SetOffsets`, `EngineVersion` |
| Server netcode | `Server/netcode.h`, `netcode_structs.h` | connections, ticking | compiled with `SERVERCODE` only |

How they interact:

* The game's threads run **curl**; a fault or a detour brings them into
  `CurlEasyHook2`, which on three URLs of the login sets the offsets, installs
  the event hook and travels to the map.
* Every event of the engine comes through `ProcessEventHook` on the **game
  thread**. A handler calls the engine back through the trampoline, and the
  engine may deliver another event before that call returns: handlers nest.
* `OnLoadingScreenDropped` starts `thread_inventory` and `thread_abilities` and
  joins them. A cheat script's `execute` starts **one more thread each time**,
  all of them on one interpreter. All these threads share `Globals` and the
  engine's objects, without a lock.

What is hard: the flags are set after a handler returns, so a nested event meets
the old ones; `realloc` and copy in `TArray` under three kinds of threads; a
read-modify-write of the one gameplay effect; the guard page, which is one-shot
for all threads; parallel arrays that are only correct while they agree; values
cached by one frame and used by the event of another; one interpreter whose
error handling is a pointer that every caller saves and puts back. There is no
persistence,
no messages that can be lost or duplicated by a network, and no timeout.

What makes each part correct:

* *Request hook*: no login request escapes it outside the known windows, no
  exception goes unhandled, offsets are known before anything uses them.
* *Life cycle*: no guarded handler runs before what it uses exists; each long
  handler runs once unless it is nested in itself; loading ends.
* *Inventory*: instances, entries and slots agree; pickups and swaps multiply
  nothing, and a drop makes more of nothing but the one pickup it puts down.
* *Abilities*: what was asked for is granted, for ever, and nothing else; nobody
  applies an effect to a component that is not there yet.
* *Loot*: what is put down comes from the table, containers are complete and
  searched once, the draw ends.
* *Script engine*: an error goes to a catch clause of the script that threw it or
  to `ErrorHandler`; a module that failed can be required again; what a call
  asks of the game is what its caller gave.
* *Object array*: a search overlooks nothing that stands, and ends unless what it
  is looking at is destroyed.
* *The player's frames*: a held button builds once, edits stay in place, and no
  montage is forgotten but that of a pawn the player has left.

## 2. Modules

| Module | What it is |
|---|---|
| `Inventory` | the inventory's handlers, each a step; refines `ItemExchange` |
| `ItemExchange` | abstract: items move between the player and the ground |
| `InventoryThreads` | the same `TArray` operations, memory access by memory access, on several threads |
| `Session` | the dispatcher's guards and flags, nested handlers, workers, scripts; refines `MatchPhases` |
| `MatchPhases` | abstract: lobby, started, loaded, jumped, each with what it needs |
| `CurlHook` | the guard page, its handler on every thread, the change to the detour, the login |
| `Abilities` | `GrantAbility` step by step on the worker and the scripts' threads |
| `Loot` | preparing the arrays, floor loot, containers, scripts clearing arrays |
| `PlayerTick` | `Tick` and the handlers that start what it goes on with |
| `ScriptCalls` | what each function that scripts get does with its argument list |
| `ScriptEngine` | `execute` threads on the one heap: calls, `require`, errors |
| `ObjectArray` | the chunked array of all objects, searched while it changes |
| `*Proofs` | the theorems about a module, which they extend; `InventoryProofs` has those about `InventoryThreads` too |
| `MC*` | constants for TLC |

Names follow the source: an action has the name of the function or handler it
is (`Pickup`, `InventoryDrop`, `JumpFromAircraft`, `AccessGuarded` being the
processor's part), a variable the name of the global (`bLoadingScreenDropped`,
`LastItemDefinition`). `PROJECT.json` maps each definition to its lines. Next to
some operators stands a variant with a suffix (`SlotFree_Negated`): the operator
with a plausible slip in it; no specification uses one, they exist to show that
the property at hand would notice the slip.

### Inventory

`instances` and `entries` are the two arrays, cell by cell; `slots` the primary
quickbar; `ground` the pickups. `RemovedFrom` is `TArray::Remove` as written:
the block is shrunk first and the cells are copied afterwards, from the old
address. What is then found there depends on the heap, which the variable
`realloc` fixes at the start, from the constant `Reallocs`: everything (`kept`),
all but the last cell (`shrunk`), or nothing known (`moved`); `Lost` says which
cells are `Garbage`. A pickup looks for a
free slot, else swaps with the focused slot; the swapped-out item is put down
with count 1, as in the code. A drop puts down the count its event carries
(`Amount`, from nothing to more than any stack held), which the handler compares
with nothing, and removes the whole stack. `scripted` records the items scripts
put in slots.

### InventoryThreads

`heap` holds blocks, `Data`, `Count` are the fields; an `Add` is realloc, the
assignment of `Data`, the read of `Count`, and the store with the new `Count`; a
`Remove` is realloc, the assignment and the loop. The loop reads from the old
address (`OldCell`): a cell that realloc took from the block still holds what it
held or, if its memory is in use again by then, anything (`Reclaimed`), which is
written as `Unset` and recorded in `misread`. So a single thread can lose cells,
as in `Inventory`, and `SoundAlone` says that this is all it can do; a handler
that then looks at such a cell may end the program (`SearchGarbage`).
`overlapped` records that two threads were inside operations at once. `EarlyDrop`
lets the engine deliver a drop, whose handler has no guard, while
`OnLoadingScreenDropped` is still waiting for the worker.

Until that handler has returned its event is accepted again, inside it, as in
`Session`: `loading` are the entries that run, one inside the other, each with a
`thread_inventory` of its own from `Stockers`. The innermost joins its own thread
and its return sets the flag, and from then on a pickup may meet the thread of an
entry around it. `StockingUndisturbed` says that it meets no other.

### Session

A frame of `stack` is a running handler with its position in the list of calls
it makes (`InitSteps`, `LoadSteps`, `JumpSteps`), each call setting up some of
`Resources`. `NestedEvents` may be delivered inside any of them. `fault` records
the first handler that used what is not there: `Needs(e)` is read off each
handler. `worker` counts what is left of each worker's calls; the join is the
guard of the handler's last steps. `MaxDepth` bounds the nesting and how often
each long handler is entered.

### CurlHook

`guard` is `PAGE_GUARD`; `exception` and `trap` belong to each thread. A fault
clears the guard and raises GUARD_PAGE in its thread; `LeoHandler` sets the trap
flag; the single step sets the guard again. `Unhook` is two steps, and between
any two steps of one thread the other threads go on. `Login` holds the three URLs
that matter, in the order of a login; a client may send an earlier one again.

### Abilities

`at` is the line of `GrantAbility` each thread has reached; the effect's class
and policy are one pair of variables that all write. The worker first reads the
component off the pawn, which may not have one yet (`PawnGetsComponent` is the
engine's): the null it then keeps is used by every later grant, and
`FaultNeedsHaste` names this case (`early`) beside that of a script that came
before the worker.

### Loot

The table's rows are `Rows`, one of the constant `Tables`, chosen at the start;
`ItemDefs` and `ItemCount` are the arrays, per kind; `block` says which blocks are
freed. A row is two steps, `AddItemDef` and `AddItemCount`, and a script may clear
either array in between (`adding`); a clear inside one `Add` is not modelled. The
row's definition is found exactly, although the code takes the first whose path
contains the row's (`UnrealEngineStructs.h:478`): the table holds whole paths of
assets, and no path contains another asset's. A container is emptied
drawing by drawing; its pickups are put down in one step, so a clear by a script
falls between a drawing and the step that puts it down, but not between two
pickups of one chest. `rand() % n` is any index, and a fault for `n = 0`.

### PlayerTick

One `Tick` is one step: it refreshes the cached place of the building being
edited, swaps the vehicle's role, builds for a held button and ends an emote.
The early return of the build branch skips the rest, as in the code. The game's
own moves (walking, aiming, seating, ending a montage, destroying nothing by
itself) are actions of their own. `Tick` stops an emote on the pawn the player has
then: after a jump the pawn that was left plays on, and `OnlyOldPawnPlaysOn` says
that this is the only montage the program loses. The role of the pawn itself is left out: each
`Tick` computes it afresh. A destroyed building that `BuildingActorLast` still
points to reads as either answer.

### ScriptCalls and ScriptEngine

`ScriptCalls` has no state. Arguments are told apart by kind; a function reads
them from the value stack by index, and `AfterVector` is the stack once
`duk_get_fvector` has left its three numbers there. `Throws` is `ARGS_LENGTH`,
`VALIDATE_PTR` and the vector checks, `Crashes` the `std::string` of a null and
the two pointers `processEvent` follows unchecked, `Uses` what the engine call is
given.

`ScriptEngine` has the one heap: `jmpbuf` is `lj.jmpbuf_ptr`, `depth`
`call_recursion_depth`, `cache` the require cache. A frame of `frames[t]` is an
executor (a script's or module's code) or a safe call (`require`'s), with the
catchpoint it saved and the call level it has. `Push` and `Pop` are the setup and
the normal end of either; `Catch` and `Rethrow` are `duk__handle_executor_error`,
`FailModule` the error path of the safe call and of `duk__handle_require` after
it, `Fatal` the fatal handler, which returns into an endless loop. `Eval` may
fail before there is an executor: a syntax error, or a full stack.
What a script does next is any of its calls, a throw, a `require`, or its end.
A missing file is an empty source, as in `cb_load_module`, whose null check never
fires. `overlapped` records that two used the heap at once, `Init` included; from
then on the value stack and much else is shared in ways that are undefined, so
the properties speak of the time before, calls of game functions are no longer
followed, and only the shared catchpoint is: `JumpAway` is the jump into another
thread's stack or into a frame that is gone.

### ObjectArray

`cell` is the engine's array flattened: `Place` turns the chunk and the offset
that `FindObjectById` computes into one index. A chunk has one cell more than
`ChunkSize` because `FindObjectById` itself reads the offset `ChunkSize` of chunk
0. `Visible` are the cells that some id names: all but the first of each later
chunk. Each thread makes one search: a lookup by name, a lookup for a function's
`static auto`, or, on the game thread, `SetupItemDefinitions`; reading a cell and
comparing its object's name are two steps. Objects may be created at any time and
are destroyed by the collector, on the game thread, between its own searches.
Names are "wanted" or "other". `GetFullName` follows the `Class` and the `Outer`s of
the object; if the collector destroyed it under the comparison they are whatever
its memory holds by now: the name reads as either, or the walk goes round for ever
(`"lost"`) or faults, and nothing happens after a crash (`WalkFreed`).
The history `stood` holds what stood since a search began. The engine's array
always has a null chunk after the last: `NumChunks` relies on it and would read
past `Objects[9]` otherwise.

## 3. Runs

| Run | Instance | Distinct states | Shows |
|---|---|---|---|
| `inventory` | 2 definitions, 2 slots, stacks of 2, 4 items, 3 pickups, drops of 0 to 2, `kept` and `shrunk` | 1.2 million | arrays parallel, slots sound, no pickup multiplies anything, slot 0 spared, refines `ItemExchange` |
| `inventory_threads` | the loading handler entered up to twice, kit of 1, one script, 2 pickups or drops, any 3 of the 4 threads | 4.7 million | what one thread alone can damage; a pickup meets only a thread of an enclosing entry |
| `session` | every event nested in every handler, 2 deep, 2 scripts | 59 thousand | guards suffice, joins hold, loading ends, refines `MatchPhases` |
| `curl_hook` | 2 threads, 3 other uses each | 107 thousand | the guard, the windows, the order of initialisation |
| `curl_hook_restore` | 2 threads, 2 other uses each | - | counterexample to "Restore old Flags" |
| `abilities` | 4 defaults, one not found, 2 scripts, a pawn with or without its component | 7 thousand | nothing is lost without an overlap, nothing is temporary, what a null component takes |
| `abilities_wanted` | the same | - | counterexample to "the one we want to activate" |
| `loot` | 7 definitions, a table with all kinds or one with one ammo and no resource, a chest, 2 boxes, a vending machine, 2 floor spots, 2 clears | 96 thousand | loot is from the table, complete; what fails or never ends, and only then |
| `player_tick` | 2 places, 1 class, 2 pieces, 2 emotes, a vehicle | 1.1 million | emotes and vehicles |
| `building` | 2 places, 2 classes, 3 pieces | 1.4 million | held button and edits |
| `scripts` | 2 `execute`s, 2 modules and a missing one, catch clauses in the script and one module, 7 call levels, 5 calls | 382 thousand | errors jump home and land, the cache and the call depth are right between scripts, arguments are the caller's |
| `object_array` | chunks of 3, 2 of them, 5 initial contents, 2 threads, 2 changes | 437 thousand | searches overlook nothing, and end unless the compared object is destroyed |

Why these bounds are enough to be interesting. Two slots make a pickup into a
free slot, a swap and a full bar reachable; four items allow a drop, a pickup of
what was dropped and a swap after it; stacks of two distinguish a part from the
whole, and let a drop put down more than was held. Two entries of the loading
handler are one around the other, and three threads at the arrays are the game
thread and two workers, or a worker and a script. Two threads on the page are what
a lost guard needs, and three other uses
let one thread fault, step and come back while the other is anywhere. Depth two
nests a handler in itself, in another one and in the steps after a join. Two
scripts are needed for one to write between another's write and apply. Two
ammo boxes share `LastItemDefinition`; two clears hit both arrays of a pair.
Three pieces are an original, its edit, and a build at the old place.
Seven call levels hold the script, a module required by it, a module required by
that one, and no third require, so the stack limit is met inside a module; the
five calls are one with a vector and no count, one `playSound` that leaves out the
pitch, a `findObject` with its second argument, one that throws and one that
crashes; two `execute`s overlap or follow one
another after an uncaught error.
Two chunks of three have an end of chunk that ids reach and a cell they do not;
two changes free a cell and use it again under one search. Two emotes tell the one
that is remembered from one that plays on.
Every bound is a constant and named as such in its module.

Deadlock is not checked: in all models the player may stop, and the bounds stop
everything in the end.

Two runs end in a counterexample on purpose. They state what a comment of the
code says and the code does not do; see `findings` in `PROJECT.json`.

### Fairness

* `Session`: the game thread goes on with a handler it has entered, and each
  worker goes on; the operating system schedules them and neither waits for
  anything but the join, provided the engine's own functions return: a worker's call
  that waited for the game thread inside the game would not be seen. No event has
  to come.
* `CurlHook`: the thread that arms the hook, and each thread on the page (its
  fault, the handler, its hook), goes on. Nobody has to come to the page.
* `Loot`: the game thread goes on. Nobody has to open a container.
* `PlayerTick`: the engine ticks in every frame. Nobody has to move; an emote
  therefore ends *or* the player walks back *or* the button stays held over the
  last building (`EmotesEnd` names all three).
* `ObjectArray`: each searching thread goes on with its loop or its wait. Nobody
  has to search.
* `ScriptEngine`: a thread goes on with an error that is under way (`Unwind`);
  it waits for nobody. No script has to end.
* `Inventory`, `InventoryThreads`, `Abilities` claim no liveness.

## 4. Proofs

Assumptions are the named `ASSUME`s of the modules, about constants only, and
TLC evaluates them on its instances. Each proof has the same shape: an inductive
invariant `IInv` that contains the property, one lemma per part, one step per
action, `PTL` at the end.

* `InventoryProofs`. The alignment of the arrays is inductive once `Clean` is
  added: that with a heap that keeps the block no cell is garbage. All three
  heaps, any sizes: `moved`, which garbles so much that TLC cannot finish the
  run with it, is covered here only. What the slots show needs more (`GInv`):
  guids and pickup ids are handed out in order and never twice (`Numbered`,
  `PickupsDiffer`, `Differ`), no guid is in two slots (`SlotsDiffer`), a picked
  item is in one (`PickedAreSlotted`), a slot no script wrote holds one
  (`OnePerSlot`). `OneItemPerSlot`, `PickedItemsHaveOneSlot` and
  `SwapSparesSlotZero` follow, and each step is a step of `ItemExchange` or
  changes nothing it sees (`StepRefines`): that a taken pickup becomes exactly
  one new item rests on the ids being fresh. `StacksNeverMultiply` is about sums
  over finite sets, which the fold of the community modules defines by recursion:
  `Sums` is a function that satisfies its equation, shown to exist by taking a
  smallest set that has none, and a sum changes by the point that comes or goes.
  Each handler then has a lemma that balances what leaves the instances against
  what comes to the ground, garbage cells counting nothing.
* The last part of `InventoryProofs` is about `InventoryThreads`, the same arrays
  at a finer grain, which it extends too. Any scripts, kit, number of calls and of
  nested entries, early drops or none. `Stocked` (with `Placed`, where each thread
  can be) is why a pickup meets only threads of enclosing entries: the entries that
  have returned were inside those that still run, each had joined its thread, and
  the flag that lets pickups in is set by the first return. `SoundAlone` is not
  inductive: it says nothing of a thread halfway through an operation. `Alone` does:
  as long as no two have met, the one thread inside owns the array it is at, whose
  block holds what was there when it came, resized (`BusyOK`), while the other array
  still matches that or already the result; arrays match (`Match`) when they agree
  wherever both hold an item, and are equal if nothing was misread. `MemOK` keeps
  the two blocks apart from each other. Nothing more is assumed of the allocator
  than that it returns a block not in use.
* `SessionProofs`. Any depth, any set of nested events, any scripts. The
  guards are right because a flag implies the resources of all completed frames
  (`FlagsOK`), a frame's position implies the resources of the calls before it
  (`FramesOK`), and a frame past a join implies its workers are done
  (`WorkersOK`, `ThreadsOK`, `EntriesOK`). From the same invariant each step of
  `Session` is a step of `MatchPhases` or leaves its variables alone.
  `RanOK` (what ever ran is still on the stack, or has left its flag) is what
  `ReenteredOnlyFromInside` needs; `StockedFromDefinitions` follows from
  `ThreadsOK` and `FramesOK`: the worker's handler got in behind `bMatchStarted`.
* `CurlHookProofs`. Any set of threads. That the guard is up when nobody is
  stepping needs to know where each thread can be while the handler is absent
  (`ArmedFirst`, `AttachedAfterRemoval`, `RestoredClean`); that a crash needs a
  race follows the exceptions that are pending at `Unhook`.
* `AbilitiesProofs`. Any requests and scripts. `EffectHeld` says whose class is
  in the effect for how long; `InfiniteFirst` that the policy is written before
  it is applied; `WorkerInOrder` what the worker has granted so far. `ComponentFirst`
  says that a worker that has started has the component or read it too early.
* `PlayerTickProofs`. Every engine version, any places, pieces, emotes and
  vehicles. That a held button builds once needs `LastKnown`: the pair the code
  compares with is the last building of `Tick`, its class and, since buildings
  do not move, its place. That edits stay in place needs `PreviewKnown`, that
  only the old pawn plays on `EmoteKnown`: until the jump the player's is the first.
* `ScriptEngineProofs`. Any threads, modules, limit, names and calls. That an
  error jumps home needs to know, while no two scripts have overlapped, what
  every frame saved: the frame below it, and the lowest nothing (`SavedOK`); that
  the catchpoint is then the top frame, or an outer one while an error is on its
  way (`CatchOK`), with the levels between accounted for; and that the cache is
  loading exactly what the safe calls on the stack are for (`CacheOK`).
  `Alone` is those three for the one thread inside, or a quiet heap with nobody
  inside. `CallersAreHeard` is a lemma about `ScriptCalls`, `Optionals`, for
  argument lists of any length, carried by the type of `asked`.
* `LootProofs`. Any table, containers, groups, floor spots and number of clears.
  What is put down is from the table because the two arrays of a kind have the
  same length unless a script freed one of them or the count of the row at hand is
  still to come (`AddingTo`; a count is awaited only for a row that was taken,
  `AddingOK`), and hold one row wherever both can be read (`PairsOK`):
  after a script's clear the later rows are pushed at
  different positions, but then one of the blocks is gone for good and a read
  of it is a fault. That a searched chest is complete needs the indices drawn for
  it to be good still when they are used (`VisitOK`), and, without clears, that
  every row up to `step` was taken (`AllTaken`), so that the linear search for
  the weapon's ammo finds it. The proof showed that the property has to speak of
  the ammo the table *offers* (`AmmoOffered`: a row of weight at least 100 whose
  definition is found and is of the ammo class); a table that lists a weapon's
  ammo only as something else satisfies every guard of the code and gives none.
* `ObjectArrayProofs`. Every chunk size, number of chunks, contents and set of
  threads. Ids are mapped to cells in increasing order (`PlacesIncrease`), onto
  the visible ones (`VisiblePlace`); so a search has behind its index exactly
  what stood there (`Behind`), and an object freed under the comparison has not
  stood (`Compared`), whatever then comes of the thread.

Model-checked only: the liveness properties (`UsesEnd`, `LoadingEnds`,
`SearchesEnd`, `EmotesEnd`, `SearchesReturn`, `ErrorsLand`), which are out of the
prover's reach. The two runs that expect a violation have nothing to prove.

## 5. What is not modelled

* `Equip` and its preview markers.
* The value stack and the garbage collector once two scripts overlap: undefined
  behaviour with more outcomes than a shared catchpoint. Session's `fault =
  "interpreter"` only says that it has happened.
* The constructors `FVector` and `FRotator`, `console`, and the conversion of
  arrays: pure conversions, except for `clear`, which `Loot` has.
* That a missing module is an empty one: `ScriptEngine` has it so, no document
  says what `require` promises, and the message that does ("Module not found.",
  `ScriptFunctions.h:40`) is never sent.
* `FindOffset` and `FindBitFieldOffset`, which read one field of what a search
  found. (The latter compares a signed byte with 128, so the last bit of a byte is
  reported as bit 0.)
* A container opened by an event nested in its own opening, and the loot arrays
  prepared a second time by a nested entry of the loading handler.
* A script's clear in the middle of one `Add` on the same array: `InventoryThreads`
  shows what two threads in one array can do.
* Two threads in `CurlEasyHook2` at once: one thread makes the login's requests.
* What an event's handler without a guard reads before `Init` has set it (drops,
  building): `Session` only says that these handlers may come too early.
* The choice of the engine version and its offsets: `SetOffsets` is one step that
  succeeds. In the code a version whose patterns are not found goes on with null
  addresses (`OffsetInitialize.h:77-193`); the patterns are bytes of the game.
* Possession, skins, level set-up: single engine calls; `Session` keeps their
  order and what each needs.
* A second match in one process: no flag is ever reset.
* Server netcode: not compiled.
* Vendored code: 108 thousand of the 116 thousand lines under `src/` are Duktape,
  its configuration, curl's header and string and system-call headers. The
  modules have from them what this program's own behaviour rests on (about 500
  lines of Duktape's calls, errors and module loader); a model of the compiler
  and the interpreter would be a model of another project. Of the program's own
  seven thousand lines the map covers about a third; most of the rest are tables
  of offsets per engine version, structure declarations and single engine calls.

## 6. Plan

Order of work, most important first; done: 1 to 9.

1. `Inventory` with `ItemExchange`, then its proofs.
2. `Session` with `MatchPhases`, its proofs and the refinement.
3. `CurlHook` and its proofs.
4. `InventoryThreads`: the memory steps under the steps of `Inventory`.
5. `Abilities` and its proofs.
6. `Loot`.
7. `PlayerTick` and its proofs.
8. `ObjectArray` and its proofs.
9. `ScriptCalls`, `ScriptEngine` and its proofs: the value stack under each script
   function, errors, the require cache.
10. `Loot` entered from nested events, composed with `Session`'s stack.
11. `Equip` in `PlayerTick`, with the preview markers.
12. `Offsets`: the version detection and which offsets each version sets, composed
    with `CurlHook`'s step.
13. `ServerNetcode`, last, since it is not compiled.

Every safety invariant, action property and refinement the runs check is a
theorem. Theorems to come are those of the modules above.
