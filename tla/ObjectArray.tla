------------------------------ MODULE ObjectArray ------------------------------
(***************************************************************************)
(* The engine's array of all objects and the searches that run over it:    *)
(* GetObjectFromName stops at the first object whose name fits,            *)
(* SetupItemDefinitions collects every object of three classes.  A search  *)
(* reads cell by cell while other threads of the engine create objects,    *)
(* and, unless it is the game thread's, while the garbage collector        *)
(* destroys some.                                                          *)
(***************************************************************************)
EXTENDS Integers, Sequences

CONSTANTS
  ChunkSize,  \* FindObjectById's chunkSize, 0xFFFF
  Chunks,     \* bound: chunks the engine ever allocates, fewer than Objects[9]
  Starts,     \* what the array may hold when the program comes to it
  Users,      \* the threads that search
  GameThread, \* one of them, and the one that collects garbage
  MaxChanges  \* bound: objects created or destroyed while the searches run

ASSUME ArrayAssumption ==
  /\ ChunkSize \in Nat \ {0} /\ Chunks \in Nat \ {0}
  /\ GameThread \in Users /\ MaxChanges \in Nat
  /\ \A s \in Starts : /\ s \in Seq({"null", "other", "wanted"})
                        /\ Len(s) <= Chunks * (ChunkSize + 1)

(* The last cell of chunk 0 that FindObjectById reads is ChunkSize: that    *)
(* is the engine's last one, so a chunk has one cell more.                 *)
ChunkCells == ChunkSize + 1
Cells      == 0 .. Chunks * ChunkCells - 1
Kinds      == {"plain", "static", "all"}

(* Where a user is: "lost" in a loop over memory that was freed, and       *)
(* "crashed" there.                                                        *)
Places == {"idle", "scanning", "comparing", "waiting", "answered", "lost", "crashed"}

VARIABLES
  NewGObjectsPointer, \* whether the engine has chunks (4.21 and above)
  cell,         \* what is at each index: "null", an "other" object or a "wanted" one
  ObjectCount,  \* NumElements in engines without chunks; it only grows
  at,           \* where each user is
  kind,         \* what it searches for: one, one for a function's static, or all
  i,            \* the loop's index
  bound,        \* the ObjectCount the loop started with
  held,         \* the cell of CurrentObject, while its name is being compared
  freed,        \* CurrentObject was destroyed since it was read
  found,        \* the cells of the objects that fitted
  initialising, \* the function's static: "unset", "busy" or "done"
  cached,       \* its value, for ever
  stood,        \* history: the wanted cells untouched since the search began
  changes

array  == <<NewGObjectsPointer, cell, ObjectCount, changes>>
static == <<initialising, cached>>
search == <<at, kind, i, bound, held, freed, found>>
vars   == <<array, static, search, stood>>

TypeOK ==
  /\ NewGObjectsPointer \in BOOLEAN
  /\ cell \in [Cells -> {"null", "other", "wanted"}]
  /\ ObjectCount \in 0 .. Chunks * ChunkCells
  /\ at \in [Users -> Places]
  /\ kind \in [Users -> Kinds]
  /\ i \in [Users -> Nat] /\ bound \in [Users -> 0 .. Chunks * ChunkCells]
  /\ held \in [Users -> Cells] /\ freed \in [Users -> BOOLEAN]
  /\ found \in [Users -> Seq(Cells)]
  /\ initialising \in {"unset", "busy", "done"} /\ cached \in Seq(Cells)
  /\ stood \in [Users -> SUBSET Cells]
  /\ changes \in 0 .. MaxChanges

Init ==
  /\ NewGObjectsPointer \in BOOLEAN
  /\ \E s \in Starts :
       /\ ObjectCount = Len(s)
       /\ cell = [n \in Cells |-> IF n < Len(s) THEN s[n + 1] ELSE "null"]
  /\ at = [u \in Users |-> "idle"] /\ kind = [u \in Users |-> "plain"]
  /\ i = [u \in Users |-> 0] /\ bound = [u \in Users |-> 0]
  /\ held = [u \in Users |-> 0] /\ freed = [u \in Users |-> FALSE]
  /\ found = [u \in Users |-> <<>>]
  /\ initialising = "unset" /\ cached = <<>>
  /\ stood = [u \in Users |-> {}]
  /\ changes = 0

----------------------------------------------------------------------------
(* FindObjectById: the chunk of an id and the place in it, as one index.   *)
ChunkIndex_NoDecrement(id) == id \div ChunkSize

ChunkIndex(id) ==
  LET q == id \div ChunkSize
  IN  IF ChunkSize * q # 0 /\ ChunkSize * q = id THEN q - 1 ELSE q

Place(id) ==
  IF NewGObjectsPointer
  THEN ChunkIndex(id) * ChunkCells + (id - ChunkSize * ChunkIndex(id))
  ELSE id

(* NumChunks counts the chunks there are: the engine allocates them in     *)
(* order, as it needs them.                                                *)
HasChunk(k) == k * ChunkCells < ObjectCount

Readable(id) == NewGObjectsPointer => HasChunk(ChunkIndex(id))

(* What a search can see: with chunks it never reads the first cell of a   *)
(* chunk but the first.                                                    *)
Visible(n) == NewGObjectsPointer /\ n >= ChunkCells => n % ChunkCells # 0

----------------------------------------------------------------------------
(* The loop starts, with the count there is.                               *)
Start(u, k) ==
  /\ at' = [at EXCEPT ![u] = "scanning"]
  /\ kind' = [kind EXCEPT ![u] = k]
  /\ bound' = [bound EXCEPT ![u] = ObjectCount]
  /\ stood' = [stood EXCEPT ![u] = {n \in Cells : cell[n] = "wanted"}]
  /\ UNCHANGED <<array, i, held, freed, found>>

(* A search of its own: GetObjectFromName, or, on the game thread,         *)
(* SetupItemDefinitions.                                                   *)
Search(u, k) ==
  /\ at[u] = "idle" /\ k # "static"
  /\ k = "all" => u = GameThread
  /\ Start(u, k) /\ UNCHANGED static

(* static auto fn = GetObjectFromName(...): the first thread to get there  *)
(* searches, another waits for it, and later ones take its answer.         *)
InitialiseStatic(u) ==
  /\ at[u] = "idle" /\ initialising = "unset"
  /\ initialising' = "busy" /\ Start(u, "static")
  /\ UNCHANGED cached

WaitForStatic(u) ==
  /\ at[u] = "idle" /\ initialising = "busy"
  /\ at' = [at EXCEPT ![u] = "waiting"]
  /\ UNCHANGED <<array, static, kind, i, bound, held, freed, found, stood>>

TakeStatic(u) ==
  /\ at[u] \in {"idle", "waiting"} /\ initialising = "done"
  /\ at' = [at EXCEPT ![u] = "answered"]
  /\ kind' = [kind EXCEPT ![u] = "static"]
  /\ found' = [found EXCEPT ![u] = cached]
  /\ UNCHANGED <<array, static, i, bound, held, freed, stood>>

(* One round of the loop: CurrentObject, if there is one ...               *)
After_Stuck(id) == IF Readable(id) THEN id + 1 ELSE id
After(id)       == id + 1

Fetch(u) ==
  /\ at[u] = "scanning" /\ i[u] < bound[u]
  /\ IF Readable(i[u]) /\ cell[Place(i[u])] # "null"
     THEN /\ at' = [at EXCEPT ![u] = "comparing"]
          /\ held' = [held EXCEPT ![u] = Place(i[u])]
          /\ freed' = [freed EXCEPT ![u] = FALSE]
          /\ UNCHANGED i
     ELSE i' = [i EXCEPT ![u] = After(i[u])] /\ UNCHANGED <<at, held, freed>>
  /\ UNCHANGED <<array, static, kind, bound, found, stood>>

(* ... and what comparing its name or class says.  GetFullName follows the *)
(* Class of the object and its chain of Outers: if the object has been     *)
(* destroyed these are whatever is in its memory by now, so the name may   *)
(* still be there or be another, and the walk may read what is not mapped, *)
(* which ends the program, or go round in a circle of Outers for ever.     *)
Crashed == \E u \in Users : at[u] = "crashed"

WalkFreed(u) ==
  /\ at[u] = "comparing" /\ freed[u]
  /\ \E end \in {"lost", "crashed"} : at' = [at EXCEPT ![u] = end]
  /\ UNCHANGED <<array, static, kind, i, bound, held, freed, found, stood>>

Fits(u) == IF freed[u] THEN BOOLEAN ELSE {cell[held[u]] = "wanted"}

Answer(u, result) ==
  /\ at' = [at EXCEPT ![u] = "answered"]
  /\ found' = [found EXCEPT ![u] = result]
  /\ IF kind[u] = "static"
     THEN initialising' = "done" /\ cached' = result
     ELSE UNCHANGED static

Compare(u) ==
  /\ at[u] = "comparing"
  /\ \E fits \in Fits(u) :
       IF fits /\ kind[u] # "all"
       THEN Answer(u, <<held[u]>>) /\ UNCHANGED i
       ELSE /\ at' = [at EXCEPT ![u] = "scanning"]
            /\ i' = [i EXCEPT ![u] = @ + 1]
            /\ found' = [found EXCEPT ![u] = IF fits THEN Append(@, held[u]) ELSE @]
            /\ UNCHANGED static
  /\ UNCHANGED <<array, kind, bound, held, freed, stood>>

(* The loop ends: nullptr, or what was collected.                          *)
EndOfArray(u) ==
  /\ at[u] = "scanning" /\ i[u] >= bound[u]
  /\ Answer(u, found[u])
  /\ UNCHANGED <<array, kind, i, bound, held, freed, stood>>

----------------------------------------------------------------------------
(* The engine: a new object takes a free index or the next one; the        *)
(* collector runs on the game thread between its searches.                 *)
Create(n, what) ==
  /\ changes < MaxChanges /\ changes' = changes + 1
  /\ n <= ObjectCount /\ cell[n] = "null"
  /\ cell' = [cell EXCEPT ![n] = what]
  /\ ObjectCount' = IF n = ObjectCount THEN n + 1 ELSE ObjectCount
  /\ UNCHANGED <<NewGObjectsPointer, static, search, stood>>

Destroy(n) ==
  /\ changes < MaxChanges /\ changes' = changes + 1
  /\ cell[n] # "null" /\ at[GameThread] \in {"idle", "answered"}
  /\ cell' = [cell EXCEPT ![n] = "null"]
  /\ freed' = [u \in Users |-> freed[u] \/ (at[u] = "comparing" /\ held[u] = n)]
  /\ stood' = [u \in Users |-> stood[u] \ {n}]
  /\ UNCHANGED <<NewGObjectsPointer, ObjectCount, static, at, kind, i, bound, held, found>>

(* A thread that crashes takes the whole program with it.                  *)
Step(u) ==
  /\ ~Crashed
  /\ \/ at[u] = "waiting" /\ TakeStatic(u)
     \/ Fetch(u) \/ Compare(u) \/ WalkFreed(u) \/ EndOfArray(u)

User(u) ==
  \/ \E k \in Kinds : Search(u, k)
  \/ InitialiseStatic(u) \/ WaitForStatic(u) \/ TakeStatic(u)
  \/ Fetch(u) \/ Compare(u) \/ WalkFreed(u) \/ EndOfArray(u)

Engine ==
  \E n \in Cells : Destroy(n) \/ \E what \in {"other", "wanted"} : Create(n, what)

Next == ~Crashed /\ (Engine \/ \E u \in Users : User(u))

(* Every thread is scheduled; nobody has to search and nothing has to be   *)
(* created or destroyed.                                                   *)
Spec == Init /\ [][Next]_vars /\ \A u \in Users : WF_vars(Step(u))

----------------------------------------------------------------------------
(* Properties.                                                             *)

(* A search overlooks no visible object that was there all along, however  *)
(* the array changes under it: the one it returns comes before any such    *)
(* object, it returns none only if there was no such object, and           *)
(* SetupItemDefinitions collects them all, none of them twice.             *)
Before(u, n) == \E k \in DOMAIN found[u] : found[u][k] <= n
Among(u, n)  == \E k \in DOMAIN found[u] : found[u][k] = n

SearchesComplete ==
  \A u \in Users : at[u] = "answered" =>
    /\ \A n \in stood[u] : Visible(n) =>
         IF kind[u] = "all" THEN Among(u, n) ELSE Before(u, n)
    /\ \A k, l \in DOMAIN found[u] : found[u][k] = found[u][l] => k = l

(* A search ends, and so does a wait for a static.  There are two ways in   *)
(* which it does not, and each takes the collector destroying the object   *)
(* that another thread is comparing: that thread is lost in it, and so is  *)
(* then everybody who waits for the static it was searching for, or the    *)
(* program has crashed.  The game thread, which is the one that collects,  *)
(* is never lost in a search of its own.                                   *)
StaticLost == \E v \in Users : at[v] = "lost" /\ kind[v] = "static"

SearchesReturn ==
  \A u \in Users :
    at[u] \in {"scanning", "comparing", "waiting"} ~>
      \/ at[u] = "answered" \/ Crashed
      \/ at[u] = "lost" /\ u # GameThread
      \/ at[u] = "waiting" /\ StaticLost

=============================================================================
