-------------------------- MODULE InventoryThreads --------------------------
(***************************************************************************)
(* TArray::Add and TArray::Remove on ItemInstances and then ItemEntries,   *)
(* memory access by memory access, as the thread_inventory of each entry   *)
(* of OnLoadingScreenDropped, the game thread and the threads of scripts   *)
(* execute them with no lock: who can overlap whom, and what is left when  *)
(* nobody does.  Inventory has the same operations as single steps; the    *)
(* names of this specification begin with IT, so that a module can extend  *)
(* both.                                                                   *)
(***************************************************************************)
EXTENDS Naturals, FiniteSets, SequencesExt

CONSTANTS
  Scripts,     \* the script threads, each calling addToInventory once
  Stockers,    \* bound: thread_inventory of the first entry, of the second, ...
  EarlyDrop,   \* the engine delivers a drop inside OnLoadingScreenDropped
  KitSize,     \* items Inventory() creates
  MaxHandled,  \* bound: pickups and drops the game thread handles
  MaxThreads   \* bound: threads that come to the arrays in one run

ASSUME InventoryThreadsAssumption ==
  /\ EarlyDrop \in BOOLEAN /\ KitSize \in Nat /\ MaxHandled \in Nat /\ MaxThreads \in Nat
  /\ Stockers \in Seq(ToSet(Stockers))
  /\ \A m, n \in DOMAIN Stockers : Stockers[m] = Stockers[n] => m = n
  /\ Scripts \cap ToSet(Stockers) = {} /\ "game" \notin Scripts \cup ToSet(Stockers)

Threads == Scripts \cup ToSet(Stockers) \cup {"game"}
Arrays  == {"ItemInstances", "ItemEntries"}

VARIABLES
  heap,      \* the blocks ever allocated: sequences of cells
  freed,     \* the blocks that realloc has given back
  Data,      \* each array's block; one without cells is the null pointer
  Count,     \* each array's Count
  at,        \* where each thread is: [op, array, step]
  arg,       \* the item a thread adds, or the position it removes
  reg,       \* its locals: what realloc returned, an index read, for Remove the old block
  calls,     \* operations begun, per thread
  entered,   \* how often OnLoadingScreenDropped was entered
  loading,   \* the entries that still run: each inside those before it
  bLoadingScreenDropped,
  overlapped, \* two threads were inside operations at once (history)
  misread,   \* a Remove copied a cell whose memory had been reused (history)
  fault      \* the memory error that ended it, or "none"

mem  == <<heap, freed, Data, Count>>
load == <<entered, loading, bLoadingScreenDropped>>
itvars == <<mem, at, arg, reg, calls, load, overlapped, misread, fault>>

Idle    == [op |-> "none", array |-> "ItemInstances", step |-> "idle"]
Busy(t) == at[t].op # "none"
NoReg   == [old |-> <<>>, from |-> 1, new |-> 1, index |-> 0]
Unset   == <<>>                 \* a cell never written, or of reused memory

(* Items are numbered by who adds them and when.                           *)
ItemOf(t) == <<t, calls[t] + 1>>

ITTypeOK ==
  /\ \A b \in DOMAIN heap : heap[b] \in Seq({Unset} \cup (Threads \X Nat))
  /\ freed \subseteq DOMAIN heap
  /\ Data \in [Arrays -> DOMAIN heap] /\ Count \in [Arrays -> Nat]
  /\ at \in [Threads -> [op : {"none", "add", "remove"}, array : Arrays,
                         step : {"idle", "realloc", "assign", "index", "store", "copy"}]]
  /\ calls \in [Threads -> 0 .. KitSize + MaxHandled + 1]
  /\ entered \in 0 .. Len(Stockers) /\ loading \subseteq 1 .. entered
  /\ bLoadingScreenDropped \in BOOLEAN /\ misread \in BOOLEAN
  /\ overlapped \in BOOLEAN
  /\ fault \in {"none", "doubleFree", "overrun", "garbageRead"}

ITInit ==
  /\ heap = <<<<>>, <<>>>> /\ freed = {}
  /\ Data = [a \in Arrays |-> IF a = "ItemInstances" THEN 1 ELSE 2]
  /\ Count = [a \in Arrays |-> 0]
  /\ at = [t \in Threads |-> Idle]
  /\ arg = [t \in Threads |-> Unset]
  /\ reg = [t \in Threads |-> NoReg]
  /\ calls = [t \in Threads |-> 0]
  /\ entered = 0 /\ loading = {} /\ bLoadingScreenDropped = FALSE
  /\ overlapped = FALSE /\ misread = FALSE /\ fault = "none"

----------------------------------------------------------------------------
(* Who calls AddToInventory and Remove, and when.                          *)
PickupGuard == bLoadingScreenDropped

StockingDone(n)  == calls[Stockers[n]] = KitSize /\ ~Busy(Stockers[n])

Joined_Unwaited(n) == TRUE
Joined(n)          == StockingDone(n)

MayAdd(t) ==
  \/ t \in {Stockers[n] : n \in 1 .. entered} /\ calls[t] < KitSize
  \/ t = "game" /\ calls[t] < MaxHandled /\ PickupGuard
  \/ t \in Scripts /\ calls[t] < 1

MayRemove(t) ==
  t = "game" /\ calls[t] < MaxHandled /\ (EarlyDrop \/ bLoadingScreenDropped)

(* Somebody else is inside an operation at the same time.                  *)
Meets(t) == \E u \in Threads \ {t} : Busy(u)

Enter(t, op, x) ==
  /\ fault = "none" /\ ~Busy(t)
  /\ Cardinality({u \in Threads : calls[u] > 0} \cup {t}) <= MaxThreads
  /\ at' = [at EXCEPT ![t] = [op |-> op, array |-> "ItemInstances", step |-> "realloc"]]
  /\ arg' = [arg EXCEPT ![t] = x]
  /\ calls' = [calls EXCEPT ![t] = @ + 1]
  /\ overlapped' = (overlapped \/ Meets(t))
  /\ UNCHANGED <<mem, reg, load, misread, fault>>

EnterAdd(t) == MayAdd(t) /\ Enter(t, "add", ItemOf(t))

CellAt(a, i) ==
  IF Data[a] \notin freed /\ i <= Len(heap[Data[a]]) THEN heap[Data[a]][i] ELSE Unset
Content(a) == [i \in 1 .. Count[a] |-> CellAt(a, i)]

(* Any position at which the search for the guid may have found an item.   *)
EnterRemove(t) ==
  /\ MayRemove(t)
  /\ \E i \in 1 .. Count["ItemInstances"] :
       CellAt("ItemInstances", i) # Unset /\ Enter(t, "remove", i)

(* The handlers of pickups and drops call GetGuid on the instances, maybe  *)
(* while somebody is changing the array; on a cell that holds none it may  *)
(* end the program.                                                        *)
SearchGarbage ==
  /\ fault = "none" /\ ~Busy("game") /\ (MayAdd("game") \/ MayRemove("game"))
  /\ Unset \in ToSet(Content("ItemInstances"))
  /\ fault' = "garbageRead" /\ overlapped' = (overlapped \/ Meets("game"))
  /\ UNCHANGED <<mem, at, arg, reg, calls, load, misread>>

(* OnLoadingScreenDropped starts its thread.  Until the flag is set the    *)
(* event is accepted again, inside the handler that is running.            *)
EnterLoading ==
  /\ fault = "none" /\ ~Busy("game") /\ ~bLoadingScreenDropped
  /\ entered < Len(Stockers)
  /\ entered' = entered + 1 /\ loading' = loading \cup {entered + 1}
  /\ UNCHANGED <<mem, at, arg, reg, calls, bLoadingScreenDropped, overlapped, misread, fault>>

(* The innermost entry joins its own thread and returns, and the           *)
(* dispatcher sets the flag, on the game thread.                           *)
FinishLoading(n) ==
  /\ fault = "none" /\ ~Busy("game")
  /\ n \in loading /\ \A m \in loading : m <= n
  /\ Joined(n)
  /\ bLoadingScreenDropped' = TRUE /\ loading' = loading \ {n}
  /\ UNCHANGED <<mem, at, arg, reg, calls, entered, overlapped, misread, fault>>

----------------------------------------------------------------------------
(* The steps of TArray::Add and TArray::Remove on array at[t].array.       *)
In(t, op, step) == fault = "none" /\ at[t].op = op /\ at[t].step = step
Goto(t, step)   == at' = [at EXCEPT ![t].step = step]

(* After ItemInstances comes ItemEntries, after that the operation ends.   *)
EntriesToo_Never(a) == FALSE
EntriesToo(a)       == a = "ItemInstances"

ArrayDone(t) ==
  /\ at' = [at EXCEPT ![t] = IF EntriesToo(at[t].array)
                             THEN [@ EXCEPT !.array = "ItemEntries", !.step = "realloc"]
                             ELSE Idle]
  /\ reg' = [reg EXCEPT ![t] = NoReg]
  /\ arg' = IF EntriesToo(at[t].array) THEN arg ELSE [arg EXCEPT ![t] = Unset]

Fail(f) == fault' = f /\ UNCHANGED <<mem, at, arg, reg>>

Resized(block, n) == [i \in 1 .. n |-> IF i <= Len(block) THEN block[i] ELSE Unset]

(* Add asks for Count + 1 cells, Remove for Count - 1.                     *)
NewSize(t) == IF at[t].op = "add" THEN Count[at[t].array] + 1
              ELSE Count[at[t].array] - 1

(* realloc keeps the block or moves it and frees the old one; from the     *)
(* null pointer it allocates, and down to no cell it frees.                *)
Realloc(t) ==
  /\ fault = "none" /\ at[t].step = "realloc"
  /\ LET p == Data[at[t].array]
     IN  \/ p \in freed /\ Fail("doubleFree")
         \/ /\ p \notin freed
            /\ at[t].op = "remove" /\ Count[at[t].array] = 0
            /\ Fail("overrun")
         \/ /\ p \notin freed
            /\ at[t].op = "remove" => Count[at[t].array] > 0
            /\ \E q \in {p, Len(heap) + 1} :
                 /\ reg' = [reg EXCEPT ![t] =
                              IF at[t].op = "add" THEN [NoReg EXCEPT !.new = q]
                              ELSE [old |-> heap[p], from |-> p, new |-> q, index |-> 0]]
                 /\ IF q = p
                    THEN /\ heap[p] # <<>> /\ NewSize(t) > 0
                         /\ heap' = [heap EXCEPT ![p] = Resized(@, NewSize(t))]
                         /\ UNCHANGED freed
                    ELSE /\ heap' = Append([heap EXCEPT ![p] = <<>>],
                                           Resized(heap[p], NewSize(t)))
                         /\ freed' = IF heap[p] = <<>> THEN freed ELSE freed \cup {p}
            /\ Goto(t, "assign")
            /\ UNCHANGED <<Data, Count, arg, fault>>
  /\ UNCHANGED <<calls, load, overlapped, misread>>

Assign(t) ==
  /\ fault = "none" /\ at[t].step = "assign"
  /\ Data' = [Data EXCEPT ![at[t].array] = reg[t].new]
  /\ reg' = [reg EXCEPT ![t].new = NoReg.new]
  /\ Goto(t, IF at[t].op = "add" THEN "index" ELSE "copy")
  /\ UNCHANGED <<heap, freed, Count, arg, calls, load, overlapped, misread, fault>>

(* Data[Count++] = InputData; Max = Count: Count is read, then all written. *)
ReadIndex(t) ==
  /\ In(t, "add", "index")
  /\ reg' = [reg EXCEPT ![t].index = Count[at[t].array]]
  /\ Goto(t, "store")
  /\ UNCHANGED <<mem, arg, calls, load, overlapped, misread, fault>>

StoredCount(k)      == k + 1

Store(t) ==
  /\ In(t, "add", "store")
  /\ LET a == at[t].array
         k == reg[t].index
     IN  IF Data[a] \in freed \/ k >= Len(heap[Data[a]]) THEN Fail("overrun")
         ELSE /\ heap' = [heap EXCEPT ![Data[a]][k + 1] = arg[t]]
              /\ Count' = [Count EXCEPT ![a] = StoredCount(k)]
              /\ ArrayDone(t)
              /\ UNCHANGED <<freed, Data, fault>>
  /\ UNCHANGED <<calls, load, overlapped, misread>>

(* The loop copies every cell but the removed one down, reading each from  *)
(* the old address: a cell that realloc took from the block holds what it  *)
(* held, or anything, if its memory is in use again by then.               *)
Reclaimed(t, k) == reg[t].from \in freed \/ k > Len(heap[reg[t].from])

OldCell(t, k) ==
  IF ~Reclaimed(t, k) THEN heap[reg[t].from][k]
  ELSE IF k <= Len(reg[t].old) THEN reg[t].old[k] ELSE Unset

Kept(t) ==
  LET n == Count[at[t].array]
  IN  IF arg[t] <= n THEN n - 1 ELSE n

CopyDown(t) ==
  /\ In(t, "remove", "copy")
  /\ LET a == at[t].array
         risked == {k \in (1 .. Count[a]) \ {arg[t]} : Reclaimed(t, k)}
         Source(j) == IF j < arg[t] THEN j ELSE j + 1
     IN  IF Data[a] \in freed \/ Kept(t) > Len(heap[Data[a]])
         THEN Fail("overrun") /\ UNCHANGED misread
         ELSE \E reused \in SUBSET risked :
                /\ heap' = [heap EXCEPT ![Data[a]] =
                             [j \in DOMAIN @ |->
                                IF j > Kept(t) THEN @[j]
                                ELSE IF Source(j) \in reused THEN Unset
                                ELSE OldCell(t, Source(j))]]
                /\ misread' = (misread \/ reused # {})
                /\ Count' = [Count EXCEPT ![a] = @ - 1]
                /\ ArrayDone(t)
                /\ UNCHANGED <<freed, Data, fault>>
  /\ UNCHANGED <<calls, load, overlapped>>

Step(t) == Realloc(t) \/ Assign(t) \/ ReadIndex(t) \/ Store(t) \/ CopyDown(t)

ITNext ==
  \/ EnterLoading \/ SearchGarbage
  \/ \E n \in loading : FinishLoading(n)
  \/ \E t \in Threads : EnterAdd(t) \/ EnterRemove(t) \/ Step(t)

ITSpec == ITInit /\ [][ITNext]_itvars

----------------------------------------------------------------------------
(* Properties.                                                             *)

Quiet == \A t \in Threads : ~Busy(t)

(* As long as no two threads were inside operations at once, nothing is    *)
(* freed twice or overrun, and between operations the two arrays are       *)
(* parallel: each has as many cells as it counts, and cells that hold      *)
(* items hold the same one.  What a thread alone can lose is cells that    *)
(* Remove read too late, and only then a handler reads garbage: if there   *)
(* were none, the arrays are equal and every cell is an item.              *)
SoundAlone ==
  ~overlapped =>
    /\ fault \in {"none", "garbageRead"}
    /\ Quiet =>
         /\ \A a \in Arrays : Data[a] \notin freed /\ Count[a] = Len(heap[Data[a]])
         /\ Count["ItemInstances"] = Count["ItemEntries"]
         /\ \A i \in 1 .. Count["ItemInstances"] :
              LET x == CellAt("ItemInstances", i)
                  y == CellAt("ItemEntries", i)
              IN  Unset \notin {x, y} => x = y
    /\ ~misread =>
         /\ fault = "none"
         /\ Quiet => /\ Content("ItemInstances") = Content("ItemEntries")
                     /\ Unset \notin ToSet(Content("ItemInstances"))

(* The guard of ServerHandlePickup and the join keep a pickup and          *)
(* thread_inventory apart, but for the nested entries: a pickup finds the  *)
(* kit of an entry that has returned stocked, and a thread that is still   *)
(* stocking belongs to an entry that runs around that one.                 *)
StockingUndisturbed ==
  at["game"].op = "add" =>
    \E m \in (1 .. entered) \ loading :
      /\ StockingDone(m)
      /\ \A n \in 1 .. entered : ~StockingDone(n) => n \in loading /\ n < m

=============================================================================
