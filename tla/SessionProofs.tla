---------------------------- MODULE SessionProofs ----------------------------
(***************************************************************************)
(* Proofs about Session, for any set of nested events, any set of script   *)
(* threads and any depth of nesting.  ReadyOnceLoaded is not inductive: it *)
(* needs to know what a handler half way through has set up (FrameOK),     *)
(* what a thread half way through has (WorkersOK), and that the entry      *)
(* numbers of the handlers on the stack are fresh (EntriesOK).  That a     *)
(* handler never runs again after its return needs RanOK: what ever ran    *)
(* is still on the stack or has left its flag.                             *)
(***************************************************************************)
EXTENDS Session, SequenceTheorems, TLAPS

InitResources == {"Controller", "PlayerPawn", "ItemDefinitions", "DukContext",
                  "ScriptFunctions"}
WorkerResources == {"Inventory", "EditTool", "AbilitySystemComponent", "Abilities"}

(* What a handler that has made f.step calls has set up among h, and which *)
(* of the flags started and loaded let it in.                              *)
FrameOK(f, h, started, loaded) ==
  /\ f.event = "ReadyToStartMatch" =>
       /\ f.step <= 6
       /\ f.step >= 1 => "Controller" \in h
       /\ f.step >= 2 => "PlayerPawn" \in h
       /\ f.step >= 3 => "ItemDefinitions" \in h
       /\ f.step >= 5 => "DukContext" \in h
       /\ f.step >= 6 => "ScriptFunctions" \in h
  /\ f.event = "LoadingScreenDropped" =>
       /\ f.step <= 3 /\ started = TRUE
       /\ f.step >= 2 => "LootArrays" \in h
       /\ f.step >= 3 => "FloorLoot" \in h
  /\ f.event = "ExitedDropZone" => f.step <= 2 /\ loaded = TRUE

FramesOK ==
  \A i \in 1 .. Len(stack) :
    FrameOK(stack[i], have, bMatchStarted, bLoadingScreenDropped)

(* Entry numbers have been counted, and no two frames share one.           *)
EntriesOK ==
  /\ \A i \in 1 .. Len(stack) : stack[i].entry <= runs[stack[i].event]
  /\ \A i, j \in 1 .. Len(stack) :
       stack[i].event = stack[j].event /\ stack[i].entry = stack[j].entry => i = j

(* What the threads of every entry of OnLoadingScreenDropped have set up.  *)
WorkersOK ==
  \A n \in Entries : n <= runs["LoadingScreenDropped"] =>
    /\ bMatchStarted
    /\ worker[<<"thread_inventory", n>>] <= 1 => "Inventory" \in have
    /\ worker[<<"thread_inventory", n>>] = 0 => "EditTool" \in have
    /\ worker[<<"thread_abilities", n>>] <= 1 => "AbilitySystemComponent" \in have
    /\ worker[<<"thread_abilities", n>>] = 0 => "Abilities" \in have

(* A thread that still runs was started by a handler still on the stack.   *)
ThreadsOK ==
  \A w \in Workers, n \in Entries :
    worker[<<w, n>>] > 0 =>
      \E i \in 1 .. Len(stack) :
        stack[i].event = "LoadingScreenDropped" /\ stack[i].entry = n

FlagsOK ==
  /\ bMatchStarted => InitResources \subseteq have
  /\ bLoadingScreenDropped => bMatchStarted /\ have = Resources
  /\ bJumpedFromBus => bLoadingScreenDropped

IInv ==
  /\ TypeOK /\ FramesOK /\ EntriesOK /\ WorkersOK /\ ThreadsOK /\ FlagsOK
  /\ GuardedNeverTooEarly

----------------------------------------------------------------------------
(* A handler is entered: its frame is pushed.                              *)
LEMMA PushFrame ==
  ASSUME stack \in Seq(Frame), NEW f \in Frame, stack' = Append(stack, f)
  PROVE  /\ Len(stack) \in Nat
         /\ stack' \in Seq(Frame) /\ Len(stack') = Len(stack) + 1
         /\ \A i \in 1 .. Len(stack) : stack'[i] = stack[i]
         /\ stack'[Len(stack) + 1] = f
<1>1. Len(stack) \in Nat
  BY LenProperties
<1> QED
  BY <1>1, SMT

(* The frames below the top one are untouched when a handler returns.      *)
LEMMA PopFrame ==
  ASSUME stack \in Seq(Frame), stack # <<>>, stack' = Rest
  PROVE  /\ Len(stack) \in Nat \ {0} /\ Top \in Frame
         /\ stack' \in Seq(Frame) /\ Len(stack') = Len(stack) - 1
         /\ \A i \in 1 .. Len(stack) - 1 : stack'[i] = stack[i]
<1>1. Len(stack) \in Nat \ {0}
  BY EmptySeq
<1>2. Top \in Frame
  BY <1>1, ElementOfSeq DEF Top
<1>3. \A i \in 1 .. Len(stack) - 1 : stack[i] \in Frame
  BY <1>1, ElementOfSeq
<1>4. Len(stack) - 1 \in Nat
  BY <1>1
<1>5. Rest \in Seq(Frame) /\ Len(Rest) = Len(stack) - 1
  BY <1>3, <1>4 DEF Rest
<1>6. \A i \in 1 .. Len(stack) - 1 : Rest[i] = stack[i]
  BY DEF Rest
<1> QED
  BY <1>1, <1>2, <1>5, <1>6, Zenon

(* A handler's next call returns: only its own frame changes.              *)
LEMMA AdvanceFrame ==
  ASSUME stack \in Seq(Frame), stack # <<>>, Top.step < 6,
         stack' = [stack EXCEPT ![Len(stack)].step = @ + 1]
  PROVE  /\ Len(stack) \in Nat \ {0} /\ Top \in Frame
         /\ stack' \in Seq(Frame) /\ Len(stack') = Len(stack)
         /\ \A i \in 1 .. Len(stack) - 1 : stack'[i] = stack[i]
         /\ stack'[Len(stack)] = [Top EXCEPT !.step = @ + 1]
<1>1. Len(stack) \in Nat \ {0}
  BY EmptySeq
<1>2. Top \in Frame
  BY <1>1, ElementOfSeq DEF Top
<1> DEFINE f == [Top EXCEPT !.step = @ + 1]
<1>3. f \in Frame
  BY <1>2 DEF Frame
<1>4. stack' = [stack EXCEPT ![Len(stack)] = f]
  BY Zenon DEF Top
<1>5. Len(stack) \in 1 .. Len(stack)
  BY <1>1
<1> HIDE DEF f
<1>7. /\ [stack EXCEPT ![Len(stack)] = f] \in Seq(Frame)
      /\ Len([stack EXCEPT ![Len(stack)] = f]) = Len(stack)
      /\ \A j \in 1 .. Len(stack) :
           [stack EXCEPT ![Len(stack)] = f][j] = IF j = Len(stack) THEN f ELSE stack[j]
  BY <1>3, <1>5, ExceptSeq
<1>6. /\ stack' \in Seq(Frame) /\ Len(stack') = Len(stack)
      /\ \A j \in 1 .. Len(stack) :
           stack'[j] = IF j = Len(stack) THEN f ELSE stack[j]
  BY <1>4, <1>7, Zenon
<1> QED
  BY <1>1, <1>2, <1>5, <1>6 DEF f

(* What a frame claims stays true as resources are set up...               *)
LEMMA FrameKeepsHave ==
  ASSUME NEW f, NEW h, NEW h2, NEW s, NEW d, FrameOK(f, h, s, d), h \subseteq h2
  PROVE  FrameOK(f, h2, s, d)
BY Zenon DEF FrameOK

(* ... and as flags are set.                                               *)
LEMMA FrameKeepsFlags ==
  ASSUME NEW f, NEW h, NEW s, NEW s2, NEW d, NEW d2,
         FrameOK(f, h, s, d), s = TRUE => s2 = TRUE, d = TRUE => d2 = TRUE
  PROVE  FrameOK(f, h, s2, d2)
BY Zenon DEF FrameOK

(* The call a frame makes next sets up what the frame's next step claims.  *)
LEMMA FrameAdvances ==
  ASSUME NEW f \in Frame, NEW h, NEW s, NEW d, FrameOK(f, h, s, d),
         f.step < Len(Steps(f.event))
  PROVE  /\ FrameOK([f EXCEPT !.step = @ + 1],
                    h \cup Steps(f.event)[f.step + 1], s, d)
         /\ Steps(f.event)[f.step + 1] \subseteq Resources
         /\ f.step < 6
<1> DEFINE g == [f EXCEPT !.step = @ + 1]
<1>0. g.event = f.event /\ g.step = f.step + 1 /\ f.step \in 0 .. 6
  BY DEF Frame
<1>1. CASE f.event = "ReadyToStartMatch"
  <2>1. Steps(f.event) = InitSteps
    BY <1>1 DEF Steps
  <2>2. f.step \in 0 .. 5
    BY <1>0, <2>1 DEF InitSteps
  <2>3. /\ f.step = 0 => InitSteps[f.step + 1] = {"Controller"}
        /\ f.step = 1 => InitSteps[f.step + 1] = {"PlayerPawn"}
        /\ f.step = 2 => InitSteps[f.step + 1] = {"ItemDefinitions"}
        /\ f.step = 3 => InitSteps[f.step + 1] = {}
        /\ f.step = 4 => InitSteps[f.step + 1] = {"DukContext"}
        /\ f.step = 5 => InitSteps[f.step + 1] = {"ScriptFunctions"}
    BY <2>2 DEF InitSteps
  <2> HIDE DEF g
  <2>4. FrameOK(g, h \cup InitSteps[f.step + 1], s, d)
    BY <1>0, <1>1, <2>2, <2>3, SMT DEF FrameOK
  <2>5. InitSteps[f.step + 1] \subseteq Resources
    BY <2>2, <2>3 DEF Resources
  <2> QED
    BY <2>1, <2>2, <2>4, <2>5 DEF g
<1>2. CASE f.event = "LoadingScreenDropped"
  <2>1. Steps(f.event) = LoadSteps
    BY <1>2 DEF Steps
  <2>2. f.step \in 0 .. 2
    BY <1>0, <2>1 DEF LoadSteps
  <2>3. /\ f.step = 0 => LoadSteps[f.step + 1] = {}
        /\ f.step = 1 => LoadSteps[f.step + 1] = {"LootArrays"}
        /\ f.step = 2 => LoadSteps[f.step + 1] = {"FloorLoot"}
    BY <2>2 DEF LoadSteps
  <2> HIDE DEF g
  <2>4. FrameOK(g, h \cup LoadSteps[f.step + 1], s, d)
    BY <1>0, <1>2, <2>2, <2>3, SMT DEF FrameOK
  <2>5. LoadSteps[f.step + 1] \subseteq Resources
    BY <2>2, <2>3 DEF Resources
  <2> QED
    BY <2>1, <2>2, <2>4, <2>5 DEF g
<1>3. CASE f.event = "ExitedDropZone"
  <2>1. Steps(f.event) = JumpSteps
    BY <1>3 DEF Steps
  <2>2. f.step \in 0 .. 1
    BY <1>0, <2>1 DEF JumpSteps
  <2>3. /\ f.step = 0 => JumpSteps[f.step + 1] = {"PlayerPawn"}
        /\ f.step = 1 => JumpSteps[f.step + 1] = {}
    BY <2>2 DEF JumpSteps
  <2> HIDE DEF g
  <2>4. FrameOK(g, h \cup JumpSteps[f.step + 1], s, d)
    BY <1>0, <1>3, <2>2, <2>3, SMT DEF FrameOK
  <2>5. JumpSteps[f.step + 1] \subseteq Resources
    BY <2>2, <2>3 DEF Resources
  <2> QED
    BY <2>1, <2>2, <2>4, <2>5 DEF g
<1> QED
  BY <1>1, <1>2, <1>3 DEF Frame, LongEvents

(* Initially nothing runs and nothing is set up.                           *)
LEMMA InitIInv == Init => IInv
<1> SUFFICES ASSUME Init PROVE IInv
  OBVIOUS
<1> USE SessionAssumption DEF Init
<1>1. stack \in Seq(Frame) /\ Len(stack) = 0
  BY EmptySeq
<1>2. TypeOK
  <2>1. MaxDepth \in Nat
    BY Zenon
  <2>2. have \subseteq Resources /\ fault \in {"none"}
    BY Zenon
  <2>3. worker \in [Workers \X Entries -> 0 .. 2]
    OBVIOUS
  <2>4. runs \in [LongEvents -> 0 .. MaxDepth]
    BY <2>1
  <2>5. script \in [ScriptThreads -> {"off", "started", "evaluating", "done"}]
    OBVIOUS
  <2>6. Len(stack) <= MaxDepth
    BY <1>1, <2>1
  <2> QED
    BY <1>1, <2>2, <2>3, <2>4, <2>5, <2>6, Zenon DEF TypeOK
<1>3. FramesOK /\ EntriesOK /\ ThreadsOK
  BY <1>1 DEF FramesOK, EntriesOK, ThreadsOK, Entries
<1>4. WorkersOK
  <2>1. runs["LoadingScreenDropped"] = 0
    BY DEF LongEvents
  <2> QED
    BY <2>1 DEF WorkersOK, Entries
<1>5. FlagsOK /\ GuardedNeverTooEarly
  BY DEF FlagsOK, GuardedNeverTooEarly
<1> QED
  BY <1>2, <1>3, <1>4, <1>5 DEF IInv

----------------------------------------------------------------------------
(* The types as the steps use them.                                        *)
LEMMA Types ==
  ASSUME TypeOK
  PROVE  /\ MaxDepth \in Nat \ {0}
         /\ stack \in Seq(Frame) /\ Len(stack) \in Nat /\ Len(stack) <= MaxDepth
         /\ \A i \in 1 .. Len(stack) : stack[i] \in Frame
         /\ \A e \in LongEvents : runs[e] \in 0 .. MaxDepth
         /\ \A w \in Workers, n \in Entries : worker[<<w, n>>] \in 0 .. 2
<1>1. MaxDepth \in Nat \ {0}
  BY SessionAssumption, Zenon
<1>2. stack \in Seq(Frame) /\ Len(stack) <= MaxDepth
  BY DEF TypeOK
<1>3. Len(stack) \in Nat /\ \A i \in 1 .. Len(stack) : stack[i] \in Frame
  BY <1>2, LenProperties, ElementOfSeq
<1>4. \A e \in LongEvents : runs[e] \in 0 .. MaxDepth
  BY DEF TypeOK
<1>5. \A w \in Workers, n \in Entries : worker[<<w, n>>] \in 0 .. 2
  BY DEF TypeOK
<1> QED
  BY <1>1, <1>2, <1>3, <1>4, <1>5

(* Entering a handler keeps the invariant: its entry number is new, and    *)
(* OnLoadingScreenDropped is entered only in a started match.              *)
LEMMA EnterKeeps ==
  ASSUME IInv, NEW e \in LongEvents, EnterHandler(e)
  PROVE  IInv'
<1> DEFINE f == [event |-> e, step |-> 0, entry |-> runs[e] + 1]
<1>t. TypeOK /\ FramesOK /\ EntriesOK /\ WorkersOK /\ ThreadsOK /\ FlagsOK
      /\ GuardedNeverTooEarly
  BY DEF IInv
<1>a. /\ CanDeliver(e) /\ LongAccepts(e) /\ runs[e] < MaxDepth
      /\ stack' = Append(stack, f)
      /\ runs' = [runs EXCEPT ![e] = @ + 1]
      /\ worker' = [we \in Workers \X Entries |->
                      IF e = "LoadingScreenDropped" /\ we[2] = runs[e] + 1
                      THEN 2 ELSE worker[we]]
      /\ UNCHANGED <<flags, have, script, fault>>
  BY DEF EnterHandler
<1>b. /\ MaxDepth \in Nat \ {0}
      /\ stack \in Seq(Frame) /\ Len(stack) \in Nat /\ Len(stack) <= MaxDepth
      /\ \A i \in 1 .. Len(stack) : stack[i] \in Frame
      /\ \A x \in LongEvents : runs[x] \in 0 .. MaxDepth
      /\ \A w \in Workers, n \in Entries : worker[<<w, n>>] \in 0 .. 2
  BY <1>t, Types
<1>f. f \in Frame /\ f.event = e /\ f.step = 0 /\ f.entry = runs[e] + 1
  BY <1>a, <1>b DEF Frame, Entries
<1> HIDE DEF f
<1>p. /\ stack' \in Seq(Frame) /\ Len(stack') = Len(stack) + 1
      /\ \A i \in 1 .. Len(stack) : stack'[i] = stack[i]
      /\ stack'[Len(stack) + 1] = f
  BY <1>a, <1>b, <1>f, PushFrame, Zenon
<1>r. /\ runs' \in [LongEvents -> 0 .. MaxDepth]
      /\ runs'[e] = runs[e] + 1
      /\ \A x \in LongEvents : x # e => runs'[x] = runs[x]
  BY <1>a, <1>b, <1>t DEF TypeOK
<1>w. /\ worker' \in [Workers \X Entries -> 0 .. 2]
      /\ \A w \in Workers, n \in Entries :
           worker'[<<w, n>>] = IF e = "LoadingScreenDropped" /\ n = runs[e] + 1
                               THEN 2 ELSE worker[<<w, n>>]
  BY <1>a, <1>b, <1>t DEF TypeOK
<1>u. have' = have /\ fault' = fault /\ script' = script
      /\ bMatchStarted' = bMatchStarted
      /\ bLoadingScreenDropped' = bLoadingScreenDropped
      /\ bJumpedFromBus' = bJumpedFromBus
  BY <1>a DEF flags
<1>1. TypeOK'
  <2>1. Len(stack') <= MaxDepth
    <3>1. CASE stack = <<>>
      BY <3>1, <1>b, <1>p, EmptySeq
    <3>2. CASE Len(stack) < MaxDepth
      BY <3>2, <1>b, <1>p
    <3> QED
      BY <3>1, <3>2, <1>a DEF CanDeliver
  <2> QED
    BY <2>1, <1>p, <1>r, <1>w, <1>u, <1>t, Zenon DEF TypeOK
<1>2. FramesOK'
  <2> SUFFICES ASSUME NEW i \in 1 .. Len(stack')
               PROVE  FrameOK(stack'[i], have, bMatchStarted, bLoadingScreenDropped)
    BY <1>u, Zenon DEF FramesOK
  <2>1. CASE i \in 1 .. Len(stack)
    BY <2>1, <1>t, <1>p, Zenon DEF FramesOK
  <2>2. CASE i = Len(stack) + 1
    <3>1. e = "LoadingScreenDropped" => bMatchStarted = TRUE
      BY <1>a, <1>t DEF LongAccepts, LoadGuard, TypeOK
    <3>2. e = "ExitedDropZone" => bLoadingScreenDropped = TRUE
      BY <1>a, <1>t DEF LongAccepts, TypeOK
    <3>3. FrameOK(f, have, bMatchStarted, bLoadingScreenDropped)
      BY <3>1, <3>2, <1>f, SMT DEF FrameOK
    <3> QED
      BY <2>2, <3>3, <1>p, Zenon
  <2> QED
    BY <2>1, <2>2, <1>b, <1>p
<1>3. EntriesOK'
  <2>1. \A i \in 1 .. Len(stack) : stack[i].event \in LongEvents
                                  /\ stack[i].entry \in Nat
    BY <1>b DEF Frame, Entries
  <2>2. ASSUME NEW i \in 1 .. Len(stack')
        PROVE  stack'[i].entry <= runs'[stack'[i].event]
    <3>1. CASE i \in 1 .. Len(stack)
      <4>1. stack[i].entry <= runs[stack[i].event]
        BY <3>1, <1>t DEF EntriesOK
      <4>2. runs[stack[i].event] <= runs'[stack[i].event]
        BY <3>1, <2>1, <1>b, <1>r
      <4>3. runs[stack[i].event] \in Nat /\ runs'[stack[i].event] \in Nat
        BY <3>1, <2>1, <1>b, <1>r
      <4> QED
        BY <3>1, <4>1, <4>2, <4>3, <2>1, <1>p
    <3>2. CASE i = Len(stack) + 1
      BY <3>2, <1>b, <1>f, <1>p, <1>r
    <3> QED
      BY <3>1, <3>2, <1>b, <1>p
  <2>3. ASSUME NEW i \in 1 .. Len(stack'), NEW j \in 1 .. Len(stack'),
               stack'[i].event = stack'[j].event,
               stack'[i].entry = stack'[j].entry
        PROVE  i = j
    <3>1. CASE i \in 1 .. Len(stack) /\ j \in 1 .. Len(stack)
      BY <3>1, <2>3, <1>t, <1>p DEF EntriesOK
    <3>2. CASE i = Len(stack) + 1 /\ j \in 1 .. Len(stack)
      BY <3>2, <2>1, <2>3, <1>t, <1>b, <1>f, <1>p, SMT DEF EntriesOK
    <3>3. CASE j = Len(stack) + 1 /\ i \in 1 .. Len(stack)
      BY <3>3, <2>1, <2>3, <1>t, <1>b, <1>f, <1>p, SMT DEF EntriesOK
    <3> QED
      BY <3>1, <3>2, <3>3, <1>b, <1>p
  <2> QED
    BY <2>2, <2>3 DEF EntriesOK
<1>4. WorkersOK'
  <2> SUFFICES ASSUME NEW n \in Entries, n <= runs'["LoadingScreenDropped"]
               PROVE  /\ bMatchStarted
                      /\ worker'[<<"thread_inventory", n>>] <= 1 => "Inventory" \in have
                      /\ worker'[<<"thread_inventory", n>>] = 0 => "EditTool" \in have
                      /\ worker'[<<"thread_abilities", n>>] <= 1
                           => "AbilitySystemComponent" \in have
                      /\ worker'[<<"thread_abilities", n>>] = 0 => "Abilities" \in have
    BY <1>u, Zenon DEF WorkersOK
  <2>0. "thread_inventory" \in Workers /\ "thread_abilities" \in Workers
        /\ "LoadingScreenDropped" \in LongEvents /\ n \in Nat
    BY <1>b DEF Workers, LongEvents, Entries
  <2>1. CASE e = "LoadingScreenDropped" /\ n = runs[e] + 1
    <3>1. bMatchStarted
      BY <2>1, <1>a DEF LongAccepts, LoadGuard
    <3>2. worker'[<<"thread_inventory", n>>] = 2 /\ worker'[<<"thread_abilities", n>>] = 2
      BY <2>0, <2>1, <1>w
    <3> QED
      BY <3>1, <3>2
  <2>2. CASE ~(e = "LoadingScreenDropped" /\ n = runs[e] + 1)
    <3>1. n <= runs["LoadingScreenDropped"]
      BY <2>0, <2>2, <1>b, <1>r
    <3>2. /\ worker'[<<"thread_inventory", n>>] = worker[<<"thread_inventory", n>>]
          /\ worker'[<<"thread_abilities", n>>] = worker[<<"thread_abilities", n>>]
      BY <2>0, <2>2, <1>w
    <3> QED
      BY <3>1, <3>2, <1>t, Zenon DEF WorkersOK
  <2> QED
    BY <2>1, <2>2
<1>5. ThreadsOK'
  <2> SUFFICES ASSUME NEW w \in Workers, NEW n \in Entries, worker'[<<w, n>>] > 0
               PROVE  \E i \in 1 .. Len(stack') :
                        /\ stack'[i].event = "LoadingScreenDropped"
                        /\ stack'[i].entry = n
    BY DEF ThreadsOK
  <2>1. CASE e = "LoadingScreenDropped" /\ n = runs[e] + 1
    <3>1. Len(stack) + 1 \in 1 .. Len(stack')
      BY <1>b, <1>p
    <3> QED
      BY <2>1, <3>1, <1>f, <1>p
  <2>2. CASE ~(e = "LoadingScreenDropped" /\ n = runs[e] + 1)
    <3>1. worker[<<w, n>>] > 0
      BY <2>2, <1>w
    <3>2. PICK i \in 1 .. Len(stack) :
            stack[i].event = "LoadingScreenDropped" /\ stack[i].entry = n
      BY <3>1, <1>t DEF ThreadsOK
    <3>3. i \in 1 .. Len(stack')
      BY <1>b, <1>p
    <3> QED
      BY <3>2, <3>3, <1>p
  <2> QED
    BY <2>1, <2>2
<1>6. FlagsOK' /\ GuardedNeverTooEarly'
  BY <1>t, <1>u, Zenon DEF FlagsOK, GuardedNeverTooEarly
<1> QED
  BY <1>1, <1>2, <1>3, <1>4, <1>5, <1>6 DEF IInv

(* A call made by the handler on top keeps the invariant, and always finds *)
(* what it uses.                                                           *)
LEMMA HandlerStepKeeps ==
  ASSUME IInv, HandlerStep
  PROVE  IInv'
<1> DEFINE f == [Top EXCEPT !.step = @ + 1]
<1> DEFINE new == Steps(Top.event)[Top.step + 1]
<1>t. TypeOK /\ FramesOK /\ EntriesOK /\ WorkersOK /\ ThreadsOK /\ FlagsOK
      /\ GuardedNeverTooEarly
  BY DEF IInv
<1>b. /\ stack \in Seq(Frame) /\ Len(stack) \in Nat /\ Len(stack) <= MaxDepth
      /\ \A i \in 1 .. Len(stack) : stack[i] \in Frame
  BY <1>t, Types
<1>n. stack # <<>> /\ Len(stack) \in 1 .. Len(stack)
  BY <1>b, EmptySeq DEF HandlerStep
<1>k. Top \in Frame /\ FrameOK(Top, have, bMatchStarted, bLoadingScreenDropped)
  BY <1>b, <1>n, <1>t DEF FramesOK, Top
<1>v. /\ FrameOK(f, have \cup new, bMatchStarted, bLoadingScreenDropped)
      /\ new \subseteq Resources
      /\ Top.step < 6
  BY <1>k, FrameAdvances DEF HandlerStep
<1>x. Needs(Top.event) \subseteq have
  <2>1. CASE Top.event = "ReadyToStartMatch"
    BY <2>1 DEF Needs
  <2>2. CASE Top.event = "LoadingScreenDropped"
    <3>1. bMatchStarted
      BY <2>2, <1>k DEF FrameOK
    <3>2. Needs(Top.event) = {"Controller", "PlayerPawn"}
      BY <2>2 DEF Needs
    <3> QED
      BY <3>1, <3>2, <1>t DEF FlagsOK, InitResources
  <2>3. CASE Top.event = "ExitedDropZone"
    <3>1. bLoadingScreenDropped
      BY <2>3, <1>k DEF FrameOK
    <3>2. Needs(Top.event) = {"Controller", "Inventory"}
      BY <2>3 DEF Needs
    <3> QED
      BY <3>1, <3>2, <1>t DEF FlagsOK, Resources
  <2> QED
    BY <2>1, <2>2, <2>3, <1>k DEF Frame, LongEvents
<1>a. /\ have' = have \cup new
      /\ stack' = [stack EXCEPT ![Len(stack)].step = @ + 1]
      /\ fault' = fault /\ worker' = worker /\ script' = script /\ runs' = runs
      /\ bMatchStarted' = bMatchStarted
      /\ bLoadingScreenDropped' = bLoadingScreenDropped
      /\ bJumpedFromBus' = bJumpedFromBus
  BY <1>x DEF HandlerStep, flags
<1>p. /\ stack' \in Seq(Frame) /\ Len(stack') = Len(stack)
      /\ \A i \in 1 .. Len(stack) - 1 : stack'[i] = stack[i]
      /\ stack'[Len(stack)] = f
  BY <1>a, <1>b, <1>n, <1>v, AdvanceFrame, Zenon
<1>e. \A i \in 1 .. Len(stack) : /\ stack'[i].event = stack[i].event
                                /\ stack'[i].entry = stack[i].entry
  <2> SUFFICES ASSUME NEW i \in 1 .. Len(stack)
               PROVE  /\ stack'[i].event = stack[i].event
                      /\ stack'[i].entry = stack[i].entry
    OBVIOUS
  <2>1. CASE i = Len(stack)
    <3>1. f.event = Top.event /\ f.entry = Top.entry
      BY <1>k DEF Frame
    <3> QED
      BY <2>1, <3>1, <1>p, Zenon DEF Top
  <2>2. CASE i \in 1 .. Len(stack) - 1
    BY <2>2, <1>p, Zenon
  <2> QED
    BY <2>1, <2>2, <1>b
<1> HIDE DEF f, new
<1>h. have \subseteq have' /\ have' \subseteq Resources
  BY <1>a, <1>v, <1>t DEF TypeOK
<1>1. TypeOK'
  BY <1>a, <1>b, <1>h, <1>p, <1>t, Zenon DEF TypeOK
<1>2. FramesOK'
  <2> SUFFICES ASSUME NEW i \in 1 .. Len(stack)
               PROVE  FrameOK(stack'[i], have', bMatchStarted, bLoadingScreenDropped)
    BY <1>a, <1>p, Zenon DEF FramesOK
  <2>1. CASE i = Len(stack)
    BY <2>1, <1>a, <1>p, <1>v, Zenon
  <2>2. CASE i \in 1 .. Len(stack) - 1
    <3>1. FrameOK(stack[i], have, bMatchStarted, bLoadingScreenDropped)
      BY <1>t DEF FramesOK
    <3>2. FrameOK(stack[i], have', bMatchStarted, bLoadingScreenDropped)
      BY <3>1, <1>h, FrameKeepsHave
    <3> QED
      BY <2>2, <3>2, <1>p, Zenon
  <2> QED
    BY <2>1, <2>2, <1>b
<1>3. EntriesOK'
  BY <1>a, <1>e, <1>p, <1>t, Zenon DEF EntriesOK
<1>4. WorkersOK'
  BY <1>a, <1>h, <1>t, Zenon DEF WorkersOK
<1>5. ThreadsOK'
  BY <1>a, <1>e, <1>p, <1>t, Zenon DEF ThreadsOK
<1>6. FlagsOK' /\ GuardedNeverTooEarly'
  BY <1>a, <1>h, <1>t DEF FlagsOK, GuardedNeverTooEarly
<1> QED
  BY <1>1, <1>2, <1>3, <1>4, <1>5, <1>6 DEF IInv

(* What a returning handler leaves for the phase its flag opens.           *)
LEMMA ReturnPromises ==
  ASSUME IInv, HandlerReturn
  PROVE  /\ Top.event = "ReadyToStartMatch" => InitResources \subseteq have
         /\ Top.event = "LoadingScreenDropped" => bMatchStarted /\ have = Resources
         /\ Top.event = "ExitedDropZone" => bLoadingScreenDropped
<1>t. TypeOK /\ FramesOK /\ EntriesOK /\ WorkersOK /\ ThreadsOK /\ FlagsOK
      /\ GuardedNeverTooEarly
  BY DEF IInv
<1>b. /\ stack \in Seq(Frame) /\ Len(stack) \in Nat /\ Len(stack) <= MaxDepth
      /\ \A i \in 1 .. Len(stack) : stack[i] \in Frame
      /\ MaxDepth \in Nat \ {0}
      /\ \A x \in LongEvents : runs[x] \in 0 .. MaxDepth
      /\ \A w \in Workers, n \in Entries : worker[<<w, n>>] \in 0 .. 2
  BY <1>t, Types
<1>n. stack # <<>> /\ Len(stack) \in 1 .. Len(stack)
  BY <1>b, EmptySeq DEF HandlerReturn
<1>a. /\ Top.step = Len(Steps(Top.event))
      /\ Top.event = "LoadingScreenDropped" => Joined(Top.entry)
      /\ bMatchStarted' = (bMatchStarted \/ Top.event = "ReadyToStartMatch")
      /\ bLoadingScreenDropped' =
           (bLoadingScreenDropped \/ Top.event = "LoadingScreenDropped")
      /\ bJumpedFromBus' = (bJumpedFromBus \/ Top.event = "ExitedDropZone")
      /\ stack' = Rest
      /\ have' = have /\ worker' = worker /\ script' = script /\ runs' = runs
      /\ fault' = fault
  BY DEF HandlerReturn
<1>k. /\ Top \in Frame /\ Top.entry <= runs[Top.event]
      /\ FrameOK(Top, have, bMatchStarted, bLoadingScreenDropped)
  BY <1>b, <1>n, <1>t DEF FramesOK, EntriesOK, Top
<1>s. bMatchStarted \in BOOLEAN /\ bLoadingScreenDropped \in BOOLEAN
      /\ bJumpedFromBus \in BOOLEAN /\ have \subseteq Resources
  BY <1>t DEF TypeOK
<1>d. Top.event = "ReadyToStartMatch" => InitResources \subseteq have
  <2> SUFFICES ASSUME Top.event = "ReadyToStartMatch"
               PROVE  InitResources \subseteq have
    OBVIOUS
  <2>1. Top.step = 6
    <3>1. Steps(Top.event) = InitSteps
      BY DEF Steps
    <3> QED
      BY <3>1, <1>a DEF InitSteps
  <2> QED
    BY <2>1, <1>k DEF FrameOK, InitResources
<1>l. Top.event = "LoadingScreenDropped" => bMatchStarted /\ have = Resources
  <2> SUFFICES ASSUME Top.event = "LoadingScreenDropped"
               PROVE  bMatchStarted /\ have = Resources
    OBVIOUS
  <2>1. Top.step = 3
    <3>1. Steps(Top.event) = LoadSteps
      BY DEF Steps
    <3> QED
      BY <3>1, <1>a DEF LoadSteps
  <2>2. bMatchStarted /\ "LootArrays" \in have /\ "FloorLoot" \in have
    BY <2>1, <1>k DEF FrameOK
  <2>3. InitResources \subseteq have
    BY <2>2, <1>t DEF FlagsOK
  <2>4. WorkerResources \subseteq have
    <3>1. Top.entry \in Entries /\ Top.entry <= runs["LoadingScreenDropped"]
      BY <1>k DEF Frame
    <3>2. /\ worker[<<"thread_inventory", Top.entry>>] = 0
          /\ worker[<<"thread_abilities", Top.entry>>] = 0
      BY <1>a DEF Joined, Workers
    <3>3. "Inventory" \in have /\ "EditTool" \in have
          /\ "AbilitySystemComponent" \in have /\ "Abilities" \in have
      BY <3>1, <3>2, <1>t DEF WorkersOK
    <3> QED
      BY <3>3 DEF WorkerResources
  <2> QED
    BY <2>2, <2>3, <2>4, <1>s DEF InitResources, WorkerResources, Resources
<1>j. Top.event = "ExitedDropZone" => bLoadingScreenDropped
  BY <1>k DEF FrameOK
<1> QED
  BY <1>d, <1>l, <1>j

(* When a handler returns, what its phase promises is there; when          *)
(* OnLoadingScreenDropped does, both its threads have ended.               *)
LEMMA HandlerReturnKeeps ==
  ASSUME IInv, HandlerReturn
  PROVE  IInv'
<1>t. TypeOK /\ FramesOK /\ EntriesOK /\ WorkersOK /\ ThreadsOK /\ FlagsOK
      /\ GuardedNeverTooEarly
  BY DEF IInv
<1>b. /\ stack \in Seq(Frame) /\ Len(stack) \in Nat /\ Len(stack) <= MaxDepth
      /\ \A i \in 1 .. Len(stack) : stack[i] \in Frame
      /\ MaxDepth \in Nat \ {0}
      /\ \A x \in LongEvents : runs[x] \in 0 .. MaxDepth
      /\ \A w \in Workers, n \in Entries : worker[<<w, n>>] \in 0 .. 2
  BY <1>t, Types
<1>n. stack # <<>> /\ Len(stack) \in 1 .. Len(stack)
  BY <1>b, EmptySeq DEF HandlerReturn
<1>a. /\ Top.step = Len(Steps(Top.event))
      /\ Top.event = "LoadingScreenDropped" => Joined(Top.entry)
      /\ bMatchStarted' = (bMatchStarted \/ Top.event = "ReadyToStartMatch")
      /\ bLoadingScreenDropped' =
           (bLoadingScreenDropped \/ Top.event = "LoadingScreenDropped")
      /\ bJumpedFromBus' = (bJumpedFromBus \/ Top.event = "ExitedDropZone")
      /\ stack' = Rest
      /\ have' = have /\ worker' = worker /\ script' = script /\ runs' = runs
      /\ fault' = fault
  BY DEF HandlerReturn
<1>p. /\ stack' \in Seq(Frame) /\ Len(stack') = Len(stack) - 1
      /\ \A i \in 1 .. Len(stack) - 1 : stack'[i] = stack[i]
  BY <1>a, <1>b, <1>n, PopFrame, Zenon
<1>q. \A i \in 1 .. Len(stack') : i \in 1 .. Len(stack) /\ stack'[i] = stack[i]
  BY <1>b, <1>p
<1>g. /\ bMatchStarted = TRUE => bMatchStarted' = TRUE
      /\ bLoadingScreenDropped = TRUE => bLoadingScreenDropped' = TRUE
  BY <1>a
<1>1. TypeOK'
  <2>1. bMatchStarted' \in BOOLEAN /\ bLoadingScreenDropped' \in BOOLEAN
        /\ bJumpedFromBus' \in BOOLEAN
    BY <1>a
  <2>2. Len(stack') <= MaxDepth
    BY <1>b, <1>p
  <2> QED
    BY <2>1, <2>2, <1>a, <1>p, <1>t, Zenon DEF TypeOK
<1>2. FramesOK'
  <2> SUFFICES ASSUME NEW i \in 1 .. Len(stack')
               PROVE  FrameOK(stack'[i], have', bMatchStarted', bLoadingScreenDropped')
    BY Zenon DEF FramesOK
  <2>1. FrameOK(stack[i], have, bMatchStarted, bLoadingScreenDropped)
    BY <1>q, <1>t, Zenon DEF FramesOK
  <2>2. FrameOK(stack[i], have, bMatchStarted', bLoadingScreenDropped')
    BY <2>1, <1>g, FrameKeepsFlags
  <2> QED
    BY <2>2, <1>a, <1>q, Zenon
<1>3. EntriesOK'
  <2>1. \A i \in 1 .. Len(stack') : stack'[i].entry <= runs'[stack'[i].event]
    BY <1>a, <1>q, <1>t DEF EntriesOK
  <2>2. ASSUME NEW i \in 1 .. Len(stack'), NEW j \in 1 .. Len(stack'),
               stack'[i].event = stack'[j].event,
               stack'[i].entry = stack'[j].entry
        PROVE  i = j
    BY <2>2, <1>q, <1>t, Zenon DEF EntriesOK
  <2> QED
    BY <2>1, <2>2 DEF EntriesOK
<1>4. WorkersOK'
  BY <1>a, <1>t DEF WorkersOK
<1>5. ThreadsOK'
  <2> SUFFICES ASSUME NEW w \in Workers, NEW n \in Entries, worker[<<w, n>>] > 0
               PROVE  \E i \in 1 .. Len(stack') :
                        /\ stack'[i].event = "LoadingScreenDropped"
                        /\ stack'[i].entry = n
    BY <1>a, Zenon DEF ThreadsOK
  <2>1. PICK i \in 1 .. Len(stack) :
          stack[i].event = "LoadingScreenDropped" /\ stack[i].entry = n
    BY <1>t DEF ThreadsOK
  <2>2. i # Len(stack)
    <3> SUFFICES ASSUME i = Len(stack) PROVE FALSE
      OBVIOUS
    <3>1. Joined(n)
      BY <2>1, <1>a DEF Top
    <3> QED
      BY <3>1 DEF Joined
  <2>3. i \in 1 .. Len(stack')
    BY <2>1, <2>2, <1>b, <1>p
  <2> QED
    BY <2>1, <2>3, <1>q
<1>6. FlagsOK'
  BY <1>a, <1>t, ReturnPromises DEF FlagsOK
<1>7. GuardedNeverTooEarly'
  BY <1>a, <1>t DEF GuardedNeverTooEarly
<1> QED
  BY <1>1, <1>2, <1>3, <1>4, <1>5, <1>6, <1>7 DEF IInv

(* A thread's step keeps the invariant, and always finds what it uses.     *)
LEMMA WorkerStepKeeps ==
  ASSUME IInv, NEW w \in Workers, NEW n \in Entries, WorkerStep(w, n)
  PROVE  IInv'
<1> DEFINE piece == WorkerPiece(w, worker[<<w, n>>])
<1>t. TypeOK /\ FramesOK /\ EntriesOK /\ WorkersOK /\ ThreadsOK /\ FlagsOK
      /\ GuardedNeverTooEarly
  BY DEF IInv
<1>b. /\ stack \in Seq(Frame) /\ Len(stack) \in Nat /\ Len(stack) <= MaxDepth
      /\ \A x \in Workers, m \in Entries : worker[<<x, m>>] \in 0 .. 2
      /\ worker \in [Workers \X Entries -> 0 .. 2]
  BY <1>t, Types DEF TypeOK
<1>w. worker[<<w, n>>] \in 1 .. 2
  BY <1>b DEF WorkerStep, Unfinished
<1>i. PICK i \in 1 .. Len(stack) :
        stack[i].event = "LoadingScreenDropped" /\ stack[i].entry = n
  BY <1>t, <1>w DEF ThreadsOK
<1>s. bMatchStarted
  BY <1>i, <1>t DEF FramesOK, FrameOK
<1>x. WorkerNeeds(w) \subseteq have
  BY <1>s, <1>t DEF FlagsOK, InitResources, WorkerNeeds
<1>a. /\ have' = have \cup {piece}
      /\ worker' = [worker EXCEPT ![<<w, n>>] = @ - 1]
      /\ fault' = fault /\ stack' = stack /\ script' = script /\ runs' = runs
      /\ bMatchStarted' = bMatchStarted
      /\ bLoadingScreenDropped' = bLoadingScreenDropped
      /\ bJumpedFromBus' = bJumpedFromBus
  BY <1>x DEF WorkerStep, flags
<1>c. piece \in Resources
  BY DEF WorkerPiece, Resources
<1>h. have \subseteq have' /\ have' \subseteq Resources
  BY <1>a, <1>c, <1>t DEF TypeOK
<1>v. /\ worker' \in [Workers \X Entries -> 0 .. 2]
      /\ worker'[<<w, n>>] = worker[<<w, n>>] - 1
      /\ \A x \in Workers, m \in Entries :
           <<x, m>> # <<w, n>> => worker'[<<x, m>>] = worker[<<x, m>>]
  BY <1>a, <1>b, <1>w
<1>1. TypeOK'
  BY <1>a, <1>h, <1>t, <1>v, Zenon DEF TypeOK
<1>2. FramesOK'
  <2> SUFFICES ASSUME NEW j \in 1 .. Len(stack)
               PROVE  FrameOK(stack[j], have', bMatchStarted, bLoadingScreenDropped)
    BY <1>a, Zenon DEF FramesOK
  <2>1. FrameOK(stack[j], have, bMatchStarted, bLoadingScreenDropped)
    BY <1>t DEF FramesOK
  <2> QED
    BY <2>1, <1>h, FrameKeepsHave
<1>3. EntriesOK'
  BY <1>a, <1>t DEF EntriesOK
<1>4. WorkersOK'
  <2> SUFFICES ASSUME NEW m \in Entries, m <= runs["LoadingScreenDropped"]
               PROVE  /\ bMatchStarted
                      /\ worker'[<<"thread_inventory", m>>] <= 1 => "Inventory" \in have'
                      /\ worker'[<<"thread_inventory", m>>] = 0 => "EditTool" \in have'
                      /\ worker'[<<"thread_abilities", m>>] <= 1
                           => "AbilitySystemComponent" \in have'
                      /\ worker'[<<"thread_abilities", m>>] = 0 => "Abilities" \in have'
    BY <1>a, Zenon DEF WorkersOK
  <2>0. "thread_inventory" \in Workers /\ "thread_abilities" \in Workers
    BY DEF Workers
  <2>1. /\ worker[<<"thread_inventory", m>>] <= 1 => "Inventory" \in have'
        /\ worker[<<"thread_inventory", m>>] = 0 => "EditTool" \in have'
        /\ worker[<<"thread_abilities", m>>] <= 1 => "AbilitySystemComponent" \in have'
        /\ worker[<<"thread_abilities", m>>] = 0 => "Abilities" \in have'
    BY <1>h, <1>t DEF WorkersOK
  <2>2. CASE m # n
    BY <2>0, <2>1, <2>2, <1>s, <1>v
  <2>3. CASE m = n /\ w = "thread_inventory"
    <3>1. worker'[<<"thread_abilities", m>>] = worker[<<"thread_abilities", m>>]
      BY <2>0, <2>3, <1>v
    <3>2. worker[<<w, n>>] = 2 => "Inventory" \in have'
      BY <2>3, <1>a DEF WorkerPiece
    <3>3. worker[<<w, n>>] = 1 => "EditTool" \in have'
      BY <2>3, <1>a DEF WorkerPiece
    <3> QED
      BY <2>1, <2>3, <3>1, <3>2, <3>3, <1>s, <1>v, <1>w
  <2>4. CASE m = n /\ w = "thread_abilities"
    <3>1. worker'[<<"thread_inventory", m>>] = worker[<<"thread_inventory", m>>]
      BY <2>0, <2>4, <1>v
    <3>2. worker[<<w, n>>] = 2 => "AbilitySystemComponent" \in have'
      BY <2>4, <1>a DEF WorkerPiece
    <3>3. worker[<<w, n>>] = 1 => "Abilities" \in have'
      BY <2>4, <1>a DEF WorkerPiece
    <3> QED
      BY <2>1, <2>4, <3>1, <3>2, <3>3, <1>s, <1>v, <1>w
  <2> QED
    BY <2>2, <2>3, <2>4 DEF Workers
<1>5. ThreadsOK'
  <2> SUFFICES ASSUME NEW x \in Workers, NEW m \in Entries, worker'[<<x, m>>] > 0
               PROVE  \E k \in 1 .. Len(stack) :
                        /\ stack[k].event = "LoadingScreenDropped"
                        /\ stack[k].entry = m
    BY <1>a, Zenon DEF ThreadsOK
  <2>1. worker[<<x, m>>] > 0
    BY <1>v, <1>w
  <2> QED
    BY <2>1, <1>t DEF ThreadsOK
<1>6. FlagsOK' /\ GuardedNeverTooEarly'
  BY <1>a, <1>h, <1>t DEF FlagsOK, GuardedNeverTooEarly
<1> QED
  BY <1>1, <1>2, <1>3, <1>4, <1>5, <1>6 DEF IInv

(* The other steps change only the scripts and the fault: a handler that   *)
(* finds nothing set up is one the dispatcher does not guard.              *)
LEMMA OtherStepKeeps ==
  ASSUME IInv,
         \/ \E e \in ShortEvents : HandleTooEarly(e)
         \/ \E s \in ScriptThreads : StartScript(s) \/ EvalScript(s) \/ ScriptDone(s)
         \/ InterpreterRace
         \/ UNCHANGED vars
  PROVE  IInv'
<1>t. TypeOK /\ FramesOK /\ EntriesOK /\ WorkersOK /\ ThreadsOK /\ FlagsOK
      /\ GuardedNeverTooEarly
  BY DEF IInv
<1>a. /\ stack' = stack /\ have' = have /\ worker' = worker /\ runs' = runs
      /\ bMatchStarted' = bMatchStarted
      /\ bLoadingScreenDropped' = bLoadingScreenDropped
      /\ bJumpedFromBus' = bJumpedFromBus
  BY Zenon DEF HandleTooEarly, StartScript, EvalScript, ScriptDone,
     InterpreterRace, vars, flags
<1>f. fault' \in {fault, "script", "interpreter"} \cup UnguardedEvents
  <2>1. ASSUME NEW e \in ShortEvents, HandleTooEarly(e)
        PROVE  fault' \in UnguardedEvents
    <3> SUFFICES ASSUME e \in GuardedEvents PROVE FALSE
      BY <2>1 DEF HandleTooEarly, ShortEvents
    <3>1. have = Resources
      BY <2>1, <1>t DEF HandleTooEarly, ShortAccepts, FlagsOK
    <3>2. Needs(e) \subseteq Resources
      BY DEF Needs, GuardedEvents, Resources
    <3> QED
      BY <2>1, <3>1, <3>2 DEF HandleTooEarly
  <2>2. ASSUME NEW s \in ScriptThreads,
               StartScript(s) \/ EvalScript(s) \/ ScriptDone(s)
        PROVE  fault' \in {fault, "script"}
    BY <2>2 DEF StartScript, EvalScript, ScriptDone
  <2>3. InterpreterRace => fault' = "interpreter"
    BY DEF InterpreterRace
  <2>4. UNCHANGED vars => fault' = fault
    BY DEF vars
  <2> QED
    BY <2>1, <2>2, <2>3, <2>4, Zenon
<1>g. GuardedNeverTooEarly'
  BY <1>f, <1>t DEF GuardedNeverTooEarly
<1>s. script' \in [ScriptThreads -> {"off", "started", "evaluating", "done"}]
  <2>0. script \in [ScriptThreads -> {"off", "started", "evaluating", "done"}]
    BY <1>t DEF TypeOK
  <2>1. ASSUME NEW s \in ScriptThreads,
               StartScript(s) \/ EvalScript(s) \/ ScriptDone(s)
        PROVE  script' \in [ScriptThreads -> {"off", "started", "evaluating", "done"}]
    BY <2>0, <2>1 DEF StartScript, EvalScript, ScriptDone
  <2>2. (InterpreterRace \/ UNCHANGED vars
          \/ \E e \in ShortEvents : HandleTooEarly(e)) => script' = script
    BY Zenon DEF InterpreterRace, HandleTooEarly, vars
  <2> QED
    BY <2>0, <2>1, <2>2, Zenon
<1>y. fault' \in {"none", "script", "interpreter"} \cup Events \cup Workers
  BY <1>g DEF GuardedNeverTooEarly, Events, ShortEvents
<1>1. TypeOK'
  BY <1>a, <1>s, <1>t, <1>y, Zenon DEF TypeOK
<1>2. FramesOK' /\ EntriesOK' /\ WorkersOK' /\ ThreadsOK' /\ FlagsOK'
  BY <1>a, <1>t, Zenon DEF FramesOK, EntriesOK, WorkersOK, ThreadsOK, FlagsOK
<1> QED
  BY <1>1, <1>2, <1>g DEF IInv

(* Every step keeps the invariant.                                         *)
LEMMA StepIInv == IInv /\ [Next]_vars => IInv'
<1> SUFFICES ASSUME IInv, [Next]_vars PROVE IInv'
  OBVIOUS
<1>1. ASSUME NEW e \in LongEvents, EnterHandler(e) PROVE IInv'
  BY <1>1, EnterKeeps
<1>2. CASE HandlerStep
  BY <1>2, HandlerStepKeeps
<1>3. CASE HandlerReturn
  BY <1>3, HandlerReturnKeeps
<1>4. ASSUME NEW w \in Workers, NEW n \in Entries, WorkerStep(w, n) PROVE IInv'
  BY <1>4, WorkerStepKeeps
<1>5. CASE \/ \E e \in ShortEvents : HandleTooEarly(e)
           \/ \E s \in ScriptThreads :
                StartScript(s) \/ EvalScript(s) \/ ScriptDone(s)
           \/ InterpreterRace
           \/ UNCHANGED vars
  BY <1>5, OtherStepKeeps
<1> QED
  BY <1>1, <1>2, <1>3, <1>4, <1>5, Zenon DEF Next

(* IInv is an invariant.                                                   *)
LEMMA Invariance == Spec => []IInv
<1>1. Init => IInv
  BY InitIInv
<1>2. IInv /\ [Next]_vars => IInv'
  BY StepIInv
<1> QED
  BY <1>1, <1>2, PTL DEF Spec

(* The variables of the dispatcher and its handlers keep their types.      *)
THEOREM TypeCorrect == Spec => []TypeOK
<1>1. IInv => TypeOK
  BY DEF IInv
<1> QED
  BY <1>1, Invariance, PTL

(* When the dispatcher's bLoadingScreenDropped is set everything its       *)
(* guarded handlers use has been set up, whatever events the engine nests. *)
THEOREM LoadedIsReady == Spec => []ReadyOnceLoaded
<1>1. IInv => ReadyOnceLoaded
  BY DEF IInv, FlagsOK, ReadyOnceLoaded
<1> QED
  BY <1>1, Invariance, PTL

(* No handler behind a guard, no handler of several steps and no worker    *)
(* thread ever uses a global that is not set.                              *)
THEOREM GuardsSuffice == Spec => []GuardedNeverTooEarly
<1>1. IInv => GuardedNeverTooEarly
  BY DEF IInv
<1> QED
  BY <1>1, Invariance, PTL

(* Both threads have ended when OnLoadingScreenDropped returns, for every  *)
(* one of its entries.                                                     *)
THEOREM ThreadsAreJoined == Spec => []NoThreadOutlives
<1>1. IInv => NoThreadOutlives
  <2> SUFFICES ASSUME IInv PROVE NoThreadOutlives
    OBVIOUS
  <2>1. DOMAIN stack = 1 .. Len(stack)
    BY Types, LenProperties DEF IInv
  <2> QED
    BY <2>1 DEF IInv, ThreadsOK, NoThreadOutlives
<1> QED
  BY <1>1, Invariance, PTL

----------------------------------------------------------------------------
(* Only a returning handler changes the phase, and nothing that is set up  *)
(* is ever taken away.                                                     *)
LEMMA HaveGrows ==
  ASSUME IInv, [Next]_vars
  PROVE  /\ have \subseteq have' /\ have' \subseteq Resources
         /\ HandlerReturn \/ Phase' = Phase
<1>1. have' \subseteq Resources
  BY StepIInv DEF IInv, TypeOK
<1>2. have \subseteq have'
  BY Zenon DEF Next, EnterHandler, HandlerStep, HandlerReturn, WorkerStep,
     HandleTooEarly, StartScript, EvalScript, ScriptDone, InterpreterRace, vars
<1>3. HandlerReturn \/ UNCHANGED flags
  BY Zenon DEF Next, EnterHandler, HandlerStep, WorkerStep,
     HandleTooEarly, StartScript, EvalScript, ScriptDone, InterpreterRace, vars
<1>4. UNCHANGED flags => Phase' = Phase
  BY DEF flags, Phase
<1> QED
  BY <1>1, <1>2, <1>3, <1>4

(* Every step of the session is a step of the match's phases.              *)
LEMMA StepRefines ==
  ASSUME IInv, [Next]_vars
  PROVE  [Match!Next]_<<Phase, have>>
<1> DEFINE StartNeeds == UNION {InitSteps[i] : i \in DOMAIN InitSteps}
<1>t. TypeOK /\ FlagsOK
  BY DEF IInv
<1>b. bMatchStarted \in BOOLEAN /\ bLoadingScreenDropped \in BOOLEAN
      /\ bJumpedFromBus \in BOOLEAN
  BY <1>t DEF TypeOK
<1>1. CASE Phase' = Phase
  <2>1. Match!Prepare
    BY <1>1, HaveGrows DEF Match!Prepare
  <2> QED
    BY <2>1 DEF Match!Next
<1>2. CASE HandlerReturn /\ Phase' # Phase
  <2>a. /\ bMatchStarted' = (bMatchStarted \/ Top.event = "ReadyToStartMatch")
        /\ bLoadingScreenDropped' =
             (bLoadingScreenDropped \/ Top.event = "LoadingScreenDropped")
        /\ bJumpedFromBus' = (bJumpedFromBus \/ Top.event = "ExitedDropZone")
        /\ have' = have
    BY <1>2 DEF HandlerReturn
  <2>p. /\ Top.event = "ReadyToStartMatch" => InitResources \subseteq have
        /\ Top.event = "LoadingScreenDropped" => bMatchStarted /\ have = Resources
        /\ Top.event = "ExitedDropZone" => bLoadingScreenDropped
    BY <1>2, ReturnPromises
  <2>e. Top.event \in LongEvents
    <3>1. stack \in Seq(Frame) /\ stack # <<>>
      BY <1>2, <1>t DEF TypeOK, HandlerReturn
    <3>2. Len(stack) \in 1 .. Len(stack)
      BY <3>1, EmptySeq
    <3>3. Top \in Frame
      BY <3>1, <3>2, ElementOfSeq DEF Top
    <3> QED
      BY <3>3 DEF Frame
  <2>1. CASE Top.event = "ReadyToStartMatch"
    <3>1. Phase = "lobby" /\ Phase' = "started"
      BY <2>1, <2>a, <1>2, <1>b, <1>t DEF Phase, FlagsOK
    <3>2. StartNeeds \subseteq have
      <4>1. \A i \in 1 .. 6 : InitSteps[i] \subseteq InitResources
        BY DEF InitSteps, InitResources
      <4>2. DOMAIN InitSteps = 1 .. 6
        BY DEF InitSteps
      <4> QED
        BY <2>1, <2>p, <4>1, <4>2
    <3> QED
      BY <3>1, <3>2, <2>a DEF Match!Next, Match!Start
  <2>2. CASE Top.event = "LoadingScreenDropped"
    <3>1. Phase = "started" /\ Phase' = "loaded"
      BY <2>2, <2>a, <2>p, <1>2, <1>b, <1>t DEF Phase, FlagsOK
    <3> QED
      BY <3>1, <2>2, <2>a, <2>p DEF Match!Next, Match!Load
  <2>3. CASE Top.event = "ExitedDropZone"
    <3>1. Phase = "loaded" /\ Phase' = "jumped"
      BY <2>3, <2>a, <2>p, <1>2, <1>b, <1>t DEF Phase, FlagsOK
    <3> QED
      BY <3>1, <2>a DEF Match!Next, Match!Jump
  <2> QED
    BY <2>1, <2>2, <2>3, <2>e DEF LongEvents
<1> QED
  BY <1>1, <1>2, HaveGrows

(* The dispatcher and its handlers implement MatchPhases: the phases come  *)
(* in order, once, and each with what its handlers use.                    *)
THEOREM SessionImplementsPhases == Spec => ImplementsPhases
<1>1. Init => Match!Init
  BY DEF Init, Match!Init, Phase
<1>2. IInv /\ [Next]_vars => [Match!Next]_<<Phase, have>>
  BY StepRefines
<1> QED
  BY <1>1, <1>2, Invariance, PTL DEF Spec, ImplementsPhases, Match!Spec, Match!mvars

----------------------------------------------------------------------------
(* The dispatcher's flag for a long handler: set when a run of it returns. *)
FlagOf(e) ==
  CASE e = "ReadyToStartMatch"    -> bMatchStarted
    [] e = "LoadingScreenDropped" -> bLoadingScreenDropped
    [] e = "ExitedDropZone"       -> bJumpedFromBus

Running(e) == \E i \in 1 .. Len(stack) : stack[i].event = e

(* A handler that was ever entered is still running or has left its flag.  *)
RanOK == \A e \in LongEvents : runs[e] > 0 => FlagOf(e) = TRUE \/ Running(e)

(* The frame a handler pushes is the run that is counted.                  *)
LEMMA EnterRan ==
  ASSUME IInv, RanOK, NEW e \in LongEvents, EnterHandler(e)
  PROVE  RanOK'
<1> DEFINE f == [event |-> e, step |-> 0, entry |-> runs[e] + 1]
<1>a. /\ runs[e] < MaxDepth /\ stack' = Append(stack, f)
      /\ runs' = [runs EXCEPT ![e] = @ + 1] /\ UNCHANGED flags
  BY DEF EnterHandler
<1>b. /\ MaxDepth \in Nat \ {0} /\ stack \in Seq(Frame)
      /\ \A x \in LongEvents : runs[x] \in 0 .. MaxDepth
  BY Types DEF IInv
<1>f. f \in Frame /\ f.event = e
  BY <1>a, <1>b DEF Frame, Entries
<1> HIDE DEF f
<1>p. /\ Len(stack) \in Nat /\ Len(stack') = Len(stack) + 1
      /\ \A i \in 1 .. Len(stack) : stack'[i] = stack[i]
      /\ stack'[Len(stack) + 1] = f
  BY <1>a, <1>b, <1>f, PushFrame
<1> SUFFICES ASSUME NEW x \in LongEvents, runs'[x] > 0
             PROVE  (FlagOf(x) = TRUE)' \/ Running(x)'
  BY DEF RanOK
<1>1. CASE x = e
  <2>1. Len(stack) + 1 \in 1 .. Len(stack') /\ stack'[Len(stack) + 1].event = x
    BY <1>1, <1>f, <1>p
  <2> QED
    BY <2>1 DEF Running
<1>2. CASE x # e /\ FlagOf(x) = TRUE
  BY <1>2, <1>a DEF FlagOf, flags
<1>3. CASE x # e /\ FlagOf(x) # TRUE
  <2>1. runs'[x] = runs[x]
    BY <1>3, <1>a, <1>b DEF IInv, TypeOK
  <2>2. PICK i \in 1 .. Len(stack) : stack[i].event = x
    BY <2>1, <1>3 DEF RanOK, Running
  <2>3. i \in 1 .. Len(stack') /\ stack'[i].event = x
    BY <2>2, <1>p
  <2> QED
    BY <2>3 DEF Running
<1> QED
  BY <1>1, <1>2, <1>3

(* The call a handler makes changes neither the handlers that run nor the  *)
(* flags.                                                                  *)
LEMMA StepRan ==
  ASSUME IInv, RanOK, HandlerStep
  PROVE  RanOK'
<1>a. UNCHANGED <<flags, runs>> /\ stack # <<>>
  BY DEF HandlerStep
<1>b. stack \in Seq(Frame)
  BY Types DEF IInv
<1>s. \A i \in 1 .. Len(stack) :
        i \in 1 .. Len(stack') /\ stack'[i].event = stack[i].event
  <2>1. CASE stack' = stack
    BY <2>1
  <2>2. CASE stack' = [stack EXCEPT ![Len(stack)].step = @ + 1]
    <3>0. Top \in Frame /\ Len(stack) \in Nat \ {0}
      <4>1. Len(stack) \in Nat \ {0} /\ Len(stack) \in 1 .. Len(stack)
        BY <1>a, <1>b, EmptySeq
      <4> QED
        BY <1>b, <4>1, ElementOfSeq DEF Top
    <3>1. Top.step < 6
      <4>1. Top.event \in LongEvents /\ Top.step \in Nat
        BY <3>0 DEF Frame
      <4>2. PICK n \in {2, 3, 6} : Len(Steps(Top.event)) = n
        BY <4>1 DEF LongEvents, Steps, InitSteps, LoadSteps, JumpSteps
      <4>3. Top.step < n
        BY <4>2 DEF HandlerStep
      <4>4. n <= 6
        BY <4>2
      <4> QED
        BY <4>1, <4>2, <4>3, <4>4
    <3>2. /\ Len(stack') = Len(stack)
          /\ \A i \in 1 .. Len(stack) - 1 : stack'[i] = stack[i]
          /\ stack'[Len(stack)] = [Top EXCEPT !.step = @ + 1]
      BY <3>1, <2>2, <1>a, <1>b, AdvanceFrame
    <3>3. stack'[Len(stack)].event = stack[Len(stack)].event
      BY <3>0, <3>2 DEF Top, Frame
    <3>4. \A i \in 1 .. Len(stack) : i \in 1 .. Len(stack) - 1 \/ i = Len(stack)
      BY <3>0
    <3> QED
      BY <3>2, <3>3, <3>4
  <2> QED
    BY <2>1, <2>2 DEF HandlerStep
<1> SUFFICES ASSUME NEW x \in LongEvents, runs[x] > 0
             PROVE  (FlagOf(x) = TRUE)' \/ Running(x)'
  BY <1>a DEF RanOK
<1>1. CASE FlagOf(x) = TRUE
  BY <1>1, <1>a DEF FlagOf, flags
<1>2. CASE Running(x)
  BY <1>2, <1>s DEF Running
<1> QED
  BY <1>1, <1>2 DEF RanOK

(* The handler that returns sets its flag; the others go on.               *)
LEMMA ReturnRan ==
  ASSUME IInv, RanOK, HandlerReturn
  PROVE  RanOK'
<1>a. /\ bMatchStarted' = (bMatchStarted \/ Top.event = "ReadyToStartMatch")
      /\ bLoadingScreenDropped' =
           (bLoadingScreenDropped \/ Top.event = "LoadingScreenDropped")
      /\ bJumpedFromBus' = (bJumpedFromBus \/ Top.event = "ExitedDropZone")
      /\ stack' = Rest /\ stack # <<>> /\ runs' = runs
  BY DEF HandlerReturn
<1>b. stack \in Seq(Frame)
  BY Types DEF IInv
<1>c. bMatchStarted \in BOOLEAN /\ bLoadingScreenDropped \in BOOLEAN
      /\ bJumpedFromBus \in BOOLEAN
  BY DEF IInv, TypeOK
<1>p. /\ Len(stack) \in Nat \ {0} /\ Len(stack') = Len(stack) - 1
      /\ \A i \in 1 .. Len(stack) - 1 : stack'[i] = stack[i]
  BY <1>a, <1>b, PopFrame
<1> SUFFICES ASSUME NEW x \in LongEvents, runs[x] > 0
             PROVE  (FlagOf(x) = TRUE)' \/ Running(x)'
  BY <1>a DEF RanOK
<1>1. CASE FlagOf(x) = TRUE \/ x = Top.event
  BY <1>1, <1>a, <1>c DEF FlagOf, LongEvents
<1>2. CASE x # Top.event /\ FlagOf(x) # TRUE
  <2>1. PICK i \in 1 .. Len(stack) : stack[i].event = x
    BY <1>2 DEF RanOK, Running
  <2>2. i # Len(stack)
    BY <2>1, <1>2 DEF Top
  <2>3. i \in 1 .. Len(stack') /\ stack'[i].event = x
    BY <2>1, <2>2, <1>p
  <2> QED
    BY <2>3 DEF Running
<1> QED
  BY <1>1, <1>2

(* RanOK is kept by every step, with IInv.                                 *)
LEMMA StepRanOK == IInv /\ RanOK /\ [Next]_vars => RanOK'
<1> SUFFICES ASSUME IInv, RanOK, [Next]_vars PROVE RanOK'
  OBVIOUS
<1>1. ASSUME NEW e \in LongEvents, EnterHandler(e) PROVE RanOK'
  BY <1>1, EnterRan
<1>2. CASE HandlerStep
  BY <1>2, StepRan
<1>3. CASE HandlerReturn
  BY <1>3, ReturnRan
<1>4. CASE \/ \E w \in Workers, n \in Entries : WorkerStep(w, n)
           \/ \E e \in ShortEvents : HandleTooEarly(e)
           \/ \E s \in ScriptThreads :
                StartScript(s) \/ EvalScript(s) \/ ScriptDone(s)
           \/ InterpreterRace
           \/ UNCHANGED vars
  <2>1. stack' = stack /\ runs' = runs /\ UNCHANGED flags
    BY <1>4, Zenon DEF WorkerStep, HandleTooEarly, StartScript, EvalScript,
       ScriptDone, InterpreterRace, vars
  <2> QED
    BY <2>1 DEF RanOK, Running, FlagOf, flags
<1> QED
  BY <1>1, <1>2, <1>3, <1>4, Zenon DEF Next

(* Nothing has run yet.                                                    *)
LEMMA InitRanOK == Init => RanOK
BY DEF Init, RanOK

(* A run begins only where the dispatcher's flag is not set: if there was  *)
(* a run before, it has not returned and is below on the stack.            *)
LEMMA EntersInside ==
  ASSUME IInv, RanOK, [Next]_vars,
         NEW e \in LongEvents, runs[e] > 0, runs'[e] > runs[e]
  PROVE  \E i \in DOMAIN stack : stack[i].event = e
<1>b. /\ stack \in Seq(Frame) /\ runs \in [LongEvents -> 0 .. MaxDepth]
      /\ MaxDepth \in Nat \ {0}
  BY Types DEF IInv, TypeOK
<1>0. runs[e] \in Nat
  BY <1>b
<1>1. EnterHandler(e)
  <2>1. PICK x \in LongEvents : EnterHandler(x)
    <3>1. (\E x \in LongEvents : EnterHandler(x)) \/ runs' = runs
      BY Zenon DEF Next, HandlerStep, HandlerReturn, WorkerStep, HandleTooEarly,
         StartScript, EvalScript, ScriptDone, InterpreterRace, vars
    <3>2. runs' # runs
      BY <1>0
    <3> QED
      BY <3>1, <3>2
  <2>2. x = e
    BY <2>1, <1>0, <1>b DEF EnterHandler
  <2> QED
    BY <2>1, <2>2
<1>2. FlagOf(e) # TRUE
  BY <1>1 DEF EnterHandler, LongAccepts, LoadGuard, FlagOf, LongEvents
<1>3. Running(e)
  BY <1>2 DEF RanOK
<1>4. DOMAIN stack = 1 .. Len(stack)
  BY <1>b, LenProperties
<1> QED
  BY <1>3, <1>4 DEF Running

(* A long handler that ran before runs again only from inside its own      *)
(* first run: the flags that keep it out are set on its return.            *)
THEOREM ReentriesAreInside == Spec => ReenteredOnlyFromInside
<1>1. Init => RanOK
  BY InitRanOK
<1>2. IInv /\ RanOK /\ [Next]_vars => RanOK'
  BY StepRanOK
<1>3. IInv /\ RanOK /\ [Next]_vars
      => [\A e \in LongEvents :
            runs[e] > 0 /\ runs'[e] > runs[e] => \E i \in DOMAIN stack : stack[i].event = e]_vars
  BY EntersInside
<1> QED
  BY <1>1, <1>2, <1>3, Invariance, PTL DEF Spec, ReenteredOnlyFromInside

(* Only thread_inventory sets the inventory up, and it is started behind   *)
(* bMatchStarted, when the definitions have been collected.                *)
LEMMA StocksAfterInit ==
  ASSUME IInv, [Next]_vars, "Inventory" \notin have, "Inventory" \in have'
  PROVE  "ItemDefinitions" \in have
<1>t. TypeOK /\ FramesOK /\ ThreadsOK /\ FlagsOK
  BY DEF IInv
<1>b. \A x \in Workers, m \in Entries : worker[<<x, m>>] \in 0 .. 2
  BY Types DEF IInv
<1>1. HandlerStep \/ \E w \in Workers, n \in Entries : WorkerStep(w, n)
  <2>1. have' # have
    OBVIOUS
  <2> QED
    BY <2>1, Zenon DEF Next, EnterHandler, HandlerReturn, HandleTooEarly,
       StartScript, EvalScript, ScriptDone, InterpreterRace, vars
<1>2. ~HandlerStep
  <2> SUFFICES ASSUME HandlerStep PROVE FALSE
    OBVIOUS
  <2>1. stack \in Seq(Frame) /\ stack # <<>>
    BY Types DEF IInv, HandlerStep
  <2>2. Len(stack) \in 1 .. Len(stack)
    BY <2>1, EmptySeq
  <2>3. Top.event \in LongEvents /\ Top.step \in Nat
    <3>1. Top \in Frame
      BY <2>1, <2>2, ElementOfSeq DEF Top
    <3> QED
      BY <3>1 DEF Frame
  <2>4. "Inventory" \in Steps(Top.event)[Top.step + 1]
    BY DEF HandlerStep
  <2>5. Top.step + 1 \in 1 .. Len(Steps(Top.event))
    <3>1. Top.step < Len(Steps(Top.event))
      BY DEF HandlerStep
    <3>2. Len(Steps(Top.event)) \in {2, 3, 6}
      BY <2>3 DEF LongEvents, Steps, InitSteps, LoadSteps, JumpSteps
    <3> QED
      BY <2>3, <3>1, <3>2
  <2>6. \A i \in 1 .. Len(Steps(Top.event)) : "Inventory" \notin Steps(Top.event)[i]
    BY <2>3 DEF LongEvents, Steps, InitSteps, LoadSteps, JumpSteps
  <2> QED
    BY <2>4, <2>5, <2>6
<1>3. PICK w \in Workers, n \in Entries : WorkerStep(w, n)
  BY <1>1, <1>2
<1>4. worker[<<w, n>>] > 0
  BY <1>3 DEF WorkerStep, Unfinished
<1>5. PICK i \in 1 .. Len(stack) :
        stack[i].event = "LoadingScreenDropped" /\ stack[i].entry = n
  BY <1>t, <1>4 DEF ThreadsOK
<1>6. bMatchStarted
  BY <1>5, <1>t DEF FramesOK, FrameOK
<1> QED
  BY <1>6, <1>t DEF FlagsOK, InitResources

(* The kit is looked up among the definitions, so they are there when the  *)
(* inventory is first set up, whatever is nested where.                    *)
THEOREM StockingFollowsDefinitions == Spec => StockedFromDefinitions
<1>1. IInv /\ [Next]_vars
      => [("Inventory" \notin have /\ "Inventory" \in have')
            => "ItemDefinitions" \in have]_vars
  BY StocksAfterInit
<1> QED
  BY <1>1, Invariance, PTL DEF Spec, StockedFromDefinitions

=============================================================================
