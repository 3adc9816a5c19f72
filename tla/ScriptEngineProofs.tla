-------------------------- MODULE ScriptEngineProofs --------------------------
(***************************************************************************)
(* Proofs about ScriptEngine, for any threads, modules, calls and limit of *)
(* the stack.  What each thread's stack looks like (StackOK) holds even    *)
(* when scripts overlap; where the catchpoint points, what the depth is    *)
(* and which modules are being loaded is known as long as they do not      *)
(* (Alone): either no script runs and the heap is Quiet, or one does and   *)
(* the heap is as its stack says (Owned).                                  *)
(***************************************************************************)
EXTENDS ScriptEngine, SequenceTheorems, TLAPS

(* Executors and safe calls take turns on a stack, the outermost is an     *)
(* executor, and a module's executor is above its safe call.               *)
StackOK(fs) ==
  \A i \in 1 .. Len(fs) :
    /\ fs[i].kind = "safe" =>
         i > 1 /\ fs[i - 1].kind = "executor" /\ fs[i].of \in Modules
    /\ fs[i].kind = "executor" /\ i > 1 =>
         fs[i - 1].kind = "safe" /\ fs[i - 1].of = fs[i].of

(* What a thread does goes with what is on top of its stack.               *)
PlaceOK(place, fs) ==
  /\ place = "idle" => fs = <<>>
  /\ place \in {"running", "calling"} => fs # <<>> /\ fs[Len(fs)].kind = "executor"
  /\ place \in {"evaluating", "returning"} => fs # <<>> /\ fs[Len(fs)].kind = "safe"

StacksOK == \A t \in Threads : StackOK(frames[t]) /\ PlaceOK(at[t], frames[t])

AskedOK ==
  \A t \in Threads : asked[t] # NoCall =>
    /\ asked[t] \in Calls
    /\ ~Throws(asked[t][1], asked[t][2]) /\ ~Crashes(asked[t][1], asked[t][2])

(* Between scripts.                                                        *)
Quiet ==
  jmpbuf = NoCatch /\ depth = errors /\ \A m \in Modules : cache[m] # "loading"

(* The catchpoint while t runs, and while an error of t is in the air: no  *)
(* executor yet, thrown above the top frame, or thrown again by it.        *)
CatchOK(t) ==
  /\ at[t] # "throwing" => jmpbuf = <<t, Len(frames[t])>>
  /\ at[t] = "throwing" =>
       \/ frames[t] = <<>> /\ jmpbuf = NoCatch /\ depth = errors
       \/ frames[t] # <<>> /\ jmpbuf = <<t, Len(frames[t])>>
       \/ /\ frames[t] # <<>> /\ Top(t).kind = "executor"
          /\ jmpbuf = Top(t).saved /\ depth = Top(t).level

SavedOK(t) ==
  \A i \in 1 .. Len(frames[t]) :
    /\ frames[t][i].saved = IF i = 1 THEN NoCatch ELSE <<t, i - 1>>
    /\ i = 1 => frames[t][i].level = errors + 1

(* The modules that are being loaded are those with a safe call, each one. *)
CacheOK(t) ==
  /\ \A i \in 1 .. Len(frames[t]) : frames[t][i].kind = "safe" =>
       cache[frames[t][i].of] = IF at[t] = "returning" /\ i = Len(frames[t])
                                THEN "loaded" ELSE "loading"
  /\ \A i, j \in 1 .. Len(frames[t]) :
       /\ frames[t][i].kind = "safe" /\ frames[t][j].kind = "safe"
       /\ frames[t][i].of = frames[t][j].of
       => i = j
  /\ \A m \in Modules : cache[m] = "loading" =>
       \E i \in 1 .. Len(frames[t]) :
         frames[t][i].kind = "safe" /\ frames[t][i].of = m

Owned(t) == CatchOK(t) /\ SavedOK(t) /\ CacheOK(t)

Alone ==
  \/ Inside = {} /\ Quiet
  \/ \E t \in Threads : Inside = {t} /\ Owned(t)

----------------------------------------------------------------------------
(* Stacks.                                                                 *)

LEMMA Pushed ==
  ASSUME NEW fs \in Seq(Frames), NEW f \in Frames
  PROVE  /\ Append(fs, f) \in Seq(Frames) /\ Append(fs, f) # <<>>
         /\ Len(Append(fs, f)) = Len(fs) + 1
         /\ Append(fs, f)[Len(fs) + 1] = f
         /\ \A i \in 1 .. Len(fs) : Append(fs, f)[i] = fs[i]
OBVIOUS

LEMMA Kept ==
  ASSUME NEW fs \in Seq(Frames), NEW n \in 0 .. Len(fs)
  PROVE  /\ SubSeq(fs, 1, n) \in Seq(Frames)
         /\ Len(SubSeq(fs, 1, n)) = n
         /\ \A i \in 1 .. n : SubSeq(fs, 1, n)[i] = fs[i]
         /\ SubSeq(fs, 1, n) = <<>> <=> n = 0
OBVIOUS

LEMMA StackPushed ==
  ASSUME NEW fs \in Seq(Frames), NEW f \in Frames, StackOK(fs),
         f.kind = "safe" => fs # <<>> /\ fs[Len(fs)].kind = "executor" /\ f.of \in Modules,
         f.kind = "executor" /\ fs # <<>> =>
           fs[Len(fs)].kind = "safe" /\ fs[Len(fs)].of = f.of
  PROVE  StackOK(Append(fs, f))
BY Pushed DEF StackOK

LEMMA StackKept ==
  ASSUME NEW fs \in Seq(Frames), NEW n \in 0 .. Len(fs), StackOK(fs)
  PROVE  StackOK(SubSeq(fs, 1, n))
BY Kept DEF StackOK

(* Under an executor above the outermost one there is a safe call, and     *)
(* under a safe call an executor.                                          *)
LEMMA Below ==
  ASSUME NEW fs \in Seq(Frames), StackOK(fs), NEW i \in 1 .. Len(fs)
  PROVE  /\ fs[i].kind = "safe" =>
              i - 1 \in 1 .. Len(fs) /\ fs[i - 1].kind = "executor" /\ fs[i].of \in Modules
         /\ fs[i].kind = "executor" /\ i > 1 =>
              fs[i - 1].kind = "safe" /\ fs[i - 1].of = fs[i].of
BY DEF StackOK

LEMMA StackTypes ==
  ASSUME TypeOK, NEW t \in Threads
  PROVE  /\ frames[t] \in Seq(Frames) /\ Len(frames[t]) \in Nat
         /\ \A i \in 1 .. Len(frames[t]) :
              /\ frames[t][i] \in Frames
              /\ frames[t][i].kind \in {"executor", "safe"}
              /\ frames[t][i].of \in Modules \cup {Script}
              /\ frames[t][i].saved \in Catchpoints
              /\ frames[t][i].level \in Nat /\ frames[t][i].level >= 1
         /\ frames[t] # <<>> => Len(frames[t]) \in 1 .. Len(frames[t])
<1>1. frames[t] \in Seq(Frames)
  BY DEF TypeOK
<1>2. \A i \in 1 .. Len(frames[t]) : frames[t][i] \in Frames
  BY <1>1
<1> QED
  BY <1>1, <1>2 DEF Frames

(* Where an error lands.                                                   *)
LEMMA Landed ==
  ASSUME TypeOK, NEW t \in Threads, NEW kind, Lands(t, kind)
  PROVE  /\ jmpbuf[2] \in 1 .. Len(frames[t])
         /\ Landing(t) = frames[t][jmpbuf[2]] /\ Landing(t).kind = kind
BY StackTypes DEF Lands, Landing
----------------------------------------------------------------------------
(* Types and stacks.                                                       *)

LEMMA TypeAndStacksInit == Init => TypeOK /\ StacksOK /\ AskedOK
<1> SUFFICES ASSUME Init PROVE TypeOK /\ StacksOK /\ AskedOK
  OBVIOUS
<1>1. Len(Names) \in Nat
  BY ScriptEngineAssumption
<1>2. TypeOK
  <2>1. <<>> \in Seq(Frames)
    OBVIOUS
  <2>2. frames \in [Threads -> Seq(Frames)]
    BY <2>1 DEF Init
  <2>3. stage \in 0 .. Len(Names) + 1
    BY <1>1 DEF Init
  <2>4. jmpbuf \in Catchpoints /\ at \in [Threads -> Places]
    BY DEF Init, Catchpoints, Places
  <2> QED
    BY <2>2, <2>3, <2>4 DEF Init, TypeOK
<1>3. StacksOK
  BY DEF Init, StacksOK, StackOK, PlaceOK
<1>4. AskedOK
  BY DEF Init, AskedOK
<1> QED
  BY <1>2, <1>3, <1>4

(* What the three ways to change a stack do to its thread and to others.   *)
LEMMA PushDoes ==
  ASSUME TypeOK, NEW t \in Threads, NEW kind \in {"executor", "safe"},
         NEW of \in Modules \cup {Script}, Push(t, kind, of, depth + 1)
  PROVE  /\ frames' \in [Threads -> Seq(Frames)] /\ jmpbuf' \in Catchpoints
         /\ jmpbuf' = <<t, Len(frames[t]) + 1>>
         /\ \A u \in Threads \ {t} : frames'[u] = frames[u]
         /\ LET f == [kind |-> kind, of |-> of, saved |-> jmpbuf, level |-> depth + 1]
            IN  f \in Frames /\ frames'[t] = Append(frames[t], f)
<1> DEFINE f == [kind |-> kind, of |-> of, saved |-> jmpbuf, level |-> depth + 1]
<1>1. f \in Frames
  BY DEF TypeOK, Frames
<1>2. frames' = [frames EXCEPT ![t] = Append(frames[t], f)]
  BY DEF Push
<1>3. jmpbuf' = <<t, Len(frames[t]) + 1>>
  BY DEF Push
<1>4. frames[t] \in Seq(Frames) /\ frames \in [Threads -> Seq(Frames)]
  BY DEF TypeOK
<1>5. Append(frames[t], f) \in Seq(Frames) /\ Len(frames[t]) + 1 \in Nat \ {0}
  BY <1>1, <1>4
<1> HIDE DEF f
<1>6. jmpbuf' \in Catchpoints
  BY <1>3, <1>5 DEF Catchpoints
<1>7. /\ frames' \in [Threads -> Seq(Frames)]
      /\ \A u \in Threads \ {t} : frames'[u] = frames[u]
      /\ frames'[t] = Append(frames[t], f)
  BY <1>2, <1>4, <1>5
<1> QED
  BY <1>1, <1>3, <1>6, <1>7 DEF f

LEMMA KeepDoes ==
  ASSUME TypeOK, NEW t \in Threads, NEW n \in 0 .. Len(frames[t]), Keep(t, n)
  PROVE  /\ frames' \in [Threads -> Seq(Frames)]
         /\ \A u \in Threads \ {t} : frames'[u] = frames[u]
         /\ frames'[t] = SubSeq(frames[t], 1, n)
<1>1. frames[t] \in Seq(Frames) /\ frames \in [Threads -> Seq(Frames)]
  BY DEF TypeOK
<1>2. SubSeq(frames[t], 1, n) \in Seq(Frames)
  BY <1>1
<1>3. frames' = [frames EXCEPT ![t] = SubSeq(frames[t], 1, n)]
  BY DEF Keep
<1> QED
  BY <1>1, <1>2, <1>3

LEMMA PopDoes ==
  ASSUME TypeOK, NEW t \in Threads, frames[t] # <<>>, Pop(t)
  PROVE  /\ frames' \in [Threads -> Seq(Frames)] /\ jmpbuf' \in Catchpoints /\ depth' \in Nat
         /\ Len(frames[t]) - 1 \in 0 .. Len(frames[t])
         /\ \A u \in Threads \ {t} : frames'[u] = frames[u]
         /\ frames'[t] = SubSeq(frames[t], 1, Len(frames[t]) - 1)
         /\ jmpbuf' = Top(t).saved /\ depth' = Top(t).level - 1
<1>1. /\ Len(frames[t]) \in 1 .. Len(frames[t]) /\ Len(frames[t]) \in Nat
      /\ Top(t).saved \in Catchpoints /\ Top(t).level \in Nat /\ Top(t).level >= 1
  BY StackTypes DEF Top
<1>2. Len(frames[t]) - 1 \in 0 .. Len(frames[t])
  BY <1>1
<1>3. /\ Keep(t, Len(frames[t]) - 1)
      /\ jmpbuf' = Top(t).saved /\ depth' = Top(t).level - 1
  BY DEF Pop, PutBack, LevelLeft
<1> QED
  BY <1>1, <1>2, <1>3, KeepDoes

LEMMA GoToDoes ==
  ASSUME TypeOK, NEW t \in Threads, NEW place \in Places, GoTo(t, place)
  PROVE  /\ at' \in [Threads -> Places] /\ at'[t] = place
         /\ \A u \in Threads \ {t} : at'[u] = at[u]
BY DEF TypeOK, GoTo

(* A thread that is where it runs something has a stack.                   *)
LEMMA HasStack ==
  ASSUME TypeOK, StacksOK, NEW t \in Threads, at[t] \in InsideAt, at[t] # "throwing"
  PROVE  /\ frames[t] # <<>> /\ Len(frames[t]) \in 1 .. Len(frames[t])
         /\ Top(t).kind = IF at[t] \in {"running", "calling"} THEN "executor" ELSE "safe"
         /\ Top(t) \in Frames /\ Top(t).of \in Modules \cup {Script}
         /\ Top(t).level \in Nat
BY StackTypes DEF StacksOK, PlaceOK, InsideAt, Top

(* One thread's stack and place change at a time.                          *)
LEMMA OneStack ==
  ASSUME StacksOK, NEW t \in Threads,
         StackOK(frames'[t]), PlaceOK(at'[t], frames'[t]),
         \A u \in Threads \ {t} : frames'[u] = frames[u] /\ at'[u] = at[u]
  PROVE  StacksOK'
BY DEF StacksOK

Shape == TypeOK /\ StacksOK /\ AskedOK

LEMMA ExecuteShape ==
  ASSUME Shape, NEW t \in Threads, Execute(t)
  PROVE  Shape'
<1> USE DEF Shape
<1>1. CASE stage = 0 /\ process' = "crashed" /\ UNCHANGED <<stage, heap, at, frames, asked, errors, overlapped>>
  <2>1. TypeOK'
    BY <1>1 DEF TypeOK, heap
  <2> QED
    BY <1>1, <2>1 DEF heap, StacksOK, AskedOK
<1>2. CASE Eval(t)
  <2>0. /\ at[t] = "idle" /\ frames[t] = <<>> /\ overlapped' \in BOOLEAN
        /\ UNCHANGED <<stage, cache, asked, process, errors>>
    BY <1>2 DEF Execute, Eval, StacksOK, PlaceOK, TypeOK
  <2>1. AskedOK'
    BY <2>0 DEF AskedOK
  <2>2. CASE Push(t, "executor", Script, depth + 1) /\ depth' = depth + 1 /\ GoTo(t, "running")
    <3>1. /\ frames' \in [Threads -> Seq(Frames)] /\ jmpbuf' \in Catchpoints
          /\ \A u \in Threads \ {t} : frames'[u] = frames[u]
          /\ \E f \in Frames : f.kind = "executor" /\ frames'[t] = Append(frames[t], f)
      BY <2>2, PushDoes
    <3>2. at' \in [Threads -> Places] /\ at'[t] = "running" /\ \A u \in Threads \ {t} : at'[u] = at[u]
      BY <2>2, GoToDoes DEF Places, InsideAt
    <3>3. TypeOK'
      BY <2>0, <2>2, <3>1, <3>2 DEF TypeOK
    <3>4. StackOK(frames'[t]) /\ PlaceOK(at'[t], frames'[t])
      BY <2>0, <3>1, <3>2 DEF StackOK, PlaceOK
    <3> QED
      BY <2>1, <3>1, <3>2, <3>3, <3>4, OneStack
  <2>3. CASE GoTo(t, "throwing") /\ UNCHANGED <<jmpbuf, depth, frames>>
    <3>1. at' \in [Threads -> Places] /\ at'[t] = "throwing" /\ \A u \in Threads \ {t} : at'[u] = at[u]
      BY <2>3, GoToDoes DEF Places, InsideAt
    <3>2. TypeOK'
      BY <2>0, <2>3, <3>1 DEF TypeOK
    <3>3. StackOK(frames'[t]) /\ PlaceOK(at'[t], frames'[t])
      BY <2>3, <3>1 DEF StacksOK, PlaceOK
    <3> QED
      BY <2>1, <2>3, <3>1, <3>2, <3>3, OneStack
  <2> QED
    BY <1>2, <2>2, <2>3 DEF Eval
<1> QED
  BY <1>1, <1>2 DEF Execute

(* An error is raised above the stack as it is.                            *)
LEMMA RaiseShape ==
  ASSUME Shape, NEW t \in Threads, NEW level \in Nat, Raise(t, level), at[t] # "idle"
  PROVE  Shape'
<1>1. at' \in [Threads -> Places] /\ at'[t] = "throwing" /\ \A u \in Threads \ {t} : at'[u] = at[u]
  BY GoToDoes DEF Raise, Places, InsideAt, Shape
<1>2. TypeOK'
  BY <1>1 DEF Raise, TypeOK, Shape
<1>3. StackOK(frames'[t]) /\ PlaceOK(at'[t], frames'[t])
  BY <1>1 DEF Raise, StacksOK, PlaceOK, Shape
<1>4. StacksOK'
  BY <1>1, <1>3, OneStack DEF Raise, Shape
<1> QED
  BY <1>2, <1>4 DEF Raise, AskedOK, Shape

LEMMA FinishShape ==
  ASSUME Shape, NEW t \in Threads, Finish(t)
  PROVE  Shape'
<1> USE DEF Shape
<1>1. frames[t] # <<>> /\ Len(frames[t]) = 1
  BY HasStack DEF Finish, InsideAt
<1>2. /\ frames' \in [Threads -> Seq(Frames)] /\ jmpbuf' \in Catchpoints /\ depth' \in Nat
      /\ \A u \in Threads \ {t} : frames'[u] = frames[u]
      /\ frames'[t] = SubSeq(frames[t], 1, Len(frames[t]) - 1)
  BY <1>1, PopDoes DEF Finish
<1>3. at' \in [Threads -> Places] /\ at'[t] = "done" /\ \A u \in Threads \ {t} : at'[u] = at[u]
  BY GoToDoes DEF Finish, Places
<1>4. TypeOK'
  BY <1>2, <1>3 DEF Finish, TypeOK
<1>5. StackOK(frames'[t])
  BY <1>1, <1>2, StackTypes, StackKept DEF StacksOK
<1>6. PlaceOK(at'[t], frames'[t])
  BY <1>3 DEF PlaceOK
<1> QED
  BY <1>2, <1>3, <1>4, <1>5, <1>6, OneStack DEF Finish, AskedOK

LEMMA CallShape ==
  ASSUME Shape, NEW t \in Threads, NEW c \in Calls,
         CallFails(t, c[1], c[2]) \/ Call(t, c[1], c[2])
  PROVE  Shape'
<1> USE DEF Shape
<1>0. at[t] = "running" /\ depth \in Nat /\ depth + 1 \in Nat
  BY DEF CallFails, Call, Calling, InScript, TypeOK
<1>1. CASE CallFails(t, c[1], c[2])
  <2>1. CASE Raise(t, depth) \/ Raise(t, depth + 1)
    BY <1>0, <2>1, RaiseShape
  <2>2. CASE process' = "crashed" /\ UNCHANGED <<stage, heap, at, frames, asked, errors, overlapped>>
    <3>1. TypeOK'
      BY <2>2 DEF TypeOK, heap
    <3> QED
      BY <2>2, <3>1 DEF heap, StacksOK, AskedOK
  <2> QED
    BY <1>1, <2>1, <2>2 DEF CallFails
<1>2. CASE Call(t, c[1], c[2])
  <2>1. at' \in [Threads -> Places] /\ at'[t] = "calling" /\ \A u \in Threads \ {t} : at'[u] = at[u]
    BY <1>2, GoToDoes DEF Call, Places, InsideAt
  <2>2. c = <<c[1], c[2]>>
    BY ScriptEngineAssumption
  <2>3. /\ asked' \in [Threads -> Calls \cup {NoCall}] /\ asked'[t] = c
        /\ \A u \in Threads \ {t} : asked'[u] = asked[u]
    BY <1>2, <2>2 DEF Call, TypeOK
  <2>4. TypeOK'
    BY <1>0, <1>2, <2>1, <2>3 DEF Call, TypeOK
  <2>5. StackOK(frames'[t]) /\ PlaceOK(at'[t], frames'[t])
    BY <1>0, <1>2, <2>1 DEF Call, StacksOK, PlaceOK
  <2>6. StacksOK'
    BY <1>2, <2>1, <2>5, OneStack DEF Call
  <2>7. AskedOK'
    BY <1>2, <2>3 DEF Call, AskedOK
  <2> QED
    BY <2>4, <2>6, <2>7
<1> QED
  BY <1>1, <1>2

LEMMA ReturnShape ==
  ASSUME Shape, NEW t \in Threads, Return(t)
  PROVE  Shape'
<1> USE DEF Shape
<1>1. at' \in [Threads -> Places] /\ at'[t] = "running" /\ \A u \in Threads \ {t} : at'[u] = at[u]
  BY GoToDoes DEF Return, Places, InsideAt
<1>2. Top(t).level \in Nat
  BY HasStack DEF Return, InsideAt
<1>3. /\ asked' \in [Threads -> Calls \cup {NoCall}] /\ asked'[t] = NoCall
      /\ \A u \in Threads \ {t} : asked'[u] = asked[u]
  BY DEF Return, TypeOK
<1>4. TypeOK'
  BY <1>1, <1>2, <1>3 DEF Return, TypeOK
<1>5. StackOK(frames'[t]) /\ PlaceOK(at'[t], frames'[t])
  BY <1>1 DEF Return, StacksOK, PlaceOK
<1>6. StacksOK'
  BY <1>1, <1>5, OneStack DEF Return
<1>7. AskedOK'
  BY <1>3 DEF AskedOK
<1> QED
  BY <1>4, <1>6, <1>7

LEMMA RequireShape ==
  ASSUME Shape, NEW t \in Threads, NEW m \in Modules, Require(t, m)
  PROVE  Shape'
<1> USE DEF Shape
<1>0. at[t] = "running" /\ depth \in Nat
  BY DEF Require, InScript, TypeOK
<1>1. CASE Raise(t, depth)
  BY <1>0, <1>1, RaiseShape
<1>2. CASE /\ cache' = [cache EXCEPT ![m] = "loading"]
           /\ Push(t, "safe", m, depth + 1)
           /\ depth' = depth + 2 /\ GoTo(t, "evaluating")
           /\ UNCHANGED <<stage, asked, process, errors, overlapped>>
  <2> DEFINE f == [kind |-> "safe", of |-> m, saved |-> jmpbuf, level |-> depth + 1]
  <2>1. /\ frames' \in [Threads -> Seq(Frames)] /\ jmpbuf' \in Catchpoints
        /\ \A u \in Threads \ {t} : frames'[u] = frames[u]
        /\ f \in Frames /\ frames'[t] = Append(frames[t], f)
    BY <1>2, PushDoes
  <2>2. at' \in [Threads -> Places] /\ at'[t] = "evaluating" /\ \A u \in Threads \ {t} : at'[u] = at[u]
    BY <1>2, GoToDoes DEF Places, InsideAt
  <2>3. TypeOK'
    BY <1>0, <1>2, <2>1, <2>2 DEF TypeOK
  <2>4. frames[t] # <<>> /\ frames[t][Len(frames[t])].kind = "executor"
    BY <1>0, HasStack DEF Top, InsideAt
  <2>5. f.kind = "safe" /\ f.of = m
    OBVIOUS
  <2> HIDE DEF f
  <2>6. StackOK(frames'[t])
    BY <2>1, <2>4, <2>5, StackPushed, StackTypes DEF StacksOK
  <2>7. PlaceOK(at'[t], frames'[t])
    BY <2>1, <2>2, <2>5, Pushed, StackTypes DEF PlaceOK
  <2>8. AskedOK'
    BY <1>2 DEF AskedOK
  <2> QED
    BY <2>1, <2>2, <2>3, <2>6, <2>7, <2>8, OneStack
<1> QED
  BY <1>1, <1>2 DEF Require

LEMMA EvalModuleShape ==
  ASSUME Shape, NEW t \in Threads, EvalModule(t)
  PROVE  Shape'
<1> USE DEF Shape
<1>0. at[t] = "evaluating" /\ depth \in Nat
  BY DEF EvalModule, TypeOK
<1>1. CASE Raise(t, depth)
  BY <1>0, <1>1, RaiseShape
<1>2. CASE /\ Push(t, "executor", Top(t).of, depth + 1)
           /\ depth' = depth + 1 /\ GoTo(t, "running")
           /\ UNCHANGED <<stage, cache, asked, process, errors, overlapped>>
  <2> DEFINE f == [kind |-> "executor", of |-> Top(t).of, saved |-> jmpbuf, level |-> depth + 1]
  <2>0. /\ frames[t] # <<>> /\ frames[t][Len(frames[t])].kind = "safe"
        /\ Top(t).of \in Modules \cup {Script}
    BY <1>0, HasStack DEF Top, InsideAt
  <2>1. /\ frames' \in [Threads -> Seq(Frames)] /\ jmpbuf' \in Catchpoints
        /\ \A u \in Threads \ {t} : frames'[u] = frames[u]
        /\ f \in Frames /\ frames'[t] = Append(frames[t], f)
    BY <1>2, <2>0, PushDoes
  <2>2. at' \in [Threads -> Places] /\ at'[t] = "running" /\ \A u \in Threads \ {t} : at'[u] = at[u]
    BY <1>2, GoToDoes DEF Places, InsideAt
  <2>3. TypeOK'
    BY <1>0, <1>2, <2>1, <2>2 DEF TypeOK
  <2>5. f.kind = "executor" /\ f.of = frames[t][Len(frames[t])].of
    BY DEF Top
  <2> HIDE DEF f
  <2>6. StackOK(frames'[t])
    BY <2>0, <2>1, <2>5, StackPushed, StackTypes DEF StacksOK
  <2>7. PlaceOK(at'[t], frames'[t])
    BY <2>1, <2>2, <2>5, Pushed, StackTypes DEF PlaceOK
  <2>8. AskedOK'
    BY <1>2 DEF AskedOK
  <2> QED
    BY <2>1, <2>2, <2>3, <2>6, <2>7, <2>8, OneStack
<1> QED
  BY <1>1, <1>2 DEF EvalModule

LEMMA LeaveModuleShape ==
  ASSUME Shape, NEW t \in Threads, LeaveModule(t)
  PROVE  Shape'
<1> USE DEF Shape
<1>1. frames[t] # <<>> /\ Len(frames[t]) > 1 /\ Len(frames[t]) \in Nat
      /\ frames[t][Len(frames[t])].kind = "executor" /\ frames[t] \in Seq(Frames)
  BY HasStack, StackTypes DEF LeaveModule, InsideAt, Top
<1>2. /\ frames' \in [Threads -> Seq(Frames)] /\ jmpbuf' \in Catchpoints /\ depth' \in Nat
      /\ \A u \in Threads \ {t} : frames'[u] = frames[u]
      /\ frames'[t] = SubSeq(frames[t], 1, Len(frames[t]) - 1)
  BY <1>1, PopDoes DEF LeaveModule
<1>3. at' \in [Threads -> Places] /\ at'[t] = "returning" /\ \A u \in Threads \ {t} : at'[u] = at[u]
  BY GoToDoes DEF LeaveModule, Places, InsideAt
<1>4. cache' \in [Modules -> {"absent", "loading", "loaded"}]
  BY DEF LeaveModule, TypeOK
<1>5. TypeOK'
  BY <1>2, <1>3, <1>4 DEF LeaveModule, TypeOK
<1>6. StackOK(frames'[t])
  BY <1>1, <1>2, StackKept DEF StacksOK
<1>7. frames[t][Len(frames[t]) - 1].kind = "safe"
  BY <1>1, Below DEF StacksOK
<1>8. PlaceOK(at'[t], frames'[t])
  <2>1. /\ Len(frames'[t]) = Len(frames[t]) - 1 /\ frames'[t] # <<>>
        /\ frames'[t][Len(frames[t]) - 1] = frames[t][Len(frames[t]) - 1]
    BY <1>1, <1>2, <1>7, Kept
  <2> QED
    BY <1>3, <1>7, <2>1 DEF PlaceOK
<1> QED
  BY <1>2, <1>3, <1>5, <1>6, <1>8, OneStack DEF LeaveModule, AskedOK

LEMMA LeaveRequireShape ==
  ASSUME Shape, NEW t \in Threads, LeaveRequire(t)
  PROVE  Shape'
<1> USE DEF Shape
<1>1. frames[t] # <<>> /\ Len(frames[t]) \in 1 .. Len(frames[t]) /\ Len(frames[t]) \in Nat
      /\ frames[t][Len(frames[t])].kind = "safe" /\ frames[t] \in Seq(Frames)
  BY HasStack, StackTypes DEF LeaveRequire, InsideAt, Top
<1>2. /\ frames' \in [Threads -> Seq(Frames)] /\ jmpbuf' \in Catchpoints /\ depth' \in Nat
      /\ \A u \in Threads \ {t} : frames'[u] = frames[u]
      /\ frames'[t] = SubSeq(frames[t], 1, Len(frames[t]) - 1)
  BY <1>1, PopDoes DEF LeaveRequire
<1>3. at' \in [Threads -> Places] /\ at'[t] = "running" /\ \A u \in Threads \ {t} : at'[u] = at[u]
  BY GoToDoes DEF LeaveRequire, Places, InsideAt
<1>5. TypeOK'
  BY <1>2, <1>3 DEF LeaveRequire, TypeOK
<1>6. StackOK(frames'[t])
  BY <1>1, <1>2, StackKept DEF StacksOK
<1>7. Len(frames[t]) - 1 \in 1 .. Len(frames[t]) /\ frames[t][Len(frames[t]) - 1].kind = "executor"
  BY <1>1, Below DEF StacksOK
<1>8. PlaceOK(at'[t], frames'[t])
  <2>1. /\ Len(frames'[t]) = Len(frames[t]) - 1 /\ frames'[t] # <<>>
        /\ frames'[t][Len(frames[t]) - 1] = frames[t][Len(frames[t]) - 1]
    BY <1>1, <1>2, <1>7, Kept
  <2> QED
    BY <1>3, <1>7, <2>1 DEF PlaceOK
<1> QED
  BY <1>2, <1>3, <1>5, <1>6, <1>8, OneStack DEF LeaveRequire, AskedOK

LEMMA UnwindShape ==
  ASSUME Shape, NEW t \in Threads, Unwind(t)
  PROVE  Shape'
<1> USE DEF Shape
<1>a. at[t] = "throwing" /\ frames[t] \in Seq(Frames) /\ Len(frames[t]) \in Nat
  BY StackTypes DEF Unwind, Catch, Rethrow, FailModule, Fatal, JumpAway, Lands
<1>1. CASE Catch(t)
  <2>1. /\ jmpbuf[2] \in 1 .. Len(frames[t]) /\ jmpbuf[2] \in 0 .. Len(frames[t])
        /\ Landing(t) = frames[t][jmpbuf[2]] /\ Landing(t).kind = "executor"
    BY <1>1, Landed DEF Catch
  <2>2. /\ frames' \in [Threads -> Seq(Frames)] /\ \A u \in Threads \ {t} : frames'[u] = frames[u]
        /\ frames'[t] = SubSeq(frames[t], 1, jmpbuf[2])
    BY <1>1, <2>1, KeepDoes DEF Catch
  <2>3. at' \in [Threads -> Places] /\ at'[t] = "running" /\ \A u \in Threads \ {t} : at'[u] = at[u]
    BY <1>1, GoToDoes DEF Catch, Places, InsideAt
  <2>4. depth' \in Nat
    BY <1>1, <2>1, StackTypes DEF Catch
  <2>5. TypeOK'
    BY <1>1, <2>2, <2>3, <2>4 DEF Catch, TypeOK
  <2>6. StackOK(frames'[t])
    BY <1>a, <2>1, <2>2, StackKept DEF StacksOK
  <2>7. PlaceOK(at'[t], frames'[t])
    BY <1>a, <2>1, <2>2, <2>3, Kept DEF PlaceOK
  <2> QED
    BY <1>1, <2>2, <2>3, <2>5, <2>6, <2>7, OneStack DEF Catch, AskedOK
<1>2. CASE Rethrow(t) \/ FailModule(t)
  <2>1. PICK kind \in {"executor", "safe"} : Lands(t, kind)
    BY <1>2 DEF Rethrow, FailModule
  <2>2. jmpbuf[2] \in 1 .. Len(frames[t]) /\ Landing(t) = frames[t][jmpbuf[2]]
    BY <2>1, Landed
  <2>3. PICK n \in 0 .. Len(frames[t]) : Keep(t, n)
    BY <1>2, <1>a, <2>2 DEF Rethrow, FailModule
  <2>4. /\ frames' \in [Threads -> Seq(Frames)] /\ \A u \in Threads \ {t} : frames'[u] = frames[u]
        /\ frames'[t] = SubSeq(frames[t], 1, n)
    BY <2>3, KeepDoes
  <2>5. /\ jmpbuf' \in Catchpoints /\ depth' \in Nat
        /\ UNCHANGED <<stage, at, asked, process, errors, overlapped>>
    BY <1>2, <2>2, StackTypes DEF Rethrow, FailModule, EntryCatch
  <2>6. cache' \in [Modules -> {"absent", "loading", "loaded"}]
    BY <1>2 DEF Rethrow, FailModule, Without, TypeOK
  <2>7. TypeOK'
    BY <2>4, <2>5, <2>6 DEF TypeOK
  <2>8. StackOK(frames'[t])
    BY <1>a, <2>4, StackKept DEF StacksOK
  <2>9. PlaceOK(at'[t], frames'[t])
    BY <1>a, <2>5 DEF PlaceOK
  <2> QED
    BY <2>4, <2>5, <2>7, <2>8, <2>9, OneStack DEF AskedOK
<1>3. CASE Fatal(t)
  <2>1. at' \in [Threads -> Places] /\ at'[t] = "spinning" /\ \A u \in Threads \ {t} : at'[u] = at[u]
    BY <1>3, GoToDoes DEF Fatal, Places, InsideAt
  <2>2. TypeOK'
    BY <1>3, <2>1 DEF Fatal, TypeOK, heap
  <2>3. StackOK(frames'[t]) /\ PlaceOK(at'[t], frames'[t])
    BY <1>3, <2>1 DEF Fatal, StacksOK, PlaceOK
  <2> QED
    BY <1>3, <2>1, <2>2, <2>3, OneStack DEF Fatal, AskedOK
<1>4. CASE JumpAway(t)
  <2>1. TypeOK'
    BY <1>4 DEF JumpAway, TypeOK, heap
  <2> QED
    BY <1>4, <2>1 DEF JumpAway, heap, StacksOK, AskedOK
<1> QED
  BY <1>1, <1>2, <1>3, <1>4 DEF Unwind

LEMMA ShapeInvariant == Shape /\ [Next]_vars => Shape'
<1> SUFFICES ASSUME Shape, [Next]_vars PROVE Shape'
  OBVIOUS
<1>1. CASE Register
  <2>1. Len(Names) \in Nat
    BY ScriptEngineAssumption
  <2>2. TypeOK'
    BY <1>1, <2>1 DEF Register, heap, TypeOK, Shape
  <2> QED
    BY <1>1, <2>2 DEF Register, heap, StacksOK, AskedOK, Shape
<1>2. ASSUME NEW t \in Threads, Throw(t) PROVE Shape'
  BY <1>2, RaiseShape DEF Throw, InScript, Shape, TypeOK
<1>3. CASE UNCHANGED vars
  BY <1>3 DEF vars, Shape, TypeOK, StacksOK, AskedOK
<1> QED
  BY <1>1, <1>2, <1>3, ExecuteShape, FinishShape, CallShape, ReturnShape, RequireShape,
     EvalModuleShape, LeaveModuleShape, LeaveRequireShape, UnwindShape DEF Next

(* The engine's state stays in its types: whatever scripts do, a thread    *)
(* leaves a frame only when it has one, and no level is given back that    *)
(* was not taken.                                                          *)
THEOREM TypeCorrect == Spec => []TypeOK
<1>1. Init => Shape
  BY TypeAndStacksInit DEF Shape
<1> QED
  BY <1>1, ShapeInvariant, PTL DEF Spec, Shape

----------------------------------------------------------------------------
(* One script at a time.                                                   *)

LEMMA InsideNext ==
  ASSUME NEW t \in Threads, \A u \in Threads \ {t} : at'[u] = at[u]
  PROVE  /\ at'[t] \in InsideAt => Inside' = Inside \cup {t}
         /\ at'[t] \notin InsideAt => Inside' = Inside \ {t}
BY DEF Inside

(* A thread that is inside alone owns the heap.                            *)
LEMMA OwnerIsInside ==
  ASSUME Alone, NEW t \in Threads, at[t] \in InsideAt
  PROVE  Inside = {t} /\ Owned(t)
BY DEF Alone, Inside

LEMMA StillAlone ==
  ASSUME NEW t \in Threads, Inside = {t}, at'[t] \in InsideAt, Owned(t)',
         \A u \in Threads \ {t} : at'[u] = at[u]
  PROVE  Alone'
<1>1. Inside' = {t}
  BY InsideNext
<1> QED
  BY <1>1 DEF Alone

LEMMA Untouched ==
  ASSUME Alone, UNCHANGED <<jmpbuf, depth, cache, at, frames, errors>>
  PROVE  Alone'
<1>1. Inside' = Inside
  BY DEF Inside
<1>2. CASE Inside = {} /\ Quiet
  BY <1>1, <1>2 DEF Alone, Quiet
<1>3. ASSUME NEW t \in Threads, Inside = {t}, Owned(t) PROVE Alone'
  <2>1. Owned(t)'
    BY <1>3 DEF Owned, CatchOK, SavedOK, CacheOK, Top
  <2> QED
    BY <1>1, <1>3, <2>1 DEF Alone
<1> QED
  BY <1>2, <1>3 DEF Alone

(* The first frame saves no catchpoint, another the one below it.          *)
LEMMA SavedPushed ==
  ASSUME Shape, NEW t \in Threads, NEW f \in Frames, SavedOK(t),
         frames'[t] = Append(frames[t], f), errors' = errors,
         f.saved = IF frames[t] = <<>> THEN NoCatch ELSE <<t, Len(frames[t])>>,
         frames[t] = <<>> => f.level = errors + 1
  PROVE  SavedOK(t)'
<1>1. frames[t] \in Seq(Frames) /\ Len(frames[t]) \in Nat
  BY StackTypes DEF Shape
<1>2. /\ Len(frames'[t]) = Len(frames[t]) + 1 /\ frames'[t][Len(frames[t]) + 1] = f
      /\ \A i \in 1 .. Len(frames[t]) : frames'[t][i] = frames[t][i]
  BY <1>1, Pushed
<1>3. frames[t] = <<>> <=> Len(frames[t]) = 0
  BY <1>1
<1>4. \A i \in 1 .. Len(frames'[t]) : i \in 1 .. Len(frames[t]) \/ i = Len(frames[t]) + 1
  BY <1>1, <1>2
<1>5. ASSUME NEW i \in 1 .. Len(frames'[t])
      PROVE  /\ frames'[t][i].saved = IF i = 1 THEN NoCatch ELSE <<t, i - 1>>
             /\ i = 1 => frames'[t][i].level = errors + 1
  <2>1. CASE i \in 1 .. Len(frames[t])
    BY <1>2, <2>1 DEF SavedOK
  <2>2. CASE i = Len(frames[t]) + 1
    <3>1. i = 1 <=> frames[t] = <<>>
      BY <1>1, <1>3, <2>2
    <3>2. i - 1 = Len(frames[t])
      BY <1>1, <2>2
    <3> QED
      BY <1>2, <2>2, <3>1, <3>2
  <2> QED
    BY <1>4, <2>1, <2>2
<1> QED
  BY <1>5 DEF SavedOK

LEMMA SavedKept ==
  ASSUME Shape, NEW t \in Threads, NEW n \in 0 .. Len(frames[t]), SavedOK(t),
         frames'[t] = SubSeq(frames[t], 1, n), errors' = errors
  PROVE  SavedOK(t)'
<1>1. frames[t] \in Seq(Frames) /\ Len(frames[t]) \in Nat
  BY StackTypes DEF Shape
<1>2. Len(frames'[t]) = n /\ \A i \in 1 .. n : frames'[t][i] = frames[t][i]
  BY <1>1, Kept
<1>3. \A i \in 1 .. n : i \in 1 .. Len(frames[t])
  BY <1>1
<1> QED
  BY <1>2, <1>3 DEF SavedOK

LEMMA ExecuteAlone ==
  ASSUME Shape, Alone, NEW t \in Threads, Execute(t), ~overlapped'
  PROVE  Alone'
<1>1. CASE UNCHANGED <<stage, heap, at, frames, asked, errors, overlapped>>
  BY <1>1, Untouched DEF heap
<1>2. CASE Eval(t)
  <2>1. Inside = {} /\ Quiet /\ UNCHANGED <<cache, errors>> /\ frames[t] = <<>>
    BY <1>2 DEF Execute, Eval, Alone, Shape, StacksOK, PlaceOK
  <2>2. CASE Push(t, "executor", Script, depth + 1) /\ depth' = depth + 1 /\ GoTo(t, "running")
    <3> DEFINE f == [kind |-> "executor", of |-> Script, saved |-> jmpbuf, level |-> depth + 1]
    <3>1. jmpbuf' = <<t, Len(frames[t]) + 1>> /\ f \in Frames /\ frames'[t] = Append(frames[t], f)
      BY <2>2, PushDoes DEF Shape
    <3>2. f.kind = "executor" /\ f.saved = NoCatch /\ f.level = errors + 1
      BY <2>1 DEF Quiet
    <3> HIDE DEF f
    <3>3. at'[t] = "running" /\ \A u \in Threads \ {t} : at'[u] = at[u]
      BY <2>2, GoToDoes DEF Places, InsideAt, Shape
    <3>4. Len(frames'[t]) = 1 /\ frames'[t][1] = f
      BY <2>1, <3>1
    <3>5. CatchOK(t)'
      BY <2>1, <3>1, <3>3, <3>4 DEF CatchOK
    <3>6. SavedOK(t)'
      BY <2>1, <3>2, <3>4 DEF SavedOK
    <3>7. CacheOK(t)'
      BY <2>1, <3>2, <3>4 DEF CacheOK, Quiet
    <3>8. Inside' = {t}
      BY <2>1, <3>3, InsideNext DEF InsideAt
    <3> QED
      BY <3>5, <3>6, <3>7, <3>8 DEF Owned, Alone
  <2>3. CASE GoTo(t, "throwing") /\ UNCHANGED <<jmpbuf, depth, frames>>
    <3>1. at'[t] = "throwing" /\ \A u \in Threads \ {t} : at'[u] = at[u]
      BY <2>3, GoToDoes DEF Places, InsideAt, Shape
    <3>2. Inside' = {t}
      BY <2>1, <3>1, InsideNext DEF InsideAt
    <3>3. CatchOK(t)'
      BY <2>1, <2>3, <3>1 DEF CatchOK, Quiet
    <3>4. SavedOK(t)' /\ CacheOK(t)'
      BY <2>1, <2>3 DEF SavedOK, CacheOK, Quiet
    <3> QED
      BY <3>2, <3>3, <3>4 DEF Owned, Alone
  <2> QED
    BY <1>2, <2>2, <2>3 DEF Eval
<1> QED
  BY <1>1, <1>2 DEF Execute

LEMMA FinishAlone ==
  ASSUME Shape, Alone, NEW t \in Threads, Finish(t)
  PROVE  Alone'
<1>1. Inside = {t} /\ Owned(t)
  BY OwnerIsInside DEF Finish, InsideAt
<1>2. frames[t] # <<>> /\ Len(frames[t]) = 1 /\ frames[t][1].kind = "executor"
  BY HasStack DEF Finish, InsideAt, Shape, Top
<1>3. jmpbuf' = frames[t][1].saved /\ depth' = frames[t][1].level - 1
  BY <1>2, PopDoes DEF Finish, Shape, Top
<1>4. jmpbuf' = NoCatch /\ depth' = errors
  <2>1. frames[t][1].saved = NoCatch /\ frames[t][1].level = errors + 1
    BY <1>1, <1>2 DEF Owned, SavedOK
  <2> QED
    BY <1>3, <2>1 DEF Shape, TypeOK
<1>5. \A m \in Modules : cache[m] # "loading"
  <2>1. \A i \in 1 .. Len(frames[t]) : frames[t][i].kind # "safe"
    BY <1>2
  <2> QED
    BY <1>1, <2>1 DEF Owned, CacheOK
<1>6. Inside' = {}
  <2>1. at'[t] = "done" /\ \A u \in Threads \ {t} : at'[u] = at[u]
    BY GoToDoes DEF Finish, Places, Shape
  <2> QED
    BY <1>1, <2>1, InsideNext DEF InsideAt
<1> QED
  BY <1>4, <1>5, <1>6 DEF Finish, Alone, Quiet

(* An error is raised while the catchpoint is the top frame's.             *)
LEMMA RaiseAlone ==
  ASSUME Shape, Alone, NEW t \in Threads, NEW level \in Nat, Raise(t, level),
         at[t] \in {"running", "evaluating"}
  PROVE  Alone'
<1>1. Inside = {t} /\ Owned(t) /\ frames[t] # <<>>
  BY OwnerIsInside, HasStack DEF InsideAt, Shape
<1>2. at'[t] = "throwing" /\ \A u \in Threads \ {t} : at'[u] = at[u]
  BY GoToDoes DEF Raise, Places, InsideAt, Shape
<1>3. CatchOK(t)'
  BY <1>1, <1>2 DEF Raise, Owned, CatchOK
<1>4. SavedOK(t)' /\ CacheOK(t)'
  BY <1>1, <1>2 DEF Raise, Owned, SavedOK, CacheOK
<1> QED
  BY <1>1, <1>2, <1>3, <1>4, StillAlone DEF Owned, InsideAt

LEMMA CallAlone ==
  ASSUME Shape, Alone, NEW t \in Threads, NEW f, NEW args,
         CallFails(t, f, args) \/ Call(t, f, args) \/ Return(t)
  PROVE  Alone'
<1>1. CASE CallFails(t, f, args)
  <2>1. at[t] = "running" /\ depth \in Nat /\ depth + 1 \in Nat
    BY <1>1 DEF CallFails, Calling, InScript, Shape, TypeOK
  <2>2. CASE Raise(t, depth) \/ Raise(t, depth + 1)
    BY <2>1, <2>2, RaiseAlone
  <2>3. CASE UNCHANGED <<stage, heap, at, frames, asked, errors, overlapped>>
    BY <2>3, Untouched DEF heap
  <2> QED
    BY <1>1, <2>2, <2>3 DEF CallFails
<1>2. CASE Call(t, f, args) \/ Return(t)
  <2>1. Inside = {t} /\ Owned(t)
    BY <1>2, OwnerIsInside DEF Call, Return, Calling, InScript, InsideAt
  <2>2. at'[t] \in {"calling", "running"} /\ \A u \in Threads \ {t} : at'[u] = at[u]
    BY <1>2, GoToDoes DEF Call, Return, Places, InsideAt, Shape
  <2>3. at[t] \in {"running", "calling"} /\ UNCHANGED <<jmpbuf, frames, cache, errors>>
    BY <1>2 DEF Call, Return, Calling, InScript
  <2>4. CatchOK(t)' /\ SavedOK(t)' /\ CacheOK(t)'
    BY <2>1, <2>2, <2>3 DEF Owned, CatchOK, SavedOK, CacheOK
  <2> QED
    BY <2>1, <2>2, <2>4, StillAlone DEF Owned, InsideAt
<1> QED
  BY <1>1, <1>2

LEMMA RequireAlone ==
  ASSUME Shape, Alone, NEW t \in Threads, NEW m \in Modules, Require(t, m)
  PROVE  Alone'
<1>0. at[t] = "running" /\ depth \in Nat
  BY DEF Require, InScript, Shape, TypeOK
<1>1. CASE Raise(t, depth)
  BY <1>0, <1>1, RaiseAlone
<1>2. CASE /\ cache[m] = "absent"
           /\ cache' = [cache EXCEPT ![m] = "loading"]
           /\ Push(t, "safe", m, depth + 1)
           /\ depth' = depth + 2 /\ GoTo(t, "evaluating")
           /\ UNCHANGED <<stage, asked, process, errors, overlapped>>
  <2> DEFINE f == [kind |-> "safe", of |-> m, saved |-> jmpbuf, level |-> depth + 1]
             n == Len(frames[t])
  <2>1. jmpbuf' = <<t, n + 1>> /\ f \in Frames /\ frames'[t] = Append(frames[t], f)
    BY <1>2, PushDoes DEF Shape
  <2>2. at'[t] = "evaluating" /\ \A u \in Threads \ {t} : at'[u] = at[u]
    BY <1>2, GoToDoes DEF Places, InsideAt, Shape
  <2>3. Inside = {t} /\ Owned(t) /\ frames[t] # <<>> /\ frames[t] \in Seq(Frames) /\ n \in Nat
    BY <1>0, OwnerIsInside, HasStack, StackTypes DEF InsideAt, Shape
  <2>4. f.kind = "safe" /\ f.of = m /\ f.saved = <<t, n>>
    BY <1>0, <2>3 DEF Owned, CatchOK
  <2>5. /\ Len(frames'[t]) = n + 1 /\ frames'[t][n + 1] = f
        /\ \A i \in 1 .. n : frames'[t][i] = frames[t][i]
        /\ \A i \in 1 .. n + 1 : i \in 1 .. n \/ i = n + 1
    BY <2>1, <2>3, Pushed
  <2>6. \A u \in Modules : cache'[u] = IF u = m THEN "loading" ELSE cache[u]
    BY <1>2 DEF Shape, TypeOK
  <2> HIDE DEF f, n
  <2>7. CatchOK(t)'
    BY <2>1, <2>2, <2>5 DEF CatchOK
  <2>8. SavedOK(t)'
    BY <1>2, <2>1, <2>3, <2>4, SavedPushed DEF Owned, n
  <2>9. CacheOK(t)'
    <3>0. \A i, j \in 1 .. n :
            /\ frames[t][i].kind = "safe" /\ frames[t][j].kind = "safe"
            /\ frames[t][i].of = frames[t][j].of
            => i = j
      BY <2>3 DEF Owned, CacheOK, n
    <3>1. \A i \in 1 .. n : frames[t][i].kind = "safe" =>
            /\ frames[t][i].of \in Modules /\ frames[t][i].of # m
            /\ cache[frames[t][i].of] = "loading"
      <4>1. ASSUME NEW i \in 1 .. n, frames[t][i].kind = "safe"
            PROVE  /\ frames[t][i].of \in Modules /\ frames[t][i].of # m
                   /\ cache[frames[t][i].of] = "loading"
        <5>1. frames[t][i].of \in Modules
          BY <2>3, <4>1, Below DEF Shape, StacksOK, n
        <5>2. cache[frames[t][i].of] = "loading"
          BY <1>0, <2>3, <4>1 DEF Owned, CacheOK, n
        <5> QED
          BY <1>2, <5>1, <5>2
      <4> QED
        BY <4>1
    <3>2. \A i \in 1 .. Len(frames'[t]) : frames'[t][i].kind = "safe" =>
            cache'[frames'[t][i].of] = "loading"
      BY <2>4, <2>5, <2>6, <3>1
    <3>3. \A i, j \in 1 .. Len(frames'[t]) :
            /\ frames'[t][i].kind = "safe" /\ frames'[t][j].kind = "safe"
            /\ frames'[t][i].of = frames'[t][j].of
            => i = j
      BY <2>4, <2>5, <3>0, <3>1
    <3>4. \A u \in Modules : cache'[u] = "loading" =>
            \E i \in 1 .. Len(frames'[t]) :
              frames'[t][i].kind = "safe" /\ frames'[t][i].of = u
      <4>1. ASSUME NEW u \in Modules, cache'[u] = "loading", u # m
            PROVE  \E i \in 1 .. n : frames'[t][i].kind = "safe" /\ frames'[t][i].of = u
        BY <2>3, <2>5, <2>6, <4>1 DEF Owned, CacheOK, n
      <4>2. n + 1 \in 1 .. n + 1 /\ \A i \in 1 .. n : i \in 1 .. n + 1
        BY <2>3
      <4> QED
        BY <2>4, <2>5, <4>1, <4>2
    <3> QED
      BY <2>2, <3>2, <3>3, <3>4 DEF CacheOK
  <2> QED
    BY <2>2, <2>3, <2>7, <2>8, <2>9, StillAlone DEF Owned, InsideAt
<1> QED
  BY <1>1, <1>2 DEF Require

LEMMA EvalModuleAlone ==
  ASSUME Shape, Alone, NEW t \in Threads, EvalModule(t)
  PROVE  Alone'
<1>0. at[t] = "evaluating" /\ depth \in Nat
  BY DEF EvalModule, Shape, TypeOK
<1>1. CASE Raise(t, depth)
  BY <1>0, <1>1, RaiseAlone
<1>2. CASE /\ Push(t, "executor", Top(t).of, depth + 1)
           /\ depth' = depth + 1 /\ GoTo(t, "running")
           /\ UNCHANGED <<stage, cache, asked, process, errors, overlapped>>
  <2> DEFINE f == [kind |-> "executor", of |-> Top(t).of, saved |-> jmpbuf, level |-> depth + 1]
             n == Len(frames[t])
  <2>0. Top(t).of \in Modules \cup {Script}
    BY <1>0, HasStack DEF InsideAt, Shape
  <2>1. jmpbuf' = <<t, n + 1>> /\ f \in Frames /\ frames'[t] = Append(frames[t], f)
    BY <1>2, <2>0, PushDoes DEF Shape
  <2>2. at'[t] = "running" /\ \A u \in Threads \ {t} : at'[u] = at[u]
    BY <1>2, GoToDoes DEF Places, InsideAt, Shape
  <2>3. Inside = {t} /\ Owned(t) /\ frames[t] # <<>> /\ frames[t] \in Seq(Frames) /\ n \in Nat
    BY <1>0, OwnerIsInside, HasStack, StackTypes DEF InsideAt, Shape
  <2>4. f.kind = "executor" /\ f.saved = <<t, n>>
    BY <1>0, <2>3 DEF Owned, CatchOK
  <2>5. /\ Len(frames'[t]) = n + 1 /\ frames'[t][n + 1] = f
        /\ \A i \in 1 .. n : frames'[t][i] = frames[t][i]
        /\ \A i \in 1 .. n + 1 : i \in 1 .. n \/ i = n + 1
        /\ \A i \in 1 .. n : i \in 1 .. n + 1
    BY <2>1, <2>3, Pushed
  <2> HIDE DEF f, n
  <2>7. CatchOK(t)'
    BY <2>1, <2>2, <2>5 DEF CatchOK
  <2>8. SavedOK(t)'
    BY <1>2, <2>1, <2>3, <2>4, SavedPushed DEF Owned, n
  <2>9. CacheOK(t)'
    <3>0. \A i, j \in 1 .. n :
            /\ frames[t][i].kind = "safe" /\ frames[t][j].kind = "safe"
            /\ frames[t][i].of = frames[t][j].of
            => i = j
      BY <2>3 DEF Owned, CacheOK, n
    <3>1. \A i \in 1 .. Len(frames'[t]) : frames'[t][i].kind = "safe" =>
            i \in 1 .. n /\ cache'[frames'[t][i].of] = "loading"
      <4>1. \A i \in 1 .. n : frames[t][i].kind = "safe" => cache[frames[t][i].of] = "loading"
        BY <1>0, <2>3 DEF Owned, CacheOK, n
      <4>2. cache' = cache
        BY <1>2
      <4>3. \A i \in 1 .. n + 1 : frames'[t][i].kind = "safe" =>
              i \in 1 .. n /\ frames'[t][i] = frames[t][i]
        BY <2>4, <2>5
      <4> QED
        BY <2>5, <4>1, <4>2, <4>3
    <3>2. \A i, j \in 1 .. Len(frames'[t]) :
            /\ frames'[t][i].kind = "safe" /\ frames'[t][j].kind = "safe"
            /\ frames'[t][i].of = frames'[t][j].of
            => i = j
      BY <2>5, <3>0, <3>1
    <3>3. \A u \in Modules : cache'[u] = "loading" =>
            \E i \in 1 .. Len(frames'[t]) :
              frames'[t][i].kind = "safe" /\ frames'[t][i].of = u
      BY <1>2, <2>3, <2>5 DEF Owned, CacheOK, n
    <3> QED
      BY <2>2, <3>1, <3>2, <3>3 DEF CacheOK
  <2> QED
    BY <2>2, <2>3, <2>7, <2>8, <2>9, StillAlone DEF Owned, InsideAt
<1> QED
  BY <1>1, <1>2 DEF EvalModule

LEMMA LeaveModuleAlone ==
  ASSUME Shape, Alone, NEW t \in Threads, LeaveModule(t)
  PROVE  Alone'
<1> DEFINE n == Len(frames[t])
<1>1. /\ frames[t] # <<>> /\ n > 1 /\ n \in Nat /\ frames[t] \in Seq(Frames)
      /\ frames[t][n].kind = "executor" /\ at[t] = "running"
  BY HasStack, StackTypes DEF LeaveModule, InsideAt, Top, Shape
<1>2. Inside = {t} /\ Owned(t)
  BY <1>1, OwnerIsInside DEF InsideAt
<1>3. /\ frames'[t] = SubSeq(frames[t], 1, n - 1) /\ n - 1 \in 0 .. n
      /\ jmpbuf' = frames[t][n].saved /\ errors' = errors
  BY <1>1, PopDoes DEF LeaveModule, Top, Shape
<1>4. at'[t] = "returning" /\ \A u \in Threads \ {t} : at'[u] = at[u]
  BY GoToDoes DEF LeaveModule, Places, InsideAt, Shape
<1>5. /\ frames[t][n - 1].kind = "safe" /\ frames[t][n - 1].of = frames[t][n].of
      /\ n - 1 \in 1 .. n /\ n \in 1 .. n
      /\ \A i \in 1 .. n : frames[t][i].kind = "safe" => frames[t][i].of \in Modules /\ i \in 1 .. n - 1
  BY <1>1, Below DEF Shape, StacksOK
<1>6. /\ Len(frames'[t]) = n - 1 /\ \A i \in 1 .. n - 1 : frames'[t][i] = frames[t][i] /\ i \in 1 .. n
  BY <1>1, <1>3, Kept
<1>7. \A u \in Modules :
        cache'[u] = IF u = frames[t][n - 1].of /\ cache[u] = "loading" THEN "loaded" ELSE cache[u]
  BY <1>5 DEF LeaveModule, Shape, TypeOK, Top
<1> HIDE DEF n
<1>8. CatchOK(t)'
  <2>1. \A i \in 1 .. n : i # 1 => frames[t][i].saved = <<t, i - 1>>
    BY <1>2 DEF Owned, SavedOK, n
  <2>2. n \in 1 .. n /\ n # 1
    BY <1>1, <1>5
  <2>3. frames[t][n].saved = <<t, n - 1>>
    BY <2>1, <2>2
  <2> QED
    BY <1>3, <1>4, <1>6, <2>3 DEF CatchOK
<1>9. SavedOK(t)'
  BY <1>2, <1>3, SavedKept DEF Owned, n
<1>10. CacheOK(t)'
  <2>1. \A i \in 1 .. n : frames[t][i].kind = "safe" => cache[frames[t][i].of] = "loading"
    BY <1>1, <1>2 DEF Owned, CacheOK, n
  <2>2. \A i, j \in 1 .. n :
          /\ frames[t][i].kind = "safe" /\ frames[t][j].kind = "safe"
          /\ frames[t][i].of = frames[t][j].of
          => i = j
    BY <1>2 DEF Owned, CacheOK, n
  <2>3. \A i \in 1 .. Len(frames'[t]) : frames'[t][i].kind = "safe" =>
          cache'[frames'[t][i].of] = IF i = n - 1 THEN "loaded" ELSE "loading"
    BY <1>5, <1>6, <1>7, <2>1, <2>2
  <2>4. \A u \in Modules : cache'[u] = "loading" =>
          \E i \in 1 .. Len(frames'[t]) :
            frames'[t][i].kind = "safe" /\ frames'[t][i].of = u
    <3>1. ASSUME NEW u \in Modules, cache'[u] = "loading"
          PROVE  \E i \in 1 .. n : frames[t][i].kind = "safe" /\ frames[t][i].of = u
      BY <1>2, <1>7, <3>1 DEF Owned, CacheOK, n
    <3> QED
      BY <1>5, <1>6, <3>1
  <2> QED
    BY <1>4, <1>6, <2>2, <2>3, <2>4 DEF CacheOK
<1> QED
  BY <1>2, <1>4, <1>8, <1>9, <1>10, StillAlone DEF Owned, InsideAt

LEMMA LeaveRequireAlone ==
  ASSUME Shape, Alone, NEW t \in Threads, LeaveRequire(t)
  PROVE  Alone'
<1> DEFINE n == Len(frames[t])
<1>1. /\ frames[t] # <<>> /\ n \in 1 .. n /\ n \in Nat /\ frames[t] \in Seq(Frames)
      /\ frames[t][n].kind = "safe" /\ at[t] = "returning"
  BY HasStack, StackTypes DEF LeaveRequire, InsideAt, Top, Shape
<1>2. Inside = {t} /\ Owned(t)
  BY <1>1, OwnerIsInside DEF InsideAt
<1>3. /\ frames'[t] = SubSeq(frames[t], 1, n - 1) /\ n - 1 \in 0 .. n
      /\ jmpbuf' = frames[t][n].saved /\ UNCHANGED <<cache, errors>>
  BY <1>1, PopDoes DEF LeaveRequire, Top, Shape
<1>4. at'[t] = "running" /\ \A u \in Threads \ {t} : at'[u] = at[u]
  BY GoToDoes DEF LeaveRequire, Places, InsideAt, Shape
<1>5. n - 1 \in 1 .. n
  BY <1>1, Below DEF Shape, StacksOK
<1>6. Len(frames'[t]) = n - 1 /\ \A i \in 1 .. n - 1 : frames'[t][i] = frames[t][i] /\ i \in 1 .. n
  BY <1>1, <1>3, Kept
<1> HIDE DEF n
<1>8. CatchOK(t)'
  <2>1. \A i \in 1 .. n : i # 1 => frames[t][i].saved = <<t, i - 1>>
    BY <1>2 DEF Owned, SavedOK, n
  <2>2. n \in 1 .. n /\ n # 1
    BY <1>1, <1>5
  <2>3. frames[t][n].saved = <<t, n - 1>>
    BY <2>1, <2>2
  <2> QED
    BY <1>3, <1>4, <1>6, <2>3 DEF CatchOK
<1>9. SavedOK(t)'
  BY <1>2, <1>3, SavedKept DEF Owned, n
<1>10. CacheOK(t)'
  <2>1. \A i \in 1 .. n : frames[t][i].kind = "safe" =>
          cache[frames[t][i].of] = IF i = n THEN "loaded" ELSE "loading"
    BY <1>1, <1>2 DEF Owned, CacheOK, n
  <2>2. \A i, j \in 1 .. n :
          /\ frames[t][i].kind = "safe" /\ frames[t][j].kind = "safe"
          /\ frames[t][i].of = frames[t][j].of
          => i = j
    BY <1>2 DEF Owned, CacheOK, n
  <2>3. \A i \in 1 .. Len(frames'[t]) : i # n /\ (frames'[t][i].kind = "safe" =>
          cache'[frames'[t][i].of] = "loading")
    BY <1>1, <1>3, <1>6, <2>1
  <2>4. \A u \in Modules : cache'[u] = "loading" =>
          \E i \in 1 .. Len(frames'[t]) :
            frames'[t][i].kind = "safe" /\ frames'[t][i].of = u
    <3>1. ASSUME NEW u \in Modules, cache'[u] = "loading"
          PROVE  \E i \in 1 .. n : i # n /\ frames[t][i].kind = "safe" /\ frames[t][i].of = u
      <4>1. PICK i \in 1 .. n : frames[t][i].kind = "safe" /\ frames[t][i].of = u
        BY <1>2, <1>3, <3>1 DEF Owned, CacheOK, n
      <4> QED
        BY <1>3, <2>1, <3>1, <4>1
    <3>2. \A i \in 1 .. n : i # n => i \in 1 .. n - 1
      BY <1>1
    <3> QED
      BY <1>6, <3>1, <3>2
  <2> QED
    BY <1>4, <1>6, <2>2, <2>3, <2>4 DEF CacheOK
<1> QED
  BY <1>2, <1>4, <1>8, <1>9, <1>10, StillAlone DEF Owned, InsideAt

(* An error of the owner lands on its own top frame, or on the safe call   *)
(* below the executor that has thrown it again.                            *)
LEMMA LandsAtHome ==
  ASSUME Shape, NEW t \in Threads, Owned(t), at[t] = "throwing", jmpbuf # NoCatch
  PROVE  /\ jmpbuf = <<t, jmpbuf[2]>> /\ jmpbuf[2] \in 1 .. Len(frames[t])
         /\ frames[t][jmpbuf[2]].kind = "executor" => jmpbuf[2] = Len(frames[t])
         /\ \A i \in 1 .. Len(frames[t]) : frames[t][i].kind = "safe" => i <= jmpbuf[2]
<1> DEFINE n == Len(frames[t])
<1>1. /\ n \in Nat /\ frames[t] \in Seq(Frames) /\ (frames[t] # <<>> => n \in 1 .. n)
  BY StackTypes DEF Shape
<1>2. CASE frames[t] # <<>> /\ jmpbuf = <<t, n>>
  BY <1>1, <1>2
<1>3. CASE frames[t] # <<>> /\ Top(t).kind = "executor" /\ jmpbuf = Top(t).saved
  <2>1. Top(t) = frames[t][n] /\ n \in 1 .. n
    BY <1>1, <1>3 DEF Top
  <2>2. frames[t][n].saved = IF n = 1 THEN NoCatch ELSE <<t, n - 1>>
    BY <2>1 DEF Owned, SavedOK
  <2>3. n # 1 /\ jmpbuf = <<t, n - 1>>
    BY <1>3, <2>1, <2>2
  <2>7. frames[t][n].kind = "executor"
    BY <1>3, <2>1
  <2>4. n > 1 /\ n - 1 \in 1 .. n
    <3> HIDE DEF n
    <3> QED
      BY <1>1, <2>1, <2>3
  <2>6. frames[t][n - 1].kind = "safe"
    BY <1>1, <2>1, <2>4, <2>7, Below DEF Shape, StacksOK
  <2>5. \A i \in 1 .. n : frames[t][i].kind = "safe" => i <= n - 1
    BY <1>1, <1>3, <2>1
  <2> QED
    BY <2>3, <2>4, <2>5, <2>6
<1> QED
  BY <1>2, <1>3 DEF Owned, CatchOK

LEMMA WholeStack ==
  ASSUME Shape, NEW t \in Threads
  PROVE  SubSeq(frames[t], 1, Len(frames[t])) = frames[t]
<1>1. frames[t] \in Seq(Frames)
  BY StackTypes DEF Shape
<1> QED
  BY <1>1

LEMMA FailModuleAlone ==
  ASSUME Shape, Alone, NEW t \in Threads, FailModule(t)
  PROVE  Alone'
<1> DEFINE n == jmpbuf[2]  len == Len(frames[t])  m == frames[t][n].of
<1>1. at[t] = "throwing" /\ Inside = {t} /\ Owned(t) /\ jmpbuf # NoCatch
  BY OwnerIsInside DEF FailModule, Lands, InsideAt
<1>2. /\ n \in 1 .. len /\ len \in Nat /\ frames[t] \in Seq(Frames)
      /\ Landing(t) = frames[t][n] /\ frames[t][n].kind = "safe"
      /\ \A i \in 1 .. len : frames[t][i].kind = "safe" => i <= n
  BY <1>1, LandsAtHome, StackTypes, Landed DEF FailModule, Shape
<1>3. n - 1 \in 1 .. len /\ n - 1 \in 0 .. len /\ m \in Modules
  BY <1>2, Below DEF Shape, StacksOK
<1>4. frames'[t] = SubSeq(frames[t], 1, n - 1)
  BY <1>3, KeepDoes DEF FailModule, Shape
<1>5. /\ jmpbuf' = frames[t][n].saved /\ UNCHANGED <<at, errors>>
      /\ \A u \in Modules : cache'[u] = IF u = m THEN "absent" ELSE cache[u]
  BY <1>2, <1>3 DEF FailModule, Without, Shape, TypeOK
<1>6. /\ Len(frames'[t]) = n - 1 /\ frames'[t] # <<>>
      /\ \A i \in 1 .. n - 1 : frames'[t][i] = frames[t][i] /\ i \in 1 .. len /\ i # n
  BY <1>2, <1>3, <1>4, Kept
<1>7. \A i \in 1 .. len : frames[t][i].kind = "safe" =>
        frames[t][i].of \in Modules /\ cache[frames[t][i].of] = "loading"
  <2>1. \A i \in 1 .. len : frames[t][i].kind = "safe" => frames[t][i].of \in Modules
    BY <1>2, Below DEF Shape, StacksOK
  <2>2. \A i \in 1 .. len : frames[t][i].kind = "safe" => cache[frames[t][i].of] = "loading"
    BY <1>1 DEF Owned, CacheOK
  <2> QED
    BY <2>1, <2>2
<1>8. \A i, j \in 1 .. len :
        /\ frames[t][i].kind = "safe" /\ frames[t][j].kind = "safe"
        /\ frames[t][i].of = frames[t][j].of
        => i = j
  BY <1>1 DEF Owned, CacheOK
<1>9. \A u \in Modules : cache[u] = "loading" =>
        \E i \in 1 .. len : frames[t][i].kind = "safe" /\ frames[t][i].of = u
  BY <1>1 DEF Owned, CacheOK
<1>10. SavedOK(t)'
  BY <1>1, <1>3, <1>4, <1>5, SavedKept DEF Owned
<1>11. CatchOK(t)'
  <2>1. \A i \in 1 .. len : i # 1 => frames[t][i].saved = <<t, i - 1>>
    BY <1>1 DEF Owned, SavedOK
  <2>2. n # 1
    BY <1>2, <1>3
  <2>3. jmpbuf' = <<t, n - 1>>
    BY <1>2, <1>5, <2>1, <2>2
  <2> QED
    BY <1>1, <1>5, <1>6, <2>3 DEF CatchOK
<1> HIDE DEF n, len
<1>12. CacheOK(t)'
  <2>1. \A i \in 1 .. n - 1 : frames[t][i].kind = "safe" =>
          frames[t][i].of # m /\ cache'[frames[t][i].of] = "loading"
    <3>1. ASSUME NEW i \in 1 .. n - 1, frames[t][i].kind = "safe"
          PROVE  frames[t][i].of # m /\ cache'[frames[t][i].of] = "loading"
      <4>1. i \in 1 .. len /\ i # n /\ n \in 1 .. len
        BY <1>2, <1>6
      <4>2. frames[t][i].of # frames[t][n].of
        BY <1>2, <1>8, <3>1, <4>1
      <4> QED
        BY <1>5, <1>7, <3>1, <4>1, <4>2
    <3> QED
      BY <3>1
  <2>2. \A i \in 1 .. Len(frames'[t]) : frames'[t][i].kind = "safe" =>
          cache'[frames'[t][i].of] = "loading"
    BY <1>6, <2>1
  <2>3. \A i, j \in 1 .. Len(frames'[t]) :
          /\ frames'[t][i].kind = "safe" /\ frames'[t][j].kind = "safe"
          /\ frames'[t][i].of = frames'[t][j].of
          => i = j
    BY <1>6, <1>8
  <2>4. ASSUME NEW u \in Modules, cache'[u] = "loading"
        PROVE  \E i \in 1 .. Len(frames'[t]) :
                 frames'[t][i].kind = "safe" /\ frames'[t][i].of = u
    <3>1. u # m /\ cache[u] = "loading"
      BY <1>5, <2>4
    <3>2. PICK i \in 1 .. len : frames[t][i].kind = "safe" /\ frames[t][i].of = u
      BY <1>9, <3>1
    <3>3. i \in 1 .. n - 1
      BY <1>2, <3>1, <3>2
    <3> QED
      BY <1>6, <3>2, <3>3
  <2> QED
    BY <1>1, <1>5, <2>2, <2>3, <2>4 DEF CacheOK
<1> QED
  BY <1>1, <1>5, <1>10, <1>11, <1>12, StillAlone DEF Owned, InsideAt

LEMMA UnwindAlone ==
  ASSUME Shape, Alone, NEW t \in Threads, Unwind(t)
  PROVE  Alone' /\ ~JumpAway(t)
<1> DEFINE n == Len(frames[t])
<1>0. at[t] = "throwing" /\ Inside = {t} /\ Owned(t)
  BY OwnerIsInside DEF Unwind, Catch, Rethrow, FailModule, Fatal, JumpAway, Lands, InsideAt
<1>a. ~JumpAway(t)
  BY <1>0, LandsAtHome DEF JumpAway
<1> SUFFICES Alone'
  BY <1>a
<1>1. CASE Catch(t) \/ Rethrow(t)
  <2>1. Lands(t, "executor") /\ jmpbuf # NoCatch
    BY <1>1 DEF Catch, Rethrow, Lands
  <2>2. /\ jmpbuf = <<t, n>> /\ jmpbuf[2] = n /\ n \in 1 .. n
        /\ Landing(t) = Top(t) /\ Top(t).kind = "executor"
    BY <1>0, <2>1, LandsAtHome, Landed DEF Landing, Top, Shape
  <2>3. n \in 0 .. n /\ Keep(t, n) /\ frames[t] # <<>>
    BY <1>1, <2>2 DEF Catch, Rethrow
  <2>4. frames'[t] = frames[t]
    BY <2>3, KeepDoes, WholeStack DEF Shape
  <2>5. CASE Catch(t)
    <3>1. at'[t] = "running" /\ \A u \in Threads \ {t} : at'[u] = at[u]
      BY <2>5, GoToDoes DEF Catch, Places, InsideAt, Shape
    <3>2. CatchOK(t)'
      BY <2>2, <2>4, <2>5, <3>1 DEF Catch, CatchOK
    <3>3. SavedOK(t)' /\ CacheOK(t)'
      BY <1>0, <2>4, <2>5, <3>1 DEF Catch, Owned, SavedOK, CacheOK
    <3> QED
      BY <1>0, <2>5, <3>1, <3>2, <3>3, StillAlone DEF Owned, InsideAt, Catch
  <2>6. CASE Rethrow(t)
    <3>1. CatchOK(t)'
      BY <1>0, <2>2, <2>3, <2>4, <2>6 DEF Rethrow, EntryCatch, CatchOK, Top
    <3>2. SavedOK(t)' /\ CacheOK(t)'
      BY <1>0, <2>4, <2>6 DEF Rethrow, Owned, SavedOK, CacheOK
    <3> QED
      BY <1>0, <2>6, <3>1, <3>2, StillAlone DEF Owned, InsideAt, Rethrow
  <2> QED
    BY <1>1, <2>5, <2>6
<1>2. CASE FailModule(t)
  BY <1>2, FailModuleAlone
<1>3. CASE Fatal(t)
  <2>1. jmpbuf = NoCatch /\ n \in Nat /\ (frames[t] # <<>> => n \in 1 .. n)
    BY <1>3, StackTypes DEF Fatal, Shape
  <2>2. Inside' = {}
    <3>1. at'[t] = "spinning" /\ \A u \in Threads \ {t} : at'[u] = at[u]
      BY <1>3, GoToDoes DEF Fatal, Places, Shape
    <3> QED
      BY <1>0, <3>1, InsideNext DEF InsideAt
  <2>3. CASE frames[t] = <<>> /\ depth = errors
    <3>1. \A m \in Modules : cache[m] # "loading"
      BY <1>0, <2>3 DEF Owned, CacheOK
    <3> QED
      BY <1>3, <2>1, <2>2, <2>3, <3>1 DEF Fatal, heap, Alone, Quiet
  <2>4. CASE /\ frames[t] # <<>> /\ Top(t).kind = "executor"
             /\ jmpbuf = Top(t).saved /\ depth = Top(t).level
    <3>1. \A i \in 1 .. n : i # 1 => frames[t][i].saved = <<t, i - 1>>
      BY <1>0 DEF Owned, SavedOK
    <3>2. n = 1
      <4>1. frames[t][n].saved = <<>> /\ n \in 1 .. n
        BY <2>1, <2>4 DEF Top, NoCatch
      <4>2. <<t, n - 1>> # <<>>
        OBVIOUS
      <4> QED
        BY <3>1, <4>1, <4>2
    <3>3. depth = errors + 1
      BY <1>0, <2>4, <3>2 DEF Owned, SavedOK, Top
    <3>4. \A i \in 1 .. n : frames[t][i].kind # "safe"
      BY <2>4, <3>2 DEF Top
    <3>5. \A m \in Modules : cache[m] # "loading"
      BY <1>0, <3>4 DEF Owned, CacheOK
    <3> QED
      BY <1>3, <2>1, <2>2, <2>4, <3>3, <3>5 DEF Fatal, heap, Alone, Quiet
  <2>5. ~(frames[t] # <<>> /\ jmpbuf = <<t, n>>)
    BY <2>1 DEF NoCatch
  <2> QED
    BY <1>0, <2>3, <2>4, <2>5 DEF Owned, CatchOK
<1> QED
  BY <1>a, <1>1, <1>2, <1>3 DEF Unwind

LEMMA AloneInvariant ==
  ASSUME Shape, Alone, Next, ~overlapped'
  PROVE  Alone' /\ \A t \in Threads : ~JumpAway(t)
<1>a. \A t \in Threads : ~JumpAway(t)
  BY UnwindAlone DEF Unwind
<1> SUFFICES Alone'
  BY <1>a
<1>1. CASE Register
  BY <1>1, Untouched DEF Register, heap
<1>2. ASSUME NEW t \in Threads, Throw(t) PROVE Alone'
  <2>1. depth \in Nat /\ at[t] = "running" /\ Raise(t, depth)
    BY <1>2 DEF Throw, InScript, Shape, TypeOK
  <2> QED
    BY <2>1, RaiseAlone
<1>3. ASSUME NEW t \in Threads, NEW c \in Calls,
             CallFails(t, c[1], c[2]) \/ Call(t, c[1], c[2])
      PROVE  Alone'
  BY <1>3, CallAlone
<1> QED
  BY <1>1, <1>2, <1>3, ExecuteAlone, FinishAlone, CallAlone, RequireAlone,
     EvalModuleAlone, LeaveModuleAlone, LeaveRequireAlone, UnwindAlone DEF Next

(* The inductive invariant.                                                *)
IInv == Shape /\ (overlapped \/ Alone) /\ JumpsComeHome

LEMMA Invariance == Spec => []IInv
<1>1. Init => IInv
  <2> SUFFICES ASSUME Init PROVE IInv
    OBVIOUS
  <2>1. Shape
    BY TypeAndStacksInit DEF Shape
  <2>2. Inside = {} /\ Quiet
    BY DEF Init, Inside, InsideAt, Quiet
  <2> QED
    BY <2>1, <2>2 DEF IInv, Alone, JumpsComeHome, Init
<1>2. IInv /\ [Next]_vars => IInv'
  <2> SUFFICES ASSUME IInv, [Next]_vars PROVE IInv'
    OBVIOUS
  <2>1. Shape'
    BY ShapeInvariant DEF IInv
  <2>2. CASE UNCHANGED vars
    <3>1. overlapped' \/ Alone'
      BY <2>2, Untouched DEF vars, IInv
    <3> QED
      BY <2>1, <2>2, <3>1 DEF vars, IInv, JumpsComeHome
  <2>3. CASE Next
    <3>1. overlapped => overlapped'
      BY <2>3 DEF Next, Register, Execute, Eval, Finish, Throw, Raise, CallFails, Call, Return,
                  Require, EvalModule, LeaveModule, LeaveRequire, Unwind, Catch, Rethrow,
                  FailModule, Fatal, JumpAway
    <3>2. process' = "lost" => process = "lost" \/ \E t \in Threads : JumpAway(t)
      BY <2>3 DEF Next, Register, Execute, Eval, Finish, Throw, Raise, CallFails, Call, Return,
                  Require, EvalModule, LeaveModule, LeaveRequire, Unwind, Catch, Rethrow,
                  FailModule, Fatal
    <3>3. CASE overlapped'
      BY <2>1, <3>3 DEF IInv, JumpsComeHome
    <3>4. CASE ~overlapped'
      <4>1. Alone' /\ \A t \in Threads : ~JumpAway(t)
        BY <2>3, <3>1, <3>4, AloneInvariant DEF IInv
      <4> QED
        BY <2>1, <3>1, <3>2, <3>4, <4>1 DEF IInv, JumpsComeHome
    <3> QED
      BY <3>3, <3>4
  <2> QED
    BY <2>2, <2>3
<1> QED
  BY <1>1, <1>2, PTL DEF Spec

(* While one script at a time uses the heap, an error jumps only to a live *)
(* frame of its own thread: the catchpoint that longjmp uses is never      *)
(* another's and never left behind.                                        *)
THEOREM ErrorsJumpHome == Spec => []JumpsComeHome
<1>1. IInv => JumpsComeHome
  BY DEF IInv
<1> QED
  BY <1>1, Invariance, PTL

(* Between scripts the heap has no catchpoint and has leaked one call      *)
(* level for each error that nobody caught, and no other.                  *)
THEOREM LeaksAreErrors == Spec => []LevelsLeakByErrors
<1>1. IInv => LevelsLeakByErrors
  BY DEF IInv, LevelsLeakByErrors, Alone, Quiet
<1> QED
  BY <1>1, Invariance, PTL

(* The modules in the middle of being loaded are those that the running    *)
(* script requires: no failed one stays in the cache, no circle goes on.   *)
THEOREM FailuresLeaveCache == Spec => []FailedModulesLeave
<1>1. IInv => FailedModulesLeave
  <2> SUFFICES ASSUME IInv, ~overlapped
               PROVE  {m \in Modules : cache[m] = "loading"}
                      = IF \E t \in Inside : at[t] = "returning"
                        THEN Requiring \ {Top(t).of : t \in Inside} ELSE Requiring
    BY DEF FailedModulesLeave
  <2>1. CASE Inside = {} /\ Quiet
    BY <2>1 DEF Quiet, Requiring
  <2>2. ASSUME NEW t \in Threads, Inside = {t}, Owned(t)
        PROVE  {m \in Modules : cache[m] = "loading"}
               = IF \E u \in Inside : at[u] = "returning"
                 THEN Requiring \ {Top(u).of : u \in Inside} ELSE Requiring
    <3> DEFINE n == Len(frames[t])
               Safe(i) == frames[t][i].kind = "safe"
    <3>1. n \in Nat /\ DOMAIN frames[t] = 1 .. n
      BY StackTypes DEF IInv, Shape
    <3>2. Requiring = {m \in Modules : \E i \in 1 .. n : Safe(i) /\ frames[t][i].of = m}
      BY <2>2, <3>1 DEF Requiring
    <3>3. \A m \in Modules : cache[m] = "loading" => m \in Requiring
      BY <2>2, <3>2 DEF Owned, CacheOK
    <3>4. CASE at[t] # "returning"
      <4>1. \A m \in Requiring : cache[m] = "loading"
        BY <2>2, <3>2, <3>4 DEF Owned, CacheOK
      <4> QED
        BY <2>2, <3>2, <3>3, <3>4, <4>1
    <3>5. CASE at[t] = "returning"
      <4>1. n \in 1 .. n /\ Safe(n) /\ Top(t) = frames[t][n]
        BY <2>2, <3>5, HasStack DEF IInv, Shape, InsideAt, Top
      <4>2. \A i \in 1 .. n : Safe(i) =>
              cache[frames[t][i].of] = IF i = n THEN "loaded" ELSE "loading"
        BY <2>2, <3>5 DEF Owned, CacheOK
      <4>3. \A i \in 1 .. n : Safe(i) /\ frames[t][i].of = frames[t][n].of => i = n
        BY <2>2, <4>1 DEF Owned, CacheOK
      <4>4. \A m \in Modules : cache[m] = "loading" <=> m \in Requiring /\ m # frames[t][n].of
        <5>1. ASSUME NEW m \in Modules, cache[m] = "loading"
              PROVE  m # frames[t][n].of
          BY <4>1, <4>2, <5>1
        <5>2. ASSUME NEW m \in Modules, m \in Requiring, m # frames[t][n].of
              PROVE  cache[m] = "loading"
          <6>1. PICK i \in 1 .. n : Safe(i) /\ frames[t][i].of = m
            BY <3>2, <5>2
          <6> QED
            BY <4>2, <5>2, <6>1
        <5> QED
          BY <3>3, <5>1, <5>2
      <4>5. {Top(u).of : u \in Inside} = {frames[t][n].of}
        BY <2>2, <4>1
      <4>6. \E u \in Inside : at[u] = "returning"
        BY <2>2, <3>5
      <4>7. Requiring \subseteq Modules
        BY <3>2
      <4> HIDE DEF n, Safe
      <4>8. {m \in Modules : cache[m] = "loading"} = Requiring \ {frames[t][n].of}
        BY <4>4, <4>7
      <4> QED
        BY <4>5, <4>6, <4>8
    <3> QED
      BY <3>4, <3>5
  <2> QED
    BY <2>1, <2>2 DEF IInv, Alone
<1> QED
  BY <1>1, Invariance, PTL

----------------------------------------------------------------------------
(* What game functions are asked for.                                      *)

LEMMA Given ==
  ASSUME NEW args \in Seq(Arguments), NEW i \in Nat
  PROVE  /\ i < Len(args) => Reading(args, i) = args[i + 1] /\ Reading(args, i) \in Arguments
         /\ i >= Len(args) => Reading(args, i) = "undefined"
<1>1. Len(args) \in Nat /\ \A j \in 1 .. Len(args) : args[j] \in Arguments
  OBVIOUS
<1> QED
  BY <1>1 DEF Reading

(* Above the arguments, a vector's components.                             *)
LEMMA Above ==
  ASSUME NEW args \in Seq(Arguments), Reading(args, 1) = "vector"
  PROVE  /\ Len(args) >= 2
         /\ \A i \in Nat : i < Len(args) => Reading(AfterVector(args), i) = Reading(args, i)
         /\ Len(args) = 2 => Reading(AfterVector(args), 2) = "X"
         /\ Len(args) = 2 => Reading(AfterVector(args), 3) = "Y"
         /\ Len(args) = 3 => Reading(AfterVector(args), 3) = "X"
<1>1. Len(args) \in Nat /\ Len(args) >= 2
  BY DEF Reading
<1>2. AfterVector(args) = args \o <<"X", "Y", "Z">>
  BY DEF AfterVector, IsVector
<1>3. args \in Seq(Arguments \cup Components) /\ <<"X", "Y", "Z">> \in Seq(Arguments \cup Components)
  BY DEF Components
<1>4. /\ Len(AfterVector(args)) = Len(args) + 3
      /\ \A i \in 1 .. Len(args) : AfterVector(args)[i] = args[i]
      /\ AfterVector(args)[Len(args) + 1] = "X"
      /\ AfterVector(args)[Len(args) + 2] = "Y"
  BY <1>1, <1>2, <1>3
<1> DEFINE stack == AfterVector(args)
<1> HIDE DEF stack
<1>5. /\ Len(stack) = Len(args) + 3 /\ stack[Len(args) + 1] = "X" /\ stack[Len(args) + 2] = "Y"
      /\ \A i \in 1 .. Len(args) : stack[i] = args[i]
  BY <1>4 DEF stack
<1>6. ASSUME NEW i \in Nat, i < Len(args) PROVE Reading(stack, i) = Reading(args, i)
  <2>1. i + 1 \in 1 .. Len(args) /\ i < Len(stack)
    BY <1>1, <1>5, <1>6
  <2> QED
    BY <1>5, <1>6, <2>1 DEF Reading
<1>7. /\ Reading(stack, Len(args)) = "X" /\ Reading(stack, Len(args) + 1) = "Y"
  BY <1>1, <1>5 DEF Reading
<1>8. Len(args) = 2 => Reading(stack, 2) = "X" /\ Reading(stack, 3) = "Y"
  BY <1>7
<1>9. Len(args) = 3 => Reading(stack, 3) = "X"
  BY <1>7
<1> QED
  BY <1>1, <1>6, <1>8, <1>9 DEF stack

LEMMA FewArguments ==
  ASSUME NEW n \in Nat, n >= 2
  PROVE  /\ n = 2 \/ n > 2
         /\ n < 4 => n = 2 \/ n = 3
OBVIOUS

(* For every argument list a function accepts, it uses the optional        *)
(* arguments its signature names or its defaults, but for the volume and   *)
(* the pitch of playSound.                                                 *)
LEMMA Optionals ==
  ASSUME NEW f, NEW args \in Seq(Arguments), ~Throws(f, args)
  PROVE  (\A i \in DOMAIN Signature(f) : Uses(f, args)[i] = Expected(f, args, i))
           <=> ~Misread(f, args)
<1>0. Len(args) \in Nat
  OBVIOUS
<1>1. CASE f = "spawnPickup"
  <2>1. Signature(f) = <<"vector", "number">> /\ Uses(f, args) = SpawnPickup(args)
    BY <1>1 DEF Signature, Uses
  <2>2. Reading(args, 2) \notin Components
    BY <1>0, Given DEF Components, Arguments
  <2> QED
    BY <1>1, <2>1, <2>2 DEF SpawnPickup, Expected, Misread, VectorOr, NumberOr, IsVector, IsNumber
<1>2. CASE f \in {"spawnActor", "teleport"}
  <2>1. Signature(f) = <<"vector", "rotator">> /\ Uses(f, args) = PlaceActor(args)
    BY <1>2 DEF Signature, Uses
  <2>2. Reading(args, 1) = "vector"
    BY <1>2 DEF Throws, TakeVector, IsVector
  <2>3. KindOr(AfterVector(args), 2, "rotator") = IF Reading(args, 2) = "rotator" THEN "rotator" ELSE "default"
    <3>1. CASE Len(args) = 2
      BY <1>0, <2>2, <3>1, Above, Given DEF KindOr
    <3>2. CASE Len(args) > 2
      BY <1>0, <2>2, <3>2, Above DEF KindOr
    <3>3. Len(args) >= 2
      BY <2>2, Above
    <3> QED
      BY <1>0, <3>1, <3>2, <3>3, FewArguments
  <2> QED
    BY <1>2, <2>1, <2>2, <2>3 DEF PlaceActor, Expected, Misread, VectorOr, IsVector
<1>3. CASE f = "setScaleActor"
  BY <1>3 DEF Signature, Uses, SetScaleActor, Expected, Misread, VectorOr, IsVector
<1>4. CASE f \in {"findActorsOfClass", "addToInventory"}
  <2>1. Signature(f) = <<"number">> /\ Uses(f, args) = IndexOrAll(args)
    BY <1>4 DEF Signature, Uses
  <2>2. Reading(args, 1) \notin Components
    BY <1>0, Given DEF Components, Arguments
  <2> QED
    BY <1>4, <2>1, <2>2 DEF IndexOrAll, Expected, Misread, NumberOr, IsNumber
<1>5. CASE f = "playSound"
  <2>1. Signature(f) = <<"vector", "number", "number">> /\ Uses(f, args) = PlaySound(args)
    BY <1>5 DEF Signature, Uses
  <2>2. Reading(args, 2) \notin Components /\ Reading(args, 3) \notin Components
    BY <1>0, Given DEF Components, Arguments
  <2>3. CASE Reading(args, 1) # "vector"
    <3>1. AfterVector(args) = args
      BY <2>3 DEF AfterVector, IsVector
    <3> QED
      BY <1>5, <2>1, <2>2, <2>3, <3>1 DEF PlaySound, Expected, Misread, VectorOr, NumberOr, IsVector, IsNumber
  <2>4. CASE Reading(args, 1) = "vector" /\ Len(args) >= 4
    <3>1. /\ Reading(AfterVector(args), 2) = Reading(args, 2)
          /\ Reading(AfterVector(args), 3) = Reading(args, 3)
      BY <1>0, <2>4, Above
    <3>2. ~Misread(f, args)
      BY <1>0, <2>4 DEF Misread
    <3> QED
      BY <2>1, <2>2, <2>4, <3>1, <3>2 DEF PlaySound, Expected, VectorOr, NumberOr, IsVector, IsNumber
  <2>5. CASE Reading(args, 1) = "vector" /\ Len(args) < 4
    <3>1. Misread(f, args)
      BY <1>5, <2>5 DEF Misread, IsVector
    <3>2. Len(args) = 2 \/ Len(args) = 3
      <4>1. Len(args) >= 2
        BY <2>5, Above
      <4> QED
        BY <1>0, <2>5, <4>1, FewArguments
    <3>3. Reading(AfterVector(args), 3) \in Components /\ Reading(args, 3) = "undefined"
      BY <1>0, <2>5, <3>2, Above, Given DEF Components
    <3>4. Uses(f, args)[3] # Expected(f, args, 3)
      BY <2>1, <3>3 DEF PlaySound, Expected, NumberOr, IsNumber, Components
    <3> QED
      BY <2>1, <3>1, <3>4
  <2> QED
    BY <1>0, <2>3, <2>4, <2>5
<1>6. CASE f = "findObject"
  BY <1>6 DEF Signature, Uses, FindObject, Expected, Misread, KindOr
<1>7. CASE f = "processEvent"
  BY <1>7 DEF Signature, Uses, ProcessEvent, Expected, Misread, KindOr
<1>8. CASE f \notin {"spawnPickup", "spawnActor", "teleport", "setScaleActor", "findObject",
                     "processEvent", "findActorsOfClass", "addToInventory", "playSound"}
  BY <1>8 DEF Signature, Misread
<1> QED
  BY <1>1, <1>2, <1>3, <1>4, <1>5, <1>6, <1>7, <1>8

(* Whatever a script passes, the game is asked for what its caller gave,   *)
(* except for playSound's volume and pitch above a vector.                 *)
THEOREM CallersAreHeard == Spec => []OptionalsAreTheCallers
<1>1. IInv => OptionalsAreTheCallers
  <2> SUFFICES ASSUME IInv, NEW t \in Threads, asked[t] # NoCall
               PROVE  (\A i \in DOMAIN Signature(asked[t][1]) :
                         Uses(asked[t][1], asked[t][2])[i] = Expected(asked[t][1], asked[t][2], i))
                      <=> ~Misread(asked[t][1], asked[t][2])
    BY DEF OptionalsAreTheCallers
  <2>1. asked[t] \in Calls /\ ~Throws(asked[t][1], asked[t][2])
    BY DEF IInv, Shape, AskedOK
  <2>2. asked[t][2] \in Seq(Arguments)
    BY <2>1, ScriptEngineAssumption
  <2> QED
    BY <2>1, <2>2, Optionals
<1> QED
  BY <1>1, Invariance, PTL

=============================================================================
