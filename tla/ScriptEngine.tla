---------------------------- MODULE ScriptEngine ----------------------------
(***************************************************************************)
(* Every "execute" typed in the console starts a thread that evaluates the *)
(* user's script on the one Duktape heap, unprotected and with no lock.    *)
(* The heap has one catchpoint: who runs an executor or a safe call saves  *)
(* it, points it at its own and puts the saved one back, and an error      *)
(* jumps to wherever it points.  require() caches a module before it       *)
(* evaluates it and must take it out again when that fails.  An error that *)
(* nobody catches calls ErrorHandler, which returns, and the thread spins. *)
(***************************************************************************)
EXTENDS ScriptCalls, FiniteSets

CONSTANTS
  Threads,  \* the threads that "execute" starts
  Modules,  \* the names scripts require
  Missing,  \* those without a file
  Catching, \* those, and the script, that have a catch clause
  Limit,    \* DUK_USE_NATIVE_CALL_RECLIMIT
  Names,    \* the names of Registry that scripts use, in the order of Registry
  Calls     \* calls of game functions that scripts make: <<function, arguments>>

Script == "execute" \* what the outermost executor runs

ASSUME ScriptEngineAssumption ==
  /\ Missing \subseteq Modules /\ Limit \in Nat
  /\ Catching \subseteq (Modules \ Missing) \cup {Script}
  /\ Script \notin Modules
  /\ Names \in Seq({Registry[i] : i \in DOMAIN Registry})
  /\ Calls \subseteq GameFunctions \X Seq(Arguments)

NoCatch == <<>> \* lj.jmpbuf_ptr is null
VARIABLES
  stage,      \* 0: no heap; then DukContext is published; then each of Names
  jmpbuf,     \* heap->lj.jmpbuf_ptr: a frame of a thread's stack
  depth,      \* heap->call_recursion_depth
  cache,      \* requireCache: each module "absent", "loading" or "loaded"
  at,         \* what each thread is doing
  frames,     \* the executors and safe calls on each thread's stack
  asked,      \* the game function each thread is in, and its arguments
  process,    \* "up", "crashed" on a null, or "lost" in a jump into a dead frame
  errors,     \* uncaught errors of running scripts (history)
  overlapped  \* two have used the heap at once (history)

vars == <<stage, jmpbuf, depth, cache, at, frames, asked, process, errors, overlapped>>

heap   == <<jmpbuf, depth, cache>>
NoCall == <<>>

InsideAt == {"running", "calling", "evaluating", "returning", "throwing"}
Places   == InsideAt \cup {"idle", "spinning", "done"}

(* A frame: whose executor or safe call it is, what it saved on entry.     *)
Catchpoints == {NoCatch} \cup (Threads \X (Nat \ {0}))
Frames == [kind : {"executor", "safe"}, of : Modules \cup {Script},
           saved : Catchpoints, level : Nat \ {0}]

TypeOK ==
  /\ stage \in 0 .. Len(Names) + 1
  /\ jmpbuf \in Catchpoints /\ depth \in Nat
  /\ cache \in [Modules -> {"absent", "loading", "loaded"}]
  /\ at \in [Threads -> Places] /\ frames \in [Threads -> Seq(Frames)]
  /\ asked \in [Threads -> Calls \cup {NoCall}]
  /\ process \in {"up", "crashed", "lost"}
  /\ errors \in Nat /\ overlapped \in BOOLEAN

Init ==
  /\ stage = 0 /\ jmpbuf = NoCatch /\ depth = 0
  /\ cache = [m \in Modules |-> "absent"]
  /\ at = [t \in Threads |-> "idle"] /\ frames = [t \in Threads |-> <<>>]
  /\ asked = [t \in Threads |-> NoCall]
  /\ process = "up" /\ errors = 0 /\ overlapped = FALSE

----------------------------------------------------------------------------
Top(t)    == frames[t][Len(frames[t])]
Inside    == {t \in Threads : at[t] \in InsideAt}
Known(f)  == \E i \in 1 .. stage - 1 : Names[i] = f
GoTo(t, place) == at' = [at EXCEPT ![t] = place]
Keep(t, n)     == frames' = [frames EXCEPT ![t] = SubSeq(@, 1, n)]

(* Setting up a catchpoint: the frame saves the one it finds.              *)
Push(t, kind, of, level) ==
  /\ frames' = [frames EXCEPT ![t] = Append(@,
       [kind |-> kind, of |-> of, saved |-> jmpbuf, level |-> level])]
  /\ jmpbuf' = <<t, Len(frames[t]) + 1>>

(* Leaving it with success: what was saved is put back, and the call's     *)
(* level is given back.                                                    *)
PutBack_Own(t)    == jmpbuf
PutBack(t)        == Top(t).saved
LevelLeft_Kept(t) == Top(t).level
LevelLeft(t)      == Top(t).level - 1

Pop(t) ==
  /\ Keep(t, Len(frames[t]) - 1)
  /\ jmpbuf' = PutBack(t) /\ depth' = LevelLeft(t)

(* EraScript::Init publishes the heap before it has registered a name.     *)
Register ==
  /\ process = "up" /\ stage <= Len(Names)
  /\ stage' = stage + 1
  /\ UNCHANGED <<heap, at, frames, asked, process, errors, overlapped>>

(* duk_eval_raw: compile, then call.  A syntax error or a full stack       *)
(* throws before there is a catchpoint.                                    *)
Eval(t) ==
  /\ overlapped' = (overlapped \/ Inside # {} \/ stage <= Len(Names))
  /\ \/ /\ depth < Limit
        /\ Push(t, "executor", Script, depth + 1)
        /\ depth' = depth + 1 /\ GoTo(t, "running")
     \/ GoTo(t, "throwing") /\ UNCHANGED <<jmpbuf, depth, frames>>
  /\ UNCHANGED <<stage, cache, asked, process, errors>>

(* The thread of one "execute" evaluates the script on DukContext, which   *)
(* is null until Init; where there is no script it only tells the player.  *)
Execute(t) ==
  /\ process = "up" /\ at[t] = "idle"
  /\ \/ stage = 0 /\ process' = "crashed"
        /\ UNCHANGED <<stage, heap, at, frames, asked, errors, overlapped>>
     \/ stage > 0 /\ Eval(t)

(* The script has run to its end, and its thread ends.                     *)
Finish(t) ==
  /\ process = "up" /\ at[t] = "running" /\ Len(frames[t]) = 1
  /\ Pop(t) /\ GoTo(t, "done")
  /\ UNCHANGED <<stage, cache, asked, process, errors, overlapped>>

(* A script or module that has code runs it.                               *)
InScript(t) ==
  process = "up" /\ at[t] = "running" /\ Top(t).of \notin Missing

Raise(t, level) ==
  /\ GoTo(t, "throwing") /\ depth' = level
  /\ UNCHANGED <<stage, jmpbuf, cache, frames, asked, process, errors, overlapped>>

(* A throw statement, or an error of the script's own.                     *)
Throw(t) == InScript(t) /\ Raise(t, depth)

(* Scripts that overlap share one value stack, so what a game function     *)
(* reads there are then no longer its caller's arguments: its calls are    *)
(* followed while one script at a time uses the heap.                      *)
Calling(t) == InScript(t) /\ ~overlapped

(* A call of a game function that ends badly: the name is not there yet,   *)
(* the stack is full, the function throws, or a null pointer is followed.   *)
CallFails(t, f, args) ==
  /\ Calling(t)
  /\ \/ (~Known(f) \/ depth >= Limit) /\ Raise(t, depth)
     \/ Known(f) /\ depth < Limit /\ Throws(f, args) /\ Raise(t, depth + 1)
     \/ /\ Known(f) /\ depth < Limit /\ Crashes(f, args)
        /\ process' = "crashed"
        /\ UNCHANGED <<stage, heap, at, frames, asked, errors, overlapped>>

(* A call that goes through asks the game for something, and returns.      *)
Call(t, f, args) ==
  /\ Calling(t) /\ Known(f) /\ depth < Limit
  /\ ~Throws(f, args) /\ ~Crashes(f, args)
  /\ GoTo(t, "calling") /\ depth' = depth + 1
  /\ asked' = [asked EXCEPT ![t] = <<f, args>>]
  /\ UNCHANGED <<stage, jmpbuf, cache, frames, process, errors, overlapped>>

Return(t) ==
  /\ process = "up" /\ at[t] = "calling"
  /\ GoTo(t, "running") /\ depth' = Top(t).level
  /\ asked' = [asked EXCEPT ![t] = NoCall]
  /\ UNCHANGED <<stage, jmpbuf, cache, frames, process, errors, overlapped>>

----------------------------------------------------------------------------
(* duk__handle_require of a module that is not cached: into the cache,     *)
(* loaded - a missing file is an empty source - and a safe call to         *)
(* evaluate it.  Resolving, loading and evaluating need three levels.      *)
Require(t, m) ==
  /\ InScript(t) /\ Known("require")
  /\ \/ /\ cache[m] = "absent" /\ depth + 3 <= Limit
        /\ cache' = [cache EXCEPT ![m] = "loading"]
        /\ Push(t, "safe", m, depth + 1)
        /\ depth' = depth + 2 /\ GoTo(t, "evaluating")
        /\ UNCHANGED <<stage, asked, process, errors, overlapped>>
     \/ cache[m] = "absent" /\ depth + 3 > Limit /\ Raise(t, depth)
     \/ cache[m] # "absent" /\ depth + 2 > Limit /\ Raise(t, depth)

(* duk__eval_module_source: compile the wrapper and call it.               *)
EvalModule(t) ==
  /\ process = "up" /\ at[t] = "evaluating"
  /\ \/ /\ depth < Limit
        /\ Push(t, "executor", Top(t).of, depth + 1)
        /\ depth' = depth + 1 /\ GoTo(t, "running")
        /\ UNCHANGED <<stage, cache, asked, process, errors, overlapped>>
     \/ (Top(t).of \notin Missing \/ depth >= Limit) /\ Raise(t, depth)

(* The module's function has returned: module.loaded is set.               *)
LeaveModule(t) ==
  /\ process = "up" /\ at[t] = "running" /\ Len(frames[t]) > 1
  /\ Pop(t) /\ GoTo(t, "returning")
  /\ cache' = [cache EXCEPT ![Top(t).of] = IF @ = "loading" THEN "loaded" ELSE @]
  /\ UNCHANGED <<stage, asked, process, errors, overlapped>>

LeaveRequire(t) ==
  /\ process = "up" /\ at[t] = "returning"
  /\ Pop(t) /\ GoTo(t, "running")
  /\ UNCHANGED <<stage, cache, asked, process, errors, overlapped>>

----------------------------------------------------------------------------
(* duk_err_longjmp.                                                        *)
Lands(t, kind) ==
  /\ process = "up" /\ at[t] = "throwing"
  /\ jmpbuf # NoCatch /\ jmpbuf[1] = t /\ jmpbuf[2] \in DOMAIN frames[t]
  /\ frames[t][jmpbuf[2]].kind = kind

Landing(t) == frames[t][jmpbuf[2]]

(* duk__handle_executor_error, a catch clause: the executor sets up its    *)
(* catchpoint again and goes on in the script.                             *)
Catch(t) ==
  /\ Lands(t, "executor") /\ Landing(t).of \in Catching
  /\ Keep(t, jmpbuf[2]) /\ depth' = Landing(t).level /\ GoTo(t, "running")
  /\ UNCHANGED <<stage, jmpbuf, cache, asked, process, errors, overlapped>>

(* No catch clause there: with the entry's catchpoint back in place the handler  *)
(* throws again.                                                           *)
EntryCatch_Own(t) == jmpbuf
EntryCatch(t)     == Landing(t).saved

Rethrow(t) ==
  /\ Lands(t, "executor")
  /\ Keep(t, jmpbuf[2]) /\ depth' = Landing(t).level
  /\ jmpbuf' = EntryCatch(t)
  /\ UNCHANGED <<stage, cache, at, asked, process, errors, overlapped>>

(* The safe call of require returns the error: the module leaves the cache *)
(* and the error is thrown again.                                          *)
Without_Cached(m) == cache
Without(m)        == [cache EXCEPT ![m] = "absent"]

FailModule(t) ==
  /\ Lands(t, "safe")
  /\ Keep(t, jmpbuf[2] - 1) /\ depth' = Landing(t).level
  /\ jmpbuf' = Landing(t).saved
  /\ cache' = Without(Landing(t).of)
  /\ UNCHANGED <<stage, at, asked, process, errors, overlapped>>

(* No catchpoint: ErrorHandler tells the player and returns to             *)
(* duk_fatal_raw, whose loop never ends.                                   *)
Fatal(t) ==
  /\ process = "up" /\ at[t] = "throwing" /\ jmpbuf = NoCatch
  /\ GoTo(t, "spinning")
  /\ errors' = IF frames[t] = <<>> THEN errors ELSE errors + 1
  /\ UNCHANGED <<stage, heap, frames, asked, process, overlapped>>

(* The catchpoint is on another thread's stack, or its frame is gone.      *)
JumpAway(t) ==
  /\ process = "up" /\ at[t] = "throwing" /\ jmpbuf # NoCatch
  /\ jmpbuf[1] # t \/ jmpbuf[2] \notin DOMAIN frames[t]
  /\ process' = "lost"
  /\ UNCHANGED <<stage, heap, at, frames, asked, errors, overlapped>>

Unwind(t) ==
  Catch(t) \/ Rethrow(t) \/ FailModule(t) \/ Fatal(t) \/ JumpAway(t)

Next ==
  \/ Register
  \/ \E t \in Threads :
       \/ Execute(t) \/ Finish(t) \/ Throw(t)
       \/ \E c \in Calls : CallFails(t, c[1], c[2]) \/ Call(t, c[1], c[2])
       \/ Return(t)
       \/ \E m \in Modules : Require(t, m)
       \/ EvalModule(t) \/ LeaveModule(t) \/ LeaveRequire(t)
       \/ Unwind(t)

(* An error that has been thrown goes on: that is the thread's own code.   *)
Fairness == \A t \in Threads : WF_vars(Unwind(t))

Spec == Init /\ [][Next]_vars /\ Fairness

----------------------------------------------------------------------------
(* Properties.                                                             *)

(* As long as one script at a time has used the heap, every error jumps to *)
(* a live frame of the thread that threw it.                               *)
JumpsComeHome == process = "lost" => overlapped

(* ... the modules in the cache that are not loaded are exactly those that *)
(* the running script is in the middle of requiring: a module that failed  *)
(* can be required again, and a circle of modules ends.                    *)
Requiring == {m \in Modules : \E t \in Inside : \E i \in DOMAIN frames[t] :
                frames[t][i].kind = "safe" /\ frames[t][i].of = m}
FailedModulesLeave ==
  ~overlapped => {m \in Modules : cache[m] = "loading"}
                 = IF \E t \in Inside : at[t] = "returning"
                   THEN Requiring \ {Top(t).of : t \in Inside} ELSE Requiring

(* ... and between scripts no catchpoint is left and the heap's depth is   *)
(* what uncaught errors leaked, one level each.                            *)
LevelsLeakByErrors ==
  ~overlapped /\ Inside = {} => jmpbuf = NoCatch /\ depth = errors

(* What the game is asked for are the optional arguments that the caller   *)
(* gave, or the defaults - but for playSound, which takes the components   *)
(* of the vector for the volume and the pitch that the caller left out.    *)
OptionalsAreTheCallers ==
  \A t \in Threads : asked[t] # NoCall =>
    LET f == asked[t][1]  args == asked[t][2] IN
    (\A i \in DOMAIN Signature(f) : Uses(f, args)[i] = Expected(f, args, i))
      <=> ~Misread(f, args)

(* An error does not stay in the air: it is caught, or ends in             *)
(* ErrorHandler.                                                           *)
ErrorsLand ==
  \A t \in Threads :
    (at[t] = "throwing" /\ ~overlapped)
      ~> (at[t] # "throwing" \/ overlapped \/ process # "up")

=============================================================================
