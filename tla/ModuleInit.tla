----------------------------- MODULE ModuleInit -----------------------------
(***************************************************************************)
(* The body of a module runs when one of its functions is first called     *)
(* (vm.c, vm_maybe_initialize_and_execute), inside the call, in a loop of  *)
(* execute of its own, under module_init_mutex, which is recursive and     *)
(* shared by all threads (thread.c).                                       *)
(*                                                                         *)
(* A thread has interpreter frames (its saved blocks) and, on the C stack, *)
(* the nested loops.  They part when an error leaves a body: catch_error   *)
(* drops frames, the loop stays.  A program is one sequence of steps for   *)
(* the body and for the function of every module; what else code does is   *)
(* left out, and the library modules are ready from the start.  The        *)
(* function of a module ends with RET, its body and raise_error with EXIT. *)
(***************************************************************************)
EXTENDS Integers, Sequences, SequencesExt

CONSTANTS
  Threads,    \* the threads a behaviour may use; Main runs the program
  Main,
  Modules,    \* the program's modules; it starts with "main"
  Programs,   \* [body, fn : Modules -> Seq(Step)]
  None

(* Steps: call m.f, in a try or not; start a Thread for m.f; wait for the  *)
(* Thread started last; raise an error.                                    *)
Steps == [op : {"call", "start", "wait", "raise"}, mod : Modules, try : BOOLEAN]
Step(op, m, try) == [op |-> op, mod |-> m, try |-> try]

Library == {"error", "sync"}

ASSUME ModuleInitAssumption ==
  /\ Main \in Threads /\ "main" \in Modules /\ Modules \cap Library = {}
  /\ None \notin Threads \cup Modules \cup Library \cup {"await"}
  /\ "await" \notin Modules
  /\ \A p \in Programs :
       p.body \in [Modules -> Seq(Steps)] /\ p.fn \in [Modules -> Seq(Steps)]

VARIABLES
  prog,         \* the program
  initialized,  \* the modules whose INITIALIZED is true
  owner,        \* of vm->module_init_mutex
  count,        \* how often it owns it
  frames,       \* per thread: saved_blocks and current_block, the base first
  loops,        \* per thread: the nested loops, with OLD_RESVALS
  calling,      \* per thread: the module whose function it is about to call,
                \* or "await" in thread_await
  resval,       \* per thread: RESULT_VAL, here where it was last set
  state,        \* per thread: idle, running, ended, or aborted by an ASSERT
  child         \* per thread: the Thread it started last

thread == << frames, loops, calling, resval, state, child >>
vars == << prog, initialized, owner, count, thread >>

(* A frame: kind "base" is the block of the Thread object itself, which    *)
(* stands at the first instruction of its module, before all steps.        *)
Frame(kind, m, arg) == [kind |-> kind, mod |-> m, at |-> 1, arg |-> arg]
Base(m) == [Frame("base", m, None) EXCEPT !.at = 0]
Loop(m, saved) == [mod |-> m, saved |-> saved]

Code(f) == IF f.mod = "error" THEN << >>
           ELSE IF f.kind = "fn" THEN prog.fn[f.mod] ELSE prog.body[f.mod]
EndsWithRet(f) == f.kind = "fn" /\ f.mod # "error"
AtEnd(f) == f.at > Len(Code(f))
Current(f) == Code(f)[f.at]

(* Where a value was made: the argument of a call names its call.          *)
Site(f) == << f.kind, f.mod, f.at >>

Top(t) == Last(frames[t])
Popped(fs) == Front(fs)
Advanced(fs) == [fs EXCEPT ![Len(fs)].at = @ + 1]

(* An ASSERT that fails ends the process.                                  *)
Runs(t) == state[t] = "running" /\ \A u \in Threads : state[u] # "aborted"
Ready(t) == Runs(t) /\ calling[t] = None
AtStep(t, op) == Ready(t) /\ ~AtEnd(Top(t)) /\ Current(Top(t)).op = op

-----------------------------------------------------------------------------
(* vm_start_execution: the main module counts as initialised, its body is  *)
(* the function of the main thread.                                        *)
Init ==
  /\ prog \in Programs
  /\ initialized = {"main"} \cup Library
  /\ owner = None /\ count = 0
  /\ frames = [t \in Threads |->
       IF t = Main THEN << Base("main"), Frame("body", "main", None) >>
       ELSE << >>]
  /\ loops = [t \in Threads |-> << >>]
  /\ calling = [t \in Threads |-> None]
  /\ resval = [t \in Threads |-> None]
  /\ state = [t \in Threads |-> IF t = Main THEN "running" ELSE "idle"]
  /\ child = [t \in Threads |-> None]

(* CALL: the argument is in the register.                                  *)
Call(t) ==
  /\ AtStep(t, "call")
  /\ calling' = [calling EXCEPT ![t] = Current(Top(t)).mod]
  /\ resval' = [resval EXCEPT ![t] = Site(Top(t))]
  /\ UNCHANGED << prog, initialized, owner, count, frames, loops, state, child >>

(* mutex_await: the mutex is free or the thread's own.                     *)
MayLock(t) == Runs(t) /\ owner \in {None, t}

Acquired(t) == owner' = t /\ count' = count + 1
Released(t) ==
  /\ count' = count - 1
  /\ owner' = IF count = 1 THEN None ELSE owner

(* call_function_internal after the module is ready.                       *)
Entered(fs, m, arg) == Append(fs, Frame("fn", m, arg))

(* The module counts as initialised: acquire, test and release are one     *)
(* step, as nothing reads INITIALIZED without the mutex.                   *)
(* Mutant: the early return keeps the mutex.                               *)
EnterKeepsMutex(t) ==
  /\ MayLock(t) /\ calling[t] \in initialized \ {"sync"}
  /\ Acquired(t)
  /\ frames' = [frames EXCEPT ![t] = Entered(@, calling[t], resval[t])]
  /\ calling' = [calling EXCEPT ![t] = None]
  /\ UNCHANGED << prog, initialized, loops, resval, state, child >>
Enter(t) ==
  /\ MayLock(t) /\ calling[t] \in initialized \ {"sync"}
  /\ frames' = [frames EXCEPT ![t] = Entered(@, calling[t], resval[t])]
  /\ calling' = [calling EXCEPT ![t] = None]
  /\ UNCHANGED << prog, initialized, owner, count, loops, resval, state, child >>

(* Otherwise it is marked, the register is saved and the body begins.      *)
(* Mutant: the mutex guards the mark only.                                 *)
BeginBodyUnlocked(t) ==
  /\ MayLock(t) /\ calling[t] \in Modules \ initialized
  /\ initialized' = initialized \cup {calling[t]}
  /\ frames' = [frames EXCEPT ![t] = Append(@, Frame("body", calling[t], None))]
  /\ loops' = [loops EXCEPT ![t] = Append(@, Loop(calling[t], resval[t]))]
  /\ calling' = [calling EXCEPT ![t] = None]
  /\ UNCHANGED << prog, owner, count, resval, state, child >>
BeginBody(t) ==
  /\ MayLock(t) /\ calling[t] \in Modules \ initialized
  /\ initialized' = initialized \cup {calling[t]}
  /\ Acquired(t)
  /\ frames' = [frames EXCEPT ![t] = Append(@, Frame("body", calling[t], None))]
  /\ loops' = [loops EXCEPT ![t] = Append(@, Loop(calling[t], resval[t]))]
  /\ calling' = [calling EXCEPT ![t] = None]
  /\ UNCHANGED << prog, resval, state, child >>

(* EXIT: execute returns false and ends the innermost loop of the thread.  *)
Exits(t) == Ready(t) /\ AtEnd(Top(t)) /\ ~EndsWithRet(Top(t))

(* t_back takes a block away, whichever it is; the register is restored    *)
(* and the function is entered.                                            *)
(* Mutants: the mutex stays locked; the register keeps the body's value.   *)
EndLoopLocked(t) ==
  /\ Exits(t) /\ loops[t] # << >> /\ Len(frames[t]) > 1
  /\ LET l == Last(loops[t])
     IN /\ frames' = [frames EXCEPT ![t] = Entered(Popped(@), l.mod, l.saved)]
        /\ resval' = [resval EXCEPT ![t] = l.saved]
  /\ loops' = [loops EXCEPT ![t] = Front(@)]
  /\ UNCHANGED << prog, initialized, owner, count, calling, state, child >>
EndLoopClobbered(t) ==
  /\ Exits(t) /\ loops[t] # << >> /\ Len(frames[t]) > 1
  /\ frames' = [frames EXCEPT ![t] = Entered(Popped(@), Last(loops[t]).mod, resval[t])]
  /\ loops' = [loops EXCEPT ![t] = Front(@)]
  /\ Released(t)
  /\ UNCHANGED << prog, initialized, resval, calling, state, child >>
EndLoop(t) ==
  /\ Exits(t) /\ loops[t] # << >> /\ Len(frames[t]) > 1
  /\ LET l == Last(loops[t])
     IN /\ frames' = [frames EXCEPT ![t] = Entered(Popped(@), l.mod, l.saved)]
        /\ resval' = [resval EXCEPT ![t] = l.saved]
  /\ loops' = [loops EXCEPT ![t] = Front(@)]
  /\ Released(t)
  /\ UNCHANGED << prog, initialized, calling, state, child >>

(* memory_graph_array_pop asserts that there is a saved block.             *)
Abort(t) ==
  /\ Exits(t) /\ loops[t] # << >> /\ Len(frames[t]) = 1
  /\ state' = [state EXCEPT ![t] = "aborted"]
  /\ UNCHANGED << prog, initialized, owner, count, frames, loops, calling, resval, child >>

(* The loop of thread_start ends: the thread too.                          *)
Ended(t, fs) ==
  /\ state' = [state EXCEPT ![t] = "ended"]
  /\ frames' = [frames EXCEPT ![t] = fs]
  /\ UNCHANGED << prog, initialized, owner, count, loops, calling, resval, child >>
Exit(t) == Exits(t) /\ loops[t] = << >> /\ Ended(t, frames[t])

(* RET.  Only the loop of thread_start looks whether the thread is back in *)
(* its first block: a nested loop goes on with the code of that block.     *)
Return(t) ==
  /\ Ready(t) /\ EndsWithRet(Top(t)) /\ AtEnd(Top(t))
  /\ LET rest == Popped(frames[t])
     IN IF Len(rest) = 1 /\ loops[t] = << >>
        THEN Ended(t, rest)
        ELSE /\ frames' = [frames EXCEPT ![t] = Advanced(rest)]
             /\ UNCHANGED << prog, initialized, owner, count, loops, calling, resval,
                             state, child >>

(* RAIS, catch_error: back to the innermost block with a handler, where    *)
(* control goes on behind the try; with none, raise_error is called.       *)
Handlers(fs) ==
  {i \in DOMAIN fs : /\ fs[i].at \in DOMAIN Code(fs[i])
                     /\ Current(fs[i]).op = "call" /\ Current(fs[i]).try}
Raise(t) ==
  /\ AtStep(t, "raise")
  /\ LET fs == frames[t]
     IN \/ \E i \in Handlers(fs) :
             /\ \A j \in Handlers(fs) : j <= i
             /\ frames' = [frames EXCEPT ![t] = Advanced(SubSeq(fs, 1, i))]
             /\ UNCHANGED calling
        \/ /\ Handlers(fs) = {}
           /\ frames' = [frames EXCEPT ![t] = << Head(fs) >>]
           /\ calling' = [calling EXCEPT ![t] = "error"]
  /\ resval' = [resval EXCEPT ![t] = Site(Top(t))]
  /\ UNCHANGED << prog, initialized, owner, count, loops, state, child >>

-----------------------------------------------------------------------------
(* The methods of a Thread are functions of module sync: call_external_fn  *)
(* passes through the mutex as well.                                       *)
CallMethod(t) ==
  /\ AtStep(t, "start") \/ AtStep(t, "wait")
  /\ calling' = [calling EXCEPT ![t] = "sync"]
  /\ UNCHANGED << prog, initialized, owner, count, frames, loops, resval, state, child >>
InMethod(t, op) == MayLock(t) /\ calling[t] = "sync" /\ Current(Top(t)).op = op

(* Thread_constructor, Thread_start and, in the new thread, thread_start:  *)
(* it calls the function, in a base block of the function's module.  A     *)
(* program that has used up Threads goes on without a new one.             *)
Fresh == {u \in Threads : state[u] = "idle"}
StartNone(t) ==
  /\ InMethod(t, "start") /\ Fresh = {}
  /\ frames' = [frames EXCEPT ![t] = Advanced(@)]
  /\ calling' = [calling EXCEPT ![t] = None]
  /\ UNCHANGED << prog, initialized, owner, count, loops, resval, state, child >>
Start(t) ==
  /\ InMethod(t, "start")
  /\ \E u \in Fresh :
       LET m == Current(Top(t)).mod
       IN /\ frames' = [frames EXCEPT ![t] = Advanced(@), ![u] = << Base(m) >>]
          /\ calling' = [calling EXCEPT ![t] = None, ![u] = m]
          /\ resval' = [resval EXCEPT ![u] = Site(Top(t))]
          /\ state' = [state EXCEPT ![u] = "running"]
          /\ child' = [child EXCEPT ![t] = u]
  /\ UNCHANGED << prog, initialized, owner, count, loops >>

(* Thread_wait, Thread_get_result with no time limit.                      *)
Wait(t) ==
  /\ InMethod(t, "wait")
  /\ calling' = [calling EXCEPT ![t] = "await"]
  /\ UNCHANGED << prog, initialized, owner, count, frames, loops, resval, state, child >>
Waited(t) ==
  /\ Runs(t) /\ calling[t] = "await"
  /\ child[t] # None => state[child[t]] = "ended"
  /\ frames' = [frames EXCEPT ![t] = Advanced(@)]
  /\ calling' = [calling EXCEPT ![t] = None]
  /\ UNCHANGED << prog, initialized, owner, count, loops, resval, state, child >>

Act(t) ==
  \/ Call(t) \/ Enter(t) \/ BeginBody(t) \/ EndLoop(t) \/ Abort(t) \/ Exit(t)
  \/ Return(t) \/ Raise(t)
  \/ CallMethod(t) \/ StartNone(t) \/ Start(t) \/ Wait(t) \/ Waited(t)

(* What a running thread waits for: the mutex, which another thread has,   *)
(* or a Thread that has not ended.                                         *)
WaitsForMutex(t)  == calling[t] \notin {None, "await"} /\ owner \notin {None, t}
WaitsForThread(t) == calling[t] = "await" /\ child[t] # None /\ state[child[t]] # "ended"
Blocked(t) == Runs(t) /\ (WaitsForMutex(t) \/ WaitsForThread(t))
AllBlocked == \A t \in Threads : Runs(t) => Blocked(t)

(* Nothing goes on when every thread has ended or waits. In any other      *)
(* state some thread has a next step: TLC reports one that has none, a     *)
(* state the interpreter has no rule for, as a deadlock.                   *)
AtRest == AllBlocked /\ UNCHANGED vars

Next == (\E t \in Threads : Act(t)) \/ AtRest

Spec == Init /\ [][Next]_vars

(* The system runs every thread that can run; a free mutex is given to one *)
(* of those that wait, and no thread asks for it without end.              *)
FairSpec == Spec /\ \A t \in Threads : WF_vars(Act(t))

-----------------------------------------------------------------------------

Kinds == {"base", "body", "fn"}
Sites == Kinds \X (Modules \cup {"error"}) \X Nat
Values == Sites \cup {None}
Frames == [kind : Kinds, mod : Modules \cup {"error"}, at : Nat, arg : Values]
Loops  == [mod : Modules, saved : Values]

TypeOK ==
  /\ prog \in Programs
  /\ initialized \subseteq Modules \cup Library
  /\ owner \in Threads \cup {None} /\ count \in Nat
  /\ frames \in [Threads -> Seq(Frames)]
  /\ loops \in [Threads -> Seq(Loops)]
  /\ resval \in [Threads -> Values]
  /\ calling \in [Threads -> Modules \cup Library \cup {"await", None}]
  /\ state \in [Threads -> {"idle", "running", "ended", "aborted"}]
  /\ child \in [Threads -> Threads \cup {None}]

(* module_init_mutex is held by the thread that runs a nested loop, once   *)
(* for each of its loops, and by no one else, whatever errors did to the   *)
(* frames: every way out of vm_maybe_initialize_and_execute gives it back. *)
HeldByLoops ==
  /\ owner = None => count = 0
  /\ \A t \in Threads : loops[t] # << >> <=> owner = t
  /\ owner # None => count = Len(loops[owner])

(* While a thread is in the body of a module no other thread runs a        *)
(* function of it (the main module, marked from the start, excepted).      *)
Prepared ==
  \A t, u \in Threads : t # u =>
    \A i \in DOMAIN frames[t], j \in DOMAIN frames[u] :
      /\ frames[t][i].kind = "body" /\ frames[t][i].mod # "main"
      /\ frames[u][j].kind = "fn"
      => frames[t][i].mod # frames[u][j].mod

(* A function gets the argument of the call that is waiting for it, also   *)
(* when the bodies that ran in between used the same register.  A base is  *)
(* no caller, but a loop that an error left behind may run on into its     *)
(* code: what such a loop calls gets what an older body had saved.         *)
StandsAtCall(f, m) ==
  /\ f.at \in DOMAIN Code(f)
  /\ Current(f).op = "call" /\ Current(f).mod = m
ArgumentKept ==
  \A t \in Threads : \A i \in 1 .. Len(frames[t]) - 1 :
    LET caller == frames[t][i]
        callee == frames[t][i + 1]
    IN /\ caller.kind # "base" /\ callee.kind = "fn"
       /\ StandsAtCall(caller, callee.mod)
       => callee.arg = Site(caller)

(* When no thread can move, some body waits for a thread: its thread keeps *)
(* the mutex that others need.  Functions that wait cannot bring it about: *)
(* threads that only await each other's threads never do so in a circle.   *)
StuckOnlyBehindABody ==
  AllBlocked /\ (\E t \in Threads : Runs(t)) => owner # None /\ calling[owner] = "await"

(* A program none of whose bodies waits or raises ends in all its threads. *)
Waits(code) == \E i \in DOMAIN code : code[i].op \in {"wait", "raise"}
Finishes ==
  (\A m \in Modules : Waits(prog.body[m]) => m = "main")
    ~> (\A t \in Threads : state[t] \in {"idle", "ended"})
=============================================================================
