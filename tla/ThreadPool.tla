----------------------------- MODULE ThreadPool -----------------------------
(***************************************************************************)
(* The classes ThreadPool and Future of src/JL/lib/sync.jl: workers that   *)
(* wait on a counting semaphore and pop a shared task list, futures with   *)
(* listeners that are queued when the future completes, and readers that   *)
(* wait on a binary semaphore.                                             *)
(*                                                                         *)
(* A section of the pool's mutex (its body touches only `tasks`, `mark`    *)
(* and, without blocking, the semaphore) is one step.  The listeners'      *)
(* mutex of a future is held across calls into the pool, so it is kept.    *)
(***************************************************************************)
EXTENDS Integers, Sequences, FiniteSets

CONSTANTS Workers,    \* the pool's threads; num_threads is their number
          Clients,    \* other threads that use the pool
          Roots,      \* futures given to the pool by a client
          Followers,  \* futures made by then_do on a root
          MaxOps,     \* bound: calls each client makes
          MaxTimeouts,\* bound: waits that run out
          MaxFailures,\* bound: functions that raise an error
          NoThread, None

Threads == Workers \cup Clients
Futures == Roots \cup Followers
num_threads == Cardinality(Workers)

ASSUME PoolAssumption ==
    /\ Workers \cap Clients = {} /\ Roots \cap Followers = {}
    /\ IsFiniteSet(Workers) /\ Workers # {} /\ IsFiniteSet(Clients)
    /\ MaxOps \in Nat /\ MaxTimeouts \in Nat /\ MaxFailures \in Nat
    /\ NoThread \notin Threads /\ None \notin Futures

VARIABLES tasks,           \* ThreadPool.tasks
          task_lock,       \* count of the semaphore ThreadPool.task_lock
          mark, args, result, has_result, listeners,  \* Future fields
          listeners_mutex, \* owner of Future.listeners_mutex
          read_mutex,      \* count of the semaphore Future.read_mutex
          pc, f, g,        \* per thread: place, future in hand, one submitted
          pending,         \* per worker: listeners still to be submitted
          made,            \* the futures constructed so far
          ops,             \* calls each client has made
          runs,            \* how often each future's function has run
          lost,            \* unlocks of task_lock that found it at its maximum
          timeouts,        \* waits for a task that have run out
          got              \* the futures that get() was called on, with its values

fields == <<mark, args, result, has_result, listeners>>
ghosts == <<runs, lost, timeouts, got>>
vars == <<tasks, task_lock, fields, listeners_mutex, read_mutex,
          pc, f, g, pending, made, ops, ghosts>>

Init ==
    /\ tasks = <<>> /\ task_lock = 0
    /\ mark = [x \in Futures |-> FALSE]
    /\ args = [x \in Futures |-> None]
    /\ result = [x \in Futures |-> None]
    /\ has_result = [x \in Futures |-> FALSE]
    /\ listeners = [x \in Futures |-> <<>>]
    /\ listeners_mutex = [x \in Futures |-> NoThread]
    /\ read_mutex = [x \in Futures |-> 0]
    /\ pc = [t \in Threads |-> IF t \in Workers THEN "wait" ELSE "idle"]
    /\ f = [t \in Threads |-> None]
    /\ g = [t \in Threads |-> None]
    /\ pending = [t \in Threads |-> <<>>]
    /\ made = {} /\ ops = [c \in Clients |-> 0]
    /\ runs = [x \in Futures |-> 0] /\ lost = 0 /\ timeouts = 0 /\ got = {}

Move(t, from, to) ==
    /\ pc[t] = from
    /\ pc' = [pc EXCEPT ![t] = to]

At(place) == {t \in Threads : pc[t] = place}

(* What is left alone by a step that is about the named part only.         *)
PoolSame == UNCHANGED <<tasks, task_lock, lost>>
LocksSame == UNCHANGED <<listeners_mutex, read_mutex>>
LocalSame == UNCHANGED <<f, g, pending, made, ops>>
HistorySame == UNCHANGED <<runs, timeouts, got>>

(* ReleaseSemaphore at the maximum count fails and is not noticed.         *)
TaskUnlock ==
    IF task_lock < num_threads
    THEN task_lock' = task_lock + 1 /\ UNCHANGED lost
    ELSE lost' = lost + 1 /\ UNCHANGED task_lock
ReadUnlock(x) == read_mutex' = [read_mutex EXCEPT ![x] = 1]

-----------------------------------------------------------------------------
(* ThreadPool._execute_future, called by execute, then_do and exec: where  *)
(* the caller goes on.                                                     *)
Back(t) ==
    CASE t \in Workers -> "notify"
      [] t \in Clients /\ f[t] # None -> "then_release"
      [] OTHER -> "idle"

(* Mutants: the test of `mark` dropped; a token posted for a future that   *)
(* was already submitted.                                                  *)
ExecuteFutureUnmarked(t) ==
    /\ Move(t, "submit", "post")
    /\ tasks' = Append(tasks, g[t])
    /\ mark' = [mark EXCEPT ![g[t]] = TRUE]
    /\ UNCHANGED <<task_lock, lost, args, result, has_result, listeners>>
    /\ LocksSame /\ LocalSame /\ HistorySame
ExecuteFutureAlwaysPosts(t) ==
    /\ Move(t, "submit", "post")
    /\ tasks' = IF mark[g[t]] THEN tasks ELSE Append(tasks, g[t])
    /\ mark' = [mark EXCEPT ![g[t]] = TRUE]
    /\ UNCHANGED <<task_lock, lost, args, result, has_result, listeners>>
    /\ LocksSame /\ LocalSame /\ HistorySame

(* Lines 71-78, the section of the pool's mutex.                           *)
ExecuteFuture(t) ==
    /\ pc[t] = "submit"
    /\ IF mark[g[t]]
       THEN Move(t, "submit", Back(t)) /\ UNCHANGED <<tasks, mark>>
       ELSE /\ Move(t, "submit", "post")
            /\ tasks' = Append(tasks, g[t])
            /\ mark' = [mark EXCEPT ![g[t]] = TRUE]
    /\ UNCHANGED <<task_lock, lost, args, result, has_result, listeners>>
    /\ LocksSame /\ LocalSame /\ HistorySame

(* Mutant: the token is forgotten.                                         *)
PostNothing(t) ==
    /\ Move(t, "post", Back(t))
    /\ PoolSame
    /\ UNCHANGED fields /\ LocksSame /\ LocalSame /\ HistorySame

(* Line 80: the token for the task, outside the mutex.                     *)
Post(t) ==
    /\ Move(t, "post", Back(t))
    /\ TaskUnlock
    /\ UNCHANGED <<tasks, fields>> /\ LocksSame /\ LocalSame /\ HistorySame

-----------------------------------------------------------------------------
(* ThreadPool._execute_task.                                               *)
WaitForTask(w) ==
    /\ task_lock > 0
    /\ task_lock' = task_lock - 1
    /\ Move(w, "wait", "take")
    /\ UNCHANGED <<tasks, lost, fields>> /\ LocksSame /\ LocalSame /\ HistorySame

(* sync.jl's INFINITE is 2147483647 milliseconds, not the INFINITE of      *)
(* Windows, and the status of the wait is not looked at: after some 24     *)
(* days without a task a worker goes on as if it had a token.              *)
WaitRunsOut(w) ==
    /\ timeouts < MaxTimeouts
    /\ task_lock = 0
    /\ timeouts' = timeouts + 1
    /\ Move(w, "wait", "take")
    /\ UNCHANGED <<fields, runs, got>> /\ PoolSame /\ LocksSame /\ LocalSame

Take(w) ==
    /\ IF tasks # <<>>
       THEN /\ Move(w, "take", "run")
            /\ f' = [f EXCEPT ![w] = Head(tasks)]
            /\ tasks' = Tail(tasks)
            /\ UNCHANGED <<task_lock, lost>>
       ELSE Move(w, "take", "wait") /\ TaskUnlock /\ UNCHANGED <<tasks, f>>
    /\ UNCHANGED <<fields, g, pending, made, ops>> /\ LocksSame /\ HistorySame

(* Future.exec: result = fn(args); the result is a value of its own.       *)
Run(w) ==
    /\ Move(w, "run", "complete")
    /\ result' = [result EXCEPT ![f[w]] = f[w]]
    /\ runs' = [runs EXCEPT ![f[w]] = @ + 1]
    /\ UNCHANGED <<mark, args, has_result, listeners, timeouts, got>>
    /\ PoolSame /\ LocksSame /\ LocalSame

(* The function raises an error. Nothing in exec or _execute_task catches  *)
(* it: the worker's thread ends, with the future in its hand.              *)
RunFails(w) ==
    /\ Cardinality(At("dead")) < MaxFailures
    /\ Move(w, "run", "dead")
    /\ runs' = [runs EXCEPT ![f[w]] = @ + 1]
    /\ UNCHANGED <<fields, timeouts, got>>
    /\ PoolSame /\ LocksSame /\ LocalSame

Complete(w) ==
    /\ Move(w, "complete", "notify")
    /\ listeners_mutex[f[w]] = NoThread
    /\ listeners_mutex' = [listeners_mutex EXCEPT ![f[w]] = w]
    /\ has_result' = [has_result EXCEPT ![f[w]] = TRUE]
    /\ pending' = [pending EXCEPT ![w] = listeners[f[w]]]
    /\ UNCHANGED <<mark, args, result, listeners, read_mutex, f, g, made, ops>>
    /\ PoolSame /\ HistorySame

(* Mutant: the listener is submitted without the result.                   *)
NotifyWithoutArgs(w) ==
    /\ Move(w, "notify", "submit")
    /\ pending[w] # <<>>
    /\ g' = [g EXCEPT ![w] = Head(pending[w])]
    /\ pending' = [pending EXCEPT ![w] = Tail(@)]
    /\ UNCHANGED <<fields, f, made, ops>>
    /\ PoolSame /\ LocksSame /\ HistorySame

Notify(w) ==
    /\ Move(w, "notify", "submit")
    /\ pending[w] # <<>>
    /\ g' = [g EXCEPT ![w] = Head(pending[w])]
    /\ args' = [args EXCEPT ![Head(pending[w])] = result[f[w]]]
    /\ pending' = [pending EXCEPT ![w] = Tail(@)]
    /\ UNCHANGED <<mark, result, has_result, listeners, f, made, ops>>
    /\ PoolSame /\ LocksSame /\ HistorySame

NotifyDone(w) ==
    /\ Move(w, "notify", "signal")
    /\ pending[w] = <<>>
    /\ listeners_mutex' = [listeners_mutex EXCEPT ![f[w]] = NoThread]
    /\ UNCHANGED <<fields, read_mutex>> /\ PoolSame /\ LocalSame /\ HistorySame

SignalReaders(w) ==
    /\ Move(w, "signal", "wait")
    /\ ReadUnlock(f[w])
    /\ f' = [f EXCEPT ![w] = None]
    /\ g' = [g EXCEPT ![w] = None]
    /\ UNCHANGED <<fields, listeners_mutex, pending, made, ops>>
    /\ PoolSame /\ HistorySame

Work(w) ==
    \/ WaitForTask(w) \/ WaitRunsOut(w) \/ Take(w) \/ Run(w) \/ RunFails(w) \/ Complete(w)
    \/ Notify(w) \/ NotifyDone(w) \/ SignalReaders(w)

-----------------------------------------------------------------------------
(* A client starts a call: execute of a new future, or the submission of   *)
(* one that another thread may submit too (as the nodes of a TaskGraph     *)
(* are); then_do; get or wait; is_complete.                                *)
Call(c) ==
    /\ ops[c] < MaxOps
    /\ ops' = [ops EXCEPT ![c] = @ + 1]
    /\ \/ \E x \in Roots :
            /\ Move(c, "idle", "submit")
            /\ g' = [g EXCEPT ![c] = x]
            /\ made' = made \cup {x}
            /\ UNCHANGED f
       \/ \E x \in Roots \cap made, y \in Followers \ made :
            /\ Move(c, "idle", "then_await")
            /\ f' = [f EXCEPT ![c] = x]
            /\ g' = [g EXCEPT ![c] = y]
            /\ made' = made \cup {y}
       \/ \E x \in made, to \in {"get_lock", "complete_lock"} :
            /\ Move(c, "idle", to)
            /\ f' = [f EXCEPT ![c] = x]
            /\ UNCHANGED <<g, made>>
    /\ UNCHANGED <<fields, pending>> /\ PoolSame /\ LocksSame /\ HistorySame

(* Mutant: the listener is added without a look at has_result.             *)
ThenAwaitAppends(c) ==
    /\ pc[c] = "then_await"
    /\ listeners_mutex[f[c]] = NoThread
    /\ listeners_mutex' = [listeners_mutex EXCEPT ![f[c]] = c]
    /\ Move(c, "then_await", "then_release")
    /\ listeners' = [listeners EXCEPT ![f[c]] = Append(@, g[c])]
    /\ UNCHANGED <<args, mark, result, has_result, read_mutex>>
    /\ PoolSame /\ LocalSame /\ HistorySame

(* Future._then_do_future: lines 130-136 under the listeners' mutex.       *)
ThenAwait(c) ==
    /\ pc[c] = "then_await"
    /\ listeners_mutex[f[c]] = NoThread
    /\ listeners_mutex' = [listeners_mutex EXCEPT ![f[c]] = c]
    /\ IF has_result[f[c]]
       THEN /\ Move(c, "then_await", "submit")
            /\ args' = [args EXCEPT ![g[c]] = result[f[c]]]
            /\ UNCHANGED listeners
       ELSE /\ Move(c, "then_await", "then_release")
            /\ listeners' = [listeners EXCEPT ![f[c]] = Append(@, g[c])]
            /\ UNCHANGED args
    /\ UNCHANGED <<mark, result, has_result, read_mutex>>
    /\ PoolSame /\ LocalSame /\ HistorySame

Return(c, from) ==
    /\ Move(c, from, "idle")
    /\ f' = [f EXCEPT ![c] = None]
    /\ g' = [g EXCEPT ![c] = None]
    /\ UNCHANGED <<pending, made, ops>>

ThenRelease(c) ==
    /\ Return(c, "then_release")
    /\ listeners_mutex' = [listeners_mutex EXCEPT ![f[c]] = NoThread]
    /\ UNCHANGED <<fields, read_mutex>> /\ PoolSame /\ HistorySame

(* Future.get: wait for the token, look, and put the token back.           *)
GetLock(c) ==
    /\ Move(c, "get_lock", "get_check")
    /\ read_mutex[f[c]] > 0
    /\ read_mutex' = [read_mutex EXCEPT ![f[c]] = @ - 1]
    /\ UNCHANGED <<fields, listeners_mutex>> /\ PoolSame /\ LocalSame /\ HistorySame

(* Mutants: the test of has_result dropped; the token kept on return.      *)
GetCheckUntested(c) ==
    /\ pc[c] = "get_check"
    /\ ReadUnlock(f[c])
    /\ Return(c, "get_check") /\ got' = got \cup {<<f[c], result[f[c]]>>}
    /\ UNCHANGED <<fields, listeners_mutex, runs, timeouts>> /\ PoolSame
GetCheckKeepsToken(c) ==
    /\ pc[c] = "get_check"
    /\ IF has_result[f[c]]
       THEN /\ Return(c, "get_check") /\ got' = got \cup {<<f[c], result[f[c]]>>}
            /\ UNCHANGED read_mutex
       ELSE Move(c, "get_check", "get_lock") /\ LocalSame /\ ReadUnlock(f[c])
                /\ UNCHANGED got
    /\ UNCHANGED <<fields, listeners_mutex, runs, timeouts>> /\ PoolSame

GetCheck(c) ==
    /\ pc[c] = "get_check"
    /\ ReadUnlock(f[c])
    /\ IF has_result[f[c]]
       THEN Return(c, "get_check") /\ got' = got \cup {<<f[c], result[f[c]]>>}
       ELSE Move(c, "get_check", "get_lock") /\ LocalSame /\ UNCHANGED got
    /\ UNCHANGED <<fields, listeners_mutex, runs, timeouts>> /\ PoolSame

(* Future.is_complete: a wait of zero time whose outcome is ignored, and   *)
(* an unlock whether or not the token was taken.                           *)
CompleteLock(c) ==
    /\ Move(c, "complete_lock", "complete_check")
    /\ read_mutex' = [read_mutex EXCEPT ![f[c]] = 0]
    /\ UNCHANGED <<fields, listeners_mutex>> /\ PoolSame /\ LocalSame /\ HistorySame

CompleteCheck(c) ==
    /\ Return(c, "complete_check")
    /\ ReadUnlock(f[c])
    /\ UNCHANGED <<fields, listeners_mutex>> /\ PoolSame /\ HistorySame

Continue(c) ==
    \/ ThenAwait(c) \/ ThenRelease(c) \/ GetLock(c) \/ GetCheck(c)
    \/ CompleteLock(c) \/ CompleteCheck(c)

Next ==
    \/ \E w \in Workers : Work(w)
    \/ \E c \in Clients : Call(c) \/ Continue(c)
    \/ \E t \in Threads : ExecuteFuture(t) \/ Post(t)

Spec == Init /\ [][Next]_vars

(* Threads are scheduled, and a semaphore or mutex that is signalled over  *)
(* and over serves each of its waiters.  Clients need not call.            *)
Fairness ==
    /\ \A w \in Workers : SF_vars(Work(w) /\ UNCHANGED timeouts)
    /\ \A c \in Clients : SF_vars(Continue(c))
    /\ \A t \in Threads : WF_vars(ExecuteFuture(t) \/ Post(t))

FairSpec == Spec /\ Fairness

-----------------------------------------------------------------------------
InRange(x, s) == \E i \in DOMAIN s : s[i] = x

(* A future's function runs at most once, although several threads may     *)
(* submit it at the same time (two parents of a graph node do).            *)
RunOnce == \A x \in Futures : runs[x] <= 1

(* The semaphore's tokens and the tasks: every queued task has a token in  *)
(* the semaphore, one in the hand of a worker about to pop, or one that    *)
(* its submitter is about to post; the rest were dropped at the maximum.   *)
(* A wait that runs out brings a surplus token into the balance for good.  *)
TokensExact ==
    Len(tasks) + timeouts = task_lock + Cardinality(At("take")) + Cardinality(At("post")) + lost

(* No listener falls between then_do's test of has_result and exec's walk  *)
(* over the listeners: once the walk is over every listener is submitted.  *)
NoListenerMissed ==
    \A x \in Futures : has_result[x] /\ listeners_mutex[x] = NoThread =>
        \A i \in DOMAIN listeners[x] : mark[listeners[x][i]]

(* A follower is queued only with the result of the future it follows.     *)
ArgsReady ==
    \A y \in Followers : mark[y] => args[y] \in Roots /\ has_result[args[y]]

(* get() returns the result of the future it is called on (written as the  *)
(* future itself), never the None before it nor another future's, whatever *)
(* spurious tokens is_complete() puts into read_mutex.                     *)
GetReturnsResult == \A r \in got : r[2] = r[1]

(* A submitted future completes, or its function fails, as long as no      *)
(* token has been dropped (at most num_threads tokens are kept, so a pool  *)
(* with more tasks waiting than threads may leave a task in the list for   *)
(* good) and the failures of other tasks have left a worker.               *)
Failed(x) == \E w \in At("dead") : f[w] = x
TasksRun ==
    [](lost = 0) => \A x \in Futures :
        mark[x] ~> has_result[x] \/ Failed(x) \/ Workers \subseteq At("dead")

(* A reader of a completed future returns, also when is_complete() takes   *)
(* and gives tokens beside it.                                             *)
GetReturns == \A c \in Clients :
    pc[c] = "get_lock" /\ has_result[f[c]] ~> pc[c] = "idle"
=============================================================================
