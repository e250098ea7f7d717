--------------------------- MODULE ThreadPoolProofs ---------------------------
(***************************************************************************)
(* Proofs about ThreadPool for every finite set of workers and clients and *)
(* every number of futures: its inductive invariant IInv, and from it the  *)
(* five safety invariants.                                                 *)
(*                                                                         *)
(* The argument.  Standing says which futures a thread holds at each place *)
(* in its code and Locked that it owns the listeners' mutex of one of them *)
(* exactly between the lock and the unlock.  So a future's result, set     *)
(* before its mutex is given up, stays (Resulted), a follower gets the     *)
(* result it runs with before it is submitted (Supplied), and a future     *)
(* marked as submitted but not yet run is in the task list once or with    *)
(* one worker, never both (Queued).  A listener of a complete future that  *)
(* is not submitted yet is in the hands of the worker that walks over the  *)
(* list with the mutex held (Walked).                                      *)
(***************************************************************************)
EXTENDS ThreadPool, FiniteSetTheorems, SequenceTheorems, TLAPS

(* Where the code of a worker, and of a client, can stand.                 *)
WorkerPlaces ==
  {"wait", "take", "run", "dead", "complete", "notify", "submit", "post", "signal"}
ClientPlaces ==
  {"idle", "submit", "post", "then_await", "then_release",
   "get_lock", "get_check", "complete_lock", "complete_check"}

Places == WorkerPlaces \cup ClientPlaces

(* The types of the state: the counters, and the rest.                     *)
Counted ==
  /\ task_lock \in Nat /\ lost \in Nat /\ timeouts \in Nat
  /\ read_mutex \in [Futures -> {0, 1}]
  /\ ops \in [Clients -> Nat] /\ runs \in [Futures -> Nat]
TypeOK ==
  /\ tasks \in Seq(Futures)
  /\ mark \in [Futures -> BOOLEAN] /\ has_result \in [Futures -> BOOLEAN]
  /\ args \in [Futures -> Futures \cup {None}]
  /\ result \in [Futures -> Futures \cup {None}]
  /\ listeners \in [Futures -> Seq(Followers)]
  /\ listeners_mutex \in [Futures -> Threads \cup {NoThread}]
  /\ pc \in [Threads -> Places]
  /\ f \in [Threads -> Futures \cup {None}]
  /\ g \in [Threads -> Futures \cup {None}]
  /\ pending \in [Threads -> Seq(Followers)]
  /\ made \in SUBSET Futures
  /\ Counted

(* The futures in the hands of a thread, by the place where it stands.     *)
WorkerStands(w) ==
  /\ pc[w] \in WorkerPlaces
  /\ pc[w] \notin {"wait", "take"} => f[w] \in Futures
  /\ pc[w] \in {"submit", "post"} => f[w] \in Roots /\ g[w] \in Followers
  /\ pc[w] = "notify" /\ pending[w] # << >> => f[w] \in Roots
ClientStands(c) ==
  /\ pc[c] \in ClientPlaces
  /\ pc[c] = "idle" => f[c] = None
  /\ pc[c] \in {"submit", "post"} => \/ f[c] = None /\ g[c] \in Roots
                                     \/ f[c] \in Roots /\ g[c] \in Followers
  /\ pc[c] \in {"then_await", "then_release"} => f[c] \in Roots /\ g[c] \in Followers
  /\ pc[c] \in {"get_lock", "get_check", "complete_lock", "complete_check"} => f[c] \in Futures
Standing ==
  /\ \A w \in Workers : WorkerStands(w)
  /\ \A c \in Clients : ClientStands(c)
  /\ \A y \in Followers : listeners[y] = << >>

(* Thread t is between the lock and the unlock of the listeners of f[t].    *)
Owns(t) ==
  \/ t \in Workers /\ pc[t] \in {"notify", "submit", "post"}
  \/ t \in Clients /\ pc[t] \in {"submit", "post"} /\ f[t] # None
  \/ t \in Clients /\ pc[t] = "then_release"
Locked ==
  \A x \in Futures, t \in Threads : listeners_mutex[x] = t <=> Owns(t) /\ f[t] = x

(* A future that has its result has its own; a worker sets it before       *)
(* has_result, and both before it walks over the listeners.                *)
Resulted ==
  /\ \A x \in Futures : has_result[x] => result[x] = x
  /\ \A w \in Workers : 
       pc[w] \in {"complete", "notify", "submit", "post"} => result[f[w]] = f[w]
  /\ \A w \in Workers : pc[w] \in {"notify", "submit", "post"} => has_result[f[w]]

(* The followers that have got the result they run with.                   *)
Ready == {y \in Followers : args[y] \in Roots /\ has_result[args[y]]}
Supplied ==
  /\ \A y \in Followers : mark[y] => y \in Ready
  /\ \A t \in Threads : pc[t] = "submit" /\ g[t] \in Followers => g[t] \in Ready

(* Submitted and not yet run: in the list once, or with one worker.        *)
Waiting == {x \in Futures : mark[x] /\ runs[x] = 0}
Queued ==
  /\ \A i, j \in DOMAIN tasks : tasks[i] = tasks[j] => i = j
  /\ \A i \in DOMAIN tasks : tasks[i] \in Waiting
  /\ \A w \in Workers : pc[w] = "run" =>
       /\ f[w] \in Waiting
       /\ \A i \in DOMAIN tasks : tasks[i] # f[w]
       /\ \A v \in Workers : pc[v] = "run" /\ f[v] = f[w] => v = w
(* Nothing runs before it is submitted, and nothing runs twice.            *)
RunsCounted ==
  /\ \A x \in Futures : ~mark[x] => runs[x] = 0
  /\ RunOnce

(* Worker w is walking over the listeners of x and has l before it.        *)
Walking(w, x, l) ==
  /\ listeners_mutex[x] = w
  /\ InRange(l, pending[w]) \/ (pc[w] = "submit" /\ g[w] = l)
(* Every listener of a complete future is submitted or about to be.        *)
Walked ==
  \A x \in Futures : has_result[x] => \A i \in DOMAIN listeners[x] :
    mark[listeners[x][i]] \/ \E w \in Workers : Walking(w, x, listeners[x][i])

(* The inductive invariant.                                                *)
IInv == /\ TypeOK /\ Standing /\ Locked /\ Resulted /\ Supplied /\ Queued /\ RunsCounted /\ Walked
        /\ TokensExact /\ GetReturnsResult

-----------------------------------------------------------------------------
(* Types.                                                                  *)

(* A thread that moves stands at a place of the code.                      *)
LEMMA MoveType ==
  ASSUME pc \in [Threads -> Places], NEW t \in Threads, NEW from, NEW to \in Places,
         Move(t, from, to)
  PROVE  pc' \in [Threads -> Places]
BY DEF Move

(* An update with a value of the range's type.                             *)
LEMMA ExceptType ==
  ASSUME NEW A, NEW B, NEW h \in [A -> B], NEW x, NEW y \in B
  PROVE  [h EXCEPT ![x] = y] \in [A -> B]
OBVIOUS

(* Every step keeps the types of the counters, ...                         *)
LEMMA CountedStep == TypeOK /\ Standing /\ [Next]_vars => Counted'
<1> SUFFICES ASSUME TypeOK, Standing, [Next]_vars PROVE Counted'
  OBVIOUS
<1> USE PoolAssumption DEF Counted, Threads, Futures
<1>0. Counted
  BY DEF TypeOK
<1>1. CASE UNCHANGED vars
  BY <1>0, <1>1 DEF vars, ghosts
<1>2. ASSUME NEW w \in Workers, Work(w) PROVE Counted'
  <2>1. CASE WaitForTask(w)
    BY <1>0, <2>1 DEF WaitForTask, LocksSame, LocalSame, HistorySame
  <2>4. CASE WaitRunsOut(w)
    BY <1>0, <2>4 DEF WaitRunsOut, PoolSame, LocksSame, LocalSame
  <2>5. CASE Take(w)
    BY <1>0, <2>5 DEF Take, TaskUnlock, LocksSame, HistorySame
  <2>2. CASE Run(w) \/ RunFails(w)
    BY <1>0, <2>2 DEF Run, RunFails, PoolSame, LocksSame, LocalSame
  <2>3. CASE Complete(w) \/ Notify(w) \/ NotifyDone(w) \/ SignalReaders(w)
    BY <1>0, <2>3 DEF Complete, Notify, NotifyDone, SignalReaders, ReadUnlock, PoolSame, LocksSame, LocalSame, HistorySame
  <2> QED BY <1>2, <2>1, <2>2, <2>3, <2>4, <2>5 DEF Work
<1>3. ASSUME NEW c \in Clients, Call(c) PROVE Counted'
  BY <1>0, <1>3 DEF Call, PoolSame, LocksSame, HistorySame
<1>4. ASSUME NEW c \in Clients, Continue(c) PROVE Counted'
  <2>1. CASE ThenAwait(c) \/ ThenRelease(c)
    BY <1>0, <2>1 DEF ThenAwait, ThenRelease, Return, PoolSame, LocalSame, HistorySame
  <2>2. CASE GetLock(c)
    <3>1. read_mutex[f[c]] = 1 /\ read_mutex' = [read_mutex EXCEPT ![f[c]] = 0]
      <4>1. f[c] \in Futures
        BY <2>2 DEF GetLock, Move, Standing, ClientStands
      <4>2. read_mutex[f[c]] \in {0, 1} /\ read_mutex[f[c]] > 0
        BY <1>0, <2>2, <4>1 DEF GetLock
      <4>3. read_mutex[f[c]] = 1
        BY <4>2
      <4>4. read_mutex' = [read_mutex EXCEPT ![f[c]] = read_mutex[f[c]] - 1]
        BY <2>2 DEF GetLock
      <4> QED BY <4>3, <4>4
    <3> QED BY <1>0, <2>2, <3>1 DEF GetLock, PoolSame, LocalSame, HistorySame
  <2>3. CASE GetCheck(c) \/ CompleteLock(c) \/ CompleteCheck(c)
    BY <1>0, <2>3 DEF GetCheck, CompleteLock, CompleteCheck, Return, ReadUnlock, PoolSame, LocalSame, HistorySame
  <2> QED BY <1>4, <2>1, <2>2, <2>3 DEF Continue
<1>5. ASSUME NEW t \in Threads, ExecuteFuture(t) \/ Post(t) PROVE Counted'
  BY <1>0, <1>5 DEF ExecuteFuture, Post, TaskUnlock, LocksSame, LocalSame, HistorySame
<1> QED BY <1>1, <1>2, <1>3, <1>4, <1>5 DEF Next

(* ... and of the rest of the state.                                       *)
LEMMA TypeStep == TypeOK /\ Standing /\ [Next]_vars => TypeOK'
<1> SUFFICES ASSUME TypeOK, Standing, [Next]_vars PROVE TypeOK'
  OBVIOUS
<1> USE PoolAssumption
    DEF TypeOK, Threads, Futures, fields, PoolSame, LocksSame, LocalSame, HistorySame
<1>0. \A t \in Threads : \A from : \A to \in Places :
        Move(t, from, to) => pc' \in [Threads -> Places]
  BY MoveType
<1>c. Counted'
  BY CountedStep
<1>p. WorkerPlaces \subseteq Places /\ ClientPlaces \subseteq Places
  BY DEF Places
<1>1. CASE UNCHANGED vars
  BY <1>1, <1>c DEF vars, ghosts
<1>2. ASSUME NEW w \in Workers, WaitForTask(w) PROVE TypeOK'
  BY <1>2, <1>0, <1>c, <1>p DEF WaitForTask, WorkerPlaces
<1>3. ASSUME NEW w \in Workers, WaitRunsOut(w) PROVE TypeOK'
  BY <1>3, <1>0, <1>c, <1>p DEF WaitRunsOut, WorkerPlaces
<1>4. ASSUME NEW w \in Workers, Take(w) PROVE TypeOK'
  <2>1. CASE tasks # << >>
    <3>1. Head(tasks) \in Futures /\ Tail(tasks) \in Seq(Futures)
      BY <2>1
    <3> QED BY ZenonT(60), <1>4, <1>0, <1>c, <1>p, <2>1, <3>1 DEF Take, WorkerPlaces
  <2>2. CASE tasks = << >>
    BY <1>4, <1>0, <1>c, <1>p, <2>2 DEF Take, WorkerPlaces
  <2> QED BY <2>1, <2>2
<1>5. ASSUME NEW w \in Workers, Run(w) PROVE TypeOK'
  <2>1. f[w] \in Futures
    BY <1>5 DEF Run, Move, Standing, WorkerStands
  <2> QED BY <1>5, <1>0, <1>c, <1>p, <2>1 DEF Run, WorkerPlaces
<1>6. ASSUME NEW w \in Workers, RunFails(w) PROVE TypeOK'
  BY <1>6, <1>0, <1>c, <1>p DEF RunFails, WorkerPlaces
<1>7. ASSUME NEW w \in Workers, Complete(w) PROVE TypeOK'
  <2>1. f[w] \in Futures
    BY <1>7 DEF Complete, Move, Standing, WorkerStands
  <2> QED BY <1>7, <1>0, <1>c, <1>p, <2>1 DEF Complete, WorkerPlaces
<1>8. ASSUME NEW w \in Workers, Notify(w) PROVE TypeOK'
  <2>1. f[w] \in Futures
    BY <1>8 DEF Notify, Move, Standing, WorkerStands
  <2> QED BY <1>8, <1>0, <1>c, <1>p, <2>1, HeadTailProperties DEF Notify, WorkerPlaces
<1>9. ASSUME NEW w \in Workers, NotifyDone(w) PROVE TypeOK'
  BY <1>9, <1>0, <1>c, <1>p DEF NotifyDone, WorkerPlaces
<1>10. ASSUME NEW w \in Workers, SignalReaders(w) PROVE TypeOK'
  BY <1>10, <1>0, <1>c, <1>p DEF SignalReaders, ReadUnlock, WorkerPlaces
<1>11. ASSUME NEW c \in Clients, Call(c) PROVE TypeOK'
  <2>1. f' \in [Threads -> Futures \cup {None}] /\ g' \in [Threads -> Futures \cup {None}]
    BY ZenonT(60), <1>11 DEF Call
  <2>2. made' \in SUBSET Futures
    BY <1>11 DEF Call
  <2>3. pc' \in [Threads -> Places]
    BY ZenonT(60), <1>11, <1>0, <1>p DEF Call, ClientPlaces
  <2> QED BY <1>11, <1>c, <2>1, <2>2, <2>3 DEF Call
<1>12. ASSUME NEW c \in Clients, ThenAwait(c) PROVE TypeOK'
  <2>1. f[c] \in Futures /\ g[c] \in Followers
    BY <1>12 DEF ThenAwait, Standing, ClientStands
  <2>2. Append(listeners[f[c]], g[c]) \in Seq(Followers)
    BY <2>1
  <2>3. pc' \in [Threads -> Places]
    BY <1>12, <1>0, <1>p DEF ThenAwait, ClientPlaces
  <2>4. args' \in [Futures -> Futures \cup {None}]
    BY <1>12, <2>1 DEF ThenAwait
  <2>5. listeners' \in [Futures -> Seq(Followers)]
    <3> DEFINE s == Append(listeners[f[c]], g[c])
    <3>1. listeners' = listeners \/ listeners' = [listeners EXCEPT ![f[c]] = s]
      <4>1. CASE has_result[f[c]]
        BY <1>12, <4>1 DEF ThenAwait
      <4>2. CASE ~has_result[f[c]]
        BY <1>12, <4>2 DEF ThenAwait
      <4> QED BY <4>1, <4>2
    <3> HIDE DEF s
    <3>2. [listeners EXCEPT ![f[c]] = s] \in [Futures -> Seq(Followers)]
      BY <2>2, ExceptType DEF s
    <3> QED BY <3>1, <3>2
  <2> QED BY <1>12, <1>c, <2>1, <2>3, <2>4, <2>5 DEF ThenAwait
<1>13. ASSUME NEW c \in Clients, ThenRelease(c) PROVE TypeOK'
  BY <1>13, <1>0, <1>c, <1>p DEF ThenRelease, Return, ClientPlaces
<1>14. ASSUME NEW c \in Clients, GetLock(c) PROVE TypeOK'
  <2>1. f[c] \in Futures
    BY <1>14 DEF GetLock, Move, Standing, ClientStands
  <2> QED BY <1>14, <1>0, <1>c, <1>p, <2>1 DEF GetLock, ClientPlaces
<1>15. ASSUME NEW c \in Clients, GetCheck(c) PROVE TypeOK'
  BY ZenonT(60), <1>15, <1>0, <1>c, <1>p DEF GetCheck, Return, ReadUnlock, ClientPlaces
<1>16. ASSUME NEW c \in Clients, CompleteLock(c) PROVE TypeOK'
  BY <1>16, <1>0, <1>c, <1>p DEF CompleteLock, ClientPlaces
<1>17. ASSUME NEW c \in Clients, CompleteCheck(c) PROVE TypeOK'
  BY <1>17, <1>0, <1>c, <1>p DEF CompleteCheck, Return, ReadUnlock, ClientPlaces
<1>18. ASSUME NEW t \in Threads PROVE Back(t) \in Places
  BY <1>p DEF Back, ClientPlaces, WorkerPlaces
<1>19. ASSUME NEW t \in Threads, ExecuteFuture(t) PROVE TypeOK'
  <2>1. g[t] \in Futures
    BY <1>19 DEF ExecuteFuture, Standing, ClientStands, WorkerStands
  <2>2. Append(tasks, g[t]) \in Seq(Futures)
    BY <2>1
  <2> QED BY <1>19, <1>0, <1>c, <1>p, <1>18, <2>1, <2>2 DEF ExecuteFuture, WorkerPlaces
<1>20. ASSUME NEW t \in Threads, Post(t) PROVE TypeOK'
  BY <1>20, <1>0, <1>c, <1>18 DEF Post, TaskUnlock
<1> QED
  BY <1>1, <1>2, <1>3, <1>4, <1>5, <1>6, <1>7, <1>8, <1>9, <1>10, <1>11, <1>12,
     <1>13, <1>14, <1>15, <1>16, <1>17, <1>19, <1>20 DEF Next, Work, Continue

-----------------------------------------------------------------------------
(* A thread moves itself: what the others have in hand stays.              *)
Others(t) ==
  \A u \in Threads : u # t =>
    pc'[u] = pc[u] /\ f'[u] = f[u] /\ g'[u] = g[u] /\ pending'[u] = pending[u]

(* A step of one thread leaves the others where they stand.                *)
LEMMA OneMoves ==
  ASSUME TypeOK, NEW t \in Threads,
         \/ Work(t)
         \/ Call(t) \/ Continue(t)
         \/ ExecuteFuture(t) \/ Post(t)
  PROVE  Others(t)
<1> USE DEF TypeOK, Others, Move, LocalSame
<1>1. CASE WaitForTask(t) \/ WaitRunsOut(t) \/ Take(t) \/ Run(t) \/ RunFails(t)
  BY <1>1 DEF WaitForTask, WaitRunsOut, Take, Run, RunFails
<1>2. CASE Complete(t) \/ Notify(t) \/ NotifyDone(t) \/ SignalReaders(t)
  BY <1>2 DEF Complete, Notify, NotifyDone, SignalReaders
<1>3. CASE Call(t)
  BY <1>3 DEF Call
<1>4. CASE Continue(t)
  BY <1>4 DEF Continue, ThenAwait, ThenRelease, GetLock, GetCheck, CompleteLock,
              CompleteCheck, Return
<1>5. CASE ExecuteFuture(t) \/ Post(t)
  BY <1>5 DEF ExecuteFuture, Post
<1> QED BY <1>1, <1>2, <1>3, <1>4, <1>5 DEF Work

(* Every step keeps what a thread holds at the place where it stands.      *)
LEMMA StandingStep == TypeOK /\ Standing /\ [Next]_vars => Standing'
<1> SUFFICES ASSUME TypeOK, Standing, [Next]_vars PROVE Standing'
  OBVIOUS
<1> DEFINE Stands(t) == /\ t \in Workers => WorkerStands(t)
                        /\ t \in Clients => ClientStands(t)
           NoListeners == \A y \in Followers : listeners[y] = << >>
<1>0. ASSUME NEW t \in Threads, Others(t), Stands(t)', NoListeners'
      PROVE  Standing'
  BY <1>0 DEF Standing, Others, WorkerStands, ClientStands, Threads
<1>s. \A t \in Threads : Stands(t) 
  BY DEF Standing
<1>n. NoListeners
  BY DEF Standing
<1> USE PoolAssumption DEF TypeOK, Move
<1>1. CASE UNCHANGED vars
  BY <1>1 DEF vars, fields, Standing, WorkerStands, ClientStands
<1>2. ASSUME NEW w \in Workers, Work(w) PROVE Stands(w)' /\ NoListeners'
  <2>0. w \in Threads /\ w \notin Clients
    BY DEF Threads
  <2>n. NoListeners'
    BY <1>2, <1>n DEF Work, WaitForTask, WaitRunsOut, Take, Run, RunFails, Complete, Notify,
           NotifyDone, SignalReaders, fields
  <2> HIDE DEF NoListeners
  <2>1. CASE WaitForTask(w) \/ WaitRunsOut(w)
    BY <2>0, <2>1, <2>n DEF WaitForTask, WaitRunsOut, WorkerStands, WorkerPlaces
  <2>2. CASE Take(w)
    <3>1. tasks # << >> => Head(tasks) \in Futures
      OBVIOUS
    <3> QED BY <2>0, <2>2, <2>n, <3>1 DEF Take, WorkerStands, WorkerPlaces
  <2>3. CASE Run(w) \/ RunFails(w)
    BY ZenonT(60), <2>0, <2>3, <2>n, <1>s DEF Run, RunFails, WorkerStands, WorkerPlaces, LocalSame
  <2>4. CASE Complete(w)
    <3>1. f[w] \in Futures /\ f[w] \notin Roots => listeners[f[w]] = << >>
      BY <1>n DEF Futures, NoListeners
    <3> QED BY <2>0, <2>4, <2>n, <1>s, <3>1 DEF Complete, WorkerStands, WorkerPlaces
  <2>5. CASE Notify(w)
    <3>1. pending[w] # << >> => Head(pending[w]) \in Followers
      BY <2>0
    <3> QED BY <2>0, <2>5, <2>n, <1>s, <3>1 DEF Notify, WorkerStands, WorkerPlaces
  <2>6. CASE NotifyDone(w)
    BY <2>0, <2>6, <2>n, <1>s DEF NotifyDone, WorkerStands, WorkerPlaces, LocalSame
  <2>7. CASE SignalReaders(w)
    BY <2>0, <2>7, <2>n, <1>s DEF SignalReaders, WorkerStands, WorkerPlaces
  <2> QED BY <1>2, <2>1, <2>2, <2>3, <2>4, <2>5, <2>6, <2>7 DEF Work
<1>3. ASSUME NEW c \in Clients, Call(c) \/ Continue(c) PROVE Stands(c)' /\ NoListeners'
  <2>0. c \in Threads /\ c \notin Workers
    BY DEF Threads
  <2>1. CASE Call(c)
    BY <2>0, <2>1, <1>s, <1>n DEF Call, ClientStands, ClientPlaces, Futures, fields
  <2>2. CASE ThenAwait(c)
    <3>1. NoListeners'
      BY <2>2, <2>0, <1>s, <1>n DEF ThenAwait, ClientStands, Futures
    <3> QED BY <2>0, <2>2, <1>s, <3>1 DEF ThenAwait, ClientStands, ClientPlaces, LocalSame
  <2>3. CASE ThenRelease(c) \/ CompleteCheck(c)
    BY <2>0, <2>3, <1>n DEF ThenRelease, CompleteCheck, Return, ClientStands, ClientPlaces, fields
  <2>4. CASE GetCheck(c)
    BY <2>0, <2>4, <1>s, <1>n DEF GetCheck, Return, ClientStands, ClientPlaces, fields, LocalSame
  <2>5. CASE GetLock(c) \/ CompleteLock(c)
    BY <2>0, <2>5, <1>s, <1>n DEF GetLock, CompleteLock, ClientStands, ClientPlaces, fields, LocalSame
  <2> QED BY <1>3, <2>1, <2>2, <2>3, <2>4, <2>5 DEF Continue
<1>4. ASSUME NEW t \in Threads, ExecuteFuture(t) \/ Post(t) PROVE Stands(t)' /\ NoListeners'
  <2>1. NoListeners'
    BY <1>4, <1>n DEF ExecuteFuture, Post, fields
  <2>2. CASE t \in Workers
    BY <1>4, <1>s, <2>1, <2>2 DEF ExecuteFuture, Post, Back, WorkerStands, WorkerPlaces, LocalSame
  <2>3. CASE t \in Clients
    BY <1>4, <1>s, <2>1, <2>3 DEF ExecuteFuture, Post, Back, ClientStands, ClientPlaces, LocalSame
  <2> QED BY <2>1, <2>2, <2>3 DEF Threads
<1> HIDE DEF Stands, NoListeners
<1>5. ASSUME NEW w \in Workers, Work(w) PROVE Standing'
  BY <1>0, <1>2, <1>5, OneMoves DEF Threads
<1>6. ASSUME NEW c \in Clients, Call(c) \/ Continue(c) PROVE Standing'
  BY <1>0, <1>3, <1>6, OneMoves DEF Threads
<1>7. ASSUME NEW t \in Threads, ExecuteFuture(t) \/ Post(t) PROVE Standing'
  BY <1>0, <1>4, <1>7, OneMoves
<1> QED BY <1>1, <1>5, <1>6, <1>7 DEF Next

-----------------------------------------------------------------------------
(* The listeners' mutex of a future is owned by the worker that walks over *)
(* the listeners or by the client inside then_do.                          *)
LEMMA LockedStep == TypeOK /\ Standing /\ Locked /\ [Next]_vars => Locked'
<1> SUFFICES ASSUME TypeOK, Standing, Locked, [Next]_vars PROVE Locked'
  OBVIOUS
<1> DEFINE Here(t) == \A x \in Futures : (listeners_mutex[x] = t <=> Owns(t) /\ f[t] = x)
<1>0. \A t \in Threads : Here(t)
  BY DEF Locked
<1>1. ASSUME NEW t \in Threads, Others(t), UNCHANGED listeners_mutex,
             f'[t] = f[t] \/ (~Owns(t) /\ ~Owns(t)'), Owns(t)' <=> Owns(t)
      PROVE  Locked'
  BY <1>1 DEF Locked, Others, Owns
<1>2. ASSUME NEW t \in Threads, Others(t), NEW x \in Futures,
             listeners_mutex[x] = NoThread, f[t] = x, f'[t] = x, Owns(t)',
             listeners_mutex' = [listeners_mutex EXCEPT ![x] = t]
      PROVE  Locked'
  <2>1. ASSUME NEW y \in Futures, NEW u \in Threads
        PROVE  (listeners_mutex[y] = u <=> Owns(u) /\ f[u] = y)'
    <3>0. ~Owns(t)
      BY <1>2, PoolAssumption DEF Locked
    <3>1. CASE u = t
      BY <1>2, <2>1, <3>0, <3>1 DEF Locked, TypeOK
    <3>2. CASE u # t
      BY <1>2, <2>1, <3>2, PoolAssumption DEF Locked, TypeOK, Others, Owns
    <3> QED BY <3>1, <3>2
  <2> QED BY <2>1 DEF Locked
<1>3. ASSUME NEW t \in Threads, Others(t), f[t] \in Futures, Owns(t), ~Owns(t)',
             listeners_mutex' = [listeners_mutex EXCEPT ![f[t]] = NoThread]
      PROVE  Locked'
  <2>1. ASSUME NEW y \in Futures, NEW u \in Threads
        PROVE  (listeners_mutex[y] = u <=> Owns(u) /\ f[u] = y)'
    <3>1. CASE u = t
      BY <1>3, <2>1, <3>1, PoolAssumption DEF Locked, TypeOK
    <3>2. CASE u # t
      BY <1>3, <2>1, <3>2, PoolAssumption DEF Locked, TypeOK, Others, Owns
    <3> QED BY <3>1, <3>2
  <2> QED BY <2>1 DEF Locked
<1> USE PoolAssumption DEF TypeOK, Move
<1>4. CASE UNCHANGED vars
  BY <1>4 DEF vars, Locked, Owns
<1>5. ASSUME NEW w \in Workers, Work(w) PROVE Locked'
  <2>0. w \in Threads /\ w \notin Clients /\ Others(w)
    BY <1>5, OneMoves DEF Threads
  <2>1. CASE WaitForTask(w) \/ WaitRunsOut(w) \/ Run(w) \/ RunFails(w)
    BY <1>1, <2>0, <2>1
       DEF WaitForTask, WaitRunsOut, Run, RunFails, Owns, LocksSame, LocalSame
  <2>2. CASE Take(w) \/ SignalReaders(w)
    BY <1>1, <2>0, <2>2 DEF Take, SignalReaders, Owns, LocksSame
  <2>3. CASE Notify(w)
    BY <1>1, <2>0, <2>3 DEF Notify, Owns, LocksSame
  <2>4. CASE Complete(w)
    <3>1. f[w] \in Futures
      BY <2>4 DEF Complete, Standing, WorkerStands
    <3> QED BY <1>2, <2>0, <2>4, <3>1 DEF Complete, Owns
  <2>5. CASE NotifyDone(w)
    <3>1. f[w] \in Futures
      BY <2>5 DEF NotifyDone, Standing, WorkerStands
    <3> QED BY <1>3, <2>0, <2>5, <3>1 DEF NotifyDone, Owns
  <2> QED BY <1>5, <2>1, <2>2, <2>3, <2>4, <2>5 DEF Work
<1>6. ASSUME NEW c \in Clients, Call(c) \/ Continue(c) PROVE Locked'
  <2>0. c \in Threads /\ c \notin Workers /\ Others(c)
    BY <1>6, OneMoves DEF Threads
  <2>f. /\ ClientStands(c)
        /\ None \notin Roots
    BY DEF Standing, Futures
  <2>1. CASE Call(c)
    BY <1>1, <2>0, <2>1, <2>f DEF Call, Owns, LocksSame, ClientStands
  <2>2. CASE ThenAwait(c)
    BY ZenonT(60), <1>2, <2>0, <2>2, <2>f DEF ThenAwait, Owns, LocalSame, ClientStands, Futures
  <2>3. CASE ThenRelease(c)
    BY <1>3, <2>0, <2>3, <2>f DEF ThenRelease, Return, Owns, ClientStands, Futures
  <2>4. CASE GetLock(c) \/ CompleteLock(c)
    BY <1>1, <2>0, <2>4 DEF GetLock, CompleteLock, Owns, LocalSame
  <2>5. CASE GetCheck(c) \/ CompleteCheck(c)
    BY <1>1, <2>0, <2>5 DEF GetCheck, CompleteCheck, Return, Owns, LocalSame
  <2> QED BY <1>6, <2>1, <2>2, <2>3, <2>4, <2>5 DEF Continue
<1>7. ASSUME NEW t \in Threads, ExecuteFuture(t) \/ Post(t) PROVE Locked'
  BY ZenonT(60), <1>1, <1>7, OneMoves
     DEF ExecuteFuture, Post, Back, Owns, LocksSame, LocalSame, Threads
<1> QED BY <1>4, <1>5, <1>6, <1>7 DEF Next

(* The result of a future whose function has run is its own.               *)
LEMMA ResultedStep == TypeOK /\ Standing /\ Resulted /\ [Next]_vars => Resulted'
<1> SUFFICES ASSUME TypeOK, Standing, Resulted, [Next]_vars PROVE Resulted'
  OBVIOUS
<1> USE PoolAssumption DEF TypeOK, Move
<1>1. CASE UNCHANGED vars
  BY <1>1 DEF vars, fields, Resulted
<1>2. ASSUME NEW w \in Workers, Work(w) PROVE Resulted'
  <2>0. w \in Threads /\ Others(w) /\ Workers \subseteq Threads
    BY <1>2, OneMoves DEF Threads
  <2>f. pc[w] \notin {"wait", "take"} => f[w] \in Futures
    BY DEF Standing, WorkerStands
  <2>1. CASE WaitForTask(w) \/ WaitRunsOut(w) \/ Take(w) \/ RunFails(w) \/ SignalReaders(w)
    <3>1. UNCHANGED <<result, has_result>>
      BY <2>1 DEF WaitForTask, WaitRunsOut, Take, RunFails, SignalReaders, fields
    <3>2. pc'[w] \in {"take", "run", "wait", "dead"}
      BY <2>0, <2>1 DEF WaitForTask, WaitRunsOut, Take, RunFails, SignalReaders
    <3>3. \A u \in Workers : pc'[u] \in {"complete", "notify", "submit", "post"} =>
            pc[u] = pc'[u] /\ f'[u] = f[u]
      BY <2>0, <3>2 DEF Others
    <3> QED BY <3>1, <3>3 DEF Resulted
  <2>2. CASE Run(w)
    BY <2>0, <2>2, <2>f DEF Run, Resulted, Others, LocalSame, Standing, WorkerStands
  <2>3. CASE Complete(w)
    BY <2>0, <2>3, <2>f DEF Complete, Resulted, Others, Standing, WorkerStands
  <2>4. CASE Notify(w)
    BY <2>0, <2>4, <2>f DEF Notify, Resulted, Others
  <2>5. CASE NotifyDone(w)
    BY <2>0, <2>5, <2>f DEF NotifyDone, Resulted, Others, LocalSame, fields
  <2> QED BY <1>2, <2>1, <2>2, <2>3, <2>4, <2>5 DEF Work
<1>3. ASSUME NEW c \in Clients, Call(c) \/ Continue(c) PROVE Resulted'
  <2>0. c \in Threads /\ c \notin Workers /\ Others(c) /\ Workers \subseteq Threads
    BY <1>3, OneMoves DEF Threads
  <2>1. UNCHANGED <<result, has_result>>
    BY <1>3 DEF Call, Continue, ThenAwait, ThenRelease, GetLock, GetCheck, CompleteLock,
                CompleteCheck, fields
  <2> QED BY ZenonT(60), <2>0, <2>1 DEF Resulted, Others
<1>4. ASSUME NEW t \in Threads, ExecuteFuture(t) \/ Post(t) PROVE Resulted'
  <2>0. Others(t) /\ Workers \subseteq Threads
    BY <1>4, OneMoves DEF Threads
  <2>1. UNCHANGED <<result, has_result>> /\ f' = f
    BY <1>4 DEF ExecuteFuture, Post, LocalSame, fields
  <2>2. pc[t] \in {"submit", "post"} /\ (t \in Workers => pc'[t] \in {"post", "notify"})
    BY <1>4 DEF ExecuteFuture, Post, Back
  <2> QED BY <2>0, <2>1, <2>2 DEF Resulted, Others
<1> QED BY <1>1, <1>2, <1>3, <1>4 DEF Next

(* Arguments once supplied are not taken back, nor are results.            *)
LEMMA SuppliedStep ==
  TypeOK /\ Standing /\ Resulted /\ Supplied /\ [Next]_vars => Supplied'
<1> SUFFICES ASSUME TypeOK, Standing, Resulted, Supplied, [Next]_vars PROVE Supplied'
  OBVIOUS
<1> USE PoolAssumption DEF TypeOK, Move
<1>f. Followers \subseteq Futures /\ Roots \subseteq Futures /\ Roots \cap Followers = {}
  BY DEF Futures
<1>0. ASSUME NEW t \in Threads, Others(t), Ready \subseteq Ready',
             \A y \in Followers : mark'[y] => mark[y] \/ y \in Ready',
             pc'[t] = "submit" /\ g'[t] \in Followers => g'[t] \in Ready'
      PROVE  Supplied'
  <2>1. \A y \in Followers : mark'[y] => y \in Ready'
    BY <1>0 DEF Supplied
  <2>2. \A u \in Threads : pc'[u] = "submit" /\ g'[u] \in Followers => g'[u] \in Ready'
    BY <1>0 DEF Supplied, Others
  <2> QED BY <2>1, <2>2 DEF Supplied
<1>e. UNCHANGED <<args, has_result>> => Ready' = Ready
  BY DEF Ready
<1>1. CASE UNCHANGED vars
  BY <1>1 DEF vars, fields, Supplied, Ready
<1>2. ASSUME NEW w \in Workers, Work(w) PROVE Supplied'
  <2>0. w \in Threads /\ Others(w) /\ Workers \subseteq Threads
    BY <1>2, OneMoves DEF Threads
  <2>f. pc[w] \notin {"wait", "take"} => f[w] \in Futures
    BY DEF Standing, WorkerStands
  <2>1. CASE ~(Complete(w) \/ Notify(w))
    <3>1. UNCHANGED <<args, has_result, mark>>
      BY <1>2, <2>1 DEF Work, WaitForTask, WaitRunsOut, Take, Run, RunFails, NotifyDone,
                        SignalReaders, fields
    <3>2. pc'[w] # "submit"
      BY <1>2, <2>0, <2>1 DEF Work, WaitForTask, WaitRunsOut, Take, Run, RunFails,
                              NotifyDone, SignalReaders
    <3> QED BY <1>0, <1>e, <2>0, <3>1, <3>2
  <2>2. CASE Complete(w)
    <3>1. /\ UNCHANGED <<args, mark>> /\ pc'[w] # "submit"
          /\ \A x \in Futures : has_result[x] => has_result'[x]
      BY <2>0, <2>2 DEF Complete
    <3>2. Ready \subseteq Ready'
      BY <1>f, <3>1 DEF Ready
    <3> QED BY <1>0, <2>0, <3>1, <3>2
  <2>3. CASE Notify(w)
    <3> DEFINE l == Head(pending[w])
    <3>1. l \in Followers
      BY <2>0, <2>3 DEF Notify
    <3>2. f[w] \in Roots /\ has_result[f[w]] /\ result[f[w]] = f[w]
      BY <2>0, <2>3 DEF Notify, Standing, WorkerStands, Resulted
    <3> HIDE DEF l
    <3>3. args' = [args EXCEPT ![l] = f[w]] /\ UNCHANGED <<mark, has_result>> /\ g'[w] = l
      BY <2>0, <2>3, <3>2 DEF Notify, l
    <3>4. Ready \cup {l} \subseteq Ready'
      BY <1>f, <3>1, <3>2, <3>3 DEF Ready
    <3> QED BY <1>0, <2>0, <3>3, <3>4
  <2> QED BY <2>1, <2>2, <2>3
<1>3. ASSUME NEW c \in Clients, Call(c) \/ Continue(c) PROVE Supplied'
  <2>0. c \in Threads /\ Others(c) /\ Clients \subseteq Threads
    BY <1>3, OneMoves DEF Threads
  <2>1. CASE ~ThenAwait(c)
    <3>1. UNCHANGED <<args, has_result, mark>>
      BY <1>3, <2>1 DEF Call, Continue, ThenRelease, GetLock, GetCheck, CompleteLock,
                        CompleteCheck, fields
    <3>2. pc'[c] = "submit" => g'[c] \in Roots
      BY <1>3, <2>0, <2>1 DEF Call, Continue, ThenRelease, GetLock, GetCheck, CompleteLock,
                              CompleteCheck, Return
    <3> QED BY <1>0, <1>e, <1>f, <2>0, <3>1, <3>2
  <2>2. CASE ThenAwait(c)
    <3>1. f[c] \in Roots /\ g[c] \in Followers
      BY <2>2 DEF ThenAwait, Standing, ClientStands
    <3>2. CASE has_result[f[c]]
      <4>1. args' = [args EXCEPT ![g[c]] = f[c]] /\ UNCHANGED <<mark, has_result>> /\ g' = g
        BY <1>f, <2>2, <3>1, <3>2 DEF ThenAwait, Resulted, LocalSame
      <4>2. Ready \cup {g[c]} \subseteq Ready'
        BY <1>f, <3>1, <3>2, <4>1 DEF Ready
      <4> QED BY <1>0, <2>0, <4>1, <4>2
    <3>3. CASE ~has_result[f[c]]
      <4>1. UNCHANGED <<args, has_result, mark>> /\ pc'[c] # "submit"
        BY <2>0, <2>2, <3>3 DEF ThenAwait
      <4> QED BY <1>0, <1>e, <2>0, <4>1
    <3> QED BY <3>2, <3>3
  <2> QED BY <2>1, <2>2
<1>4. ASSUME NEW t \in Threads, ExecuteFuture(t) PROVE Supplied'
  <2>1. UNCHANGED <<args, has_result>> /\ g' = g /\ pc[t] = "submit"
    BY <1>4 DEF ExecuteFuture, LocalSame
  <2>2. \A y \in Followers : mark'[y] => mark[y] \/ y = g[t]
    BY <1>4, <1>f DEF ExecuteFuture
  <2>3. g[t] \in Followers => g[t] \in Ready
    BY <2>1 DEF Supplied
  <2> QED BY <1>0, <1>e, <1>4, <2>1, <2>2, <2>3, OneMoves
<1>5. ASSUME NEW t \in Threads, Post(t) PROVE Supplied'
  <2>1. UNCHANGED <<args, has_result, mark>> /\ pc'[t] # "submit"
    BY <1>5 DEF Post, fields, Back
  <2> QED BY <1>0, <1>e, <1>5, <2>1, OneMoves
<1> QED BY <1>1, <1>2, <1>3, <1>4, <1>5 DEF Next

(* What get() returns is a future's own result.                            *)
LEMMA GotStep ==
  TypeOK /\ Standing /\ Resulted /\ GetReturnsResult /\ [Next]_vars => GetReturnsResult'
<1> SUFFICES ASSUME TypeOK, Standing, Resulted, GetReturnsResult, [Next]_vars
             PROVE  GetReturnsResult'
  OBVIOUS
<1> USE DEF GetReturnsResult
<1>1. ASSUME NEW c \in Clients, GetCheck(c) PROVE GetReturnsResult'
  <2>1. f[c] \in Futures
    BY <1>1 DEF GetCheck, Standing, ClientStands
  <2>2. \/ got' = got
        \/ has_result[f[c]] /\ got' = got \cup {<<f[c], result[f[c]]>>}
    BY <1>1 DEF GetCheck
  <2>3. has_result[f[c]] => result[f[c]] = f[c]
    BY <2>1 DEF Resulted
  <2>4. has_result[f[c]] => \A r \in {<<f[c], result[f[c]]>>} : r[2] = r[1]
    BY <2>3
  <2> QED BY <2>2, <2>4
<1>2. CASE got' = got
  BY <1>2
<1>3. \/ got' = got \/ \E c \in Clients : GetCheck(c)
  BY DEF Next, vars, ghosts, Work, WaitForTask, WaitRunsOut, Take, Run, RunFails, Complete,
         Notify, NotifyDone, SignalReaders, Call, Continue, ThenAwait, ThenRelease, GetLock,
         CompleteLock, CompleteCheck, ExecuteFuture, Post, HistorySame
<1> QED BY <1>1, <1>2, <1>3

-----------------------------------------------------------------------------
(* A future is submitted once: by the thread that finds it unmarked.       *)
LEMMA QueuedStep ==
  TypeOK /\ Standing /\ Queued /\ RunsCounted /\ [Next]_vars => Queued'
<1> SUFFICES ASSUME TypeOK, Standing, Queued, RunsCounted, [Next]_vars PROVE Queued'
  OBVIOUS
<1> USE DEF TypeOK, Move
<1>w. Workers \subseteq Threads /\ \A c \in Clients : c \notin Workers
  BY PoolAssumption DEF Threads
<1>0. ASSUME NEW t \in Threads, Others(t), UNCHANGED <<tasks, mark, runs>>,
             t \in Workers => pc'[t] # "run"
      PROVE  Queued'
  <2>1. \A v \in Workers : pc'[v] = "run" => pc[v] = "run" /\ f'[v] = f[v]
    BY <1>0, <1>w DEF Others
  <2>2. tasks' = tasks /\ Waiting' = Waiting
    BY <1>0 DEF Waiting
  <2> QED BY <2>1, <2>2 DEF Queued
<1>1. CASE UNCHANGED vars
  BY <1>1 DEF vars, fields, ghosts, Queued, Waiting
<1>2. ASSUME NEW w \in Workers, Work(w) PROVE Queued'
  <2>0. w \in Threads /\ Others(w)
    BY <1>2, OneMoves DEF Threads
  <2>1. CASE Run(w) \/ RunFails(w)
    <3>1. /\ f[w] \in Futures /\ pc[w] = "run" /\ UNCHANGED <<tasks, mark>> /\ pc'[w] # "run"
          /\ runs' = [runs EXCEPT ![f[w]] = @ + 1]
      BY <2>0, <2>1 DEF Run, RunFails, PoolSame, fields, Standing, WorkerStands
    <3>2. \A i \in DOMAIN tasks : tasks[i] # f[w]
      BY <3>1 DEF Queued
    <3>3. Waiting \ {f[w]} \subseteq Waiting'
      BY <3>1 DEF Waiting
    <3>5. \A v \in Workers : pc'[v] = "run" => pc[v] = "run" /\ f'[v] = f[v] /\ f[v] # f[w]
      BY <1>w, <2>0, <3>1 DEF Queued, Others
    <3>6. \A i \in DOMAIN tasks : tasks[i] \in Waiting'
      BY <3>2, <3>3 DEF Queued
    <3>7. \A v \in Workers : pc'[v] = "run" =>
            /\ f'[v] \in Waiting'
            /\ \A i \in DOMAIN tasks : tasks[i] # f'[v]
            /\ \A u \in Workers : pc'[u] = "run" /\ f'[u] = f'[v] => u = v
      BY <3>3, <3>5 DEF Queued
    <3>8. tasks' = tasks
      BY <3>1
    <3> QED BY <3>6, <3>7, <3>8 DEF Queued
  <2>2. CASE Take(w)
    <3>1. CASE tasks = << >>
      BY <1>0, <2>0, <2>2, <3>1 DEF Take, HistorySame, fields
    <3>2. CASE tasks # << >>
      <4> DEFINE x == Head(tasks)
      <4>1. /\ x \in Futures /\ x = tasks[1] /\ 1 \in DOMAIN tasks
            /\ DOMAIN Tail(tasks) = 1 .. Len(tasks) - 1
            /\ \A i \in DOMAIN Tail(tasks) :
                 i + 1 \in DOMAIN tasks /\ Tail(tasks)[i] = tasks[i + 1] /\ i + 1 # 1
        BY <3>2
      <4>2. /\ tasks' = Tail(tasks) /\ pc'[w] = "run" /\ f'[w] = x
            /\ UNCHANGED <<mark, runs>>
        BY <2>0, <2>2, <3>2 DEF Take, HistorySame, fields
      <4> HIDE DEF x
      <4>3. Waiting' = Waiting
        BY <4>2 DEF Waiting
      <4>4. x \in Waiting /\ \A i \in DOMAIN tasks' : tasks'[i] \in Waiting /\ tasks'[i] # x
        BY <4>1, <4>2 DEF Queued
      <4>5. ASSUME NEW i \in DOMAIN tasks', NEW j \in DOMAIN tasks', tasks'[i] = tasks'[j]
            PROVE  i = j
        <5>1. i \in Int /\ j \in Int /\ i + 1 = j + 1
          BY <4>1, <4>2, <4>5 DEF Queued
        <5> QED BY <5>1
      <4>6. ASSUME NEW v \in Workers, v # w, pc'[v] = "run"
            PROVE  /\ pc[v] = "run" /\ f'[v] = f[v] /\ f[v] # x
                   /\ \A i \in DOMAIN tasks' : tasks'[i] # f[v]
        <5>1. pc[v] = "run" /\ f'[v] = f[v]
          BY <1>w, <2>0, <4>6 DEF Others
        <5> QED BY <4>1, <4>2, <5>1 DEF Queued
      <4>7. ASSUME NEW v \in Workers, pc'[v] = "run"
            PROVE  /\ f'[v] \in Waiting
                   /\ \A i \in DOMAIN tasks' : tasks'[i] # f'[v]
                   /\ \A u \in Workers : pc'[u] = "run" /\ f'[u] = f'[v] => u = v
        <5>1. CASE v = w
          BY <4>2, <4>4, <4>6, <5>1
        <5>2. CASE v # w
          BY <4>2, <4>6, <4>7, <5>2 DEF Queued
        <5> QED BY <5>1, <5>2
      <4> QED BY <4>3, <4>4, <4>5, <4>7 DEF Queued
    <3> QED BY <3>1, <3>2
  <2>3. CASE ~(Run(w) \/ RunFails(w) \/ Take(w))
    <3>1. UNCHANGED <<tasks, mark, runs>>
      BY <1>2, <2>3 DEF Work, WaitForTask, WaitRunsOut, Complete, Notify, NotifyDone, SignalReaders,
                        PoolSame, HistorySame, fields
    <3>2. pc'[w] # "run"
      BY <1>2, <2>0, <2>3 DEF Work, WaitForTask, WaitRunsOut, Complete, Notify, NotifyDone,
                              SignalReaders
    <3> QED BY <1>0, <2>0, <3>1, <3>2
  <2> QED BY <2>1, <2>2, <2>3
<1>3. ASSUME NEW c \in Clients, Call(c) \/ Continue(c) PROVE Queued'
  <2>1. UNCHANGED <<tasks, mark, runs>>
    BY <1>3 DEF Call, Continue, ThenAwait, ThenRelease, GetLock, GetCheck, CompleteLock,
                CompleteCheck, PoolSame, HistorySame, fields
  <2> QED BY <1>0, <1>3, <1>w, <2>1, OneMoves DEF Threads
<1>4. ASSUME NEW t \in Threads, ExecuteFuture(t) PROVE Queued'
  <2>0. Others(t) /\ f' = f /\ runs' = runs /\ pc'[t] # "run" /\ g[t] \in Futures
    BY <1>4, OneMoves
       DEF ExecuteFuture, Back, LocalSame, HistorySame, Standing, WorkerStands, ClientStands,
           Threads, Futures
  <2>1. CASE mark[g[t]]
    BY <1>0, <1>4, <2>0, <2>1 DEF ExecuteFuture
  <2>2. CASE ~mark[g[t]]
    <3> DEFINE x == g[t]
               n == Len(tasks)
    <3>1. tasks' = Append(tasks, x) /\ mark' = [mark EXCEPT ![x] = TRUE]
      BY <1>4, <2>2 DEF ExecuteFuture
    <3>2. /\ n \in Nat /\ DOMAIN tasks = 1 .. n /\ DOMAIN tasks' = 1 .. n + 1
          /\ tasks'[n + 1] = x /\ \A i \in 1 .. n : tasks'[i] = tasks[i] /\ tasks[i] \in Futures
      BY <2>0, <3>1
    <3> HIDE DEF x, n
    <3>3. x \in Futures /\ x \notin Waiting
      BY <2>0, <2>2 DEF Waiting, x
    <3>4. \A i \in 1 .. n : tasks[i] # x
      BY <3>2, <3>3 DEF Queued
    <3>5. Waiting' = Waiting \cup {x}
      BY <2>0, <2>2, <3>1, <3>3 DEF Waiting, RunsCounted, x
    <3>6. \A i, j \in DOMAIN tasks' : tasks'[i] = tasks'[j] => i = j
      <4>1. ASSUME NEW i \in 1 .. n + 1, NEW j \in 1 .. n + 1, tasks'[i] = tasks'[j]
            PROVE  i = j
        <5>1. CASE i = n + 1 \/ j = n + 1
          <6>1. \A k \in 1 .. n + 1 : k # n + 1 => k \in 1 .. n
            BY <3>2
          <6>2. i # n + 1 => tasks'[i] # x
            BY <3>2, <3>4, <4>1, <6>1
          <6>3. j # n + 1 => tasks'[j] # x
            BY <3>2, <3>4, <4>1, <6>1
          <6> QED BY <3>2, <4>1, <5>1, <6>2, <6>3
        <5>2. CASE i # n + 1 /\ j # n + 1
          <6>1. i \in 1 .. n /\ j \in 1 .. n
            BY <3>2, <4>1, <5>2
          <6> QED BY <3>2, <4>1, <6>1 DEF Queued
        <5> QED BY <5>1, <5>2
      <4> QED BY <3>2, <4>1
    <3>7. \A i \in DOMAIN tasks' : tasks'[i] \in Waiting'
      <4>1. \A i \in 1 .. n + 1 : i = n + 1 \/ i \in 1 .. n
        BY <3>2
      <4> QED BY <3>2, <3>5, <4>1 DEF Queued
    <3>8. ASSUME NEW v \in Workers, pc'[v] = "run"
          PROVE  /\ pc[v] = "run" /\ f[v] \in Waiting' /\ f[v] # x
                 /\ \A i \in DOMAIN tasks' : tasks'[i] # f[v]
      <4>1. pc[v] = "run"
        BY <1>w, <2>0, <3>8 DEF Others
      <4>2. f[v] \in Waiting /\ f[v] # x
        BY <3>3, <4>1 DEF Queued
      <4>3. \A i \in 1 .. n + 1 : i = n + 1 \/ i \in 1 .. n
        BY <3>2
      <4> QED BY <3>2, <3>5, <4>1, <4>2, <4>3 DEF Queued
    <3> QED BY <2>0, <3>6, <3>7, <3>8 DEF Queued
  <2> QED BY <2>1, <2>2
<1>5. ASSUME NEW t \in Threads, Post(t) PROVE Queued'
  <2>1. UNCHANGED <<tasks, mark, runs>> /\ pc'[t] # "run"
    BY <1>5 DEF Post, Back, HistorySame, fields
  <2> QED BY <1>0, <1>5, <2>1, OneMoves
<1> QED BY <1>1, <1>2, <1>3, <1>4, <1>5 DEF Next

(* Its function runs once.                                                 *)
LEMMA RunsCountedStep ==
  TypeOK /\ Standing /\ Queued /\ RunsCounted /\ [Next]_vars => RunsCounted'
<1> SUFFICES ASSUME TypeOK, Standing, Queued, RunsCounted, [Next]_vars PROVE RunsCounted'
  OBVIOUS
<1> USE DEF TypeOK, Move
<1>1. ASSUME NEW w \in Workers, Run(w) \/ RunFails(w) PROVE RunsCounted'
  <2>1. mark' = mark /\ runs' = [runs EXCEPT ![f[w]] = @ + 1] /\ pc[w] = "run"
    BY <1>1 DEF Run, RunFails, fields
  <2>2. f[w] \in Futures /\ mark[f[w]] /\ runs[f[w]] = 0
    BY <2>1 DEF Queued, Waiting
  <2>3. runs'[f[w]] = 1 /\ \A x \in Futures : x # f[w] => runs'[x] = runs[x]
    BY <2>1, <2>2 DEF Counted
  <2>4. \A x \in Futures : ~mark[x] => runs'[x] = 0
    BY <2>2, <2>3 DEF RunsCounted
  <2>5. \A x \in Futures : runs'[x] <= 1
    <3>1. ASSUME NEW x \in Futures PROVE runs'[x] <= 1
      <4>1. runs'[x] = 1 \/ (runs'[x] = runs[x] /\ runs[x] <= 1)
        BY <2>3 DEF RunsCounted, RunOnce
      <4> QED BY <4>1
    <3> QED BY <3>1
  <2> QED BY <2>1, <2>4, <2>5 DEF RunsCounted, RunOnce
<1>2. ASSUME NEW t \in Threads, ExecuteFuture(t) PROVE RunsCounted'
  <2>1. runs' = runs /\ \A x \in Futures : mark[x] => mark'[x]
    BY <1>2 DEF ExecuteFuture, HistorySame
  <2> QED BY <2>1 DEF RunsCounted, RunOnce
<1>3. CASE UNCHANGED <<mark, runs>>
  BY <1>3 DEF RunsCounted, RunOnce
<1>4. \/ UNCHANGED <<mark, runs>>
      \/ \E w \in Workers : Run(w) \/ RunFails(w)
      \/ \E t \in Threads : ExecuteFuture(t)
  BY DEF Next, vars, ghosts, fields, Work, WaitForTask, WaitRunsOut, Take, Complete, Notify,
         NotifyDone, SignalReaders, Call, Continue, ThenAwait, ThenRelease, GetLock, GetCheck,
         CompleteLock, CompleteCheck, Post, HistorySame
<1> QED BY <1>1, <1>2, <1>3, <1>4

-----------------------------------------------------------------------------
(* Between the test of has_result and the walk nothing is lost: a listener *)
(* is submitted or still before the worker that owns the mutex.            *)
LEMMA WalkedStep ==
  TypeOK /\ Standing /\ Locked /\ Walked /\ [Next]_vars => Walked'
<1> SUFFICES ASSUME TypeOK, Standing, Locked, Walked, [Next]_vars PROVE Walked'
  OBVIOUS
<1> USE DEF TypeOK, Move
<1>w. Workers \subseteq Threads
  BY DEF Threads
<1>l. \A x \in Futures : \A i \in DOMAIN listeners[x] : listeners[x][i] \in Followers
  OBVIOUS
<1>0. ASSUME UNCHANGED <<listeners, has_result>>,
             \A y \in Followers : mark[y] => mark'[y],
             \A w \in Workers, x \in Futures, l \in Followers :
               Walking(w, x, l) => mark'[l] \/ Walking(w, x, l)'
      PROVE  Walked'
  BY <1>0, <1>l DEF Walked
<1>1. ASSUME NEW t \in Threads, Others(t), UNCHANGED <<listeners, has_result>>,
             \A y \in Followers : mark[y] => mark'[y],
             \A x \in Futures, u \in Threads \ {t} : listeners_mutex[x] = u => listeners_mutex'[x] = u,
             t \in Workers => \A x \in Futures, l \in Followers :
               Walking(t, x, l) => mark'[l] \/ Walking(t, x, l)'
      PROVE  Walked'
  BY <1>0, <1>1, <1>w DEF Walking, Others
<1>n. ASSUME NEW t \in Threads, pc[t] \notin {"notify", "submit", "post"},
             NEW x \in Futures, NEW l
      PROVE  t \in Workers => ~Walking(t, x, l)
  BY <1>n, PoolAssumption DEF Walking, Locked, Owns
<1>2. CASE UNCHANGED vars
  BY <1>2 DEF vars, fields, Walked, Walking
<1>3. ASSUME NEW w \in Workers, Work(w) PROVE Walked'
  <2>0. w \in Threads /\ Others(w)
    BY <1>3, OneMoves DEF Threads
  <2>1. CASE ~(Complete(w) \/ Notify(w) \/ NotifyDone(w))
    <3>1. /\ UNCHANGED <<listeners, has_result, mark, listeners_mutex>>
          /\ pc[w] \notin {"notify", "submit", "post"}
      BY <1>3, <2>1 DEF Work, WaitForTask, WaitRunsOut, Take, Run, RunFails, SignalReaders,
                        LocksSame, fields
    <3> QED BY <1>1, <1>n, <2>0, <3>1
  <2>2. CASE Complete(w)
    <3>0. PICK x \in Futures : x = f[w]
      BY <2>2 DEF Complete, Standing, WorkerStands
    <3>1. pc[w] = "complete" /\ listeners_mutex[x] = NoThread
      BY <2>2, <3>0 DEF Complete
    <3>2. /\ UNCHANGED <<mark, listeners>> /\ pending'[w] = listeners[x]
          /\ listeners_mutex' = [listeners_mutex EXCEPT ![x] = w]
          /\ has_result' = [has_result EXCEPT ![x] = TRUE]
      BY <2>0, <2>2, <3>0 DEF Complete
    <3>3. \A i \in DOMAIN listeners[x] : Walking(w, x, listeners[x][i])'
      <4>1. listeners_mutex'[x] = w /\ pending'[w] = listeners'[x] /\ listeners' = listeners
        BY <3>2
      <4> QED BY <4>1 DEF Walking, InRange
    <3>4. ASSUME NEW y \in Futures, y # x, has_result[y], NEW i \in DOMAIN listeners[y],
                 ~mark[listeners[y][i]]
          PROVE  \E u \in Workers : Walking(u, y, listeners[y][i])'
      <4>1. PICK u \in Workers : Walking(u, y, listeners[y][i])
        BY <3>4 DEF Walked
      <4>2. u # w
        BY <1>n, <2>0, <3>1, <3>4, <4>1
      <4>3. Walking(u, y, listeners[y][i])'
        <5>1. pending'[u] = pending[u] /\ pc'[u] = pc[u] /\ g'[u] = g[u]
          BY <1>w, <2>0, <4>2 DEF Others
        <5>2. listeners_mutex'[y] = listeners_mutex[y] /\ listeners' = listeners
          BY <3>2, <3>4
        <5> QED BY <4>1, <5>1, <5>2 DEF Walking
      <4> QED BY <4>3
    <3> QED BY <3>1, <3>2, <3>3, <3>4 DEF Walked
  <2>3. CASE Notify(w)
    <3>1. /\ UNCHANGED <<listeners, has_result, mark, listeners_mutex>> /\ pc[w] = "notify"
          /\ pc'[w] = "submit" /\ g'[w] = Head(pending[w]) /\ pending'[w] = Tail(pending[w])
          /\ pending[w] # << >> /\ pending[w] \in Seq(Followers)
      BY <2>0, <2>3 DEF Notify, LocksSame
    <3>2. ASSUME NEW l, InRange(l, pending[w]) PROVE l = g'[w] \/ InRange(l, pending'[w])
      <4>1. PICK i \in DOMAIN pending[w] : pending[w][i] = l
        BY <3>2 DEF InRange
      <4>2. CASE i = 1
        BY <3>1, <4>1, <4>2
      <4>3. CASE i # 1
        <5>1. i - 1 \in DOMAIN Tail(pending[w]) /\ Tail(pending[w])[i - 1] = l
          BY <3>1, <4>1, <4>3
        <5> QED BY <3>1, <5>1 DEF InRange
      <4> QED BY <4>2, <4>3
    <3>3. \A x \in Futures, l \in Followers : Walking(w, x, l) => Walking(w, x, l)'
      BY <3>1, <3>2 DEF Walking
    <3> QED BY <1>1, <2>0, <3>1, <3>3
  <2>4. CASE NotifyDone(w)
    <3> DEFINE x == f[w]
    <3>1. /\ x \in Futures /\ pc[w] = "notify" /\ pending[w] = << >> /\ listeners_mutex[x] = w
          /\ UNCHANGED <<listeners, has_result, mark>>
          /\ listeners_mutex' = [listeners_mutex EXCEPT ![x] = NoThread]
      BY <2>0, <2>4 DEF NotifyDone, Standing, WorkerStands, Locked, Owns, fields
    <3> HIDE DEF x
    <3>2. \A y \in Futures, u \in Threads \ {w} : listeners_mutex[y] = u => listeners_mutex'[y] = u
      BY <3>1
    <3>3. \A y \in Futures, l \in Followers : ~Walking(w, y, l)
      BY <3>1 DEF Walking, InRange
    <3> QED BY <1>1, <2>0, <3>1, <3>2, <3>3
  <2> QED BY <2>1, <2>2, <2>3, <2>4
<1>4. ASSUME NEW c \in Clients, Call(c) \/ Continue(c) PROVE Walked'
  <2>0. c \in Threads /\ c \notin Workers /\ Others(c)
    BY <1>4, OneMoves, PoolAssumption DEF Threads
  <2>1. CASE ~(ThenAwait(c) \/ ThenRelease(c))
    <3>1. UNCHANGED <<listeners, has_result, mark, listeners_mutex>>
      BY <1>4, <2>1 DEF Call, Continue, GetLock, GetCheck, CompleteLock, CompleteCheck,
                        LocksSame, fields
    <3> QED BY <1>1, <2>0, <3>1
  <2>2. CASE ThenAwait(c)
    <3> DEFINE x == f[c]
    <3>1. x \in Futures /\ listeners_mutex[x] = NoThread /\ g[c] \in Followers
      BY <2>2 DEF ThenAwait, Standing, ClientStands, Futures
    <3>2. /\ UNCHANGED <<has_result, mark>>
          /\ listeners_mutex' = [listeners_mutex EXCEPT ![x] = c]
          /\ \A y \in Futures : has_result[y] => listeners'[y] = listeners[y]
      BY <2>2, <3>1 DEF ThenAwait
    <3> HIDE DEF x
    <3>3. \A y \in Futures, u \in Workers, l \in Followers : Walking(u, y, l) => Walking(u, y, l)'
      <4>1. ASSUME NEW y \in Futures, NEW u \in Workers, listeners_mutex[y] = u
            PROVE  listeners_mutex'[y] = u
        BY <1>w, <3>1, <3>2, <4>1, PoolAssumption
      <4>2. \A u \in Workers : pending'[u] = pending[u] /\ pc'[u] = pc[u] /\ g'[u] = g[u]
        BY <1>w, <2>0 DEF Others
      <4> QED BY <4>1, <4>2 DEF Walking
    <3> QED BY <3>2, <3>3 DEF Walked
  <2>3. CASE ThenRelease(c)
    <3> DEFINE x == f[c]
    <3>1. /\ x \in Futures /\ listeners_mutex[x] = c
          /\ UNCHANGED <<listeners, has_result, mark>>
          /\ listeners_mutex' = [listeners_mutex EXCEPT ![x] = NoThread]
      BY <2>0, <2>3 DEF ThenRelease, Return, Standing, ClientStands, Locked, Owns, fields, Futures
    <3> HIDE DEF x
    <3>2. \A y \in Futures, u \in Threads \ {c} : listeners_mutex[y] = u => listeners_mutex'[y] = u
      BY <3>1
    <3> QED BY <1>1, <2>0, <3>1, <3>2
  <2> QED BY <2>1, <2>2, <2>3
<1>5. ASSUME NEW t \in Threads, ExecuteFuture(t) PROVE Walked'
  <2>1. /\ UNCHANGED <<listeners, has_result, listeners_mutex, g, pending>>
        /\ \A y \in Futures : (mark[y] \/ y = g[t]) => mark'[y]
        /\ Others(t)
    BY <1>5, OneMoves DEF ExecuteFuture, LocksSame, LocalSame
  <2>2. \A x \in Futures, l \in Followers : Walking(t, x, l) => mark'[l] \/ Walking(t, x, l)'
    BY <2>1 DEF Walking, Futures
  <2>3. \A y \in Followers : mark[y] => mark'[y]
    BY <2>1 DEF Futures
  <2> QED BY <1>1, <2>1, <2>2, <2>3
<1>6. ASSUME NEW t \in Threads, Post(t) PROVE Walked'
  <2>1. UNCHANGED <<listeners, has_result, mark, listeners_mutex, g, pending>> /\ pc[t] = "post"
        /\ Others(t)
    BY <1>6, OneMoves DEF Post, LocksSame, LocalSame, fields
  <2>2. \A x \in Futures, l \in Followers : Walking(t, x, l) => Walking(t, x, l)'
    BY <2>1 DEF Walking
  <2> QED BY <1>1, <2>1, <2>2
<1> QED BY <1>2, <1>3, <1>4, <1>5, <1>6 DEF Next

-----------------------------------------------------------------------------
(* How many threads stand at a place after one of them has moved.          *)
LEMMA AtMove ==
  ASSUME TypeOK, NEW t \in Threads, NEW from, NEW to, Move(t, from, to), NEW place
  PROVE  /\ Cardinality(At(place)) \in Nat /\ Cardinality(At(place)') \in Nat
         /\ from # place /\ to # place => Cardinality(At(place)') = Cardinality(At(place))
         /\ from = place /\ to # place => Cardinality(At(place)') = Cardinality(At(place)) - 1
         /\ from # place /\ to = place => Cardinality(At(place)') = Cardinality(At(place)) + 1
<1>1. IsFiniteSet(Threads)
  BY PoolAssumption, FS_Union DEF Threads
<1>2. IsFiniteSet(At(place))
  BY <1>1, FS_Subset DEF At
<1>3. pc[t] = from /\ \A u \in Threads : pc'[u] = IF u = t THEN to ELSE pc[u]
  BY DEF TypeOK, Move
<1>4. At(place)' = IF to = place THEN At(place) \cup {t} ELSE At(place) \ {t}
  BY <1>3 DEF At
<1>5. t \in At(place) <=> from = place
  BY <1>3 DEF At
<1> QED BY <1>2, <1>4, <1>5, FS_AddElement, FS_RemoveElement, FS_CardinalityType

(* Every step keeps the balance of tokens and tasks.                       *)
LEMMA TokensStep ==
  TypeOK /\ Standing /\ TokensExact /\ [Next]_vars => TokensExact'
<1> SUFFICES ASSUME TypeOK, Standing, TokensExact, [Next]_vars PROVE TokensExact'
  OBVIOUS
<1> DEFINE takers  == Cardinality(At("take"))
           posters == Cardinality(At("post"))
           queued  == Len(tasks)
<1>t. TokensExact <=> queued + timeouts = task_lock + takers + posters + lost
  BY DEF TokensExact
<1>p. TokensExact' <=> queued' + timeouts' = task_lock' + takers' + posters' + lost'
  BY DEF TokensExact
<1>n. /\ queued \in Nat /\ timeouts \in Nat /\ task_lock \in Nat /\ lost \in Nat
  BY DEF TypeOK, Counted
<1>m. ASSUME NEW t \in Threads, NEW from, NEW to, Move(t, from, to)
      PROVE  /\ takers \in Nat /\ takers' \in Nat /\ posters \in Nat /\ posters' \in Nat
             /\ from # "take" /\ to # "take" => takers' = takers
             /\ from = "take" /\ to # "take" => takers' = takers - 1
             /\ from # "take" /\ to = "take" => takers' = takers + 1
             /\ from # "post" /\ to # "post" => posters' = posters
             /\ from = "post" /\ to # "post" => posters' = posters - 1
             /\ from # "post" /\ to = "post" => posters' = posters + 1
  BY <1>m, AtMove
<1>u. TaskUnlock => \/ task_lock' = task_lock + 1 /\ lost' = lost
                    \/ task_lock' = task_lock /\ lost' = lost + 1
  BY DEF TaskUnlock
<1>q. UNCHANGED tasks => queued' = queued
  OBVIOUS
<1> HIDE DEF takers, posters
<1>b. ASSUME NEW t \in Threads, NEW from, NEW to, Move(t, from, to), to # "take", to # "post",
             from # "take", from # "post", UNCHANGED <<tasks, task_lock, lost, timeouts>>
      PROVE  TokensExact'
  BY <1>b, <1>m, <1>t, <1>p, <1>q
<1>1. CASE UNCHANGED vars
  BY <1>1 DEF vars, ghosts, TokensExact, At
<1>2. ASSUME NEW w \in Workers, Work(w) PROVE TokensExact'
  <2>0. w \in Threads
    BY DEF Threads
  <2>1. CASE WaitForTask(w)
    <3>1. /\ Move(w, "wait", "take") /\ task_lock' = task_lock - 1
          /\ UNCHANGED <<tasks, lost, timeouts>>
      BY <2>1 DEF WaitForTask, HistorySame
    <3>2. takers' = takers + 1 /\ posters' = posters /\ takers \in Nat /\ posters \in Nat
      BY <1>m, <2>0, <3>1
    <3> HIDE DEF queued
    <3> QED BY <1>t, <1>p, <1>n, <1>q, <3>1, <3>2
  <2>2. CASE WaitRunsOut(w)
    <3>1. /\ Move(w, "wait", "take") /\ timeouts' = timeouts + 1
          /\ UNCHANGED <<tasks, lost, task_lock>>
      BY <2>2 DEF WaitRunsOut, PoolSame
    <3>2. takers' = takers + 1 /\ posters' = posters /\ takers \in Nat /\ posters \in Nat
      BY <1>m, <2>0, <3>1
    <3> HIDE DEF queued
    <3> QED BY <1>t, <1>p, <1>n, <1>q, <3>1, <3>2
  <2>3. CASE Take(w) /\ tasks # << >>
    <3>1. /\ Move(w, "take", "run") /\ UNCHANGED <<timeouts, task_lock, lost>>
          /\ tasks' = Tail(tasks)
      BY <2>3 DEF Take, HistorySame
    <3>2. takers' = takers - 1 /\ posters' = posters /\ takers \in Nat /\ posters \in Nat
      BY <1>m, <2>0, <3>1
    <3>3. queued' = queued - 1
      BY <2>3, <3>1 DEF TypeOK
    <3> HIDE DEF queued
    <3> QED BY <1>t, <1>p, <1>n, <3>1, <3>2, <3>3
  <2>4. CASE Take(w) /\ tasks = << >>
    <3>1. Move(w, "take", "wait") /\ UNCHANGED <<timeouts, tasks>> /\ TaskUnlock
      BY <2>4 DEF Take, HistorySame
    <3>2. takers' = takers - 1 /\ posters' = posters /\ takers \in Nat /\ posters \in Nat
      BY <1>m, <2>0, <3>1
    <3>3. \/ task_lock' = task_lock + 1 /\ lost' = lost
          \/ task_lock' = task_lock /\ lost' = lost + 1
      BY <1>u, <3>1
    <3>4. queued' = queued /\ timeouts' = timeouts
      BY <1>q, <3>1
    <3> HIDE DEF queued
    <3>5. CASE task_lock' = task_lock + 1 /\ lost' = lost
      BY <1>t, <1>p, <1>n, <3>2, <3>4, <3>5
    <3>6. CASE task_lock' = task_lock /\ lost' = lost + 1
      BY <1>t, <1>p, <1>n, <3>2, <3>4, <3>6
    <3> QED BY <3>3, <3>5, <3>6
  <2>5. CASE \/ Run(w) \/ RunFails(w) \/ Complete(w) \/ Notify(w) \/ NotifyDone(w)
             \/ SignalReaders(w)
    <3>1. UNCHANGED <<tasks, task_lock, lost, timeouts>>
      BY <2>5 DEF Run, RunFails, Complete, Notify, NotifyDone, SignalReaders, PoolSame, HistorySame
    <3>2. \E from, to : /\ Move(w, from, to) /\ to # "take" /\ to # "post"
                        /\ from # "take" /\ from # "post"
      BY <2>5 DEF Run, RunFails, Complete, Notify, NotifyDone, SignalReaders
    <3> QED BY <1>b, <2>0, <3>1, <3>2
  <2> QED BY <1>2, <2>1, <2>2, <2>3, <2>4, <2>5 DEF Work
<1>3. ASSUME NEW c \in Clients, Call(c) \/ Continue(c) PROVE TokensExact'
  <2>1. UNCHANGED <<tasks, task_lock, lost, timeouts>>
    BY <1>3 DEF Call, Continue, ThenAwait, ThenRelease, GetLock, GetCheck, CompleteLock,
                CompleteCheck, PoolSame, HistorySame
  <2>2. \E from, to : /\ Move(c, from, to) /\ to # "take" /\ to # "post"
                      /\ from # "take" /\ from # "post"
    <3>1. CASE Call(c)
      BY <3>1 DEF Call
    <3>2. CASE ThenAwait(c) \/ ThenRelease(c)
      BY <3>2 DEF ThenAwait, ThenRelease, Return
    <3>3. CASE GetLock(c) \/ GetCheck(c) \/ CompleteLock(c) \/ CompleteCheck(c)
      BY <3>3 DEF GetLock, GetCheck, CompleteLock, CompleteCheck, Return
    <3> QED BY <1>3, <3>1, <3>2, <3>3 DEF Continue
  <2> QED BY <1>b, <2>1, <2>2 DEF Threads
<1>4. ASSUME NEW t \in Threads PROVE Back(t) # "post" /\ Back(t) # "take"
  BY DEF Back
<1>5. ASSUME NEW t \in Threads, ExecuteFuture(t) PROVE TokensExact'
  <2>1. CASE mark[g[t]]
    <3>1. Move(t, "submit", Back(t)) /\ UNCHANGED <<tasks, task_lock, lost, timeouts>>
      BY <1>5, <2>1 DEF ExecuteFuture, HistorySame
    <3> QED BY <1>b, <1>4, <3>1
  <2>2. CASE ~mark[g[t]]
    <3>1. /\ Move(t, "submit", "post") /\ UNCHANGED <<task_lock, lost, timeouts>>
          /\ tasks' = Append(tasks, g[t])
      BY <1>5, <2>2 DEF ExecuteFuture, HistorySame
    <3>2. posters' = posters + 1 /\ takers' = takers /\ takers \in Nat /\ posters \in Nat
      BY <1>m, <3>1
    <3>3. queued' = queued + 1
      BY <3>1 DEF TypeOK
    <3> HIDE DEF queued
    <3> QED BY <1>t, <1>p, <1>n, <3>1, <3>2, <3>3
  <2> QED BY <2>1, <2>2
<1>6. ASSUME NEW t \in Threads, Post(t) PROVE TokensExact'
  <2>1. Move(t, "post", Back(t)) /\ UNCHANGED <<timeouts, tasks>> /\ TaskUnlock
    BY <1>6 DEF Post, HistorySame
  <2>2. posters' = posters - 1 /\ takers' = takers /\ takers \in Nat /\ posters \in Nat
    BY <1>m, <1>4, <2>1
  <2>3. \/ task_lock' = task_lock + 1 /\ lost' = lost
        \/ task_lock' = task_lock /\ lost' = lost + 1
    BY <1>u, <2>1
  <2>4. queued' = queued /\ timeouts' = timeouts
    BY <1>q, <2>1
  <2> HIDE DEF queued
  <2>5. CASE task_lock' = task_lock + 1 /\ lost' = lost
    BY <1>t, <1>p, <1>n, <2>2, <2>4, <2>5
  <2>6. CASE task_lock' = task_lock /\ lost' = lost + 1
    BY <1>t, <1>p, <1>n, <2>2, <2>4, <2>6
  <2> QED BY <2>3, <2>5, <2>6
<1> QED BY <1>1, <1>2, <1>3, <1>5, <1>6 DEF Next

-----------------------------------------------------------------------------
(* The first state.                                                        *)
LEMMA InitIInv == Init => IInv
<1> SUFFICES ASSUME Init PROVE IInv
  OBVIOUS
<1> USE PoolAssumption DEF Init, Threads, Futures
<1>1. TypeOK
  BY DEF TypeOK, Counted, Places, WorkerPlaces, ClientPlaces
<1>2. Standing
  BY DEF Standing, WorkerStands, ClientStands, WorkerPlaces, ClientPlaces
<1>3. Locked /\ Resulted /\ Supplied
  BY DEF Locked, Owns, Resulted, Supplied
<1>4. Queued /\ RunsCounted
  BY DEF Queued, RunsCounted, RunOnce
<1>5. Walked /\ GetReturnsResult
  BY DEF Walked, GetReturnsResult
<1>6. TokensExact
  <2>1. At("take") = {} /\ At("post") = {} /\ Len(tasks) = 0
    BY DEF At
  <2>2. timeouts = 0 /\ lost = 0 /\ task_lock = 0
    OBVIOUS
  <2>3. Cardinality(At("take")) = 0 /\ Cardinality(At("post")) = 0
    BY <2>1, FS_EmptySet
  <2> HIDE DEF Init
  <2> QED BY <2>1, <2>2, <2>3 DEF TokensExact
<1> QED BY <1>1, <1>2, <1>3, <1>4, <1>5, <1>6 DEF IInv

(* The pool's inductive invariant.                                         *)
THEOREM Invariance == Spec => []IInv
<1>1. IInv /\ [Next]_vars => IInv'
  BY TypeStep, StandingStep, LockedStep, ResultedStep, SuppliedStep, QueuedStep,
     RunsCountedStep, WalkedStep, TokensStep, GotStep DEF IInv
<1> QED BY InitIInv, <1>1, PTL DEF Spec

(* A future's function runs at most once, whoever submits it and however   *)
(* many at a time.                                                         *)
THEOREM EachRunsOnce == Spec => []RunOnce
<1>1. IInv => RunOnce
  BY DEF IInv, RunsCounted
<1> QED BY Invariance, <1>1, PTL

(* No token of the pool's semaphore is lost but those that find it at its  *)
(* maximum, and none is made up but by a wait that runs out.               *)
THEOREM TokensBalance == Spec => []TokensExact
<1>1. IInv => TokensExact
  BY DEF IInv
<1> QED BY Invariance, <1>1, PTL

(* Once a future is complete and its listeners' mutex free, every listener *)
(* has been submitted.                                                     *)
THEOREM ListenersSubmitted == Spec => []NoListenerMissed
<1>1. IInv => NoListenerMissed
  <2> SUFFICES ASSUME IInv, NEW x \in Futures, has_result[x], listeners_mutex[x] = NoThread,
                      NEW i \in DOMAIN listeners[x]
               PROVE  mark[listeners[x][i]]
    BY DEF NoListenerMissed
  <2>1. \A w \in Workers : ~Walking(w, x, listeners[x][i])
    BY PoolAssumption DEF Walking, Threads
  <2> QED BY <2>1 DEF IInv, Walked
<1> QED BY Invariance, <1>1, PTL

(* No follower is submitted before the future it follows has its result.   *)
THEOREM FollowersSupplied == Spec => []ArgsReady
<1>1. IInv => ArgsReady
  BY DEF IInv, Supplied, Ready, ArgsReady
<1> QED BY Invariance, <1>1, PTL

(* get() returns the result of the future it is called on, never the None  *)
(* before it.                                                              *)
THEOREM GetIsRight == Spec => []GetReturnsResult
<1>1. IInv => GetReturnsResult
  BY DEF IInv
<1> QED BY Invariance, <1>1, PTL
=============================================================================
