------------------------------- MODULE RWLock -------------------------------
(***************************************************************************)
(* The readers/writer lock of src/JL/threads/thread_internal.c, lines      *)
(* 54-92: a binary semaphore `global` that a writer or the group of        *)
(* readers holds, and a mutex `reader` that guards the number of readers.  *)
(* Each step is one operation of a thread on one of the two objects (the   *)
(* counter is touched only under `reader`, so its update is part of the    *)
(* step that acquires the mutex).  The clients are the scripts that call   *)
(* acquire_read/release_read and acquire_write/release_write in pairs.     *)
(***************************************************************************)
EXTENDS Integers, FiniteSets

CONSTANTS Threads,   \* the threads that use one RWLock object
          NoThread   \* owner of a free mutex

ASSUME ThreadsAssumption == IsFiniteSet(Threads) /\ NoThread \notin Threads

VARIABLES reader,                 \* owner of the mutex lock->reader
          blocking_readers_count, \* lock->blocking_readers_count
          global,                 \* count of the semaphore lock->global
          pc                      \* where each thread is in its calls

vars == <<reader, blocking_readers_count, global, pc>>

(* Where a thread may be.  Names starting with "br" are lines of           *)
(* begin_read, "er" of end_read, "bw" of begin_write, "ew" of end_write.   *)
Locations == {"idle",
              "br_await", "br_lock", "br_release", "reading",
              "er_await", "er_unlock", "er_release",
              "bw_lock", "writing", "ew_unlock"}

(* create_rwlock: the semaphore is free, no reader is counted.             *)
Init ==
    /\ reader = NoThread
    /\ blocking_readers_count = 0
    /\ global = 1
    /\ pc = [t \in Threads |-> "idle"]

Move(t, from, to) ==
    /\ pc[t] = from
    /\ pc' = [pc EXCEPT ![t] = to]

(* ReleaseSemaphore fails, and changes nothing, at the maximum count 1.    *)
SemaphoreUnlock == global' = IF global < 1 THEN global + 1 ELSE global

SemaphoreLock == global > 0 /\ global' = global - 1

MutexRelease(t) ==
    /\ reader' = IF reader = t THEN NoThread ELSE reader
    /\ UNCHANGED <<blocking_readers_count, global>>

-----------------------------------------------------------------------------
(* A thread enters one of the four functions.                              *)
Call(t) ==
    /\ \/ Move(t, "idle", "br_await")
       \/ Move(t, "idle", "bw_lock")
       \/ Move(t, "reading", "er_await")
       \/ Move(t, "writing", "ew_unlock")
    /\ UNCHANGED <<reader, blocking_readers_count, global>>

(* Mutant: no reader waits for the semaphore.                              *)
BeginReadAwaitNoLock(t) ==
    /\ reader = NoThread
    /\ reader' = t
    /\ blocking_readers_count' = blocking_readers_count + 1
    /\ Move(t, "br_await", "br_release")
    /\ UNCHANGED global
(* mutex_await(reader), ++count and the test that it became 1.             *)
BeginReadAwait(t) ==
    /\ reader = NoThread
    /\ reader' = t
    /\ blocking_readers_count' = blocking_readers_count + 1
    /\ Move(t, "br_await",
            IF blocking_readers_count + 1 = 1 THEN "br_lock" ELSE "br_release")
    /\ UNCHANGED global

(* Mutant: a timed wait that backs out of the count and starts over.       *)
BeginReadLockRetry(t) ==
    \/ /\ SemaphoreLock
       /\ Move(t, "br_lock", "br_release")
       /\ UNCHANGED <<reader, blocking_readers_count>>
    \/ /\ global = 0
       /\ Move(t, "br_lock", "br_await")
       /\ reader' = NoThread
       /\ blocking_readers_count' = blocking_readers_count - 1
       /\ UNCHANGED global

(* The first reader waits for the semaphore with the mutex in hand.        *)
BeginReadLock(t) ==
    /\ SemaphoreLock
    /\ Move(t, "br_lock", "br_release")
    /\ UNCHANGED <<reader, blocking_readers_count>>

BeginReadRelease(t) == Move(t, "br_release", "reading") /\ MutexRelease(t)

(* Mutants: every reader unlocks; the reader before the last one unlocks.  *)
EndReadAwaitEachUnlocks(t) ==
    /\ reader = NoThread
    /\ reader' = t
    /\ blocking_readers_count' = blocking_readers_count - 1
    /\ Move(t, "er_await", "er_unlock")
    /\ UNCHANGED global
EndReadAwaitOffByOne(t) ==
    /\ reader = NoThread
    /\ reader' = t
    /\ blocking_readers_count' = blocking_readers_count - 1
    /\ Move(t, "er_await",
            IF blocking_readers_count - 1 <= 1 THEN "er_unlock" ELSE "er_release")
    /\ UNCHANGED global

(* mutex_await(reader), --count and the test that it became 0.             *)
EndReadAwait(t) ==
    /\ reader = NoThread
    /\ reader' = t
    /\ blocking_readers_count' = blocking_readers_count - 1
    /\ Move(t, "er_await",
            IF blocking_readers_count - 1 = 0 THEN "er_unlock" ELSE "er_release")
    /\ UNCHANGED global

EndReadUnlock(t) ==
    /\ SemaphoreUnlock
    /\ Move(t, "er_unlock", "er_release")
    /\ UNCHANGED <<reader, blocking_readers_count>>

EndReadRelease(t) == Move(t, "er_release", "idle") /\ MutexRelease(t)

(* Mutant: a timed wait whose timeout ends the call.                       *)
BeginWriteLockTimed(t) ==
    /\ \/ SemaphoreLock /\ Move(t, "bw_lock", "writing")
       \/ global = 0 /\ Move(t, "bw_lock", "idle") /\ UNCHANGED global
    /\ UNCHANGED <<reader, blocking_readers_count>>

BeginWriteLock(t) ==
    /\ SemaphoreLock
    /\ Move(t, "bw_lock", "writing")
    /\ UNCHANGED <<reader, blocking_readers_count>>

EndWriteUnlock(t) ==
    /\ SemaphoreUnlock
    /\ Move(t, "ew_unlock", "idle")
    /\ UNCHANGED <<reader, blocking_readers_count>>

Step(t) ==
    \/ BeginReadAwait(t) \/ BeginReadLock(t) \/ BeginReadRelease(t)
    \/ EndReadAwait(t)   \/ EndReadUnlock(t) \/ EndReadRelease(t)
    \/ BeginWriteLock(t) \/ EndWriteUnlock(t)

Next == \E t \in Threads : Call(t) \/ Step(t)

Spec == Init /\ [][Next]_vars

(* A thread inside a function is scheduled again, and a wait on a Windows  *)
(* object that is signalled over and over is served in the end (waiters    *)
(* are queued): strong fairness of the steps of the functions.  A thread   *)
(* that holds the lock gives it back; nothing obliges an idle thread to    *)
(* call.                                                                   *)
Fairness ==
    /\ \A t \in Threads : SF_vars(Step(t))
    /\ \A t \in Threads : WF_vars(pc[t] \in {"reading", "writing"} /\ Call(t))

FairSpec == Spec /\ Fairness

-----------------------------------------------------------------------------
Reading == {t \in Threads : pc[t] \in {"br_release", "reading", "er_await"}}
Writing == {t \in Threads : pc[t] \in {"writing", "ew_unlock"}}

TypeOK ==
    /\ reader \in Threads \cup {NoThread}
    /\ blocking_readers_count \in Int
    /\ global \in 0..1
    /\ pc \in [Threads -> Locations]

(* A writer is alone: begin_write and begin_read keep a second writer and  *)
(* every reader out until end_write, and a writer out while any reader     *)
(* that overlapped the first one is still inside.                          *)
Exclusion ==
    /\ \A t, u \in Writing : t = u
    /\ Reading # {} => Writing = {}

(* The counter is the number of threads that are between ++ and --, so it  *)
(* never goes below zero and reaches zero exactly when the last one of     *)
(* an overlapping group of readers leaves.                                 *)
Counted == {t \in Threads :
    pc[t] \in {"br_lock", "br_release", "reading", "er_await"}}
CountExact == blocking_readers_count = Cardinality(Counted)

(* The inductive invariant behind both: `reader` is owned by the thread    *)
(* inside a section it guards; the first reader is still alone while it    *)
(* waits and the last one while it unlocks; the free semaphore means that  *)
(* neither a writer nor the group of readers is inside.                    *)
Group == {t \in Threads :
    pc[t] \in {"br_release", "reading", "er_await", "er_unlock"}}
MutexOwned == \A t \in Threads :
    reader = t <=> pc[t] \in {"br_lock", "br_release", "er_unlock", "er_release"}
Boundary == \A t \in Threads :
    /\ pc[t] = "br_lock" => blocking_readers_count = 1
    /\ pc[t] = "er_unlock" => blocking_readers_count = 0
Held ==
    /\ global = 1 => Writing = {} /\ Group = {}
    /\ Group # {} => Writing = {}
    /\ \A t, u \in Writing : t = u
IInv == TypeOK /\ MutexOwned /\ CountExact /\ Boundary /\ Held

(* The semaphore is never signalled while it is free: no unlock of the     *)
(* lock is lost and none is surplus.                                       *)
NoLostUnlock ==
    [][\A t \in Threads : EndReadUnlock(t) \/ EndWriteUnlock(t) => global = 0]_vars

(* The lock implements the readers/writer promise.                         *)
RW == INSTANCE ReadersWriters WITH readers <- Reading, writers <- Writing
ImplementsReadersWriters == RW!Spec

(* Every thread that calls acquire_read reads in the end, also under a     *)
(* stream of writers.                                                      *)
ReadersServed == \A t \in Threads : pc[t] = "br_await" ~> pc[t] = "reading"

(* A writer waits behind readers that overlap without end (begin_read      *)
(* prefers readers), so it is promised the lock only if they stop coming.  *)
WritersServedWhenReadersStop ==
    <>[](\A t \in Threads : pc[t] \notin {"br_await", "br_lock"})
        => \A t \in Threads : pc[t] = "bw_lock" ~> pc[t] = "writing"
=============================================================================
