---------------------------- MODULE RWLockProofs ----------------------------
(***************************************************************************)
(* Proofs about RWLock for every finite set of threads: its inductive      *)
(* invariant, mutual exclusion, the exactness of the readers' count, that  *)
(* no unlock of the semaphore is lost, and that it implements              *)
(* ReadersWriters.                                                         *)
(***************************************************************************)
EXTENDS RWLock, FiniteSetTheorems, TLAPS

(* What a thread moving into or out of the counted locations does to their *)
(* number; the counter of the code follows it.                             *)
LEMMA CountedFinite ==
    /\ IsFiniteSet(Counted)
    /\ IsFiniteSet(Counted')
    /\ Cardinality(Counted) \in Nat
    /\ Cardinality(Counted') \in Nat
<1>1. Counted \subseteq Threads /\ Counted' \subseteq Threads
  BY DEF Counted
<1>2. IsFiniteSet(Counted) /\ IsFiniteSet(Counted')
  BY <1>1, ThreadsAssumption, FS_Subset
<1> QED BY <1>2, FS_CardinalityType

(* No thread is counted exactly when the cardinality is zero, and a single *)
(* counted thread is the only one.                                         *)
LEMMA CountedEmpty == Cardinality(Counted) = 0 <=> Counted = {}
BY CountedFinite, FS_EmptySet

LEMMA CountedSingle ==
    ASSUME NEW t \in Counted, Cardinality(Counted) = 1
    PROVE  Counted = {t}
<1>1. Cardinality(Counted \ {t}) = 0 /\ IsFiniteSet(Counted \ {t})
  BY CountedFinite, FS_RemoveElement
<1> QED BY <1>1, FS_EmptySet

LEMMA CountedJoin ==
    ASSUME NEW t \in Threads, t \notin Counted, Counted' = Counted \cup {t}
    PROVE  Cardinality(Counted') = Cardinality(Counted) + 1
BY CountedFinite, FS_AddElement

LEMMA CountedLeave ==
    ASSUME NEW t \in Threads, t \in Counted, Counted' = Counted \ {t}
    PROVE  Cardinality(Counted') = Cardinality(Counted) - 1
BY CountedFinite, FS_RemoveElement

-----------------------------------------------------------------------------
LEMMA InitIInv == Init => IInv
<1> SUFFICES ASSUME Init PROVE IInv
  OBVIOUS
<1>1. TypeOK
  BY DEF Init, TypeOK, Locations
<1>2. MutexOwned /\ Boundary /\ Held
  BY ThreadsAssumption DEF Init, MutexOwned, Boundary, Held, Group, Writing
<1>3. Counted = {}
  BY DEF Init, Counted
<1>4. CountExact
  BY <1>3, FS_EmptySet DEF CountExact, Init
<1> QED BY <1>1, <1>2, <1>4 DEF IInv

(* A step of a thread that leaves the counter alone, and neither joins nor *)
(* leaves the counted threads, keeps the count exact.                      *)
LEMMA CountKept ==
    ASSUME CountExact, Counted' = Counted,
           blocking_readers_count' = blocking_readers_count
    PROVE  CountExact'
BY DEF CountExact

LEMMA CallIInv ==
    ASSUME IInv, NEW t \in Threads, Call(t)
    PROVE  IInv'
<1> USE ThreadsAssumption DEF IInv, Call, Move
<1>1. TypeOK'
  BY DEF TypeOK, Locations
<1>2. Counted' = Counted
  BY DEF Counted, TypeOK
<1>3. CountExact'
  BY <1>2, CountKept
<1>4. MutexOwned'
  BY DEF MutexOwned, TypeOK
<1>5. Boundary'
  BY DEF Boundary, TypeOK
<1>6. Group' = Group /\ Writing' = Writing
  BY DEF Group, Writing, TypeOK
<1>7. Held'
  BY <1>6 DEF Held
<1> QED BY <1>1, <1>3, <1>4, <1>5, <1>7

LEMMA BeginReadAwaitIInv ==
    ASSUME IInv, NEW t \in Threads, BeginReadAwait(t)
    PROVE  IInv'
<1> USE ThreadsAssumption DEF IInv, BeginReadAwait, Move
<1>1. TypeOK'
  BY DEF TypeOK, Locations
<1>2. Counted' = Counted \cup {t} /\ t \notin Counted
  BY DEF Counted, TypeOK
<1>3. CountExact'
  BY <1>2, CountedJoin DEF CountExact
<1>4. MutexOwned'
  BY DEF MutexOwned, TypeOK
<1>5. Boundary'
  BY DEF Boundary, MutexOwned, TypeOK
<1>6. Held'
  <2>1. CASE blocking_readers_count + 1 = 1
    <3>1. Group' = Group /\ Writing' = Writing
      BY <2>1 DEF Group, Writing, TypeOK
    <3> QED BY <3>1 DEF Held
  <2>2. CASE blocking_readers_count + 1 # 1
    <3>1. Group' = Group \cup {t} /\ Writing' = Writing
      BY <2>2 DEF Group, Writing, TypeOK
    <3>2. PICK u \in Counted : TRUE
      BY <2>2, CountedEmpty DEF CountExact, TypeOK
    <3>3. u \in Group
      BY <3>2 DEF Counted, Group, MutexOwned, TypeOK
    <3> QED BY <3>1, <3>3 DEF Held, TypeOK
  <2> QED BY <2>1, <2>2
<1> QED BY <1>1, <1>3, <1>4, <1>5, <1>6

LEMMA BeginReadLockIInv ==
    ASSUME IInv, NEW t \in Threads, BeginReadLock(t)
    PROVE  IInv'
<1> USE ThreadsAssumption DEF IInv, BeginReadLock, SemaphoreLock, Move
<1>1. TypeOK'
  BY DEF TypeOK, Locations
<1>2. Counted' = Counted
  BY DEF Counted, TypeOK
<1>3. CountExact'
  BY <1>2, CountKept
<1>4. MutexOwned'
  BY DEF MutexOwned, TypeOK
<1>5. Boundary'
  BY DEF Boundary, MutexOwned, TypeOK
<1>6. Group' = Group \cup {t} /\ Writing' = Writing
  BY DEF Group, Writing, TypeOK
<1>7. Held'
  BY <1>6 DEF Held, TypeOK
<1> QED BY <1>1, <1>3, <1>4, <1>5, <1>7

LEMMA BeginReadReleaseIInv ==
    ASSUME IInv, NEW t \in Threads, BeginReadRelease(t)
    PROVE  IInv'
<1> USE ThreadsAssumption DEF IInv, BeginReadRelease, MutexRelease, Move
<1>1. TypeOK'
  BY DEF TypeOK, Locations
<1>2. Counted' = Counted /\ Group' = Group /\ Writing' = Writing
  BY DEF Counted, Group, Writing, TypeOK
<1>3. CountExact' /\ Held'
  BY <1>2, CountKept DEF Held
<1>4. MutexOwned'
  BY DEF MutexOwned, TypeOK
<1>5. Boundary'
  BY DEF Boundary, MutexOwned, TypeOK
<1> QED BY <1>1, <1>3, <1>4, <1>5

LEMMA EndReadAwaitIInv ==
    ASSUME IInv, NEW t \in Threads, EndReadAwait(t)
    PROVE  IInv'
<1> USE ThreadsAssumption DEF IInv, EndReadAwait, Move
<1>1. TypeOK'
  BY DEF TypeOK, Locations
<1>2. Counted' = Counted \ {t} /\ t \in Counted /\ t \in Group
  BY DEF Counted, Group, TypeOK
<1>3. CountExact'
  BY <1>2, CountedLeave DEF CountExact
<1>4. MutexOwned'
  BY DEF MutexOwned, TypeOK
<1>5. Boundary'
  BY DEF Boundary, MutexOwned, TypeOK
<1>6. Group' \subseteq Group /\ Writing' = Writing
  BY DEF Group, Writing, TypeOK
<1>7. Held'
  BY <1>2, <1>6 DEF Held, TypeOK
<1> QED BY <1>1, <1>3, <1>4, <1>5, <1>7

(* The last reader is alone in the group when it signals the semaphore.    *)
LEMMA LastReaderAlone ==
    ASSUME IInv, NEW t \in Threads, pc[t] = "er_unlock"
    PROVE  Group = {t}
<1>1. blocking_readers_count = 0
  BY DEF IInv, Boundary
<1>2. Counted = {}
  BY <1>1, CountedEmpty DEF IInv, CountExact
<1>3. \A u \in Group : pc[u] = "er_unlock" /\ reader = u
  BY <1>2 DEF Group, Counted, IInv, MutexOwned
<1> QED BY <1>3 DEF Group, IInv, MutexOwned

LEMMA EndReadUnlockIInv ==
    ASSUME IInv, NEW t \in Threads, EndReadUnlock(t)
    PROVE  IInv'
<1> USE ThreadsAssumption DEF EndReadUnlock, SemaphoreUnlock, Move
<1>1. TypeOK'
  BY DEF IInv, TypeOK, Locations
<1>2. Counted' = Counted
  BY DEF Counted, IInv, TypeOK
<1>3. CountExact'
  BY <1>2, CountKept DEF IInv
<1>4. MutexOwned'
  BY DEF IInv, MutexOwned, TypeOK
<1>5. Boundary'
  BY DEF IInv, Boundary, MutexOwned, TypeOK
<1>6. Group = {t}
  BY LastReaderAlone
<1>7. Group' = {} /\ Writing' = Writing
  BY <1>6 DEF Group, Writing, IInv, TypeOK
<1>8. Held'
  BY <1>6, <1>7 DEF IInv, Held, TypeOK
<1> QED BY <1>1, <1>3, <1>4, <1>5, <1>8 DEF IInv

LEMMA EndReadReleaseIInv ==
    ASSUME IInv, NEW t \in Threads, EndReadRelease(t)
    PROVE  IInv'
<1> USE ThreadsAssumption DEF IInv, EndReadRelease, MutexRelease, Move
<1>1. TypeOK'
  BY DEF TypeOK, Locations
<1>2. Counted' = Counted /\ Group' = Group /\ Writing' = Writing
  BY DEF Counted, Group, Writing, TypeOK
<1>3. CountExact' /\ Held'
  BY <1>2, CountKept DEF Held
<1>4. MutexOwned'
  BY DEF MutexOwned, TypeOK
<1>5. Boundary'
  BY DEF Boundary, MutexOwned, TypeOK
<1> QED BY <1>1, <1>3, <1>4, <1>5

LEMMA BeginWriteLockIInv ==
    ASSUME IInv, NEW t \in Threads, BeginWriteLock(t)
    PROVE  IInv'
<1> USE ThreadsAssumption DEF IInv, BeginWriteLock, SemaphoreLock, Move
<1>1. TypeOK'
  BY DEF TypeOK, Locations
<1>2. Counted' = Counted /\ Group' = Group
  BY DEF Counted, Group, TypeOK
<1>3. CountExact'
  BY <1>2, CountKept
<1>4. MutexOwned' /\ Boundary'
  BY DEF MutexOwned, Boundary, TypeOK
<1>5. Writing = {} /\ Group = {}
  BY DEF Held, TypeOK
<1>6. Writing' = {t}
  BY <1>5 DEF Writing, TypeOK
<1>7. Held'
  BY <1>2, <1>5, <1>6 DEF Held, TypeOK
<1> QED BY <1>1, <1>3, <1>4, <1>7

LEMMA EndWriteUnlockIInv ==
    ASSUME IInv, NEW t \in Threads, EndWriteUnlock(t)
    PROVE  IInv'
<1> USE ThreadsAssumption DEF IInv, EndWriteUnlock, SemaphoreUnlock, Move
<1>1. TypeOK'
  BY DEF TypeOK, Locations
<1>2. Counted' = Counted /\ Group' = Group
  BY DEF Counted, Group, TypeOK
<1>3. CountExact'
  BY <1>2, CountKept
<1>4. MutexOwned' /\ Boundary'
  BY DEF MutexOwned, Boundary, TypeOK
<1>5. t \in Writing
  BY DEF Writing
<1>6. Writing' = Writing \ {t}
  BY DEF Writing, TypeOK
<1>7. Held'
  BY <1>2, <1>5, <1>6 DEF Held, TypeOK
<1> QED BY <1>1, <1>3, <1>4, <1>7

LEMMA StutterIInv == IInv /\ UNCHANGED vars => IInv'
<1> SUFFICES ASSUME IInv, UNCHANGED vars PROVE IInv'
  OBVIOUS
<1>1. Counted' = Counted /\ Group' = Group /\ Writing' = Writing
  BY DEF vars, Counted, Group, Writing
<1> QED BY <1>1 DEF vars, IInv, TypeOK, MutexOwned, CountExact, Boundary, Held

LEMMA NextIInv == IInv /\ [Next]_vars => IInv'
<1> SUFFICES ASSUME IInv, NEW t \in Threads, Call(t) \/ Step(t)
             PROVE  IInv'
  BY StutterIInv DEF Next
<1> QED
  BY CallIInv, BeginReadAwaitIInv, BeginReadLockIInv, BeginReadReleaseIInv,
     EndReadAwaitIInv, EndReadUnlockIInv, EndReadReleaseIInv,
     BeginWriteLockIInv, EndWriteUnlockIInv DEF Step

-----------------------------------------------------------------------------
(* The four parts of the inductive invariant hold in every reachable state *)
(* of the lock, for any finite set of threads.                             *)
THEOREM Inductive == Spec => []IInv
BY InitIInv, NextIInv, PTL DEF Spec

(* Type correctness of the lock's state: in particular the semaphore's     *)
(* count stays in 0..1.                                                    *)
THEOREM TypeCorrect == Spec => []TypeOK
<1>1. IInv => TypeOK
  BY DEF IInv
<1> QED BY <1>1, Inductive, PTL

(* begin_write excludes every other thread and begin_read every writer.    *)
THEOREM MutualExclusion == Spec => []Exclusion
<1>1. IInv => Exclusion
  <2> SUFFICES ASSUME IInv PROVE Exclusion
    OBVIOUS
  <2>1. Reading \subseteq Group
    BY DEF Reading, Group
  <2> QED BY <2>1 DEF IInv, Held, Exclusion
<1> QED BY <1>1, Inductive, PTL

(* blocking_readers_count counts the readers exactly.                      *)
THEOREM ReadersCounted == Spec => []CountExact
<1>1. IInv => CountExact
  BY DEF IInv
<1> QED BY <1>1, Inductive, PTL

(* end_read and end_write signal the semaphore only while it is held, so   *)
(* ReleaseSemaphore never fails at its maximum.                            *)
THEOREM UnlocksNotLost == Spec => NoLostUnlock
<1>1. ASSUME IInv, NEW t \in Threads, EndReadUnlock(t) \/ EndWriteUnlock(t)
      PROVE  global = 0
  <2>1. CASE EndReadUnlock(t)
    BY <1>1, <2>1 DEF EndReadUnlock, Move, Group, IInv, Held, TypeOK
  <2>2. CASE EndWriteUnlock(t)
    BY <1>1, <2>2 DEF EndWriteUnlock, Move, Writing, IInv, Held, TypeOK
  <2> QED BY <1>1, <2>1, <2>2
<1>2. IInv /\ [Next]_vars => [\A t \in Threads :
          EndReadUnlock(t) \/ EndWriteUnlock(t) => global = 0]_vars
  BY <1>1
<1> QED BY <1>2, Inductive, PTL DEF Spec, NoLostUnlock

-----------------------------------------------------------------------------
(* Every step of the lock is a step of the promise or leaves both sets     *)
(* alone.  The count and the mutex matter here: a reader that does not     *)
(* wait for the semaphore joins a group that already holds it.             *)
LEMMA StepRefines ==
    ASSUME IInv, IInv', NEW t \in Threads, Call(t) \/ Step(t)
    PROVE  RW!Next \/ (Reading' = Reading /\ Writing' = Writing)
<1> USE DEF RW!Next, RW!StartRead, RW!StopRead, RW!StartWrite, RW!StopWrite
<1>1. CASE Call(t)
  BY <1>1 DEF Call, Move, Reading, Writing, IInv, TypeOK
<1>2. CASE BeginReadAwait(t)
  <2>1. CASE blocking_readers_count + 1 = 1
    BY <1>2, <2>1 DEF BeginReadAwait, Move, Reading, Writing, IInv, TypeOK
  <2>2. CASE blocking_readers_count + 1 # 1
    <3>1. Reading' = Reading \cup {t} /\ t \notin Reading /\ Writing' = Writing
      BY <1>2, <2>2 DEF BeginReadAwait, Move, Reading, Writing, IInv, TypeOK
    <3>2. t \in Group'
      BY <1>2, <2>2 DEF BeginReadAwait, Move, Group, IInv, TypeOK
    <3>3. Writing = {}
      BY <3>1, <3>2 DEF IInv, Held
    <3> QED BY <3>1, <3>3
  <2> QED BY <2>1, <2>2
<1>3. CASE BeginReadLock(t)
  <2>1. Reading' = Reading \cup {t} /\ t \notin Reading /\ Writing' = Writing
    BY <1>3 DEF BeginReadLock, Move, Reading, Writing, IInv, TypeOK
  <2>2. Writing = {}
    BY <1>3 DEF BeginReadLock, SemaphoreLock, IInv, Held, TypeOK
  <2> QED BY <2>1, <2>2
<1>4. CASE EndReadAwait(t)
  <2>1. Reading' = Reading \ {t} /\ t \in Reading /\ Writing' = Writing
    BY <1>4 DEF EndReadAwait, Move, Reading, Writing, IInv, TypeOK
  <2> QED BY <2>1
<1>5. CASE BeginWriteLock(t)
  <2>1. Writing = {} /\ Group = {}
    BY <1>5 DEF BeginWriteLock, SemaphoreLock, IInv, Held, TypeOK
  <2>2. Reading = {}
    BY <2>1 DEF Reading, Group
  <2>3. Writing' = {t} /\ Reading' = Reading
    BY <1>5, <2>1 DEF BeginWriteLock, Move, Reading, Writing, IInv, TypeOK
  <2> QED BY <2>1, <2>2, <2>3
<1>6. CASE EndWriteUnlock(t)
  <2>1. Writing' = Writing \ {t} /\ t \in Writing /\ Reading' = Reading
    BY <1>6 DEF EndWriteUnlock, Move, Reading, Writing, IInv, TypeOK
  <2> QED BY <2>1
<1>7. CASE BeginReadRelease(t) \/ EndReadUnlock(t) \/ EndReadRelease(t)
  BY <1>7 DEF BeginReadRelease, EndReadUnlock, EndReadRelease, Move,
              Reading, Writing, IInv, TypeOK
<1> QED BY <1>1, <1>2, <1>3, <1>4, <1>5, <1>6, <1>7 DEF Step

(* The lock of thread_internal.c keeps the readers/writer promise of       *)
(* ReadersWriters, for any finite set of threads.                          *)
THEOREM Implements == Spec => ImplementsReadersWriters
<1>1. Init => RW!Init
  BY DEF Init, RW!Init, Reading, Writing
<1>2. IInv /\ IInv' /\ [Next]_vars => [RW!Next]_(RW!rwvars)
  <2> SUFFICES ASSUME IInv, IInv', [Next]_vars PROVE [RW!Next]_(RW!rwvars)
    OBVIOUS
  <2>1. CASE UNCHANGED vars
    BY <2>1 DEF vars, RW!rwvars, Reading, Writing
  <2>2. CASE Next
    BY <2>2, StepRefines DEF Next, RW!rwvars
  <2> QED BY <2>1, <2>2
<1> QED BY <1>1, <1>2, Inductive, PTL DEF Spec, ImplementsReadersWriters, RW!Spec
=============================================================================
