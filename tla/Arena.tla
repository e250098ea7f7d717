-------------------------------- MODULE Arena --------------------------------
(***************************************************************************)
(* One arena of src/JL/arena/arena.c: equal slots cut from subarenas of    *)
(* ChunkSize slots, a list of freed slots linked through the descriptors   *)
(* in front of them, and a mutex around arena_alloc and arena_dealloc.     *)
(* The nodes, edges, field containers and tokens of every thread come from *)
(* four such arenas.                                                       *)
(***************************************************************************)
EXTENDS Integers, FiniteSets

CONSTANTS Threads, NoThread,
          Null,        \* the NULL pointer
          ChunkSize,   \* slots of a subarena
          MaxChunks    \* bound: subarenas the memory has room for

ASSUME ArenaAssumption ==
    /\ NoThread \notin Threads /\ IsFiniteSet(Threads)
    /\ ChunkSize \in Nat \ {0} /\ MaxChunks \in Nat \ {0}
    /\ Null \notin (1 .. MaxChunks) \X (0 .. ChunkSize - 1)

Slots == (1 .. MaxChunks) \X (0 .. ChunkSize - 1)

VARIABLES mutex,       \* owner of arena->mutex
          last,        \* number of the subarena arena->last
          next,        \* slots cut from it: arena->next
          last_freed,  \* arena->last_freed
          prev_freed,  \* the descriptors' links
          pc, spot,    \* per thread: place, and the slot it works on
          used,        \* the slots that callers have
          rank         \* history: place of a slot in the list, 0 when not freed

vars == <<mutex, last, next, last_freed, prev_freed, pc, spot, used, rank>>
memory == <<last, next, last_freed, prev_freed, rank>>

Allocating == {"alloc_await", "alloc_pop", "alloc_grow", "alloc_bump"}
Freeing == {"free_await", "free_link", "free_push"}
Locations == {"idle", "alloc_release", "free_release"} \cup Allocating \cup Freeing
Locked == Locations \ {"idle", "alloc_await", "free_await"}

(* arena_init: one subarena, nothing cut from it, nothing freed.           *)
Init ==
    /\ mutex = NoThread
    /\ last = 1 /\ next = 0
    /\ last_freed = Null
    /\ prev_freed = [s \in Slots |-> Null]
    /\ pc = [t \in Threads |-> "idle"]
    /\ spot = [t \in Threads |-> Null]
    /\ used = {}
    /\ rank = [s \in Slots |-> 0]

Move(t, from, to) == pc[t] = from /\ pc' = [pc EXCEPT ![t] = to]
Lock(t) == mutex = NoThread /\ mutex' = t
Unlock(t) == mutex = t /\ mutex' = NoThread

InHand(t) == IF pc[t] \in {"alloc_release"} \cup Freeing THEN {spot[t]} ELSE {}
Taken == used \cup UNION {InHand(t) : t \in Threads}
Wanting == {t \in Threads : pc[t] \in Allocating}

-----------------------------------------------------------------------------
(* A caller asks for a slot while memory lasts, or gives one back: each    *)
(* slot is given back once, by whichever thread has it.                    *)
CallAlloc(t) ==
    /\ Move(t, "idle", "alloc_await")
    /\ Cardinality(Taken) + Cardinality(Wanting) < ChunkSize * MaxChunks
    /\ UNCHANGED <<mutex, memory, spot, used>>

CallDealloc(t, s) ==
    /\ Move(t, "idle", "free_await")
    /\ spot' = [spot EXCEPT ![t] = s]
    /\ used' = used \ {s}
    /\ UNCHANGED <<mutex, memory>>

(* Mutant: the next subarena is opened when one slot is left.              *)
AllocAwaitEarly(t) ==
    /\ Move(t, "alloc_await", IF last_freed # Null THEN "alloc_pop"
                              ELSE IF next = ChunkSize - 1 THEN "alloc_grow"
                              ELSE "alloc_bump")
    /\ Lock(t)
    /\ UNCHANGED <<memory, spot, used>>

AllocAwait(t) ==
    /\ Move(t, "alloc_await", IF last_freed # Null THEN "alloc_pop"
                              ELSE IF next = ChunkSize THEN "alloc_grow"
                              ELSE "alloc_bump")
    /\ Lock(t)
    /\ UNCHANGED <<memory, spot, used>>

(* Mutant: the slot stays on the list.                                     *)
AllocPopKeeps(t) ==
    /\ Move(t, "alloc_pop", "alloc_release")
    /\ spot' = [spot EXCEPT ![t] = last_freed]
    /\ UNCHANGED <<mutex, memory, used>>

AllocPop(t) ==
    /\ Move(t, "alloc_pop", "alloc_release")
    /\ spot' = [spot EXCEPT ![t] = last_freed]
    /\ last_freed' = prev_freed[last_freed]
    /\ rank' = [rank EXCEPT ![last_freed] = 0]
    /\ UNCHANGED <<mutex, last, next, prev_freed, used>>

(* Mutant: no memory, and the call starts over.                            *)
AllocGrowRetries(t) ==
    /\ Move(t, "alloc_grow", "alloc_await")
    /\ Unlock(t)
    /\ UNCHANGED <<memory, spot, used>>

AllocGrow(t) ==
    /\ Move(t, "alloc_grow", "alloc_bump")
    /\ last < MaxChunks
    /\ last' = last + 1 /\ next' = 0
    /\ UNCHANGED <<mutex, last_freed, prev_freed, spot, used, rank>>

AllocBump(t) ==
    /\ Move(t, "alloc_bump", "alloc_release")
    /\ spot' = [spot EXCEPT ![t] = <<last, next>>]
    /\ next' = next + 1
    /\ UNCHANGED <<mutex, last, last_freed, prev_freed, used, rank>>

AllocRelease(t) ==
    /\ Move(t, "alloc_release", "idle")
    /\ Unlock(t)
    /\ used' = used \cup {spot[t]}
    /\ spot' = [spot EXCEPT ![t] = Null]
    /\ UNCHANGED memory

FreeAwait(t) ==
    /\ Move(t, "free_await", "free_link")
    /\ Lock(t)
    /\ UNCHANGED <<memory, spot, used>>

FreeLink(t) ==
    /\ Move(t, "free_link", "free_push")
    /\ prev_freed' = [prev_freed EXCEPT ![spot[t]] = last_freed]
    /\ UNCHANGED <<mutex, last, next, last_freed, spot, used, rank>>

Depth == IF last_freed = Null THEN 0 ELSE rank[last_freed]
FreePush(t) ==
    /\ Move(t, "free_push", "free_release")
    /\ last_freed' = spot[t]
    /\ rank' = [rank EXCEPT ![spot[t]] = Depth + 1]
    /\ UNCHANGED <<mutex, last, next, prev_freed, spot, used>>

FreeRelease(t) ==
    /\ Move(t, "free_release", "idle")
    /\ Unlock(t)
    /\ spot' = [spot EXCEPT ![t] = Null]
    /\ UNCHANGED <<memory, used>>

Continue(t) ==
    \/ AllocAwait(t) \/ AllocPop(t) \/ AllocGrow(t) \/ AllocBump(t)
    \/ AllocRelease(t)
    \/ FreeAwait(t) \/ FreeLink(t) \/ FreePush(t) \/ FreeRelease(t)

Next == \E t \in Threads : \/ Continue(t)
                           \/ CallAlloc(t)
                           \/ \E s \in used : CallDealloc(t, s)

Spec == Init /\ [][Next]_vars

(* A mutex that is released over and over serves each waiter; a thread     *)
(* inside a call goes on.                                                  *)
FairSpec == Spec /\ \A t \in Threads : SF_vars(Continue(t))

-----------------------------------------------------------------------------
Cut == {s \in Slots : s[1] < last \/ (s[1] = last /\ s[2] < next)}
Listed == {s \in Slots : rank[s] > 0}

TypeOK ==
    /\ mutex \in Threads \cup {NoThread}
    /\ last \in 1 .. MaxChunks /\ next \in 0 .. ChunkSize
    /\ last_freed \in Slots \cup {Null}
    /\ prev_freed \in [Slots -> Slots \cup {Null}]
    /\ pc \in [Threads -> Locations]
    /\ spot \in [Threads -> Slots \cup {Null}]
    /\ used \subseteq Slots
    /\ rank \in [Slots -> Nat]

(* The threads between await and release are those that own the mutex.     *)
OneInside == \A t \in Threads : pc[t] \in Locked <=> mutex = t

(* The links of the freed slots form one list that ends: each link leads   *)
(* one place down, the last one nowhere.                                   *)
ListSound ==
    /\ \A s \in Listed : /\ last_freed # Null
                         /\ rank[s] <= rank[last_freed]
                         /\ IF rank[s] = 1 THEN prev_freed[s] = Null
                            ELSE /\ prev_freed[s] \in Slots
                                 /\ rank[prev_freed[s]] = rank[s] - 1
    /\ \A r, s \in Listed : rank[r] = rank[s] => r = s
    /\ last_freed # Null => last_freed \in Listed

(* A slot is with one caller, with one thread, or on the list, never with  *)
(* two of them: arena_alloc hands out no slot that anybody still has.      *)
NoDoubleAllocation ==
    /\ \A t \in Threads : InHand(t) \cap (used \cup Listed) = {}
    /\ \A t, u \in Threads : t # u => InHand(t) \cap InHand(u) = {}
    /\ used \cap Listed = {}

(* Every slot that was ever cut is with somebody or can be handed out      *)
(* again: no slot is lost.                                                 *)
NothingLost == Cut = Taken \cup Listed

(* While a thread is between await and release the case that arena_alloc   *)
(* tested for still holds.                                                 *)
StillInside ==
    \A t \in Threads :
        /\ pc[t] = "alloc_pop" => last_freed # Null
        /\ pc[t] = "alloc_bump" => next < ChunkSize
        /\ pc[t] = "alloc_grow" => next = ChunkSize
        /\ pc[t] \in {"alloc_release"} \cup Freeing => spot[t] \in Slots
        /\ pc[t] = "free_push" => prev_freed[spot[t]] = last_freed

IInv == TypeOK /\ OneInside /\ ListSound /\ NoDoubleAllocation /\ NothingLost
        /\ StillInside

(* The arena hands out slots as an allocator does.                         *)
Hands == [t \in Threads |-> InHand(t)]
Alloc == INSTANCE Allocator WITH hand <- Hands
ImplementsAllocator == Alloc!Spec

(* Every call returns: the mutex is released on each way out, also on   *)
(* the early return of arena_alloc (lines 106-107).                        *)
CallsReturn == \A t \in Threads : pc[t] # "idle" ~> pc[t] = "idle"
=============================================================================
