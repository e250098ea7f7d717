----------------------------- MODULE ArenaProofs -----------------------------
(***************************************************************************)
(* The arena hands out no slot twice and loses none, for any number of     *)
(* threads, slots and subarenas.  One lemma per step; each shows the parts *)
(* of IInv that the step can disturb.                                      *)
(***************************************************************************)
EXTENDS Arena, TLAPS

USE DEF Allocating, Freeing

(* A slot is taken when a caller has it or a thread has it in hand.        *)
LEMMA TakenMember ==
    ASSUME NEW s
    PROVE  s \in Taken <=> s \in used \/ \E t \in Threads : s \in InHand(t)
BY DEF Taken

LEMMA TakenMemberNext ==
    ASSUME NEW s
    PROVE  s \in Taken' <=> s \in used' \/ \E t \in Threads : s \in InHand(t)'
BY DEF Taken

LEMMA InitIInv == Init => IInv
<1> SUFFICES ASSUME Init PROVE IInv
  OBVIOUS
<1>1. TypeOK /\ OneInside /\ ListSound /\ NoDoubleAllocation /\ StillInside
  BY ArenaAssumption DEF Init, TypeOK, OneInside, ListSound, Listed, Slots,
     NoDoubleAllocation, InHand, StillInside, Locations, Locked
<1>2. NothingLost
  BY ArenaAssumption DEF Init, NothingLost, Cut, Taken, InHand, Listed, Slots
<1> QED BY <1>1, <1>2 DEF IInv

LEMMA CallAllocIInv ==
    ASSUME IInv, NEW t \in Threads, CallAlloc(t)
    PROVE  IInv'
<1> USE DEF CallAlloc, Move, memory, IInv
<1>1. TypeOK' /\ OneInside' /\ ListSound' /\ StillInside'
  BY DEF TypeOK, OneInside, ListSound, Listed, StillInside, Locations, Locked
<1>2. \A u \in Threads : InHand(u)' = InHand(u)
  BY DEF InHand, TypeOK
<1>3. NoDoubleAllocation'
  BY <1>2 DEF NoDoubleAllocation, Listed
<1>4. NothingLost'
  BY <1>2 DEF NothingLost, Cut, Taken, Listed
<1> QED BY <1>1, <1>3, <1>4

LEMMA CallDeallocIInv ==
    ASSUME IInv, NEW t \in Threads, NEW s \in used, CallDealloc(t, s)
    PROVE  IInv'
<1> USE DEF CallDealloc, Move, memory, IInv
<1>1. TypeOK' /\ OneInside' /\ ListSound' /\ StillInside'
  BY DEF TypeOK, OneInside, ListSound, Listed, StillInside, Locations, Locked
<1>2. InHand(t) = {} /\ InHand(t)' = {s} /\ used' = used \ {s}
  BY DEF InHand, TypeOK
<1>3. \A u \in Threads \ {t} : InHand(u)' = InHand(u)
  BY DEF InHand, TypeOK
<1>4. NoDoubleAllocation'
  BY <1>2, <1>3 DEF NoDoubleAllocation, Listed
<1>5. Taken' = Taken
  BY <1>2, <1>3 DEF Taken
<1>6. NothingLost'
  BY <1>5 DEF NothingLost, Cut, Listed
<1> QED BY <1>1, <1>4, <1>6

LEMMA AllocAwaitIInv ==
    ASSUME IInv, NEW t \in Threads, AllocAwait(t)
    PROVE  IInv'
<1> USE DEF AllocAwait, Move, Lock, memory, IInv
<1>1. TypeOK' /\ OneInside' /\ ListSound' /\ StillInside'
  BY ArenaAssumption DEF TypeOK, OneInside, ListSound, Listed, StillInside, Locations, Locked
<1>2. \A u \in Threads : InHand(u)' = InHand(u)
  BY DEF InHand, TypeOK
<1>3. NoDoubleAllocation'
  BY <1>2 DEF NoDoubleAllocation, Listed
<1>4. NothingLost'
  BY <1>2 DEF NothingLost, Cut, Taken, Listed
<1> QED BY <1>1, <1>3, <1>4

LEMMA AllocPopIInv ==
    ASSUME IInv, NEW t \in Threads, AllocPop(t)
    PROVE  IInv'
<1> USE DEF AllocPop, Move, IInv
<1> DEFINE x == last_freed
<1>1. x \in Listed /\ x \in Slots /\ x # Null
  BY ArenaAssumption DEF StillInside, ListSound, Listed, Slots
<1>2. Listed' = Listed \ {x}
  BY <1>1 DEF Listed, TypeOK
<1>3. TypeOK' /\ OneInside' /\ StillInside'
  BY <1>1 DEF TypeOK, OneInside, StillInside, Locations, Locked
<1>4. ListSound'
  <2>1. \A s \in Listed' : s \in Listed /\ rank'[s] = rank[s] /\ rank[s] # rank[x]
    BY <1>1, <1>2 DEF Listed, ListSound, TypeOK
  <2>2. CASE rank[x] = 1
    <3>1. Listed' = {}
      BY <1>1, <2>1, <2>2 DEF ListSound, Listed, TypeOK
    <3>2. last_freed' = Null
      BY <1>1, <2>2 DEF ListSound
    <3> QED BY <3>1, <3>2 DEF ListSound
  <2>3. CASE rank[x] # 1
    <3>1. /\ prev_freed[x] \in Slots /\ prev_freed[x] # Null
          /\ rank[prev_freed[x]] = rank[x] - 1
          /\ prev_freed[x] \in Listed'
      BY <1>1, <2>3, ArenaAssumption DEF ListSound, Listed, TypeOK, Slots
    <3>2. \A s \in Listed' : /\ rank'[s] <= rank'[last_freed']
                             /\ s # x
      <4> SUFFICES ASSUME NEW s \in Listed'
                   PROVE  rank'[s] <= rank'[last_freed'] /\ s # x
        OBVIOUS
      <4>1. rank[s] <= rank[x] /\ rank[s] # rank[x] /\ rank[s] \in Nat /\ rank[x] \in Nat
        BY <1>1, <2>1 DEF ListSound, Listed, TypeOK
      <4>2. last_freed' = prev_freed[x] /\ rank'[last_freed'] = rank[x] - 1
        BY <2>1, <3>1
      <4> QED BY <1>2, <2>1, <4>1, <4>2
    <3>3. \A s \in Listed' :
            IF rank'[s] = 1 THEN prev_freed'[s] = Null
            ELSE prev_freed'[s] \in Slots /\ rank'[prev_freed'[s]] = rank'[s] - 1
      BY <1>1, <1>2, <2>1, <3>2 DEF ListSound, Listed, TypeOK
    <3> QED BY <1>2, <2>1, <3>1, <3>2, <3>3 DEF ListSound
  <2> QED BY <2>2, <2>3
<1>5. InHand(t) = {} /\ InHand(t)' = {x}
  BY <1>1 DEF InHand, TypeOK
<1>6. \A u \in Threads \ {t} : InHand(u)' = InHand(u)
  BY DEF InHand, TypeOK
<1>7. NoDoubleAllocation'
  BY <1>1, <1>2, <1>5, <1>6 DEF NoDoubleAllocation
<1>8. Taken' = Taken \cup {x}
  BY <1>5, <1>6 DEF Taken
<1>9. NothingLost'
  BY <1>1, <1>2, <1>8 DEF NothingLost, Cut
<1> QED BY <1>3, <1>4, <1>7, <1>9

LEMMA AllocGrowIInv ==
    ASSUME IInv, NEW t \in Threads, AllocGrow(t)
    PROVE  IInv'
<1> USE DEF AllocGrow, Move, IInv
<1>1. TypeOK' /\ OneInside' /\ ListSound' /\ StillInside'
  BY ArenaAssumption DEF TypeOK, OneInside, ListSound, Listed, StillInside, Locations, Locked
<1>2. \A u \in Threads : InHand(u)' = InHand(u)
  BY DEF InHand, TypeOK
<1>3. NoDoubleAllocation'
  BY <1>2 DEF NoDoubleAllocation, Listed
<1>4. Cut' = Cut
  <2>1. next = ChunkSize /\ last' = last + 1 /\ next' = 0
    BY DEF StillInside
  <2>2. \A s \in Slots : s[1] \in Int /\ s[2] \in Int /\ 0 <= s[2] /\ s[2] < ChunkSize
    BY ArenaAssumption DEF Slots
  <2> QED BY <2>1, <2>2, ArenaAssumption DEF Cut, TypeOK
<1>5. NothingLost'
  BY <1>2, <1>4 DEF NothingLost, Taken, Listed
<1> QED BY <1>1, <1>3, <1>5

LEMMA AllocBumpIInv ==
    ASSUME IInv, NEW t \in Threads, AllocBump(t)
    PROVE  IInv'
<1> USE DEF AllocBump, Move, IInv
<1> DEFINE x == <<last, next>>
<1>1. x \in Slots /\ x[1] = last /\ x[2] = next /\ x \notin Cut
  BY ArenaAssumption DEF StillInside, TypeOK, Slots, Cut
<1>2. TypeOK' /\ OneInside' /\ ListSound' /\ StillInside'
  BY <1>1, ArenaAssumption DEF TypeOK, OneInside, ListSound, Listed, StillInside, Locations, Locked
<1>3. InHand(t) = {} /\ InHand(t)' = {x}
  BY DEF InHand, TypeOK
<1>4. \A u \in Threads \ {t} : InHand(u)' = InHand(u)
  BY DEF InHand, TypeOK
<1>5. x \notin used /\ x \notin Listed /\ \A u \in Threads : x \notin InHand(u)
  BY <1>1, TakenMember DEF NothingLost
<1>6. NoDoubleAllocation'
  BY <1>3, <1>4, <1>5 DEF NoDoubleAllocation, Listed
<1>7. Taken' = Taken \cup {x}
  BY <1>3, <1>4 DEF Taken
<1>8. Cut' = Cut \cup {x}
  <2>1. \A s \in Slots : s[1] \in Int /\ s[2] \in Int /\ (s[1] = last /\ s[2] = next => s = x)
    BY DEF Slots
  <2> QED BY <1>1, <2>1 DEF Cut, TypeOK
<1>9. NothingLost'
  BY <1>7, <1>8 DEF NothingLost, Listed
<1> QED BY <1>2, <1>6, <1>9

LEMMA AllocReleaseIInv ==
    ASSUME IInv, NEW t \in Threads, AllocRelease(t)
    PROVE  IInv'
<1> USE DEF AllocRelease, Move, Unlock, memory, IInv
<1>1. TypeOK' /\ OneInside' /\ ListSound' /\ StillInside'
  BY ArenaAssumption DEF TypeOK, OneInside, ListSound, Listed, StillInside, Locations, Locked
<1>2. InHand(t) = {spot[t]} /\ InHand(t)' = {} /\ used' = used \cup {spot[t]}
  BY DEF InHand, TypeOK
<1>3. \A u \in Threads \ {t} : InHand(u)' = InHand(u)
  BY DEF InHand, TypeOK
<1>4. NoDoubleAllocation'
  BY <1>2, <1>3 DEF NoDoubleAllocation, Listed
<1>5. Taken' = Taken
  BY <1>2, <1>3 DEF Taken
<1>6. NothingLost'
  BY <1>5 DEF NothingLost, Cut, Listed
<1> QED BY <1>1, <1>4, <1>6

LEMMA FreeAwaitIInv ==
    ASSUME IInv, NEW t \in Threads, FreeAwait(t)
    PROVE  IInv'
<1> USE DEF FreeAwait, Move, Lock, memory, IInv
<1>1. TypeOK' /\ OneInside' /\ ListSound' /\ StillInside'
  BY ArenaAssumption DEF TypeOK, OneInside, ListSound, Listed, StillInside, Locations, Locked
<1>2. \A u \in Threads : InHand(u)' = InHand(u)
  BY DEF InHand, TypeOK
<1>3. NoDoubleAllocation'
  BY <1>2 DEF NoDoubleAllocation, Listed
<1>4. NothingLost'
  BY <1>2 DEF NothingLost, Cut, Taken, Listed
<1> QED BY <1>1, <1>3, <1>4

LEMMA FreeLinkIInv ==
    ASSUME IInv, NEW t \in Threads, FreeLink(t)
    PROVE  IInv'
<1> USE DEF FreeLink, Move, IInv
<1>1. spot[t] \in Slots /\ spot[t] \notin Listed
  BY DEF StillInside, NoDoubleAllocation, InHand
<1>2. TypeOK' /\ OneInside' /\ StillInside'
  BY <1>1, ArenaAssumption DEF TypeOK, OneInside, StillInside, Locations, Locked
<1>3. ListSound'
  BY <1>1 DEF ListSound, Listed, TypeOK
<1>4. \A u \in Threads : InHand(u)' = InHand(u)
  BY DEF InHand, TypeOK
<1>5. NoDoubleAllocation'
  BY <1>4 DEF NoDoubleAllocation, Listed
<1>6. NothingLost'
  BY <1>4 DEF NothingLost, Cut, Taken, Listed
<1> QED BY <1>2, <1>3, <1>5, <1>6

LEMMA FreePushIInv ==
    ASSUME IInv, NEW t \in Threads, FreePush(t)
    PROVE  IInv'
<1> USE DEF FreePush, Move, IInv
<1> DEFINE x == spot[t]
<1>1. /\ x \in Slots /\ x # Null /\ x \notin Listed
      /\ prev_freed[x] = last_freed
  BY ArenaAssumption DEF StillInside, NoDoubleAllocation, InHand, Slots
<1>2. Depth \in Nat /\ \A s \in Listed : rank[s] <= Depth
  BY DEF Depth, ListSound, TypeOK, Listed
<1>3. rank'[x] = Depth + 1 /\ \A s \in Slots \ {x} : rank'[s] = rank[s]
  BY <1>1, <1>2 DEF TypeOK
<1>4. Listed' = Listed \cup {x}
  BY <1>1, <1>2, <1>3 DEF Listed, TypeOK
<1>5. TypeOK' /\ OneInside' /\ StillInside'
  BY <1>1, <1>2, ArenaAssumption DEF TypeOK, OneInside, StillInside, Locations, Locked
<1>6. ListSound'
  <2>1. \A s \in Listed : s \in Slots /\ s # x
    BY <1>1 DEF Listed
  <2>2. \A s \in Listed' : rank'[s] <= rank'[last_freed']
    BY <1>1, <1>2, <1>3, <1>4, <2>1 DEF TypeOK
  <2>3. IF rank'[x] = 1 THEN prev_freed'[x] = Null
        ELSE prev_freed'[x] \in Slots /\ rank'[prev_freed'[x]] = rank'[x] - 1
    BY <1>1, <1>2, <1>3, <2>1 DEF Depth, ListSound, TypeOK, Listed
  <2>4. \A s \in Listed :
          IF rank'[s] = 1 THEN prev_freed'[s] = Null
          ELSE prev_freed'[s] \in Slots /\ rank'[prev_freed'[s]] = rank'[s] - 1
    BY <1>1, <1>3, <2>1 DEF ListSound, TypeOK, Listed
  <2>5. \A r, s \in Listed' : rank'[r] = rank'[s] => r = s
    BY <1>2, <1>3, <1>4, <2>1 DEF ListSound, TypeOK, Listed
  <2> QED BY <1>1, <1>4, <2>2, <2>3, <2>4, <2>5 DEF ListSound
<1>7. InHand(t) = {x} /\ InHand(t)' = {}
  BY DEF InHand, TypeOK
<1>8. \A u \in Threads \ {t} : InHand(u)' = InHand(u)
  BY DEF InHand, TypeOK
<1>9. NoDoubleAllocation'
  BY <1>4, <1>7, <1>8 DEF NoDoubleAllocation
<1>10. Taken = Taken' \cup {x}
  BY <1>7, <1>8 DEF Taken
<1>11. NothingLost'
  BY <1>4, <1>10 DEF NothingLost, Cut
<1> QED BY <1>5, <1>6, <1>9, <1>11

LEMMA FreeReleaseIInv ==
    ASSUME IInv, NEW t \in Threads, FreeRelease(t)
    PROVE  IInv'
<1> USE DEF FreeRelease, Move, Unlock, memory, IInv
<1>1. TypeOK' /\ OneInside' /\ ListSound' /\ StillInside'
  BY ArenaAssumption DEF TypeOK, OneInside, ListSound, Listed, StillInside, Locations, Locked
<1>2. \A u \in Threads : InHand(u)' = InHand(u)
  BY DEF InHand, TypeOK
<1>3. NoDoubleAllocation'
  BY <1>2 DEF NoDoubleAllocation, Listed
<1>4. NothingLost'
  BY <1>2 DEF NothingLost, Cut, Taken, Listed
<1> QED BY <1>1, <1>3, <1>4

LEMMA StutterIInv == IInv /\ UNCHANGED vars => IInv'
BY DEF IInv, vars, memory, TypeOK, OneInside, ListSound, Listed,
   NoDoubleAllocation, InHand, NothingLost, Cut, Taken, StillInside

(* The invariant of arena_alloc and arena_dealloc: whoever owns the mutex  *)
(* is inside, the freed slots form one finite list, and every slot that    *)
(* was cut is with exactly one owner.                                      *)
THEOREM Inductive == Spec => []IInv
<1>1. IInv /\ [Next]_vars => IInv'
  BY CallAllocIInv, CallDeallocIInv, AllocAwaitIInv, AllocPopIInv,
     AllocGrowIInv, AllocBumpIInv, AllocReleaseIInv, FreeAwaitIInv,
     FreeLinkIInv, FreePushIInv, FreeReleaseIInv, StutterIInv
  DEF Next, Continue
<1> QED BY InitIInv, <1>1, PTL DEF Spec

(* The variables keep their types.                                         *)
THEOREM TypeCorrect == Spec => []TypeOK
BY Inductive, PTL DEF IInv

(* No slot is with two owners, however the calls of the threads interleave.*)
THEOREM NeverTwice == Spec => []NoDoubleAllocation
BY Inductive, PTL DEF IInv

(* No slot is lost: what was cut from the subarenas is in use or listed.   *)
THEOREM NeverLost == Spec => []NothingLost
BY Inductive, PTL DEF IInv

(* The free list is a list: no link leads outside it or back into it.      *)
THEOREM FreeListSound == Spec => []ListSound
BY Inductive, PTL DEF IInv

(* A step of thread t that leaves the other threads' hands alone.          *)
LEMMA OneHand ==
    ASSUME NEW t \in Threads,
           \A u \in Threads \ {t} : InHand(u)' = InHand(u)
    PROVE  /\ Hands[t] = InHand(t)
           /\ Hands' = [Hands EXCEPT ![t] = InHand(t)']
BY DEF Hands

(* A slot that nobody has, and is not listed, is free for the allocator.   *)
LEMMA FreeSlot ==
    ASSUME NEW x, x \notin used, \A u \in Threads : x \notin InHand(u)
    PROVE  Alloc!Free(x)
BY DEF Alloc!Free, Hands

(* Each step takes one free slot, gives one back, or moves a slot between  *)
(* a thread and its caller.                                                *)
LEMMA StepRefines ==
    ASSUME IInv, NEW t \in Threads,
           \/ Continue(t) \/ CallAlloc(t)
           \/ \E s \in used : CallDealloc(t, s)
    PROVE  [Alloc!Next]_<<used, Hands>>
<1> USE DEF Move, IInv
<1>1. CASE AllocPop(t)
  <2> DEFINE x == last_freed
  <2>1. x \in Slots /\ x \in Listed
    BY <1>1, ArenaAssumption DEF AllocPop, StillInside, ListSound, Listed
  <2>2. Alloc!Free(x)
    BY <2>1, FreeSlot DEF NoDoubleAllocation
  <2>3. InHand(t) = {} /\ InHand(t)' = {x} /\ used' = used
    BY <1>1 DEF AllocPop, InHand, TypeOK
  <2>4. \A u \in Threads \ {t} : InHand(u)' = InHand(u)
    BY <1>1 DEF AllocPop, InHand, TypeOK
  <2>5. Alloc!Take(t, x)
    BY <2>2, <2>3, <2>4, OneHand DEF Alloc!Take
  <2> QED BY <2>1, <2>5 DEF Alloc!Next
<1>2. CASE AllocBump(t)
  <2> DEFINE x == <<last, next>>
  <2>1. x \in Slots /\ x \notin Cut
    BY <1>2, ArenaAssumption DEF AllocBump, StillInside, TypeOK, Slots, Cut
  <2>2. Alloc!Free(x)
    BY <2>1, FreeSlot, TakenMember DEF NothingLost
  <2>3. InHand(t) = {} /\ InHand(t)' = {x} /\ used' = used
    BY <1>2 DEF AllocBump, InHand, TypeOK
  <2>4. \A u \in Threads \ {t} : InHand(u)' = InHand(u)
    BY <1>2 DEF AllocBump, InHand, TypeOK
  <2>5. Alloc!Take(t, x)
    BY <2>2, <2>3, <2>4, OneHand DEF Alloc!Take
  <2> QED BY <2>1, <2>5 DEF Alloc!Next
<1>3. CASE FreePush(t)
  <2>1. InHand(t) = {spot[t]} /\ InHand(t)' = {} /\ used' = used
    BY <1>3 DEF FreePush, InHand, TypeOK
  <2>2. \A u \in Threads \ {t} : InHand(u)' = InHand(u)
    BY <1>3 DEF FreePush, InHand, TypeOK
  <2>3. Alloc!PutBack(t)
    BY <2>1, <2>2, OneHand DEF Alloc!PutBack
  <2> QED BY <2>3 DEF Alloc!Next
<1>4. CASE AllocRelease(t)
  <2>1. InHand(t) = {spot[t]} /\ InHand(t)' = {} /\ used' = used \cup {spot[t]}
    BY <1>4 DEF AllocRelease, InHand, TypeOK
  <2>2. \A u \in Threads \ {t} : InHand(u)' = InHand(u)
    BY <1>4 DEF AllocRelease, InHand, TypeOK
  <2>3. Alloc!Deliver(t)
    BY <2>1, <2>2, OneHand DEF Alloc!Deliver
  <2> QED BY <2>3 DEF Alloc!Next
<1>5. ASSUME NEW s \in used, CallDealloc(t, s) PROVE Alloc!Next
  <2>1. InHand(t) = {} /\ InHand(t)' = {s} /\ used' = used \ {s}
    BY <1>5 DEF CallDealloc, InHand, TypeOK
  <2>2. \A u \in Threads \ {t} : InHand(u)' = InHand(u)
    BY <1>5 DEF CallDealloc, InHand, TypeOK
  <2>3. s \in Slots
    BY DEF TypeOK
  <2>4. Alloc!Give(t, s)
    BY <2>1, <2>2, OneHand DEF Alloc!Give
  <2> QED BY <2>3, <2>4 DEF Alloc!Next
<1>6. CASE \/ CallAlloc(t) \/ AllocAwait(t) \/ AllocGrow(t)
           \/ FreeAwait(t) \/ FreeLink(t) \/ FreeRelease(t)
  <2>1. used' = used /\ \A u \in Threads : InHand(u)' = InHand(u)
    BY <1>6 DEF CallAlloc, AllocAwait, AllocGrow, FreeAwait, FreeLink,
       FreeRelease, InHand, TypeOK
  <2> QED BY <2>1 DEF Hands
<1> QED BY <1>1, <1>2, <1>3, <1>4, <1>5, <1>6 DEF Continue

(* All the threads together see one allocator: arena_alloc hands out   *)
(* only slots nobody has, arena_dealloc makes them available again.        *)
THEOREM Implements == Spec => ImplementsAllocator
<1>1. Init => Alloc!Init
  BY DEF Init, Alloc!Init, Hands, InHand
<1>2. IInv /\ [Next]_vars => [Alloc!Next]_<<used, Hands>>
  <2>1. UNCHANGED vars => UNCHANGED <<used, Hands>>
    BY DEF vars, Hands, InHand
  <2> QED BY <2>1, StepRefines DEF Next
<1> QED BY <1>1, <1>2, Inductive, PTL
        DEF Spec, ImplementsAllocator, Alloc!Spec, Alloc!avars
=============================================================================
