------------------------------ MODULE Allocator ------------------------------
(***************************************************************************)
(* What an arena promises (src/JL/arena/arena.h): a slot is given to a     *)
(* thread only while no caller has it and no other thread is being given   *)
(* it, and it goes back only from a caller that has it.                    *)
(***************************************************************************)
CONSTANTS Slots, Threads
VARIABLES used,   \* the slots that callers have
          hand    \* per thread: the slot it is being given, or gives back

avars == <<used, hand>>

Init == used = {} /\ hand = [t \in Threads |-> {}]

Free(s) == s \notin used /\ \A t \in Threads : s \notin hand[t]

Take(t, s) ==
    /\ hand[t] = {} /\ Free(s)
    /\ hand' = [hand EXCEPT ![t] = {s}]
    /\ UNCHANGED used
Deliver(t) ==
    /\ hand[t] # {}
    /\ used' = used \cup hand[t]
    /\ hand' = [hand EXCEPT ![t] = {}]
Give(t, s) ==
    /\ hand[t] = {} /\ s \in used
    /\ used' = used \ {s}
    /\ hand' = [hand EXCEPT ![t] = {s}]
PutBack(t) ==
    /\ hand[t] # {}
    /\ hand' = [hand EXCEPT ![t] = {}]
    /\ UNCHANGED used

Next == \E t \in Threads : \/ Deliver(t) \/ PutBack(t)
                           \/ \E s \in Slots : Take(t, s) \/ Give(t, s)
Spec == Init /\ [][Next]_avars
=============================================================================
