--------------------------- MODULE ReadersWriters ---------------------------
(***************************************************************************)
(* What a readers/writer lock promises its clients, whatever it is built   *)
(* from: any number of threads may read together, a writer is alone.  The  *)
(* RWLock of src/JL/threads/thread_internal.c is shown to implement it.    *)
(***************************************************************************)
CONSTANT Threads

VARIABLES readers,   \* the threads between begin_read and end_read
          writers    \* the threads between begin_write and end_write

rwvars == <<readers, writers>>

Init == readers = {} /\ writers = {}

StartRead(t) ==
    /\ t \notin readers
    /\ writers = {}
    /\ readers' = readers \cup {t}
    /\ UNCHANGED writers

StopRead(t) ==
    /\ t \in readers
    /\ readers' = readers \ {t}
    /\ UNCHANGED writers

StartWrite(t) ==
    /\ readers = {} /\ writers = {}
    /\ writers' = {t}
    /\ UNCHANGED readers

StopWrite(t) ==
    /\ t \in writers
    /\ writers' = writers \ {t}
    /\ UNCHANGED readers

Next == \E t \in Threads :
    StartRead(t) \/ StopRead(t) \/ StartWrite(t) \/ StopWrite(t)

Spec == Init /\ [][Next]_rwvars
=============================================================================
