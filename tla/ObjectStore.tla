----------------------------- MODULE ObjectStore -----------------------------
(***************************************************************************)
(* What src/JL/memory/memory_graph.h promises its users, without edges and *)
(* counts: objects hold references to objects, a program changes one       *)
(* object at a time and stores only references it can reach or holds, and  *)
(* collecting removes exactly the objects no root reaches (line 85:        *)
(* "Removes all unreachable nodes in the graph").                          *)
(***************************************************************************)
EXTENDS Reachability

CONSTANTS Nodes, Roots

VARIABLES heap,  \* the objects that exist
          refs,  \* object -> the objects its fields and elements name
          held   \* the objects only the running C code names

avars == <<heap, refs, held>>

Reachable(S) == Closure(Nodes, S, refs)

Init == heap = Roots /\ refs = [n \in Nodes |-> {}] /\ held = {}

Create(n) ==
    /\ n \notin heap
    /\ heap' = heap \cup {n}
    /\ refs' = [refs EXCEPT ![n] = {}]
    /\ held' = {n}

(* One object changes; what it then names, and what is held, was in reach. *)
Write(n) ==
    /\ UNCHANGED heap
    /\ \A m \in Nodes \ {n} : refs'[m] = refs[m]
    /\ LET mine == Reachable(Roots \cup held)
       IN n \in mine /\ refs'[n] \subseteq mine /\ held' \subseteq mine

Collect ==
    /\ held = {}
    /\ heap' = Reachable(Roots)
    /\ refs' = [n \in Nodes |-> IF n \in heap' THEN refs[n] ELSE {}]
    /\ UNCHANGED held

Next == \/ \E n \in Nodes : Create(n)
        \/ \E n \in Nodes : Write(n)
        \/ Collect

Spec == Init /\ [][Next]_avars
=============================================================================
