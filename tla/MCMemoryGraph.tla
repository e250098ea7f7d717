---------------------------- MODULE MCMemoryGraph ----------------------------
(***************************************************************************)
(* MemoryGraph for TLC, in two parts of one run: "graph", every call on a  *)
(* root and two more slots with arrays of one element, and "list", the     *)
(* calls on one longer array or tuple.  The slots other than the root and  *)
(* Extra are interchangeable.                                              *)
(***************************************************************************)
EXTENDS MemoryGraph, TLC

CONSTANT Extra   \* the slot that only the part "list" uses
VARIABLE part

Root == CHOOSE r \in Roots : TRUE
MCSymmetry == Permutations(Nodes \ (Roots \cup {Extra}))

MCSparse == part = "graph" /\ Init /\ [][Next /\ UNCHANGED part]_<<vars, part>>

(* Bounds of this part: two slots, no tuple, no field "y", one element.    *)
GraphNext ==
    /\ part = "graph"
    /\ Next
    /\ Extra \notin nodes'
    /\ \A n \in nodes' :
          kind'[n] # "TUPLE" /\ fields'[n]["y"] = Absent /\ size'[n] <= 1

(* First the program makes a list in field "x" of the root and an object   *)
(* in field "y", which names another.                                      *)
Fill(p, f, k) ==
    /\ fields[p][f] = Absent
    /\ IF held = None THEN \E n \in Nodes : NewNode(n, k) ELSE SetField(p, f, held)
MakeList ==
    IF fields[Root]["x"] = Absent THEN \E k \in {"ARRAY", "TUPLE"} : Fill(Root, "x", k)
    ELSE IF fields[Root]["y"] = Absent THEN Fill(Root, "y", "OBJ")
    ELSE Fill(fields[Root]["y"], "x", "OBJ")

List == fields[Root]["x"]
First == fields[Root]["y"]
Second == fields[First]["x"]

ListNext ==
    /\ part = "list"
    /\ \/ MakeList
       \/ /\ nodes = Nodes /\ Second # Absent
          /\ \/ ArrayStep(List)
             \/ \E e \in {First, Second, None} : InsertStep(List, e)
             \/ Drop
             \/ FreeSpace

MCSpec == /\ part \in {"graph", "list"} /\ Init
          /\ [][(GraphNext \/ ListNext) /\ UNCHANGED part]_<<vars, part>>
=============================================================================
