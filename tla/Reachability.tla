---------------------------- MODULE Reachability ----------------------------
(***************************************************************************)
(* What can be reached in a graph: the least set that holds the nodes one  *)
(* starts from and whatever a member has an edge to.                       *)
(***************************************************************************)

(* All is the set of nodes, E[m] the set of nodes that m has an edge to.   *)
Closure(All, S, E) ==
    LET edges  == {<<m, E[m]>> : m \in All}
        closed == {C \in SUBSET All :
                      /\ S \subseteq C
                      /\ \A e \in edges : e[1] \in C => e[2] \subseteq C}
    IN {n \in All : \A C \in closed : n \in C}
=============================================================================
