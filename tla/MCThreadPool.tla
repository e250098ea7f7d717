---------------------------- MODULE MCThreadPool ----------------------------
(***************************************************************************)
(* Model-checking instance of ThreadPool for its safety properties: the    *)
(* threads of a kind and the futures of a kind are interchangeable, so     *)
(* symmetry is sound (no temporal property is checked with it).            *)
(***************************************************************************)
EXTENDS ThreadPool, TLC

Symmetry ==
    Permutations(Workers) \cup Permutations(Clients)
        \cup Permutations(Roots) \cup Permutations(Followers)
=============================================================================
