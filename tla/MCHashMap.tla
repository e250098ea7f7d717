----------------------------- MODULE MCHashMap -----------------------------
(* Hash functions for TLC, in which keys share slots and lie in each       *)
(* other's way.                                                            *)
EXTENDS HashMap

K == << "a", "b", "c", "d", "e" >>
MCKeys == {K[i] : i \in DOMAIN K}
Case(values, size, removable) ==
  [hash |-> [k \in MCKeys |-> values[CHOOSE i \in DOMAIN K : K[i] = k]],
   size |-> size, removable |-> removable]

(* Three of five slots taken are enough: no vacant slot on the way of a    *)
(* fourth key.                                                             *)
MCCrowded == {Case(<< 0, 1, 4, 5, 0 >>, 5, {})}

(* In the maps of five slots the fifth key makes the table grow to eleven. *)
MCCases ==
  {Case(<< 10, 8, 1, 10, 0 >>, 5, {}),
   Case(<< 8, 8, 8, 4, 1 >>, 5, {}),
   Case(<< 7, 0, 7, 8, 7 >>, 5, {}),
   Case(<< 1, 12, 0, 6, 1 >>, 11, {"a", "b"})}
    \cup MCCrowded
=============================================================================
