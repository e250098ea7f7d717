-------------------------- MODULE MemoryGraphProofs --------------------------
(***************************************************************************)
(* Proofs about MemoryGraph for any sets of nodes and fields, any length   *)
(* of arrays and any number of collections: its invariants, and that it    *)
(* implements ObjectStore.  They hold of a program that is Dense, one that *)
(* does not write beyond the slot after the last element of an array; the  *)
(* run MemoryGraphSparse shows what happens to one that does.              *)
(*                                                                         *)
(* The argument.  The count of an edge is kept exact for every pair of     *)
(* slots, free ones too (Exact): every call of the program changes one     *)
(* node, and its edges by the difference it makes to what the node names   *)
(* (Changes).  So the collector's walk along edges that count something is *)
(* the walk along references, and what it leaves names nothing that is     *)
(* gone (Living).  The child's side of an edge may count more, because a   *)
(* new node can find what an earlier node of its slot left in a survivor,  *)
(* but never less, and never so much that it wraps (Covered).              *)
(***************************************************************************)
EXTENDS MemoryGraph, FiniteSetTheorems, TLAPS

(* What the program must keep to: array_set and shift stay within the      *)
(* elements of the array, or write the slot right after the last.          *)
Dense == BeyondEnd = 0

-----------------------------------------------------------------------------
(* The closure is the least set that holds S and what E leads to.          *)
LEMMA InClosure ==
  ASSUME NEW All, NEW S, NEW E, NEW n
  PROVE  n \in Closure(All, S, E) <=>
           /\ n \in All
           /\ \A C \in SUBSET All : S \subseteq C /\ (\A m \in C : E[m] \subseteq C) => n \in C
<1> DEFINE edges  == {<<m, E[m]>> : m \in All}
           Shut(C) == \A e \in edges : e[1] \in C => e[2] \subseteq C
<1>1. ASSUME NEW C \in SUBSET All PROVE Shut(C) <=> \A m \in C : E[m] \subseteq C
  <2>1. ASSUME Shut(C), NEW m \in C PROVE E[m] \subseteq C
    <3>1. <<m, E[m]>> \in edges
      OBVIOUS
    <3> QED BY <2>1, <3>1
  <2>2. ASSUME \A m \in C : E[m] \subseteq C, NEW e \in edges, e[1] \in C PROVE e[2] \subseteq C
    <3>1. PICK m \in All : e = <<m, E[m]>>
      OBVIOUS
    <3> QED BY <2>2, <3>1
  <2> QED BY <2>1, <2>2
<1>2. n \in Closure(All, S, E) <=>
        n \in All /\ \A C \in SUBSET All : S \subseteq C /\ Shut(C) => n \in C
  BY DEF Closure
<1> HIDE DEF Shut
<1> QED BY <1>1, <1>2

LEMMA ClosureLeast ==
  ASSUME NEW All, NEW S, NEW E, NEW C \in SUBSET All, S \subseteq C, \A m \in C : E[m] \subseteq C
  PROVE  Closure(All, S, E) \subseteq C
BY InClosure

LEMMA ClosureShut ==
  ASSUME NEW All, NEW S \in SUBSET All, NEW E, \A m \in All : E[m] \subseteq All
  PROVE  /\ S \subseteq Closure(All, S, E) /\ Closure(All, S, E) \subseteq All
         /\ \A m \in Closure(All, S, E) : E[m] \subseteq Closure(All, S, E)
BY InClosure

(* Only the edges of the nodes matter.                                     *)
LEMMA ClosureSame ==
  ASSUME NEW All, NEW S, NEW E, NEW F, \A m \in All : E[m] = F[m]
  PROVE  Closure(All, S, E) = Closure(All, S, F)
<1>1. \A C \in SUBSET All : (\A m \in C : E[m] \subseteq C) <=> (\A m \in C : F[m] \subseteq C)
  OBVIOUS
<1> SUFFICES ASSUME NEW n PROVE n \in Closure(All, S, E) <=> n \in Closure(All, S, F)
  OBVIOUS
<1> QED BY <1>1, InClosure

-----------------------------------------------------------------------------
(* What p names, and how often.                                            *)
Items(tab, len, c) == {i \in 0 .. len - 1 : tab[i] = c}
Naming(fs, c) == {f \in Fields : fs[f] = c}
Count(fs, tab, len, c) == Cardinality(Naming(fs, c)) + Cardinality(Items(tab, len, c))
One(a, c) == IF a = c THEN 1 ELSE 0

LEMMA ItemsFinite ==
  ASSUME NEW tab, NEW len \in Nat, NEW c
  PROVE  /\ IsFiniteSet(Items(tab, len, c)) /\ Cardinality(Items(tab, len, c)) \in Nat
         /\ Cardinality(Items(tab, len, c)) <= len
<1>1. IsFiniteSet(0 .. len - 1) /\ Cardinality(0 .. len - 1) = len
  BY FS_Interval
<1>2. Items(tab, len, c) \in SUBSET (0 .. len - 1)
  BY DEF Items
<1> QED BY <1>1, <1>2, FS_Subset, FS_CardinalityType

LEMMA NamingFinite ==
  ASSUME NEW fs, NEW c
  PROVE  /\ IsFiniteSet(Naming(fs, c)) /\ Cardinality(Naming(fs, c)) \in Nat
         /\ Cardinality(Naming(fs, c)) <= Cardinality(Fields)
<1>1. Naming(fs, c) \in SUBSET Fields /\ IsFiniteSet(Fields)
  BY GraphAssumption DEF Naming
<1> QED BY <1>1, FS_Subset, FS_CardinalityType

LEMMA CountType ==
  ASSUME NEW fs, NEW tab, NEW len \in Nat, NEW c
  PROVE  Count(fs, tab, len, c) \in 0 .. Cardinality(Fields) + len
<1>1. Cardinality(Fields) \in Nat
  BY GraphAssumption, FS_CardinalityType
<1> QED BY <1>1, ItemsFinite, NamingFinite DEF Count

(* A node is named exactly when the count is not zero.                     *)
LEMMA RefsAreNames ==
  ASSUME NEW fs, NEW tab, NEW len \in Nat, NEW c
  PROVE  Count(fs, tab, len, c) >= 1 <=>
           c \in {fs[f] : f \in Fields} \cup {tab[i] : i \in 0 .. len - 1}
<1>1. /\ Cardinality(Naming(fs, c)) = 0 <=> Naming(fs, c) = {}
      /\ Cardinality(Items(tab, len, c)) = 0 <=> Items(tab, len, c) = {}
  BY ItemsFinite, NamingFinite, FS_EmptySet
<1>2. Count(fs, tab, len, c) >= 1 <=> ~(Naming(fs, c) = {} /\ Items(tab, len, c) = {})
  BY <1>1, ItemsFinite, NamingFinite DEF Count
<1> QED BY <1>2 DEF Naming, Items

(* A field gets another value.                                             *)
LEMMA FieldCount ==
  ASSUME NEW fs, DOMAIN fs = Fields, NEW f \in Fields, NEW e, NEW tab, NEW len \in Nat, NEW c
  PROVE  Count([fs EXCEPT ![f] = e], tab, len, c) = Count(fs, tab, len, c) - One(fs[f], c) + One(e, c)
<1> DEFINE gs == [fs EXCEPT ![f] = e]
           kept == Naming(fs, c) \ {f}
<1>1. Naming(gs, c) = IF e = c THEN kept \cup {f} ELSE kept
  BY DEF Naming
<1>2. f \in Naming(fs, c) <=> fs[f] = c
  BY DEF Naming
<1>3. IsFiniteSet(kept) /\ Cardinality(kept) = Cardinality(Naming(fs, c)) - One(fs[f], c)
  BY <1>2, NamingFinite, FS_RemoveElement DEF One
<1>4. Cardinality(Naming(gs, c)) = Cardinality(kept) + One(e, c)
  BY <1>1, <1>3, NamingFinite, FS_AddElement, FS_CardinalityType DEF One
<1> HIDE DEF gs, kept
<1>5. One(fs[f], c) \in Nat /\ One(e, c) \in Nat
  BY DEF One
<1> QED BY <1>3, <1>4, <1>5, NamingFinite, ItemsFinite DEF Count, gs

(* The elements that stay: h says where each one goes.                     *)
LEMMA Renamed ==
  ASSUME NEW S, NEW T, IsFiniteSet(S), NEW h, 
         \A i \in S : h[i] \in T,
         \A i, j \in S : h[i] = h[j] => i = j,
         \A k \in T : \E i \in S : h[i] = k
  PROVE  Cardinality(T) = Cardinality(S)
<1> DEFINE b == [i \in S |-> h[i]]
<1>1. b \in Bijection(S, T)
  BY DEF Bijection, Injection, Surjection, IsInjective
<1> QED BY <1>1, FS_Bijection DEF ExistsBijection

(* The elements of tab but the lost ones are those of tab2 but the fresh   *)
(* ones, as far as c goes: h says where each one has gone.                 *)
Carried(tab, len, lost, tab2, len2, fresh, h, c) ==
  LET old == (0 .. len - 1) \ lost
      new == (0 .. len2 - 1) \ fresh
  IN  /\ \A i \in old : h[i] \in new /\ tab2[h[i]] = tab[i]
      /\ \A i, j \in old : h[i] = h[j] => i = j
      /\ \A k \in new : tab2[k] = c => \E i \in old : h[i] = k

LEMMA Rearranged ==
  ASSUME NEW len \in Nat, NEW tab, NEW len2 \in Nat, NEW tab2, NEW c, NEW lost, NEW fresh, NEW h,
         Carried(tab, len, lost, tab2, len2, fresh, h, c)
  PROVE  Cardinality(Items(tab2, len2, c) \ fresh) = Cardinality(Items(tab, len, c) \ lost)
<1> USE DEF Carried
<1> DEFINE S == Items(tab, len, c) \ lost
           T == Items(tab2, len2, c) \ fresh
<1>1. IsFiniteSet(S)
  BY ItemsFinite, FS_Subset
<1>2. S \subseteq (0 .. len - 1) \ lost
  BY DEF Items
<1>3. \A i \in S : h[i] \in T
  BY DEF Items
<1>4. \A k \in T : \E i \in S : h[i] = k
  BY DEF Items
<1>5. \A i, j \in S : h[i] = h[j] => i = j
  BY <1>2
<1> QED BY <1>1, <1>3, <1>4, <1>5, Renamed

LEMMA ItemOut ==
  ASSUME NEW len \in Nat, NEW tab, NEW c, NEW k \in 0 .. len - 1
  PROVE  Cardinality(Items(tab, len, c) \ {k}) = Cardinality(Items(tab, len, c)) - One(tab[k], c)
<1> DEFINE S == Items(tab, len, c)
<1>1. k \in S <=> tab[k] = c
  BY DEF Items
<1>2. IsFiniteSet(S) /\ Cardinality(S) \in Nat
  BY ItemsFinite
<1> HIDE DEF S
<1>3. Cardinality(S \ {k}) = IF k \in S THEN Cardinality(S) - 1 ELSE Cardinality(S)
  BY <1>2, FS_RemoveElement
<1>4. Cardinality(S \ {k}) = Cardinality(S) - One(tab[k], c)
  BY <1>1, <1>2, <1>3 DEF One
<1> QED BY <1>4 DEF S

(* The last element is given up.                                           *)
LEMMA LastOut ==
  ASSUME NEW len \in Nat \ {0}, NEW tab, NEW c
  PROVE  Cardinality(Items(tab, len - 1, c)) =
           Cardinality(Items(tab, len, c)) - One(tab[len - 1], c)
<1> DEFINE k == len - 1
<1>1. Items(tab, k, c) = Items(tab, len, c) \ {k}
  BY DEF Items
<1>2. k \in 0 .. len - 1 /\ len \in Nat
  OBVIOUS
<1> HIDE DEF k
<1>3. Cardinality(Items(tab, len, c) \ {k}) = Cardinality(Items(tab, len, c)) - One(tab[k], c)
  BY <1>2, ItemOut
<1> QED BY <1>1, <1>3 DEF k

(* One element is written, where there was none or over another.           *)
LEMMA WrittenItems ==
  ASSUME NEW tab \in [Slots -> Elements], NEW len \in 0 .. MaxLen, NEW k \in Slots, NEW e, NEW c,
         k <= len
  PROVE  LET len2 == IF k = len THEN len + 1 ELSE len
             old  == IF k = len THEN None ELSE tab[k]
         IN  c # None => Cardinality(Items([tab EXCEPT ![k] = e], len2, c)) =
                           Cardinality(Items(tab, len, c)) - One(old, c) + One(e, c)
<1> DEFINE len2 == IF k = len THEN len + 1 ELSE len
           lost == IF k = len THEN {} ELSE {k}
           tab2 == [tab EXCEPT ![k] = e]
           h    == [i \in Nat |-> i]
<1>0. /\ len \in Nat /\ len2 \in Nat /\ k \in 0 .. len2 - 1 /\ MaxLen \in Nat
      /\ (0 .. len - 1) \ lost = (0 .. len2 - 1) \ {k}
      /\ \A i \in (0 .. len - 1) : i \in Slots /\ i \in Nat
  BY GraphAssumption DEF Slots
<1>1. tab2[k] = e /\ \A i \in Slots \ {k} : tab2[i] = tab[i]
  BY DEF Slots
<1>2. Cardinality(Items(tab2, len2, c) \ {k}) = Cardinality(Items(tab, len, c) \ lost)
  <2>1. \A i \in (0 .. len - 1) \ lost : h[i] = i /\ tab2[h[i]] = tab[i]
    BY <1>0, <1>1
  <2> HIDE DEF h, tab2, len2, lost
  <2>2. Carried(tab, len, lost, tab2, len2, {k}, h, c)
    BY <1>0, <2>1 DEF Carried
  <2> QED BY <1>0, <2>2, Rearranged
<1>3. Cardinality(Items(tab2, len2, c) \ {k}) = Cardinality(Items(tab2, len2, c)) - One(e, c)
  <2> HIDE DEF tab2, len2
  <2>1. Cardinality(Items(tab2, len2, c) \ {k}) = Cardinality(Items(tab2, len2, c)) - One(tab2[k], c)
    BY <1>0, ItemOut
  <2> QED BY <2>1, <1>1
<1>4. ASSUME c # None, k = len PROVE Cardinality(Items(tab, len, c) \ lost) = Cardinality(Items(tab, len, c)) - One(None, c)
  BY <1>4, <1>0, ItemsFinite DEF One
<1>5. ASSUME k # len PROVE Cardinality(Items(tab, len, c) \ lost) = Cardinality(Items(tab, len, c)) - One(tab[k], c)
  BY <1>5, <1>0, ItemOut
<1>6. One(e, c) \in Nat /\ Cardinality(Items(tab2, len2, c)) \in Nat /\ Cardinality(Items(tab, len, c)) \in Nat
  BY <1>0, ItemsFinite DEF One
<1> HIDE DEF tab2, lost, len2
<1>7. c # None => Cardinality(Items(tab2, len2, c)) = Cardinality(Items(tab, len, c)) 
          - One(IF k = len THEN None ELSE tab[k], c) + One(e, c)
  <2>1. CASE k = len
    BY <1>2, <1>3, <1>4, <1>6, <2>1 DEF One
  <2>2. CASE k # len
    BY <1>2, <1>3, <1>5, <1>6, <2>2 DEF One
  <2> QED BY <2>1, <2>2
<1> QED BY <1>7 DEF tab2, len2

(* The element at k is taken out and those after it close the gap.         *)
LEMMA RemovedItems ==
  ASSUME NEW tab \in [Slots -> Elements], NEW len \in 0 .. MaxLen, NEW k \in 0 .. len - 1, NEW c
  PROVE  LET tab2 == Moved(tab, k + 1, k, len - k - 1)
         IN  /\ tab2 \in [Slots -> Elements]
             /\ Cardinality(Items(tab2, len - 1, c)) = Cardinality(Items(tab, len, c)) - One(tab[k], c)
<1> DEFINE tab2 == Moved(tab, k + 1, k, len - k - 1)
           h    == [i \in Nat |-> IF i < k THEN i ELSE i - 1]
<1>0. /\ MaxLen \in Nat /\ len \in Nat /\ len - 1 \in Nat /\ k \in Nat /\ len <= MaxLen /\ k < len
      /\ Slots = 0 .. MaxLen - 1
  BY GraphAssumption DEF Slots
<1>1. /\ DOMAIN tab2 = Slots
      /\ \A i \in Slots : tab2[i] = IF i >= k /\ i < len - 1 THEN tab[i + 1] ELSE tab[i]
  BY <1>0 DEF Moved
<1>2. tab2 = [i \in Slots |-> tab2[i]]
  BY DEF Moved
<1>a. \A i \in Nat : h[i] = IF i < k THEN i ELSE i - 1
  OBVIOUS
<1> HIDE DEF tab2, h
<1>3. \A i \in Slots : tab2[i] \in Elements
  BY <1>0, <1>1
<1>5. Cardinality(Items(tab2, len - 1, c) \ {}) = Cardinality(Items(tab, len, c) \ {k})
  <2>1. \A i \in (0 .. len - 1) \ {k} : h[i] \in (0 .. len - 1 - 1) \ {} /\ tab2[h[i]] = tab[i]
    BY <1>0, <1>1, <1>a
  <2>2. \A i, j \in (0 .. len - 1) \ {k} : h[i] = h[j] => i = j
    BY <1>0, <1>a
  <2>3. \A j \in (0 .. len - 1 - 1) \ {} : \E i \in (0 .. len - 1) \ {k} : h[i] = j
    <3> SUFFICES ASSUME NEW j \in 0 .. len - 2 PROVE \E i \in (0 .. len - 1) \ {k} : h[i] = j
      BY <1>0
    <3>1. CASE j < k
      BY <1>0, <1>a, <3>1
    <3>2. CASE j >= k
      <4>1. j + 1 \in (0 .. len - 1) \ {k} /\ j + 1 \in Nat /\ ~(j + 1 < k) /\ (j + 1) - 1 = j
        BY <1>0, <3>2
      <4> QED BY <4>1, <1>a
    <3> QED BY <1>0, <3>1, <3>2
  <2>4. Carried(tab, len, {k}, tab2, len - 1, {}, h, c)
    BY <2>1, <2>2, <2>3 DEF Carried
  <2> QED BY <1>0, <2>4, Rearranged
<1>6. Cardinality(Items(tab, len, c) \ {k}) = Cardinality(Items(tab, len, c)) - One(tab[k], c)
  BY <1>0, ItemOut
<1>7. Items(tab2, len - 1, c) \ {} = Items(tab2, len - 1, c)
  OBVIOUS
<1>8. tab2 \in [Slots -> Elements]
  BY <1>2, <1>3
<1>9. Cardinality(Items(tab2, len - 1, c)) = Cardinality(Items(tab, len, c)) - One(tab[k], c)
  BY <1>5, <1>6, <1>7
<1> QED BY <1>8, <1>9 DEF tab2

(* All elements move up by one and the first is written.                   *)
LEMMA PushedItems ==
  ASSUME NEW tab \in [Slots -> Elements], NEW len \in 0 .. MaxLen - 1, NEW e \in Elements, NEW c
  PROVE  LET tab2 == [Moved(tab, 0, 1, len) EXCEPT ![0] = e]
         IN  /\ tab2 \in [Slots -> Elements]
             /\ Cardinality(Items(tab2, len + 1, c)) = Cardinality(Items(tab, len, c)) + One(e, c)
<1> DEFINE tab2 == [Moved(tab, 0, 1, len) EXCEPT ![0] = e]
           h    == [i \in Nat |-> i + 1]
<1>0. /\ MaxLen \in Nat /\ len \in Nat /\ len + 1 \in Nat /\ len + 1 <= MaxLen /\ Slots = 0 .. MaxLen - 1
      /\ 0 \in Slots /\ 0 \in 0 .. (len + 1) - 1
  BY GraphAssumption DEF Slots
<1>1. /\ DOMAIN tab2 = Slots /\ tab2[0] = e
      /\ \A i \in Slots \ {0} : tab2[i] = IF i <= len THEN tab[i - 1] ELSE tab[i]
  BY <1>0 DEF Moved
<1>2. tab2 = [i \in Slots |-> tab2[i]]
  BY DEF Moved
<1>a. \A i \in Nat : h[i] = i + 1
  OBVIOUS
<1> HIDE DEF tab2, h
<1>3. \A i \in Slots : tab2[i] \in Elements
  BY <1>0, <1>1
<1>5. Cardinality(Items(tab2, len + 1, c) \ {0}) = Cardinality(Items(tab, len, c) \ {})
  <2>1. \A i \in (0 .. len - 1) \ {} : h[i] \in (0 .. (len + 1) - 1) \ {0} /\ tab2[h[i]] = tab[i]
    <3> SUFFICES ASSUME NEW i \in 0 .. len - 1
                 PROVE  h[i] \in (0 .. (len + 1) - 1) \ {0} /\ tab2[h[i]] = tab[i]
      OBVIOUS
    <3>1. h[i] = i + 1 /\ i + 1 \in 1 .. len /\ i + 1 \in Slots /\ (i + 1) - 1 = i
      BY <1>0, <1>a
    <3>2. tab2[i + 1] = tab[(i + 1) - 1]
      BY <1>0, <1>1, <3>1
    <3> QED BY <1>0, <3>1, <3>2
  <2>2. \A i, j \in (0 .. len - 1) \ {} : h[i] = h[j] => i = j
    BY <1>0, <1>a
  <2>3. \A j \in (0 .. (len + 1) - 1) \ {0} : \E i \in (0 .. len - 1) \ {} : h[i] = j
    <3> SUFFICES ASSUME NEW j \in 1 .. len PROVE \E i \in (0 .. len - 1) \ {} : h[i] = j
      BY <1>0
    <3>1. j - 1 \in (0 .. len - 1) \ {} /\ j - 1 \in Nat /\ (j - 1) + 1 = j
      BY <1>0
    <3> QED BY <3>1, <1>a
  <2>4. Carried(tab, len, {}, tab2, len + 1, {0}, h, c)
    BY <2>1, <2>2, <2>3 DEF Carried
  <2> QED BY <1>0, <2>4, Rearranged
<1>6. Cardinality(Items(tab2, len + 1, c) \ {0}) = Cardinality(Items(tab2, len + 1, c)) - One(e, c)
  BY <1>0, <1>1, ItemOut
<1>7. Items(tab, len, c) \ {} = Items(tab, len, c)
  OBVIOUS
<1>8. tab2 \in [Slots -> Elements]
  BY <1>2, <1>3
<1>9. /\ Cardinality(Items(tab2, len + 1, c)) \in Nat /\ Cardinality(Items(tab, len, c)) \in Nat
      /\ One(e, c) \in Nat
  BY <1>0, ItemsFinite DEF One
<1>10. Cardinality(Items(tab2, len + 1, c)) = Cardinality(Items(tab, len, c)) + One(e, c)
  BY <1>5, <1>6, <1>7, <1>9
<1> QED BY <1>8, <1>10 DEF tab2

(* Two elements change places.                                             *)
LEMMA SwappedItems ==
  ASSUME NEW tab \in [Slots -> Elements], NEW len \in 0 .. MaxLen,
         NEW a \in 0 .. len - 1, NEW b \in 0 .. len - 1, a # b, NEW c
  PROVE  LET tab2 == [tab EXCEPT ![a] = tab[b], ![b] = tab[a]]
         IN  /\ tab2 \in [Slots -> Elements]
             /\ Cardinality(Items(tab2, len, c)) = Cardinality(Items(tab, len, c))
<1> DEFINE tab2 == [tab EXCEPT ![a] = tab[b], ![b] = tab[a]]
           h    == [i \in Nat |-> IF i = a THEN b ELSE IF i = b THEN a ELSE i]
<1>0. /\ len \in Nat /\ a \in Nat /\ b \in Nat /\ \A i \in 0 .. len - 1 : i \in Slots /\ i \in Nat
  BY GraphAssumption DEF Slots
<1>1. /\ tab2 \in [Slots -> Elements]
      /\ \A i \in Slots : tab2[i] = IF i = a THEN tab[b] ELSE IF i = b THEN tab[a] ELSE tab[i]
  BY <1>0
<1>a. \A i \in Nat : h[i] = IF i = a THEN b ELSE IF i = b THEN a ELSE i
  OBVIOUS
<1> HIDE DEF tab2, h
<1>2. \A i \in 0 .. len - 1 : h[i] \in 0 .. len - 1 /\ tab2[h[i]] = tab[i] /\ h[h[i]] = i
  BY <1>0, <1>1, <1>a
<1>4. Carried(tab, len, {}, tab2, len, {}, h, c)
  BY <1>2 DEF Carried
<1>5. Cardinality(Items(tab2, len, c) \ {}) = Cardinality(Items(tab, len, c) \ {})
  BY <1>0, <1>4, Rearranged
<1>6. Items(tab2, len, c) \ {} = Items(tab2, len, c) /\ Items(tab, len, c) \ {} = Items(tab, len, c)
  OBVIOUS
<1>7. Cardinality(Items(tab2, len, c)) = Cardinality(Items(tab, len, c))
  BY <1>5, <1>6
<1> QED BY <1>1, <1>7 DEF tab2

(* count elements from start move by by, over the displaced ones; the      *)
(* slots they leave are cleared.                                           *)
Cleared(start, count, by) == IF by > 0 THEN start .. start + by - 1
                             ELSE start + count + by .. start + count - 1

ShiftedTable(tab, start, count, by) ==
  LET moved == Moved(tab, start, start + by, count)
  IN  IF by > 0 THEN Zeroed(moved, start, by) ELSE Zeroed(moved, start + count + by, -by)
ShiftedSize(len, start, count, by) ==
  IF start + count + by > len THEN start + count + by ELSE len
Given(len, start, count, by) == Displaced(start, count, by) \cap 0 .. len - 1
Gone(tab, len, start, count, by, c) == Cardinality({i \in Given(len, start, count, by) : tab[i] = c})

LEMMA ShiftedItems ==
  ASSUME NEW tab \in [Slots -> Elements], NEW len \in 0 .. MaxLen,
         NEW start \in Nat, NEW count \in Nat \ {0}, NEW by \in Int \ {0},
         start + by >= 0, start + count <= len, start + count + by <= MaxLen,
         NEW c \in Nodes
  PROVE  /\ ShiftedTable(tab, start, count, by) \in [Slots -> Elements]
         /\ ShiftedSize(len, start, count, by) \in 0 .. MaxLen
         /\ Gone(tab, len, start, count, by, c) \in Nat
         /\ Cardinality(Items(ShiftedTable(tab, start, count, by), ShiftedSize(len, start, count, by), c)) =
              Cardinality(Items(tab, len, c)) - Gone(tab, len, start, count, by, c)
<1> DEFINE moved == Moved(tab, start, start + by, count)
           tab2  == ShiftedTable(tab, start, count, by)
           len2  == ShiftedSize(len, start, count, by)
           lost  == Given(len, start, count, by)
           h     == [i \in Nat |-> IF i >= start /\ i < start + count THEN i + by ELSE i]
<1>0. /\ MaxLen \in Nat /\ len \in Nat /\ len <= MaxLen /\ len2 \in Nat /\ len2 <= MaxLen
      /\ len <= len2 /\ start + count + by <= len2 /\ Slots = 0 .. MaxLen - 1 /\ None \in Elements
      /\ len2 = len \/ len2 = start + count + by
  BY GraphAssumption DEF Slots, Elements, ShiftedSize
<1>1. /\ moved = [i \in Slots |-> moved[i]]
      /\ \A i \in Slots : moved[i] = IF start + by <= i /\ i < start + by + count THEN tab[i - by] ELSE tab[i]
  BY <1>0 DEF Moved
<1>2. /\ tab2 = [i \in Slots |-> tab2[i]]
      /\ \A i \in Slots : tab2[i] = IF i \in Cleared(start, count, by) THEN None ELSE moved[i]
  <2>0. by \in Int /\ start \in Nat /\ count \in Nat /\ tab2 = ShiftedTable(tab, start, count, by)
    OBVIOUS
  <2>1. CASE by > 0
    <3>1. tab2 = Zeroed(moved, start, by) /\ Cleared(start, count, by) = start .. start + by - 1
      BY <2>0, <2>1 DEF ShiftedTable, Cleared
    <3> HIDE DEF moved, tab2
    <3> QED BY <3>1 DEF Zeroed
  <2>2. CASE ~(by > 0)
    <3>1. /\ tab2 = Zeroed(moved, start + count + by, -by)
          /\ Cleared(start, count, by) = start + count + by .. start + count - 1
      BY <2>0, <2>2 DEF ShiftedTable, Cleared
    <3>2. start + count + by + (-by) - 1 = start + count - 1
      BY <2>0
    <3> HIDE DEF moved, tab2
    <3> QED BY <3>1, <3>2 DEF Zeroed
  <2> QED BY <2>1, <2>2
<1> HIDE DEF moved
<1>3. \A i \in Int : i \in Cleared(start, count, by) <=>
         \/ by > 0 /\ start <= i /\ i < start + by
         \/ by < 0 /\ start + count + by <= i /\ i < start + count
  BY DEF Cleared
<1>4. \A i \in 0 .. len - 1 : i \in lost <=>
         \/ by > 0 /\ start + count <= i /\ i < start + count + by
         \/ by < 0 /\ start + by <= i /\ i < start
  BY <1>0 DEF Displaced, Given
<1>a. \A i \in Nat : h[i] = IF i >= start /\ i < start + count THEN i + by ELSE i
  OBVIOUS
<1> HIDE DEF tab2, len2, lost, h
<1>5. \A i \in Slots : start + by <= i /\ i < start + by + count => i - by \in Slots /\ i - by \in 0 .. len - 1
  BY <1>0
<1>6. \A i \in Slots : tab2[i] \in Elements
  BY <1>0, <1>1, <1>2, <1>5
<1>8. \A i \in (0 .. len - 1) \ lost : h[i] \in 0 .. len2 - 1 /\ tab2[h[i]] = tab[i]
  <2> SUFFICES ASSUME NEW i \in 0 .. len - 1, i \notin lost
               PROVE  h[i] \in 0 .. len2 - 1 /\ tab2[h[i]] = tab[i]
    OBVIOUS
  <2>1. CASE i >= start /\ i < start + count
    <3>1. h[i] = i + by /\ i + by \in Slots /\ i + by \in 0 .. len2 - 1 /\ i + by \in Int
      BY <1>0, <1>a, <2>1
    <3>2. i + by \notin Cleared(start, count, by)
      BY <1>0, <1>3, <2>1, <3>1
    <3>3. moved[i + by] = tab[i]
      <4>1. start + by <= i + by /\ i + by < start + by + count /\ i + by - by = i
        BY <2>1
      <4> QED BY <1>1, <3>1, <4>1
    <3> QED BY <1>2, <3>1, <3>2, <3>3
  <2>2. CASE ~(i >= start /\ i < start + count)
    <3>1. h[i] = i /\ i \in Slots /\ i \in 0 .. len2 - 1 /\ i \in Int
      BY <1>0, <1>a, <2>2
    <3>2. i \notin Cleared(start, count, by) /\ ~(start + by <= i /\ i < start + by + count)
      BY <1>0, <1>3, <1>4, <2>2, <3>1
    <3> QED BY <1>1, <1>2, <3>1, <3>2
  <2> QED BY <2>1, <2>2
<1>9. \A i, j \in (0 .. len - 1) \ lost : h[i] = h[j] => i = j
  BY <1>0, <1>a, <1>4
<1>10. \A k \in 0 .. len2 - 1 : tab2[k] = c => \E i \in (0 .. len - 1) \ lost : h[i] = k
  <2> SUFFICES ASSUME NEW k \in 0 .. len2 - 1, tab2[k] = c
               PROVE  \E i \in (0 .. len - 1) \ lost : h[i] = k
    OBVIOUS
  <2>1. k \in Slots /\ k \in Int /\ k \notin Cleared(start, count, by)
    BY <1>0, <1>2, GraphAssumption
  <2>2. CASE start + by <= k /\ k < start + by + count
    <3>1. k - by \in 0 .. len - 1 /\ k - by \in Nat /\ k - by >= start /\ k - by < start + count
      BY <1>0, <2>1, <2>2
    <3>2. k - by \notin lost
      BY <1>4, <3>1
    <3>3. (k - by) + by = k
      BY <2>1
    <3>4. h[k - by] = k
      BY <1>a, <3>1, <3>3
    <3> QED BY <3>1, <3>2, <3>4
  <2>3. CASE ~(start + by <= k /\ k < start + by + count)
    <3>1. k \in 0 .. len - 1 /\ k \in Nat /\ ~(k >= start /\ k < start + count)
      BY <1>0, <1>3, <2>1, <2>3
    <3>2. k \notin lost
      BY <1>3, <1>4, <2>1, <2>3, <3>1
    <3>3. h[k] = k
      BY <1>a, <3>1
    <3> QED BY <3>1, <3>2, <3>3
  <2> QED BY <2>2, <2>3
<1>11. Cardinality(Items(tab2, len2, c) \ {}) = Cardinality(Items(tab, len, c) \ lost)
  <2>1. Carried(tab, len, lost, tab2, len2, {}, h, c)
    BY <1>8, <1>9, <1>10 DEF Carried
  <2> QED BY <1>0, <2>1, Rearranged
<1>12. /\ Cardinality(Items(tab, len, c) \ lost) =
             Cardinality(Items(tab, len, c)) - Cardinality({i \in lost : tab[i] = c})
       /\ Cardinality({i \in lost : tab[i] = c}) \in Nat
  <2>1. Items(tab, len, c) \cap {i \in lost : tab[i] = c} = {i \in lost : tab[i] = c}
    BY DEF Items, lost, Given
  <2>2. Items(tab, len, c) \ lost = Items(tab, len, c) \ {i \in lost : tab[i] = c}
    BY DEF Items
  <2>3. IsFiniteSet({i \in lost : tab[i] = c})
    BY <1>0, <2>1, ItemsFinite, FS_Intersection
  <2> QED BY <1>0, <2>1, <2>2, <2>3, ItemsFinite, FS_Difference, FS_CardinalityType
<1>13. Items(tab2, len2, c) \ {} = Items(tab2, len2, c)
  OBVIOUS
<1>14. tab2 \in [Slots -> Elements] /\ len2 \in 0 .. MaxLen
  BY <1>0, <1>2, <1>6
<1>15. Cardinality(Items(tab2, len2, c)) = Cardinality(Items(tab, len, c)) - Cardinality({i \in lost : tab[i] = c})
  BY <1>11, <1>12, <1>13
<1> QED BY <1>12, <1>14, <1>15 DEF tab2, len2, lost, Gone

-----------------------------------------------------------------------------
(* The two sides of an edge.                                               *)
Edges == [Nodes \X Nodes -> 0 .. Modulus - 1]

LEMMA ModulusType ==
  /\ Modulus \in Nat \ {0} /\ MaxLen \in Nat /\ StaleBound \in Nat /\ Cardinality(Fields) \in Nat
  /\ Cardinality(Fields) + MaxLen + StaleBound <= Modulus - 1
BY GraphAssumption, FS_CardinalityType

LEMMA NoWrap == ASSUME NEW x \in 0 .. Modulus - 1 PROVE x % Modulus = x
BY ModulusType

(* An edge whose count does not wrap is changed by by, and no other.       *)
LEMMA Adjusted ==
  ASSUME NEW counts \in Edges, NEW p \in Nodes, NEW c, NEW by \in Int,
         c \in Nodes => counts[<<p, c>>] + by \in 0 .. Modulus - 1
  PROVE  LET after == Adjust(counts, p, c, by)
         IN  /\ after \in Edges
             /\ \A q, d \in Nodes : after[<<q, d>>] =
                  IF q = p /\ d = c THEN counts[<<q, d>>] + by ELSE counts[<<q, d>>]
<1>1. CASE c \in Nodes
  <2> DEFINE value == (counts[<<p, c>>] + by) % Modulus
  <2>1. value = counts[<<p, c>>] + by /\ value \in 0 .. Modulus - 1
    BY <1>1, NoWrap
  <2>2. Adjust(counts, p, c, by) = [counts EXCEPT ![<<p, c>>] = value]
    BY <1>1 DEF Adjust, Edges
  <2> HIDE DEF value
  <2>3. [counts EXCEPT ![<<p, c>>] = value] \in Edges
    BY <2>1 DEF Edges
  <2>4. \A q, d \in Nodes : [counts EXCEPT ![<<p, c>>] = value][<<q, d>>] =
                              IF q = p /\ d = c THEN value ELSE counts[<<q, d>>]
    BY <1>1 DEF Edges
  <2> QED BY <2>1, <2>2, <2>3, <2>4
<1>2. CASE c \notin Nodes
  BY <1>2 DEF Adjust
<1> QED BY <1>1, <1>2

(* An element is given up and another gained.                              *)
LEMMA Relinked ==
  ASSUME NEW counts \in Edges, NEW p \in Nodes, NEW lost, NEW gained,
         lost \in Nodes => counts[<<p, lost>>] >= 1,
         \A c \in Nodes : counts[<<p, c>>] - One(lost, c) + One(gained, c) <= Modulus - 1
  PROVE  LET after == IncEdge(DecEdge(counts, p, lost), p, gained)
         IN  /\ after \in Edges
             /\ \A q \in Nodes \ {p}, c \in Nodes : after[<<q, c>>] = counts[<<q, c>>]
             /\ \A c \in Nodes :
                  after[<<p, c>>] = counts[<<p, c>>] - One(lost, c) + One(gained, c)
<1> DEFINE less  == DecEdge(counts, p, lost)
           after == IncEdge(less, p, gained)
<1>0. \A q, c \in Nodes : counts[<<q, c>>] \in 0 .. Modulus - 1
  BY DEF Edges
<1>1. /\ less \in Edges
      /\ \A q, d \in Nodes : less[<<q, d>>] =
           IF q = p /\ d = lost THEN counts[<<q, d>>] - 1 ELSE counts[<<q, d>>]
  <2>1. lost \in Nodes => counts[<<p, lost>>] + (-1) \in 0 .. Modulus - 1
    BY <1>0, ModulusType
  <2>2. /\ Adjust(counts, p, lost, -1) \in Edges
        /\ \A q, d \in Nodes : Adjust(counts, p, lost, -1)[<<q, d>>] =
             IF q = p /\ d = lost THEN counts[<<q, d>>] + (-1) ELSE counts[<<q, d>>]
    BY <2>1, Adjusted
  <2> QED BY <1>0, <2>2 DEF DecEdge
<1> HIDE DEF less
<1>2. /\ after \in Edges
      /\ \A q, d \in Nodes : after[<<q, d>>] =
           IF q = p /\ d = gained THEN less[<<q, d>>] + 1 ELSE less[<<q, d>>]
  <2>1. ASSUME gained \in Nodes PROVE less[<<p, gained>>] + 1 \in 0 .. Modulus - 1
    <3>1. less[<<p, gained>>] = counts[<<p, gained>>] - One(lost, gained)
      BY <1>0, <1>1, <2>1 DEF One
    <3>2. One(gained, gained) = 1 /\ less[<<p, gained>>] \in 0 .. Modulus - 1
      BY <1>1, <2>1 DEF One, Edges
    <3>3. counts[<<p, gained>>] - One(lost, gained) + One(gained, gained) <= Modulus - 1
      BY <2>1
    <3> QED BY <3>1, <3>2, <3>3, ModulusType
  <2> QED BY <1>1, <2>1, Adjusted DEF IncEdge
<1> HIDE DEF after
<1>3. \A q \in Nodes \ {p}, c \in Nodes : after[<<q, c>>] = counts[<<q, c>>]
  BY <1>1, <1>2
<1>4. \A c \in Nodes : after[<<p, c>>] = counts[<<p, c>>] - One(lost, c) + One(gained, c)
  BY <1>0, <1>1, <1>2 DEF One
<1> QED BY <1>2, <1>3, <1>4 DEF after, less

-----------------------------------------------------------------------------
(* The inductive invariant.  Every edge counts what its parent names, of   *)
(* every node, free ones too; only nodes of the graph name, are named or   *)
(* are held; and the child's side of the edge of a living parent counts no *)
(* less, and no more than a dead parent of the same slot can have left.    *)
Names(p, c) == Count(fields[p], table[p], size[p], c)
Exact == \A p, c \in Nodes : children[<<p, c>>] = Names(p, c)
Living ==
  /\ \A p, c \in Nodes : Names(p, c) >= 1 => p \in nodes /\ c \in nodes
  /\ held \in nodes \cup {None}
Covered ==
  \A p \in nodes, c \in Nodes :
    parents[<<p, c>>] >= Names(p, c) /\ parents[<<p, c>>] <= Names(p, c) + StaleBound
IInv == TypeOK /\ Exact /\ Living /\ Covered

LEMMA NamesType ==
  ASSUME TypeOK
  PROVE  \A p, c \in Nodes : Names(p, c) \in 0 .. Cardinality(Fields) + MaxLen
<1> SUFFICES ASSUME NEW p \in Nodes, NEW c \in Nodes
             PROVE  Names(p, c) \in 0 .. Cardinality(Fields) + MaxLen
  OBVIOUS
<1>1. size[p] \in Nat /\ size[p] <= MaxLen
  BY ModulusType DEF TypeOK
<1>2. Names(p, c) \in 0 .. Cardinality(Fields) + size[p]
  BY <1>1, CountType DEF Names
<1> QED BY <1>1, <1>2, ModulusType

LEMMA RefsNow ==
  ASSUME TypeOK
  PROVE  \A n \in Nodes : References[n] = {c \in Nodes : Names(n, c) >= 1}
<1>1. \A n \in Nodes : size[n] \in Nat
  BY ModulusType DEF TypeOK
<1> QED BY <1>1, RefsAreNames DEF Names, References, FieldRefs, ItemRefs

LEMMA RefsNext ==
  ASSUME size' \in [Nodes -> 0 .. MaxLen]
  PROVE  \A n \in Nodes : References'[n] =
           {c \in Nodes : Count(fields'[n], table'[n], size'[n], c) >= 1}
<1>1. \A n \in Nodes : size'[n] \in Nat
  BY ModulusType
<1> QED BY <1>1, RefsAreNames DEF References, FieldRefs, ItemRefs

(* What the program can use is in the graph, and so is what it names.      *)
LEMMA UsableLives ==
  ASSUME IInv
  PROVE  /\ Usable \subseteq nodes /\ Roots \subseteq Usable /\ nodes \subseteq Nodes
         /\ held \in Nodes => held \in Usable
         /\ \A n \in Usable : References[n] \subseteq Usable
<1>1. /\ Roots \cup ({held} \cap Nodes) \in SUBSET nodes /\ nodes \in SUBSET Nodes
      /\ \A n \in Nodes : References[n] \subseteq nodes /\ nodes \subseteq Nodes
  BY RefsNow, GraphAssumption DEF IInv, TypeOK, Living
<1>2. Usable \subseteq nodes
  BY <1>1, ClosureLeast DEF Usable
<1>3. /\ Roots \cup ({held} \cap Nodes) \subseteq Usable
      /\ \A n \in Usable : References[n] \subseteq Usable
  BY <1>1, ClosureShut DEF Usable
<1> QED BY <1>1, <1>2, <1>3

-----------------------------------------------------------------------------
(* What every operation of the program does: one node changes, the counts  *)
(* of its edges follow, and only gained is named that was not before.      *)
Alone(p) ==
  /\ UNCHANGED <<nodes, kind>>
  /\ fields' \in [Nodes -> [Fields -> Elements \cup {Absent}]]
  /\ table' \in [Nodes -> [Slots -> Elements]]
  /\ size' \in [Nodes -> 0 .. MaxLen]
  /\ \A q \in Nodes \ {p} :
       fields'[q] = fields[q] /\ table'[q] = table[q] /\ size'[q] = size[q]
Follows(p, c, d) ==
  /\ Count(fields'[p], table'[p], size'[p], c) = Names(p, c) + d
  /\ children'[<<p, c>>] = children[<<p, c>>] + d
  /\ parents'[<<p, c>>] = parents[<<p, c>>] + d
Balanced(p, gained) ==
  /\ children' \in Edges /\ parents' \in Edges
  /\ \A q \in Nodes \ {p}, c \in Nodes :
       children'[<<q, c>>] = children[<<q, c>>] /\ parents'[<<q, c>>] = parents[<<q, c>>]
  /\ \A c \in Nodes : \E d \in Int : Follows(p, c, d) /\ (c # gained => d <= 0)
HandsBack(p) == held' = None \/ (held' \in Nodes /\ Names(p, held') >= 1)
Changes(p, gained) == Alone(p) /\ Balanced(p, gained) /\ HandsBack(p)

(* The counts of a node that loses one element and gains another.          *)
LEMMA RelinkBalances ==
  ASSUME IInv, NEW p \in nodes, NEW lost, NEW gained, Relink(p, lost, gained),
         size' \in [Nodes -> 0 .. MaxLen],
         lost \in Nodes => Names(p, lost) >= 1,
         \A c \in Nodes : Count(fields'[p], table'[p], size'[p], c) =
                            Names(p, c) - One(lost, c) + One(gained, c)
  PROVE  Balanced(p, gained)
<1>0. p \in Nodes /\ children \in Edges /\ parents \in Edges
  BY DEF IInv, TypeOK, Edges
<1>1. ASSUME NEW c \in Nodes
      PROVE  Names(p, c) - One(lost, c) + One(gained, c) <= Cardinality(Fields) + MaxLen
  <2>1. size'[p] \in Nat /\ size'[p] <= MaxLen
    BY <1>0, ModulusType
  <2>2. Count(fields'[p], table'[p], size'[p], c) \in 0 .. Cardinality(Fields) + size'[p]
    BY <2>1, CountType
  <2> QED BY <2>1, <2>2, ModulusType
<1>2. \A c \in Nodes : /\ Names(p, c) \in Nat /\ children[<<p, c>>] = Names(p, c)
                       /\ parents[<<p, c>>] \in Nat
                       /\ parents[<<p, c>>] >= Names(p, c)
                       /\ parents[<<p, c>>] <= Names(p, c) + StaleBound
                       /\ One(lost, c) \in {0, 1} /\ One(gained, c) \in {0, 1}
  BY <1>0, NamesType, ModulusType DEF IInv, Exact, Covered, Edges, One
<1>3. /\ lost \in Nodes => children[<<p, lost>>] >= 1
      /\ lost \in Nodes => parents[<<p, lost>>] >= 1
      /\ \A c \in Nodes : children[<<p, c>>] - One(lost, c) + One(gained, c) <= Modulus - 1
      /\ \A c \in Nodes : parents[<<p, c>>] - One(lost, c) + One(gained, c) <= Modulus - 1
  <2>1. /\ lost \in Nodes => children[<<p, lost>>] >= 1
        /\ lost \in Nodes => parents[<<p, lost>>] >= 1
    BY <1>2
  <2>2. ASSUME NEW c \in Nodes
        PROVE  /\ children[<<p, c>>] - One(lost, c) + One(gained, c) <= Modulus - 1
               /\ parents[<<p, c>>] - One(lost, c) + One(gained, c) <= Modulus - 1
    BY <1>1, <1>2, ModulusType
  <2> QED BY <2>1, <2>2
<1>4. /\ children' \in Edges
      /\ \A q \in Nodes \ {p}, c \in Nodes : children'[<<q, c>>] = children[<<q, c>>]
      /\ \A c \in Nodes : children'[<<p, c>>] = children[<<p, c>>] - One(lost, c) + One(gained, c)
  BY <1>0, <1>3, Relinked DEF Relink
<1>5. /\ parents' \in Edges
      /\ \A q \in Nodes \ {p}, c \in Nodes : parents'[<<q, c>>] = parents[<<q, c>>]
      /\ \A c \in Nodes : parents'[<<p, c>>] = parents[<<p, c>>] - One(lost, c) + One(gained, c)
  BY <1>0, <1>3, Relinked DEF Relink
<1>6. ASSUME NEW c \in Nodes PROVE \E d \in Int : Follows(p, c, d) /\ (c # gained => d <= 0)
  <2> DEFINE d == One(gained, c) - One(lost, c)
  <2>1. d \in Int /\ (c # gained => d <= 0)
    BY DEF One
  <2>2. Count(fields'[p], table'[p], size'[p], c) = Names(p, c) + d
    <3>1. Count(fields'[p], table'[p], size'[p], c) = Names(p, c) - One(lost, c) + One(gained, c)
      OBVIOUS
    <3>2. One(lost, c) \in Int /\ One(gained, c) \in Int
      BY DEF One
    <3>3. Names(p, c) \in Int
      BY <1>0, NamesType, ModulusType DEF IInv
    <3>4. Names(p, c) - One(lost, c) + One(gained, c) = Names(p, c) + d
      BY <3>2, <3>3
    <3> QED BY <3>1, <3>4
  <2>3. children'[<<p, c>>] = children[<<p, c>>] + d
    BY <1>2, <1>4
  <2>4. parents'[<<p, c>>] = parents[<<p, c>>] + d
    BY <1>2, <1>5
  <2> HIDE DEF d
  <2> QED BY <2>1, <2>2, <2>3, <2>4 DEF Follows
<1> QED BY <1>4, <1>5, <1>6 DEF Balanced

(* A step that changes one node in this way keeps the invariant.           *)
LEMMA ChangesKeep ==
  ASSUME IInv, NEW p \in nodes, NEW gained \in nodes \cup {None}, Changes(p, gained)
  PROVE  IInv'
<1>0. /\ p \in Nodes /\ nodes' = nodes /\ kind' = kind /\ nodes \subseteq Nodes
      /\ None \notin Nodes /\ None \notin nodes
  BY GraphAssumption DEF Changes, Alone, IInv, TypeOK
<1>1. held' \in nodes \cup {None} /\ held' \in Elements
  BY <1>0 DEF Changes, HandsBack, Elements, IInv, Living
<1>2. TypeOK'
  BY <1>0, <1>1 DEF Changes, Alone, Balanced, Edges, IInv, TypeOK
<1>3. ASSUME NEW q \in Nodes \ {p}, NEW c \in Nodes
      PROVE  /\ Names(q, c)' = Names(q, c)
             /\ children'[<<q, c>>] = children[<<q, c>>] /\ parents'[<<q, c>>] = parents[<<q, c>>]
  BY DEF Names, Changes, Alone, Balanced
<1>4. ASSUME NEW c \in Nodes
      PROVE  \E d \in Int : /\ Names(p, c)' = Names(p, c) + d
                            /\ children'[<<p, c>>] = children[<<p, c>>] + d
                            /\ parents'[<<p, c>>] = parents[<<p, c>>] + d
                            /\ c # gained => d <= 0
  BY DEF Names, Changes, Balanced, Follows
<1>5. \A q, c \in Nodes : Names(q, c) \in Nat
  BY NamesType, ModulusType DEF IInv
<1>6. Exact'
  <2> SUFFICES ASSUME NEW q \in Nodes, NEW c \in Nodes PROVE children'[<<q, c>>] = Names(q, c)'
    BY DEF Exact
  <2>1. CASE q = p
    BY <1>4, <2>1 DEF IInv, Exact
  <2>2. CASE q # p
    BY <1>3, <2>2 DEF IInv, Exact
  <2> QED BY <2>1, <2>2
<1>7. Living'
  <2> SUFFICES ASSUME NEW q \in Nodes, NEW c \in Nodes, Names(q, c)' >= 1
               PROVE  q \in nodes /\ c \in nodes
    BY <1>0, <1>1 DEF Living
  <2>1. CASE q = p /\ c # gained
    <3>1. PICK d \in Int : Names(p, c)' = Names(p, c) + d /\ (c # gained => d <= 0)
      BY <1>4
    <3>2. Names(p, c) >= 1
      BY <1>0, <1>5, <2>1, <3>1
    <3> QED BY <1>0, <2>1, <3>2 DEF IInv, Living
  <2>2. CASE q = p /\ c = gained
    BY <1>0, <2>2
  <2>3. CASE q # p
    BY <1>3, <2>3 DEF IInv, Living
  <2> QED BY <2>1, <2>2, <2>3
<1>8. Covered'
  <2> SUFFICES ASSUME NEW q \in nodes, NEW c \in Nodes
               PROVE  /\ parents'[<<q, c>>] >= Names(q, c)'
                      /\ parents'[<<q, c>>] <= Names(q, c)' + StaleBound
    BY <1>0 DEF Covered
  <2>0. /\ q \in Nodes /\ Names(q, c) \in Nat /\ StaleBound \in Nat /\ parents[<<q, c>>] \in Nat
        /\ parents[<<q, c>>] >= Names(q, c) /\ parents[<<q, c>>] <= Names(q, c) + StaleBound
    BY <1>0, <1>5, ModulusType DEF IInv, TypeOK, Covered
  <2>1. CASE q = p
    <3>1. PICK d \in Int : Names(p, c)' = Names(p, c) + d /\ parents'[<<p, c>>] = parents[<<p, c>>] + d
      BY <1>4
    <3> QED BY <2>0, <2>1, <3>1
  <2>2. CASE q # p
    BY <1>3, <2>0, <2>2
  <2> QED BY <2>1, <2>2
<1> QED BY <1>2, <1>6, <1>7, <1>8 DEF IInv

(* ... and is one write of the abstract store.                             *)
LEMMA StoreClosure ==
  ASSUME IInv
  PROVE  /\ Store!Closure(Nodes, Roots \cup ({held} \cap Nodes), References) = Usable
         /\ Store!Closure(Nodes, Roots, References) = Closure(Nodes, Roots, References)
BY DEF Store!Closure, Closure, Usable

LEMMA ChangesWrite ==
  ASSUME IInv, NEW p \in Usable, NEW gained \in Usable \cup {None}, Changes(p, gained)
  PROVE  Store!Write(p)
<1>0. p \in Nodes /\ None \notin Nodes /\ Usable \subseteq Nodes /\ References[p] \subseteq Usable
  BY UsableLives, GraphAssumption
<1>1. \A m \in Nodes \ {p} : References'[m] = References[m]
  BY DEF Changes, Alone, References, FieldRefs, ItemRefs
<1>2. References'[p] \subseteq References[p] \cup ({gained} \cap Nodes)
  <2> SUFFICES ASSUME NEW c \in Nodes, c \in References'[p], c # gained
               PROVE  c \in References[p]
    BY <1>0, RefsNext DEF Changes, Alone
  <2>1. Count(fields'[p], table'[p], size'[p], c) >= 1
    BY <1>0, RefsNext DEF Changes, Alone
  <2>2. PICK d \in Int : Follows(p, c, d) /\ d <= 0
    BY DEF Changes, Balanced
  <2>3. Names(p, c) \in Nat
    BY <1>0, NamesType, ModulusType DEF IInv
  <2>4. Names(p, c) >= 1
    BY <2>1, <2>2, <2>3 DEF Follows
  <2> QED BY <1>0, <2>4, RefsNow DEF IInv
<1>3. {held'} \cap Nodes \subseteq Usable
  BY <1>0, RefsNow DEF Changes, HandsBack, IInv
<1>4. nodes' = nodes
  BY DEF Changes, Alone
<1>5. References'[p] \subseteq Usable
  BY <1>0, <1>2
<1> QED BY <1>1, <1>3, <1>4, <1>5, StoreClosure DEF Store!Write, Store!Reachable

-----------------------------------------------------------------------------
(* The operations, one after another.                                      *)
LEMMA PutFieldChanges ==
  ASSUME IInv, NEW p \in nodes, NEW f \in Fields, NEW e \in nodes \cup {None}, PutField(p, f, e)
  PROVE  Changes(p, e)
<1>0. /\ p \in Nodes /\ e \in Elements /\ size[p] \in Nat
      /\ fields \in [Nodes -> [Fields -> Elements \cup {Absent}]]
  BY ModulusType DEF IInv, TypeOK, Elements
<1>1. Alone(p) /\ fields'[p] = [fields[p] EXCEPT ![f] = e]
      /\ table'[p] = table[p] /\ size'[p] = size[p]
  BY <1>0 DEF PutField, Alone, IInv, TypeOK
<1>2. \A c \in Nodes : Count(fields'[p], table'[p], size'[p], c) =
                         Names(p, c) - One(fields[p][f], c) + One(e, c)
  BY <1>0, <1>1, FieldCount DEF Names
<1>3. fields[p][f] \in Nodes => Names(p, fields[p][f]) >= 1
  BY <1>0, RefsAreNames DEF Names
<1>4. Relink(p, fields[p][f], e) /\ held' = None
  BY DEF PutField
<1>5. Balanced(p, e)
  BY <1>1, <1>2, <1>3, <1>4, RelinkBalances DEF Alone
<1> QED BY <1>1, <1>4, <1>5 DEF Changes, HandsBack

LEMMA ItemNamed ==
  ASSUME IInv, NEW a \in nodes, NEW i \in 0 .. size[a] - 1
  PROVE  table[a][i] \in Elements /\ (table[a][i] \in Nodes => Names(a, table[a][i]) >= 1)
<1>1. /\ a \in Nodes /\ size[a] \in Nat /\ size[a] <= MaxLen /\ table[a] \in [Slots -> Elements]
      /\ i \in Slots
  BY ModulusType DEF IInv, TypeOK, Slots
<1> QED BY <1>1, RefsAreNames DEF Names

(* An operation on the table of an array or tuple.                         *)
LEMMA SetTableAlone ==
  ASSUME IInv, NEW a \in nodes, NEW tab2 \in [Slots -> Elements], NEW len2 \in 0 .. MaxLen,
         SetTable(a, tab2, len2)
  PROVE  Alone(a) /\ fields'[a] = fields[a] /\ table'[a] = tab2 /\ size'[a] = len2
BY DEF SetTable, Alone, IInv, TypeOK

LEMMA TableChanges ==
  ASSUME IInv, NEW a \in nodes, NEW tab2 \in [Slots -> Elements], NEW len2 \in 0 .. MaxLen,
         SetTable(a, tab2, len2), NEW lost, NEW gained, Relink(a, lost, gained),
         \/ lost = None
         \/ \E i \in 0 .. size[a] - 1 : lost = table[a][i],
         \A c \in Nodes : Cardinality(Items(tab2, len2, c)) =
            Cardinality(Items(table[a], size[a], c)) - One(lost, c) + One(gained, c),
         held' = None \/ held' = lost
  PROVE  Changes(a, gained)
<1>1. Alone(a) /\ fields'[a] = fields[a] /\ table'[a] = tab2 /\ size'[a] = len2
  BY SetTableAlone
<1>2. lost \in Nodes => Names(a, lost) >= 1
  BY ItemNamed, GraphAssumption
<1>3. \A c \in Nodes : Count(fields'[a], table'[a], size'[a], c) =
                         Names(a, c) - One(lost, c) + One(gained, c)
  <2> SUFFICES ASSUME NEW c \in Nodes
               PROVE  Count(fields[a], tab2, len2, c) = Names(a, c) - One(lost, c) + One(gained, c)
    BY <1>1
  <2>1. a \in Nodes /\ size[a] \in Nat /\ len2 \in Nat
    BY ModulusType DEF IInv, TypeOK
  <2>2. /\ Cardinality(Items(table[a], size[a], c)) \in Int /\ Cardinality(Naming(fields[a], c)) \in Int
        /\ One(lost, c) \in Int /\ One(gained, c) \in Int
    BY <2>1, ItemsFinite, NamingFinite DEF One
  <2> QED BY <2>2 DEF Names, Count
<1>4. Balanced(a, gained)
  BY <1>1, <1>2, <1>3, RelinkBalances DEF Alone
<1>5. HandsBack(a)
  <2>1. held' = lost => held' = None \/ held' \in Nodes
    BY ItemNamed DEF Elements
  <2> QED BY <1>2, <2>1 DEF HandsBack
<1> QED BY <1>1, <1>4, <1>5 DEF Changes

(* push; set, enqueue and add to a tuple; pop and remove; dequeue; swap.   *)
LEMMA PushChanges ==
  ASSUME IInv, NEW a \in nodes, NEW e \in nodes \cup {None}, ArrayPush(a, e)
  PROVE  Changes(a, e)
<1> DEFINE tab2 == [Moved(table[a], 0, 1, size[a]) EXCEPT ![0] = e]
<1>0. /\ table[a] \in [Slots -> Elements] /\ size[a] \in 0 .. MaxLen - 1 /\ e \in Elements
      /\ size[a] + 1 \in 0 .. MaxLen
  BY ModulusType DEF ArrayPush, IInv, TypeOK, Elements
<1>1. SetTable(a, tab2, size[a] + 1) /\ Relink(a, None, e) /\ held' = None
  BY DEF ArrayPush
<1>2. ASSUME NEW c
      PROVE  /\ tab2 \in [Slots -> Elements]
             /\ Cardinality(Items(tab2, size[a] + 1, c)) =
                  Cardinality(Items(table[a], size[a], c)) + One(e, c)
  BY <1>0, PushedItems
<1>3. \A c \in Nodes : Cardinality(Items(tab2, size[a] + 1, c)) =
                         Cardinality(Items(table[a], size[a], c)) - One(None, c) + One(e, c)
  <2> SUFFICES ASSUME NEW c \in Nodes
               PROVE  Cardinality(Items(tab2, size[a] + 1, c)) =
                         Cardinality(Items(table[a], size[a], c)) - One(None, c) + One(e, c)
    OBVIOUS
  <2> HIDE DEF tab2
  <2>1. One(None, c) = 0
    BY GraphAssumption DEF One
  <2>2. Cardinality(Items(table[a], size[a], c)) \in Nat /\ size[a] \in Nat
    BY <1>0, ItemsFinite
  <2> QED BY <1>2, <2>1, <2>2
<1> HIDE DEF tab2
<1> QED BY <1>0, <1>1, <1>2, <1>3, TableChanges

LEMMA WriteChanges ==
  ASSUME IInv, NEW a \in nodes, NEW k \in Slots, NEW e \in nodes \cup {None}, k <= size[a],
         NEW len2, NEW old,
         len2 = IF k = size[a] THEN size[a] + 1 ELSE size[a],
         old = IF k = size[a] THEN None ELSE table[a][k],
         SetTable(a, [table[a] EXCEPT ![k] = e], len2), Relink(a, old, e), held' = None
  PROVE  Changes(a, e)
<1> DEFINE tab2 == [table[a] EXCEPT ![k] = e]
<1>0. /\ table[a] \in [Slots -> Elements] /\ size[a] \in 0 .. MaxLen /\ e \in Elements
      /\ len2 \in 0 .. MaxLen
  BY ModulusType DEF IInv, TypeOK, Elements, Slots
<1>1. \A c : c # None => Cardinality(Items(tab2, len2, c)) =
                           Cardinality(Items(table[a], size[a], c)) - One(old, c) + One(e, c)
  BY <1>0, WrittenItems
<1>2. \A c \in Nodes : Cardinality(Items(tab2, len2, c)) =
                         Cardinality(Items(table[a], size[a], c)) - One(old, c) + One(e, c)
  BY <1>1, GraphAssumption
<1>3. tab2 \in [Slots -> Elements]
  BY <1>0
<1>4. old = None \/ \E i \in 0 .. size[a] - 1 : old = table[a][i]
  BY <1>0, ModulusType DEF Slots
<1>5. SetTable(a, tab2, len2)
  OBVIOUS
<1> HIDE DEF tab2
<1> QED BY <1>0, <1>2, <1>3, <1>4, <1>5, TableChanges

LEMMA SetChanges ==
  ASSUME IInv, Dense, NEW a \in nodes, NEW i \in Slots, NEW e \in nodes \cup {None}, ArraySet(a, i, e)
  PROVE  Changes(a, e)
<1>0. size[a] \in Nat /\ i \in Nat
  BY ModulusType DEF IInv, TypeOK, Slots
<1>1. i <= size[a]
  BY <1>0 DEF Dense, ArraySet
<1>2. i >= size[a] <=> i = size[a]
  BY <1>0, <1>1
<1>3. i < size[a] <=> i # size[a]
  BY <1>0, <1>1
<1>4. /\ SetTable(a, [table[a] EXCEPT ![i] = e], IF i = size[a] THEN size[a] + 1 ELSE size[a])
      /\ Relink(a, IF i = size[a] THEN None ELSE table[a][i], e) /\ held' = None
  BY <1>2, <1>3 DEF ArraySet
<1> QED BY <1>1, <1>4, WriteChanges

LEMMA AppendChanges ==
  ASSUME IInv, NEW a \in nodes, NEW e \in nodes \cup {None}, ArrayEnqueue(a, e) \/ TupleAdd(a, e)
  PROVE  Changes(a, e)
<1>0. size[a] \in Slots /\ size[a] <= size[a]
  BY ModulusType DEF IInv, TypeOK, Slots, ArrayEnqueue, TupleAdd
<1>1. /\ SetTable(a, [table[a] EXCEPT ![size[a]] = e], size[a] + 1)
      /\ Relink(a, None, e) /\ held' = None
  BY DEF ArrayEnqueue, TupleAdd
<1> QED BY <1>0, <1>1, WriteChanges

LEMMA TakeOutChanges ==
  ASSUME IInv, NEW a \in nodes, NEW k \in 0 .. size[a] - 1,
         SetTable(a, Moved(table[a], k + 1, k, size[a] - k - 1), size[a] - 1),
         Relink(a, table[a][k], None), held' = table[a][k]
  PROVE  Changes(a, None)
<1> DEFINE tab2 == Moved(table[a], k + 1, k, size[a] - k - 1)
           lost == table[a][k]
<1>0. table[a] \in [Slots -> Elements] /\ size[a] \in 0 .. MaxLen /\ size[a] - 1 \in 0 .. MaxLen
  BY ModulusType DEF IInv, TypeOK
<1>1. ASSUME NEW c
      PROVE  /\ tab2 \in [Slots -> Elements]
             /\ Cardinality(Items(tab2, size[a] - 1, c)) =
                  Cardinality(Items(table[a], size[a], c)) - One(lost, c)
  <2> DEFINE len == size[a]
             tab == table[a]
  <2>1. tab \in [Slots -> Elements] /\ len \in 0 .. MaxLen /\ k \in 0 .. len - 1
    BY <1>0
  <2> HIDE DEF len, tab
  <2>2. /\ Moved(tab, k + 1, k, len - k - 1) \in [Slots -> Elements]
        /\ Cardinality(Items(Moved(tab, k + 1, k, len - k - 1), len - 1, c)) =
             Cardinality(Items(tab, len, c)) - One(tab[k], c)
    BY <2>1, RemovedItems
  <2> QED BY <2>2 DEF len, tab
<1>2. \A c \in Nodes : Cardinality(Items(tab2, size[a] - 1, c)) =
                         Cardinality(Items(table[a], size[a], c)) - One(lost, c) + One(None, c)
  <2> SUFFICES ASSUME NEW c \in Nodes
               PROVE  Cardinality(Items(tab2, size[a] - 1, c)) =
                         Cardinality(Items(table[a], size[a], c)) - One(lost, c) + One(None, c)
    OBVIOUS
  <2> HIDE DEF tab2, lost
  <2>1. One(None, c) = 0 /\ One(lost, c) \in Nat
    BY GraphAssumption DEF One
  <2>2. Cardinality(Items(table[a], size[a], c)) \in Nat /\ size[a] \in Nat
    BY <1>0, ItemsFinite
  <2> QED BY <1>1, <2>1, <2>2
<1>3. SetTable(a, tab2, size[a] - 1) /\ Relink(a, lost, None) /\ held' = lost
      /\ \E i \in 0 .. size[a] - 1 : lost = table[a][i]
  OBVIOUS
<1> HIDE DEF tab2, lost
<1> QED BY <1>0, <1>1, <1>2, <1>3, TableChanges

LEMMA PopChanges ==
  ASSUME IInv, NEW a \in nodes, NEW i \in Slots, ArrayPop(a) \/ ArrayRemove(a, i)
  PROVE  Changes(a, None)
<1>0. size[a] \in Nat /\ i \in Nat
  BY ModulusType DEF IInv, TypeOK, Slots
<1>1. CASE ArrayPop(a)
  <2>1. 0 \in 0 .. size[a] - 1 /\ 0 + 1 = 1 /\ size[a] - 0 - 1 = size[a] - 1
    BY <1>0, <1>1 DEF ArrayPop
  <2>2. /\ SetTable(a, Moved(table[a], 0 + 1, 0, size[a] - 0 - 1), size[a] - 1)
        /\ Relink(a, table[a][0], None) /\ held' = table[a][0]
    BY <1>1, <2>1 DEF ArrayPop
  <2> QED BY <2>1, <2>2, TakeOutChanges
<1>2. CASE ArrayRemove(a, i)
  <2>1. i \in 0 .. size[a] - 1
    BY <1>0, <1>2 DEF ArrayRemove
  <2> QED BY <1>2, <2>1, TakeOutChanges DEF ArrayRemove
<1> QED BY <1>1, <1>2

LEMMA DequeueChanges ==
  ASSUME IInv, NEW a \in nodes, ArrayDequeue(a)
  PROVE  Changes(a, None)
<1> DEFINE lost == table[a][size[a] - 1]
<1>0. /\ table[a] \in [Slots -> Elements] /\ size[a] \in 0 .. MaxLen /\ size[a] - 1 \in 0 .. MaxLen
      /\ size[a] - 1 \in 0 .. size[a] - 1 /\ size[a] \in Nat /\ size[a] - 1 \in Nat
  BY ModulusType DEF ArrayDequeue, IInv, TypeOK
<1>1. ASSUME NEW c \in Nodes
      PROVE  Cardinality(Items(table[a], size[a] - 1, c)) =
               Cardinality(Items(table[a], size[a], c)) - One(lost, c) + One(None, c)
  <2>1. size[a] \in Nat \ {0}
    BY <1>0
  <2>2. Cardinality(Items(table[a], size[a] - 1, c)) = Cardinality(Items(table[a], size[a], c)) - One(lost, c)
    BY <2>1, LastOut
  <2> HIDE DEF lost
  <2>3. One(None, c) = 0 /\ One(lost, c) \in Nat
    BY GraphAssumption DEF One
  <2>4. Cardinality(Items(table[a], size[a], c)) \in Nat
    BY <1>0, ItemsFinite
  <2> QED BY <2>2, <2>3, <2>4
<1>2. /\ SetTable(a, table[a], size[a] - 1) /\ Relink(a, lost, None) /\ held' = lost
      /\ \E i \in 0 .. size[a] - 1 : lost = table[a][i]
  BY <1>0 DEF ArrayDequeue
<1> HIDE DEF lost
<1> QED BY <1>0, <1>1, <1>2, TableChanges

LEMMA SwapChanges ==
  ASSUME IInv, NEW a \in nodes, NEW i \in Slots, NEW j \in Slots, ArraySwap(a, i, j)
  PROVE  Changes(a, None)
<1> DEFINE tab2 == [table[a] EXCEPT ![i] = table[a][j], ![j] = table[a][i]]
<1>0. /\ table[a] \in [Slots -> Elements] /\ size[a] \in 0 .. MaxLen
      /\ i \in 0 .. size[a] - 1 /\ j \in 0 .. size[a] - 1 /\ i # j
  BY ModulusType DEF ArraySwap, IInv, TypeOK, Slots
<1>1. ASSUME NEW c
      PROVE  /\ tab2 \in [Slots -> Elements]
             /\ Cardinality(Items(tab2, size[a], c)) = Cardinality(Items(table[a], size[a], c))
  BY <1>0, SwappedItems
<1>2. SetTable(a, tab2, size[a]) /\ Relink(a, None, None) /\ held' = None
  BY GraphAssumption DEF ArraySwap, Relink, IncEdge, DecEdge, Adjust
<1> HIDE DEF tab2
<1>3. ASSUME NEW c \in Nodes
      PROVE  Cardinality(Items(tab2, size[a], c)) =
               Cardinality(Items(table[a], size[a], c)) - One(None, c) + One(None, c)
  <2>1. One(None, c) = 0
    BY GraphAssumption DEF One
  <2>2. Cardinality(Items(table[a], size[a], c)) \in Nat
    BY <1>0, ItemsFinite
  <2> QED BY <1>1, <2>1, <2>2
<1> QED BY <1>0, <1>1, <1>2, <1>3, TableChanges

(* A shift gives up the edges of the elements it writes over.              *)
LEMMA ShiftChanges ==
  ASSUME IInv, Dense, NEW a \in nodes, NEW start \in Slots, NEW count \in 1 .. MaxLen,
         NEW by \in -MaxLen .. MaxLen, ArrayShift(a, start, count, by)
  PROVE  Changes(a, None)
<1> DEFINE tab   == table[a]
           len   == size[a]
           tab2  == ShiftedTable(tab, start, count, by)
           len2  == ShiftedSize(len, start, count, by)
           lost  == Given(len, start, count, by)
           gone(c) == Gone(tab, len, start, count, by, c)
<1>0. /\ tab \in [Slots -> Elements] /\ len \in 0 .. MaxLen /\ len \in Nat /\ a \in Nodes
      /\ children \in Edges /\ parents \in Edges
  BY ModulusType DEF IInv, TypeOK, Edges
<1>1. /\ start \in Nat /\ count \in Nat \ {0} /\ by \in Int \ {0}
      /\ start + by >= 0 /\ start + count + by <= MaxLen
  BY ModulusType DEF ArrayShift, Slots
<1>2. start + count <= len
  BY <1>0, <1>1 DEF ArrayShift, Dense
<1>3. /\ SetTable(a, tab2, len2) /\ held' = None
      /\ children' = DecAll(children, a, lost) /\ parents' = DecAll(parents, a, lost)
  BY DEF ArrayShift, ShiftedTable, ShiftedSize, Given
<1> HIDE DEF tab, len
<1>4. ASSUME NEW c \in Nodes
      PROVE  /\ tab2 \in [Slots -> Elements] /\ len2 \in 0 .. MaxLen /\ gone(c) \in Nat
             /\ Cardinality(Items(tab2, len2, c)) = Cardinality(Items(tab, len, c)) - gone(c)
  BY <1>0, <1>1, <1>2, ShiftedItems
<1> HIDE DEF tab2, len2, lost, gone
<1>6. Alone(a) /\ fields'[a] = fields[a] /\ table'[a] = tab2 /\ size'[a] = len2
  BY <1>0, <1>3, <1>4, SetTableAlone
<1>7. ASSUME NEW c \in Nodes
      PROVE  /\ Count(fields'[a], table'[a], size'[a], c) = Names(a, c) - gone(c)
             /\ Names(a, c) \in Nat /\ gone(c) \in Nat /\ gone(c) <= Names(a, c)
  <2>1. /\ Cardinality(Items(tab, len, c)) \in Nat /\ Cardinality(Naming(fields[a], c)) \in Nat
        /\ Cardinality(Items(tab2, len2, c)) \in Nat
    <3>1. len2 \in Nat
      BY <1>4, ModulusType
    <3> QED BY <1>0, <3>1, ItemsFinite, NamingFinite
  <2>2. Names(a, c) = Cardinality(Naming(fields[a], c)) + Cardinality(Items(tab, len, c))
    BY DEF Names, Count, tab, len
  <2>3. Count(fields'[a], table'[a], size'[a], c) =
          Cardinality(Naming(fields[a], c)) + Cardinality(Items(tab2, len2, c))
    BY <1>6 DEF Count
  <2> QED BY <1>4, <2>1, <2>2, <2>3
<1>8. ASSUME NEW counts \in Edges,
             \A c \in Nodes : counts[<<a, c>>] >= Names(a, c)
      PROVE  LET after == DecAll(counts, a, lost)
             IN  /\ after \in Edges
                 /\ \A q \in Nodes \ {a}, c \in Nodes : after[<<q, c>>] = counts[<<q, c>>]
                 /\ \A c \in Nodes : after[<<a, c>>] = counts[<<a, c>>] - gone(c)
  <2> DEFINE after == DecAll(counts, a, lost)
  <2>1. \A q \in Nodes \ {a}, c \in Nodes : after[<<q, c>>] = counts[<<q, c>>]
    BY DEF DecAll
  <2>2. \A c \in Nodes : after[<<a, c>>] = (counts[<<a, c>>] - gone(c)) % Modulus
    BY <1>0 DEF DecAll, tab, gone, Gone, lost
  <2>3. \A c \in Nodes : counts[<<a, c>>] - gone(c) \in 0 .. Modulus - 1
    <3> SUFFICES ASSUME NEW c \in Nodes PROVE counts[<<a, c>>] - gone(c) \in 0 .. Modulus - 1
      OBVIOUS
    <3>1. counts[<<a, c>>] \in 0 .. Modulus - 1 /\ counts[<<a, c>>] >= Names(a, c)
      BY <1>0, <1>8 DEF Edges
    <3> QED BY <1>7, <3>1, ModulusType
  <2>4. \A c \in Nodes : after[<<a, c>>] = counts[<<a, c>>] - gone(c)
    BY <2>2, <2>3, NoWrap
  <2>5. after = [e \in Nodes \X Nodes |-> after[e]]
    BY DEF DecAll
  <2> HIDE DEF after
  <2>6. \A e \in Nodes \X Nodes : after[e] \in 0 .. Modulus - 1
    <3> SUFFICES ASSUME NEW q \in Nodes, NEW c \in Nodes PROVE after[<<q, c>>] \in 0 .. Modulus - 1
      OBVIOUS
    <3> QED BY <1>8, <2>1, <2>3, <2>4 DEF Edges
  <2>7. after \in Edges
    BY <2>5, <2>6 DEF Edges
  <2> QED BY <2>1, <2>4, <2>7 DEF after
<1>9. \A c \in Nodes : children[<<a, c>>] >= Names(a, c) /\ parents[<<a, c>>] >= Names(a, c)
  <2> SUFFICES ASSUME NEW c \in Nodes
               PROVE  children[<<a, c>>] >= Names(a, c) /\ parents[<<a, c>>] >= Names(a, c)
    OBVIOUS
  <2>1. Names(a, c) \in Nat
    BY <1>7
  <2>2. children[<<a, c>>] = Names(a, c)
    BY <1>0 DEF IInv, Exact
  <2> QED BY <1>0, <2>1, <2>2 DEF IInv, Covered
<1>10. /\ children' \in Edges
       /\ \A q \in Nodes \ {a}, c \in Nodes : children'[<<q, c>>] = children[<<q, c>>]
       /\ \A c \in Nodes : children'[<<a, c>>] = children[<<a, c>>] - gone(c)
  BY <1>0, <1>3, <1>8, <1>9
<1>11. /\ parents' \in Edges
       /\ \A q \in Nodes \ {a}, c \in Nodes : parents'[<<q, c>>] = parents[<<q, c>>]
       /\ \A c \in Nodes : parents'[<<a, c>>] = parents[<<a, c>>] - gone(c)
  BY <1>0, <1>3, <1>8, <1>9
<1>12. ASSUME NEW c \in Nodes PROVE \E d \in Int : Follows(a, c, d) /\ (c # None => d <= 0)
  <2>1. -gone(c) \in Int /\ -gone(c) <= 0 /\ gone(c) \in Nat /\ Names(a, c) \in Nat
    BY <1>7
  <2>2. children[<<a, c>>] \in Int /\ parents[<<a, c>>] \in Int
    BY <1>0 DEF Edges
  <2>3. Count(fields'[a], table'[a], size'[a], c) = Names(a, c) + (-gone(c))
    BY <1>7, <2>1
  <2>4. children'[<<a, c>>] = children[<<a, c>>] + (-gone(c))
    BY <1>10, <2>1, <2>2
  <2>5. parents'[<<a, c>>] = parents[<<a, c>>] + (-gone(c))
    BY <1>11, <2>1, <2>2
  <2> QED BY <2>1, <2>3, <2>4, <2>5 DEF Follows
<1> QED BY <1>3, <1>6, <1>10, <1>11, <1>12 DEF Changes, Balanced, HandsBack

-----------------------------------------------------------------------------
(* A call of the running program changes one node it can use.              *)
ProgramStep ==
  \E p \in Usable : \/ ArrayStep(p)
                    \/ \E e \in Usable \cup {None} : FieldStep(p, e) \/ InsertStep(p, e)

(* The scopes of a block can be used when it can.                          *)
LEMMA ScopesUsable ==
  ASSUME IInv, NEW b \in Usable
  PROVE  Scopes(b) \subseteq Usable
<1> DEFINE up == [n \in Nodes |-> {fields[n]["$parent"]} \cap Nodes]
<1>1. \A n \in Nodes : up[n] \subseteq References[n]
  BY GraphAssumption DEF References, FieldRefs
<1>2. Usable \in SUBSET Nodes /\ {b} \subseteq Usable /\ \A n \in Usable : up[n] \subseteq Usable
  BY <1>1, UsableLives
<1> HIDE DEF up
<1>3. Closure(Nodes, {b}, up) \subseteq Usable
  BY <1>2, ClosureLeast
<1> QED BY <1>3 DEF Scopes, up

LEMMA ProgramChanges ==
  ASSUME IInv, Dense, ProgramStep
  PROVE  \E q \in Usable, gained \in Usable \cup {None} : Changes(q, gained)
<1>0. Usable \subseteq nodes
  BY UsableLives
<1>1. PICK p \in Usable : \/ ArrayStep(p)
                          \/ \E e \in Usable \cup {None} : FieldStep(p, e) \/ InsertStep(p, e)
  BY DEF ProgramStep
<1>2. CASE ArrayStep(p)
  <2>1. CASE ArrayPop(p) \/ ArrayDequeue(p)
    <3>1. CASE ArrayDequeue(p)
      BY <1>0, <3>1, DequeueChanges
    <3>2. CASE ArrayPop(p)
      <4>1. 0 \in Slots
        BY <3>2, <1>0, ModulusType DEF ArrayPop, IInv, TypeOK, Slots
      <4> QED BY <1>0, <3>2, <4>1, PopChanges
    <3> QED BY <2>1, <3>1, <3>2
  <2>2. CASE \E i \in Slots : ArrayRemove(p, i)
    BY <1>0, <2>2, PopChanges
  <2>3. CASE \E i, j \in Slots : ArraySwap(p, i, j)
    BY <1>0, <2>3, SwapChanges
  <2>4. CASE \E start \in Slots, count \in 1 .. MaxLen, by \in -MaxLen .. MaxLen :
               ArrayShift(p, start, count, by)
    BY <1>0, <2>4, ShiftChanges
  <2> QED BY <1>2, <2>1, <2>2, <2>3, <2>4 DEF ArrayStep
<1>3. ASSUME NEW e \in Usable \cup {None}, FieldStep(p, e)
      PROVE  \E q \in Usable, gained \in Usable \cup {None} : Changes(q, gained)
  <2>1. PICK f \in Fields : SetField(p, f, e) \/ SetVar(p, f, e)
    BY <1>3 DEF FieldStep
  <2>2. \E q \in Usable : PutField(q, f, e)
    BY <2>1, ScopesUsable DEF SetField, SetVar, Holders
  <2> QED BY <1>0, <2>2, PutFieldChanges
<1>4. ASSUME NEW e \in Usable \cup {None}, InsertStep(p, e)
      PROVE  \E q \in Usable, gained \in Usable \cup {None} : Changes(q, gained)
  BY <1>0, <1>4, PushChanges, AppendChanges, SetChanges DEF InsertStep
<1> QED BY <1>1, <1>2, <1>3, <1>4

(* Next, with the program's steps by that name.                            *)
LEMMA NextSteps ==
  Next <=> \/ ProgramStep
           \/ \E n \in Nodes, k \in Kinds : NewNode(n, k)
           \/ Drop
           \/ FreeSpace
BY DEF Next, ProgramStep

LEMMA ProgramKeeps == IInv /\ Dense /\ ProgramStep => IInv' /\ \E q \in Nodes : Store!Write(q)
<1> SUFFICES ASSUME IInv, Dense, ProgramStep PROVE IInv' /\ \E q \in Nodes : Store!Write(q)
  OBVIOUS
<1>1. Usable \subseteq nodes /\ nodes \subseteq Nodes
  BY UsableLives
<1>2. PICK q \in Usable, gained \in Usable \cup {None} : Changes(q, gained)
  BY ProgramChanges
<1>3. IInv'
  BY <1>1, <1>2, ChangesKeep
<1>4. Store!Write(q)
  BY <1>2, ChangesWrite
<1> QED BY <1>1, <1>3, <1>4

-----------------------------------------------------------------------------
(* A new node, in a slot that names nothing and that nothing names.        *)
LEMMA NewNodeKeeps ==
  IInv /\ (\E n \in Nodes, k \in Kinds : NewNode(n, k)) => IInv' /\ \E n \in Nodes : Store!Create(n)
<1> SUFFICES ASSUME IInv, NEW n \in Nodes, NEW k \in Kinds, NewNode(n, k)
             PROVE  IInv' /\ \E m \in Nodes : Store!Create(m)
  OBVIOUS
<1>0. /\ nodes' = nodes \cup {n} /\ n \notin nodes /\ nodes \subseteq Nodes /\ held' = n /\ held = None
      /\ UNCHANGED <<fields, table, size, children>>
      /\ k \in {"OBJ", "ARRAY", "TUPLE"}
  BY GraphAssumption DEF NewNode, IInv, TypeOK
<1>1. \A p, c \in Nodes : Names(p, c)' = Names(p, c) /\ Names(p, c) \in Nat
  BY <1>0, NamesType, ModulusType DEF Names, IInv
<1>2. \A c \in Nodes : Names(n, c) = 0 /\ Names(c, n) = 0
  BY <1>0, <1>1 DEF IInv, Living
<1>3. PICK found \in SUBSET {c \in nodes : parents[<<n, c>>] \in 1 .. StaleBound} :
        parents' = [e \in Nodes \X Nodes |->
                      IF e[2] = n \/ (e[1] = n /\ e[2] \notin found) THEN 0 ELSE parents[e]]
  BY DEF NewNode
<1>4. parents' \in Edges
  <2>1. \A e \in Nodes \X Nodes : parents[e] \in 0 .. Modulus - 1 /\ 0 \in 0 .. Modulus - 1
    BY ModulusType DEF IInv, TypeOK
  <2> QED BY <1>3, <2>1 DEF Edges
<1>5. TypeOK'
  BY <1>0, <1>4 DEF IInv, TypeOK, NewNode, Edges, Elements
<1>6. Exact' /\ Living'
  BY <1>0, <1>1 DEF IInv, Exact, Living
<1>7. Covered'
  <2> SUFFICES ASSUME NEW p \in nodes \cup {n}, NEW c \in Nodes
               PROVE  /\ parents'[<<p, c>>] >= Names(p, c)
                      /\ parents'[<<p, c>>] <= Names(p, c) + StaleBound
    <3>1. nodes' = nodes \cup {n}
      BY <1>0
    <3>2. \A q, d \in Nodes : Names(q, d)' = Names(q, d)
      BY <1>1
    <3>3. n \in Nodes /\ nodes \subseteq Nodes
      BY <1>0 DEF IInv, TypeOK
    <3> SUFFICES ASSUME NEW p \in nodes', NEW c \in Nodes
                 PROVE  /\ parents'[<<p, c>>] >= Names(p, c)'
                        /\ parents'[<<p, c>>] <= Names(p, c)' + StaleBound
      BY DEF Covered
    <3>4. Names(p, c)' = Names(p, c)
      BY <3>1, <3>2, <3>3
    <3> QED BY <3>1, <3>4
  <2>0. p \in Nodes /\ Names(p, c) \in Nat /\ StaleBound \in Nat
    BY <1>0, <1>1, ModulusType
  <2>1. CASE c = n \/ (p = n /\ c \notin found)
    <3>1. parents'[<<p, c>>] = 0 /\ Names(p, c) = 0
      BY <1>2, <1>3, <2>0, <2>1
    <3> QED BY <2>0, <3>1
  <2>2. CASE c # n /\ p = n /\ c \in found
    <3>1. parents'[<<p, c>>] = parents[<<n, c>>] /\ parents[<<n, c>>] \in 1 .. StaleBound
      BY <1>3, <2>2
    <3> QED BY <1>2, <2>0, <2>2, <3>1
  <2>3. CASE c # n /\ p # n
    <3>1. parents'[<<p, c>>] = parents[<<p, c>>] /\ p \in nodes
      BY <1>3, <2>0, <2>3
    <3> QED BY <3>1 DEF IInv, Covered
  <2> QED BY <2>1, <2>2, <2>3
<1>8. Store!Create(n)
  <2>1. References' = References
    BY <1>0 DEF References, FieldRefs, ItemRefs
  <2>2. References[n] = {}
    BY <1>1, <1>2, RefsNow DEF IInv
  <2>3. References = [References EXCEPT ![n] = {}]
    BY <2>2 DEF References
  <2>4. {held'} \cap Nodes = {n}
    BY <1>0
  <2> QED BY <1>0, <2>1, <2>3, <2>4 DEF Store!Create
<1> QED BY <1>5, <1>6, <1>7, <1>8 DEF IInv

(* The program forgets a node.                                             *)
LEMMA DropKeeps == IInv /\ Drop => IInv' /\ \E n \in Nodes : Store!Write(n)
<1> SUFFICES ASSUME IInv, Drop PROVE IInv' /\ \E n \in Nodes : Store!Write(n)
  OBVIOUS
<1>0. /\ held' = None /\ held \in Nodes
      /\ UNCHANGED <<nodes, kind, fields, table, size, children, parents>>
  BY DEF Drop, contents, IInv, TypeOK, Elements
<1>1. TypeOK' /\ Exact' /\ Living' /\ Covered'
  BY <1>0 DEF IInv, TypeOK, Exact, Living, Covered, Names, Elements
<1>2. References' = References
  BY <1>0 DEF References, FieldRefs, ItemRefs
<1>3. held \in Usable /\ References[held] \subseteq Usable /\ {held'} \cap Nodes = {}
  BY <1>0, UsableLives, GraphAssumption
<1>4. Store!Write(held)
  BY <1>0, <1>2, <1>3, StoreClosure DEF Store!Write, Store!Reachable
<1> QED BY <1>0, <1>1, <1>4 DEF IInv

(* What the collector marks is what the roots reach: an edge counts        *)
(* something exactly when the parent names the child.                      *)
LEMMA MarkedReachable ==
  ASSUME IInv
  PROVE  /\ Marked = Closure(Nodes, Roots, References) /\ Marked \subseteq nodes
         /\ Roots \subseteq Marked
         /\ \A n \in Marked : References[n] \subseteq Marked
<1>1. \A n \in Nodes : CountedChildren[n] = References[n]
  BY RefsNow DEF CountedChildren, IInv, Exact
<1>2. Marked = Closure(Nodes, Roots, References)
  BY <1>1, ClosureSame DEF Marked
<1>3. /\ Roots \in SUBSET Nodes /\ nodes \in SUBSET Nodes /\ Roots \subseteq nodes
      /\ \A n \in Nodes : References[n] \subseteq nodes /\ References[n] \subseteq Nodes
  BY RefsNow, GraphAssumption DEF IInv, TypeOK, Living
<1>4. Closure(Nodes, Roots, References) \subseteq nodes
  BY <1>3, ClosureLeast
<1>5. /\ Roots \subseteq Closure(Nodes, Roots, References)
      /\ \A n \in Closure(Nodes, Roots, References) :
           References[n] \subseteq Closure(Nodes, Roots, References)
  BY <1>3, ClosureShut
<1> QED BY <1>2, <1>4, <1>5

(* Collecting keeps the invariant and removes what the roots do not reach. *)
LEMMA FreeSpaceKeeps == IInv /\ FreeSpace => IInv' /\ Store!Collect
<1> SUFFICES ASSUME IInv, FreeSpace PROVE IInv' /\ Store!Collect
  OBVIOUS
<1>0. /\ nodes' = Marked /\ held = None /\ held' = None
      /\ Marked \subseteq nodes /\ nodes \subseteq Nodes /\ None \notin Nodes
  BY MarkedReachable, GraphAssumption DEF FreeSpace, IInv, TypeOK
<1>1. \A n \in Marked : fields'[n] = fields[n] /\ table'[n] = table[n] /\ size'[n] = size[n]
  BY <1>0 DEF FreeSpace
<1>2. \A n \in Nodes \ Marked : fields'[n] = NoFields /\ table'[n] = NoTable /\ size'[n] = 0
  BY <1>0 DEF FreeSpace
<1>3. TypeOK'
  <2>1. NoFields \in [Fields -> Elements \cup {Absent}] /\ NoTable \in [Slots -> Elements]
        /\ 0 \in 0 .. MaxLen /\ 0 \in 0 .. Modulus - 1
    BY ModulusType DEF NoFields, NoTable, Elements
  <2>2. Roots \subseteq nodes' /\ nodes' \subseteq Nodes /\ held' \in Elements
    BY <1>0, MarkedReachable DEF Elements
  <2>3. /\ kind' \in [Nodes -> {"OBJ", "ARRAY", "TUPLE"}]
        /\ fields' \in [Nodes -> [Fields -> Elements \cup {Absent}]]
        /\ table' \in [Nodes -> [Slots -> Elements]] /\ size' \in [Nodes -> 0 .. MaxLen]
    <3> HIDE DEF NoFields, NoTable
    <3> QED BY <1>0, <2>1 DEF FreeSpace, IInv, TypeOK
  <2>4. /\ children' \in [Nodes \X Nodes -> 0 .. Modulus - 1]
        /\ parents' \in [Nodes \X Nodes -> 0 .. Modulus - 1]
    BY <1>0, <2>1 DEF FreeSpace, IInv, TypeOK
  <2> QED BY <2>2, <2>3, <2>4 DEF TypeOK
<1>4. \A p \in Marked, c \in Nodes : Names(p, c)' = Names(p, c)
  BY <1>1 DEF Names
<1>5. \A p \in Nodes \ Marked, c \in Nodes : Names(p, c)' = 0
  <2> SUFFICES ASSUME NEW c \in Nodes PROVE Count(NoFields, NoTable, 0, c) = 0
    BY <1>2 DEF Names
  <2>1. c \notin {NoFields[f] : f \in Fields} \cup {NoTable[i] : i \in 0 .. 0 - 1}
    BY GraphAssumption DEF NoFields
  <2>2. ~(Count(NoFields, NoTable, 0, c) >= 1)
    BY <2>1, RefsAreNames
  <2>3. Count(NoFields, NoTable, 0, c) \in 0 .. Cardinality(Fields) + 0
    BY CountType
  <2> QED BY <2>2, <2>3, ModulusType
<1>6. \A p \in Marked, c \in Nodes : Names(p, c) >= 1 => c \in Marked
  BY <1>0, MarkedReachable, RefsNow DEF IInv
<1>7. \A p, c \in Nodes : Names(p, c) \in Nat
  BY NamesType, ModulusType DEF IInv
<1>8. Exact'
  <2> SUFFICES ASSUME NEW p \in Nodes, NEW c \in Nodes PROVE children'[<<p, c>>] = Names(p, c)'
    BY DEF Exact
  <2>1. CASE p \in Marked
    BY <1>0, <1>4, <2>1 DEF FreeSpace, IInv, Exact
  <2>2. CASE p \notin Marked
    BY <1>0, <1>5, <2>2 DEF FreeSpace
  <2> QED BY <2>1, <2>2
<1>9. Living'
  <2> SUFFICES ASSUME NEW p \in Nodes, NEW c \in Nodes, Names(p, c)' >= 1
               PROVE  p \in Marked /\ c \in Marked
    BY <1>0 DEF Living
  <2>1. p \in Marked
    BY <1>5
  <2> QED BY <1>4, <1>6, <2>1
<1>10. Covered'
  <2> SUFFICES ASSUME NEW p \in Marked, NEW c \in Nodes
               PROVE  /\ parents'[<<p, c>>] >= Names(p, c)
                      /\ parents'[<<p, c>>] <= Names(p, c) + StaleBound
    BY <1>0, <1>4 DEF Covered
  <2>1. CASE c \in Marked
    <3>1. parents'[<<p, c>>] = parents[<<p, c>>] /\ p \in nodes
      BY <1>0, <2>1 DEF FreeSpace
    <3> QED BY <3>1 DEF IInv, Covered
  <2>2. CASE c \notin Marked
    <3>1. parents'[<<p, c>>] = 0 /\ p \in Nodes
      BY <1>0, <2>2 DEF FreeSpace
    <3>2. Names(p, c) \in Nat /\ ~(Names(p, c) >= 1)
      BY <1>6, <1>7, <2>2, <3>1
    <3> QED BY <3>1, <3>2, ModulusType
  <2> QED BY <2>1, <2>2
<1>11. Store!Collect
  <2>1. {held} \cap Nodes = {} /\ {held'} \cap Nodes = {held} \cap Nodes
    BY <1>0
  <2>2. nodes' = Store!Reachable(Roots)
    BY <1>0, MarkedReachable, StoreClosure DEF Store!Reachable
  <2>3. \A n \in Nodes : References'[n] = IF n \in Marked THEN References[n] ELSE {}
    <3>1. \A n \in Nodes : References'[n] = {c \in Nodes : Names(n, c)' >= 1}
      BY <1>3, RefsNext DEF Names, TypeOK
    <3>2. \A n \in Nodes : References[n] = {c \in Nodes : Names(n, c) >= 1}
      BY RefsNow DEF IInv
    <3>3. ASSUME NEW n \in Nodes
          PROVE  References'[n] = IF n \in Marked THEN References[n] ELSE {}
      <4>1. CASE n \in Marked
        <5>1. \A c \in Nodes : Names(n, c)' = Names(n, c)
          BY <1>4, <4>1
        <5>2. {c \in Nodes : Names(n, c)' >= 1} = {c \in Nodes : Names(n, c) >= 1}
          BY <5>1, Zenon
        <5> QED BY <3>1, <3>2, <4>1, <5>2
      <4>2. CASE n \notin Marked
        <5>1. \A c \in Nodes : ~(Names(n, c)' >= 1)
          BY <1>5, <4>2
        <5> QED BY <3>1, <4>2, <5>1
      <4> QED BY <4>1, <4>2
    <3> QED BY <3>3
  <2>4. References' = [n \in Nodes |-> References'[n]]
    BY DEF References
  <2>5. References' = [n \in Nodes |-> IF n \in nodes' THEN References[n] ELSE {}]
    BY <1>0, <2>3, <2>4
  <2> QED BY <2>1, <2>2, <2>5 DEF Store!Collect
<1> QED BY <1>3, <1>8, <1>9, <1>10, <1>11 DEF IInv

-----------------------------------------------------------------------------
(* The graph with its roots alone.                                         *)
LEMMA InitKeeps == Init => IInv /\ Store!Init
<1> SUFFICES ASSUME Init PROVE IInv /\ Store!Init
  OBVIOUS
<1>1. TypeOK
  BY GraphAssumption, ModulusType DEF Init, TypeOK, NoFields, NoTable, Elements
<1>2. ASSUME NEW p \in Nodes, NEW c \in Nodes PROVE Names(p, c) = 0
  <2>1. fields[p] = NoFields /\ size[p] = 0
    BY DEF Init
  <2>2. c \notin {fields[p][f] : f \in Fields} \cup {table[p][i] : i \in 0 .. 0 - 1}
    BY <2>1, GraphAssumption DEF NoFields
  <2>3. ~(Names(p, c) >= 1)
    BY <2>1, <2>2, RefsAreNames DEF Names
  <2>4. Names(p, c) \in Nat
    BY <1>1, NamesType, ModulusType
  <2> QED BY <2>3, <2>4
<1>3. Exact /\ Living /\ Covered
  BY <1>2, GraphAssumption, ModulusType DEF Init, Exact, Living, Covered
<1>4. \A n \in Nodes : References[n] = {}
  BY <1>1, <1>2, RefsNow
<1>5. References = [n \in Nodes |-> {}]
  BY <1>4 DEF References
<1>6. {held} \cap Nodes = {}
  BY GraphAssumption DEF Init
<1> QED BY <1>1, <1>3, <1>5, <1>6 DEF IInv, Store!Init, Init

(* Every step keeps the invariant and is a step of the store, or none.     *)
LEMMA StepKeeps == IInv /\ Dense /\ [Next]_vars => IInv' /\ [Store!Next]_(Store!avars)
<1> SUFFICES ASSUME IInv, Dense, [Next]_vars PROVE IInv' /\ [Store!Next]_(Store!avars)
  OBVIOUS
<1>1. CASE UNCHANGED vars
  BY <1>1 DEF vars, contents, IInv, TypeOK, Exact, Living, Covered, Names, Store!avars,
              References, FieldRefs, ItemRefs
<1>2. CASE ProgramStep
  BY <1>2, ProgramKeeps DEF Store!Next
<1>3. CASE \E n \in Nodes, k \in Kinds : NewNode(n, k)
  BY <1>3, NewNodeKeeps DEF Store!Next
<1>4. CASE Drop
  BY <1>4, DropKeeps DEF Store!Next
<1>5. CASE FreeSpace
  BY <1>5, FreeSpaceKeeps DEF Store!Next
<1> QED BY NextSteps, <1>1, <1>2, <1>3, <1>4, <1>5

(* The graph's inductive invariant.                                        *)
THEOREM Invariance == Dense => (Spec => []IInv)
<1> SUFFICES ASSUME Dense PROVE Spec => []IInv
  OBVIOUS
<1>1. Init => IInv
  BY InitKeeps
<1>2. IInv /\ [Next]_vars => IInv'
  BY StepKeeps
<1> QED BY <1>1, <1>2, PTL DEF Spec

(* Every node keeps its type; no count of an edge ever wraps.              *)
THEOREM TypeCorrect == Dense => (Spec => []TypeOK)
<1> SUFFICES ASSUME Dense PROVE Spec => []TypeOK
  OBVIOUS
<1>1. IInv => TypeOK
  BY DEF IInv
<1> QED BY Invariance, <1>1, PTL

(* The count of an edge is the number of the parent's fields and elements  *)
(* that name the child.                                                    *)
THEOREM CountsAreExact == Dense => (Spec => []CountsExact)
<1> SUFFICES ASSUME Dense PROVE Spec => []CountsExact
  OBVIOUS
<1>1. IInv => CountsExact
  BY DEF IInv, TypeOK, Exact, Names, Count, Naming, Items, CountsExact
<1> QED BY Invariance, <1>1, PTL

(* The child's side of an edge counts no less than the parent's.           *)
THEOREM ParentsAreCovered == Dense => (Spec => []ParentsCover)
<1> SUFFICES ASSUME Dense PROVE Spec => []ParentsCover
  OBVIOUS
<1>1. IInv => ParentsCover
  <2> SUFFICES ASSUME IInv, NEW p \in nodes, NEW c \in nodes
               PROVE  parents[<<p, c>>] >= children[<<p, c>>]
    BY DEF ParentsCover
  <2> QED BY DEF IInv, TypeOK, Exact, Covered
<1> QED BY Invariance, <1>1, PTL

(* The graph implements the store of objects: collecting removes exactly   *)
(* the objects that no root reaches.                                       *)
THEOREM Implements == Dense => (Spec => ImplementsObjectStore)
<1> SUFFICES ASSUME Dense PROVE Spec => ImplementsObjectStore
  OBVIOUS
<1>1. Init => Store!Init
  BY InitKeeps
<1>2. IInv /\ [Next]_vars => [Store!Next]_(Store!avars)
  BY StepKeeps
<1> QED BY Invariance, <1>1, <1>2, PTL DEF Spec, ImplementsObjectStore, Store!Spec

(* Whatever leaves the graph leaves it because no root reaches it, and     *)
(* then everything no root reaches leaves.                                 *)
THEOREM Collects == Dense => (Spec => CollectsExactly)
<1> SUFFICES ASSUME Dense PROVE Spec => CollectsExactly
  OBVIOUS
<1> DEFINE Exactly == nodes' \subseteq nodes /\ nodes' # nodes =>
                        nodes' = Closure(Nodes, Roots, References)
<1>1. IInv /\ [Next]_vars => [Exactly]_vars
  <2> SUFFICES ASSUME IInv, Next PROVE Exactly
    OBVIOUS
  <2>1. CASE ProgramStep
    BY <2>1, ProgramChanges DEF Changes, Alone
  <2>2. CASE (\E n \in Nodes, k \in Kinds : NewNode(n, k)) \/ Drop
    BY <2>2 DEF NewNode, Drop, contents
  <2>3. CASE FreeSpace
    BY <2>3, MarkedReachable DEF FreeSpace
  <2> QED BY NextSteps, <2>1, <2>2, <2>3
<1> QED BY Invariance, <1>1, PTL DEF Spec, CollectsExactly
=============================================================================
