----------------------------- MODULE HashMapProofs -----------------------------
(***************************************************************************)
(* The hash map, for every hash function, every table size, every set of   *)
(* keys and every bound of the probing.                                    *)
(*                                                                         *)
(* Laid is invariant whatever is done: each entry lies where its probes    *)
(* say, on a way without vacant slots, the chain is the slots that are     *)
(* taken, and the key in hand has a way of the same kind behind it.        *)
(*                                                                         *)
(* Tidy is invariant in a map from which nothing is removed. Its heart is  *)
(* that a key's entry needed, at every slot it went past, no more probes   *)
(* than the entry that lies there (AllAhead), so that an insertion which   *)
(* may rob an entry cannot have its own key further on (AbsentAtPoorer).   *)
(* Every step then is a step of the dictionary or none it can see.         *)
(*                                                                         *)
(* A removal breaks that: the mark it leaves can be taken by a key that    *)
(* lies further on, and what is then in the map twice is removed once.     *)
(***************************************************************************)
EXTENDS HashMap, FiniteSetTheorems, SequenceTheorems, TLAPS

(* A map or a table under construction: its slots and its chain.           *)
Entries == [key : Keys \cup {NoKey}, probes : Nat \cup {-1}]
Tables(s) == [0 .. s - 1 -> Entries]
IsMap(m) ==
  /\ Size(m) \in Nat \ {0}
  /\ m \in [table : Tables(Size(m)), list : Seq(0 .. Size(m) - 1)]

Taken(m) == {i \in DOMAIN m.table : m.table[i].probes > 0}
KeysOf(m) == {m.table[i].key : i \in Taken(m)}

(* The slot that key k comes to after n rounds.                            *)
At(hash, m, k, n) == Pos(hash[k], n, Size(m))

(* Where an entry lies, and that no slot before that on its way is vacant. *)
Walked(hash, m, k, n) == \A j \in 0 .. n - 1 : m.table[At(hash, m, k, j)].probes # 0
Placed(hash, m, i) ==
  LET e == m.table[i]
  IN /\ e.key \in Keys
     /\ At(hash, m, e.key, e.probes - 1) = i
     /\ Walked(hash, m, e.key, e.probes - 1)
AllPlaced(hash, m) == \A i \in Taken(m) : Placed(hash, m, i)

(* The chain is the slots that are taken, each of them once.               *)
Chained(m) ==
  /\ \A i \in Taken(m) : \E p \in DOMAIN m.list : m.list[p] = i
  /\ \A p \in DOMAIN m.list : m.list[p] \in Taken(m)
  /\ \A p, q \in DOMAIN m.list : m.list[p] = m.list[q] => p = q
  /\ Len(m.list) = Cardinality(Taken(m))

Sound(hash, m) == IsMap(m) /\ AllPlaced(hash, m) /\ Chained(m)

-----------------------------------------------------------------------------
LEMMA EmptySize ==
  ASSUME NEW s \in Nat
  PROVE  Size(Empty(s)) = s
<1>1. DOMAIN Empty(s).table = 0 .. s - 1
  BY DEF Empty
<1>2. Cardinality(0 .. s - 1) = s
  BY FS_Interval
<1> QED BY <1>1, <1>2 DEF Size

LEMMA MapDomain ==
  ASSUME NEW m, IsMap(m)
  PROVE  DOMAIN m.table = 0 .. Size(m) - 1 /\ 0 \in DOMAIN m.table
BY DEF IsMap, Tables

LEMMA TakenFinite ==
  ASSUME NEW m, IsMap(m)
  PROVE  IsFiniteSet(Taken(m)) /\ Taken(m) \subseteq DOMAIN m.table
<1>1. IsFiniteSet(0 .. Size(m) - 1)
  BY FS_Interval DEF IsMap
<1> QED BY <1>1, MapDomain, FS_Subset DEF Taken

LEMMA NotNoMap ==
  ASSUME NEW m, IsMap(m)
  PROVE  m # NoMap
<1>1. Size(NoMap) = 0
  BY EmptySize DEF NoMap
<1> QED BY <1>1 DEF IsMap

LEMMA AtType ==
  ASSUME NEW m, IsMap(m), NEW hash \in [Keys -> Nat], NEW k \in Keys, NEW n \in Nat
  PROVE  At(hash, m, k, n) \in DOMAIN m.table
<1>1. PICK s \in Nat \ {0} : s = Size(m)
  BY DEF IsMap
<1>2. PICK h \in Nat : h = hash[k]
  OBVIOUS
<1>3. PICK q \in Nat : q = h + n * n
  OBVIOUS
<1>4. q % s \in 0 .. s - 1
  BY <1>1, <1>3
<1> QED BY <1>1, <1>2, <1>3, <1>4, MapDomain DEF At, Pos

LEMMA EmptySound ==
  ASSUME NEW s \in Nat \ {0}, NEW hash
  PROVE  Sound(hash, Empty(s)) /\ Taken(Empty(s)) = {}
<1>1. Size(Empty(s)) = s
  BY EmptySize
<1>2. IsMap(Empty(s))
  BY <1>1 DEF IsMap, Empty, Tables, Entries, Vacant
<1>3. Taken(Empty(s)) = {}
  BY DEF Taken, Empty, Vacant
<1>4. Empty(s).list = << >>
  BY DEF Empty
<1>5. Chained(Empty(s))
  BY <1>3, <1>4, FS_EmptySet DEF Chained
<1> QED BY <1>2, <1>3, <1>5 DEF Sound, AllPlaced

LEMMA EntryType ==
  ASSUME NEW m, IsMap(m), NEW i \in DOMAIN m.table
  PROVE  m.table[i] \in Entries
BY DEF IsMap, Tables

-----------------------------------------------------------------------------
(* Key k is written to slot i, where its way of p rounds ends.             *)
Written(m, m2, i, k, p) == m2.table = [m.table EXCEPT ![i] = [key |-> k, probes |-> p]]
Otherwise(m, m2, i, k, p) ==
  /\ DOMAIN m2.table = DOMAIN m.table /\ Size(m2) = Size(m)
  /\ m2.table \in Tables(Size(m))
  /\ m2.table[i].key = k /\ m2.table[i].probes = p
  /\ \A j \in DOMAIN m.table : j # i => m2.table[j] = m.table[j]
  /\ Taken(m2) = Taken(m) \cup {i}

LEMMA WrittenSlots ==
  ASSUME NEW m, IsMap(m), NEW m2, NEW i \in DOMAIN m.table, NEW k \in Keys, NEW p \in Nat \ {0},
         Written(m, m2, i, k, p)
  PROVE  Otherwise(m, m2, i, k, p)
<1>1. /\ DOMAIN m2.table = DOMAIN m.table /\ Size(m2) = Size(m)
      /\ m2.table \in Tables(Size(m))
      /\ m2.table[i] = [key |-> k, probes |-> p]
      /\ \A j \in DOMAIN m.table : j # i => m2.table[j] = m.table[j]
  <2>1. m.table \in Tables(Size(m))
    BY DEF IsMap
  <2>2. [key |-> k, probes |-> p] \in Entries
    BY DEF Entries
  <2> QED BY <2>1, <2>2 DEF Written, Tables, Size
<1>2. m2.table[i].key = k /\ m2.table[i].probes = p /\ p > 0
  BY <1>1
<1>3. \A j \in DOMAIN m.table : m2.table[j].probes > 0 <=> j = i \/ m.table[j].probes > 0
  BY <1>1, <1>2
<1>4. Taken(m2) = Taken(m) \cup {i}
  BY <1>1, <1>3 DEF Taken
<1> QED BY <1>1, <1>2, <1>4 DEF Otherwise

LEMMA WrittenPlaced ==
  ASSUME NEW m, IsMap(m), NEW m2, NEW i \in DOMAIN m.table, NEW k \in Keys, NEW p \in Nat \ {0},
         Written(m, m2, i, k, p), NEW hash \in [Keys -> Nat],
         AllPlaced(hash, m), At(hash, m, k, p - 1) = i, Walked(hash, m, k, p - 1)
  PROVE  AllPlaced(hash, m2)
<1>0. Otherwise(m, m2, i, k, p)
  BY WrittenSlots
<1>1. ASSUME NEW k2 \in Keys, NEW n \in Nat PROVE At(hash, m2, k2, n) = At(hash, m, k2, n)
  BY <1>0 DEF At, Otherwise
<1>2. ASSUME NEW k2 \in Keys, NEW n \in Nat, Walked(hash, m, k2, n) PROVE Walked(hash, m2, k2, n)
  <2> SUFFICES ASSUME NEW j \in 0 .. n - 1 PROVE m2.table[At(hash, m2, k2, j)].probes # 0
    BY DEF Walked
  <2>1. At(hash, m, k2, j) \in DOMAIN m.table /\ At(hash, m2, k2, j) = At(hash, m, k2, j)
    BY <1>1, AtType
  <2>2. m.table[At(hash, m, k2, j)].probes # 0
    BY <1>2 DEF Walked
  <2>3. CASE At(hash, m, k2, j) = i
    BY <2>1, <2>3, <1>0 DEF Otherwise
  <2>4. CASE At(hash, m, k2, j) # i
    BY <2>1, <2>2, <2>4, <1>0 DEF Otherwise
  <2> QED BY <2>3, <2>4
<1> SUFFICES ASSUME NEW j \in Taken(m2) PROVE Placed(hash, m2, j)
  BY DEF AllPlaced
<1>3. CASE j = i
  <2>1. m2.table[j].key = k /\ m2.table[j].probes = p /\ p - 1 \in Nat
    BY <1>3, <1>0 DEF Otherwise
  <2>2. At(hash, m2, k, p - 1) = i /\ Walked(hash, m2, k, p - 1)
    BY <1>1, <1>2, <2>1
  <2> QED BY <1>3, <2>1, <2>2 DEF Placed
<1>4. CASE j # i
  <2>1. j \in Taken(m) /\ j \in DOMAIN m.table /\ m2.table[j] = m.table[j]
    BY <1>4, <1>0 DEF Taken, Otherwise
  <2>2. Placed(hash, m, j) /\ m.table[j].probes > 0
    BY <2>1 DEF AllPlaced, Taken
  <2>3. m.table[j].probes - 1 \in Nat
    BY <2>1, <2>2, EntryType DEF Entries
  <2> QED BY <2>1, <2>2, <2>3, <1>1, <1>2 DEF Placed
<1> QED BY <1>3, <1>4

(* A slot that was vacant or marked is taken, at the end of the chain.     *)
LEMMA TakeSlot ==
  ASSUME NEW hash \in [Keys -> Nat], NEW m, Sound(hash, m), NEW i \in DOMAIN m.table,
         NEW k \in Keys, NEW p \in Nat \ {0},
         ~(m.table[i].probes > 0), At(hash, m, k, p - 1) = i, Walked(hash, m, k, p - 1),
         NEW m2, m2 = [table |-> [m.table EXCEPT ![i] = [key |-> k, probes |-> p]],
                       list  |-> Append(m.list, i)]
  PROVE  /\ Sound(hash, m2) /\ Written(m, m2, i, k, p)
         /\ i \notin Taken(m) /\ Cardinality(Taken(m2)) = Cardinality(Taken(m)) + 1
<1>1. Written(m, m2, i, k, p) /\ m2.list = Append(m.list, i) /\ IsMap(m) /\ AllPlaced(hash, m) /\ Chained(m)
  BY DEF Written, Sound
<1>2. AllPlaced(hash, m2)
  BY <1>1, WrittenPlaced
<1>3. /\ Taken(m2) = Taken(m) \cup {i} /\ Size(m2) = Size(m) /\ DOMAIN m2.table = DOMAIN m.table
      /\ m2.table \in Tables(Size(m))
  <2>1. Otherwise(m, m2, i, k, p)
    BY <1>1, WrittenSlots
  <2> QED BY <2>1 DEF Otherwise
<1>4. m.list \in Seq(0 .. Size(m) - 1) /\ i \in 0 .. Size(m) - 1 /\ i \notin Taken(m)
  BY <1>1, MapDomain DEF IsMap, Taken
<1>5. m2.list \in Seq(0 .. Size(m) - 1)
  BY <1>1, <1>4
<1>6. IsMap(m2)
  BY <1>1, <1>3, <1>5 DEF IsMap
<1>7. Cardinality(Taken(m2)) = Cardinality(Taken(m)) + 1
  <2>1. IsFiniteSet(Taken(m))
    BY <1>1, TakenFinite
  <2>2. Cardinality(Taken(m) \cup {i}) = Cardinality(Taken(m)) + 1
    <3> DEFINE S == Taken(m)
    <3>1. IsFiniteSet(S) /\ i \notin S
      BY <2>1, <1>4
    <3> HIDE DEF S
    <3>2. Cardinality(S \cup {i}) = Cardinality(S) + 1
      BY <3>1, FS_AddElement
    <3> QED BY <3>2 DEF S
  <2> QED BY <2>2, <1>3
<1>8. /\ Len(m2.list) = Len(m.list) + 1 /\ DOMAIN m2.list = DOMAIN m.list \cup {Len(m.list) + 1}
      /\ Len(m.list) + 1 \notin DOMAIN m.list
      /\ \A q \in DOMAIN m.list : m2.list[q] = m.list[q]
      /\ m2.list[Len(m.list) + 1] = i
  BY <1>1, <1>4
<1>9. Chained(m2)
  <2>1. ASSUME NEW j \in Taken(m2) PROVE \E q \in DOMAIN m2.list : m2.list[q] = j
    <3>1. CASE j = i
      BY <3>1, <1>8
    <3>2. CASE j # i
      <4>1. PICK q \in DOMAIN m.list : m.list[q] = j
        BY <3>2, <1>1, <1>3 DEF Chained
      <4> QED BY <4>1, <1>8
    <3> QED BY <3>1, <3>2
  <2>2. \A q \in DOMAIN m2.list : m2.list[q] \in Taken(m2)
    BY <1>1, <1>3, <1>8 DEF Chained
  <2>3. \A q, r \in DOMAIN m2.list : m2.list[q] = m2.list[r] => q = r
    BY <1>1, <1>4, <1>8 DEF Chained
  <2>4. Len(m2.list) = Cardinality(Taken(m2))
    BY <1>1, <1>7, <1>8 DEF Chained
  <2> QED BY <2>1, <2>2, <2>3, <2>4 DEF Chained
<1> QED BY <1>1, <1>2, <1>4, <1>6, <1>7, <1>9 DEF Sound

(* An entry is robbed: its slot stays where it is in the chain.            *)
LEMMA RobSlot ==
  ASSUME NEW hash \in [Keys -> Nat], NEW m, Sound(hash, m), NEW i \in Taken(m),
         NEW k \in Keys, NEW p \in Nat \ {0},
         At(hash, m, k, p - 1) = i, Walked(hash, m, k, p - 1),
         NEW m2, m2 = [m EXCEPT !.table[i] = [key |-> k, probes |-> p]]
  PROVE  Sound(hash, m2) /\ Written(m, m2, i, k, p) /\ Taken(m2) = Taken(m)
<1>1. IsMap(m) /\ AllPlaced(hash, m) /\ Chained(m) /\ i \in DOMAIN m.table
  BY DEF Sound, Taken
<1>2. Written(m, m2, i, k, p) /\ m2.list = m.list /\ DOMAIN m2 = {"table", "list"} /\ m2 = [table |-> m2.table, list |-> m2.list]
  BY <1>1 DEF Written, IsMap
<1>3. AllPlaced(hash, m2)
  BY <1>1, <1>2, WrittenPlaced
<1>4. Taken(m2) = Taken(m) /\ Size(m2) = Size(m) /\ m2.table \in Tables(Size(m))
  <2>1. Otherwise(m, m2, i, k, p)
    BY <1>1, <1>2, WrittenSlots
  <2> QED BY <2>1 DEF Otherwise
<1>5. IsMap(m2)
  BY <1>1, <1>2, <1>4 DEF IsMap
<1>6. Chained(m2)
  BY <1>1, <1>2, <1>4 DEF Chained
<1> QED BY <1>2, <1>3, <1>4, <1>5, <1>6 DEF Sound

-----------------------------------------------------------------------------
(* A slot is marked and leaves the chain.                                  *)
OneLess(T, list, slot, u) ==
  /\ u \in Seq(T) /\ Len(u) = Len(list) - 1
  /\ \A q \in DOMAIN u : u[q] # slot /\ \E r \in DOMAIN list : list[r] = u[q]
  /\ \A r \in DOMAIN list : list[r] # slot => \E q \in DOMAIN u : u[q] = list[r]
  /\ \A q, r \in DOMAIN u : u[q] = u[r] => q = r

LEMMA UnlinkedChain ==
  ASSUME NEW T, NEW list \in Seq(T), NEW slot, \E p \in DOMAIN list : list[p] = slot,
         \A p, q \in DOMAIN list : list[p] = list[q] => p = q
  PROVE  OneLess(T, list, slot, Unlinked(list, slot))
<1> DEFINE u == Unlinked(list, slot)
<1>1. PICK at \in DOMAIN list : at = (CHOOSE i \in DOMAIN list : list[i] = slot) /\ list[at] = slot
  OBVIOUS
<1>2. PICK len \in Nat : len = Len(list) /\ DOMAIN list = 1 .. len
  OBVIOUS
<1>3. u = [i \in 1 .. len - 1 |-> IF i < at THEN list[i] ELSE list[i + 1]]
  BY <1>1, <1>2 DEF Unlinked
<1> HIDE DEF u
<1>4. at \in 1 .. len /\ len - 1 \in Nat
  BY <1>1, <1>2
<1>5. \A i \in 1 .. len - 1 : i + 1 \in 1 .. len /\ i \in 1 .. len
  BY <1>4
<1>6. u \in Seq(T) /\ Len(u) = len - 1 /\ DOMAIN u = 1 .. len - 1
  <2>1. u \in [1 .. len - 1 -> T]
    BY <1>2, <1>3, <1>5
  <2> QED BY <1>4, <2>1
<1>7. \A q \in DOMAIN u : u[q] = list[IF q < at THEN q ELSE q + 1]
  BY <1>3, <1>6
<1>8. \A q \in DOMAIN u : LET r == IF q < at THEN q ELSE q + 1 IN r \in DOMAIN list /\ r # at
  BY <1>2, <1>4, <1>6
<1>9. ASSUME NEW q \in DOMAIN u PROVE u[q] # slot /\ \E r \in DOMAIN list : list[r] = u[q]
  BY <1>1, <1>7, <1>8
<1>10. ASSUME NEW r \in DOMAIN list, list[r] # slot PROVE \E q \in DOMAIN u : u[q] = list[r]
  <2>1. CASE r < at
    <3>1. r \in DOMAIN u
      BY <2>1, <1>2, <1>4, <1>6
    <3> QED BY <2>1, <3>1, <1>7
  <2>2. CASE r > at
    <3>1. r - 1 \in DOMAIN u /\ ~(r - 1 < at) /\ r - 1 + 1 = r
      BY <2>2, <1>2, <1>4, <1>6
    <3> QED BY <3>1, <1>7
  <2>3. r # at
    BY <1>1, <1>10
  <2> QED BY <2>1, <2>2, <2>3, <1>2, <1>4
<1>11. ASSUME NEW q \in DOMAIN u, NEW r \in DOMAIN u, u[q] = u[r] PROVE q = r
  <2>1. (IF q < at THEN q ELSE q + 1) = (IF r < at THEN r ELSE r + 1)
    BY <1>7, <1>8, <1>11
  <2> QED BY <2>1, <1>4, <1>6
<1>12. u \in Seq(T) /\ Len(u) = Len(list) - 1
  BY <1>2, <1>6
<1> QED BY <1>9, <1>10, <1>11, <1>12 DEF u, OneLess

LEMMA MarkSlot ==
  ASSUME NEW hash \in [Keys -> Nat], NEW m, Sound(hash, m), NEW i \in Taken(m),
         NEW m2, m2 = [table |-> [m.table EXCEPT ![i].probes = -1],
                       list  |-> Unlinked(m.list, i)]
  PROVE  Sound(hash, m2)
<1>1. IsMap(m) /\ AllPlaced(hash, m) /\ Chained(m) /\ i \in DOMAIN m.table
  BY DEF Sound, Taken
<1>2. /\ m2.table = [m.table EXCEPT ![i].probes = -1] /\ m2.list = Unlinked(m.list, i)
      /\ m2 = [table |-> m2.table, list |-> m2.list]
  OBVIOUS
<1>3. m.table \in Tables(Size(m)) /\ m.list \in Seq(0 .. Size(m) - 1)
  BY <1>1 DEF IsMap
<1>4. /\ DOMAIN m2.table = DOMAIN m.table /\ m2.table \in Tables(Size(m))
      /\ m2.table[i].probes = -1
      /\ \A j \in DOMAIN m.table : j # i => m2.table[j] = m.table[j]
  <2>1. m.table[i] \in Entries
    BY <1>1, EntryType
  <2>2. [m.table[i] EXCEPT !.probes = -1] \in Entries /\ [m.table[i] EXCEPT !.probes = -1].probes = -1
    BY <2>1 DEF Entries
  <2>3. m2.table = [m.table EXCEPT ![i] = [m.table[i] EXCEPT !.probes = -1]]
    BY <1>2
  <2> QED BY <1>1, <1>3, <2>2, <2>3 DEF Tables
<1>5. Size(m2) = Size(m)
  BY <1>4 DEF Size
<1>6. Taken(m2) = Taken(m) \ {i}
  BY <1>4 DEF Taken
<1>7. OneLess(0 .. Size(m) - 1, m.list, i, m2.list)
  <2>1. \E p \in DOMAIN m.list : m.list[p] = i
    BY <1>1 DEF Chained
  <2>2. \A p, q \in DOMAIN m.list : m.list[p] = m.list[q] => p = q
    BY <1>1 DEF Chained
  <2> QED BY <1>2, <1>3, <2>1, <2>2, UnlinkedChain
<1>8. IsMap(m2)
  BY <1>1, <1>2, <1>4, <1>5, <1>7 DEF IsMap, OneLess
<1>9. Chained(m2)
  <2>1. ASSUME NEW j \in Taken(m2) PROVE \E q \in DOMAIN m2.list : m2.list[q] = j
    <3>1. PICK r \in DOMAIN m.list : m.list[r] = j
      BY <1>1, <1>6 DEF Chained
    <3> QED BY <3>1, <1>6, <1>7 DEF OneLess
  <2>2. \A q \in DOMAIN m2.list : m2.list[q] \in Taken(m2)
    <3> SUFFICES ASSUME NEW q \in DOMAIN m2.list PROVE m2.list[q] \in Taken(m) /\ m2.list[q] # i
      BY <1>6
    <3>1. m2.list[q] # i /\ \E r \in DOMAIN m.list : m.list[r] = m2.list[q]
      BY <1>7 DEF OneLess
    <3>2. PICK r \in DOMAIN m.list : m.list[r] = m2.list[q]
      BY <3>1
    <3> QED BY <3>1, <3>2, <1>1 DEF Chained
  <2>3. Cardinality(Taken(m2)) = Cardinality(Taken(m)) - 1
    <3> DEFINE S == Taken(m)
    <3>1. IsFiniteSet(S) /\ i \in S
      BY <1>1, TakenFinite
    <3> HIDE DEF S
    <3>2. Cardinality(S \ {i}) = Cardinality(S) - 1
      BY <3>1, FS_RemoveElement
    <3> QED BY <3>2, <1>6 DEF S
  <2>4. Len(m2.list) = Cardinality(Taken(m2))
    BY <2>3, <1>1, <1>7 DEF Chained, OneLess
  <2> QED BY <2>1, <2>2, <2>4, <1>7 DEF Chained, OneLess
<1>10. AllPlaced(hash, m2)
  <2> SUFFICES ASSUME NEW j \in Taken(m2) PROVE Placed(hash, m2, j)
    BY DEF AllPlaced
  <2>1. j \in Taken(m) /\ j # i /\ j \in DOMAIN m.table /\ m2.table[j] = m.table[j]
    BY <1>4, <1>6 DEF Taken
  <2>2. Placed(hash, m, j) /\ m.table[j].probes > 0
    BY <2>1, <1>1 DEF AllPlaced, Taken
  <2> DEFINE k == m.table[j].key
             n == m.table[j].probes - 1
  <2>3. n \in Nat /\ k \in Keys
    BY <2>1, <2>2, <1>1, EntryType DEF Entries, Placed
  <2>4. \A l : At(hash, m2, k, l) = At(hash, m, k, l)
    BY <1>5 DEF At
  <2>5. Walked(hash, m, k, n) /\ At(hash, m, k, n) = j
    BY <2>2 DEF Placed
  <2> HIDE DEF k, n
  <2>6. Walked(hash, m2, k, n)
    <3> SUFFICES ASSUME NEW l \in 0 .. n - 1 PROVE m2.table[At(hash, m2, k, l)].probes # 0
      BY DEF Walked
    <3>1. At(hash, m, k, l) \in DOMAIN m.table /\ At(hash, m2, k, l) = At(hash, m, k, l)
      BY <1>1, <2>3, <2>4, AtType
    <3>2. m.table[At(hash, m, k, l)].probes # 0
      BY <2>5 DEF Walked
    <3>3. CASE At(hash, m, k, l) = i
      BY <3>1, <3>3, <1>4
    <3>4. CASE At(hash, m, k, l) # i
      BY <3>1, <3>2, <3>4, <1>4
    <3> QED BY <3>3, <3>4
  <2>7. At(hash, m2, k, n) = j
    BY <2>4, <2>5
  <2> QED BY <2>1, <2>3, <2>6, <2>7 DEF Placed, k, n
<1> QED BY <1>8, <1>9, <1>10 DEF Sound

-----------------------------------------------------------------------------
(* The call under way: its fields, and what an insertion has walked past.  *)
Ops ==
  [pc : {"idle", "next", "insert", "lookup", "remove", "return"},
   kind : {"none", "insert", "lookup", "remove"},
   arg : Keys \cup {NoKey}, key : Keys \cup {NoKey}, n : Nat, empty : Int, emptyN : Int,
   rest : Seq(Keys), robbed : BOOLEAN, answer : {"none", "yes", "no"}]

LEMMA IdleType ==
  /\ Idle \in Ops /\ Idle.pc = "idle" /\ Idle.kind = "none" /\ Idle.arg = NoKey /\ Idle.key = NoKey /\ Idle.n = 0
  /\ Idle.empty = NoSlot /\ Idle.robbed = FALSE /\ Idle.answer = "none" /\ Idle.rest = << >>
<1>1. << >> \in Seq(Keys) /\ NoSlot \in Int /\ -1 \in Int
  BY DEF NoSlot
<1> QED BY <1>1 DEF Idle, Ops

(* A call that begins, and a key that is put in the new table.             *)
Begun(o, pc, kind, arg, key, rest) ==
  /\ o \in Ops /\ o.pc = pc /\ o.arg = arg /\ o.kind = kind /\ o.key = key /\ o.n = 0 /\ o.rest = rest
  /\ o.empty = NoSlot /\ o.robbed = FALSE /\ o.answer = "none"

LEMMA BeginType ==
  ASSUME NEW pc \in {"insert", "lookup", "remove"}, NEW kind \in {"insert", "lookup", "remove"},
         NEW arg \in Keys, NEW key \in Keys, NEW o,
         o = [Idle EXCEPT !.pc = pc, !.arg = arg, !.kind = kind, !.key = key]
  PROVE  Begun(o, pc, kind, arg, key, << >>)
<1>1. pc \in {"idle", "next", "insert", "lookup", "remove", "return"}
      /\ kind \in {"none", "insert", "lookup", "remove"}
  OBVIOUS
<1> QED BY <1>1, IdleType DEF Ops, Begun

LEMMA NextType ==
  ASSUME NEW arg \in Keys, NEW rest \in Seq(Keys), NEW o,
         o = [Idle EXCEPT !.pc = "next", !.arg = arg, !.kind = "insert", !.rest = rest]
  PROVE  Begun(o, "next", "insert", arg, NoKey, rest)
BY IdleType DEF Ops, Begun

LEMMA RestType ==
  ASSUME NEW arg \in Keys, NEW key \in Keys, NEW rest \in Seq(Keys), NEW o,
         o = [Idle EXCEPT !.pc = "insert", !.arg = arg, !.kind = "insert", !.key = key, !.rest = rest]
  PROVE  Begun(o, "insert", "insert", arg, key, rest)
BY IdleType DEF Ops, Begun

(* A helper that goes on.                                                  *)
Onward(o, p, key, n, e, en, robbed) ==
  /\ p \in Ops /\ p.pc = o.pc /\ p.arg = o.arg /\ p.kind = o.kind /\ p.rest = o.rest
  /\ p.answer = o.answer /\ p.key = key /\ p.n = n /\ p.empty = e /\ p.emptyN = en /\ p.robbed = robbed

LEMMA MarkedType ==
  ASSUME NEW o \in Ops, NEW n \in Nat, NEW e \in Int, NEW en \in Int, NEW p,
         p = [o EXCEPT !.n = n, !.empty = e, !.emptyN = en]
  PROVE  Onward(o, p, o.key, n, e, en, o.robbed)
BY DEF Ops, Onward

LEMMA PassType ==
  ASSUME NEW o \in Ops, NEW p, p = [o EXCEPT !.n = @ + 1]
  PROVE  Onward(o, p, o.key, o.n + 1, o.empty, o.emptyN, o.robbed)
BY DEF Ops, Onward

(* The round that a search goes on with, modulo the size of the table.     *)
LEMMA NextRound ==
  ASSUME NEW n \in Nat, IsMap(map)
  PROVE  (n + 1) % Size(map) \in 0 .. n + 1
<1> DEFINE s == Size(map)
           q == (n + 1) % s
<1>1. s \in Nat \ {0}
  BY DEF IsMap
<1> HIDE DEF s
<1>2. q \in 0 .. s - 1 /\ (n + 1 < s => q = n + 1)
  BY <1>1
<1> HIDE DEF q
<1>3. q \in 0 .. n + 1
  BY <1>1, <1>2
<1> QED BY <1>3 DEF q, s

LEMMA SearchPassType ==
  ASSUME NEW o \in Ops, NEW n \in Nat, NEW p, p = [o EXCEPT !.n = n]
  PROVE  Onward(o, p, o.key, n, o.empty, o.emptyN, o.robbed)
BY DEF Ops, Onward

LEMMA RobType ==
  ASSUME NEW o \in Ops, NEW k \in Keys, NEW n \in Nat, NEW p,
         p = [o EXCEPT !.key = k, !.n = n, !.empty = NoSlot, !.emptyN = -1, !.robbed = TRUE]
  PROVE  Onward(o, p, k, n, NoSlot, -1, TRUE)
<1>1. NoSlot \in Int /\ -1 \in Int
  BY DEF NoSlot
<1> QED BY <1>1 DEF Ops, Onward

InHandOK(hash, m, o) ==
  /\ Walked(hash, m, o.key, o.n)
  /\ o.empty # NoSlot =>
       /\ o.empty \in DOMAIN m.table /\ m.table[o.empty].probes = -1
       /\ o.emptyN \in 1 .. o.n /\ At(hash, m, o.key, o.emptyN - 1) = o.empty

Calls ==
  /\ op \in Ops /\ case \in Cases /\ num_entries \in Int
  /\ op.pc # "idle" => op.arg \in Keys
  /\ op.pc \in {"insert", "lookup", "remove"} => op.key \in Keys
  /\ Rebuilding => op.pc \in {"insert", "next"}
  /\ op.pc = "next" => Rebuilding
Maps ==
  /\ Sound(case.hash, map)
  /\ Rebuilding => Sound(case.hash, new)
Hand == op.pc = "insert" => InHandOK(case.hash, Target, op)

Laid == Calls /\ Maps /\ Hand

LEMMA HashType ==
  ASSUME Calls
  PROVE  case.hash \in [Keys -> Nat] /\ case.size \in Nat \ {0}
BY ConstantsFit DEF Calls

(* The slot that a helper or a search looks at.                            *)
Looks ==
  /\ case.hash \in [Keys -> Nat] /\ op.key \in Keys /\ op.n \in Nat
  /\ Sound(case.hash, Target) /\ IsMap(Target)
  /\ Slot = At(case.hash, Target, op.key, op.n) /\ Slot \in DOMAIN Target.table
  /\ Entry \in Entries /\ Entry = Target.table[Slot]

LEMMA LooksAt ==
  ASSUME Laid, op.pc \in {"insert", "lookup", "remove"}
  PROVE  Looks
<1>1. case.hash \in [Keys -> Nat] /\ op.key \in Keys /\ op.n \in Nat
  BY HashType DEF Laid, Calls, Ops
<1>2. Sound(case.hash, Target) /\ IsMap(Target)
  BY DEF Laid, Maps, Target, Sound
<1>3. Slot = At(case.hash, Target, op.key, op.n) /\ Slot \in DOMAIN Target.table
  BY <1>1, <1>2, AtType DEF Slot, At
<1>4. Entry \in Entries
  BY <1>2, <1>3, EntryType DEF Entry
<1> QED BY <1>1, <1>2, <1>3, <1>4 DEF Looks, Entry

(* One round more.                                                         *)
LEMMA WalkedOn ==
  ASSUME NEW hash, NEW m, NEW k, NEW n \in Nat, Walked(hash, m, k, n),
         m.table[At(hash, m, k, n)].probes # 0
  PROVE  Walked(hash, m, k, n + 1)
<1> SUFFICES ASSUME NEW j \in 0 .. n PROVE m.table[At(hash, m, k, j)].probes # 0
  BY DEF Walked
<1>1. j = n \/ j \in 0 .. n - 1
  OBVIOUS
<1> QED BY <1>1 DEF Walked

LEMMA WalkedLess ==
  ASSUME NEW hash, NEW m, NEW k, NEW n \in Nat, NEW l \in 0 .. n, Walked(hash, m, k, n)
  PROVE  Walked(hash, m, k, l)
BY DEF Walked

(* The helper puts m2 in place of the table it works on.                   *)
LEMMA SetTargetKeeps ==
  ASSUME Laid, NEW m2, Sound(case.hash, m2), SetTarget(m2), UNCHANGED case
  PROVE  Maps' /\ Rebuilding' = Rebuilding /\ Target' = m2
<1>1. m2 # NoMap
  BY NotNoMap DEF Sound
<1>2. CASE Rebuilding
  BY <1>1, <1>2 DEF SetTarget, Rebuilding, Maps, Target, Laid
<1>3. CASE ~Rebuilding
  BY <1>1, <1>3 DEF SetTarget, Rebuilding, Maps, Target, Laid
<1> QED BY <1>2, <1>3

LEMMA SameMaps ==
  ASSUME Laid, UNCHANGED <<case, map, new>>
  PROVE  Maps' /\ Rebuilding' = Rebuilding /\ Target' = Target
BY DEF Maps, Rebuilding, Target, Laid

(* The places in a call.                                                   *)
LEMMA Returns ==
  ASSUME Laid, op.pc = "insert", NEW a \in {"yes", "no"}, HelperReturns(a), Rebuilding' = Rebuilding,
         UNCHANGED case
  PROVE  Calls' /\ Hand' /\ op' = IF Rebuilding THEN [op EXCEPT !.pc = "next"]
                                  ELSE [op EXCEPT !.pc = "return", !.answer = a]
<1>1. CASE Rebuilding
  BY <1>1 DEF HelperReturns, Laid, Calls, Hand, Ops
<1>2. CASE ~Rebuilding
  <2>1. op' = [op EXCEPT !.pc = "return", !.answer = a]
    BY <1>2 DEF HelperReturns
  <2>2. num_entries' = num_entries + (IF a = "yes" THEN 1 ELSE 0) /\ num_entries \in Int
    BY <1>2 DEF HelperReturns, Laid, Calls
  <2>3. num_entries' \in Int
    BY <2>2
  <2>4. op \in Ops /\ op.arg \in Keys
    BY DEF Laid, Calls
  <2>5. op' \in Ops /\ op'.pc = "return" /\ op'.arg = op.arg
    BY <2>1, <2>4 DEF Ops
  <2>6. ~Rebuilding' /\ case' \in Cases
    BY <1>2 DEF Laid, Calls
  <2> QED BY <2>1, <2>3, <2>4, <2>5, <2>6, <1>2 DEF Calls, Hand
<1> QED BY <1>1, <1>2

(* A helper goes on with other fields.                                     *)
LEMMA GoesOn ==
  ASSUME Laid, op.pc = "insert", NEW o \in Ops, op' = o, o.pc = "insert", o.key \in Keys, o.arg = op.arg,
         num_entries' \in Int, Rebuilding' = Rebuilding, UNCHANGED case, InHandOK(case.hash, Target', o)
  PROVE  Calls' /\ Hand'
BY DEF Laid, Calls, Hand

-----------------------------------------------------------------------------
LEMMA InitLaid == Init => Laid
<1> SUFFICES ASSUME Init PROVE Laid
  OBVIOUS
<1>1. op = Idle /\ new = NoMap /\ map = Empty(case.size) /\ case \in Cases /\ num_entries = 0
  BY DEF Init
<1>2. Calls
  BY <1>1 DEF Calls, Ops, Idle, NoSlot, Rebuilding
<1>3. Sound(case.hash, map)
  BY <1>1, <1>2, HashType, EmptySound
<1> QED BY <1>1, <1>2, <1>3 DEF Laid, Maps, Hand, Rebuilding, Idle

LEMMA CallInsertLaid ==
  ASSUME Laid, NEW k \in Keys, CallInsert(k)
  PROVE  Laid'
<1>0. op.pc = "idle" /\ UNCHANGED <<case, map, num_entries>> /\ ~Rebuilding
  BY DEF CallInsert, Laid, Calls
<1>1. CASE num_entries > Thresh(Size(map))
  <2> DEFINE keys == [i \in DOMAIN map.list |-> map.table[map.list[i]].key]
  <2>1. /\ new' = Empty(NewSize(Size(map)))
        /\ op' = [Idle EXCEPT !.pc = "next", !.arg = k, !.kind = "insert", !.rest = keys]
    BY <1>1 DEF CallInsert
  <2>2. keys \in Seq(Keys)
    <3>1. IsMap(map) /\ Chained(map) /\ AllPlaced(case.hash, map)
      BY DEF Laid, Maps, Sound
    <3>2. \A i \in DOMAIN map.list : map.table[map.list[i]].key \in Keys
      BY <3>1 DEF Chained, AllPlaced, Placed
    <3>3. map.list \in Seq(0 .. Size(map) - 1)
      BY <3>1 DEF IsMap
    <3>4. PICK l \in Nat : DOMAIN map.list = 1 .. l
      BY <3>3
    <3> QED BY <3>2, <3>4
  <2>3. Sound(case.hash, new')
    <3>1. Size(map) \in Nat \ {0}
      BY DEF Laid, Maps, Sound, IsMap
    <3>2. NewSize(Size(map)) \in Nat \ {0}
      BY <3>1 DEF NewSize
    <3> QED BY <2>1, <3>2, EmptySound
  <2> HIDE DEF keys
  <2>4. Begun(op', "next", "insert", k, NoKey, keys)
    BY <2>1, <2>2, NextType
  <2>5. Rebuilding'
    BY <2>3, NotNoMap DEF Sound, Rebuilding
  <2> QED BY <1>0, <2>3, <2>4, <2>5 DEF Laid, Calls, Maps, Hand, Begun
<1>2. CASE ~(num_entries > Thresh(Size(map)))
  <2>1. /\ new' = new
        /\ op' = [Idle EXCEPT !.pc = "insert", !.arg = k, !.kind = "insert", !.key = k]
    BY <1>2 DEF CallInsert
  <2>2. Begun(op', "insert", "insert", k, k, << >>)
    BY <2>1, BeginType
  <2>3. InHandOK(case'.hash, Target', op')
    BY <2>2 DEF InHandOK, Walked, Begun
  <2> QED BY <1>0, <2>1, <2>2, <2>3 DEF Laid, Calls, Maps, Hand, Rebuilding, Begun
<1> QED BY <1>1, <1>2

LEMMA InsertNextLaid ==
  ASSUME Laid, InsertNext
  PROVE  Laid'
<1>0. op.pc = "next" /\ Rebuilding /\ UNCHANGED <<case, num_entries>> /\ op.arg \in Keys /\ op.rest \in Seq(Keys)
  BY DEF InsertNext, Laid, Calls, Ops
<1>1. CASE op.rest # << >>
  <2>1. /\ op' = [Idle EXCEPT !.pc = "insert", !.arg = op.arg, !.kind = "insert",
                              !.key = Head(op.rest), !.rest = Tail(op.rest)]
        /\ UNCHANGED <<map, new>>
    BY <1>1 DEF InsertNext
  <2>2. Head(op.rest) \in Keys /\ Tail(op.rest) \in Seq(Keys)
    BY <1>0, <1>1
  <2>3. Begun(op', "insert", "insert", op.arg, Head(op.rest), Tail(op.rest))
    BY <1>0, <2>1, <2>2, RestType
  <2>4. InHandOK(case'.hash, Target', op')
    BY <2>3 DEF InHandOK, Walked, Begun
  <2>5. Rebuilding' = Rebuilding /\ Maps'
    BY <1>0, <2>1, SameMaps
  <2> QED BY <1>0, <2>2, <2>3, <2>4, <2>5 DEF Laid, Calls, Hand, Begun
<1>2. CASE ~(op.rest # << >>)
  <2>1. /\ op' = [Idle EXCEPT !.pc = "insert", !.arg = op.arg, !.kind = "insert", !.key = op.arg]
        /\ map' = new /\ new' = NoMap
    BY <1>2 DEF InsertNext
  <2>2. Begun(op', "insert", "insert", op.arg, op.arg, << >>)
    BY <1>0, <2>1, BeginType
  <2>3. InHandOK(case'.hash, Target', op')
    BY <2>2 DEF InHandOK, Walked, Begun
  <2>4. Maps' /\ ~Rebuilding'
    BY <1>0, <2>1 DEF Laid, Maps, Rebuilding
  <2> QED BY <1>0, <2>2, <2>3, <2>4 DEF Laid, Calls, Hand, Begun
<1> QED BY <1>1, <1>2

(* Where InsertVacant writes, and with how many probes.                    *)
VacantSlot == IF op.empty # NoSlot THEN op.empty ELSE Slot
VacantN    == IF op.empty # NoSlot THEN op.emptyN ELSE op.n + 1

LEMMA VacantFits ==
  ASSUME Laid, InsertVacant
  PROVE  /\ Looks /\ VacantSlot \in DOMAIN Target.table /\ VacantN \in Nat \ {0}
         /\ ~(Target.table[VacantSlot].probes > 0)
         /\ At(case.hash, Target, op.key, VacantN - 1) = VacantSlot
         /\ Walked(case.hash, Target, op.key, VacantN - 1)
         /\ SetTarget([table |-> [Target.table EXCEPT ![VacantSlot] = [key |-> op.key, probes |-> VacantN]],
                       list  |-> Append(Target.list, VacantSlot)])
         /\ HelperReturns("yes") /\ UNCHANGED case /\ op.pc = "insert"
<1>1. Looks /\ op.pc = "insert" /\ Entry.probes = 0 /\ InHandOK(case.hash, Target, op)
  BY LooksAt DEF InsertVacant, Probing, Laid, Hand
<1>2. /\ SetTarget([table |-> [Target.table EXCEPT ![VacantSlot] = [key |-> op.key, probes |-> VacantN]],
                    list  |-> Append(Target.list, VacantSlot)])
      /\ HelperReturns("yes") /\ UNCHANGED case
  BY DEF InsertVacant, VacantSlot, VacantN
<1>3. CASE op.empty # NoSlot
  <2>1. VacantSlot = op.empty /\ VacantN = op.emptyN
    BY <1>3 DEF VacantSlot, VacantN
  <2>2. /\ op.empty \in DOMAIN Target.table /\ Target.table[op.empty].probes = -1
        /\ op.emptyN \in 1 .. op.n /\ At(case.hash, Target, op.key, op.emptyN - 1) = op.empty
        /\ Walked(case.hash, Target, op.key, op.n) /\ op.n \in Nat
    BY <1>1, <1>3 DEF InHandOK, Looks
  <2>3. op.emptyN - 1 \in 0 .. op.n /\ op.emptyN \in Nat \ {0}
    BY <2>2
  <2>4. Walked(case.hash, Target, op.key, op.emptyN - 1)
    BY <2>2, <2>3, WalkedLess
  <2> QED BY <1>1, <1>2, <2>1, <2>2, <2>3, <2>4
<1>4. CASE op.empty = NoSlot
  <2>1. VacantSlot = Slot /\ VacantN = op.n + 1
    BY <1>4 DEF VacantSlot, VacantN
  <2>2. /\ op.n \in Nat /\ Slot \in DOMAIN Target.table /\ Target.table[Slot].probes = 0
        /\ Slot = At(case.hash, Target, op.key, op.n)
    BY <1>1 DEF Looks
  <2>3. op.n + 1 \in Nat \ {0} /\ op.n + 1 - 1 = op.n
    BY <2>2
  <2> QED BY <1>1, <1>2, <2>1, <2>2, <2>3 DEF InHandOK
<1> QED BY <1>3, <1>4

LEMMA InsertVacantLaid ==
  ASSUME Laid, InsertVacant
  PROVE  Laid'
<1> DEFINE m2 == [table |-> [Target.table EXCEPT ![VacantSlot] = [key |-> op.key, probes |-> VacantN]],
                  list  |-> Append(Target.list, VacantSlot)]
<1>1. Sound(case.hash, m2)
  BY VacantFits, TakeSlot DEF Looks
<1>2. SetTarget(m2) /\ UNCHANGED case /\ HelperReturns("yes") /\ op.pc = "insert"
  BY VacantFits
<1> HIDE DEF m2
<1>3. Maps' /\ Rebuilding' = Rebuilding
  BY <1>1, <1>2, SetTargetKeeps
<1> QED BY <1>2, <1>3, Returns DEF Laid

LEMMA InsertMarkLaid ==
  ASSUME Laid, InsertMark
  PROVE  Laid'
<1>1. Looks /\ op.pc = "insert" /\ Entry.probes = -1 /\ InHandOK(case.hash, Target, op) /\ op \in Ops
  BY LooksAt DEF InsertMark, Probing, Laid, Hand, Calls
<1> DEFINE o == [op EXCEPT !.n = @ + 1,
                           !.empty  = IF @ = NoSlot THEN Slot ELSE @,
                           !.emptyN = IF op.empty = NoSlot THEN op.n + 1 ELSE @]
<1>2. op' = o /\ UNCHANGED <<case, map, num_entries, new>>
  BY DEF InsertMark
<1>3. op.n \in Nat /\ Slot \in Int /\ Walked(case.hash, Target, op.key, op.n + 1)
  <2>1. op.n \in Nat /\ Target.table[At(case.hash, Target, op.key, op.n)].probes # 0
    BY <1>1 DEF Looks
  <2>2. Slot \in Int
    <3>1. DOMAIN Target.table = 0 .. Size(Target) - 1 /\ Slot \in DOMAIN Target.table
      BY <1>1, MapDomain DEF Looks
    <3> QED BY <3>1
  <2> QED BY <1>1, <2>1, <2>2, WalkedOn DEF InHandOK
<1>4. /\ o \in Ops /\ o.pc = "insert" /\ o.key = op.key /\ o.arg = op.arg /\ o.n = op.n + 1
      /\ o.empty = (IF op.empty = NoSlot THEN Slot ELSE op.empty)
      /\ o.emptyN = (IF op.empty = NoSlot THEN op.n + 1 ELSE op.emptyN)
  <2> DEFINE e  == IF op.empty = NoSlot THEN Slot ELSE op.empty
             en == IF op.empty = NoSlot THEN op.n + 1 ELSE op.emptyN
             n  == op.n + 1
  <2>1. n \in Nat /\ e \in Int /\ en \in Int
    BY <1>1, <1>3 DEF Ops
  <2>2. o = [op EXCEPT !.n = n, !.empty = e, !.emptyN = en]
    OBVIOUS
  <2> HIDE DEF n, e, en, o
  <2>3. Onward(op, o, op.key, n, e, en, op.robbed)
    BY <1>1, <2>1, <2>2, MarkedType
  <2> QED BY <1>1, <2>3 DEF n, e, en, Onward
<1> HIDE DEF o
<1>5. InHandOK(case.hash, Target, o)
  <2>1. CASE op.empty = NoSlot
    BY <2>1, <1>1, <1>3, <1>4 DEF InHandOK, Looks
  <2>2. CASE op.empty # NoSlot
    BY <2>2, <1>1, <1>3, <1>4 DEF InHandOK, Looks
  <2> QED BY <2>1, <2>2
<1>6. Maps' /\ Rebuilding' = Rebuilding /\ Target' = Target
  BY <1>2, SameMaps
<1>7. num_entries' \in Int /\ o.key \in Keys
  BY <1>1, <1>2, <1>4 DEF Laid, Calls, Looks
<1> QED BY <1>1, <1>2, <1>4, <1>5, <1>6, <1>7, GoesOn DEF Laid

LEMMA InsertPresentLaid ==
  ASSUME Laid, InsertPresent
  PROVE  Laid'
<1>1. op.pc = "insert" /\ HelperReturns("no") /\ UNCHANGED <<case, map, new>>
  BY DEF InsertPresent, Probing
<1>2. Maps' /\ Rebuilding' = Rebuilding
  BY <1>1, SameMaps
<1> QED BY <1>1, <1>2, Returns DEF Laid

LEMMA RobFits ==
  ASSUME Laid, InsertRob
  PROVE  /\ Looks /\ op.pc = "insert" /\ InHandOK(case.hash, Target, op)
         /\ Slot \in Taken(Target) /\ Entry.probes < op.n + 1 /\ Entry.key # op.key
         /\ Entry.probes \in Nat \ {0}
         /\ op.n + 1 \in Nat \ {0} /\ op.n + 1 - 1 = op.n
<1>1. Looks /\ op.pc = "insert" /\ Entry.probes > 0 /\ InHandOK(case.hash, Target, op)
  BY LooksAt DEF InsertRob, Probing, Laid, Hand
<1>2. Slot \in Taken(Target) /\ Entry.probes \in Nat \ {0}
  BY <1>1 DEF Looks, Taken, Entries
<1>3. op.n + 1 \in Nat \ {0} /\ op.n + 1 - 1 = op.n
  BY <1>1 DEF Looks
<1> QED BY <1>1, <1>2, <1>3 DEF InsertRob

LEMMA InsertRobLaid ==
  ASSUME Laid, InsertRob
  PROVE  Laid'
<1> DEFINE m2 == [Target EXCEPT !.table[Slot] = [key |-> op.key, probes |-> op.n + 1]]
           o  == [op EXCEPT !.key = Entry.key, !.n = Entry.probes,
                            !.empty = NoSlot, !.emptyN = -1, !.robbed = TRUE]
<1>1. SetTarget(m2) /\ op' = o /\ UNCHANGED <<case, num_entries>>
  BY DEF InsertRob
<1>2. Sound(case.hash, m2) /\ Written(Target, m2, Slot, op.key, op.n + 1)
  BY RobFits, RobSlot DEF Looks, InHandOK
<1> HIDE DEF m2
<1>3. Maps' /\ Rebuilding' = Rebuilding /\ Target' = m2
  BY <1>1, <1>2, SetTargetKeeps
<1>4. Entry.key \in Keys /\ Walked(case.hash, Target, Entry.key, Entry.probes - 1)
      /\ At(case.hash, Target, Entry.key, Entry.probes - 1) = Slot
  BY RobFits DEF Looks, Sound, AllPlaced, Placed
<1>5. Otherwise(Target, m2, Slot, op.key, op.n + 1)
  BY <1>2, RobFits, WrittenSlots DEF Looks
<1>6. Walked(case.hash, m2, Entry.key, Entry.probes)
  <2> DEFINE k == Entry.key
             p == Entry.probes
  <2>0. p \in Nat \ {0} /\ case.hash \in [Keys -> Nat] /\ IsMap(Target) /\ k \in Keys
    BY <1>4, RobFits DEF Looks
  <2>a. Walked(case.hash, Target, k, p - 1) /\ At(case.hash, Target, k, p - 1) = Slot
    BY <1>4
  <2> HIDE DEF k, p
  <2>1. ASSUME NEW j \in 0 .. p - 1 PROVE m2.table[At(case.hash, m2, k, j)].probes # 0
    <3>1. At(case.hash, m2, k, j) = At(case.hash, Target, k, j)
      BY <1>5 DEF At, Otherwise
    <3>2. At(case.hash, Target, k, j) \in DOMAIN Target.table
      BY <2>0, AtType
    <3>3. CASE At(case.hash, Target, k, j) = Slot
      <4>1. m2.table[Slot].probes = op.n + 1 /\ op.n + 1 # 0
        BY <1>5, RobFits DEF Otherwise
      <4> QED BY <3>1, <3>3, <4>1
    <3>4. CASE At(case.hash, Target, k, j) # Slot
      <4>1. j \in 0 .. p - 1 - 1
        BY <3>4, <2>0, <2>a
      <4>2. Target.table[At(case.hash, Target, k, j)].probes # 0
        BY <4>1, <2>a DEF Walked
      <4> QED BY <3>1, <3>2, <3>4, <4>2, <1>5 DEF Otherwise
    <3> QED BY <3>3, <3>4
  <2>2. Walked(case.hash, m2, k, p)
    BY <2>1 DEF Walked
  <2> QED BY <2>2 DEF k, p
<1>7. op \in Ops /\ num_entries' \in Int
  BY <1>1 DEF Laid, Calls
<1>8. /\ o \in Ops /\ o.pc = "insert" /\ o.key = Entry.key /\ o.arg = op.arg /\ o.n = Entry.probes
      /\ o.empty = NoSlot
  <2>1. Onward(op, o, Entry.key, Entry.probes, NoSlot, -1, TRUE)
    BY <1>4, <1>7, RobFits, RobType
  <2> QED BY <2>1, RobFits DEF Onward
<1> HIDE DEF o
<1>9. InHandOK(case.hash, Target', o) /\ o.key \in Keys
  BY <1>3, <1>4, <1>6, <1>8 DEF InHandOK
<1>10. Calls' /\ Hand'
  BY <1>1, <1>3, <1>7, <1>8, <1>9, RobFits, GoesOn
<1> QED BY <1>3, <1>10 DEF Laid

LEMMA InsertPassLaid ==
  ASSUME Laid, InsertPass
  PROVE  Laid'
<1>1. Looks /\ op.pc = "insert" /\ Entry.probes >= op.n + 1 /\ InHandOK(case.hash, Target, op) /\ op \in Ops
  BY LooksAt DEF InsertPass, Probing, Laid, Hand, Calls
<1> DEFINE o == [op EXCEPT !.n = @ + 1]
<1>2. op' = o /\ UNCHANGED <<case, map, num_entries, new>>
  BY DEF InsertPass
<1>3. op.n \in Nat /\ Walked(case.hash, Target, op.key, op.n + 1)
  <2>1. op.n \in Nat /\ Target.table[At(case.hash, Target, op.key, op.n)].probes # 0
    BY <1>1 DEF Looks, Entries
  <2> QED BY <1>1, <2>1, WalkedOn DEF InHandOK
<1>4. /\ o \in Ops /\ o.pc = "insert" /\ o.key = op.key /\ o.arg = op.arg /\ o.n = op.n + 1
      /\ o.empty = op.empty /\ o.emptyN = op.emptyN
  BY <1>1, <1>3 DEF Ops
<1> HIDE DEF o
<1>5. InHandOK(case.hash, Target, o)
  BY <1>1, <1>3, <1>4 DEF InHandOK
<1>6. Maps' /\ Rebuilding' = Rebuilding /\ Target' = Target
  BY <1>2, SameMaps
<1>7. num_entries' \in Int /\ o.key \in Keys
  BY <1>1, <1>2, <1>4 DEF Laid, Calls, Looks
<1> QED BY <1>1, <1>2, <1>4, <1>5, <1>6, <1>7, GoesOn DEF Laid

(* A search changes nothing but what is removed.                           *)
LEMMA SearchLaid ==
  ASSUME Laid, \/ SearchVacant \/ SearchPass \/ LookupFound \/ Return
               \/ \E k \in Keys : CallLookup(k) \/ CallRemove(k)
  PROVE  Laid'
<1>1. UNCHANGED <<case, map, num_entries, new>> /\ op.pc \in {"idle", "lookup", "remove", "return"}
  BY DEF SearchVacant, SearchPass, LookupFound, Return, CallLookup, CallRemove, Searching
<1>2. Maps' /\ Rebuilding' = Rebuilding /\ ~Rebuilding
  BY <1>1, SameMaps DEF Laid, Calls
<1>3. op \in Ops /\ op.n \in Nat
  BY DEF Laid, Calls, Ops
<1>4. op' \in Ops /\ op'.pc \notin {"insert", "next"}
      /\ (op'.pc # "idle" => op'.arg \in Keys) /\ (op'.pc \in {"lookup", "remove"} => op'.key \in Keys)
  <2>1. CASE SearchVacant \/ LookupFound
    <3>1. op' = [op EXCEPT !.pc = "return", !.answer = "no"] \/ op' = [op EXCEPT !.pc = "return", !.answer = "yes"]
      BY <2>1 DEF SearchVacant, LookupFound
    <3>2. op.arg \in Keys
      BY <2>1 DEF SearchVacant, LookupFound, Searching, Laid, Calls
    <3> QED BY <3>1, <3>2, <1>3 DEF Ops
  <2>2. CASE SearchPass
    <3>1. op' = [op EXCEPT !.n = (@ + 1) % Size(map)] /\ op.pc \in {"lookup", "remove"}
      BY <2>2 DEF SearchPass, Searching
    <3> DEFINE n == (op.n + 1) % Size(map)
    <3>3. n \in Nat
      BY <1>3, NextRound DEF Laid, Maps, Sound
    <3> HIDE DEF n
    <3>4. op' = [op EXCEPT !.n = n]
      BY <3>1 DEF n
    <3>2. op.arg \in Keys /\ op.key \in Keys
      BY <3>1 DEF Laid, Calls
    <3> QED BY <3>1, <3>2, <3>3, <3>4, <1>3 DEF Ops
  <2>3. CASE Return
    BY <2>3 DEF Return, Ops, Idle, NoSlot
  <2>4. ASSUME NEW k \in Keys, CallLookup(k) \/ CallRemove(k)
        PROVE  op' \in Ops /\ op'.pc \in {"lookup", "remove"} /\ op'.arg = k /\ op'.key = k
    <3>1. \/ op' = [Idle EXCEPT !.pc = "lookup", !.arg = k, !.kind = "lookup", !.key = k]
          \/ op' = [Idle EXCEPT !.pc = "remove", !.arg = k, !.kind = "remove", !.key = k]
      BY <2>4 DEF CallLookup, CallRemove
    <3>2. Begun(op', "lookup", "lookup", k, k, << >>) \/ Begun(op', "remove", "remove", k, k, << >>)
      BY <3>1, BeginType
    <3> QED BY <3>2 DEF Begun
  <2> QED BY <2>1, <2>2, <2>3, <2>4
<1> QED BY <1>1, <1>2, <1>4 DEF Laid, Calls, Hand

LEMMA RemoveFoundLaid ==
  ASSUME Laid, RemoveFound
  PROVE  Laid'
<1> DEFINE m2 == [table |-> [map.table EXCEPT ![Slot].probes = -1], list  |-> Unlinked(map.list, Slot)]
<1>1. op.pc = "remove" /\ Entry.probes > 0 /\ ~Rebuilding /\ Target = map
  BY DEF RemoveFound, Laid, Calls, Target
<1>2. /\ map' = m2 /\ num_entries' = num_entries - 1 /\ UNCHANGED <<case, new>>
      /\ op' = [op EXCEPT !.pc = "return", !.answer = "yes"]
  BY DEF RemoveFound
<1>3. Slot \in Taken(map) /\ case.hash \in [Keys -> Nat]
  BY <1>1, LooksAt DEF Looks, Taken
<1>4. Sound(case.hash, m2)
  BY <1>3, MarkSlot DEF Laid, Maps
<1> HIDE DEF m2
<1>5. op \in Ops /\ op.arg \in Keys /\ num_entries \in Int /\ case \in Cases
  BY <1>1 DEF Laid, Calls
<1>6. op' \in Ops /\ op'.pc = "return" /\ op'.arg = op.arg
  BY <1>2, <1>5 DEF Ops
<1>7. num_entries' \in Int
  BY <1>2, <1>5
<1> QED BY <1>1, <1>2, <1>4, <1>5, <1>6, <1>7 DEF Laid, Calls, Maps, Hand, Rebuilding

LEMMA NextLaid == Laid /\ [Next]_vars => Laid'
<1> SUFFICES ASSUME Laid, [Next]_vars PROVE Laid'
  OBVIOUS
<1>1. CASE UNCHANGED vars
  BY <1>1 DEF vars, Laid, Calls, Maps, Hand, Rebuilding, Target
<1>2. CASE Next
  BY <1>2, CallInsertLaid, InsertNextLaid, InsertVacantLaid, InsertMarkLaid, InsertPresentLaid, InsertRobLaid,
     InsertPassLaid, SearchLaid, RemoveFoundLaid DEF Next, Step
<1> QED BY <1>1, <1>2

-----------------------------------------------------------------------------
(* A table from which nothing was removed.  A key's entry needed at least  *)
(* as many probes at every slot as whoever passes the slot: an insertion   *)
(* that does not find its key before it robs will not find it later.       *)
NothingRemoved == case.removable = {}

Ahead(hash, m, k, n) == \A j \in 0 .. n - 1 : m.table[At(hash, m, k, j)].probes >= j + 1
Missed(hash, m, k, n) == \A j \in 0 .. n - 1 : m.table[At(hash, m, k, j)].key # k

NoMarks(m)        == \A i \in DOMAIN m.table : m.table[i].probes \in Nat
AllAhead(hash, m) == \A i \in Taken(m) : Ahead(hash, m, m.table[i].key, m.table[i].probes - 1)
Distinct(m)       == \A i, j \in Taken(m) : m.table[i].key = m.table[j].key => i = j
Even(hash, m)     == NoMarks(m) /\ AllAhead(hash, m) /\ Distinct(m)

LEMMA EmptyEven ==
  ASSUME NEW s \in Nat \ {0}, NEW hash
  PROVE  Even(hash, Empty(s)) /\ KeysOf(Empty(s)) = {}
<1>1. Taken(Empty(s)) = {}
  BY EmptySound
<1>2. NoMarks(Empty(s))
  BY DEF NoMarks, Empty, Vacant
<1> QED BY <1>1, <1>2 DEF Even, AllAhead, Distinct, KeysOf

(* A search that meets a vacant slot, or an insertion that may rob, has    *)
(* not missed its key.                                                     *)
LEMMA AbsentAtVacant ==
  ASSUME NEW hash \in [Keys -> Nat], NEW m, Sound(hash, m), NEW k \in Keys, NEW n \in Nat,
         Missed(hash, m, k, n), m.table[At(hash, m, k, n)].probes = 0
  PROVE  k \notin KeysOf(m)
<1> SUFFICES ASSUME NEW i \in Taken(m), m.table[i].key = k PROVE FALSE
  BY DEF KeysOf
<1>1. /\ Placed(hash, m, i) /\ m.table[i] \in Entries /\ m.table[i].probes > 0
  BY EntryType DEF Sound, AllPlaced, Taken
<1>2. PICK p \in Nat \ {0} : p = m.table[i].probes
  BY <1>1 DEF Entries
<1>3. At(hash, m, k, p - 1) = i /\ Walked(hash, m, k, p - 1)
  BY <1>1, <1>2 DEF Placed
<1>4. CASE p - 1 < n
  <2>1. p - 1 \in 0 .. n - 1
    BY <1>2, <1>4
  <2> QED BY <2>1, <1>3 DEF Missed
<1>5. CASE p - 1 = n
  BY <1>1, <1>3, <1>5
<1>6. CASE n < p - 1
  <2>1. n \in 0 .. p - 1 - 1
    BY <1>2, <1>6
  <2> QED BY <2>1, <1>3 DEF Walked
<1> QED BY <1>2, <1>4, <1>5, <1>6

LEMMA AbsentAtPoorer ==
  ASSUME NEW hash \in [Keys -> Nat], NEW m, Sound(hash, m), Even(hash, m), NEW k \in Keys, NEW n \in Nat,
         Missed(hash, m, k, n), NEW s \in DOMAIN m.table, s = At(hash, m, k, n),
         m.table[s].probes < n + 1, m.table[s].key # k
  PROVE  k \notin KeysOf(m)
<1> SUFFICES ASSUME NEW i \in Taken(m), m.table[i].key = k PROVE FALSE
  BY DEF KeysOf
<1>1. /\ Placed(hash, m, i) /\ m.table[i] \in Entries /\ m.table[i].probes > 0
      /\ Ahead(hash, m, k, m.table[i].probes - 1)
  BY EntryType DEF Sound, AllPlaced, Taken, Even, AllAhead
<1>2. PICK p \in Nat \ {0} : p = m.table[i].probes
  BY <1>1 DEF Entries
<1>3. At(hash, m, k, p - 1) = i /\ Ahead(hash, m, k, p - 1)
  BY <1>1, <1>2 DEF Placed
<1>4. CASE p - 1 < n
  <2>1. p - 1 \in 0 .. n - 1
    BY <1>2, <1>4
  <2> QED BY <2>1, <1>3 DEF Missed
<1>5. CASE p - 1 = n
  BY <1>3, <1>5
<1>6. CASE n < p - 1
  <2>1. n \in 0 .. p - 1 - 1
    BY <1>2, <1>6
  <2>2. m.table[s].probes >= n + 1
    BY <2>1, <1>3 DEF Ahead
  <2>3. m.table[s].probes \in Nat
    BY DEF Even, NoMarks
  <2> QED BY <2>2, <2>3
<1> QED BY <1>2, <1>4, <1>5, <1>6

LEMMA MissedOn ==
  ASSUME NEW hash, NEW m, NEW k, NEW n \in Nat, Missed(hash, m, k, n),
         m.table[At(hash, m, k, n)].key # k
  PROVE  Missed(hash, m, k, n + 1)
<1> SUFFICES ASSUME NEW j \in 0 .. n PROVE m.table[At(hash, m, k, j)].key # k
  BY DEF Missed
<1>1. j = n \/ j \in 0 .. n - 1
  OBVIOUS
<1> QED BY <1>1 DEF Missed

LEMMA AheadOn ==
  ASSUME NEW hash, NEW m, NEW k, NEW n \in Nat, Ahead(hash, m, k, n),
         m.table[At(hash, m, k, n)].probes >= n + 1
  PROVE  Ahead(hash, m, k, n + 1)
<1> SUFFICES ASSUME NEW j \in 0 .. n PROVE m.table[At(hash, m, k, j)].probes >= j + 1
  BY DEF Ahead
<1>1. j = n \/ j \in 0 .. n - 1
  OBVIOUS
<1> QED BY <1>1 DEF Ahead

(* A new key is written over a poorer entry or a vacant slot.              *)
LEMMA AheadKept ==
  ASSUME NEW hash \in [Keys -> Nat], NEW m, IsMap(m), NoMarks(m), NEW m2, NEW i \in DOMAIN m.table,
         NEW k \in Keys, NEW p \in Nat \ {0}, Otherwise(m, m2, i, k, p), m.table[i].probes < p,
         NEW k2 \in Keys, NEW n \in Nat, Ahead(hash, m, k2, n)
  PROVE  Ahead(hash, m2, k2, n)
<1> SUFFICES ASSUME NEW j \in 0 .. n - 1 PROVE m2.table[At(hash, m2, k2, j)].probes >= j + 1
  BY DEF Ahead
<1>1. At(hash, m2, k2, j) = At(hash, m, k2, j)
  BY DEF At, Otherwise
<1>2. PICK s \in DOMAIN m.table : s = At(hash, m, k2, j)
  BY AtType
<1>3. m.table[s].probes >= j + 1 /\ m.table[s].probes \in Nat
  BY <1>2 DEF Ahead, NoMarks
<1>4. CASE s = i
  <2>1. m2.table[i].probes = p
    BY DEF Otherwise
  <2> QED BY <1>1, <1>2, <1>3, <1>4, <2>1
<1>5. CASE s # i
  BY <1>1, <1>2, <1>3, <1>5 DEF Otherwise
<1> QED BY <1>4, <1>5

LEMMA WrittenEven ==
  ASSUME NEW hash \in [Keys -> Nat], NEW m, Sound(hash, m), Even(hash, m), NEW m2, NEW i \in DOMAIN m.table,
         NEW k \in Keys, NEW p \in Nat \ {0}, Otherwise(m, m2, i, k, p), m.table[i].probes < p,
         Ahead(hash, m, k, p - 1), k \notin KeysOf(m)
  PROVE  /\ Even(hash, m2)
         /\ i \notin Taken(m) => KeysOf(m2) = KeysOf(m) \cup {k}
         /\ i \in Taken(m) => /\ KeysOf(m2) = (KeysOf(m) \ {m.table[i].key}) \cup {k}
                              /\ m.table[i].key \in KeysOf(m)
<1>1. /\ IsMap(m) /\ AllPlaced(hash, m) /\ NoMarks(m) /\ AllAhead(hash, m) /\ Distinct(m)
  BY DEF Sound, Even
<1>2. /\ Taken(m2) = Taken(m) \cup {i} /\ m2.table[i].key = k /\ m2.table[i].probes = p
      /\ DOMAIN m2.table = DOMAIN m.table
      /\ \A j \in DOMAIN m.table : j # i => m2.table[j] = m.table[j]
      /\ \A j \in Taken(m) : m.table[j].key # k /\ j \in DOMAIN m.table
  BY DEF Otherwise, KeysOf, Taken
<1>3. NoMarks(m2)
  BY <1>1, <1>2 DEF NoMarks
<1>4. AllAhead(hash, m2)
  <2> SUFFICES ASSUME NEW j \in Taken(m2) PROVE Ahead(hash, m2, m2.table[j].key, m2.table[j].probes - 1)
    BY DEF AllAhead
  <2>1. CASE j = i
    <3>1. p - 1 \in Nat /\ Ahead(hash, m2, k, p - 1)
      BY <1>1, AheadKept
    <3> QED BY <2>1, <3>1, <1>2
  <2>2. CASE j # i
    <3>1. j \in Taken(m) /\ j \in DOMAIN m.table /\ m2.table[j] = m.table[j]
      BY <2>2, <1>2
    <3>2. /\ m.table[j].key \in Keys /\ m.table[j].probes - 1 \in Nat
          /\ Ahead(hash, m, m.table[j].key, m.table[j].probes - 1)
      <4>1. m.table[j].probes \in Nat /\ m.table[j].probes > 0
        BY <3>1, <1>1 DEF Taken, NoMarks
      <4> QED BY <4>1, <3>1, <1>1 DEF AllPlaced, Placed, AllAhead
    <3>3. Ahead(hash, m2, m.table[j].key, m.table[j].probes - 1)
      BY <3>2, <1>1, AheadKept
    <3> QED BY <3>1, <3>3
  <2> QED BY <2>1, <2>2
<1>5. Distinct(m2)
  <2> SUFFICES ASSUME NEW j \in Taken(m2), NEW l \in Taken(m2), m2.table[j].key = m2.table[l].key PROVE j = l
    BY DEF Distinct
  <2>1. CASE j = i
    BY <2>1, <1>2
  <2>2. CASE l = i
    BY <2>2, <1>2
  <2>3. CASE j # i /\ l # i
    BY <2>3, <1>1, <1>2 DEF Distinct
  <2> QED BY <2>1, <2>2, <2>3
<1>6. ASSUME i \notin Taken(m) PROVE KeysOf(m2) = KeysOf(m) \cup {k}
  <2>1. \A j \in Taken(m) : m2.table[j] = m.table[j]
    BY <1>2, <1>6
  <2> QED BY <2>1, <1>2 DEF KeysOf
<1>7. ASSUME i \in Taken(m)
      PROVE  KeysOf(m2) = (KeysOf(m) \ {m.table[i].key}) \cup {k} /\ m.table[i].key \in KeysOf(m)
  <2>1. Taken(m2) = Taken(m) /\ m.table[i].key # k
    BY <1>2, <1>7
  <2>2. \A j \in Taken(m) : j # i => m2.table[j] = m.table[j] /\ m.table[j].key # m.table[i].key
    BY <1>1, <1>2, <1>7 DEF Distinct
  <2>3. KeysOf(m2) \subseteq (KeysOf(m) \ {m.table[i].key}) \cup {k}
    BY <2>1, <2>2, <1>2 DEF KeysOf
  <2>4. (KeysOf(m) \ {m.table[i].key}) \cup {k} \subseteq KeysOf(m2)
    BY <2>1, <2>2, <1>2, <1>7 DEF KeysOf
  <2>5. m.table[i].key \in KeysOf(m)
    BY <1>7 DEF KeysOf
  <2> QED BY <2>3, <2>4, <2>5
<1> QED BY <1>3, <1>4, <1>5, <1>6, <1>7 DEF Even

(* As many keys as slots.                                                  *)
LEMMA KeysCounted ==
  ASSUME NEW m, IsMap(m), Distinct(m)
  PROVE  Cardinality(KeysOf(m)) = Cardinality(Taken(m))
<1> DEFINE f == [i \in Taken(m) |-> m.table[i].key]
<1>1. f \in Surjection(Taken(m), KeysOf(m))
  BY DEF Surjection, KeysOf
<1>2. f \in Injection(Taken(m), KeysOf(m))
  BY <1>1 DEF Injection, IsInjective, Surjection, Distinct
<1>3. IsFiniteSet(Taken(m))
  BY TakenFinite
<1> HIDE DEF f
<1> QED BY <1>1, <1>2, <1>3, FS_Surjection

-----------------------------------------------------------------------------
(* What holds of every map, also of one from which entries are removed.    *)
THEOREM LaidInvariant == Spec => []Laid
BY InitLaid, NextLaid, PTL DEF Spec

(* An entry of the map lies where its probes say, and no slot before that  *)
(* on its way is vacant, so that map_lookup gets to it before it gives up. *)
THEOREM EntriesFindable == Spec => []Findable
<1>1. Laid => Findable
  <2> SUFFICES ASSUME Laid, NEW i \in Slots
               PROVE  LET e == map.table[i]
                          at(n) == Pos(case.hash[e.key], n, Size(map))
                      IN  at(e.probes - 1) = i /\ \A n \in 0 .. e.probes - 2 : map.table[at(n)].probes # 0
    BY DEF Findable
  <2>1. Placed(case.hash, map, i) /\ map.table[i].probes \in Int
    <3>1. IsMap(map) /\ i \in Taken(map) /\ i \in DOMAIN map.table
      BY DEF Laid, Maps, Sound, Slots, Taken
    <3> QED BY <3>1, EntryType DEF Laid, Maps, Sound, AllPlaced, Entries
  <2>2. map.table[i].probes - 1 - 1 = map.table[i].probes - 2
    BY <2>1
  <2> QED BY <2>1, <2>2 DEF Placed, Walked, At
<1> QED BY <1>1, LaidInvariant, PTL

(* map_iterate, which follows the chain from first to last, comes to every *)
(* entry exactly once, whatever was removed, robbed or taken again.        *)
ChainVisits ==
  /\ {map.list[i] : i \in DOMAIN map.list} = Slots
  /\ Len(map.list) = Cardinality(Slots)

LEMMA ChainExact ==
  ASSUME Laid
  PROVE  ChainVisits
<1>1. Chained(map) /\ Slots = Taken(map)
  BY DEF Laid, Maps, Sound, Slots, Taken
<1> QED BY <1>1 DEF Chained, ChainVisits

THEOREM ChainVisitsEntries == Spec => []ChainVisits
BY ChainExact, LaidInvariant, PTL

-----------------------------------------------------------------------------
(* The call under way, in a map from which nothing is removed: no slot is  *)
(* marked, num_entries counts the entries, a key in hand is not in the     *)
(* table it is to be put in once another entry was robbed for it, and a    *)
(* rebuilding has every key in exactly one of three places: the new table, *)
(* the hand and what is left.                                              *)
Left  == {op.rest[q] : q \in DOMAIN op.rest}
Hands == IF op.pc = "insert" THEN {op.key} ELSE {}

Counted ==
  /\ Even(case.hash, map)
  /\ num_entries = Cardinality(Taken(map))
  /\ Rebuilding => Even(case.hash, new)
Aimed ==
  op.pc = "insert" => /\ Ahead(case.hash, Target, op.key, op.n)
                      /\ op.robbed \/ Rebuilding => op.key \notin KeysOf(Target)
Fresh ==
  op.pc \in {"insert", "lookup"} /\ ~op.robbed /\ ~Rebuilding =>
    op.key = op.arg /\ Missed(case.hash, map, op.key, op.n)
Moving ==
  Rebuilding => /\ \A p, q \in DOMAIN op.rest : op.rest[p] = op.rest[q] => p = q
                /\ KeysOf(new) \cup Hands \cup Left = KeysOf(map)
                /\ (KeysOf(new) \cup Hands) \cap Left = {}
Phases ==
  /\ op.empty = NoSlot /\ op.pc # "remove"
  /\ op.pc = "idle" => op = Idle
  /\ op.pc \in {"insert", "next"} => op.kind = "insert" /\ op.answer = "none"
  /\ op.pc = "lookup" => op.kind = "lookup" /\ op.robbed = FALSE /\ op.answer = "none"
  /\ op.pc = "return" => /\ op.kind # "none" /\ op.answer # "none"
                         /\ op.robbed => op.key \in KeysOf(map) /\ op.answer = "yes"

Neat == Counted /\ Aimed /\ Fresh /\ Moving /\ Phases
Tidy == NothingRemoved /\ Laid /\ Neat

(* What the dictionary sees of a state.                                    *)
Content == {map.table[i].key : i \in Slots} \cup InHand
Answer  == IF op.answer = "none" /\ InHand # {} THEN "yes" ELSE op.answer

LEMMA ContentKeys == Content = KeysOf(map) \cup InHand /\ Content' = KeysOf(map') \cup InHand'
BY DEF Content, KeysOf, Slots, Taken

LEMMA InitTidy == Init /\ NothingRemoved => Tidy /\ D!Init
<1> SUFFICES ASSUME Init, NothingRemoved PROVE Tidy /\ D!Init
  OBVIOUS
<1>1. Laid /\ op = Idle /\ new = NoMap /\ map = Empty(case.size) /\ num_entries = 0
  BY InitLaid DEF Init
<1>2. Even(case.hash, map) /\ KeysOf(map) = {} /\ Taken(map) = {} /\ ~Rebuilding
  BY <1>1, HashType, EmptyEven, EmptySound DEF Laid, Rebuilding
<1>3. Counted
  BY <1>1, <1>2, FS_EmptySet DEF Counted
<1>4. Aimed /\ Fresh /\ Moving /\ Phases
  BY <1>1, <1>2, IdleType DEF Aimed, Fresh, Moving, Phases
<1>5. D!Init
  <2>1. InHand = {}
    BY <1>1, IdleType DEF InHand
  <2>2. {map.table[i].key : i \in Slots} \cup InHand = {}
    BY <2>1, <1>2, ContentKeys DEF Content
  <2> QED BY <1>1, <2>1, <2>2, IdleType DEF D!Init
<1> QED BY <1>1, <1>3, <1>4, <1>5 DEF Tidy, Neat

(* The steps as the dictionary sees them.                                  *)
Unseen   == UNCHANGED <<Content, op.kind, op.arg, Answer>>
Invoked  == op.kind = "none" /\ op'.kind \in {"insert", "lookup", "remove"} /\ op'.arg \in Keys
            /\ UNCHANGED <<Content, Answer>>
Inserted(answer) ==
  /\ op.kind = "insert" /\ Answer = "none" /\ Answer' = answer
  /\ answer = (IF op.arg \in Content THEN "no" ELSE "yes")
  /\ Content' = Content \cup {op.arg} /\ UNCHANGED <<op.kind, op.arg>>
LookedUp(answer) ==
  /\ op.kind = "lookup" /\ Answer = "none" /\ Answer' = answer
  /\ answer = (IF op.arg \in Content THEN "yes" ELSE "no")
  /\ UNCHANGED <<Content, op.kind, op.arg>>
Returned ==
  /\ Answer # "none" /\ op'.kind = "none" /\ op'.arg = NoKey /\ Answer' = "none" /\ UNCHANGED Content

Seen == Unseen \/ Invoked \/ Inserted("yes") \/ Inserted("no") \/ LookedUp("yes") \/ LookedUp("no") \/ Returned

LEMMA SeenStep == Seen => [D!Next]_(D!vars)
<1> SUFFICES ASSUME Seen PROVE [D!Next]_(D!vars)
  OBVIOUS
<1>1. CASE Unseen
  BY <1>1 DEF Unseen, Content, Answer, D!vars
<1>2. CASE Invoked
  BY <1>2 DEF Invoked, Content, Answer, D!Next, D!Invoke
<1>3. CASE Inserted("yes") \/ Inserted("no")
  <2>1. D!TakeEffect
    BY <1>3 DEF Inserted, Content, Answer, D!TakeEffect, D!YesNo
  <2> QED BY <2>1 DEF D!Next
<1>4. CASE LookedUp("yes") \/ LookedUp("no")
  <2>1. D!TakeEffect
    BY <1>4 DEF LookedUp, Content, Answer, D!TakeEffect, D!YesNo
  <2> QED BY <2>1 DEF D!Next
<1>5. CASE Returned
  <2>1. D!Return
    BY <1>5 DEF Returned, Content, Answer, D!Return
  <2> QED BY <2>1 DEF D!Next
<1> QED BY <1>1, <1>2, <1>3, <1>4, <1>5 DEF Seen

-----------------------------------------------------------------------------
(* The fields of a call that has put or found its key.                     *)
Ended(o, p, pc, answer) ==
  /\ p \in Ops /\ p.pc = pc /\ p.answer = answer /\ p.kind = o.kind /\ p.arg = o.arg /\ p.key = o.key
  /\ p.n = o.n /\ p.empty = o.empty /\ p.rest = o.rest /\ p.robbed = o.robbed

LEMMA EndType ==
  ASSUME NEW o \in Ops, NEW answer \in {"yes", "no"}, NEW p,
         p = [o EXCEPT !.pc = "return", !.answer = answer]
  PROVE  Ended(o, p, "return", answer)
BY DEF Ops, Ended

LEMMA PutType ==
  ASSUME NEW o \in Ops, NEW p, p = [o EXCEPT !.pc = "next"]
  PROVE  Ended(o, p, "next", o.answer)
BY DEF Ops, Ended

LEMMA HelperEnds ==
  ASSUME Laid, NEW a \in {"yes", "no"}, HelperReturns(a)
  PROVE  IF Rebuilding THEN Ended(op, op', "next", op.answer) /\ num_entries' = num_entries
         ELSE Ended(op, op', "return", a) /\ num_entries' = num_entries + (IF a = "yes" THEN 1 ELSE 0)
<1>1. op \in Ops
  BY DEF Laid, Calls
<1>2. CASE Rebuilding
  BY <1>1, <1>2, PutType DEF HelperReturns
<1>3. CASE ~Rebuilding
  BY <1>1, <1>3, EndType DEF HelperReturns
<1> QED BY <1>2, <1>3

(* The keys left when the rebuilding begins, and when the next is taken.   *)
LEMMA ListKeys ==
  ASSUME Laid, Counted, NEW keys, keys = [i \in DOMAIN map.list |-> map.table[map.list[i]].key]
  PROVE  /\ {keys[q] : q \in DOMAIN keys} = KeysOf(map)
         /\ \A p, q \in DOMAIN keys : keys[p] = keys[q] => p = q
<1>1. Chained(map) /\ Distinct(map)
  BY DEF Laid, Maps, Sound, Counted, Even
<1>2. {keys[q] : q \in DOMAIN keys} = KeysOf(map)
  BY <1>1 DEF Chained, KeysOf
<1>3. ASSUME NEW p \in DOMAIN keys, NEW q \in DOMAIN keys, keys[p] = keys[q] PROVE p = q
  <2>1. map.list[p] = map.list[q]
    BY <1>1, <1>3 DEF Chained, Distinct
  <2> QED BY <1>1, <2>1 DEF Chained
<1> QED BY <1>2, <1>3

LEMMA TakeNext ==
  ASSUME NEW S, NEW s \in Seq(S), s # << >>, \A p, q \in DOMAIN s : s[p] = s[q] => p = q
  PROVE  /\ {s[q] : q \in DOMAIN s} = {Head(s)} \cup {Tail(s)[q] : q \in DOMAIN Tail(s)}
         /\ Head(s) \notin {Tail(s)[q] : q \in DOMAIN Tail(s)}
         /\ \A p, q \in DOMAIN Tail(s) : Tail(s)[p] = Tail(s)[q] => p = q
<1>1. /\ Len(s) \in Nat \ {0} /\ DOMAIN s = 1 .. Len(s) /\ Head(s) = s[1]
      /\ DOMAIN Tail(s) = 1 .. Len(s) - 1 /\ \A q \in 1 .. Len(s) - 1 : Tail(s)[q] = s[q + 1]
  BY EmptySeq, HeadTailProperties
<1>2. {s[q] : q \in DOMAIN s} \subseteq {Head(s)} \cup {Tail(s)[q] : q \in DOMAIN Tail(s)}
  <2> SUFFICES ASSUME NEW q \in 1 .. Len(s), q # 1 PROVE \E r \in DOMAIN Tail(s) : Tail(s)[r] = s[q]
    BY <1>1
  <2>1. q - 1 \in 1 .. Len(s) - 1 /\ q - 1 + 1 = q
    BY <1>1
  <2> QED BY <1>1, <2>1
<1>3. {Head(s)} \cup {Tail(s)[q] : q \in DOMAIN Tail(s)} \subseteq {s[q] : q \in DOMAIN s}
  <2>1. 1 \in 1 .. Len(s) /\ \A q \in 1 .. Len(s) - 1 : q + 1 \in 1 .. Len(s)
    BY <1>1
  <2> QED BY <1>1, <2>1
<1>4. Head(s) \notin {Tail(s)[q] : q \in DOMAIN Tail(s)}
  <2> SUFFICES ASSUME NEW q \in 1 .. Len(s) - 1, s[q + 1] = s[1] PROVE FALSE
    BY <1>1
  <2>1. q + 1 \in 1 .. Len(s) /\ 1 \in 1 .. Len(s) /\ q + 1 # 1
    BY <1>1
  <2> QED BY <1>1, <2>1
<1>5. \A p, q \in DOMAIN Tail(s) : Tail(s)[p] = Tail(s)[q] => p = q
  <2> SUFFICES ASSUME NEW p \in 1 .. Len(s) - 1, NEW q \in 1 .. Len(s) - 1, s[p + 1] = s[q + 1] PROVE p = q
    BY <1>1
  <2>1. p + 1 \in 1 .. Len(s) /\ q + 1 \in 1 .. Len(s)
    BY <1>1
  <2>2. p + 1 = q + 1
    BY <1>1, <2>1
  <2> QED BY <2>2
<1> QED BY <1>2, <1>3, <1>4, <1>5

(* A key that is not in the table is put in a slot where none was.         *)
LEMMA CallInsertNeat ==
  ASSUME Tidy, NEW k \in Keys, CallInsert(k), Laid'
  PROVE  Neat' /\ Seen
<1>0. /\ op = Idle /\ op.pc = "idle" /\ UNCHANGED <<case, map, num_entries>> /\ ~Rebuilding
      /\ Laid /\ Counted /\ case.hash \in [Keys -> Nat]
  BY HashType DEF CallInsert, Laid, Calls, Tidy, Neat, Phases
<1>1. CASE num_entries > Thresh(Size(map))
  <2> DEFINE keys == [i \in DOMAIN map.list |-> map.table[map.list[i]].key]
  <2>1. /\ new' = Empty(NewSize(Size(map)))
        /\ op' = [Idle EXCEPT !.pc = "next", !.arg = k, !.kind = "insert", !.rest = keys]
    BY <1>1 DEF CallInsert
  <2>2. /\ {keys[q] : q \in DOMAIN keys} = KeysOf(map)
        /\ \A p, q \in DOMAIN keys : keys[p] = keys[q] => p = q
    BY <1>0, ListKeys
  <2>3. Even(case.hash, new') /\ KeysOf(new') = {}
    <3>1. Size(map) \in Nat \ {0}
      BY <1>0 DEF Laid, Maps, Sound, IsMap
    <3>2. NewSize(Size(map)) \in Nat \ {0}
      BY <3>1 DEF NewSize
    <3> QED BY <2>1, <3>2, EmptyEven
  <2>4. op'.rest = keys /\ op'.pc = "next" /\ op'.kind = "insert" /\ op'.arg = k /\ op'.empty = NoSlot
        /\ op'.robbed = FALSE /\ op'.answer = "none"
    BY <2>1 DEF Idle
  <2> HIDE DEF keys
  <2>5. Counted' /\ Aimed' /\ Fresh' /\ Phases'
    BY <1>0, <2>3, <2>4 DEF Counted, Aimed, Fresh, Phases, Idle
  <2>6. Moving'
    <3>1. Left' = KeysOf(map) /\ Hands' = {}
      BY <2>2, <2>4 DEF Left, Hands
    <3> QED BY <1>0, <2>2, <2>3, <2>4, <3>1 DEF Moving
  <2>7. Invoked
    <3>1. InHand = {} /\ InHand' = {} /\ op.kind = "none" /\ op.answer = "none"
      BY <1>0, <2>4, IdleType DEF InHand
    <3> QED BY <1>0, <2>4, <3>1, ContentKeys DEF Invoked, Answer
  <2> QED BY <2>5, <2>6, <2>7 DEF Neat, Seen
<1>2. CASE ~(num_entries > Thresh(Size(map)))
  <2>1. /\ new' = new
        /\ op' = [Idle EXCEPT !.pc = "insert", !.arg = k, !.kind = "insert", !.key = k]
    BY <1>2 DEF CallInsert
  <2>2. Begun(op', "insert", "insert", k, k, << >>) /\ ~Rebuilding'
    BY <1>0, <2>1, BeginType DEF Rebuilding
  <2>3. Counted' /\ Aimed' /\ Fresh' /\ Moving' /\ Phases'
    BY <1>0, <2>1, <2>2 DEF Counted, Aimed, Fresh, Moving, Phases, Begun, Ahead, Missed
  <2>4. Invoked
    <3>1. InHand = {} /\ InHand' = {} /\ op.kind = "none" /\ op.answer = "none"
      BY <1>0, <2>2, IdleType DEF InHand, Begun
    <3> QED BY <1>0, <2>2, <3>1, ContentKeys DEF Invoked, Answer, Begun
  <2> QED BY <2>3, <2>4 DEF Neat, Seen
<1> QED BY <1>1, <1>2

LEMMA InsertNextNeat ==
  ASSUME Tidy, InsertNext, Laid'
  PROVE  Neat' /\ Seen
<1>0. /\ op.pc = "next" /\ op.kind = "insert" /\ op.answer = "none" /\ Rebuilding
      /\ UNCHANGED <<case, num_entries>> /\ op.arg \in Keys /\ op.rest \in Seq(Keys)
      /\ Counted /\ Moving /\ Laid /\ Sound(case.hash, map) /\ Sound(case.hash, new)
      /\ Even(case.hash, map) /\ Even(case.hash, new)
  BY DEF InsertNext, Laid, Calls, Maps, Ops, Tidy, Neat, Phases, Counted
<1>1. CASE op.rest # << >>
  <2>1. /\ op' = [Idle EXCEPT !.pc = "insert", !.arg = op.arg, !.kind = "insert",
                              !.key = Head(op.rest), !.rest = Tail(op.rest)]
        /\ UNCHANGED <<map, new>>
    BY <1>1 DEF InsertNext
  <2>2. Head(op.rest) \in Keys /\ Tail(op.rest) \in Seq(Keys)
    BY <1>0, <1>1
  <2>3. Begun(op', "insert", "insert", op.arg, Head(op.rest), Tail(op.rest)) /\ Rebuilding' /\ Target' = new
    BY <1>0, <2>1, <2>2, RestType DEF Rebuilding, Target
  <2>4. /\ Left = {Head(op.rest)} \cup Left' /\ Head(op.rest) \notin Left'
        /\ \A p, q \in DOMAIN op'.rest : op'.rest[p] = op'.rest[q] => p = q
    <3> DEFINE s == op.rest
    <3>1. s \in Seq(Keys) /\ s # << >> /\ \A p, q \in DOMAIN s : s[p] = s[q] => p = q
      BY <1>0, <1>1 DEF Moving
    <3>2. Left = {s[q] : q \in DOMAIN s} /\ Left' = {Tail(s)[q] : q \in DOMAIN Tail(s)} /\ op'.rest = Tail(s)
      BY <2>3 DEF Left, Begun
    <3> HIDE DEF s
    <3>3. /\ {s[q] : q \in DOMAIN s} = {Head(s)} \cup {Tail(s)[q] : q \in DOMAIN Tail(s)}
          /\ Head(s) \notin {Tail(s)[q] : q \in DOMAIN Tail(s)}
          /\ \A p, q \in DOMAIN Tail(s) : Tail(s)[p] = Tail(s)[q] => p = q
      BY <3>1, TakeNext
    <3>4. Head(s) = Head(op.rest)
      BY DEF s
    <3> QED BY <3>2, <3>3, <3>4
  <2>5. Moving'
    <3>1. Hands = {} /\ Hands' = {Head(op.rest)}
      BY <1>0, <2>3 DEF Hands, Begun
    <3> QED BY <1>0, <2>1, <2>3, <2>4, <3>1 DEF Moving
  <2>6. Aimed'
    <3>1. Head(op.rest) \notin KeysOf(new)
      BY <1>0, <2>4 DEF Moving
    <3> QED BY <1>0, <2>1, <2>3, <3>1 DEF Aimed, Begun, Ahead
  <2>7. Counted' /\ Fresh' /\ Phases'
    BY <1>0, <2>1, <2>3 DEF Counted, Fresh, Phases, Begun
  <2>8. Unseen
    <3>1. InHand = {} /\ InHand' = {}
      BY <1>0, <2>3 DEF InHand
    <3> QED BY <1>0, <2>1, <2>3, <3>1, ContentKeys DEF Unseen, Answer, Begun
  <2> QED BY <2>5, <2>6, <2>7, <2>8 DEF Neat, Seen
<1>2. CASE ~(op.rest # << >>)
  <2>1. /\ op' = [Idle EXCEPT !.pc = "insert", !.arg = op.arg, !.kind = "insert", !.key = op.arg]
        /\ map' = new /\ new' = NoMap
    BY <1>2 DEF InsertNext
  <2>2. Begun(op', "insert", "insert", op.arg, op.arg, << >>) /\ ~Rebuilding'
    BY <1>0, <2>1, BeginType DEF Rebuilding
  <2>3. KeysOf(new) = KeysOf(map)
    <3>1. Left = {} /\ Hands = {}
      BY <1>0, <1>2 DEF Left, Hands
    <3> QED BY <1>0, <3>1 DEF Moving
  <2>4. Counted'
    <3>1. Cardinality(KeysOf(map)) = Cardinality(Taken(map)) /\ Cardinality(KeysOf(new)) = Cardinality(Taken(new))
      BY <1>0, KeysCounted DEF Sound, Even
    <3> QED BY <1>0, <2>1, <2>2, <2>3, <3>1 DEF Counted
  <2>5. Aimed' /\ Fresh' /\ Moving' /\ Phases'
    BY <1>0, <2>1, <2>2 DEF Aimed, Fresh, Moving, Phases, Begun, Ahead, Missed
  <2>6. Unseen
    <3>1. InHand = {} /\ InHand' = {}
      BY <1>0, <2>2 DEF InHand, Begun
    <3> QED BY <1>0, <2>1, <2>2, <2>3, <3>1, ContentKeys DEF Unseen, Answer, Begun
  <2> QED BY <2>4, <2>5, <2>6 DEF Neat, Seen
<1> QED BY <1>1, <1>2

(* What a helper knows when it looks at a slot.                            *)
Aims ==
  /\ Looks /\ Even(case.hash, Target) /\ Ahead(case.hash, Target, op.key, op.n)
  /\ Entry.probes \in Nat /\ op.empty = NoSlot /\ op.kind = "insert" /\ op.answer = "none" /\ op \in Ops
  /\ op.robbed \/ Rebuilding => op.key \notin KeysOf(Target)
  /\ ~(op.robbed \/ Rebuilding) => op.key = op.arg /\ Missed(case.hash, Target, op.key, op.n)
  /\ Answer = (IF op.robbed /\ ~Rebuilding THEN "yes" ELSE "none")
  /\ Content = KeysOf(map) \cup (IF op.robbed /\ ~Rebuilding THEN {op.key} ELSE {})

LEMMA HelperAims ==
  ASSUME Tidy, op.pc = "insert"
  PROVE  Aims
<1>1. Looks /\ Aimed /\ Fresh /\ Phases /\ Counted /\ op \in Ops
  BY LooksAt DEF Tidy, Neat, Laid, Calls
<1>2. Even(case.hash, Target)
  BY <1>1 DEF Counted, Target
<1>3. Entry.probes \in Nat
  BY <1>1, <1>2 DEF Looks, Even, NoMarks
<1>4. /\ op.robbed \/ Rebuilding => op.key \notin KeysOf(Target)
      /\ ~(op.robbed \/ Rebuilding) => op.key = op.arg /\ Missed(case.hash, Target, op.key, op.n)
      /\ Ahead(case.hash, Target, op.key, op.n)
  BY <1>1 DEF Aimed, Fresh, Target
<1>5. op.empty = NoSlot /\ op.kind = "insert" /\ op.answer = "none"
  BY <1>1 DEF Phases
<1>6. /\ Answer = (IF op.robbed /\ ~Rebuilding THEN "yes" ELSE "none")
      /\ Content = KeysOf(map) \cup (IF op.robbed /\ ~Rebuilding THEN {op.key} ELSE {})
  BY <1>5, ContentKeys DEF Answer, InHand
<1> QED BY <1>1, <1>2, <1>3, <1>4, <1>5, <1>6 DEF Aims

LEMMA InsertVacantNeat ==
  ASSUME Tidy, InsertVacant, Laid'
  PROVE  Neat' /\ Seen
<1>1. op.pc = "insert" /\ Aims /\ Entry.probes = 0 /\ Laid /\ Neat
  BY HelperAims DEF InsertVacant, Probing, Tidy
<1>2. VacantSlot = Slot /\ VacantN = op.n + 1 /\ op.n + 1 \in Nat \ {0} /\ op.n + 1 - 1 = op.n
  BY <1>1 DEF VacantSlot, VacantN, Aims, Looks
<1> DEFINE m2 == [table |-> [Target.table EXCEPT ![VacantSlot] = [key |-> op.key, probes |-> VacantN]],
                  list  |-> Append(Target.list, VacantSlot)]
<1>a. /\ Sound(case.hash, m2) /\ Written(Target, m2, VacantSlot, op.key, VacantN)
      /\ VacantSlot \notin Taken(Target) /\ Cardinality(Taken(m2)) = Cardinality(Taken(Target)) + 1
  <2>1. /\ VacantSlot \in DOMAIN Target.table /\ VacantN \in Nat \ {0} /\ ~(Target.table[VacantSlot].probes > 0)
        /\ At(case.hash, Target, op.key, VacantN - 1) = VacantSlot
        /\ Walked(case.hash, Target, op.key, VacantN - 1)
        /\ case.hash \in [Keys -> Nat] /\ Sound(case.hash, Target) /\ op.key \in Keys
    BY <1>1, VacantFits DEF Looks
  <2>2. m2 = [table |-> [Target.table EXCEPT ![VacantSlot] = [key |-> op.key, probes |-> VacantN]],
              list  |-> Append(Target.list, VacantSlot)]
    OBVIOUS
  <2> HIDE DEF m2
  <2> QED BY <2>1, <2>2, TakeSlot
<1>4. SetTarget(m2) /\ UNCHANGED case /\ HelperReturns("yes")
  BY <1>1, VacantFits
<1> HIDE DEF m2
<1>3. /\ Sound(case.hash, m2) /\ Written(Target, m2, Slot, op.key, op.n + 1)
      /\ Slot \notin Taken(Target) /\ Cardinality(Taken(m2)) = Cardinality(Taken(Target)) + 1
  BY <1>2, <1>a
<1>5. op.key \notin KeysOf(Target)
  <2>1. CASE op.robbed \/ Rebuilding
    BY <2>1, <1>1 DEF Aims
  <2>2. CASE ~(op.robbed \/ Rebuilding)
    BY <2>2, <1>1, AbsentAtVacant DEF Aims, Looks
  <2> QED BY <2>1, <2>2
<1>6. Even(case.hash, m2) /\ KeysOf(m2) = KeysOf(Target) \cup {op.key}
  <2>1. Otherwise(Target, m2, Slot, op.key, op.n + 1)
    BY <1>1, <1>2, <1>3, WrittenSlots DEF Aims, Looks
  <2>2. Target.table[Slot].probes < op.n + 1
    BY <1>1, <1>2 DEF Aims, Looks
  <2> DEFINE p == op.n + 1
  <2>3. /\ Ahead(case.hash, Target, op.key, p - 1) /\ p \in Nat \ {0}
        /\ Sound(case.hash, Target) /\ Even(case.hash, Target) /\ op.key \in Keys
        /\ case.hash \in [Keys -> Nat] /\ Slot \in DOMAIN Target.table
    BY <1>1, <1>2 DEF Aims, Looks
  <2>4. Otherwise(Target, m2, Slot, op.key, p) /\ Target.table[Slot].probes < p
    BY <2>1, <2>2
  <2> HIDE DEF p
  <2> QED BY <1>3, <1>5, <2>3, <2>4, WrittenEven
<1>7. Maps' /\ Rebuilding' = Rebuilding /\ Target' = m2
  BY <1>1, <1>3, <1>4, SetTargetKeeps
<1>8. CASE Rebuilding
  <2>1. /\ Ended(op, op', "next", op.answer) /\ UNCHANGED <<case, map, num_entries>>
        /\ new' = m2 /\ Target = new
    BY <1>1, <1>4, <1>8, HelperEnds DEF SetTarget, Target
  <2>2. Counted' /\ Aimed' /\ Fresh' /\ Phases'
    BY <1>1, <1>6, <1>7, <1>8, <2>1 DEF Counted, Aimed, Fresh, Phases, Ended, Aims, Neat
  <2>3. Moving'
    <3>1. Hands = {op.key} /\ Hands' = {} /\ Left' = Left
      BY <1>1, <2>1 DEF Hands, Left, Ended
    <3> QED BY <1>1, <1>6, <1>7, <1>8, <2>1, <3>1 DEF Moving, Ended, Neat
  <2>4. Unseen
    <3>1. InHand = {} /\ InHand' = {}
      BY <1>7, <1>8 DEF InHand
    <3> QED BY <2>1, <3>1, ContentKeys DEF Unseen, Answer, Ended
  <2> QED BY <2>2, <2>3, <2>4 DEF Neat, Seen
<1>9. CASE ~Rebuilding
  <2>1. /\ Ended(op, op', "return", "yes") /\ num_entries' = num_entries + 1 /\ UNCHANGED <<case, new>>
        /\ map' = m2 /\ Target = map
    BY <1>1, <1>4, <1>9, HelperEnds DEF SetTarget, Target
  <2>2. Counted' /\ Aimed' /\ Fresh' /\ Moving' /\ Phases'
    BY <1>1, <1>3, <1>6, <1>7, <1>9, <2>1 DEF Counted, Aimed, Fresh, Moving, Phases, Ended, Aims, Neat
  <2>3. Content' = KeysOf(map) \cup {op.key} /\ Answer' = "yes"
    <3>1. InHand' \subseteq {op.key}
      BY <2>1 DEF InHand, Ended
    <3> QED BY <1>6, <2>1, <3>1, ContentKeys DEF Answer, Ended
  <2>4. ASSUME op.robbed PROVE Seen
    <3>1. Answer = "yes" /\ Content = KeysOf(map) \cup {op.key} /\ op'.kind = op.kind /\ op'.arg = op.arg
      BY <1>1, <1>9, <2>1, <2>4 DEF Aims, Ended
    <3> QED BY <2>3, <3>1 DEF Unseen, Seen
  <2>5. ASSUME ~op.robbed PROVE Seen
    <3>1. /\ Answer = "none" /\ Content = KeysOf(map) /\ op'.kind = op.kind /\ op'.arg = op.arg
          /\ op.key = op.arg /\ op.kind = "insert" /\ op.arg \notin KeysOf(map)
      BY <1>1, <1>5, <1>9, <2>1, <2>5 DEF Aims, Ended
    <3> QED BY <2>3, <3>1 DEF Inserted, Seen
  <2> QED BY <2>2, <2>4, <2>5 DEF Neat
<1> QED BY <1>8, <1>9

LEMMA InsertMarkNever ==
  ASSUME Tidy, InsertMark
  PROVE  FALSE
<1>1. op.pc = "insert" /\ Entry.probes = -1
  BY DEF InsertMark, Probing
<1>2. Entry.probes \in Nat
  BY <1>1, HelperAims DEF Aims
<1> QED BY <1>1, <1>2

(* A key that a robbing has in hand is nowhere else: only the key of the   *)
(* call itself can be found.                                               *)
LEMMA InsertPresentNeat ==
  ASSUME Tidy, InsertPresent, Laid'
  PROVE  Neat' /\ Seen
<1>1. /\ op.pc = "insert" /\ Aims /\ Entry.probes > 0 /\ Entry.key = op.key /\ Laid /\ Neat
      /\ HelperReturns("no") /\ UNCHANGED <<case, map, new>>
  BY HelperAims DEF InsertPresent, Probing, Tidy
<1>2. op.key \in KeysOf(Target)
  BY <1>1 DEF Aims, Looks, KeysOf, Taken
<1>3. ~(op.robbed \/ Rebuilding) /\ op.key = op.arg /\ Target = map
  BY <1>1, <1>2 DEF Aims, Target
<1>4. Ended(op, op', "return", "no") /\ num_entries' = num_entries + 0 /\ ~Rebuilding'
  BY <1>1, <1>3, HelperEnds DEF Rebuilding
<1>5. num_entries' = num_entries
  BY <1>1, <1>4 DEF Laid, Calls
<1>6. Counted' /\ Aimed' /\ Fresh' /\ Moving' /\ Phases'
  BY <1>1, <1>3, <1>4, <1>5 DEF Counted, Aimed, Fresh, Moving, Phases, Ended, Aims, Neat
<1>7. Inserted("no")
  <2>1. InHand' = {} /\ Answer' = "no"
    BY <1>3, <1>4 DEF InHand, Answer, Ended
  <2>2. Content' = KeysOf(map)
    BY <1>1, <2>1, ContentKeys
  <2>3. /\ Answer = "none" /\ Content = KeysOf(map) /\ op'.kind = op.kind /\ op'.arg = op.arg
        /\ op.kind = "insert" /\ op.arg \in KeysOf(map)
    BY <1>1, <1>2, <1>3, <1>4 DEF Aims, Ended
  <2> QED BY <2>1, <2>2, <2>3 DEF Inserted
<1> QED BY <1>6, <1>7 DEF Neat, Seen

LEMMA InsertRobNeat ==
  ASSUME Tidy, InsertRob, Laid'
  PROVE  Neat' /\ Seen
<1>1. op.pc = "insert" /\ Aims /\ Laid /\ Neat /\ op \in Ops
  BY HelperAims DEF InsertRob, Probing, Tidy, Aims
<1> DEFINE m2 == [Target EXCEPT !.table[Slot] = [key |-> op.key, probes |-> op.n + 1]]
           p  == op.n + 1
           e  == Entry.key
           q  == Entry.probes
<1>2. /\ SetTarget(m2) /\ UNCHANGED <<case, num_entries>>
      /\ op' = [op EXCEPT !.key = e, !.n = q, !.empty = NoSlot, !.emptyN = -1, !.robbed = TRUE]
  BY DEF InsertRob
<1>3. /\ Sound(case.hash, m2) /\ Written(Target, m2, Slot, op.key, op.n + 1)
  BY <1>1, RobFits, RobSlot DEF Looks, InHandOK
<1> HIDE DEF m2
<1>4. /\ case.hash \in [Keys -> Nat] /\ Sound(case.hash, Target) /\ IsMap(Target) /\ Even(case.hash, Target)
      /\ NoMarks(Target) /\ op.key \in Keys /\ Slot \in DOMAIN Target.table /\ Slot \in Taken(Target)
      /\ e = Target.table[Slot].key /\ q = Target.table[Slot].probes /\ q < p /\ e # op.key
      /\ p \in Nat \ {0} /\ q \in Nat \ {0} /\ p - 1 = op.n
      /\ Ahead(case.hash, Target, op.key, p - 1)
  BY <1>1, RobFits DEF Aims, Looks, Even
<1>5. e \in Keys /\ At(case.hash, Target, e, q - 1) = Slot /\ Ahead(case.hash, Target, e, q - 1)
  <2>1. Placed(case.hash, Target, Slot)
    BY <1>4 DEF Sound, AllPlaced
  <2>2. Ahead(case.hash, Target, Target.table[Slot].key, Target.table[Slot].probes - 1)
    BY <1>4 DEF Even, AllAhead
  <2> HIDE DEF p, e, q
  <2> QED BY <1>4, <2>1, <2>2 DEF Placed
<1>6. op.key \notin KeysOf(Target)
  <2>1. CASE op.robbed \/ Rebuilding
    BY <2>1, <1>1 DEF Aims
  <2>2. CASE ~(op.robbed \/ Rebuilding)
    <3>1. Missed(case.hash, Target, op.key, op.n) /\ op.n \in Nat /\ Slot = At(case.hash, Target, op.key, op.n)
          /\ Target.table[Slot].probes < op.n + 1 /\ Target.table[Slot].key # op.key
      BY <2>2, <1>1, <1>4 DEF Aims, Looks
    <3> QED BY <3>1, <1>4, AbsentAtPoorer
  <2> QED BY <2>1, <2>2
<1>7. Otherwise(Target, m2, Slot, op.key, p)
  BY <1>3, <1>4, WrittenSlots
<1>8. Onward(op, op', e, q, NoSlot, -1, TRUE)
  BY <1>1, <1>2, <1>4, <1>5, RobType
<1> HIDE DEF p, e, q
<1>9. /\ Even(case.hash, m2) /\ KeysOf(m2) = (KeysOf(Target) \ {e}) \cup {op.key} /\ e \in KeysOf(Target)
  <2> DEFINE old == Target.table[Slot].key
  <2>1. /\ Ahead(case.hash, Target, op.key, p - 1) /\ p \in Nat \ {0}
        /\ Sound(case.hash, Target) /\ Even(case.hash, Target) /\ op.key \in Keys
        /\ case.hash \in [Keys -> Nat] /\ Slot \in DOMAIN Target.table /\ Slot \in Taken(Target)
        /\ Target.table[Slot].probes < p /\ op.key \notin KeysOf(Target)
    BY <1>4, <1>6
  <2>2. Even(case.hash, m2)
    BY <1>7, <2>1, WrittenEven
  <2>3. KeysOf(m2) = (KeysOf(Target) \ {old}) \cup {op.key}
    BY <1>7, <2>1, WrittenEven
  <2>4. old \in KeysOf(Target)
    BY <2>1 DEF KeysOf
  <2> QED BY <1>4, <2>2, <2>3, <2>4
<1>10. Ahead(case.hash, m2, e, q)
  <2>1. PICK r \in Nat : r = q - 1 /\ r + 1 = q
    BY <1>4
  <2>2. Ahead(case.hash, m2, e, r)
    BY <2>1, <1>4, <1>5, <1>7, AheadKept
  <2>3. m2.table[At(case.hash, m2, e, r)].probes >= r + 1
    <3>1. At(case.hash, m2, e, r) = Slot
      BY <2>1, <1>5, <1>7 DEF At, Otherwise
    <3> QED BY <3>1, <2>1, <1>4, <1>7 DEF Otherwise
  <2>4. Ahead(case.hash, m2, e, r + 1)
    BY <2>2, <2>3, AheadOn
  <2> QED BY <2>1, <2>4
<1>11. Maps' /\ Rebuilding' = Rebuilding /\ Target' = m2
  BY <1>1, <1>2, <1>3, SetTargetKeeps
<1>12. op'.key = e /\ op'.n = q /\ op'.pc = "insert" /\ op'.robbed = TRUE /\ op'.empty = NoSlot
       /\ op'.kind = op.kind /\ op'.arg = op.arg /\ op'.rest = op.rest /\ op'.answer = op.answer
  BY <1>1, <1>8 DEF Onward
<1>13. Aimed' /\ Fresh'
  BY <1>2, <1>4, <1>9, <1>10, <1>11, <1>12 DEF Aimed, Fresh
<1>14. Phases'
  BY <1>1, <1>12 DEF Phases, Aims
<1>15. Counted' /\ Moving' /\ Seen
  <2>1. CASE Rebuilding
    <3>1. new' = m2 /\ map' = map /\ Target = new
      BY <2>1, <1>2 DEF SetTarget, Target
    <3>2. Counted'
      BY <2>1, <3>1, <1>1, <1>2, <1>9, <1>11 DEF Counted, Neat
    <3>3. Moving'
      <4>1. Hands = {op.key} /\ Hands' = {e} /\ Left' = Left
        BY <1>1, <1>12 DEF Hands, Left
      <4> QED BY <2>1, <3>1, <4>1, <1>1, <1>9, <1>11, <1>12 DEF Moving, Neat
    <3>4. Unseen
      <4>1. InHand = {} /\ InHand' = {}
        BY <2>1, <1>11 DEF InHand
      <4> QED BY <3>1, <4>1, <1>12, ContentKeys DEF Unseen, Answer
    <3> QED BY <3>2, <3>3, <3>4 DEF Seen
  <2>2. CASE ~Rebuilding
    <3>1. map' = m2 /\ new' = new /\ Target = map
      BY <2>2, <1>2 DEF SetTarget, Target
    <3>2. Counted'
      <4>1. Taken(m2) = Taken(map)
        BY <3>1, <1>4, <1>7 DEF Otherwise
      <4> QED BY <2>2, <3>1, <4>1, <1>1, <1>2, <1>9, <1>11 DEF Counted, Neat
    <3>3. Moving'
      BY <2>2, <1>11 DEF Moving
    <3>4. Content' = KeysOf(map) \cup {op.key} /\ Answer' = "yes"
      <4>1. InHand' = {e} /\ op'.answer = "none"
        BY <2>2, <1>1, <1>11, <1>12 DEF InHand, Aims
      <4> QED BY <4>1, <3>1, <1>9, ContentKeys DEF Answer
    <3>5. ASSUME op.robbed PROVE Seen
      <4>1. Answer = "yes" /\ Content = KeysOf(map) \cup {op.key}
        BY <1>1, <2>2, <3>5 DEF Aims
      <4> QED BY <3>4, <4>1, <1>12 DEF Unseen, Seen
    <3>6. ASSUME ~op.robbed PROVE Seen
      <4>1. /\ Answer = "none" /\ Content = KeysOf(map) /\ op.kind = "insert" /\ op.key = op.arg
            /\ op.arg \notin KeysOf(map)
        BY <1>1, <1>6, <2>2, <3>1, <3>6 DEF Aims
      <4> QED BY <3>4, <4>1, <1>12 DEF Inserted, Seen
    <3> QED BY <3>2, <3>3, <3>5, <3>6
  <2> QED BY <2>1, <2>2
<1> QED BY <1>13, <1>14, <1>15 DEF Neat

LEMMA InsertPassNeat ==
  ASSUME Tidy, InsertPass, Laid'
  PROVE  Neat' /\ Seen
<1>1. /\ op.pc = "insert" /\ Aims /\ Entry.probes >= op.n + 1 /\ Entry.key # op.key /\ Laid /\ Neat
      /\ op' = [op EXCEPT !.n = @ + 1] /\ UNCHANGED <<case, map, num_entries, new>>
  BY HelperAims DEF InsertPass, Probing, Tidy
<1>2. Onward(op, op', op.key, op.n + 1, op.empty, op.emptyN, op.robbed)
  BY <1>1, PassType DEF Aims
<1>3. Rebuilding' = Rebuilding /\ Target' = Target
  BY <1>1, SameMaps
<1>4. Ahead(case.hash, Target, op.key, op.n + 1)
  BY <1>1, AheadOn DEF Aims, Looks
<1>5. ~(op.robbed \/ Rebuilding) => Missed(case.hash, map, op.key, op.n + 1)
  <2> SUFFICES ASSUME ~(op.robbed \/ Rebuilding) PROVE Missed(case.hash, Target, op.key, op.n + 1)
    BY DEF Target
  <2> QED BY <1>1, MissedOn DEF Aims, Looks
<1>6. Aimed'
  BY <1>1, <1>2, <1>3, <1>4 DEF Aimed, Aims, Onward
<1>7. Fresh'
  BY <1>1, <1>2, <1>3, <1>5 DEF Fresh, Aims, Onward
<1>8. Counted' /\ Moving' /\ Phases'
  <2>1. Left' = Left /\ Hands' = Hands
    BY <1>1, <1>2 DEF Left, Hands, Onward
  <2> QED BY <1>1, <1>2, <1>3, <2>1 DEF Counted, Moving, Phases, Aims, Onward, Neat
<1>9. Unseen
  <2>1. InHand' = InHand
    BY <1>2, <1>3 DEF InHand, Onward
  <2> QED BY <1>1, <1>2, <2>1, ContentKeys DEF Unseen, Answer, Onward
<1> QED BY <1>6, <1>7, <1>8, <1>9 DEF Neat, Seen

LEMMA SearchNeat ==
  ASSUME Tidy, Laid', SearchVacant \/ SearchPass \/ LookupFound
  PROVE  Neat' /\ Seen
<1>1. /\ op.pc = "lookup" /\ Laid /\ Neat /\ op \in Ops /\ op.kind = "lookup" /\ op.robbed = FALSE
      /\ op.answer = "none" /\ op.empty = NoSlot /\ UNCHANGED <<case, map, num_entries, new>>
  BY DEF SearchVacant, SearchPass, LookupFound, Searching, Tidy, Neat, Phases, Laid, Calls
<1>2. ~Rebuilding /\ Target = map /\ Looks /\ Sound(case.hash, map) /\ Even(case.hash, map)
  BY <1>1, LooksAt DEF Laid, Calls, Maps, Target, Neat, Counted
<1>3. op.key = op.arg /\ Missed(case.hash, map, op.key, op.n)
  BY <1>1, <1>2 DEF Neat, Fresh
<1>4. /\ case.hash \in [Keys -> Nat] /\ op.key \in Keys /\ op.n \in Nat /\ Slot \in DOMAIN map.table
      /\ Slot = At(case.hash, map, op.key, op.n) /\ Entry = map.table[Slot] /\ Entry.probes \in Nat
  BY <1>2 DEF Looks, Even, NoMarks
<1>5. Content = KeysOf(map) /\ Answer = "none"
  BY <1>1, ContentKeys DEF InHand, Answer
<1>6. ~Rebuilding'
  BY <1>1, <1>2 DEF Rebuilding
<1>7. Counted' /\ Moving'
  BY <1>1, <1>2, <1>6 DEF Counted, Moving, Neat
<1>8. CASE SearchPass
  <2> DEFINE n == (op.n + 1) % Size(map)
  <2>0. n \in 0 .. op.n + 1
    BY <1>2, <1>4, NextRound DEF Sound
  <2>1. Onward(op, op', op.key, n, op.empty, op.emptyN, op.robbed)
    BY <1>1, <1>8, <2>0, SearchPassType DEF SearchPass
  <2> HIDE DEF n
  <2>2. map.table[At(case.hash, map, op.key, op.n)].key # op.key
    BY <1>4, <1>8 DEF SearchPass
  <2>3. Missed(case.hash, map, op.key, n)
    <3>1. Missed(case.hash, map, op.key, op.n + 1)
      BY <1>3, <1>4, <2>2, MissedOn
    <3> QED BY <1>4, <2>0, <3>1 DEF Missed
  <2>4. Aimed' /\ Fresh' /\ Phases'
    BY <1>1, <1>3, <2>1, <2>3 DEF Aimed, Fresh, Phases, Onward
  <2>5. Unseen
    <3>1. InHand' = {}
      BY <1>1, <2>1 DEF InHand, Onward
    <3> QED BY <1>1, <1>5, <2>1, <3>1, ContentKeys DEF Unseen, Answer, Onward
  <2> QED BY <1>7, <2>4, <2>5 DEF Neat, Seen
<1>9. ASSUME NEW a \in {"yes", "no"}, op' = [op EXCEPT !.pc = "return", !.answer = a],
             a = (IF op.arg \in KeysOf(map) THEN "yes" ELSE "no")
      PROVE  Neat' /\ Seen
  <2>1. Ended(op, op', "return", a)
    BY <1>1, <1>9, EndType
  <2>2. Aimed' /\ Fresh' /\ Phases'
    BY <1>1, <2>1 DEF Aimed, Fresh, Phases, Ended
  <2>3. LookedUp(a)
    <3>1. InHand' = {}
      BY <1>1, <2>1 DEF InHand, Ended
    <3> QED BY <1>1, <1>5, <1>9, <2>1, <3>1, ContentKeys DEF LookedUp, Answer, Ended
  <2> QED BY <1>7, <2>2, <2>3 DEF Neat, Seen
<1>10. CASE SearchVacant
  <2>1. op.key \notin KeysOf(map)
    BY <1>2, <1>3, <1>4, <1>10, AbsentAtVacant DEF SearchVacant
  <2> QED BY <1>3, <1>9, <1>10, <2>1 DEF SearchVacant
<1>11. CASE LookupFound
  <2>1. op.key \in KeysOf(map)
    BY <1>4, <1>11 DEF LookupFound, KeysOf, Taken
  <2> QED BY <1>3, <1>9, <1>11, <2>1 DEF LookupFound
<1> QED BY <1>8, <1>10, <1>11

LEMMA CallLookupNeat ==
  ASSUME Tidy, Laid', NEW k \in Keys, CallLookup(k)
  PROVE  Neat' /\ Seen
<1>1. /\ op = Idle /\ op.pc = "idle" /\ UNCHANGED <<case, map, num_entries, new>> /\ ~Rebuilding /\ ~Rebuilding'
      /\ Laid /\ Counted
  BY DEF CallLookup, Laid, Calls, Tidy, Neat, Phases, Rebuilding
<1>2. Begun(op', "lookup", "lookup", k, k, << >>)
  BY BeginType DEF CallLookup
<1>3. Counted' /\ Aimed' /\ Fresh' /\ Moving' /\ Phases'
  BY <1>1, <1>2 DEF Counted, Aimed, Fresh, Moving, Phases, Begun, Missed
<1>4. Invoked
  <2>1. InHand = {} /\ InHand' = {} /\ op.kind = "none" /\ op.answer = "none"
    BY <1>1, <1>2, IdleType DEF InHand, Begun
  <2> QED BY <1>1, <1>2, <2>1, ContentKeys DEF Invoked, Answer, Begun
<1> QED BY <1>3, <1>4 DEF Neat, Seen

LEMMA ReturnNeat ==
  ASSUME Tidy, Laid', Return
  PROVE  Neat' /\ Seen
<1>1. /\ op.pc = "return" /\ op' = Idle /\ UNCHANGED <<case, map, num_entries, new>>
      /\ ~Rebuilding /\ ~Rebuilding' /\ Laid /\ Neat
  BY DEF Return, Laid, Calls, Tidy, Rebuilding
<1>2. Counted' /\ Aimed' /\ Fresh' /\ Moving' /\ Phases'
  BY <1>1, IdleType DEF Counted, Aimed, Fresh, Moving, Phases, Neat
<1>3. Returned
  <2>1. InHand \subseteq KeysOf(map) /\ op.answer # "none"
    BY <1>1 DEF Neat, Phases, InHand
  <2>2. InHand' = {} /\ Answer' = "none" /\ op'.kind = "none" /\ op'.arg = NoKey
    BY <1>1, IdleType DEF InHand, Answer
  <2> QED BY <1>1, <2>1, <2>2, ContentKeys DEF Returned, Answer
<1> QED BY <1>2, <1>3 DEF Neat, Seen

LEMMA RemoveNever ==
  ASSUME Tidy
  PROVE  ~RemoveFound /\ \A k \in Keys : ~CallRemove(k)
BY DEF Tidy, Neat, Phases, NothingRemoved, RemoveFound, CallRemove

LEMMA NextTidy == Tidy /\ [Next]_vars => Tidy' /\ Seen
<1> SUFFICES ASSUME Tidy, [Next]_vars PROVE Tidy' /\ Seen
  OBVIOUS
<1>1. Laid'
  BY NextLaid DEF Tidy
<1>2. NothingRemoved'
  BY DEF Tidy, NothingRemoved, vars, Next, Step, CallInsert, CallLookup, CallRemove, InsertNext, InsertVacant,
     InsertMark, InsertPresent, InsertRob, InsertPass, SearchVacant, SearchPass, LookupFound, RemoveFound, Return
<1>3. CASE UNCHANGED vars
  <2>1. Neat'
    BY <1>3 DEF vars, Tidy, Neat, Counted, Aimed, Fresh, Moving, Phases, Rebuilding, Target, Left, Hands
  <2>2. Unseen
    BY <1>3 DEF vars, Unseen, Content, Answer, InHand, Slots, Rebuilding
  <2> QED BY <1>1, <1>2, <2>1, <2>2 DEF Tidy, Seen
<1>4. CASE Next
  <2>1. Neat' /\ Seen
    BY <1>1, <1>4, CallInsertNeat, InsertNextNeat, InsertVacantNeat, InsertMarkNever, InsertPresentNeat,
       InsertRobNeat, InsertPassNeat, SearchNeat, CallLookupNeat, ReturnNeat, RemoveNever DEF Next, Step
  <2> QED BY <1>1, <1>2, <2>1 DEF Tidy
<1> QED BY <1>3, <1>4

-----------------------------------------------------------------------------
THEOREM TidyInvariant == Spec /\ NothingRemoved => []Tidy
BY InitTidy, NextTidy, PTL DEF Spec

(* Between calls the chain visits every entry once and num_entries counts  *)
(* them, which is what map_iterate, map_size and resize_table rely on.     *)
THEOREM ListIsExact == Spec /\ NothingRemoved => []ListExact
<1>1. Tidy => ListExact
  <2> SUFFICES ASSUME Tidy PROVE ListExact
    OBVIOUS
  <2>1. ChainVisits /\ num_entries = Cardinality(Slots)
    BY ChainExact DEF Tidy, Neat, Counted, Slots, Taken
  <2> QED BY <2>1 DEF ListExact, ChainVisits
<1> QED BY <1>1, TidyInvariant, PTL

(* The map is the dictionary: insert answers that the key was absent and   *)
(* lookup that it was there, each call takes effect at one moment, and     *)
(* nothing else comes or goes, while entries are robbed and while the      *)
(* table is rebuilt.                                                       *)
THEOREM Implements == Spec /\ NothingRemoved => ImplementsDictionary
<1>1. Init /\ NothingRemoved => D!Init
  BY InitTidy
<1>2. Tidy /\ [Next]_vars => [D!Next]_(D!vars)
  BY NextTidy, SeenStep
<1> QED BY TidyInvariant, <1>1, <1>2, PTL DEF Spec, ImplementsDictionary, D!Spec
=============================================================================
