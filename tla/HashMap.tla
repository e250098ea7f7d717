------------------------------ MODULE HashMap ------------------------------
(***************************************************************************)
(* The hash map (datastructure/map2.c, and set2.c over it): an open table  *)
(* with quadratic probing, in which an insertion takes the place of an     *)
(* entry that needed fewer probes and goes on with that entry, a removal   *)
(* leaves a mark, and the table is rebuilt when it is three quarters full. *)
(* Each round of a probing loop is a step, so that a loop that never ends  *)
(* is a behaviour.                                                         *)
(*                                                                         *)
(* A slot holds [key, probes]: probes is 0 for a vacant slot, -1 for one   *)
(* whose entry was removed. list is the chain first .. last of the slots   *)
(* through prev and next. The values that go with the keys are left out.   *)
(***************************************************************************)
EXTENDS Integers, Sequences, FiniteSets

CONSTANTS
  Keys,       \* the keys of the calls
  NoKey,      \* the key of a vacant slot
  Cases,      \* the maps to try: hash function, table_sz, keys that are removed
  ProbeBound  \* bound: the rounds of one probing loop of an insertion

ASSUME ConstantsFit ==
  /\ NoKey \notin Keys
  /\ \A c \in Cases : /\ c.hash \in [Keys -> Nat]
                       /\ c.size \in Nat \ {0}
                       /\ c.removable \subseteq Keys

VARIABLES
  case,       \* the member of Cases
  map,        \* the Map: table and list
  num_entries,
  new,        \* the table and list that resize_table is filling
  op          \* the call under way

vars == << case, map, num_entries, new, op >>

NoSlot == -1
Vacant == [key |-> NoKey, probes |-> 0]
Empty(size) == [table |-> [i \in 0 .. size - 1 |-> Vacant], list |-> << >>]
NoMap == Empty(0)
Idle == [pc |-> "idle", kind |-> "none", arg |-> NoKey, key |-> NoKey, n |-> 0,
         empty |-> NoSlot, emptyN |-> -1, rest |-> << >>, robbed |-> FALSE, answer |-> "none"]

Size(m)      == Cardinality(DOMAIN m.table)
Pos(hval, n, size) == (hval + n * n) % size
NewSize(size) == 2 * size + 1
Thresh(size) == (3 * size) \div 4

Init ==
  /\ case \in Cases
  /\ map = Empty(case.size)
  /\ num_entries = 0
  /\ new = NoMap
  /\ op = Idle

(* The table that the probing loop works on, and the slot it looks at.     *)
Rebuilding == new # NoMap
Target == IF Rebuilding THEN new ELSE map
Slot   == Pos(case.hash[op.key], op.n, Size(Target))
Entry  == Target.table[Slot]

SetTarget(m) ==
  IF Rebuilding THEN new' = m /\ UNCHANGED map
                ELSE map' = m /\ UNCHANGED new

-----------------------------------------------------------------------------
(* map_insert, and resize_table before it: rest are the keys that are      *)
(* still to be put in the new table, besides the one in hand.              *)

CallInsert(k) ==
  /\ op.pc = "idle"
  /\ IF num_entries > Thresh(Size(map))
     THEN LET keys == [i \in DOMAIN map.list |-> map.table[map.list[i]].key]
          IN /\ new' = Empty(NewSize(Size(map)))
             /\ op' = [Idle EXCEPT !.pc = "next", !.arg = k, !.kind = "insert", !.rest = keys]
     ELSE /\ op' = [Idle EXCEPT !.pc = "insert", !.arg = k, !.kind = "insert", !.key = k]
          /\ UNCHANGED new
  /\ UNCHANGED << case, map, num_entries >>

InsertNext ==
  /\ op.pc = "next"
  /\ IF op.rest # << >>
     THEN /\ op' = [Idle EXCEPT !.pc = "insert", !.arg = op.arg, !.kind = "insert",
                                !.key = Head(op.rest), !.rest = Tail(op.rest)]
          /\ UNCHANGED << map, new >>
     ELSE /\ op' = [Idle EXCEPT !.pc = "insert", !.arg = op.arg, !.kind = "insert", !.key = op.arg]
          /\ map' = new
          /\ new' = NoMap
  /\ UNCHANGED << case, num_entries >>

(* The helper has put its key somewhere, or found it.                      *)
HelperReturns(answer) ==
  IF Rebuilding
  THEN /\ op' = [op EXCEPT !.pc = "next"]
       /\ UNCHANGED num_entries
  ELSE /\ op' = [op EXCEPT !.pc = "return", !.answer = answer]
       /\ num_entries' = num_entries + (IF answer = "yes" THEN 1 ELSE 0)

Probing == op.pc = "insert" /\ op.n < ProbeBound

(* Position is vacant: the first slot with a mark is taken, or this one.   *)
InsertVacant ==
  /\ Probing
  /\ Entry.probes = 0
  /\ LET slot == IF op.empty # NoSlot THEN op.empty ELSE Slot
         n    == IF op.empty # NoSlot THEN op.emptyN ELSE op.n + 1
     IN SetTarget([table |-> [Target.table EXCEPT ![slot] = [key |-> op.key, probes |-> n]],
                   list  |-> Append(Target.list, slot)])
  /\ HelperReturns("yes")
  /\ UNCHANGED case

InsertMarkAtOnce ==
  /\ Probing
  /\ Entry.probes = -1
  /\ SetTarget([table |-> [Target.table EXCEPT ![Slot] = [key |-> op.key, probes |-> op.n + 1]],
                list  |-> Append(Target.list, Slot)])
  /\ HelperReturns("yes")
  /\ UNCHANGED case
InsertMark ==
  /\ Probing
  /\ Entry.probes = -1
  /\ op' = [op EXCEPT !.n = @ + 1,
                      !.empty  = IF @ = NoSlot THEN Slot ELSE @,
                      !.emptyN = IF op.empty = NoSlot THEN op.n + 1 ELSE @]
  /\ UNCHANGED << case, map, num_entries, new >>

InsertPresent ==
  /\ Probing
  /\ Entry.probes > 0
  /\ Entry.key = op.key
  /\ HelperReturns("no")
  /\ UNCHANGED << case, map, new >>

(* Rob this entry: it keeps its place in the list, its key goes on from    *)
(* the probes it had.                                                      *)
InsertRob ==
  /\ Probing
  /\ Entry.probes > 0
  /\ Entry.key # op.key
  /\ Entry.probes < op.n + 1
  /\ SetTarget([Target EXCEPT !.table[Slot] = [key |-> op.key, probes |-> op.n + 1]])
  /\ op' = [op EXCEPT !.key = Entry.key, !.n = Entry.probes,
                      !.empty = NoSlot, !.emptyN = -1, !.robbed = TRUE]
  /\ UNCHANGED << case, num_entries >>

InsertPass ==
  /\ Probing
  /\ Entry.probes >= op.n + 1
  /\ Entry.key # op.key
  /\ op' = [op EXCEPT !.n = @ + 1]
  /\ UNCHANGED << case, map, num_entries, new >>

-----------------------------------------------------------------------------
(* map_lookup and map_remove: the same search, for remove then unlinked    *)
(* from the list and marked.                                               *)

CallLookup(k) ==
  /\ op.pc = "idle"
  /\ op' = [Idle EXCEPT !.pc = "lookup", !.arg = k, !.kind = "lookup", !.key = k]
  /\ UNCHANGED << case, map, num_entries, new >>

CallRemove(k) ==
  /\ op.pc = "idle"
  /\ k \in case.removable
  /\ op' = [Idle EXCEPT !.pc = "remove", !.arg = k, !.kind = "remove", !.key = k]
  /\ UNCHANGED << case, map, num_entries, new >>

(* A search that goes on for ever is one that comes round: its positions   *)
(* repeat after Size rounds, and its n is taken modulo that.               *)
Searching == op.pc \in {"lookup", "remove"}

SearchVacant ==
  /\ Searching
  /\ Entry.probes = 0
  /\ op' = [op EXCEPT !.pc = "return", !.answer = "no"]
  /\ UNCHANGED << case, map, num_entries, new >>

SearchPassMarkStays ==
  /\ Searching
  /\ Entry.probes = -1 \/ (Entry.probes > 0 /\ Entry.key # op.key)
  /\ op' = [op EXCEPT !.n = IF Entry.probes = -1 THEN @ ELSE (@ + 1) % Size(map)]
  /\ UNCHANGED << case, map, num_entries, new >>
SearchPass ==
  /\ Searching
  /\ Entry.probes = -1 \/ (Entry.probes > 0 /\ Entry.key # op.key)
  /\ op' = [op EXCEPT !.n = (@ + 1) % Size(map)]
  /\ UNCHANGED << case, map, num_entries, new >>

LookupFound ==
  /\ op.pc = "lookup"
  /\ Searching
  /\ Entry.probes > 0
  /\ Entry.key = op.key
  /\ op' = [op EXCEPT !.pc = "return", !.answer = "yes"]
  /\ UNCHANGED << case, map, num_entries, new >>

(* The chain without one of its slots.                                     *)
Unlinked(list, slot) ==
  LET at == CHOOSE i \in DOMAIN list : list[i] = slot
  IN [i \in 1 .. Len(list) - 1 |-> IF i < at THEN list[i] ELSE list[i + 1]]

RemoveFoundVacates ==
  /\ op.pc = "remove"
  /\ Searching
  /\ Entry.probes > 0
  /\ Entry.key = op.key
  /\ map' = [table |-> [map.table EXCEPT ![Slot].probes = 0],
             list  |-> Unlinked(map.list, Slot)]
  /\ num_entries' = num_entries - 1
  /\ op' = [op EXCEPT !.pc = "return", !.answer = "yes"]
  /\ UNCHANGED << case, new >>
RemoveFoundKeepsLink ==
  /\ op.pc = "remove"
  /\ Searching
  /\ Entry.probes > 0
  /\ Entry.key = op.key
  /\ map' = [table |-> [map.table EXCEPT ![Slot].probes = -1],
             list  |-> map.list]
  /\ num_entries' = num_entries - 1
  /\ op' = [op EXCEPT !.pc = "return", !.answer = "yes"]
  /\ UNCHANGED << case, new >>
RemoveFound ==
  /\ op.pc = "remove"
  /\ Searching
  /\ Entry.probes > 0
  /\ Entry.key = op.key
  /\ map' = [table |-> [map.table EXCEPT ![Slot].probes = -1],
             list  |-> Unlinked(map.list, Slot)]
  /\ num_entries' = num_entries - 1
  /\ op' = [op EXCEPT !.pc = "return", !.answer = "yes"]
  /\ UNCHANGED << case, new >>

Return ==
  /\ op.pc = "return"
  /\ op' = Idle
  /\ UNCHANGED << case, map, num_entries, new >>

Step ==
  \/ InsertNext \/ InsertVacant \/ InsertMark \/ InsertPresent \/ InsertRob \/ InsertPass
  \/ SearchVacant \/ SearchPass \/ LookupFound \/ RemoveFound \/ Return

Next ==
  \/ \E k \in Keys : CallInsert(k) \/ CallLookup(k) \/ CallRemove(k)
  \/ Step

(* A call that has begun goes on: the code runs it to its end.             *)
Spec == Init /\ [][Next]_vars /\ WF_vars(Step)

-----------------------------------------------------------------------------

Slots == {i \in DOMAIN map.table : map.table[i].probes > 0}

(* Between calls the chain from first to last visits every entry once, and *)
(* num_entries counts them: what map_iterate, map_size and the rebuilding  *)
(* of the table rest on, also after entries were robbed or marked slots    *)
(* were taken again.                                                       *)
ListExact ==
  op.pc = "idle" =>
    /\ {map.list[i] : i \in DOMAIN map.list} = Slots
    /\ Len(map.list) = Cardinality(Slots)
    /\ num_entries = Cardinality(Slots)

(* An entry lies where its probes say, and no slot before that on its way  *)
(* is vacant: a lookup, which stops at a vacant slot, gets to it.          *)
Findable ==
  \A i \in Slots :
    LET e == map.table[i]
        at(n) == Pos(case.hash[e.key], n, Size(map))
    IN /\ at(e.probes - 1) = i
       /\ \A n \in 0 .. e.probes - 2 : map.table[at(n)].probes # 0

(* The key that a robbing insertion has in hand is in the map.             *)
InHand == IF op.robbed /\ ~Rebuilding THEN {op.key} ELSE {}

(* The map is a dictionary: insert answers that the key was absent, lookup *)
(* and remove that it was there, and nothing else is added or lost, also   *)
(* while the table is rebuilt.                                             *)
D == INSTANCE Dictionary WITH
       content <- {map.table[i].key : i \in Slots} \cup InHand,
       call    <- op.kind,
       arg     <- op.arg,
       answer  <- IF op.answer = "none" /\ InHand # {} THEN "yes" ELSE op.answer

ImplementsDictionary == D!Spec

(* On the way of the key in hand there is a vacant slot, or the key itself *)
(* lies there: the slots that are still to come repeat after Size.         *)
WayOut ==
  \E n \in op.n .. op.n + Size(Target) :
    LET e == Target.table[Pos(case.hash[op.key], n, Size(Target))]
    IN e.probes = 0 \/ (e.probes > 0 /\ e.key = op.key)

(* The search for a key ends: every one finds such a way out.              *)
SearchEnds == op.pc \in {"lookup", "remove"} => WayOut

(* Every call returns, with the key or without it, unless its key has no   *)
(* way out, which a table that is not full does not rule out (SearchEnds): *)
(* marks, robbing and the rebuilding of the table never keep a call from   *)
(* its end.                                                                *)
NoWayOut == op.pc \in {"insert", "lookup", "remove"} /\ ~WayOut
CallsReturn == op.pc # "idle" ~> (op.pc = "idle" \/ NoWayOut)
=============================================================================
