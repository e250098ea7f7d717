----------------------------- MODULE MemoryGraph -----------------------------
(***************************************************************************)
(* The object graph of src/JL/memory/memory_graph.c and its collector,     *)
(* with the raw arrays of src/JL/datastructure/arraylike.h, as one thread  *)
(* uses them.  Every object is a node; an edge from node to node carries   *)
(* the number of references the parent's fields and elements hold, once in *)
(* the parent's `children` and once in the child's `parents`.  Nodes are   *)
(* memory slots of the arena and are used again after they are freed.      *)
(*                                                                         *)
(* Numbers, strings and None are one element, None.  The VM's own use of   *)
(* the graph is an arbitrary program that passes only objects it can reach *)
(* from a root or has just got back from a call (`held`).                  *)
(***************************************************************************)
EXTENDS Integers, FiniteSets, Reachability

CONSTANTS Nodes,       \* the arena's slots for nodes
          Roots,       \* graph->roots: created once, by vm_create
          Kinds,       \* obj->type of the objects the program creates
          Fields,      \* names of fields
          None,        \* an element that is no object
          Absent,      \* a field that is not in obj->fields
          MaxLen,      \* bound on the length of an array (no reallocation)
          Modulus,     \* 2^32: NodeEdge.ref_count counts modulo this
          StaleBound,  \* bound on what a dead parent's edge may have counted
          BeyondEnd    \* how far past its end a program writes or shifts

ASSUME GraphAssumption ==
    /\ IsFiniteSet(Nodes) /\ Roots \subseteq Nodes
    /\ None \notin Nodes /\ Absent \notin Nodes \cup {None}
    /\ "$parent" \in Fields /\ Kinds \subseteq {"OBJ", "ARRAY", "TUPLE"}
    /\ MaxLen \in Nat /\ BeyondEnd \in Nat /\ StaleBound \in Nat
    /\ IsFiniteSet(Fields) /\ Modulus \in Nat
    /\ Cardinality(Fields) + MaxLen + StaleBound < Modulus

VARIABLES nodes,     \* graph->nodes
          kind,      \* obj->type
          fields,    \* obj->fields
          table,     \* array->table, tuple->table
          size,      \* array->num_elts, tuple->size
          children,  \* <<p, c>> |-> ref_count of the edge to c in p->children
          parents,   \* <<p, c>> |-> ref_count of the edge to p in c->parents
          held       \* the object a call returned, not yet stored

contents == <<nodes, kind, fields, table, size>>
vars == <<contents, children, parents, held>>

Elements == Nodes \cup {None}
Slots == 0 .. MaxLen - 1

NoFields == [f \in Fields |-> Absent]
NoTable == [i \in Slots |-> None]

FieldRefs(n) == {fields[n][f] : f \in Fields} \cap Nodes
ItemRefs(n) == {table[n][i] : i \in 0 .. size[n] - 1} \cap Nodes
References == [n \in Nodes |-> FieldRefs(n) \cup ItemRefs(n)]

Usable == Closure(Nodes, Roots \cup ({held} \cap Nodes), References)

Init ==
    /\ nodes = Roots
    /\ kind = [n \in Nodes |-> "OBJ"]
    /\ fields = [n \in Nodes |-> NoFields]
    /\ table = [n \in Nodes |-> NoTable]
    /\ size = [n \in Nodes |-> 0]
    /\ children = [e \in Nodes \X Nodes |-> 0]
    /\ parents = [e \in Nodes \X Nodes |-> 0]
    /\ held = None

-----------------------------------------------------------------------------
(* memory_graph_inc_edge and memory_graph_dec_edge for the elements that   *)
(* parent p gains and loses (an edge that is not found counts as zero).    *)
Adjust(counts, p, c, by) ==
    IF c \in Nodes
    THEN [counts EXCEPT ![<<p, c>>] = (@ + by) % Modulus]
    ELSE counts
IncEdge(counts, p, c) == Adjust(counts, p, c, 1)
DecEdge(counts, p, c) == Adjust(counts, p, c, -1)

(* Mutants: the parent's side only on a new edge; no edge is given up.     *)
RelinkParentOnce(p, lost, gained) ==
    /\ children' = IncEdge(DecEdge(children, p, lost), p, gained)
    /\ parents' = LET less == DecEdge(parents, p, lost) IN
                  IF gained \in Nodes /\ less[<<p, gained>>] > 0
                  THEN less ELSE IncEdge(less, p, gained)
RelinkNoDec(p, lost, gained) ==
    /\ children' = IncEdge(children, p, gained)
    /\ parents' = IncEdge(parents, p, gained)

Relink(p, lost, gained) ==
    /\ children' = IncEdge(DecEdge(children, p, lost), p, gained)
    /\ parents' = IncEdge(DecEdge(parents, p, lost), p, gained)

-----------------------------------------------------------------------------
(* node_create, memory_graph_new_node and the empty table that create_obj  *)
(* and create_tuple give it.  A child that outlived an earlier node of the *)
(* same slot still has an edge to it; whether the new node's edge finds    *)
(* that entry depends on where its hash left it, so both may happen.       *)
NewNode(n, k) ==
    /\ n \notin nodes /\ held = None
    /\ nodes' = nodes \cup {n}
    /\ kind' = [kind EXCEPT ![n] = k]
    /\ \E found \in SUBSET {c \in nodes : parents[<<n, c>>] \in 1 .. StaleBound} :
          parents' = [e \in Nodes \X Nodes |->
              IF e[2] = n \/ (e[1] = n /\ e[2] \notin found)
              THEN 0 ELSE parents[e]]
    /\ held' = n
    /\ UNCHANGED <<fields, table, size, children>>

(* The operations below take objects that the program has in its hands.    *)
PutField(p, f, e) ==
    /\ Relink(p, fields[p][f], e)
    /\ fields' = [fields EXCEPT ![p][f] = e]
    /\ held' = None
    /\ UNCHANGED <<nodes, kind, table, size>>

Scopes(b) == Closure(Nodes, {b}, [n \in Nodes |-> {fields[n]["$parent"]} \cap Nodes])

(* memory_graph_set_field and memory_graph_set_field_ptr.  $parent is set  *)
(* once, to a block that is not inside p.                                  *)
SetField(p, f, e) ==
    /\ f = "$parent" => /\ kind[p] = "OBJ" /\ fields[p][f] = Absent
                        /\ e \in Nodes /\ kind[e] = "OBJ"
                        /\ p \notin Scopes(e)
    /\ PutField(p, f, e)

(* memory_graph_set_var: the innermost enclosing block that has the        *)
(* variable, or the current block when none has it.                        *)
Holders(b, f) == {h \in Scopes(b) : fields[h][f] # Absent}

(* Mutant: the edge is kept by the block that runs, not by the holder.     *)
SetVarOfBlock(b, f, e) ==
    /\ f # "$parent"
    /\ LET h == IF Holders(b, f) = {} THEN b
                ELSE CHOOSE h \in Holders(b, f) : Holders(b, f) \subseteq Scopes(h)
       IN /\ Relink(b, fields[b][f], e)
          /\ fields' = [fields EXCEPT ![h][f] = e]
    /\ held' = None
    /\ UNCHANGED <<nodes, kind, table, size>>

SetVar(b, f, e) ==
    /\ f # "$parent"
    /\ IF Holders(b, f) = {} THEN PutField(b, f, e)
       ELSE \E h \in Holders(b, f) :
               /\ Holders(b, f) \subseteq Scopes(h)
               /\ PutField(h, f, e)
-----------------------------------------------------------------------------
(* The array primitives: memmove and memset on the table of an array.      *)
Moved(tab, from, to, count) ==
    [i \in Slots |-> IF i \in to .. to + count - 1 THEN tab[i - to + from]
                     ELSE tab[i]]
Zeroed(tab, from, count) ==
    [i \in Slots |-> IF i \in from .. from + count - 1 THEN None ELSE tab[i]]

SetTable(a, tab, len) ==
    /\ table' = [table EXCEPT ![a] = tab]
    /\ size' = [size EXCEPT ![a] = len]
    /\ UNCHANGED <<nodes, kind, fields>>

IsArray(a) == kind[a] = "ARRAY"

ArrayPush(a, e) ==
    /\ IsArray(a) /\ size[a] < MaxLen
    /\ SetTable(a, [Moved(table[a], 0, 1, size[a]) EXCEPT ![0] = e], size[a] + 1)
    /\ Relink(a, None, e)
    /\ held' = None

ArraySet(a, i, e) ==
    /\ IsArray(a)
    /\ i <= size[a] + BeyondEnd
    /\ SetTable(a, [table[a] EXCEPT ![i] = e],
                IF i >= size[a] THEN i + 1 ELSE size[a])
    /\ Relink(a, IF i < size[a] THEN table[a][i] ELSE None, e)
    /\ held' = None

(* Mutant: pop of an empty array.                                          *)
ArrayPopUnchecked(a) ==
    /\ IsArray(a) /\ held = None
    /\ SetTable(a, Moved(table[a], 1, 0, size[a] - 1), size[a] - 1)
    /\ Relink(a, table[a][0], None)
    /\ held' = table[a][0]

ArrayPop(a) ==
    /\ IsArray(a) /\ held = None /\ size[a] > 0
    /\ SetTable(a, Moved(table[a], 1, 0, size[a] - 1), size[a] - 1)
    /\ Relink(a, table[a][0], None)
    /\ held' = table[a][0]

ArrayEnqueue(a, e) ==
    /\ IsArray(a) /\ size[a] < MaxLen
    /\ SetTable(a, [table[a] EXCEPT ![size[a]] = e], size[a] + 1)
    /\ Relink(a, None, e)
    /\ held' = None

ArrayDequeue(a) ==
    /\ IsArray(a) /\ held = None /\ size[a] > 0
    /\ SetTable(a, table[a], size[a] - 1)
    /\ Relink(a, table[a][size[a] - 1], None)
    /\ held' = table[a][size[a] - 1]

ArrayRemove(a, i) ==
    /\ IsArray(a) /\ held = None /\ i < size[a]
    /\ SetTable(a, Moved(table[a], i + 1, i, size[a] - i - 1), size[a] - 1)
    /\ Relink(a, table[a][i], None)
    /\ held' = table[a][i]

(* external/external.c, array_swap: elements change places, edges stay.    *)
ArraySwap(a, i, j) ==
    /\ IsArray(a) /\ held = None
    /\ i < size[a] /\ j < size[a] /\ i # j
    /\ SetTable(a, [table[a] EXCEPT ![i] = table[a][j], ![j] = table[a][i]], size[a])
    /\ UNCHANGED <<children, parents, held>>
-----------------------------------------------------------------------------
(* memory_graph_array_shift: the edges of the elements that the count      *)
(* elements from start will lie on, or leave behind them, are given up.    *)
(* Mutant: the slots the elements come from.                               *)
DisplacedSources(start, count, by) ==
    IF by > 0 THEN start .. start + by - 1
              ELSE start + count + by .. start + count - 1

Displaced(start, count, by) ==
    IF by > 0 THEN start + count .. start + count + by - 1
              ELSE start + by .. start - 1

DecAll(counts, a, slots) ==
    [e \in Nodes \X Nodes |->
        IF e[1] # a THEN counts[e]
        ELSE (counts[e] - Cardinality({i \in slots : table[a][i] = e[2]})) % Modulus]

ArrayShift(a, start, count, by) ==
    /\ IsArray(a) /\ held = None
    /\ by # 0 /\ count # 0
    /\ start + by >= 0
    /\ start + count <= size[a] + BeyondEnd
    /\ start + count <= MaxLen /\ start + count + by <= MaxLen
    /\ LET lost == Displaced(start, count, by) \cap 0 .. size[a] - 1
           longer == start + count + by
           moved == Moved(table[a], start, start + by, count)
       IN /\ children' = DecAll(children, a, lost)
          /\ parents' = DecAll(parents, a, lost)
          /\ SetTable(a,
                IF by > 0 THEN Zeroed(moved, start, by)
                          ELSE Zeroed(moved, start + count + by, -by),
                IF longer > size[a] THEN longer ELSE size[a])
    /\ UNCHANGED held

TupleAdd(t, e) ==
    /\ kind[t] = "TUPLE" /\ size[t] < MaxLen
    /\ SetTable(t, [table[t] EXCEPT ![size[t]] = e], size[t] + 1)
    /\ Relink(t, None, e)
    /\ held' = None

(* The program forgets what it held.                                       *)
Drop ==
    /\ held # None /\ held' = None
    /\ UNCHANGED <<contents, children, parents>>
-----------------------------------------------------------------------------
(* traverse_subtree from every root: edges that count nothing are skipped. *)
CountedChildren == [n \in Nodes |-> {c \in Nodes : children[<<n, c>>] >= 1}]

Marked == Closure(Nodes, Roots, CountedChildren)

(* memory_graph_free_space and node_delete.  The deleted nodes leave       *)
(* graph->nodes and give up their sets of edges; an edge to them in the    *)
(* `parents` of a survivor stays, as does one in the `children` of one.    *)
FreeSpace ==
    /\ held = None
    /\ nodes' = nodes \cap Marked
    /\ kind' = [n \in Nodes |-> IF n \in nodes' THEN kind[n] ELSE "OBJ"]
    /\ fields' = [n \in Nodes |-> IF n \in nodes' THEN fields[n] ELSE NoFields]
    /\ table' = [n \in Nodes |-> IF n \in nodes' THEN table[n] ELSE NoTable]
    /\ size' = [n \in Nodes |-> IF n \in nodes' THEN size[n] ELSE 0]
    /\ children' = [e \in Nodes \X Nodes |->
                       IF e[1] \in nodes' THEN children[e] ELSE 0]
    /\ parents' = [e \in Nodes \X Nodes |->
                      IF e[2] \in nodes' THEN parents[e] ELSE 0]
    /\ UNCHANGED held

FieldStep(p, e) == \E f \in Fields : SetField(p, f, e) \/ SetVar(p, f, e)
InsertStep(a, e) == \/ ArrayPush(a, e) \/ ArrayEnqueue(a, e) \/ TupleAdd(a, e)
                    \/ \E i \in Slots : ArraySet(a, i, e)
ArrayStep(a) ==
    \/ ArrayPop(a) \/ ArrayDequeue(a)
    \/ \E i \in Slots : ArrayRemove(a, i)
    \/ \E i, j \in Slots : ArraySwap(a, i, j)
    \/ \E start \in Slots, count \in 1 .. MaxLen, by \in -MaxLen .. MaxLen :
          ArrayShift(a, start, count, by)

Next == \/ LET mine == Usable IN
           \E p \in mine : \/ ArrayStep(p)
                           \/ \E e \in mine \cup {None} :
                                 FieldStep(p, e) \/ InsertStep(p, e)
        \/ \E n \in Nodes, k \in Kinds : NewNode(n, k)
        \/ Drop
        \/ FreeSpace

Spec == Init /\ [][Next]_vars
-----------------------------------------------------------------------------
TypeOK ==
    /\ Roots \subseteq nodes /\ nodes \subseteq Nodes
    /\ kind \in [Nodes -> {"OBJ", "ARRAY", "TUPLE"}]
    /\ fields \in [Nodes -> [Fields -> Elements \cup {Absent}]]
    /\ table \in [Nodes -> [Slots -> Elements]]
    /\ size \in [Nodes -> 0 .. MaxLen]
    /\ children \in [Nodes \X Nodes -> 0 .. Modulus - 1]
    /\ parents \in [Nodes \X Nodes -> 0 .. Modulus - 1]
    /\ held \in Elements

(* The count of an edge of a node is the number of the parent's fields and *)
(* elements that name the child: the increments and decrements that are    *)
(* spread over the operations of memory_graph.c balance.                   *)
CountsExact ==
    \A p, c \in nodes :
        children[<<p, c>>] =
            Cardinality({f \in Fields : fields[p][f] = c})
          + Cardinality({i \in 0 .. size[p] - 1 : table[p][i] = c})

(* The child's side counts no less than the parent's side, so the          *)
(* decrement in memory_graph_dec_edge finds its edge and never wraps.      *)
ParentsCover == \A e \in nodes \X nodes : parents[e] >= children[e]

(* The graph is a store of objects from which collecting removes exactly   *)
(* what no root reaches (memory_graph.h:85).                               *)
Store == INSTANCE ObjectStore WITH
             heap <- nodes,
             refs <- References,
             held <- {held} \cap Nodes
ImplementsObjectStore == Store!Spec

(* memory_graph.h:85, "Removes all unreachable nodes in the graph", and    *)
(* only those: nothing that is still reachable leaves graph->nodes.        *)
CollectsExactly == [][nodes' \subseteq nodes /\ nodes' # nodes =>
                        nodes' = Closure(Nodes, Roots, References)]_vars
=============================================================================
