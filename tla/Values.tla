------------------------------- MODULE Values -------------------------------
(***************************************************************************)
(* Values, variables and calls, as the interpreter keeps them (element.c,  *)
(* vm/vm.c vm_lookup, memory_graph_set_var, call_external_fn). A state is  *)
(* a record that has at least                                              *)
(*   res      the result register                                          *)
(*   blk      the current block: an index of blocks, 0 is the module       *)
(*   blocks   [vars, parent] of every block made, in order                 *)
(*   heap     [array, items, fields] of every object made, in order        *)
(*   world    what the module's own names stand for                        *)
(*   log      the calls of external functions                              *)
(*   status   "ok" until the program ends ("done", "error", "abort")       *)
(***************************************************************************)
EXTENDS Integers, Sequences, SequencesExt

V(kind, num, name, parts) == [kind |-> kind, num |-> num, name |-> name, parts |-> parts]

Nil           == V("nil", 0, "", << >>)
Number(n)        == V("int", n, "", << >>)
Str(x)        == V("str", 0, x, << >>)
Tuple(parts)  == V("tuple", 0, "", parts)
Ref(n)        == V("ref", n, "", << >>)
External(x)   == V("external", 0, x, << >>)
Inline(x)     == V("inline", 0, x, << >>)     \* an anonymous function, before it has a context
Fn(x, block)  == V("fn", block, x, << >>)     \* and with it: the block its own blocks are in

Truth(b)    == IF b THEN Number(1) ELSE Nil
IsObject(v) == v.kind \notin {"nil", "int"}
Bound(f, x, v) == [y \in DOMAIN f \cup {x} |-> IF y = x THEN v ELSE f[y]]

Error(s)     == [s EXCEPT !.status = "error"]
Abort(s)     == [s EXCEPT !.status = "abort"]
Result(s, v) == [s EXCEPT !.res = v]

(* Before a program runs. Main's block is in the module.                   *)
Objects == << "o", "self", "struct" >>
World(functions, inline, externals) ==
  [x \in functions \cup inline \cup externals \cup {Objects[i] : i \in DOMAIN Objects} |->
     CASE x \in functions -> Fn(x, 0)
       [] x \in inline    -> Inline(x)
       [] x \in externals -> External(x)
       [] OTHER           -> Ref(CHOOSE i \in DOMAIN Objects : Objects[i] = x)]
Fresh(world) ==
  [res    |-> Nil,
   blk    |-> 1,
   blocks |-> << [vars |-> << >>, parent |-> 0] >>,
   heap   |-> [i \in DOMAIN Objects |->
                 [array |-> FALSE, items |-> << >>,
                  fields |-> IF i = 1 THEN "name" :> Number(7) ELSE << >>]],
   world  |-> world,
   log    |-> << >>,
   status |-> "ok"]

-----------------------------------------------------------------------------
(* Variables. A variable that holds None is looked for further out.        *)

Lookup(s, x) ==
  LET out[b \in 0..Len(s.blocks)] ==
        IF b = 0 THEN IF x \in DOMAIN s.world THEN s.world[x] ELSE Nil
        ELSE LET block == s.blocks[b]
             IN IF x \in DOMAIN block.vars /\ block.vars[x] # Nil
                THEN block.vars[x] ELSE out[block.parent]
      v == out[s.blk]
  IN IF v.kind = "inline" THEN Fn(v.name, s.blk) ELSE v

NewBlock(s, parent) ==
  [s EXCEPT !.blocks = Append(@, [vars |-> << >>, parent |-> parent]),
            !.blk = Len(s.blocks) + 1]

SetField(s, x, v) == [s EXCEPT !.blocks[s.blk].vars = Bound(@, x, v)]
SetVar(s, x, v) ==
  LET home[b \in 0..Len(s.blocks)] ==
        IF b = 0 THEN s.blk
        ELSE IF x \in DOMAIN s.blocks[b].vars THEN b ELSE home[s.blocks[b].parent]
  IN [s EXCEPT !.blocks[home[s.blk]].vars = Bound(@, x, v)]

-----------------------------------------------------------------------------
(* Objects, arrays and tuples.                                             *)

Allocate(s, object) == [Result(s, Ref(Len(s.heap) + 1)) EXCEPT !.heap = Append(@, object)]
NewObject(s)       == Allocate(s, [array |-> FALSE, items |-> << >>, fields |-> << >>])
NewArray(s, items) == Allocate(s, [array |-> TRUE, items |-> items, fields |-> << >>])

GetField(s, v, x) ==
  CASE ~IsObject(v) -> Error(s)
    [] v.kind = "ref" /\ x \in DOMAIN s.heap[v.num].fields -> Result(s, s.heap[v.num].fields[x])
    [] OTHER -> Result(s, Nil)

(* The stored value is the result.                                         *)
PutField(s, obj, x, v) ==
  IF obj.kind # "ref" THEN Error(s)
  ELSE [Result(s, v) EXCEPT !.heap[obj.num].fields = Bound(@, x, v)]

-----------------------------------------------------------------------------
(* What is outside the program: a call is recorded and answered with a     *)
(* number of its own, n with None, and Map with a new object.              *)

CallExternal(s, name, self, arg) ==
  LET logged == [s EXCEPT !.log = Append(@, << name, self, arg >>)]
  IN CASE name = "Map" -> NewObject(logged)
       [] name = "n"   -> Result(logged, Nil)
       [] OTHER        -> Result(logged, Number(100 + Len(s.log)))

(* x.f(arg): the methods of objects are external.                          *)
CallMethod(s, obj, name, arg) ==
  IF IsObject(obj) THEN CallExternal(s, name, obj, arg) ELSE Error(s)

-----------------------------------------------------------------------------
(* Elements of arrays and tuples; the methods of other objects.            *)

IsArray(s, v)   == v.kind = "ref" /\ s.heap[v.num].array
Arraylike(s, v) == v.kind = "str" \/ (v.kind = "ref" /\ ~s.heap[v.num].array)

Items(s, v) == IF v.kind = "ref" THEN s.heap[v.num].items ELSE v.parts
GetItem(s, v, i) ==
  CASE Arraylike(s, v) -> CallMethod(s, v, "__index__", i)
    [] (IsArray(s, v) \/ v.kind = "tuple") /\ i.kind = "int" /\ i.num + 1 \in DOMAIN Items(s, v) ->
         Result(s, Items(s, v)[i.num + 1])
    [] OTHER -> Error(s)

(* The index is the result; a store behind the end makes the array longer. *)
(* (The field len of an array is left out.) The process dies of a negative *)
(* index, which is used as it is. Of what is no object, is_const is read   *)
(* before its type: the error is that of a const object or that of no      *)
(* object, or the read is the end of the process; here it is an error.     *)
Stored(items, n, v) ==
  [k \in 1 .. (IF n > Len(items) THEN n ELSE Len(items)) |->
     CASE k = n -> v [] k # n /\ k \in DOMAIN items -> items[k] [] OTHER -> Nil]
PutItem(s, arr, i, v) ==
  CASE Arraylike(s, arr)                   -> CallMethod(s, arr, "__set__", Tuple(<< i, v >>))
    [] ~IsArray(s, arr) \/ i.kind # "int"  -> Error(s)
    [] i.num < 0                           -> Abort(s)
    [] OTHER -> [Result(s, i) EXCEPT !.heap[arr.num].items = Stored(@, i.num + 1, v)]

-----------------------------------------------------------------------------
(* Operators.                                                              *)

Arithmetic(op, a, b) ==
  CASE op = "ADD"  -> Number(a + b)
    [] op = "SUB"  -> Number(a - b)
    [] op = "MULT" -> Number(a * b)
    [] op = "LT"   -> Truth(a < b)
    [] op = "LTE"  -> Truth(a <= b)
    [] op = "GT"   -> Truth(a > b)
    [] op = "GTE"  -> Truth(a >= b)
    [] op = "EQ"   -> Truth(a = b)
    [] op = "NEQ"  -> Truth(a # b)

(* The operators of element.c take numbers only.                           *)
Operator(s, op, a, b) ==
  IF a.kind = "int" /\ b.kind = "int" THEN Result(s, Arithmetic(op, a.num, b.num)) ELSE Error(s)

(* An instruction without parameter leaves the comparison of anything else *)
(* to the builtin functions eq and neq.                                    *)
Compute(s, op, a, b) ==
  IF op \in {"EQ", "NEQ"} /\ ~(a.kind = "int" /\ b.kind = "int")
  THEN CallExternal(s, IF op = "EQ" THEN "eq" ELSE "neq", Nil, Tuple(<< a, b >>))
  ELSE Operator(s, op, a, b)
=============================================================================
