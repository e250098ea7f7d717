----------------------------- MODULE Evaluator -----------------------------
(***************************************************************************)
(* A program from its syntax tree to its end: it is compiled, optimized    *)
(* pass by pass or not at all (file_load.c, the flag -opt), and run on the *)
(* operand stack and the result register (vm/vm.c execute_no_param,        *)
(* execute_id_param, execute_val_param, execute_str_param).                *)
(*                                                                         *)
(* The machine is a state of Values with                                   *)
(*   ip      the position of the next instruction                          *)
(*   stack   the operands of all calls                                     *)
(*   saved   the blocks below the current one: [ip, blk, loop, size]       *)
(*   loop    the current block is that of a loop                           *)
(* Errors end the program: VmControl is about those that are caught.       *)
(***************************************************************************)
EXTENDS Expressions, Optimizer, Meaning

CONSTANTS
  Modules,      \* the syntax trees a behaviour may start from
  Externals     \* the names of the functions outside the program

VARIABLES
  module,       \* the syntax tree
  tape,         \* its code, as far as it is optimized
  pass,         \* how many passes of the optimizer it has been through
  m             \* the machine, or Waiting before it runs

vars == << module, tape, pass, m >>

Waiting == [status |-> "waiting"]

World0(labels) ==
  LET inline == {t.name : t \in module.inline}
  IN World(labels \ inline, labels \cap inline, Externals)

(* The program that a syntax tree is compiled to.                          *)
Inlined(x) == x @@ [inline |-> Inlines(x)]

Init ==
  /\ module \in {Inlined(x) : x \in Modules}
  /\ tape = Compile(module)
  /\ pass = 0
  /\ m = Waiting

Optimize ==
  /\ m = Waiting
  /\ pass < Passes
  /\ pass' = pass + 1
  /\ tape' = Optimized(pass', tape)
  /\ UNCHANGED << module, m >>

Start ==
  /\ m = Waiting
  /\ pass \in {0, Passes}
  /\ m' = Fresh(World0(DOMAIN tape.entry))
            @@ [ip |-> 1, stack |-> << >>, saved |-> << >>, loop |-> FALSE]
  /\ UNCHANGED << module, tape, pass >>

-----------------------------------------------------------------------------
(* The stack. Taking from an empty one ends an instruction without effect; *)
(* looking at an empty one is an assertion that fails.                     *)

Pushed1(s, v) == [s EXCEPT !.stack = Append(@, v)]
Top(s)        == Last(s.stack)
Below(s)      == [s EXCEPT !.stack = Front(@)]

Ins == tape.code[m.ip]

(* The value that an instruction carries.                                  *)
Carried ==
  CASE Ins.par = "id"  -> Lookup(m, Ins.tok)
    [] Ins.par = "val" -> Number(Ins.val)
    [] Ins.par = "str" -> Str(Ins.tok)

(* The current instruction is one of ops; its effect is s, and if the      *)
(* program goes on the next one is behind it.                              *)
At(ops) == m.status = "ok" /\ m.ip \in DOMAIN tape.code /\ Ins.op \in ops
Become(s) ==
  /\ m' = [s EXCEPT !.ip = @ + 1]
  /\ UNCHANGED << module, tape, pass >>

-----------------------------------------------------------------------------
(* The register and the stack.                                             *)

Res ==
  /\ At({"RES"})
  /\ Become(CASE Ins.par # "no"   -> Result(m, Carried)
              [] m.stack = << >>  -> m
              [] OTHER            -> Result(Below(m), Top(m)))

RNil == At({"RNIL"}) /\ Become(Result(m, Nil))
Push == At({"PUSH"}) /\ Become(Pushed1(m, IF Ins.par = "no" THEN m.res ELSE Carried))
PsRs == At({"PSRS"}) /\ Become(Pushed1(Result(m, Carried), Carried))

Peek == At({"PEEK"}) /\ Become(IF m.stack = << >> THEN Abort(m) ELSE Result(m, Top(m)))
Dup  == At({"DUP"})  /\ Become(IF m.stack = << >> THEN Abort(m) ELSE Pushed1(m, Top(m)))

(* Variables and fields.                                                   *)

Set == At({"SET"}) /\ Become(SetVar(m, Ins.tok, m.res))
Let == At({"LET"}) /\ Become(SetField(m, Ins.tok, m.res))

Get ==
  /\ At({"GET", "SGET"})
  /\ Become(GetField(m, m.res, IF Ins.op = "SGET" THEN CommonKeys[Ins.val + 1] ELSE Ins.tok))

(* The field is pushed; the object stays in the register.                  *)
GtSh ==
  /\ At({"GTSH"})
  /\ LET found == GetField(m, m.res, Ins.tok)
     IN Become(IF found.status = "ok" THEN Pushed1(m, found.res) ELSE found)

Fld ==
  /\ At({"FLD"})
  /\ Become(CASE m.res.kind # "ref"  -> Error(m)
              [] m.stack = << >>     -> m
              [] OTHER               -> PutField(Below(m), m.res, Ins.tok, Top(m)))

-----------------------------------------------------------------------------
(* Tuples and arrays. The operand that was pushed last is the first member.*)

Members1(n) == Reverse(SubSeq(m.stack, Len(m.stack) - n + 1, Len(m.stack)))
Without(n)  == [m EXCEPT !.stack = SubSeq(@, 1, Len(@) - n)]

Tupl ==
  /\ At({"TUPL"})
  /\ Become(IF Len(m.stack) < Ins.val THEN Error([m EXCEPT !.stack = << >>])
            ELSE Result(Without(Ins.val), Tuple(Members1(Ins.val))))

ANew ==
  /\ At({"ANEW"})
  /\ LET n == IF Len(m.stack) < Ins.val THEN Len(m.stack) ELSE Ins.val
     IN Become(NewArray(Without(n), Members1(n)))

(* TGET 0 of something else is that itself; TGTE is false for it.          *)
TGet ==
  /\ At({"TGET"})
  /\ Become(CASE m.res.kind = "tuple" -> GetItem(m, m.res, Number(Ins.val))
              [] Ins.val = 0          -> m
              [] OTHER                -> Error(m))
TGte ==
  /\ At({"TGTE"})
  /\ Become(Result(m, Truth(m.res.kind = "tuple" /\ Len(m.res.parts) >= Ins.val)))
TLen ==
  /\ At({"TLEN"})
  /\ Become(IF m.stack = << >> THEN Abort(m)
            ELSE Result(m, Number(IF Top(m).kind = "tuple" THEN Len(Top(m).parts) ELSE -1)))

AIdx == At({"AIDX"}) /\ Become(IF m.stack = << >> THEN m ELSE GetItem(Below(m), Top(m), m.res))

ASet ==
  /\ At({"ASET"})
  /\ Become(IF Len(m.stack) < 2 THEN [m EXCEPT !.stack = << >>]
            ELSE PutItem(Without(2), Top(m), m.res, Top(Below(m))))

(* Operators: both operands from the stack, or the register and the value  *)
(* that the instruction carries.                                           *)
Math ==
  /\ At(MathOps \cup {"NEQ"})
  /\ Become(CASE Ins.par # "no"      -> Operator(m, Ins.op, m.res, Carried)
              [] Len(m.stack) < 2    -> [m EXCEPT !.stack = << >>]
              [] OTHER               -> Compute(Without(2), Ins.op, Top(Below(m)), Top(m)))

Not == At({"NOT"}) /\ Become(Result(m, Truth(m.res = Nil)))

-----------------------------------------------------------------------------
(* Blocks and calls.                                                       *)

Enter(s, parent, loop) ==
  LET frame == [ip |-> s.ip, blk |-> s.blk, loop |-> s.loop, size |-> Len(s.stack)]
  IN [NewBlock(s, parent) EXCEPT !.saved = Append(@, frame), !.loop = loop]

(* t_back removes half of what was pushed since, rounded up.               *)
TBack(s) ==
  LET frame  == Last(s.saved)
      excess == Len(s.stack) - frame.size
      popped == IF excess > 0 THEN (excess + 1) \div 2 ELSE 0
  IN [s EXCEPT !.saved = Front(@), !.blk = frame.blk, !.loop = frame.loop, !.ip = frame.ip,
               !.stack = SubSeq(@, 1, Len(@) - popped)]

CallFunction(s, f) == [Enter(s, f.num, FALSE) EXCEPT !.ip = tape.entry[f.name] - 1]

(* What is neither a function nor None nor a number is not called.         *)
Called(s, f) ==
  CASE f.kind = "external" -> CallExternal(s, f.name, Nil, s.res)
    [] f.kind = "fn"       -> CallFunction(s, f)
    [] OTHER               -> IF IsObject(f) THEN s ELSE Error(s)

(* CLLN passes the empty tuple.                                            *)
Passing == IF Ins.op = "CLLN" THEN Result(m, Tuple(<< >>)) ELSE m
Call_ ==
  /\ At({"CALL", "CLLN"}) /\ Ins.par = "no"
  /\ Become(IF m.stack = << >> THEN Passing ELSE Called(Below(Passing), Top(m)))
CallNamed ==
  /\ At({"CALL", "CLLN"}) /\ Ins.par = "id"
  /\ Become(IF m.stack = << >> THEN Passing
            ELSE CallMethod(Below(Passing), Top(m), Ins.tok, Passing.res))

NBlk == At({"NBLK"}) /\ Become(Enter(m, m.blk, TRUE))
BBlk == At({"BBLK"}) /\ Become([TBack(m) EXCEPT !.ip = m.ip])

(* RET closes the loops of the call, then its block.                       *)
Ret ==
  /\ At({"RET"})
  /\ LET open(s) == IF s.loop THEN 1 + Cardinality({i \in DOMAIN s.saved :
                                    \A j \in i..Len(s.saved) : s.saved[j].loop}) ELSE 0
         back[n \in 0..Len(m.saved)] == IF n = 0 THEN m ELSE TBack(back[n - 1])
     IN Become(IF open(m) < Len(m.saved) THEN back[open(m) + 1] ELSE Abort(m))

Jump ==
  /\ At({"JMP", "IF", "IFN"})
  /\ LET taken == \/ Ins.op = "JMP"
                  \/ Ins.op = "IF"  /\ m.res # Nil
                  \/ Ins.op = "IFN" /\ m.res = Nil
     IN Become([m EXCEPT !.ip = IF taken THEN @ + Ins.val ELSE @])

Exit == At({"EXIT"}) /\ Become([m EXCEPT !.status = "done"])

Execute ==
  \/ Start
  \/ Res \/ RNil \/ Push \/ PsRs \/ Peek \/ Dup
  \/ Set \/ Let \/ Get \/ GtSh \/ Fld
  \/ Tupl \/ ANew \/ TGet \/ TGte \/ TLen \/ AIdx \/ ASet \/ Math \/ Not
  \/ Call_ \/ CallNamed \/ NBlk \/ BBlk \/ Ret \/ Jump \/ Exit

Next == Optimize \/ Execute

Spec == Init /\ [][Next]_vars

-----------------------------------------------------------------------------

Running == m.status = "ok"

(* A program that ends has done what its syntax tree says, optimized or    *)
(* not: the same calls in the same order with the same arguments, the same *)
(* variables and objects, and an error only where the tree has one.        *)
ComputesMeaning ==
  m.status \in {"done", "error", "abort"}
    => Outcome(m) = Outcome(Meaning(module,
                      World0({module.functions[i].name : i \in DOMAIN module.functions}
                               \cup {t.name : t \in module.inline})))

(* A call never takes an operand of its callers, leaves none of its own,   *)
(* and a program ends with an empty stack.                                 *)
OperandsBalanced ==
  m # Waiting =>
    /\ \A i \in DOMAIN m.saved : m.saved[i].size <= Len(m.stack)
    /\ m.status = "done" => m.stack = << >>
=============================================================================
