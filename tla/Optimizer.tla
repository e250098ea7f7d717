----------------------------- MODULE Optimizer -----------------------------
(***************************************************************************)
(* The peephole optimizer (optimize/optimize.c, optimizer.c, optimizers.c).*)
(* A pass looks at the tape once and collects adjustments, [drop, put]:    *)
(* the instructions to remove and those to change. Resolve then writes the *)
(* new tape, moving labels and jumps.                                      *)
(***************************************************************************)
EXTENDS Tape, FiniteSets

IsGoto(c) == c.op \in {"JMP", "IFN", "IF", "CTCH"}

(* The positions before those that a jump goes to. The table keeps the     *)
(* jump's own index as the value, and the lookups take index 0 for none.   *)
Gotos(code) == {i + code[i].val : i \in {j \in 2..Len(code) : IsGoto(code[j])}}

(* A removed instruction's position becomes that of the one kept before    *)
(* it, so that a jump behind it goes to the next one kept. Marks are       *)
(* written at the positions of instructions, not behind the last one.      *)
Resolve(tape, edit) ==
  LET ins(i)   == IF i \in DOMAIN edit.put THEN edit.put[i] ELSE tape.code[i]
      pos(i)   == i - Cardinality({j \in edit.drop : j <= i})
      moved(i) == [ins(i) EXCEPT !.val = IF IsGoto(ins(i)) THEN pos(i + @) - pos(i) ELSE @]
      kept(span) ==
        LET span1 == [k \in 1 .. span.last + 1 - span.first |-> span.first + k - 1]
            is    == SelectSeq(span1, LAMBDA i : i \notin edit.drop)
        IN [k \in DOMAIN is |-> moved(is[k])]
      spans    == Pieces(tape)
  IN Written(<< ModuleName(tape) >>, Marks(tape, [k \in DOMAIN spans |-> kept(spans[k])]))

-----------------------------------------------------------------------------
(* The passes. Most look at two instructions, the second at position i.    *)

Is(c, op, par) == c.op = op /\ c.par = par

Pairs(tape, P(_, _)) == {i \in 2..Len(tape.code) : P(tape.code[i - 1], tape.code[i])}

(* No jump goes to the second of the two.                                  *)
Together(tape, is) == {i \in is : i - 1 \notin Gotos(tape.code)}

Before(is)          == {i - 1 : i \in is}
Removing(is)        == [drop |-> is, put |-> << >>]
WithOp(tape, is, op) == [i \in is |-> [tape.code[i] EXCEPT !.op = op]]

(* RES x; PUSH is PUSH x: the register is not loaded any more.             *)
ResPushAnywhere(tape) ==
  LET is == Pairs(tape, LAMBDA a, b : a.op = "RES" /\ a.par # "no" /\ Is(b, "PUSH", "no"))
  IN [drop |-> is, put |-> WithOp(tape, Before(is), "PUSH")]
ResPush(tape) ==
  LET is == Together(tape, Pairs(tape, LAMBDA a, b :
              a.op = "RES" /\ a.par # "no" /\ Is(b, "PUSH", "no")))
  IN [drop |-> is, put |-> WithOp(tape, Before(is), "PUSH")]

Stores(c)   == c.op \in {"SET", "LET"} /\ c.par = "id"
SameName(a, b) == a.tok = b.tok

SetRes(tape) ==
  Removing(Together(tape, Pairs(tape, LAMBDA a, b :
    Stores(a) /\ Is(b, "RES", "id") /\ SameName(a, b))))

SetPush(tape) ==
  LET is == Together(tape, Pairs(tape, LAMBDA a, b :
              Stores(a) /\ Is(b, "PUSH", "id") /\ SameName(a, b)))
      push == [op |-> "PUSH", par |-> "no", val |-> 0, tok |-> ""]
  IN [drop |-> {}, put |-> [i \in is |-> push]]

(* The end of a loop stores x and jumps behind a RES x that is behind a    *)
(* SET x: the register holds x on both ways.                               *)
JmpRes(tape) ==
  LET code == tape.code
      loop(i) == /\ code[i - 1].op = "SET" /\ code[i].op = "JMP" /\ code[i].val < 0
                 /\ LET to == i + code[i].val
                    IN /\ to > 1 /\ code[to - 1].op = "SET" /\ SameName(code[to - 1], code[i - 1])
                       /\ Is(code[to], "RES", "id") /\ SameName(code[to], code[i - 1])
  IN Removing({i + code[i].val : i \in {j \in 2..Len(code) : loop(j)}})

(* PUSH x; RES x is PSRS x. Of jumps, only those behind the pair matter.   *)
PushRes(tape) ==
  LET same(a, b) == IF a.par = "val" THEN a.val = b.val ELSE SameName(a, b)
      is == {i \in Pairs(tape, LAMBDA a, b :
                     a.op = "PUSH" /\ b.op = "RES" /\ a.par = b.par
                       /\ (a.par = "no" \/ same(a, b))) :
               i \notin Gotos(tape.code)}
  IN [drop |-> is, put |-> WithOp(tape, Before(is), "PSRS")]

ResPush2(tape) ==
  LET is == Together(tape, Pairs(tape, LAMBDA a, b : Is(a, "RES", "no") /\ Is(b, "PUSH", "no")))
  IN [drop |-> is, put |-> WithOp(tape, Before(is), "PEEK")]

RetRetAnywhere(tape) ==
  Removing(Pairs(tape, LAMBDA a, b : Is(a, "RET", "no") /\ Is(b, "RET", "no")))
RetRet(tape) ==
  Removing(Together(tape, Pairs(tape, LAMBDA a, b : Is(a, "RET", "no") /\ Is(b, "RET", "no"))))

PeekRes(tape) ==
  Removing(Before(Together(tape, Pairs(tape, LAMBDA a, b :
    a.op = "PEEK" /\ b.op \in {"RES", "TLEN"}))))

(* The element that a parameter named _ would take.                        *)
SetEmpty(tape) ==
  LET is == Together(tape, Pairs(tape, LAMBDA a, b :
              Is(a, "TGET", "val") /\ Stores(b) /\ b.tok = "_"))
  IN Removing(is \cup Before(is))

PeekPeek(tape) ==
  Removing(Before(Together(tape, Pairs(tape, LAMBDA a, b :
    Is(a, "PEEK", "no") /\ Is(b, "PEEK", "no")))))

PushAndRes(tape) == Pairs(tape, LAMBDA a, b : Is(a, "PUSH", "no") /\ Is(b, "RES", "no"))
PushResEmpty(tape) ==
  LET is == Together(tape, PushAndRes(tape)) IN Removing(is \cup Before(is))
PushRes2(tape) ==
  LET is == PushAndRes(tape) \ Gotos(tape.code) IN Removing(is \cup Before(is))

(* PUSH a; PUSH b; ADD is RES a; ADD b, for b a variable or a number.      *)
MathOps == {"ADD", "SUB", "DIV", "MULT", "MOD", "LT", "LTE", "GTE", "GT", "EQ"}
SimpleMath(tape) ==
  LET code == tape.code
      is == {i \in 3..Len(code) :
               /\ code[i - 2].op = "PUSH" /\ code[i - 1].op = "PUSH" /\ code[i].op \in MathOps
               /\ code[i - 1].par \in {"val", "id"}
               /\ {i, i - 1} \cap Gotos(code) = {}}
      pushed == {i - 2 : i \in {j \in is : code[j - 2].par # "no"}}
  IN [drop |-> is \cup ({i - 2 : i \in is} \ pushed),
      put  |-> [i \in pushed \cup Before(is) |->
                  [code[i] EXCEPT !.op = IF i \in pushed THEN "RES" ELSE code[i + 1].op]]]

(* GET x; PUSH is GTSH x, which leaves the register alone.                 *)
GetPush(tape) ==
  LET is == Together(tape, Pairs(tape, LAMBDA a, b :
              a.op = "GET" /\ a.par # "no" /\ Is(b, "PUSH", "no")))
  IN [drop |-> is, put |-> WithOp(tape, Before(is), "GTSH")]

NilPass(tape) ==
  LET is == {i \in DOMAIN tape.code :
               /\ tape.code[i].op \in {"RES", "PUSH"} /\ tape.code[i].par = "id"
               /\ tape.code[i].tok = "None"}
      nil(op) == [op |-> IF op = "RES" THEN "RNIL" ELSE "PNIL",
                  par |-> "no", val |-> 0, tok |-> ""]
  IN [drop |-> {}, put |-> [i \in is |-> nil(tape.code[i].op)]]

(* A field of a common name is found by the name's number.                 *)
CommonKeys ==
  << "$ip", "$module", "$has_error", "len", "class", "$resval", "$adr", "module", "name",
     "$parent", "parents", "parent_class" >>
GetSpecial(tape) ==
  LET is == {i \in DOMAIN tape.code :
               tape.code[i].op = "GET" /\ Contains(CommonKeys, tape.code[i].tok)}
      key(c) == SelectInSeq(CommonKeys, LAMBDA k : k = c.tok) - 1
      sget(c) == [op |-> "SGET", par |-> "val", val |-> key(c), tok |-> ""]
  IN [drop |-> {}, put |-> [i \in is |-> sget(tape.code[i])]]

(* The passes in the order in which they are registered; each works on the *)
(* tape that the one before it wrote.                                      *)
Adjustments(pass, tape) ==
  CASE pass = 1  -> ResPush(tape)
    [] pass = 2  -> SetRes(tape)
    [] pass = 3  -> SetPush(tape)
    [] pass = 4  -> JmpRes(tape)
    [] pass = 5  -> PushRes(tape)
    [] pass = 6  -> ResPush2(tape)
    [] pass = 7  -> RetRet(tape)
    [] pass \in {8, 12} -> PeekRes(tape)
    [] pass = 9  -> SetEmpty(tape)
    [] pass = 10 -> PeekPeek(tape)
    [] pass = 11 -> PushResEmpty(tape)
    [] pass = 13 -> PushRes2(tape)
    [] pass = 14 -> SimpleMath(tape)
    [] pass = 15 -> GetPush(tape)
    [] pass = 16 -> NilPass(tape)
    [] pass = 17 -> GetSpecial(tape)
Passes == 17
Optimized(pass, tape) == Resolve(tape, Adjustments(pass, tape))
=============================================================================
