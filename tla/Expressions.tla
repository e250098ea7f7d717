---------------------------- MODULE Expressions ----------------------------
(***************************************************************************)
(* The instructions that a module of the language compiles to              *)
(* (codegen/expressions/expression.c, assignment.c, statements.c, loops.c, *)
(* files.c, classes.c).                                                    *)
(*                                                                         *)
(* A syntax tree is a record [kind, name, num, args, kids]. Trees:         *)
(*   id, num, str, tuple, array, map, paren, postfix with suffixes fncall, *)
(*   index and field, not, notc, negate, const, chain, and, or, in, range, *)
(*   is, if, anonymous, assign with a target var, targets or place, block, *)
(*   for, foreach, while, try, raise, return, break, continue, exit        *)
(* num is 1 for an anonymous function or a variable that is const. A       *)
(* parameter is [name, default, store]: no or one tree, and the            *)
(* instruction that stores it. A function is [name, args, body, const], a  *)
(* class [name, parents, fields, constructor, methods] with no or one      *)
(* function as constructor, a module [name, imports, classes, functions,   *)
(* main] with no or one name.                                              *)
(*                                                                         *)
(* Statements that jump take their layout from Codegen; here their parts   *)
(* are the code of real expressions. Operands move between the result      *)
(* register and the operand stack:                                         *)
(*   RES x, RES n   load the register; RES alone pops into it              *)
(*   PUSH           pushes the register; PUSH x, PUSH n push a variable or *)
(*                  a number and leave the register alone                  *)
(* The token of an instruction is the name it carries as a parameter.      *)
(***************************************************************************)
EXTENDS Tape

Layout == INSTANCE Codegen WITH External <- "external", Nil <- "nil"

T(kind, name, num, kids) ==
  [kind |-> kind, name |-> name, num |-> num, args |-> << >>, kids |-> kids]

No(op)      == [op |-> op, par |-> "no",  val |-> 0, tok |-> ""]
Val(op, n)  == [op |-> op, par |-> "val", val |-> n, tok |-> ""]
Name(op, x) == [op |-> op, par |-> "id",  val |-> 0, tok |-> x]
Text(op, x) == [op |-> op, par |-> "str", val |-> 0, tok |-> x]

(* Code that leaves its value on the stack.                                *)
Pushed(code) == Append(code, No("PUSH"))

(* The members of a tuple or an array, last to first.                      *)
MembersForward(codes) ==
  FlattenSeq([i \in DOMAIN codes |-> Pushed(codes[i])])
Members(codes) ==
  FlattenSeq([i \in DOMAIN codes |-> Pushed(codes[Len(codes) + 1 - i])])

(* and, or: every operand but the last is followed by a jump past the rest *)
ShortCircuit(op, codes) ==
  LET n       == Len(codes)
      rest(i) == Layout!Total(codes, i, n) + n - i
      tail    == [j \in 1 .. n - 1 |-> << Val(op, rest(j + 1)) >> \o codes[j + 1]]
  IN codes[1] \o FlattenSeq(tail)

RECURSIVE Produce(_), Postfixes(_), Target(_)

Kids(t) == [i \in DOMAIN t.kids |-> Produce(t.kids[i])]

(* The suffixes of a postfix expression: a call, an index, a field, and a  *)
(* field that is called, which is one instruction. A call without          *)
(* arguments is CLLN.                                                      *)
Argument(call) == IF call.kids = << >> THEN << >> ELSE Produce(call.kids[1])
CallOp(call)   == IF call.kids = << >> THEN "CLLN" ELSE "CALL"
Postfixes(ss) ==
  IF ss = << >> THEN << >>
  ELSE LET s == Head(ss)
           called == Len(ss) > 1 /\ ss[2].kind = "fncall"
       IN CASE s.kind = "fncall" ->
                 << No("PUSH") >> \o Argument(s) \o << No(CallOp(s)) >> \o Postfixes(Tail(ss))
            [] s.kind = "index" ->
                 << No("PUSH") >> \o Produce(s.kids[1]) \o << No("AIDX") >> \o Postfixes(Tail(ss))
            [] s.kind = "field" /\ called ->
                 << No("PUSH") >> \o Argument(ss[2]) \o << Name(CallOp(ss[2]), s.name) >>
                   \o Postfixes(Tail(Tail(ss)))
            [] OTHER -> << Name("GET", s.name) >> \o Postfixes(Tail(ss))

(* What stores the register: in a variable; in each variable of a tuple or *)
(* an array, which takes the value from the stack for every element (the   *)
(* last time by popping it); in a field or at an index of an expression.   *)
KeepsTupleTooLong(i, len) == i < len
KeepsTuple(i, len) == i < len - i
Target(t) ==
  CASE t.kind = "var" -> << Name(IF t.num = 1 THEN "SETC" ELSE "SET", t.name) >>
    [] t.kind = "targets" ->
         LET len == Len(t.kids)
             element(i) == << No(IF KeepsTuple(i, len) THEN "PEEK" ELSE "RES"), No("PUSH"),
                              Val("RES", i), No("AIDX") >> \o Target(t.kids[i + 1])
         IN << No("PUSH") >> \o FlattenSeq([i \in 1..len |-> element(i - 1)])
    [] t.kind = "place" ->
         LET last == Last(t.kids)
         IN << No("PUSH") >> \o Produce(t.kids[1])
              \o Postfixes(SubSeq(t.kids, 2, Len(t.kids) - 1))
              \o (IF last.kind = "field"
                  THEN << Name("FLD", last.name) >>
                  ELSE << No("PUSH") >> \o Produce(last.kids[1]) \o << No("ASET") >>)

(* An argument takes its value from the register; one that is a field goes *)
(* by the stack to the object.                                             *)
Take(a) ==
  (IF a.store \in {"FLD", "FLDC"} THEN << No("PUSH"), Name("RES", "self") >> ELSE << >>)
    \o << Name(a.store, a.name) >>
Has(a) == a.default # << >>

(* The code of the defaults, of each parameter that has one.               *)
Defaults(as) == [i \in DOMAIN as |-> FlattenSeq([j \in DOMAIN as[i].default |->
                                                Produce(as[i].default[j])])]

(* The argument of a function with one parameter.                          *)
OneArgument(a, default) ==
  IF ~Has(a) THEN Take(a)
  ELSE << No("PUSH"), Val("TGTE", 1), Val("IF", Len(default) + 1) >> \o default
         \o << Val("JMP", 1), Val("TGET", 0) >> \o Take(a)

(* The arguments from a tuple on the stack, popped with the last one.      *)
FromTuple(as, defaults) ==
  LET n      == Len(as)
      fetch(i) == << No(IF i = n THEN "RES" ELSE "PEEK"), Val("TGET", i - 1) >>
      one(i) ==
        IF ~Has(as[i]) THEN fetch(i) \o Take(as[i])
        ELSE << No("PEEK"), Val("TGTE", i), Val("IFN", 3) >> \o fetch(i)
               \o << Val("JMP", Len(defaults[i])) >> \o defaults[i] \o Take(as[i])
  IN FlattenSeq([i \in 1..n |-> one(i)])

(* Several parameters: something that is no tuple is the first of them.    *)
AllArguments(as, defaults, fromTuple) ==
  LET missing(i) == (IF Has(as[i]) THEN defaults[i] ELSE << No("RNIL") >>) \o Take(as[i])
      single == << No("RES") >> \o Take(as[1])
                  \o FlattenSeq([i \in 1 .. Len(as) - 1 |-> missing(i + 1)])
                  \o << Val("JMP", Len(fromTuple)) >>
  IN << No("PUSH"), No("TLEN"), No("PUSH"), Val("PUSH", -1), No("EQ"),
        Val("IFN", Len(single)) >> \o single \o fromTuple
ArgumentsWith(as, defaults) ==
  CASE as = << >>   -> << >>
    [] Len(as) = 1  -> OneArgument(as[1], defaults[1])
    [] Len(as) > 1  -> AllArguments(as, defaults, FromTuple(as, defaults))
Arguments(as) == ArgumentsWith(as, Defaults(as))

Constant(const) == IF const THEN << No("CNST") >> ELSE << >>

(* A function without a name is in the code of its expression: a jump past *)
(* it, and its label between. The jump's token is the label.               *)
Anonymous(t) ==
  LET body == Arguments(t.args) \o Produce(t.kids[1]) \o Constant(t.num = 1) \o << No("RET") >>
  IN << [Val("JMP", Len(body)) EXCEPT !.tok = t.name] >> \o body \o << Name("RES", t.name) >>

Identifier(x) ==
  CASE x = "True"              -> Val("RES", 1)
    [] x \in {"False", "None"} -> No("RNIL")
    [] OTHER                   -> Name("RES", x)

TupleExpression(t) == Members(Kids(t)) \o << Val("TUPL", Len(t.kids)) >>
ArrayDeclaration(t) ==
  IF t.kids = << >> THEN << No("ANEW") >>
  ELSE Members(Kids(t)) \o << Val("ANEW", Len(t.kids)) >>

Negate(t) ==
  IF t.kids[1].kind = "num" THEN << Val("RES", -t.kids[1].num) >>
  ELSE Pushed(Produce(t.kids[1])) \o << Val("PUSH", -1), No("MULT") >>
UnaryOps == [not |-> "NOT", notc |-> "NOTC", const |-> "CNST"]
Unary(t) == Produce(t.kids[1]) \o << No(UnaryOps[t.kind]) >>

(* A chain of operators of one precedence: an operand, then pairs of an    *)
(* operator and an operand.                                                *)
BiExpression(t) ==
  LET suffix(s) == << No("PUSH") >> \o Pushed(Produce(s.kids[1])) \o << No(s.name) >>
  IN Produce(t.kids[1]) \o FlattenSeq([i \in 1 .. Len(t.kids) - 1 |-> suffix(t.kids[i + 1])])

In_(t) ==
  Pushed(Produce(t.kids[2])) \o Produce(t.kids[1]) \o << Name("CALL", "__in__") >>
    \o (IF t.name = "notin" THEN << No("NOT") >> ELSE << >>)

Range_(t) ==
  << Name("PUSH", "range") >> \o Members(Kids(t)) \o << Val("TUPL", Len(t.kids)), No("CALL") >>

(* kids are tests and bodies in turn, and a last body for else.            *)
Conditional(t) ==
  LET n == Len(t.kids) \div 2
      tests  == [i \in 1..n |-> Produce(t.kids[2 * i - 1])]
      bodies == [i \in 1..n |-> Produce(t.kids[2 * i])]
      else   == Len(t.kids) % 2 = 1
  IN Layout!IfElse("if", tests, bodies, else, IF else THEN Produce(Last(t.kids)) ELSE << >>)

(* The map stays on the stack while its entries are set.                   *)
MapDeclaration(t) ==
  LET entry(pair) == << No("DUP") >> \o Members(Kids(pair))
                       \o << Val("TUPL", 2), Name("CALL", "__set__") >>
      entries == FlattenSeq([i \in DOMAIN t.kids |-> entry(t.kids[i])])
  IN << Name("PUSH", "struct"), Name("CLLN", "Map") >>
       \o (IF t.kids = << >> THEN << >> ELSE << No("PUSH") >> \o entries \o << No("RES") >>)

Is_(t) == Pushed(Produce(t.kids[1])) \o Pushed(Produce(t.kids[2])) \o << No("IS") >>

AssignmentExpression(t) == Produce(t.kids[2]) \o Target(t.kids[1])

(* Statements.                                                             *)
ForeachStatement(t) ==
  Layout!ForeachOf("foreach",
    [iterable |-> Produce(t.kids[2]), iter |-> << Name("CALL", "iter") >>,
     hasNext |-> << Name("CALL", "has_next") >>, next |-> << Name("CALL", "next") >>,
     body |-> Target(t.kids[1]) \o Produce(t.kids[3])])
TryStatement(t) ==
  Layout!TryCatch("try", Produce(t.kids[1]), Target(t.kids[2]), Produce(t.kids[3]),
                  << Name("SET", "$try_goto") >>)

Produce(t) ==
  LET part(i) == Produce(t.kids[i])
  IN CASE t.kind = "id"        -> << Identifier(t.name) >>
       [] t.kind = "num"       -> << Val("RES", t.num) >>
       [] t.kind = "str"       -> << Text("RES", t.name) >>
       [] t.kind = "tuple"     -> TupleExpression(t)
       [] t.kind = "array"     -> ArrayDeclaration(t)
       [] t.kind = "negate"    -> Negate(t)
       [] t.kind \in {"not", "notc", "const"} -> Unary(t)
       [] t.kind = "chain"     -> BiExpression(t)
       [] t.kind = "and"       -> ShortCircuit("IFN", Kids(t))
       [] t.kind = "or"        -> ShortCircuit("IF", Kids(t))
       [] t.kind = "in"        -> In_(t)
       [] t.kind = "range"     -> Range_(t)
       [] t.kind = "postfix"   -> part(1) \o Postfixes(Tail(t.kids))
       [] t.kind = "if"        -> Conditional(t)
       [] t.kind = "anonymous" -> Anonymous(t)
       [] t.kind = "map"       -> MapDeclaration(t)
       [] t.kind = "assign"    -> AssignmentExpression(t)
       [] t.kind = "paren"     -> part(1)
       [] t.kind = "is"        -> Is_(t)
       [] t.kind = "block"     -> FlattenSeq(Kids(t))
       [] t.kind = "return"    -> FlattenSeq(Kids(t)) \o << No("RET") >>
       [] t.kind = "for"       -> Layout!For("for", part(1), part(2), part(3), part(4))
       [] t.kind = "while"     -> Layout!While("while", part(1), part(2))
       [] t.kind = "foreach"   -> ForeachStatement(t)
       [] t.kind = "try"       -> TryStatement(t)
       [] t.kind = "raise"     -> part(1) \o << No("RAIS") >>
       [] t.kind = "break"     -> Layout!Break("break")
       [] t.kind = "continue"  -> Layout!Continue("continue")
       [] t.kind = "exit"      -> << No("EXIT") >>

(* The anonymous functions of a tree: those of its parts, of the defaults  *)
(* of its parameters, and itself.                                          *)
RECURSIVE Anonymouses(_)
AnonymousesOf(ts) == UNION {Anonymouses(ts[i]) : i \in DOMAIN ts}
InDefaults(args)  == UNION {AnonymousesOf(args[i].default) : i \in DOMAIN args}
Anonymouses(t) ==
  (IF t.kind = "anonymous" THEN {t} ELSE {}) \cup AnonymousesOf(t.kids) \cup InDefaults(t.args)

(* Functions, methods and constructors.                                    *)
FunctionsOf(m) ==
  m.functions \o FlattenSeq([i \in DOMAIN m.classes |-> m.classes[i].constructor \o m.classes[i].methods])
Inlines(m) ==
  Anonymouses(m.main)
    \cup UNION {LET f == FunctionsOf(m)[i] IN Anonymouses(f.body) \cup InDefaults(f.args) :
                i \in DOMAIN FunctionsOf(m)}

(* Code with the labels of its anonymous functions behind their jumps.     *)
Labelled(code, labels) ==
  LET skips == {i \in DOMAIN code : code[i].op = "JMP" /\ code[i].tok \in labels}
      label(i) == IF i \in skips THEN << LabelMark(code[i].tok) >> ELSE << >>
      spans == Spans(Len(code), {i + 1 : i \in skips})
  IN FlattenSeq([k \in DOMAIN spans |-> LET span == spans[k]
       IN label(span.first - 1) \o << CodeMark(SubSeq(code, span.first, span.last)) >>])

Function(f, labels) ==
  << LabelMark(f.name) >>
    \o Labelled(Arguments(f.args) \o Produce(f.body) \o Constant(f.const) \o << No("RET") >>, labels)

(* The fields of a class are None before its constructor; without one they *)
(* make one.                                                               *)
Fields(fs) ==
  LET field(f) == << No("PNIL"), Name("RES", "self"), Name("FLD", f) >>
  IN IF fs = << >> THEN << >>
     ELSE << No("PUSH") >> \o FlattenSeq([i \in DOMAIN fs |-> field(fs[i])]) \o << No("RES") >>
Constructor(class, labels) ==
  LET body(f) == Arguments(f.args) \o Produce(f.body) \o << Name("RES", "self") >> \o Constant(f.const)
      own == IF class.constructor = << >> THEN << Name("RES", "self") >> ELSE body(class.constructor[1])
  IN IF class.constructor = << >> /\ class.fields = << >> THEN << >>
     ELSE << LabelMark("new") >> \o Labelled(Fields(class.fields) \o own \o << No("RET") >>, labels)
Class(class, labels) ==
  LET methods == class.methods
  IN << ClassMark(class.name, class.parents) >> \o Constructor(class, labels)
       \o FlattenSeq([i \in DOMAIN methods |-> Function(methods[i], labels)]) \o << EndClassMark >>

(* A module: what it imports, its statements, EXIT, its classes and its    *)
(* functions.                                                              *)
Compile(m) ==
  LET labels  == {t.name : t \in Inlines(m)}
      imports == [i \in DOMAIN m.imports |-> Name("LMDL", m.imports[i])]
      main    == imports \o Produce(m.main) \o << Val("EXIT", 0) >>
      classes == [i \in DOMAIN m.classes |-> Class(m.classes[i], labels)]
      functions == [i \in DOMAIN m.functions |-> Function(m.functions[i], labels)]
  IN Written(m.name, Labelled(main, labels) \o FlattenSeq(classes) \o FlattenSeq(functions))
=============================================================================
