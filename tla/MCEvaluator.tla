---------------------------- MODULE MCEvaluator ----------------------------
(***************************************************************************)
(* Programs for TLC: every expression of one operator over the operands    *)
(* below, in each of eight places, and longer programs for  *)
(* what the family does not reach.                                         *)
(***************************************************************************)
EXTENDS Evaluator

Id(x)        == T("id", x, 0, << >>)
Num(n)       == T("num", "", n, << >>)
Of(kind, ts) == T(kind, "", 0, ts)
Field(x)     == T("field", x, 0, << >>)
Index(t)     == Of("index", << t >>)
With(ts)     == Of("fncall", ts)
Post(t, ss)  == Of("postfix", << t >> \o ss)
Call(f, ts)  == Post(Id(f), << With(ts) >>)
Op(op, t)    == T("operand", op, 0, << t >>)
Chain(t, ts) == Of("chain", << t >> \o ts)
Binary(op, a, b) == Chain(a, << Op(op, b) >>)
Var(x)       == T("var", x, 0, << >>)
Assign(t, e) == Of("assign", << t, e >>)
Let_(x, e)   == Assign(Var(x), e)
Block(ts)    == Of("block", ts)
Return(t)    == Of("return", << t >>)
If(ts)       == Of("if", ts)
Parens(t)    == Of("paren", << t >>)
Tup(ts)      == Of("tuple", ts)
Arr(ts)      == Of("array", ts)
Lambda(x, ps, t) == [T("anonymous", x, 0, << t >>) EXCEPT !.args = ps]

Par(x)        == [name |-> x, default |-> << >>, store |-> "LET"]
ParOr(x, t)   == [name |-> x, default |-> << t >>, store |-> "LET"]
Def(x, ps, t) == [name |-> x, args |-> ps, body |-> t, const |-> FALSE]
Program(main, fs) ==
  [name |-> << >>, imports |-> << >>, classes |-> << >>, functions |-> fs, main |-> Block(main)]

-----------------------------------------------------------------------------
(* The family.                                                             *)

Atoms == {Id("a"), Num(2), Id("None"), Post(Id("o"), << Field("name") >>), Call("n", << >>),
          Call("p", << Id("a") >>)}
Numbers == {Id("a"), Num(2), Post(Id("o"), << Field("name") >>), Call("p", << Id("a") >>)}

Small ==
  {Binary(op, x, y) : op \in {"ADD", "LT"}, x \in Numbers, y \in Numbers}
    \cup {Of(kind, << x, y >>) : kind \in {"and", "or", "tuple"}, x \in Atoms, y \in Atoms}
    \cup {Of(kind, << x >>) : kind \in {"not"}, x \in Atoms}
    \cup {Of("negate", << x >>) : x \in Numbers}
    \cup {If(<< x, Num(1), Id("a") >>) : x \in Atoms}
    \cup {Post(Id("b"), << Index(x) >>) : x \in {Num(0), Num(1)}}
    \cup {Call("two", << x >>) : x \in Atoms}
    \cup Atoms

(* Where the expression stands.                                            *)
Places(e) ==
  { << Let_("x", e), Call("p", << Id("x") >>) >>,
    << Call("p", << e >>) >>,
    << Call("p", << Tup(<< Num(1), e, Id("a") >>) >>) >>,
    << If(<< e, Call("p", << Num(3) >>), Call("p", << Num(4) >>) >>) >>,
    << Let_("x", Arr(<< e, e >>)), Assign(Of("place", << Id("x"), Index(Num(0)) >>), e) >>,
    << Assign(Of("place", << Id("o"), Field("f") >>), e), Call("p", << Call("id", << e >>) >>) >>,
    << Let_("x", Of("or", << e, Id("a"), e >>)), Let_("y", Of("and", << Id("a"), e, Id("x") >>)) >>,
    << Assign(Of("targets", << Var("y"), Var("x") >>), Tup(<< e, Call("either", << e >>) >>)) >> }
Family ==
  {Program(<< Let_("a", Num(5)), Let_("b", Arr(<< Num(1), Num(0) >>)) >> \o body,
           << Def("id", << Par("x") >>, Return(Id("x"))),
              Def("two", << Par("x"), ParOr("y", Num(9)) >>, Tup(<< Id("y"), Id("x") >>)),
              Def("either", << Par("x") >>, Of("or", << Id("x"), Num(3) >>)) >>) :
     body \in UNION {Places(e) : e \in Small}}

-----------------------------------------------------------------------------
(* Longer programs.                                                        *)

Add(x, t)  == Let_(x, Binary("ADD", Id(x), t))
For(x, n, body) ==
  Of("for", << Let_(x, Num(0)), Binary("LT", Id(x), Num(n)), Add(x, Num(1)), body >>)
While(c, body) == Of("while", << c, body >>)
Targets(ts) == Of("targets", ts)
In(kind, x, t) == T("in", kind, 0, << x, t >>)

(* Loops in each other and in a function that returns from within them,    *)
(* and conditions with jumps of their own.                                 *)
Loops ==
  Program(<< Let_("t", Num(0)),
             For("i", 3, Block(<<
               For("j", 2, Add("t", Binary("MULT", Id("i"), Id("j")))),
               If(<< Binary("GT", Id("t"), Num(1)), Call("p", << Id("t") >>),
                     Binary("EQ", Id("i"), Num(0)), Call("p", << Num(0) >>) >>) >>)),
             While(Of("and", << Binary("LT", Id("t"), Num(6)), Call("p", << Id("t") >>) >>),
                   Add("t", Num(1))),
             Let_("r", Call("find", << Num(2) >>)),
             Call("p", << Tup(<< Id("r"), Id("t") >>) >>) >>,
          << Def("find", << Par("x") >>,
                 Block(<< Let_("k", Num(0)),
                          While(Binary("GTE", Num(5), Id("k")), Block(<<
                            For("j", 4, If(<< Binary("EQ", Id("j"), Id("x")),
                                              Return(Tup(<< Id("k"), Id("j") >>)) >>)),
                            Add("k", Num(1)) >>)),
                          Return(Id("None")) >>)),
             Def("unused", << >>, Block(<< Return(Num(1)) >>)) >>)

(* Parameters of every kind, passed as nothing, one value or a tuple that  *)
(* is too short or too long.                                               *)
Parameters(arg) ==
  Program(<< Let_("a", Num(5)), Call("p", << Call("f", arg) >>) >>,
          << Def("f", << Par("x"), ParOr("y", Call("g", << >>)), Par("z"),
                         ParOr("w", If(<< Id("x"), Id("y"), Num(8) >>)) >>,
                 Tup(<< Id("w"), Id("x"), Id("y") >>)),
             Def("g", << ParOr("d", Num(3)) >>,
                 Binary("SUB", Call("h", << Tup(<< Id("d"), Num(2), Num(4) >>) >>), Id("d"))),
             Def("h", << Par("_"), Par("e"), Par("_") >>, Return(Call("k", << Id("e") >>))),
             Def("k", << Par("e"), Par("_"), Par("_") >>, Id("e")) >>)
Passed == {<< >>, << Num(1) >>, << Id("None") >>}
            \cup {<< Tup([i \in 1..n |-> Num(10 + i)]) >> : n \in 2..5}

(* Anonymous functions with the variables around them, in a loop and as an *)
(* argument, called at once and after their block was closed.              *)
Closures ==
  Program(<< Let_("s", Num(1)), Let_("fs", Arr(<< >>)),
             For("i", 2, Block(<<
               Let_("k", Binary("MULT", Id("i"), Num(10))),
               Assign(Of("place", << Id("fs"), Index(Id("i")) >>),
                      Lambda("$1", << Par("x"), ParOr("y", Num(2)) >>,
                             Block(<< Add("s", Id("x")), Add("k", Id("y")), Return(Id("k")) >>))) >>)),
             Call("p", << Post(Id("fs"), << Index(Num(0)), With(<< Num(3) >>) >>) >>),
             Call("p", << Post(Id("fs"), << Index(Num(1)),
                                            With(<< Tup(<< Id("s"), Num(4) >>) >>) >>) >>),
             Call("p", << Post(Id("fs"), << Index(Num(0)), With(<< Id("s") >>) >>) >>),
             Call("p", << Call("twice", << Lambda("$2", << Par("x") >>, Binary("ADD", Id("x"), Id("s"))) >>) >>) >>,
          << Def("twice", << Par("f") >>,
                 Block(<< Let_("s", Num(50)),
                          Return(Call("f", << Call("f", << Id("s") >>) >>)) >>)) >>)

(* Assignments to several targets, methods, maps, ranges and membership.   *)
Structures ==
  Program(<< Assign(Targets(<< Var("a"), Targets(<< Var("b"), Var("c") >>),
                               Of("place", << Id("o"), Field("g") >>) >>),
                    Parens(Tup(<< Num(1), Arr(<< Num(2), Num(3) >>), Id("o") >>))),
             Assign(Targets(<< Var("b"), Var("a") >>), Parens(Tup(<< Id("a"), Id("b") >>))),
             Let_("m", T("map", "", 0, << Tup(<< Id("a"), Call("p", << Id("b") >>) >>),
                                          Tup(<< T("str", "key", 0, << >>), Id("c") >>) >>)),
             Let_("e", Of("map", << >>)),
             Post(Id("o"), << Field("g"), Field("run"), With(<< Tup(<< Id("a"), Id("m") >>) >>) >>),
             Assign(Of("place", << Id("o"), Field("g"), Field("len") >>), Id("c")),
             Let_("x", Post(Id("o"), << Field("g"), Field("len") >>)),
             Let_("y", Binary("ADD", Post(Id("o"), << Field("len") >>),
                                     Post(Id("o"), << Field("name") >>))),
             Call("p", << In("in", Id("x"), Id("m")) >>),
             Call("p", << In("notin", Post(Id("o"), << Field("name") >>), Arr(<< Id("x") >>)) >>),
             Let_("r", Of("range", << Num(0), Id("x"), Id("a") >>)),
             Let_("v", Binary("LTE", Chain(Num(1), << Op("ADD", Id("a")),
                                        Op("SUB", Binary("MULT", Num(4), Of("negate", << Id("c") >>))) >>),
                                     Of("negate", << Num(2) >>))),
             Let_("w", Binary("NEQ", Id("m"), Id("e"))),
             Let_("None2", Id("None")),
             Post(Id("m"), << Field("size"), With(<< >>) >>) >>,
          << >>)

(* Elements of whatever there is, at whatever index.                       *)
Elements(x, i) ==
  LET at == << Index(i) >>
  IN Program(<< Let_("a", Num(5)), Let_("b", Arr(<< Num(1), Num(0) >>)),
                Let_("s", T("str", "key", 0, << >>)), Let_("x", x),
                Assign(Of("place", << Id("x") >> \o at), Id("a")),
                Call("p", << Post(Id("x"), at) >>), Call("p", << Id("a") >>) >>,
             << Def("f", << >>, Num(1)) >>)
ElementsOf ==
  {Elements(x, i) : x \in {Num(5), Id("b"), Id("o"), Id("s"), Id("f"), Tup(<< Num(1), Num(2) >>)},
                    i \in {Num(1), Num(3), Of("negate", << Num(1) >>), Id("None")}}

PassingModules ==
  Family \cup {Loops, Closures, Structures} \cup {Parameters(arg) : arg \in Passed}
    \cup ElementsOf
MCExternals == {"p", "n", "range"}
=============================================================================
