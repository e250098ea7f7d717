----------------------------- MODULE MCFrontEnd -----------------------------
(***************************************************************************)
(* Texts for TLC: syntax trees with their texts, in several layouts. The   *)
(* words of a tree come from Words, a line break being the word NL; the    *)
(* layout says what is between them.                                       *)
(***************************************************************************)
EXTENDS FrontEnd, MCEvaluator

NL == "newline"

Symbol ==
  [MULT |-> "*", DIV |-> "/", MOD |-> "%", ADD |-> "+", SUB |-> "-", LT |-> "<", GT |-> ">",
   LTE |-> "<=", GTE |-> ">=", EQ |-> "==", NEQ |-> "!=", XOR |-> "^",
   not |-> "~", notc |-> "!", negate |-> "-", const |-> "const"]

(* A string as it is written in a program.                                 *)
Special == "it's \\ a\ttab\n"
Literal(s) == "'" \o (IF s = Special THEN "it\\'s \\\\ a\\ttab\\n" ELSE s) \o "'"

RECURSIVE Words(_), Statement_(_), SuffixWords(_)

Separated(codes, w) ==
  FlattenSeq([i \in DOMAIN codes |-> IF i = 1 THEN codes[i] ELSE << w >> \o codes[i]])
AllWords(ts) == [i \in DOMAIN ts |-> Words(ts[i])]
Enclosed(l, words, r) == << l >> \o words \o << r >>

Parameter(p) ==
  (IF p.store \in {"LETC", "FLDC"} THEN << "const" >> ELSE << >>)
    \o (IF p.store \in {"FLD", "FLDC"} THEN << "field" >> ELSE << >>) \o << p.name >>
    \o (IF p.default = << >> THEN << >> ELSE << "=" >> \o Words(p.default[1]))
ParameterList(ps) == Enclosed("(", Separated([i \in DOMAIN ps |-> Parameter(ps[i])], ","), ")")

SuffixWords(ss) ==
  IF ss = << >> THEN << >>
  ELSE LET x == Head(ss)
           inner == IF x.kids = << >> THEN << >> ELSE Words(x.kids[1])
       IN (CASE x.kind = "fncall" -> Enclosed("(", inner, ")")
             [] x.kind = "index"  -> Enclosed("[", inner, "]")
             [] x.kind = "field"  -> << ".", x.name >>) \o SuffixWords(Tail(ss))

Entries(ts) ==
  Separated([i \in DOMAIN ts |-> Words(ts[i].kids[1]) \o << ":" >> \o Words(ts[i].kids[2])], ",")

(* The words of tests and bodies in turn, and those of the last body for   *)
(* else.                                                                   *)
ConditionalWords(words, then) ==
  LET one(i) == CASE i % 2 = 0        -> words[i]
                  [] i = Len(words)   -> << "else" >> \o words[i]
                  [] OTHER            -> (IF i = 1 THEN << "if" >> ELSE << "else", "if" >>) \o words[i] \o then
  IN FlattenSeq([i \in DOMAIN words |-> one(i)])

Words(t) ==
  CASE t.kind = "id"    -> << t.name >>
    [] t.kind = "num"   -> << ToString(t.num) >>
    [] t.kind = "str"   -> << Literal(t.name) >>
    [] t.kind = "tuple" -> Separated(AllWords(t.kids), ",")
    [] t.kind = "paren" -> Enclosed("(", Words(t.kids[1]), ")")
    [] t.kind = "array" -> Enclosed("[", Separated(AllWords(t.kids), ","), "]")
    [] t.kind = "map"   -> Enclosed("{", Entries(t.kids), "}")
    [] t.kind = "postfix" -> Words(t.kids[1]) \o SuffixWords(Tail(t.kids))
    [] t.kind \in {"not", "notc", "negate", "const"} -> << Symbol[t.kind] >> \o Words(t.kids[1])
    [] t.kind = "chain" ->
         Words(t.kids[1]) \o FlattenSeq([i \in 1 .. Len(t.kids) - 1 |->
           << Symbol[t.kids[i + 1].name] >> \o Words(t.kids[i + 1].kids[1])])
    [] t.kind \in {"and", "or"} -> Separated(AllWords(t.kids), t.kind)
    [] t.kind = "in" -> Separated(AllWords(t.kids), t.name)
    [] t.kind = "is" -> Separated(AllWords(t.kids), "is")
    [] t.kind = "range" -> Separated(AllWords(<< t.kids[1] >> \o Reverse(Tail(t.kids))), ":")
    [] t.kind = "if" -> ConditionalWords(AllWords(t.kids), << "then" >>)
    [] t.kind = "anonymous" ->
         ParameterList(t.args) \o (IF t.num = 1 THEN << "const" >> ELSE << >>)
           \o (IF t.kids[1].kind = "block" THEN Statement_(t.kids[1])
               ELSE << "->" >> \o Words(t.kids[1]))
    [] t.kind = "assign"  -> Words(t.kids[1]) \o << "=" >> \o Words(t.kids[2])
    [] t.kind = "var"     -> (IF t.num = 1 THEN << "const" >> ELSE << >>) \o << t.name >>
    [] t.kind = "targets" -> Enclosed("(", Separated(AllWords(t.kids), ","), ")")
    [] t.kind = "place"   -> Words(t.kids[1]) \o SuffixWords(Tail(t.kids))

(* A block's statements are on lines of their own.                         *)
Statement_(t) ==
  CASE t.kind = "block" ->
         IF t.kids = << >> THEN << "{", "}" >>
         ELSE Enclosed("{", << NL >> \o FlattenSeq([i \in DOMAIN t.kids |->
                              Append(Statement_(t.kids[i]), NL)]), "}")
    [] t.kind = "if"     -> ConditionalWords([i \in DOMAIN t.kids |->
                              IF i % 2 = 1 /\ i < Len(t.kids) THEN Words(t.kids[i]) ELSE Statement_(t.kids[i])], << >>)
    [] t.kind = "while"  -> << "while" >> \o Words(t.kids[1]) \o Statement_(t.kids[2])
    [] t.kind = "for"    ->
         << "for", "(" >> \o Separated(AllWords(SubSeq(t.kids, 1, 3)), ",") \o << ")" >>
           \o Statement_(t.kids[4])
    [] t.kind = "foreach" ->
         << "for" >> \o Words(t.kids[1]) \o << "in" >> \o Words(t.kids[2]) \o Statement_(t.kids[3])
    [] t.kind = "try" ->
         << "try" >> \o Statement_(t.kids[1]) \o << "catch" >> \o Words(t.kids[2])
           \o Statement_(t.kids[3])
    [] t.kind \in {"raise", "return"} -> << t.kind >> \o FlattenSeq(AllWords(t.kids))
    [] t.kind \in {"break", "continue", "exit"} -> << t.kind >>
    [] OTHER -> Words(t)

FunctionWords(start, f) ==
  start \o ParameterList(f.args) \o (IF f.const THEN << "const" >> ELSE << >>) \o Statement_(f.body)
ClassWords(c) ==
  LET of(start, fs) == FlattenSeq([i \in DOMAIN fs |-> Append(FunctionWords(
                         start \o (IF start = << "new" >> THEN << >> ELSE << fs[i].name >>), fs[i]), NL)])
  IN << "class", c.name >>
       \o (IF c.parents = << >> THEN << >>
           ELSE << ":" >> \o Separated([i \in DOMAIN c.parents |-> << c.parents[i] >>], ","))
       \o << "{", NL >>
       \o (IF c.fields = << >> THEN << >>
           ELSE << "field" >> \o Separated([i \in DOMAIN c.fields |-> << c.fields[i] >>], ",") \o << NL >>)
       \o of(<< "new" >>, c.constructor) \o of(<< "method" >>, c.methods) \o << "}", NL >>
ModuleWords(t) ==
  (IF t.name = << >> THEN << >> ELSE << "module", t.name[1], NL >>)
    \o FlattenSeq([i \in DOMAIN t.imports |-> << "import", t.imports[i], NL >>])
    \o FlattenSeq([i \in DOMAIN t.main.kids |-> Append(Statement_(t.main.kids[i]), NL)])
    \o FlattenSeq([i \in DOMAIN t.functions |->
         Append(FunctionWords(<< "def", t.functions[i].name >>, t.functions[i]), NL)])
    \o FlattenSeq([i \in DOMAIN t.classes |-> ClassWords(t.classes[i])])

-----------------------------------------------------------------------------
(* Layouts. Close: a blank only where two words would be read as one.      *)
(* Wide: blanks, tabs, comments and empty lines. Broken: a line is         *)
(* continued behind every operator of two characters.                      *)

Layouts == {"close", "wide", "broken"}
Collide(w, x) ==
  LET last == Char(w, Len(w)) IN
  \/ Char(x, 1) \in Alphanumeric /\ last \in Alphanumeric
  \/ last \o Char(x, 1) \in Complex

RECURSIVE Laid(_, _, _, _)
Laid(words, layout, line, lines) ==
  IF words = << >> THEN IF line = "" THEN lines ELSE Append(lines, line)
  ELSE LET w == Head(words)
           gap == CASE line = ""         -> ""
                    [] layout = "wide"   -> " \t"
                    [] OTHER             -> IF Collide(line, w) THEN " " ELSE ""
           broken == layout = "broken" /\ w \in Complex
       IN CASE w = NL -> Laid(Tail(words), layout, "",
                              lines \o (IF layout = "wide" THEN << line \o " ; " \o line, "" >>
                                        ELSE << line >>))
            [] broken -> Laid(Tail(words), layout, "", Append(lines, line \o gap \o w \o " \\"))
            [] OTHER  -> Laid(Tail(words), layout, line \o gap \o w, lines)
TextOf(t, layout) == [lines |-> Laid(ModuleWords(t), layout, "", << >>), tree |-> t]

-----------------------------------------------------------------------------
(* Trees. Every pair of operators of different strength, as it is read     *)
(* without parentheses and with them on the other side; then every other   *)
(* construct.                                                              *)

Strength == << "MULT", "ADD", "in", "LT", "EQ", "and", "XOR", "or", "is" >>
Apply(o, x, y) ==
  CASE o \in {"and", "or", "is"} -> Of(o, << x, y >>)
    [] o = "in"                  -> T("in", "notin", 0, << x, y >>)
    [] OTHER                     -> Binary(o, x, y)
Pair(i, j) ==
  LET x == Id("a")
      y == Num(2)
      z == Id("c")
      left  == Apply(Strength[j], Apply(Strength[i], x, y), z)
      right == Apply(Strength[i], x, Apply(Strength[j], y, z))
  IN IF i < j THEN << left, Apply(Strength[i], x, Parens(Apply(Strength[j], y, z))) >>
     ELSE << right, Apply(Strength[j], Parens(Apply(Strength[i], x, y)), z) >>
Assigned(codes) == [i \in DOMAIN codes |-> Let_("x", codes[i])]
Pairs_(i) ==
  FlattenSeq([j \in DOMAIN Strength |-> IF i = j THEN << >> ELSE Assigned(Pair(i, j))])

(* They are in a function that is not called: not all of them have a       *)
(* meaning.                                                                *)
Idle(body) ==
  [Program(<< Call("p", << Num(1) >>), Let_("a", Num(2)) >>,
           << Def("idle", << Par("a") >>, Block(body)),
              Def("after", << >>, Call("f", << >>)) >>) EXCEPT !.name = << "demo" >>]

(* Chains lean to the left; an operand in parentheses is one operand.      *)
Chains ==
  Assigned(<<
    Chain(Id("a"), << Op("SUB", Id("b")), Op("ADD", Id("c")), Op("SUB", Num(1)) >>),
    Binary("SUB", Id("a"), Parens(Binary("SUB", Id("b"), Id("c")))),
    Chain(Id("a"), << Op("DIV", Id("b")), Op("MULT", Id("c")), Op("MOD", Num(10)) >>),
    Of("and", << Id("a"), Parens(Of("and", << Id("b"), Id("c") >>)), Id("d") >>),
    Of("or", << Id("a"), Id("b"), Of("and", << Id("c"), Id("d") >>) >>),
    Chain(Id("a"), << Op("GTE", Id("b")), Op("LT", Id("c")) >>),
    Chain(Id("a"), << Op("XOR", Id("b")), Op("XOR", Id("c")) >>) >>)

Negated(x) == Of("negate", << x >>)
Operands ==
  LET o == Id("o")
      method == Post(o, << Field("f"), With(<< Tup(<< Id("a"), Num(2) >>) >>), Index(Num(0)),
                           Field("g"), With(<< >>) >>)
  IN Assigned(<<
    Binary("MULT", Negated(Id("a")), Negated(Negated(method))),
    Binary("EQ", Of("not", << Id("a") >>), Of("notc", << Call("f", << >>) >>)),
    Of("const", << Arr(<< Id("a"), Parens(Tup(<< Id("b"), Num(1) >>)) >>) >>),
    Binary("ADD", Of("range", << Num(0), Post(o, << Field("len") >>) >>),
                  Of("range", << Id("a"), Id("b"), Num(2) >>)),
    Parens(Tup(<< Arr(<< >>), Arr(<< Num(7) >>), Of("map", << >>) >>)),
    Of("map", << Tup(<< Id("a"), Num(1) >>), Tup(<< T("str", "k", 0, << >>), method >>) >>),
    Post(T("str", Special, 0, << >>), << Field("len") >>),
    Lambda("", << Par("x") >>, Binary("ADD", Id("x"), Num(1))),
    [Lambda("", << ParOr("x", Binary("ADD", Num(1), Num(2))), [Par("y") EXCEPT !.store = "LETC"] >>,
            Block(<< Call("f", << Id("x") >>), Return(Id("y")) >>)) EXCEPT !.num = 1] >>)

Stores_ ==
  LET place(ss) == Of("place", << Id("o") >> \o ss)
  IN << Assign(T("var", "k", 1, << >>), Num(1)),
        Assign(place(<< Field("f"), Field("g") >>), Id("a")),
        Assign(place(<< Index(Id("a")), Field("g"), Index(Num(1)) >>), Id("a")),
        Assign(place(<< Field("f"), With(<< Id("a") >>), Field("g") >>), Id("b")),
        Assign(Of("targets", << Var("x"), place(<< Field("f") >>),
                                Of("targets", << Var("y"), Var("z") >>) >>), Call("two", << >>)) >>

(* if, else if and else; an else goes with the nearest if.                 *)
Conditionals ==
  << Let_("x", If(<< Id("a"), Num(1), Id("b"), Num(2), Num(3) >>)),
     Let_("x", If(<< Id("a"), If(<< Id("b"), Num(1), Num(2) >>) >>)),
     Let_("x", If(<< Of("and", << Id("a"), Id("b") >>), Call("f", << Num(1) >>) >>)),
     If(<< Id("a"), If(<< Id("b"), Block(<< Call("f", << >>) >>), Block(<< Return(Num(1)) >>) >>) >>),
     If(<< Binary("GT", Id("a"), Num(1)), Block(<< Let_("x", Num(1)), Call("f", << >>) >>),
           Of("not", << Id("b") >>), Block(<< Let_("x", Num(2)) >>),
           Block(<< Let_("x", Num(3)) >>) >>),
     If(<< Id("x"), Block(<< Return(Id("a")) >>) >>) >>

Break_    == Of("break", << >>)
Continue_ == Of("continue", << >>)
Statements ==
  << Of("try", << Block(<< Call("f", << >>), Of("raise", << Id("x") >>) >>), Var("e"),
                  Block(<< Call("p", << Id("e") >>) >>) >>),
     Of("foreach", << Var("x"), Id("list"), Block(<< If(<< Id("x"), Block(<< Break_ >>) >>),
                                                     Call("p", << Id("x") >>), Continue_ >>) >>),
     Of("foreach", << Of("targets", << Var("x"), Var("y") >>), Post(Id("o"), << Field("g") >>),
                      Call("p", << Id("y") >>) >>),
     While(Binary("LT", Id("a"), Num(3)), Block(<< Call("f", << >>), Break_ >>)),
     If(<< Id("a"), Block(<< Of("exit", << >>) >>) >>),
     Return(Tup(<< Id("a"), Id("x") >>)) >>

(* Run: what leaves loops and functions before their end.                  *)
Leaving ==
  Program(<< Let_("t", Num(0)),
             For("i", 4, Block(<<
               If(<< Binary("EQ", Id("i"), Num(1)), Block(<< Continue_ >>) >>),
               For("j", 3, Block(<< If(<< Binary("GTE", Id("j"), Id("i")), Block(<< Break_ >>) >>),
                                    Add("t", Binary("MULT", Id("i"), Num(2))) >>)),
               If(<< Binary("GT", Id("i"), Num(2)), Block(<< Break_ >>) >>),
               Call("p", << Id("t") >>) >>)),
             Let_("r", Call("first", << Tup(<< Num(3), Id("t") >>) >>)),
             If(<< Id("r"), Block(<< Of("exit", << >>) >>) >>),
             Call("p", << Num(0) >>) >>,
          << Def("first", << Par("x"), ParOr("y", Num(1)) >>, Block(<<
                 Let_("k", Num(0)),
                 While(Num(1), Block(<<
                   Add("k", Id("y")),
                   If(<< Binary("GT", Id("k"), Id("x")), Block(<< Return(Id("k")) >>) >>),
                   Call("p", << Id("k") >>) >>)) >>)) >>)

(* Classes: fields, a constructor that stores some of its parameters as    *)
(* fields, methods; and one with a method only.                            *)
ClassOf_(x, parents, fields, constructor, methods) ==
  [name |-> x, parents |-> parents, fields |-> fields, constructor |-> constructor,
   methods |-> methods]
Classes ==
  LET new == Def("new", << [Par("x") EXCEPT !.store = "FLD"], ParOr("y", Num(2)),
                           [ParOr("z", Num(3)) EXCEPT !.store = "FLDC"] >>,
                 Block(<< Call("f", << Id("y") >>), Call("g", << Id("z") >>) >>))
      get == [Def("get", << >>, Block(<< Return(Id("x")) >>)) EXCEPT !.const = TRUE]
      add == Def("add", << Par("y") >>, Block(<<
               Let_("k", Lambda("", << Par("i") >>, Binary("ADD", Id("i"), Id("y")))),
               Return(Call("k", << Id("x") >>)) >>))
  IN [name |-> << "shapes" >>, imports |-> << "io", "math" >>,
      main |-> Block(<< Let_("s", Call("Shape", << Num(1) >>)), Call("p", << Id("s") >>) >>),
      classes |-> << ClassOf_("Shape", << >>, << "a", "b" >>, << new >>, << get, add >>),
                     ClassOf_("Round", << "Shape", "Other" >>, << >>, << >>, << add >>),
                     ClassOf_("Plain", << >>, << "w" >>, << >>, << get >>) >>,
      functions |-> << Def("last", << Par("x") >>, Block(<< Return(Id("x")) >>)) >>]

(* A module that uses its own name for a variable.                         *)
OwnName ==
  [Program(<< Let_("demo", Num(1)), Call("p", << Id("demo") >>) >>, << >>)
     EXCEPT !.name = << "demo" >>]

(* Anonymous functions are named for their places: the name in a tree is   *)
(* left out.                                                               *)
RunTexts ==
  {TextOf(t, layout) : t \in {Loops, Closures, Structures, Leaving, OwnName}, layout \in Layouts}
IdleTexts ==
  {TextOf(Idle(Pairs_(i)), "close") : i \in DOMAIN Strength}
    \cup {TextOf(Idle(body), layout) : body \in {Chains, Operands, Stores_, Conditionals, Statements},
                                       layout \in Layouts}
MCTexts == RunTexts \cup IdleTexts \cup {TextOf(Classes, layout) : layout \in Layouts}
=============================================================================
