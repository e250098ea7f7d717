------------------------------ MODULE Populate ------------------------------
(***************************************************************************)
(* From the parser's trees to the syntax trees of Expressions (the         *)
(* ImplPopulate functions and the populate functions of                    *)
(* codegen/expressions). A parser's tree that stands for one of several    *)
(* things is told by the rule that named it: a rule without a choice to    *)
(* make leaves its operand's name.                                         *)
(*                                                                         *)
(* Rules that have no function here (length_expression, a chain of in, new *)
(* as a value) end the program: the tree says which. Literals are          *)
(* integers.                                                               *)
(***************************************************************************)
EXTENDS Parser, Expressions

First(x)  == x.kids[1]
Second(x) == x.kids[2]
Text_(x)  == x.tok[1].text
Leaf(x)   == x.tok # << >>
IsToken(x, type) == Leaf(x) /\ x.tok[1].type = type
IsSyntax(x, rule) == x.rule = rule

Failed(rule) == T("error", rule, 0, << >>)

(* The shapes of lists. A last element stands alone behind its comma; the  *)
(* others are a pair of comma and element, with the rest beside the pair.  *)
RECURSIVE CommaRest(_), Rest(_, _), TupleRest(_)
CommaRest(x) ==
  IF IsToken(First(x), "COMMA") THEN << Second(x) >>
  ELSE << Second(First(x)) >> \o CommaRest(Second(x))
CommaList(x, list) ==
  IF IsSyntax(x, list) THEN << First(x) >> \o CommaRest(Second(x)) ELSE << x >>

(* Statements follow each other without a comma.                           *)
Rest(x, list1) == IF IsSyntax(x, list1) THEN << First(x) >> \o Rest(Second(x), list1) ELSE << x >>
StatementsOf(x, list, list1) ==
  IF IsSyntax(x, list) THEN << First(x) >> \o Rest(Second(x), list1) ELSE << x >>

(* The comma of a tuple is beside an element and the rest.                 *)
TupleRest(x) ==
  LET after == Second(x)
  IN IF Leaf(after) \/ ~IsSyntax(Second(after), "tuple_expression1") THEN << after >>
     ELSE << First(after) >> \o TupleRest(Second(after))

(* What is between an opening and a closing token, if there is something.  *)
Inside(x) == IF Leaf(Second(x)) THEN << >> ELSE << First(Second(x)) >>

DigitsAsNumber(s) ==
  FoldLeft(LAMBDA n, d : 10 * n + (CHOOSE k \in 0..9 : Char("0123456789", k + 1) = d), 0,
          [i \in 1..Len(s) |-> Char(s, i)])

BiOperators ==
  [STAR |-> "MULT", FSLASH |-> "DIV", PERCENT |-> "MOD", PLUS |-> "ADD", MINUS |-> "SUB",
   LTHAN |-> "LT", GTHAN |-> "GT", LTHANEQ |-> "LTE", GTHANEQ |-> "GTE",
   EQUIV |-> "EQ", NEQUIV |-> "NEQ", AND_T |-> "AND", CARET |-> "XOR", OR_T |-> "OR"]
UnaryKinds == [TILDE |-> "not", EXCLAIM |-> "notc", MINUS |-> "negate", CONST_T |-> "const"]

-----------------------------------------------------------------------------

RECURSIVE populate_expression(_), populate_assignment(_), postfix_helper(_), BiSuffixes(_, _),
          populate_if_else(_, _)

Populated(xs) == [i \in DOMAIN xs |-> populate_expression(xs[i])]

(* The suffixes of a postfix expression, from its first token on.          *)
postfix_helper(x) ==
  LET ext   == First(x)
      after == Second(x)
      surround(kind) ==
        CASE Leaf(after)        -> << T(kind, "", 0, << >>) >>
          [] Leaf(First(after)) /\ First(after).tok[1].type \in {"RPAREN", "RBRAC"} ->
               << T(kind, "", 0, << >>) >> \o postfix_helper(Second(after))
          [] OTHER ->
               LET suffix == T(kind, "", 0, << populate_expression(First(after)) >>)
               IN << suffix >> \o (IF Leaf(Second(after)) THEN << >>
                                   ELSE postfix_helper(Second(Second(after))))
  IN CASE IsToken(ext, "PERIOD") ->
            IF Leaf(after) THEN << T("field", Text_(after), 0, << >>) >>
            ELSE << T("field", Text_(First(after)), 0, << >>) >> \o postfix_helper(Second(after))
       [] IsToken(ext, "LPAREN") -> surround("fncall")
       [] IsToken(ext, "LBRAC")  -> surround("index")

(* A chain of operators of one precedence leans to the right in the        *)
(* parser's tree; an operand that is such a chain itself has parentheses.  *)
BiSuffixesOne(x, rule) ==
  << T("operand", BiOperators[First(x).tok[1].type], 0, << populate_expression(Second(x)) >>) >>
BiSuffixes(x, rule) ==
  LET operator == BiOperators[First(x).tok[1].type]
      operand(e) == T("operand", operator, 0, << populate_expression(e) >>)
      e == Second(x)
  IN IF e.rule = rule THEN << operand(First(e)) >> \o BiSuffixes(Second(e), rule)
     ELSE << operand(e) >>
BiExpressions ==
  {"multiplicative_expression", "additive_expression", "relational_expression",
   "equality_expression", "and_expression", "xor_expression", "or_expression"}
PopulateBi(x) ==
  LET first    == populate_expression(First(x))
      suffixes == BiSuffixes(Second(x), x.rule)
      operands == [i \in DOMAIN suffixes |-> suffixes[i].kids[1]]
  IN CASE x.rule = "and_expression" -> T("and", "", 0, << first >> \o operands)
       [] x.rule = "or_expression"  -> T("or", "", 0, << first >> \o operands)
       [] OTHER                     -> T("chain", "", 0, << first >> \o suffixes)

(* start:end, or start:step:end.                                           *)
PopulateRange(x) ==
  LET start == First(x)
      after == Second(Second(x))
      step  == ~Leaf(after) /\ ~Leaf(Second(after)) /\ IsToken(First(Second(after)), "COLON")
  IN T("range", "", 0, Populated(IF step THEN << start, Second(Second(after)), First(after) >>
                                 ELSE << start, after >>))

(* Conditional expressions and if statements: tests and bodies in turn; an *)
(* else that is of the same rule adds its own.                             *)
populate_if_else(x, rule) ==
  LET test == First(Second(x))
      then == Second(Second(x))
      body == IF IsToken(First(then), "THEN") THEN Second(then) ELSE then
      more == ~Leaf(body) /\ ~Leaf(Second(body)) /\ IsToken(First(Second(body)), "ELSE")
      else == Second(Second(body))
      pair == Populated(<< test, IF more THEN First(body) ELSE body >>)
  IN CASE ~more           -> pair
       [] else.rule = rule -> pair \o populate_if_else(else, rule)
       [] OTHER           -> pair \o << populate_expression(else) >>

PopulateMap(x) ==
  LET entry(e) == T("tuple", "", 0, Populated(<< First(e), Second(Second(e)) >>))
      entries  == IF Inside(x) = << >> THEN << >>
                  ELSE CommaList(Inside(x)[1], "map_declaration_list")
  IN T("map", "", 0, [i \in DOMAIN entries |-> entry(entries[i])])

-----------------------------------------------------------------------------
(* Functions. A parameter is stored by LET or, as a field, by FLD; LETC    *)
(* and FLDC do it for a constant.                                          *)

populate_argument(x) ==
  LET const == x.rule \in {"const_function_argument", "const_new_argument"}
      elt   == IF const THEN Second(x) ELSE x
      with  == elt.rule \in {"function_arg_elt_with_default", "new_arg_elt_with_default"}
      var   == IF with THEN First(elt) ELSE elt
      field == IsSyntax(var, "new_field_arg")
  IN [name    |-> IF field THEN Text_(Second(var)) ELSE Text_(var),
      default |-> IF with THEN << populate_expression(Second(Second(elt))) >> ELSE << >>,
      store   |-> (IF field THEN "FLD" ELSE "LET") \o (IF const THEN "C" ELSE "")]

set_function_args(x, list) ==
  LET as == CommaList(x, list) IN [i \in DOMAIN as |-> populate_argument(as[i])]

(* A function, a method or a constructor: signature and body.              *)
populate_function_variant(x, args) ==
  LET const == First(x).rule \in {"function_signature_const", "method_signature_const",
                                  "new_signature_const"}
      sig   == IF const THEN First(First(x)) ELSE First(x)
      id    == First(sig)
  IN [name  |-> IF Leaf(id) THEN Text_(id) ELSE Text_(Second(id)),
      args  |-> IF Inside(Second(sig)) = << >> THEN << >>
                ELSE set_function_args(Inside(Second(sig))[1], args),
      body  |-> populate_expression(Second(x)),
      const |-> const]

(* An anonymous function is named for the place of its first token.        *)
AnonymousName(tok) == "$anon_" \o ToString(tok.line) \o "_" \o ToString(tok.col)
populate_anon_function(x) ==
  LET const  == IsSyntax(First(x), "anon_signature_const")
      params == IF const THEN First(First(x)) ELSE First(x)
      single == IsSyntax(params, "identifier")
      def    == IF single THEN params.tok[1] ELSE First(params).tok[1]
      args   == CASE single                -> set_function_args(params, "function_argument_list")
                  [] Inside(params) = << >> -> << >>
                  [] OTHER -> set_function_args(Inside(params)[1], "function_argument_list")
      body   == IF IsSyntax(Second(x), "anon_function_lambda_rhs") THEN Second(Second(x)) ELSE Second(x)
  IN [T("anonymous", AnonymousName(def), IF const THEN 1 ELSE 0, << populate_expression(body) >>)
        EXCEPT !.args = args]

-----------------------------------------------------------------------------
(* Assignments: to a variable, to a place behind suffixes, to each target  *)
(* of a list. Every suffix but the last has the rest beside it.            *)

single_postfix(x) ==
  CASE x.rule = "array_index_assignment" -> T("index", "", 0, Populated(Inside(x)))
    [] x.rule = "function_call_args"     -> T("fncall", "", 0, Populated(Inside(x)))
    [] x.rule = "field_set_value"        -> T("field", Text_(Second(x)), 0, << >>)

RECURSIVE single_postfixes(_)
single_postfixes(x) ==
  IF x.rule \in {"field_expression1", "field_next"}
  THEN << single_postfix(First(x)) >> \o single_postfixes(Second(x))
  ELSE << single_postfix(x) >>

TargetList(x) ==
  IF Leaf(x) \/ ~IsSyntax(Second(x), "assignment_tuple_list1") THEN << x >>
  ELSE << First(x) >> \o CommaRest(Second(x))

populate_assignment(x) ==
  CASE x.rule = "identifier" -> T("var", Text_(x), 0, << >>)
    [] x.rule = "const_assignment_expression" -> T("var", Text_(Second(x)), 1, << >>)
    [] x.rule = "field_expression" ->
         T("place", "", 0, << populate_expression(First(x)) >> \o single_postfixes(Second(x)))
    [] x.rule \in {"assignment_tuple", "assignment_array"} ->
         LET targets == TargetList(Inside(x)[1])
         IN T("targets", "", 0, [i \in DOMAIN targets |-> populate_assignment(targets[i])])

-----------------------------------------------------------------------------
(* Statements.                                                             *)

PopulateCompound(x) ==
  T("block", "", 0, IF Inside(x) = << >> THEN << >>
                    ELSE Populated(StatementsOf(Inside(x)[1], "statement_list", "statement_list1")))

PopulateTry(x) ==
  LET catch  == Second(Second(First(x)))
      target == IF IsSyntax(Second(catch), "catch_assign") THEN Inside(Second(catch))[1]
                ELSE Second(catch)
      body   == populate_expression(First(Second(First(x))))
  IN T("try", "", 0, << body, populate_assignment(target), populate_expression(Second(x)) >>)

(* What is returned may be in parentheses of the statement's own.          *)
PopulateReturn(x) ==
  IF Leaf(x) THEN T("return", "", 0, << >>)
  ELSE LET e    == Second(x)
           bare == ~Leaf(e) /\ IsToken(First(e), "LPAREN") /\ ~IsSyntax(e, "primary_expression")
       IN T("return", "", 0, << populate_expression(IF bare THEN Inside(e)[1] ELSE e) >>)

(* The head of a for may be in parentheses.                                *)
ForInner(x) ==
  LET head == Second(First(x)) IN IF IsToken(First(head), "LPAREN") THEN Inside(head)[1] ELSE head
PopulateForeach(x) ==
  LET head     == ForInner(x)
      iterable == populate_expression(Second(Second(head)))
      body     == populate_expression(Second(x))
  IN T("foreach", "", 0, << populate_assignment(First(head)), iterable, body >>)
PopulateFor(x) ==
  LET after == Second(Second(ForInner(x)))
  IN T("for", "", 0, Populated(<< First(ForInner(x)), First(after), Second(Second(after)), Second(x) >>))

(* The dispatch on the rule of a tree (the table of expression_init).      *)
populate_expression(x) ==
  CASE x.rule = "identifier"     -> T("id", Text_(x), 0, << >>)
    [] x.rule = "constant"       -> T("num", "", DigitsAsNumber(Text_(x)), << >>)
    [] x.rule = "string_literal" -> T("str", SubSeq(Text_(x), 2, Len(Text_(x)) - 1), 0, << >>)
    [] x.rule = "tuple_expression" -> T("tuple", "", 0, Populated(<< First(x) >> \o TupleRest(Second(x))))
    [] x.rule = "array_declaration" ->
         LET inner == Populated(Inside(x))
         IN T("array", "", 0, IF inner # << >> /\ inner[1].kind = "tuple" THEN inner[1].kids ELSE inner)
    [] x.rule = "map_declaration"    -> PopulateMap(x)
    [] x.rule = "primary_expression" -> T("paren", "", 0, Populated(Inside(x)))
    [] x.rule = "postfix_expression" ->
         T("postfix", "", 0, << populate_expression(First(x)) >> \o postfix_helper(Second(x)))
    [] x.rule = "range_expression" -> PopulateRange(x)
    [] x.rule = "unary_expression" ->
         T(UnaryKinds[First(x).tok[1].type], "", 0, << populate_expression(Second(x)) >>)
    [] x.rule \in BiExpressions -> PopulateBi(x)
    [] x.rule = "in_expression" ->
         T("in", First(Second(x)).tok[1].text, 0, Populated(<< First(x), Second(Second(x)) >>))
    [] x.rule = "is_expression" -> T("is", "", 0, Populated(<< First(x), Second(Second(x)) >>))
    [] x.rule \in {"conditional_expression", "selection_statement"} ->
         T("if", "", 0, populate_if_else(x, x.rule))
    [] x.rule = "anon_function_definition" -> populate_anon_function(x)
    [] x.rule = "assignment_expression" ->
         T("assign", "", 0, << populate_assignment(First(x)), populate_expression(Second(Second(x))) >>)
    [] x.rule = "foreach_statement" -> PopulateForeach(x)
    [] x.rule = "for_statement"     -> PopulateFor(x)
    [] x.rule = "while_statement"   -> T("while", "", 0, Populated(<< Second(First(x)), Second(x) >>))
    [] x.rule = "compound_statement" -> PopulateCompound(x)
    [] x.rule = "try_statement"      -> PopulateTry(x)
    [] x.rule = "raise_statement"    -> T("raise", "", 0, Populated(<< Second(x) >>))
    [] x.rule = "jump_statement"     -> PopulateReturn(x)
    [] x.rule = "break_statement"    ->
         T(IF IsToken(x, "BREAK") THEN "break" ELSE "continue", "", 0, << >>)
    [] x.rule = "exit_statement"     -> T("exit", "", 0, << >>)
    [] OTHER -> Failed(x.rule)

-----------------------------------------------------------------------------
(* Classes and modules. A class is [name, parents, fields, constructor,    *)
(* methods], the constructor being none or one function.                   *)

Names(xs) == [i \in DOMAIN xs |-> Text_(xs[i])]

ClassStatements(body) ==
  IF ~IsSyntax(body, "class_compound_statement") THEN << body >>
  ELSE IF Inside(body) = << >> THEN << >>
  ELSE StatementsOf(Inside(body)[1], "class_statement_list", "class_statement_list1")

populate_class(x) ==
  LET head    == Second(First(x))
      parents == IF Leaf(head) THEN << >> ELSE CommaList(Second(Second(head)), "parent_class_list")
      body    == ClassStatements(Second(x))
      of(rule) == SelectSeq(body, LAMBDA s : s.rule = rule)
      fields(s) == Names(CommaList(Second(s), "identifier_list"))
      functions(rule, args) == [i \in DOMAIN of(rule) |-> populate_function_variant(of(rule)[i], args)]
  IN [name        |-> Text_(IF Leaf(head) THEN head ELSE First(head)),
      parents     |-> Names(parents),
      fields      |-> FlattenSeq([i \in DOMAIN of("field_statement") |-> fields(of("field_statement")[i])]),
      constructor |-> LET cs == functions("new_definition", "new_argument_list")
                      IN IF cs = << >> THEN << >> ELSE << Last(cs) >>,
      methods     |-> functions("method_definition", "function_argument_list")]

EmptyModule ==
  [name |-> << >>, imports |-> << >>, classes |-> << >>, functions |-> << >>, main |-> T("block", "", 0, << >>)]

(* One statement of a file goes where its kind belongs. A second name and  *)
(* an import as something else end the program.                            *)
populate_fi_statement(module, x) ==
  LET statement(t) == [module EXCEPT !.main.kids = Append(@, t)]
  IN CASE x.rule = "module_statement" /\ module.name = << >> ->
            [module EXCEPT !.name = << Text_(Second(x)) >>]
       [] x.rule = "import_statement" /\ Leaf(Second(x)) ->
            [module EXCEPT !.imports = Append(@, Text_(Second(x)))]
       [] x.rule = "class_definition" -> [module EXCEPT !.classes = Append(@, populate_class(x))]
       [] x.rule = "function_definition" ->
            [module EXCEPT !.functions =
               Append(@, populate_function_variant(x, "function_argument_list"))]
       [] OTHER -> statement(populate_expression(x))

populate_module_def(statements) == FoldLeft(populate_fi_statement, EmptyModule, statements)
=============================================================================
