------------------------------ MODULE Grammar ------------------------------
(***************************************************************************)
(* The grammar of the language as data (codegen/syntax.c, the ImplSyntax   *)
(* rules): for each rule the expression that the parser matches. Order     *)
(* matters in an Or, and what an alternative matched before it failed is   *)
(* put back.                                                               *)
(*   Type(t)      a token of type t                                        *)
(*   And(es)      all of es, one behind the other                          *)
(*   Or(es)       the first of es that matches                             *)
(*   Opt(e)       e or nothing                                             *)
(*   Rule(r)      what the rule r matches                                  *)
(*   Ln(e)        e, and the end of the line if it is there                *)
(***************************************************************************)
EXTENDS Integers, Sequences

LOCAL INSTANCE TLC

Type(t)   == [op |-> "type", type |-> t]
And(es)   == [op |-> "and", of |-> es]
Or(es)    == [op |-> "or", of |-> es]
Opt(e)    == [op |-> "opt", of |-> e]
Epsilon   == [op |-> "epsilon"]
Rule(r)   == [op |-> "rule", name |-> r]
Ln(e)     == And(<< e, Opt(Type("ENDLINE")) >>)
TypeLn(t) == Ln(Type(t))

(* What most lists and chains of operators are: more of it, or nothing.    *)
OrNothing(e)      == Or(<< e, Epsilon >>)
Between(l, e, r)  == And(<< TypeLn(l), e, TypeLn(r) >>)
CommaAnd(e, more) == OrNothing(And(<< And(<< TypeLn("COMMA"), e >>), Rule(more) >>))
Operators(ts, operand) ==
  Or([i \in 1..Len(ts) |-> And(<< Type(ts[i]), Rule(operand) >>)] \o << Epsilon >>)
OneOf(rs)         == Or([i \in 1..Len(rs) |-> Rule(rs[i])])
Two(a, b)         == And(<< Rule(a), Rule(b) >>)

(* Operands: literals, collections, calls, indexes and fields.             *)
PrimaryRules ==
  [ identifier |-> Or(<< Type("WORD"), Type("CLASS"), Type("MODULE_T") >>),
    new_expression |-> Type("NEW"),
    constant |-> Or(<< Type("INTEGER"), Type("FLOATING") >>),
    string_literal |-> Type("STR"),
    array_declaration |->
      Or(<< And(<< Type("LBRAC"), Type("RBRAC") >>),
            And(<< Type("LBRAC"), Rule("tuple_expression"), Type("RBRAC") >>) >>),
    map_declaration_entry |->
      And(<< Rule("postfix_expression"), TypeLn("COLON"), Ln(Rule("postfix_expression")) >>),
    map_declaration_entry1 |->
      CommaAnd(Ln(Rule("map_declaration_entry")), "map_declaration_entry1"),
    map_declaration_list |-> Two("map_declaration_entry", "map_declaration_entry1"),
    map_declaration |->
      Or(<< And(<< TypeLn("LBRCE"), TypeLn("RBRCE") >>),
            Between("LBRCE", Ln(Rule("map_declaration_list")), "RBRCE") >>),
    length_expression |-> And(<< Type("PIPE"), Rule("tuple_expression"), Type("PIPE") >>),
    primary_expression |->
      Or(<< Rule("anon_function_definition"), Rule("identifier"), Rule("new_expression"),
            Rule("constant"), Rule("string_literal"), Rule("array_declaration"),
            Rule("map_declaration"), Rule("length_expression"),
            And(<< Type("LPAREN"), Rule("tuple_expression"), Type("RPAREN") >>) >>),
    primary_expression_no_constants |->
      OneOf(<< "anon_function_definition", "identifier", "string_literal",
               "array_declaration", "map_declaration" >>),
    postfix_expression1 |->
      Or(<< And(<< Type("LBRAC"), Rule("tuple_expression"), Type("RBRAC"),
                   Rule("postfix_expression1") >>),
            And(<< TypeLn("LPAREN"), TypeLn("RPAREN"), Rule("postfix_expression1") >>),
            And(<< TypeLn("LPAREN"), Rule("tuple_expression"), TypeLn("RPAREN"),
                   Rule("postfix_expression1") >>),
            And(<< Opt(Type("ENDLINE")), Type("PERIOD"),
                   OneOf(<< "identifier", "new_expression" >>), Rule("postfix_expression1") >>),
            Epsilon >>),
    postfix_expression |->
      Or(<< Two("primary_expression_no_constants", "postfix_expression1"),
            Rule("primary_expression") >>) ]

(* Operators, from the tightest to the loosest, and conditions.            *)
OperatorRules ==
  [ range_expression |->
      And(<< Rule("postfix_expression"),
             Opt(And(<< Type("COLON"), Rule("postfix_expression"),
                        Opt(And(<< Type("COLON"), Rule("postfix_expression") >>)) >>)) >>),
    unary_expression |->
      Or(<< And(<< Type("TILDE"), Rule("unary_expression") >>),
            And(<< Type("EXCLAIM"), Rule("unary_expression") >>),
            And(<< Type("MINUS"), Rule("unary_expression") >>),
            And(<< Type("CONST_T"), Rule("unary_expression") >>),
            Rule("range_expression") >>),
    multiplicative_expression1 |->
      Operators(<< "STAR", "FSLASH", "PERCENT" >>, "multiplicative_expression"),
    multiplicative_expression |-> Two("unary_expression", "multiplicative_expression1"),
    additive_expression1 |-> Operators(<< "PLUS", "MINUS" >>, "additive_expression"),
    additive_expression |-> Two("multiplicative_expression", "additive_expression1"),
    in_expression1 |->
      OrNothing(And(<< Or(<< Type("IN"), Type("NOTIN") >>), Rule("additive_expression"),
                       Rule("in_expression1") >>)),
    in_expression |-> Two("additive_expression", "in_expression1"),
    relational_expression1 |->
      Operators(<< "LTHAN", "GTHAN", "LTHANEQ", "GTHANEQ" >>, "relational_expression"),
    relational_expression |-> Two("in_expression", "relational_expression1"),
    equality_expression1 |-> Operators(<< "EQUIV", "NEQUIV" >>, "equality_expression"),
    equality_expression |-> Two("relational_expression", "equality_expression1"),
    and_expression1 |-> Operators(<< "AND_T" >>, "and_expression"),
    and_expression |-> Two("equality_expression", "and_expression1"),
    xor_expression1 |-> Operators(<< "CARET" >>, "xor_expression"),
    xor_expression |-> Two("and_expression", "xor_expression1"),
    or_expression1 |-> Operators(<< "OR_T" >>, "or_expression"),
    or_expression |-> Two("xor_expression", "or_expression1"),
    is_expression |->
      Or(<< And(<< Rule("or_expression"), TypeLn("IS_T"), Rule("or_expression") >>),
            Rule("or_expression") >>),
    conditional_expression |->
      Or(<< And(<< TypeLn("IF_T"), Ln(Rule("is_expression")), Opt(TypeLn("THEN")),
                   Ln(Rule("conditional_expression")), TypeLn("ELSE"),
                   Rule("conditional_expression") >>),
            And(<< TypeLn("IF_T"), Ln(Rule("is_expression")), Opt(TypeLn("THEN")),
                   Rule("conditional_expression") >>),
            Rule("is_expression") >>) ]

(* Assignments and what can stand on their left, and tuples.               *)
AssignmentRules ==
  [ const_assignment_expression |-> And(<< TypeLn("CONST_T"), Rule("identifier") >>),
    array_index_assignment |-> Between("LBRAC", Rule("tuple_expression"), "RBRAC"),
    function_call_args |->
      Or(<< And(<< TypeLn("LPAREN"), TypeLn("RPAREN") >>),
            Between("LPAREN", Rule("tuple_expression"), "RPAREN") >>),
    field_extension |->
      Or(<< Rule("array_index_assignment"), Rule("function_call_args"), Epsilon >>),
    field_set_value |-> And(<< Type("PERIOD"), Rule("identifier") >>),
    field_suffix |-> OneOf(<< "field_set_value", "array_index_assignment" >>),
    field_next |-> Two("field_suffix", "field_expression1"),
    field_expression1 |->
      Or(<< Two("field_extension", "field_next"), Rule("field_next"), Epsilon >>),
    field_expression |-> Two("identifier", "field_expression1"),
    assignment_lhs_single |-> OneOf(<< "const_assignment_expression", "field_expression" >>),
    assignment_tuple_list1 |-> CommaAnd(Rule("assignment_lhs"), "assignment_tuple_list1"),
    assignment_tuple_list |-> Two("assignment_lhs", "assignment_tuple_list1"),
    assignment_tuple |-> Between("LPAREN", Rule("assignment_tuple_list"), "RPAREN"),
    assignment_array |-> Between("LBRAC", Rule("assignment_tuple_list"), "RBRAC"),
    assignment_lhs |->
      OneOf(<< "assignment_tuple", "assignment_array", "assignment_lhs_single" >>),
    assignment_expression |->
      Or(<< And(<< Rule("assignment_lhs"), TypeLn("EQUALS"), Rule("conditional_expression") >>),
            Rule("conditional_expression") >>),
    tuple_expression1 |->
      OrNothing(And(<< TypeLn("COMMA"), Rule("assignment_expression"),
                       Rule("tuple_expression1") >>)),
    tuple_expression |-> Two("assignment_expression", "tuple_expression1") ]

ForeachHead ==
  And(<< Rule("assignment_lhs"), TypeLn("IN"), Rule("conditional_expression") >>)
ForHead ==
  And(<< Rule("assignment_expression"), TypeLn("COMMA"), Rule("conditional_expression"),
         TypeLn("COMMA"), Ln(Rule("assignment_expression")) >>)
Loop(head) ==
  And(<< And(<< TypeLn("FOR"), Or(<< Between("LPAREN", head, "RPAREN"), head >>) >>),
         Rule("statement") >>)
TryCatch ==
  And(<< And(<< TypeLn("TRY"), Ln(Rule("statement")),
                And(<< TypeLn("CATCH"), Rule("catch_assign") >>) >>), Ln(Rule("statement")) >>)

StatementRules ==
  [ expression_statement |-> Ln(Rule("tuple_expression")),
    foreach_statement |-> Loop(ForeachHead),
    for_statement |-> Loop(ForHead),
    while_statement |->
      And(<< And(<< TypeLn("WHILE"), Ln(Rule("conditional_expression")) >>), Rule("statement") >>),
    iteration_statement |-> OneOf(<< "while_statement", "foreach_statement", "for_statement" >>),
    compound_statement |->
      Or(<< And(<< TypeLn("LBRCE"), TypeLn("RBRCE") >>),
            Between("LBRCE", Ln(Rule("statement_list")), "RBRCE") >>),
    selection_statement |->
      And(<< Type("IF_T"), Ln(Rule("tuple_expression")), Ln(Rule("statement")),
             Opt(And(<< TypeLn("ELSE"), Rule("statement") >>)) >>),
    exit_statement |-> TypeLn("EXIT_T"),
    raise_statement |-> And(<< TypeLn("RAISE"), Ln(Rule("assignment_expression")) >>),
    catch_assign |->
      Or(<< Between("LPAREN", Rule("assignment_lhs"), "RPAREN"), Rule("assignment_lhs") >>),
    try_statement |-> Or(<< TryCatch, TryCatch >>),
    jump_statement |->
      Or(<< And(<< Type("RETURN"), TypeLn("LPAREN"), Rule("tuple_expression"), TypeLn("RPAREN") >>),
            And(<< Type("RETURN"), Rule("tuple_expression") >>),
            Type("RETURN") >>),
    break_statement |-> And(<< Or(<< Type("BREAK"), Type("CONTINUE") >>), Type("ENDLINE") >>) ]

(* Functions, methods, constructors and anonymous functions differ in the  *)
(* names of their rules and in what a parameter can be.                    *)
FunctionRules ==
  [ function_arg_default_value |-> And(<< TypeLn("EQUALS"), Rule("conditional_expression") >>),
    function_arg_elt_with_default |-> Two("identifier", "function_arg_default_value"),
    function_arg_elt |-> OneOf(<< "function_arg_elt_with_default", "identifier" >>),
    const_function_argument |-> And(<< TypeLn("CONST_T"), Rule("function_arg_elt") >>),
    function_argument |-> OneOf(<< "const_function_argument", "function_arg_elt" >>),
    function_argument_list1 |-> CommaAnd(Rule("function_argument"), "function_argument_list1"),
    function_argument_list |-> Two("function_argument", "function_argument_list1"),
    function_arguments_present |-> Between("LPAREN", Rule("function_argument_list"), "RPAREN"),
    function_arguments_no_args |-> And(<< TypeLn("LPAREN"), TypeLn("RPAREN") >>),
    function_arguments |->
      OneOf(<< "function_arguments_present", "function_arguments_no_args" >>),
    def_identifier |-> And(<< Type("DEF"), Rule("identifier") >>),
    function_signature_nonconst |-> Two("def_identifier", "function_arguments"),
    function_signature_const |->
      And(<< Rule("function_signature_nonconst"), TypeLn("CONST_T") >>),
    function_signature |->
      OneOf(<< "function_signature_const", "function_signature_nonconst" >>),
    function_definition |-> Two("function_signature", "statement") ]

MethodRules ==
  [ method_identifier |-> And(<< Type("METHOD"), Rule("identifier") >>),
    method_signature_nonconst |-> Two("method_identifier", "function_arguments"),
    method_signature_const |-> And(<< Rule("method_signature_nonconst"), TypeLn("CONST_T") >>),
    method_signature |-> OneOf(<< "method_signature_const", "method_signature_nonconst" >>),
    method_definition |-> Two("method_signature", "statement") ]

ConstructorRules ==
  [ new_arg_var |-> OneOf(<< "new_field_arg", "identifier" >>),
    new_field_arg |-> And(<< TypeLn("FIELD"), Rule("identifier") >>),
    new_arg_default_value |-> And(<< TypeLn("EQUALS"), Rule("conditional_expression") >>),
    new_arg_elt_with_default |-> Two("new_arg_var", "new_arg_default_value"),
    new_arg_elt |-> OneOf(<< "new_arg_elt_with_default", "new_arg_var" >>),
    const_new_argument |-> And(<< TypeLn("CONST_T"), Rule("new_arg_elt") >>),
    new_argument |-> OneOf(<< "const_new_argument", "new_arg_elt" >>),
    new_argument_list1 |-> CommaAnd(Rule("new_argument"), "new_argument_list1"),
    new_argument_list |-> Two("new_argument", "new_argument_list1"),
    new_arguments_present |-> Between("LPAREN", Rule("new_argument_list"), "RPAREN"),
    new_arguments_no_args |-> And(<< TypeLn("LPAREN"), TypeLn("RPAREN") >>),
    new_arguments |-> OneOf(<< "new_arguments_present", "new_arguments_no_args" >>),
    new_identifier |-> Rule("new_expression"),
    new_signature_nonconst |-> Two("new_identifier", "new_arguments"),
    new_signature_const |-> And(<< Rule("new_signature_nonconst"), TypeLn("CONST_T") >>),
    new_signature |-> OneOf(<< "new_signature_const", "new_signature_nonconst" >>),
    new_definition |-> Two("new_signature", "statement") ]

AnonymousRules ==
  [ anon_signature_nonconst |-> Rule("function_arguments"),
    anon_signature_const |-> And(<< Rule("anon_signature_nonconst"), TypeLn("CONST_T") >>),
    anon_signature |-> OneOf(<< "anon_signature_const", "anon_signature_nonconst" >>),
    anon_function_lambda_lhs |-> OneOf(<< "anon_signature", "identifier" >>),
    anon_function_lambda_rhs |-> And(<< TypeLn("RARROW"), Rule("assignment_expression") >>),
    anon_function_definition |->
      Or(<< Two("anon_function_lambda_lhs", "anon_function_lambda_rhs"),
            Two("anon_signature", "compound_statement") >>) ]

ClassRules ==
  [ identifier_list1 |-> CommaAnd(Rule("identifier"), "identifier_list1"),
    identifier_list |-> Two("identifier", "identifier_list1"),
    field_statement |-> And(<< TypeLn("FIELD"), Rule("identifier_list") >>),
    class_statement |-> Ln(OneOf(<< "new_definition", "field_statement", "method_definition" >>)),
    class_statement_list1 |->
      OrNothing(And(<< Ln(Rule("class_statement")), Rule("class_statement_list1") >>)),
    class_statement_list |->
      And(<< Ln(Rule("class_statement")), Rule("class_statement_list1") >>),
    parent_class_list1 |-> CommaAnd(Ln(Rule("identifier")), "parent_class_list1"),
    parent_class_list |-> And(<< Ln(Rule("identifier")), Rule("parent_class_list1") >>),
    parent_classes |-> And(<< TypeLn("COLON"), Rule("parent_class_list") >>),
    class_compound_statement |->
      Or(<< And(<< TypeLn("LBRCE"), TypeLn("RBRCE") >>),
            Between("LBRCE", Ln(Rule("class_statement_list")), "RBRCE") >>),
    class_name_and_inheritance |->
      And(<< Ln(Rule("identifier")), Opt(Rule("parent_classes")) >>),
    class_definition |->
      And(<< And(<< Type("CLASS"), Rule("class_name_and_inheritance") >>),
             Or(<< Rule("class_compound_statement"), Ln(Rule("class_statement")) >>) >>) ]

FileRules ==
  [ import_statement |->
      Or(<< And(<< Type("IMPORT"), Rule("identifier"), Type("AS"), Rule("identifier"),
                   Type("ENDLINE") >>),
            And(<< Type("IMPORT"), Rule("identifier"), Type("ENDLINE") >>) >>),
    module_statement |-> And(<< Type("MODULE_T"), Rule("identifier"), Type("ENDLINE") >>),
    statement |->
      OneOf(<< "exit_statement", "raise_statement", "try_statement", "selection_statement",
               "compound_statement", "iteration_statement", "jump_statement",
               "break_statement", "expression_statement" >>),
    file_level_statement |->
      OneOf(<< "module_statement", "import_statement", "class_definition",
               "function_definition", "statement" >>),
    file_level_statement_list1 |->
      OrNothing(Two("file_level_statement", "file_level_statement_list1")),
    file_level_statement_list |-> Two("file_level_statement", "file_level_statement_list1"),
    statement_list1 |-> OrNothing(Two("statement", "statement_list1")),
    statement_list |-> Two("statement", "statement_list1") ]

Rules ==
  PrimaryRules @@ OperatorRules @@ AssignmentRules @@ StatementRules @@ FunctionRules
    @@ MethodRules @@ ConstructorRules @@ AnonymousRules @@ ClassRules @@ FileRules
=============================================================================
