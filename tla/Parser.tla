------------------------------- MODULE Parser -------------------------------
(***************************************************************************)
(* The parser (codegen/parse.c, the combinators of codegen/syntax.c): it   *)
(* matches the rules of the grammar with back-tracking, reading a line     *)
(* when it has no token left. A syntax tree is                             *)
(*   [matched, tok, kids, rule]   tok: no token or one, kids: no trees or  *)
(*                                two, rule: the first rule it matched     *)
(* A merged tree never keeps an end of line: a tree that is put back gives *)
(* its tokens back without those.                                          *)
(***************************************************************************)
EXTENDS Tokenizer, Grammar

Tree(matched, tok, kids) == [matched |-> matched, tok |-> tok, kids |-> kids, rule |-> ""]
no_match      == Tree(FALSE, << >>, << >>)
match_epsilon == Tree(TRUE, << >>, << >>)

is_epsilon(x) == x.matched /\ x.tok = << >> /\ x.kids = << >>
is_newline(x) == x.matched /\ x.tok # << >> /\ x.tok[1].type = "ENDLINE"

(* The tokens of a tree in the order of the text.                          *)
RECURSIVE Leaves(_), Rollback(_, _)
Leaves(x) == x.tok \o FlattenSeq([i \in DOMAIN x.kids |-> Leaves(x.kids[i])])

(* A tree's tokens go back to the front of the queue, the last one first.  *)
RollbackFirstFirst(x, queue) ==
  x.tok \o (IF x.kids = << >> THEN queue ELSE Rollback(x.kids[2], Rollback(x.kids[1], queue)))
Rollback(x, queue) ==
  x.tok \o (IF x.kids = << >> THEN queue ELSE Rollback(x.kids[1], Rollback(x.kids[2], queue)))

(* What has been matched, and the tokenizer behind it.                     *)
Matching(x, s) == [tree |-> x, s |-> s]
Failing(x, s)  == Matching(no_match, [s EXCEPT !.queue = Rollback(x, @)])

match_merge(parent, child, s) ==
  CASE ~child.matched     -> Failing(parent, s)
    [] is_epsilon(child)  -> Matching(parent, s)
    [] is_epsilon(parent) -> Matching(child, s)
    [] is_newline(child)  -> Matching(parent, s)
    [] is_newline(parent) -> Matching(child, s)
    [] OTHER              -> Matching(Tree(TRUE, << >>, << parent, child >>), s)

(* parser_next: lines are read until there is a token or no line left.     *)
RECURSIVE Filled(_, _)
Filled(lines, s) ==
  IF s.queue # << >> \/ s.read = Len(lines) THEN s ELSE Filled(lines, TokenizeLine(lines, s))

(* The tree of an expression that is all of a rule, unless a rule within   *)
(* it has given it a name.                                                 *)
Named(x, rule) == [x EXCEPT !.tree.rule = IF @ = "" THEN rule ELSE @]

Body(e)       == IF e.op = "rule" THEN Rules[e.name] ELSE e
NameOf(e, rule) == IF e.op = "rule" THEN e.name ELSE rule

RECURSIVE Match(_, _, _, _)
Match(lines, x, s, outer) ==
  LET e    == Body(x)
      rule == NameOf(x, outer)
  IN CASE e.op = "and" ->
            LET first == Match(lines, Head(e.of), s, "")
            IN IF ~first.tree.matched \/ Len(e.of) = 1 THEN first
               ELSE LET rest == Match(lines, And(Tail(e.of)), first.s, "")
                    IN Named(match_merge(first.tree, rest.tree, rest.s), rule)
       [] e.op = "or" ->
            IF Len(e.of) = 1 THEN Match(lines, e.of[1], s, rule)
            ELSE LET before == Match(lines, Or(Front(e.of)), s, rule)
                 IN IF before.tree.matched THEN before
                    ELSE Match(lines, Last(e.of), before.s, rule)
       [] e.op = "rule" -> Match(lines, e, s, rule)
       [] e.op = "opt"  -> 
            LET found == Match(lines, e.of, s, rule)
            IN IF found.tree.matched THEN found ELSE Matching(match_epsilon, found.s)
       [] e.op = "epsilon" -> Matching(match_epsilon, s)
       [] e.op = "type" ->
            LET f == Filled(lines, s)
            IN IF f.queue = << >> \/ Head(f.queue).type # e.type THEN Matching(no_match, f)
               ELSE Named(Matching(Tree(TRUE, << Head(f.queue) >>, << >>),
                                   [f EXCEPT !.queue = Tail(@)]), rule)

(* A file: its tree, and the tokenizer with what could not be parsed.      *)
parse_file(lines) == Match(lines, Rule("file_level_statement_list"), Opened, "")
=============================================================================
