------------------------------ MODULE Codegen ------------------------------
(***************************************************************************)
(* The instruction layouts that the statements of the language compile to  *)
(* (codegen/expressions/statements.c, loops.c, expression.c, files.c).     *)
(* Code is a sequence of instructions [op, par, val, tok]: par is the kind  *)
(* of parameter (no, val, id or str), and the token of the statement that  *)
(* produced it is kept with every instruction, as the code generator keeps *)
(* it, and names the statement.                                            *)
(*                                                                         *)
(* Expressions are abstracted to what they do to the operand stack and to  *)
(* the flow of control:                                                    *)
(*   OP     works on the result register only                              *)
(*   GET    the same, and may fail (a field of nil, a bad index)           *)
(*   PUSH   leaves an operand, named by the token of its instruction       *)
(*   CALL   takes an operand and calls it: val names a function of the     *)
(*          program, External, or Nil (which cannot be called)             *)
(* A jump of val v at position i continues at i + v + 1.                   *)
(***************************************************************************)
EXTENDS Integers, Sequences, SequencesExt

CONSTANTS External, Nil

I(op, val, tok) ==
  [op |-> op, val |-> val, tok |-> tok,
   par |-> IF op \in {"JMP", "IF", "IFN", "CTCH", "TUPL", "EXIT"} THEN "val" ELSE "no"]

Assign(tok) == << I("OP", 0, tok) >>
Field(tok)  == << I("GET", 0, tok) >>

(* A call with one argument leaves the argument in the register; with more *)
(* they are pushed, last to first, and gathered by TUPL.                   *)
Call(tok, f, args) ==
  LET n        == Len(args)
      Arg(i)   == args[n + 1 - i] \o << I("PUSH", 0, tok) >>
      gathered == FlattenSeq([i \in 1..n |-> Arg(i)])
                    \o << I("TUPL", n, tok) >>
  IN << I("PUSH", 0, tok) >>
       \o (IF n = 0 THEN << >> ELSE IF n = 1 THEN args[1] ELSE gathered)
       \o << I("CALL", f, tok) >>

Return(tok) == << I("RET", 0, tok) >>
Raise(tok)  == << I("OP", 0, tok), I("RAIS", 0, tok) >>
Exit(tok)   == << I("EXIT", 0, tok) >>

(* Signals that the loop around them replaces.                             *)
IntMax        == 2147483647
Break(tok)    == << I("JMP", 0, tok) >>
Continue(tok) == << I("JMP", IntMax, tok) >>

(* Every jump of a loop's body that carries one of the signals gets its    *)
(* distance: break behind the jump back, continue to what follows position *)
(* next of the body.                                                       *)
PatchJumps(body, next) ==
  [k \in DOMAIN body |->
     IF body[k].op # "JMP" THEN body[k]
     ELSE CASE body[k].val = 0      -> [body[k] EXCEPT !.val = Len(body) - k + 1]
            [] body[k].val = IntMax -> [body[k] EXCEPT !.val = next - k]
            [] OTHER                -> body[k]]

(* foreach x in e: the iterator stays on the stack while the loop runs. A  *)
(* loop has parts [iterable, iter, hasNext, next, body], the body with the *)
(* assignment to x.                                                        *)
ForeachBody(tok, parts) == << I("DUP", 0, tok) >> \o parts.next \o parts.body
ForeachOf(tok, parts) ==
  LET tmp == ForeachBody(tok, parts)
      n   == Len(tmp)
  IN << I("NBLK", 0, tok) >> \o parts.iterable
       \o << I("PUSH", 0, tok) >> \o parts.iter \o << I("PUSH", 0, tok) >>
       \o << I("DUP", 0, tok) >> \o parts.hasNext
       \o << I("IFN", n + 1, tok) >> \o PatchJumps(tmp, n)
       \o << I("JMP", -(n + 4), tok), I("RES", 0, tok), I("BBLK", 0, tok) >>

(* With the expressions of this module.                                    *)
ForeachParts(tok, stmts) ==
  LET call == << I("CALL", External, tok) >>
  IN [iterable |-> Assign(tok), iter |-> call, hasNext |-> call, next |-> call,
      body |-> Assign(tok) \o stmts]
Foreach(tok, stmts) == ForeachOf(tok, ForeachParts(tok, stmts))

(* for init, condition, increment.                                         *)
For(tok, init, cond, inc, stmts) ==
  LET n    == Len(stmts) + Len(inc)
      body == PatchJumps(stmts \o inc, Len(stmts))
  IN << I("NBLK", 0, tok) >> \o init \o cond
       \o << I("IFN", n + 1, tok) >> \o body
       \o << I("JMP", -(n + Len(cond) + 1), tok), I("BBLK", 0, tok) >>

While(tok, cond, stmts) ==
  LET n    == Len(stmts)
      body == PatchJumps(stmts, 0)
  IN << I("NBLK", 0, tok) >> \o cond
       \o << I("IFN", n + 1, tok) >> \o body
       \o << I("JMP", -(1 + Len(cond) + n + 1), tok), I("BBLK", 0, tok) >>

(* if / elif / else: the tests first, then the bodies from the last to the *)
(* first, then the else part. Conditions and bodies are sequences of code; *)
(* without an else part the first body falls through.                      *)
Total(codes, from, to) == Len(FlattenSeq(SubSeq(codes, from, to)))
IfElse(tok, conds, bodies, hasElse, else) ==
  LET n       == Len(conds)
      elseLen == IF hasElse THEN Len(else) ELSE -1
      Test(i) ==
        conds[i] \o
        (IF i = n
         THEN << I("IFN", Total(bodies, 1, n) + n + (IF hasElse THEN 0 ELSE -1), tok) >>
         ELSE << I("IF", Total(conds, i + 1, n) + Total(bodies, i + 1, n)
                           + 2 * (n - i), tok) >>)
      Body(i) ==
        bodies[i] \o
        (IF i > 1 \/ hasElse
         THEN << I("JMP", elseLen + Total(bodies, 1, i - 1) + i - 1, tok) >>
         ELSE << >>)
  IN FlattenSeq([i \in 1..n |-> Test(i)])
       \o FlattenSeq([i \in 1..n |-> Body(n + 1 - i)])
       \o (IF hasElse THEN else ELSE << >>)

(* try / catch: CTCH names the handler by its distance; reset is what      *)
(* forgets it.                                                             *)
TryCatch(tok, body, assign, handler, reset) ==
  << I("NBLK", 0, tok), I("CTCH", Len(body) - 1, tok) >> \o body
    \o << I("JMP", Len(handler) + Len(assign), tok) >>
    \o assign \o handler
    \o << I("RNIL", 0, tok) >> \o reset \o << I("BBLK", 0, tok) >>
Try(tok, body, assign, handler) ==
  TryCatch(tok, body, assign, handler, << I("SETGOTO", 0, tok) >>)

(* A module: its statements, EXIT, then its functions, each closed by RET. *)
(* entry gives the position of a function's first instruction.             *)
Module(main, names, bodies) ==
  LET fn(i)    == bodies[i] \o Return(names[i])
      fns      == [i \in DOMAIN names |-> fn(i)]
      start(i) == Len(main) + 2 + Total(fns, 1, i - 1)
  IN [code  |-> main \o Exit("module") \o FlattenSeq(fns),
      entry |-> [f \in {names[i] : i \in DOMAIN names} |->
                   start(CHOOSE i \in DOMAIN names : names[i] = f)]]
=============================================================================
