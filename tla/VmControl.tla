----------------------------- MODULE VmControl -----------------------------
(***************************************************************************)
(* The control of one interpreter thread (vm/vm.c execute and catch_error, *)
(* threads/thread.c t_new_block, t_back, t_shift_ip): the current block,   *)
(* the saved blocks below it, and the operand stack that all blocks share. *)
(*                                                                         *)
(* A block is opened by a call (iter = FALSE, tok names the function) or   *)
(* by NBLK (iter = TRUE, tok names the statement). It keeps its own ip,    *)
(* the handler of a try ($try_goto, 0 for none), the ERROR_KEY mark, and   *)
(* the size the operand stack had when the block above it was opened. The  *)
(* stack holds the tokens of the instructions that pushed the operands;    *)
(* other data is left out, so a conditional jump and an instruction that   *)
(* may fail have both outcomes.                                            *)
(***************************************************************************)
EXTENDS Codegen, FiniteSetsExt

CONSTANTS
  Programs,   \* the modules (Codegen!Module) a behaviour may run
  Roots       \* where it starts: "main" or the name of a function

(* The code of a module, as the code generator leaves it, and the two      *)
(* functions of error.jl.                                                  *)
WellFormed(p) ==
  /\ Len(p.code) \in Nat /\ DOMAIN p.code = 1 .. Len(p.code)
  /\ \A i \in DOMAIN p.code :
       LET ins == p.code[i]
       IN /\ ins.op \in {"JMP", "IF", "IFN", "CTCH"} => ins.val \in Int
          /\ ins.op = "TUPL" => ins.val \in Nat
          /\ ins.op = "CALL" => ins.val \in {External, Nil} \cup DOMAIN p.entry
  /\ {"Error", "raise_error"} \subseteq DOMAIN p.entry
  /\ \A f \in DOMAIN p.entry : p.entry[f] \in Nat \ {0}

ASSUME VmControlAssumption == External # Nil /\ \A p \in Programs : WellFormed(p)

VARIABLES
  prog,       \* the program
  root,       \* the member of Roots the thread was started for
  t,          \* the Thread: block, saved, stack
  running     \* FALSE once the loop of thread_start has ended

vars == << prog, root, t, running >>

Block(ip, tok, iter) ==
  [ip |-> ip, tok |-> tok, iter |-> iter, goto |-> 0, err |-> FALSE, size |-> 0]

-----------------------------------------------------------------------------
(* Steps of the thread, as functions on its state.                         *)

Shift(s, n) == [s EXCEPT !.block.ip = @ + n]

TNewBlock(s, tok, iter) ==
  [s EXCEPT !.saved = Append(@, [s.block EXCEPT !.size = Len(s.stack)]),
            !.block = Block(s.block.ip, tok, iter)]

(* The loop that removes the accumulated stack compares its counter with   *)
(* the size it is shrinking, so it removes half of the excess, rounded up. *)
TBackKeepsStack(s) ==
  [s EXCEPT !.block = Last(s.saved), !.saved = Front(@)]
TBack(s) ==
  LET excess == Len(s.stack) - Last(s.saved).size
      popped == IF excess > 0 THEN (excess + 1) \div 2 ELSE 0
  IN [s EXCEPT !.block = Last(s.saved),
               !.saved = Front(@),
               !.stack = SubSeq(@, 1, Len(@) - popped)]

(* n blocks back.                                                          *)
Unwound(s, n) ==
  LET back[i \in 0..n] == IF i = 0 THEN s ELSE TBack(back[i - 1])
  IN back[n]

(* The callee's ip is one before its first instruction: the step that      *)
(* called ends with a shift.                                               *)
CallFn(s, f) ==
  [TNewBlock(s, f, FALSE) EXCEPT !.block.ip = prog.entry[f] - 1]

(* The error object is made by the class's constructor, a call like any    *)
(* other: the error is caught when the constructor has returned.           *)
ThrowError(s) == CallFn([s EXCEPT !.block.err = TRUE], "Error")

(* The blocks of the thread, the current one last.                         *)
Blocks(s) == Append(s.saved, s.block)

(* Back to the innermost block with a handler, or to the first block.      *)
CatchErrorIn(s, i) ==
  LET landed == Unwound(s, Len(s.saved) + 1 - i)
  IN IF landed.block.goto = 0
     THEN Shift(CallFn(landed, "raise_error"), 1)
     ELSE [landed EXCEPT !.block.ip = landed.block.goto, !.block.err = FALSE]
Handlers(s) == {i \in DOMAIN Blocks(s) : Blocks(s)[i].goto # 0}
CatchErrorOutermost(s) == CatchErrorIn(s, Min(Handlers(s) \cup {Len(s.saved) + 1}))
CatchError(s) == CatchErrorIn(s, Max(Handlers(s) \cup {1}))

(* The end of execute: catch an error of the current block, or go on.      *)
Finish(s) == IF s.block.err THEN CatchError(s) ELSE Shift(s, 1)

-----------------------------------------------------------------------------
(* thread_start: the thread's first block is under the root's own.         *)
Init ==
  /\ prog \in Programs
  /\ root \in {r \in Roots : r = "main" \/ r \in DOMAIN prog.entry}
  /\ running = TRUE
  /\ t = LET base == [block |-> Block(0, "base", FALSE), saved |-> << >>, stack |-> << >>]
             entry == IF root = "main" THEN 1 ELSE prog.entry[root]
         IN [TNewBlock(base, root, FALSE) EXCEPT !.block.ip = entry]

Ins == prog.code[t.block.ip]

At(op) == running /\ t.block.ip \in DOMAIN prog.code /\ Ins.op = op

Become(s) ==
  /\ t' = s
  /\ UNCHANGED << prog, root, running >>

Popped(s) == [s EXCEPT !.stack = Front(@)]

Plain == (At("OP") \/ At("RNIL")) /\ Become(Finish(t))

Get == At("GET") /\ (Become(Finish(t)) \/ Become(Finish(ThrowError(t))))

Push == At("PUSH") /\ Become(Finish([t EXCEPT !.stack = Append(@, Ins.tok)]))

Dup ==
  /\ At("DUP")
  /\ t.stack # << >>
  /\ Become(Finish([t EXCEPT !.stack = Append(@, Last(@))]))

(* An empty stack makes RES and CALL return without effect.                *)
Res == At("RES") /\ Become(Finish(IF t.stack = << >> THEN t ELSE Popped(t)))

Tupl ==
  /\ At("TUPL")
  /\ LET left == Len(t.stack) - Ins.val
     IN Become(Finish(IF left >= 0
                      THEN [t EXCEPT !.stack = SubSeq(@, 1, left)]
                      ELSE ThrowError([t EXCEPT !.stack = << >>])))

(* The operand on top is called; one that this call did not push is no     *)
(* function.                                                               *)
Called(s, f) ==
  CASE s.stack = << >>                        -> s
    [] s.stack # << >> /\ Last(s.stack) # Ins.tok -> ThrowError(Popped(s))
    [] OTHER ->
         CASE f = Nil      -> ThrowError(Popped(s))
           [] f = External -> Popped(s)
           [] OTHER        -> CallFn(Popped(s), f)
Call_ == At("CALL") /\ Become(Finish(Called(t, Ins.val)))

JmpAbsolute == At("JMP") /\ Become(Finish([t EXCEPT !.block.ip = Ins.val]))
Jmp == At("JMP") /\ Become(Finish(Shift(t, Ins.val)))

Branch ==
  /\ At("IF") \/ At("IFN")
  /\ Become(Finish(Shift(t, Ins.val))) \/ Become(Finish(t))

NBlk == At("NBLK") /\ Become(Finish(TNewBlock(t, Ins.tok, TRUE)))

(* The block below goes on where the closed one is.                        *)
BBlk == At("BBLK") /\ Become(Finish([TBack(t) EXCEPT !.block.ip = t.block.ip]))

(* RET closes the blocks of loops and tries, then the block of the call.   *)
LoopBlocks(s) ==
  LET bs == Blocks(s)
  IN Len(bs) - CHOOSE i \in DOMAIN bs :
                 /\ ~bs[i].iter
                 /\ \A j \in i + 1 .. Len(bs) : bs[j].iter
RetOne ==
  /\ At("RET")
  /\ t' = Finish(TBack(t))
  /\ running' = (t'.saved # << >>)
  /\ UNCHANGED << prog, root >>
Ret ==
  /\ At("RET")
  /\ t' = Finish(Unwound(t, LoopBlocks(t) + 1))
  /\ running' = (t'.saved # << >>)
  /\ UNCHANGED << prog, root >>

Ctch == At("CTCH") /\ Become(Finish([t EXCEPT !.block.goto = t.block.ip + Ins.val + 1]))

(* SET of $try_goto finds the variable in the scopes of the block: the    *)
(* innermost handler of this call is cleared.                              *)
ClearGotoLate == At("SETGOTO") /\ Become(Finish(t))
ClearGoto ==
  /\ At("SETGOTO")
  /\ LET bs  == Blocks(t)
         own == {i \in DOMAIN bs : bs[i].goto # 0 /\ \A j \in i + 1 .. Len(bs) : bs[j].iter}
         clear(i, b) == IF i \in own /\ \A j \in own : i >= j THEN [b EXCEPT !.goto = 0] ELSE b
     IN Become(Finish([t EXCEPT !.saved = [i \in DOMAIN @ |-> clear(i, @[i])],
                                !.block = clear(Len(bs), @)]))

(* RAIS catches within its own step, which then ends like any other.       *)
Rais == At("RAIS") /\ Become(Finish(CatchError([t EXCEPT !.block.err = TRUE])))

Exit_ ==
  /\ At("EXIT")
  /\ running' = FALSE
  /\ t' = Finish(t)
  /\ UNCHANGED << prog, root >>

Next ==
  \/ Plain \/ Get \/ Push \/ Dup \/ Res \/ Tupl
  \/ Call_
  \/ Jmp \/ Branch \/ NBlk \/ BBlk \/ Ret \/ Ctch \/ ClearGoto \/ Rais \/ Exit_

Spec == Init /\ [][Next]_vars

-----------------------------------------------------------------------------
(* What the statements of the source text say about a position in the code *)

Pos(code, op, tok) ==
  CHOOSE i \in DOMAIN code : code[i].op = op /\ code[i].tok = tok
Has(code, op, tok) ==
  \E i \in DOMAIN code : code[i].op = op /\ code[i].tok = tok

(* The loops and tries around a position, outermost first.                 *)
Enclosing(code, ip) ==
  LET opens == SelectSeq(SubSeq(code, 1, ip - 1),
                         LAMBDA c : c.op = "NBLK" /\ Pos(code, "BBLK", c.tok) >= ip)
  IN [k \in DOMAIN opens |-> opens[k].tok]

(* The try of statement tok is in force at a position.                     *)
InForce(code, tok, ip) ==
  /\ Has(code, "CTCH", tok)
  /\ Pos(code, "CTCH", tok) < ip
  /\ ip <= Pos(code, "SETGOTO", tok)

(* Both together: what a block of each of these statements should be.      *)
Scope(tok, inForce) == [tok |-> tok, inForce |-> inForce]
Scopes(code, ip) ==
  LET toks == Enclosing(code, ip)
  IN [k \in DOMAIN toks |-> Scope(toks[k], InForce(code, toks[k], ip))]

(* Code in which control stays with its statements: at an instruction that *)
(* begins or ends a statement or a try the scopes change by this one, and  *)
(* elsewhere an instruction leads to places in the same scopes; functions  *)
(* begin in none.                                                          *)
Straight == {"OP", "RNIL", "GET", "PUSH", "DUP", "RES", "TUPL", "CALL", "IF", "IFN", "EXIT"}
Jumping  == {"JMP", "IF", "IFN"}
Structured(p) ==
  LET In(i)   == Scopes(p.code, i)
      To(i)   == i + 1 + p.code[i].val
      Here(i, inForce) == Scope(p.code[i].tok, inForce)
      With(i, op) == i \in DOMAIN p.code /\ p.code[i].op = op
  IN /\ \A i \in {0, 1, p.entry["raise_error"] + 1} \cup {p.entry[f] : f \in DOMAIN p.entry} :
          In(i) = << >>
     /\ \A i \in DOMAIN p.code :
          LET op == p.code[i].op
          IN /\ op \in Straight => In(i + 1) = In(i)
             /\ op \in Jumping => To(i) \in Nat /\ In(To(i)) = In(i)
             /\ op = "NBLK" => In(i + 1) = Append(In(i), Here(i, FALSE))
             /\ op = "BBLK" => In(i) # << >> /\ In(i + 1) = Front(In(i))
             /\ op = "CTCH" =>
                  /\ To(i) \in DOMAIN p.code
                  /\ In(i) # << >> /\ Last(In(i)) = Here(i, FALSE)
                  /\ \A j \in {i + 1, To(i), To(i) + 1} :
                       In(j) = Append(Front(In(i)), Here(i, TRUE))
             /\ op = "SETGOTO" =>
                  /\ In(i) # << >> /\ Last(In(i)) = Here(i, TRUE)
                  /\ In(i + 1) = Append(Front(In(i)), Here(i, FALSE))

(* How many operands an instruction adds to the stack.                     *)
Effect(c) ==
  CASE c.op \in {"PUSH", "DUP"} -> 1
    [] c.op \in {"RES", "CALL"} -> -1
    [] c.op = "TUPL"            -> -c.val
    [] OTHER                    -> 0

(* The operands of the current block at each place: none when it is        *)
(* opened, and when the one above is closed those from before it. A        *)
(* handler may find one more, from the call that failed.                   *)
Places(code) == 1 .. Len(code) + 1
Fewest(code) ==
  LET fewest[i \in Places(code)] ==
        IF i = 1 THEN 0
        ELSE LET c == code[i - 1]
             IN CASE c.op = "NBLK" -> 0
                  [] c.op = "BBLK" -> fewest[Pos(code, "NBLK", c.tok)]
                  [] OTHER         -> fewest[i - 1] + Effect(c)
  IN fewest
InHandler(code, ip) ==
  LET toks == Enclosing(code, ip)
      c    == Pos(code, "CTCH", Last(toks))
  IN toks # << >> /\ Has(code, "CTCH", Last(toks)) /\ c + 1 + code[c].val <= ip
Most(code) ==
  LET fewest == Fewest(code)
  IN [i \in Places(code) |-> fewest[i] + (IF InHandler(code, i) THEN 1 ELSE 0)]

(* Code in which every way to a place brings a number of operands between  *)
(* these bounds, and in which a block has at most one where it may be      *)
(* closed, by the instruction or by an error: t_back removes no more.      *)
Balances(p, fewest, most) ==
  LET To(i)       == i + 1 + p.code[i].val
      Leads(i, n, j) == fewest[j] <= fewest[i] + n /\ most[i] + n <= most[j]
      Lands(j)    == fewest[j] = 0 /\ 1 <= most[j]
      Begins(j)   == j \in Places(p.code) /\ fewest[j] = 0
  IN /\ fewest \in [Places(p.code) -> Nat] /\ most \in [Places(p.code) -> Nat]
     /\ \A i \in {1, p.entry["raise_error"] + 1} \cup {p.entry[f] : f \in DOMAIN p.entry} :
          Begins(i)
     /\ \A i \in DOMAIN p.code :
          LET c == p.code[i]
          IN /\ c.op \in Straight \cup {"CTCH", "SETGOTO"} => Leads(i, Effect(c), i + 1)
             /\ c.op \in Jumping => To(i) \in Places(p.code) /\ Leads(i, 0, To(i))
             /\ c.op = "NBLK" =>
                  /\ Begins(i + 1)
                  /\ \A e \in DOMAIN p.code :
                       p.code[e].op = "BBLK" /\ p.code[e].tok = c.tok => Leads(i, 0, e + 1)
             /\ c.op = "BBLK" => Last(Scopes(p.code, i)).tok = c.tok
             /\ c.op = "CTCH" => Lands(To(i)) /\ Lands(To(i) + 1)
             /\ c.op \in {"GET", "NBLK", "BBLK", "RET", "RAIS"} => most[i] <= 1
             /\ c.op = "CALL" => most[i] - 1 <= 1
Balanced(p) == Balances(p, Fewest(p.code), Most(p.code))

-----------------------------------------------------------------------------

TypeOK ==
  /\ prog \in Programs
  /\ root \in Roots
  /\ running \in BOOLEAN
  /\ DOMAIN t = {"block", "saved", "stack"}
  /\ \A i \in DOMAIN Blocks(t) :
       LET b == Blocks(t)[i]
       IN b.ip \in Nat /\ b.err \in BOOLEAN /\ b.goto \in {0} \cup DOMAIN prog.code /\ b.size \in Nat

(* The open blocks of every call are the loops and tries that the source   *)
(* text puts around the place where the call is: no block is left open, or *)
(* closed for another, by a jump, a return or an exception.                *)
BlocksAreLexical ==
  LET bs == Blocks(t)
  IN \A i \in DOMAIN bs : \A j \in i..Len(bs) :
       (/\ ~bs[i].iter
        /\ \A k \in i + 1 .. j : bs[k].iter
        /\ (j = Len(bs) \/ ~bs[j + 1].iter))
       => [k \in 1 .. j - i |-> bs[i + k].tok] = Enclosing(prog.code, bs[j].ip)

(* A block has a handler exactly while control is in its try statement.    *)
HandlersAreLexical ==
  \A i \in DOMAIN Blocks(t) :
    LET b == Blocks(t)[i]
    IN b.iter => (b.goto # 0 <=> InForce(prog.code, b.tok, b.ip))

(* An open call is resumed, and a loop is left, with the operand stack as  *)
(* high as it was when the block above was opened (t_back: remove the      *)
(* accumulated stack).                                                     *)
StackRestored ==
  [][Len(t'.saved) < Len(t.saved) /\ t'.block.tok # "raise_error"
       => Len(t'.stack) = t'.block.size]_vars

(* The step that catches an error: RAIS, or the return of the constructor  *)
(* of an error into the block that failed.                                 *)
Catching ==
  \/ At("RAIS")
  \/ At("RET") /\ Unwound(t, LoopBlocks(t) + 1).block.err

(* An error goes to the innermost try around the place that failed, in the *)
(* failing call or the nearest caller that has one, and to raise_error     *)
(* when there is none: not to a try that was left, nor past one.           *)
NearestHandler ==
  [][Catching =>
       LET from    == IF At("RAIS") THEN t ELSE Unwound(t, LoopBlocks(t) + 1)
           bs      == Blocks(from)
           inForce == {i \in DOMAIN bs : bs[i].iter /\ InForce(prog.code, bs[i].tok, bs[i].ip)}
       IN IF inForce = {} THEN t'.block.tok = "raise_error"
          ELSE /\ \A i \in inForce : i <= Len(t'.saved) + 1
               /\ Len(t'.saved) + 1 \in inForce
               /\ InForce(prog.code, t'.block.tok, t'.block.ip)]_vars

(* After an error the first instruction of a handler is the assignment of  *)
(* the error: it is where the error is expected to be in the register.     *)
HandlerEntered ==
  [][Catching /\ t'.block.tok # "raise_error"
       => t'.block.ip = Pos(prog.code, "CTCH", t'.block.tok)
                          + prog.code[Pos(prog.code, "CTCH", t'.block.tok)].val + 3]_vars
=============================================================================
