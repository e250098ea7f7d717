---------------------------- MODULE MCVmControl ----------------------------
(***************************************************************************)
(* Programs for TLC. Every program has the two functions of lib/error.jl   *)
(* that the interpreter itself calls: the constructor of Error and         *)
(* raise_error, which ends the program.                                    *)
(***************************************************************************)
EXTENDS VmControl

Link(main, names, bodies) ==
  Module(main,
         << "Error", "raise_error" >> \o names,
         << Assign("ctor"), Assign("bind") \o Exit("exit") >> \o bodies)

If(tok, stmts) == IfElse(tok, << Assign(tok) >>, << stmts >>, FALSE, << >>)
IfOr(tok, stmts, else) == IfElse(tok, << Assign(tok) >>, << stmts >>, TRUE, else)
ForSimple(tok, stmts) == For(tok, Assign("i"), Assign("c"), Assign("j"), stmts)

(* Loops of every kind, left by break, continue and return from inside     *)
(* other loops, in a function that a loop calls.                           *)
Loops ==
  Link(Foreach("m", Call("g", "search", << Assign("a") >>)),
       << "search" >>,
       << Foreach("f1",
            If("i1", Continue("c1")) \o
            Foreach("f2",
              If("i2", Break("b1")) \o
              IfOr("i3", Return("r1"), Assign("s1"))) \o
            ForSimple("f3",
              If("i4", Continue("c2")) \o If("i5", Break("b2")) \o
              While("w1", Assign("t1"),
                If("i6", Return("r2")) \o If("i7", Break("b3")) \o Assign("s2")) \o
              Call("p", External, << Assign("a1"), Assign("a2") >>)) \o
            IfElse("i8", << Assign("t2"), Assign("t3"), Assign("t4") >>,
                   << Assign("s4"), Break("b4"), Assign("s5") >>, TRUE, Assign("s6"))) >>)

(* Tries in loops, in each other and around calls; errors that are raised, *)
(* and errors of the interpreter; a return out of a try in a loop.         *)
Tries ==
  Link(Foreach("m",
         Try("y1", Call("g", "visit", << Call("h", "pick", << >>) >>) \o Assign("s1"),
             Assign("e1"), Assign("k1")) \o Assign("s2")),
       << "visit", "pick" >>,
       << Foreach("f1",
            Try("y2",
                Try("y3", If("i1", Raise("x1")) \o Field("d1") \o Assign("s3"),
                    Assign("e2"), Raise("x2")) \o
                If("i2", Return("r1")) \o
                Call("q", "pick", << >>) \o Assign("s4"),
                Assign("e3"), Return("r2")) \o
            If("i3", Raise("x3"))),
          ForSimple("f2", If("i4", Raise("x4")) \o If("i5", Return("r3")) \o Assign("s5")) \o
          Call("n", Nil, << >>) >>)

(* An error of the interpreter that nobody catches, below loops and calls. *)
Uncaught ==
  Link(Foreach("m", Call("g", "deep", << Assign("a") >>)),
       << "deep" >>,
       << While("w1", Assign("t1"), Field("d1") \o Call("p", External, << Assign("b") >>)) >>)

(* Every program of two statements in each other, loops or tries, with a   *)
(* leaf in each, that calls a function with a loop of its own. A leaf      *)
(* jumps only out of a loop it is directly in, and raises only under a     *)
(* try; every body ends in an assignment: see the README for the programs  *)
(* that this leaves out and what the code does with them.                  *)
Wrap(w, tok, tok2, body) ==
  CASE w = "foreach" -> Foreach(tok, body)
    [] w = "for"     -> ForSimple(tok, body)
    [] w = "while"   -> While(tok, Assign(tok2), body)
    [] w = "try"     -> Try(tok, body, Assign(tok2), Assign(tok2))
Leaf(l, tok, tok2) ==
  CASE l = "field"    -> Field(tok)
    [] l = "break"    -> If(tok, Break(tok2))
    [] l = "continue" -> If(tok, Continue(tok2))
    [] l = "return"   -> If(tok, Return(tok2))
    [] l = "raise"    -> If(tok, Raise(tok2))
    [] l = "call"     -> Call(tok, "f", << Assign(tok) >>)

Wraps  == {"foreach", "for", "while", "try"}
Leaves == {"field", "break", "continue", "return", "raise", "call"}
Fits(w, l, raises) ==
  /\ l = "break" => w # "try"
  /\ l = "continue" => w \in {"foreach", "for"}
  /\ l = "raise" => raises
Nested(w1, l1, w2, l2, l3) ==
  Link(Call("z", "g", << >>),
       << "g", "f" >>,
       << Wrap(w1, "a", "a2",
               Leaf(l1, "p", "p2")
               \o Wrap(w2, "b", "b2", Leaf(l2, "q", "q2") \o Assign("q3"))
               \o Leaf(l3, "r", "r2") \o Assign("r3")),
          Foreach("c", Field("d1") \o If("d2", Return("d3"))) >>)
Family ==
  {Nested(c[1], c[2], c[3], c[4], c[5]) :
     c \in {d \in Wraps \X Leaves \X Wraps \X Leaves \X Leaves :
              /\ Fits(d[1], d[2], d[1] = "try")
              /\ Fits(d[3], d[4], "try" \in {d[1], d[3]})
              /\ Fits(d[1], d[5], d[1] = "try")}}

PassingPrograms == {Loops, Tries, Uncaught} \cup Family

(* try { f() } catch: an error whose handler should run.                   *)
CatchPrograms ==
  {Link(Foreach("m", Try("y1", Call("g", "f", << >>) \o Assign("s1"), Assign("e1"), Assign("k1"))),
        << "f" >>, << If("i1", Raise("x1")) >>)}

(* The layouts of the statements give structured and balanced code, in     *)
(* these programs.                                                         *)
ASSUME AllStructured == \A p \in Programs : Structured(p)
ASSUME AllBalanced == \A p \in Programs : Balanced(p)

(* foreach { try { h(g(x.d)) } catch }, which is not balanced: where the   *)
(* field fails, the block of the try has the operands of two calls. With   *)
(* it for Programs, TLC finds StackRestored violated.                      *)
Leftover ==
  Link(Foreach("m",
         Try("y1", Call("h", "f", << Call("g", "f", << Field("d") >>) >>) \o Assign("s1"),
             Assign("e1"), Assign("k1"))),
       << "f" >>, << Assign("s2") >>)
ASSUME NotAllIsBalanced == Structured(Leftover) /\ ~Balanced(Leftover)
=============================================================================
