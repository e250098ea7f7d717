-------------------------------- MODULE Tape --------------------------------
(***************************************************************************)
(* A module's code (program/tape.c). A tape is a record of                 *)
(*   module    no name or one                                              *)
(*   code      instructions [op, par, val, tok]                            *)
(*   entry     for each function the position of its first instruction     *)
(*   classes   for each class [start, end, parents, methods]: the position *)
(*             of its first instruction, that behind its last one (0: not  *)
(*             known), and methods as entry                                *)
(*   names     of functions, methods and classes, in the order of writing  *)
(*   open      the classes that are being written, the inner one first     *)
(* It is written in the order of its text, pieces of code and marks: by    *)
(* the code generator, by the optimizer after each pass, by the reader of  *)
(* a file.                                                                 *)
(***************************************************************************)
EXTENDS Integers, Sequences, SequencesExt

LOCAL INSTANCE TLC

EmptyTape == [module |-> << >>, code |-> << >>, entry |-> << >>, classes |-> << >>,
              names |-> << >>, open |-> << >>]

(* tape_modulename: a module without a name is called $.                   *)
ModuleName(tape) == IF tape.module = << >> THEN "$" ELSE tape.module[1]

CodeMark(code)         == [mark |-> "code", code |-> code]
LabelMark(x)           == [mark |-> "label", name |-> x]
ClassMark(x, parents)  == [mark |-> "class", name |-> x, parents |-> parents]
EndClassMark           == [mark |-> "endclass"]

NoClass == [start |-> 0, end |-> 0, parents |-> << >>, methods |-> << >>]
ClassOf(tape, x) == IF x \in DOMAIN tape.classes THEN tape.classes[x] ELSE NoClass

(* A label within a class is a method; the end of a class is that of the   *)
(* inner one, if any is open.                                              *)
Write(tape, m) ==
  LET next == Len(tape.code) + 1
      last == Head(tape.open)
  IN CASE m.mark = "code" -> [tape EXCEPT !.code = @ \o m.code]
       [] m.mark = "label" ->
            LET named == [tape EXCEPT !.names = Append(@, m.name)]
            IN IF tape.open = << >> THEN [named EXCEPT !.entry = m.name :> next @@ @]
               ELSE [named EXCEPT !.classes[last].methods = m.name :> next @@ @]
       [] m.mark = "class" ->
            LET class == [ClassOf(tape, m.name) EXCEPT !.start = next, !.methods = << >>,
                            !.parents = IF m.parents = << >> THEN @ ELSE m.parents]
            IN [tape EXCEPT !.classes = m.name :> class @@ @, !.open = << m.name >> \o @,
                            !.names = Append(@, m.name)]
       [] m.mark = "endclass" ->
            IF tape.open = << >> THEN tape
            ELSE [tape EXCEPT !.classes[last].end = next, !.open = Tail(@)]

Written(module, marks) == FoldLeft(Write, [EmptyTape EXCEPT !.module = module], marks)

-----------------------------------------------------------------------------
(* A tape is read by position: at each one the end of a class, the start   *)
(* of one and a label, in this order, and of several of a kind the one     *)
(* that was written first.                                                 *)

IsAt(positions, x, i) == x \in DOMAIN positions /\ positions[x] = i
LabelsAt(tape, i) ==
  SelectSeq(tape.names, LAMBDA x :
    IsAt(tape.entry, x, i) \/ \E c \in DOMAIN tape.classes : IsAt(tape.classes[c].methods, x, i))
StartsAt(tape, i) ==
  SelectSeq(tape.names, LAMBDA c : c \in DOMAIN tape.classes /\ tape.classes[c].start = i)
EndsAt(tape, i) == {c \in DOMAIN tape.classes : tape.classes[c].end = i}

FirstOf(names, Mark(_)) == IF names = << >> THEN << >> ELSE << Mark(Head(names)) >>
MarksAt(tape, i) ==
  (IF EndsAt(tape, i) = {} THEN << >> ELSE << EndClassMark >>)
    \o FirstOf(StartsAt(tape, i), LAMBDA c : ClassMark(c, tape.classes[c].parents))
    \o FirstOf(LabelsAt(tape, i), LabelMark)

(* 1..n in pieces [first, last] that begin at 1 and at each of starts.     *)
Spans(n, starts) ==
  LET s == SelectSeq([i \in 1..n |-> i], LAMBDA i : i = 1 \/ i \in starts)
  IN [k \in DOMAIN s |-> [first |-> s[k], last |-> IF k = Len(s) THEN n ELSE s[k + 1] - 1]]

(* The code of a tape, in pieces that begin where there are marks, and the *)
(* marks with the code of each piece.                                      *)
Pieces(tape) ==
  Spans(Len(tape.code), {i \in DOMAIN tape.code : MarksAt(tape, i) # << >>})
Marks(tape, codes) ==
  LET spans == Pieces(tape)
  IN FlattenSeq([k \in DOMAIN spans |->
       MarksAt(tape, spans[k].first) \o << CodeMark(codes[k]) >>])
=============================================================================
