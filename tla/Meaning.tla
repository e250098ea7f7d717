------------------------------ MODULE Meaning ------------------------------
(***************************************************************************)
(* What a program of the language does, read off its syntax tree: the      *)
(* reference for the compiled code. Ev(m, t, s) is the state after the     *)
(* expression or statement t of module m, with its value in s.res; status  *)
(* is "return" while a call is being left, "break" or "continue" while the *)
(* body of a loop is. vals are the values of the last list evaluated.      *)
(*                                                                         *)
(* The members of a tuple or an array are evaluated from the last to the   *)
(* first, a collection before what is looked for in it, the value of an    *)
(* assignment before its targets.                                          *)
(***************************************************************************)
EXTENDS Values

RECURSIVE Ev(_, _, _), EvList(_, _, _), EvSuffixes(_, _, _), EvTests(_, _, _),
          EvLoop(_, _, _), EvTarget(_, _, _), EvTargets(_, _, _, _, _), EvEntries(_, _, _, _),
          EvParameters(_, _, _, _, _), EvCall(_, _, _, _), EvChain(_, _, _), EvAnyOf(_, _, _, _)

Going(s) == s.status = "ok"

EvList(m, ts, s) ==
  IF ts = << >> THEN [s EXCEPT !.vals = << >>]
  ELSE LET first == Ev(m, Head(ts), s)
           rest  == EvList(m, Tail(ts), first)
       IN [rest EXCEPT !.vals = << first.res >> \o @]

(* The values of a list evaluated from its end.                            *)
EvMembers(m, ts, s) == LET r == EvList(m, Reverse(ts), s) IN [r EXCEPT !.vals = Reverse(@)]

EvChain(m, ts, s) ==
  IF ts = << >> \/ ~Going(s) THEN s
  ELSE LET r == Ev(m, Head(ts).kids[1], s)
       IN EvChain(m, Tail(ts), IF Going(r) THEN Compute(r, Head(ts).name, s.res, r.res) ELSE r)

(* The first operand whose truth is stop, or the last one.                 *)
EvAnyOf(m, ts, s, stop) ==
  LET r == Ev(m, Head(ts), s)
  IN IF Tail(ts) = << >> \/ ~Going(r) \/ (r.res # Nil) = stop THEN r
     ELSE EvAnyOf(m, Tail(ts), r, stop)

EvSuffixes(m, ss, s) ==
  IF ss = << >> \/ ~Going(s) THEN s
  ELSE LET x      == Head(ss)
           method == x.kind = "field" /\ Len(ss) > 1 /\ ss[2].kind = "fncall"
           given(call) == IF call.kids = << >> THEN Result(s, Tuple(<< >>)) ELSE Ev(m, call.kids[1], s)
           r == CASE method          -> LET a == given(ss[2])
                                        IN IF Going(a) THEN CallMethod(a, s.res, x.name, a.res) ELSE a
                  [] x.kind = "fncall" -> LET a == given(x)
                                        IN IF Going(a) THEN EvCall(m, s.res, a.res, a) ELSE a
                  [] x.kind = "index"  -> LET i == Ev(m, x.kids[1], s)
                                        IN IF Going(i) THEN GetItem(i, s.res, i.res) ELSE i
                  [] OTHER             -> GetField(s, s.res, x.name)
       IN EvSuffixes(m, IF method THEN Tail(Tail(ss)) ELSE Tail(ss), r)

EvTests(m, ts, s) ==
  CASE ts = << >>   -> s
    [] Len(ts) = 1  -> Ev(m, ts[1], s)
    [] OTHER -> LET c == Ev(m, ts[1], s)
                IN IF ~Going(c) THEN c
                   ELSE IF c.res # Nil THEN Ev(m, ts[2], c) ELSE EvTests(m, SubSeq(ts, 3, Len(ts)), c)

(* The parts of a loop are the condition, the body and, of a for, what is  *)
(* done behind the body.                                                   *)
EvLoop(m, ts, s) ==
  LET c    == Ev(m, ts[1], s)
      body == Ev(m, ts[2], c)
      r    == EvList(m, SubSeq(ts, 3, Len(ts)),
                     [body EXCEPT !.status = IF @ = "continue" THEN "ok" ELSE @])
  IN CASE ~Going(c) \/ c.res = Nil -> c
       [] Going(r)                 -> EvLoop(m, ts, r)
       [] r.status = "break"       -> [r EXCEPT !.status = "ok"]
       [] OTHER                    -> r

EvTarget(m, t, s) ==
  IF ~Going(s) THEN s
  ELSE CASE t.kind = "var"     -> SetVar(s, t.name, s.res)
         [] t.kind = "targets" -> EvTargets(m, t.kids, s.res, 0, s)
         [] t.kind = "place" ->
              LET last == Last(t.kids)
                  obj  == EvSuffixes(m, SubSeq(t.kids, 2, Len(t.kids) - 1), Ev(m, t.kids[1], s))
              IN IF ~Going(obj) THEN obj
                 ELSE IF last.kind = "field" THEN PutField(obj, obj.res, last.name, s.res)
                 ELSE LET i == Ev(m, last.kids[1], obj)
                      IN IF Going(i) THEN PutItem(i, obj.res, i.res, s.res) ELSE i
EvTargets(m, ts, v, i, s) ==
  IF ts = << >> \/ ~Going(s) THEN s
  ELSE EvTargets(m, Tail(ts), v, i + 1, EvTarget(m, Head(ts), GetItem(s, v, Number(i))))

EvEntries(m, es, map, s) ==
  IF es = << >> \/ ~Going(s) THEN Result(s, map)
  ELSE LET v == EvMembers(m, Head(es).kids, s)
       IN EvEntries(m, Tail(es), map,
                    IF Going(v) THEN CallMethod(v, map, "__set__", Tuple(v.vals)) ELSE v)

(* The i-th parameter has the i-th element of a tuple, the first one       *)
(* anything else that is passed; None or its default when there is none.   *)
EvParameters(m, ps, arg, i, s) ==
  IF i > Len(ps) \/ ~Going(s) THEN s
  ELSE LET p      == ps[i]
           single == arg.kind # "tuple"
           v == CASE Len(ps) = 1 /\ p.default = << >> -> Result(s, arg)
                  [] ~single /\ i <= Len(arg.parts)   -> Result(s, arg.parts[i])
                  [] single /\ i = 1                  -> Result(s, arg)
                  [] p.default # << >>                -> Ev(m, p.default[1], s)
                  [] single                           -> Result(s, Nil)
                  [] OTHER                            -> Error(s)
       IN EvParameters(m, ps, arg, i + 1, IF Going(v) THEN SetField(v, p.name, v.res) ELSE v)

Definition(m, x) ==
  LET named == {i \in DOMAIN m.functions : m.functions[i].name = x}
      inline == CHOOSE t \in m.inline : t.name = x
  IN IF named # {} THEN m.functions[CHOOSE i \in named : TRUE]
     ELSE [name |-> x, args |-> inline.args, body |-> inline.kids[1]]

(* A value that is neither a function nor None nor a number is not called: *)
(* the argument is the result.                                             *)
EvCall(m, f, arg, s) ==
  CASE f.kind = "external" -> CallExternal(s, f.name, Nil, arg)
    [] f.kind = "fn" ->
         LET d    == Definition(m, f.name)
             args == EvParameters(m, d.args, arg, 1, NewBlock(Result(s, arg), f.num))
             body == Ev(m, d.body, args)
         IN [body EXCEPT !.blk = s.blk, !.status = IF @ = "return" THEN "ok" ELSE @]
    [] OTHER -> IF IsObject(f) THEN s ELSE Error(s)

Ev(m, t, s) ==
  IF ~Going(s) THEN s
  ELSE
  CASE t.kind = "id"  -> Result(s, Lookup(s, t.name))
    [] t.kind = "num" -> Result(s, Number(t.num))
    [] t.kind = "str" -> Result(s, Str(t.name))
    [] t.kind = "tuple" -> LET r == EvMembers(m, t.kids, s)
                           IN IF Going(r) THEN Result(r, Tuple(r.vals)) ELSE r
    [] t.kind = "array" -> LET r == EvMembers(m, t.kids, s)
                           IN IF Going(r) THEN NewArray(r, r.vals) ELSE r
    [] t.kind = "negate" -> LET r == Ev(m, t.kids[1], s)
                            IN IF Going(r) THEN Operator(r, "MULT", r.res, Number(-1)) ELSE r
    [] t.kind = "not" -> LET r == Ev(m, t.kids[1], s)
                         IN IF Going(r) THEN Result(r, Truth(r.res = Nil)) ELSE r
    [] t.kind = "chain" -> EvChain(m, Tail(t.kids), Ev(m, t.kids[1], s))
    [] t.kind = "and" -> EvAnyOf(m, t.kids, s, FALSE)
    [] t.kind = "or"  -> EvAnyOf(m, t.kids, s, TRUE)
    [] t.kind = "in" -> LET r == EvMembers(m, t.kids, s)
                            c == CallMethod(r, r.vals[2], "__in__", r.vals[1])
                        IN IF ~Going(r) THEN r
                           ELSE IF Going(c) /\ t.name = "notin" THEN Result(c, Truth(c.res = Nil))
                           ELSE c
    [] t.kind = "range" -> LET r == EvMembers(m, t.kids, s)
                           IN IF Going(r) THEN EvCall(m, Lookup(s, "range"), Tuple(r.vals), r) ELSE r
    [] t.kind = "postfix" -> EvSuffixes(m, Tail(t.kids), Ev(m, t.kids[1], s))
    [] t.kind = "if" -> EvTests(m, t.kids, s)
    [] t.kind = "anonymous" -> Result(s, Lookup(s, t.name))
    [] t.kind = "map" -> LET o == CallMethod(s, Lookup(s, "struct"), "Map", Tuple(<< >>))
                         IN IF Going(o) THEN EvEntries(m, t.kids, o.res, o) ELSE o
    [] t.kind = "assign" -> EvTarget(m, t.kids[1], Ev(m, t.kids[2], s))
    [] t.kind = "block"  -> EvList(m, t.kids, s)
    [] t.kind = "return" -> LET r == EvList(m, t.kids, s)
                            IN IF Going(r) THEN [r EXCEPT !.status = "return"] ELSE r
    [] t.kind = "paren" -> Ev(m, t.kids[1], s)
    [] t.kind \in {"break", "continue"} -> [s EXCEPT !.status = t.kind]
    [] t.kind = "exit" -> [s EXCEPT !.status = "done"]
    [] t.kind = "while" -> LET r == EvLoop(m, t.kids, NewBlock(s, s.blk))
                           IN [r EXCEPT !.blk = s.blk]
    [] t.kind = "for" -> LET i == Ev(m, t.kids[1], NewBlock(s, s.blk))
                             r == EvLoop(m, << t.kids[2], t.kids[4], t.kids[3] >>, i)
                         IN IF Going(i) THEN [r EXCEPT !.blk = s.blk] ELSE i

(* The whole program.                                                      *)
Meaning(m, world) ==
  LET s == Ev(m, m.main, Fresh(world) @@ [vals |-> << >>])
  IN [s EXCEPT !.status = IF @ = "ok" THEN "done" ELSE @]

(* What can be seen of a run: the calls it made and, when it did not end   *)
(* in an error, every variable of every call and every object. The name _  *)
(* is for what is not wanted.                                              *)
Outcome(s) ==
  LET seen(vars) == [x \in DOMAIN vars \ {"_"} |-> vars[x]]
  IN IF s.status # "done" THEN << s.status, s.log >>
     ELSE << s.status, s.log, s.heap, [b \in DOMAIN s.blocks |-> seen(s.blocks[b].vars)] >>
=============================================================================
