------------------------------ MODULE FrontEnd ------------------------------
(***************************************************************************)
(* A program from its text to its end (file_load.c): it is parsed one      *)
(* statement of the file at a time, compiled, optimized pass by pass or    *)
(* not at all, and run; or the code is written to a file, as text or       *)
(* binary, which is loaded later and run in its place. Code that was       *)
(* loaded from text may be optimized (again) and written as binary.        *)
(***************************************************************************)
EXTENDS Evaluator, Populate, TapeFiles

CONSTANT Texts      \* [lines, tree]: texts, and the syntax tree each stands for

VARIABLES
  source,       \* the text, or NoText for a program that starts as a tree
  reader,       \* the tokenizer
  trees,        \* the parser's trees of the statements so far
  stored        \* the file of the code

frontVars == << source, reader, trees, stored >>
allVars == << vars, frontVars >>

NoText     == [lines |-> << >>, tree |-> << >>]
NoModule   == << >>
Unparsable == << "cannot finish parsing" >>

(* The code that runs was made in this process, or it comes from a file.   *)
NotStored == [form |-> "none", content |-> << >>, of |-> << >>]
Loaded(form) == [form |-> form, content |-> << >>, of |-> << >>]
InFile(form, content) == [form |-> form, content |-> content, of |-> tape]

FrontInit ==
  /\ reader = Opened
  /\ trees = << >>
  /\ stored = NotStored
  /\ \/ source = NoText /\ Init
     \/ source \in Texts /\ module = NoModule /\ tape = EmptyTape /\ pass = 0 /\ m = Waiting

-----------------------------------------------------------------------------

Parsing  == module = NoModule
Statement == Match(source.lines, Rule("file_level_statement"), reader, "")

(* The next statement of the file; where there is none the file must end.  *)
Parse ==
  /\ Parsing
  /\ \E found \in {Statement} :
       \/ /\ found.tree.matched
          /\ reader' = found.s
          /\ trees' = Append(trees, found.tree)
          /\ UNCHANGED << source, stored, vars >>
       \/ /\ ~found.tree.matched
          /\ reader' = Opened
          /\ trees' = << >>
          /\ module' = IF found.s.queue # << >> THEN Unparsable
                       ELSE Inlined(populate_module_def(trees))
          /\ tape' = IF module' = Unparsable THEN tape ELSE Compile(module')
          /\ UNCHANGED << source, stored, pass, m >>

(* The code is in memory, and has been through all of the passes or none.  *)
InMemory == ~Parsing /\ module # Unparsable /\ stored.content = << >>
Complete == InMemory /\ m = Waiting /\ pass \in {0, Passes}

OptimizePass ==
  /\ InMemory
  /\ stored.form # "jb"
  /\ Optimize
  /\ UNCHANGED frontVars

WriteText ==
  /\ Complete
  /\ source # NoText
  /\ stored.form = "none"
  /\ stored' = InFile("jm", tape_write(tape))
  /\ UNCHANGED << source, reader, trees, vars >>

WriteBinary ==
  /\ Complete
  /\ source # NoText
  /\ stored.form \in {"none", "jm"}
  /\ tape.module # << >>
  /\ stored' = InFile("jb", tape_write_binary(tape))
  /\ UNCHANGED << source, reader, trees, vars >>

Load ==
  /\ stored.content # << >>
  /\ \/ stored.form = "jm" /\ tape' = tape_read(stored.content)
     \/ /\ stored.form = "jb"
        /\ Readable(stored.content)
        /\ tape' = tape_read_binary(stored.content)
  /\ stored' = Loaded(stored.form)
  /\ pass' = 0
  /\ UNCHANGED << source, reader, trees, module, m >>

(* What is read of such a file is no tape, if the reader gets to its end.  *)
LoadFails ==
  /\ stored.content # << >>
  /\ stored.form = "jb"
  /\ ~Readable(stored.content)
  /\ stored' = [stored EXCEPT !.form = "unreadable"]
  /\ UNCHANGED << source, reader, trees, vars >>

(* The machine has no instructions of modules and classes.                 *)
Runs(t) == t.imports = << >> /\ t.classes = << >>
Run ==
  /\ InMemory
  /\ Runs(module)
  /\ pass \in {0, Passes}
  /\ Execute
  /\ UNCHANGED frontVars

FrontNext == Parse \/ OptimizePass \/ WriteText \/ WriteBinary \/ Load \/ LoadFails \/ Run

FrontSpec == FrontInit /\ [][FrontNext]_allVars

-----------------------------------------------------------------------------

(* Nothing of the text gets lost, doubled or out of order while the parser *)
(* tries alternatives and puts tokens back: the trees, then the tokens it  *)
(* has not used, are those of the lines read.                              *)
TokensKept ==
  LET words(tokens) == SelectSeq(tokens, LAMBDA t : t.type # "ENDLINE")
      used == FlattenSeq([i \in DOMAIN trees |-> Leaves(trees[i])])
  IN words(used \o reader.queue) = words(Tokenize(SubSeq(source.lines, 1, reader.read)))

(* A syntax tree without the names of its anonymous functions, which are   *)
(* those of their places.                                                  *)
RECURSIVE Anonymized(_)
Anonymized(t) ==
  LET args == [i \in DOMAIN t.args |->
                 [t.args[i] EXCEPT !.default = [j \in DOMAIN @ |-> Anonymized(@[j])]]]
  IN [t EXCEPT !.kids = [i \in DOMAIN @ |-> Anonymized(@[i])], !.args = args,
               !.name = IF t.kind = "anonymous" THEN "" ELSE @]
AnonymizedFunction(f) ==
  [f EXCEPT !.body = Anonymized(@), !.args = Anonymized([T("", "", 0, << >>) EXCEPT !.args = f.args]).args]
AnonymizedModule(t) ==
  LET functions(fs) == [i \in DOMAIN fs |-> AnonymizedFunction(fs[i])]
      class(c) == [c EXCEPT !.constructor = functions(@), !.methods = functions(@)]
  IN << t.name, t.imports, [i \in DOMAIN t.classes |-> class(t.classes[i])],
        functions(t.functions), Anonymized(t.main) >>

(* What is parsed is what was written: operators by their precedence, each *)
(* else with the nearest if, every suffix with its operand.                *)
ParsesBack ==
  source # NoText /\ ~Parsing
    => /\ module # Unparsable
       /\ AnonymizedModule(module) = AnonymizedModule(source.tree)

Same(t1, t2) ==
  /\ ModuleName(t1) = ModuleName(t2)
  /\ [i \in DOMAIN t1.code |-> Carries(t1.code[i])] = [i \in DOMAIN t2.code |-> Carries(t2.code[i])]
  /\ t1.entry = t2.entry
  /\ t1.classes = t2.classes

(* Code that is loaded from a file is what was written to it, as text or   *)
(* binary, from the code generator or from the optimizer; and loading      *)
(* fails of those binary files, and no others, in whose code the name of   *)
(* the module stands for something else as well.                           *)
NameUsed(t) == \E k \in DOMAIN Tail(AllStrings(t)) : Tail(AllStrings(t))[k] = ModuleName(t)
LoadsBack ==
  [][stored.content # << >> /\ stored' # stored =>
       IF stored.form = "jb" /\ NameUsed(stored.of) THEN stored'.form = "unreadable"
       ELSE stored' = Loaded(stored.form) /\ Same(tape', stored.of)]_allVars

Starts(tape1, inline) ==
  LET named(f) == {f[x] : x \in DOMAIN f \ inline}
  IN named(tape1.entry)
       \cup UNION {LET c == tape1.classes[x] IN {c.start, c.end} \cup named(c.methods) :
                   x \in DOMAIN tape1.classes}

(* However the code was moved, every function and every method is still    *)
(* found, and no jump leaves the one it is in.                             *)
FunctionsKept ==
  ~Parsing /\ module # Unparsable /\ m = Waiting =>
    LET inline  == {t.name : t \in module.inline}
        called(fs) == {fs[i].name : i \in DOMAIN fs}
        starts == Starts(tape, inline)
        target(i) == i + 1 + tape.code[i].val
    IN /\ called(module.functions) \subseteq DOMAIN tape.entry
       /\ \A i \in DOMAIN module.classes :
            LET c == module.classes[i]
            IN c.name \in DOMAIN tape.classes
                 /\ called(c.methods) \subseteq DOMAIN tape.classes[c.name].methods
       /\ \A i \in DOMAIN tape.code : IsGoto(tape.code[i]) =>
            /\ target(i) \in DOMAIN tape.code
            /\ \A s \in starts : (s <= i) = (s <= target(i))
=============================================================================
