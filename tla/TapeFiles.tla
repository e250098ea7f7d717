------------------------------ MODULE TapeFiles ------------------------------
(***************************************************************************)
(* A tape as a file: text, one instruction on a line (.jm; tape_write,     *)
(* tape_read), and binary (.jb; tape_write_binary, tape_read_binary and    *)
(* serialization/). Instructions have no floating point numbers and        *)
(* functions no recorded arguments: this code generator writes none.       *)
(***************************************************************************)
EXTENDS Tape, Tokenizer

LOCAL INSTANCE TLC

CONSTANT ByteMax    \* the largest reference to a string that takes one byte

(* The instructions in the order of their numbers, and their texts.        *)
Ops ==
  << "NOP", "EXIT", "RES", "TGET", "TLEN", "SET", "LET", "PUSH", "PEEK", "PSRS", "NOT", "NOTC",
     "GT", "LT", "EQ", "NEQ", "GTE", "LTE", "AND", "OR", "XOR", "IF", "IFN", "JMP", "NBLK",
     "BBLK", "RET", "ADD", "SUB", "MULT", "DIV", "MOD", "INC", "DEC", "FINC", "FDEC", "SINC",
     "CALL", "CLLN", "TUPL", "TGTE", "TLTE", "TEQ", "DUP", "GOTO", "PRNT", "LMDL", "GET", "GTSH",
     "RNIL", "PNIL", "FLD", "FLDC", "IS", "ADR", "RAIS", "CTCH", "ANEW", "AIDX", "ASET", "CNST",
     "SETC", "LETC", "SGET" >>
instructions ==
  << "nop", "exit", "res", "tget", "tlen", "set", "let", "push", "peek", "psrs", "not", "notc",
     "gt", "lt", "eq", "neq", "gte", "lte", "and", "or", "xor", "if", "ifn", "jmp", "nblk",
     "bblk", "ret", "add", "sub", "mult", "div", "mod", "inc", "dec", "finc", "fdec", "sinc",
     "call", "clln", "tupl", "tgte", "tlte", "teq", "dup", "goto", "prnt", "lmdl", "get", "gtsh",
     "rnil", "pnil", "fld", "fldc", "is", "adr", "rais", "ctch", "anew", "aidx", "aset", "cnst",
     "setc", "letc", "sget" >>
Position(xs, x) == SelectInSeq(xs, LAMBDA y : y = x)
op_text(op)   == instructions[Position(Ops, op)]
op_type(word) == Ops[Position(instructions, word)]

(* What an instruction is besides the statement it came from.              *)
Carries(c) ==
  CASE c.par = "no"  -> << c.op >>
    [] c.par = "val" -> << c.op, c.val >>
    [] OTHER         -> << c.op, c.par, c.tok >>

-----------------------------------------------------------------------------
(* Text.                                                                   *)

EscapedCharQuotes(c) == IF c \in {"'", "\""} THEN "\\" \o c ELSE c
EscapedChar(c) ==
  CASE c \in {"'", "\"", "\\"} -> "\\" \o c
    [] c = "\n" -> "\\n"
    [] c = "\t" -> "\\t"
    [] c = "\r" -> "\\r"
    [] c = "\f" -> "\\014"
    [] OTHER    -> c
string_escaped(s) ==
  IF s = "" THEN "" ELSE FlattenSeq([i \in 1..Len(s) |-> EscapedChar(Char(s, i))])

insc_to_str(c) ==
  LET op     == op_text(c.op)
      padded == op \o SubSeq("      ", 1, 6 - Len(op))
  IN "  " \o (CASE c.par = "no"  -> op
                [] c.par = "val" -> padded \o ToString(c.val)
                [] c.par = "str" -> padded \o "'" \o string_escaped(c.tok) \o "'"
                [] OTHER         -> padded \o c.tok)

MarkLines(m) ==
  CASE m.mark = "endclass" -> << "endclass", "" >>
    [] m.mark = "class"    -> << "", FlattenSeq(<< "class " \o m.name >>
                                       \o [i \in DOMAIN m.parents |-> "," \o m.parents[i]]) >>
    [] m.mark = "label"    -> << "", "@" \o m.name >>
    [] m.mark = "code"     -> m.code

(* The end of a class that is last is written behind the code.             *)
tape_write(tape) ==
  LET spans == Pieces(tape)
      lines(span) == [k \in 1 .. span.last + 1 - span.first |->
                        insc_to_str(tape.code[span.first + k - 1])]
      marks == Marks(tape, [k \in DOMAIN spans |-> lines(spans[k])])
      end   == EndsAt(tape, Len(tape.code) + 1) # {}
  IN (IF ModuleName(tape) = "$" THEN << >> ELSE << "module " \o ModuleName(tape) >>)
       \o FlattenSeq([k \in DOMAIN marks |-> MarkLines(marks[k])])
       \o (IF end THEN MarkLines(EndClassMark) ELSE << >>)

(* The reader takes a line's tokens at a time.                             *)
TokenLines(tokens) ==
  LET ends  == {i \in DOMAIN tokens : tokens[i].type = "ENDLINE"}
      spans == Spans(Len(tokens), {i + 1 : i \in ends})
      line(span) == SubSeq(tokens, span.first, span.last - (IF span.last \in ends THEN 1 ELSE 0))
  IN [k \in DOMAIN spans |-> line(spans[k])]

IsMark(line) == line[1].type = "AT" \/ line[1].text \in {"class", "endclass"}
ReadMark(line) ==
  CASE line[1].type = "AT"       -> LabelMark(line[2].text)
    [] line[1].text = "endclass" -> EndClassMark
    [] OTHER -> ClassMark(line[2].text, [i \in 1 .. (Len(line) - 2) \div 2 |-> line[2 * i + 2].text])

ReadNumber(text) ==
  FoldLeft(LAMBDA n, d : 10 * n + d, 0,
           [i \in 1..Len(text) |-> CHOOSE d \in 0..9 : ToString(d) = Char(text, i)])
tape_read_ins(line) ==
  LET ins(par, val, tok) == [op |-> op_type(line[1].text), par |-> par, val |-> val, tok |-> tok]
      param == line[2]
  IN CASE Len(line) = 1           -> ins("no", 0, "")
       [] param.type = "MINUS"    -> ins("val", -ReadNumber(line[3].text), "")
       [] param.type = "INTEGER"  -> ins("val", ReadNumber(param.text), "")
       [] param.type = "STR"      -> ins("str", 0, SubSeq(param.text, 2, Len(param.text) - 1))
       [] OTHER                   -> ins("id", 0, param.text)

(* The code between the marks, and the marks.                              *)
ReadMarks(body) ==
  LET spans == Spans(Len(body), {i \in DOMAIN body : IsMark(body[i]) \/ (i > 1 /\ IsMark(body[i - 1]))})
      mark(span) == IF IsMark(body[span.first]) THEN ReadMark(body[span.first])
                    ELSE CodeMark([k \in 1 .. span.last + 1 - span.first |->
                                     tape_read_ins(body[span.first + k - 1])])
  IN [k \in DOMAIN spans |-> mark(spans[k])]
ReadLines(all) ==
  IF all[1][1].text = "module" THEN Written(<< all[1][2].text >>, ReadMarks(Tail(all)))
  ELSE Written(<< "$" >>, ReadMarks(all))
tape_read(lines) == ReadLines(TokenLines(Tokenize(lines)))

-----------------------------------------------------------------------------
(* Binary. Strings are written once, and referred to by their index. The   *)
(* index of the first string, the module's name, is 0 and taken for none   *)
(* when it is looked up: that string is written again wherever it occurs   *)
(* again, without being counted again, and keeps the index 0.              *)

KeysInSeq(f) == FoldSet(LAMBDA x, seq : Append(seq, x), << >>, DOMAIN f)
AllStrings(tape) ==
  LET class(c) == << c >> \o KeysInSeq(tape.classes[c].methods) \o tape.classes[c].parents
      classes  == KeysInSeq(tape.classes)
      carrying == SelectSeq(tape.code, LAMBDA c : c.par \in {"id", "str"})
  IN tape.module \o FlattenSeq([k \in DOMAIN classes |-> class(classes[k])])
       \o KeysInSeq(tape.entry) \o [k \in DOMAIN carrying |-> carrying[k].tok]

AddedStrings(all) ==
  LET new(k) == \A j \in 1 .. k - 1 : all[j] # all[k]
      added == SelectSeq([k \in DOMAIN all |-> k], LAMBDA k : new(k) \/ all[k] = all[1])
  IN [i \in DOMAIN added |-> all[added[i]]]
StringTable(tape) == AddedStrings(AllStrings(tape))

(* A file is a record of its parts, numbers in their widths. num_strings   *)
(* is the number of strings that are looked up by name.                    *)
Short(n) == n % 65536
Byte(n)  == n % (ByteMax + 1)
Written8(n, count) == IF count > ByteMax THEN Short(n) ELSE Byte(n)

BinaryWith(strings, count, tape) ==
  LET ref(x)  == Position(strings, x) - 1
      refs(f) == {<< Short(ref(x)), Short(f[x] - 1) >> : x \in DOMAIN f}
      class(c) == [name |-> Short(ref(c)), start |-> Short(tape.classes[c].start - 1),
                   end |-> IF tape.classes[c].end = 0 THEN 0 ELSE Short(tape.classes[c].end - 1),
                   parents |-> [i \in DOMAIN tape.classes[c].parents |->
                                  Short(ref(tape.classes[c].parents[i]))],
                   methods |-> refs(tape.classes[c].methods)]
      ins(c) == [op |-> Position(Ops, c.op) - 1, par |-> c.par,
                 val |-> CASE c.par = "no" -> 0 [] c.par = "val" -> c.val
                           [] OTHER -> Written8(ref(c.tok), count)]
  IN [num_strings |-> Short(count), strings |-> strings, refs |-> refs(tape.entry),
      classes |-> {class(c) : c \in DOMAIN tape.classes},
      num_ins |-> Short(Len(tape.code)), code |-> [i \in DOMAIN tape.code |-> ins(tape.code[i])]]
tape_write_binary(tape) ==
  BinaryWith(StringTable(tape), Cardinality(ToSet(AllStrings(tape))), tape)

(* The reader goes by the counts. What is left of the strings is taken for *)
(* the counts and indices behind them: only a file without such a rest has *)
(* a meaning.                                                              *)
Readable(file) == file.num_strings = Len(file.strings) /\ file.num_ins = Len(file.code)
tape_read_binary(file) ==
  LET strings == SubSeq(file.strings, 1, file.num_strings)
      code    == SubSeq(file.code, 1, file.num_ins)
      text(i) == strings[i + 1]
      refs(rs) == [x \in {text(r[1]) : r \in rs} |-> (CHOOSE r \in rs : text(r[1]) = x)[2] + 1]
      class(c) == [start |-> c.start + 1, end |-> c.end + 1, methods |-> refs(c.methods),
                   parents |-> [i \in DOMAIN c.parents |-> text(c.parents[i])]]
      ins(c) == [op |-> Ops[c.op + 1], par |-> c.par,
                 val |-> IF c.par = "val" THEN c.val ELSE 0,
                 tok |-> IF c.par \in {"id", "str"} THEN text(c.val) ELSE ""]
  IN [EmptyTape EXCEPT
        !.module  = << text(0) >>,
        !.code    = [i \in DOMAIN code |-> ins(code[i])],
        !.entry   = refs(file.refs),
        !.classes = [x \in {text(c.name) : c \in file.classes} |->
                       class(CHOOSE c \in file.classes : text(c.name) = x)]]
=============================================================================
