----------------------------- MODULE Tokenizer -----------------------------
(***************************************************************************)
(* From lines of text to tokens (codegen/tokenizer.c). A token is          *)
(* [type, line, col, text]. The tokenizer is [queue, read, line]: the      *)
(* tokens that the parser has not taken, how many lines of the file were   *)
(* read, and the number that the next line's tokens get.                   *)
(*                                                                         *)
(* Lines are strings without their line feed: Char is empty at the end. A  *)
(* string literal is closed on its line, and a line is shorter than        *)
(* MAX_LINE_LEN.                                                           *)
(***************************************************************************)
EXTENDS Integers, Sequences, SequencesExt

LOCAL INSTANCE TLC

Char(line, i) == IF i \in 1..Len(line) THEN SubSeq(line, i, i) ELSE ""
Chars(s)      == {Char(s, i) : i \in 1..Len(s)}

Digits       == Chars("0123456789")
Alphanumeric == Digits \cup Chars("abcdefghijklmnopqrstuvwxyzABCDEFGHIJKLMNOPQRSTUVWXYZ_$")
Whitespace   == {" ", "\t"}
Comment      == ";"

(* Types by the text of a symbol; the other symbols of two characters that *)
(* are read as one word have the type of their first.                      *)
Symbols ==
     "("  :> "LPAREN"  @@ ")"  :> "RPAREN"   @@ "{"  :> "LBRCE"     @@ "}"  :> "RBRCE"
  @@ "["  :> "LBRAC"   @@ "]"  :> "RBRAC"    @@ "*"  :> "STAR"      @@ "/"  :> "FSLASH"
  @@ "\\" :> "BSLASH"  @@ "%"  :> "PERCENT"  @@ "&"  :> "AMPER"     @@ "|"  :> "PIPE"
  @@ "^"  :> "CARET"   @@ "~"  :> "TILDE"    @@ "?"  :> "QUESTION"  @@ "@"  :> "AT"
  @@ "#"  :> "POUND"   @@ ","  :> "COMMA"    @@ ":"  :> "COLON"     @@ "."  :> "PERIOD"
  @@ "'"  :> "STR"     @@ Comment :> "SEMICOLON"
  @@ "+"  :> "PLUS"    @@ "++" :> "INCREMENT"
  @@ "-"  :> "MINUS"   @@ "->" :> "RARROW"   @@ "--" :> "DECREMENT"
  @@ "<"  :> "LTHAN"   @@ "<-" :> "LARROW"   @@ "<=" :> "LTHANEQ"
  @@ ">"  :> "GTHAN"   @@ ">=" :> "GTHANEQ"
  @@ "="  :> "EQUALS"  @@ "==" :> "EQUIV"
  @@ "!"  :> "EXCLAIM" @@ "!=" :> "NEQUIV"
Complex == {"++", "+=", "--", "-=", "->", "<-", "<=", "<<", "<>", ">=", ">>", "==", "!="}

(* A keyword's type is its position in the table, counted from the first   *)
(* keyword of the enumeration.                                             *)
Keywords ==
  << "if", "then", "else", "def", "new", "field", "method", "class", "while", "for", "break",
     "continue", "return", "as", "is", "try", "catch", "raise", "import", "module", "exit",
     "in", "notin", "const", "and", "or" >>
KeywordTypes ==
  << "IF_T", "THEN", "ELSE", "DEF", "NEW", "FIELD", "METHOD", "CLASS", "WHILE", "FOR", "BREAK",
     "CONTINUE", "RETURN", "AS", "IS_T", "TRY", "CATCH", "RAISE", "IMPORT", "MODULE_T", "EXIT_T",
     "IN", "NOTIN", "CONST_T", "AND_T", "OR_T" >>
WordType(word) ==
  IF Contains(Keywords, word) THEN KeywordTypes[SelectInSeq(Keywords, LAMBDA k : k = word)] ELSE "WORD"

TokenType(word) ==
  CASE word = ""                    -> "ENDLINE"
    [] word \in DOMAIN Symbols      -> Symbols[word]
    [] Char(word, 1) \in DOMAIN Symbols -> Symbols[Char(word, 1)]
    [] Char(word, 1) \in Digits     ->
         IF Char(word, Len(word)) = "f" \/ "." \in Chars(word) THEN "FLOATING" ELSE "INTEGER"
    [] OTHER                        -> WordType(word)

(* The first position from i on that holds no character of cs.             *)
After(line, i, cs) ==
  CHOOSE j \in i .. Len(line) + 1 :
    Char(line, j) \notin cs /\ \A k \in i .. j - 1 : Char(line, k) \in cs

ReadWord(line, i) ==
  LET start == After(line, i, Whitespace)
      c     == Char(line, start)
      end   == CASE c = ""                -> start
                 [] c \in DOMAIN Symbols  ->
                      start + (IF c \o Char(line, start + 1) \in Complex THEN 2 ELSE 1)
                 [] c \in Digits          -> After(line, start + 1, Digits \cup {".", "f"})
                 [] c \in Alphanumeric    -> After(line, start + 1, Alphanumeric)
                 [] OTHER                 -> start + 1
  IN [word |-> SubSeq(line, start, end - 1), next |-> end]

(* An escape stands for the character after it, or for a control character *)
(* (those that TLA+ has no literal for are left out).                      *)
Unescaped(u) ==
  CASE u = "n" -> "\n" [] u = "t" -> "\t" [] u = "r" -> "\r" [] u = "f" -> "\f" [] OTHER -> u

(* The rest of a string literal, behind its first quote.                   *)
RECURSIVE ReadString(_, _, _)
ReadString(line, i, word) ==
  LET c == Char(line, i)
  IN CASE c = "'"  -> [word |-> word \o c, next |-> i + 1]
       [] c = "\\" -> ReadString(line, i + 2, word \o Unescaped(Char(line, i + 1)))
       [] OTHER    -> ReadString(line, i + 1, word \o c)

(* A line's tokens are added to the queue. A column is counted back from   *)
(* the end of the word, and what is between the quotes of a string is not  *)
(* counted. The end of a line is a token when there is something before    *)
(* it; behind a backslash it continues the line, whose number stays.       *)
RECURSIVE TokenizeLine(_, _), Scan(_, _, _, _, _, _)
TokenizeLine(lines, s) ==
  IF s.read = Len(lines) THEN s
  ELSE LET text == lines[s.read + 1]
       IN [Scan(lines, text, [s EXCEPT !.read = @ + 1], 1, 1, FALSE) EXCEPT !.line = @ + 1]

Scan(lines, text, s, i, col, inComment) ==
  LET w       == ReadWord(text, i)
      type    == TokenType(w.word)
      comment == type # "ENDLINE" /\ (inComment \/ type = "SEMICOLON")
      lex     == IF type = "STR" THEN ReadString(text, w.next, "'") ELSE w
      end     == col + w.next - i
      last    == IF s.queue = << >> THEN "none" ELSE Last(s.queue).type
      token   == [type |-> type, line |-> s.line, col |-> end - Len(lex.word), text |-> lex.word]
      added   == CASE type = "ENDLINE" /\ last = "BSLASH" ->
                        TokenizeLine(lines, [s EXCEPT !.queue = Front(@)])
                   [] type = "ENDLINE" /\ last \in {"none", "ENDLINE"} -> s
                   [] OTHER -> [s EXCEPT !.queue = Append(@, token)]
  IN CASE comment    -> Scan(lines, text, s, w.next, end, TRUE)
       [] w.next = i -> added
       [] OTHER      -> Scan(lines, text, added, lex.next, end, FALSE)

Opened == [queue |-> << >>, read |-> 0, line |-> 1]

(* All tokens of a file.                                                   *)
RECURSIVE TokenizeFrom(_, _)
TokenizeFrom(lines, s) ==
  IF s.read = Len(lines) THEN s.queue ELSE TokenizeFrom(lines, TokenizeLine(lines, s))
Tokenize(lines) == TokenizeFrom(lines, Opened)
=============================================================================
