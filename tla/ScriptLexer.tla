---------------------------- MODULE ScriptLexer ----------------------------
(***************************************************************************)
(* The lexer of the scripting language (interp/lexer.cpp).                 *)
(*                                                                         *)
(* A source is a string, of the letters and signs below: what the code     *)
(* asks of Unicode is which characters are blanks, letters and digits.  A  *)
(* token is a type and a text, and the type of an operator is its          *)
(* spelling.                                                               *)
(***************************************************************************)
EXTENDS Integers, FiniteSets, SequencesExt

At(s, i) == IF i \in 1..Len(s) THEN SubSeq(s, i, i) ELSE ""
From(s, i) == SubSeq(s, i, Len(s))
CharsOf(s) == {At(s, i) : i \in 1..Len(s)}
\* How many characters at the front of the text are of the set.
Leading(s, chars) ==
  CHOOSE n \in 0..Len(s) : /\ \A i \in 1..n : At(s, i) \in chars
                           /\ At(s, n + 1) \notin chars

Blanks == {" "}
Quote == "\""
Escape == "\\"
is_digit == CharsOf("0123456789")
is_letter == CharsOf("abcdefghijklmnopqrstuvwxyzABCDEFGHIJKLMNOPQRSTUVWXYZ")
is_valid_first_ident_char == is_letter \cup {"_"}
is_valid_identifier == is_letter \cup is_digit \cup {"_"}

DigitsOf(base) == CASE base = 10 -> is_digit
                    [] base = 16 -> CharsOf("0123456789abcdefABCDEF")
                    [] base = 2 -> {"0", "1"}

LongOperators ==
  {"<<=", ">>=", "...", "&&", "||", "==", "!=", "<=", ">=", "<<", ">>", "|>", "+=", "-=", "*=",
   "/=", "%=", "^=", "&=", "|=", "->", "=>", "++", ":="}
ShortOperators == CharsOf(";$:|&.*^!+,-/()[]{}<>=%~?\\")

keywordMap == [w \in {"fn", "if", "let", "else", "while", "return", "for", "true", "false"} |->
                 IF w \in {"true", "false"} THEN "bool" ELSE w]

\* A token is lexed with what comes after it; the end is one, and so is an error.
Token(type, text) == [type |-> type, text |-> text]
Lexed(type, text, rest) == [token |-> Token(type, text), rest |-> rest]
Taken(type, src, n) == Lexed(type, SubSeq(src, 1, n), From(src, n + 1))
LexError == Lexed("error", "", "")

\* Mutant: the point is not counted.
LexNumberShort(src, prevType) ==
  LET whole == Leading(src, is_digit)
      fraction == Leading(From(src, whole + 2), is_digit)
  IN Taken("num", src, IF At(src, whole + 1) = "." THEN whole + fraction ELSE whole)

\* A point belongs to a number if a digit follows, and no point precedes: "x.0.1".
LexNumber(src, prevType) ==
  LET prefix == SubSeq(src, 1, IF Len(src) < 2 THEN Len(src) ELSE 2)
      base == CASE prefix \in {"0x", "0X"} -> 16 [] prefix \in {"0b", "0B"} -> 2 [] OTHER -> 10
      marked == IF base = 10 THEN 0 ELSE 2
      whole == marked + Leading(From(src, marked + 1), DigitsOf(base))
      hadExp == At(src, whole + 1) \in {"e", "E"}
      didRead == IF hadExp THEN whole + 1 + Leading(From(src, whole + 2), is_digit) ELSE whole
      point == At(src, didRead + 1) = "."
      fraction == Leading(From(src, didRead + 2), is_digit)
  IN CASE (base # 10 /\ (hadExp \/ point)) \/ (hadExp /\ point) -> LexError
       [] point /\ base = 10 /\ ~hadExp /\ prevType # "." /\ fraction > 0 ->
            Taken("num", src, didRead + 1 + fraction)
       [] OTHER -> Taken("num", src, didRead)

LexChar(src) ==
  IF Len(src) < 3 \/ At(src, 3) # "'" THEN LexError ELSE Lexed("chr", At(src, 2), From(src, 4))

\* Escapes stay; all that matters here is that of the quote.
LexString(src) ==
  LET closing == {i \in 2..Len(src) : At(src, i) = Quote /\ At(src, i - 1) # Escape}
      end == CHOOSE i \in closing : \A j \in closing : i <= j
  IN IF closing = {} THEN LexError ELSE Lexed("str", SubSeq(src, 2, end - 1), From(src, end + 1))

LexWord(src) ==
  LET length == 1 + Leading(From(src, 2), is_valid_identifier)
      text == SubSeq(src, 1, length)
  IN Taken(IF text \in DOMAIN keywordMap THEN keywordMap[text] ELSE "id", src, length)

LexOperator(src) ==
  LET operators == {op \in LongOperators \cup ShortOperators : IsPrefix(op, src)}
      longest == CHOOSE op \in operators : \A other \in operators : Len(other) <= Len(op)
  IN IF operators = {} THEN Taken("invalid", src, 1) ELSE Taken(longest, src, Len(longest))

lex_one_token(input, prevType) ==
  LET src == From(input, Leading(input, Blanks) + 1)
      first == At(src, 1)
  IN CASE first = "" -> Lexed("end", "", "")
       [] first \in is_digit -> LexNumber(src, prevType)
       [] first = "'" -> LexChar(src)
       [] first = Quote -> LexString(src)
       [] first \in is_valid_first_ident_char -> LexWord(src)
       [] OTHER -> LexOperator(src)

\* The tokens, or none and an error.
RECURSIVE lexFrom(_, _)
lexFrom(src, tokens) ==
  LET lexed == lex_one_token(src, IF tokens = <<>> THEN "" ELSE Last(tokens).type)
  IN CASE lexed.token.type = "end" -> [ok |-> TRUE, tokens |-> tokens]
       [] lexed.token.type = "error" -> [ok |-> FALSE, tokens |-> <<>>]
       [] OTHER -> lexFrom(lexed.rest, Append(tokens, lexed.token))
lexString(src) == lexFrom(src, <<>>)
=============================================================================
