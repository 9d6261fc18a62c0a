---------------------------- MODULE ScriptSources ----------------------------
(***************************************************************************)
(* Sources, lexed and parsed: what a text is cut into, and how operators   *)
(* nest.                                                                   *)
(***************************************************************************)
EXTENDS ScriptParser

CONSTANT Sources   \* what is parsed

VARIABLE source    \* what was parsed last

Init == source = ""
Next == source = "" /\ source' \in Sources

-----------------------------------------------------------------------------
(* The text of tokens *)

Spelling(token) ==
  CASE token.type = "str" -> Quote \o token.text \o Quote
    [] token.type = "chr" -> "'" \o token.text \o "'"
    [] OTHER -> token.text
Joined(tokens, separator) ==
  FoldLeft(LAMBDA text, token : text \o Spelling(token) \o separator, "", tokens)
Unspaced(s) == FoldLeft(LAMBDA text, i : IF At(s, i) \in Blanks THEN text ELSE text \o At(s, i),
                        "", [i \in 1..Len(s) |-> i])

IsKept(src) ==
  LET lexed == lexString(src)
  IN lexed.ok =>
       /\ Unspaced(Joined(lexed.tokens, "")) = Unspaced(src)
       /\ lexString(Joined(lexed.tokens, " ")) = lexed
       /\ \A i \in DOMAIN lexed.tokens :
            LET token == lexed.tokens[i]
            IN token.type = "str" => At(token.text, Len(token.text)) # Escape

\* The tokens are the whole source, each character in one of them and in its order;
\* written with blanks between them they are lexed as the same tokens; and no string
\* ends in the middle of an escape, which the parser would read beyond.
LexerKeepsText == [][source' # source => IsKept(source')]_source

-----------------------------------------------------------------------------
(* The grammar that the parser is for *)

Leaf(token) == parsePrimary(State(<<token>>)).e

\* A chain of operands and operators is split at the operator that binds the least,
\* the last of its level or, of those that are right associative, the first.
RECURSIVE Grouped(_)
Grouped(tokens) ==
  LET operators == {i \in 1..Len(tokens) : i % 2 = 0}
      prec(i) == get_binary_precedence(tokens[i].type)
      loosest == {i \in operators : \A j \in operators : prec(i) <= prec(j)}
      first == CHOOSE i \in loosest : \A j \in loosest : i <= j
      last == CHOOSE i \in loosest : \A j \in loosest : j <= i
      root == IF tokens[first].type \in is_right_associative THEN first ELSE last
      l == Grouped(SubSeq(tokens, 1, root - 1))
      r == Grouped(SubSeq(tokens, root + 1, Len(tokens)))
  IN IF operators = {} THEN Leaf(tokens[1])
     ELSE Combined(tokens[root].type, Ast(l, State(<<>>)), Ast(r, State(<<>>))).e

IsChain(tokens) ==
  /\ Len(tokens) % 2 = 1
  /\ \A i \in DOMAIN tokens :
       IF i % 2 = 1
       THEN tokens[i].type \in {"id", "num"} /\ parsePrimary(State(<<tokens[i]>>)).end = ""
       ELSE get_binary_precedence(tokens[i].type) > 0 /\ tokens[i].type \notin {"?", ".", "[", "("}

IsNested(src) ==
  LET lexed == lexString(src)
      parsed == parse(src)
  IN lexed.ok /\ lexed.tokens # <<>> /\ IsChain(lexed.tokens) =>
       parsed.end = "" /\ parsed.e.body = <<Grouped(lexed.tokens)>>

\* A chain of binary operators is parsed, and as their precedences have it: what the
\* loop makes of it is what a split at the loosest operator makes.
PrecedenceDecides == [][source' # source => IsNested(source')]_source
=============================================================================
