---------------------------- MODULE ScriptParser ----------------------------
(***************************************************************************)
(* The parser of the scripting language (interp/parser.cpp): by recursive  *)
(* descent, binary operators by their precedence.  What it makes are the   *)
(* trees that ScriptEval evaluates.                                        *)
(*                                                                         *)
(* The state of the parser is what is left of the tokens and the generics  *)
(* that are known.  An error does not always end the parsing at once, so   *)
(* it has a state too; "aborted" is a failed assertion or an exception     *)
(* that nobody catches.                                                    *)
(***************************************************************************)
EXTENDS ScriptLexer, ScriptValues

State(tokens) == [tokens |-> tokens, known |-> {}]
PeekAt(st, n) == IF n < Len(st.tokens) THEN st.tokens[n + 1].type ELSE "end"
Peek(st) == PeekAt(st, 0)
Text(st) == Head(st.tokens).text
Pop(st) == IF st.tokens = <<>> THEN st ELSE [st EXCEPT !.tokens = Tail(@)]

Ast(e, st) == [end |-> "", e |-> e, st |-> st]
None == [op |-> "none"]
Bad(st) == [end |-> "error", e |-> None, st |-> st]
Abort(st) == [end |-> "aborted", e |-> None, st |-> st]
Bind(r, Make(_, _)) == IF r.end = "" THEN Make(r.e, r.st) ELSE r
Expect(type, r) ==
  Bind(r, LAMBDA e, st : IF Peek(st) = type THEN Ast(e, Pop(st)) ELSE Bad(st))

Literal(v) == [op |-> "value", v |-> v]
Unary(sign, e) == [op |-> "unary", sign |-> sign, e |-> e]
Binary(sign, l, r) == [op |-> IF sign \in {"&&", "||"} THEN "logical" ELSE "binary",
                       sign |-> sign, l |-> l, r |-> r]
\* The sign of an assignment is that of its operation.
AssignTo(sign, l, r) ==
  [op |-> "assign", sign |-> IF sign = "=" THEN "=" ELSE SubSeq(sign, 1, Len(sign) - 1),
   l |-> l, r |-> r]

-----------------------------------------------------------------------------
(* Operators *)

is_comparison_op == {"==", "!=", "<", "<=", ">", ">="}
is_postfix_op == {"[", "(", "..."}
is_assignment_op == {"=", "+=", "-=", "*=", "/=", "%=", "<<=", ">>=", "&=", "|=", "^="}
is_right_associative == {"^"}

Levels == << {"|>"}, is_assignment_op, {"?"}, {"||"}, {"&&"}, is_comparison_op, {"|"}, {"&"},
             {"<<", ">>"}, {"+", "-", "++"}, {"%"}, {"/"}, {"*"}, {"^"}, {"["}, {"."}, {"("} >>
get_binary_precedence(op) ==
  IF \E level \in DOMAIN Levels : op \in Levels[level]
  THEN CHOOSE level \in DOMAIN Levels : op \in Levels[level] ELSE -1

\* Mutant: what follows an operator may hold one that binds as tightly.
BindsAsTightly(prec) == prec

\* The precedence that the right side of an operator starts from.
OfRightSide(prec) == prec + 1

\* A comparison of a comparison adds to it, parenthesised or not.
Comparison(oper, l, r) ==
  IF l.op = "compare"
  THEN [l EXCEPT !.args = Append(@, r), !.signs = Append(@, oper)]
  ELSE [op |-> "compare", args |-> <<l, r>>, signs |-> <<oper>>]

\* Of an lhs that is an error there is nothing to compare.
Combined(oper, lhs, rhs) ==
  LET l == lhs.e
      r == rhs.e
  IN CASE oper \in is_comparison_op ->
            IF lhs.end = "" THEN Ast(Comparison(oper, l, r), rhs.st) ELSE Abort(rhs.st)
       [] oper \in is_assignment_op -> [lhs EXCEPT !.e = AssignTo(oper, l, r), !.st = rhs.st]
       [] oper = "." -> [lhs EXCEPT !.e = [op |-> "dot", e |-> l, r |-> r], !.st = rhs.st]
       [] OTHER -> [lhs EXCEPT !.e = Binary(oper, l, r), !.st = rhs.st]

-----------------------------------------------------------------------------
(* Literals and names *)

Position(c, chars) == CHOOSE i \in 1..Len(chars) : At(chars, i) = c
DecimalValue(text) ==
  FoldLeft(LAMBDA n, i : 10 * n + Position(At(text, i), "0123456789") - 1, 0,
           [i \in 1..Len(text) |-> i])
\* The code of a character, of those that there are here.
Code(c) == Position(c, "\n\t \"\\'abcdefghijklmnopqrstuvwxyz0123456789_")

\* stoll() throws if there are no digits (or too many, which is left out).  Only
\* decimal integers have their value here.
parseNumber(st) ==
  LET text == Text(st)
      imaginary == PeekAt(st, 1) = "id" /\ Text(Pop(st)) = "i"
  IN IF text \in {"0x", "0X", "0b", "0B"} THEN Abort(Pop(st))
     ELSE IF CharsOf(text) \subseteq is_digit /\ ~imaginary
          THEN Ast(Literal(NumberOf(DecimalValue(text))), Pop(st))
          ELSE Ast([op |-> "number", text |-> text, imaginary |-> imaginary],
                   IF imaginary THEN Pop(Pop(st)) ELSE Pop(st))

parseChar(st) == Ast(Literal(CharOf(Code(Text(st)))), Pop(st))
parseBool(st) == Ast(Literal(BoolOf(Text(st) = "true")), Pop(st))

\* An escape that is not known stands for itself.
Escapes == [n |-> "\n", t |-> "\t"]
RECURSIVE Unescaped(_)
Unescaped(s) ==
  LET second == At(s, 2)
  IN CASE s = "" -> <<>>
       [] s # "" /\ At(s, 1) # Escape -> <<At(s, 1)>> \o Unescaped(From(s, 2))
       [] OTHER -> (IF second \in DOMAIN Escapes THEN <<Escapes[second]>>
                    ELSE IF second \in {Quote, Escape} THEN <<second>> ELSE <<Escape, second>>)
                   \o Unescaped(From(s, 3))
parseString(st) ==
  LET chars == Unescaped(Text(st))
  IN Ast(Literal(StringOf([i \in DOMAIN chars |-> Code(chars[i])])), Pop(st))

\* "$" and a number is an argument, "$" and a name a variable.
parseIdentifier(st) ==
  LET next == Pop(st)
      number == Peek(next) = "num" /\ CharsOf(Text(next)) \subseteq is_digit
  IN CASE Peek(st) = "id" -> Ast([op |-> "var", name |-> Text(st)], next)
       [] Peek(st) = "$" /\ Peek(next) = "id" ->
            Ast([op |-> "var", name |-> "$" \o Text(next)], Pop(next))
       [] Peek(st) = "$" /\ number -> Ast([op |-> "arg", k |-> DecimalValue(Text(next))], Pop(next))
       [] OTHER -> Bad(next)

-----------------------------------------------------------------------------
(* Types *)

SimpleTypes == [num |-> Number, bool |-> Boolean, char |-> Char, str |-> String, void |-> Void]

RECURSIVE parseType(_)

\* Separated by commas; a comma may end them.
RECURSIVE Listed(_, _, _, _)
Listed(Parse(_), closing, es, st) ==
  IF Peek(st) \in {closing, "end"} THEN Ast(es, st)
  ELSE Bind(Parse(st), LAMBDA e, next :
         CASE Peek(next) = "," -> Listed(Parse, closing, Append(es, e), Pop(next))
           [] Peek(next) = closing -> Ast(Append(es, e), next)
           [] OTHER -> Bad(next))

ListOrMapType(st) ==
  Bind(parseType(Pop(st)), LAMBDA t, next :
    CASE Peek(next) = ":" ->
           Expect("]", Bind(parseType(Pop(next)), LAMBDA u, rest : Ast(Map(t, u), rest)))
      [] Peek(next) = "]" -> Ast(List(t), Pop(next))
      [] OTHER -> Bad(next))

FunctionType(st) ==
  Bind(Expect("->", Expect(")", Listed(parseType, ")", <<>>, Pop(st)))), LAMBDA args, next :
    Bind(parseType(next), LAMBDA ret, rest : Ast(Fn(ret, args), rest)))

parseType(st) ==
  CASE Peek(st) = "id" ->
         (LET name == Text(st)
          IN CASE name \in DOMAIN SimpleTypes -> Ast(SimpleTypes[name], Pop(st))
               [] name \notin DOMAIN SimpleTypes /\ name \in st.known -> Ast(Generic(name, 0), Pop(st))
               [] OTHER -> Bad(Pop(st)))
    [] Peek(st) = "[" -> ListOrMapType(st)
    [] Peek(st) = "(" -> FunctionType(st)
    [] OTHER -> Bad(st)

-----------------------------------------------------------------------------
(* Expressions *)

RECURSIVE parseExpr(_)
RECURSIVE parseStmt(_)

parseParenthesised(st) == Expect(")", parseExpr(Pop(st)))

parseList(st) ==
  Expect("]", Bind(Listed(parseExpr, "]", <<>>, Pop(st)), LAMBDA es, next :
                Ast([op |-> "list", args |-> es], next)))

RECURSIVE StmtsOf(_, _)
StmtsOf(stmts, st) ==
  IF Peek(st) \in {"}", "end"} THEN Ast(stmts, st)
  ELSE Bind(Expect(";", parseStmt(st)), LAMBDA s, next : StmtsOf(Append(stmts, s), next))

\* "=>" and a statement, or statements that all end in ";".
parseBlock(st) ==
  CASE Peek(st) = "=>" -> Bind(parseStmt(Pop(st)), LAMBDA s, next : Ast(<<s>>, next))
    [] Peek(st) = "{" -> Expect("}", StmtsOf(<<>>, Pop(st)))
    [] OTHER -> Bad(st)

\* What it returns is not known; without its ")" the assertion fails.
parseLambda(st) ==
  LET next == Pop(st)
      listed == Listed(parseType, ")", <<>>, Pop(next))
      args == IF Peek(next) # "(" THEN Bind(parseType(next), LAMBDA t, rest : Ast(<<t>>, rest))
              ELSE IF listed.end = "" /\ Peek(listed.st) # ")" THEN Abort(listed.st)
              ELSE Expect(")", listed)
  IN Bind(args, LAMBDA types, rest :
       Bind(parseBlock(rest), LAMBDA stmts, last :
         Ast([op |-> "lambda", type |-> Fn(Generic("_U", 999), types), body |-> stmts], last)))

parsePrimary(st) ==
  CASE Peek(st) = "str" -> parseString(st)
    [] Peek(st) = "chr" -> parseChar(st)
    [] Peek(st) = "num" -> parseNumber(st)
    [] Peek(st) = "bool" -> parseBool(st)
    [] Peek(st) = "(" -> parseParenthesised(st)
    [] Peek(st) = "[" -> parseList(st)
    [] Peek(st) \in {"$", "id"} -> parseIdentifier(st)
    [] Peek(st) = "\\" -> parseLambda(st)
    [] OTHER -> Bad(st)

\* It binds tighter than everything, what follows its operand included.
RECURSIVE parseUnary(_)
parseUnary(st) ==
  IF Peek(st) \in {"!", "-", "+", "~"}
  THEN Bind(parseUnary(Pop(st)), LAMBDA e, next : Ast(Unary(Peek(st), e), next))
  ELSE parsePrimary(st)

\* The arguments of a call.
Call(lhs, st) ==
  Expect(")", Bind(Listed(parseExpr, ")", <<>>, st), LAMBDA es, next :
                Ast([op |-> "call", e |-> lhs, args |-> es], next)))

\* A bound that is an error is seen after the "]", if there is one; "[:]" takes one
\* token more.
Closed(r, also) ==
  IF r.end = "aborted" THEN r
  ELSE IF Peek(r.st) # "]" THEN Bad(r.st)
  ELSE [r EXCEPT !.st = Pop(r.st), !.end = IF also.end = "" THEN @ ELSE also.end]

SliceOf(lhs, first, st) ==
  LET last == IF Peek(st) = "]" THEN Ast(None, st) ELSE parseExpr(st)
      r == Closed(last, first)
  IN [r EXCEPT !.e = [op |-> "slice", e |-> lhs, start |-> first.e, last |-> last.e]]

Subscript(lhs, st) ==
  LET first == parseExpr(st)
      index == Closed(first, first)
  IN CASE Peek(st) = ":" /\ PeekAt(st, 1) = "]" ->
            Ast([op |-> "slice", e |-> lhs, start |-> None, last |-> None], Pop(Pop(Pop(st))))
       [] Peek(st) = ":" /\ PeekAt(st, 1) # "]" -> SliceOf(lhs, Ast(None, st), Pop(st))
       [] OTHER ->
            IF first.end # "aborted" /\ Peek(first.st) = ":" THEN SliceOf(lhs, first, Pop(first.st))
            ELSE [index EXCEPT !.e = [op |-> "subscript", e |-> lhs, index |-> first.e]]

parsePostfix(lhs, st, op) ==
  CASE op = "..." -> Ast([op |-> "splat", e |-> lhs], st)
    [] op = "(" -> Call(lhs, st)
    [] op = "[" -> Subscript(lhs, st)

\* Postfix operators and "^" are taken whatever came before; after an error the
\* operators that follow are still taken.
RECURSIVE parseRhs(_, _)
parseRhs(lhs, prio) ==
  LET oper == Peek(lhs.st)
      prec == get_binary_precedence(oper)
      operand == parseUnary(Pop(lhs.st))
      next == Peek(operand.st)
      tighter == get_binary_precedence(next) > prec \/ next \in is_right_associative
      rhs == IF operand.end = "" /\ tighter THEN parseRhs(operand, OfRightSide(prec)) ELSE operand
  IN CASE lhs.end = "aborted" \/ (prec < prio /\ oper \notin is_right_associative \cup is_postfix_op) ->
            lhs
       [] lhs.end # "aborted" /\ (prec >= prio \/ oper \in is_right_associative \cup is_postfix_op) ->
            IF lhs.end = "" /\ oper \in is_postfix_op
            THEN parseRhs(parsePostfix(lhs.e, Pop(lhs.st), oper), prio)
            ELSE IF rhs.end # "" THEN rhs
            ELSE IF oper # "?" THEN parseRhs(Combined(oper, lhs, rhs), prio)
            ELSE IF Peek(rhs.st) # ":" THEN Bad(rhs.st)
            ELSE LET other == parseExpr(Pop(rhs.st))
                     e == [op |-> "ternary", e |-> lhs.e, l |-> rhs.e, r |-> other.e]
                     end == IF lhs.end = "" \/ other.end = "aborted" THEN other.end ELSE lhs.end
                 IN parseRhs([end |-> end, e |-> e, st |-> other.st], prio)

parseExpr(st) == Bind(parseUnary(st), LAMBDA e, next : parseRhs(Ast(e, next), 0))

-----------------------------------------------------------------------------
(* Statements *)

parseVarDefn(st) ==
  Bind(parseExpr(Pop(Pop(st))), LAMBDA e, next :
    Ast([op |-> "define", name |-> Text(st), e |-> e], next))

\* What follows a name that is neither "," nor ">" is ignored.
RECURSIVE GenericsOf(_, _)
GenericsOf(names, st) ==
  LET next == Pop(st)
  IN CASE Peek(st) = ">" -> Ast(names, next)
       [] Peek(st) = "id" ->
            GenericsOf(Append(names, Text(st)), IF Peek(next) = "," THEN Pop(next) ELSE next)
       [] OTHER -> Bad(st)

\* A name, generics that its types may use, its type and its body.
parseFuncDefn(st) ==
  LET next == Pop(st)
      generics == IF Peek(next) = "<" THEN GenericsOf(<<>>, Pop(next)) ELSE Ast(<<>>, next)
  IN IF Peek(st) # "id" THEN Bad(st)
     ELSE Bind(generics, LAMBDA names, after :
       Bind(parseType([after EXCEPT !.known = @ \cup ToSet(names)]), LAMBDA type, rest :
         IF ~IsFunction(type) THEN Bad(rest)
         ELSE Bind(parseBlock(rest), LAMBDA stmts, last :
           Ast([op |-> "function", name |-> Text(st), type |-> type, generics |-> names,
                body |-> stmts], [last EXCEPT !.known = st.known]))))

parseStmt(st) ==
  CASE Peek(st) = "fn" -> parseFuncDefn(Pop(st))
    [] Peek(st) \in {"{", "=>"} ->
         Bind(parseBlock(st), LAMBDA stmts, next : Ast([op |-> "block", body |-> stmts], next))
    [] Peek(st) = "id" /\ PeekAt(st, 1) = ":=" -> parseVarDefn(st)
    [] OTHER -> parseExpr(st)

RECURSIVE Program(_, _)
Program(stmts, st) ==
  IF Peek(st) = "end" THEN Ast([op |-> "block", body |-> stmts], st)
  ELSE Bind(parseStmt(st), LAMBDA s, next :
         CASE Peek(next) = ";" -> Program(Append(stmts, s), Pop(next))
           [] Peek(next) = "end" -> Program(Append(stmts, s), next)
           [] OTHER -> Bad(next))

\* What is evaluated: statements, separated by ";".
parse(src) ==
  LET lexed == lexString(src)
  IN IF lexed.ok THEN Program(<<>>, State(lexed.tokens)) ELSE Bad(State(<<>>))
=============================================================================
