---------------------------- MODULE ScriptEval ----------------------------
(***************************************************************************)
(* The evaluation of scripts (interp/expr.cpp, interp/function.cpp,        *)
(* interp/macro.cpp, interp/interp.cpp): lines that users type one after   *)
(* the other, and the globals that they leave behind.                      *)
(*                                                                         *)
(* The lines are the state, and what the interpreter holds is a function   *)
(* of them, After(lines): it is what it does under its lock, without any   *)
(* choice.  Trees are those of ScriptParser.                               *)
(*                                                                         *)
(* Numbers are integers, the arithmetic that is like that of "*" is left   *)
(* out, and texts are opaque where they are made by formatting.  The use   *)
(* of a dangling reference is "undefined", a failed assertion "aborted",   *)
(* and an evaluation that comes to one of them goes no further.            *)
(***************************************************************************)
EXTENDS ScriptValues

P == INSTANCE ScriptParser

CONSTANTS Programs,     \* what users have evaluated
          Functions,    \* what they defined with defun,
          Macros,       \* and with def: name -> words
          Commands,     \* the names of both
          GlobalTypes,  \* the types that globals are made of
          Patience,     \* how many calls an evaluation has time for
          MaxDepth,     \* MAX_RECURSION_DEPTH
          MaxLines      \* bound on a behaviour

VARIABLE lines   \* what users typed

\* The commands that are defined.
FunctionOfText(src) == P!parseFuncDefn(P!State(P!lexString(src).tokens)).e
functions ==
  LET defns == {FunctionOfText(src) : src \in Functions}
      Of(name) == CHOOSE f \in defns : f.name = name
      Defun(name) == [type |-> Of(name).type, kind |-> "function", body |-> Of(name).body]
      Def(name) == [type |-> Fn(List(String), <<List(String)>>), kind |-> "macro", body |-> Macros[name]]
  IN [name \in {f.name : f \in defns} |-> Defun(name)] @@ [name \in DOMAIN Macros |-> Def(name)]

\* The result of a step: how it ended ("" for well), its value, the memory.
Ok(v, m) == [end |-> "", v |-> v, m |-> m]
Fail(m) == [end |-> "error", v |-> VoidValue, m |-> m]
Undefined(m) == [end |-> "undefined", v |-> VoidValue, m |-> m]
Aborted(m) == [end |-> "aborted", v |-> VoidValue, m |-> m]
Then(r, Do(_, _)) == IF r.end = "" THEN Do(r.v, r.m) ELSE r
If(sound, m, r) == IF sound THEN r ELSE Undefined(m)

Top(m) == Len(m.frames)
Frame(m) == m.frames[Top(m)]
Scope(m) == Len(Frame(m).vars)
In(frame, scope, name) == [NoRef EXCEPT !.frame = frame, !.scope = scope, !.name = name]
Now(m, ref) == [ref EXCEPT !.at = m.clock]

-----------------------------------------------------------------------------
(* Names *)

BuiltinType(args, ret) == Fn(ret, args)
builtin_fns ==
  [int |-> [kind |-> "overloads", type |-> Fn(Number, <<Generic("T", 0)>>)],
   str |-> [kind |-> "overloads", type |-> Fn(String, <<Generic("T", 0)>>)],
   abs |-> [kind |-> "builtin", type |-> Fn(Number, <<Number>>)],
   __builtin_dismantle |-> [kind |-> "builtin", type |-> Fn(List(String), <<VariadicList(String)>>)]]
Builtin(name) ==
  FunctionOf(builtin_fns[name].type,
             [NoFunction EXCEPT !.name = name, !.kind = builtin_fns[name].kind,
                                !.args = builtin_fns[name].type.args])
Defined(name) ==
  FunctionOf(functions[name].type,
             [NoFunction EXCEPT !.name = name, !.kind = functions[name].kind,
                                !.args = functions[name].type.args, !.body = functions[name].body])

\* The scopes from the innermost, the globals, the builtins, the commands.
resolveVariable(name, m) ==
  LET scopes == {i \in 1..Scope(m) : name \in DOMAIN Frame(m).vars[i]}
      To(ref) == LvalueTo(Cell(m, ref).type, Now(m, ref))
  IN CASE scopes # {} ->
            Ok(To(In(Top(m), CHOOSE i \in scopes : \A j \in scopes : j <= i, name)), m)
       [] scopes = {} /\ name \in DOMAIN m.globals -> Ok(To(In(0, 1, name)), m)
       [] OTHER -> IF name \in DOMAIN builtin_fns THEN Ok(Builtin(name), m)
                   ELSE IF name \in DOMAIN functions THEN Ok(Defined(name), m) ELSE Fail(m)

\* "$0" and so on are copies, of references too.
Argument(k, m) == IF k < Len(Frame(m).args) THEN Ok(Frame(m).args[k + 1], m) ELSE Fail(m)

\* A local variable keeps what it is given, a reference too.  The table that it
\* goes into may move the others.
VarDefn(name, v, m) ==
  Ok(VoidValue,
     Stamp([m EXCEPT !.frames[Top(m)].vars[Scope(m)] = (name :> v) @@ @], In(Top(m), Scope(m), "")))

-----------------------------------------------------------------------------
(* Operators, on values *)

UnaryOp(sign, v, m) ==
  LET t == Target(m, v)
  IN If(SoundInside(m, v), m,
        CASE sign = "-" /\ t.type = Number -> Ok(NumberOf(-t.data), m)
          [] sign = "+" /\ t.type = Number -> Ok(t, m)
          [] sign = "!" /\ t.type = Boolean -> Ok(BoolOf(~t.data), m)
          [] OTHER -> Fail(m))

Joinable(l, r) ==
  /\ IsList(r.type)
  /\ \/ IsSame(l.type.elm, r.type.elm)
     \/ CastDist(l.type, r.type) >= 0 \/ CastDist(r.type, l.type) >= 0
     \/ CastDist(l.type.elm, r.type.elm) >= 0 \/ CastDist(r.type.elm, l.type.elm) >= 0

\* What is appended to a list goes where its reference leads, and moves what was
\* there.
Appended(l, elements, m) ==
  LET place == Place(m, l.ref)
      list == Read(m, place)
  IN Stamp(Write(m, place, [list EXCEPT !.data = @ \o elements]), place)

\* "plus equals will modify, plus will make a new temporary."
AppendAll(l, r, m) ==
  IF ~Joinable(l, r) THEN Fail(m)
  ELSE If(Sound(m, l) /\ SoundInside(m, r), m, Ok(l, Appended(l, Decay(m, r).data, m)))

\* Mutant: plus modifies a list that it can modify.
PlusInPlace(l, r, m) ==
  IF ~Joinable(l, r) THEN Fail(m)
  ELSE IF IsLvalue(l)
       THEN If(Sound(m, l) /\ SoundInside(m, r), m, Ok(l, Appended(l, Decay(m, r).data, m)))
       ELSE Ok(ListOf(l.type.elm, Decay(m, l).data \o Decay(m, r).data), m)

Plus(l, r, m) ==
  IF ~Joinable(l, r) THEN Fail(m)
  ELSE If(SoundInside(m, l) /\ SoundInside(m, r), m,
          Ok(ListOf(l.type.elm, Decay(m, l).data \o Decay(m, r).data), m))

Arithmetic(sign, a, b) == CASE sign = "+" -> a + b [] sign = "-" -> a - b [] OTHER -> a * b

perform_binop(sign, l, r, m) ==
  CASE sign = "+" /\ IsList(l.type) -> Plus(l, r, m)
    [] l.type = Number /\ r.type = Number ->
         If(Sound(m, l) /\ Sound(m, r), m,
            Ok(NumberOf(Arithmetic(sign, Payload(m, l), Payload(m, r))), m))
    [] l.type = Char /\ r.type = Number /\ sign = "-" ->
         If(Sound(m, l) /\ Sound(m, r), m, Ok(CharOf(Payload(m, l) - Payload(m, r)), m))
    [] OTHER -> Fail(m)

\* Mutant: what is assigned is not cast to the type of the variable.
AssignUncast(l, v, m) ==
  If(Alive(m, l.ref) /\ SoundInside(m, v), m, Ok(l, Stamp(Write(m, l.ref, Decay(m, v)), l.ref)))

\* What the reference leads to is replaced, and be it another reference.
Assign(l, v, m) ==
  LET cast == CastTo(m, v, l.type)
  IN IF cast = <<>> THEN Fail(m)
     ELSE If(Alive(m, l.ref) /\ SoundInside(m, Head(cast)), m,
             Ok(l, Stamp(Write(m, l.ref, Decay(m, Head(cast))), l.ref)))

AssignOp(sign, l, r, m) ==
  CASE ~IsLvalue(l) -> Fail(m)
    [] IsLvalue(l) /\ sign = "=" -> Assign(l, r, m)
    [] IsLvalue(l) /\ sign = "+" /\ IsList(l.type) -> AppendAll(l, r, m)
    [] OTHER -> Then(perform_binop(sign, l, r, m), LAMBDA v, n : Assign(l, v, n))

\* Elements that are references are compared without following them.
RECURSIVE SameValue(_, _)
SameValue(a, b) ==
  /\ IsSame(a.type, b.type) /\ IsLvalue(a) = IsLvalue(b)
  /\ CASE IsVoid(a.type) -> TRUE
       [] IsFunction(a.type) -> IsLvalue(a) /\ a.ref = b.ref
       [] IsList(a.type) -> Len(a.data) = Len(b.data)
                            /\ \A i \in DOMAIN a.data : SameValue(a.data[i], b.data[i])
       [] IsMap(a.type) -> Len(a.data) = Len(b.data)
                           /\ \A i \in DOMAIN a.data : SameValue(a.data[i].value, b.data[i].value)
       [] OTHER -> a.data = b.data

\* A comparison of two operands: "==", "!=" or "<", which maps have too, but not
\* here.
Compare(sign, l, r, m) ==
  LET a == Target(m, l)
      b == Target(m, r)
      alike == a.type.kind = b.type.kind \/ (IsList(a.type) /\ IsList(b.type))
      same == IF IsList(a.type) THEN SameValue([a EXCEPT !.type = b.type], b) ELSE SameValue(a, b)
      mixed == {a.type.kind, b.type.kind} = {"num", "char"}
  IN If(Sound(m, l) /\ Sound(m, r), m,
        CASE sign \in {"==", "!="} /\ alike /\ ~IsFunction(a.type) ->
               Ok(BoolOf(same = (sign = "==")), m)
          [] sign = "<" /\ alike /\ a.type.kind \in {"num", "char", "list", "vla"} ->
               Ok(BoolOf(IF IsList(a.type) THEN LessLists(a.data, b.data) ELSE Less(a, b)), m)
          [] sign = "<" /\ mixed -> Ok(BoolOf(a.data < b.data), m)
          [] OTHER -> Fail(m))

-----------------------------------------------------------------------------
(* Lists and maps *)

\* Of an lvalue, references to its parts.
Part(base, i, v, m) ==
  IF IsLvalue(base)
  THEN LvalueTo(v.type, Now(m, [Place(m, base.ref) EXCEPT !.path = Append(@, i)]))
  ELSE v

SubscriptList(base, index, m) ==
  LET list == Payload(m, base)
      n == Payload(m, index)
      i == IF n < 0 THEN Len(list) + n ELSE n
  IN IF index.type # Number THEN Fail(m)
     ELSE If(Sound(m, base) /\ Sound(m, index), m,
             IF i \in 0..(Len(list) - 1) THEN Ok(Part(base, i + 1, list[i + 1], m), m) ELSE Fail(m))

\* A key that is not there is put there, and be it to read it.
SubscriptMap(base, index, m) ==
  LET map == Target(m, base)
      found == Entry(map.data, index)
      entry == [key |-> index, value |-> default_of(map.type.elm)]
      larger == [map EXCEPT !.data = Append(@, entry)]
      grown == IF IsLvalue(base) THEN Write(m, Place(m, base.ref), larger) ELSE m
  IN IF ~IsSame(base.type.key, index.type) THEN Fail(m)
     ELSE If(Sound(m, base), m,
             IF found # 0 THEN Ok(Part(base, found, map.data[found].value, m), m)
             ELSE Ok(Part(base, Len(larger.data), entry.value, m), grown))

SubscriptOp(base, index, m) ==
  CASE IsList(base.type) -> SubscriptList(base, index, m)
    [] IsMap(base.type) -> SubscriptMap(base, index, m)
    [] OTHER -> Fail(m)

\* The indices, from 1, that a slice of a list of the size takes.
SliceFirst(size, start) ==
  CASE start >= 0 -> start [] start < 0 /\ -start <= size -> size + start [] OTHER -> 0
SliceLast(size, end) == IF end < 0 THEN size + end ELSE IF end < size THEN end ELSE size
Slice(size, start, end) == (SliceFirst(size, start) + 1)..SliceLast(size, end)

SliceOf(base, start, end, m) ==
  LET list == Payload(m, base)
      first == SliceFirst(Len(list), start)
      part == [i \in 1..Cardinality(Slice(Len(list), start, end)) |->
                 Part(base, first + i, list[first + i], m)]
  IN If(Sound(m, base), m, Ok(ListOf(base.type.elm, part), m))

\* append(): what cannot be cast to an element fails.
ListAppend(base, args, m) ==
  LET cast == CastAll(m, args, [i \in DOMAIN args |-> base.type.elm])
  IN IF ~cast.ok THEN Fail(m)
     ELSE If(Sound(m, base), m, Ok(LvalueTo(base.type, Now(m, base.ref)), Appended(base, cast.values, m)))

LitList(values, m) ==
  CASE values = <<>> -> Ok(ListOf(Void, <<>>), m)
    [] values # <<>> /\ (\A i \in DOMAIN values : IsSame(values[i].type, values[1].type)) ->
         Ok(ListOf(values[1].type, values), m)
    [] OTHER -> Fail(m)

-----------------------------------------------------------------------------
(* Calls *)

\* The builtins, after they coerced their arguments again.
Action(name, args, m) ==
  CASE name = "__builtin_dismantle" -> Ok(ListOf(args[1].type.elm, Payload(m, args[1])), m)
    [] name = "str" -> Ok(IF args[1].type.kind = "list" /\ args[1].type.elm = Char THEN args[1]
                          ELSE SomeText, m)
    [] name = "int" /\ args[1].type = Boolean -> Ok(NumberOf(IF Payload(m, args[1]) THEN 1 ELSE 0), m)
    [] name = "int" /\ IsList(args[1].type) -> Ok(NumberOf(0), m)
    [] OTHER -> Ok(NumberOf(Magnitude(Payload(m, args[1]))), m)

RunBuiltin(fn, target, args, m) ==
  LET coerced == coerceTypesForFunctionCall(m, target, args)
  IN IF ~coerced.ok THEN Fail(m)
     ELSE If(\A i \in DOMAIN args : SoundInside(m, args[i]), m, Action(fn.name, coerced.values, m))

RunOverloads(fn, args, m) ==
  LET best == Nearest(IF fn.name = "int" THEN IntOverloads ELSE StrOverloads,
                      [i \in DOMAIN args |-> args[i].type])
  IN IF best = <<>> THEN Fail(m) ELSE RunBuiltin(fn, Head(best), args, m)

\* The context of a call is a copy of the caller's, one deeper.
Enter(m, args, code) ==
  [m EXCEPT !.frames = Append(@, [Frame(m) EXCEPT !.args = args, !.depth = @ + 1, !.code = code])]
\* What the callee changed in the frames of its callers stays.
Return(r, m) ==
  [r EXCEPT !.m = Stamp([@ EXCEPT !.frames = SubSeq(@, 1, Top(m))], In(Top(m) + 1, 0, ""))]

Texts(values) == [i \in DOMAIN values |-> SomeText]

RECURSIVE Eval(_, _)

\* The values of expressions from the left to the right.
RECURSIVE EvalAll(_, _)
EvalAll(es, m) ==
  IF es = <<>> THEN Ok(<<>>, m)
  ELSE Then(Eval(Head(es), m), LAMBDA v, n :
         Then(EvalAll(Tail(es), n), LAMBDA vs, k : Ok(<<v>> \o vs, k)))

\* The scope of the block is not popped after a last expression.
RECURSIVE Statements(_, _)
Statements(stmts, m) ==
  IF stmts = <<>>
  THEN Ok(VoidValue, Stamp([m EXCEPT !.frames[Top(m)].vars = Front(@)], In(Top(m), Scope(m), "")))
  ELSE Then(Eval(Head(stmts), m), LAMBDA v, n :
         IF Len(stmts) = 1 /\ Head(stmts).op # "define" THEN Ok(v, n)
         ELSE Statements(Tail(stmts), n))
Block(stmts, m) == Statements(stmts, [m EXCEPT !.frames[Top(m)].vars = Append(@, <<>>)])

\* evaluateExpr: the tree is gone when it has been evaluated.
evaluateExpr(src, m) ==
  LET parsed == P!parse(src)
      tree == m.asts + 1
      r == Eval(parsed.e, [m EXCEPT !.asts = tree, !.running = @ \cup {tree},
                                    !.frames[Top(m)].code = tree])
  IN CASE parsed.end = "error" -> Fail(m)
       [] parsed.end = "aborted" -> Aborted(m)
       [] OTHER -> [r EXCEPT !.m.running = @ \ {tree}, !.m.frames[Top(m)].code = Frame(m).code]

\* evaluateMacro: after one "\" a word is an expression, of which lists are taken
\* apart; one that fails is an error in the text.
IsExpression(word) == P!At(word, 1) = P!Escape /\ P!At(word, 2) # P!Escape
RECURSIVE Words(_, _)
Words(words, m) ==
  IF words = <<>> THEN Ok(<<>>, m)
  ELSE LET word == Head(words)
           r == IF IsExpression(word) THEN evaluateExpr(P!From(word, 2), m) ELSE Ok(SomeText, m)
           list == IF IsList(r.v.type) /\ r.v.type.elm # Char THEN Texts(Payload(r.m, r.v))
                   ELSE <<SomeText>>
       IN CASE r.end \in {"undefined", "aborted"} -> r
            [] r.end = "error" ->
                 Then(Words(Tail(words), r.m), LAMBDA vs, n : Ok(<<SomeText>> \o vs, n))
            [] OTHER ->
                 If(SoundInside(r.m, r.v), r.m,
                    Then(Words(Tail(words), r.m), LAMBDA vs, n : Ok(list \o vs, n)))

\* What a function, a macro or a lambda does in its context.
Body(fn, m) ==
  IF fn.kind = "macro" THEN Then(Words(fn.body, m), LAMBDA vs, n : Ok(ListOf(String, vs), n))
  ELSE Block(fn.body, m)

\* The body of a lambda is part of the tree that it was made in; that of a
\* function stays.
Run(fn, args, m) ==
  CASE fn.kind = "overloads" -> RunOverloads(fn, args, m)
    [] fn.kind = "builtin" -> RunBuiltin(fn, fn.args, args, m)
    [] fn.home \notin m.running \cup {0} -> Undefined(m)
    [] OTHER -> Return(Body(fn, Enter(m, args, fn.home)), m)

\* A macro takes texts, an overload set what it is given; a lambda is a builtin
\* and coerces twice.
Apply(fn, args, m) ==
  LET once == coerceTypesForFunctionCall(m, fn.args, args)
      twice == coerceTypesForFunctionCall(m, fn.args, once.values)
  IN CASE fn.kind = "macro" -> If(\A i \in DOMAIN args : SoundInside(m, args[i]), m,
                                  Run(fn, Texts(args), m))
       [] fn.kind = "overloads" -> Run(fn, args, m)
       [] fn.kind = "lambda" -> IF once.ok /\ twice.ok THEN Run(fn, twice.values, m) ELSE Fail(m)
       [] OTHER -> IF once.ok THEN Run(fn, once.values, m) ELSE Fail(m)

\* A splat among the arguments is replaced by its elements.
Splatted(es, values) ==
  FlattenSeq([i \in DOMAIN es |-> IF es[i].op = "splat" THEN values[i].data ELSE <<values[i]>>])

FunctionCall(f, es, m) ==
  LET fn == Payload(m, f)
  IN IF ~IsFunction(f.type) THEN Fail(m)
     ELSE If(Sound(m, f), m,
             IF fn.kind = "none" \/ m.time = 0 \/ Frame(m).depth > MaxDepth THEN Fail(m)
             ELSE Then(EvalAll(es, [m EXCEPT !.time = @ - 1]), LAMBDA vs, n :
                    Apply(fn, Splatted(es, vs), n)))

\* 1 < 2 < 3 is a chain of "&&", and its middle operands are evaluated twice.
RECURSIVE ComparisonOp(_, _, _)
ComparisonOp(es, signs, m) ==
  IF signs = <<>> THEN Ok(BoolOf(TRUE), m)
  ELSE Then(EvalAll(SubSeq(es, 1, 2), m), LAMBDA vs, n :
         Then(Compare(Head(signs), vs[1], vs[2], n), LAMBDA v, k :
           IF v.data THEN ComparisonOp(Tail(es), Tail(signs), k) ELSE Ok(v, k)))

\* An operand of "&&", "||" and "?:".
Condition(v, m, r) == IF v.type # Boolean THEN Fail(m) ELSE If(Sound(m, v), m, r)

ShortCircuit(e, m) ==
  Then(Eval(e.l, m), LAMBDA v, n :
    Condition(v, n,
      IF Payload(n, v) = (e.sign = "||") THEN Ok(BoolOf(Payload(n, v)), n)
      ELSE Then(Eval(e.r, n), LAMBDA w, k : Condition(w, k, Ok(BoolOf(Payload(k, w)), k)))))

\* The right side is evaluated even if the left one failed.
BinaryOp(e, m) ==
  LET l == Eval(e.l, m)
      r == Eval(e.r, l.m)
  IN IF l.end \in {"undefined", "aborted"} THEN l
     ELSE IF r.end \in {"undefined", "aborted"} THEN r
     ELSE IF l.end = "error" THEN Fail(r.m)
     ELSE Then(r, LAMBDA v, n : perform_binop(e.sign, l.v, v, n))

\* A bound of a slice, or what it is if it is left out.
Bound(e, default, m) ==
  IF e.op = "none" THEN Ok(default, m)
  ELSE Then(Eval(e, m), LAMBDA v, n :
         IF v.type # Number THEN Fail(n) ELSE If(Sound(n, v), n, Ok(Payload(n, v), n)))

SliceOp(e, base, m) ==
  LET size == Len(Payload(m, base))
      empty == ListOf(base.type.elm, <<>>)
  IN IF ~IsList(base.type) THEN Fail(m)
     ELSE If(Sound(m, base), m,
             IF size = 0 THEN Ok(empty, m)
             ELSE Then(Bound(e.start, 0, m), LAMBDA start, n :
                    IF start >= size THEN Ok(empty, n)
                    ELSE Then(Bound(e.last, size, n), LAMBDA last, k : SliceOf(base, start, last, k))))

\* A list has the methods append, whose arguments are used even if they failed,
\* and len.
DotOp(e, base, m) ==
  LET method == IF e.r.op = "call" /\ e.r.e.op = "var" THEN e.r.e.name ELSE ""
      args == EvalAll(e.r.args, m)
  IN CASE ~IsList(base.type) \/ method \notin {"append", "len"} -> Fail(m)
       [] IsList(base.type) /\ method = "append" ->
            IF ~IsLvalue(base) \/ e.r.args = <<>> THEN Fail(m)
            ELSE IF args.end = "error" THEN Aborted(args.m)
            ELSE Then(args, LAMBDA vs, n : ListAppend(base, vs, n))
       [] IsList(base.type) /\ method = "len" ->
            IF e.r.args # <<>> THEN Fail(m)
            ELSE If(Sound(m, base), m, Ok(NumberOf(Len(Payload(m, base))), m))

SplatOp(v, m) ==
  IF ~IsList(v.type) THEN Fail(m)
  ELSE If(Sound(m, v), m, Ok(VariadicOf(v.type.elm, Payload(m, v)), m))

Lambda(e, m) ==
  Ok(FunctionOf(e.type, [name |-> "__lambda", args |-> e.type.args, kind |-> "lambda",
                         body |-> e.body, home |-> Frame(m).code]), m)

Eval(e, m) ==
  CASE e.op = "value" -> Ok(e.v, m)
    [] e.op = "var" -> resolveVariable(e.name, m)
    [] e.op = "arg" -> Argument(e.k, m)
    [] e.op = "list" -> Then(EvalAll(e.args, m), LitList)
    [] e.op = "lambda" -> Lambda(e, m)
    [] e.op = "unary" -> Then(Eval(e.e, m), LAMBDA v, n : UnaryOp(e.sign, v, n))
    [] e.op = "binary" -> BinaryOp(e, m)
    [] e.op = "logical" -> ShortCircuit(e, m)
    [] e.op = "ternary" -> Then(Eval(e.e, m), LAMBDA v, n :
                             Condition(v, n, Eval(IF Payload(n, v) THEN e.l ELSE e.r, n)))
    [] e.op = "compare" -> ComparisonOp(e.args, e.signs, m)
    [] e.op = "assign" -> Then(EvalAll(<<e.l, e.r>>, m), LAMBDA vs, n :
                            AssignOp(e.sign, vs[1], vs[2], n))
    [] e.op = "subscript" -> Then(EvalAll(<<e.e, e.index>>, m), LAMBDA vs, n :
                               SubscriptOp(vs[1], vs[2], n))
    [] e.op = "slice" -> Then(Eval(e.e, m), LAMBDA v, n : SliceOp(e, v, n))
    [] e.op = "splat" -> Then(Eval(e.e, m), SplatOp)
    [] e.op = "dot" -> Then(Eval(e.e, m), LAMBDA v, n : DotOp(e, v, n))
    [] e.op = "call" -> Then(Eval(e.e, m), LAMBDA v, n : FunctionCall(v, e.args, n))
    [] e.op \in {"block", "function"} -> Block(e.body, m)
    [] e.op = "define" ->
         IF Scope(m) = 0 \/ e.name \in DOMAIN Last(Frame(m).vars) THEN Fail(m)
         ELSE Then(Eval(e.e, m), LAMBDA v, n : VarDefn(e.name, v, n))

-----------------------------------------------------------------------------
(* The interpreter: one evaluation at a time, under its lock *)

\* What is there between two lines; no more after undefined behaviour.
Start ==
  [globals |-> [name \in DOMAIN GlobalTypes |-> default_of(GlobalTypes[name])],
   asts    |-> 0,   \* how many trees there have been
   outcome |-> ""]  \* how the last evaluation ended

\* addGlobal, with the default of a type.
AddGlobal(name, type, s) ==
  IF name \in DOMAIN s.globals \/ HasGenerics(type) THEN s
  ELSE [s EXCEPT !.globals = (name :> default_of(type)) @@ @]

\* removeGlobal: the value is not freed.
RemoveGlobal(name, s) == [s EXCEPT !.globals = Restrict(@, DOMAIN @ \ {name})]

\* The memory of an evaluation: an empty context, with time for some calls.
Fresh(time, s) ==
  [frames |-> <<[vars |-> <<>>, args |-> <<>>, depth |-> 0, code |-> 0]>>,
   globals |-> s.globals, clock |-> 0, moved |-> {}, asts |-> s.asts, running |-> {}, time |-> time]

\* The answer is made from the value.
Conclude(r) ==
  [globals |-> r.m.globals,
   asts    |-> r.m.asts,
   outcome |-> IF r.end = "" /\ ~SoundInside(r.m, r.v) THEN "undefined"
               ELSE IF r.end = "" THEN "value" ELSE r.end]

EvalCommand(src, time, s) == Conclude(evaluateExpr(src, Fresh(time, s)))

\* What is run as a command is given texts, whatever it takes, and has the context
\* of the message.
RunCommand(name, time, count, s) ==
  Conclude(Body(Defined(name).data,
                [Fresh(time, s) EXCEPT !.asts = @ + 1,
                   !.frames[1].args = [i \in 1..count |-> SomeText]]))

Line(s, line) ==
  CASE s.outcome \in {"undefined", "aborted"} -> s
    [] line.op = "global" -> AddGlobal(line.name, GlobalTypes[line.name], s)
    [] line.op = "undef" -> RemoveGlobal(line.name, s)
    [] line.op = "eval" -> EvalCommand(line.src, line.time, s)
    [] line.op = "run" -> RunCommand(line.name, line.time, line.count, s)
After(typed) == FoldLeft(Line, Start, typed)

-----------------------------------------------------------------------------
(* Lines *)

Init == lines = <<>>

Type(line) == Len(lines) < MaxLines /\ lines' = Append(lines, line)

Next ==
  \/ \E name \in DOMAIN GlobalTypes, op \in {"global", "undef"} : Type([op |-> op, name |-> name])
  \/ \E time \in Patience, src \in Programs : Type([op |-> "eval", src |-> src, time |-> time])
  \/ \E time \in Patience, name \in Commands, count \in 0..1 :
       Type([op |-> "run", name |-> name, time |-> time, count |-> count])

Spec == Init /\ [][Next]_lines

-----------------------------------------------------------------------------
(* What a program does not do *)

Children(e) ==
  CASE e.op \in {"value", "var", "arg", "none", "lambda"} -> {}
    [] e.op \in {"list", "compare"} -> ToSet(e.args)
    [] e.op \in {"binary", "logical", "assign"} -> {e.l, e.r}
    [] e.op = "ternary" -> {e.e, e.l, e.r}
    [] e.op = "subscript" -> {e.e, e.index}
    [] e.op = "slice" -> {e.e, e.start, e.last}
    [] e.op = "call" -> {e.e} \cup ToSet(e.args)
    [] e.op = "dot" -> {e.e} \cup ToSet(e.r.args)
    [] e.op \in {"block", "function"} -> ToSet(e.body)
    [] OTHER -> {e.e}

\* No assignment, no append, no key of a map and no call but of a builtin.
RECURSIVE Reads(_)
Reads(e) ==
  /\ e.op # "assign" /\ ~(e.op = "dot" /\ e.r.e.name = "append")
  /\ ~(e.op = "subscript" /\ e.e.op = "var" /\ e.e.name \in DOMAIN GlobalTypes
       /\ IsMap(GlobalTypes[e.e.name]))
  /\ e.op = "call" => e.e.op = "var" /\ e.e.name \in DOMAIN builtin_fns
  /\ \A child \in Children(e) : Reads(child)

OnlyReads(line) ==
  line.op = "eval" /\ P!parse(line.src).end = "" /\ Reads(P!parse(line.src).e)

\* An expression that assigns nothing leaves all globals as they are, although
\* operators are given references to them, slices hold references, and calls and
\* lists pass them on.
ReadingChangesNothing ==
  [][lines' # lines /\ OnlyReads(Last(lines')) =>
       After(lines').globals = After(lines).globals]_lines

HasTypeOf(v, type) ==
  IF IsFunction(v.type) THEN CastDist(v.type, type) = 0 ELSE IsSame(v.type, type)
HaveTheirTypes(globals) ==
  \A name \in DOMAIN globals : HasTypeOf(globals[name], GlobalTypes[name])

\* The type of a global is the one it was made with, but for what a function
\* returns: through casts, references to it, appends and empty lists.
GlobalsKeepTheirTypes ==
  [][lines' # lines => HaveTheirTypes(After(lines').globals)]_lines
=============================================================================
