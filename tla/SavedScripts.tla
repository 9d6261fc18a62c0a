---------------------------- MODULE SavedScripts ----------------------------
(***************************************************************************)
(* The interpreter's part of a save: commands with the trees of their      *)
(* functions (interp/ser.cpp, macro.cpp, function.cpp), types, values, and *)
(* the order in which they are written and read (interp/interp.cpp).       *)
(*                                                                         *)
(* Trees are those of ScriptParser.  A pointer that cannot be read is null *)
(* and the reader goes on after it, where it stopped.                      *)
(*                                                                         *)
(* The state is what was done, step after step; what the interpreter and   *)
(* the disk then hold is a function of it, After(steps).                   *)
(***************************************************************************)
EXTENDS ScriptValues

F == INSTANCE RecordFormats
P == INSTANCE ScriptParser

CONSTANTS Functions,     \* what is defined with defun,
          Macros,        \* and with def: name -> the code it may have
          Permissions,   \* what chmod may give
          Values,        \* values that may be put into a global
          Names,         \* of globals
          Commands,      \* the names of functions, macros and builtins
          DefaultPerms,  \* getDefaultBuiltinPermissions()
          NoPerms,       \* of a new function,
          MacroPerms,    \* and of a new macro
          MaxSteps       \* bound on a behaviour

VARIABLE steps

-----------------------------------------------------------------------------
(* Types and values *)

RECURSIVE WriteType(_), ReadType(_), ReadTypes(_, _)
WriteType(t) ==
  <<F!Item("T_" \o t.kind, 0)>> \o
  (CASE IsList(t) -> WriteType(t.elm)
     [] IsMap(t) -> WriteType(t.key) \o WriteType(t.elm)
     [] IsFunction(t) -> WriteType(t.elm) \o F!WriteU64(Len(t.args))
                         \o FlattenSeq([i \in DOMAIN t.args |-> WriteType(t.args[i])])
     [] IsGeneric(t) -> F!Write(F!Str, [text |-> t.name, size |-> 1]) \o F!WriteU64(t.group)
     [] OTHER -> <<>>)

ReadTypes(n, s) ==
  LET first == ReadType(s)
      others == IF first.ok THEN ReadTypes(n - 1, first.rest) ELSE first
  IN IF n = 0 THEN F!Got(<<>>, s)
     ELSE IF others.ok THEN F!Got(<<first.value>> \o others.value, others.rest) ELSE others

\* The parts of a type, made into one.
Made(r, Make(_)) == IF r.ok THEN F!Got(Make(r.value), r.rest) ELSE r

ReadType(s) ==
  CASE F!TagIs(s, {"T_void"}) -> F!Got(Void, Tail(s))
    [] F!TagIs(s, {"T_bool"}) -> F!Got(Boolean, Tail(s))
    [] F!TagIs(s, {"T_char"}) -> F!Got(Char, Tail(s))
    [] F!TagIs(s, {"T_num"}) -> F!Got(Number, Tail(s))
    [] F!TagIs(s, {"T_list"}) -> Made(ReadTypes(1, Tail(s)), LAMBDA ts : List(ts[1]))
    [] F!TagIs(s, {"T_vla"}) -> Made(ReadTypes(1, Tail(s)), LAMBDA ts : VariadicList(ts[1]))
    [] F!TagIs(s, {"T_map"}) -> Made(ReadTypes(2, Tail(s)), LAMBDA ts : Map(ts[1], ts[2]))
    [] F!TagIs(s, {"T_fn"}) ->
         (LET ret == ReadType(Tail(s))
              count == IF ret.ok THEN F!ReadU64(ret.rest) ELSE ret
              args == IF count.ok THEN ReadTypes(count.value, count.rest) ELSE count
          IN Made(args, LAMBDA ts : Fn(ret.value, ts)))
    [] F!TagIs(s, {"T_generic"}) ->
         Made(F!ReadMany(<<F!Str, F!U64>>, Tail(s)), LAMBDA r : Generic(r[1].text, r[2]))
    [] OTHER -> F!Unread(s)

\* A function is written by its name.
RECURSIVE WriteValue(_)
WriteValue(v) ==
  LET all(values) == FlattenSeq([i \in DOMAIN values |-> WriteValue(values[i])])
      entry(e) == <<e.key, e.value>>
  IN <<F!Item("INTERP_VALUE", 0)>> \o WriteType(v.type) \o
     (CASE v.type.kind = "bool" -> F!Write(F!Bool, v.data)
        [] v.type.kind = "char" -> <<F!Item("U32", v.data)>>
        [] v.type.kind = "num" -> <<F!Item("F64", v.data), F!Item("F64", 0)>>
        [] IsMap(v.type) -> <<F!Item("STL_ORD_MAP", 0)>> \o F!WriteU64(Len(v.data))
                            \o FlattenSeq([i \in DOMAIN v.data |-> all(entry(v.data[i]))])
        [] IsList(v.type) -> <<F!Item("STL_VECTOR", 0)>> \o F!WriteU64(Len(v.data)) \o all(v.data)
        [] IsFunction(v.type) -> F!Write(F!Str, [text |-> v.data.name, size |-> 1])
        [] OTHER -> <<>>)

Signature(command) == IF command.kind = "macro" THEN Fn(List(String), <<List(String)>>)
                      ELSE command.defn.type

\* Value::deserialise looks a function up among these commands: of a name that is
\* not there remains void.
FunctionNamed(name, cmds) ==
  IF name \in DOMAIN cmds THEN FunctionOf(Signature(cmds[name]), [name |-> name, is |-> cmds[name]])
  ELSE VoidValue

RECURSIVE ReadValue(_, _), ReadValues(_, _, _)
ReadValues(n, s, cmds) ==
  LET first == ReadValue(s, cmds)
      others == IF first.ok THEN ReadValues(n - 1, first.rest, cmds) ELSE first
  IN IF n = 0 THEN F!Got(<<>>, s)
     ELSE IF others.ok THEN F!Got(<<first.value>> \o others.value, others.rest) ELSE others

ReadElements(tag, per, s, cmds) ==
  LET size == F!ReadSize(tag, s)
  IN IF size.ok THEN ReadValues(per * size.value, size.rest, cmds) ELSE size

ReadValue(s, cmds) ==
  LET t == IF F!TagIs(s, {"INTERP_VALUE"}) THEN ReadType(Tail(s)) ELSE F!Unread(s)
      rest == t.rest
      pairs(es) == [i \in 1 .. Len(es) \div 2 |-> [key |-> es[2 * i - 1], value |-> es[2 * i]]]
  IN IF ~t.ok THEN t
     ELSE CASE t.value.kind = "void" -> F!Got(VoidValue, rest)
            [] t.value.kind = "bool" -> Made(F!ReadBool(rest), BoolOf)
            [] t.value.kind = "char" ->
                 IF F!TagIs(rest, {"U32"}) THEN F!Got(CharOf(Head(rest).value), Tail(rest)) ELSE F!Unread(rest)
            [] t.value.kind = "num" ->
                 IF F!TagIs(rest, {"F64"}) /\ F!TagIs(Tail(rest), {"F64"})
                 THEN F!Got(NumberOf(Head(rest).value), Tail(Tail(rest))) ELSE F!Unread(rest)
            [] IsList(t.value) -> Made(ReadElements("STL_VECTOR", 1, rest, cmds), LAMBDA es : Value(t.value, es))
            [] IsMap(t.value) -> Made(ReadElements("STL_ORD_MAP", 2, rest, cmds),
                                      LAMBDA es : Value(t.value, pairs(es)))
            [] IsFunction(t.value) -> Made(F!ReadString(rest), LAMBDA r : FunctionNamed(r.text, cmds))
            [] OTHER -> F!Failed(t)

-----------------------------------------------------------------------------
(* Trees: of each class the fields that are written, and those that are read *)

Field(kind, name) == [kind |-> kind, name |-> name]
Sub(name) == Field("expr", name)
Sign == Field("string", "sign")  \* with the token type of it
Node(written, read) == [written |-> written, read |-> read]

LitChar == Node(<<Field("char", "v")>>, <<Field("char", "v")>>)
LitString == Node(<<Field("string", "v")>>, <<Field("string", "v")>>)
\* Elements that are null are noticed when all have been read.
LitList == Node(<<Field("exprs", "args")>>, <<Field("exprs", "args"), Field("no nulls", "args")>>)
LitInteger == Node(<<Field("integer", "v")>>, <<Field("integer", "v")>>)
LitDouble == Node(<<Field("string", "text"), Field("bool", "imaginary")>>,
                  <<Field("string", "text"), Field("bool", "imaginary")>>)
LitBoolean == Node(<<Field("boolean", "v")>>, <<Field("boolean", "v")>>)
VarRef == Node(<<Field("string", "name")>>, <<Field("string", "name")>>)
SubscriptOp == Node(<<Sub("e"), Sub("index")>>, <<Sub("e"), Sub("index")>>)
SliceOp == Node(<<Sub("e"), Field("optional", "start"), Field("optional", "last")>>,
                <<Sub("e"), Field("optional", "start"), Field("optional", "last")>>)
SplatOp == Node(<<Sub("e")>>, <<Sub("e")>>)
UnaryOp == Node(<<Sign, Sub("e")>>, <<Sign, Sub("e")>>)

\* Mutant: the sides are read in the other order.
BinaryOpTurned == Node(<<Sign, Sub("l"), Sub("r")>>, <<Sign, Sub("r"), Sub("l")>>)

BinaryOp == Node(<<Sign, Sub("l"), Sub("r")>>, <<Sign, Sub("l"), Sub("r")>>)
TernaryOp == Node(<<Sub("e"), Sub("l"), Sub("r")>>, <<Sub("e"), Sub("l"), Sub("r")>>)
ComparisonOp == Node(<<Field("exprs", "args"), Field("signs", "signs")>>,
                     <<Field("exprs", "args"), Field("signs", "signs")>>)
AssignOp == Node(<<Sign, Sub("l"), Sub("r")>>, <<Sign, Sub("l"), Sub("r")>>)
DotOp == Node(<<Sub("e"), Sub("r")>>, <<Sub("e"), Sub("r")>>)
FunctionCall == Node(<<Sub("e"), Field("exprs", "args")>>, <<Sub("e"), Field("exprs", "args")>>)
VarDefn == Node(<<Field("string", "name"), Sub("e")>>, <<Field("string", "name"), Sub("e")>>)
LambdaExpr == Node(<<Field("type", "type"), Field("block", "body")>>,
                   <<Field("type", "type"), Field("block", "body")>>)
FunctionDefn ==
  Node(<<Field("string", "name"), Field("type", "type"), Field("signs", "generics"), Field("block", "body")>>,
       <<Field("string", "name"), Field("type", "type"), Field("signs", "generics"), Field("block", "body")>>)
Block == Node(<<Field("exprs", "body")>>, <<Field("exprs", "body")>>)

Nodes ==
  [LitChar |-> LitChar, LitString |-> LitString, LitList |-> LitList, LitInteger |-> LitInteger,
   LitDouble |-> LitDouble, LitBoolean |-> LitBoolean, VarRef |-> VarRef,
   SubscriptOp |-> SubscriptOp, SliceOp |-> SliceOp, SplatOp |-> SplatOp, UnaryOp |-> UnaryOp,
   BinaryOp |-> BinaryOp, TernaryOp |-> TernaryOp, ComparisonOp |-> ComparisonOp,
   AssignOp |-> AssignOp, DotOp |-> DotOp, FunctionCall |-> FunctionCall, VarDefn |-> VarDefn,
   LambdaExpr |-> LambdaExpr, FunctionDefn |-> FunctionDefn, Block |-> Block]

Literals == [char |-> "LitChar", list |-> "LitString", num |-> "LitInteger", bool |-> "LitBoolean"]
ClassOf ==
  [number |-> "LitDouble", var |-> "VarRef", arg |-> "VarRef", list |-> "LitList",
   subscript |-> "SubscriptOp", slice |-> "SliceOp", splat |-> "SplatOp", unary |-> "UnaryOp",
   binary |-> "BinaryOp", logical |-> "BinaryOp", ternary |-> "TernaryOp",
   compare |-> "ComparisonOp", assign |-> "AssignOp", dot |-> "DotOp", call |-> "FunctionCall",
   define |-> "VarDefn", lambda |-> "LambdaExpr", function |-> "FunctionDefn", block |-> "Block"]

\* A name is that of the node it makes, and "&&" and "||" make a node of their own here.
Stored(e) == IF e.op \in {"var", "arg"} THEN [op |-> e.op, name |-> e] ELSE e
Restored(cls, node) ==
  CASE cls = "VarRef" -> node.name
    [] cls = "BinaryOp" -> (("op" :> IF node.sign \in {"&&", "||"} THEN "logical" ELSE "binary") @@ node)
    [] cls \in Range(Literals) -> (("op" :> "value") @@ node)
    [] OTHER -> (("op" :> CHOOSE op \in DOMAIN ClassOf : ClassOf[op] = cls) @@ node)

None == [op |-> "none"]
Null == [op |-> "null"]

RECURSIVE WriteNode(_)
WriteNode(e) ==
  LET cls == IF e.op = "value" THEN Literals[e.v.type.kind] ELSE ClassOf[e.op]
      all(es) == F!WriteU64(Len(es)) \o FlattenSeq([i \in DOMAIN es |-> WriteNode(es[i])])
      content(field) ==
        LET x == Stored(e)[field.name]
        IN CASE field.kind = "expr" -> WriteNode(x)
             [] field.kind = "exprs" -> <<F!Item("STL_VECTOR", 0)>> \o all(x)
             [] field.kind = "optional" ->
                  IF x = None THEN F!Write(F!Bool, FALSE) ELSE F!Write(F!Bool, TRUE) \o WriteNode(x)
             [] field.kind = "string" -> F!Write(F!Str, [text |-> x, size |-> 1])
             [] field.kind = "signs" -> F!Write(F!List(F!Str), [i \in DOMAIN x |-> [text |-> x[i], size |-> 1]])
             [] field.kind = "bool" -> F!Write(F!Bool, x)
             [] field.kind = "char" -> F!WriteU64(x.data)
             [] field.kind = "integer" -> F!WriteU64(x.data) \o F!Write(F!Bool, FALSE)
             [] field.kind = "boolean" -> F!Write(F!Bool, x.data)
             [] field.kind = "type" -> WriteType(x)
             [] field.kind = "block" -> WriteNode([op |-> "block", body |-> x])
  IN <<F!Item(cls, 0)>> \o FlattenSeq([i \in DOMAIN Nodes[cls].written |-> content(Nodes[cls].written[i])])

\* Expr::deserialise and Stmt::deserialise: the classes they know.
ExprTags == {"LitChar", "LitString", "LitList", "LitInteger", "LitDouble", "LitBoolean", "VarRef",
             "SubscriptOp", "SliceOp", "SplatOp", "UnaryOp", "BinaryOp", "TernaryOp", "ComparisonOp",
             "AssignOp", "FunctionCall", "DotOp"}
StmtTags == ExprTags \cup {"VarDefn"}

RECURSIVE ReadNode(_, _), ReadNodes(_, _, _)

\* A pointer: what begins with none of these tags is null, and nothing is taken.
ReadPointer(tags, s) == IF F!TagIs(s, tags) THEN ReadNode(Head(s).tag, s) ELSE F!Got(Null, s)

ReadNodes(tags, n, s) ==
  LET first == ReadPointer(tags, s)
      others == ReadNodes(tags, n - 1, first.rest)
  IN IF n = 0 THEN F!Got(<<>>, s) ELSE F!Got(<<first.value>> \o others.value, others.rest)

ReadVector(tags, s) ==
  LET size == F!ReadSize("STL_VECTOR", s)
  IN IF size.ok THEN ReadNodes(tags, size.value, size.rest) ELSE size

NonNull(r) == IF r.ok /\ r.value = Null THEN F!Failed(r) ELSE r

ReadOptional(s) ==
  LET there == F!ReadBool(s)
  IN IF ~there.ok THEN there
     ELSE IF there.value THEN NonNull(ReadPointer(ExprTags, there.rest)) ELSE F!Got(None, there.rest)

ReadInteger(s) == Made(F!ReadMany(<<F!U64, F!Bool>>, s), LAMBDA r : NumberOf(r[1]))

ReadField(field, cls, node, s) ==
  CASE field.kind = "expr" -> NonNull(ReadPointer(ExprTags, s))
    [] field.kind = "exprs" -> ReadVector(IF cls = "Block" THEN StmtTags ELSE ExprTags, s)
    [] field.kind = "no nulls" ->
         IF Null \in Range(node[field.name]) THEN [ok |-> FALSE, value |-> Null, rest |-> s]
         ELSE F!Got(node[field.name], s)
    [] field.kind = "optional" -> ReadOptional(s)
    [] field.kind = "string" -> Made(F!ReadString(s), LAMBDA r : r.text)
    [] field.kind = "signs" -> Made(F!Read(F!List(F!Str), s), LAMBDA rs : [i \in DOMAIN rs |-> rs[i].text])
    [] field.kind = "bool" -> F!ReadBool(s)
    [] field.kind = "char" -> Made(F!ReadU64(s), CharOf)
    [] field.kind = "integer" -> ReadInteger(s)
    [] field.kind = "boolean" -> Made(F!ReadBool(s), BoolOf)
    [] field.kind = "type" -> ReadType(s)
    [] field.kind = "block" -> Made(NonNull(ReadPointer({"Block"}, s)), LAMBDA e : e.body)

\* Field after field; one that cannot be read makes the whole null.
ReadNode(cls, s) ==
  LET step(r, field) ==
        IF ~r.ok THEN r
        ELSE LET f == ReadField(field, cls, r.value, r.rest)
             IN IF f.ok THEN F!Got((field.name :> f.value) @@ r.value, f.rest) ELSE f
      all == FoldLeft(step, F!Got(<<>>, Tail(s)), Nodes[cls].read)
  IN IF all.ok THEN F!Got(Restored(cls, all.value), all.rest) ELSE F!Got(Null, all.rest)

-----------------------------------------------------------------------------
(* Commands, and the whole state: commands, globals and permissions of builtins *)

Text(name) == [text |-> name, size |-> 1]
WriteMacro(name, c) ==
  <<F!Item("MACRO", 0)>> \o F!Write(F!Str, Text(name)) \o F!Write(F!A("PermissionSet"), c.perms)
  \o F!Write(F!List(F!Str), [i \in DOMAIN c.code |-> Text(c.code[i])])
WriteFunction(name, c) ==
  <<F!Item("FUNCTION", 0)>> \o F!Write(F!Str, Text(name)) \o F!Write(F!A("PermissionSet"), c.perms)
  \o WriteNode(c.defn)

ReadMacro(s) ==
  Made(F!ReadMany(<<F!Str, F!A("PermissionSet"), F!List(F!Str)>>, Tail(s)),
       LAMBDA r : [kind |-> "macro", perms |-> r[2], code |-> [i \in DOMAIN r[3] |-> r[3][i].text]])
\* Without its tree a function is a null command, and the reader is left inside of it.
ReadFunction(s) ==
  LET head == F!ReadMany(<<F!Str, F!A("PermissionSet")>>, Tail(s))
      defn == IF head.ok THEN ReadPointer({"FunctionDefn"}, head.rest) ELSE head
  IN Made(defn, LAMBDA e : IF e = Null THEN Null
                           ELSE [kind |-> "function", perms |-> head.value[2], defn |-> e])
ReadCommand(s) ==
  CASE F!TagIs(s, {"MACRO"}) -> ReadMacro(s)
    [] F!TagIs(s, {"FUNCTION"}) -> ReadFunction(s)
    [] OTHER -> [ok |-> FALSE, value |-> Null, rest |-> s]

\* A string_map.
WriteEntries(map, WriteOne(_, _)) ==
  LET keys == SetToSeq(DOMAIN map)
  IN <<F!Item("TSL_HASHMAP", 0)>> \o F!WriteU64(Len(keys))
     \o FlattenSeq([i \in DOMAIN keys |-> F!Write(F!Str, Text(keys[i])) \o WriteOne(keys[i], map[keys[i]])])

\* The value is read even if the key could not be.
ReadEntries(s, ReadOne(_)) ==
  LET size == F!ReadSize("TSL_HASHMAP", s)
      step(r, i) ==
        LET key == F!ReadString(r.rest)
            value == ReadOne(key.rest)
        IN IF ~r.ok THEN r
           ELSE IF key.ok /\ value.ok THEN F!Got((key.value.text :> value.value) @@ r.value, value.rest)
           ELSE F!Failed(value)
  IN IF size.ok THEN FoldLeft(step, F!Got(<<>>, size.rest), [i \in 1 .. size.value |-> i]) ELSE size

\* The commands before the values that refer to them.  Nothing ever makes an alias.
serialise(s) ==
  <<F!Item("INTERP_STATE", 0)>>
  \o WriteEntries(s.commands, LAMBDA name, c :
       IF c.kind = "macro" THEN WriteMacro(name, c) ELSE WriteFunction(name, c))
  \o WriteEntries(<<>>, LAMBDA name, alias : F!Write(F!Str, Text(alias)))
  \o WriteEntries(s.builtinCommandPermissions, LAMBDA name, p : F!Write(F!A("PermissionSet"), p))
  \o WriteEntries(s.globals, LAMBDA name, v : WriteValue(v))

\* What was read, or nothing.
deserialise(s) ==
  LET cmds == IF F!TagIs(s, {"INTERP_STATE"}) THEN ReadEntries(Tail(s), ReadCommand) ELSE F!Unread(s)
      aliases == IF cmds.ok THEN ReadEntries(cmds.rest, F!ReadString) ELSE cmds
      permissions == IF aliases.ok THEN ReadEntries(aliases.rest, LAMBDA r : F!Read(F!A("PermissionSet"), r))
                     ELSE aliases
      values == IF permissions.ok THEN ReadEntries(permissions.rest, LAMBDA r : ReadValue(r, cmds.value))
                ELSE permissions
  IN IF values.ok /\ values.rest = <<>>
     THEN {[commands |-> cmds.value, globals |-> values.value,
            builtinCommandPermissions |-> IF permissions.value = <<>> THEN DefaultPerms
                                          ELSE permissions.value]}
     ELSE {}

-----------------------------------------------------------------------------
(* What users do, and a save and a start *)

Start ==
  [now      |-> [commands |-> <<>>, globals |-> <<>>, builtinCommandPermissions |-> DefaultPerms],
   dangling |-> {},         \* the globals whose function has been deleted
   process  |-> "running"]  \* "crashed" by a save, "undefined" or "unloadable"

\* internal_def: a name that is taken stays what it is.
Define(name, command, m) ==
  IF name \in DOMAIN m.now.commands THEN m ELSE [m EXCEPT !.now.commands = (name :> command) @@ @]

Trees == [src \in Functions |-> P!parseFuncDefn(P!State(P!lexString(src).tokens)).e]
Defun(src, m) ==
  LET f == Trees[src]
  IN Define(f.name, [kind |-> "function", perms |-> NoPerms, defn |-> f], m)
Def(name, code, m) == Define(name, [kind |-> "macro", perms |-> MacroPerms, code |-> code], m)
\* Of a macro, in its place.
Redef(name, code, m) ==
  IF name \in DOMAIN m.now.commands /\ m.now.commands[name].kind = "macro"
  THEN [m EXCEPT !.now.commands[name].code = code] ELSE m

\* The functions in a value.
RECURSIVE FunctionsIn(_)
FunctionsIn(v) ==
  CASE IsFunction(v.type) -> {v.data}
    [] IsList(v.type) -> UNION {FunctionsIn(v.data[i]) : i \in DOMAIN v.data}
    [] IsMap(v.type) -> UNION {FunctionsIn(v.data[i].value) : i \in DOMAIN v.data}
    [] OTHER -> {}
Refers(v, name) == \E f \in FunctionsIn(v) : f.name = name /\ f.is.kind \in {"macro", "function"}

\* The command is deleted; values that refer to it are not looked for.
UndefCommand(name, m) ==
  [m EXCEPT !.now.commands = Restrict(@, DOMAIN @ \ {name}),
            !.dangling = @ \cup {g \in DOMAIN m.now.globals : Refers(m.now.globals[g], name)}]
UndefGlobal(name, m) ==
  [m EXCEPT !.now.globals = Restrict(@, DOMAIN @ \ {name}), !.dangling = @ \ {name}]
Undef(name, m) == IF name \in DOMAIN m.now.commands THEN UndefCommand(name, m) ELSE UndefGlobal(name, m)

Chmod(name, p, m) ==
  CASE name \in DOMAIN m.now.builtinCommandPermissions ->
         [m EXCEPT !.now.builtinCommandPermissions[name] = p]
    [] name \in DOMAIN m.now.commands -> [m EXCEPT !.now.commands[name].perms = p]
    [] OTHER -> m

\* A global is made with a value, or assigned one.
SetGlobal(g, v, m) == [m EXCEPT !.now.globals = (g :> v) @@ @, !.dangling = @ \ {g}]
SetFunction(g, name, m) ==
  IF name \in DOMAIN m.now.commands THEN SetGlobal(g, FunctionNamed(name, m.now.commands), m) ELSE m

\* Value::serialise asks a function for its name, be there one or not.
Restart(m) ==
  LET again == deserialise(serialise(m.now))
      functions == UNION {FunctionsIn(m.now.globals[g]) : g \in DOMAIN m.now.globals}
  IN CASE m.dangling # {} -> [m EXCEPT !.process = "undefined"]
       [] m.dangling = {} /\ (\E f \in functions : f.is.kind = "none") ->
            [m EXCEPT !.process = "crashed"]
       [] OTHER -> IF again = {} THEN [m EXCEPT !.process = "unloadable"]
                   ELSE [m EXCEPT !.now = CHOOSE s \in again : TRUE]

Step(m, step) ==
  CASE m.process # "running" -> m
    [] step.op = "defun" -> Defun(step.src, m)
    [] step.op = "def" -> Def(step.name, step.code, m)
    [] step.op = "redef" -> Redef(step.name, step.code, m)
    [] step.op = "undef" -> Undef(step.name, m)
    [] step.op = "chmod" -> Chmod(step.name, step.perms, m)
    [] step.op = "set" -> SetGlobal(step.name, step.value, m)
    [] step.op = "name" -> SetFunction(step.name, step.function, m)
    [] step.op = "restart" -> Restart(m)
After(done) == FoldLeft(Step, Start, done)

-----------------------------------------------------------------------------
(* Steps *)

Init == steps = <<>>

Do(step) == Len(steps) < MaxSteps /\ steps' = Append(steps, step)

\* A save and a start, which may be one step more.
SaveAndStart == Len(steps) <= MaxSteps /\ steps' = Append(steps, [op |-> "restart"])

Next ==
  \/ \E src \in Functions : Do([op |-> "defun", src |-> src])
  \/ \E name \in DOMAIN Macros, op \in {"def", "redef"} :
       \E code \in Macros[name] : Do([op |-> op, name |-> name, code |-> code])
  \/ \E name \in Commands \cup Names : Do([op |-> "undef", name |-> name])
  \/ \E name \in Commands, p \in Permissions : Do([op |-> "chmod", name |-> name, perms |-> p])
  \/ \E g \in Names, v \in Values : Do([op |-> "set", name |-> g, value |-> v])
  \/ \E g \in Names, name \in Commands : Do([op |-> "name", name |-> g, function |-> name])
  \/ SaveAndStart

Spec == Init /\ [][Next]_steps

-----------------------------------------------------------------------------

\* What is inside of a tree.
RECURSIVE Under(_)
Under(e) ==
  LET parts == {e[f] : f \in DOMAIN e \cap {"e", "l", "r", "index", "start", "last"}}
               \cup UNION {Range(e[f]) : f \in DOMAIN e \cap {"args", "body"}}
  IN {e.op} \cup UNION {Under(part) : part \in parts}

\* Expr::deserialise and Stmt::deserialise know every class but these.
Readable(c) ==
  c.kind = "macro" \/ {"lambda", "block", "function"} \cap UNION {Under(e) : e \in Range(c.defn.body)} = {}

\* What the functions in a value are after a start.
RECURSIVE FoundAgain(_, _)
FoundAgain(v, cmds) ==
  CASE IsFunction(v.type) -> FunctionNamed(v.data.name, cmds)
    [] IsList(v.type) -> [v EXCEPT !.data = [i \in DOMAIN v.data |-> FoundAgain(v.data[i], cmds)]]
    [] IsMap(v.type) -> [v EXCEPT !.data = [i \in DOMAIN v.data |->
                           [v.data[i] EXCEPT !.value = FoundAgain(v.data[i].value, cmds)]]]
    [] OTHER -> v

Restarts == steps' # steps /\ Last(steps').op = "restart"

IsLoaded(m, again) ==
  LET readable == \A name \in DOMAIN m.now.commands : Readable(m.now.commands[name])
  IN m.process = "running" =>
       /\ again.process = "unloadable" => ~readable
       /\ again.process = "running" =>
            /\ readable
            /\ again.now = [m.now EXCEPT !.globals =
                              [g \in DOMAIN @ |-> FoundAgain(@[g], m.now.commands)]]

(* A save can be loaded unless a function has a lambda, a block or another  *)
(* function inside, and a start has every command, permission and global as *)
(* it was, but that a function in a global is the command that has its name *)
(* now, and void if none has (interp/interp.cpp, InterpState::serialise).   *)
ScriptsAreLoaded ==
  [][Restarts => LET m == After(steps) IN IsLoaded(m, Restart(m))]_steps

(* "we must serialise/deserialise all commands first [...] we must make     *)
(* sure the commands are available in the global lookup table by the time   *)
(* we do values" (interp/interp.cpp): what was saved can be loaded, commands*)
(* first.                                                                   *)
CommandsAvailable == [][Restarts => After(steps').process # "unloadable"]_steps
=============================================================================
