---------------------------- MODULE MCSmallParts ----------------------------
(***************************************************************************)
(* The small parts, and those that work on texts, scripts and saved data,  *)
(* with small instances.  A behaviour is one of one part; the others stay  *)
(* where they are at first.                                                *)
(***************************************************************************)
EXTENDS SmallParts, ScriptEval

-----------------------------------------------------------------------------
(* Sources for the lexer and the parser *)

Alphabet == {"<", "=", ">", ".", "1", "0", "x", "e", "\"", "\\", "'", " ", "+"}
Fragments == {a \o b \o c : a, b, c \in Alphabet \cup {""}}
             \cup {"1.1.1", ".1.1", "x.1.1", "0xe.x", "0b12", "\"\\\\\"\"", "if x1_ else",
                   "a<<=b>>c...d", "1e5.2", "1e5 .2"}
Signs == {"+", "*", "^", "<", "==", "&&", "=", "|>"}
Chains == {"a" \o x \o "1" \o y \o "c" \o z \o "d" : x, y, z \in Signs}
MCSources == Fragments \cup Chains

-----------------------------------------------------------------------------
(* Calls *)

NumToNum == Fn(Number, <<Number>>)
MCParameters == {Number, String, List(Void), VariadicList(Number), VariadicList(String),
                 VariadicList(Void), Generic("T", 0), Map(Void, Void), NumToNum}
MCArguments == {Number, Boolean, String, List(Number), List(Void), VariadicList(Number),
                Map(Number, String), NumToNum}

-----------------------------------------------------------------------------
(* Scripts: what two users could type, one line after the other *)

MCPrograms ==
  { "xs += [1, x]", "x = xs[0] + 1", "xs[-1] = x", "xs[0:] + [2]", "xs = [] + [\"a\"]",
    "xs = ss", "xs + [2]", "set(x)", "local()", "echo(x, __builtin_dismantle(\"a\", \"b\"))",
    "g = \\num => $0 + x", "g = set", "g(3)", "loop()", "m[x] = 2", "m[1]", "xs.append(4)",
    "xs.append(nothing)", "1 < x < 9 && !false ? xs.len() : int(true)", "x *= abs(-2)",
    "__builtin_dismantle(ts[:-1]...)", "str(xs)", "xs[0] = (xs += [5])[0]", "x +",
    "y := x; { y := 2; x = y; }; y" }
MCFunctions == { "set(num) -> num { y := $0; $0 = 7; }", "local() -> num { y := 1; y; }",
                 "loop() -> num { loop(); }" }
MCMacros == [echo |-> <<"hi", "\\$0", "\\xs", "\\nothing", "\\\\x">>]
MCCommands == {"set", "local", "loop", "echo"}
MCGlobals == [x |-> Number, xs |-> List(Number), ss |-> List(Void), ts |-> List(String),
              g |-> NumToNum, m |-> Map(Number, Number)]

-----------------------------------------------------------------------------
(* What is saved *)

MCNumbers == <<0, 127, 128, 65535, 65536, 3, 4000, 16777216>>

NobodyElse(flags) == [flags |-> flags, whitelist |-> <<>>, blacklist |-> <<>>,
                      role_whitelist |-> <<>>, role_blacklist |-> <<>>]
Permission(flags, list) ==
  [flags |-> flags, whitelist |-> list, blacklist |-> <<200>>, role_whitelist |-> <<70000>>,
   role_blacklist |-> <<>>]
SavedFunctions ==
  { "f(num) -> num { $0 + 1; }",
    "f(str, num) -> str { x := [1, -2.5, 'a', \"b\", true, 3i]; x[0] += $1; y := x[1:2] ++ x[:2]; y[:1]; z := x[1:]; a < b == c; p ? q : r; s.append(1)...; $user; }",
    "g<T, U>([T], [str:U], (T) -> void) -> num => g(\\num => $0, 1)",
    "g() -> void { { x; }; }", "g(num) -> num => f($0)" }
SavedMacros == [g |-> {<<"hi", "\\1+1">>, <<"bye">>}]
MCDefaultPerms == [help |-> Permission(1, <<>>)]
Foreign(name, kind) == FunctionOf(NumToNum, [name |-> name, is |-> [kind |-> kind]])
MCValues ==
  {NumberOf(5), BoolOf(TRUE), ListOf(Char, <<CharOf(3), CharOf(4)>>), VariadicOf(Boolean, <<BoolOf(FALSE)>>),
   MapOf(String, Number, <<[key |-> StringOf(<<1>>), value |-> NumberOf(1)]>>),
   ListOf(NumToNum, <<Foreign("__lambda", "lambda")>>), Foreign("", "none"), Foreign("len", "builtin")}

-----------------------------------------------------------------------------
(* What is read *)

MCStreams == {<<3, 2, 4>>, <<2, 2, 3, 3>>}

-----------------------------------------------------------------------------
(* The parts *)

VARIABLES source, target, given, steps, class, seed

Parsed == INSTANCE ScriptSources WITH Sources <- MCSources
Calls == INSTANCE Overloads WITH Parameters <- MCParameters, Arguments <- MCArguments, MaxCount <- 2
Records == INSTANCE SavedRecords WITH Numbers <- MCNumbers, MaxElements <- 2
Scripts == INSTANCE SavedScripts WITH Functions <- SavedFunctions, Macros <- SavedMacros,
             Permissions <- {Permission(3, <<1>>)}, Values <- MCValues,
             Names <- {"a"}, Commands <- {"f", "g", "help"}, DefaultPerms <- MCDefaultPerms,
             NoPerms <- NobodyElse(0), MacroPerms <- NobodyElse(1), MaxSteps <- 3

callVars == <<target, given>>
recordVars == <<class, seed>>
textVars == <<source, callVars, lines, steps, recordVars>>
mcVars == <<systemVars, textVars>>

\* Where a part that is idle stays.
MCInit ==
  /\ part \in SystemParts \cup {"sources", "calls", "evaluation", "records", "scripts"}
  /\ PartsInit
  /\ Parsed!Init /\ Calls!Init /\ Init /\ Scripts!Init /\ Records!Init
  /\ part # "buffer" => cap = 64
  /\ part # "reading" => reader = "irc" /\ Len(messages) = 3

SourcesNext == part = "sources" /\ Parsed!Next /\ UNCHANGED <<callVars, lines, steps, recordVars>>
CallsNext == part = "calls" /\ Calls!Next /\ UNCHANGED <<source, lines, steps, recordVars>>
EvalNext == part = "evaluation" /\ Next
            /\ UNCHANGED <<source, callVars, steps, recordVars>>
ScriptsNext == part = "scripts" /\ Scripts!Next /\ UNCHANGED <<source, callVars, lines, recordVars>>
RecordsNext == part = "records" /\ Records!Next /\ UNCHANGED <<source, callVars, lines, steps>>
MCNext ==
  \/ PartsNext /\ UNCHANGED textVars
  \/ /\ SourcesNext \/ CallsNext \/ EvalNext \/ ScriptsNext \/ RecordsNext
     /\ UNCHANGED systemVars

MCSpec == MCInit /\ [][MCNext]_mcVars /\ PartsFairness

-----------------------------------------------------------------------------

\* The tokens are the whole source, and operators nest by their precedence
\* (ScriptSources).
LexerKeepsText == Parsed!LexerKeepsText
PrecedenceDecides == Parsed!PrecedenceDecides

\* What is chosen among overloads runs (Overloads).
ChosenRuns == Calls!ChosenRuns

\* What a save holds is what the next start reads: of the records (SavedRecords)
\* and of the scripts (SavedScripts).
SavedIsRead == Records!SavedIsRead /\ Scripts!ScriptsAreLoaded

\* The commands are there before the values that name them (SavedScripts); they are
\* not when there is one that cannot be read.
CommandsAvailable == Scripts!CommandsAvailable
=============================================================================
