------------------------------ MODULE Overloads ------------------------------
(***************************************************************************)
(* Calls of functions with arguments of all types: the distance that an    *)
(* overload is chosen by and the coercion that the chosen one then makes   *)
(* are two walks over the same parameters (interp/function.cpp).           *)
(***************************************************************************)
EXTENDS ScriptValues

CONSTANTS Parameters,  \* types a parameter may have
          Arguments,   \* types an argument may have
          MaxCount     \* bound on the parameters and on the arguments

VARIABLES target,  \* the parameters of a function
          given    \* the types of the arguments it is called with

vars == <<target, given>>

\* Only the last parameter is variadic.
Targets ==
  {t \in BoundedSeq(Parameters, MaxCount) :
     \A i \in DOMAIN t : t[i].kind = "vla" => i = Len(t)}

Init == target = <<>> /\ given = <<>>

\* A function is called.
FunctionCall ==
  /\ target = <<>> /\ given = <<>>
  /\ target' \in Targets /\ given' \in BoundedSeq(Arguments, MaxCount)

Next == FunctionCall

-----------------------------------------------------------------------------

\* An argument with one element, where there can be one.
RECURSIVE Argument(_)
Argument(type) ==
  CASE IsList(type) -> Value(type, <<Argument(type.elm)>>)
    [] IsMap(type) -> Value(type, <<[key |-> Argument(type.key), value |-> Argument(type.elm)]>>)
    [] OTHER -> default_of(type)

Given(types) == [i \in DOMAIN types |-> Argument(types[i])]
Coerce(parameters, values) == coerceTypesForFunctionCall(EmptyMemory(<<>>), parameters, values)

\* An overload that has a distance can be run: FunctionOverloadSet::run chooses by
\* getFunctionOverloadDistance, and what it chose fails only if coercing fails.
ChosenOverloadRuns(parameters, types) ==
  getFunctionOverloadDistance(parameters, types) # NoCast => Coerce(parameters, Given(types)).ok

\* Arguments are coerced where a function is called and again where a builtin runs
\* (FunctionCall::evaluate, BuiltinFunction::run), and a function may pass its
\* variadic arguments on: coercing what has been coerced changes nothing.  Not so
\* of a variadic call that leaves out fixed arguments, which is not refused: the
\* variadic ones, of which there are none, move to the front.
CoercedTwiceIsOnce(parameters, types) ==
  LET once == Coerce(parameters, Given(types))
  IN once.ok /\ Len(types) >= Len(Fixed(parameters)) => Coerce(parameters, once.values) = once

\* What is chosen runs, whether it was coerced before or not.
ChosenRuns ==
  [][vars' # vars =>
       ChosenOverloadRuns(target', given') /\ CoercedTwiceIsOnce(target', given')]_vars
=============================================================================
