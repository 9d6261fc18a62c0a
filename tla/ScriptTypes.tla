---------------------------- MODULE ScriptTypes ----------------------------
(***************************************************************************)
(* The types of the scripting language and how far one is from another     *)
(* (interp/type.cpp), and the choice of an overload (interp/function.cpp,  *)
(* interp/builtin.cpp).                                                    *)
(*                                                                         *)
(* A type is a record with its kind and its parts; what a function returns *)
(* is its elm, as in the code.                                             *)
(***************************************************************************)
EXTENDS Integers, FiniteSets, SequencesExt

Void == [kind |-> "void"]
Boolean == [kind |-> "bool"]
Char == [kind |-> "char"]
Number == [kind |-> "num"]
List(elm) == [kind |-> "list", elm |-> elm]
VariadicList(elm) == [kind |-> "vla", elm |-> elm]
String == List(Char)
Map(key, elm) == [kind |-> "map", key |-> key, elm |-> elm]
Fn(ret, args) == [kind |-> "fn", elm |-> ret, args |-> args]
Generic(name, group) == [kind |-> "generic", name |-> name, group |-> group]

IsList(t) == t.kind \in {"list", "vla"}
IsMap(t) == t.kind = "map"
IsFunction(t) == t.kind = "fn"
IsGeneric(t) == t.kind = "generic"
IsVoid(t) == t.kind = "void"

\* has_generics() looks at the parts and not into them.
Parts(t) == CASE IsList(t) -> {t.elm}
              [] IsMap(t) -> {t.key, t.elm}
              [] IsFunction(t) -> {t.elm} \cup ToSet(t.args)
              [] OTHER -> {t}
HasGenerics(t) == \E part \in Parts(t) : IsGeneric(part)

\* A variadic list is the same type as a list.
RECURSIVE IsSame(_, _)
IsSame(t, other) ==
  CASE IsList(t) /\ IsList(other) -> IsSame(t.elm, other.elm)
    [] IsMap(t) /\ IsMap(other) -> IsSame(t.elm, other.elm) /\ IsSame(t.key, other.key)
    [] IsFunction(t) /\ IsFunction(other) ->
         /\ IsSame(t.elm, other.elm)
         /\ Len(t.args) = Len(other.args)
         /\ \A i \in DOMAIN t.args : IsSame(t.args[i], other.args[i])
    [] IsGeneric(t) /\ IsGeneric(other) -> t = other
    [] OTHER -> t.kind = other.kind

-----------------------------------------------------------------------------
(* Distances: -1 is no cast *)

NoCast == -1
SumUnlessNone(distances) ==
  FoldLeft(LAMBDA sum, d : IF NoCast \in {sum, d} THEN NoCast ELSE sum + d, 0, distances)

ListDist(t, other) ==
  CASE IsVoid(t.elm) \/ IsVoid(other.elm) -> 2
    [] IsGeneric(other.elm) -> 10
    [] OTHER -> NoCast

MapDist(t, other) ==
  CASE IsSame(t.key, other.key) /\ IsVoid(other.elm) -> 2
    [] IsSame(t.elm, other.elm) /\ IsVoid(other.key) -> 2
    [] IsVoid(other.key) /\ IsVoid(other.elm) -> 3
    [] IsGeneric(other.key) /\ IsGeneric(other.elm) -> 20
    [] IsGeneric(other.key) \/ IsGeneric(other.elm) -> 10
    [] OTHER -> NoCast

\* get_cast_dist(): what functions return does not count.
RECURSIVE CastDist(_, _)
CastDist(t, other) ==
  IF IsSame(t, other) THEN 0
  ELSE CASE IsList(t) /\ IsList(other) -> ListDist(t, other)
         [] IsMap(t) /\ IsMap(other) -> MapDist(t, other)
         [] IsFunction(t) /\ IsFunction(other) ->
              IF Len(t.args) # Len(other.args) THEN NoCast
              ELSE SumUnlessNone([i \in DOMAIN t.args |-> CastDist(t.args[i], other.args[i])])
         [] OTHER -> IF IsGeneric(other) THEN 10 ELSE NoCast

-----------------------------------------------------------------------------
(* Calls *)

IsVariadic(target) == target # <<>> /\ Last(target).kind = "vla"
Fixed(target) == IF IsVariadic(target) THEN Front(target) ELSE target

Prefix(s, n) == SubSeq(s, 1, IF n < Len(s) THEN n ELSE Len(s))
Beyond(s, n) == SubSeq(s, n + 1, Len(s))

\* The distances of arguments to the parameters they meet; a variadic call may
\* leave out fixed parameters.
Distances(target, given) ==
  LET count == Len(Prefix(Fixed(target), Len(given)))
      fixed == [i \in 1..count |-> CastDist(given[i], target[i])]
      others == Beyond(given, count)
  IN IF IsVariadic(target)
     THEN fixed \o <<10>> \o [i \in DOMAIN others |-> CastDist(others[i], Last(target).elm)]
     ELSE fixed

getFunctionOverloadDistance(target, given) ==
  IF ~IsVariadic(target) /\ Len(target) # Len(given) THEN NoCast
  ELSE SumUnlessNone(Distances(target, given))

\* FunctionOverloadSet::run: the first of the nearest, <<>> if there is none.
\* An overload is a list of parameter types.
Nearest(overloads, given) ==
  LET cost(o) == getFunctionOverloadDistance(o, given)
      able == SelectSeq(overloads, LAMBDA o : cost(o) # NoCast)
      best == SelectSeq(able, LAMBDA o : \A i \in DOMAIN able : cost(o) <= cost(able[i]))
  IN IF best = <<>> THEN <<>> ELSE <<Head(best)>>

\* The overload sets of the builtin "int" and "str".
IntOverloads == << <<Number>>, <<String>>, <<Boolean>>, <<Char>> >>
StrOverloads == << <<String>>, <<Number>>, <<Boolean>>, <<Char>>, <<List(Void)>>,
                   <<Map(Void, Void)>>, <<Number, Number>> >>
=============================================================================
