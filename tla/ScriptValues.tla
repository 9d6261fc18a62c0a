--------------------------- MODULE ScriptValues ---------------------------
(***************************************************************************)
(* Values of the scripting language, the memory they live in and the       *)
(* references between them (interp/value.cpp, include/interp.h).           *)
(*                                                                         *)
(* A value is its type, its payload and, of an lvalue, where it points; an *)
(* lvalue has the empty payload of its type, as in the code.  The payload  *)
(* of a number is an integer that stands for its bits, of a list the       *)
(* sequence of its elements, of a map that of its entries in the order     *)
(* they came.                                                              *)
(*                                                                         *)
(* The memory is the stack of contexts, each with its scopes of variables  *)
(* and its arguments, and the globals.  What moves or frees cells is       *)
(* stamped, and a reference that is older than a stamp on its way dangles. *)
(***************************************************************************)
EXTENDS ScriptTypes, TLC

NoRef == [frame |-> 0, scope |-> 0, name |-> "", path |-> <<>>, at |-> 0]
Value(type, data) == [type |-> type, data |-> data, ref |-> NoRef]
NumberOf(n) == Value(Number, n)
BoolOf(b) == Value(Boolean, b)
CharOf(c) == Value(Char, c)
VoidValue == Value(Void, 0)
ListOf(elm, elements) == Value(List(elm), elements)
VariadicOf(elm, elements) == Value(VariadicList(elm), elements)
MapOf(key, elm, entries) == Value(Map(key, elm), entries)
FunctionOf(type, function) == Value(type, function)
StringOf(chars) == ListOf(Char, [i \in DOMAIN chars |-> CharOf(chars[i])])

\* What the text of a value is does not matter here.
SomeText == StringOf(<<0>>)

NoFunction == [name |-> "", args |-> <<>>, kind |-> "none", body |-> <<>>, home |-> 0]
EmptyData(type) ==
  CASE type.kind = "num" -> 0
    [] type.kind = "bool" -> FALSE
    [] type.kind = "char" -> 0
    [] IsList(type) \/ IsMap(type) -> <<>>
    [] IsFunction(type) -> NoFunction
    [] OTHER -> 0
default_of(type) == Value(type, EmptyData(type))

IsLvalue(v) == v.ref.name # ""
LvalueTo(type, ref) == [type |-> type, data |-> EmptyData(type), ref |-> ref]

-----------------------------------------------------------------------------
(* Memory: frame 0 holds the globals, which never move *)

EmptyMemory(globals) == [frames |-> <<>>, globals |-> globals, clock |-> 0, moved |-> {}]

IsStrictlyPrefix(p, q) == Len(p) < Len(q) /\ p = SubSeq(q, 1, Len(p))
\* The cells that a stamp is about: those of a context, of a scope of it, or
\* those inside of a value.
Covers(stamp, ref) ==
  /\ stamp.frame = ref.frame
  /\ \/ stamp.scope = 0
     \/ stamp.scope = ref.scope /\ stamp.name = ""
     \/ /\ stamp.scope = ref.scope /\ stamp.name = ref.name
        /\ IsStrictlyPrefix(stamp.path, ref.path)
Alive(m, ref) == \A stamp \in m.moved : Covers(stamp, ref) => stamp.at <= ref.at

Stamp(m, place) ==
  [m EXCEPT !.clock = @ + 1,
            !.moved = @ \cup {[place EXCEPT !.at = m.clock + 1]}]

Cell(m, ref) == IF ref.frame = 0 THEN m.globals[ref.name]
                ELSE m.frames[ref.frame].vars[ref.scope][ref.name]

RECURSIVE Inside(_, _)
Inside(v, path) ==
  IF path = <<>> THEN v
  ELSE Inside(IF IsMap(v.type) THEN v.data[Head(path)].value ELSE v.data[Head(path)], Tail(path))
Read(m, ref) == Inside(Cell(m, ref), ref.path)

RECURSIVE Updated(_, _, _)
Updated(v, path, new) ==
  IF path = <<>> THEN new
  ELSE LET i == Head(path)
       IN IF IsMap(v.type)
          THEN [v EXCEPT !.data[i].value = Updated(@, Tail(path), new)]
          ELSE [v EXCEPT !.data[i] = Updated(@, Tail(path), new)]
Write(m, ref, new) ==
  LET cell == Updated(Cell(m, ref), ref.path, new)
  IN IF ref.frame = 0 THEN [m EXCEPT !.globals[ref.name] = cell]
     ELSE [m EXCEPT !.frames[ref.frame].vars[ref.scope][ref.name] = cell]

\* An lvalue may refer to a cell that holds an lvalue: the getters follow all of
\* them, and all of them have to be there.
RECURSIVE Sound(_, _)
Sound(m, v) == IsLvalue(v) => Alive(m, v.ref) /\ Sound(m, Read(m, v.ref))

RECURSIVE Place(_, _)
Place(m, ref) == IF IsLvalue(Read(m, ref)) THEN Place(m, Read(m, ref).ref) ELSE ref

Target(m, v) == IF IsLvalue(v) THEN Read(m, Place(m, v.ref)) ELSE v
Payload(m, v) == Target(m, v).data

Contents(v) == CASE IsList(v.type) -> ToSet(v.data)
                 [] IsMap(v.type) -> {e.key : e \in ToSet(v.data)} \cup {e.value : e \in ToSet(v.data)}
                 [] OTHER -> {}
RECURSIVE SoundInside(_, _)
SoundInside(m, v) ==
  Sound(m, v) /\ \A inner \in Contents(Target(m, v)) : SoundInside(m, inner)

\* A list that is decayed is variadic no more.
RECURSIVE Decay(_, _)
Decay(m, v) ==
  LET t == Target(m, v)
  IN CASE IsList(t.type) ->
            ListOf(t.type.elm, [i \in DOMAIN t.data |-> Decay(m, t.data[i])])
       [] IsMap(t.type) ->
            MapOf(t.type.key, t.type.elm,
                  [i \in DOMAIN t.data |-> [key |-> Decay(m, t.data[i].key),
                                            value |-> Decay(m, t.data[i].value)]])
       [] OTHER -> t

-----------------------------------------------------------------------------
(* Casts and arguments *)

\* cast_to(): the value in a sequence, which is empty if it cannot be.  What is
\* made into another list is the payload, and an lvalue has none of its own.
CastTo(m, v, type) ==
  CASE CastDist(v.type, type) = NoCast -> <<>>
    [] IsSame(v.type, type) \/ HasGenerics(type) -> <<v>>
    [] IsList(v.type) /\ IsList(type) -> <<ListOf(type.elm, v.data)>>
    [] IsMap(v.type) /\ IsMap(type) ->
         <<MapOf(type.key, type.elm, Decay(m, Value(v.type, v.data)).data)>>
    [] IsFunction(v.type) /\ IsFunction(type) -> <<v>>
    [] OTHER -> <<>>

\* Every value cast to its type, or none.
CastAll(m, values, types) ==
  LET cast == [i \in DOMAIN values |-> CastTo(m, values[i], types[i])]
  IN IF \E i \in DOMAIN values : cast[i] = <<>> THEN [ok |-> FALSE, values |-> <<>>]
     ELSE [ok |-> TRUE, values |-> [i \in DOMAIN values |-> Head(cast[i])]]

\* A variadic list in the place of the variadic arguments is forwarded.
Forwards(target, given) ==
  /\ Len(given) = Len(target)
  /\ IsSame(Last(given).type, Last(target))

Coerced(m, target, given, forwards) ==
  LET count == Len(Prefix(Fixed(target), Len(given)))
      fixed == CastAll(m, Prefix(given, count), Prefix(target, count))
      others == IF forwards THEN Payload(m, Last(given)) ELSE Beyond(given, count)
      variadic == CastAll(m, others, [i \in DOMAIN others |-> Last(target).elm])
  IN CASE ~IsVariadic(target) -> fixed
       [] fixed.ok /\ variadic.ok ->
            [ok |-> TRUE,
             values |-> Append(fixed.values, VariadicOf(Last(target).elm, variadic.values))]
       [] OTHER -> [ok |-> FALSE, values |-> <<>>]

\* Mutant: what is variadic is always collected.
CollectArguments(m, target, given) ==
  IF ~IsVariadic(target) /\ Len(target) # Len(given) THEN [ok |-> FALSE, values |-> <<>>]
  ELSE Coerced(m, target, given, FALSE)

coerceTypesForFunctionCall(m, target, given) ==
  IF ~IsVariadic(target) /\ Len(target) # Len(given) THEN [ok |-> FALSE, values |-> <<>>]
  ELSE Coerced(m, target, given, IsVariadic(target) /\ Forwards(target, given))

-----------------------------------------------------------------------------
(* Order, which the keys of maps are kept in *)

type_id == [void |-> 0, bool |-> 3, list |-> 4, map |-> 5, char |-> 6, fn |-> 7, num |-> 8,
            vla |-> 9, generic |-> 10]

Magnitude(n) == IF n < 0 THEN -n ELSE n

\* An lvalue and an rvalue of one type are neither less than the other, and of
\* two lvalues the empty payloads are compared.
RECURSIVE Less(_, _)
LessLists(a, b) ==
  LET differ == {i \in DOMAIN a \cap DOMAIN b : Less(a[i], b[i]) \/ Less(b[i], a[i])}
  IN IF differ = {} THEN Len(a) < Len(b)
     ELSE LET i == CHOOSE i \in differ : \A j \in differ : i <= j IN Less(a[i], b[i])
Less(a, b) ==
  CASE ~IsSame(a.type, b.type) \/ IsLvalue(a) # IsLvalue(b) ->
         type_id[a.type.kind] < type_id[b.type.kind]
    [] a.type.kind = "num" -> Magnitude(a.data) < Magnitude(b.data)
    [] a.type.kind = "char" -> a.data < b.data
    [] a.type.kind = "bool" -> ~a.data /\ b.data
    [] IsList(a.type) -> LessLists(a.data, b.data)
    [] OTHER -> FALSE

\* map::find: the first entry that is not before the key, if it is the key's;
\* 0 if there is none.
Entry(entries, key) ==
  LET after == {i \in DOMAIN entries : ~Less(entries[i].key, key)}
      first == CHOOSE i \in after : \A j \in after : ~Less(entries[j].key, entries[i].key)
  IN IF after = {} \/ Less(key, entries[first].key) THEN 0 ELSE first
=============================================================================
