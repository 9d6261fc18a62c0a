------------------------------ MODULE Buffers ------------------------------
(***************************************************************************)
(* The buffer that a save is written into (misc/buffer.cpp) and the writer *)
(* that makes room in it before it writes (serialise.h).  Buffer::write    *)
(* copies what fits and says how much that was; the writer never looks, so *)
(* what it writes is whole only if it has always made room enough.         *)
(*                                                                         *)
(* Only sizes are modelled.  One write is a few chunks, and each chunk may *)
(* first make sure of some room, growing the buffer one step at a time.    *)
(***************************************************************************)
EXTENDS Integers, Sequences

CONSTANTS StartCaps,   \* capacities the buffer may be made with
          Superblock,  \* bytes of the superblock, which is written first
          Lengths,     \* sizes of the strings and lists that are written
          Kinds,       \* which kinds of write there are
          MaxWrites    \* bound on a behaviour

VARIABLES cap, len,    \* Buffer
          todo,        \* the chunks of the write that is under way
          lost,        \* history: bytes that did not fit
          writes       \* how many writes there were

vars == <<cap, len, todo, lost, writes>>

\* A chunk: make sure of room bytes (0: ask for none), then write.
Chunk(room, bytes) == [room |-> room, bytes |-> bytes]

\* Mutant: the tag is forgotten.
EnsureWithoutTag(room) == Chunk(room, 0)

\* ensure accounts for the tag.
Ensure(room) == Chunk(room + 1, 0)
Tag == Chunk(2, 1)
Raw(bytes) == Chunk(0, bytes)

\* The writes of the fixed widths, and of a bool, which is only a tag.
Fixed(width) == <<Ensure(width), Tag, Raw(width)>>
Bool == <<Ensure(1), Tag>>

\* write(uint64_t): small numbers are shorter.
Number(n) ==
  IF n < 128 THEN <<Ensure(8), Raw(1)>>
  ELSE IF n < 65536 THEN <<Ensure(8), Tag, Raw(2)>>
  ELSE <<Ensure(8), Tag, Raw(8)>>

\* write(str_view), and the heads of the containers; the elements of these
\* are writes of their own.
String(n) == <<Ensure(8 + n), Tag>> \o Number(n) \o <<Raw(n)>>
Container(n) == <<Ensure(9), Tag>> \o Number(n)
Relative(n) == <<Tag>> \o Number(n) \o Number(n)

\* Type::serialise writes its byte without the writer.
TypeByte == <<Raw(1)>>

\* The writes a save is made of.
Write(kind, n) ==
  CASE kind = "byte" -> Fixed(1) [] kind = "char" -> Fixed(4) [] kind = "real" -> Fixed(8)
    [] kind = "bool" -> Bool [] kind = "number" -> Number(n) [] kind = "tag" -> <<Tag>>
    [] kind = "string" -> String(n) [] kind = "container" -> Container(n)
    [] kind = "relative" -> Relative(n)
    [] kind = "type" -> <<Tag>> \o TypeByte
    [] kind = "list type" -> <<Tag>> \o TypeByte \o TypeByte

\* Database::serialise
Init == cap \in StartCaps /\ len = 0 /\ todo = <<Raw(Superblock)>> /\ lost = 0 /\ writes = 0

Begin(kind, n) ==
  /\ todo = <<>> /\ writes < MaxWrites
  /\ todo' = Write(kind, n) /\ writes' = writes + 1
  /\ UNCHANGED <<cap, len, lost>>

remaining == cap - len

\* Buffer::grow: one and a half times and a little, rounded down.
Grow ==
  /\ todo # <<>> /\ remaining < Head(todo).room
  /\ cap' = (8 * cap) \div 5
  /\ UNCHANGED <<len, todo, lost, writes>>

\* Buffer::write copies no more than there is room for.
Fitting(bytes) == IF bytes < remaining THEN bytes ELSE remaining

Copy ==
  /\ todo # <<>> /\ remaining >= Head(todo).room
  /\ len' = len + Fitting(Head(todo).bytes)
  /\ lost' = lost + (Head(todo).bytes - Fitting(Head(todo).bytes))
  /\ todo' = Tail(todo)
  /\ UNCHANGED <<cap, writes>>

Next == (\E kind \in Kinds, n \in Lengths : Begin(kind, n)) \/ Grow \/ Copy
Spec == Init /\ [][Next]_vars

-----------------------------------------------------------------------------

TypeOK ==
  /\ cap \in Nat /\ len \in 0 .. cap /\ lost \in Nat /\ writes \in 0 .. MaxWrites
  /\ \A i \in DOMAIN todo : todo[i].room \in Nat /\ todo[i].bytes \in Nat

(* Whatever is written, and however full the buffer is when it is written,  *)
(* no byte is dropped: the writer has made room for all of it, "account     *)
(* implicitly for the tag byte" (serialise.h, ensure).                      *)
NothingIsLost == lost = 0
=============================================================================
