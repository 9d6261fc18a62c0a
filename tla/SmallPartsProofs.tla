------------------------- MODULE SmallPartsProofs -------------------------
(***************************************************************************)
(* The small parts that threads are at work in: the readers of frames and  *)
(* lines, the dispatcher, the timers of the Discord channels and the       *)
(* sessions of the console.  Each message is handled in its order; a job   *)
(* is run once; and who stops a timer, and the reaper, delete what nobody  *)
(* else holds, when its thread has ended.                                  *)
(***************************************************************************)
EXTENDS SmallParts, FiniteSetTheorems, TLAPS

-----------------------------------------------------------------------------
(* Readers *)

\* A set of numbers that is not empty has a least one.
LEMMA Smallest ==
  ASSUME NEW T \in SUBSET Nat, T # {}
  PROVE  \E x \in T : \A y \in T : x <= y
<1> DEFINE R == OpToRel(<, Nat)
<1>1. \E x \in T : \A y \in T : ~(<<y, x>> \in R)
  BY NatLessThanWellFounded, WFMin, Zenon
<1>2. \A x \in Nat, y \in Nat : <<y, x>> \in R <=> y < x
  BY DEF OpToRel
<1>3. PICK x \in T : \A y \in T : ~(<<y, x>> \in R)
  BY <1>1
<1>4. \A y \in T : ~(y < x)
  BY <1>2, <1>3
<1> QED
  BY <1>4

\* Induction, over a set of numbers.
LEMMA Induction ==
  ASSUME NEW T, 0 \in T, \A n \in Nat : n \in T => n + 1 \in T
  PROVE  Nat \subseteq T
<1>1. SUFFICES ASSUME Nat \ T # {} PROVE FALSE
  OBVIOUS
<1>2. PICK x \in Nat \ T : \A y \in Nat \ T : x <= y
  BY <1>1, Smallest
<1> QED
  BY <1>2

\* Sums of the first n numbers are a function of n.
LEMMA SumExists ==
  ASSUME NEW m
  PROVE  \E f : f = [n \in Nat |-> IF n = 0 THEN 0 ELSE f[n - 1] + m[n]]
<1> DEFINE Upto(n, g) == g = [i \in 0..n |-> IF i = 0 THEN 0 ELSE g[i - 1] + m[i]]
           T == {n \in Nat : \E g : Upto(n, g)}
           H(n) == CHOOSE g : Upto(n, g)
           U == {i \in Nat : \A p, q \in Nat : i <= p /\ i <= q => H(p)[i] = H(q)[i]}
           f == [n \in Nat |-> H(n)[n]]
<1>1. Nat \subseteq T
  <2>1. 0 \in T
    <3> DEFINE g == [i \in 0..0 |-> 0]
    <3>1. Upto(0, g)
      OBVIOUS
    <3> QED
      BY <3>1
  <2>2. ASSUME NEW n \in Nat, n \in T PROVE n + 1 \in T
    <3>1. PICK g : Upto(n, g)
      BY <2>2
    <3> DEFINE h == [i \in 0..(n + 1) |-> IF i = n + 1 THEN g[n] + m[n + 1] ELSE g[i]]
    <3>2. \A i \in 0..n : g[i] = IF i = 0 THEN 0 ELSE g[i - 1] + m[i]
      BY <3>1
    <3>3. ASSUME NEW i \in 0..(n + 1) PROVE h[i] = IF i = 0 THEN 0 ELSE h[i - 1] + m[i]
      <4>1. CASE i = n + 1
        <5>1. h[i] = g[n] + m[n + 1] /\ i - 1 = n /\ h[n] = g[n] /\ i # 0
          BY <4>1
        <5> QED
          BY <4>1, <5>1
      <4>2. CASE i \in 0..n
        <5>1. h[i] = g[i] /\ (i # 0 => h[i - 1] = g[i - 1])
          BY <4>2
        <5> QED
          BY <3>2, <4>2, <5>1
      <4> QED
        BY <4>1, <4>2
    <3>4. Upto(n + 1, h)
      BY <3>3
    <3> HIDE DEF Upto, h
    <3> QED
      BY <3>4
  <2> HIDE DEF T
  <2> QED
    BY <2>1, <2>2, Induction
<1>2. ASSUME NEW n \in Nat PROVE Upto(n, H(n))
  BY <1>1
<1>3. ASSUME NEW n \in Nat, NEW i \in 0..n
      PROVE  H(n)[i] = IF i = 0 THEN 0 ELSE H(n)[i - 1] + m[i]
  <2> HIDE DEF H
  <2> QED
    BY <1>2
<1> HIDE DEF H
<1>4. Nat \subseteq U
  <2>1. 0 \in U
    BY <1>3
  <2>2. ASSUME NEW i \in Nat, i \in U PROVE i + 1 \in U
    <3>1. ASSUME NEW p \in Nat, i + 1 <= p PROVE H(p)[i + 1] = H(p)[i] + m[i + 1]
      <4>1. i + 1 \in 0..p /\ i + 1 # 0 /\ i + 1 - 1 = i
        BY <3>1
      <4> QED
        BY <1>3, <4>1
    <3>2. ASSUME NEW p \in Nat, NEW q \in Nat, i + 1 <= p, i + 1 <= q
          PROVE  H(p)[i + 1] = H(q)[i + 1]
      BY <2>2, <3>1, <3>2
    <3> QED
      BY <3>2
  <2> HIDE DEF U
  <2> QED
    BY <2>1, <2>2, Induction
<1>5. ASSUME NEW n \in Nat PROVE f[n] = IF n = 0 THEN 0 ELSE f[n - 1] + m[n]
  <2>1. f[n] = IF n = 0 THEN 0 ELSE H(n)[n - 1] + m[n]
    BY <1>3
  <2>2. n # 0 => H(n)[n - 1] = H(n - 1)[n - 1]
    BY <1>4
  <2>3. n # 0 => f[n - 1] = H(n - 1)[n - 1]
    OBVIOUS
  <2> HIDE DEF f
  <2> QED
    BY <2>1, <2>2, <2>3
<1>6. f = [n \in Nat |-> IF n = 0 THEN 0 ELSE f[n - 1] + m[n]]
  BY <1>5
<1> QED
  BY <1>6

\* Where messages end.
LEMMA Ends == /\ Reading!End[0] = 0
              /\ \A n \in Nat : n # 0 => Reading!End[n] = Reading!End[n - 1] + messages[n]
<1>1. \E f : f = [n \in Nat |-> IF n = 0 THEN 0 ELSE f[n - 1] + messages[n]]
  BY SumExists
<1>2. Reading!End = [n \in Nat |-> IF n = 0 THEN 0 ELSE Reading!End[n - 1] + messages[n]]
  BY <1>1 DEF Reading!End
<1> HIDE DEF Reading!End
<1> QED
  BY <1>2

\* The connections that there are: a stream has messages, the first of which is the
\* answer to the upgrade where frames are read, and none is empty.
NoneIsEmpty == Streams \subseteq Seq(Nat \ {0}) \ {<<>>}

\* Messages end one behind the other.
LEMMA EndsInOrder ==
  ASSUME messages \in Seq(Nat \ {0})
  PROVE  /\ \A n \in 0..Len(messages) : Reading!End[n] \in Nat
         /\ \A i, j \in 0..Len(messages) : i < j => Reading!End[i] < Reading!End[j]
<1> DEFINE L == Len(messages)
           T == {n \in Nat : n <= L => Reading!End[n] \in Nat}
           U == {j \in Nat : j <= L => \A i \in 0..L : i < j => Reading!End[i] < Reading!End[j]}
<1>1. L \in Nat /\ \A n \in 1..L : messages[n] \in Nat /\ messages[n] > 0
  OBVIOUS
<1>2. \A n \in 0..L : n + 1 <= L => Reading!End[n + 1] = Reading!End[n] + messages[n + 1]
  <2>1. \A n \in 0..L : n + 1 \in Nat /\ n + 1 # 0 /\ n + 1 - 1 = n
    BY <1>1
  <2> QED
    BY <2>1, Ends
<1> HIDE DEF L
<1>3. Nat \subseteq T
  <2>1. 0 \in T
    BY Ends
  <2>2. ASSUME NEW n \in Nat, n \in T PROVE n + 1 \in T
    BY <1>1, <1>2, <2>2
  <2> HIDE DEF T
  <2> QED
    BY <2>1, <2>2, Induction
<1>4. \A n \in 0..L : Reading!End[n] \in Nat
  BY <1>1, <1>3
<1>5. Nat \subseteq U
  <2>1. 0 \in U
    BY <1>1
  <2>2. ASSUME NEW n \in Nat, n \in U PROVE n + 1 \in U
    <3>1. SUFFICES ASSUME n + 1 <= L, NEW i \in 0..L, i < n + 1
                   PROVE  Reading!End[i] < Reading!End[n + 1]
      OBVIOUS
    <3>2. /\ Reading!End[n + 1] > Reading!End[n]
          /\ Reading!End[n] \in Nat /\ Reading!End[n + 1] \in Nat
      BY <1>1, <1>2, <1>4, <3>1
    <3>3. i = n \/ Reading!End[i] < Reading!End[n]
      BY <1>1, <2>2, <3>1
    <3>4. Reading!End[i] \in Nat
      BY <1>4
    <3> QED
      BY <3>2, <3>3, <3>4
  <2> HIDE DEF U
  <2> QED
    BY <2>1, <2>2, Induction
<1> QED
  BY <1>1, <1>4, <1>5 DEF L

-----------------------------------------------------------------------------
\* The answer to the upgrade is no message.
First == IF reader = "frames" THEN 1 ELSE 0

\* What the n-th message behind k would need has not come.
Behind(k) == \A n \in (k + 1)..Len(messages) : Reading!End[n] > sent

\* What was handled has come.
Handled == taken \in Seq(Nat) /\ Reading!Range(taken) \subseteq Reading!Whole

\* Positions are in the stream.
Positions == /\ sent \in Nat /\ from \in Nat /\ offset \in Nat /\ view \in Nat
             /\ from <= sent /\ sent <= Reading!Total /\ offset <= view /\ view <= Reading!Total

\* What is kept is in the buffer.
InBuffer == from + offset <= sent

\* The stream is one of the connections, and of it has come what was handled.
ReaderTypes ==
  /\ messages \in Streams /\ reader \in {"frames", "irc", "console"} /\ busy \in BOOLEAN
  /\ Positions /\ (missed = "" => InBuffer)
  /\ phase \in {"upgrade", "upgraded", "flush", "read"}
  /\ reader # "frames" => phase = "read"
  /\ Handled
  /\ missed \in {"", "room", "coalesced", "order", "remainder", "stale"}

\* Until the handler of frames is at work, nothing is handled.
Upgrading ==
  /\ phase # "read" => offset = 0 /\ ~busy /\ taken = <<>>
  /\ phase = "upgrade" => from = 0
  /\ phase \in {"upgraded", "flush"} => from = Reading!End[1]

\* The readers that skip what they have handled: the messages up to the k-th were, each
\* once, and the buffer goes on behind it.
Skipping ==
  phase = "read" /\ reader # "console" =>
    /\ busy => view = offset
    /\ \E k \in First..Len(messages) :
         /\ from + offset = Reading!End[k] /\ taken = [i \in 1..(k - First) |-> First + i]
         /\ ~busy => Behind(k)

\* The console: the lines up to the last-th were run, some of them again, and the handler
\* is somewhere among them.
Repeating ==
  phase = "read" /\ reader = "console" =>
    /\ offset = 0
    /\ \E k \in 0..Len(messages) : from = Reading!End[k]
    /\ \E last \in 0..Len(messages) :
         /\ Reading!Range(taken) = 1..last /\ Reading!End[last] <= sent
         /\ busy => \E k \in 0..last : from + view = Reading!End[k]
         /\ ~busy => Behind(last)

\* The inductive invariant.
ReadersInv == ReaderTypes /\ (missed = "" => Upgrading /\ Skipping /\ Repeating)

\* The streams are as they were, and so are the ends of their messages.
LEMMA EndsStay ==
  ASSUME UNCHANGED messages
  PROVE  Reading!End' = Reading!End /\ Reading!Total' = Reading!Total
  BY DEF Reading!End, Reading!Total

\* Ends are numbers and no two are the same.
LEMMA EndsOf ==
  ASSUME NoneIsEmpty, messages \in Streams
  PROVE  /\ Len(messages) \in Nat /\ Len(messages) > 0 /\ DOMAIN messages = 1..Len(messages)
         /\ \A n \in 0..Len(messages) : Reading!End[n] \in Nat /\ Reading!End[n] <= Reading!Total
         /\ \A i, j \in 0..Len(messages) : i < j => Reading!End[i] < Reading!End[j]
         /\ \A n \in 0..Len(messages) :
              n < Len(messages) => Reading!End[n + 1] = Reading!End[n] + messages[n + 1]
         /\ \A n \in DOMAIN messages : messages[n] \in Nat /\ messages[n] > 0
         /\ Reading!End[0] = 0 /\ Reading!Total \in Nat
<1>1. messages \in Seq(Nat \ {0}) /\ messages # <<>>
  BY DEF NoneIsEmpty
<1>2. /\ Len(messages) \in Nat /\ Len(messages) > 0 /\ DOMAIN messages = 1..Len(messages)
      /\ \A n \in DOMAIN messages : messages[n] \in Nat /\ messages[n] > 0
  BY <1>1
<1>3. /\ \A n \in 0..Len(messages) : Reading!End[n] \in Nat
      /\ \A i, j \in 0..Len(messages) : i < j => Reading!End[i] < Reading!End[j]
  BY <1>1, EndsInOrder
<1>4. \A n \in 0..Len(messages) : Reading!End[n] <= Reading!Total
  BY <1>2, <1>3 DEF Reading!Total
<1>5. Reading!Total \in Nat
  BY <1>2, <1>3 DEF Reading!Total
<1>6. \A n \in 0..Len(messages) : Reading!End[n + 1] = Reading!End[n] + messages[n + 1]
  <2>1. \A n \in 0..Len(messages) : n + 1 \in Nat /\ n + 1 # 0 /\ n + 1 - 1 = n
    BY <1>2
  <2> QED
    BY <2>1, Ends
<1> QED
  BY <1>2, <1>3, <1>4, <1>5, <1>6, Ends

\* The message that the handler comes upon is the one behind the k-th.
LEMMA UpcomingIs ==
  ASSUME NoneIsEmpty, messages \in Streams, NEW k \in 0..Len(messages), k < Len(messages),
         from + view = Reading!End[k]
  PROVE  Reading!Upcoming = k + 1
<1>1. k + 1 \in DOMAIN messages /\ Reading!End[k + 1 - 1] = from + view
  BY EndsOf
<1>2. ASSUME NEW n \in DOMAIN messages, Reading!End[n - 1] = from + view PROVE n = k + 1
  <2>1. n - 1 \in 0..Len(messages)
    BY EndsOf
  <2>2. n - 1 < k \/ n - 1 > k \/ n - 1 = k
    BY <2>1
  <2>3. ~(n - 1 < k) /\ ~(k < n - 1)
    BY <1>2, <2>1, EndsOf
  <2> QED
    BY <2>1, <2>2, <2>3
<1> QED
  BY <1>1, <1>2 DEF Reading!Upcoming

\* What is in a longer sequence.
LEMMA AppendRange ==
  ASSUME NEW q \in Seq(Nat), NEW x \in Nat
  PROVE  Reading!Range(Append(q, x)) = Reading!Range(q) \cup {x} /\ Append(q, x) \in Seq(Nat)
<1>1. /\ DOMAIN Append(q, x) = 1..(Len(q) + 1) /\ Len(q) \in Nat /\ DOMAIN q = 1..Len(q)
      /\ \A i \in 1..Len(q) : Append(q, x)[i] = q[i]
      /\ Append(q, x)[Len(q) + 1] = x
  OBVIOUS
<1>2. 1..(Len(q) + 1) = 1..Len(q) \cup {Len(q) + 1}
  BY <1>1
<1> QED
  BY <1>1, <1>2 DEF Reading!Range

\* One more message is handled.
LEMMA OneMore ==
  ASSUME NEW k \in Nat, NEW b \in {0, 1}, k >= b
  PROVE  Append([i \in 1..(k - b) |-> b + i], k + 1) = [i \in 1..((k + 1) - b) |-> b + i]
<1> DEFINE q == [i \in 1..(k - b) |-> b + i]
<1>1. k - b \in Nat /\ (k + 1) - b = (k - b) + 1 /\ b + ((k - b) + 1) = k + 1
  OBVIOUS
<1>2. q \in Seq(Nat) /\ Len(q) = k - b
  BY <1>1
<1>3. /\ Append(q, k + 1) = [i \in 1..((k - b) + 1) |-> IF i = (k - b) + 1 THEN k + 1 ELSE q[i]]
  BY <1>1, <1>2
<1> QED
  BY <1>1, <1>3

\* Nothing is in an empty sequence.
LEMMA NothingHandled ==
  /\ taken = <<>> => Reading!Range(taken) = {} /\ Handled
  /\ taken' = <<>> => Handled'
<1>1. <<>> \in Seq(Nat) /\ Reading!Range(<<>>) = {}
  BY DEF Reading!Range
<1> QED
  BY <1>1 DEF Handled

\* Nothing has come of the first connection.
LEMMA ReadersInit == NoneIsEmpty /\ Reading!Init => ReadersInv
<1> SUFFICES ASSUME NoneIsEmpty, Reading!Init PROVE ReadersInv
  OBVIOUS
<1>1. messages \in Streams
  BY DEF Reading!Init
<1>2. ReaderTypes
  <2>1. Reading!Total \in Nat /\ Handled
    BY <1>1, EndsOf, NothingHandled DEF Reading!Init
  <2>2. sent = 0 /\ from = 0 /\ offset = 0 /\ view = 0
    BY DEF Reading!Init
  <2>3. Positions /\ InBuffer
    BY <2>1, <2>2 DEF Positions, InBuffer
  <2> QED
    BY <1>1, <2>1, <2>3 DEF Reading!Init, ReaderTypes
<1>3. Behind(0)
  <2>1. ASSUME NEW n \in 1..Len(messages) PROVE Reading!End[n] > 0
    <3>1. 0 \in 0..Len(messages) /\ n \in 0..Len(messages) /\ 0 < n
      BY <1>1, EndsOf
    <3>2. Reading!End[0] < Reading!End[n] /\ Reading!End[n] \in Nat /\ Reading!End[0] = 0
      BY <1>1, <3>1, EndsOf
    <3> QED
      BY <3>2
  <2>2. sent = 0
    BY DEF Reading!Init
  <2> QED
    BY <2>1, <2>2 DEF Behind
<1>4. Upgrading
  BY DEF Reading!Init, Upgrading
<1>5. Skipping
  <2>1. SUFFICES ASSUME reader = "irc"
                 PROVE  /\ 0 \in First..Len(messages) /\ from + offset = Reading!End[0]
                        /\ taken = [i \in 1..(0 - First) |-> First + i]
    BY <1>3 DEF Reading!Init, Skipping
  <2>2. First = 0
    BY <2>1 DEF First
  <2>3. 0 \in 0..Len(messages) /\ Reading!End[0] = 0
    BY <1>1, EndsOf
  <2>4. taken = <<>> /\ from = 0 /\ offset = 0
    BY DEF Reading!Init
  <2>5. [i \in 1..(0 - 0) |-> 0 + i] = <<>>
    OBVIOUS
  <2> QED
    BY <2>2, <2>3, <2>4, <2>5
<1>6. Repeating
  <2>1. /\ Reading!Range(taken) = 1..0 /\ Reading!End[0] <= sent
        /\ from = Reading!End[0] /\ 0 \in 0..Len(messages)
    <3>1. taken = <<>> /\ sent = 0 /\ from = 0
      BY DEF Reading!Init
    <3>2. Reading!End[0] = 0 /\ 0 \in 0..Len(messages)
      BY <1>1, EndsOf
    <3>3. Reading!Range(taken) = {} /\ 1..0 = {}
      BY <3>1, NothingHandled
    <3> QED
      BY <3>1, <3>2, <3>3
  <2> QED
    BY <1>3, <2>1 DEF Reading!Init, Repeating
<1> QED
  BY <1>2, <1>4, <1>5, <1>6 DEF ReadersInv

\* Every packet that comes, and every step of a handler and of the thread that
\* connects, keeps it.
LEMMA ReadersStep == NoneIsEmpty /\ ReadersInv /\ [Reading!Next]_(Reading!vars) => ReadersInv'
<1> SUFFICES ASSUME NoneIsEmpty, ReadersInv, [Reading!Next]_(Reading!vars) PROVE ReadersInv'
  OBVIOUS
<1>1. CASE UNCHANGED Reading!vars
  <2>1. /\ UNCHANGED <<reader, messages, phase, sent, from, offset, view, busy, taken, missed>>
    BY <1>1 DEF Reading!vars
  <2>2. Reading!End' = Reading!End /\ Reading!Total' = Reading!Total /\ First' = First
    BY <2>1, EndsStay DEF First
  <2>3. Reading!Whole' = Reading!Whole
    BY <2>1, <2>2 DEF Reading!Whole
  <2>4. ReaderTypes => ReaderTypes'
    BY <2>1, <2>2, <2>3 DEF ReaderTypes, Positions, InBuffer, Handled
  <2>5. /\ Upgrading => Upgrading'
        /\ Skipping => Skipping'
        /\ Repeating => Repeating'
    BY <2>1, <2>2 DEF Upgrading, Skipping, Repeating, Behind
  <2> QED
    BY <2>1, <2>4, <2>5 DEF ReadersInv
<1>2. CASE Reading!Next
  <2>1. /\ missed = "" /\ UNCHANGED <<messages, reader>> /\ ReaderTypes
        /\ Upgrading /\ Skipping /\ Repeating
    BY <1>2 DEF ReadersInv, Reading!Next, Reading!AnswerPacket, Reading!EarlyPacket,
       Reading!OvertakingPacket, Reading!Packet, Reading!Install, Reading!Flush, Reading!Take,
       Reading!Return, Reading!Reconnect
  <2>2. /\ Reading!End' = Reading!End /\ Reading!Total' = Reading!Total /\ First' = First
        /\ messages \in Streams
        /\ messages' = messages /\ reader' = reader
    BY <2>1, EndsStay DEF First, ReaderTypes
  <2>3. /\ sent \in Nat /\ from \in Nat /\ offset \in Nat /\ view \in Nat
        /\ from <= sent /\ sent <= Reading!Total /\ offset <= view /\ view <= Reading!Total
        /\ from + offset <= sent /\ Reading!Total \in Nat
    BY <2>1, <2>2, EndsOf DEF ReaderTypes, Positions, InBuffer
  <2> QED
    <3>1. ASSUME NEW n \in 1..Reading!Total, Reading!AnswerPacket(n) PROVE ReadersInv'
      <4>1. /\ phase = "upgrade" /\ sent + n <= Reading!Total /\ sent' = sent + n
            /\ UNCHANGED <<offset, view, busy, taken, connections>>
            /\ IF sent' < Reading!End[1]
               THEN UNCHANGED <<phase, from>> /\ Reading!Lose("room", sent' - from > Room)
               ELSE /\ phase' = "upgraded" /\ from' = sent'
                    /\ Reading!Lose("coalesced", sent' > Reading!End[1])
        BY <3>1 DEF Reading!AnswerPacket, Reading!Bytes
      <4>0. sent + n <= Reading!Total /\ sent' = sent + n /\ offset' = offset /\ view' = view
            /\ (from' = from \/ from' = sent')
        BY <4>1
      <4>2. offset = 0 /\ ~busy /\ taken = <<>> /\ from = 0
        BY <2>1, <4>1 DEF Upgrading
      <4>3. /\ missed' \in {"", "room", "coalesced"}
            /\ (phase' = "upgraded" /\ missed' = "" => sent' <= Reading!End[1])
        <5>1. CASE sent' < Reading!End[1]
          BY <2>1, <4>1, <5>1 DEF Reading!Lose
        <5>2. CASE ~(sent' < Reading!End[1])
          <6>1. missed' = IF sent' > Reading!End[1] THEN "coalesced" ELSE missed
            BY <4>1, <5>2 DEF Reading!Lose
          <6>2. sent' \in Nat
            BY <2>3, <4>0
          <6>3. Reading!End[1] \in Nat
            BY <2>2, EndsOf
          <6>4. missed' = "" => sent' <= Reading!End[1]
            <7>1. ~(sent' > Reading!End[1]) => sent' <= Reading!End[1]
              BY <6>2, <6>3
            <7> QED
              BY <6>1, <7>1
          <6> QED
            BY <2>1, <6>1, <6>4
        <5> QED
          BY <5>1, <5>2
      <4>4. Handled'
        BY <4>1, <4>2, NothingHandled
      <4>5. phase' \in {"upgrade", "upgraded"} /\ reader = "frames"
        BY <2>1, <4>1 DEF ReaderTypes
      <4>6. Positions' /\ InBuffer' /\ sent' \in Nat
        <5>1. offset = 0
          BY <4>2
        <5> QED
          BY <2>2, <2>3, <4>0, <5>1 DEF Positions, InBuffer
      <4>7. ReaderTypes'
        BY <2>1, <2>2, <4>1, <4>2, <4>3, <4>4, <4>5, <4>6 DEF ReaderTypes
      <4>8. Reading!End[1] \in Nat
        BY <2>2, EndsOf
      <4>9. missed' = "" => Upgrading'
        <5>1. phase' = "upgraded" /\ missed' = "" => from' = Reading!End[1]
          <6>1. phase' = "upgraded" /\ missed' = "" =>
                  from' = sent' /\ ~(sent' < Reading!End[1]) /\ sent' <= Reading!End[1]
            BY <4>1, <4>3
          <6>2. \A x, y \in Nat : ~(x < y) /\ x <= y => x = y
            OBVIOUS
          <6> QED
            BY <4>6, <4>8, <6>1, <6>2
        <5>2. phase' = "upgrade" => from' = 0
          BY <4>1, <4>2
        <5> QED
          BY <2>2, <4>1, <4>2, <4>5, <5>1, <5>2 DEF Upgrading
      <4>10. Skipping' /\ Repeating'
        BY <4>5 DEF Skipping, Repeating
      <4> QED
        BY <4>7, <4>9, <4>10 DEF ReadersInv
    <3>2. ASSUME NEW n \in 1..Reading!Total,
                 Reading!EarlyPacket(n) \/ Reading!OvertakingPacket(n)
          PROVE  ReadersInv'
      <4>1. /\ phase \in {"upgraded", "flush"} /\ sent + n <= Reading!Total /\ sent' = sent + n
            /\ UNCHANGED <<phase, from, offset, view, busy, taken, connections>>
            /\ missed' \in {"", "room", "order"}
        BY <2>1, <3>2 DEF Reading!EarlyPacket, Reading!OvertakingPacket, Reading!Bytes,
           Reading!Lose
      <4>2. offset = 0 /\ ~busy /\ taken = <<>> /\ from = Reading!End[1]
        BY <2>1, <4>1 DEF Upgrading
      <4>3. Handled'
        BY <4>1, <4>2, NothingHandled
      <4>4. Positions' /\ InBuffer'
        <5>1. /\ sent + n <= Reading!Total /\ sent' = sent + n
              /\ from' = from /\ offset' = offset /\ view' = view
          BY <4>1
        <5> QED
          BY <2>2, <2>3, <5>1 DEF Positions, InBuffer
      <4>5. ReaderTypes'
        BY <2>1, <2>2, <4>1, <4>2, <4>3, <4>4 DEF ReaderTypes
      <4>6. Upgrading' /\ Skipping' /\ Repeating'
        BY <2>2, <4>1, <4>2 DEF Upgrading, Skipping, Repeating
      <4> QED
        BY <4>5, <4>6 DEF ReadersInv
    <3>3. ASSUME NEW n \in 1..Reading!Total, Reading!Packet(n) PROVE ReadersInv'
      <4>1. /\ phase = "read" /\ ~busy /\ sent + n <= Reading!Total /\ sent' = sent + n
            /\ busy' = TRUE /\ view' = offset /\ missed' \in {"", "room"}
            /\ UNCHANGED <<phase, from, offset, taken, connections>>
        BY <2>1, <3>3 DEF Reading!Packet, Reading!Bytes, Reading!Lose
      <4>2. /\ sent' \in Nat /\ sent < sent' /\ from' = from /\ view' = offset
            /\ Positions' /\ InBuffer'
        <5>1. n \in Nat /\ n > 0
          BY <2>3
        <5>2. /\ sent + n <= Reading!Total /\ sent' = sent + n /\ view' = offset
              /\ from' = from /\ offset' = offset
          BY <4>1
        <5> QED
          BY <2>2, <2>3, <5>1, <5>2 DEF Positions, InBuffer
      <4>3. Handled'
        <5>1. Reading!Whole \subseteq Reading!Whole'
          <6>1. \A i \in DOMAIN messages : Reading!End[i] \in Nat
            BY <2>2, EndsOf
          <6>2. \A i \in DOMAIN messages : Reading!End[i] <= sent => Reading!End[i] <= sent'
            BY <2>3, <4>2, <6>1
          <6> QED
            BY <2>2, <6>2 DEF Reading!Whole
        <5> QED
          BY <2>1, <4>1, <5>1 DEF ReaderTypes, Handled
      <4>4. ReaderTypes'
        BY <2>1, <2>2, <4>1, <4>2, <4>3 DEF ReaderTypes
      <4>5. Upgrading'
        BY <4>1 DEF Upgrading
      <4>6. Skipping'
        BY <2>1, <2>2, <4>1 DEF Skipping
      <4>7. Repeating'
        <5>1. SUFFICES ASSUME reader = "console" PROVE Repeating'
          BY <2>2 DEF Repeating
        <5>2. PICK last \in 0..Len(messages) :
                Reading!Range(taken) = 1..last /\ Reading!End[last] <= sent /\ Behind(last)
          BY <2>1, <4>1, <5>1 DEF Repeating
        <5>3. PICK k \in 0..Len(messages) : from = Reading!End[k] /\ offset = 0
          BY <2>1, <4>1, <5>1 DEF Repeating
        <5>4. k \in 0..last
          <6>1. k > last => Reading!End[k] > sent
            BY <2>2, <5>2, EndsOf DEF Behind
          <6>2. Reading!End[k] <= sent
            BY <2>3, <5>3
          <6> QED
            BY <2>2, <2>3, <5>2, <5>3, <6>1, <6>2, EndsOf
        <5>5. Reading!End[last] <= sent' /\ from' + view' = Reading!End[k]
          <6>1. Reading!End[last] \in Nat
            BY <2>2, EndsOf
          <6> QED
            BY <2>3, <4>2, <5>2, <5>3, <6>1
        <5> QED
          BY <2>2, <4>1, <5>2, <5>3, <5>4, <5>5 DEF Repeating
      <4> QED
        BY <4>4, <4>5, <4>6, <4>7 DEF ReadersInv
    <3>4. ASSUME Reading!Install PROVE ReadersInv'
      <4>1. /\ phase = "upgraded" /\ phase' = (IF sent > from THEN "flush" ELSE "read")
            /\ UNCHANGED <<sent, from, offset, view, busy, taken, missed, connections>>
        BY <3>4 DEF Reading!Install
      <4>2. offset = 0 /\ ~busy /\ taken = <<>> /\ from = Reading!End[1] /\ reader = "frames"
        BY <2>1, <4>1 DEF Upgrading, ReaderTypes
      <4>3. Handled'
        BY <4>1, <4>2, NothingHandled
      <4>4. Positions' /\ InBuffer'
        <5>1. sent' = sent /\ from' = from /\ offset' = offset /\ view' = view
          BY <4>1
        <5> QED
          BY <2>2, <2>3, <5>1 DEF Positions, InBuffer
      <4>a. ReaderTypes'
        BY <2>1, <2>2, <4>1, <4>2, <4>3, <4>4 DEF ReaderTypes
      <4>5. Upgrading' /\ Repeating'
        BY <2>2, <4>1, <4>2 DEF Upgrading, Repeating
      <4>6. Skipping'
        <5>1. SUFFICES ASSUME phase' = "read" PROVE Skipping'
          BY DEF Skipping
        <5>2. sent = from
          BY <2>3, <4>1, <5>1
        <5>3. Behind(1)'
          BY <2>2, <4>1, <4>2, <5>2, EndsOf DEF Behind
        <5>4. First = 1
          BY <4>2 DEF First
        <5>5. taken = [i \in 1..(1 - First) |-> First + i] /\ from + offset = Reading!End[1]
          BY <2>3, <4>2, <5>4
        <5>6. 1 \in First..Len(messages)
          BY <2>2, <5>4, EndsOf
        <5> QED
          BY <2>2, <4>1, <4>2, <5>3, <5>5, <5>6 DEF Skipping
      <4> QED
        BY <4>a, <4>5, <4>6 DEF ReadersInv
    <3>5. ASSUME Reading!Flush PROVE ReadersInv'
      <4>1. /\ phase = "flush" /\ phase' = "read" /\ busy' = TRUE /\ view' = offset
            /\ UNCHANGED <<sent, from, offset, taken, missed, connections>>
        BY <3>5 DEF Reading!Flush
      <4>2. offset = 0 /\ taken = <<>> /\ from = Reading!End[1] /\ reader = "frames"
        BY <2>1, <4>1 DEF Upgrading, ReaderTypes
      <4>3. Handled'
        BY <4>1, <4>2, NothingHandled
      <4>4. Positions' /\ InBuffer'
        <5>1. sent' = sent /\ from' = from /\ offset' = offset /\ view' = offset
          BY <4>1
        <5> QED
          BY <2>2, <2>3, <5>1 DEF Positions, InBuffer
      <4>a. ReaderTypes'
        BY <2>1, <2>2, <4>1, <4>2, <4>3, <4>4 DEF ReaderTypes
      <4>5. Upgrading' /\ Repeating'
        BY <2>2, <4>1, <4>2 DEF Upgrading, Repeating
      <4>6. Skipping'
        <5>1. First = 1
          BY <4>2 DEF First
        <5>2. taken = [i \in 1..(1 - First) |-> First + i] /\ from + offset = Reading!End[1]
          BY <2>3, <4>2, <5>1
        <5>3. 1 \in First..Len(messages)
          BY <2>2, <5>1, EndsOf
        <5> QED
          BY <2>2, <4>1, <4>2, <5>2, <5>3 DEF Skipping
      <4> QED
        BY <4>a, <4>5, <4>6 DEF ReadersInv
    <3>6. ASSUME Reading!Take PROVE ReadersInv'
      <4>1. /\ busy /\ Reading!Seen /\ taken' = Append(taken, Reading!Upcoming)
            /\ view' = view + messages[Reading!Upcoming]
            /\ offset' = (IF reader = "console" THEN 0 ELSE view')
            /\ UNCHANGED <<phase, sent, from, busy, missed, connections>>
        BY <3>6 DEF Reading!Take
      <4>2. phase = "read"
        BY <2>1, <4>1 DEF Upgrading
      <4>3. PICK k \in 0..Len(messages) :
              /\ from + view = Reading!End[k] /\ (reader = "frames" => k >= 1)
              /\ reader # "console" => k >= First /\ taken = [i \in 1..(k - First) |-> First + i]
        <5>1. CASE reader # "console"
          <6>1. PICK k \in First..Len(messages) :
                  from + offset = Reading!End[k] /\ taken = [i \in 1..(k - First) |-> First + i]
            BY <2>1, <4>2, <5>1 DEF Skipping
          <6>2. view = offset
            BY <2>1, <4>1, <4>2, <5>1 DEF Skipping
          <6>3. k \in 0..Len(messages) /\ k >= First /\ (reader = "frames" => k >= 1)
            BY <2>2, EndsOf DEF First
          <6> QED
            BY <6>1, <6>2, <6>3
        <5>2. CASE reader = "console"
          <6>1. PICK last \in 0..Len(messages) : \E k \in 0..last : from + view = Reading!End[k]
            BY <2>1, <4>1, <4>2, <5>2 DEF Repeating
          <6>2. 0..last \subseteq 0..Len(messages)
            BY <2>2, EndsOf
          <6> QED
            BY <5>2, <6>1, <6>2
        <5> QED
          BY <5>1, <5>2
      <4>4. k \in Nat /\ k + 1 \in 1..Len(messages) /\ k < Len(messages)
        <5>1. k # Len(messages)
          <6>1. from + view < sent
            BY <4>1 DEF Reading!Seen
          <6> QED
            BY <2>3, <4>3, <6>1 DEF Reading!Total
        <5>2. Len(messages) \in Nat /\ k \in 0..Len(messages)
          BY <2>2, EndsOf
        <5> QED
          BY <5>1, <5>2
      <4>5. Reading!Upcoming = k + 1
        BY <2>2, <4>3, <4>4, UpcomingIs
      <4>6. /\ Reading!End[k + 1] = Reading!End[k] + messages[k + 1] /\ Reading!End[k + 1] <= sent
            /\ messages[k + 1] \in Nat /\ messages[k + 1] > 0 /\ view' = view + messages[k + 1]
        BY <2>2, <4>1, <4>4, <4>5, EndsOf DEF Reading!Seen
      <4>7. /\ view' \in Nat /\ from + view' = Reading!End[k + 1] /\ view' <= Reading!Total
            /\ (offset' = 0 \/ offset' = view')
        <5>1. view' \in Nat /\ from + view' = Reading!End[k + 1]
          BY <2>3, <4>3, <4>6
        <5>2. view' <= Reading!Total
          BY <2>3, <4>6, <5>1
        <5> QED
          BY <4>1, <5>1, <5>2
      <4>8. Positions' /\ InBuffer'
        <5>1. sent' = sent /\ from' = from
          BY <4>1
        <5> QED
          BY <2>2, <2>3, <4>6, <4>7, <5>1 DEF Positions, InBuffer
      <4>9. taken \in Seq(Nat) /\ taken' = Append(taken, k + 1)
        BY <2>1, <4>1, <4>5 DEF ReaderTypes, Handled
      <4>10. Reading!Range(taken') = Reading!Range(taken) \cup {k + 1} /\ taken' \in Seq(Nat)
        BY <4>4, <4>9, AppendRange
      <4>11. Handled'
        <5>1. k + 1 \in Reading!Whole
          BY <2>2, <4>3, <4>4, <4>6, EndsOf DEF Reading!Whole
        <5>2. Reading!Whole' = Reading!Whole
          BY <2>2, <4>1 DEF Reading!Whole
        <5> QED
          BY <2>1, <4>10, <5>1, <5>2 DEF ReaderTypes, Handled
      <4>12. ReaderTypes'
        BY <2>1, <2>2, <4>1, <4>8, <4>11 DEF ReaderTypes
      <4>13. Upgrading'
        BY <4>1, <4>2 DEF Upgrading
      <4>14. Skipping'
        <5>1. SUFFICES ASSUME reader # "console" PROVE Skipping'
          BY <2>2 DEF Skipping
        <5>2. First \in {0, 1} /\ k >= First /\ taken = [i \in 1..(k - First) |-> First + i]
          BY <4>3, <5>1 DEF First
        <5>3. taken' = [i \in 1..((k + 1) - First) |-> First + i]
          BY <4>4, <4>9, <5>2, OneMore
        <5>4. k + 1 \in First..Len(messages)
          BY <2>2, <4>4, <5>2, EndsOf
        <5>5. from' + offset' = Reading!End[k + 1] /\ view' = offset' /\ busy'
          BY <4>1, <4>7, <5>1
        <5> QED
          BY <2>2, <5>3, <5>4, <5>5 DEF Skipping
      <4>15. Repeating'
        <5>1. SUFFICES ASSUME reader = "console" PROVE Repeating'
          BY <2>2 DEF Repeating
        <5>2. PICK last \in 0..Len(messages) :
                /\ Reading!Range(taken) = 1..last /\ Reading!End[last] <= sent
                /\ \E j \in 0..last : from + view = Reading!End[j]
          BY <2>1, <4>1, <4>2, <5>1 DEF Repeating
        <5>3. k <= last
          <6>1. PICK j \in 0..last : from + view = Reading!End[j]
            BY <5>2
          <6>2. /\ j \in 0..Len(messages) /\ j <= last
                /\ Reading!End[j] = Reading!End[k] /\ Reading!End[j] \in Nat
            BY <2>2, <4>3, <6>1, EndsOf
          <6>3. ~(j < k)
            BY <2>2, <6>2, EndsOf
          <6> QED
            BY <4>4, <6>2, <6>3
        <5> DEFINE next == IF k < last THEN last ELSE k + 1
        <5>4. next \in 0..Len(messages) /\ k + 1 \in 0..next /\ Reading!End[next] <= sent
          BY <4>4, <4>6, <5>2, <5>3
        <5>5. Reading!Range(taken') = 1..next
          BY <4>4, <4>10, <5>2, <5>3
        <5>6. /\ from' + view' = Reading!End[k + 1]
              /\ sent' = sent /\ from' = from /\ busy' /\ offset' = 0
          BY <4>1, <4>7, <5>1
        <5>7. \E j \in 0..Len(messages) : from = Reading!End[j]
          BY <2>1, <4>2, <5>1 DEF Repeating
        <5> HIDE DEF next
        <5> QED
          BY <2>2, <5>4, <5>5, <5>6, <5>7 DEF Repeating
      <4> QED
        BY <4>12, <4>13, <4>14, <4>15 DEF ReadersInv
    <3>7. ASSUME Reading!Return PROVE ReadersInv'
      <4>1. /\ busy /\ ~Reading!Seen /\ busy' = FALSE
            /\ UNCHANGED <<phase, sent, view, taken, connections>>
            /\ IF Reading!Finished
               THEN from' = sent /\ offset' = 0 /\ Reading!Lose("remainder", sent > from + view)
               ELSE UNCHANGED <<from, offset, missed>>
        BY <3>7 DEF Reading!Return
      <4>2. phase = "read"
        BY <2>1, <4>1 DEF Upgrading
      <4>3. /\ missed' \in {"", "remainder"}
            /\ (missed' = "" /\ Reading!Finished => ~(sent > from + view))
        BY <2>1, <4>1 DEF Reading!Lose
      <4>4. (from' = sent /\ offset' = 0) \/ (from' = from /\ offset' = offset)
        BY <4>1
      <4>5. Positions' /\ InBuffer'
        <5>1. sent' = sent /\ view' = view
          BY <4>1
        <5> QED
          BY <2>2, <2>3, <4>4, <5>1 DEF Positions, InBuffer
      <4>6. Handled'
        <5>1. Reading!Whole' = Reading!Whole
          BY <2>2, <4>1 DEF Reading!Whole
        <5> QED
          BY <2>1, <4>1, <5>1 DEF ReaderTypes, Handled
      <4>7. ReaderTypes'
        BY <2>1, <2>2, <4>1, <4>3, <4>5, <4>6 DEF ReaderTypes
      <4>8. Upgrading'
        BY <4>1, <4>2 DEF Upgrading
      <4>9. ASSUME NEW k \in 0..Len(messages), from + view = Reading!End[k],
                   NEW n \in 0..Len(messages), k < n
            PROVE  Reading!End[n] > sent
        <5>1. /\ Reading!End[k] \in Nat /\ Reading!End[n] \in Nat
              /\ Reading!End[k] < Reading!End[n] /\ k < Len(messages) /\ k \in Nat
          BY <2>2, <4>9, EndsOf
        <5>2. CASE from + view < sent
          <6>1. Reading!Upcoming = k + 1
            BY <2>2, <4>9, <5>1, UpcomingIs
          <6>2. ~(Reading!End[k + 1] <= sent)
            BY <4>1, <5>2, <6>1 DEF Reading!Seen
          <6>3. k + 1 = n \/ k + 1 < n
            BY <5>1, <4>9
          <6>4. k + 1 \in 0..Len(messages)
            BY <5>1
          <6>5. Reading!End[k + 1] \in Nat /\ (k + 1 < n => Reading!End[k + 1] < Reading!End[n])
            BY <2>2, <6>4, EndsOf
          <6> QED
            BY <2>3, <5>1, <6>2, <6>3, <6>5
        <5>3. CASE ~(from + view < sent)
          BY <2>3, <4>9, <5>1, <5>3
        <5> QED
          BY <5>2, <5>3
      <4>10. missed' = "" => Skipping'
        <5>1. SUFFICES ASSUME missed' = "", reader # "console" PROVE Skipping'
          BY <2>2 DEF Skipping
        <5>2. PICK k \in First..Len(messages) :
                from + offset = Reading!End[k] /\ taken = [i \in 1..(k - First) |-> First + i]
          BY <2>1, <4>2, <5>1 DEF Skipping
        <5>3. view = offset
          BY <2>1, <4>1, <4>2, <5>1 DEF Skipping
        <5>4. k \in 0..Len(messages)
          BY <2>2, EndsOf DEF First
        <5>5. Behind(k)'
          <6>1. ASSUME NEW n \in (k + 1)..Len(messages) PROVE Reading!End[n] > sent
            BY <4>9, <5>2, <5>3, <5>4
          <6> QED
            BY <2>2, <4>1, <6>1 DEF Behind
        <5>6. from' + offset' = Reading!End[k]
          <6>1. CASE Reading!Finished
            <7>1. ~(sent > from + view) /\ from' = sent /\ offset' = 0
              BY <4>1, <4>3, <5>1, <6>1
            <7> QED
              BY <2>3, <5>2, <5>3, <7>1
          <6>2. CASE ~Reading!Finished
            BY <4>1, <5>2, <6>2
          <6> QED
            BY <6>1, <6>2
        <5> QED
          BY <2>2, <4>1, <5>2, <5>5, <5>6 DEF Skipping
      <4>11. missed' = "" => Repeating'
        <5>1. SUFFICES ASSUME missed' = "", reader = "console" PROVE Repeating'
          BY <2>2 DEF Repeating
        <5>2. PICK last \in 0..Len(messages) :
                /\ Reading!Range(taken) = 1..last /\ Reading!End[last] <= sent
                /\ \E j \in 0..last : from + view = Reading!End[j]
          BY <2>1, <4>1, <4>2, <5>1 DEF Repeating
        <5>3. PICK k \in 0..last : from + view = Reading!End[k]
          BY <5>2
        <5>4. k \in 0..Len(messages) /\ last \in Nat /\ k \in Nat /\ k <= last
          BY <2>2, EndsOf
        <5>5. last = k
          <6>1. k < last => Reading!End[last] > sent
            BY <4>9, <5>3, <5>4
          <6>2. Reading!End[last] \in Nat
            BY <2>2, EndsOf
          <6> QED
            BY <2>3, <5>2, <5>4, <6>1, <6>2
        <5>6. Behind(last)'
          <6>1. ASSUME NEW n \in (last + 1)..Len(messages) PROVE Reading!End[n] > sent
            BY <4>9, <5>3, <5>4, <5>5
          <6> QED
            BY <2>2, <4>1, <6>1 DEF Behind
        <5>7. offset = 0 /\ \E j \in 0..Len(messages) : from = Reading!End[j]
          BY <2>1, <4>2, <5>1 DEF Repeating
        <5>8. offset' = 0 /\ \E j \in 0..Len(messages) : from' = Reading!End[j]
          <6>1. CASE Reading!Finished
            <7>1. ~(sent > from + view) /\ from' = sent /\ offset' = 0
              BY <4>1, <4>3, <5>1, <6>1
            <7>2. from + view = sent
              <8>1. Reading!End[last] \in Nat
                BY <2>2, EndsOf
              <8> QED
                BY <2>3, <5>2, <5>3, <5>5, <7>1, <8>1
            <7> QED
              BY <5>3, <5>4, <7>1, <7>2
          <6>2. CASE ~Reading!Finished
            BY <4>1, <5>7, <6>2
          <6> QED
            BY <6>1, <6>2
        <5> QED
          BY <2>2, <4>1, <5>2, <5>6, <5>8 DEF Repeating
      <4> QED
        BY <4>7, <4>8, <4>10, <4>11 DEF ReadersInv
    <3>8. ASSUME Reading!Reconnect PROVE ReadersInv'
      <4>1. /\ reader = "frames" /\ ~busy /\ phase # "flush" /\ phase' = "upgrade"
            /\ sent' = 0 /\ from' = 0 /\ taken' = <<>> /\ UNCHANGED <<offset, view, busy>>
            /\ missed' = IF phase = "read" /\ sent > from THEN "stale" ELSE ""
        BY <2>1, <3>8 DEF Reading!Reconnect, Reading!Lose
      <4>2. missed' = "" => offset = 0
        <5>1. phase \in {"upgrade", "upgraded", "read"}
          BY <2>1, <4>1 DEF ReaderTypes
        <5>2. phase # "read" => offset = 0
          BY <2>1 DEF Upgrading
        <5>3. phase = "read" /\ ~(sent > from) => offset = 0
          BY <2>3
        <5> QED
          BY <4>1, <5>2, <5>3
      <4>3. Handled'
        BY <4>1, NothingHandled
      <4>4. Positions' /\ (missed' = "" => InBuffer')
        <5>1. sent' = 0 /\ from' = 0 /\ offset' = offset /\ view' = view
          BY <4>1
        <5>2. Positions' /\ (offset = 0 => InBuffer')
          BY <2>2, <2>3, <5>1 DEF Positions, InBuffer
        <5> QED
          BY <4>2, <5>2
      <4>a. ReaderTypes'
        BY <2>1, <2>2, <4>1, <4>2, <4>3, <4>4 DEF ReaderTypes
      <4>5. missed' = "" => Upgrading' /\ Skipping' /\ Repeating'
        BY <4>1, <4>2 DEF Upgrading, Skipping, Repeating
      <4> QED
        BY <4>a, <4>5 DEF ReadersInv
    <3> QED
      BY <1>2, <3>1, <3>2, <3>3, <3>4, <3>5, <3>6, <3>7, <3>8 DEF Reading!Next
<1> QED
  BY <1>1, <1>2

\* The size of a set, as Readers has it.
LEMMA SameReadersSize == \A X : Reading!Cardinality(X) = Cardinality(X)
  BY DEF Reading!Cardinality, Cardinality

\* What has come whole is what is handled when the handler rests.
LEMMA AllTaken == NoneIsEmpty /\ ReadersInv => Reading!TypeOK /\ Reading!EachMessageIsTaken
<1> SUFFICES ASSUME NoneIsEmpty, ReadersInv PROVE Reading!TypeOK /\ Reading!EachMessageIsTaken
  OBVIOUS
<1>1. Reading!TypeOK
  BY DEF ReadersInv, ReaderTypes, Positions, InBuffer, Handled, Reading!TypeOK
<1>2. ASSUME phase = "read", ~busy, missed = ""
      PROVE  /\ Reading!Range(taken) = Reading!Whole
             /\ reader # "console" => /\ Len(taken) = Reading!Cardinality(Reading!Whole)
                                      /\ \A i \in 2..Len(taken) : taken[i] = taken[i - 1] + 1
  <2>1. messages \in Streams /\ Positions /\ InBuffer /\ Skipping /\ Repeating
        /\ reader \in {"frames", "irc", "console"}
    BY <1>2 DEF ReadersInv, ReaderTypes
  <2>2. ASSUME NEW k \in 0..Len(messages), Reading!End[k] <= sent, Behind(k)
        PROVE  {n \in DOMAIN messages : Reading!End[n] <= sent} = 1..k
    <3>1. ASSUME NEW n \in 1..Len(messages) PROVE Reading!End[n] <= sent <=> n <= k
      <4>1. /\ n \in 0..Len(messages)
            /\ Reading!End[n] \in Nat /\ Reading!End[k] \in Nat /\ k \in Nat /\ sent \in Nat
        BY <2>1, EndsOf DEF Positions
      <4>2. n <= k => Reading!End[n] <= sent
        <5>1. n < k => Reading!End[n] < Reading!End[k]
          BY <2>1, <4>1, EndsOf
        <5> QED
          BY <2>2, <4>1, <5>1
      <4>3. n > k => Reading!End[n] > sent
        BY <2>2, <4>1 DEF Behind
      <4> QED
        BY <4>1, <4>2, <4>3
    <3> QED
      BY <2>1, <3>1, EndsOf
  <2>3. CASE reader = "console"
    <3>1. PICK last \in 0..Len(messages) :
            Reading!Range(taken) = 1..last /\ Reading!End[last] <= sent /\ Behind(last)
      BY <1>2, <2>1, <2>3 DEF Repeating
    <3>2. Reading!Whole = {n \in DOMAIN messages : Reading!End[n] <= sent}
      BY <2>3 DEF Reading!Whole
    <3> QED
      BY <2>2, <2>3, <3>1, <3>2
  <2>4. CASE reader # "console"
    <3>1. PICK k \in First..Len(messages) :
            /\ from + offset = Reading!End[k] /\ Behind(k)
            /\ taken = [i \in 1..(k - First) |-> First + i]
      BY <1>2, <2>1, <2>4 DEF Skipping
    <3>2. /\ k \in 0..Len(messages) /\ First \in {0, 1} /\ k \in Nat /\ k >= First
          /\ Len(messages) \in Nat
      BY <2>1, EndsOf DEF First
    <3>3. {n \in DOMAIN messages : Reading!End[n] <= sent} = 1..k
      BY <2>1, <2>2, <3>1, <3>2 DEF InBuffer
    <3>4. Reading!Whole = (First + 1)..k
      <4>1. Reading!Whole = {n \in 1..k : reader = "frames" => n > 1}
        BY <3>3 DEF Reading!Whole
      <4>2. CASE reader = "frames"
        BY <3>2, <4>1, <4>2 DEF First
      <4>3. CASE reader # "frames"
        BY <3>2, <4>1, <4>3 DEF First
      <4> QED
        BY <4>2, <4>3
    <3>5. Reading!Cardinality(Reading!Whole) = k - First
      <4>1. First + 1 \in Int /\ k \in Int
        BY <3>2
      <4>2. Cardinality((First + 1)..k) = IF First + 1 > k THEN 0 ELSE k - (First + 1) + 1
        BY <4>1, FS_Interval
      <4> QED
        BY SameReadersSize, <3>2, <3>4, <4>2
    <3>6. Len(taken) = k - First /\ DOMAIN taken = 1..(k - First)
      BY <3>1, <3>2
    <3>7. Reading!Range(taken) = (First + 1)..k
      <4>1. Reading!Range(taken) = {First + i : i \in 1..(k - First)}
        BY <3>1, <3>6 DEF Reading!Range
      <4>2. ASSUME NEW n \in (First + 1)..k
            PROVE  n - First \in 1..(k - First) /\ First + (n - First) = n
        BY <3>2
      <4>3. ASSUME NEW i \in 1..(k - First) PROVE First + i \in (First + 1)..k
        BY <3>2
      <4> QED
        BY <4>1, <4>2, <4>3
    <3>8. \A i \in 2..Len(taken) : taken[i] = taken[i - 1] + 1
      <4>1. ASSUME NEW i \in 2..(k - First)
            PROVE  /\ i \in 1..(k - First) /\ i - 1 \in 1..(k - First)
                   /\ First + i = (First + (i - 1)) + 1
        BY <3>2
      <4> QED
        BY <3>1, <3>6, <4>1
    <3> QED
      BY <3>4, <3>5, <3>6, <3>7, <3>8
  <2> QED
    BY <2>3, <2>4
<1> QED
  BY <1>1, <1>2 DEF Reading!EachMessageIsTaken

-----------------------------------------------------------------------------
(* ThreadPool *)

\* The state of a future: whether somebody keeps it, and whether the job has run.
Job == [kept : BOOLEAN, set : BOOLEAN]

\* What the queue holds are jobs that were made, and markers.
PoolTypes ==
  /\ jobs \in Seq(Nat) /\ future \in Seq(Job)
  /\ thread \in [PoolThreads -> {"pop", "run", "wait", "stop", "gone"}]
  /\ job \in [PoolThreads -> [runs : Nat, awaits : Nat]]
  /\ caller \in [Callers -> Nat]
  /\ pool \in {"running", "joining", "gone"}

\* A thread has a job from the queue to its end.
Has(t) == thread[t] \in {"run", "wait"}

\* The numbers are those of the futures that were made.
Numbers ==
  /\ \A i \in 1..Len(jobs) : jobs[i] <= Len(future)
  /\ \A t \in PoolThreads : job[t].runs <= Len(future) /\ job[t].awaits <= Len(future)
  /\ \A c \in Callers : caller[c] <= Len(future)
  /\ waits \subseteq 1..Len(future) /\ late \subseteq 1..Len(future)

\* A job is in the queue once, or with one thread, and its future is set afterwards.
RunsOnce ==
  /\ \A i, j \in 1..Len(jobs) : jobs[i] = jobs[j] /\ jobs[i] # 0 => i = j
  /\ \A i \in 1..Len(jobs) : jobs[i] # 0 => ~future[jobs[i]].set
  /\ \A t \in PoolThreads :
       Has(t) => /\ job[t].runs \in 1..Len(future) /\ ~future[job[t].runs].set
                 /\ \A i \in 1..Len(jobs) : jobs[i] # job[t].runs
                 /\ \A u \in PoolThreads : Has(u) /\ job[u].runs = job[t].runs => u = t
  /\ \A t \in PoolThreads : thread[t] = "wait" => job[t].runs \in waits

\* The jobs that have made another one, which they do once.
Makers == {n \in waits : \/ future[n].set
                         \/ \E t \in PoolThreads : thread[t] = "wait" /\ job[t].runs = n}

\* There is a job for each that a caller made, and for each that was made by one.
Bounded ==
  /\ IsFiniteSet(waits) /\ Cardinality(waits) <= MaxWaits
  /\ Len(future) <= MaxJobs + Cardinality(Makers)

\* The inductive invariant.
PoolInv == PoolTypes /\ Numbers /\ RunsOnce /\ Bounded

\* The size of a set, as ThreadPool has it.
LEMMA SamePoolSize == \A X : Pool!Cardinality(X) = Cardinality(X)
  BY DEF Pool!Cardinality, Cardinality

\* There is no job at first.
LEMMA PoolInit == MaxJobs \in Nat /\ MaxWaits \in Nat /\ Pool!Init => PoolInv
<1> SUFFICES ASSUME MaxJobs \in Nat, MaxWaits \in Nat, Pool!Init PROVE PoolInv
  OBVIOUS
<1>1. PoolTypes
  BY DEF Pool!Init, PoolTypes
<1>2. Numbers /\ RunsOnce
  BY DEF Pool!Init, Numbers, RunsOnce, Has
<1>3. Makers = {} /\ waits = {}
  BY DEF Pool!Init, Makers
<1>4. Len(future) = 0
  BY DEF Pool!Init
<1>5. Bounded
  BY <1>3, <1>4, FS_EmptySet DEF Bounded
<1> QED
  BY <1>1, <1>2, <1>5 DEF PoolInv

\* How many have made another one: a number, not less when there are more.
LEMMA MakersCount ==
  ASSUME PoolInv
  PROVE  /\ IsFiniteSet(Makers) /\ Cardinality(Makers) \in Nat
         /\ Cardinality(Makers) <= Cardinality(waits) /\ Cardinality(waits) \in Nat
<1>1. Makers \subseteq waits /\ IsFiniteSet(waits)
  BY DEF Makers, PoolInv, Bounded
<1> QED
  BY <1>1, FS_Subset, FS_CardinalityType

\* There are no more jobs than the two bounds allow.
LEMMA BoundedSum ==
  ASSUME MaxJobs \in Nat, MaxWaits \in Nat, PoolInv
  PROVE  Len(future) <= MaxJobs + MaxWaits
<1>1. Len(future) \in Nat
  BY DEF PoolInv, PoolTypes
<1>2. Len(future) <= MaxJobs + Cardinality(Makers) /\ Cardinality(waits) <= MaxWaits
  BY DEF PoolInv, Bounded
<1> QED
  BY <1>1, <1>2, MakersCount

\* A new job at the end of the queue (ThreadPool::run).
LEMMA RunAppends ==
  ASSUME PoolInv, NEW f \in Job, f.set = FALSE, Pool!Run(f)
  PROVE  /\ future' \in Seq(Job) /\ jobs' \in Seq(Nat)
         /\ Len(future) \in Nat /\ Len(future') = Len(future) + 1
         /\ future'[Len(future) + 1] = f
         /\ \A n \in 1..Len(future) : future'[n] = future[n]
         /\ Len(jobs) \in Nat /\ Len(jobs') = Len(jobs) + 1
         /\ jobs'[Len(jobs) + 1] = Len(future) + 1
         /\ \A i \in 1..Len(jobs) : jobs'[i] = jobs[i]
         /\ late' \subseteq late \cup {Len(future) + 1}
<1>1. future \in Seq(Job) /\ jobs \in Seq(Nat)
  BY DEF PoolInv, PoolTypes
<1>2. /\ future' = Append(future, f) /\ jobs' = Append(jobs, Len(future'))
      /\ late' \subseteq late \cup {Len(future')}
  BY DEF Pool!Run
<1>3. /\ future' \in Seq(Job) /\ Len(future) \in Nat /\ Len(future') = Len(future) + 1
      /\ future'[Len(future) + 1] = f
      /\ \A n \in 1..Len(future) : future'[n] = future[n]
  BY <1>1, <1>2
<1>4. jobs' = Append(jobs, Len(future) + 1) /\ Len(future) + 1 \in Nat
  BY <1>2, <1>3
<1>5. /\ Len(jobs) \in Nat /\ Len(jobs') = Len(jobs) + 1 /\ jobs' \in Seq(Nat)
      /\ jobs'[Len(jobs) + 1] = Len(future) + 1
      /\ \A i \in 1..Len(jobs) : jobs'[i] = jobs[i]
  BY <1>1, <1>4
<1> QED
  BY <1>2, <1>3, <1>5

\* It waits in the queue alone, and its future is not set.
LEMMA NewJobRunsOnce ==
  ASSUME PoolInv, NEW f \in Job, f.set = FALSE, Pool!Run(f),
         \A t \in PoolThreads : (Has(t)' <=> Has(t)) /\ job'[t].runs = job[t].runs,
         \A t \in PoolThreads : thread'[t] = "wait" => job'[t].runs \in waits'
  PROVE  RunsOnce'
<1> DEFINE new == Len(future) + 1
<1>1. /\ Len(future) \in Nat /\ Len(future') = new
      /\ future'[new] = f
      /\ \A n \in 1..Len(future) : future'[n] = future[n]
      /\ Len(jobs) \in Nat /\ Len(jobs') = Len(jobs) + 1
      /\ jobs'[Len(jobs) + 1] = new
      /\ \A i \in 1..Len(jobs) : jobs'[i] = jobs[i]
  BY RunAppends
<1> HIDE DEF new
<1>2. new \in Nat /\ new = Len(future) + 1
  BY <1>1 DEF new
<1>3. /\ \A i \in 1..Len(jobs) : jobs[i] \in Nat /\ jobs[i] <= Len(future)
      /\ RunsOnce
  BY DEF PoolInv, PoolTypes, Numbers
<1>4. \A i, j \in 1..Len(jobs') : jobs'[i] = jobs'[j] /\ jobs'[i] # 0 => i = j
  BY <1>1, <1>2, <1>3 DEF RunsOnce
<1>5. \A i \in 1..Len(jobs') : jobs'[i] # 0 => ~future'[jobs'[i]].set
  <2>1. ~future'[new].set
    BY <1>1
  <2>2. \A i \in 1..Len(jobs) : jobs[i] # 0 => future'[jobs[i]] = future[jobs[i]]
    BY <1>1, <1>3
  <2>3. \A i \in 1..Len(jobs) : jobs'[i] # 0 => ~future'[jobs'[i]].set
    BY <1>1, <1>3, <2>2 DEF RunsOnce
  <2> QED
    BY <1>1, <2>1, <2>3
<1>6. ASSUME NEW t \in PoolThreads, Has(t)'
      PROVE  /\ job'[t].runs \in 1..Len(future') /\ ~future'[job'[t].runs].set
             /\ \A i \in 1..Len(jobs') : jobs'[i] # job'[t].runs
             /\ \A u \in PoolThreads : Has(u)' /\ job'[u].runs = job'[t].runs => u = t
  <2>1. /\ Has(t) /\ job[t].runs \in 1..Len(future) /\ ~future[job[t].runs].set
        /\ \A i \in 1..Len(jobs) : jobs[i] # job[t].runs
        /\ \A u \in PoolThreads : Has(u) /\ job[u].runs = job[t].runs => u = t
    BY <1>3, <1>6 DEF RunsOnce
  <2>2. job'[t].runs = job[t].runs
    OBVIOUS
  <2>3. job'[t].runs \in 1..Len(future') /\ ~future'[job'[t].runs].set
    BY <1>1, <1>2, <2>1, <2>2
  <2>4. \A i \in 1..Len(jobs') : jobs'[i] # job'[t].runs
    BY <1>1, <1>2, <2>1, <2>2
  <2>5. \A u \in PoolThreads : Has(u)' /\ job'[u].runs = job'[t].runs => u = t
    BY <2>1, <2>2
  <2> QED
    BY <2>3, <2>4, <2>5
<1> QED
  BY <1>4, <1>5, <1>6 DEF RunsOnce

\* The numbers of the futures are those of before, and the new one.
LEMMA NewJobNumbers ==
  ASSUME PoolInv, NEW f \in Job, f.set = FALSE, Pool!Run(f),
         \A t \in PoolThreads : job'[t].runs = job[t].runs
                                /\ job'[t].awaits \in {job[t].awaits, Len(future')},
         \A c \in Callers : caller'[c] \in {caller[c], Len(future')},
         waits' \subseteq waits \cup {Len(future')}
  PROVE  Numbers'
<1> DEFINE new == Len(future')
<1>1. /\ Len(future) \in Nat /\ new = Len(future) + 1
      /\ Len(jobs) \in Nat /\ Len(jobs') = Len(jobs) + 1
      /\ jobs'[Len(jobs) + 1] = new
      /\ \A i \in 1..Len(jobs) : jobs'[i] = jobs[i]
      /\ late' \subseteq late \cup {new}
  BY RunAppends
<1> HIDE DEF new
<1>a. /\ \A i \in 1..Len(jobs) : jobs[i] \in Nat
      /\ \A t \in PoolThreads : job[t].runs \in Nat /\ job[t].awaits \in Nat
      /\ \A c \in Callers : caller[c] \in Nat
  BY DEF PoolInv, PoolTypes
<1>2. /\ \A i \in 1..Len(jobs) : jobs[i] <= Len(future)
      /\ \A t \in PoolThreads : job[t].runs <= Len(future)
      /\ \A t \in PoolThreads : job[t].awaits <= Len(future)
      /\ \A c \in Callers : caller[c] <= Len(future)
      /\ waits \subseteq 1..Len(future) /\ late \subseteq 1..Len(future)
  BY DEF PoolInv, Numbers
<1>3. \A i \in 1..Len(jobs') : jobs'[i] <= new
  BY <1>1, <1>a, <1>2
<1>4. \A t \in PoolThreads : job'[t].runs <= new
  BY <1>1, <1>a, <1>2
<1>5. \A t \in PoolThreads : job'[t].awaits <= new
  BY <1>1, <1>a, <1>2 DEF new
<1>6. \A c \in Callers : caller'[c] <= new
  BY <1>1, <1>a, <1>2 DEF new
<1>7. 1..Len(future) \cup {new} = 1..new
  BY <1>1
<1>8. waits' \subseteq 1..new /\ late' \subseteq 1..new
  BY <1>1, <1>2, <1>7 DEF new
<1> QED
  BY <1>3, <1>4, <1>5, <1>6, <1>8 DEF Numbers, new

\* A caller runs a job in the pool.
LEMMA DispatchStep ==
  ASSUME MaxJobs \in Nat, MaxWaits \in Nat, PoolInv, NEW c \in Callers, Pool!Dispatch(c)
  PROVE  PoolInv'
<1> DEFINE new == Len(future')
<1>1. PICK f \in Job : f.set = FALSE /\ Pool!Run(f)
  BY DEF Pool!Dispatch, Pool!Discarded, Pool!Kept, Job
<1>2. /\ future' \in Seq(Job) /\ jobs' \in Seq(Nat)
      /\ Len(future) \in Nat /\ new = Len(future) + 1
  BY <1>1, RunAppends
<1>3. /\ thread' = thread /\ job' = job /\ pool' = pool
      /\ caller' = caller \/ caller' = [caller EXCEPT ![c] = new]
      /\ waits' = waits \/ (Cardinality(waits) < MaxWaits /\ waits' = waits \cup {new})
      /\ Len(future) < MaxJobs
  BY SamePoolSize DEF Pool!Dispatch
<1>4. PoolTypes
  BY DEF PoolInv
<1>5. PoolTypes'
  BY <1>2, <1>3, <1>4 DEF PoolTypes
<1>6. Numbers'
  <2>1. \A d \in Callers : caller'[d] \in {caller[d], new}
    BY <1>3, <1>4 DEF PoolTypes
  <2> QED
    BY <1>1, <1>3, <2>1, NewJobNumbers
<1>7. RunsOnce'
  <2>1. \A t \in PoolThreads : thread'[t] = "wait" => job'[t].runs \in waits'
    BY <1>3 DEF PoolInv, RunsOnce
  <2>2. \A t \in PoolThreads : (Has(t)' <=> Has(t)) /\ job'[t].runs = job[t].runs
    BY <1>3 DEF Has
  <2> QED
    BY <1>1, <2>1, <2>2, NewJobRunsOnce
<1>8. Bounded'
  <2>1. IsFiniteSet(waits) /\ Cardinality(waits) <= MaxWaits /\ waits \subseteq 1..Len(future)
    BY DEF PoolInv, Bounded, Numbers
  <2>2. Cardinality(waits) \in Nat
    BY <2>1, FS_CardinalityType
  <2>3. IsFiniteSet(waits') /\ Cardinality(waits') <= MaxWaits
    <3>1. CASE waits' = waits
      BY <2>1, <3>1
    <3>2. CASE Cardinality(waits) < MaxWaits /\ waits' = waits \cup {new}
      <4>1. new \notin waits
        BY <1>2, <2>1
      <4>2. IsFiniteSet(waits \cup {new}) /\ Cardinality(waits \cup {new}) = Cardinality(waits) + 1
        BY <2>1, <4>1, FS_AddElement
      <4> QED
        BY <2>2, <3>2, <4>2
    <3> QED
      BY <1>3, <3>1, <3>2
  <2>4. Cardinality(Makers') \in Nat
    <3>1. Makers' \subseteq waits'
      BY DEF Makers
    <3> QED
      BY <2>3, <3>1, FS_Subset, FS_CardinalityType
  <2>5. Len(future') <= MaxJobs + Cardinality(Makers')
    BY <1>2, <1>3, <2>4
  <2> QED
    BY <2>3, <2>5 DEF Bounded
<1> QED
  BY <1>5, <1>6, <1>7, <1>8 DEF PoolInv

\* A job makes another one, once, and waits for it.
LEMMA RunInnerStep ==
  ASSUME MaxJobs \in Nat, MaxWaits \in Nat, PoolInv, NEW t \in PoolThreads, Pool!RunInner(t)
  PROVE  PoolInv'
<1> DEFINE new == Len(future')
           maker == job[t].runs
<1>1. PICK f \in Job : f.set = FALSE /\ Pool!Run(f)
  BY DEF Pool!RunInner, Pool!Kept, Job
<1>2. /\ future' \in Seq(Job) /\ jobs' \in Seq(Nat)
      /\ Len(future) \in Nat /\ new = Len(future) + 1
      /\ \A n \in 1..Len(future) : future'[n] = future[n]
  BY <1>1, RunAppends
<1>3. /\ thread[t] = "run" /\ maker \in waits
      /\ thread' = [thread EXCEPT ![t] = "wait"] /\ job' = [job EXCEPT ![t].awaits = new]
      /\ waits' = waits /\ caller' = caller /\ pool' = pool
  BY DEF Pool!RunInner, Pool!Goto
<1>4. PoolTypes /\ RunsOnce
  BY DEF PoolInv
<1>5. /\ thread'[t] = "wait" /\ \A u \in PoolThreads : u # t => thread'[u] = thread[u]
      /\ \A u \in PoolThreads : job'[u].runs = job[u].runs
      /\ \A u \in PoolThreads : job'[u].awaits \in {job[u].awaits, new}
  BY <1>3, <1>4 DEF PoolTypes
<1>6. PoolTypes'
  <2>1. job' \in [PoolThreads -> [runs : Nat, awaits : Nat]]
    BY <1>2, <1>3, <1>4 DEF PoolTypes
  <2> QED
    BY <1>2, <1>3, <1>4, <2>1 DEF PoolTypes
<1>7. Numbers'
  <2>1. \A d \in Callers : caller'[d] \in {caller[d], new}
    BY <1>3
  <2> QED
    BY <1>1, <1>3, <1>5, <2>1, NewJobNumbers
<1>8. RunsOnce'
  <2>1. \A u \in PoolThreads : thread'[u] = "wait" => job'[u].runs \in waits'
    BY <1>3, <1>4, <1>5 DEF RunsOnce
  <2>2. \A u \in PoolThreads : (Has(u)' <=> Has(u)) /\ job'[u].runs = job[u].runs
    BY <1>3, <1>5 DEF Has
  <2> QED
    BY <1>1, <2>1, <2>2, NewJobRunsOnce
<1>9. Bounded'
  <2>1. /\ IsFiniteSet(waits) /\ Cardinality(waits) <= MaxWaits /\ waits \subseteq 1..Len(future)
        /\ Len(future) <= MaxJobs + Cardinality(Makers)
    BY DEF PoolInv, Bounded, Numbers
  <2>2. maker \notin Makers
    <3>1. Has(t) /\ thread[t] # "wait"
      BY <1>3 DEF Has
    <3>2. /\ ~future[maker].set
          /\ \A u \in PoolThreads : Has(u) /\ job[u].runs = maker => u = t
      BY <1>4, <3>1 DEF RunsOnce
    <3> QED
      BY <3>1, <3>2 DEF Makers, Has
  <2>3. Makers' = Makers \cup {maker}
    <3>1. \A n \in waits : future'[n].set <=> future[n].set
      BY <1>2, <2>1
    <3>2. \A n \in waits : (\E u \in PoolThreads : thread'[u] = "wait" /\ job'[u].runs = n)
            <=> \/ n = maker
                \/ \E u \in PoolThreads : thread[u] = "wait" /\ job[u].runs = n
      BY <1>3, <1>5
    <3> QED
      BY <1>3, <3>1, <3>2 DEF Makers
  <2>4. Cardinality(Makers') = Cardinality(Makers) + 1 /\ Cardinality(Makers) \in Nat
    BY <2>2, <2>3, MakersCount, FS_AddElement
  <2>5. Len(future') <= MaxJobs + Cardinality(Makers')
    BY <1>2, <2>1, <2>4
  <2> QED
    BY <1>3, <2>1, <2>5 DEF Bounded
<1> QED
  BY <1>6, <1>7, <1>8, <1>9 DEF PoolInv

\* The first of the queue goes, and the others move up (Tail of jobs).
LEMMA PopTakes ==
  ASSUME PoolInv, jobs # <<>>, jobs' = Tail(jobs)
  PROVE  /\ Len(jobs) \in Nat \ {0} /\ Len(jobs') = Len(jobs) - 1 /\ jobs' \in Seq(Nat)
         /\ Head(jobs) = jobs[1]
         /\ \A i \in 1..Len(jobs') : i + 1 \in 1..Len(jobs) /\ jobs'[i] = jobs[i + 1]
<1>1. jobs \in Seq(Nat) /\ jobs # <<>> /\ jobs' = Tail(jobs)
  BY DEF PoolInv, PoolTypes
<1> QED
  BY <1>1

\* A thread takes a job, which nobody else has, or the marker.
LEMMA PopStep == ASSUME PoolInv, NEW t \in PoolThreads, Pool!Pop(t) PROVE PoolInv'
<1> DEFINE first == jobs[1]
<1>1. /\ Len(jobs) \in Nat \ {0} /\ Len(jobs') = Len(jobs) - 1 /\ jobs' \in Seq(Nat)
      /\ Head(jobs) = first
      /\ \A i \in 1..Len(jobs') : i + 1 \in 1..Len(jobs) /\ jobs'[i] = jobs[i + 1]
  BY PopTakes DEF Pool!Pop
<1>2. /\ thread[t] = "pop" /\ future' = future /\ waits' = waits /\ caller' = caller
      /\ pool' = pool /\ late' = late
      /\ \/ first = 0 /\ thread' = [thread EXCEPT ![t] = "stop"] /\ job' = job
         \/ /\ first # 0 /\ thread' = [thread EXCEPT ![t] = "run"]
            /\ job' = [job EXCEPT ![t] = [runs |-> first, awaits |-> 0]]
  BY <1>1 DEF Pool!Pop, Pool!Goto, Pool!Marker
<1>3. PoolTypes /\ Numbers /\ RunsOnce /\ Bounded
  BY DEF PoolInv
<1>4. first \in Nat /\ 1 \in 1..Len(jobs)
  BY <1>1, <1>3 DEF PoolTypes
<1>5. PoolTypes'
  <2>1. job' \in [PoolThreads -> [runs : Nat, awaits : Nat]]
    BY <1>2, <1>3, <1>4 DEF PoolTypes
  <2> QED
    BY <1>1, <1>2, <1>3, <2>1 DEF PoolTypes
<1>6. first <= Len(future) /\ Len(future) \in Nat
  BY <1>3, <1>4 DEF PoolTypes, Numbers
<1>7. Numbers'
  <2>1. \A i \in 1..Len(jobs') : jobs'[i] <= Len(future)
    BY <1>1, <1>3 DEF Numbers
  <2>2. \A u \in PoolThreads : \/ job'[u] = job[u]
                               \/ job'[u].runs = first /\ job'[u].awaits = 0
    BY <1>2, <1>3 DEF PoolTypes
  <2>3. \A u \in PoolThreads : job'[u].runs <= Len(future) /\ job'[u].awaits <= Len(future)
    BY <1>3, <1>6, <2>2 DEF Numbers
  <2> QED
    BY <1>2, <1>3, <2>1, <2>3 DEF Numbers
<1>8. \A i \in 1..Len(jobs') : first # 0 => jobs'[i] # first
  <2>1. \A i \in 1..Len(jobs') : i + 1 # 1
    OBVIOUS
  <2> QED
    BY <1>1, <1>3, <1>4, <2>1 DEF RunsOnce
<1>9. /\ \A i, j \in 1..Len(jobs') : jobs'[i] = jobs'[j] /\ jobs'[i] # 0 => i = j
      /\ \A i \in 1..Len(jobs') : jobs'[i] # 0 => ~future'[jobs'[i]].set
  <2>1. ASSUME NEW i \in 1..Len(jobs'), NEW j \in 1..Len(jobs'),
               jobs'[i] = jobs'[j], jobs'[i] # 0
        PROVE  i = j
    <3>1. /\ i + 1 \in 1..Len(jobs) /\ j + 1 \in 1..Len(jobs)
          /\ jobs[i + 1] = jobs[j + 1] /\ jobs[i + 1] # 0
      BY <1>1, <2>1
    <3>2. i + 1 = j + 1
      BY <1>3, <3>1 DEF RunsOnce
    <3> QED
      BY <3>2
  <2>2. \A i \in 1..Len(jobs') : jobs'[i] # 0 => ~future'[jobs'[i]].set
    BY <1>1, <1>2, <1>3 DEF RunsOnce
  <2> QED
    BY <2>1, <2>2
<1>10. \A i \in 1..Len(jobs') : \A u \in PoolThreads : Has(u) => jobs'[i] # job[u].runs
  BY <1>1, <1>3 DEF RunsOnce
<1>11. RunsOnce' /\ Makers' = Makers
  <2>1. CASE first = 0 /\ thread' = [thread EXCEPT ![t] = "stop"] /\ job' = job
    <3>1. \A u \in PoolThreads :
            (Has(u)' <=> Has(u)) /\ (thread'[u] = "wait" <=> thread[u] = "wait")
      BY <1>2, <1>3, <2>1 DEF PoolTypes, Has
    <3>2. \A u \in PoolThreads :
            Has(u)' => /\ job'[u].runs \in 1..Len(future') /\ ~future'[job'[u].runs].set
                       /\ \A i \in 1..Len(jobs') : jobs'[i] # job'[u].runs
                       /\ \A v \in PoolThreads : Has(v)' /\ job'[v].runs = job'[u].runs => v = u
      BY <1>2, <1>3, <1>10, <2>1, <3>1 DEF RunsOnce
    <3> QED
      BY <1>2, <1>3, <1>9, <2>1, <3>1, <3>2 DEF RunsOnce, Makers
  <2>2. CASE /\ first # 0 /\ thread' = [thread EXCEPT ![t] = "run"]
             /\ job' = [job EXCEPT ![t] = [runs |-> first, awaits |-> 0]]
    <3>1. /\ Has(t)' /\ ~Has(t) /\ job'[t].runs = first /\ thread'[t] = "run"
          /\ \A u \in PoolThreads : u # t =>
               (Has(u)' <=> Has(u)) /\ job'[u] = job[u] /\ thread'[u] = thread[u]
      BY <1>2, <1>3, <2>2 DEF PoolTypes, Has
    <3>2. first \in 1..Len(future) /\ ~future[first].set
      BY <1>3, <1>4, <1>6, <2>2 DEF RunsOnce
    <3>3. \A u \in PoolThreads : Has(u) => job[u].runs # first
      BY <1>3, <1>4 DEF RunsOnce
    <3>4. ASSUME NEW u \in PoolThreads, Has(u)'
          PROVE  /\ job'[u].runs \in 1..Len(future') /\ ~future'[job'[u].runs].set
                 /\ \A i \in 1..Len(jobs') : jobs'[i] # job'[u].runs
                 /\ \A v \in PoolThreads : Has(v)' /\ job'[v].runs = job'[u].runs => v = u
      <4>1. CASE u = t
        BY <1>2, <1>8, <2>2, <3>1, <3>2, <3>3, <3>4, <4>1
      <4>2. CASE u # t
        BY <1>2, <1>3, <1>10, <3>1, <3>3, <3>4, <4>2 DEF RunsOnce
      <4> QED
        BY <4>1, <4>2
    <3>5. \A u \in PoolThreads : thread'[u] = "wait" => job'[u].runs \in waits'
      BY <1>2, <1>3, <3>1 DEF RunsOnce
    <3>6. Makers' = Makers
      BY <1>2, <3>1 DEF Makers
    <3> QED
      BY <1>9, <3>4, <3>5, <3>6 DEF RunsOnce
  <2> QED
    BY <1>2, <2>1, <2>2
<1>12. Bounded'
  BY <1>2, <1>3, <1>11 DEF Bounded
<1> QED
  BY <1>5, <1>7, <1>11, <1>12 DEF PoolInv

\* The job of a thread is at its end.
LEMMA FinishStep ==
  ASSUME MaxJobs \in Nat, PoolInv, NEW t \in PoolThreads, Pool!Finish(t)
  PROVE  PoolInv'
<1> DEFINE done == job[t].runs
<1>1. /\ Has(t)
      /\ future' = [future EXCEPT ![done].set = TRUE]
      /\ thread' = [thread EXCEPT ![t] = "pop"]
      /\ job' = [job EXCEPT ![t] = [runs |-> 0, awaits |-> 0]]
      /\ jobs' = jobs /\ waits' = waits /\ caller' = caller /\ pool' = pool /\ late' = late
  BY DEF Pool!Finish, Pool!Goto, Has
<1>2. PoolTypes /\ Numbers /\ RunsOnce /\ Bounded
  BY DEF PoolInv
<1>3. done \in 1..Len(future) /\ \A i \in 1..Len(jobs) : jobs[i] # done
  BY <1>1, <1>2 DEF RunsOnce
<1>4. /\ future' \in Seq(Job) /\ Len(future') = Len(future)
      /\ future'[done].set
      /\ \A n \in 1..Len(future) : n # done => future'[n] = future[n]
  <2>1. future \in Seq(Job)
    BY <1>2 DEF PoolTypes
  <2>0. future[done] \in Job
    BY <1>3, <2>1
  <2>a. future[done] \in [kept : BOOLEAN, set : BOOLEAN]
    BY <2>0 DEF Job
  <2>2. [future[done] EXCEPT !.set = TRUE] \in Job
    BY <2>a DEF Job
  <2>3. future' = [future EXCEPT ![done] = [future[done] EXCEPT !.set = TRUE]]
    BY <1>1
  <2>4. [future[done] EXCEPT !.set = TRUE].set = TRUE
    BY <2>a
  <2> QED
    BY <1>3, <2>1, <2>2, <2>3, <2>4
<1>5. /\ thread'[t] = "pop" /\ job'[t].runs = 0 /\ job'[t].awaits = 0
      /\ \A u \in PoolThreads : u # t => thread'[u] = thread[u] /\ job'[u] = job[u]
  BY <1>1, <1>2 DEF PoolTypes
<1>6. PoolTypes'
  <2>1. job' \in [PoolThreads -> [runs : Nat, awaits : Nat]]
    BY <1>1, <1>2 DEF PoolTypes
  <2> QED
    BY <1>1, <1>2, <1>4, <2>1 DEF PoolTypes
<1>7. Numbers'
  <2>1. Len(future) \in Nat
    BY <1>2 DEF PoolTypes
  <2>2. \A u \in PoolThreads : job'[u].runs <= Len(future) /\ job'[u].awaits <= Len(future)
    BY <1>2, <1>5, <2>1 DEF Numbers
  <2> QED
    BY <1>1, <1>2, <1>4, <2>2 DEF Numbers
<1>8. RunsOnce'
  <2>1. \A i \in 1..Len(jobs) : jobs[i] # 0 => jobs[i] \in 1..Len(future)
    BY <1>2 DEF PoolTypes, Numbers
  <2>2. \A i \in 1..Len(jobs) : jobs[i] # 0 => ~future'[jobs[i]].set
    BY <1>2, <1>3, <1>4, <2>1 DEF RunsOnce
  <2>3. ASSUME NEW u \in PoolThreads, Has(u)'
        PROVE  /\ job'[u].runs \in 1..Len(future') /\ ~future'[job'[u].runs].set
               /\ \A i \in 1..Len(jobs') : jobs'[i] # job'[u].runs
               /\ \A v \in PoolThreads : Has(v)' /\ job'[v].runs = job'[u].runs => v = u
    <3>1. u # t /\ Has(u) /\ \A v \in PoolThreads : Has(v)' => v # t /\ Has(v)
      BY <1>5, <2>3 DEF Has
    <3>2. job[u].runs # done
      BY <1>1, <1>2, <3>1 DEF RunsOnce
    <3> QED
      BY <1>1, <1>2, <1>4, <1>5, <3>1, <3>2 DEF RunsOnce
  <2>4. \A u \in PoolThreads : thread'[u] = "wait" => job'[u].runs \in waits'
    BY <1>1, <1>2, <1>5 DEF RunsOnce
  <2> QED
    BY <1>1, <1>2, <2>2, <2>3, <2>4 DEF RunsOnce
<1>9. Bounded'
  <2>1. waits \subseteq 1..Len(future)
    BY <1>2 DEF Numbers
  <2>2. Makers \subseteq Makers'
    BY <1>1, <1>4, <1>5, <2>1 DEF Makers
  <2>3. Makers' \subseteq waits /\ IsFiniteSet(waits)
    BY <1>1, <1>2 DEF Makers, Bounded
  <2>4. IsFiniteSet(Makers') /\ Cardinality(Makers') \in Nat
    BY <2>3, FS_Subset, FS_CardinalityType
  <2>5. Cardinality(Makers) <= Cardinality(Makers') /\ Cardinality(Makers) \in Nat
    BY <2>2, <2>4, FS_Subset, FS_CardinalityType
  <2>6. Len(future') <= MaxJobs + Cardinality(Makers')
    <3>1. Len(future) <= MaxJobs + Cardinality(Makers) /\ Len(future) \in Nat
      BY <1>2 DEF Bounded, PoolTypes
    <3> QED
      BY <1>4, <2>4, <2>5, <3>1
  <2> QED
    BY <1>1, <1>2, <2>6 DEF Bounded
<1> QED
  BY <1>6, <1>7, <1>8, <1>9 DEF PoolInv

\* The marker is put into the queue, by the destructor or by a thread that ends.
LEMMA MarkerStep ==
  ASSUME PoolInv, jobs' = Append(jobs, 0),
         future' = future /\ waits' = waits /\ job' = job /\ caller' = caller /\ late' = late,
         pool' \in {"running", "joining", "gone"},
         \/ thread' = thread
         \/ \E t \in PoolThreads : thread[t] = "stop" /\ thread' = [thread EXCEPT ![t] = "gone"]
  PROVE  PoolInv'
<1>1. PoolTypes /\ Numbers /\ RunsOnce /\ Bounded
  BY DEF PoolInv
<1>2. /\ Len(jobs) \in Nat /\ Len(jobs') = Len(jobs) + 1 /\ jobs' \in Seq(Nat)
      /\ jobs'[Len(jobs) + 1] = 0 /\ \A i \in 1..Len(jobs) : jobs'[i] = jobs[i]
  <2>1. jobs \in Seq(Nat) /\ jobs' = Append(jobs, 0)
    BY <1>1 DEF PoolTypes
  <2> QED
    BY <2>1
<1>3. \A i \in 1..Len(jobs') : (i \in 1..Len(jobs) /\ jobs'[i] = jobs[i]) \/ jobs'[i] = 0
  BY <1>2
<1>4. /\ thread' \in [PoolThreads -> {"pop", "run", "wait", "stop", "gone"}]
      /\ \A t \in PoolThreads :
           (Has(t)' <=> Has(t)) /\ (thread'[t] = "wait" <=> thread[t] = "wait")
  BY <1>1 DEF PoolTypes, Has
<1>5. PoolTypes'
  BY <1>1, <1>2, <1>4 DEF PoolTypes
<1>6. Numbers'
  <2>1. Len(future) \in Nat
    BY <1>1 DEF PoolTypes
  <2>2. \A i \in 1..Len(jobs') : jobs'[i] <= Len(future')
    BY <1>1, <1>3, <2>1 DEF Numbers
  <2> QED
    BY <1>1, <2>2 DEF Numbers
<1>7. RunsOnce'
  <2>1. /\ \A i, j \in 1..Len(jobs') : jobs'[i] = jobs'[j] /\ jobs'[i] # 0 => i = j
        /\ \A i \in 1..Len(jobs') : jobs'[i] # 0 => ~future'[jobs'[i]].set
    BY <1>1, <1>3 DEF RunsOnce
  <2>2. ASSUME NEW t \in PoolThreads, Has(t)'
        PROVE  /\ job'[t].runs \in 1..Len(future') /\ ~future'[job'[t].runs].set
               /\ \A i \in 1..Len(jobs') : jobs'[i] # job'[t].runs
               /\ \A u \in PoolThreads : Has(u)' /\ job'[u].runs = job'[t].runs => u = t
    <3>1. /\ Has(t) /\ job[t].runs \in 1..Len(future) /\ ~future[job[t].runs].set
          /\ \A i \in 1..Len(jobs) : jobs[i] # job[t].runs
          /\ \A u \in PoolThreads : Has(u) /\ job[u].runs = job[t].runs => u = t
      BY <1>1, <1>4, <2>2 DEF RunsOnce
    <3>2. job[t].runs # 0
      BY <3>1
    <3> QED
      BY <1>3, <1>4, <3>1, <3>2
  <2>3. \A t \in PoolThreads : thread'[t] = "wait" => job'[t].runs \in waits'
    BY <1>1, <1>4 DEF RunsOnce
  <2> QED
    BY <2>1, <2>2, <2>3 DEF RunsOnce
<1>8. Makers' = Makers
  BY <1>4 DEF Makers
<1> QED
  BY <1>1, <1>5, <1>6, <1>7, <1>8 DEF PoolInv, Bounded

\* Every step of the callers, the threads and the destructor keeps it.
LEMMA PoolStep ==
  ASSUME MaxJobs \in Nat, MaxWaits \in Nat, PoolInv, [Pool!Next]_(Pool!vars)
  PROVE  PoolInv'
<1>1. CASE UNCHANGED Pool!vars
  BY <1>1 DEF Pool!vars, PoolInv, PoolTypes, Numbers, RunsOnce, Has, Bounded, Makers
<1>2. CASE \E c \in Callers : Pool!FutureWaited(c)
  <2>1. PICK c \in Callers : Pool!FutureWaited(c)
    BY <1>2
  <2>2. PoolTypes' /\ Numbers'
    <3>1. PoolTypes /\ Numbers /\ Len(future) \in Nat
      BY DEF PoolInv, PoolTypes
    <3>2. /\ caller' = [caller EXCEPT ![c] = 0] /\ jobs' = jobs /\ future' = future
          /\ waits' = waits /\ thread' = thread /\ job' = job /\ pool' = pool /\ late' = late
      BY <2>1 DEF Pool!FutureWaited
    <3>3. caller' \in [Callers -> Nat] /\ \A d \in Callers : caller'[d] \in {caller[d], 0}
      BY <3>1, <3>2 DEF PoolTypes
    <3>4. \A d \in Callers : caller'[d] <= Len(future)
      BY <3>1, <3>3 DEF Numbers
    <3> QED
      BY <3>1, <3>2, <3>3, <3>4 DEF PoolTypes, Numbers
  <2>3. RunsOnce' /\ Bounded'
    BY <2>1 DEF Pool!FutureWaited, PoolInv, RunsOnce, Has, Bounded, Makers
  <2> QED
    BY <2>2, <2>3 DEF PoolInv
<1>3. CASE Pool!Joined
  <2>1. PoolTypes'
    BY <1>3 DEF Pool!Joined, PoolInv, PoolTypes
  <2>2. Numbers' /\ RunsOnce' /\ Bounded'
    BY <1>3 DEF Pool!Joined, PoolInv, Numbers, RunsOnce, Has, Bounded, Makers
  <2> QED
    BY <2>1, <2>2 DEF PoolInv
<1>4. CASE Pool!PushMarker
  BY <1>4, MarkerStep DEF Pool!PushMarker, Pool!Marker
<1>5. ASSUME NEW t \in PoolThreads, Pool!Stop(t) PROVE PoolInv'
  <2>1. pool \in {"running", "joining", "gone"}
    BY DEF PoolInv, PoolTypes
  <2> QED
    BY <1>5, <2>1, MarkerStep DEF Pool!Stop, Pool!Marker, Pool!Goto
<1>6. ASSUME NEW t \in PoolThreads, Pool!ThreadStep(t) PROVE PoolInv'
  BY <1>5, <1>6, PopStep, RunInnerStep, FinishStep DEF Pool!ThreadStep
<1> QED
  BY <1>1, <1>2, <1>3, <1>4, <1>6, DispatchStep DEF Pool!Next

\* The numbers of the jobs are of futures that were made, of which there are not more
\* than the bounds allow.
LEMMA PoolTyped == MaxJobs \in Nat /\ MaxWaits \in Nat /\ PoolInv => Pool!TypeOK
<1> SUFFICES ASSUME MaxJobs \in Nat, MaxWaits \in Nat, PoolInv PROVE Pool!TypeOK
  OBVIOUS
<1>1. Len(future) <= MaxJobs + MaxWaits /\ Len(future) \in Nat
  BY BoundedSum DEF PoolInv, PoolTypes
<1>2. /\ DOMAIN future = 1..Len(future) /\ 1..Len(future) \subseteq Pool!Ids
      /\ 0..Len(future) \subseteq {0} \cup Pool!Ids
  <2>1. DOMAIN future = 1..Len(future)
    BY DEF PoolInv, PoolTypes
  <2> QED
    BY <1>1, <2>1 DEF Pool!Ids
<1>3. Pool!Range(jobs) \subseteq 0..Len(future)
  BY <1>1 DEF PoolInv, PoolTypes, Numbers, Pool!Range
<1>4. \A n \in DOMAIN future : future[n] \in [kept : BOOLEAN, set : BOOLEAN]
  <2>1. \A n \in DOMAIN future : future[n] \in Job
    BY DEF PoolInv, PoolTypes
  <2> QED
    BY <2>1 DEF Job
<1>5. job \in [PoolThreads -> [runs : {0} \cup Pool!Ids, awaits : {0} \cup Pool!Ids]]
  <2>1. /\ job \in [PoolThreads -> [runs : Nat, awaits : Nat]]
        /\ \A t \in PoolThreads : job[t].runs <= Len(future) /\ job[t].awaits <= Len(future)
    BY DEF PoolInv, PoolTypes, Numbers
  <2>2. \A t \in PoolThreads : job[t].runs \in 0..Len(future) /\ job[t].awaits \in 0..Len(future)
    BY <1>1, <2>1
  <2> QED
    BY <1>2, <2>1, <2>2
<1>6. caller \in [Callers -> {0} \cup Pool!Ids]
  <2>1. caller \in [Callers -> Nat] /\ \A c \in Callers : caller[c] <= Len(future)
    BY DEF PoolInv, PoolTypes, Numbers
  <2>2. \A c \in Callers : caller[c] \in 0..Len(future)
    BY <1>1, <2>1
  <2> QED
    BY <1>2, <2>1, <2>2
<1>7. /\ waits \subseteq DOMAIN future /\ late \subseteq DOMAIN future
      /\ thread \in [PoolThreads -> {"pop", "run", "wait", "stop", "gone"}]
      /\ pool \in {"running", "joining", "gone"}
  BY <1>2 DEF PoolInv, PoolTypes, Numbers
<1> QED
  BY <1>2, <1>3, <1>4, <1>5, <1>6, <1>7 DEF Pool!TypeOK

-----------------------------------------------------------------------------
(* Timers *)

\* What is in the map was made; what each thread and job does and has taken.
TimerTypes ==
  /\ active \in Nat /\ started \in Nat /\ active <= started /\ started <= MaxTimers
  /\ worker \in [Timing!Ids -> {"none", "first", "ticks", "ended"}]
  /\ stop \subseteq Timing!Ids /\ deleted \subseteq Timing!Ids
  /\ place \in [Timing!Stoppers -> {"none", "idle", "setup", "insert", "join", "done"}]
  /\ timer \in [Timing!Stoppers -> {0} \cup Timing!Ids]

\* A timer is held by the map, or by who makes or stops it.
Held(n) == active = n \/ \E s \in Timing!Stoppers : timer[s] = n
HeldOnce ==
  /\ \A s \in Timing!Stoppers : timer[s] # 0 <=> place[s] \in {"insert", "join"}
  /\ \A n \in Timing!Ids : worker[n] # "ended" => place[n] = "none"
  /\ \A s \in Timing!Stoppers : timer[s] # 0 => timer[s] # active
  /\ \A s, t \in Timing!Stoppers : timer[s] # 0 /\ timer[t] = timer[s] => t = s
  /\ \A n \in deleted : worker[n] = "ended" /\ ~Held(n)

\* One that is to come is held by nobody, and only who stops one or makes one has it.
Fresh ==
  /\ \A n \in Timing!Ids : n > started => worker[n] = "none" /\ n \notin deleted /\ ~Held(n)
  /\ \A n \in Timing!Ids : place[n] \in {"none", "idle", "join", "done"}

\* The inductive invariant.
TimersInv == TimerTypes /\ HeldOnce /\ Fresh

\* There are no timers at first.
LEMMA TimersInit == MaxTimers \in Nat /\ Timing!Init => TimersInv
BY DEF Timing!Init, TimersInv, TimerTypes, HeldOnce, Fresh, Held, Timing!Stoppers, Timing!Ids,
   Timing!Starters, Timing!Messages, Timing!Console

\* Every step of a user, a timer's thread and a job keeps it.
LEMMA TimersStep ==
  ASSUME MaxTimers \in Nat, TimersInv, [Timing!Next]_(Timing!vars)
  PROVE  TimersInv'
<1>u. /\ Timing!Starters \subseteq Timing!Stoppers /\ 0 \notin Timing!Ids
      /\ Timing!Ids \subseteq Timing!Stoppers /\ Timing!Ids \subseteq Nat
      /\ Timing!Stoppers = Timing!Starters \cup Timing!Ids /\ Timing!Starters \cap Timing!Ids = {}
  BY DEF Timing!Messages, Timing!Console, Timing!Starters, Timing!Stoppers, Timing!Ids
<1>1. CASE UNCHANGED Timing!vars
  BY <1>1 DEF Timing!vars, TimersInv, TimerTypes, HeldOnce, Fresh, Held
<1>2. ASSUME NEW u \in Timing!Starters, Timing!Find(u) PROVE TimersInv'
  <2>1. TimerTypes'
    BY <1>u, <1>2 DEF TimersInv, TimerTypes, Timing!Find
  <2>2. HeldOnce'
    BY <1>u, <1>2 DEF TimersInv, TimerTypes, HeldOnce, Held, Timing!Find
  <2>3. Fresh'
    BY <1>u, <1>2 DEF TimersInv, TimerTypes, HeldOnce, Fresh, Held, Timing!Find
  <2> QED
    BY <2>1, <2>2, <2>3 DEF TimersInv
<1>3. ASSUME NEW u \in Timing!Starters, Timing!SetupWorker(u) PROVE TimersInv'
  <2>0. /\ started' \in Timing!Ids /\ started' = started + 1 /\ started' \notin deleted
        /\ ~Held(started') /\ worker[started'] = "none" /\ u \in Timing!Stoppers
        /\ started' # 0
    BY <1>u, <1>3 DEF TimersInv, TimerTypes, Fresh, Timing!SetupWorker, Timing!Ids
  <2>1. TimerTypes'
    BY <1>u, <2>0, <1>3 DEF TimersInv, TimerTypes, Timing!SetupWorker, Timing!Ids
  <2>2. HeldOnce'
    BY <1>u, <2>0, <1>3 DEF TimersInv, TimerTypes, HeldOnce, Held, Timing!SetupWorker
  <2>3. Fresh'
    BY <1>u, <2>0, <1>3 DEF TimersInv, TimerTypes, HeldOnce, Fresh, Held, Timing!SetupWorker
  <2> QED
    BY <2>1, <2>2, <2>3 DEF TimersInv
<1>4. ASSUME NEW u \in Timing!Starters, Timing!Insert(u) PROVE TimersInv'
  <2>0. timer[u] \in Timing!Ids /\ timer[u] <= started /\ u \in Timing!Stoppers
    BY <1>u, <1>4 DEF TimersInv, TimerTypes, HeldOnce, Fresh, Held, Timing!Insert, Timing!Ids
  <2>1. TimerTypes'
    BY <1>u, <2>0, <1>4 DEF TimersInv, TimerTypes, Timing!Insert
  <2>2. HeldOnce'
    BY <1>u, <2>0, <1>4 DEF TimersInv, TimerTypes, HeldOnce, Fresh, Held, Timing!Insert
  <2>3. Fresh'
    BY <1>u, <2>0, <1>4 DEF TimersInv, TimerTypes, HeldOnce, Fresh, Held, Timing!Insert
  <2> QED
    BY <2>1, <2>2, <2>3 DEF TimersInv
<1>5. ASSUME NEW n \in Timing!Ids, Timing!WorkerStep(n) PROVE TimersInv'
  <2>0. /\ worker[n] \in {"first", "ticks"} /\ n \in Timing!Stoppers
        /\ \/ worker' = [worker EXCEPT ![n] = "ticks"] /\ place' = place
           \/ /\ worker' = [worker EXCEPT ![n] = "ended"]
              /\ place' = [place EXCEPT ![n] = "idle"]
        /\ UNCHANGED <<active, started, stop, deleted, timer>>
    BY <1>u, <1>5 DEF Timing!WorkerStep, Timing!SendFirst, Timing!SendLast, Timing!Ends
  <2>1. TimerTypes'
    BY <1>u, <2>0 DEF TimersInv, TimerTypes
  <2>2. HeldOnce'
    BY <1>u, <2>0 DEF TimersInv, TimerTypes, HeldOnce, Held
  <2>3. Fresh'
    BY <1>u, <2>0 DEF TimersInv, TimerTypes, HeldOnce, Fresh, Held
  <2> QED
    BY <2>1, <2>2, <2>3 DEF TimersInv
<1>6. ASSUME NEW s \in Timing!Stoppers, Timing!Take(s) PROVE TimersInv'
  <2>0. active \in {0} \cup Timing!Ids
    BY DEF TimersInv, TimerTypes, Timing!Ids
  <2>1. TimerTypes'
    BY <1>u, <1>6, <2>0 DEF TimersInv, TimerTypes, Timing!Take, Timing!Free
  <2>2. HeldOnce'
    BY <1>u, <1>6 DEF TimersInv, TimerTypes, HeldOnce, Held, Timing!Take, Timing!Free
  <2>3. Fresh'
    BY <1>u, <1>6 DEF TimersInv, TimerTypes, HeldOnce, Fresh, Held, Timing!Take, Timing!Free
  <2> QED
    BY <2>1, <2>2, <2>3 DEF TimersInv
<1>7. ASSUME NEW s \in Timing!Stoppers, Timing!JoinAndDelete(s) PROVE TimersInv'
  <2>0. timer[s] # 0 /\ timer[s] \in Timing!Ids
    BY <1>7 DEF TimersInv, TimerTypes, HeldOnce, Timing!JoinAndDelete
  <2>1. TimerTypes'
    BY <1>u, <1>7, <2>0 DEF TimersInv, TimerTypes, Timing!JoinAndDelete, Timing!Free
  <2>2. HeldOnce'
    BY <1>u, <1>7, <2>0 DEF TimersInv, TimerTypes, HeldOnce, Held, Timing!JoinAndDelete,
       Timing!Free
  <2>3. Fresh'
    BY <1>u, <1>7, <2>0 DEF TimersInv, TimerTypes, HeldOnce, Fresh, Held, Timing!JoinAndDelete,
       Timing!Free
  <2> QED
    BY <2>1, <2>2, <2>3 DEF TimersInv
<1> QED
  BY <1>1, <1>2, <1>3, <1>4, <1>5, <1>6, <1>7 DEF Timing!Next

\* What it says of the map and of those who stop timers is what OneOwner says.
LEMMA TimersOwned == MaxTimers \in Nat /\ TimersInv => Timing!OneOwner
<1> SUFFICES ASSUME MaxTimers \in Nat, TimersInv, NEW n \in Timing!Ids
             PROVE  /\ \A s, t \in Timing!Stoppers : timer[s] = n /\ timer[t] = n => s = t
                    /\ active = n \/ n \in deleted => \A s \in Timing!Stoppers : timer[s] # n
                    /\ n \in deleted => worker[n] = "ended" /\ active # n
  BY DEF Timing!OneOwner
<1>1. n # 0
  BY DEF Timing!Ids
<1> QED
  BY <1>1 DEF TimersInv, HeldOnce, Held

-----------------------------------------------------------------------------
(* Console *)

\* What the reaper's queue holds: sessions, and null at the end.
Queued == {Sessions!Null} \cup Sessions!Ids

\* The numbers of the sessions are those that were made.
ConsoleTypes ==
  /\ made \in 0..MaxSessions /\ joining \in Queued /\ reaped \in Queued
  /\ handler \in [Sessions!Ids -> {"none", "commands"}]
  /\ receiver \in [Sessions!Ids -> {"none", "recv", "find", "command", "exit", "push", "passed",
                                     "ended"}]
  /\ socketBuffers \subseteq 1..made /\ disposed \subseteq Sessions!Ids
  /\ danglingSockets \in Seq(Queued)

\* Who waits in the reaper's queue, and that nobody does twice.
Waits(q, s) == \E i \in 1..Len(q) : q[i] = s
Once(q) == \A i, j \in 1..Len(q) : q[i] = q[j] /\ q[i] # Sessions!Null => i = j

\* A session that is on its way from the map to the reaper.
OnItsWay(s) == (main = "push" /\ joining = s) \/ receiver[s] = "push"

\* A session that is in the map does not wait for the reaper, one that waits does once,
\* and who is deleted has left both, with its thread ended.
OnePlace ==
  /\ Once(danglingSockets)
  /\ \A s \in Sessions!Ids :
       /\ s \in socketBuffers => ~OnItsWay(s)
       /\ s \in socketBuffers \/ OnItsWay(s) => ~Waits(danglingSockets, s)
       /\ s \in socketBuffers \/ OnItsWay(s) \/ Waits(danglingSockets, s) =>
            s # reaped /\ s \notin disposed
       /\ s = reaped => s \notin disposed
       /\ s \in disposed => Sessions!Ended(s)

\* A session is made once, its thread runs commands when it is authenticated, and its
\* buffer is there while it does.
Orderly ==
  /\ \A s \in Sessions!Ids :
       /\ s > made => handler[s] = "none" /\ receiver[s] = "none" /\ s # reaped
                        /\ ~Waits(danglingSockets, s) /\ s \notin disposed
       /\ receiver[s] \in {"command", "exit"} => s \in socketBuffers
  /\ main = "authenticate" => made \in socketBuffers
  /\ main = "drop" => joining = made /\ made \in socketBuffers
  /\ main \in {"authenticate", "drop"} =>
       handler[made] = "none" /\ receiver[made] \in {"recv", "ended"}
  /\ main = "push" => joining # Sessions!Null /\ Sessions!Ended(joining)
  /\ terminator = "join" => reaped # Sessions!Null

\* The inductive invariant.
ConsoleInv == ConsoleTypes /\ OnePlace /\ Orderly

\* Nobody but x waits in a longer queue that did not before (danglingSockets.push).
LEMMA QueueAppend ==
  ASSUME NEW q \in Seq(Queued), NEW x \in Queued
  PROVE  /\ Append(q, x) \in Seq(Queued)
         /\ \A s : Waits(Append(q, x), s) <=> Waits(q, s) \/ s = x
         /\ Once(q) /\ (x = Sessions!Null \/ ~Waits(q, x)) => Once(Append(q, x))
<1> DEFINE Elements == Queued
<1>1. q \in Seq(Elements) /\ x \in Elements
  OBVIOUS
<1> HIDE DEF Elements
<1>2. /\ Append(q, x) \in Seq(Elements) /\ Len(Append(q, x)) = Len(q) + 1 /\ Len(q) \in Nat
      /\ \A i \in 1..Len(q) : Append(q, x)[i] = q[i]
      /\ Append(q, x)[Len(q) + 1] = x
  BY <1>1
<1>3. \A s : Waits(Append(q, x), s) <=> Waits(q, s) \/ s = x
  BY <1>2 DEF Waits
<1>4. Once(q) /\ (x = Sessions!Null \/ ~Waits(q, x)) => Once(Append(q, x))
  BY <1>2 DEF Waits, Once
<1> QED
  BY <1>2, <1>3, <1>4 DEF Elements

\* Who is popped, and waited once, waits no more (danglingSockets.pop).
LEMMA QueueTail ==
  ASSUME NEW q \in Seq(Queued), q # <<>>
  PROVE  /\ Tail(q) \in Seq(Queued) /\ Head(q) \in Queued
         /\ \A s : Waits(q, s) <=> Waits(Tail(q), s) \/ s = Head(q)
         /\ Once(q) => Once(Tail(q)) /\ (Head(q) # Sessions!Null => ~Waits(Tail(q), Head(q)))
<1> DEFINE Elements == Queued
<1>1. q \in Seq(Elements)
  OBVIOUS
<1> HIDE DEF Elements
<1>2. PICK n \in Nat :
        /\ n >= 1 /\ Len(q) = n /\ Head(q) = q[1] /\ Head(q) \in Elements
        /\ Tail(q) \in Seq(Elements) /\ Len(Tail(q)) = n - 1
        /\ \A i \in 1..(n - 1) : Tail(q)[i] = q[i + 1]
  BY <1>1
<1>3. ASSUME NEW s PROVE Waits(q, s) <=> Waits(Tail(q), s) \/ s = Head(q)
  <2>1. ASSUME Waits(q, s), s # Head(q) PROVE Waits(Tail(q), s)
    <3>1. PICK i \in 1..n : q[i] = s
      BY <1>2, <2>1 DEF Waits
    <3>2. i - 1 \in 1..(n - 1) /\ Tail(q)[i - 1] = s
      BY <1>2, <2>1, <3>1
    <3> QED
      BY <1>2, <3>2 DEF Waits
  <2>2. ASSUME Waits(Tail(q), s) PROVE Waits(q, s)
    <3>1. PICK i \in 1..(n - 1) : Tail(q)[i] = s
      BY <1>2, <2>2 DEF Waits
    <3>2. i + 1 \in 1..n /\ q[i + 1] = s
      BY <1>2, <3>1
    <3> QED
      BY <1>2, <3>2 DEF Waits
  <2>3. Waits(q, Head(q))
    BY <1>2 DEF Waits
  <2> QED
    BY <2>1, <2>2, <2>3
<1>4. ASSUME Once(q) PROVE Once(Tail(q))
  <2>1. ASSUME NEW i \in 1..(n - 1), NEW j \in 1..(n - 1),
               Tail(q)[i] = Tail(q)[j], Tail(q)[i] # Sessions!Null
        PROVE  i = j
    <3>1. i + 1 \in 1..n /\ j + 1 \in 1..n /\ q[i + 1] = q[j + 1] /\ q[i + 1] # Sessions!Null
      BY <1>2, <2>1
    <3>2. i + 1 = j + 1
      BY <1>2, <1>4, <3>1 DEF Once
    <3> QED
      BY <3>2
  <2> QED
    BY <1>2, <2>1 DEF Once
<1>5. ASSUME Once(q), Head(q) # Sessions!Null, Waits(Tail(q), Head(q)) PROVE FALSE
  <2>1. PICK i \in 1..(n - 1) : Tail(q)[i] = Head(q)
    BY <1>2, <1>5 DEF Waits
  <2>2. i + 1 \in 1..n /\ 1 \in 1..n /\ q[i + 1] = q[1] /\ q[1] # Sessions!Null
    BY <1>2, <1>5, <2>1
  <2>3. i + 1 = 1
    BY <1>2, <1>5, <2>2 DEF Once
  <2> QED
    BY <2>3
<1> QED
  BY <1>2, <1>3, <1>4, <1>5 DEF Elements

\* There are no sessions when the console is started.
LEMMA ConsoleInit == MaxSessions \in Nat /\ Sessions!Init => ConsoleInv
BY DEF Sessions!Init, Queued, ConsoleInv, ConsoleTypes, OnePlace, Orderly, Once, Waits,
   OnItsWay, Sessions!Ids, Sessions!Null, Sessions!Ended

\* Every step of the three threads and of a receiver keeps it.
LEMMA ConsoleStep ==
  ASSUME MaxSessions \in Nat, ConsoleInv, [Sessions!Next]_(Sessions!vars)
  PROVE  ConsoleInv'
<1>u. Sessions!Null \notin Sessions!Ids /\ Sessions!Ids \subseteq Nat
      /\ \A n \in Nat : n \in Sessions!Ids <=> 1 <= n /\ n <= MaxSessions
  BY DEF Sessions!Ids, Sessions!Null
<1>v. made \in Nat /\ made <= MaxSessions /\ socketBuffers \subseteq Sessions!Ids
      /\ \A s \in socketBuffers : s <= made
  BY DEF ConsoleInv, ConsoleTypes, Queued, Sessions!Ids
<1>1. CASE UNCHANGED Sessions!vars
  BY <1>1 DEF Sessions!vars, Sessions!shared, Sessions!session, Sessions!mainVars,
     Sessions!reaperVars, ConsoleInv, ConsoleTypes, OnePlace, Orderly, Once, Waits, OnItsWay,
     Sessions!Ended
<1>2. CASE Sessions!Accept
  <2>1. ConsoleTypes'
    BY <1>u, <1>v, <1>2 DEF ConsoleInv, ConsoleTypes, Queued, Orderly, Sessions!Accept,
       Sessions!shared, Sessions!session, Sessions!mainVars, Sessions!reaperVars
  <2>2. OnePlace'
    BY <1>u, <1>v, <1>2 DEF ConsoleInv, ConsoleTypes, Queued, OnePlace, Orderly, OnItsWay,
       Sessions!Ended, Sessions!Accept, Sessions!shared, Sessions!session, Sessions!mainVars,
       Sessions!reaperVars
  <2>3. Orderly'
    BY <1>u, <1>v, <1>2 DEF ConsoleInv, ConsoleTypes, Queued, OnePlace, Orderly, OnItsWay,
       Sessions!Ended, Sessions!Accept, Sessions!shared, Sessions!session, Sessions!mainVars,
       Sessions!reaperVars
  <2> QED
    BY <2>1, <2>2, <2>3 DEF ConsoleInv
<1>3. CASE Sessions!Authenticated
  <2>1. ConsoleTypes'
    BY <1>u, <1>v, <1>3 DEF ConsoleInv, ConsoleTypes, Queued, Orderly, Sessions!Authenticated,
       Sessions!shared, Sessions!session, Sessions!mainVars, Sessions!reaperVars
  <2>2. OnePlace'
    BY <1>u, <1>v, <1>3 DEF ConsoleInv, ConsoleTypes, Queued, OnePlace, Orderly, OnItsWay,
       Sessions!Ended, Sessions!Authenticated, Sessions!shared, Sessions!session,
       Sessions!mainVars, Sessions!reaperVars
  <2>3. Orderly'
    BY <1>u, <1>v, <1>3 DEF ConsoleInv, ConsoleTypes, Queued, OnePlace, Orderly, OnItsWay,
       Sessions!Ended, Sessions!Authenticated, Sessions!shared, Sessions!session,
       Sessions!mainVars, Sessions!reaperVars
  <2> QED
    BY <2>1, <2>2, <2>3 DEF ConsoleInv
<1>4. CASE Sessions!AuthenticationFails
  <2>1. ConsoleTypes'
    BY <1>u, <1>v, <1>4 DEF ConsoleInv, ConsoleTypes, Queued, Orderly,
       Sessions!AuthenticationFails, Sessions!Drop, Sessions!shared, Sessions!session,
       Sessions!mainVars, Sessions!reaperVars
  <2>2. OnePlace'
    BY <1>u, <1>v, <1>4 DEF ConsoleInv, ConsoleTypes, Queued, OnePlace, Orderly, OnItsWay,
       Sessions!Ended, Sessions!AuthenticationFails, Sessions!Drop, Sessions!shared,
       Sessions!session, Sessions!mainVars, Sessions!reaperVars
  <2>3. Orderly'
    BY <1>u, <1>v, <1>4 DEF ConsoleInv, ConsoleTypes, Queued, OnePlace, Orderly, OnItsWay,
       Sessions!Ended, Sessions!AuthenticationFails, Sessions!Drop, Sessions!shared,
       Sessions!session, Sessions!mainVars, Sessions!reaperVars
  <2> QED
    BY <2>1, <2>2, <2>3 DEF ConsoleInv
<1>5. CASE Sessions!Dropped
  <2>1. ConsoleTypes'
    BY <1>u, <1>v, <1>5 DEF ConsoleInv, ConsoleTypes, Queued, Orderly, Sessions!Dropped,
       Sessions!shared, Sessions!session, Sessions!mainVars, Sessions!reaperVars
  <2>2. OnePlace'
    BY <1>u, <1>v, <1>5 DEF ConsoleInv, ConsoleTypes, Queued, OnePlace, Orderly, OnItsWay,
       Sessions!Ended, Sessions!Dropped, Sessions!shared, Sessions!session, Sessions!mainVars,
       Sessions!reaperVars
  <2>3. Orderly'
    BY <1>u, <1>v, <1>5 DEF ConsoleInv, ConsoleTypes, Queued, OnePlace, Orderly, OnItsWay,
       Sessions!Ended, Sessions!Dropped, Sessions!shared, Sessions!session, Sessions!mainVars,
       Sessions!reaperVars
  <2> QED
    BY <2>1, <2>2, <2>3 DEF ConsoleInv
<1>6. CASE Sessions!Hand
  <2>1. ConsoleTypes'
    BY <1>u, <1>v, <1>6, QueueAppend DEF ConsoleInv, ConsoleTypes, Queued, Orderly,
       Sessions!Hand, Sessions!shared, Sessions!session, Sessions!mainVars, Sessions!reaperVars
  <2>2. OnePlace'
    BY <1>u, <1>v, <1>6, QueueAppend DEF ConsoleInv, ConsoleTypes, Queued, OnePlace, Orderly,
       OnItsWay, Sessions!Ended, Sessions!Hand, Sessions!shared, Sessions!session,
       Sessions!mainVars, Sessions!reaperVars
  <2>3. Orderly'
    BY <1>u, <1>v, <1>6, QueueAppend DEF ConsoleInv, ConsoleTypes, Queued, OnePlace, Orderly,
       OnItsWay, Sessions!Ended, Sessions!Hand, Sessions!shared, Sessions!session,
       Sessions!mainVars, Sessions!reaperVars
  <2> QED
    BY <2>1, <2>2, <2>3 DEF ConsoleInv
<1>7. CASE Sessions!Handed
  <2>1. ConsoleTypes'
    BY <1>u, <1>v, <1>7 DEF ConsoleInv, ConsoleTypes, Queued, Orderly, Sessions!Handed,
       Sessions!shared, Sessions!session, Sessions!mainVars, Sessions!reaperVars
  <2>2. OnePlace'
    BY <1>u, <1>v, <1>7 DEF ConsoleInv, ConsoleTypes, Queued, OnePlace, Orderly, OnItsWay,
       Sessions!Ended, Sessions!Handed, Sessions!shared, Sessions!session, Sessions!mainVars,
       Sessions!reaperVars
  <2>3. Orderly'
    BY <1>u, <1>v, <1>7 DEF ConsoleInv, ConsoleTypes, Queued, OnePlace, Orderly, OnItsWay,
       Sessions!Ended, Sessions!Handed, Sessions!shared, Sessions!session, Sessions!mainVars,
       Sessions!reaperVars
  <2> QED
    BY <2>1, <2>2, <2>3 DEF ConsoleInv
<1>8. CASE Sessions!Quit
  <2>1. ConsoleTypes'
    BY <1>u, <1>v, <1>8 DEF ConsoleInv, ConsoleTypes, Queued, Orderly, Sessions!Quit,
       Sessions!shared, Sessions!session, Sessions!mainVars, Sessions!reaperVars
  <2>2. OnePlace'
    BY <1>u, <1>v, <1>8 DEF ConsoleInv, ConsoleTypes, Queued, OnePlace, Orderly, OnItsWay,
       Sessions!Ended, Sessions!Quit, Sessions!shared, Sessions!session, Sessions!mainVars,
       Sessions!reaperVars
  <2>3. Orderly'
    BY <1>u, <1>v, <1>8 DEF ConsoleInv, ConsoleTypes, Queued, OnePlace, Orderly, OnItsWay,
       Sessions!Ended, Sessions!Quit, Sessions!shared, Sessions!session, Sessions!mainVars,
       Sessions!reaperVars
  <2> QED
    BY <2>1, <2>2, <2>3 DEF ConsoleInv
<1>9. ASSUME NEW s \in Sessions!Ids, Sessions!Kill(s) PROVE ConsoleInv'
  <2>1. ConsoleTypes'
    BY <1>u, <1>v, <1>9 DEF ConsoleInv, ConsoleTypes, Queued, Orderly, Sessions!Kill,
       Sessions!Drop, Sessions!shared, Sessions!session, Sessions!mainVars, Sessions!reaperVars
  <2>2. OnePlace'
    BY <1>u, <1>v, <1>9 DEF ConsoleInv, ConsoleTypes, Queued, OnePlace, Orderly, OnItsWay,
       Sessions!Ended, Sessions!Kill, Sessions!Drop, Sessions!shared, Sessions!session,
       Sessions!mainVars, Sessions!reaperVars
  <2>3. Orderly'
    BY <1>u, <1>v, <1>9 DEF ConsoleInv, ConsoleTypes, Queued, OnePlace, Orderly, OnItsWay,
       Sessions!Ended, Sessions!Kill, Sessions!Drop, Sessions!shared, Sessions!session,
       Sessions!mainVars, Sessions!reaperVars
  <2> QED
    BY <2>1, <2>2, <2>3 DEF ConsoleInv
<1>10. CASE Sessions!Killed
  <2>1. ConsoleTypes'
    BY <1>u, <1>v, <1>10 DEF ConsoleInv, ConsoleTypes, Queued, Orderly, Sessions!Killed,
       Sessions!shared, Sessions!session, Sessions!mainVars, Sessions!reaperVars
  <2>2. OnePlace'
    BY <1>u, <1>v, <1>10 DEF ConsoleInv, ConsoleTypes, Queued, OnePlace, Orderly, OnItsWay,
       Sessions!Ended, Sessions!Killed, Sessions!shared, Sessions!session, Sessions!mainVars,
       Sessions!reaperVars
  <2>3. Orderly'
    BY <1>u, <1>v, <1>10 DEF ConsoleInv, ConsoleTypes, Queued, OnePlace, Orderly, OnItsWay,
       Sessions!Ended, Sessions!Killed, Sessions!shared, Sessions!session, Sessions!mainVars,
       Sessions!reaperVars
  <2> QED
    BY <2>1, <2>2, <2>3 DEF ConsoleInv
<1>11. CASE Sessions!AllKilled
  <2>1. ConsoleTypes'
    BY <1>u, <1>v, <1>11, QueueAppend DEF ConsoleInv, ConsoleTypes, Queued, Orderly,
       Sessions!AllKilled, Sessions!shared, Sessions!session, Sessions!mainVars,
       Sessions!reaperVars
  <2>2. OnePlace'
    BY <1>u, <1>v, <1>11, QueueAppend DEF ConsoleInv, ConsoleTypes, Queued, OnePlace, Orderly,
       OnItsWay, Sessions!Ended, Sessions!AllKilled, Sessions!shared, Sessions!session,
       Sessions!mainVars, Sessions!reaperVars
  <2>3. Orderly'
    BY <1>u, <1>v, <1>11, QueueAppend DEF ConsoleInv, ConsoleTypes, Queued, OnePlace, Orderly,
       OnItsWay, Sessions!Ended, Sessions!AllKilled, Sessions!shared, Sessions!session,
       Sessions!mainVars, Sessions!reaperVars
  <2> QED
    BY <2>1, <2>2, <2>3 DEF ConsoleInv
<1>12. CASE Sessions!Joined
  <2>1. ConsoleTypes'
    BY <1>u, <1>v, <1>12 DEF ConsoleInv, ConsoleTypes, Queued, Orderly, Sessions!Joined,
       Sessions!shared, Sessions!session, Sessions!mainVars, Sessions!reaperVars
  <2>2. OnePlace'
    BY <1>u, <1>v, <1>12 DEF ConsoleInv, ConsoleTypes, Queued, OnePlace, Orderly, OnItsWay,
       Sessions!Ended, Sessions!Joined, Sessions!shared, Sessions!session, Sessions!mainVars,
       Sessions!reaperVars
  <2>3. Orderly'
    BY <1>u, <1>v, <1>12 DEF ConsoleInv, ConsoleTypes, Queued, OnePlace, Orderly, OnItsWay,
       Sessions!Ended, Sessions!Joined, Sessions!shared, Sessions!session, Sessions!mainVars,
       Sessions!reaperVars
  <2> QED
    BY <2>1, <2>2, <2>3 DEF ConsoleInv
<1>13. ASSUME NEW s \in Sessions!Ids, Sessions!Receive(s) PROVE ConsoleInv'
  <2>1. ConsoleTypes'
    BY <1>u, <1>v, <1>13 DEF ConsoleInv, ConsoleTypes, Queued, Orderly, Sessions!Receive,
       Sessions!Goto, Sessions!shared, Sessions!session, Sessions!mainVars, Sessions!reaperVars
  <2>2. OnePlace'
    BY <1>u, <1>v, <1>13 DEF ConsoleInv, ConsoleTypes, Queued, OnePlace, Orderly, OnItsWay,
       Sessions!Ended, Sessions!Receive, Sessions!Goto, Sessions!shared, Sessions!session,
       Sessions!mainVars, Sessions!reaperVars
  <2>3. Orderly'
    BY <1>u, <1>v, <1>13 DEF ConsoleInv, ConsoleTypes, Queued, OnePlace, Orderly, OnItsWay,
       Sessions!Ended, Sessions!Receive, Sessions!Goto, Sessions!shared, Sessions!session,
       Sessions!mainVars, Sessions!reaperVars
  <2> QED
    BY <2>1, <2>2, <2>3 DEF ConsoleInv
<1>14. ASSUME NEW s \in Sessions!Ids, Sessions!FindBuffer(s) PROVE ConsoleInv'
  <2>1. ConsoleTypes'
    BY <1>u, <1>v, <1>14 DEF ConsoleInv, ConsoleTypes, Queued, Orderly, Sessions!FindBuffer,
       Sessions!Goto, Sessions!shared, Sessions!session, Sessions!mainVars, Sessions!reaperVars
  <2>2. OnePlace'
    BY <1>u, <1>v, <1>14 DEF ConsoleInv, ConsoleTypes, Queued, OnePlace, Orderly, OnItsWay,
       Sessions!Ended, Sessions!FindBuffer, Sessions!Goto, Sessions!shared, Sessions!session,
       Sessions!mainVars, Sessions!reaperVars
  <2>3. Orderly'
    BY <1>u, <1>v, <1>14 DEF ConsoleInv, ConsoleTypes, Queued, OnePlace, Orderly, OnItsWay,
       Sessions!Ended, Sessions!FindBuffer, Sessions!Goto, Sessions!shared, Sessions!session,
       Sessions!mainVars, Sessions!reaperVars
  <2> QED
    BY <2>1, <2>2, <2>3 DEF ConsoleInv
<1>15. ASSUME NEW s \in Sessions!Ids, Sessions!Command(s) PROVE ConsoleInv'
  <2>1. ConsoleTypes'
    BY <1>u, <1>v, <1>15 DEF ConsoleInv, ConsoleTypes, Queued, Orderly, Sessions!Command,
       Sessions!Goto, Sessions!shared, Sessions!session, Sessions!mainVars, Sessions!reaperVars
  <2>2. OnePlace'
    BY <1>u, <1>v, <1>15 DEF ConsoleInv, ConsoleTypes, Queued, OnePlace, Orderly, OnItsWay,
       Sessions!Ended, Sessions!Command, Sessions!Goto, Sessions!shared, Sessions!session,
       Sessions!mainVars, Sessions!reaperVars
  <2>3. Orderly'
    BY <1>u, <1>v, <1>15 DEF ConsoleInv, ConsoleTypes, Queued, OnePlace, Orderly, OnItsWay,
       Sessions!Ended, Sessions!Command, Sessions!Goto, Sessions!shared, Sessions!session,
       Sessions!mainVars, Sessions!reaperVars
  <2> QED
    BY <2>1, <2>2, <2>3 DEF ConsoleInv
<1>16. ASSUME NEW s \in Sessions!Ids, Sessions!Exit(s) PROVE ConsoleInv'
  <2>1. ConsoleTypes'
    BY <1>u, <1>v, <1>16 DEF ConsoleInv, ConsoleTypes, Queued, Orderly, Sessions!Exit,
       Sessions!Goto, Sessions!shared, Sessions!session, Sessions!mainVars, Sessions!reaperVars
  <2>2. OnePlace'
    BY <1>u, <1>v, <1>16 DEF ConsoleInv, ConsoleTypes, Queued, OnePlace, Orderly, OnItsWay,
       Sessions!Ended, Sessions!Exit, Sessions!Goto, Sessions!shared, Sessions!session,
       Sessions!mainVars, Sessions!reaperVars
  <2>3. Orderly'
    BY <1>u, <1>v, <1>16 DEF ConsoleInv, ConsoleTypes, Queued, OnePlace, Orderly, OnItsWay,
       Sessions!Ended, Sessions!Exit, Sessions!Goto, Sessions!shared, Sessions!session,
       Sessions!mainVars, Sessions!reaperVars
  <2> QED
    BY <2>1, <2>2, <2>3 DEF ConsoleInv
<1>17. ASSUME NEW s \in Sessions!Ids, Sessions!Pass(s) PROVE ConsoleInv'
  <2>1. ConsoleTypes'
    BY <1>u, <1>v, <1>17, QueueAppend DEF ConsoleInv, ConsoleTypes, Queued, Orderly,
       Sessions!Pass, Sessions!Goto, Sessions!shared, Sessions!session, Sessions!mainVars,
       Sessions!reaperVars
  <2>2. OnePlace'
    BY <1>u, <1>v, <1>17, QueueAppend DEF ConsoleInv, ConsoleTypes, Queued, OnePlace, Orderly,
       OnItsWay, Sessions!Ended, Sessions!Pass, Sessions!Goto, Sessions!shared,
       Sessions!session, Sessions!mainVars, Sessions!reaperVars
  <2>3. Orderly'
    BY <1>u, <1>v, <1>17, QueueAppend DEF ConsoleInv, ConsoleTypes, Queued, OnePlace, Orderly,
       OnItsWay, Sessions!Ended, Sessions!Pass, Sessions!Goto, Sessions!shared,
       Sessions!session, Sessions!mainVars, Sessions!reaperVars
  <2> QED
    BY <2>1, <2>2, <2>3 DEF ConsoleInv
<1>18. ASSUME NEW s \in Sessions!Ids, Sessions!Passed(s) PROVE ConsoleInv'
  <2>1. ConsoleTypes'
    BY <1>u, <1>v, <1>18 DEF ConsoleInv, ConsoleTypes, Queued, Orderly, Sessions!Passed,
       Sessions!Goto, Sessions!shared, Sessions!session, Sessions!mainVars, Sessions!reaperVars
  <2>2. OnePlace'
    BY <1>u, <1>v, <1>18 DEF ConsoleInv, ConsoleTypes, Queued, OnePlace, Orderly, OnItsWay,
       Sessions!Ended, Sessions!Passed, Sessions!Goto, Sessions!shared, Sessions!session,
       Sessions!mainVars, Sessions!reaperVars
  <2>3. Orderly'
    BY <1>u, <1>v, <1>18 DEF ConsoleInv, ConsoleTypes, Queued, OnePlace, Orderly, OnItsWay,
       Sessions!Ended, Sessions!Passed, Sessions!Goto, Sessions!shared, Sessions!session,
       Sessions!mainVars, Sessions!reaperVars
  <2> QED
    BY <2>1, <2>2, <2>3 DEF ConsoleInv
<1>19. CASE Sessions!Reap
  <2>1. ConsoleTypes'
    BY <1>u, <1>v, <1>19, QueueTail DEF ConsoleInv, ConsoleTypes, Queued, Orderly,
       Sessions!Reap, Sessions!Drop, Sessions!shared, Sessions!session, Sessions!mainVars,
       Sessions!reaperVars
  <2>2. OnePlace'
    BY <1>u, <1>v, <1>19, QueueTail DEF ConsoleInv, ConsoleTypes, Queued, OnePlace, Orderly,
       OnItsWay, Sessions!Ended, Sessions!Reap, Sessions!Drop, Sessions!shared,
       Sessions!session, Sessions!mainVars, Sessions!reaperVars
  <2>3. Orderly'
    BY <1>u, <1>v, <1>19, QueueTail DEF ConsoleInv, ConsoleTypes, Queued, OnePlace, Orderly,
       OnItsWay, Sessions!Ended, Sessions!Reap, Sessions!Drop, Sessions!shared,
       Sessions!session, Sessions!mainVars, Sessions!reaperVars
  <2> QED
    BY <2>1, <2>2, <2>3 DEF ConsoleInv
<1>20. CASE Sessions!Reaped
  <2>1. ConsoleTypes'
    BY <1>u, <1>v, <1>20 DEF ConsoleInv, ConsoleTypes, Queued, Orderly, Sessions!Reaped,
       Sessions!Bury, Sessions!shared, Sessions!session, Sessions!mainVars, Sessions!reaperVars
  <2>2. OnePlace'
    BY <1>u, <1>v, <1>20 DEF ConsoleInv, ConsoleTypes, Queued, OnePlace, Orderly, OnItsWay,
       Sessions!Ended, Sessions!Reaped, Sessions!Bury, Sessions!shared, Sessions!session,
       Sessions!mainVars, Sessions!reaperVars
  <2>3. Orderly'
    BY <1>u, <1>v, <1>20 DEF ConsoleInv, ConsoleTypes, Queued, OnePlace, Orderly, OnItsWay,
       Sessions!Ended, Sessions!Reaped, Sessions!Bury, Sessions!shared, Sessions!session,
       Sessions!mainVars, Sessions!reaperVars
  <2> QED
    BY <2>1, <2>2, <2>3 DEF ConsoleInv
<1>21. CASE Sessions!ReadStdin \/ Sessions!Log
  <2>1. ConsoleTypes'
    BY <1>u, <1>v, <1>21 DEF ConsoleInv, ConsoleTypes, Queued, Orderly, Sessions!ReadStdin,
       Sessions!Log, Sessions!shared, Sessions!session, Sessions!mainVars, Sessions!reaperVars
  <2>2. OnePlace'
    BY <1>u, <1>v, <1>21 DEF ConsoleInv, ConsoleTypes, Queued, OnePlace, Orderly, OnItsWay,
       Sessions!Ended, Sessions!ReadStdin, Sessions!Log, Sessions!shared, Sessions!session,
       Sessions!mainVars, Sessions!reaperVars
  <2>3. Orderly'
    BY <1>u, <1>v, <1>21 DEF ConsoleInv, ConsoleTypes, Queued, OnePlace, Orderly, OnItsWay,
       Sessions!Ended, Sessions!ReadStdin, Sessions!Log, Sessions!shared, Sessions!session,
       Sessions!mainVars, Sessions!reaperVars
  <2> QED
    BY <2>1, <2>2, <2>3 DEF ConsoleInv
<1> QED
  BY <1>1, <1>2, <1>3, <1>4, <1>5, <1>6, <1>7, <1>8, <1>9, <1>10, <1>11, <1>12, <1>13,
     <1>14, <1>15, <1>16, <1>17, <1>18, <1>19, <1>20, <1>21 DEF Sessions!Next, Sessions!MainStep,
     Sessions!ReceiverStep, Sessions!ReaperStep

\* The waiting sessions are the elements of the queue.
LEMMA SessionsOwned == MaxSessions \in Nat /\ ConsoleInv => Sessions!SessionsDisposedOfOnce
<1> SUFFICES ASSUME MaxSessions \in Nat, ConsoleInv, NEW s \in Sessions!Ids
             PROVE  /\ s \in socketBuffers =>
                         s \notin Sessions!Range(danglingSockets) \cup {reaped} \cup disposed
                    /\ s \in disposed =>
                         Sessions!Ended(s) /\ s \notin Sessions!Range(danglingSockets) \cup {reaped}
  BY DEF Sessions!SessionsDisposedOfOnce
<1>1. s \in Sessions!Range(danglingSockets) <=> Waits(danglingSockets, s)
  BY DEF Sessions!Range, Waits, ConsoleInv, ConsoleTypes
<1> QED
  BY <1>1 DEF ConsoleInv, OnePlace

\* What is in the map and what is stopped has a number of the bound.
LEMMA TimersTyped == MaxTimers \in Nat /\ TimersInv => Timing!TypeOK
<1> SUFFICES ASSUME MaxTimers \in Nat, TimersInv PROVE Timing!TypeOK
  OBVIOUS
<1>1. active \in 0..started /\ started \in 0..MaxTimers
  BY DEF TimersInv, TimerTypes
<1>2. timer \in [Timing!Stoppers -> 0..MaxTimers]
  <2>1. {0} \cup Timing!Ids = 0..MaxTimers
    BY DEF Timing!Ids
  <2> QED
    BY <2>1 DEF TimersInv, TimerTypes
<1> QED
  BY <1>1, <1>2 DEF TimersInv, TimerTypes, Timing!TypeOK

\* The places of the threads, and what they tell each other; who is deleted was closed.
Flags == connected \in BOOLEAN /\ locked \in BOOLEAN /\ crashed \in BOOLEAN
Closed ==
  filtered \subseteq Sessions!Ids /\ disposed \subseteq closed /\ closed \subseteq Sessions!Ids
Places == /\ up \in [Sessions!Ids -> BOOLEAN]
          /\ main \in {"accept", "authenticate", "drop", "push", "pushed", "kill", "join", "quit"}
          /\ terminator \in {"pop", "join", "ended"} /\ stdin \in {"read", "ended"}
Told == Flags /\ Closed /\ Places

\* So they are set at first.
LEMMA ToldInit == Sessions!Init => Told
BY DEF Sessions!Init, Told, Flags, Closed, Places

\* No step sets them to anything else.
LEMMA ToldStep ==
  ASSUME MaxSessions \in Nat, ConsoleInv, Told, [Sessions!Next]_(Sessions!vars)
  PROVE  Told'
<1>0. Flags /\ Closed /\ Places
  BY DEF Told
<1>1. /\ made \in Nat /\ 0 \notin Sessions!Ids /\ made < MaxSessions => made + 1 \in Sessions!Ids
      /\ \A s \in Sessions!Ids : s # Sessions!Null
      /\ joining \in {Sessions!Null} \cup Sessions!Ids
      /\ reaped \in {Sessions!Null} \cup Sessions!Ids
      /\ main = "drop" => joining # Sessions!Null
      /\ terminator = "join" => reaped # Sessions!Null
  BY DEF ConsoleInv, ConsoleTypes, Orderly, Queued, Sessions!Ids, Sessions!Null
<1> USE DEF Sessions!Next, Sessions!MainStep, Sessions!ReceiverStep, Sessions!ReaperStep,
   Sessions!Accept, Sessions!Authenticated, Sessions!AuthenticationFails, Sessions!Dropped,
   Sessions!Hand, Sessions!Handed, Sessions!Quit, Sessions!Kill, Sessions!Killed,
   Sessions!AllKilled, Sessions!Joined, Sessions!Receive, Sessions!FindBuffer, Sessions!Command,
   Sessions!Exit, Sessions!Pass, Sessions!Passed, Sessions!Reap, Sessions!Reaped, Sessions!Bury,
   Sessions!ReadStdin, Sessions!Log, Sessions!vars, Sessions!shared, Sessions!session,
   Sessions!mainVars, Sessions!reaperVars
<1>2. Flags'
  <2>1. connected' = connected \/ connected' = FALSE
    OBVIOUS
  <2>2. locked' = locked \/ locked' = TRUE \/ locked' = FALSE
    OBVIOUS
  <2>3. crashed' = crashed \/ crashed' = TRUE \/ \E s : crashed' = (s \in disposed)
    OBVIOUS
  <2>4. connected \in BOOLEAN /\ locked \in BOOLEAN /\ crashed \in BOOLEAN
    BY <1>0 DEF Flags
  <2>5. ASSUME NEW s PROVE (s \in disposed) \in BOOLEAN
    OBVIOUS
  <2>6. connected' \in BOOLEAN
    BY ONLY <2>1, <2>4
  <2>7. locked' \in BOOLEAN
    BY ONLY <2>2, <2>4
  <2>8. crashed' \in BOOLEAN
    BY ONLY <2>3, <2>4, <2>5
  <2> QED
    BY ONLY <2>6, <2>7, <2>8 DEF Flags
<1>3. Closed'
  BY <1>0, <1>1 DEF Closed
<1>4. Places'
  <2>1. up' \in [Sessions!Ids -> BOOLEAN]
    <3>1. up' = up \/ (\E s : up' = [up EXCEPT ![s] = TRUE] \/ up' = [up EXCEPT ![s] = FALSE])
      BY DEF Sessions!Drop
    <3> QED
      BY ONLY <1>0, <3>1 DEF Places
  <2>2. main' \in {"accept", "authenticate", "drop", "push", "pushed", "kill", "join", "quit"}
    BY <1>0 DEF Places
  <2>3. terminator' \in {"pop", "join", "ended"}
    BY <1>0 DEF Places
  <2>4. stdin' \in {"read", "ended"}
    BY <1>0 DEF Places
  <2> QED
    BY ONLY <2>1, <2>2, <2>3, <2>4 DEF Places
<1> QED
  BY <1>2, <1>3, <1>4 DEF Told

\* The sessions in the map were made, and the queue is of sessions and null.
LEMMA ConsoleTyped == MaxSessions \in Nat /\ ConsoleInv /\ Told => Sessions!TypeOK
<1> SUFFICES ASSUME MaxSessions \in Nat, ConsoleInv, Told PROVE Sessions!TypeOK
  OBVIOUS
<1>1. Sessions!Range(danglingSockets) \subseteq {Sessions!Null} \cup Sessions!Ids
  BY DEF ConsoleInv, ConsoleTypes, Queued, Sessions!Range
<1>2. {joining, reaped} \subseteq {Sessions!Null} \cup Sessions!Ids
  BY DEF ConsoleInv, ConsoleTypes, Queued
<1> QED
  BY <1>1, <1>2 DEF Told, Flags, Closed, Places, ConsoleInv, ConsoleTypes, Sessions!TypeOK

-----------------------------------------------------------------------------
(* The parts together *)

\* The part that a behaviour is of goes its way, and the others stay.
LEMMA PartsAreSpecs ==
  PartsSpec => /\ Reading!Init /\ [][Reading!Next]_(Reading!vars)
               /\ Pool!Init /\ [][Pool!Next]_(Pool!vars)
               /\ Timing!Init /\ [][Timing!Next]_(Timing!vars)
               /\ Sessions!Init /\ [][Sessions!Next]_(Sessions!vars)
<1>1. PartsInit => Reading!Init /\ Pool!Init /\ Timing!Init /\ Sessions!Init
  BY DEF PartsInit
<1>2. [PartsNext]_systemVars => [Reading!Next]_(Reading!vars)
  BY DEF PartsNext, PermissionsNext, BufferNext, ReadingNext, PoolNext, TimersNext, ConsoleNext,
     systemVars, partsVars, streamVars, readerVars, Reading!vars
<1>3. [PartsNext]_systemVars => [Pool!Next]_(Pool!vars)
  BY DEF PartsNext, PermissionsNext, BufferNext, ReadingNext, PoolNext, TimersNext, ConsoleNext,
     systemVars, partsVars, threadVars, poolVars, Pool!vars
<1>4. [PartsNext]_systemVars => [Timing!Next]_(Timing!vars)
  BY DEF PartsNext, PermissionsNext, BufferNext, ReadingNext, PoolNext, TimersNext, ConsoleNext,
     systemVars, partsVars, threadVars, timerVars, Timing!vars
<1>5. [PartsNext]_systemVars => [Sessions!Next]_(Sessions!vars)
  BY DEF PartsNext, PermissionsNext, BufferNext, ReadingNext, PoolNext, TimersNext, ConsoleNext,
     systemVars, partsVars, threadVars, consoleVars, Sessions!vars, Sessions!shared,
     Sessions!session, Sessions!mainVars, Sessions!reaperVars
<1> QED
  BY <1>1, <1>2, <1>3, <1>4, <1>5, PTL DEF PartsSpec

\* The bounds on a behaviour are numbers.
BoundsAreNumbers ==
  MaxJobs \in Nat /\ MaxWaits \in Nat /\ MaxTimers \in Nat /\ MaxSessions \in Nat

\* What the readers, the dispatcher, the timers and the console know of each other is
\* what they were given: no position is outside the stream, no message is handled that
\* has not come whole, and no number is one of a job, a timer or a session that was not
\* made; for any streams, threads and numbers of them.
THEOREM PartsTypeCorrect == BoundsAreNumbers /\ NoneIsEmpty => (PartsSpec => []PartsTypeOK)
<1> SUFFICES ASSUME BoundsAreNumbers, NoneIsEmpty PROVE PartsSpec => []PartsTypeOK
  OBVIOUS
<1>1. /\ Reading!Init => ReadersInv
      /\ ReadersInv /\ [Reading!Next]_(Reading!vars) => ReadersInv'
      /\ ReadersInv => Reading!TypeOK
  BY ReadersInit, ReadersStep, AllTaken
<1>2. /\ Pool!Init => PoolInv
      /\ PoolInv /\ [Pool!Next]_(Pool!vars) => PoolInv'
      /\ PoolInv => Pool!TypeOK
  BY PoolInit, PoolStep, PoolTyped DEF BoundsAreNumbers
<1>3. /\ Timing!Init => TimersInv
      /\ TimersInv /\ [Timing!Next]_(Timing!vars) => TimersInv'
      /\ TimersInv => Timing!TypeOK
  BY TimersInit, TimersStep, TimersTyped DEF BoundsAreNumbers
<1> DEFINE Both == ConsoleInv /\ Told
<1>4. /\ Sessions!Init => Both
      /\ Both /\ [Sessions!Next]_(Sessions!vars) => Both'
      /\ Both => Sessions!TypeOK
  BY ConsoleInit, ConsoleStep, ToldInit, ToldStep, ConsoleTyped DEF BoundsAreNumbers
<1> HIDE DEF Both
<1> QED
  BY <1>1, <1>2, <1>3, <1>4, PartsAreSpecs, PTL DEF PartsTypeOK

\* However a stream of frames or lines is cut into packets (websocket.cpp, server.cpp of
\* IRC, console.cpp), each message that has come is handled, in its order and by the
\* first two once, unless bytes were lost: for any streams of messages that are not
\* empty, any room in the buffers and any number of connections.
THEOREM EachMessageIsTakenHolds == NoneIsEmpty => (PartsSpec => []EachMessageIsTaken)
<1> SUFFICES ASSUME NoneIsEmpty PROVE PartsSpec => []EachMessageIsTaken
  OBVIOUS
<1>1. /\ Reading!Init => ReadersInv
      /\ ReadersInv /\ [Reading!Next]_(Reading!vars) => ReadersInv'
  BY ReadersInit, ReadersStep
<1>2. ReadersInv => EachMessageIsTaken
  BY AllTaken DEF EachMessageIsTaken
<1> QED
  BY <1>1, <1>2, PartsAreSpecs, PTL

\* A timer is in the map of the channel, or with the one who stops it, and is not
\* held by anybody once it is deleted, after its thread (startTimer, stopTimer and
\* the job that a timer's thread leaves); a session of the console is in the map, on
\* its way to the reaper or deleted, and it is deleted when its own thread has ended
\* (kill_socket and the reaper of console.cpp): for any number of both.
THEOREM DisposedOfOnceHolds ==
  MaxTimers \in Nat /\ MaxSessions \in Nat => (PartsSpec => []DisposedOfOnce)
<1> SUFFICES ASSUME MaxTimers \in Nat, MaxSessions \in Nat PROVE PartsSpec => []DisposedOfOnce
  OBVIOUS
<1>1. /\ Timing!Init => TimersInv
      /\ TimersInv /\ [Timing!Next]_(Timing!vars) => TimersInv'
  BY TimersInit, TimersStep
<1>2. /\ Sessions!Init => ConsoleInv
      /\ ConsoleInv /\ [Sessions!Next]_(Sessions!vars) => ConsoleInv'
  BY ConsoleInit, ConsoleStep
<1>3. TimersInv /\ ConsoleInv => DisposedOfOnce
  BY TimersOwned, SessionsOwned DEF DisposedOfOnce
<1> QED
  BY <1>1, <1>2, <1>3, PartsAreSpecs, PTL
=============================================================================
