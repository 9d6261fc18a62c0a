------------------------- MODULE ThreadPartsProofs -------------------------
(***************************************************************************)
(* Threads that hand things to each other.                                 *)
(*                                                                         *)
(* WaitQueue is correct for any number of producers and consumers and any  *)
(* number of pushes: pop() never calls front() on an empty deque, no push  *)
(* is announced twice or forgotten, no wakeup is lost, and elements leave  *)
(* in push order.                                                          *)
(*                                                                         *)
(* The processing of chat messages, with any threads, users, messages,     *)
(* aliases and permissions, and any number of commands: what runs for a    *)
(* user is an object that was checked for him, whatever the name that he   *)
(* gave has come to mean since.                                            *)
(*                                                                         *)
(* The sockets, however many connections there are and however they end:   *)
(* each is disposed of once, and not closed while its own receiver is in   *)
(* recv().  The bound on the connections is any natural number.            *)
(*                                                                         *)
(* Last, the parts together.                                               *)
(***************************************************************************)
EXTENDS ThreadParts, FiniteSetTheorems, TLAPS

\* The deque holds exactly the tickets between the last one popped and the
\* last one pushed, in order.
QueueIsWindow ==
  /\ popped + Len(queue) = pushed
  /\ \A i \in 1..Len(queue) : queue[i] = popped + i

\* Each announced ticket is a unit of the semaphore, a consumer that has taken
\* a unit but not yet an element, or an element that was popped.
UnitsAreTickets == value + Cardinality(At("front")) + popped = Cardinality(posted)

\* Only a producer between its critical sections has something in hand.
HandsEmpty == \A p \in Producers : prod[p] \notin {"post", "count"} => batch[p] = {}

IInv == /\ TypeOK /\ AnnouncedOnce /\ NothingStranded
        /\ HandsEmpty /\ QueueIsWindow /\ UnitsAreTickets

-----------------------------------------------------------------------------
\* A set of tickets is finite and no larger than the number of pushes.
LEMMA TicketSets ==
  ASSUME NEW n \in Nat, NEW S \in SUBSET (1..n)
  PROVE  IsFiniteSet(S) /\ Cardinality(S) \in Nat /\ Cardinality(S) <= n
<1>1. IsFiniteSet(1..n) /\ Cardinality(1..n) = n
  BY FS_Interval
<1> QED
  BY <1>1, FS_Subset, FS_CardinalityType

\* Only finitely many consumers are at a place, and moving one of them in or
\* out of a set changes its cardinality by one.
LEMMA PlaceIsFinite ==
  ASSUME NEW place
  PROVE  IsFiniteSet(At(place)) /\ Cardinality(At(place)) \in Nat
<1>1. At(place) \subseteq Consumers
  BY DEF At
<1> QED
  BY <1>1, ThreadsAssumption, FS_Subset, FS_CardinalityType

\* The inductive invariant implies that front() finds an element: there are
\* at most as many announced tickets as pushes.
LEMMA UnderflowLemma == IInv => NoUnderflow
<1> SUFFICES ASSUME IInv PROVE NoUnderflow
  OBVIOUS
<1>1. Cardinality(posted) <= pushed /\ Cardinality(posted) \in Nat
  BY TicketSets DEF IInv, TypeOK, Tickets
<1>2. Cardinality(At("front")) \in Nat
  BY PlaceIsFinite
<1> QED
  BY <1>1, <1>2 DEF IInv, TypeOK, UnitsAreTickets, QueueIsWindow, NoUnderflow

\* A consumer about to take an element finds the deque not empty.
LEMMA FrontExists ==
  ASSUME IInv, NEW c \in Consumers, cons[c] = "front"
  PROVE  queue # <<>> /\ Len(queue) >= 1
<1>1. c \in At("front")
  BY DEF At
<1>2. Cardinality(At("front")) >= 1
  BY <1>1, PlaceIsFinite, FS_EmptySet
<1>3. Len(queue) >= 1
  BY <1>2, PlaceIsFinite, UnderflowLemma DEF NoUnderflow, IInv, TypeOK
<1> QED
  BY <1>3 DEF IInv, TypeOK

-----------------------------------------------------------------------------
THEOREM InitIInv == Init => IInv
<1> SUFFICES ASSUME Init PROVE IInv
  OBVIOUS
<1> USE DEF Init
<1>1. TypeOK
  BY DEF TypeOK, Tickets, ProducerPlaces, ConsumerPlaces
<1>2. AnnouncedOnce
  BY DEF AnnouncedOnce
<1>3. NothingStranded
  BY DEF NothingStranded, Tickets
<1>4. QueueIsWindow
  BY DEF QueueIsWindow
<1>5. At("front") = {}
  BY DEF At
<1>6. UnitsAreTickets
  <2>1. Cardinality({}) = 0
    BY FS_EmptySet
  <2>2. Cardinality(At("front")) = 0 /\ Cardinality(posted) = 0
    BY <1>5, <2>1
  <2> QED
    BY <2>2 DEF UnitsAreTickets
<1>7. HandsEmpty
  BY DEF HandsEmpty
<1> QED
  BY <1>1, <1>2, <1>3, <1>4, <1>6, <1>7 DEF IInv

\* Posting a batch raises the number of announced tickets by its size.
LEMMA PostCounts ==
  ASSUME IInv, NEW p \in Producers
  PROVE  /\ Cardinality(posted \cup batch[p]) = Cardinality(posted) + Cardinality(batch[p])
         /\ Cardinality(batch[p]) \in Nat
<1>1. batch[p] \in SUBSET (1..pushed) /\ posted \in SUBSET (1..pushed) /\ pushed \in Nat
  BY DEF IInv, TypeOK, Tickets
<1>2. /\ IsFiniteSet(batch[p]) /\ Cardinality(batch[p]) \in Nat
      /\ IsFiniteSet(posted) /\ Cardinality(posted) \in Nat
  BY <1>1, TicketSets
<1>3. posted \cap batch[p] = {}
  BY DEF IInv, AnnouncedOnce
<1>4. Cardinality(posted \cup batch[p])
        = Cardinality(posted) + Cardinality(batch[p]) - Cardinality(posted \cap batch[p])
  BY <1>2, FS_Union
<1>5. Cardinality(posted \cap batch[p]) = 0
  BY <1>3, FS_EmptySet
<1> QED
  BY <1>2, <1>4, <1>5

-----------------------------------------------------------------------------
\* The steps of a producer.
LEMMA ProducerKeepsIInv ==
  ASSUME IInv, NEW p \in Producers, ProducerStep(p)
  PROVE  IInv'
<1> USE DEF IInv
<1>1. CASE \E next \in {"post", "count"} : Enqueue(p, next)
  <2> PICK next \in {"post", "count"} : Enqueue(p, next)
    BY <1>1
  <2> USE DEF Enqueue
  <2>1. pushed' = pushed + 1 /\ pushed \in Nat /\ pushed + 1 \notin Tickets
        /\ Tickets' = Tickets \cup {pushed + 1}
    BY DEF TypeOK, Tickets
  <2>2. TypeOK'
    <3>1. queue' \in Seq(Nat)
      BY <2>1 DEF TypeOK
    <3> QED
      BY <2>1, <3>1 DEF TypeOK, ProducerPlaces
  <2>3. AnnouncedOnce'
    BY <2>1 DEF TypeOK, AnnouncedOnce
  <2>4. NothingStranded'
    <3>1. batch[p] = {}
      BY DEF HandsEmpty
    <3>2. \A q \in Producers : batch'[q] = IF q = p THEN {pushed + 1} ELSE batch[q]
      BY DEF TypeOK
    <3>3. UNION {batch'[q] : q \in Producers}
            = {pushed + 1} \cup UNION {batch[q] : q \in Producers}
      BY <3>1, <3>2
    <3> QED
      BY <2>1, <3>3 DEF NothingStranded
  <2>5. QueueIsWindow'
    <3>1. /\ Len(queue') = Len(queue) + 1 /\ Len(queue) \in Nat
          /\ \A i \in 1..Len(queue) : queue'[i] = queue[i]
          /\ queue'[Len(queue) + 1] = pushed + 1
      BY DEF TypeOK
    <3> QED
      BY <2>1, <3>1 DEF QueueIsWindow, TypeOK
  <2>6. UnitsAreTickets' /\ HandsEmpty'
    BY DEF UnitsAreTickets, At, HandsEmpty, TypeOK
  <2> QED
    BY <2>2, <2>3, <2>4, <2>5, <2>6
<1>2. CASE CountPending(p)
  <2> USE <1>2 DEF CountPending
  <2>1. TypeOK'
    BY DEF TypeOK, ProducerPlaces, Tickets
  <2>2. AnnouncedOnce'
    BY DEF TypeOK, AnnouncedOnce
  <2>3. NothingStranded'
    BY DEF TypeOK, NothingStranded, Tickets
  <2>4. QueueIsWindow' /\ UnitsAreTickets' /\ HandsEmpty'
    BY DEF QueueIsWindow, UnitsAreTickets, At, HandsEmpty, TypeOK
  <2> QED
    BY <2>1, <2>2, <2>3, <2>4
<1>3. CASE NotifyPending(p)
  <2> USE <1>3 DEF NotifyPending
  <2>1. TypeOK'
    BY DEF TypeOK, ProducerPlaces, Tickets
  <2>2. AnnouncedOnce'
    BY DEF TypeOK, AnnouncedOnce
  <2>3. NothingStranded'
    <3>1. batch[p] = {}
      BY DEF HandsEmpty
    <3>2. \A q \in Producers : batch'[q] = IF q = p THEN pending ELSE batch[q]
      BY DEF TypeOK
    <3>3. UNION {batch'[q] : q \in Producers}
            = pending \cup UNION {batch[q] : q \in Producers}
      BY <3>1, <3>2
    <3> QED
      BY <3>3 DEF NothingStranded, Tickets
  <2>4. QueueIsWindow' /\ UnitsAreTickets' /\ HandsEmpty'
    BY DEF QueueIsWindow, UnitsAreTickets, At, HandsEmpty, TypeOK
  <2> QED
    BY <2>1, <2>2, <2>3, <2>4
<1>4. CASE Post(p)
  <2>0. /\ Cardinality(posted \cup batch[p]) = Cardinality(posted) + Cardinality(batch[p])
        /\ Cardinality(batch[p]) \in Nat
    BY PostCounts
  <2> USE <1>4 DEF Post, PostNotifying
  <2>1. TypeOK'
    <3>1. value' \in Nat
      BY <2>0 DEF TypeOK
    <3>2. prod' \in [Producers -> ProducerPlaces]
      BY DEF TypeOK, ProducerPlaces
    <3>3. posted' \subseteq Tickets /\ batch' \in [Producers -> SUBSET Tickets]
      BY DEF TypeOK
    <3> QED
      BY <3>1, <3>2, <3>3 DEF TypeOK, Tickets
  <2>2. AnnouncedOnce'
    BY DEF TypeOK, AnnouncedOnce
  <2>3. NothingStranded'
    BY DEF TypeOK, NothingStranded, Tickets
  <2>4. QueueIsWindow' /\ HandsEmpty'
    BY DEF QueueIsWindow, HandsEmpty, TypeOK
  <2>5. UnitsAreTickets'
    <3>1. At("front")' = At("front")
      BY DEF At
    <3>2. Cardinality(posted') = Cardinality(posted) + Cardinality(batch[p])
      BY <2>0
    <3>3. /\ value' = value + Cardinality(batch[p]) /\ popped' = popped
          /\ value \in Nat /\ popped \in Nat /\ Cardinality(At("front")) \in Nat
      BY PlaceIsFinite DEF TypeOK
    <3>4. value + Cardinality(At("front")) + popped = Cardinality(posted)
      BY DEF UnitsAreTickets
    <3>5. Cardinality(At("front")') = Cardinality(At("front"))
      BY <3>1
    <3> HIDE DEF Post, PostNotifying
    <3>6. value' + Cardinality(At("front")') + popped' = Cardinality(posted')
      BY <2>0, <3>2, <3>3, <3>4, <3>5
    <3> QED
      BY <3>6 DEF UnitsAreTickets
  <2> QED
    BY <2>1, <2>2, <2>3, <2>4, <2>5
<1>5. CASE NotifyOne(p) \/ NotifyAll(p)
  <2>1. /\ UNCHANGED <<queue, pending, value, batch, pushed, posted, popped>>
        /\ prod' = [prod EXCEPT ![p] = "idle"]
    BY <1>5 DEF NotifyOne, NotifyAll
  <2>2. cons' \in [Consumers -> ConsumerPlaces] /\ At("front")' = At("front")
    BY <1>5 DEF NotifyOne, NotifyAll, At, TypeOK, ConsumerPlaces
  <2>3. TypeOK'
    BY <2>1, <2>2 DEF TypeOK, ProducerPlaces, Tickets
  <2>4. AnnouncedOnce' /\ NothingStranded'
    BY <2>1 DEF AnnouncedOnce, NothingStranded, Tickets
  <2>5. QueueIsWindow' /\ UnitsAreTickets'
    BY <2>1, <2>2 DEF QueueIsWindow, UnitsAreTickets
  <2>6. HandsEmpty'
    BY <1>5, <2>1 DEF NotifyOne, NotifyAll, HandsEmpty, TypeOK
  <2> QED
    BY <2>3, <2>4, <2>5, <2>6
<1> QED
  BY <1>1, <1>2, <1>3, <1>4, <1>5 DEF ProducerStep, Push, PushQuiet

\* The steps of a consumer.
LEMMA ConsumerKeepsIInv ==
  ASSUME IInv, NEW c \in Consumers, ConsumerStep(c)
  PROVE  IInv'
<1> USE DEF IInv
<1>1. CASE Pop(c) \/ Sleep(c) \/ SpuriousWake(c)
  <2>1. UNCHANGED <<queue, pending, value, batch, prod, pushed, posted, popped>>
    BY <1>1 DEF Pop, Sleep, SpuriousWake
  <2>2. cons' \in [Consumers -> ConsumerPlaces] /\ At("front")' = At("front")
    BY <1>1 DEF Pop, Sleep, SpuriousWake, At, TypeOK, ConsumerPlaces
  <2> QED
    BY <2>1, <2>2 DEF TypeOK, Tickets, AnnouncedOnce, NothingStranded,
                      HandsEmpty, QueueIsWindow, UnitsAreTickets
<1>2. CASE Acquire(c)
  <2> USE <1>2 DEF Acquire
  <2>1. TypeOK'
    BY DEF TypeOK, Tickets, ConsumerPlaces
  <2>2. AnnouncedOnce' /\ NothingStranded' /\ HandsEmpty' /\ QueueIsWindow'
    BY DEF AnnouncedOnce, NothingStranded, HandsEmpty, QueueIsWindow, Tickets
  <2>3. At("front")' = At("front") \cup {c} /\ c \notin At("front")
    BY DEF At, TypeOK
  <2>4. Cardinality(At("front")') = Cardinality(At("front")) + 1
    BY <2>3, PlaceIsFinite, FS_AddElement
  <2>5. UnitsAreTickets'
    BY <2>4, PlaceIsFinite DEF UnitsAreTickets, TypeOK
  <2> QED
    BY <2>1, <2>2, <2>5
<1>3. CASE TakeFront(c)
  <2> USE <1>3 DEF TakeFront
  <2>1. queue # <<>> /\ Len(queue) >= 1 /\ queue \in Seq(Nat)
    BY FrontExists DEF TypeOK
  <2>2. /\ queue' \in Seq(Nat) /\ Len(queue') = Len(queue) - 1
        /\ \A i \in 1..Len(queue') : queue'[i] = queue[i + 1]
    BY <2>1
  <2>3. TypeOK'
    BY <2>2 DEF TypeOK, Tickets, ConsumerPlaces
  <2>4. AnnouncedOnce' /\ NothingStranded' /\ HandsEmpty'
    BY DEF AnnouncedOnce, NothingStranded, HandsEmpty, Tickets
  <2>5. QueueIsWindow'
    <3>1. Len(queue) \in Nat /\ \A i \in 1..Len(queue') : i + 1 \in 1..Len(queue)
      BY <2>1, <2>2
    <3>2. \A i \in 1..Len(queue') : queue'[i] = popped + (i + 1)
      BY <2>2, <3>1 DEF QueueIsWindow
    <3> QED
      BY <2>2, <3>1, <3>2 DEF QueueIsWindow, TypeOK
  <2>6. At("front")' = At("front") \ {c} /\ c \in At("front")
    BY DEF At, TypeOK
  <2>7. Cardinality(At("front")') = Cardinality(At("front")) - 1
    BY <2>6, PlaceIsFinite, FS_RemoveElement
  <2>8. UnitsAreTickets'
    BY <2>7, PlaceIsFinite DEF UnitsAreTickets, TypeOK
  <2> QED
    BY <2>3, <2>4, <2>5, <2>8
<1> QED
  BY <1>1, <1>2, <1>3 DEF ConsumerStep

LEMMA NextKeepsIInv == IInv /\ [Next]_vars => IInv'
<1> SUFFICES ASSUME IInv, [Next]_vars PROVE IInv'
  OBVIOUS
<1>1. CASE Next
  BY <1>1, ProducerKeepsIInv, ConsumerKeepsIInv DEF Next
<1>2. CASE UNCHANGED vars
  BY <1>2 DEF vars, IInv, TypeOK, Tickets, AnnouncedOnce, NothingStranded,
              HandsEmpty, QueueIsWindow, UnitsAreTickets, At
<1> QED
  BY <1>1, <1>2

\* The inductive invariant holds throughout every behaviour.
THEOREM Invariance == Spec => []IInv
BY InitIInv, NextKeepsIInv, PTL DEF Spec

\* Every variable keeps its type: in particular the semaphore never goes
\* below zero, where its uint64_t would wrap.
THEOREM TypeCorrect == Spec => []TypeOK
BY Invariance, PTL DEF IInv

\* pop() never reaches front() on an empty deque, whatever the interleaving of
\* pushes, quiet pushes, announcements and pops.
THEOREM NoUnderflowHolds == Spec => []NoUnderflow
BY Invariance, UnderflowLemma, PTL

\* No ticket is announced twice, and none is neither announced nor about to be.
THEOREM TicketsAccounted == Spec => []AnnouncedExactlyOnce
<1>1. IInv => AnnouncedExactlyOnce
  BY DEF IInv, AnnouncedExactlyOnce
<1> QED
  BY <1>1, Invariance, PTL

-----------------------------------------------------------------------------
(* Wakeups *)

Notifiers == {p \in Producers : prod[p] = "notify_one"}

\* Only finitely many producers are in the middle of something, so those about
\* to notify can be counted even where there is no bound on the producers.
BusyIsFinite == IsFiniteSet({p \in Producers : prod[p] # "idle"})

WakeInv == BusyIsFinite /\ NoLostWakeup

\* The threads that count in NoLostWakeup can be counted.
LEMMA CountsAreNat ==
  ASSUME BusyIsFinite
  PROVE  /\ IsFiniteSet(Notifiers) /\ Cardinality(Notifiers) \in Nat
         /\ \A place : IsFiniteSet(At(place)) /\ Cardinality(At(place)) \in Nat
<1>1. Notifiers \subseteq {p \in Producers : prod[p] # "idle"}
  BY DEF Notifiers
<1>2. IsFiniteSet(Notifiers)
  BY <1>1, FS_Subset DEF BusyIsFinite
<1> QED
  BY <1>2, FS_CardinalityType, PlaceIsFinite

\* A step of a producer changes who is busy by that producer at most.
LEMMA BusyStaysFinite ==
  ASSUME TypeOK, BusyIsFinite, NEW p \in Producers, NEW place,
         prod' = [prod EXCEPT ![p] = place]
  PROVE  BusyIsFinite'
<1> DEFINE Busy == {q \in Producers : prod[q] # "idle"}
<1>1. Busy' \subseteq Busy \cup {p}
  BY DEF TypeOK
<1>2. IsFiniteSet(Busy \cup {p})
  BY FS_AddElement DEF BusyIsFinite
<1>3. IsFiniteSet(Busy')
  BY <1>1, <1>2, FS_Subset
<1> QED
  BY <1>3 DEF BusyIsFinite

\* A broadcast under way covers every sleeper until it is made, after which
\* nobody sleeps; a post brings its own notification; a single notification
\* moves one thread from the sleepers to those that are awake.
LEMMA ProducerKeepsWakeups ==
  ASSUME IInv, WakeInv, NEW p \in Producers, ProducerStep(p)
  PROVE  WakeInv'
<1> USE DEF WakeInv
<1>0. TypeOK /\ value \in Nat /\ prod \in [Producers -> ProducerPlaces]
  BY DEF IInv, TypeOK
<1>1. /\ IsFiniteSet(Notifiers) /\ Cardinality(Notifiers) \in Nat
      /\ IsFiniteSet(At("wait")) /\ Cardinality(At("wait")) \in Nat
  BY CountsAreNat
<1>2. BusyIsFinite'
  <2>1. \E place : prod' = [prod EXCEPT ![p] = place]
    BY DEF ProducerStep, Push, PushQuiet, Enqueue, CountPending, NotifyPending,
           Post, PostNotifying, NotifyOne, NotifyAll
  <2> QED
    BY <1>0, <2>1, BusyStaysFinite
<1>3. CASE Push(p) \/ PushQuiet(p) \/ CountPending(p) \/ NotifyPending(p)
  <2>1. /\ value' = value /\ cons' = cons
        /\ prod[p] \in {"idle", "count"} /\ prod'[p] \in {"post", "count", "idle"}
        /\ \A q \in Producers \ {p} : prod'[q] = prod[q]
    BY <1>0, <1>3 DEF Push, PushQuiet, Enqueue, CountPending, NotifyPending
  <2>2. Notifiers' = Notifiers /\ At("wait")' = At("wait") /\ At("asleep")' = At("asleep")
    BY <2>1 DEF Notifiers, At
  <2>3. (\E q \in Producers : prod[q] = "notify_all")
          => \E q \in Producers : prod'[q] = "notify_all"
    BY <2>1
  <2> QED
    BY <1>2, <2>1, <2>2, <2>3 DEF NoLostWakeup, Notifiers
<1>4. CASE Post(p)
  <2>1. /\ value' = value + Cardinality(batch[p]) /\ cons' = cons
        /\ prod[p] = "post"
        /\ prod'[p] = (IF Cardinality(batch[p]) > 1 THEN "notify_all" ELSE "notify_one")
        /\ \A q \in Producers \ {p} : prod'[q] = prod[q]
    BY <1>0, <1>4 DEF Post, PostNotifying
  <2>2. At("wait")' = At("wait") /\ At("asleep")' = At("asleep")
    BY <2>1 DEF At
  <2>3. CASE Cardinality(batch[p]) > 1
    BY <1>2, <2>1, <2>3 DEF NoLostWakeup
  <2>4. CASE ~(Cardinality(batch[p]) > 1)
    <3>1. Cardinality(batch[p]) \in Nat
      BY PostCounts
    <3>2. p \notin Notifiers /\ Notifiers' = Notifiers \cup {p}
      BY <2>1, <2>4 DEF Notifiers
    <3>3. Cardinality(Notifiers') = Cardinality(Notifiers) + 1
      BY <1>1, <3>2, FS_AddElement
    <3>4. value' \in Nat /\ value' <= value + 1
      BY <1>0, <2>1, <2>4, <3>1
    <3>5. (\E q \in Producers : prod[q] = "notify_all")
            => \E q \in Producers : prod'[q] = "notify_all"
      BY <2>1
    <3>6. value = 0 => value' <= Cardinality(At("wait")') + Cardinality(Notifiers')
      BY <1>0, <1>1, <2>2, <3>3, <3>4
    <3>7. value # 0 /\ At("asleep") # {} /\ ~(\E q \in Producers : prod[q] = "notify_all")
            => value' <= Cardinality(At("wait")') + Cardinality(Notifiers')
      <4>1. value # 0 => value > 0
        BY <1>0
      <4> SUFFICES ASSUME value <= Cardinality(At("wait")) + Cardinality(Notifiers)
                   PROVE  value' <= Cardinality(At("wait")') + Cardinality(Notifiers')
        BY <4>1 DEF NoLostWakeup, Notifiers
      <4> QED
        BY <1>0, <1>1, <2>2, <3>3, <3>4
    <3> QED
      BY <1>2, <2>2, <3>5, <3>6, <3>7 DEF NoLostWakeup, Notifiers
  <2> QED
    BY <2>3, <2>4
<1>5. CASE NotifyOne(p)
  <2>1. value' = value /\ \A q \in Producers \ {p} : prod'[q] = prod[q]
    BY <1>0, <1>5 DEF NotifyOne
  <2>2. prod[p] = "notify_one" /\ prod'[p] = "idle"
    BY <1>0, <1>5 DEF NotifyOne
  <2>3. p \in Notifiers /\ Notifiers' = Notifiers \ {p}
    BY <2>1, <2>2 DEF Notifiers
  <2>4. Cardinality(Notifiers') = Cardinality(Notifiers) - 1
    BY <1>1, <2>3, FS_RemoveElement
  <2>5. CASE At("asleep") = {}
    BY <1>2, <1>5, <2>5 DEF NotifyOne, NoLostWakeup, At
  <2>6. CASE At("asleep") # {}
    <3>1. PICK c \in At("asleep") : cons' = [cons EXCEPT ![c] = "wait"]
      BY <1>5, <2>6 DEF NotifyOne
    <3>2. c \notin At("wait") /\ At("wait")' = At("wait") \cup {c}
      BY <1>0, <3>1 DEF At, TypeOK
    <3>3. Cardinality(At("wait")') = Cardinality(At("wait")) + 1
      BY <1>1, <3>2, FS_AddElement
    <3>4. (\E q \in Producers : prod[q] = "notify_all")
            => \E q \in Producers : prod'[q] = "notify_all"
      BY <2>1, <2>2
    <3>5. value <= Cardinality(At("wait")) + Cardinality(Notifiers)
            => value' <= Cardinality(At("wait")') + Cardinality(Notifiers')
      BY <1>0, <1>1, <2>1, <2>4, <3>3
    <3> QED
      BY <1>2, <2>1, <2>6, <3>4, <3>5 DEF NoLostWakeup, Notifiers
  <2> QED
    BY <2>5, <2>6
<1>6. CASE NotifyAll(p)
  <2>1. At("asleep")' = {}
    BY <1>6 DEF NotifyAll, At
  <2> QED
    BY <1>2, <2>1 DEF NoLostWakeup
<1> QED
  BY <1>3, <1>4, <1>5, <1>6 DEF ProducerStep

\* A consumer falls asleep at zero only; one that takes a unit was itself
\* awake; the others only add to those that are awake.
LEMMA ConsumerKeepsWakeups ==
  ASSUME IInv, WakeInv, NEW c \in Consumers, ConsumerStep(c)
  PROVE  WakeInv'
<1> USE DEF WakeInv
<1>0. TypeOK /\ value \in Nat
  BY DEF IInv, TypeOK
<1>1. /\ IsFiniteSet(Notifiers) /\ Cardinality(Notifiers) \in Nat
      /\ IsFiniteSet(At("wait")) /\ Cardinality(At("wait")) \in Nat
  BY CountsAreNat
<1>2. prod' = prod
  BY DEF ConsumerStep, Pop, Acquire, Sleep, SpuriousWake, TakeFront
<1>3. BusyIsFinite' /\ Notifiers' = Notifiers
  BY <1>2 DEF BusyIsFinite, Notifiers
<1>4. CASE Pop(c) \/ SpuriousWake(c)
  <2>1. /\ value' = value /\ cons' = [cons EXCEPT ![c] = "wait"] /\ cons[c] \in {"idle", "asleep"}
    BY <1>4 DEF Pop, SpuriousWake
  <2>2. /\ c \notin At("wait") /\ At("wait")' = At("wait") \cup {c}
        /\ At("asleep")' \subseteq At("asleep")
    BY <1>0, <2>1 DEF At, TypeOK
  <2>3. Cardinality(At("wait")') = Cardinality(At("wait")) + 1
    BY <1>1, <2>2, FS_AddElement
  <2>4. value <= Cardinality(At("wait")) + Cardinality(Notifiers)
          => value' <= Cardinality(At("wait")') + Cardinality(Notifiers')
    BY <1>0, <1>1, <1>3, <2>1, <2>3
  <2> QED
    BY <1>2, <1>3, <2>1, <2>2, <2>4 DEF NoLostWakeup, Notifiers
<1>5. CASE Acquire(c)
  <2>1. value > 0 /\ value' = value - 1 /\ cons' = [cons EXCEPT ![c] = "front"] /\ cons[c] = "wait"
    BY <1>5 DEF Acquire
  <2>2. /\ c \in At("wait") /\ At("wait")' = At("wait") \ {c}
        /\ At("asleep")' = At("asleep")
    BY <1>0, <2>1 DEF At, TypeOK
  <2>3. Cardinality(At("wait")') = Cardinality(At("wait")) - 1
    BY <1>1, <2>2, FS_RemoveElement
  <2>4. value <= Cardinality(At("wait")) + Cardinality(Notifiers)
          => value' <= Cardinality(At("wait")') + Cardinality(Notifiers')
    BY <1>0, <1>1, <1>3, <2>1, <2>3
  <2> QED
    BY <1>2, <1>3, <2>1, <2>2, <2>4 DEF NoLostWakeup, Notifiers
<1>6. CASE Sleep(c)
  BY <1>3, <1>6 DEF Sleep, NoLostWakeup
<1>7. CASE TakeFront(c)
  <2>1. value' = value /\ cons' = [cons EXCEPT ![c] = "idle"] /\ cons[c] = "front"
    BY <1>7 DEF TakeFront
  <2>2. At("wait")' = At("wait") /\ At("asleep")' = At("asleep")
    BY <1>0, <2>1 DEF At, TypeOK
  <2> QED
    BY <1>2, <1>3, <2>1, <2>2 DEF NoLostWakeup, Notifiers
<1> QED
  BY <1>4, <1>5, <1>6, <1>7 DEF ConsumerStep

\* No wakeup is lost, for any number of producers and consumers: while somebody
\* sleeps although there is a unit, enough threads are awake or about to be.
THEOREM NoLostWakeupHolds == Spec => []NoLostWakeup
<1>1. Init => WakeInv
  <2> SUFFICES ASSUME Init PROVE WakeInv
    OBVIOUS
  <2>1. {p \in Producers : prod[p] # "idle"} = {}
    BY DEF Init
  <2>2. BusyIsFinite
    BY <2>1, FS_EmptySet DEF BusyIsFinite
  <2> QED
    BY <2>2 DEF WakeInv, NoLostWakeup, Init
<1>2. IInv /\ WakeInv /\ [Next]_vars => WakeInv'
  <2> SUFFICES ASSUME IInv, WakeInv, [Next]_vars PROVE WakeInv'
    OBVIOUS
  <2>1. CASE Next
    BY <2>1, ProducerKeepsWakeups, ConsumerKeepsWakeups DEF Next
  <2>2. CASE UNCHANGED vars
    BY <2>2 DEF vars, WakeInv, BusyIsFinite, NoLostWakeup, At
  <2> QED
    BY <2>1, <2>2
<1>3. WakeInv => NoLostWakeup
  BY DEF WakeInv
<1> QED
  BY <1>1, <1>2, <1>3, Invariance, PTL DEF Spec

-----------------------------------------------------------------------------
\* A step of the queue puts an element in, takes the oldest one out, or changes
\* nothing its users see.
LEMMA StepIsFifo ==
  ASSUME IInv, [Next]_vars
  PROVE  [Fifo!Put \/ Fifo!Take]_Fifo!vars
<1> USE DEF Fifo!Put, Fifo!Take, Fifo!vars
<1>1. CASE \E p \in Producers : ProducerStep(p)
  BY <1>1 DEF ProducerStep, Push, PushQuiet, Enqueue, CountPending, NotifyPending,
              Post, PostNotifying, NotifyOne, NotifyAll
<1>2. CASE \E c \in Consumers : TakeFront(c)
  <2> PICK c \in Consumers : TakeFront(c)
    BY <1>2
  <2>1. queue # <<>> /\ Len(queue) >= 1
    BY FrontExists DEF TakeFront
  <2>2. Head(queue) = popped + 1
    BY <2>1 DEF IInv, QueueIsWindow, TypeOK
  <2> QED
    BY <2>1, <2>2 DEF TakeFront
<1>3. CASE \E c \in Consumers : ConsumerStep(c) /\ ~TakeFront(c)
  BY <1>3 DEF ConsumerStep, Pop, Acquire, Sleep, SpuriousWake
<1>4. CASE UNCHANGED vars
  BY <1>4 DEF vars
<1> QED
  BY <1>1, <1>2, <1>3, <1>4 DEF Next

\* Elements leave the deque in the order in which they were pushed: wait_queue
\* implements the queue its users see.
THEOREM FifoHolds == Spec => ImplementsFifo
<1>1. Init => Fifo!Init
  BY DEF Init, Fifo!Init
<1>2. IInv /\ [Next]_vars => [Fifo!Put \/ Fifo!Take]_Fifo!vars
  BY StepIsFifo
<1> QED
  BY <1>1, <1>2, Invariance, PTL DEF Spec, ImplementsFifo, Fifo!Spec

-----------------------------------------------------------------------------
(* The commands *)

\* Each thread has a place, an object, and the history of its message.
Functional ==
  /\ DOMAIN pc = Threads /\ DOMAIN command = Threads
  /\ DOMAIN checked = Threads /\ DOMAIN ran = Threads

\* From its check until it is run, the object that a thread found is the one that
\* was checked; and a thread that may eval was allowed to.
Checked ==
  \A t \in Threads : /\ pc[t] \in {"expand", "run"} => command[t] \in checked[t]
                     /\ pc[t] = "eval" => 0 \in checked[t]

\* The invariant of the commands that is kept by every step.
CommandsInv == Functional /\ Checked /\ Messages!RunsWhatWasChecked

\* What a thread evaluates was checked, whatever runs in it.
EvaluatesChecked(t) ==
  \E c \in checked[t] : \E objects : ran' = [ran EXCEPT ![t] = @ \cup ({c} \X objects)]

-----------------------------------------------------------------------------
\* It holds before anything was sent.
LEMMA InitCommands == Messages!Init => CommandsInv
BY DEF Messages!Init, CommandsInv, Functional, Checked, Messages!RunsWhatWasChecked

\* An evaluation is for one object, or for eval.
LEMMA EvaluateIsForOne ==
  ASSUME NEW t \in Threads, NEW c \in checked[t], NEW name, NEW itself,
         Messages!Evaluate(t, c, name, itself)
  PROVE  EvaluatesChecked(t)
<1>1. \E objects : ran' = [ran EXCEPT ![t] = @ \cup ({c} \X objects)]
  BY DEF Messages!Evaluate
<1> QED
  BY <1>1 DEF EvaluatesChecked

\* It keeps the history.
LEMMA EvaluationKeepsHistory ==
  ASSUME CommandsInv, NEW t \in Threads, EvaluatesChecked(t), checked' = checked
  PROVE  DOMAIN ran' = Threads /\ Messages!RunsWhatWasChecked'
<1>1. PICK c \in checked[t] : \E objects : ran' = [ran EXCEPT ![t] = @ \cup ({c} \X objects)]
  BY DEF EvaluatesChecked
<1>2. PICK objects : ran' = [ran EXCEPT ![t] = @ \cup ({c} \X objects)]
  BY <1>1
<1>3. /\ DOMAIN ran' = Threads /\ ran'[t] = ran[t] \cup ({c} \X objects)
      /\ \A u \in Threads : u # t => ran'[u] = ran[u]
  BY <1>2 DEF CommandsInv, Functional
<1>4. \A e \in {c} \X objects : e[1] \in checked[t]
  OBVIOUS
<1>5. Messages!RunsWhatWasChecked'
  BY <1>3, <1>4 DEF CommandsInv, Messages!RunsWhatWasChecked
<1> QED
  BY <1>3, <1>5

\* A step of a thread that checks nothing, and goes to no place behind a check.
LEMMA ElsewhereKeepsCommands ==
  ASSUME CommandsInv, NEW t \in Threads, NEW place, place \notin {"expand", "run", "eval"},
         pc' = [pc EXCEPT ![t] = place],
         \A u \in Threads : u # t => command'[u] = command[u],
         DOMAIN command' = Threads, checked' = checked, ran' = ran \/ EvaluatesChecked(t)
  PROVE  CommandsInv'
<1>1. /\ pc'[t] \notin {"expand", "run", "eval"}
      /\ \A u \in Threads : u # t => pc'[u] = pc[u]
  BY DEF CommandsInv, Functional
<1>2. Checked'
  BY <1>1 DEF CommandsInv, Checked
<1>3. DOMAIN ran' = Threads /\ Messages!RunsWhatWasChecked'
  <2>1. CASE ran' = ran
    BY <2>1 DEF CommandsInv, Functional, Messages!RunsWhatWasChecked
  <2> QED
    BY <2>1, EvaluationKeepsHistory
<1>4. Functional'
  BY <1>3 DEF CommandsInv, Functional
<1> QED
  BY <1>2, <1>3, <1>4 DEF CommandsInv

\* The end of a stage, what was evaluated in it included.
LEMMA EndStageKeepsCommands ==
  ASSUME CommandsInv, NEW t \in Threads, Messages!EndStage(t), checked' = checked,
         ran' = ran \/ EvaluatesChecked(t)
  PROVE  CommandsInv'
<1>1. PICK place : place \in {"find", "idle"} /\ pc' = [pc EXCEPT ![t] = place]
  BY DEF Messages!EndStage, Messages!Goto
<1>2. /\ DOMAIN command' = Threads
      /\ \A u \in Threads : u # t => command'[u] = command[u]
  BY DEF CommandsInv, Functional, Messages!EndStage
<1> QED
  BY <1>1, <1>2, ElsewhereKeepsCommands

\* Nothing of any thread changes.
LEMMA LocalKeepsCommands ==
  ASSUME CommandsInv, UNCHANGED Messages!local
  PROVE  CommandsInv'
BY DEF CommandsInv, Messages!local, Functional, Checked, Messages!RunsWhatWasChecked

-----------------------------------------------------------------------------
(* What a step of a thread does to its check *)

LEMMA ReceiveKeepsCommands ==
  ASSUME CommandsInv, NEW t \in Threads, NEW m \in Inputs, Messages!Receive(t, m)
  PROVE  CommandsInv'
<1>1. Functional'
  BY DEF CommandsInv, Functional, Messages!Receive, Messages!Goto
<1>2. /\ pc'[t] = "creds" /\ ran'[t] = {} /\ command' = command
      /\ \A u \in Threads : u # t =>
           pc'[u] = pc[u] /\ ran'[u] = ran[u] /\ checked'[u] = checked[u]
  BY DEF CommandsInv, Functional, Messages!Receive, Messages!Goto
<1>3. Checked' /\ Messages!RunsWhatWasChecked'
  BY <1>2 DEF CommandsInv, Checked, Messages!RunsWhatWasChecked
<1> QED
  BY <1>1, <1>3 DEF CommandsInv

\* The check lets the thread go on with the object that it adds to the checked ones.
LEMMA CheckStageKeepsCommands ==
  ASSUME CommandsInv, NEW t \in Threads, Messages!CheckStage(t)
  PROVE  CommandsInv'
<1>1. CASE UNCHANGED Messages!local
  BY <1>1, LocalKeepsCommands
<1>2. CASE Messages!EndStage(t) /\ checked' = checked /\ ran' = ran
  BY <1>2, EndStageKeepsCommands
<1>3. CASE /\ \E place \in {"expand", "run"} : pc' = [pc EXCEPT ![t] = place]
           /\ checked' = [checked EXCEPT ![t] = @ \cup {command[t]}]
           /\ command' = command /\ ran' = ran
  <2>1. Functional'
    BY <1>3 DEF CommandsInv, Functional
  <2>2. /\ checked'[t] = checked[t] \cup {command[t]} /\ pc'[t] # "eval"
        /\ \A u \in Threads : u # t => pc'[u] = pc[u] /\ checked'[u] = checked[u]
    BY <1>3 DEF CommandsInv, Functional
  <2>3. Checked' /\ Messages!RunsWhatWasChecked'
    BY <1>3, <2>2 DEF CommandsInv, Checked, Messages!RunsWhatWasChecked
  <2> QED
    BY <2>1, <2>3 DEF CommandsInv
<1> QED
  BY <1>1, <1>2, <1>3 DEF Messages!CheckStage, Messages!Undefined, Messages!Stop, Messages!Goto

\* The arguments are evaluated for the object that was checked.
LEMMA ExpandKeepsCommands ==
  ASSUME CommandsInv, NEW t \in Threads, Messages!Expand(t)
  PROVE  CommandsInv'
<1>1. pc[t] = "expand" /\ pc' = [pc EXCEPT ![t] = "run"]
  BY DEF Messages!Expand, Messages!At, Messages!Goto
<1>2. command[t] \in checked[t] /\ command' = command /\ checked' = checked
  BY <1>1 DEF CommandsInv, Checked, Messages!Expand
<1>3. EvaluatesChecked(t)
  BY <1>2, EvaluateIsForOne DEF Messages!Expand
<1>4. DOMAIN ran' = Threads /\ Messages!RunsWhatWasChecked'
  BY <1>2, <1>3, EvaluationKeepsHistory
<1>5. Functional'
  BY <1>1, <1>2, <1>4 DEF CommandsInv, Functional
<1>6. pc'[t] = "run" /\ \A u \in Threads : u # t => pc'[u] = pc[u]
  BY <1>1 DEF CommandsInv, Functional
<1>7. Checked'
  BY <1>2, <1>6 DEF CommandsInv, Checked
<1> QED
  BY <1>4, <1>5, <1>7 DEF CommandsInv

\* So is its code.
LEMMA RunKeepsCommands ==
  ASSUME CommandsInv, NEW t \in Threads, Messages!Run(t)
  PROVE  CommandsInv'
<1>1. CASE UNCHANGED Messages!local
  BY <1>1, LocalKeepsCommands
<1>2. CASE /\ Messages!Evaluate(t, command[t], body[command[t]], {command[t]})
           /\ Messages!EndStage(t) /\ checked' = checked
  <2>1. command[t] \in checked[t]
    BY DEF CommandsInv, Checked, Messages!Run, Messages!At
  <2> QED
    BY <1>2, <2>1, EvaluateIsForOne, EndStageKeepsCommands
<1> QED
  BY <1>1, <1>2 DEF Messages!Run, Messages!Undefined, Messages!Stop

\* An eval is evaluated for a user who may.
LEMMA EvalKeepsCommands ==
  ASSUME CommandsInv, NEW t \in Threads, Messages!Eval(t)
  PROVE  CommandsInv'
<1>1. 0 \in checked[t]
  BY DEF CommandsInv, Checked, Messages!Eval, Messages!At
<1>2. /\ Messages!Evaluate(t, 0, Messages!Stage(t).expr, {})
      /\ Messages!EndStage(t) /\ checked' = checked
  BY DEF Messages!Eval
<1> QED
  BY <1>1, <1>2, EvaluateIsForOne, EndStageKeepsCommands

\* The check of a builtin command is that of an eval, if it is one.
LEMMA BuiltinKeepsCommands ==
  ASSUME CommandsInv, NEW t \in Threads, Messages!Builtin(t)
  PROVE  CommandsInv'
<1> DEFINE cmd == Messages!Stage(t).cmd
<1>1. CASE Messages!EndStage(t) /\ checked' = checked /\ ran' = ran
  BY <1>1, EndStageKeepsCommands
<1>2. CASE /\ cmd \in Messages!Builtins /\ pc' = [pc EXCEPT ![t] = cmd]
           /\ checked' = [checked EXCEPT ![t] = IF cmd = "eval" THEN @ \cup {0} ELSE @]
           /\ command' = command /\ ran' = ran
  <2>1. cmd \notin {"expand", "run"}
    BY <1>2 DEF Messages!Builtins
  <2> HIDE DEF cmd
  <2>2. Functional'
    BY <1>2 DEF CommandsInv, Functional
  <2>3. /\ pc'[t] \notin {"expand", "run"} /\ (pc'[t] = "eval" => 0 \in checked'[t])
        /\ checked[t] \subseteq checked'[t]
        /\ \A u \in Threads : u # t => pc'[u] = pc[u] /\ checked'[u] = checked[u]
    BY <1>2, <2>1 DEF CommandsInv, Functional
  <2>4. Checked' /\ Messages!RunsWhatWasChecked'
    BY <1>2, <2>3 DEF CommandsInv, Checked, Messages!RunsWhatWasChecked
  <2> QED
    BY <2>2, <2>4 DEF CommandsInv
<1> QED
  BY <1>1, <1>2 DEF Messages!Builtin, Messages!Goto

\* What a thread does before a check, and what the builtin commands do after their
\* own, which is none of an object.
LEMMA OthersKeepCommands ==
  ASSUME CommandsInv, NEW t \in Threads,
         \/ Messages!Creds(t) \/ Messages!RunHandlers(t) \/ Messages!FindStage(t)
         \/ Messages!DefFind(t) \/ Messages!DefEmplace(t)
         \/ Messages!FindTarget(t) \/ Messages!ChangeTarget(t) \/ Messages!ChmodBuiltin(t)
         \/ Messages!ChmodParse(t)
         \/ Messages!UndefCommand(t) \/ Messages!ChangeGlobal(t) \/ Messages!Showmod(t)
  PROVE  CommandsInv'
<1> DEFINE Goes(place) == /\ pc' = [pc EXCEPT ![t] = place]
                          /\ DOMAIN command' = Threads
                          /\ \A u \in Threads : u # t => command'[u] = command[u]
                          /\ checked' = checked /\ ran' = ran
           Elsewhere == {"idle", "handlers", "find", "check", "builtin", "emplace", "change",
                         "parse", "global_gone"}
           Either == \/ UNCHANGED Messages!local
                     \/ Messages!EndStage(t) /\ checked' = checked /\ ran' = ran
                     \/ \E place \in Elsewhere : Goes(place)
<1>1. DOMAIN command = Threads
  BY DEF CommandsInv, Functional
<1>2. Either
  <2>1. CASE Messages!RunHandlers(t)
    BY <1>1, <2>1 DEF Messages!RunHandlers, Messages!Undefined, Messages!Stop, Messages!Goto
  <2>2. CASE Messages!FindStage(t)
    BY <1>1, <2>2 DEF Messages!FindStage, Messages!Goto
  <2>3. CASE Messages!Creds(t)
    BY <1>1, <2>3 DEF Messages!Creds, Messages!Goto
  <2>4. CASE Messages!DefFind(t)
    BY <1>1, <2>4 DEF Messages!DefFind, Messages!Goto
  <2>5. CASE Messages!FindTarget(t)
    BY <1>1, <2>5 DEF Messages!FindTarget, Messages!Goto
  <2>6. CASE Messages!ChangeTarget(t)
    BY <2>6 DEF Messages!ChangeTarget, Messages!Undefined, Messages!Stop
  <2>7. CASE Messages!ChmodBuiltin(t)
    BY <1>1, <2>7 DEF Messages!ChmodBuiltin, Messages!Goto
  <2>8. CASE Messages!UndefCommand(t)
    BY <1>1, <2>8 DEF Messages!UndefCommand, Messages!Goto
  <2>9. CASE Messages!Showmod(t)
    BY <2>9 DEF Messages!Showmod, Messages!Stop
  <2>10. CASE Messages!DefEmplace(t) \/ Messages!ChmodParse(t) \/ Messages!ChangeGlobal(t)
    BY <2>10 DEF Messages!DefEmplace, Messages!ChmodParse, Messages!ChangeGlobal
  <2> QED
    BY <2>1, <2>2, <2>3, <2>4, <2>5, <2>6, <2>7, <2>8, <2>9, <2>10
<1>3. ASSUME NEW place \in Elsewhere, Goes(place) PROVE CommandsInv'
  <2>1. place \notin {"expand", "run", "eval"}
    OBVIOUS
  <2> QED
    BY <1>3, <2>1, ElsewhereKeepsCommands
<1> QED
  BY <1>2, <1>3, LocalKeepsCommands, EndStageKeepsCommands

\* Every step keeps the invariant of the commands.
LEMMA NextKeepsCommands == CommandsInv /\ [Messages!Next]_(Messages!vars) => CommandsInv'
<1> SUFFICES ASSUME CommandsInv, [Messages!Next]_(Messages!vars) PROVE CommandsInv'
  OBVIOUS
<1>1. CASE UNCHANGED Messages!vars
  BY <1>1, LocalKeepsCommands DEF Messages!vars
<1>2. ASSUME NEW t \in Threads, Messages!Step(t) PROVE CommandsInv'
  BY <1>2, CheckStageKeepsCommands, ExpandKeepsCommands, RunKeepsCommands, EvalKeepsCommands,
     BuiltinKeepsCommands, OthersKeepCommands DEF Messages!Step
<1>3. ASSUME NEW t \in Threads, NEW m \in Inputs, Messages!Receive(t, m) PROVE CommandsInv'
  BY <1>3, ReceiveKeepsCommands
<1>4. CASE Messages!SyncStart \/ Messages!SyncEnd
  BY <1>4, LocalKeepsCommands DEF Messages!SyncStart, Messages!SyncEnd
<1> QED
  BY <1>1, <1>2, <1>3, <1>4 DEF Messages!Next

-----------------------------------------------------------------------------
(* The search for a command *)

\* Induction, over a set of numbers.
LEMMA Induction ==
  ASSUME NEW T, 0 \in T, \A n \in Nat : n \in T => n + 1 \in T
  PROVE  Nat \subseteq T
<1>1. SUFFICES ASSUME Nat \ T # {} PROVE FALSE
  OBVIOUS
<1> DEFINE R == OpToRel(<, Nat)
<1>2. \E x \in Nat \ T : \A y \in Nat \ T : ~(<<y, x>> \in R)
  BY <1>1, NatLessThanWellFounded, WFMin, Zenon
<1>3. \A x \in Nat, y \in Nat : <<y, x>> \in R <=> y < x
  BY DEF OpToRel
<1>4. PICK x \in Nat \ T : \A y \in Nat \ T : ~(<<y, x>> \in R)
  BY <1>2
<1>5. \A y \in Nat \ T : ~(y < x)
  BY <1>3, <1>4
<1> QED
  BY <1>5

\* What the aliases mean, and how far a search that has seen some of it can still go.
Meanings == Messages!Range(Aliases)
Ahead(seen) == Cardinality(Meanings \ seen)

\* What a search finds for a name, as it is known for the names behind it.
Finds(f, name, seen) ==
  IF name \in DOMAIN commands THEN commands[name]
  ELSE IF name \notin DOMAIN aliases \/ aliases[name] \in seen THEN 0
  ELSE f[seen \cup {aliases[name]}][aliases[name]]

\* The aliases that the database was loaded with are finitely many, and mean names.
AliasesAreNames == IsFiniteSet(Meanings) /\ Meanings \subseteq STRING
\* Aliases are removed, and none is added.
AliasesOfDatabase == \A name \in DOMAIN aliases : aliases[name] \in Meanings

\* A step to an alias that was not seen leaves fewer.
LEMMA OneLess ==
  ASSUME AliasesAreNames, NEW seen \in SUBSET Meanings, NEW a \in Meanings, a \notin seen
  PROVE  /\ seen \cup {a} \in SUBSET Meanings
         /\ Ahead(seen) \in Nat /\ Ahead(seen \cup {a}) \in Nat
         /\ Ahead(seen) = Ahead(seen \cup {a}) + 1
<1> DEFINE Rest == Meanings \ (seen \cup {a})
<1>1. IsFiniteSet(Rest) /\ IsFiniteSet(Meanings \ seen)
  BY FS_Subset DEF AliasesAreNames
<1>2. Meanings \ seen = Rest \cup {a} /\ a \notin Rest
  OBVIOUS
<1> HIDE DEF Rest
<1>3. Cardinality(Meanings \ seen) = Cardinality(Rest) + 1
  BY <1>1, <1>2, FS_AddElement
<1>4. Cardinality(Meanings \ seen) \in Nat /\ Cardinality(Rest) \in Nat
  BY <1>1, FS_CardinalityType
<1> QED
  BY <1>3, <1>4 DEF Ahead, Rest

\* findCommand is a function: a chain of aliases has an end, or comes back to one that
\* it has seen.
LEMMA FindExists ==
  ASSUME AliasesAreNames, AliasesOfDatabase
  PROVE  \E f : f = [seen \in SUBSET Meanings |-> [name \in STRING |-> Finds(f, name, seen)]]
<1> DEFINE Good(f, n) == \A name \in STRING, seen \in SUBSET Meanings :
                           Ahead(seen) <= n => f[seen][name] = Finds(f, name, seen)
           T == {n \in Nat : \E f : Good(f, n)}
<1>0. ASSUME NEW f, NEW g, NEW n \in Nat, NEW name \in STRING, NEW seen \in SUBSET Meanings,
             Ahead(seen) <= n + 1,
             \A x \in STRING, s \in SUBSET Meanings : Ahead(s) <= n => f[s][x] = g[s][x]
      PROVE  Finds(f, name, seen) = Finds(g, name, seen)
  <2>1. ASSUME name \in DOMAIN aliases, aliases[name] \notin seen
        PROVE  f[seen \cup {aliases[name]}][aliases[name]]
                 = g[seen \cup {aliases[name]}][aliases[name]]
    <3> DEFINE a == aliases[name]
    <3>1. a \in Meanings /\ a \in STRING /\ a \notin seen
      BY <2>1 DEF AliasesOfDatabase, AliasesAreNames
    <3> HIDE DEF a
    <3>2. seen \cup {a} \in SUBSET Meanings /\ Ahead(seen \cup {a}) <= n
      <4>1. /\ seen \cup {a} \in SUBSET Meanings
            /\ Ahead(seen) \in Nat /\ Ahead(seen \cup {a}) \in Nat
            /\ Ahead(seen) = Ahead(seen \cup {a}) + 1
        BY <3>1, OneLess, Zenon
      <4> QED
        BY <1>0, <4>1
    <3>3. f[seen \cup {a}][a] = g[seen \cup {a}][a]
      BY <1>0, <3>1, <3>2
    <3> QED
      BY <3>3 DEF a
  <2> QED
    BY <2>1 DEF Finds
<1>1. Nat \subseteq T
  <2>1. 0 \in T
    <3> DEFINE f == [seen \in SUBSET Meanings |-> [name \in STRING |-> Finds(<<>>, name, seen)]]
    <3>1. ASSUME NEW name \in STRING, NEW seen \in SUBSET Meanings, Ahead(seen) <= 0
          PROVE  f[seen][name] = Finds(f, name, seen)
      <4>1. ASSUME NEW a \in Meanings, a \notin seen PROVE FALSE
        <5>1. /\ Ahead(seen) \in Nat /\ Ahead(seen \cup {a}) \in Nat
              /\ Ahead(seen) = Ahead(seen \cup {a}) + 1
          BY <4>1, OneLess, Zenon
        <5> QED
          BY <3>1, <5>1
      <4>2. f[seen][name] = Finds(<<>>, name, seen)
        OBVIOUS
      <4> HIDE DEF f
      <4>3. Finds(<<>>, name, seen) = Finds(f, name, seen)
        BY <4>1 DEF Finds, AliasesOfDatabase
      <4> QED
        BY <4>2, <4>3
    <3> HIDE DEF f
    <3>2. Good(f, 0)
      BY <3>1
    <3> QED
      BY <3>2
  <2>2. ASSUME NEW n \in Nat, n \in T PROVE n + 1 \in T
    <3>1. PICK f : Good(f, n)
      BY <2>2
    <3> DEFINE g == [seen \in SUBSET Meanings |-> [name \in STRING |->
                       IF Ahead(seen) <= n THEN f[seen][name] ELSE Finds(f, name, seen)]]
    <3>2. \A x \in STRING, s \in SUBSET Meanings : Ahead(s) <= n => f[s][x] = g[s][x]
      OBVIOUS
    <3>3. ASSUME NEW name \in STRING, NEW seen \in SUBSET Meanings, Ahead(seen) <= n + 1
          PROVE  g[seen][name] = Finds(g, name, seen)
      <4>1. g[seen][name] = IF Ahead(seen) <= n THEN f[seen][name] ELSE Finds(f, name, seen)
        OBVIOUS
      <4> HIDE DEF g
      <4>2. Finds(f, name, seen) = Finds(g, name, seen)
        BY <1>0, <3>2, <3>3
      <4> QED
        BY <3>1, <4>1, <4>2
    <3> HIDE DEF g
    <3>4. Good(g, n + 1)
      BY <3>3
    <3> HIDE DEF Good
    <3> QED
      BY <3>4
  <2> HIDE DEF T
  <2> QED
    BY <2>1, <2>2, Induction
<1> DEFINE N == Cardinality(Meanings)
<1>2. N \in Nat /\ \A seen \in SUBSET Meanings : Ahead(seen) <= N
  BY FS_Subset, FS_CardinalityType DEF AliasesAreNames, Ahead
<1>3. PICK f : Good(f, N)
  BY <1>1, <1>2
<1> DEFINE g == [seen \in SUBSET Meanings |-> [name \in STRING |-> f[seen][name]]]
<1>4. ASSUME NEW name \in STRING, NEW seen \in SUBSET Meanings
      PROVE  g[seen][name] = Finds(g, name, seen)
  <2>1. \A x \in STRING, s \in SUBSET Meanings : f[s][x] = g[s][x]
    OBVIOUS
  <2>2. Finds(f, name, seen) = Finds(g, name, seen)
    <3> HIDE DEF g
    <3>1. Ahead(seen) <= N + 1
      BY <1>2, FS_Subset, FS_CardinalityType DEF AliasesAreNames, Ahead
    <3> QED
      BY <1>0, <1>2, <2>1, <3>1
  <2> HIDE DEF g
  <2> QED
    BY <1>2, <1>3, <2>1, <2>2
<1>5. g = [seen \in SUBSET Meanings |-> [name \in STRING |-> Finds(g, name, seen)]]
  BY <1>4
<1> QED
  BY <1>5

\* What it finds is the object of a command, or nothing.
LEMMA FoundIsCommand ==
  ASSUME AliasesAreNames, AliasesOfDatabase, NEW name \in STRING
  PROVE  Messages!findCommand(name) \in {0} \cup {commands[c] : c \in DOMAIN commands}
<1> DEFINE f == Messages!Find
           Found == {0} \cup {commands[c] : c \in DOMAIN commands}
           Well(n) == \A x \in STRING, seen \in SUBSET Meanings :
                        Ahead(seen) <= n => f[seen][x] \in Found
           T == {n \in Nat : Well(n)}
<1>1. f = [seen \in SUBSET Meanings |-> [x \in STRING |-> Finds(f, x, seen)]]
  BY FindExists DEF Messages!Find, Finds, Meanings
<1>2. 0 \in Found /\ \A x \in DOMAIN commands : commands[x] \in Found
  OBVIOUS
<1> HIDE DEF f, Found
<1>3. ASSUME NEW x \in STRING, NEW seen \in SUBSET Meanings,
             x \in DOMAIN aliases /\ aliases[x] \notin seen
               => f[seen \cup {aliases[x]}][aliases[x]] \in Found
      PROVE  f[seen][x] \in Found
  <2>1. f[seen][x] = Finds(f, x, seen)
    BY <1>1
  <2> QED
    BY <1>2, <1>3, <2>1 DEF Finds
<1>4. Nat \subseteq T
  <2>1. Well(0)
    <3>1. ASSUME NEW x \in STRING, NEW seen \in SUBSET Meanings, Ahead(seen) <= 0
          PROVE  f[seen][x] \in Found
      <4>1. ASSUME NEW a \in Meanings, a \notin seen PROVE FALSE
        <5>1. /\ Ahead(seen) \in Nat /\ Ahead(seen \cup {a}) \in Nat
              /\ Ahead(seen) = Ahead(seen \cup {a}) + 1
          BY <4>1, OneLess, Zenon
        <5> QED
          BY <3>1, <5>1
      <4>2. ~(x \in DOMAIN aliases /\ aliases[x] \notin seen)
        BY <4>1 DEF AliasesOfDatabase
      <4> QED
        BY <1>3, <4>2
    <3> QED
      BY <3>1
  <2>2. ASSUME NEW n \in Nat, Well(n) PROVE Well(n + 1)
    <3>1. ASSUME NEW x \in STRING, NEW seen \in SUBSET Meanings, Ahead(seen) <= n + 1
          PROVE  f[seen][x] \in Found
      <4>1. ASSUME x \in DOMAIN aliases, aliases[x] \notin seen
            PROVE  f[seen \cup {aliases[x]}][aliases[x]] \in Found
        <5> DEFINE a == aliases[x]
        <5>1. a \in Meanings /\ a \in STRING /\ a \notin seen
          BY <4>1 DEF AliasesOfDatabase, AliasesAreNames
        <5> HIDE DEF a
        <5>2. seen \cup {a} \in SUBSET Meanings /\ Ahead(seen \cup {a}) <= n
          <6>1. /\ seen \cup {a} \in SUBSET Meanings
                /\ Ahead(seen) \in Nat /\ Ahead(seen \cup {a}) \in Nat
                /\ Ahead(seen) = Ahead(seen \cup {a}) + 1
            BY <5>1, OneLess, Zenon
          <6> QED
            BY <3>1, <6>1
        <5>3. f[seen \cup {a}][a] \in Found
          BY <2>2, <5>1, <5>2
        <5> QED
          BY <5>3 DEF a
      <4> QED
        BY <1>3, <4>1
    <3> QED
      BY <3>1
  <2> HIDE DEF Well
  <2>3. 0 \in T /\ \A n \in Nat : n \in T => n + 1 \in T
    BY <2>1, <2>2
  <2> HIDE DEF T
  <2> QED
    BY <2>3, Induction
<1>5. {} \in SUBSET Meanings /\ Ahead({}) \in Nat
  BY FS_Subset, FS_CardinalityType DEF AliasesAreNames, Ahead
<1>6. Well(Ahead({}))
  <2> HIDE DEF Well
  <2> QED
    BY <1>4, <1>5
<1>7. f[{}][name] \in Found
  <2>1. Ahead({}) <= Ahead({})
    BY <1>5
  <2> QED
    BY <1>5, <1>6, <2>1, Zenon
<1> QED
  BY <1>7 DEF Messages!findCommand, f, Found

-----------------------------------------------------------------------------
(* The types of the commands *)

\* What is sent to the bot: users, and stages made of words.
Stages == UNION {Messages!Range(m.stages) : m \in Inputs}
Sent == [user : {m.user : m \in Inputs} \cup {""}, stages : Seq(Stages)]

InputsAreWords == /\ Inputs \subseteq Sent
                  /\ \A s \in Stages : s.cmd \in STRING /\ s.arg \in STRING

\* A thread that is at a stage has one.
Staged ==
  /\ DOMAIN pc = Threads /\ msg \in [Threads -> Sent]
  /\ \A t \in Threads : pc[t] \notin {"idle", "creds", "handlers"} => msg[t].stages # <<>>

\* No message is one.
LEMMA NothingIsSent == Messages!NoMessage \in Sent /\ Messages!NoMessage.stages = <<>>
BY DEF Messages!NoMessage, Sent

\* Each object has a kind, permissions and a body.
Objects == /\ kind \in Seq({"macro", "function"})
           /\ (\E A : perms \in Seq(A)) /\ (\E A : body \in Seq(A))
           /\ Len(perms) = Len(kind) /\ Len(body) = Len(kind) /\ live \subseteq 1..Len(kind)

\* Each name is the owner of its object, which is there.
Owned == /\ \A x \in DOMAIN commands : commands[x] \in live
         /\ \A x, y \in DOMAIN commands : commands[x] = commands[y] => x = y

\* What a thread found, and what it checked, was made; 0 is nothing, and eval.
Known == \A t \in Threads : command[t] \in 0..Len(kind) /\ checked[t] \subseteq 0..Len(kind)

\* Whoever holds the lock is a thread.
Others == writer \in Threads \cup {Messages!Free} /\ stopped \in {"", "undefined", "aborted"}

\* All of this is kept, and has the types follow.
Typed == Staged /\ Objects /\ Owned /\ Known /\ AliasesOfDatabase /\ Others

\* Nothing is there at first but the aliases.
LEMMA InitTyped == Messages!Init => Typed
<1> SUFFICES ASSUME Messages!Init PROVE Typed
  OBVIOUS
<1>1. Staged
  BY NothingIsSent DEF Messages!Init, Staged
<1>2. /\ kind = <<>> /\ perms = <<>> /\ body = <<>> /\ live = {} /\ commands = <<>>
      /\ \A t \in Threads : command[t] = 0 /\ checked[t] = {}
  BY DEF Messages!Init
<1>3. Objects /\ Owned /\ Known
  BY <1>2 DEF Objects, Owned, Known
<1>4. AliasesOfDatabase /\ Others
  BY DEF Messages!Init, AliasesOfDatabase, Others, Meanings, Messages!Range
<1> QED
  BY <1>1, <1>3, <1>4 DEF Typed

\* The type invariant is about the same objects.
LEMMA TypedIsTypeOK == Typed => Messages!TypeOK
<1> SUFFICES ASSUME Typed PROVE Messages!TypeOK
  OBVIOUS
<1>1. /\ DOMAIN kind = 1..Len(kind) /\ DOMAIN perms = 1..Len(kind)
      /\ DOMAIN body = 1..Len(kind)
  BY DEF Typed, Objects
<1>2. DOMAIN perms = DOMAIN kind /\ DOMAIN body = DOMAIN kind /\ live \subseteq DOMAIN kind
  BY <1>1 DEF Typed, Objects
<1>3. Messages!Range(commands) \subseteq live
  BY DEF Messages!Range, Typed, Owned
<1>4. \A t \in Threads : command[t] \in 0..Len(kind) /\ checked[t] \subseteq 0..Len(kind)
  BY DEF Typed, Known
<1> QED
  BY <1>2, <1>3, <1>4 DEF Messages!TypeOK, Typed, Others

\* The stage that a thread is at is made of words.
LEMMA StageIsWords ==
  ASSUME Typed, InputsAreWords, NEW t \in Threads,
         pc[t] \notin {"idle", "creds", "handlers"}
  PROVE  Messages!Stage(t).cmd \in STRING /\ Messages!Target(t) \in STRING
<1>1. msg[t].stages \in Seq(Stages) /\ msg[t].stages # <<>>
  BY DEF Typed, Staged, Sent
<1>2. Messages!Stage(t) \in Stages
  BY <1>1 DEF Messages!Stage
<1> QED
  BY <1>2 DEF InputsAreWords, Messages!Target

\* What a search finds is nothing, or an object that is there.
LEMMA FoundIsThere ==
  ASSUME Typed, AliasesAreNames, NEW name \in STRING
  PROVE  Messages!findCommand(name) \in {0} \cup live /\ Messages!findCommand(name) \in 0..Len(kind)
<1>1. Messages!findCommand(name) \in {0} \cup {commands[c] : c \in DOMAIN commands}
  BY FoundIsCommand DEF Typed
<1>2. Messages!findCommand(name) \in {0} \cup live
  BY <1>1 DEF Typed, Owned
<1>3. live \subseteq 1..Len(kind) /\ Len(kind) \in Nat
  BY DEF Typed, Objects
<1>4. {0} \cup live \subseteq 0..Len(kind)
  BY <1>3
<1> QED
  BY <1>2, <1>4, Zenon

\* How a step leaves the message of its thread: as it is, one stage shorter, gone, or
\* new.
LEMMA StagedStays ==
  ASSUME Typed, InputsAreWords, [Messages!Next]_(Messages!vars)
  PROVE  Staged'
<1> DEFINE Elsewhere == {"idle", "creds", "handlers"}
           Goes(t) == /\ msg' = msg
                      /\ pc[t] \notin Elsewhere
                      /\ \E place : pc' = [pc EXCEPT ![t] = place]
<1>0. Staged
  BY DEF Typed
<1>1. ASSUME UNCHANGED <<pc, msg>> PROVE Staged'
  BY <1>0, <1>1 DEF Staged
<1>2. ASSUME NEW t \in Threads, Goes(t) PROVE Staged'
  <2>1. pc[t] \notin Elsewhere => msg[t].stages # <<>>
    BY <1>0 DEF Staged
  <2>2. DOMAIN pc' = Threads /\ \A u \in Threads : u # t => pc'[u] = pc[u]
    BY <1>0, <1>2 DEF Staged
  <2> QED
    BY <1>0, <1>2, <2>1, <2>2 DEF Staged
<1>3. ASSUME NEW t \in Threads, NEW m \in Sent, NEW place,
             place \notin Elsewhere => m.stages # <<>>,
             msg' = [msg EXCEPT ![t] = m], pc' = [pc EXCEPT ![t] = place]
      PROVE  Staged'
  <2>1. /\ DOMAIN pc' = Threads /\ msg' \in [Threads -> Sent] /\ msg'[t] = m /\ pc'[t] = place
        /\ \A u \in Threads : u # t => pc'[u] = pc[u] /\ msg'[u] = msg[u]
    BY <1>0, <1>3 DEF Staged
  <2> QED
    BY <1>0, <1>3, <2>1 DEF Staged
<1>4. ASSUME NEW t \in Threads, Messages!EndStage(t) PROVE Staged'
  <2> DEFINE old == msg[t]
             later == Tail(old.stages)
             m == [user |-> old.user, stages |-> later]
  <2>1. old \in Sent
    BY <1>0 DEF Staged
  <2>5. msg' = [msg EXCEPT ![t] = IF Len(old.stages) > 1 THEN m ELSE Messages!NoMessage]
    BY <1>4 DEF Messages!EndStage
  <2>2. /\ msg' = [msg EXCEPT ![t] = IF Len(old.stages) > 1 THEN m ELSE Messages!NoMessage]
        /\ pc' = [pc EXCEPT ![t] = IF Len(old.stages) > 1 THEN "find" ELSE "idle"]
    BY <1>4, <2>5 DEF Messages!EndStage, Messages!Goto
  <2> HIDE DEF old
  <2>3. CASE Len(old.stages) > 1
    <3>0. old.stages \in Seq(Stages)
      BY <2>1 DEF Sent
    <3> DEFINE s == old.stages
    <3>4. s \in Seq(Stages) /\ Len(s) > 1
      BY <2>3, <3>0
    <3> HIDE DEF s
    <3>5. Tail(s) \in Seq(Stages) /\ Len(Tail(s)) = Len(s) - 1 /\ Len(s) \in Nat
      BY <3>4
    <3>6. Tail(s) # <<>>
      <4> DEFINE q == Tail(s)
      <4>1. Len(q) > 0
        BY <3>4, <3>5
      <4> HIDE DEF q
      <4>2. q # <<>>
        BY <4>1
      <4> QED
        BY <4>2 DEF q
    <3>2. later \in Seq(Stages) /\ later # <<>>
      BY <3>5, <3>6 DEF s
    <3> HIDE DEF later
    <3>1. m \in Sent /\ m.stages # <<>>
      BY <2>1, <3>2 DEF Sent
    <3>3. msg' = [msg EXCEPT ![t] = m] /\ pc' = [pc EXCEPT ![t] = "find"]
      BY <2>2, <2>3
    <3> HIDE DEF m
    <3> QED
      BY <1>3, <3>1, <3>3
  <2>4. CASE ~ (Len(old.stages) > 1)
    <3>1. msg' = [msg EXCEPT ![t] = Messages!NoMessage] /\ pc' = [pc EXCEPT ![t] = "idle"]
      BY <2>2, <2>4
    <3> QED
      BY <1>3, <3>1, NothingIsSent
  <2> QED
    BY <2>3, <2>4
<1>5. ASSUME NEW t \in Threads, NEW m \in Inputs, Messages!Receive(t, m) PROVE Staged'
  <2>1. m \in Sent
    BY DEF InputsAreWords
  <2>2. /\ msg' = [msg EXCEPT ![t] = m]
        /\ pc' = [pc EXCEPT ![t] = "creds"]
    BY <1>5 DEF Messages!Receive, Messages!Goto
  <2> QED
    BY <1>3, <2>1, <2>2
<1>6. ASSUME NEW t \in Threads, Messages!RunHandlers(t) PROVE Staged'
  <2>1. CASE Messages!Undefined
    BY <1>1, <2>1 DEF Messages!Undefined, Messages!Stop, Messages!local
  <2>2. CASE Messages!Goto(t, "idle") /\ msg' = [msg EXCEPT ![t] = Messages!NoMessage]
    BY <1>3, <2>2, NothingIsSent DEF Messages!Goto
  <2> QED
    BY <1>6, <2>1, <2>2 DEF Messages!RunHandlers
<1>9. ASSUME NEW t \in Threads, Messages!Creds(t) PROVE Staged'
  <2>1. /\ DOMAIN pc' = Threads /\ msg' = msg
        /\ pc'[t] = IF msg[t].stages = <<>> THEN "handlers" ELSE "find"
        /\ \A u \in Threads : u # t => pc'[u] = pc[u]
    BY <1>0, <1>9 DEF Staged, Messages!Creds, Messages!Goto
  <2> QED
    BY <1>0, <2>1 DEF Staged
<1>7. ASSUME NEW t \in Threads, Messages!Step(t), ~Messages!RunHandlers(t), ~Messages!Creds(t)
      PROVE  UNCHANGED <<pc, msg>> \/ Goes(t) \/ Messages!EndStage(t)
  <2> USE DEF Messages!At, Messages!Goto
  <2>1. CASE Messages!FindStage(t)
    BY <2>1 DEF Messages!FindStage
  <2>2. CASE Messages!CheckStage(t)
    BY <2>2 DEF Messages!CheckStage, Messages!Undefined, Messages!Stop, Messages!local
  <2>3. CASE Messages!Expand(t)
    BY <2>3 DEF Messages!Expand
  <2>4. CASE Messages!Run(t) \/ Messages!ChangeTarget(t)
    BY <2>4 DEF Messages!Run, Messages!ChangeTarget, Messages!Undefined, Messages!Stop,
       Messages!local
  <2>5. CASE Messages!Builtin(t)
    BY <2>5 DEF Messages!Builtin
  <2>6. CASE Messages!DefFind(t)
    BY <2>6 DEF Messages!DefFind
  <2>7. CASE Messages!FindTarget(t)
    BY <2>7 DEF Messages!FindTarget
  <2>8. CASE Messages!ChmodBuiltin(t)
    BY <2>8 DEF Messages!ChmodBuiltin
  <2>9. CASE Messages!UndefCommand(t)
    BY <2>9 DEF Messages!UndefCommand
  <2>10. CASE \/ Messages!DefEmplace(t) \/ Messages!ChmodParse(t) \/ Messages!ChangeGlobal(t)
              \/ Messages!Eval(t) \/ Messages!Showmod(t)
    BY <2>10 DEF Messages!DefEmplace, Messages!ChmodParse, Messages!ChangeGlobal, Messages!Eval,
       Messages!Showmod, Messages!Stop, Messages!local
  <2> QED
    BY <1>7, <2>1, <2>2, <2>3, <2>4, <2>5, <2>6, <2>7, <2>8, <2>9, <2>10 DEF Messages!Step
<1>8. CASE UNCHANGED Messages!vars \/ Messages!SyncStart \/ Messages!SyncEnd
  BY <1>1, <1>8 DEF Messages!vars, Messages!local, Messages!SyncStart, Messages!SyncEnd
<1> QED
  BY <1>1, <1>2, <1>4, <1>5, <1>6, <1>7, <1>8, <1>9 DEF Messages!Next

\* A sequence with one element changed is one of the same length.
LEMMA OneChanged ==
  ASSUME NEW s, NEW i, NEW r, \E A : s \in Seq(A), \E v : r = [s EXCEPT ![i] = v]
  PROVE  (\E A : r \in Seq(A)) /\ Len(r) = Len(s)
<1>1. PICK v : r = [s EXCEPT ![i] = v]
  OBVIOUS
<1>2. PICK A : s \in Seq(A)
  OBVIOUS
<1>3. s \in Seq(A \cup {v})
  BY <1>2
<1> DEFINE B == A \cup {v}
<1>4. s \in Seq(B) /\ v \in B
  BY <1>3
<1> HIDE DEF B
<1>5. s \in [1..Len(s) -> B] /\ Len(s) \in Nat
  BY <1>4
<1>6. r \in [1..Len(s) -> B]
  BY <1>1, <1>4, <1>5
<1>7. r \in Seq(B) /\ Len(r) = Len(s)
  BY <1>5, <1>6
<1> QED
  BY <1>7

\* What defines, changes and removes commands leaves each name the only owner of its
\* object.
LEMMA TablesStay ==
  ASSUME Typed, [Messages!Next]_(Messages!vars)
  PROVE  Objects' /\ Owned' /\ AliasesOfDatabase' /\ Len(kind) \in Nat /\ Len(kind') \in Nat
         /\ Len(kind) <= Len(kind')
<1> DEFINE Tables == <<commands, aliases, kind, perms, body, live>>
           Goal == /\ Objects' /\ Owned' /\ AliasesOfDatabase' /\ Len(kind') \in Nat
                   /\ Len(kind) <= Len(kind')
<1>0. Objects /\ Owned /\ AliasesOfDatabase /\ Len(kind) \in Nat
  BY DEF Typed, Objects
<1>1. ASSUME UNCHANGED Tables PROVE Goal
  BY <1>0, <1>1 DEF Objects, Owned, AliasesOfDatabase
<1>2. ASSUME NEW t \in Threads, Messages!DefEmplace(t) PROVE Goal
  <2>1. /\ kind' = Append(kind, Messages!New(t).kind)
        /\ perms' = Append(perms, Messages!New(t).perms)
        /\ body' = Append(body, Messages!Stage(t).expr)
        /\ live' = live \cup {Len(kind')} /\ aliases' = aliases
        /\ commands' = IF Messages!Target(t) \in DOMAIN commands THEN commands
                       ELSE Messages!Put(commands, Messages!Target(t), Len(kind'))
    BY <1>2 DEF Messages!DefEmplace
  <2>2. Messages!New(t).kind \in {"macro", "function"}
    BY DEF Messages!New
  <2>3. kind' \in Seq({"macro", "function"}) /\ Len(kind') = Len(kind) + 1
    BY <1>0, <2>1, <2>2 DEF Objects
  <2>4. (\E A : perms' \in Seq(A)) /\ Len(perms') = Len(perms) + 1
    <3>1. PICK A : perms \in Seq(A)
      BY <1>0 DEF Objects
    <3> DEFINE p == Messages!New(t).perms
    <3> HIDE DEF p
    <3>2. perms \in Seq(A \cup {p})
      BY <3>1
    <3>3. Append(perms, p) \in Seq(A \cup {p}) /\ Len(Append(perms, p)) = Len(perms) + 1
      BY <3>2
    <3> QED
      BY <2>1, <3>3 DEF p
  <2>10. (\E A : body' \in Seq(A)) /\ Len(body') = Len(body) + 1
    <3>1. PICK A : body \in Seq(A)
      BY <1>0 DEF Objects
    <3> DEFINE b == Messages!Stage(t).expr
    <3> HIDE DEF b
    <3>2. body \in Seq(A \cup {b})
      BY <3>1
    <3>3. Append(body, b) \in Seq(A \cup {b}) /\ Len(Append(body, b)) = Len(body) + 1
      BY <3>2
    <3> QED
      BY <2>1, <3>3 DEF b
  <2>8. live' \subseteq 1..Len(kind')
    <3> DEFINE n == Len(kind)
    <3>1. Len(kind') = n + 1 /\ n \in Nat /\ live \subseteq 1..n
      BY <1>0, <2>3 DEF Objects
    <3>2. live' = live \cup {n + 1}
      BY <2>1, <2>3
    <3> HIDE DEF n
    <3>3. live \cup {n + 1} \subseteq 1..(n + 1)
      BY <3>1
    <3> QED
      BY <3>1, <3>2, <3>3
  <2>9. Len(perms') = Len(kind') /\ Len(body') = Len(kind')
    BY <1>0, <2>3, <2>4, <2>10 DEF Objects
  <2>5. Objects'
    BY <2>3, <2>4, <2>8, <2>9, <2>10 DEF Objects
  <2>6. Owned'
    <3>1. Len(kind') \notin live
      BY <1>0, <2>3 DEF Objects
    <3>2. CASE Messages!Target(t) \in DOMAIN commands
      BY <1>0, <2>1, <3>2 DEF Owned
    <3>3. CASE Messages!Target(t) \notin DOMAIN commands
      <4> DEFINE a == Messages!Target(t)
                 n == Len(kind')
      <4>1. /\ DOMAIN commands' = DOMAIN commands \cup {a}
            /\ commands'[a] = n /\ \A x \in DOMAIN commands : commands'[x] = commands[x]
        BY <2>1, <3>3 DEF Messages!Put
      <4>2. live' = live \cup {n} /\ n \notin live
        BY <2>1, <3>1
      <4> HIDE DEF a, n
      <4> QED
        BY <1>0, <4>1, <4>2 DEF Owned
    <3> QED
      BY <3>2, <3>3
  <2>7. AliasesOfDatabase'
    BY <1>0, <2>1 DEF AliasesOfDatabase
  <2> QED
    BY <1>0, <2>3, <2>5, <2>6, <2>7
<1>3. ASSUME NEW t \in Threads, Messages!ChangeTarget(t) PROVE Goal
  <2>1. CASE Messages!Undefined
    BY <1>1, <2>1 DEF Messages!Undefined, Messages!Stop, Messages!shared
  <2>2. CASE UNCHANGED <<commands, aliases, kind, live>>
             /\ (\E v : perms' = [perms EXCEPT ![command[t]] = v])
             /\ (\E v : body' = [body EXCEPT ![command[t]] = v])
    <3>1. (\E A : perms' \in Seq(A)) /\ Len(perms') = Len(perms)
      BY <1>0, <2>2, OneChanged DEF Objects
    <3>2. (\E A : body' \in Seq(A)) /\ Len(body') = Len(body)
      BY <1>0, <2>2, OneChanged DEF Objects
    <3>3. Objects'
      BY <1>0, <2>2, <3>1, <3>2 DEF Objects
    <3> QED
      BY <1>0, <2>2, <3>3 DEF Owned, AliasesOfDatabase
  <2> QED
    BY <1>3, <2>1, <2>2 DEF Messages!ChangeTarget
<1>4. ASSUME NEW t \in Threads, Messages!UndefCommand(t) PROVE Goal
  <2>0. kind' = kind /\ perms' = perms /\ body' = body
    BY <1>4 DEF Messages!UndefCommand
  <2>1. CASE Messages!Target(t) \in DOMAIN commands
    <3> DEFINE a == Messages!Target(t)
    <3>1. /\ live' = live \ {commands[a]} /\ aliases' = aliases
          /\ DOMAIN commands' = DOMAIN commands \ {a}
          /\ \A x \in DOMAIN commands \ {a} : commands'[x] = commands[x]
      BY <1>4, <2>1 DEF Messages!UndefCommand, Messages!Without, Messages!Restrict
    <3>2. a \in DOMAIN commands
      BY <2>1
    <3> HIDE DEF a
    <3>3. Owned'
      BY <1>0, <3>1, <3>2 DEF Owned
    <3>4. Objects' /\ AliasesOfDatabase'
      BY <1>0, <2>0, <3>1 DEF Objects, AliasesOfDatabase
    <3> QED
      BY <1>0, <2>0, <3>3, <3>4
  <2>2. CASE Messages!Target(t) \notin DOMAIN commands
    <3>1. /\ live' = live /\ commands' = commands
          /\ DOMAIN aliases' = DOMAIN aliases \ {Messages!Target(t)}
          /\ \A x \in DOMAIN aliases' : aliases'[x] = aliases[x]
      BY <1>4, <2>2 DEF Messages!UndefCommand, Messages!Without, Messages!Restrict
    <3>2. AliasesOfDatabase'
      BY <1>0, <3>1 DEF AliasesOfDatabase
    <3>3. Objects' /\ Owned'
      BY <1>0, <2>0, <3>1 DEF Objects, Owned
    <3> QED
      BY <1>0, <2>0, <3>2, <3>3
  <2> QED
    BY <2>1, <2>2
<1>5. ASSUME NEW t \in Threads, Messages!Step(t),
             ~Messages!DefEmplace(t), ~Messages!ChangeTarget(t), ~Messages!UndefCommand(t)
      PROVE  UNCHANGED Tables
  <2>1. \/ UNCHANGED Messages!shared \/ UNCHANGED Messages!unexpressed
        \/ Messages!RunHandlers(t) \/ Messages!ChmodParse(t) \/ Messages!ChangeGlobal(t)
    BY <1>5 DEF Messages!Step, Messages!Creds, Messages!FindStage, Messages!CheckStage,
       Messages!Expand, Messages!Run, Messages!Builtin, Messages!DefFind, Messages!FindTarget,
       Messages!ChmodBuiltin, Messages!Eval, Messages!Showmod, Messages!Undefined, Messages!Stop
  <2> QED
    BY <2>1 DEF Messages!shared, Messages!unexpressed, Messages!RunHandlers,
       Messages!ChmodParse, Messages!ChangeGlobal, Messages!Undefined, Messages!Stop
<1>6. CASE \/ UNCHANGED Messages!vars \/ Messages!SyncStart \/ Messages!SyncEnd
           \/ \E t \in Threads, m \in Inputs : Messages!Receive(t, m)
  <2>1. UNCHANGED Tables
    BY <1>6 DEF Messages!vars, Messages!shared, Messages!SyncStart, Messages!SyncEnd,
       Messages!Receive
  <2> QED
    BY <1>1, <2>1
<1> QED
  BY <1>0, <1>1, <1>2, <1>3, <1>4, <1>5, <1>6 DEF Messages!Next

\* What a thread goes on with is what it had, nothing, or what it found, and what it
\* checks is there.
LEMMA KnownStays ==
  ASSUME CommandsInv, Typed, InputsAreWords, AliasesAreNames, [Messages!Next]_(Messages!vars)
  PROVE  Known'
<1> DEFINE N == Len(kind)
           Seeks(t) == command' = command \/ \E c \in 0..N : command' = [command EXCEPT ![t] = c]
           Checks(t) == \/ checked' = checked
                        \/ \E s \in SUBSET (0..N) : checked' = [checked EXCEPT ![t] = s]
<1>0. /\ N \in Nat /\ Len(kind') \in Nat /\ N <= Len(kind')
      /\ DOMAIN command = Threads /\ DOMAIN checked = Threads
  BY TablesStay DEF CommandsInv, Functional
<1>7. \A t \in Threads : command[t] \in 0..N /\ checked[t] \subseteq 0..N
  BY DEF Typed, Known
<1>8. 0..N \subseteq 0..Len(kind') /\ 0 \in 0..N
  BY <1>0
<1> HIDE DEF N
<1>1. ASSUME NEW t \in Threads, Seeks(t), Checks(t) PROVE Known'
  <2>1. \A u \in Threads : command'[u] \in 0..N
    BY <1>0, <1>7, <1>1
  <2>2. \A u \in Threads : checked'[u] \in SUBSET (0..N)
    BY <1>0, <1>7, <1>1
  <2> QED
    BY <1>8, <2>1, <2>2 DEF Known
<1>2. ASSUME UNCHANGED <<command, checked>> PROVE Known'
  BY <1>7, <1>8, <1>2 DEF Known
<1>3. ASSUME NEW t \in Threads, Messages!EndStage(t) PROVE Seeks(t)
  BY <1>3, <1>8 DEF Messages!EndStage
<1>4. ASSUME NEW t \in Threads, Messages!Step(t) PROVE Seeks(t) /\ Checks(t)
  <2> USE DEF Messages!At
  <2>1. CASE Messages!FindStage(t)
    <3>1. Messages!findCommand(Messages!Stage(t).cmd) \in 0..N
      BY <2>1, StageIsWords, FoundIsThere DEF Messages!FindStage, N
    <3> QED
      BY <2>1, <3>1 DEF Messages!FindStage
  <2>2. CASE Messages!FindTarget(t)
    <3>1. Messages!findCommand(Messages!Target(t)) \in 0..N
      BY <2>2, StageIsWords, FoundIsThere DEF Messages!FindTarget, N
    <3> QED
      BY <1>3, <2>2, <3>1 DEF Messages!FindTarget
  <2>3. CASE Messages!CheckStage(t)
    <3>1. CASE Messages!Undefined
      BY <3>1 DEF Messages!Undefined, Messages!Stop, Messages!local
    <3>2. CASE Messages!EndStage(t) /\ UNCHANGED checked
      BY <1>3, <3>2
    <3>3. CASE command' = command /\ checked' = [checked EXCEPT ![t] = @ \cup {command[t]}]
      <4>1. checked[t] \cup {command[t]} \in SUBSET (0..N)
        BY <1>7
      <4> QED
        BY <3>3, <4>1
    <3> QED
      BY <2>3, <3>1, <3>2, <3>3 DEF Messages!CheckStage
  <2>4. CASE \/ Messages!Run(t) \/ Messages!ChangeTarget(t) \/ Messages!RunHandlers(t)
             \/ Messages!Showmod(t)
    BY <1>3, <2>4 DEF Messages!Run, Messages!ChangeTarget, Messages!RunHandlers,
       Messages!Showmod, Messages!Undefined, Messages!Stop, Messages!local
  <2>6. CASE Messages!Builtin(t)
    <3>1. CASE Messages!EndStage(t) /\ UNCHANGED checked
      BY <1>3, <3>1
    <3> DEFINE s == IF Messages!Stage(t).cmd = "eval" THEN checked[t] \cup {0} ELSE checked[t]
    <3>2. CASE command' = command /\ checked' = [checked EXCEPT ![t] = s]
      <4>1. s \in SUBSET (0..N)
        BY <1>7, <1>8
      <4> QED
        BY <3>2, <4>1
    <3> QED
      BY <2>6, <3>1, <3>2 DEF Messages!Builtin
  <2>5. CASE \/ Messages!Expand(t) \/ Messages!Creds(t) \/ Messages!DefFind(t)
             \/ Messages!DefEmplace(t) \/ Messages!ChmodBuiltin(t)
             \/ Messages!ChmodParse(t) \/ Messages!UndefCommand(t)
             \/ Messages!ChangeGlobal(t) \/ Messages!Eval(t)
    BY <1>3, <2>5 DEF Messages!Expand, Messages!Creds, Messages!DefFind, Messages!DefEmplace,
       Messages!ChmodBuiltin, Messages!ChmodParse, Messages!UndefCommand, Messages!ChangeGlobal,
       Messages!Eval
  <2> QED
    BY <1>4, <2>1, <2>2, <2>3, <2>4, <2>5, <2>6 DEF Messages!Step
<1>5. ASSUME NEW t \in Threads, NEW m \in Inputs, Messages!Receive(t, m) PROVE Seeks(t) /\ Checks(t)
  BY <1>5 DEF Messages!Receive
<1>6. CASE UNCHANGED Messages!vars \/ Messages!SyncStart \/ Messages!SyncEnd
  BY <1>2, <1>6 DEF Messages!vars, Messages!local, Messages!SyncStart, Messages!SyncEnd
<1> QED
  BY <1>1, <1>4, <1>5, <1>6 DEF Messages!Next

\* The lock goes from thread to thread.
LEMMA OthersStay ==
  ASSUME Typed, [Messages!Next]_(Messages!vars)
  PROVE  Others'
<1>1. writer' = writer \/ writer' = Messages!Free \/ \E t \in Threads : writer' = t
  BY DEF Messages!Next, Messages!Step, Messages!vars, Messages!rest, Messages!SyncStart,
     Messages!SyncEnd, Messages!Receive, Messages!Creds, Messages!RunHandlers, Messages!FindStage,
     Messages!CheckStage, Messages!Expand, Messages!Run, Messages!Builtin, Messages!DefFind,
     Messages!DefEmplace, Messages!FindTarget, Messages!ChangeTarget, Messages!ChmodBuiltin,
     Messages!ChmodParse, Messages!UndefCommand, Messages!ChangeGlobal, Messages!Eval,
     Messages!Showmod, Messages!Undefined, Messages!Stop, Messages!locksAndCounts
<1>2. stopped' = stopped \/ stopped' = "undefined" \/ stopped' = "aborted"
  BY DEF Messages!Next, Messages!Step, Messages!vars, Messages!rest, Messages!SyncStart,
     Messages!SyncEnd, Messages!Receive, Messages!Creds, Messages!RunHandlers, Messages!FindStage,
     Messages!CheckStage, Messages!Expand, Messages!Run, Messages!Builtin, Messages!DefFind,
     Messages!DefEmplace, Messages!FindTarget, Messages!ChangeTarget, Messages!ChmodBuiltin,
     Messages!ChmodParse, Messages!UndefCommand, Messages!ChangeGlobal, Messages!Eval,
     Messages!Showmod, Messages!Undefined, Messages!Stop, Messages!locksAndCounts
<1> QED
  BY <1>1, <1>2 DEF Typed, Others

-----------------------------------------------------------------------------
(* The sockets *)

SocketsBound == MaxSockets \in Nat

\* The thread that could be joined is that of the current socket.  The user has
\* none while he connects or waits for a job, and not either once the connection
\* was dropped by a CLOSE frame; from the moment there was one, the socket lives
\* as long as the thread is attached.
ThreadIsOfSocket ==
  /\ thread \in {0, socket}
  /\ user \in {"connect", "tcp", "waiting"} => thread = 0
  /\ user \in {"upgrade", "up"} /\ ~is_connected => thread = 0
  /\ user \notin {"connect", "tcp"} /\ thread = 0 => socket = 0
  /\ user = "tcp" => socket # 0

\* A receiver is started for a socket that was made and has connected: one that
\* is still connecting, or has failed to, has none.
StartedWhenConnected ==
  /\ closed \subseteq 1..made /\ (user = "tcp" => socket \notin closed)
  /\ \A r \in Sockets!Ids : receiver[r] # "none" => r <= made
  /\ user = "tcp" \/ socket \in closed => \A r \in Sockets!Ids : r = socket
       => receiver[r] = "none"

\* What a receiver tested and is about to read, or reads, is open if it is its own.
ReadsOpen ==
  \A r \in Sockets!Ids : receiver[r] \in {"call", "recv"} /\ on[r] = r => r \notin closed

SocketsInv ==
  /\ SocketsBound /\ Sockets!TypeOK /\ Sockets!EachSocketOwnedOnce
  /\ ThreadIsOfSocket /\ StartedWhenConnected /\ ReadsOpen

-----------------------------------------------------------------------------
\* It holds when nobody has connected.
LEMMA InitSockets == SocketsBound /\ Sockets!Init => SocketsInv
<1> SUFFICES ASSUME SocketsBound, Sockets!Init PROVE SocketsInv
  OBVIOUS
<1> USE DEF Sockets!Init, SocketsBound
<1>1. Sockets!TypeOK
  <2>0. is_connected \in BOOLEAN /\ aborted \in BOOLEAN
    OBVIOUS
  <2>1. socket \in 0..MaxSockets /\ thread \in 0..MaxSockets /\ made \in 0..MaxSockets
    OBVIOUS
  <2>2. receiver \in [Sockets!Ids -> Sockets!ReceiverPlaces]
        /\ on \in [Sockets!Ids -> 0..MaxSockets]
    BY DEF Sockets!ReceiverPlaces
  <2>3. /\ handler \in {"none", "upgrade", "frames", "closing"} /\ user \in Sockets!UserPlaces
        /\ awaits \in [0..MaxSockets -> 0..MaxSockets]
    BY DEF Sockets!UserPlaces
  <2> QED
    BY <2>0, <2>1, <2>2, <2>3 DEF Sockets!TypeOK
<1>2. Sockets!EachSocketOwnedOnce
  BY DEF Sockets!EachSocketOwnedOnce
<1>3. ThreadIsOfSocket /\ StartedWhenConnected /\ ReadsOpen
  BY DEF ThreadIsOfSocket, StartedWhenConnected, ReadsOpen
<1> QED
  BY <1>1, <1>2, <1>3 DEF SocketsInv

\* What the sets of TypeOK and EachSocketOwnedOnce say of numbers.
LEMMA SocketNumbers ==
  ASSUME SocketsInv
  PROVE  /\ MaxSockets \in Nat /\ made \in Nat /\ made <= MaxSockets
         /\ socket \in Nat /\ socket <= made /\ thread \in Nat /\ thread <= made
         /\ \A n \in limbo \cup deleted \cup closed : n \in Nat /\ 1 <= n /\ n <= made
<1>1. MaxSockets \in Nat /\ made \in 0..MaxSockets
  BY DEF SocketsInv, SocketsBound, Sockets!TypeOK
<1>2. socket # 0 => socket \in 1..made
  BY DEF SocketsInv, Sockets!EachSocketOwnedOnce
<1>3. thread \in {0, socket}
  BY DEF SocketsInv, ThreadIsOfSocket
<1>4. limbo \cup deleted \cup closed \subseteq 1..made
  BY DEF SocketsInv, Sockets!EachSocketOwnedOnce, StartedWhenConnected
<1> QED
  BY <1>1, <1>2, <1>3, <1>4

\* A failed assertion changes nothing else.
LEMMA AbortKeepsSockets == SocketsInv /\ Sockets!Abort => SocketsInv'
<1> SUFFICES ASSUME SocketsInv, Sockets!Abort PROVE SocketsInv'
  OBVIOUS
<1> USE DEF SocketsInv, Sockets!Abort
<1>1. Sockets!TypeOK'
  BY DEF Sockets!TypeOK
<1>2. Sockets!EachSocketOwnedOnce' /\ ThreadIsOfSocket'
  BY DEF Sockets!EachSocketOwnedOnce, ThreadIsOfSocket
<1>3. StartedWhenConnected' /\ ReadsOpen'
  BY DEF StartedWhenConnected, ReadsOpen
<1> QED
  BY <1>1, <1>2, <1>3 DEF SocketsBound

\* The attempts to connect: a new socket gets a number that nobody had, and its
\* receiver is started when it has connected.
LEMMA ConnectKeepsSockets ==
  ASSUME SocketsInv, Sockets!Create \/ Sockets!TcpFails \/ Sockets!TcpSucceeds
  PROVE  SocketsInv'
<1>n. /\ MaxSockets \in Nat /\ made \in Nat /\ made <= MaxSockets
      /\ socket \in Nat /\ socket <= made
      /\ \A n \in limbo \cup deleted \cup closed : n \in Nat /\ 1 <= n /\ n <= made
  BY SocketNumbers
<1>b. SocketsBound'
  BY DEF SocketsInv, SocketsBound
<1>1. CASE Sockets!Create /\ ~Sockets!Abort
  <2>1. /\ user = "connect" /\ user' = "tcp" /\ socket = 0 /\ made < MaxSockets
        /\ made' = made + 1 /\ socket' = made + 1
        /\ UNCHANGED <<is_connected, thread, receiver, on, handler, limbo, closed, deleted,
                       awaits, aborted>>
    BY <1>1 DEF Sockets!Create
  <2>2. Sockets!TypeOK'
    <3>1. socket' \in 0..MaxSockets /\ made' \in 0..MaxSockets /\ user' \in Sockets!UserPlaces
      BY <1>n, <2>1 DEF Sockets!UserPlaces
    <3> QED
      BY <2>1, <3>1 DEF SocketsInv, Sockets!TypeOK
  <2>3. Sockets!EachSocketOwnedOnce'
    <3>1. 1..made' = (1..made) \cup {made + 1} /\ made + 1 \notin limbo \cup deleted
          /\ made + 1 # 0
      BY <1>n, <2>1
    <3>2. 1..made = limbo \cup deleted /\ limbo \cap deleted = {}
      BY <2>1 DEF SocketsInv, Sockets!EachSocketOwnedOnce
    <3> QED
      BY <2>1, <3>1, <3>2 DEF Sockets!EachSocketOwnedOnce
  <2>4. ThreadIsOfSocket'
    BY <1>n, <2>1 DEF SocketsInv, ThreadIsOfSocket
  <2>5. StartedWhenConnected' /\ ReadsOpen'
    <3>1. made + 1 \notin closed /\ \A r \in Sockets!Ids : receiver[r] # "none"
               => r <= made /\ r # made + 1
      BY <1>n DEF SocketsInv, StartedWhenConnected, Sockets!Ids
    <3>2. closed \subseteq 1..made'
      BY <1>n, <2>1
    <3>3. \A r \in Sockets!Ids : receiver[r] # "none" => r <= made'
      BY <1>n, <2>1, <3>1 DEF Sockets!Ids
    <3> QED
      BY <2>1, <3>1, <3>2, <3>3 DEF SocketsInv, StartedWhenConnected, ReadsOpen
  <2> QED
    BY <1>b, <2>2, <2>3, <2>4, <2>5 DEF SocketsInv
<1>2. CASE Sockets!TcpFails
  <2>1. /\ user = "tcp" /\ user' = "connect" /\ is_connected' = FALSE
        /\ closed' = closed \cup {socket}
        /\ UNCHANGED <<socket, thread, receiver, on, handler, made, limbo, deleted, awaits,
                       aborted>>
    BY <1>2 DEF Sockets!TcpFails
  <2>2. socket \in 1..made /\ socket \in Sockets!Ids
    BY <1>n, <2>1 DEF SocketsInv, ThreadIsOfSocket, Sockets!Ids
  <2>3. Sockets!TypeOK'
    <3>1. is_connected' \in BOOLEAN /\ user' \in Sockets!UserPlaces
      BY <2>1 DEF Sockets!UserPlaces
    <3> QED
      BY <2>1, <2>2, <3>1 DEF SocketsInv, Sockets!TypeOK
  <2>4. Sockets!EachSocketOwnedOnce' /\ ThreadIsOfSocket'
    BY <2>1 DEF SocketsInv, Sockets!EachSocketOwnedOnce, ThreadIsOfSocket
  <2>5. StartedWhenConnected' /\ ReadsOpen'
    BY <2>1, <2>2 DEF SocketsInv, StartedWhenConnected, ReadsOpen
  <2> QED
    BY <1>b, <2>3, <2>4, <2>5 DEF SocketsInv
<1>3. CASE Sockets!TcpSucceeds /\ ~Sockets!Abort
  <2>1. /\ user = "tcp" /\ user' = "upgrade" /\ is_connected' = TRUE /\ handler' = "upgrade"
        /\ thread' = socket /\ receiver' = [receiver EXCEPT ![socket] = "check"]
        /\ UNCHANGED <<socket, on, made, limbo, closed, deleted, awaits, aborted>>
    BY <1>3 DEF Sockets!TcpSucceeds
  <2>2. socket # 0 /\ socket \in 1..made /\ socket \in Sockets!Ids
    BY <1>n, <2>1 DEF SocketsInv, ThreadIsOfSocket, Sockets!Ids
  <2>3. Sockets!TypeOK'
    <3>1. /\ thread' \in 0..MaxSockets /\ is_connected' \in BOOLEAN
          /\ user' \in Sockets!UserPlaces
          /\ handler' \in {"none", "upgrade", "frames", "closing"}
      BY <1>n, <2>1 DEF Sockets!UserPlaces
    <3>2. receiver' \in [Sockets!Ids -> Sockets!ReceiverPlaces]
      BY <2>1, <2>2 DEF SocketsInv, Sockets!TypeOK, Sockets!ReceiverPlaces
    <3> QED
      BY <2>1, <3>1, <3>2 DEF SocketsInv, Sockets!TypeOK
  <2>4. Sockets!EachSocketOwnedOnce' /\ ThreadIsOfSocket'
    BY <2>1, <2>2 DEF SocketsInv, Sockets!EachSocketOwnedOnce, ThreadIsOfSocket
  <2>5. receiver[socket] = "none" /\ socket \notin closed
    BY <2>1, <2>2 DEF SocketsInv, StartedWhenConnected
  <2>6. StartedWhenConnected' /\ ReadsOpen'
    BY <1>n, <2>1, <2>2, <2>5 DEF SocketsInv, StartedWhenConnected, ReadsOpen, Sockets!TypeOK
  <2> QED
    BY <1>b, <2>3, <2>4, <2>6 DEF SocketsInv
<1> QED
  BY <1>1, <1>2, <1>3, AbortKeepsSockets

\* What follows an attempt: the upgrade, or its failure with a disconnection that
\* joins the receiver, and only then closes the socket.
LEMMA UpgradeKeepsSockets ==
  ASSUME SocketsInv, Sockets!Upgraded \/ Sockets!UpgradeFails \/ Sockets!Drop
  PROVE  SocketsInv'
<1>n. /\ MaxSockets \in Nat /\ made \in Nat /\ made <= MaxSockets
      /\ socket \in Nat /\ socket <= made
  BY SocketNumbers
<1>b. SocketsBound'
  BY DEF SocketsInv, SocketsBound
<1>1. CASE Sockets!Upgraded \/ Sockets!UpgradeFails
  <2>1. /\ user = "upgrade" /\ user' \in {"up", "drop"}
        /\ is_connected' \in {is_connected, FALSE}
             /\ (user' = "up" => is_connected' = is_connected)
        /\ handler' \in {"frames", "none"}
        /\ UNCHANGED <<socket, thread, receiver, on, made, limbo, closed, deleted, awaits,
                       aborted>>
    BY <1>1 DEF Sockets!Upgraded, Sockets!UpgradeFails
  <2>2. Sockets!TypeOK'
    <3>1. is_connected' \in BOOLEAN
      BY <2>1 DEF SocketsInv, Sockets!TypeOK
    <3>2. user' \in Sockets!UserPlaces /\ handler' \in {"none", "upgrade", "frames", "closing"}
      BY <2>1 DEF Sockets!UserPlaces
    <3> QED
      BY <2>1, <3>1, <3>2 DEF SocketsInv, Sockets!TypeOK
  <2>3. Sockets!EachSocketOwnedOnce' /\ ReadsOpen'
    BY <2>1 DEF SocketsInv, Sockets!EachSocketOwnedOnce, ReadsOpen
  <2>4. ThreadIsOfSocket'
    BY <2>1 DEF SocketsInv, ThreadIsOfSocket
  <2>5. StartedWhenConnected'
    BY <2>1 DEF SocketsInv, StartedWhenConnected
  <2> QED
    BY <1>b, <2>2, <2>3, <2>4, <2>5 DEF SocketsInv
<1>2. CASE Sockets!Drop
  <2>1. /\ user = "drop" /\ user' = "connect" /\ thread' = 0 /\ socket' = 0
        /\ thread # 0 => receiver[thread] = "exited"
        /\ closed' = closed \cup ({socket} \ {0}) /\ deleted' = deleted \cup ({socket} \ {0})
        /\ UNCHANGED <<is_connected, receiver, on, handler, made, limbo, awaits, aborted>>
    BY <1>2 DEF Sockets!Drop
  <2>2. socket # 0 => thread = socket /\ receiver[socket] = "exited" /\ socket \in 1..made
        /\ socket \in Sockets!Ids
    BY <1>n, <2>1 DEF SocketsInv, ThreadIsOfSocket, Sockets!Ids
  <2>3. Sockets!TypeOK'
    <3>1. socket' \in 0..MaxSockets /\ thread' \in 0..MaxSockets /\ user' \in Sockets!UserPlaces
      BY <1>n, <2>1 DEF Sockets!UserPlaces
    <3>2. deleted' \subseteq closed' /\ closed' \subseteq Sockets!Ids
      BY <2>1, <2>2 DEF SocketsInv, Sockets!TypeOK
    <3> QED
      BY <2>1, <3>1, <3>2 DEF SocketsInv, Sockets!TypeOK
  <2>4. Sockets!EachSocketOwnedOnce'
    <3>1. 0 \notin limbo \cup deleted
      BY SocketNumbers
    <3> QED
      BY <2>1, <3>1 DEF SocketsInv, Sockets!EachSocketOwnedOnce
  <2>5. ThreadIsOfSocket'
    BY <2>1 DEF ThreadIsOfSocket
  <2>6. StartedWhenConnected' /\ ReadsOpen'
    <3>1. 0 \notin closed'
      BY <2>1, SocketNumbers
    <3> QED
      BY <2>1, <2>2, <3>1 DEF SocketsInv, StartedWhenConnected, ReadsOpen
  <2> QED
    BY <1>b, <2>3, <2>4, <2>5, <2>6 DEF SocketsInv
<1> QED
  BY <1>1, <1>2

\* A forced disconnection, by whoever has the thread: the socket goes to a job.
LEMMA ForceKeepsSockets ==
  ASSUME SocketsInv, NEW caller \in 0..MaxSockets, Sockets!ForceDisconnect(caller),
         user' \in Sockets!UserPlaces, user' \notin {"connect", "tcp"} \/ UNCHANGED user,
         receiver' \in [Sockets!Ids -> Sockets!ReceiverPlaces],
         \A r \in Sockets!Ids : receiver'[r] # receiver[r]
              => receiver[r] # "none" /\ receiver'[r] = "waiting"
  PROVE  SocketsInv'
<1>n. /\ MaxSockets \in Nat /\ made \in Nat /\ made <= MaxSockets
      /\ socket \in Nat /\ socket <= made
  BY SocketNumbers
<1>1. /\ thread # 0 /\ thread' = 0 /\ is_connected' = FALSE /\ handler' = "none"
      /\ limbo' = limbo \cup ({socket} \ {0}) /\ socket' = 0
      /\ awaits' = [awaits EXCEPT ![caller] = socket]
      /\ UNCHANGED <<on, made, closed, deleted, aborted>>
  BY DEF Sockets!ForceDisconnect
<1>2. thread = socket /\ socket # 0 /\ user \notin {"connect", "tcp"} /\ socket \in Sockets!Ids
  BY <1>n, <1>1 DEF SocketsInv, ThreadIsOfSocket, Sockets!Ids
<1>3. Sockets!TypeOK'
  <2>1. socket' \in 0..MaxSockets /\ thread' \in 0..MaxSockets
        /\ handler' \in {"none", "upgrade", "frames", "closing"}
    BY <1>n, <1>1
  <2>2. awaits' \in [0..MaxSockets -> 0..MaxSockets]
    BY <1>1 DEF SocketsInv, Sockets!TypeOK
  <2>3. limbo' \subseteq Sockets!Ids
    BY <1>1, <1>2 DEF SocketsInv, Sockets!TypeOK
  <2>4. is_connected' \in BOOLEAN
    BY <1>1
  <2> QED
    BY <1>1, <2>1, <2>2, <2>3, <2>4 DEF SocketsInv, Sockets!TypeOK
<1>4. Sockets!EachSocketOwnedOnce'
  <2>1. 0 \notin limbo \cup deleted
    BY SocketNumbers
  <2> QED
    BY <1>1, <2>1 DEF SocketsInv, Sockets!EachSocketOwnedOnce
<1>5. ThreadIsOfSocket'
  BY <1>1, <1>2 DEF ThreadIsOfSocket
<1>6. StartedWhenConnected'
  <2>1. 0 \notin closed
    BY SocketNumbers
  <2>2. \A r \in Sockets!Ids : receiver'[r] # "none" => receiver[r] # "none"
    OBVIOUS
  <2> QED
    BY <1>1, <1>2, <2>1, <2>2 DEF SocketsInv, StartedWhenConnected
<1>7. ReadsOpen'
  <2>1. \A r \in Sockets!Ids : receiver'[r] \in {"call", "recv"} => receiver'[r] = receiver[r]
    OBVIOUS
  <2> QED
    BY <1>1, <2>1 DEF SocketsInv, ReadsOpen
<1> QED
  BY <1>3, <1>4, <1>5, <1>6, <1>7 DEF SocketsInv, SocketsBound

\* The user disconnects a connection that is up; the receiver is not touched.
LEMMA DisconnectKeepsSockets ==
  ASSUME SocketsInv, Sockets!Disconnect \/ Sockets!FinishDisconnect \/ Sockets!Disconnected
  PROVE  SocketsInv'
<1>n. MaxSockets \in Nat
  BY SocketNumbers
<1>1. CASE Sockets!Disconnect \/ Sockets!Disconnected
  <2>1. /\ user \in {"up", "waiting"} /\ user' \in {"closing", "connect"}
        /\ user' = "connect" => user = "waiting" \/ ~is_connected
        /\ handler' \in {handler, "closing"}
        /\ UNCHANGED <<socket, is_connected, thread, receiver, on, made, limbo, closed,
                       deleted, awaits, aborted>>
    BY <1>1 DEF Sockets!Disconnect, Sockets!Disconnected
  <2>2. Sockets!TypeOK'
    <3>1. user' \in Sockets!UserPlaces /\ handler' \in {"none", "upgrade", "frames", "closing"}
      BY <2>1 DEF SocketsInv, Sockets!TypeOK, Sockets!UserPlaces
    <3> QED
      BY <2>1, <3>1 DEF SocketsInv, Sockets!TypeOK
  <2>3. Sockets!EachSocketOwnedOnce' /\ ReadsOpen'
    BY <2>1 DEF SocketsInv, Sockets!EachSocketOwnedOnce, ReadsOpen
  <2>4. ThreadIsOfSocket'
    BY <2>1 DEF SocketsInv, ThreadIsOfSocket
  <2>5. StartedWhenConnected'
    BY <2>1 DEF SocketsInv, StartedWhenConnected
  <2> QED
    BY <2>2, <2>3, <2>4, <2>5 DEF SocketsInv, SocketsBound
<1>2. CASE Sockets!FinishDisconnect /\ ~Sockets!Abort
  <2>1. Sockets!ForceDisconnect(0) /\ user' = "waiting" /\ UNCHANGED receiver
    BY <1>2 DEF Sockets!FinishDisconnect, Sockets!DetachAgain
  <2>2. 0 \in 0..MaxSockets /\ user' \in Sockets!UserPlaces /\ user' \notin {"connect", "tcp"}
    BY <1>n, <2>1 DEF Sockets!UserPlaces
  <2>3. receiver' \in [Sockets!Ids -> Sockets!ReceiverPlaces]
             /\ \A r \in Sockets!Ids : receiver'[r] = receiver[r]
    BY <2>1 DEF SocketsInv, Sockets!TypeOK
  <2> QED
    BY <2>1, <2>2, <2>3, ForceKeepsSockets
<1> QED
  BY <1>1, <1>2, AbortKeepsSockets

\* The job closes its socket when no receiver is about to read from it.
LEMMA DeferredCloseKeepsSockets ==
  ASSUME SocketsInv, NEW n \in Sockets!Ids, Sockets!DeferredClose(n)
  PROVE  SocketsInv'
<1>1. /\ n \in limbo /\ ~Sockets!Occupied(n) /\ limbo' = limbo \ {n}
      /\ closed' = closed \cup {n} /\ deleted' = deleted \cup {n}
      /\ UNCHANGED <<socket, is_connected, thread, receiver, on, handler, made, awaits,
                     user, aborted>>
  BY DEF Sockets!DeferredClose
<1>2. n \in 1..made /\ n # socket
  BY <1>1 DEF SocketsInv, Sockets!EachSocketOwnedOnce
<1>3. Sockets!TypeOK'
  BY <1>1 DEF SocketsInv, Sockets!TypeOK
<1>4. Sockets!EachSocketOwnedOnce' /\ ThreadIsOfSocket'
  BY <1>1 DEF SocketsInv, Sockets!EachSocketOwnedOnce, ThreadIsOfSocket
<1>5. StartedWhenConnected'
  BY <1>1, <1>2 DEF SocketsInv, StartedWhenConnected
<1>6. ReadsOpen'
  <2>1. \A r \in Sockets!Ids : receiver[r] \in {"call", "recv"} /\ on[r] = r /\ r = n => FALSE
    BY <1>1, SocketNumbers DEF Sockets!Occupied
  <2> QED
    BY <1>1, <2>1 DEF SocketsInv, ReadsOpen
<1> QED
  BY <1>3, <1>4, <1>5, <1>6 DEF SocketsInv, SocketsBound

-----------------------------------------------------------------------------
\* A receiver that only goes on in its loop.
LEMMA GoingKeepsSockets ==
  ASSUME SocketsInv, NEW r \in Sockets!Ids, NEW place \in Sockets!ReceiverPlaces,
         Sockets!ReceiverGoes(r, place),
         on' \in [Sockets!Ids -> 0..MaxSockets], \A q \in Sockets!Ids \ {r} : on'[q] = on[q],
         receiver[r] # "none",
         place \in {"call", "recv"} /\ on'[r] = r => r \notin closed
  PROVE  SocketsInv'
<1>1. /\ receiver' = [receiver EXCEPT ![r] = place]
      /\ UNCHANGED <<socket, is_connected, thread, handler, made, limbo, closed,
                     deleted, awaits, user, aborted>>
  BY DEF Sockets!ReceiverGoes
<1>2. receiver' \in [Sockets!Ids -> Sockets!ReceiverPlaces] /\ receiver'[r] = place
      /\ \A q \in Sockets!Ids \ {r} : receiver'[q] = receiver[q]
  BY <1>1 DEF SocketsInv, Sockets!TypeOK
<1>3. Sockets!TypeOK'
  BY <1>1, <1>2 DEF SocketsInv, Sockets!TypeOK
<1>4. Sockets!EachSocketOwnedOnce' /\ ThreadIsOfSocket'
  BY <1>1 DEF SocketsInv, Sockets!EachSocketOwnedOnce, ThreadIsOfSocket
<1>5. StartedWhenConnected'
  <2>1. \A q \in Sockets!Ids : receiver'[q] # "none" => receiver[q] # "none"
    BY <1>2
  <2>2. \A q \in Sockets!Ids : receiver[q] = "none" => receiver'[q] = "none"
    BY <1>2
  <2> QED
    BY <1>1, <2>1, <2>2 DEF SocketsInv, StartedWhenConnected
<1>6. ReadsOpen'
  BY <1>1, <1>2 DEF SocketsInv, ReadsOpen
<1> QED
  BY <1>3, <1>4, <1>5, <1>6 DEF SocketsInv, SocketsBound

\* The loop of a receiver.
LEMMA ReceiverKeepsSockets ==
  ASSUME SocketsInv, NEW r \in Sockets!Ids, Sockets!ReceiverStep(r)
  PROVE  SocketsInv'
<1>t. on \in [Sockets!Ids -> 0..MaxSockets] /\ socket \in 0..MaxSockets
  BY DEF SocketsInv, Sockets!TypeOK
<1>r. receiver \in [Sockets!Ids -> Sockets!ReceiverPlaces] /\ r \in 0..MaxSockets
  BY SocketNumbers DEF SocketsInv, Sockets!TypeOK, Sockets!Ids
<1> USE DEF Sockets!ReceiverPlaces
<1>1. CASE Sockets!Check(r)
  <2>1. CASE Sockets!ReceiverGoes(r, "call") /\ on' = [on EXCEPT ![r] = socket]
             /\ socket \notin closed
    BY <1>1, <1>t, <2>1, GoingKeepsSockets DEF Sockets!Check
  <2>2. CASE Sockets!ReceiverGoes(r, "exited") /\ UNCHANGED on
    BY <1>1, <1>t, <2>2, GoingKeepsSockets DEF Sockets!Check
  <2> QED
    BY <1>1, <2>1, <2>2 DEF Sockets!Check
<1>2. CASE Sockets!CallRecv(r) /\ ~Sockets!Abort
  <2>1. CASE Sockets!ReceiverGoes(r, "recv") /\ UNCHANGED on
    <3>1. receiver[r] = "call" /\ (on[r] = r => r \notin closed)
      BY <1>2 DEF Sockets!CallRecv, SocketsInv, ReadsOpen
    <3> QED
      BY <1>t, <2>1, <3>1, GoingKeepsSockets
  <2>2. CASE socket # 0 /\ Sockets!ReceiverGoes(r, "recv") /\ on' = [on EXCEPT ![r] = socket]
    <3>1. receiver[r] = "call" /\ (socket = r => r \notin closed)
      BY <1>2 DEF Sockets!CallRecv, SocketsInv, StartedWhenConnected
    <3> QED
      BY <1>t, <2>2, <3>1, GoingKeepsSockets
  <2> QED
    BY <1>2, <2>1, <2>2 DEF Sockets!CallRecv
<1>3. CASE Sockets!RecvReturns(r) \/ Sockets!Callback(r) \/ Sockets!FrameHandled(r)
  <2>1. /\ receiver[r] # "none" /\ UNCHANGED on
        /\ \E place \in {"check", "callback", "exited", "close_frame"}
             : Sockets!ReceiverGoes(r, place)
    BY <1>3 DEF Sockets!RecvReturns, Sockets!Callback, Sockets!FrameHandled
  <2> QED
    BY <1>t, <2>1, GoingKeepsSockets
<1>4. CASE Sockets!CloseFrame(r) /\ ~Sockets!Abort
  <2>1. /\ receiver[r] = "close_frame" /\ Sockets!ForceDisconnect(r)
        /\ receiver' = [receiver EXCEPT ![r] = "waiting"] /\ UNCHANGED user
    BY <1>4 DEF Sockets!CloseFrame, Sockets!DetachAgain
  <2>2. /\ receiver' \in [Sockets!Ids -> Sockets!ReceiverPlaces] /\ user' \in Sockets!UserPlaces
        /\ \A q \in Sockets!Ids : receiver'[q] # receiver[q]
             => receiver[q] # "none" /\ receiver'[q] = "waiting"
    BY <1>r, <2>1 DEF SocketsInv, Sockets!TypeOK
  <2> QED
    BY <1>r, <2>1, <2>2, ForceKeepsSockets
<1> QED
  BY <1>1, <1>2, <1>3, <1>4, AbortKeepsSockets DEF Sockets!ReceiverStep

\* Every step of the sockets preserves their invariant.
LEMMA NextKeepsSockets == SocketsInv /\ [Sockets!Next]_(Sockets!vars) => SocketsInv'
<1> SUFFICES ASSUME SocketsInv, [Sockets!Next]_(Sockets!vars) PROVE SocketsInv'
  OBVIOUS
<1>1. CASE Sockets!Next
  BY <1>1, ConnectKeepsSockets, UpgradeKeepsSockets, DisconnectKeepsSockets,
     ReceiverKeepsSockets, DeferredCloseKeepsSockets DEF Sockets!Next, Sockets!UserStep
<1>2. CASE UNCHANGED Sockets!vars
  <2> USE <1>2 DEF Sockets!vars, SocketsInv
  <2>1. Sockets!TypeOK'
    BY DEF Sockets!TypeOK
  <2>2. Sockets!EachSocketOwnedOnce' /\ ThreadIsOfSocket'
    BY DEF Sockets!EachSocketOwnedOnce, ThreadIsOfSocket
  <2>3. StartedWhenConnected' /\ ReadsOpen'
    BY DEF StartedWhenConnected, ReadsOpen
  <2> QED
    BY <2>1, <2>2, <2>3 DEF SocketsBound
<1> QED
  BY <1>1, <1>2

-----------------------------------------------------------------------------
(* The parts together *)

\* The part that a behaviour is of goes its way, and the others stay.
LEMMA PartsAreSpecs == PartsSpec => Spec /\ Sockets!Spec /\ Messages!Spec
<1>1. PartsInit => Init /\ Sockets!Init /\ Messages!Init
  BY DEF PartsInit
<1>2. [PartsNext]_allVars => [Next]_vars
  BY DEF PartsNext, allVars
<1>3. [PartsNext]_allVars => [Sockets!Next]_(Sockets!vars)
  BY DEF PartsNext, allVars, socketVars, Sockets!vars
<1>4. [PartsNext]_allVars => [Messages!Next]_(Messages!vars)
  BY DEF PartsNext, allVars, commandVars, Messages!vars, Messages!shared, Messages!local,
     Messages!rest
<1> QED
  BY <1>1, <1>2, <1>3, <1>4, PTL DEF PartsSpec, Spec, Sockets!Spec, Messages!Spec

\* However many connections are made and however they end: no socket leaks, none is
\* deleted twice, and none is closed under its own receiver.
THEOREM SocketsDisposedOfOnceHolds ==
  MaxSockets \in Nat => (PartsSpec => []SocketsDisposedOfOnce)
<1>1. MaxSockets \in Nat => SocketsBound
  BY DEF SocketsBound
<1>2. SocketsInv => SocketsDisposedOfOnce
  BY DEF SocketsInv, SocketsDisposedOfOnce, Sockets!SocketsDisposedOfOnce, ReadsOpen,
     Sockets!OwnSocketOpen
<1> QED
  BY <1>1, <1>2, InitSockets, NextKeepsSockets, PartsAreSpecs, PTL DEF Sockets!Spec

\* Whatever threads, users, messages, aliases and permissions there are: a command
\* that a stage of a message runs, or evaluates arguments for, was allowed to its user,
\* whatever its name has come to mean, and so was an eval.  What an evaluation calls
\* is called unchecked, by one of these.
THEOREM RunsWhatWasCheckedHolds == PartsSpec => []RunsWhatWasChecked
<1>1. CommandsInv => RunsWhatWasChecked
  BY DEF CommandsInv, RunsWhatWasChecked
<1> QED
  BY <1>1, InitCommands, NextKeepsCommands, PartsAreSpecs, PTL DEF Messages!Spec

\* No socket is without its state, no name is without its object, and no thread found
\* a command that was never made: for any threads, users and messages of words, and
\* the finitely many aliases of a database.
THEOREM PartsTypeCorrect ==
  MaxSockets \in Nat /\ AliasesAreNames /\ InputsAreWords => (PartsSpec => []PartsTypeOK)
<1> SUFFICES ASSUME MaxSockets \in Nat, AliasesAreNames, InputsAreWords
             PROVE  PartsSpec => []PartsTypeOK
  OBVIOUS
<1>1. SocketsBound
  BY DEF SocketsBound
<1>2. SocketsInv => Sockets!TypeOK
  BY DEF SocketsInv
<1> DEFINE Both == CommandsInv /\ Typed
<1>3. Messages!Init => Both
  BY InitCommands, InitTyped
<1>4. Both /\ [Messages!Next]_(Messages!vars) => Both'
  BY NextKeepsCommands, StagedStays, TablesStay, KnownStays, OthersStay DEF Typed
<1>5. Both => Messages!TypeOK
  BY TypedIsTypeOK
<1> QED
  BY <1>1, <1>2, <1>3, <1>4, <1>5, InitSockets, NextKeepsSockets, PartsAreSpecs, PTL
     DEF PartsTypeOK, Sockets!Spec, Messages!Spec
=============================================================================
