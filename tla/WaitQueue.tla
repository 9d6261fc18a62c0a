----------------------------- MODULE WaitQueue -----------------------------
(***************************************************************************)
(* The blocking queue every worker thread of the bot sleeps on: wait_queue *)
(* and the counting semaphore it is built from (include/synchro.h).  The   *)
(* deque and the semaphore have a mutex each, so a push, a post and a pop  *)
(* are several critical sections that interleave; an action is one of      *)
(* them, or one notification.                                              *)
(*                                                                         *)
(* A pushed element is identified by its ticket, the number of the push.   *)
(* The code keeps only how many pushes are not yet announced; the model    *)
(* keeps which ones, so that no push can be announced twice unnoticed:     *)
(*    pending_notifies  =  Cardinality(pending)                            *)
(*    the "num" given to semaphore::post  =  Cardinality(batch[p])         *)
(***************************************************************************)
EXTENDS Naturals, Sequences, FiniteSets

CONSTANTS Producers,  \* threads that push
          Consumers,  \* threads that pop, in a loop
          MaxPush     \* bound on the number of pushes of a behaviour

ASSUME ThreadsAssumption == /\ IsFiniteSet(Consumers)
                            /\ Producers \cap Consumers = {}
ASSUME MaxPushAssumption == MaxPush \in Nat

VARIABLES queue,    \* the deque, as the sequence of the tickets in it
          pending,  \* tickets pushed quietly and not announced
          value,    \* semaphore::value
          batch,    \* tickets a producer has pushed or taken over, unposted
          prod,     \* where each producer is
          cons,     \* where each consumer is
          pushed,   \* history: how many pushes there were
          posted,   \* history: the tickets the semaphore was posted for
          popped    \* history: how many elements were taken

vars == <<queue, pending, value, batch, prod, cons, pushed, posted, popped>>

Tickets == 1..pushed

ProducerPlaces == {"idle", "post", "count", "notify_one", "notify_all"}
ConsumerPlaces == {"idle", "wait", "asleep", "front"}

At(place) == {c \in Consumers : cons[c] = place}

Init ==
  /\ queue = <<>>
  /\ pending = {}
  /\ value = 0
  /\ batch = [p \in Producers |-> {}]
  /\ prod = [p \in Producers |-> "idle"]
  /\ cons = [c \in Consumers |-> "idle"]
  /\ pushed = 0
  /\ posted = {}
  /\ popped = 0

-----------------------------------------------------------------------------
(* Producers *)

\* The critical section of push, emplace, push_quiet and emplace_quiet.
Enqueue(p, next) ==
  /\ prod[p] = "idle"
  /\ pushed < MaxPush
  /\ queue' = Append(queue, pushed + 1)
  /\ pushed' = pushed + 1
  /\ batch' = [batch EXCEPT ![p] = {pushed + 1}]
  /\ prod' = [prod EXCEPT ![p] = next]
  /\ UNCHANGED <<pending, value, cons, posted, popped>>

Push(p) == Enqueue(p, "post")

PushQuiet(p) == Enqueue(p, "count")

\* Mutant: pending_notifies = 1 in place of the increment.
CountPendingOverwrites(p) ==
  /\ prod[p] = "count"
  /\ pending' = batch[p]
  /\ batch' = [batch EXCEPT ![p] = {}]
  /\ prod' = [prod EXCEPT ![p] = "idle"]
  /\ UNCHANGED <<queue, value, cons, pushed, posted, popped>>

\* pending_notifies++
CountPending(p) ==
  /\ prod[p] = "count"
  /\ pending' = pending \cup batch[p]
  /\ batch' = [batch EXCEPT ![p] = {}]
  /\ prod' = [prod EXCEPT ![p] = "idle"]
  /\ UNCHANGED <<queue, value, cons, pushed, posted, popped>>

\* pending_notifies.exchange(0); the post that follows may be of zero.
NotifyPending(p) ==
  /\ prod[p] = "idle"
  /\ batch' = [batch EXCEPT ![p] = pending]
  /\ pending' = {}
  /\ prod' = [prod EXCEPT ![p] = "post"]
  /\ UNCHANGED <<queue, value, cons, pushed, posted, popped>>

\* Post with the given rule for what to notify.
PostNotifying(p, notification) ==
  /\ prod[p] = "post"
  /\ value' = value + Cardinality(batch[p])
  /\ posted' = posted \cup batch[p]
  /\ batch' = [batch EXCEPT ![p] = {}]
  /\ prod' = [prod EXCEPT ![p] = notification]
  /\ UNCHANGED <<queue, pending, cons, pushed, popped>>

\* Mutants: one notification for any number of units; none for a single unit.
PostAlwaysOne(p) == PostNotifying(p, "notify_one")
PostOnlyBatches(p) ==
  PostNotifying(p, IF Cardinality(batch[p]) > 1 THEN "notify_all" ELSE "idle")

\* The critical section of semaphore::post; the notification follows it.
Post(p) ==
  PostNotifying(p, IF Cardinality(batch[p]) > 1 THEN "notify_all" ELSE "notify_one")

\* The notification comes after the semaphore's mutex was released.
NotifyOne(p) ==
  /\ prod[p] = "notify_one"
  /\ prod' = [prod EXCEPT ![p] = "idle"]
  /\ \/ \E c \in At("asleep") : cons' = [cons EXCEPT ![c] = "wait"]
     \/ At("asleep") = {} /\ UNCHANGED cons
  /\ UNCHANGED <<queue, pending, value, batch, pushed, posted, popped>>

NotifyAll(p) ==
  /\ prod[p] = "notify_all"
  /\ prod' = [prod EXCEPT ![p] = "idle"]
  /\ cons' = [c \in Consumers |-> IF cons[c] = "asleep" THEN "wait" ELSE cons[c]]
  /\ UNCHANGED <<queue, pending, value, batch, pushed, posted, popped>>

-----------------------------------------------------------------------------
(* Consumers *)

Pop(c) ==
  /\ cons[c] = "idle"
  /\ cons' = [cons EXCEPT ![c] = "wait"]
  /\ UNCHANGED <<queue, pending, value, batch, prod, pushed, posted, popped>>

\* Mutants: the value is not tested again after a wakeup; not decremented.
AcquireUntested(c) ==
  /\ cons[c] = "wait"
  /\ value' = value - 1
  /\ cons' = [cons EXCEPT ![c] = "front"]
  /\ UNCHANGED <<queue, pending, batch, prod, pushed, posted, popped>>
AcquireKeepsUnit(c) ==
  /\ cons[c] = "wait"
  /\ value > 0
  /\ cons' = [cons EXCEPT ![c] = "front"]
  /\ UNCHANGED <<queue, pending, value, batch, prod, pushed, posted, popped>>

\* semaphore::wait finds the value positive and takes one unit.
Acquire(c) ==
  /\ cons[c] = "wait"
  /\ value > 0
  /\ value' = value - 1
  /\ cons' = [cons EXCEPT ![c] = "front"]
  /\ UNCHANGED <<queue, pending, batch, prod, pushed, posted, popped>>

\* semaphore::wait finds zero: testing and falling asleep are atomic.
Sleep(c) ==
  /\ cons[c] = "wait"
  /\ value = 0
  /\ cons' = [cons EXCEPT ![c] = "asleep"]
  /\ UNCHANGED <<queue, pending, value, batch, prod, pushed, posted, popped>>

\* A condition variable may wake a thread that nobody notified.
SpuriousWake(c) ==
  /\ cons[c] = "asleep"
  /\ cons' = [cons EXCEPT ![c] = "wait"]
  /\ UNCHANGED <<queue, pending, value, batch, prod, pushed, posted, popped>>

\* Mutant: the newest element is taken.
TakeBack(c) ==
  /\ cons[c] = "front"
  /\ queue' = SubSeq(queue, 1, Len(queue) - 1)
  /\ popped' = popped + 1
  /\ cons' = [cons EXCEPT ![c] = "idle"]
  /\ UNCHANGED <<pending, value, batch, prod, pushed, posted>>

\* The critical section of pop: front() and pop_front(), with no test that
\* the deque has an element.
TakeFront(c) ==
  /\ cons[c] = "front"
  /\ queue' = Tail(queue)
  /\ popped' = popped + 1
  /\ cons' = [cons EXCEPT ![c] = "idle"]
  /\ UNCHANGED <<pending, value, batch, prod, pushed, posted>>

-----------------------------------------------------------------------------
ProducerStep(p) == \/ Push(p) \/ PushQuiet(p) \/ CountPending(p)
                   \/ NotifyPending(p) \/ Post(p) \/ NotifyOne(p) \/ NotifyAll(p)

ConsumerStep(c) == \/ Pop(c) \/ Acquire(c) \/ Sleep(c)
                   \/ SpuriousWake(c) \/ TakeFront(c)

Next == \/ \E p \in Producers : ProducerStep(p)
        \/ \E c \in Consumers : ConsumerStep(c)

Spec == Init /\ [][Next]_vars

\* A thread that can take its next step takes it.  Nobody is obliged to push
\* or to wake up without a reason.
Announcing(p) == CountPending(p) \/ Post(p) \/ NotifyOne(p) \/ NotifyAll(p)
Consuming(c) == Pop(c) \/ Acquire(c) \/ Sleep(c) \/ TakeFront(c)
Fairness == (\A p \in Producers : WF_vars(Announcing(p))) /\ (\A c \in Consumers : WF_vars(Consuming(c)))

FairSpec == Spec /\ Fairness

-----------------------------------------------------------------------------
TypeOK ==
  /\ queue \in Seq(Nat)
  /\ pushed \in Nat /\ popped \in Nat /\ value \in Nat
  /\ pending \subseteq Tickets /\ posted \subseteq Tickets
  /\ batch \in [Producers -> SUBSET Tickets]
  /\ prod \in [Producers -> ProducerPlaces]
  /\ cons \in [Consumers -> ConsumerPlaces]

\* pop() calls front() without looking at the deque: every unit of the
\* semaphore, and every consumer that has taken one, must stand for an
\* element that is already in the deque.
NoUnderflow == value + Cardinality(At("front")) <= Len(queue)

\* Tickets that are announced, waiting to be, or on their way are different
\* ones: a quiet push is not posted twice by two concurrent notify_pending.
AnnouncedOnce ==
  /\ pending \cap posted = {}
  /\ \A p \in Producers : batch[p] \cap (pending \cup posted) = {}
  /\ \A p, q \in Producers : p # q => batch[p] \cap batch[q] = {}

\* Nothing is forgotten: each element of the deque is announced, or is going
\* to be by the thread that holds it or by the next notify_pending.
NothingStranded ==
  Tickets = posted \cup pending \cup UNION {batch[p] : p \in Producers}

\* Every ticket is in exactly one of those places, under concurrent quiet pushes
\* and announcements: none is announced twice, none is forgotten.
AnnouncedExactlyOnce == AnnouncedOnce /\ NothingStranded

\* No lost wakeup: while somebody sleeps and the semaphore is positive, a
\* broadcast is under way, or there are as many threads awake in wait() and
\* single notifications under way as there are units.
NoLostWakeup ==
  (value > 0 /\ At("asleep") # {}) =>
     \/ \E p \in Producers : prod[p] = "notify_all"
     \/ value <= Cardinality(At("wait"))
                 + Cardinality({p \in Producers : prod[p] = "notify_one"})

\* What was announced is consumed.
AnnouncedIsConsumed == (value > 0) ~> (value = 0)

\* The critical sections of pushes, announcements and pops, however they
\* interleave, come to putting and taking elements in order.
Fifo == INSTANCE FifoQueue WITH items <- queue, in <- pushed, out <- popped

ImplementsFifo == Fifo!Spec
=============================================================================
