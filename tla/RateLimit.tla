----------------------------- MODULE RateLimit -----------------------------
(***************************************************************************)
(* The token bucket in front of the chat servers (include/rate.h) and the  *)
(* loop of twitch's send_worker around it (backends/twitch/twitch.cpp).    *)
(*                                                                         *)
(* Time is a number of ticks since the clock's epoch.  The calls of now()  *)
(* within one attempt() are taken to return the same instant.              *)
(***************************************************************************)
EXTENDS Integers, Sequences, FiniteSets

CONSTANTS limit, period, min_interval,  \* the constructor's arguments
          TokenSpan,      \* how many values the tokens' unsigned type has
          Garbage,        \* what the uninitialised tokens may be
          Pauses,         \* how long the queue may stay empty
          Delays,         \* how late a sleep ends, or a send gets its lock
          MaxSends,       \* bound on the messages of a behaviour
          MaxPauses       \* bound on the pauses of a behaviour

ASSUME ArgumentsAssumption ==
  /\ limit \in Nat \ {0} /\ period \in Nat \ {0} /\ min_interval \in Nat
  /\ TokenSpan \in Nat /\ limit < TokenSpan
  /\ Garbage \subseteq 0..(TokenSpan - 1)
ASSUME EnvironmentAssumption ==
  Pauses \subseteq Nat /\ Delays \subseteq Nat /\ {MaxSends, MaxPauses} \subseteq Nat

VARIABLES tokens, last_refilled, last_attempted,
          now,      \* system_clock::now()
          worker,   \* "pop", "attempt", "asleep" or "send"
          wake,     \* when the sleep ends
          sleeps,   \* history: sleeps since a message was taken, 3 for more
          refills,  \* history: how often the bucket was refilled
          paused,   \* how often the queue was empty so far
          found,    \* history: the tokens the bucket was created with
          sent      \* history: when each message was sent

vars == <<tokens, last_refilled, last_attempted, now, worker, wake, sleeps, refills,
          paused, found, sent>>

\* The program starts long after the epoch, where default-constructed
\* time points are.
Start == period + min_interval

Init ==
  /\ tokens \in Garbage /\ found = tokens
  /\ last_refilled = 0 /\ last_attempted = 0
  /\ now = Start
  /\ worker = "pop" /\ wake = 0
  /\ sleeps = 0 /\ refills = 0 /\ paused = 0 /\ sent = <<>>

-----------------------------------------------------------------------------
(* attempt() *)

RefillDue == now >= last_refilled + period

Larger(a, b) == IF a >= b THEN a ELSE b

\* Mutant: the bucket is filled twice over.
RefilledTwice == Larger(limit, (tokens + 2 * limit) % TokenSpan)

\* What a refill leaves: the sum wraps, and nothing caps it.
Refilled == Larger(limit, (tokens + limit) % TokenSpan)

\* The tokens an attempt made now looks at.
TokensNow == IF RefillDue THEN Refilled ELSE tokens

\* Mutant: an empty bucket is not noticed.
AllowedByIntervalOnly == now - last_attempted >= min_interval

Allowed == TokensNow > 0 /\ now - last_attempted >= min_interval

\* Mutant: next() ignores the interval.
NextTimeTokensOnly(t, refilled) == IF t > 0 THEN now ELSE refilled + period

\* next(), given the fields the failed attempt leaves.
NextTime(t, refilled) ==
  IF t > 0 THEN Larger(now, last_attempted + min_interval) ELSE refilled + period

Refill == /\ tokens' = TokensNow - (IF Allowed THEN 1 ELSE 0)
          /\ last_refilled' = (IF RefillDue THEN now ELSE last_refilled)
          /\ refills' = refills + (IF RefillDue THEN 1 ELSE 0)

Attempt ==
  /\ worker = "attempt"
  /\ Refill
  /\ IF Allowed
     THEN /\ last_attempted' = now
          /\ worker' = "send"
          /\ UNCHANGED <<wake, sleeps>>
     ELSE /\ wake' = NextTime(tokens', last_refilled')
          /\ worker' = "asleep"
          /\ sleeps' = (IF sleeps < 3 THEN sleeps + 1 ELSE 3)
          /\ UNCHANGED last_attempted
  /\ UNCHANGED <<now, paused, found, sent>>

-----------------------------------------------------------------------------
(* The rest of the worker's loop *)

Pop ==
  /\ worker = "pop" /\ Len(sent) < MaxSends
  /\ \/ UNCHANGED <<now, paused>>
     \/ paused < MaxPauses /\ paused' = paused + 1 /\ \E d \in Pauses : now' = now + d
  /\ worker' = "attempt"
  /\ sleeps' = 0
  /\ UNCHANGED <<tokens, last_refilled, last_attempted, wake, refills, found, sent>>

Wake ==
  /\ worker = "asleep"
  /\ \E d \in Delays : now' = Larger(now, wake) + d
  /\ worker' = "attempt"
  /\ UNCHANGED <<tokens, last_refilled, last_attempted, wake, sleeps, refills, paused, found, sent>>

Send ==
  /\ worker = "send"
  /\ \E d \in Delays : now' = now + d
  /\ sent' = Append(sent, now')
  /\ worker' = "pop"
  /\ UNCHANGED <<tokens, last_refilled, last_attempted, wake, sleeps, refills, paused, found>>

Next == Attempt \/ Pop \/ Wake \/ Send

Spec == Init /\ [][Next]_vars

\* The worker gets on with the message it has, and a sleep ends.
Fairness == WF_vars(Attempt) /\ WF_vars(Wake) /\ WF_vars(Send)

FairSpec == Spec /\ Fairness

-----------------------------------------------------------------------------
TypeOK ==
  /\ tokens \in 0..(TokenSpan - 1)
  /\ {last_refilled, last_attempted, now, wake, refills, paused, found} \subseteq Nat
  /\ sleeps \in 0..3
  /\ last_refilled <= now /\ last_attempted <= now
  /\ worker \in {"pop", "attempt", "asleep", "send"}
  /\ sent \in Seq(Nat)

\* Although nothing caps the tokens saved over idle periods, the messages sent
\* since the start never exceed the limit times the periods begun, plus what
\* happened to be in the uninitialised bucket.
AverageRate == Len(sent) <= found + limit * (1 + (now - Start) \div period)

\* When attempt() refuses, next() is a time at which it is worth trying: a
\* message waits for the refill, then for the interval, and no more.
AtMostTwoSleeps == sleeps <= 2

-----------------------------------------------------------------------------
\* "twitch says 20 messages every 30 seconds, so set it a little lower"
\* (twitch.cpp:36), with the numbers of pleb_rate and the clock in steps of
\* 0.15s: never more than 20 messages within a period.
TwitchAllowance == 20

WithinAllowance ==
  Cardinality({i \in DOMAIN sent : sent[i] > now - period}) <= TwitchAllowance
=============================================================================
