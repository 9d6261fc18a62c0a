-------------------------- MODULE RateLimitProofs --------------------------
(***************************************************************************)
(* What the token bucket guarantees for every limit, period and interval.  *)
(* Last, the parts together: the database is that of DatabaseProofs, and   *)
(* the Markov model that of MarkovProofs.                                  *)
(***************************************************************************)
EXTENDS BackgroundParts, TLAPS

\* Tokens are paid for: each message sent, or let through and not yet sent,
\* took one, and only refills (and chance) put any in.
TokensAccounted ==
  Len(sent) + (IF worker = "send" THEN 1 ELSE 0) + tokens <= found + limit * refills

\* Refills lie at least a period apart.
RefillsApart ==
  refills = 0 \/ (refills - 1) * period <= last_refilled - Start

Typed ==
  /\ tokens \in Nat /\ tokens < TokenSpan
  /\ last_refilled \in Nat /\ last_attempted \in Nat /\ now \in Nat
  /\ wake \in Nat /\ refills \in Nat /\ paused \in Nat /\ found \in Nat
  /\ last_refilled <= now /\ last_attempted <= now
  /\ sleeps \in 0..3
  /\ worker \in {"pop", "attempt", "asleep", "send"}
  /\ sent \in Seq(Nat)

IInv == Typed /\ TokensAccounted /\ RefillsApart /\ now >= Start

-----------------------------------------------------------------------------
\* Facts of arithmetic the provers need to be given.
LEMMA ModLemma ==
  ASSUME NEW a \in Nat, NEW b \in Nat \ {0}
  PROVE  a % b \in Nat /\ a % b < b /\ a % b <= a
OBVIOUS

LEMMA ProductIsNat ==
  ASSUME NEW a \in Nat, NEW b \in Nat
  PROVE  a * b \in Nat
OBVIOUS

LEMMA DivLemma ==
  ASSUME NEW k \in Nat, NEW x \in Nat, NEW p \in Nat \ {0}, k * p <= x
  PROVE  x \div p \in Nat /\ k <= x \div p
<1> DEFINE q == x \div p
<1>1. q \in Nat /\ x < (q + 1) * p
  OBVIOUS
<1> HIDE DEF q
<1>2. SUFFICES ASSUME k > q PROVE FALSE
  BY <1>1 DEF q
<1>3. PICK d \in Nat : k = (q + 1) + d
  <2>1. k - (q + 1) \in Nat /\ k = (q + 1) + (k - (q + 1))
    BY <1>1, <1>2
  <2> QED
    BY <2>1
<1>4. k * p = (q + 1) * p + d * p
  BY <1>1, <1>3
<1>5. d * p \in Nat /\ (q + 1) * p \in Nat
  BY <1>1, <1>3
<1> QED
  BY <1>1, <1>4, <1>5

-----------------------------------------------------------------------------
\* A refill adds no more than the limit, stays in the type's range, and never
\* leaves the bucket empty.
LEMMA RefilledBounds ==
  ASSUME tokens \in Nat, tokens < TokenSpan
  PROVE  /\ Refilled \in Nat /\ Refilled < TokenSpan
         /\ Refilled >= limit /\ Refilled <= tokens + limit
<1> DEFINE sum == (tokens + limit) % TokenSpan
<1>1. sum \in Nat /\ sum < TokenSpan /\ sum <= tokens + limit
  BY ModLemma, ArgumentsAssumption
<1> HIDE DEF sum
<1>2. Refilled = Larger(limit, sum)
  BY DEF Refilled, sum
<1> QED
  BY <1>1, <1>2, ArgumentsAssumption DEF Larger

LEMMA StartIsNat == Start \in Nat /\ Start >= period
BY ArgumentsAssumption DEF Start

THEOREM InitIInv == Init => IInv
<1> SUFFICES ASSUME Init PROVE IInv
  OBVIOUS
<1>1. Typed
  BY ArgumentsAssumption, StartIsNat DEF Init, Typed
<1>2. TokensAccounted
  BY <1>1, ArgumentsAssumption DEF Init, TokensAccounted, Typed
<1>3. RefillsApart /\ now >= Start
  BY StartIsNat DEF Init, RefillsApart
<1> QED
  BY <1>1, <1>2, <1>3 DEF IInv

\* An attempt, which may refill the bucket and may let a message through.
LEMMA AttemptKeepsIInv == IInv /\ Attempt => IInv'
<1> SUFFICES ASSUME IInv, Attempt PROVE IInv'
  OBVIOUS
<1> USE ArgumentsAssumption
<1>1. Typed /\ TokensAccounted /\ RefillsApart /\ now >= Start
  BY DEF IInv
<1>2. /\ worker = "attempt" /\ UNCHANGED <<now, paused, found, sent>>
      /\ tokens' = TokensNow - (IF Allowed THEN 1 ELSE 0)
      /\ last_refilled' = (IF RefillDue THEN now ELSE last_refilled)
      /\ refills' = refills + (IF RefillDue THEN 1 ELSE 0)
  BY DEF Attempt, Refill
<1>3. worker' = (IF Allowed THEN "send" ELSE "asleep")
  BY DEF Attempt
<1>4. Allowed => TokensNow > 0
  BY DEF Allowed
<1>5. /\ TokensNow \in Nat /\ TokensNow < TokenSpan
      /\ TokensNow <= tokens + (IF RefillDue THEN limit ELSE 0)
  <2>1. CASE RefillDue
    BY <1>1, <2>1, RefilledBounds DEF TokensNow, Typed
  <2>2. CASE ~RefillDue
    BY <1>1, <2>2 DEF TokensNow, Typed
  <2> QED
    BY <2>1, <2>2
<1>6. tokens' \in Nat /\ tokens' < TokenSpan
      /\ tokens' + (IF worker' = "send" THEN 1 ELSE 0) = TokensNow
  BY <1>2, <1>3, <1>4, <1>5
<1>7. last_refilled' \in Nat /\ refills' \in Nat /\ last_refilled' <= now'
  BY <1>1, <1>2 DEF Typed
<1>8. Typed'
  <2>1. last_attempted' \in Nat /\ last_attempted' <= now'
    BY <1>1, <1>2 DEF Attempt, Typed
  <2>2. wake' \in Nat
    <3>1. CASE Allowed
      BY <1>1, <3>1 DEF Attempt, Typed
    <3>2. CASE ~Allowed
      BY <1>1, <1>7, <3>2 DEF Attempt, NextTime, Larger, Typed
    <3> QED
      BY <3>1, <3>2
  <2>3. sleeps' \in 0..3
    BY <1>1 DEF Attempt, Typed
  <2> QED
    BY <1>1, <1>2, <1>3, <1>6, <1>7, <2>1, <2>2, <2>3 DEF Typed
<1>9. TokensAccounted'
  <2>1. Len(sent) \in Nat /\ tokens \in Nat /\ found \in Nat /\ refills \in Nat
    BY <1>1 DEF Typed
  <2>2. Len(sent) + tokens <= found + limit * refills
    BY <1>1, <1>2, <2>1 DEF TokensAccounted
  <2>3. Len(sent) + TokensNow <= found + limit * refills'
    <3>1. CASE RefillDue
      <4>1. limit * (refills + 1) = limit * refills + limit /\ limit * refills \in Nat
        BY <2>1
      <4> QED
        BY <1>2, <1>5, <2>1, <2>2, <3>1, <4>1
    <3>2. CASE ~RefillDue
      <4>1. refills' = refills /\ limit * refills \in Nat
        BY <1>2, <2>1, <3>2
      <4> QED
        BY <1>5, <2>1, <2>2, <3>2, <4>1
    <3> QED
      BY <3>1, <3>2
  <2>4. sent' = sent /\ found' = found
    BY <1>2
  <2>5. limit * refills' \in Nat
    BY <1>7, ProductIsNat
  <2>6. Len(sent) + (IF worker' = "send" THEN 1 ELSE 0) + tokens' = Len(sent) + TokensNow
    BY <1>3, <1>6, <2>1
  <2> QED
    BY <2>3, <2>4, <2>6 DEF TokensAccounted
<1>10. RefillsApart' /\ now' >= Start
  <2>1. CASE ~RefillDue
    <3>1. refills' = refills /\ last_refilled' = last_refilled /\ now' = now
      BY <1>1, <1>2, <2>1 DEF Typed
    <3> QED
      BY <1>1, <3>1 DEF RefillsApart
  <2>2. CASE RefillDue
    <3>1. last_refilled' = now /\ refills' = refills + 1 /\ now >= last_refilled + period
      BY <1>2, <2>2 DEF RefillDue
    <3>2. now \in Nat /\ Start \in Nat /\ refills \in Nat /\ last_refilled \in Nat
      BY <1>1, StartIsNat DEF Typed
    <3>3. CASE refills = 0
      <4>1. (refills' - 1) * period = 0
        BY <3>1, <3>3
      <4> QED
        BY <1>1, <1>2, <3>1, <3>2, <4>1 DEF RefillsApart
    <3>4. CASE refills # 0
      <4>1. (refills - 1) * period <= last_refilled - Start
        BY <1>1, <3>4 DEF RefillsApart
      <4>2. (refills' - 1) * period = (refills - 1) * period + period
            /\ (refills - 1) * period \in Nat
        BY <3>1, <3>2, <3>4
      <4>3. (refills' - 1) * period <= now - Start
        BY <3>1, <3>2, <4>1, <4>2
      <4> QED
        BY <1>1, <1>2, <3>1, <4>3 DEF RefillsApart
    <3> QED
      BY <3>3, <3>4
  <2> QED
    BY <2>1, <2>2
<1> QED
  BY <1>8, <1>9, <1>10 DEF IInv

\* Taking a message, waking up and sending: time passes, no token moves.
LEMMA WorkerKeepsIInv == IInv /\ (Pop \/ Wake \/ Send) => IInv'
<1> SUFFICES ASSUME IInv, Pop \/ Wake \/ Send PROVE IInv'
  OBVIOUS
<1> USE ArgumentsAssumption, EnvironmentAssumption
<1>1. Typed /\ TokensAccounted /\ RefillsApart /\ now >= Start
  BY DEF IInv
<1>2. UNCHANGED <<tokens, last_refilled, last_attempted, refills, found>>
  BY DEF Pop, Wake, Send
<1>3. now' \in Nat /\ now' >= now
  <2>1. CASE Pop
    BY <1>1, <2>1 DEF Pop, Typed
  <2>2. CASE Wake
    BY <1>1, <2>2 DEF Wake, Larger, Typed
  <2>3. CASE Send
    BY <1>1, <2>3 DEF Send, Typed
  <2> QED
    BY <2>1, <2>2, <2>3
<1>4. Typed'
  <2>1. last_refilled <= now' /\ last_attempted <= now'
    BY <1>1, <1>3 DEF Typed
  <2>2. /\ wake' \in Nat /\ sleeps' \in 0..3 /\ paused' \in Nat
        /\ worker' \in {"pop", "attempt", "asleep", "send"}
    <3>1. CASE Pop
      BY <1>1, <3>1 DEF Pop, Typed
    <3>2. CASE Wake
      BY <1>1, <3>2 DEF Wake, Typed
    <3>3. CASE Send
      BY <1>1, <3>3 DEF Send, Typed
    <3> QED
      BY <3>1, <3>2, <3>3
  <2>3. sent' \in Seq(Nat)
    <3>1. CASE Pop \/ Wake
      BY <1>1, <3>1 DEF Pop, Wake, Typed
    <3>2. CASE Send
      BY <1>1, <1>3, <3>2 DEF Send, Typed
    <3> QED
      BY <3>1, <3>2
  <2> QED
    BY <1>1, <1>2, <1>3, <2>1, <2>2, <2>3 DEF Typed
<1>5. TokensAccounted'
  <2>1. CASE Pop \/ Wake
    BY <1>1, <1>2, <2>1 DEF Pop, Wake, TokensAccounted
  <2>2. CASE Send
    <3>1. Len(sent') = Len(sent) + 1 /\ Len(sent) \in Nat /\ worker = "send" /\ worker' = "pop"
      BY <1>1, <1>3, <2>2 DEF Send, Typed
    <3> QED
      BY <1>1, <1>2, <3>1 DEF TokensAccounted, Typed
  <2> QED
    BY <2>1, <2>2
<1>6. RefillsApart' /\ now' >= Start
  BY <1>1, <1>2, <1>3, StartIsNat DEF RefillsApart, Typed
<1> QED
  BY <1>4, <1>5, <1>6 DEF IInv

LEMMA NextKeepsIInv == IInv /\ [Next]_vars => IInv'
<1>1. IInv /\ UNCHANGED vars => IInv'
  BY DEF vars, IInv, Typed, TokensAccounted, RefillsApart
<1> QED
  BY <1>1, AttemptKeepsIInv, WorkerKeepsIInv DEF Next

\* The inductive invariant bounds the messages by the periods begun.
LEMMA RateLemma == IInv => AverageRate
<1> SUFFICES ASSUME IInv PROVE AverageRate
  OBVIOUS
<1> USE ArgumentsAssumption
<1> DEFINE q == (now - Start) \div period
<1>1. /\ Len(sent) \in Nat /\ tokens \in Nat /\ found \in Nat /\ refills \in Nat
      /\ now \in Nat /\ now - Start \in Nat /\ last_refilled \in Nat /\ last_refilled <= now
  BY StartIsNat DEF IInv, Typed
<1>2. limit * refills \in Nat
  BY <1>1
<1>3. Len(sent) <= found + limit * refills
  BY <1>1, <1>2 DEF IInv, TokensAccounted
<1>4. q \in Nat /\ refills <= 1 + q
  <2>1. CASE refills = 0
    <3>1. q \in Nat
      BY <1>1, DivLemma
    <3> HIDE DEF q
    <3> QED
      BY <2>1, <3>1
  <2>2. CASE refills # 0
    <3>1. refills - 1 \in Nat /\ (refills - 1) * period \in Nat
      BY <1>1, <2>2
    <3>2. (refills - 1) * period <= now - Start
      <4>1. (refills - 1) * period <= last_refilled - Start
        BY <2>2 DEF IInv, RefillsApart
      <4> DEFINE r == (refills - 1) * period
      <4>2. r \in Nat /\ r <= last_refilled - Start
        BY <3>1, <4>1
      <4> HIDE DEF r
      <4>3. r <= now - Start
        BY <1>1, <4>2, StartIsNat
      <4> QED
        BY <4>3 DEF r
    <3>3. q \in Nat /\ refills - 1 <= q
      BY <1>1, <3>1, <3>2, DivLemma
    <3> HIDE DEF q
    <3> QED
      BY <1>1, <3>3
  <2> QED
    BY <2>1, <2>2
<1> HIDE DEF q
<1>5. PICK d \in Nat : 1 + q = refills + d
  <2>1. 1 + q - refills \in Nat /\ 1 + q = refills + (1 + q - refills)
    BY <1>1, <1>4
  <2> QED
    BY <2>1
<1>6. limit * (1 + q) = limit * refills + limit * d /\ limit * d \in Nat
  BY <1>1, <1>5
<1>7. Len(sent) <= found + limit * (1 + q)
  BY <1>1, <1>2, <1>3, <1>6
<1> QED
  BY <1>7 DEF AverageRate, q

THEOREM Invariance == Spec => []IInv
BY InitIInv, NextKeepsIInv, PTL DEF Spec

\* The tokens stay in the range of their type, no clock field runs ahead of
\* the clock, and the other variables keep their types.
THEOREM TypeCorrect == Spec => []TypeOK
<1>1. IInv => TypeOK
  BY ArgumentsAssumption DEF IInv, Typed, TypeOK
<1> QED
  BY <1>1, Invariance, PTL

\* For every limit, period and interval, any delays and any pauses: no more
\* messages than the limit for each period begun (beyond the garbage the
\* bucket started with).
THEOREM AverageRateHolds == Spec => []AverageRate
BY RateLemma, Invariance, PTL

-----------------------------------------------------------------------------
(* Sleeps *)

\* At the given time an attempt succeeds: there is a token, or will be if the
\* bucket is due for more, and the interval is over.
GoodAt(time) == tokens > 0 /\ time >= last_attempted + min_interval

\* At the given time the bucket is refilled.
RefillAt(time) == time >= last_refilled + period

\* The first sleep is until the refill or until the interval is over, and the
\* second one until the interval is over with a token at hand.
SleepsInTurn ==
  /\ sleeps <= 2
  /\ worker = "attempt" => /\ sleeps = 1 => RefillAt(now) \/ GoodAt(now)
                           /\ sleeps = 2 => GoodAt(now)
  /\ worker = "asleep" => /\ sleeps \in {1, 2}
                          /\ sleeps = 1 => RefillAt(wake) \/ GoodAt(wake)
                          /\ sleeps = 2 => GoodAt(wake)

\* An attempt at a good time is not refused; one that finds the bucket due is
\* refused for the interval only; and next() is a good time or that of a refill.
LEMMA AttemptKeepsSleeps == IInv /\ SleepsInTurn /\ Attempt => SleepsInTurn'
<1> SUFFICES ASSUME IInv, SleepsInTurn, Attempt PROVE SleepsInTurn'
  OBVIOUS
<1> USE ArgumentsAssumption
<1>1. Typed
  BY DEF IInv
<1>2. RefillDue => TokensNow > 0
  BY <1>1, RefilledBounds DEF TokensNow, Typed
<1>3. ~RefillDue => TokensNow = tokens
  BY DEF TokensNow
<1>4. TokensNow \in Nat
  BY <1>1, RefilledBounds DEF TokensNow, Typed
<1>5. CASE Allowed
  BY <1>5 DEF Attempt, SleepsInTurn
<1>6. CASE ~Allowed
  <2>1. /\ worker = "attempt" /\ worker' = "asleep" /\ tokens' = TokensNow
        /\ last_attempted' = last_attempted
        /\ last_refilled' = (IF RefillDue THEN now ELSE last_refilled)
        /\ wake' = NextTime(tokens', last_refilled')
        /\ sleeps' = (IF sleeps < 3 THEN sleeps + 1 ELSE 3)
    BY <1>4, <1>6 DEF Attempt, Refill
  <2>2. ~GoodAt(now)
    BY <1>1, <1>2, <1>3, <1>6 DEF GoodAt, Allowed, Typed
  <2>3. sleeps \in {0, 1} /\ (sleeps = 1 => RefillDue)
    BY <1>1, <2>1, <2>2 DEF SleepsInTurn, RefillAt, RefillDue, Typed
  <2>4. CASE TokensNow > 0
    <3>1. wake' >= last_attempted' + min_interval
      BY <1>1, <2>1, <2>4 DEF NextTime, Larger, Typed
    <3>2. GoodAt(wake)'
      BY <2>1, <2>4, <3>1 DEF GoodAt
    <3> QED
      BY <2>1, <2>3, <3>2 DEF SleepsInTurn
  <2>5. CASE ~(TokensNow > 0)
    <3>1. sleeps = 0 /\ wake' = last_refilled' + period
      BY <1>2, <2>1, <2>3, <2>5 DEF NextTime
    <3>2. RefillAt(wake)'
      BY <1>1, <2>1, <3>1 DEF RefillAt, Typed
    <3> QED
      BY <2>1, <3>1, <3>2 DEF SleepsInTurn
  <2> QED
    BY <2>4, <2>5
<1> QED
  BY <1>5, <1>6

\* A sleep ends at its time or later, when the time is still good.
LEMMA WorkerKeepsSleeps == IInv /\ SleepsInTurn /\ (Pop \/ Wake \/ Send) => SleepsInTurn'
<1> SUFFICES ASSUME IInv, SleepsInTurn, Pop \/ Wake \/ Send PROVE SleepsInTurn'
  OBVIOUS
<1> USE ArgumentsAssumption, EnvironmentAssumption
<1>1. Typed
  BY DEF IInv
<1>2. CASE Pop \/ Send
  BY <1>2 DEF Pop, Send, SleepsInTurn
<1>3. CASE Wake
  <2>1. now' >= wake /\ now' \in Nat
    BY <1>1, <1>3 DEF Wake, Larger, Typed
  <2>2. UNCHANGED <<tokens, last_refilled, last_attempted, sleeps>>
      /\ worker = "asleep" /\ worker' = "attempt"
    BY <1>3 DEF Wake
  <2>3. RefillAt(wake) => RefillAt(now)'
    BY <1>1, <2>1, <2>2 DEF RefillAt, Typed
  <2>4. GoodAt(wake) => GoodAt(now)'
    BY <1>1, <2>1, <2>2 DEF GoodAt, Typed
  <2> QED
    BY <2>2, <2>3, <2>4 DEF SleepsInTurn
<1> QED
  BY <1>2, <1>3

\* For every limit, period and interval, and however late a sleep ends: a
\* message sleeps at most twice, for the refill and for the interval.
THEOREM AtMostTwoSleepsHolds == Spec => []AtMostTwoSleeps
<1>1. Init => SleepsInTurn
  BY DEF Init, SleepsInTurn
<1>2. IInv /\ SleepsInTurn /\ [Next]_vars => SleepsInTurn'
  <2>1. SleepsInTurn /\ UNCHANGED vars => SleepsInTurn'
    BY DEF vars, SleepsInTurn, RefillAt, GoodAt
  <2> QED
    BY <2>1, AttemptKeepsSleeps, WorkerKeepsSleeps DEF Next
<1>3. SleepsInTurn => AtMostTwoSleeps
  BY DEF SleepsInTurn, AtMostTwoSleeps
<1> QED
  BY <1>1, <1>2, <1>3, Invariance, PTL DEF Spec

-----------------------------------------------------------------------------
(* The parts together *)

SavingOf == INSTANCE DatabaseProofs
TrainingOf == INSTANCE MarkovProofs WITH worker <- trainee

\* The part that a behaviour is of goes its way, and the others stay.
LEMMA PartsAreSpecs == PartsSpec => Spec /\ Saving!Spec /\ Training!Spec
<1>1. PartsInit => Init /\ Saving!Init /\ Training!Init
  BY DEF PartsInit
<1>2. [PartsNext]_allVars => [Next]_vars
  BY DEF PartsNext, allVars
<1>3. [PartsNext]_allVars => [Saving!Next]_(Saving!vars)
  BY DEF PartsNext, allVars, databaseVars, Saving!vars
<1>4. [PartsNext]_allVars => [Training!Next]_(Training!vars)
  BY DEF PartsNext, allVars, markovVars, Training!vars, Training!model, Training!counters,
     Training!training, Training!retraining, Training!generating, Training!fixed
<1> QED
  BY <1>1, <1>2, <1>3, <1>4, PTL DEF PartsSpec, Spec, Saving!Spec, Training!Spec

\* The database is the one that DatabaseProofs is about.
LEMMA SameDatabase ==
  /\ Saving!Spec <=> SavingOf!Spec
  /\ Saving!StartsAgain <=> SavingOf!StartsAgain
  /\ Saving!SavedDataIsKept <=> SavingOf!SavedDataIsKept
  /\ Saving!TypeOK <=> SavingOf!TypeOK
<1>1. /\ Saving!Init <=> SavingOf!Init
      /\ [Saving!Next]_(Saving!vars) <=> [SavingOf!Next]_(SavingOf!vars)
  BY DEF Saving!vars, SavingOf!vars, Saving!Syncers, SavingOf!Syncers, Saving!Files,
     SavingOf!Files, Saving!Saved, SavingOf!Saved, Saving!Empty, SavingOf!Empty,
     Saving!Whole, SavingOf!Whole, Saving!OnDisk, SavingOf!OnDisk, Saving!Init,
     SavingOf!Init, Saving!Alive, SavingOf!Alive, Saving!Start, SavingOf!Start,
     Saving!Created, SavingOf!Created, Saving!Load, SavingOf!Load, Saving!BackUp,
     SavingOf!BackUp, Saving!BackedUp, SavingOf!BackedUp, Saving!Mark, SavingOf!Mark,
     Saving!Locked, SavingOf!Locked, Saving!Modify, SavingOf!Modify, Saving!SyncGoes,
     SavingOf!SyncGoes, Saving!BackgroundSync, SavingOf!BackgroundSync, Saving!ConsoleSync,
     SavingOf!ConsoleSync, Saving!Shutdown, SavingOf!Shutdown, Saving!Exit, SavingOf!Exit,
     Saving!LockAndSerialise, SavingOf!LockAndSerialise, Saving!EndSync, SavingOf!EndSync,
     Saving!SyncFails, SavingOf!SyncFails, Saving!Unused, SavingOf!Unused, Saving!Open,
     SavingOf!Open, Saving!PutAt, SavingOf!PutAt, Saving!Put, SavingOf!Put, Saving!Write,
     SavingOf!Write, Saving!WriteRest, SavingOf!WriteRest, Saving!Rename, SavingOf!Rename,
     Saving!Crash, SavingOf!Crash, Saving!SyncStep, SavingOf!SyncStep, Saving!MainStep,
     SavingOf!MainStep, Saving!Next, SavingOf!Next
<1>2. Saving!StartsAgain <=> SavingOf!StartsAgain
  BY DEF Saving!StartsAgain, SavingOf!StartsAgain
<1>3. /\ Saving!NothingSavedIsLost <=> SavingOf!NothingSavedIsLost
      /\ Saving!OldVersionKept <=> SavingOf!OldVersionKept
  BY DEF Saving!Saved, SavingOf!Saved, Saving!Whole, SavingOf!Whole, Saving!OnDisk,
     SavingOf!OnDisk, Saving!vars, SavingOf!vars, Saving!NothingSavedIsLost,
     SavingOf!NothingSavedIsLost, Saving!OldVersionKept, SavingOf!OldVersionKept
<1>4. Saving!TypeOK <=> SavingOf!TypeOK
  BY DEF Saving!Files, SavingOf!Files, Saving!Syncers, SavingOf!Syncers, Saving!TypeOK,
     SavingOf!TypeOK
<1> QED
  BY <1>1, <1>2, <1>3, <1>4, PTL
     DEF Saving!Spec, SavingOf!Spec, Saving!SavedDataIsKept, SavingOf!SavedDataIsKept

\* The model is the one that MarkovProofs is about.
LEMMA SameModel ==
  /\ Training!Spec <=> TrainingOf!Spec
  /\ Training!ModelAgrees <=> TrainingOf!ModelAgrees
  /\ Training!TypeOK <=> TrainingOf!TypeOK
<1>1. /\ Training!Init <=> TrainingOf!Init
      /\ Training!vars = TrainingOf!vars
  BY DEF Training!Init, TrainingOf!Init, Training!vars, TrainingOf!vars, Training!NoItem,
     TrainingOf!NoItem, Training!Item, TrainingOf!Item, Training!IDX_START_MARKER,
     TrainingOf!IDX_START_MARKER, Training!model, TrainingOf!model, Training!counters,
     TrainingOf!counters, Training!training, TrainingOf!training, Training!retraining,
     TrainingOf!retraining, Training!generating, TrainingOf!generating, Training!fixed,
     TrainingOf!fixed
<1>2. Training!GetIndices <=> TrainingOf!GetIndices
  BY DEF Training!GetIndices, TrainingOf!GetIndices, Training!WithIndex, TrainingOf!WithIndex,
     Training!Key, TrainingOf!Key, Training!Updates, TrainingOf!Updates,
     Training!IDX_START_MARKER, TrainingOf!IDX_START_MARKER, Training!IDX_END_MARKER,
     TrainingOf!IDX_END_MARKER, Training!model, TrainingOf!model, Training!counters,
     TrainingOf!counters, Training!training, TrainingOf!training, Training!retraining,
     TrainingOf!retraining, Training!generating, TrainingOf!generating, Training!fixed,
     TrainingOf!fixed, Training!FoldLeft, TrainingOf!FoldLeft, Training!MapThenFoldSet,
     TrainingOf!MapThenFoldSet, Training!Max, TrainingOf!Max, Training!FlattenSeq,
     TrainingOf!FlattenSeq
<1>3. Training!Next <=> TrainingOf!Next
  BY <1>2 DEF Training!model, TrainingOf!model, Training!counters, TrainingOf!counters,
     Training!training, TrainingOf!training, Training!retraining, TrainingOf!retraining,
     Training!generating, TrainingOf!generating, Training!fixed, TrainingOf!fixed,
     Training!IDX_START_MARKER, TrainingOf!IDX_START_MARKER, Training!IDX_END_MARKER,
     TrainingOf!IDX_END_MARKER, Training!Item, TrainingOf!Item, Training!NoItem,
     TrainingOf!NoItem, Training!Process, TrainingOf!Process, Training!Shutdown,
     TrainingOf!Shutdown, Training!Pop, TrainingOf!Pop, Training!Processed,
     TrainingOf!Processed, Training!Discard, TrainingOf!Discard, Training!Update,
     TrainingOf!Update, Training!Count, TrainingOf!Count, Training!ClearTotal,
     TrainingOf!ClearTotal, Training!ClearCompleted, TrainingOf!ClearCompleted, Training!Reset,
     TrainingOf!Reset, Training!Load, TrainingOf!Load, Training!Store, TrainingOf!Store,
     Training!PushQuiet, TrainingOf!PushQuiet, Training!NotifyPending, TrainingOf!NotifyPending,
     Training!Watch, TrainingOf!Watch, Training!Seed, TrainingOf!Seed, Training!Followers,
     TrainingOf!Followers, Training!LastOf, TrainingOf!LastOf, Training!NextWords,
     TrainingOf!NextWords, Training!Grow, TrainingOf!Grow, Training!Read, TrainingOf!Read,
     Training!Restart, TrainingOf!Restart, Training!WorkerStep, TrainingOf!WorkerStep,
     Training!TrainerStep, TrainingOf!TrainerStep, Training!Next, TrainingOf!Next
<1>4. Training!ModelAgrees <=> TrainingOf!ModelAgrees
  <2>1. Training!IndicesNameTheirWord <=> TrainingOf!IndicesNameTheirWord
    BY DEF Training!Valid, TrainingOf!Valid, Training!IndicesNameTheirWord,
       TrainingOf!IndicesNameTheirWord
  <2>2. Training!IndicesAreValid <=> TrainingOf!IndicesAreValid
    BY DEF Training!Valid, TrainingOf!Valid, Training!TableIsValid, TrainingOf!TableIsValid,
       Training!OutputIsValid, TrainingOf!OutputIsValid, Training!IndicesAreValid,
       TrainingOf!IndicesAreValid
  <2>3. Training!Outstanding = TrainingOf!Outstanding
    BY DEF Training!Outstanding, TrainingOf!Outstanding, Training!Cardinality,
       TrainingOf!Cardinality
  <2>4. Training!CountersAgree <=> TrainingOf!CountersAgree
    BY <2>3 DEF Training!CountersAgree, TrainingOf!CountersAgree
  <2> QED
    BY <2>1, <2>2, <2>4 DEF Training!ModelAgrees, TrainingOf!ModelAgrees
<1>5. Training!TypeOK <=> TrainingOf!TypeOK
  BY DEF Training!TypeOK, TrainingOf!TypeOK, Training!IDX_START_MARKER,
     TrainingOf!IDX_START_MARKER, Training!IDX_END_MARKER, TrainingOf!IDX_END_MARKER
<1> QED
  <2>1. [Training!Next]_(Training!vars) <=> [TrainingOf!Next]_(TrainingOf!vars)
    BY <1>3 DEF Training!vars, TrainingOf!vars, Training!model, TrainingOf!model,
       Training!counters, TrainingOf!counters, Training!training, TrainingOf!training,
       Training!retraining, TrainingOf!retraining, Training!generating, TrainingOf!generating,
       Training!fixed, TrainingOf!fixed
  <2> QED
    BY <1>1, <1>4, <1>5, <2>1, PTL DEF Training!Spec, TrainingOf!Spec

\* A process that finds a database loads it, whenever the last one was killed.
THEOREM StartsAgainHolds ==
  MaxValue \in Nat /\ MaxStarts \in Nat => (PartsSpec => []StartsAgain)
<1> SUFFICES ASSUME MaxValue \in Nat, MaxStarts \in Nat PROVE PartsSpec => []StartsAgain
  OBVIOUS
<1>1. SavingOf!Spec => []SavingOf!StartsAgain
  BY SavingOf!StartsAgainHolds DEF SavingOf!BoundsAreNat
<1>2. Saving!StartsAgain <=> SavingOf!StartsAgain
  BY SameDatabase
<1> QED
  BY <1>1, <1>2, SameDatabase, PartsAreSpecs, PTL DEF StartsAgain

\* What was saved is not replaced by something older, nor is an old database before
\* it is backed up.
THEOREM SavedDataIsKeptHolds ==
  MaxValue \in Nat /\ MaxStarts \in Nat => (PartsSpec => SavedDataIsKept)
<1> SUFFICES ASSUME MaxValue \in Nat, MaxStarts \in Nat PROVE PartsSpec => SavedDataIsKept
  OBVIOUS
<1>1. SavingOf!Spec => SavingOf!SavedDataIsKept
  BY SavingOf!SavedDataIsKeptHolds DEF SavingOf!BoundsAreNat
<1> QED
  BY <1>1, SameDatabase, PartsAreSpecs, PTL DEF SavedDataIsKept

\* For any sentences of words that are said and logged, and any number of retrainings
\* and restarts: the words, their indices, the table, what is generated and the counters
\* of a retraining agree.
THEOREM ModelAgreesHolds == TrainingOf!Bounds => (PartsSpec => []ModelAgrees)
<1> SUFFICES ASSUME TrainingOf!Bounds PROVE PartsSpec => []ModelAgrees
  OBVIOUS
<1>1. TrainingOf!Spec => []TrainingOf!ModelAgrees
  BY TrainingOf!ModelAgreesHolds
<1>2. Training!ModelAgrees <=> TrainingOf!ModelAgrees
  BY SameModel
<1> QED
  BY <1>1, <1>2, SameModel, PartsAreSpecs, PTL DEF ModelAgrees

\* No part of the bucket, of the database that is saved or of the model is ever
\* without its type.
THEOREM PartsTypeCorrect ==
  MaxValue \in Nat /\ MaxStarts \in Nat /\ TrainingOf!Bounds => (PartsSpec => []PartsTypeOK)
<1> SUFFICES ASSUME MaxValue \in Nat, MaxStarts \in Nat, TrainingOf!Bounds
             PROVE  PartsSpec => []PartsTypeOK
  OBVIOUS
<1>1. SavingOf!Spec => []SavingOf!TypeOK
  BY SavingOf!TypeCorrect DEF SavingOf!BoundsAreNat
<1>2. TrainingOf!Spec => []TrainingOf!TypeOK
  BY TrainingOf!TypeCorrect
<1>3. /\ Saving!TypeOK <=> SavingOf!TypeOK
      /\ Training!TypeOK <=> TrainingOf!TypeOK
  BY SameDatabase, SameModel
<1> QED
  BY <1>1, <1>2, <1>3, SameDatabase, SameModel, PartsAreSpecs, TypeCorrect, PTL
     DEF PartsTypeOK
=============================================================================
