------------------------------- MODULE Timers -------------------------------
(***************************************************************************)
(* The timers of a Discord channel (backends/discord/channel.cpp): the     *)
(* thread that processes messages and the console's start and stop them,   *)
(* each has a thread that shows it, and when that ends a job of the        *)
(* dispatcher stops what is then the channel's timer.                      *)
(*                                                                         *)
(* The n-th timer is n, and so is the job at the end of its thread.        *)
(* Messages, the time and the lambda of an eval timer, which is evaluated  *)
(* under the interpreter's lock and holds no other, are left out: a timer  *)
(* may come to its end in any turn.                                        *)
(***************************************************************************)
EXTENDS Naturals

CONSTANT MaxTimers  \* bound on the timers of a behaviour

VARIABLES active,   \* activeTimers[channel], 0 for none
          started,  \* how many timers there have been
          worker,   \* where the thread of each timer is
          stop,     \* the timers told to stop
          deleted,
          place,    \* where each user and each end job is
          timer     \* the timer that each of them has made or taken

vars == <<active, started, worker, stop, deleted, place, timer>>

Ids == 1..MaxTimers
Messages == 0
Console == MaxTimers + 1
Starters == {Messages, Console}
Stoppers == Starters \cup Ids

Init ==
  /\ active = 0 /\ started = 0
  /\ worker = [n \in Ids |-> "none"]
  /\ stop = {} /\ deleted = {}
  /\ place = [s \in Stoppers |-> IF s \in Starters THEN "idle" ELSE "none"]
  /\ timer = [s \in Stoppers |-> 0]

-----------------------------------------------------------------------------
(* startTimer and startEvalTimer *)

\* The map is read under one lock, "timer already active" or not.
Find(u) ==
  /\ place[u] = "idle" /\ active = 0
  /\ place' = [place EXCEPT ![u] = "setup"]
  /\ UNCHANGED <<active, started, worker, stop, deleted, timer>>

\* setup_worker: the thread runs before its timer is in the map.
SetupWorker(u) ==
  /\ place[u] = "setup" /\ started < MaxTimers
  /\ started' = started + 1
  /\ timer' = [timer EXCEPT ![u] = started']
  /\ worker' = [worker EXCEPT ![started'] = "first"]
  /\ place' = [place EXCEPT ![u] = "insert"]
  /\ UNCHANGED <<active, stop, deleted>>

\* std::map::insert: where the other user was faster, the timer is nobody's.
Insert(u) ==
  /\ place[u] = "insert"
  /\ active' = IF active = 0 THEN timer[u] ELSE active
  /\ timer' = [timer EXCEPT ![u] = 0]
  /\ place' = [place EXCEPT ![u] = "idle"]
  /\ UNCHANGED <<started, worker, stop, deleted>>

-----------------------------------------------------------------------------
(* The thread of a timer *)

\* "must kill from another thread."
Ends(n) == /\ worker' = [worker EXCEPT ![n] = "ended"]
           /\ place' = [place EXCEPT ![n] = "idle"]

\* The first message is sent, or that fails and the timer is over.
SendFirst(n) ==
  /\ worker[n] = "first"
  /\ \/ worker' = [worker EXCEPT ![n] = "ticks"] /\ UNCHANGED place
     \/ Ends(n)
  /\ UNCHANGED <<active, started, stop, deleted, timer>>

\* The loop is left when the timer is told to stop, has counted down or its
\* expression failed; the last message is sent.
SendLast(n) ==
  /\ worker[n] = "ticks"
  /\ Ends(n)
  /\ UNCHANGED <<active, started, stop, deleted, timer>>

-----------------------------------------------------------------------------
(* stopTimer, of a user or of an end job *)

Free(s) == IF s \in Starters THEN "idle" ELSE "done"

\* Whatever timer the channel has is taken out of the map and told to stop.
Take(s) ==
  /\ place[s] = "idle" /\ (s \in Starters => active # 0)
  /\ timer' = [timer EXCEPT ![s] = active]
  /\ active' = 0
  /\ place' = [place EXCEPT ![s] = IF active = 0 THEN Free(s) ELSE "join"]
  /\ stop' = stop \cup ({active} \ {0})
  /\ UNCHANGED <<started, worker, deleted>>

JoinAndDelete(s) ==
  /\ place[s] = "join" /\ worker[timer[s]] = "ended"
  /\ deleted' = deleted \cup {timer[s]}
  /\ timer' = [timer EXCEPT ![s] = 0]
  /\ place' = [place EXCEPT ![s] = Free(s)]
  /\ UNCHANGED <<active, started, worker, stop>>

WorkerStep(n) == SendFirst(n) \/ SendLast(n)

Next == \/ \E u \in Starters : Find(u) \/ SetupWorker(u) \/ Insert(u)
        \/ \E n \in Ids : WorkerStep(n)
        \/ \E s \in Stoppers : Take(s) \/ JoinAndDelete(s)

Spec == Init /\ [][Next]_vars

\* A thread sends what it has to, and leaves its loop if it is told to; the jobs
\* are run.  Nothing makes a user start or stop a timer.
Fairness == /\ \A n \in Ids : /\ WF_vars(SendFirst(n) \/ (n \in stop /\ SendLast(n)))
                              /\ WF_vars(Take(n) \/ JoinAndDelete(n))
            /\ \A u \in Starters : WF_vars(SetupWorker(u) \/ Insert(u) \/ JoinAndDelete(u))

FairSpec == Spec /\ Fairness

-----------------------------------------------------------------------------
TypeOK ==
  /\ active \in 0..started /\ started \in 0..MaxTimers
  /\ worker \in [Ids -> {"none", "first", "ticks", "ended"}]
  /\ stop \subseteq Ids /\ deleted \subseteq Ids
  /\ place \in [Stoppers -> {"none", "idle", "setup", "insert", "join", "done"}]
  /\ timer \in [Stoppers -> 0..MaxTimers]

\* A timer has one owner, who makes it, the map or who stops it, and is deleted by
\* the last, after its thread has ended; although the job at the end of one may come
\* late and stop the next one, and may come before its own is in the map.
OneOwner ==
  \A n \in Ids :
    /\ \A s, t \in Stoppers : timer[s] = n /\ timer[t] = n => s = t
    /\ active = n \/ n \in deleted => \A s \in Stoppers : timer[s] # n
    /\ n \in deleted => worker[n] = "ended" /\ active # n

\* In the end, a timer that was told to stop is gone, and so is one whose thread
\* has ended, if its job found it in the map.
StoppedGoes == <>[](stop \subseteq deleted /\ (active # 0 => place[active] # "idle"))
=============================================================================
