----------------------------- MODULE ThreadPool -----------------------------
(***************************************************************************)
(* The dispatcher (include/async.h, main.cpp): threads that take jobs from *)
(* a queue, callers that keep the future of a job and wait for it, jobs    *)
(* that wait for a job of their own, and the end of the pool, which is     *)
(* static and is destroyed when main() has returned and other threads      *)
(* still run.                                                              *)
(*                                                                         *)
(* The n-th job is n.  Its queue is a wait_queue, which hands over its     *)
(* elements one at a time and in order.                                    *)
(***************************************************************************)
EXTENDS Naturals, Sequences, FiniteSets, Functions

CONSTANTS Threads,   \* of the pool
          Callers,   \* threads that run jobs in it
          MaxJobs,   \* bound on the jobs of the callers
          MaxWaits   \* bound on those of them that run one and wait for it

VARIABLES jobs,      \* the queue: jobs and the marker
          future,    \* job -> who waits for it and whether it has run
          waits,     \* the jobs that wait for one of their own
          thread,    \* where each thread of the pool is
          job,       \* what it runs, and what that waits for
          caller,    \* the job that each caller waits for, 0 for none
          pool,      \* "running", then what the destructor does
          late       \* history: the jobs that came after the marker

vars == <<jobs, future, waits, thread, job, caller, pool, late>>

Marker == 0
Kept == [kept |-> TRUE, set |-> FALSE]
Discarded == [kept |-> FALSE, set |-> FALSE]

Ids == 1..(MaxJobs + MaxWaits)

Init ==
  /\ jobs = <<>> /\ future = <<>> /\ waits = {}
  /\ thread = [t \in Threads |-> "pop"]
  /\ job = [t \in Threads |-> [runs |-> 0, awaits |-> 0]]
  /\ caller = [c \in Callers |-> 0]
  /\ pool = "running" /\ late = {}

\* ThreadPool::run.  The queue must still be there.
Run(f) ==
  /\ pool # "gone"
  /\ future' = Append(future, f)
  /\ jobs' = Append(jobs, Len(future'))
  /\ late' = IF pool = "running" THEN late ELSE late \cup {Len(future')}

\* A job is run and its future discarded, or kept: the destructor of the future
\* waits for the job.
Dispatch(c) ==
  /\ caller[c] = 0 /\ Len(future) < MaxJobs
  /\ \/ Run(Discarded) /\ UNCHANGED caller
     \/ Run(Kept) /\ caller' = [caller EXCEPT ![c] = Len(future')]
  /\ \/ UNCHANGED waits
     \/ Cardinality(waits) < MaxWaits /\ waits' = waits \cup {Len(future')}
  /\ UNCHANGED <<thread, job, pool>>

FutureWaited(c) ==
  /\ caller[c] # 0 /\ future[caller[c]].set
  /\ caller' = [caller EXCEPT ![c] = 0]
  /\ UNCHANGED <<jobs, future, waits, thread, job, pool, late>>

-----------------------------------------------------------------------------
(* worker() *)

Goto(t, place) == thread' = [thread EXCEPT ![t] = place]

Pop(t) ==
  /\ thread[t] = "pop" /\ jobs # <<>>
  /\ jobs' = Tail(jobs)
  /\ IF Head(jobs) = Marker THEN Goto(t, "stop") /\ UNCHANGED job
     ELSE Goto(t, "run") /\ job' = [job EXCEPT ![t] = [runs |-> Head(jobs), awaits |-> 0]]
  /\ UNCHANGED <<future, waits, caller, pool, late>>

\* The job runs another one and waits for it before it is done: a reconnection
\* that drops a connection waits for the job that closes the socket.
RunInner(t) ==
  /\ thread[t] = "run" /\ job[t].runs \in waits
  /\ Run(Kept)
  /\ job' = [job EXCEPT ![t].awaits = Len(future')]
  /\ Goto(t, "wait")
  /\ UNCHANGED <<waits, caller, pool>>

\* The future is set when the function has returned.
Finish(t) ==
  /\ \/ thread[t] = "run" /\ job[t].runs \notin waits
     \/ thread[t] = "wait" /\ future[job[t].awaits].set
  /\ future' = [future EXCEPT ![job[t].runs].set = TRUE]
  /\ Goto(t, "pop")
  /\ job' = [job EXCEPT ![t] = [runs |-> 0, awaits |-> 0]]
  /\ UNCHANGED <<jobs, waits, caller, pool, late>>

\* Mutant: the marker is not passed on.
StopAlone(t) ==
  /\ thread[t] = "stop"
  /\ Goto(t, "gone")
  /\ UNCHANGED <<jobs, future, waits, job, caller, pool, late>>

\* The marker goes back into the queue for the next thread.
Stop(t) ==
  /\ thread[t] = "stop"
  /\ jobs' = Append(jobs, Marker)
  /\ Goto(t, "gone")
  /\ UNCHANGED <<future, waits, job, caller, pool, late>>

-----------------------------------------------------------------------------
(* ~ThreadPool *)

PushMarker ==
  /\ pool = "running" /\ pool' = "joining"
  /\ jobs' = Append(jobs, Marker)
  /\ UNCHANGED <<future, waits, thread, job, caller, late>>

\* The threads are joined one after the other.  Then the queue goes with what is
\* left in it, and a job holds a future of itself: its destructor waits for a
\* job that will never run, unless the caller has discarded it.
Joined ==
  /\ pool = "joining" /\ \A t \in Threads : thread[t] = "gone"
  /\ \A n \in Range(jobs) \ {Marker} : ~future[n].kept
  /\ pool' = "gone"
  /\ UNCHANGED <<jobs, future, waits, thread, job, caller, late>>

ThreadStep(t) == Pop(t) \/ RunInner(t) \/ Finish(t) \/ Stop(t)

Next == \/ \E c \in Callers : Dispatch(c) \/ FutureWaited(c)
        \/ \E t \in Threads : ThreadStep(t)
        \/ PushMarker \/ Joined

Spec == Init /\ [][Next]_vars

\* The threads are scheduled, functions return, and a wait ends when it can.
Fairness == /\ \A t \in Threads : WF_vars(ThreadStep(t))
            /\ \A c \in Callers : WF_vars(FutureWaited(c))
            /\ WF_vars(Joined)

FairSpec == Spec /\ Fairness

-----------------------------------------------------------------------------
TypeOK ==
  /\ Range(jobs) \subseteq 0..Len(future) /\ DOMAIN future \subseteq Ids
  /\ \A n \in DOMAIN future : future[n] \in [kept : BOOLEAN, set : BOOLEAN]
  /\ thread \in [Threads -> {"pop", "run", "wait", "stop", "gone"}]
  /\ job \in [Threads -> [runs : {0} \cup Ids, awaits : {0} \cup Ids]]
  /\ caller \in [Callers -> {0} \cup Ids]
  /\ waits \subseteq DOMAIN future /\ late \subseteq DOMAIN future
  /\ pool \in {"running", "joining", "gone"}

\* The job waits for one that came after the marker, as it would for ever.
WaitsForLate(n) == \E t \in Threads : job[t].runs = n /\ job[t].awaits \in late

\* In the end, what came before the marker was run, although jobs hold a thread
\* while they wait for others that stand behind them in the queue (fewer do than
\* there are threads), and the destructor has come to its end, unless somebody
\* ran a job in the meantime.
JobsAreDone ==
  <>[](/\ \A n \in DOMAIN future \ late : future[n].set \/ WaitsForLate(n)
       /\ pool = "joining" => late # {})
=============================================================================
