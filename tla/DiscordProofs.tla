---------------------------- MODULE DiscordProofs ---------------------------
(***************************************************************************)
(* The Discord session with any number of dispatcher threads, of failures  *)
(* and of reconnections, and with any servers: an outage has who watches   *)
(* it, a closed connection has who takes it up, and as long as all       *)
(* that disconnect have the lock the connections are kept apart.           *)
(***************************************************************************)
EXTENDS DiscordSession, TLAPS

Busy == Disconnecting \cup Resuming
Places == Busy \cup {"running", "stopping", "done", "idle", "lock"}
MayBe(a) == Busy \cup (IF a = "main" THEN {"running", "stopping", "done"} ELSE {"idle", "lock"})
Jobs == [kind : {"beat", "opcode", "dropped"}, by : Actors \cup {"rx", "hb"}]
          \cup [kind : {"sock"}, by : Actors \cup {"rx"}]

\* Where the holder of the lock is.
Place == IF lock = "none" THEN "free" ELSE pc[lock]

\* The types, as a step is shown to keep them: it is an actor or the receiver that
\* waits for a closing job, and only the main thread ends.
Types ==
  /\ lock \in {"none"} \cup Actors
  /\ pc \in [Actors -> Places] /\ \A a \in Actors : pc[a] \in MayBe(a)
  /\ after \in [Actors -> {"resume", "again", "reinit", "end"}]
  /\ \A a \in Actors : after[a] = "end" => a = "main"
  /\ worker \in [tx : {"none", "pop", "exited"}, rx : {"none", "pop", "msg", "exited"}]
  /\ hb \in [Hbs -> {"none", "check", "want", "exited"}] /\ hb_thread \in {0} \cup Hbs
  /\ txq \in Seq({"msg", "dc"}) /\ rxq \in Seq({"msg", "dc"})
  /\ ws \in {"none", "live", "lost"} /\ handler \in {"none", "identify", "real"}
  /\ on_close \in BOOLEAN /\ acked \in BOOLEAN /\ should_heartbeat \in BOOLEAN
  /\ crashed \in BOOLEAN /\ closed \in {"no", "seen", "missed", "forgotten"}
  /\ jobs \in Seq(Jobs)
  /\ failures \in 0..MaxFailures

\* A socket has its heartbeat, from when it is made until one who has told the
\* heartbeat to stop gets to close the socket too.
Stopping == {"join_hb", "wait_hb", "join_tx", "wait_tx", "join_rx", "wait_rx", "close"}
Beating ==
  ws # "none" => \/ should_heartbeat /\ \E h \in Hbs : hb[h] \in {"check", "want"}
                 \/ \E a \in Actors : pc[a] \in Stopping

\* A connection that was closed has the job of whoever noticed, or one who is about to
\* remove the close callback.  As long as the callback is empty, one logs in or is
\* about to remove it.
Noticed(q) == \E i \in 1..Len(q) : q[i] \in {Job("sock", "rx"), Job("dropped", "rx")}
Removing == Disconnecting \ {"await"}
Handling == Removing \cup {"connect", "send", "identify", "ready"}
Reconnected ==
  /\ closed = "seen" => Noticed(jobs) \/ \E a \in Actors : pc[a] \in Removing
  /\ ((ws # "none" \/ closed = "seen") /\ ~on_close) \/ closed = "missed"
       => \E a \in Actors : pc[a] \in Handling

\* Whose closing job is waiting for a thread waits for it, and for only one.
Waiting(q, a) == \E i \in 1..Len(q) : q[i] = Job("sock", a)
Waits ==
  \A a \in Actors :
    /\ Waiting(jobs, a) => pc[a] = "await"
    /\ \A i, j \in 1..Len(jobs) : jobs[i] = Job("sock", a) /\ jobs[j] = Job("sock", a) => i = j

\* The closing job of the only one who disconnects is the only job but for those of
\* the heartbeat.
Beats(q) == \A i \in 1..Len(q) : q[i].kind = "beat"
OneSock(q, a) == \E k \in 1..Len(q) : /\ q[k].kind = "sock" /\ q[k].by = a
                                      /\ \A i \in 1..Len(q) : i # k => q[i].kind = "beat"

\* With the lock, the place of its holder says which threads and sockets there are.
HasLock == \A a \in Actors : pc[a] \in Busy <=> lock = a
Locking ==
  /\ HasLock
  /\ Place = "await" => OneSock(jobs, lock)
  /\ Place # "await" => Beats(jobs)
Holding ==
  /\ \A h \in Hbs : hb[h] # "none" => h = hb_thread
  /\ Place = "wait_hb" => hb_thread # 0
  /\ Place \in {"join_tx", "wait_tx", "join_rx", "wait_rx", "close", "await", "init", "reinit"}
       => hb_thread = 0
  /\ Place = "wait_tx" => worker.tx # "none"
  /\ Place = "wait_rx" => worker.rx # "none"
  /\ Place \in {"join_rx", "wait_rx", "close", "await", "init", "reinit", "connect"}
       => worker.tx = "none"
  /\ Place \in {"close", "await", "init", "reinit", "connect"} => worker.rx = "none"
  /\ Place \in {"await", "init", "reinit"} => ws = "none"
Apart == OnlyLocked => Locking /\ Holding

IInv == Types /\ Beating /\ Reconnected /\ Waits /\ Apart

-----------------------------------------------------------------------------
(* Jobs *)

LEMMA ActorsAre ==
  /\ "main" \in Actors /\ "none" \notin Actors /\ "rx" \notin Actors /\ "hb" \notin Actors
  /\ \A p \in Pool : p \in Actors /\ p # "main"
  /\ \A a \in Actors : a = "main" \/ a \in Pool
BY DiscordAssumption DEF Actors

LEMMA JobsAre ==
  /\ Job("beat", "hb") \in Jobs /\ Job("opcode", "rx") \in Jobs /\ Job("dropped", "rx") \in Jobs
  /\ Job("sock", "rx") \in Jobs /\ \A a \in Actors : Job("sock", a) \in Jobs
  /\ \A k, b : Job(k, b).kind = k /\ Job(k, b).by = b
BY DEF Job, Jobs

\* What becomes of the jobs when one is added.
LEMMA AppendFacts ==
  ASSUME NEW q \in Seq(Jobs), NEW j \in Jobs
  PROVE  /\ Append(q, j) \in Seq(Jobs)
         /\ Noticed(q) => Noticed(Append(q, j))
         /\ j \in {Job("sock", "rx"), Job("dropped", "rx")} => Noticed(Append(q, j))
         /\ j.kind = "beat" /\ Beats(q) => Beats(Append(q, j))
         /\ \A a : j.kind = "beat" /\ OneSock(q, a) => OneSock(Append(q, j), a)
         /\ \A a : j.kind = "sock" /\ j.by = a /\ Beats(q) => OneSock(Append(q, j), a)
<1>1. /\ Append(q, j) \in Seq(Jobs) /\ Len(Append(q, j)) = Len(q) + 1 /\ Len(q) \in Nat
      /\ \A i \in 1..Len(q) : Append(q, j)[i] = q[i]
      /\ Append(q, j)[Len(q) + 1] = j
  OBVIOUS
<1>2. /\ Noticed(q) => Noticed(Append(q, j))
      /\ j \in {Job("sock", "rx"), Job("dropped", "rx")} => Noticed(Append(q, j))
  BY <1>1 DEF Noticed
<1>3. j.kind = "beat" /\ Beats(q) => Beats(Append(q, j))
  BY <1>1 DEF Beats
<1>4. \A a : j.kind = "beat" /\ OneSock(q, a) => OneSock(Append(q, j), a)
  BY <1>1 DEF OneSock
<1>5. \A a : j.kind = "sock" /\ j.by = a /\ Beats(q) => OneSock(Append(q, j), a)
  BY <1>1 DEF OneSock, Beats
<1> QED
  BY <1>1, <1>2, <1>3, <1>4, <1>5

\* What becomes of them when the first is taken.
LEMMA TailFacts ==
  ASSUME NEW q \in Seq(Jobs), q # <<>>
  PROVE  /\ Tail(q) \in Seq(Jobs) /\ Head(q) \in Jobs
         /\ Tail(q) \o <<>> = Tail(q)
         /\ \A j : Tail(q) \o <<j>> = Append(Tail(q), j)
         /\ Noticed(q) => \/ Noticed(Tail(q)) \/ Head(q).kind = "dropped"
                          \/ (Head(q).kind = "sock" /\ Head(q).by = "rx")
         /\ Beats(q) => Beats(Tail(q)) /\ Head(q).kind = "beat"
         /\ \A a : OneSock(q, a) /\ Head(q).kind = "beat" => OneSock(Tail(q), a)
         /\ \A a : OneSock(q, a) => Head(q).kind \in {"beat", "sock"}
         /\ \A a : OneSock(q, a) /\ Head(q).kind = "sock" => Head(q).by = a /\ Beats(Tail(q))
<1>1. /\ Tail(q) \in Seq(Jobs) /\ Head(q) \in Jobs /\ Head(q) = q[1]
      /\ Len(q) \in Nat /\ Len(q) >= 1
      /\ Len(Tail(q)) = Len(q) - 1
      /\ \A i \in 1..(Len(q) - 1) : Tail(q)[i] = q[i + 1]
  OBVIOUS
<1>2. Tail(q) \o <<>> = Tail(q) /\ \A j : Tail(q) \o <<j>> = Append(Tail(q), j)
  OBVIOUS
<1>3. \A i \in 1..Len(q) : i = 1 \/ (i - 1 \in 1..Len(Tail(q)) /\ q[i] = Tail(q)[i - 1])
  BY <1>1
<1>4. Noticed(q) => \/ Noticed(Tail(q)) \/ Head(q).kind = "dropped"
                    \/ (Head(q).kind = "sock" /\ Head(q).by = "rx")
  BY <1>1, <1>3, JobsAre DEF Noticed
<1>5. Beats(q) => Beats(Tail(q)) /\ Head(q).kind = "beat"
  BY <1>1 DEF Beats
<1>6. \A a : OneSock(q, a) /\ Head(q).kind = "beat" => OneSock(Tail(q), a)
  BY <1>1, <1>3 DEF OneSock
<1>7. \A a : /\ OneSock(q, a) => Head(q).kind \in {"beat", "sock"}
             /\ OneSock(q, a) /\ Head(q).kind = "sock" => Head(q).by = a /\ Beats(Tail(q))
  BY <1>1, <1>3 DEF OneSock, Beats
<1> QED
  BY <1>1, <1>2, <1>4, <1>5, <1>6, <1>7

\* Both of the queue of the dispatcher.
LEMMA DispatcherFacts ==
  ASSUME jobs \in Seq(Jobs)
  PROVE  /\ \A j \in Jobs :
              /\ Append(jobs, j) \in Seq(Jobs)
              /\ Noticed(jobs) => Noticed(Append(jobs, j))
              /\ j \in {Job("sock", "rx"), Job("dropped", "rx")} => Noticed(Append(jobs, j))
              /\ j.kind = "beat" /\ Beats(jobs) => Beats(Append(jobs, j))
              /\ \A a : j.kind = "beat" /\ OneSock(jobs, a) => OneSock(Append(jobs, j), a)
              /\ \A a : j.kind = "sock" /\ j.by = a /\ Beats(jobs) => OneSock(Append(jobs, j), a)
         /\ jobs # <<>> =>
              /\ Tail(jobs) \in Seq(Jobs) /\ Head(jobs) \in Jobs
              /\ Tail(jobs) \o <<>> = Tail(jobs)
              /\ Tail(jobs) \o <<Job("dropped", "rx")>> \in Seq(Jobs)
              /\ Noticed(Tail(jobs) \o <<Job("dropped", "rx")>>)
              /\ Noticed(jobs) => \/ Noticed(Tail(jobs)) \/ Head(jobs).kind = "dropped"
                                  \/ (Head(jobs).kind = "sock" /\ Head(jobs).by = "rx")
              /\ Beats(jobs) => Beats(Tail(jobs)) /\ Head(jobs).kind = "beat"
              /\ \A a : OneSock(jobs, a) /\ Head(jobs).kind = "beat" => OneSock(Tail(jobs), a)
              /\ \A a : OneSock(jobs, a) => Head(jobs).kind \in {"beat", "sock"}
              /\ \A a : OneSock(jobs, a) /\ Head(jobs).kind = "sock"
                          => Head(jobs).by = a /\ Beats(Tail(jobs))
<1>1. \A j \in Jobs :
        /\ Append(jobs, j) \in Seq(Jobs)
        /\ Noticed(jobs) => Noticed(Append(jobs, j))
        /\ j \in {Job("sock", "rx"), Job("dropped", "rx")} => Noticed(Append(jobs, j))
        /\ j.kind = "beat" /\ Beats(jobs) => Beats(Append(jobs, j))
        /\ \A a : j.kind = "beat" /\ OneSock(jobs, a) => OneSock(Append(jobs, j), a)
        /\ \A a : j.kind = "sock" /\ j.by = a /\ Beats(jobs) => OneSock(Append(jobs, j), a)
  BY AppendFacts
<1>2. ASSUME jobs # <<>>
      PROVE  /\ Tail(jobs) \o <<Job("dropped", "rx")>> \in Seq(Jobs)
             /\ Noticed(Tail(jobs) \o <<Job("dropped", "rx")>>)
  <2>1. /\ Tail(jobs) \in Seq(Jobs)
        /\ Tail(jobs) \o <<Job("dropped", "rx")>> = Append(Tail(jobs), Job("dropped", "rx"))
    BY <1>2, TailFacts
  <2> QED
    BY <2>1, JobsAre, AppendFacts
<1>3. ASSUME jobs # <<>>
      PROVE  /\ Tail(jobs) \in Seq(Jobs) /\ Head(jobs) \in Jobs
             /\ Tail(jobs) \o <<>> = Tail(jobs)
             /\ Noticed(jobs) => \/ Noticed(Tail(jobs)) \/ Head(jobs).kind = "dropped"
                                 \/ (Head(jobs).kind = "sock" /\ Head(jobs).by = "rx")
             /\ Beats(jobs) => Beats(Tail(jobs)) /\ Head(jobs).kind = "beat"
             /\ \A a : OneSock(jobs, a) /\ Head(jobs).kind = "beat" => OneSock(Tail(jobs), a)
             /\ \A a : OneSock(jobs, a) => Head(jobs).kind \in {"beat", "sock"}
             /\ \A a : OneSock(jobs, a) /\ Head(jobs).kind = "sock"
                         => Head(jobs).by = a /\ Beats(Tail(jobs))
  BY <1>3, TailFacts
<1> QED
  BY <1>1, <1>2, <1>3

-----------------------------------------------------------------------------
(* Places *)

\* An actor that goes somewhere, and what that does to the parts of the invariant
\* that look at where the actors are.
LEMMA MoveFacts ==
  ASSUME Types, NEW a \in Actors, NEW place \in MayBe(a), pc' = [pc EXCEPT ![a] = place]
  PROVE  /\ pc' \in [Actors -> Places] /\ \A b \in Actors : pc'[b] \in MayBe(b)
         /\ place \in Stopping \/ pc[a] \notin Stopping =>
              ((\E b \in Actors : pc[b] \in Stopping) => \E b \in Actors : pc'[b] \in Stopping)
         /\ place \in Removing \/ pc[a] \notin Removing =>
              ((\E b \in Actors : pc[b] \in Removing) => \E b \in Actors : pc'[b] \in Removing)
         /\ place \in Handling \/ pc[a] \notin Handling =>
              ((\E b \in Actors : pc[b] \in Handling) => \E b \in Actors : pc'[b] \in Handling)
         /\ pc[a] # "await" => \A b \in Actors : pc[b] = "await" => pc'[b] = "await"
         /\ place \in Stopping => \E b \in Actors : pc'[b] \in Stopping
         /\ place \in Removing => \E b \in Actors : pc'[b] \in Removing
         /\ place \in Handling => \E b \in Actors : pc'[b] \in Handling
<1>1. pc'[a] = place /\ \A b \in Actors : b # a => pc'[b] = pc[b]
  BY DEF Types
<1>2. pc' \in [Actors -> Places]
  BY DEF Types, MayBe, Places
<1>3. \A b \in Actors : pc'[b] \in MayBe(b)
  BY <1>1 DEF Types
<1> QED
  BY <1>1, <1>2, <1>3

\* One who does not wait may go without any closing job noticing.
LEMMA MoveWaits ==
  ASSUME Types, Waits, NEW a \in Actors, NEW place \in MayBe(a), pc' = [pc EXCEPT ![a] = place],
         pc[a] # "await", jobs' = jobs
  PROVE  Waits'
BY MoveFacts DEF Waits, Waiting

\* Under the lock: one who has it goes on or leaves, and one takes it.
LEMMA LockFacts ==
  ASSUME Types, HasLock, NEW a \in Actors, NEW place \in MayBe(a), pc' = [pc EXCEPT ![a] = place]
  PROVE  /\ pc[a] \in Busy /\ place \in Busy /\ lock' = lock
              => HasLock' /\ Place = pc[a] /\ Place' = place /\ lock = a
         /\ pc[a] \in Busy /\ place \notin Busy /\ lock' = "none"
              => HasLock' /\ Place = pc[a] /\ Place' = "free" /\ lock = a
         /\ pc[a] \notin Busy /\ place \in Busy /\ lock = "none" /\ lock' = a
              => HasLock' /\ Place = "free" /\ Place' = place
         /\ pc[a] \notin Busy /\ place \notin Busy /\ lock' = lock
              => HasLock' /\ Place' = Place
<1>1. pc'[a] = place /\ \A b \in Actors : b # a => pc'[b] = pc[b]
  BY DEF Types
<1>2. lock \in {"none"} \cup Actors /\ "none" \notin Actors
  BY ActorsAre DEF Types
<1>3. CASE pc[a] \in Busy /\ place \in Busy /\ lock' = lock
  BY <1>1, <1>2, <1>3 DEF HasLock, Place
<1>4. CASE pc[a] \in Busy /\ place \notin Busy /\ lock' = "none"
  BY <1>1, <1>2, <1>4 DEF HasLock, Place
<1>5. CASE pc[a] \notin Busy /\ place \in Busy /\ lock = "none" /\ lock' = a
  BY <1>1, <1>2, <1>5 DEF HasLock, Place
<1>6. CASE pc[a] \notin Busy /\ place \notin Busy /\ lock' = lock
  BY <1>1, <1>2, <1>6 DEF HasLock, Place
<1> QED
  BY <1>3, <1>4, <1>5, <1>6

-----------------------------------------------------------------------------
LEMMA InitIInv == Init => IInv
<1> SUFFICES ASSUME Init PROVE IInv
  OBVIOUS
<1>1. Types
  <2>1. pc \in [Actors -> Places] /\ \A a \in Actors : pc[a] \in MayBe(a)
    BY DEF Init, Places, MayBe, Busy, Resuming
  <2>2. jobs \in Seq(Jobs) /\ txq \in Seq({"msg", "dc"}) /\ rxq \in Seq({"msg", "dc"})
    BY DEF Init
  <2>3. failures \in 0..MaxFailures
    BY DiscordAssumption DEF Init
  <2>4. worker \in [tx : {"none", "pop", "exited"}, rx : {"none", "pop", "msg", "exited"}]
    BY DEF Init
  <2> QED
    BY ActorsAre, <2>1, <2>2, <2>3, <2>4 DEF Init, Types
<1>2. Beating /\ Reconnected /\ Waits
  BY DEF Init, Beating, Reconnected, Waits, Waiting
<1>3. HasLock /\ Place = "init"
  BY ActorsAre DEF Init, HasLock, Place, Busy, Resuming, Disconnecting
<1>4. Apart
  BY <1>3 DEF Init, Apart, Locking, Holding, Beats
<1> QED
  BY <1>1, <1>2, <1>4 DEF IInv

\* Who dies leaves everything as it is.
LEMMA CrashKeepsIInv ==
  ASSUME IInv, crashed' = TRUE, server' = server,
         UNCHANGED <<lock, pc, after, worker, hb, hb_thread, txq, rxq, ws, handler,
                     on_close, closed, acked, should_heartbeat, jobs, failures>>
  PROVE  IInv'
<1>1. Types'
  BY DEF IInv, Types
<1>2. Beating' /\ Reconnected' /\ Waits'
  BY DEF IInv, Beating, Reconnected, Waits
<1>3. Apart'
  BY DEF IInv, Apart, OnlyLocked, Locking, HasLock, Holding, Place
<1> QED
  BY <1>1, <1>2, <1>3 DEF IInv

\* The workers' messages.
LEMMA MessageFacts ==
  ASSUME Types
  PROVE  /\ txq \in Seq({"msg", "dc"}) /\ rxq \in Seq({"msg", "dc"})
         /\ Append(txq, "msg") \in Seq({"msg", "dc"}) /\ Append(rxq, "msg") \in Seq({"msg", "dc"})
         /\ txq # <<>> => Tail(txq) \in Seq({"msg", "dc"})
         /\ rxq # <<>> => Tail(rxq) \in Seq({"msg", "dc"})
<1> DEFINE Msgs == {"msg", "dc"}
<1>1. txq \in Seq(Msgs) /\ rxq \in Seq(Msgs) /\ "msg" \in Msgs
  BY DEF Types
<1> HIDE DEF Msgs
<1>2. Append(txq, "msg") \in Seq(Msgs) /\ Append(rxq, "msg") \in Seq(Msgs)
  BY <1>1
<1>3. txq # <<>> => Tail(txq) \in Seq(Msgs)
  BY <1>1
<1>4. rxq # <<>> => Tail(rxq) \in Seq(Msgs)
  BY <1>1
<1> QED
  BY <1>1, <1>2, <1>3, <1>4 DEF Msgs

\* The closing jobs when a job is added that is none.
LEMMA AppendWaits ==
  ASSUME Types, Waits, NEW j \in Jobs, \A a \in Actors : j # Job("sock", a),
         jobs' = Append(jobs, j), \A a \in Actors : pc[a] = "await" => pc'[a] = "await"
  PROVE  Waits'
<1>1. /\ Len(jobs') = Len(jobs) + 1 /\ Len(jobs) \in Nat
      /\ \A i \in 1..Len(jobs) : jobs'[i] = jobs[i]
      /\ jobs'[Len(jobs) + 1] = j
  BY DEF Types
<1>2. \A i \in 1..Len(jobs') : \A a \in Actors :
        jobs'[i] = Job("sock", a) => i \in 1..Len(jobs) /\ jobs[i] = Job("sock", a)
  BY <1>1
<1> QED
  BY <1>2 DEF Waits, Waiting

\* The closing job of one who comes to wait for it.
LEMMA SockWaits ==
  ASSUME Types, Waits, NEW a \in Actors, pc[a] # "await", pc' = [pc EXCEPT ![a] = "await"],
         jobs' = Append(jobs, Job("sock", a))
  PROVE  Waits'
<1>1. /\ Len(jobs') = Len(jobs) + 1 /\ Len(jobs) \in Nat
      /\ \A i \in 1..Len(jobs) : jobs'[i] = jobs[i]
      /\ jobs'[Len(jobs) + 1] = Job("sock", a)
  BY DEF Types
<1>2. \A i \in 1..Len(jobs) : jobs[i] # Job("sock", a)
  BY DEF Waits, Waiting
<1>3. \A b \in Actors : b # a => Job("sock", b) # Job("sock", a)
  BY DEF Job
<1>4. \A i \in 1..Len(jobs') : \A b \in Actors : jobs'[i] = Job("sock", b) =>
        \/ b = a /\ i = Len(jobs) + 1
        \/ b # a /\ i \in 1..Len(jobs) /\ jobs[i] = Job("sock", b)
  BY <1>1, <1>2, <1>3
<1>5. pc'[a] = "await" /\ \A b \in Actors : b # a => pc'[b] = pc[b]
  BY DEF Types
<1> QED
  BY <1>4, <1>5 DEF Waits, Waiting

\* The closing jobs when a job is taken: who waited for it need not wait on.
LEMMA TailWaits ==
  ASSUME Types, Waits, jobs # <<>>, jobs' = Tail(jobs),
         \A a \in Actors : pc[a] = "await" => pc'[a] = "await" \/ Head(jobs) = Job("sock", a)
  PROVE  Waits'
<1>1. /\ Len(jobs) \in Nat /\ Len(jobs) >= 1 /\ Head(jobs) = jobs[1] /\ Len(jobs') = Len(jobs) - 1
      /\ \A i \in 1..(Len(jobs) - 1) : jobs'[i] = jobs[i + 1]
  BY DEF Types
<1>2. \A i \in 1..Len(jobs') : /\ i + 1 \in 1..Len(jobs) /\ i + 1 # 1 /\ jobs'[i] = jobs[i + 1]
  BY <1>1
<1>3. 1 \in 1..Len(jobs)
  BY <1>1
<1>4. ASSUME NEW a \in Actors, Waiting(jobs, a)'
      PROVE  pc'[a] = "await"
  <2>1. PICK i \in 1..Len(jobs') : jobs'[i] = Job("sock", a)
    BY <1>4 DEF Waiting
  <2>2. jobs[i + 1] = Job("sock", a) /\ i + 1 \in 1..Len(jobs) /\ i + 1 # 1
    BY <1>2, <2>1
  <2>3. pc[a] = "await" /\ Head(jobs) # Job("sock", a)
    BY <1>1, <1>3, <2>2 DEF Waits, Waiting
  <2> QED
    BY <2>3
<1>5. ASSUME NEW a \in Actors, NEW i \in 1..Len(jobs'), NEW j \in 1..Len(jobs'),
             jobs'[i] = Job("sock", a), jobs'[j] = Job("sock", a)
      PROVE  i = j
  <2>1. i + 1 = j + 1
    BY <1>2, <1>5 DEF Waits
  <2> QED
    BY <2>1
<1> QED
  BY <1>4, <1>5 DEF Waits

\* The receiver's own closing job, which may leave a job to reconnect.
LEMMA DropWaits ==
  ASSUME Types, Waits, jobs # <<>>, pc' = pc,
         jobs' = Tail(jobs) \o <<Job("dropped", "rx")>>
  PROVE  Waits'
<1>1. PICK n \in Nat :
        /\ n >= 1 /\ Len(jobs) = n /\ Len(jobs') = n
        /\ \A i \in 1..(n - 1) : jobs'[i] = jobs[i + 1]
        /\ jobs'[n] = Job("dropped", "rx")
  BY JobsAre DEF Types
<1>2. \A a : Job("dropped", "rx") # Job("sock", a)
  BY DEF Job
<1>3. ASSUME NEW i \in 1..Len(jobs'), NEW a \in Actors, jobs'[i] = Job("sock", a)
      PROVE  i + 1 \in 1..Len(jobs) /\ jobs[i + 1] = Job("sock", a)
  <2>1. i \in 1..n
    BY <1>1
  <2>2. i # n
    BY <1>1, <1>2, <1>3
  <2>3. i \in 1..(n - 1) /\ i + 1 \in 1..n
    BY <2>1, <2>2
  <2> QED
    BY <1>1, <1>3, <2>3
<1>4. \A a \in Actors : Waiting(jobs, a)' => Waiting(jobs, a)
  BY <1>3 DEF Waiting
<1>5. ASSUME NEW a \in Actors, NEW i \in 1..Len(jobs'), NEW j \in 1..Len(jobs'),
             jobs'[i] = Job("sock", a), jobs'[j] = Job("sock", a)
      PROVE  i = j
  <2>1. i + 1 = j + 1
    BY <1>3, <1>5 DEF Waits
  <2> QED
    BY <2>1
<1> QED
  BY <1>4, <1>5 DEF Waits

\* Where disconnect() returns to.
LEMMA ReturnFacts ==
  ASSUME Types, NEW a \in Actors, Return(a)
  PROVE  /\ \E place \in MayBe(a) :
              /\ pc' = [pc EXCEPT ![a] = place]
              /\ \/ place \in {"init", "disconnect", "reinit"} /\ lock' = lock
                 \/ place = "done" /\ lock' = "none"
         /\ after' \in [Actors -> {"resume", "again", "reinit", "end"}]
         /\ \A b \in Actors : after'[b] = "end" => b = "main"
<1>1. /\ after[a] \in {"resume", "again", "reinit", "end"} /\ (after[a] = "end" => a = "main")
      /\ "init" \in MayBe(a) /\ "disconnect" \in MayBe(a) /\ "reinit" \in MayBe(a)
      /\ a = "main" => "done" \in MayBe(a)
  BY DEF Types, MayBe, Busy, Disconnecting, Resuming
<1>2. CASE after[a] = "resume"
  BY <1>1, <1>2 DEF Types, Return, Call, Goto
<1>3. CASE after[a] = "again"
  BY <1>1, <1>3 DEF Types, Return, Call, Goto
<1>4. CASE after[a] = "reinit"
  BY <1>1, <1>4 DEF Types, Return, Call, Goto
<1>5. CASE after[a] = "end"
  BY <1>1, <1>5 DEF Types, Return, Call, Goto
<1> QED
  BY <1>1, <1>2, <1>3, <1>4, <1>5

-----------------------------------------------------------------------------
(* disconnect() *)

\* disconnect() tells the threads to stop.
LEMMA BeginKeepsIInv ==
  ASSUME NEW a \in Actors, IInv, BeginDisconnect(a), server' = server
  PROVE  IInv'
<1>t. Types
  BY DEF IInv
<1>p. PICK place \in MayBe(a) :
        /\ pc' = [pc EXCEPT ![a] = place] /\ lock' = lock
        /\ pc[a] = "disconnect" /\ place = "join_hb"
  BY <1>t DEF Types, MayBe, Busy, Disconnecting, Resuming, Goto, Call, BeginDisconnect
<1>1. Types'
  <2>1. txq' \in Seq({"msg", "dc"}) /\ rxq' \in Seq({"msg", "dc"})
    BY <1>t, <1>p DEF Types, BeginDisconnect, Goto, Call
  <2>2. ws' \in {"none", "live", "lost"} /\ handler' \in {"none", "identify", "real"}
    BY <1>t, <1>p DEF Types, BeginDisconnect, Goto, Call
  <2>3. on_close' \in BOOLEAN /\ acked' \in BOOLEAN /\ should_heartbeat' \in BOOLEAN
    BY <1>t, <1>p DEF Types, BeginDisconnect, Goto, Call
  <2>4. pc' \in [Actors -> Places] /\ \A b \in Actors : pc'[b] \in MayBe(b)
    BY <1>t, <1>p, MoveFacts
  <2>5. UNCHANGED <<lock, after, worker, hb, hb_thread, jobs, failures, crashed, closed>>
    BY <1>t, <1>p DEF BeginDisconnect, Goto, Call
  <2> QED
    BY <1>t, <2>1, <2>2, <2>3, <2>4, <2>5 DEF Types
<1>2. Beating'
  BY <1>t, <1>p, MoveFacts DEF IInv, Types, Beating, Stopping, Hbs, BeginDisconnect,
     Goto, Call
<1>3. Reconnected'
  BY <1>t, <1>p, MoveFacts DEF IInv, Types, Reconnected, Handling, Removing, Disconnecting,
     BeginDisconnect, Goto, Call
<1>4. Waits'
  BY <1>t, <1>p, MoveWaits DEF IInv, BeginDisconnect, Goto, Call
<1>5. Apart'
  <2> SUFFICES ASSUME OnlyLocked, Locking, Holding PROVE Locking' /\ Holding'
    BY DEF IInv, Apart, OnlyLocked
  <2>0. HasLock' /\ Place = pc[a] /\ Place' = place
    BY <1>t, <1>p, LockFacts DEF Locking, Busy, Disconnecting, Resuming
  <2>1. Locking'
    BY <1>t, <1>p, <2>0 DEF Types, Locking, BeginDisconnect, Goto, Call
  <2>2. Holding'
    BY <1>t, <1>p, <2>0 DEF Types, Holding, Hbs, BeginDisconnect, Goto, Call
  <2> QED
    BY <2>1, <2>2
<1> QED
  BY <1>1, <1>2, <1>3, <1>4, <1>5 DEF IInv

\* It joins the heartbeat's thread,
LEMMA JoinHbKeepsIInv ==
  ASSUME NEW a \in Actors, IInv, JoinHb(a), ~Crash, server' = server
  PROVE  IInv'
<1>t. Types
  BY DEF IInv
<1>p. PICK place \in MayBe(a) :
        /\ pc' = [pc EXCEPT ![a] = place] /\ lock' = lock
        /\ \/ pc[a] = "join_hb" /\ place \in {"join_tx", "wait_hb"}
           \/ pc[a] = "wait_hb" /\ place = "join_tx"
  BY <1>t DEF Types, MayBe, Busy, Disconnecting, Resuming, Goto, Call, JoinHb
<1>1. Types'
  <2>1. hb' \in [Hbs -> {"none", "check", "want", "exited"}] /\ hb_thread' \in {0} \cup Hbs
    BY <1>t, <1>p DEF Types, Hbs, JoinHb, Goto, Call
  <2>2. pc' \in [Actors -> Places] /\ \A b \in Actors : pc'[b] \in MayBe(b)
    BY <1>t, <1>p, MoveFacts
  <2>3. UNCHANGED <<lock, after, worker, txq, rxq, ws, handler, on_close, closed, acked,
                     should_heartbeat, jobs, failures, crashed>>
    BY <1>t, <1>p DEF JoinHb, Goto, Call
  <2> QED
    BY <1>t, <2>1, <2>2, <2>3 DEF Types
<1>2. Beating'
  BY <1>t, <1>p, MoveFacts DEF IInv, Types, Beating, Stopping, Hbs, JoinHb, Goto, Call
<1>3. Reconnected'
  BY <1>t, <1>p, MoveFacts DEF IInv, Types, Reconnected, Handling, Removing, Disconnecting,
     JoinHb, Goto, Call
<1>4. Waits'
  BY <1>t, <1>p, MoveWaits DEF IInv, JoinHb, Goto, Call
<1>5. Apart'
  <2> SUFFICES ASSUME OnlyLocked, Locking, Holding PROVE Locking' /\ Holding'
    BY DEF IInv, Apart, OnlyLocked
  <2>0. HasLock' /\ Place = pc[a] /\ Place' = place
    BY <1>t, <1>p, LockFacts DEF Locking, Busy, Disconnecting, Resuming
  <2>1. Locking'
    BY <1>t, <1>p, <2>0 DEF Types, Locking, JoinHb, Goto, Call
  <2>2. Holding'
    BY <1>t, <1>p, <2>0 DEF Types, Holding, Hbs, JoinHb, Goto, Call
  <2> QED
    BY <2>1, <2>2
<1> QED
  BY <1>1, <1>2, <1>3, <1>4, <1>5 DEF IInv

\* and the two workers.
LEMMA JoinWorkersKeepsIInv ==
  ASSUME NEW a \in Actors, IInv, JoinWorkers(a), ~Crash, server' = server
  PROVE  IInv'
<1>t. Types
  BY DEF IInv
<1>p. PICK place \in MayBe(a) :
        /\ pc' = [pc EXCEPT ![a] = place] /\ lock' = lock
        /\ \/ pc[a] = "join_tx" /\ place \in {"wait_tx", "join_rx"}
           \/ pc[a] = "wait_tx" /\ place = "join_rx"
           \/ pc[a] = "join_rx" /\ place \in {"wait_rx", "close"}
           \/ pc[a] = "wait_rx" /\ place = "close"
  BY <1>t DEF Types, MayBe, Busy, Disconnecting, Resuming, Goto, Call, JoinWorkers, Join
<1>1. Types'
  <2>1. worker' \in [tx : {"none", "pop", "exited"}, rx : {"none", "pop", "msg", "exited"}]
    BY <1>t, <1>p DEF Types, JoinWorkers, Join, Goto, Call
  <2>2. pc' \in [Actors -> Places] /\ \A b \in Actors : pc'[b] \in MayBe(b)
    BY <1>t, <1>p, MoveFacts
  <2>3. UNCHANGED <<lock, after, hb, hb_thread, txq, rxq, ws, handler, on_close, closed, acked,
                     should_heartbeat, jobs, failures, crashed>>
    BY <1>t, <1>p DEF JoinWorkers, Join, Goto, Call
  <2> QED
    BY <1>t, <2>1, <2>2, <2>3 DEF Types
<1>2. Beating'
  BY <1>t, <1>p, MoveFacts DEF IInv, Types, Beating, Stopping, Hbs, JoinWorkers, Join,
     Goto, Call
<1>3. Reconnected'
  BY <1>t, <1>p, MoveFacts DEF IInv, Types, Reconnected, Handling, Removing, Disconnecting,
     JoinWorkers, Join, Goto, Call
<1>4. Waits'
  BY <1>t, <1>p, MoveWaits DEF IInv, JoinWorkers, Join, Goto, Call
<1>5. Apart'
  <2> SUFFICES ASSUME OnlyLocked, Locking, Holding PROVE Locking' /\ Holding'
    BY DEF IInv, Apart, OnlyLocked
  <2>0. HasLock' /\ Place = pc[a] /\ Place' = place
    BY <1>t, <1>p, LockFacts DEF Locking, Busy, Disconnecting, Resuming
  <2>1. Locking'
    BY <1>t, <1>p, <2>0 DEF Types, Locking, JoinWorkers, Join, Goto, Call
  <2>2. Holding'
    BY <1>t, <1>p, <2>0 DEF Types, Holding, Hbs, JoinWorkers, Join, Goto, Call
  <2> QED
    BY <2>1, <2>2
<1> QED
  BY <1>1, <1>2, <1>3, <1>4, <1>5 DEF IInv

\* It hands the socket to a closing job,
LEMMA CloseSocketKeepsIInv ==
  ASSUME NEW a \in Actors, IInv, Close(a), ws # "none", server' = server
  PROVE  IInv'
<1>t. Types
  BY DEF IInv
<1>p. PICK place \in MayBe(a) :
        /\ pc' = [pc EXCEPT ![a] = place] /\ lock' = lock
        /\ pc[a] = "close" /\ place = "await" /\ jobs' = Append(jobs, Job("sock", a))
  BY <1>t DEF Types, MayBe, Busy, Disconnecting, Resuming, Goto, Call, Close
<1>1. Types'
  <2>1. ws' \in {"none", "live", "lost"} /\ handler' \in {"none", "identify", "real"}
    BY <1>t, <1>p DEF Types, Close, Goto, Call
  <2>2. on_close' \in BOOLEAN /\ acked' \in BOOLEAN /\ should_heartbeat' \in BOOLEAN
    BY <1>t, <1>p DEF Types, Close, Goto, Call
  <2>3. jobs' \in Seq(Jobs)
    BY <1>t, <1>p, JobsAre, DispatcherFacts DEF Types, Close, Goto, Call
  <2>4. pc' \in [Actors -> Places] /\ \A b \in Actors : pc'[b] \in MayBe(b)
    BY <1>t, <1>p, MoveFacts
  <2>5. UNCHANGED <<lock, after, worker, hb, hb_thread, txq, rxq, failures, crashed>>
    BY <1>t, <1>p DEF Close, Goto, Call
  <2>6. closed' \in {"no", "seen", "missed", "forgotten"}
    BY <1>t, <1>p DEF Types, Close
  <2> QED
    BY <1>t, <2>1, <2>2, <2>3, <2>4, <2>5, <2>6 DEF Types
<1>2. Beating'
  BY <1>t, <1>p, MoveFacts DEF IInv, Types, Beating, Stopping, Hbs, Close, Goto, Call
<1>3. Reconnected'
  BY <1>t, <1>p, MoveFacts, JobsAre, DispatcherFacts DEF IInv, Types, Reconnected,
     Handling, Removing, Disconnecting, Close, Goto, Call
<1>4. Waits'
  BY <1>t, <1>p, SockWaits DEF IInv
<1>5. Apart'
  <2> SUFFICES ASSUME OnlyLocked, Locking, Holding PROVE Locking' /\ Holding'
    BY DEF IInv, Apart, OnlyLocked
  <2>0. HasLock' /\ Place = pc[a] /\ Place' = place
    BY <1>t, <1>p, LockFacts DEF Locking, Busy, Disconnecting, Resuming
  <2>1. Locking'
    <3>1. lock' = a /\ Place' = "await" /\ Beats(jobs)
      BY <1>t, <1>p, <2>0, LockFacts DEF Locking, Busy, Disconnecting
    <3>2. OneSock(jobs, lock)'
      BY <1>t, <1>p, <3>1, JobsAre, DispatcherFacts DEF Types
    <3> QED
      BY <2>0, <3>1, <3>2 DEF Locking
  <2>2. Holding'
    BY <1>t, <1>p, <2>0 DEF Types, Holding, Hbs, Close, Goto, Call
  <2> QED
    BY <2>1, <2>2
<1> QED
  BY <1>1, <1>2, <1>3, <1>4, <1>5 DEF IInv

\* or returns when there is none.
LEMMA CloseNothingKeepsIInv ==
  ASSUME NEW a \in Actors, IInv, Close(a), ws = "none", server' = server
  PROVE  IInv'
<1>t. Types
  BY DEF IInv
<1>p. PICK place \in MayBe(a) :
        /\ pc' = [pc EXCEPT ![a] = place] /\ pc[a] = "close"
        /\ \/ place \in {"init", "disconnect", "reinit"} /\ lock' = lock
           \/ place = "done" /\ lock' = "none"
  BY <1>t, ReturnFacts DEF Close
<1>1. Types'
  <2>1. lock' \in {"none"} \cup Actors
    BY <1>t, <1>p, ActorsAre DEF Types, Close, Goto, Call
  <2>2. /\ after' \in [Actors -> {"resume", "again", "reinit", "end"}]
        /\ \A b \in Actors : after'[b] = "end" => b = "main"
    BY <1>t, ReturnFacts DEF Close
  <2>3. ws' \in {"none", "live", "lost"} /\ handler' \in {"none", "identify", "real"}
    BY <1>t, <1>p DEF Types, Close, Goto, Call
  <2>4. on_close' \in BOOLEAN /\ acked' \in BOOLEAN /\ should_heartbeat' \in BOOLEAN
    BY <1>t, <1>p DEF Types, Close, Goto, Call
  <2>5. pc' \in [Actors -> Places] /\ \A b \in Actors : pc'[b] \in MayBe(b)
    BY <1>t, <1>p, MoveFacts
  <2>6. UNCHANGED <<worker, hb, hb_thread, txq, rxq, jobs, failures, crashed>>
    BY <1>t, <1>p DEF Close, Goto, Call
  <2>7. closed' \in {"no", "seen", "missed", "forgotten"}
    BY <1>t, <1>p DEF Types, Close
  <2> QED
    BY <1>t, <2>1, <2>2, <2>3, <2>4, <2>5, <2>6, <2>7 DEF Types
<1>2. Beating'
  BY <1>t, <1>p, MoveFacts DEF IInv, Types, Beating, Stopping, Hbs, Close, Goto, Call
<1>3. Reconnected'
  BY <1>t, <1>p, MoveFacts DEF IInv, Types, Reconnected, Handling, Removing, Disconnecting, Close,
     Goto, Call
<1>4. Waits'
  BY <1>t, <1>p, MoveWaits DEF IInv, Close, Goto, Call
<1>5. Apart'
  <2> SUFFICES ASSUME OnlyLocked, Locking, Holding PROVE Locking' /\ Holding'
    BY DEF IInv, Apart, OnlyLocked
  <2>0. HasLock' /\ Place = pc[a] /\ Place' = IF place = "done" THEN "free" ELSE place
    BY <1>t, <1>p, LockFacts DEF Locking, Busy, Disconnecting, Resuming
  <2>1. Locking'
    BY <1>t, <1>p, <2>0 DEF Types, Locking, Close, Goto, Call
  <2>2. Holding'
    BY <1>t, <1>p, <2>0 DEF Types, Holding, Hbs, Close, Goto, Call
  <2> QED
    BY <2>1, <2>2
<1> QED
  BY <1>1, <1>2, <1>3, <1>4, <1>5 DEF IInv

-----------------------------------------------------------------------------
(* init() and internal_connect() *)

\* init() gets a connection and its heartbeat,
LEMMA InitSucceedsKeepsIInv ==
  ASSUME NEW a \in Actors, IInv, InitSucceeds(a), server' = server
  PROVE  IInv'
<1>t. Types
  BY DEF IInv
<1>p. PICK place \in MayBe(a) :
        /\ pc' = [pc EXCEPT ![a] = place] /\ lock' = lock
        /\ pc[a] \in {"init", "reinit"} /\ place = "connect"
  BY <1>t DEF Types, MayBe, Busy, Disconnecting, Resuming, Goto, Call, InitSucceeds
<1>1. Types'
  <2>1. hb' \in [Hbs -> {"none", "check", "want", "exited"}] /\ hb_thread' \in {0} \cup Hbs
    BY <1>t, <1>p DEF Types, Hbs, InitSucceeds, Goto, Call
  <2>2. ws' \in {"none", "live", "lost"} /\ handler' \in {"none", "identify", "real"}
    BY <1>t, <1>p DEF Types, InitSucceeds, Goto, Call
  <2>3. on_close' \in BOOLEAN /\ acked' \in BOOLEAN /\ should_heartbeat' \in BOOLEAN
    BY <1>t, <1>p DEF Types, InitSucceeds, Goto, Call
  <2>4. pc' \in [Actors -> Places] /\ \A b \in Actors : pc'[b] \in MayBe(b)
    BY <1>t, <1>p, MoveFacts
  <2>5. UNCHANGED <<lock, after, worker, txq, rxq, jobs, failures, crashed>>
    BY <1>t, <1>p DEF InitSucceeds, Goto, Call
  <2>6. closed' \in {"no", "seen", "missed", "forgotten"}
    BY <1>t, <1>p DEF Types, InitSucceeds
  <2> QED
    BY <1>t, <2>1, <2>2, <2>3, <2>4, <2>5, <2>6 DEF Types
<1>2. Beating'
  BY <1>t, <1>p, MoveFacts DEF IInv, Types, Beating, Stopping, Hbs, InitSucceeds, Goto,
     Call
<1>3. Reconnected'
  BY <1>t, <1>p, MoveFacts DEF IInv, Types, Reconnected, Handling, Removing, Disconnecting,
     InitSucceeds, Goto, Call
<1>4. Waits'
  BY <1>t, <1>p, MoveWaits DEF IInv, InitSucceeds, Goto, Call
<1>5. Apart'
  <2> SUFFICES ASSUME OnlyLocked, Locking, Holding PROVE Locking' /\ Holding'
    BY DEF IInv, Apart, OnlyLocked
  <2>0. HasLock' /\ Place = pc[a] /\ Place' = place
    BY <1>t, <1>p, LockFacts DEF Locking, Busy, Disconnecting, Resuming
  <2>1. Locking'
    BY <1>t, <1>p, <2>0 DEF Types, Locking, InitSucceeds, Goto, Call
  <2>2. Holding'
    BY <1>t, <1>p, <2>0 DEF Types, Holding, Hbs, InitSucceeds, Goto, Call
  <2> QED
    BY <2>1, <2>2
<1> QED
  BY <1>1, <1>2, <1>3, <1>4, <1>5 DEF IInv

\* or none.
LEMMA InitFailsKeepsIInv ==
  ASSUME NEW a \in Actors, IInv, InitFails(a), server' = server
  PROVE  IInv'
<1>t. Types
  BY DEF IInv
<1>p. PICK place \in MayBe(a) :
        /\ pc' = [pc EXCEPT ![a] = place] /\ pc[a] \in {"init", "reinit"} /\ ws = "none"
        /\ \/ place \in {"running", "idle"} /\ lock' = IF lock = a THEN "none" ELSE lock
           \/ place = "connect" /\ lock' = lock
  BY <1>t DEF Types, MayBe, Busy, Disconnecting, Resuming, Goto, InitFails, Leave
<1>1. Types'
  <2>1. lock' \in {"none"} \cup Actors
    BY <1>t, <1>p, ActorsAre DEF Types, InitFails, CanFail, Leave, Goto, Call
  <2>2. failures' \in 0..MaxFailures
    BY <1>t, <1>p, DiscordAssumption DEF Types, InitFails, CanFail, Leave, Goto, Call
  <2>3. pc' \in [Actors -> Places] /\ \A b \in Actors : pc'[b] \in MayBe(b)
    BY <1>t, <1>p, MoveFacts
  <2>4. UNCHANGED <<after, worker, hb, hb_thread, txq, rxq, ws, handler, on_close, closed,
                     acked, should_heartbeat, jobs, crashed>>
    BY <1>t, <1>p DEF InitFails, CanFail, Leave, Goto, Call
  <2> QED
    BY <1>t, <2>1, <2>2, <2>3, <2>4 DEF Types
<1>2. Beating'
  BY <1>t, <1>p, MoveFacts DEF IInv, Types, Beating, Stopping, Hbs, InitFails, CanFail,
     Leave, Goto, Call
<1>3. Reconnected'
  BY <1>t, <1>p, MoveFacts DEF IInv, Types, Reconnected, Handling, Removing, Disconnecting,
     InitFails, CanFail, Leave, Goto, Call
<1>4. Waits'
  BY <1>t, <1>p, MoveWaits DEF IInv, InitFails, CanFail, Leave, Goto, Call
<1>5. Apart'
  <2> SUFFICES ASSUME OnlyLocked, Locking, Holding PROVE Locking' /\ Holding'
    BY DEF IInv, Apart, OnlyLocked
  <2>0. /\ HasLock' /\ Place = pc[a]
       /\ Place' = IF place = "connect" THEN place ELSE "free"
    BY <1>t, <1>p, LockFacts DEF Locking, Busy, Disconnecting, Resuming, HasLock
  <2>1. Locking'
    BY <1>t, <1>p, <2>0 DEF Types, Locking, InitFails, CanFail, Leave, Goto, Call
  <2>2. Holding'
    BY <1>t, <1>p, <2>0 DEF Types, Holding, Hbs, InitFails, CanFail, Leave, Goto, Call
  <2> QED
    BY <2>1, <2>2
<1> QED
  BY <1>1, <1>2, <1>3, <1>4, <1>5 DEF IInv

\* internal_connect starts the workers,
LEMMA ConnectKeepsIInv ==
  ASSUME NEW a \in Actors, IInv, StartWorkers(a), crashed' = crashed, ~crashed, server'
         = server
  PROVE  IInv'
<1>t. Types
  BY DEF IInv
<1>p. PICK place \in MayBe(a) :
        /\ pc' = [pc EXCEPT ![a] = place] /\ lock' = lock
        /\ pc[a] = "connect" /\ place \in {"disconnect", "send"}
  BY <1>t DEF Types, MayBe, Busy, Disconnecting, Resuming, Goto, Call, StartWorkers
<1>1. Types'
  <2>1. /\ after' \in [Actors -> {"resume", "again", "reinit", "end"}]
        /\ \A b \in Actors : after'[b] = "end" => b = "main"
    BY <1>t, <1>p, ActorsAre DEF Types, StartWorkers, Goto, Call
  <2>2. worker' \in [tx : {"none", "pop", "exited"}, rx : {"none", "pop", "msg", "exited"}]
    BY <1>t, <1>p DEF Types, StartWorkers, Goto, Call
  <2>3. pc' \in [Actors -> Places] /\ \A b \in Actors : pc'[b] \in MayBe(b)
    BY <1>t, <1>p, MoveFacts
  <2>4. UNCHANGED <<lock, hb, hb_thread, txq, rxq, ws, handler, on_close, closed, acked,
                     should_heartbeat, jobs, failures, crashed>>
    BY <1>t, <1>p DEF StartWorkers, Goto, Call
  <2> QED
    BY <1>t, <2>1, <2>2, <2>3, <2>4 DEF Types
<1>2. Beating'
  BY <1>t, <1>p, MoveFacts DEF IInv, Types, Beating, Stopping, Hbs, StartWorkers, Goto,
     Call
<1>3. Reconnected'
  BY <1>t, <1>p, MoveFacts DEF IInv, Types, Reconnected, Handling, Removing, Disconnecting,
     StartWorkers, Goto, Call
<1>4. Waits'
  BY <1>t, <1>p, MoveWaits DEF IInv, StartWorkers, Goto, Call
<1>5. Apart'
  <2> SUFFICES ASSUME OnlyLocked, Locking, Holding PROVE Locking' /\ Holding'
    BY DEF IInv, Apart, OnlyLocked
  <2>0. HasLock' /\ Place = pc[a] /\ Place' = place
    BY <1>t, <1>p, LockFacts DEF Locking, Busy, Disconnecting, Resuming
  <2>1. Locking'
    BY <1>t, <1>p, <2>0 DEF Types, Locking, StartWorkers, Goto, Call
  <2>2. Holding'
    BY <1>t, <1>p, <2>0 DEF Types, Holding, Hbs, StartWorkers, Goto, Call
  <2> QED
    BY <2>1, <2>2
<1> QED
  BY <1>1, <1>2, <1>3, <1>4, <1>5 DEF IInv

\* logs in,
LEMMA SendLoginKeepsIInv ==
  ASSUME NEW a \in Actors, IInv, SendLogin(a), ~Crash, server' = server
  PROVE  IInv'
<1>t. Types
  BY DEF IInv
<1>p. PICK place \in MayBe(a) :
        /\ pc' = [pc EXCEPT ![a] = place] /\ lock' = lock
        /\ pc[a] = "send" /\ place = "identify"
  BY <1>t DEF Types, MayBe, Busy, Disconnecting, Resuming, Goto, Call, SendLogin
<1>1. Types'
  <2>1. ws' \in {"none", "live", "lost"} /\ handler' \in {"none", "identify", "real"}
    BY <1>t, <1>p DEF Types, SendLogin, Goto, Call
  <2>2. pc' \in [Actors -> Places] /\ \A b \in Actors : pc'[b] \in MayBe(b)
    BY <1>t, <1>p, MoveFacts
  <2>3. UNCHANGED <<lock, after, worker, hb, hb_thread, txq, rxq, on_close, closed, acked,
                     should_heartbeat, jobs, failures, crashed>>
    BY <1>t, <1>p DEF SendLogin, Goto, Call
  <2> QED
    BY <1>t, <2>1, <2>2, <2>3 DEF Types
<1>2. Beating'
  BY <1>t, <1>p, MoveFacts DEF IInv, Types, Beating, Stopping, Hbs, SendLogin, Goto,
     Call
<1>3. Reconnected'
  BY <1>t, <1>p, MoveFacts DEF IInv, Types, Reconnected, Handling, Removing, Disconnecting,
     SendLogin, Goto, Call
<1>4. Waits'
  BY <1>t, <1>p, MoveWaits DEF IInv, SendLogin, Goto, Call
<1>5. Apart'
  <2> SUFFICES ASSUME OnlyLocked, Locking, Holding PROVE Locking' /\ Holding'
    BY DEF IInv, Apart, OnlyLocked
  <2>0. HasLock' /\ Place = pc[a] /\ Place' = place
    BY <1>t, <1>p, LockFacts DEF Locking, Busy, Disconnecting, Resuming
  <2>1. Locking'
    BY <1>t, <1>p, <2>0 DEF Types, Locking, SendLogin, Goto, Call
  <2>2. Holding'
    BY <1>t, <1>p, <2>0 DEF Types, Holding, Hbs, SendLogin, Goto, Call
  <2> QED
    BY <2>1, <2>2
<1> QED
  BY <1>1, <1>2, <1>3, <1>4, <1>5 DEF IInv

\* tries again or gives up,
LEMMA LoginFailsKeepsIInv ==
  ASSUME NEW a \in Actors, IInv, LoginFails(a), server' = server
  PROVE  IInv'
<1>t. Types
  BY DEF IInv
<1>p. PICK place \in MayBe(a) :
        /\ pc' = [pc EXCEPT ![a] = place] /\ lock' = lock
        /\ pc[a] = "identify" /\ place \in {"send", "disconnect"}
  BY <1>t DEF Types, MayBe, Busy, Disconnecting, Resuming, Goto, Call, LoginFails
<1>1. Types'
  <2>1. /\ after' \in [Actors -> {"resume", "again", "reinit", "end"}]
        /\ \A b \in Actors : after'[b] = "end" => b = "main"
    <3>1. after' = after \/ after' = [after EXCEPT ![a] = "again"]
      BY DEF LoginFails, Goto, Call
    <3> QED
      BY <1>t, <3>1 DEF Types
  <2>2. failures' \in 0..MaxFailures
    BY <1>t, <1>p, DiscordAssumption DEF Types, LoginFails, CanFail, Goto, Call
  <2>3. pc' \in [Actors -> Places] /\ \A b \in Actors : pc'[b] \in MayBe(b)
    BY <1>t, <1>p, MoveFacts
  <2>4. UNCHANGED <<lock, worker, hb, hb_thread, txq, rxq, ws, handler, on_close, closed, acked,
                     should_heartbeat, jobs, crashed>>
    BY <1>t, <1>p DEF LoginFails, CanFail, Goto, Call
  <2> QED
    BY <1>t, <2>1, <2>2, <2>3, <2>4 DEF Types
<1>2. Beating'
  BY <1>t, <1>p, MoveFacts DEF IInv, Types, Beating, Stopping, Hbs, LoginFails, CanFail,
     Goto, Call
<1>3. Reconnected'
  BY <1>t, <1>p, MoveFacts DEF IInv, Types, Reconnected, Handling, Removing, Disconnecting,
     LoginFails, CanFail, Goto, Call
<1>4. Waits'
  BY <1>t, <1>p, MoveWaits DEF IInv, LoginFails, CanFail, Goto, Call
<1>5. Apart'
  <2> SUFFICES ASSUME OnlyLocked, Locking, Holding PROVE Locking' /\ Holding'
    BY DEF IInv, Apart, OnlyLocked
  <2>0. HasLock' /\ Place = pc[a] /\ Place' = place
    BY <1>t, <1>p, LockFacts DEF Locking, Busy, Disconnecting, Resuming
  <2>1. Locking'
    BY <1>t, <1>p, <2>0 DEF Types, Locking, LoginFails, CanFail, Goto, Call
  <2>2. Holding'
    BY <1>t, <1>p, <2>0 DEF Types, Holding, Hbs, LoginFails, CanFail, Goto, Call
  <2> QED
    BY <2>1, <2>2
<1> QED
  BY <1>1, <1>2, <1>3, <1>4, <1>5 DEF IInv

\* hears that it has a session,
LEMMA ReadyKeepsIInv ==
  ASSUME NEW a \in Actors, IInv, Ready(a), server' = server
  PROVE  IInv'
<1>t. Types
  BY DEF IInv
<1>p. PICK place \in MayBe(a) :
        /\ pc' = [pc EXCEPT ![a] = place] /\ lock' = lock
        /\ pc[a] = "identify" /\ place = "ready"
  BY <1>t DEF Types, MayBe, Busy, Disconnecting, Resuming, Goto, Call, Ready
<1>1. Types'
  <2>1. rxq' \in Seq({"msg", "dc"})
    BY <1>t, MessageFacts DEF Ready
  <2>2. pc' \in [Actors -> Places] /\ \A b \in Actors : pc'[b] \in MayBe(b)
    BY <1>t, <1>p, MoveFacts
  <2>3. UNCHANGED <<lock, after, worker, hb, hb_thread, txq, ws, handler, on_close, closed,
                     acked, should_heartbeat, jobs, failures, crashed>>
    BY <1>t, <1>p DEF Ready, Goto, Call
  <2> QED
    BY <1>t, <2>1, <2>2, <2>3 DEF Types
<1>2. Beating'
  BY <1>t, <1>p, MoveFacts DEF IInv, Types, Beating, Stopping, Hbs, Ready, Goto,
     Call
<1>3. Reconnected'
  BY <1>t, <1>p, MoveFacts DEF IInv, Types, Reconnected, Handling, Removing, Disconnecting,
     Ready, Goto, Call
<1>4. Waits'
  BY <1>t, <1>p, MoveWaits DEF IInv, Ready, Goto, Call
<1>5. Apart'
  <2> SUFFICES ASSUME OnlyLocked, Locking, Holding PROVE Locking' /\ Holding'
    BY DEF IInv, Apart, OnlyLocked
  <2>0. HasLock' /\ Place = pc[a] /\ Place' = place
    BY <1>t, <1>p, LockFacts DEF Locking, Busy, Disconnecting, Resuming
  <2>1. Locking'
    BY <1>t, <1>p, <2>0 DEF Types, Locking, Ready, Goto, Call
  <2>2. Holding'
    BY <1>t, <1>p, <2>0 DEF Types, Holding, Hbs, Ready, Goto, Call
  <2> QED
    BY <2>1, <2>2
<1> QED
  BY <1>1, <1>2, <1>3, <1>4, <1>5 DEF IInv

\* and takes it for one.
LEMMA IdentifiedKeepsIInv ==
  ASSUME NEW a \in Actors, IInv, Identified(a), server' = server
  PROVE  IInv'
<1>t. Types
  BY DEF IInv
<1>p. PICK place \in MayBe(a) :
        /\ pc' = [pc EXCEPT ![a] = place] /\ pc[a] = "ready" /\ place \in {"running", "idle"}
        /\ lock' = IF lock = a THEN "none" ELSE lock
  BY <1>t DEF Types, MayBe, Busy, Disconnecting, Resuming, Goto, Identified, Leave
<1>1. Types'
  <2>1. lock' \in {"none"} \cup Actors
    BY <1>t, <1>p, ActorsAre DEF Types, Identified, Leave, Goto, Call
  <2>2. ws' \in {"none", "live", "lost"} /\ handler' \in {"none", "identify", "real"}
    BY <1>t, <1>p DEF Types, Identified, Leave, Goto, Call
  <2>3. on_close' \in BOOLEAN /\ acked' \in BOOLEAN /\ should_heartbeat' \in BOOLEAN
    BY <1>t, <1>p DEF Types, Identified, Leave, Goto, Call
  <2>4. pc' \in [Actors -> Places] /\ \A b \in Actors : pc'[b] \in MayBe(b)
    BY <1>t, <1>p, MoveFacts
  <2>5. UNCHANGED <<after, worker, hb, hb_thread, txq, rxq, jobs, failures, crashed>>
    BY <1>t, <1>p DEF Identified, Leave, Goto, Call
  <2>6. closed' \in {"no", "seen", "missed", "forgotten"}
    BY <1>t, <1>p DEF Types, Identified
  <2> QED
    BY <1>t, <2>1, <2>2, <2>3, <2>4, <2>5, <2>6 DEF Types
<1>2. Beating'
  BY <1>t, <1>p, MoveFacts DEF IInv, Types, Beating, Stopping, Hbs, Identified, Leave,
     Goto, Call
<1>3. Reconnected'
  BY <1>t, <1>p, MoveFacts DEF IInv, Types, Reconnected, Handling, Removing, Disconnecting,
     Identified, Leave, Goto, Call
<1>4. Waits'
  BY <1>t, <1>p, MoveWaits DEF IInv, Identified, Leave, Goto, Call
<1>5. Apart'
  <2> SUFFICES ASSUME OnlyLocked, Locking, Holding PROVE Locking' /\ Holding'
    BY DEF IInv, Apart, OnlyLocked
  <2>0. HasLock' /\ Place = pc[a] /\ Place' = "free"
    BY <1>t, <1>p, LockFacts DEF Locking, Busy, Disconnecting, Resuming, HasLock
  <2>1. Locking'
    BY <1>t, <1>p, <2>0 DEF Types, Locking, Identified, Leave, Goto, Call
  <2>2. Holding'
    BY <1>t, <1>p, <2>0 DEF Types, Holding, Hbs, Identified, Leave, Goto, Call
  <2> QED
    BY <2>1, <2>2
<1> QED
  BY <1>1, <1>2, <1>3, <1>4, <1>5 DEF IInv

-----------------------------------------------------------------------------
(* The main thread and the dispatcher's *)

\* The main thread comes to stop,
LEMMA RequestShutdownKeepsIInv ==
  ASSUME IInv, RequestShutdown, server' = server
  PROVE  IInv'
<1>t. Types
  BY DEF IInv
<1>a. "main" \in Actors
  BY ActorsAre
<1>p. PICK place \in MayBe("main") :
        /\ pc' = [pc EXCEPT !["main"] = place] /\ lock' = lock
        /\ pc["main"] = "running" /\ place \in {"stopping", "done"}
  BY <1>a, <1>t DEF Types, MayBe, Goto, RequestShutdown
<1>1. Types'
  <2>1. pc' \in [Actors -> Places] /\ \A b \in Actors : pc'[b] \in MayBe(b)
    BY <1>t, <1>a, <1>p, MoveFacts
  <2>2. UNCHANGED <<lock, after, worker, hb, hb_thread, txq, rxq, ws, handler, on_close, closed,
                     acked, should_heartbeat, jobs, failures, crashed>>
    BY <1>t, <1>a, <1>p DEF RequestShutdown, Goto, Call
  <2> QED
    BY <1>t, <2>1, <2>2 DEF Types
<1>2. Beating'
  BY <1>t, <1>a, <1>p, MoveFacts DEF IInv, Types, Beating, Stopping, Hbs,
     RequestShutdown, Goto, Call
<1>3. Reconnected'
  BY <1>t, <1>a, <1>p, MoveFacts DEF IInv, Types, Reconnected, Handling, Removing, Disconnecting,
     RequestShutdown, Goto, Call
<1>4. Waits'
  BY <1>t, <1>a, <1>p, MoveWaits DEF IInv, RequestShutdown, Goto, Call
<1>5. Apart'
  <2> SUFFICES ASSUME OnlyLocked, Locking, Holding PROVE Locking' /\ Holding'
    BY DEF IInv, Apart, OnlyLocked
  <2>0. HasLock' /\ Place' = Place
    BY <1>t, <1>a, <1>p, LockFacts DEF Locking, Busy, Disconnecting, Resuming
  <2>1. Locking'
    BY <1>t, <1>a, <1>p, <2>0 DEF Types, Locking, RequestShutdown, Goto, Call
  <2>2. Holding'
    BY <1>t, <1>a, <1>p, <2>0 DEF Types, Holding, Hbs, RequestShutdown, Goto, Call
  <2> QED
    BY <2>1, <2>2
<1> QED
  BY <1>1, <1>2, <1>3, <1>4, <1>5 DEF IInv

\* and takes the lock to do it.
LEMMA ShutdownKeepsIInv ==
  ASSUME IInv, Shutdown, server' = server
  PROVE  IInv'
<1>t. Types
  BY DEF IInv
<1>a. "main" \in Actors
  BY ActorsAre
<1>p. PICK place \in MayBe("main") :
        /\ pc' = [pc EXCEPT !["main"] = place] /\ lock = "none" /\ lock' = "main"
        /\ pc["main"] = "stopping" /\ place = "disconnect"
  BY <1>a, <1>t DEF Types, MayBe, Busy, Disconnecting, Resuming, Call, Goto, Shutdown
<1>1. Types'
  <2>1. lock' \in {"none"} \cup Actors
    BY <1>t, <1>a, <1>p, ActorsAre DEF Types, Shutdown, Goto, Call
  <2>2. /\ after' \in [Actors -> {"resume", "again", "reinit", "end"}]
        /\ \A b \in Actors : after'[b] = "end" => b = "main"
    BY <1>t, <1>a, <1>p, ActorsAre DEF Types, Shutdown, Goto, Call
  <2>3. pc' \in [Actors -> Places] /\ \A b \in Actors : pc'[b] \in MayBe(b)
    BY <1>t, <1>a, <1>p, MoveFacts
  <2>4. UNCHANGED <<worker, hb, hb_thread, txq, rxq, ws, handler, on_close, closed, acked,
                     should_heartbeat, jobs, failures, crashed>>
    BY <1>t, <1>a, <1>p DEF Shutdown, Goto, Call
  <2> QED
    BY <1>t, <2>1, <2>2, <2>3, <2>4 DEF Types
<1>2. Beating'
  BY <1>t, <1>a, <1>p, MoveFacts DEF IInv, Types, Beating, Stopping, Hbs, Shutdown,
     Goto, Call
<1>3. Reconnected'
  BY <1>t, <1>a, <1>p, MoveFacts DEF IInv, Types, Reconnected, Handling, Removing, Disconnecting,
     Shutdown, Goto, Call
<1>4. Waits'
  BY <1>t, <1>a, <1>p, MoveWaits DEF IInv, Shutdown, Goto, Call
<1>5. Apart'
  <2> SUFFICES ASSUME OnlyLocked, Locking, Holding PROVE Locking' /\ Holding'
    BY DEF IInv, Apart, OnlyLocked
  <2>0. HasLock' /\ Place = "free" /\ Place' = place
    BY <1>t, <1>a, <1>p, LockFacts DEF Locking, Busy, Disconnecting, Resuming
  <2>1. Locking'
    BY <1>t, <1>a, <1>p, <2>0 DEF Types, Locking, Shutdown, Goto, Call
  <2>2. Holding'
    BY <1>t, <1>a, <1>p, <2>0 DEF Types, Holding, Hbs, Shutdown, Goto, Call
  <2> QED
    BY <2>1, <2>2
<1> QED
  BY <1>1, <1>2, <1>3, <1>4, <1>5 DEF IInv

\* A dispatcher takes the heartbeat's job, which waits for the lock,
LEMMA StartBeatKeepsIInv ==
  ASSUME NEW p \in Pool, IInv, StartBeat(p), server' = server
  PROVE  IInv'
<1>t. Types
  BY DEF IInv
<1>a. p \in Actors /\ p # "main"
  BY ActorsAre
<1>p. PICK place \in MayBe(p) :
        /\ pc' = [pc EXCEPT ![p] = place] /\ lock' = lock
        /\ pc[p] = "idle" /\ place = "lock"
  BY <1>a, <1>t DEF Types, MayBe, Busy, Disconnecting, Resuming, TakeJob, Goto,
     StartBeat
<1>1. Types'
  <2>1. jobs' \in Seq(Jobs)
    BY <1>t, <1>a, <1>p, JobsAre, DispatcherFacts DEF Types, StartBeat, TakeJob, Goto,
       Call
  <2>2. pc' \in [Actors -> Places] /\ \A b \in Actors : pc'[b] \in MayBe(b)
    BY <1>t, <1>a, <1>p, MoveFacts
  <2>3. UNCHANGED <<lock, after, worker, hb, hb_thread, txq, rxq, ws, handler, on_close, closed,
                     acked, should_heartbeat, failures, crashed>>
    BY <1>t, <1>a, <1>p DEF StartBeat, TakeJob, Goto, Call
  <2> QED
    BY <1>t, <2>1, <2>2, <2>3 DEF Types
<1>2. Beating'
  BY <1>t, <1>a, <1>p, MoveFacts DEF IInv, Types, Beating, Stopping, Hbs, StartBeat,
     TakeJob, Goto, Call
<1>3. Reconnected'
  BY <1>t, <1>a, <1>p, MoveFacts, JobsAre, DispatcherFacts DEF IInv, Types, Reconnected,
     Handling, Removing, Disconnecting, StartBeat, TakeJob, Goto, Call
<1>4. Waits'
  BY <1>t, <1>a, <1>p, TailWaits, MoveFacts DEF IInv, TakeJob, StartBeat
<1>5. Apart'
  <2> SUFFICES ASSUME OnlyLocked, Locking, Holding PROVE Locking' /\ Holding'
    BY DEF IInv, Apart, OnlyLocked
  <2>0. HasLock' /\ Place' = Place
    BY <1>t, <1>a, <1>p, LockFacts DEF Locking, Busy, Disconnecting, Resuming
  <2>1. Locking'
    BY <1>t, <1>a, <1>p, <2>0, JobsAre, DispatcherFacts DEF Types, Locking, StartBeat,
       TakeJob, Goto, Call
  <2>2. Holding'
    BY <1>t, <1>a, <1>p, <2>0 DEF Types, Holding, Hbs, StartBeat, TakeJob, Goto, Call
  <2> QED
    BY <2>1, <2>2
<1> QED
  BY <1>1, <1>2, <1>3, <1>4, <1>5 DEF IInv

\* and gets it;
LEMMA LockBeatKeepsIInv ==
  ASSUME NEW p \in Pool, IInv, LockBeat(p), server' = server
  PROVE  IInv'
<1>t. Types
  BY DEF IInv
<1>a. p \in Actors /\ p # "main"
  BY ActorsAre
<1>p. PICK place \in MayBe(p) :
        /\ pc' = [pc EXCEPT ![p] = place] /\ lock = "none" /\ lock' = p
        /\ pc[p] = "lock" /\ place = "disconnect"
  BY <1>a, <1>t DEF Types, MayBe, Busy, Disconnecting, Resuming, Call, Goto, LockBeat
<1>1. Types'
  <2>1. lock' \in {"none"} \cup Actors
    BY <1>t, <1>a, <1>p, ActorsAre DEF Types, LockBeat, Goto, Call
  <2>2. /\ after' \in [Actors -> {"resume", "again", "reinit", "end"}]
        /\ \A b \in Actors : after'[b] = "end" => b = "main"
    BY <1>t, <1>a, <1>p, ActorsAre DEF Types, LockBeat, Goto, Call
  <2>3. pc' \in [Actors -> Places] /\ \A b \in Actors : pc'[b] \in MayBe(b)
    BY <1>t, <1>a, <1>p, MoveFacts
  <2>4. UNCHANGED <<worker, hb, hb_thread, txq, rxq, ws, handler, on_close, closed, acked,
                     should_heartbeat, jobs, failures, crashed>>
    BY <1>t, <1>a, <1>p DEF LockBeat, Goto, Call
  <2> QED
    BY <1>t, <2>1, <2>2, <2>3, <2>4 DEF Types
<1>2. Beating'
  BY <1>t, <1>a, <1>p, MoveFacts DEF IInv, Types, Beating, Stopping, Hbs, LockBeat,
     Goto, Call
<1>3. Reconnected'
  BY <1>t, <1>a, <1>p, MoveFacts DEF IInv, Types, Reconnected, Handling, Removing, Disconnecting,
     LockBeat, Goto, Call
<1>4. Waits'
  BY <1>t, <1>a, <1>p, MoveWaits DEF IInv, LockBeat, Goto, Call
<1>5. Apart'
  <2> SUFFICES ASSUME OnlyLocked, Locking, Holding PROVE Locking' /\ Holding'
    BY DEF IInv, Apart, OnlyLocked
  <2>0. HasLock' /\ Place = "free" /\ Place' = place
    BY <1>t, <1>a, <1>p, LockFacts DEF Locking, Busy, Disconnecting, Resuming
  <2>1. Locking'
    BY <1>t, <1>a, <1>p, <2>0 DEF Types, Locking, LockBeat, Goto, Call
  <2>2. Holding'
    BY <1>t, <1>a, <1>p, <2>0 DEF Types, Holding, Hbs, LockBeat, Goto, Call
  <2> QED
    BY <2>1, <2>2
<1> QED
  BY <1>1, <1>2, <1>3, <1>4, <1>5 DEF IInv

\* a job of the callbacks, which does not;
LEMMA StartUnlockedKeepsIInv ==
  ASSUME NEW p \in Pool, IInv, StartUnlocked(p), server' = server
  PROVE  IInv'
<1>t. Types
  BY DEF IInv
<1>a. p \in Actors /\ p # "main"
  BY ActorsAre
<1>p. PICK place \in MayBe(p) :
        /\ pc' = [pc EXCEPT ![p] = place] /\ lock' = lock
        /\ pc[p] = "idle" /\ place = "disconnect"
  BY <1>a, <1>t DEF Types, MayBe, Busy, Disconnecting, Resuming, TakeJob, Call, Goto,
     StartUnlocked
<1>1. Types'
  <2>1. /\ after' \in [Actors -> {"resume", "again", "reinit", "end"}]
        /\ \A b \in Actors : after'[b] = "end" => b = "main"
    BY <1>t, <1>a, <1>p, ActorsAre DEF Types, StartUnlocked, TakeJob, Goto, Call
  <2>2. jobs' \in Seq(Jobs)
    BY <1>t, <1>a, <1>p, JobsAre, DispatcherFacts DEF Types, StartUnlocked, TakeJob,
       Goto, Call
  <2>3. pc' \in [Actors -> Places] /\ \A b \in Actors : pc'[b] \in MayBe(b)
    BY <1>t, <1>a, <1>p, MoveFacts
  <2>4. UNCHANGED <<lock, worker, hb, hb_thread, txq, rxq, ws, handler, on_close, closed, acked,
                     should_heartbeat, failures, crashed>>
    BY <1>t, <1>a, <1>p DEF StartUnlocked, TakeJob, Goto, Call
  <2> QED
    BY <1>t, <2>1, <2>2, <2>3, <2>4 DEF Types
<1>2. Beating'
  BY <1>t, <1>a, <1>p, MoveFacts DEF IInv, Types, Beating, Stopping, Hbs, StartUnlocked,
     TakeJob, Goto, Call
<1>3. Reconnected'
  BY <1>t, <1>a, <1>p, MoveFacts, JobsAre, DispatcherFacts DEF IInv, Types, Reconnected,
     Handling, Removing, Disconnecting, StartUnlocked, TakeJob, Goto, Call
<1>4. Waits'
  BY <1>t, <1>a, <1>p, TailWaits, MoveFacts DEF IInv, TakeJob, StartUnlocked
<1>5. Apart'
  <2> SUFFICES ASSUME OnlyLocked, Locking PROVE FALSE
    BY DEF IInv, Apart, OnlyLocked
  <2>1. jobs # <<>> /\ Head(jobs).kind \in {"opcode", "dropped"}
    BY DEF StartUnlocked, TakeJob
  <2>2. CASE Place = "await"
    BY <1>t, <2>1, <2>2, DispatcherFacts DEF Locking, Types
  <2>3. CASE Place # "await"
    BY <1>t, <2>1, <2>3, DispatcherFacts DEF Locking, Types
  <2> QED
    BY <2>2, <2>3
<1> QED
  BY <1>1, <1>2, <1>3, <1>4, <1>5 DEF IInv

\* the closing job of the receiver, which may leave one to reconnect,
LEMMA SockOfReceiverKeepsIInv ==
  ASSUME NEW p \in Pool, IInv, RunSock(p), Head(jobs).by = "rx", server' = server
  PROVE  IInv'
<1>t. Types
  BY DEF IInv
<1>j. jobs # <<>> /\ (jobs' = Tail(jobs) \/ jobs' = Tail(jobs) \o <<Job("dropped", "rx")>>)
  BY <1>t, DispatcherFacts DEF RunSock, Types
<1>1. Types'
  <2>1. jobs' \in Seq(Jobs)
    BY <1>t, <1>j, DispatcherFacts DEF Types
  <2>2. UNCHANGED <<lock, after, worker, hb, hb_thread, txq, rxq, ws, handler, on_close,
                     acked, should_heartbeat, failures, pc, crashed>>
    BY <1>t DEF RunSock
  <2>3. closed' \in {"no", "seen", "missed", "forgotten"}
    BY <1>t DEF Types, RunSock
  <2> QED
    BY <1>t, <2>1, <2>2, <2>3 DEF Types
<1>2. Beating'
  BY <1>t DEF IInv, Types, Beating, Stopping, Hbs, RunSock
<1>3. Reconnected'
  BY <1>t, JobsAre, DispatcherFacts DEF IInv, Types, Reconnected, Handling, Removing,
     Disconnecting, RunSock
<1>4. Waits'
  <2>1. pc' = pc
    BY DEF RunSock
  <2> QED
    BY <1>t, <1>j, <2>1, TailWaits, DropWaits DEF IInv
<1>5. Apart'
  <2> SUFFICES ASSUME OnlyLocked, Locking PROVE FALSE
    BY DEF IInv, Apart, OnlyLocked
  <2>1. jobs # <<>> /\ Head(jobs).kind = "sock"
    BY DEF RunSock
  <2>2. Place = "await" /\ OneSock(jobs, lock)
    BY <1>t, <2>1, DispatcherFacts DEF Locking, Types
  <2>3. lock = "rx"
    BY <1>t, <2>1, <2>2, DispatcherFacts DEF Types
  <2> QED
    BY <1>t, <2>3, ActorsAre DEF Types
<1> QED
  BY <1>1, <1>2, <1>3, <1>4, <1>5 DEF IInv

\* or that of one who disconnects, and who goes on.
LEMMA SockOfActorKeepsIInv ==
  ASSUME NEW p \in Pool, IInv, RunSock(p), Head(jobs).by # "rx", server' = server
  PROVE  IInv'
<1>t. Types
  BY DEF IInv
<1>h. jobs # <<>> /\ Head(jobs).kind = "sock" /\ Head(jobs) \in Jobs
  BY <1>t, DispatcherFacts DEF RunSock, Types
<1> DEFINE a == Head(jobs).by
<1>a. a \in Actors /\ Return(a) /\ Head(jobs) = Job("sock", a) /\ jobs' = Tail(jobs)
  BY <1>h DEF RunSock, Jobs, Job
<1>b. pc[a] = "await"
  <2>1. 1 \in 1..Len(jobs) /\ jobs[1] = Job("sock", a)
    BY <1>t, <1>h, <1>a DEF Types
  <2> QED
    BY <1>a, <2>1 DEF IInv, Waits, Waiting
<1> HIDE DEF a
<1>p. PICK place \in MayBe(a) :
        /\ pc' = [pc EXCEPT ![a] = place] /\ pc[a] = "await"
        /\ \/ place \in {"init", "disconnect", "reinit"} /\ lock' = lock
           \/ place = "done" /\ lock' = "none"
  BY <1>t, <1>a, <1>b, ReturnFacts
<1>1. Types'
  <2>1. lock' \in {"none"} \cup Actors
    BY <1>t, <1>a, <1>p, ActorsAre DEF Types, RunSock, Goto, Call
  <2>2. /\ after' \in [Actors -> {"resume", "again", "reinit", "end"}]
        /\ \A b \in Actors : after'[b] = "end" => b = "main"
    BY <1>t, <1>a, ReturnFacts
  <2>3. jobs' \in Seq(Jobs)
    BY <1>t, <1>h, <1>a, DispatcherFacts DEF Types
  <2>4. pc' \in [Actors -> Places] /\ \A b \in Actors : pc'[b] \in MayBe(b)
    BY <1>t, <1>a, <1>p, MoveFacts
  <2>5. UNCHANGED <<worker, hb, hb_thread, txq, rxq, ws, handler, on_close, closed, acked,
                     should_heartbeat, failures, crashed>>
    BY <1>t, <1>a, <1>p DEF RunSock, Goto, Call
  <2> QED
    BY <1>t, <2>1, <2>2, <2>3, <2>4, <2>5 DEF Types
<1>2. Beating'
  BY <1>t, <1>a, <1>p, MoveFacts DEF IInv, Types, Beating, Stopping, Hbs, RunSock, Goto,
     Call
<1>3. Reconnected'
  BY <1>t, <1>a, <1>p, MoveFacts, JobsAre, DispatcherFacts DEF IInv, Types, Reconnected,
     Handling, Removing, Disconnecting, RunSock, Goto, Call
<1>4. Waits'
  <2>1. \A b \in Actors : pc[b] = "await" => pc'[b] = "await" \/ Head(jobs) = Job("sock", b)
    BY <1>t, <1>a, <1>p DEF Types
  <2> QED
    BY <1>t, <1>h, <1>a, <2>1, TailWaits DEF IInv
<1>5. Apart'
  <2> SUFFICES ASSUME OnlyLocked, Locking, Holding PROVE Locking' /\ Holding'
    BY DEF IInv, Apart, OnlyLocked
  <2>0. HasLock' /\ Place = pc[a] /\ Place' = IF place = "done" THEN "free" ELSE place
    BY <1>t, <1>a, <1>p, LockFacts DEF Locking, Busy, Disconnecting, Resuming
  <2>1. Locking'
    BY <1>t, <1>a, <1>p, <2>0, JobsAre, DispatcherFacts DEF Types, Locking, RunSock,
       Goto, Call
  <2>2. Holding'
    BY <1>t, <1>a, <1>p, <2>0 DEF Types, Holding, Hbs, RunSock, Goto, Call
  <2> QED
    BY <2>1, <2>2
<1> QED
  BY <1>1, <1>2, <1>3, <1>4, <1>5 DEF IInv

-----------------------------------------------------------------------------
(* The network, the workers and the heartbeat *)

\* What the receiver gets, and an outage.
LEMMA ReceiveKeepsIInv ==
  ASSUME IInv, ReceiveDispatch \/ ReceiveAck \/ LoseConnection, server' = server
  PROVE  IInv'
<1>t. Types
  BY DEF IInv
<1>1. Types'
  <2>1. txq' \in Seq({"msg", "dc"}) /\ rxq' \in Seq({"msg", "dc"})
    <3>1. txq' = txq /\ (rxq' = rxq \/ rxq' = Append(rxq, "msg"))
      BY DEF ReceiveDispatch, ReceiveAck, LoseConnection
    <3> QED
      BY <1>t, <3>1, MessageFacts
  <2>2. ws' \in {"none", "live", "lost"} /\ handler' \in {"none", "identify", "real"}
    BY <1>t DEF Types, ReceiveDispatch, ReceiveAck, LoseConnection, CanFail
  <2>3. on_close' \in BOOLEAN /\ acked' \in BOOLEAN /\ should_heartbeat' \in BOOLEAN
    BY <1>t DEF Types, ReceiveDispatch, ReceiveAck, LoseConnection, CanFail
  <2>4. failures' \in 0..MaxFailures
    BY <1>t, DiscordAssumption DEF Types, ReceiveDispatch, ReceiveAck, LoseConnection,
       CanFail
  <2>5. UNCHANGED <<lock, after, worker, hb, hb_thread, jobs, pc, crashed, closed>>
    BY <1>t DEF ReceiveDispatch, ReceiveAck, LoseConnection, CanFail
  <2> QED
    BY <1>t, <2>1, <2>2, <2>3, <2>4, <2>5 DEF Types
<1>2. Beating'
  BY <1>t DEF IInv, Types, Beating, Stopping, Hbs, ReceiveDispatch, ReceiveAck,
     LoseConnection, CanFail
<1>3. Reconnected'
  BY <1>t DEF IInv, Types, Reconnected, Handling, Removing, Disconnecting, ReceiveDispatch,
     ReceiveAck, LoseConnection, CanFail
<1>4. Waits'
  BY <1>t DEF IInv, Waits, ReceiveDispatch, ReceiveAck, LoseConnection, CanFail
<1>5. Apart'
  <2> SUFFICES ASSUME OnlyLocked, Locking, Holding PROVE Locking' /\ Holding'
    BY DEF IInv, Apart, OnlyLocked
  <2>0. HasLock' /\ Place' = Place
    BY DEF Locking, HasLock, Place, ReceiveDispatch, ReceiveAck, LoseConnection, CanFail
  <2>1. Locking'
    BY <1>t, <2>0 DEF Types, Locking, ReceiveDispatch, ReceiveAck, LoseConnection,
       CanFail
  <2>2. Holding'
    BY <1>t, <2>0 DEF Types, Holding, Hbs, ReceiveDispatch, ReceiveAck, LoseConnection,
       CanFail
  <2> QED
    BY <2>1, <2>2
<1> QED
  BY <1>1, <1>2, <1>3, <1>4, <1>5 DEF IInv

\* The server ends the connection.
LEMMA ServerEndsKeepsIInv ==
  ASSUME IInv, ReceiveReconnect \/ ServerClose, server' = server
  PROVE  IInv'
<1>t. Types
  BY DEF IInv
<1>j. PICK j \in {Job("opcode", "rx"), Job("sock", "rx")} :
        /\ jobs' = Append(jobs, j) /\ pc' = pc /\ on_close' = on_close
        /\ j = Job("opcode", "rx") => ws' = ws /\ closed' = closed
        /\ j = Job("sock", "rx") => ws = "live" /\ closed' = "seen"
  <2>1. CASE ReceiveReconnect
    BY <2>1 DEF ReceiveReconnect, Job
  <2>2. CASE ServerClose
    BY <2>2 DEF ServerClose, Job
  <2> QED
    BY <2>1, <2>2
<1>k. j \in Jobs /\ \A a \in Actors : j # Job("sock", a)
  BY <1>j, JobsAre, ActorsAre DEF Job
<1>1. Types'
  <2>1. ws' \in {"none", "live", "lost"} /\ handler' \in {"none", "identify", "real"}
    BY <1>t DEF Types, ReceiveReconnect, ServerClose, CanFail
  <2>2. jobs' \in Seq(Jobs)
    BY <1>t, <1>j, <1>k, DispatcherFacts DEF Types
  <2>3. failures' \in 0..MaxFailures
    BY <1>t, DiscordAssumption DEF Types, ReceiveReconnect, ServerClose, CanFail
  <2>4. UNCHANGED <<lock, after, worker, hb, hb_thread, txq, rxq, on_close, acked,
                     should_heartbeat, pc, crashed>>
    BY <1>t DEF ReceiveReconnect, ServerClose, CanFail
  <2>5. closed' \in {"no", "seen", "missed", "forgotten"}
    BY <1>t DEF Types, ReceiveReconnect, ServerClose
  <2> QED
    BY <1>t, <2>1, <2>2, <2>3, <2>4, <2>5 DEF Types
<1>2. Beating'
  BY <1>t DEF IInv, Types, Beating, Stopping, Hbs, ReceiveReconnect, ServerClose,
     CanFail
<1>3. Reconnected'
  <2>1. Noticed(jobs) => Noticed(jobs')
    BY <1>t, <1>j, <1>k, DispatcherFacts DEF Types
  <2>2. j = Job("sock", "rx") => Noticed(jobs')
    BY <1>t, <1>j, <1>k, DispatcherFacts DEF Types
  <2> QED
    BY <1>j, <2>1, <2>2 DEF IInv, Reconnected
<1>4. Waits'
  BY <1>t, <1>j, <1>k, AppendWaits DEF IInv
<1>5. Apart'
  BY DEF Apart, OnlyLocked, ReceiveReconnect, ServerClose
<1> QED
  BY <1>1, <1>2, <1>3, <1>4, <1>5 DEF IInv

\* The send and receive workers.
LEMMA WorkersKeepIInv ==
  ASSUME IInv, TxPop \/ RxPop \/ RxProcess, server' = server
  PROVE  IInv'
<1>t. Types
  BY DEF IInv
<1>1. Types'
  <2>1. worker' \in [tx : {"none", "pop", "exited"}, rx : {"none", "pop", "msg", "exited"}]
    BY <1>t DEF Types, TxPop, RxPop, RxProcess
  <2>2. txq' \in Seq({"msg", "dc"}) /\ rxq' \in Seq({"msg", "dc"})
    <3>1. /\ txq' = txq \/ txq' = Append(txq, "msg") \/ (txq # <<>> /\ txq' = Tail(txq))
          /\ rxq' = rxq \/ (rxq # <<>> /\ rxq' = Tail(rxq))
      BY DEF TxPop, RxPop, RxProcess
    <3> QED
      BY <1>t, <3>1, MessageFacts
  <2>3. UNCHANGED <<lock, after, hb, hb_thread, ws, handler, on_close, closed, acked,
                     should_heartbeat, jobs, failures, pc, crashed>>
    BY <1>t DEF TxPop, RxPop, RxProcess
  <2> QED
    BY <1>t, <2>1, <2>2, <2>3 DEF Types
<1>2. Beating'
  BY <1>t DEF IInv, Types, Beating, Stopping, Hbs, TxPop, RxPop, RxProcess
<1>3. Reconnected'
  BY <1>t DEF IInv, Types, Reconnected, Handling, Removing, Disconnecting, TxPop, RxPop, RxProcess
<1>4. Waits'
  BY <1>t DEF IInv, Waits, TxPop, RxPop, RxProcess
<1>5. Apart'
  <2> SUFFICES ASSUME OnlyLocked, Locking, Holding PROVE Locking' /\ Holding'
    BY DEF IInv, Apart, OnlyLocked
  <2>0. HasLock' /\ Place' = Place
    BY DEF Locking, HasLock, Place, TxPop, RxPop, RxProcess
  <2>1. Locking'
    BY <1>t, <2>0 DEF Types, Locking, TxPop, RxPop, RxProcess
  <2>2. Holding'
    BY <1>t, <2>0 DEF Types, Holding, Hbs, TxPop, RxPop, RxProcess
  <2> QED
    BY <2>1, <2>2
<1> QED
  BY <1>1, <1>2, <1>3, <1>4, <1>5 DEF IInv

\* The heartbeat's turns,
LEMMA HbKeepsIInv ==
  ASSUME NEW h \in Hbs, IInv, HbCheck(h) \/ HbNotDue(h) \/ HbSend(h), server' = server
  PROVE  IInv'
<1>t. Types
  BY DEF IInv
<1>1. Types'
  <2>1. hb' \in [Hbs -> {"none", "check", "want", "exited"}] /\ hb_thread' \in {0} \cup Hbs
    BY <1>t DEF Types, Hbs, HbCheck, HbNotDue, HbSend, HbGoes
  <2>2. on_close' \in BOOLEAN /\ acked' \in BOOLEAN /\ should_heartbeat' \in BOOLEAN
    BY <1>t DEF Types, HbCheck, HbNotDue, HbSend, HbGoes
  <2>3. UNCHANGED <<lock, after, worker, txq, rxq, ws, handler, jobs, failures, pc,
                     crashed, closed>>
    BY <1>t DEF HbCheck, HbNotDue, HbSend, HbGoes
  <2> QED
    BY <1>t, <2>1, <2>2, <2>3 DEF Types
<1>2. Beating'
  BY <1>t DEF IInv, Types, Beating, Stopping, Hbs, HbCheck, HbNotDue, HbSend, HbGoes
<1>3. Reconnected'
  BY <1>t DEF IInv, Types, Reconnected, Handling, Removing, Disconnecting, HbCheck, HbNotDue,
     HbSend, HbGoes
<1>4. Waits'
  BY <1>t DEF IInv, Waits, HbCheck, HbNotDue, HbSend, HbGoes
<1>5. Apart'
  <2> SUFFICES ASSUME OnlyLocked, Locking, Holding PROVE Locking' /\ Holding'
    BY DEF IInv, Apart, OnlyLocked
  <2>0. HasLock' /\ Place' = Place
    BY DEF Locking, HasLock, Place, HbCheck, HbNotDue, HbSend, HbGoes
  <2>1. Locking'
    BY <1>t, <2>0 DEF Types, Locking, HbCheck, HbNotDue, HbSend, HbGoes
  <2>2. Holding'
    BY <1>t, <2>0 DEF Types, Holding, Hbs, HbCheck, HbNotDue, HbSend, HbGoes
  <2> QED
    BY <2>1, <2>2
<1> QED
  BY <1>1, <1>2, <1>3, <1>4, <1>5 DEF IInv

\* and the one that asks for a reconnection.
LEMMA HbPatienceKeepsIInv ==
  ASSUME NEW h \in Hbs, IInv, HbPatience(h), server' = server
  PROVE  IInv'
<1>t. Types
  BY DEF IInv
<1>1. Types'
  <2>1. hb' \in [Hbs -> {"none", "check", "want", "exited"}] /\ hb_thread' \in {0} \cup Hbs
    BY <1>t DEF Types, Hbs, HbPatience, HbGoes
  <2>2. jobs' \in Seq(Jobs)
    BY <1>t, JobsAre, DispatcherFacts DEF Types, HbPatience, HbGoes
  <2>3. UNCHANGED <<lock, after, worker, txq, rxq, ws, handler, on_close, closed, acked,
                     should_heartbeat, failures, pc, crashed>>
    BY <1>t DEF HbPatience, HbGoes
  <2> QED
    BY <1>t, <2>1, <2>2, <2>3 DEF Types
<1>2. Beating'
  BY <1>t DEF IInv, Types, Beating, Stopping, Hbs, HbPatience, HbGoes
<1>3. Reconnected'
  BY <1>t, JobsAre, DispatcherFacts DEF IInv, Types, Reconnected, Handling, Removing,
     Disconnecting, HbPatience, HbGoes
<1>4. Waits'
  <2>1. Job("beat", "hb") \in Jobs /\ \A a \in Actors : Job("beat", "hb") # Job("sock", a)
    BY JobsAre DEF Job
  <2> QED
    BY <1>t, <2>1, AppendWaits DEF IInv, HbPatience, HbGoes
<1>5. Apart'
  <2> SUFFICES ASSUME OnlyLocked, Locking, Holding PROVE Locking' /\ Holding'
    BY DEF IInv, Apart, OnlyLocked
  <2>0. HasLock' /\ Place' = Place
    BY DEF Locking, HasLock, Place, HbPatience, HbGoes
  <2>1. Locking'
    BY <1>t, <2>0, JobsAre, DispatcherFacts DEF Types, Locking, HbPatience, HbGoes
  <2>2. Holding'
    BY <1>t, <2>0 DEF Types, Holding, Hbs, HbPatience, HbGoes
  <2> QED
    BY <2>1, <2>2
<1> QED
  BY <1>1, <1>2, <1>3, <1>4, <1>5 DEF IInv

-----------------------------------------------------------------------------
(* The theorems *)

LEMMA NextKeepsIInv == IInv /\ [Next]_vars => IInv'
<1> SUFFICES ASSUME IInv, [Next]_vars PROVE IInv'
  OBVIOUS
<1>1. CASE UNCHANGED vars
  BY <1>1 DEF vars, IInv, Types, Beating, Reconnected, Waits, Apart, OnlyLocked, Locking,
     HasLock, Holding, Place
<1>2. CASE Next
  <2>1. server' = server /\ ~crashed
    BY <1>2 DEF Next
  <2>2. CASE Network
    BY <2>1, <2>2, ReceiveKeepsIInv, ServerEndsKeepsIInv DEF Network
  <2>3. CASE TxPop \/ RxPop \/ RxProcess
    BY <2>1, <2>3, WorkersKeepIInv
  <2>4. ASSUME NEW h \in Hbs, HbStep(h) PROVE IInv'
    BY <2>1, <2>4, HbKeepsIInv, HbPatienceKeepsIInv DEF HbStep
  <2>5. ASSUME NEW p \in Pool, PoolStep(p) PROVE IInv'
    <3>1. CASE RunSock(p)
      BY <2>1, <3>1, SockOfReceiverKeepsIInv, SockOfActorKeepsIInv
    <3> QED
      BY <2>1, <2>5, <3>1, StartBeatKeepsIInv, LockBeatKeepsIInv, StartUnlockedKeepsIInv
         DEF PoolStep
  <2>6. ASSUME NEW a \in Actors, ActorStep(a) PROVE IInv'
    <3>1. CASE BeginDisconnect(a)
      BY <2>1, <3>1, BeginKeepsIInv
    <3>2. CASE JoinHb(a) /\ ~Crash
      BY <2>1, <3>2, JoinHbKeepsIInv
    <3>3. CASE JoinWorkers(a) /\ ~Crash
      BY <2>1, <3>3, JoinWorkersKeepsIInv
    <3>4. CASE Close(a)
      BY <2>1, <3>4, CloseSocketKeepsIInv, CloseNothingKeepsIInv
    <3>5. CASE InitFails(a)
      BY <2>1, <3>5, InitFailsKeepsIInv
    <3>6. CASE InitSucceeds(a)
      BY <2>1, <3>6, InitSucceedsKeepsIInv
    <3>7. CASE StartWorkers(a)
      <4>1. CASE crashed' = crashed
        BY <2>1, <3>7, <4>1, ConnectKeepsIInv
      <4>2. CASE crashed' # crashed
        BY <2>1, <3>7, <4>2, CrashKeepsIInv DEF StartWorkers
      <4> QED
        BY <4>1, <4>2
    <3>8. CASE SendLogin(a) /\ ~Crash
      BY <2>1, <3>8, SendLoginKeepsIInv
    <3>9. CASE Identified(a)
      BY <2>1, <3>9, IdentifiedKeepsIInv
    <3>10. CASE LoginFails(a)
      BY <2>1, <3>10, LoginFailsKeepsIInv
    <3>11. CASE Crash
      BY <2>1, <3>11, CrashKeepsIInv DEF Crash
    <3>12. CASE Ready(a)
      BY <2>1, <3>12, ReadyKeepsIInv
    <3> QED
      BY <2>6, <3>1, <3>2, <3>3, <3>4, <3>5, <3>6, <3>7, <3>8, <3>9, <3>10, <3>11,
         <3>12
         DEF ActorStep, InitAsserts
  <2>7. CASE RequestShutdown \/ Shutdown
    BY <2>1, <2>7, RequestShutdownKeepsIInv, ShutdownKeepsIInv
  <2> QED
    BY <1>2, <2>2, <2>3, <2>4, <2>5, <2>6, <2>7 DEF Next
<1> QED
  BY <1>1, <1>2

\* The invariant that the others follow from.
THEOREM Invariance == Spec => []IInv
<1>1. Init => IInv
  BY InitIInv
<1>2. IInv /\ [Next]_vars => IInv'
  BY NextKeepsIInv
<1> QED
  BY <1>1, <1>2, PTL DEF Spec

\* What the session's variables may be.
THEOREM TypeCorrect == Spec => []TypeOK
<1>1. IInv => TypeOK
  <2> SUFFICES ASSUME Types PROVE TypeOK
    BY DEF IInv
  <2>1. jobs \in Seq([kind : {"beat", "opcode", "dropped", "sock"}, by : Actors \cup {"rx", "hb"}])
    <3> DEFINE Kinds == [kind : {"beat", "opcode", "dropped", "sock"},
                         by : Actors \cup {"rx", "hb"}]
    <3>1. jobs \in Seq(Jobs) /\ Jobs \subseteq Kinds
      BY DEF Types, Jobs
    <3> HIDE DEF Kinds
    <3>2. jobs \in Seq(Kinds)
      BY <3>1
    <3> QED
      BY <3>2 DEF Kinds
  <2>2. \A a \in Actors : pc[a] \in Disconnecting \cup Resuming \cup
          (IF a = "main" THEN {"running", "stopping", "done"} ELSE {"idle", "lock"})
    BY DEF Types, MayBe, Busy
  <2>3. {on_close, acked, should_heartbeat, crashed} \subseteq BOOLEAN
    BY DEF Types
  <2>4. worker.tx \in {"none", "pop", "exited"} /\ worker.rx \in {"none", "pop", "msg", "exited"}
    BY DEF Types
  <2> QED
    BY <2>1, <2>2, <2>3, <2>4 DEF Types, TypeOK
<1> QED
  BY <1>1, Invariance, PTL

\* With a server that only goes silent, no std::thread is assigned over while
\* joinable or joined twice, however many reconnections the heartbeat asks for and
\* however many dispatchers run them, and none finds the socket of another.
THEOREM ConnectionsApartHolds == Spec => []ConnectionsApart
<1>1. IInv => ConnectionsApart
  <2> SUFFICES ASSUME IInv, OnlyLocked PROVE ConnectionsApart
    BY DEF ConnectionsApart, NoThreadMisuse, ReconnectsFindNoSocket
  <2>1. Types /\ HasLock /\ Holding
    BY DEF IInv, Apart, Locking
  <2>2. \A a \in Actors : pc[a] \in Busy => Place = pc[a]
    BY <2>1, ActorsAre DEF HasLock, Place
  <2>3. \A a \in Actors :
          /\ pc[a] = "connect" => worker.tx = "none" /\ worker.rx = "none"
          /\ pc[a] = "wait_tx" => worker.tx # "none"
          /\ pc[a] = "wait_rx" => worker.rx # "none"
          /\ pc[a] = "wait_hb" => hb_thread # 0
          /\ pc[a] \in {"init", "reinit"} => ws = "none"
    BY <2>1, <2>2 DEF Holding, Busy, Disconnecting, Resuming
  <2>4. worker.tx = "none" /\ worker.rx = "none" => worker = [tx |-> "none", rx |-> "none"]
    BY <2>1 DEF Types
  <2> QED
    BY <2>1, <2>3, <2>4 DEF ConnectionsApart, NoThreadMisuse, ReconnectsFindNoSocket, Holding
<1> QED
  BY <1>1, Invariance, PTL

\* A connection that was lost without notice has a heartbeat worker to find out, or
\* somebody is connecting, disconnecting or about to, whatever the servers do and
\* whether or not it has the lock.
THEOREM OutageIsWatchedHolds == Spec => []OutageIsWatched
<1>1. IInv => OutageIsWatched
  BY DEF IInv, Beating, OutageIsWatched, Stopping, Disconnecting
<1> QED
  BY <1>1, Invariance, PTL

\* A connection that the server closed has the closing job, the one that will reconnect
\* it, or somebody who disconnects, and one who logs in when the CLOSE found the empty
\* callback, until a login takes what is closed for a session.
THEOREM CloseIsHandledHolds == Spec => []CloseIsHandled
<1>1. IInv => CloseIsHandled
  <2> SUFFICES ASSUME IInv PROVE CloseIsHandled
    OBVIOUS
  <2>1. 1..Len(jobs) = DOMAIN jobs
    BY DEF IInv, Types
  <2>2. Removing \subseteq Disconnecting /\ Handling \subseteq Disconnecting \cup Resuming
    BY DEF Removing, Handling, Resuming
  <2> QED
    BY <2>1, <2>2 DEF IInv, Reconnected, Noticed, CloseIsHandled
<1> QED
  BY <1>1, Invariance, PTL
=============================================================================
