--------------------------- MODULE DiscordSession ---------------------------
(***************************************************************************)
(* The Discord gateway connection: its heartbeat, send and receive         *)
(* threads, the jobs that reconnect and the pool of dispatcher threads     *)
(* that run them (backends/discord/discord.cpp, include/async.h).          *)
(*                                                                         *)
(* The heartbeat's reconnect job and the main thread disconnect and resume *)
(* with the lock of Synchronised<DiscordState> held.  The jobs made by the *)
(* websocket's callbacks do the same without it.  A forced disconnect of   *)
(* the socket waits for a closing job of the same pool (SocketLifecycle).  *)
(* Which session is resumed, the sequence number and the database's copy   *)
(* of both are left out.                                                   *)
(***************************************************************************)
EXTENDS Naturals, Sequences, SequencesExt, FiniteSets

CONSTANTS Pool,         \* the dispatcher's threads
          Servers,      \* what a server may do to end a connection, for each kind
          MaxQueued,    \* bound on the events and messages in a queue
          MaxJobs,      \* bound on the jobs waiting when one is added
          MaxFailures   \* bound on attempts that fail and on what the server does

ASSUME DiscordAssumption ==
  /\ Pool # {} /\ Pool \cap {"main", "rx", "hb", "none"} = {}
  /\ Servers \subseteq SUBSET {"close", "reconnect", "lose"}
  /\ MaxQueued \in Nat /\ MaxJobs \in Nat /\ MaxFailures \in Nat

VARIABLES lock,     \* who holds the write lock
          pc,       \* where the main thread and the dispatcher's threads are
          after,    \* where each goes once disconnect() returns
          worker,   \* tx_thread and rx_thread; "none": not joinable
          hb,       \* the heartbeat threads
          hb_thread,\* the one the state's std::thread stands for, 0: none
          txq, rxq, \* the message queue's two directions
          ws,       \* "none": no socket; "live"; "lost": peer gone, unnoticed
          handler,  \* what the websocket's text callback does
          on_close, \* the websocket's close callback reconnects
          acked,    \* didAckHeartbeat
          should_heartbeat,
          jobs,     \* the dispatcher's queue
          server,   \* what this server does
          failures, \* how often something failed or was ended
          crashed,  \* the process died
          closed    \* history: a CLOSE frame of this connection, nobody having disconnected
                    \* since; "missed": its callback was the empty one, "forgotten": and
                    \* the login that was going on succeeded all the same

vars == <<lock, pc, after, worker, hb, hb_thread, txq, rxq, ws, handler, on_close, closed,
          acked, should_heartbeat, jobs, server, failures, crashed>>

Actors == {"main"} \cup Pool
Hbs == 1..2  \* heartbeat threads at a time: one attached, one detached

Job(kind, by) == [kind |-> kind, by |-> by]

Disconnecting == {"disconnect", "join_hb", "wait_hb", "join_tx", "wait_tx",
                  "join_rx", "wait_rx", "close", "await"}
Resuming == {"init", "reinit", "connect", "send", "identify", "ready"}

\* init(): the state exists and resume() is called with the lock held.
Init ==
  /\ lock = "main"
  /\ pc = [a \in Actors |-> IF a = "main" THEN "init" ELSE "idle"]
  /\ after = [a \in Actors |-> "resume"]
  /\ worker = [tx |-> "none", rx |-> "none"]
  /\ hb = [h \in Hbs |-> "none"] /\ hb_thread = 0
  /\ txq = <<>> /\ rxq = <<>>
  /\ ws = "none" /\ handler = "none" /\ on_close = FALSE
  /\ acked = FALSE /\ should_heartbeat = FALSE
  /\ server \in Servers
  /\ jobs = <<>> /\ failures = 0 /\ crashed = FALSE /\ closed = "no"

Goto(a, place) == pc' = [pc EXCEPT ![a] = place]

Call(a, place, return) == Goto(a, place) /\ after' = [after EXCEPT ![a] = return]

\* The end of a job, or of init(): the lock guard, if any, goes out of scope.
Leave(a) ==
  /\ Goto(a, IF a = "main" THEN "running" ELSE "idle")
  /\ lock' = IF lock = a THEN "none" ELSE lock

Crash == /\ crashed' = TRUE
         /\ UNCHANGED <<lock, pc, after, worker, hb, hb_thread, txq, rxq, ws, handler,
                        on_close, closed, acked, should_heartbeat, jobs, failures>>

CanFail == failures < MaxFailures /\ failures' = failures + 1

-----------------------------------------------------------------------------
(* The network, and the websocket's receiver thread *)

\* Both text callbacks queue a dispatch.
ReceiveDispatch ==
  /\ ws = "live" /\ handler # "none"
  /\ Len(rxq) < MaxQueued
  /\ rxq' = Append(rxq, "msg")
  /\ UNCHANGED <<lock, pc, after, worker, hb, hb_thread, txq, ws, handler, on_close, closed,
                 acked, should_heartbeat, jobs, failures, crashed>>

\* Only the callback of an established session knows HEARTBEAT_ACK.
ReceiveAck ==
  /\ ws = "live" /\ handler = "real"
  /\ acked' = TRUE
  /\ UNCHANGED <<lock, pc, after, worker, hb, hb_thread, txq, rxq, ws, handler, on_close, closed,
                 should_heartbeat, jobs, failures, crashed>>

ReceiveReconnect ==
  /\ "reconnect" \in server /\ CanFail
  /\ ws = "live" /\ handler = "real"
  /\ Len(jobs) < MaxJobs
  /\ jobs' = Append(jobs, Job("opcode", "rx"))
  /\ UNCHANGED <<lock, pc, after, worker, hb, hb_thread, txq, rxq, ws, handler, on_close, closed,
                 acked, should_heartbeat, crashed>>

\* A CLOSE frame: the receiver hands the socket to a closing job and waits for
\* it before it runs the close callback.
ServerClose ==
  /\ "close" \in server /\ CanFail
  /\ ws = "live"
  /\ Len(jobs) < MaxJobs
  /\ ws' = "none"
  /\ jobs' = Append(jobs, Job("sock", "rx"))
  /\ closed' = "seen"
  /\ UNCHANGED <<lock, pc, after, worker, hb, hb_thread, txq, rxq, handler, on_close,
                 acked, should_heartbeat, crashed>>

LoseConnection ==
  /\ "lose" \in server /\ CanFail
  /\ ws = "live"
  /\ ws' = "lost"
  /\ UNCHANGED <<lock, pc, after, worker, hb, hb_thread, txq, rxq, handler, on_close, closed,
                 acked, should_heartbeat, jobs, crashed>>

-----------------------------------------------------------------------------
(* send_worker and recv_worker *)

\* A message is sent by an HTTP request, without the lock.
TxPop ==
  /\ worker.tx = "pop" /\ txq # <<>>
  /\ txq' = Tail(txq)
  /\ worker' = [worker EXCEPT !.tx = IF Head(txq) = "dc" THEN "exited" ELSE "pop"]
  /\ UNCHANGED <<lock, pc, after, hb, hb_thread, rxq, ws, handler, on_close, closed, acked,
                 should_heartbeat, jobs, failures, crashed>>

\* Mutant: the marker is not recognised.
RxPopAnything ==
  /\ worker.rx = "pop" /\ rxq # <<>>
  /\ rxq' = Tail(rxq)
  /\ worker' = [worker EXCEPT !.rx = Head(rxq)]
  /\ UNCHANGED <<lock, pc, after, hb, hb_thread, txq, ws, handler, on_close, closed, acked,
                 should_heartbeat, jobs, failures, crashed>>

RxPop ==
  /\ worker.rx = "pop" /\ rxq # <<>>
  /\ rxq' = Tail(rxq)
  /\ worker' = [worker EXCEPT !.rx = IF Head(rxq) = "dc" THEN "exited" ELSE "msg"]
  /\ UNCHANGED <<lock, pc, after, hb, hb_thread, txq, ws, handler, on_close, closed, acked,
                 should_heartbeat, jobs, failures, crashed>>

\* processEvent with the lock held; it may queue an answer.
RxProcess ==
  /\ worker.rx = "msg" /\ lock = "none"
  /\ worker' = [worker EXCEPT !.rx = "pop"]
  /\ \/ txq' = txq
     \/ Len(txq) < MaxQueued /\ txq' = Append(txq, "msg")
  /\ UNCHANGED <<lock, pc, after, hb, hb_thread, rxq, ws, handler, on_close, closed, acked,
                 should_heartbeat, jobs, failures, crashed>>

-----------------------------------------------------------------------------
(* heartbeat_worker *)

HbGoes(h, place) ==
  /\ hb' = [hb EXCEPT ![h] = place]
  /\ UNCHANGED <<lock, pc, after, worker, hb_thread, txq, rxq, ws, handler, on_close, closed,
                 should_heartbeat, failures>>

\* The test at the top of the loop; a detached thread is gone when it exits.
HbCheck(h) ==
  /\ hb[h] = "check"
  /\ HbGoes(h, IF should_heartbeat THEN "want"
               ELSE IF hb_thread = h THEN "exited" ELSE "none")
  /\ UNCHANGED <<acked, jobs, crashed>>

HbNotDue(h) ==
  /\ hb[h] = "want" /\ lock = "none"
  /\ HbGoes(h, "check")
  /\ UNCHANGED <<acked, jobs, crashed>>

\* Nothing marks the reconnection as requested: the next turn asks again.
HbPatience(h) ==
  /\ hb[h] = "want" /\ lock = "none" /\ ~acked
  /\ HbGoes(h, "check")
  /\ Len(jobs) < MaxJobs
  /\ jobs' = Append(jobs, Job("beat", "hb"))
  /\ UNCHANGED <<acked, crashed>>

HbSend(h) ==
  /\ hb[h] = "want" /\ lock = "none" /\ acked /\ ws # "none"
  /\ HbGoes(h, "check")
  /\ acked' = FALSE
  /\ UNCHANGED <<jobs, crashed>>

-----------------------------------------------------------------------------
(* The dispatcher's threads *)

TakeJob(p, kind) == /\ pc[p] = "idle" /\ jobs # <<>>
                    /\ Head(jobs).kind = kind
                    /\ jobs' = Tail(jobs)

\* Where an actor goes when disconnect() returns.  The nested one of
\* internal_connect is followed by the one in resume()'s loop.
Return(a) ==
  CASE after[a] = "resume" -> Call(a, "init", "resume") /\ UNCHANGED lock
    [] after[a] = "again"  -> Call(a, "disconnect", "reinit") /\ UNCHANGED lock
    [] after[a] = "reinit" -> Call(a, "reinit", "reinit") /\ UNCHANGED lock
    [] after[a] = "end"    -> Call(a, "done", "end") /\ lock' = "none"

\* Mutant: force_disconnect has removed the close callback.
RunSockNoCallback(p) ==
  /\ pc[p] = "idle" /\ jobs # <<>> /\ Head(jobs).kind = "sock"
  /\ jobs' = Tail(jobs)
  /\ LET by == Head(jobs).by IN
     IF by = "rx" THEN UNCHANGED <<lock, pc, after>> ELSE Return(by)
  /\ UNCHANGED <<worker, hb, hb_thread, txq, rxq, ws, handler, on_close, closed, acked,
                 should_heartbeat, failures, crashed>>

\* The closing job, and what waited for it: disconnect(), or the receiver of a
\* CLOSE frame, which now runs the close callback.
RunSock(p) ==
  /\ pc[p] = "idle" /\ jobs # <<>> /\ Head(jobs).kind = "sock"
  /\ LET by == Head(jobs).by IN
     \/ /\ by = "rx" /\ on_close
        /\ jobs' = Tail(jobs) \o <<Job("dropped", "rx")>>
        /\ UNCHANGED <<lock, pc, after, closed>>
     \/ /\ by = "rx" /\ ~on_close
        /\ jobs' = Tail(jobs)
        /\ closed' = IF closed = "seen" THEN "missed" ELSE closed
        /\ UNCHANGED <<lock, pc, after>>
     \/ by # "rx" /\ jobs' = Tail(jobs) /\ Return(by) /\ UNCHANGED closed
  /\ UNCHANGED <<worker, hb, hb_thread, txq, rxq, ws, handler, on_close, acked,
                 should_heartbeat, failures, crashed>>

StartBeat(p) ==
  /\ TakeJob(p, "beat")
  /\ Goto(p, "lock")
  /\ UNCHANGED <<lock, after, worker, hb, hb_thread, txq, rxq, ws, handler, on_close, closed,
                 acked, should_heartbeat, failures, crashed>>

\* Mutant: without the lock.
LockBeatUnlocked(p) ==
  /\ pc[p] = "lock"
  /\ Call(p, "disconnect", "resume")
  /\ UNCHANGED <<lock, worker, hb, hb_thread, txq, rxq, ws, handler, on_close, closed, acked,
                 should_heartbeat, jobs, failures, crashed>>

LockBeat(p) ==
  /\ pc[p] = "lock" /\ lock = "none"
  /\ lock' = p
  /\ Call(p, "disconnect", "resume")
  /\ UNCHANGED <<worker, hb, hb_thread, txq, rxq, ws, handler, on_close, closed, acked,
                 should_heartbeat, jobs, failures, crashed>>

\* The jobs of the RECONNECT opcode and of the close callback take no lock.
StartUnlocked(p) ==
  /\ TakeJob(p, "opcode") \/ TakeJob(p, "dropped")
  /\ Call(p, "disconnect", "resume")
  /\ UNCHANGED <<lock, worker, hb, hb_thread, txq, rxq, ws, handler, on_close, closed, acked,
                 should_heartbeat, failures, crashed>>

-----------------------------------------------------------------------------
(* DiscordState::disconnect *)

BeginDisconnect(a) ==
  /\ pc[a] = "disconnect"
  /\ handler' = "none"
  /\ txq' = Append(txq, "dc") /\ rxq' = Append(rxq, "dc")
  /\ should_heartbeat' = FALSE
  /\ Goto(a, "join_hb")
  /\ UNCHANGED <<lock, after, worker, hb, hb_thread, ws, on_close, closed, acked, jobs,
                 failures, crashed>>

\* joinable(), then join(): of two that saw a joinable thread the second joins
\* one that was joined.
JoinHb(a) ==
  \/ /\ pc[a] = "join_hb"
     /\ Goto(a, IF hb_thread = 0 THEN "join_tx" ELSE "wait_hb")
     /\ UNCHANGED <<lock, after, worker, hb, hb_thread, txq, rxq, ws, handler, on_close, closed,
                    acked, should_heartbeat, jobs, failures, crashed>>
  \/ /\ pc[a] = "wait_hb" /\ hb_thread = 0
     /\ Crash
  \/ /\ pc[a] = "wait_hb" /\ hb_thread # 0 /\ hb[hb_thread] = "exited"
     /\ hb' = [hb EXCEPT ![hb_thread] = "none"]
     /\ hb_thread' = 0
     /\ Goto(a, "join_tx")
     /\ UNCHANGED <<lock, after, worker, txq, rxq, ws, handler, on_close, closed, acked,
                    should_heartbeat, jobs, failures, crashed>>

Join(a, w, join, wait, next) ==
  \/ /\ pc[a] = join
     /\ Goto(a, IF worker[w] = "none" THEN next ELSE wait)
     /\ UNCHANGED <<lock, after, worker, hb, hb_thread, txq, rxq, ws, handler, on_close, closed,
                    acked, should_heartbeat, jobs, failures, crashed>>
  \/ /\ pc[a] = wait /\ worker[w] = "none"
     /\ Crash
  \/ /\ pc[a] = wait /\ worker[w] = "exited"
     /\ worker' = [worker EXCEPT ![w] = "none"]
     /\ Goto(a, next)
     /\ UNCHANGED <<lock, after, hb, hb_thread, txq, rxq, ws, handler, on_close, closed, acked,
                    should_heartbeat, jobs, failures, crashed>>

JoinWorkers(a) == \/ Join(a, "tx", "join_tx", "wait_tx", "join_rx")
                  \/ Join(a, "rx", "join_rx", "wait_rx", "close")

\* The close callback is removed, and WebSocket::disconnect waits for the
\* closing job if there is a connection.
Close(a) ==
  /\ pc[a] = "close"
  /\ on_close' = FALSE /\ closed' = "no"
  /\ \/ /\ ws # "none"
        /\ ws' = "none"
        /\ jobs' = Append(jobs, Job("sock", a))
        /\ Goto(a, "await")
        /\ UNCHANGED <<lock, after>>
     \/ /\ ws = "none"
        /\ Return(a)
        /\ UNCHANGED <<ws, jobs>>
  /\ UNCHANGED <<worker, hb, hb_thread, txq, rxq, handler, acked, should_heartbeat,
                 failures, crashed>>

-----------------------------------------------------------------------------
(* DiscordState::resume, init and internal_connect *)

\* All the attempts of init() for a connection and its HELLO.  The socket's
\* assertion fails when there is one already, and on the attempt that follows a
\* failed TCP connection.
InitFails(a) ==
  /\ pc[a] \in {"init", "reinit"} /\ ws = "none"
  /\ CanFail
  /\ \/ pc[a] = "init" /\ Leave(a)
     \/ pc[a] = "reinit" /\ Goto(a, "connect") /\ UNCHANGED lock
  /\ UNCHANGED <<after, worker, hb, hb_thread, txq, rxq, ws, handler, on_close, closed, acked,
                 should_heartbeat, jobs, crashed>>

InitAsserts(a) == pc[a] \in {"init", "reinit"} /\ Crash

\* Mutant: the flag that the last disconnect() cleared is not set again.
InitKeepsFlag(a) ==
  /\ pc[a] \in {"init", "reinit"} /\ ws = "none"
  /\ ws' = "live" /\ handler' = "none" /\ closed' = "no"
  /\ acked' = TRUE
  /\ \E h \in Hbs \ {hb_thread} :
       /\ hb[h] = "none"
       /\ hb_thread' = h
       /\ hb' = [i \in Hbs |-> IF i = h THEN "check"
                                ELSE IF hb[i] = "exited" THEN "none" ELSE hb[i]]
  /\ Goto(a, "connect")
  /\ UNCHANGED <<lock, after, worker, txq, rxq, on_close, should_heartbeat, jobs, failures,
                 crashed>>

\* An attached heartbeat thread is detached and stays.
InitSucceeds(a) ==
  /\ pc[a] \in {"init", "reinit"} /\ ws = "none"
  /\ ws' = "live" /\ handler' = "none" /\ closed' = "no"
  /\ acked' = TRUE /\ should_heartbeat' = TRUE
  /\ \E h \in Hbs \ {hb_thread} :
       /\ hb[h] = "none"
       /\ hb_thread' = h
       /\ hb' = [i \in Hbs |-> IF i = h THEN "check"
                                ELSE IF hb[i] = "exited" THEN "none" ELSE hb[i]]
  /\ Goto(a, "connect")
  /\ UNCHANGED <<lock, after, worker, txq, rxq, on_close, jobs, failures, crashed>>

\* Assigning to a joinable std::thread terminates the process.
StartWorkers(a) ==
  /\ pc[a] = "connect"
  /\ \/ /\ ws = "none"
        /\ Call(a, "disconnect", "reinit")
        /\ UNCHANGED <<worker, crashed>>
     \/ /\ ws # "none" /\ worker = [tx |-> "none", rx |-> "none"]
        /\ worker' = [tx |-> "pop", rx |-> "pop"]
        /\ Goto(a, "send")
        /\ UNCHANGED <<after, crashed>>
     \/ /\ ws # "none" /\ worker # [tx |-> "none", rx |-> "none"]
        /\ crashed' = TRUE
        /\ UNCHANGED <<pc, after, worker>>
  /\ UNCHANGED <<lock, hb, hb_thread, txq, rxq, ws, handler, on_close, closed, acked,
                 should_heartbeat, jobs, failures>>

\* RESUME or IDENTIFY; Socket::send dereferences a null socket.
SendLogin(a) ==
  /\ pc[a] = "send"
  /\ \/ ws = "none" /\ Crash
     \/ /\ ws # "none"
        /\ handler' = "identify"
        /\ Goto(a, "identify")
        /\ UNCHANGED <<lock, after, worker, hb, hb_thread, txq, rxq, ws, on_close, closed, acked,
                       should_heartbeat, jobs, failures, crashed>>

\* READY, or any dispatch that answers a RESUME.
Ready(a) ==
  /\ pc[a] = "identify" /\ ws = "live" /\ handler = "identify"
  /\ rxq' = Append(rxq, "msg")
  /\ Goto(a, "ready")
  /\ UNCHANGED <<lock, after, worker, hb, hb_thread, txq, ws, handler, on_close, closed,
                 acked, should_heartbeat, jobs, failures, crashed>>

\* The session's callbacks are installed, whatever has become of the socket since.
\* Both at once: a RECONNECT between the two sleeps before it removes the close
\* callback, and a CLOSE there is like one that came before.
Identified(a) ==
  /\ pc[a] = "ready"
  /\ handler' = "real" /\ on_close' = TRUE
  /\ closed' = IF closed = "missed" THEN "forgotten" ELSE closed
  /\ Leave(a)
  /\ UNCHANGED <<after, worker, hb, hb_thread, txq, rxq, ws, acked, should_heartbeat,
                 jobs, failures, crashed>>

\* Another try while connected, or the nested disconnect().  Without an answer
\* the tries run out.
LoginFails(a) ==
  /\ pc[a] = "identify"
  /\ \/ ws # "none" /\ CanFail /\ Goto(a, "send") /\ UNCHANGED after
     \/ ws = "live" /\ CanFail /\ Call(a, "disconnect", "again")
     \/ ws # "live" /\ UNCHANGED failures /\ Call(a, "disconnect", "again")
  /\ UNCHANGED <<lock, worker, hb, hb_thread, txq, rxq, ws, handler, on_close, closed, acked,
                 should_heartbeat, jobs, crashed>>

-----------------------------------------------------------------------------
(* shutdown(), on the main thread *)

RequestShutdown ==
  /\ pc["main"] = "running"
  /\ Goto("main", IF should_heartbeat THEN "stopping" ELSE "done")
  /\ UNCHANGED <<lock, after, worker, hb, hb_thread, txq, rxq, ws, handler, on_close, closed,
                 acked, should_heartbeat, jobs, failures, crashed>>

Shutdown ==
  /\ pc["main"] = "stopping" /\ lock = "none"
  /\ lock' = "main"
  /\ Call("main", "disconnect", "end")
  /\ UNCHANGED <<worker, hb, hb_thread, txq, rxq, ws, handler, on_close, closed, acked,
                 should_heartbeat, jobs, failures, crashed>>

-----------------------------------------------------------------------------
Network == ReceiveDispatch \/ ReceiveAck \/ ReceiveReconnect \/ ServerClose \/ LoseConnection
HbStep(h) == HbCheck(h) \/ HbNotDue(h) \/ HbPatience(h) \/ HbSend(h)
PoolStep(p) == RunSock(p) \/ StartBeat(p) \/ LockBeat(p) \/ StartUnlocked(p)
ActorStep(a) ==
  \/ BeginDisconnect(a) \/ JoinHb(a) \/ JoinWorkers(a) \/ Close(a)
  \/ InitFails(a) \/ InitAsserts(a) \/ InitSucceeds(a)
  \/ StartWorkers(a) \/ SendLogin(a) \/ Ready(a) \/ Identified(a) \/ LoginFails(a)

Next ==
  /\ ~crashed /\ UNCHANGED server
  /\ \/ Network
     \/ TxPop \/ RxPop \/ RxProcess
     \/ \E h \in Hbs : HbStep(h)
     \/ \E p \in Pool : PoolStep(p)
     \/ \E a \in Actors : ActorStep(a)
     \/ RequestShutdown \/ Shutdown

Spec == Init /\ [][Next]_vars

-----------------------------------------------------------------------------
(* Properties *)

\* Type invariant of the session.
TypeOK ==
  /\ lock \in {"none"} \cup Actors
  /\ \A a \in Actors : pc[a] \in Disconnecting \cup Resuming \cup
       (IF a = "main" THEN {"running", "stopping", "done"} ELSE {"idle", "lock"})
  /\ after \in [Actors -> {"resume", "again", "reinit", "end"}]
  /\ worker.tx \in {"none", "pop", "exited"}
  /\ worker.rx \in {"none", "pop", "msg", "exited"}
  /\ hb \in [Hbs -> {"none", "check", "want", "exited"}] /\ hb_thread \in {0} \cup Hbs
  /\ txq \in Seq({"msg", "dc"}) /\ rxq \in Seq({"msg", "dc"})
  /\ ws \in {"none", "live", "lost"} /\ handler \in {"none", "identify", "real"}
  /\ closed \in {"no", "seen", "missed", "forgotten"}
  /\ {on_close, acked, should_heartbeat, crashed} \subseteq BOOLEAN
  /\ jobs \in Seq([kind : {"beat", "opcode", "dropped", "sock"},
                   by : Actors \cup {"rx", "hb"}])
  /\ failures \in 0..MaxFailures

\* With a server that only goes silent, everything that disconnects has the lock.
OnlyLocked == server \subseteq {"lose"}

\* The heartbeat may ask for several reconnections while one is going on, and
\* they, the shutdown and the first connection work on the same std::threads.
\* Under the lock none is assigned over while joinable or joined twice, and no
\* second heartbeat worker stays behind.
NoThreadMisuse ==
  OnlyLocked =>
  /\ \A a \in Actors :
       /\ pc[a] = "connect" /\ ws # "none" => worker = [tx |-> "none", rx |-> "none"]
       /\ pc[a] = "wait_tx" => worker.tx # "none"
       /\ pc[a] = "wait_rx" => worker.rx # "none"
       /\ pc[a] = "wait_hb" => hb_thread # 0
  /\ \A h \in Hbs : hb[h] # "none" => h = hb_thread

\* A reconnection never runs into the connection that another has just made:
\* init() would fail the assertion of Socket::connect.
ReconnectsFindNoSocket ==
  OnlyLocked => \A a \in Actors : pc[a] \in {"init", "reinit"} => ws = "none"

\* One connection and the next are kept apart, in their threads and their socket.
ConnectionsApart == NoThreadMisuse /\ ReconnectsFindNoSocket

\* A connection that was lost without notice has a heartbeat worker to find out,
\* or somebody is connecting or about to reconnect already: the flag that stops
\* the workers is a global that every reconnection writes.
OutageIsWatched ==
  ws = "lost" =>
     \/ should_heartbeat /\ \E h \in Hbs : hb[h] \in {"check", "want"}
     \/ jobs # <<>>
     \/ \E a \in Actors : pc[a] \in Disconnecting \cup Resuming \cup {"lock"}
     \/ crashed

\* A connection that the server closed is not forgotten while there is something to
\* be done about it, even when several disconnect and resume at once without the
\* lock: the closing job, the reconnect job or a disconnection has it, and when the
\* CLOSE found the empty callback, one who logs in or disconnects.  Of the latter one
\* is too late: after READY internal_connect() looks at the socket no more, and takes
\* for a session what is closed already ("forgotten").
CloseIsHandled ==
  /\ closed = "seen" =>
       \/ \E i \in DOMAIN jobs : jobs[i] \in {Job("sock", "rx"), Job("dropped", "rx")}
       \/ \E a \in Actors : pc[a] \in Disconnecting
  /\ closed = "missed" =>
       \E a \in Actors : pc[a] \in Disconnecting \cup Resuming

Quiet == lock = "none" /\ jobs = <<>> /\ \A a \in Actors : pc[a] \in {"running", "idle"}

\* "no matter how many dispatches come in from discord, they are all serially
\* processed by the recv_worker" (message.cpp:21).  Does not hold: disconnect()
\* run twice leaves a marker in each queue, and the recv_worker of the next
\* connection takes it and exits.
DispatchesProcessed ==
  Quiet /\ ws = "live" /\ handler = "real" /\ rxq # <<>> => worker.rx \in {"pop", "msg"}
=============================================================================
