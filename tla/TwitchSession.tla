--------------------------- MODULE TwitchSession ---------------------------
(***************************************************************************)
(* The Twitch connection: its send, receive and ping threads, the job that *)
(* reconnects and the main thread that shuts it down                       *)
(* (backends/twitch/twitch.cpp).                                           *)
(*                                                                         *)
(* Everything but the two message queues is behind one exclusive lock.     *)
(* connect() and disconnect() run with that lock held, and disconnect()    *)
(* joins threads that want it.  A worker keeps the lock for one atomic     *)
(* step, so only the main thread and the reconnect job are ever seen       *)
(* holding it.  The queues are the FIFO queues WaitQueue shows             *)
(* wait_queue to be; the rate limit (RateLimit) is a finite delay here.    *)
(***************************************************************************)
EXTENDS Naturals, Sequences, SequencesExt

CONSTANT MaxQueued  \* bound on the messages, PINGs and answers in a queue

ASSUME MaxQueuedAssumption == MaxQueued \in Nat \ {0}

VARIABLES lock,     \* who holds the write lock of Synchronised<TwitchState>
          pc,       \* where the main thread and the reconnect job are
          worker,   \* where each std::thread is; "none": not joinable
          txq, rxq, \* the message queue's two directions
          ws,       \* "none": no socket; "live"; "lost": peer gone, unnoticed
          handler,  \* the websocket feeds rxq (the real handler is installed)
          authed,   \* the server accepted this connection's login
          acked,    \* a PONG was processed since the last PING
          jobs,     \* reconnect jobs handed to the dispatcher
          disconnect_now,
          crashed   \* the process died: null socket, or assertion

vars == <<lock, pc, worker, txq, rxq, ws, handler, authed, acked, jobs,
          disconnect_now, crashed>>

Actors == {"main", "job"}

Disconnecting == {"disconnect", "part", "close", "flag", "join_tx", "join_rx", "join_hb"}
Connecting == {"ws_connect", "connect", "login", "auth", "ready", "join_channels"}

\* Where a thread is joined, and where disconnect() goes from there.
JoinPlace == [tx |-> "join_tx", rx |-> "join_rx", hb |-> "join_hb"]
AfterJoin == [tx |-> "join_rx", rx |-> "join_hb", hb |-> "ws_connect"]

\* Places where a worker has decided to take the state lock.
WantsLock == {"msg", "pong", "ping"}

WorkerPlaces == [tx |-> {"none", "pop", "msg", "exited"},
                 rx |-> {"none", "pop", "msg", "pong", "exited"},
                 hb |-> {"none", "check", "ping", "exited"}]

\* init(): the constructor has tried to connect, and connect() is called.
Init ==
  /\ lock = "main"
  /\ pc = [main |-> "connect", job |-> "idle"]
  /\ worker = [tx |-> "none", rx |-> "none", hb |-> "none"]
  /\ txq = <<>> /\ rxq = <<>>
  /\ ws \in {"none", "live"}
  /\ handler = FALSE /\ authed = FALSE /\ acked = TRUE
  /\ jobs = 0
  /\ disconnect_now = FALSE
  /\ crashed = FALSE

Goto(a, place) == pc' = [pc EXCEPT ![a] = place]

\* The lock guard goes out of scope.
Leave(a) == /\ lock' = "none"
            /\ Goto(a, IF a = "main" /\ pc[a] = "join_hb" THEN "done"
                       ELSE IF a = "main" THEN "running" ELSE "idle")

\* Socket::send on a socket that was closed dereferences a null pointer.
Crash == /\ ws = "none"
         /\ crashed' = TRUE
         /\ UNCHANGED <<lock, pc, worker, txq, rxq, ws, handler, authed, acked,
                        jobs, disconnect_now>>

-----------------------------------------------------------------------------
(* The network *)

Receive ==
  /\ ws = "live" /\ handler
  /\ Len(rxq) < MaxQueued
  /\ \E m \in {"msg", "pong"} : rxq' = Append(rxq, m)
  /\ UNCHANGED <<lock, pc, worker, txq, ws, handler, authed, acked, jobs,
                 disconnect_now, crashed>>

\* A CLOSE frame: the receiver thread drops the socket, without the lock.
ServerClose ==
  /\ ws = "live"
  /\ ws' = "none"
  /\ UNCHANGED <<lock, pc, worker, txq, rxq, handler, authed, acked, jobs,
                 disconnect_now, crashed>>

\* The TCP connection dies: the receiver thread exits, is_connected stays true.
LoseConnection ==
  /\ ws = "live"
  /\ ws' = "lost"
  /\ UNCHANGED <<lock, pc, worker, txq, rxq, handler, authed, acked, jobs,
                 disconnect_now, crashed>>

-----------------------------------------------------------------------------
(* The workers *)

TxPop ==
  /\ worker.tx = "pop" /\ txq # <<>>
  /\ txq' = Tail(txq)
  /\ worker' = [worker EXCEPT !.tx = IF Head(txq) = "dc" THEN "exited" ELSE "msg"]
  /\ UNCHANGED <<lock, pc, rxq, ws, handler, authed, acked, jobs,
                 disconnect_now, crashed>>

TxSend ==
  /\ worker.tx = "msg" /\ lock = "none"
  /\ \/ Crash
     \/ /\ ws # "none"
        /\ worker' = [worker EXCEPT !.tx = "pop"]
        /\ UNCHANGED <<lock, pc, txq, rxq, ws, handler, authed, acked, jobs,
                       disconnect_now, crashed>>

\* Mutant: the marker is not recognised.
RxPopAnything ==
  /\ worker.rx = "pop" /\ rxq # <<>>
  /\ rxq' = Tail(rxq)
  /\ worker' = [worker EXCEPT !.rx = Head(rxq)]
  /\ UNCHANGED <<lock, pc, txq, ws, handler, authed, acked, jobs,
                 disconnect_now, crashed>>

RxPop ==
  /\ worker.rx = "pop" /\ rxq # <<>>
  /\ rxq' = Tail(rxq)
  /\ worker' = [worker EXCEPT !.rx = IF Head(rxq) = "dc" THEN "exited" ELSE Head(rxq)]
  /\ UNCHANGED <<lock, pc, txq, ws, handler, authed, acked, jobs,
                 disconnect_now, crashed>>

\* processMessage: a PONG is noted, anything else may be answered.
RxProcess ==
  /\ worker.rx \in {"msg", "pong"} /\ lock = "none"
  /\ worker' = [worker EXCEPT !.rx = "pop"]
  /\ acked' = (acked \/ worker.rx = "pong")
  /\ \/ txq' = txq
     \/ worker.rx = "msg" /\ Len(txq) < MaxQueued /\ txq' = Append(txq, "msg")
  /\ UNCHANGED <<lock, pc, rxq, ws, handler, authed, jobs, disconnect_now, crashed>>

\* One turn of the ping worker's loop that does not just sleep.
HbExit ==
  /\ worker.hb = "check" /\ disconnect_now
  /\ worker' = [worker EXCEPT !.hb = "exited"]
  /\ UNCHANGED <<lock, pc, txq, rxq, ws, handler, authed, acked, jobs,
                 disconnect_now, crashed>>

\* Mutant: the worker gives up without asking for a reconnection.
HbPatienceForgets ==
  /\ worker.hb = "check" /\ ~disconnect_now /\ ~acked
  /\ worker' = [worker EXCEPT !.hb = "exited"]
  /\ UNCHANGED <<lock, pc, txq, rxq, ws, handler, authed, acked, jobs,
                 disconnect_now, crashed>>

HbPatience ==
  /\ worker.hb = "check" /\ ~disconnect_now /\ ~acked
  /\ jobs' = jobs + 1
  /\ worker' = [worker EXCEPT !.hb = "exited"]
  /\ UNCHANGED <<lock, pc, txq, rxq, ws, handler, authed, acked,
                 disconnect_now, crashed>>

\* The interval (30s) is longer than the patience (10s): no PING while one is
\* unanswered.  "last" is set before the lock is taken.
HbPingDue ==
  /\ worker.hb = "check" /\ ~disconnect_now /\ acked
  /\ Len(txq) < MaxQueued
  /\ acked' = FALSE
  /\ worker' = [worker EXCEPT !.hb = "ping"]
  /\ UNCHANGED <<lock, pc, txq, rxq, ws, handler, authed, jobs,
                 disconnect_now, crashed>>

HbPing ==
  /\ worker.hb = "ping" /\ lock = "none"
  /\ txq' = Append(txq, "msg")
  /\ worker' = [worker EXCEPT !.hb = "check"]
  /\ UNCHANGED <<lock, pc, rxq, ws, handler, authed, acked, jobs,
                 disconnect_now, crashed>>

-----------------------------------------------------------------------------
(* TwitchState::connect *)

\* Returns at once without a connection; otherwise starts two threads.
StartWorkers(a) ==
  /\ pc[a] = "connect"
  /\ \/ /\ ws = "none"
        /\ Leave(a)
        /\ UNCHANGED <<worker, handler>>
     \/ /\ ws # "none"
        /\ worker' = [worker EXCEPT !.tx = "pop", !.rx = "pop"]
        /\ handler' = FALSE
        /\ Goto(a, "login")
        /\ UNCHANGED lock
  /\ UNCHANGED <<txq, rxq, ws, authed, acked, jobs, disconnect_now, crashed>>

\* PASS and NICK.
Login(a) ==
  /\ pc[a] = "login"
  /\ \/ Crash
     \/ /\ ws # "none"
        /\ Goto(a, "auth")
        /\ UNCHANGED <<lock, worker, txq, rxq, ws, handler, authed, acked, jobs,
                       disconnect_now, crashed>>

Authenticated(a) ==
  /\ pc[a] = "auth" /\ ws = "live"
  /\ authed' = TRUE
  /\ Goto(a, "ready")
  /\ UNCHANGED <<lock, worker, txq, rxq, ws, handler, acked, jobs,
                 disconnect_now, crashed>>

\* Mutant: the connection is kept.
AuthTimeoutStaysConnected(a) ==
  /\ pc[a] = "auth"
  /\ Leave(a)
  /\ UNCHANGED <<worker, txq, rxq, ws, handler, authed, acked, jobs,
                 disconnect_now, crashed>>

\* The two threads started above stay, and no ping worker is started.
AuthTimeout(a) ==
  /\ pc[a] = "auth"
  /\ ws' = "none"
  /\ Leave(a)
  /\ UNCHANGED <<worker, txq, rxq, handler, authed, acked, jobs,
                 disconnect_now, crashed>>

\* Mutant: the flag of the previous disconnection is not cleared.
ReadyKeepsFlag(a) ==
  /\ pc[a] = "ready"
  /\ handler' = TRUE
  /\ Goto(a, "join_channels")
  /\ UNCHANGED <<lock, worker, txq, rxq, ws, authed, acked, jobs,
                 disconnect_now, crashed>>

Ready(a) ==
  /\ pc[a] = "ready"
  /\ disconnect_now' = FALSE
  /\ handler' = TRUE
  /\ Goto(a, "join_channels")
  /\ UNCHANGED <<lock, worker, txq, rxq, ws, authed, acked, jobs, crashed>>

\* CAP REQ, JOIN, and the ping worker, whose "last" starts at the epoch.
JoinChannels(a) ==
  /\ pc[a] = "join_channels"
  /\ \/ Crash
     \/ /\ ws # "none"
        /\ worker' = [worker EXCEPT !.hb = "check"]
        /\ acked' = TRUE
        /\ Leave(a)
        /\ UNCHANGED <<txq, rxq, ws, handler, authed, jobs, disconnect_now, crashed>>

-----------------------------------------------------------------------------
(* TwitchState::disconnect *)

PushMarkers(a) ==
  /\ pc[a] = "disconnect"
  /\ txq' = Append(txq, "dc")
  /\ rxq' = Append(rxq, "dc")
  /\ Goto(a, "part")
  /\ UNCHANGED <<lock, worker, ws, handler, authed, acked, jobs,
                 disconnect_now, crashed>>

Part(a) ==
  /\ pc[a] = "part"
  /\ \/ Crash
     \/ /\ ws # "none"
        /\ Goto(a, "close")
        /\ UNCHANGED <<lock, worker, txq, rxq, ws, handler, authed, acked, jobs,
                       disconnect_now, crashed>>

\* WebSocket::disconnect does nothing when the connection is already gone.
Close(a) ==
  /\ pc[a] = "close"
  /\ ws' = "none"
  /\ handler' = (handler /\ ws = "none")
  /\ Goto(a, "flag")
  /\ UNCHANGED <<lock, worker, txq, rxq, authed, acked, jobs, disconnect_now, crashed>>

SetFlag(a) ==
  /\ pc[a] = "flag"
  /\ disconnect_now' = TRUE
  /\ Goto(a, "join_tx")
  /\ UNCHANGED <<lock, worker, txq, rxq, ws, handler, authed, acked, jobs, crashed>>

\* Mutant: thread::detach in place of thread::join.
JoinWithoutWaiting(a, w) ==
  /\ pc[a] = JoinPlace[w]
  /\ IF w = "hb" /\ a = "main" THEN Leave(a)
     ELSE Goto(a, AfterJoin[w]) /\ UNCHANGED lock
  /\ UNCHANGED <<worker, txq, rxq, ws, handler, authed, acked, jobs,
                 disconnect_now, crashed>>

\* if(thread.joinable()) thread.join(), for the three threads in turn.
Join(a, w) ==
  /\ pc[a] = JoinPlace[w]
  /\ worker[w] \in {"none", "exited"}
  /\ worker' = [worker EXCEPT ![w] = "none"]
  /\ IF w = "hb" /\ a = "main" THEN Leave(a)
     ELSE Goto(a, AfterJoin[w]) /\ UNCHANGED lock
  /\ UNCHANGED <<txq, rxq, ws, handler, authed, acked, jobs, disconnect_now, crashed>>

-----------------------------------------------------------------------------
(* The reconnect job, and shutdown() *)

StartJob ==
  /\ jobs > 0 /\ pc["job"] = "idle" /\ lock = "none"
  /\ jobs' = jobs - 1
  /\ lock' = "job"
  /\ Goto("job", "disconnect")
  /\ UNCHANGED <<worker, txq, rxq, ws, handler, authed, acked, disconnect_now, crashed>>

\* All the attempts of ws_connect.  When the TCP connection of one fails the
\* socket object is left behind and the next attempt's assertion aborts.
WsConnect ==
  /\ pc["job"] = "ws_connect"
  /\ authed' = FALSE
  /\ \/ /\ ws' \in {"live", "none"}
        /\ Goto("job", "connect")
        /\ UNCHANGED crashed
     \/ crashed' = TRUE /\ UNCHANGED <<ws, pc>>
  /\ UNCHANGED <<lock, worker, txq, rxq, handler, acked, jobs, disconnect_now>>

RequestShutdown ==
  /\ pc["main"] = "running"
  /\ Goto("main", "stopping")
  /\ UNCHANGED <<lock, worker, txq, rxq, ws, handler, authed, acked, jobs,
                 disconnect_now, crashed>>

Shutdown ==
  /\ pc["main"] = "stopping" /\ lock = "none"
  /\ lock' = "main"
  /\ Goto("main", "disconnect")
  /\ UNCHANGED <<worker, txq, rxq, ws, handler, authed, acked, jobs,
                 disconnect_now, crashed>>

-----------------------------------------------------------------------------
ActorStep(a) ==
  \/ StartWorkers(a) \/ Login(a) \/ Authenticated(a) \/ AuthTimeout(a)
  \/ Ready(a) \/ JoinChannels(a)
  \/ PushMarkers(a) \/ Part(a) \/ Close(a) \/ SetFlag(a)
  \/ \E w \in {"tx", "rx", "hb"} : Join(a, w)

Next ==
  /\ ~crashed
  /\ \/ Receive \/ ServerClose \/ LoseConnection
     \/ TxPop \/ TxSend \/ RxPop \/ RxProcess
     \/ HbExit \/ HbPatience \/ HbPingDue \/ HbPing
     \/ \E a \in Actors : ActorStep(a)
     \/ StartJob \/ WsConnect \/ RequestShutdown \/ Shutdown

Spec == Init /\ [][Next]_vars

\* Threads are scheduled, and whoever waits for the lock gets it if it keeps
\* being released.  The network owes nothing, nor does the user.
Fairness ==
  /\ WF_vars(~crashed /\ TxPop) /\ SF_vars(~crashed /\ TxSend)
  /\ WF_vars(~crashed /\ RxPop) /\ SF_vars(~crashed /\ RxProcess)
  /\ WF_vars(~crashed /\ (HbExit \/ HbPatience \/ HbPingDue)) /\ SF_vars(~crashed /\ HbPing)
  /\ \A a \in Actors : WF_vars(~crashed /\ ActorStep(a))
  /\ SF_vars(~crashed /\ StartJob) /\ WF_vars(~crashed /\ WsConnect)
  /\ SF_vars(~crashed /\ Shutdown)

FairSpec == Spec /\ Fairness

-----------------------------------------------------------------------------
TypeOK ==
  /\ lock \in {"none"} \cup Actors
  /\ pc["main"] \in {"running", "stopping", "done"} \cup Disconnecting \cup Connecting
  /\ pc["job"] \in {"idle"} \cup Disconnecting \cup Connecting
  /\ \A w \in {"tx", "rx", "hb"} : worker[w] \in WorkerPlaces[w]
  /\ txq \in Seq({"msg", "dc"}) /\ rxq \in Seq({"msg", "pong", "dc"})
  /\ ws \in {"none", "live", "lost"}
  /\ {handler, authed, acked, disconnect_now, crashed} \subseteq BOOLEAN
  /\ jobs \in Nat

\* A std::thread that was not joined is never assigned over, which would
\* terminate the process: not after an authentication that timed out and left
\* two threads behind, and not by two reconnections in a row.
NoThreadOverwrite ==
  \A a \in Actors :
    /\ pc[a] = "connect" => worker.tx = "none" /\ worker.rx = "none"
    /\ pc[a] = "join_channels" => worker.hb = "none"

\* The marker of one disconnection is never left for the threads of the next
\* connection, which would exit as soon as they start.
NoStaleMarker ==
  (\A a \in Actors : pc[a] \notin Disconnecting) =>
     ~Contains(txq, "dc") /\ ~Contains(rxq, "dc")

\* One connection and the next are kept apart: nothing of the last one is there,
\* a thread or a marker, when the next begins.
ConnectionsApart == NoThreadOverwrite /\ NoStaleMarker

\* A connection that is up, with nobody connecting or disconnecting, is
\* served: its threads run, or its ping worker has asked for a reconnection.
\* disconnect_now, a global that outlives connections, does not end the ping
\* worker of the next one.
ServedWhileUp ==
  (lock = "none" /\ ws # "none" /\ ~crashed /\ pc["main"] # "done") =>
     /\ authed
     /\ worker.tx \in {"pop", "msg"} /\ worker.rx \in {"pop", "msg", "pong"}
     /\ worker.hb \in {"check", "ping"} \/ jobs > 0

\* Messages left in the queue by an earlier connection are not sent on a new
\* one before it is authenticated, although the send thread starts first.
NoSendBeforeAuth ==
  [][worker.tx = "msg" /\ worker'.tx = "pop" => authed]_vars

\* A thread that is being joined wants the lock its joiner holds.
Stuck == \E a \in Actors, w \in {"tx", "rx", "hb"} :
           lock = a /\ pc[a] = JoinPlace[w] /\ worker[w] \in WantsLock

\* A shutdown ends, unless the process died or that circular wait happened.
ShutdownEnds == (pc["main"] = "stopping") ~> (pc["main"] = "done" \/ crashed \/ Stuck)

\* An outage nobody was told about is noticed, and the connection replaced.
OutageIsRepaired == (ws = "lost") ~> (ws # "lost" \/ crashed \/ Stuck)

\* Neither state lasts: what has to end a session or to replace it gets to do so.
SessionGetsOn == ShutdownEnds /\ OutageIsRepaired

\* disconnect() kills the send and receive threads before it joins them so
\* that they do not wait for the lock it holds (twitch.cpp:259-261).
WorkersNotDeadlocked ==
  \A a \in Actors, w \in {"tx", "rx"} :
    pc[a] = JoinPlace[w] /\ lock = a => worker[w] \notin WantsLock

=============================================================================
