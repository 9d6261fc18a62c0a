---------------------------- MODULE TwitchProofs ----------------------------
(***************************************************************************)
(* The Twitch session of any number of reconnections, with queues of any   *)
(* length: the connections are kept apart, and one that is up is served.   *)
(*                                                                         *)
(* Nearly every part of the invariant is about the place where the holder  *)
(* of the lock is: that place says which threads there are, whether a      *)
(* marker is on its way to one, and what a connection still lacks.         *)
(***************************************************************************)
EXTENDS TwitchSession, TLAPS

Busy == Disconnecting \cup Connecting
MainPlaces == {"running", "stopping", "done"} \cup Busy
JobPlaces == {"idle"} \cup Busy

\* Where the holder of the lock is.
Place == IF lock = "none" THEN "free" ELSE pc[lock]

Typed ==
  /\ TypeOK
  /\ pc \in [Actors -> MainPlaces \cup JobPlaces]
  /\ worker \in [tx : WorkerPlaces.tx, rx : WorkerPlaces.rx, hb : WorkerPlaces.hb]
  /\ handler \in BOOLEAN /\ authed \in BOOLEAN /\ acked \in BOOLEAN
  /\ disconnect_now \in BOOLEAN /\ crashed \in BOOLEAN

\* Who connects or disconnects has the lock.
Locking == \A a \in Actors : pc[a] \in Busy <=> lock = a

\* A queue has one marker at most, from when it is pushed until its thread, which
\* has exited then, is joined.
OneMarker(q) == \A i, j \in 1..Len(q) : q[i] = "dc" /\ q[j] = "dc" => i = j
Marked == [tx |-> {"part", "close", "flag", "join_tx"},
           rx |-> {"part", "close", "flag", "join_tx", "join_rx"}]
Markers ==
  /\ OneMarker(txq) /\ OneMarker(rxq)
  /\ Contains(txq, "dc") => Place \in Marked.tx /\ worker.tx # "exited"
  /\ Contains(rxq, "dc") => Place \in Marked.rx /\ worker.rx # "exited"
  /\ worker.tx = "exited" => Place \in Marked.tx
  /\ worker.rx = "exited" => Place \in Marked.rx

\* A socket has its threads unless it has just been connected; a disconnection that
\* got beyond its PART had one, with threads, and joins them.
Running ==
  /\ ws # "none" => Place = "connect" \/ (worker.tx # "none" /\ worker.rx # "none")
  /\ Place \in {"close", "flag", "join_tx"} => worker.tx # "none" /\ worker.rx # "none"
  /\ Place = "join_rx" => worker.tx = "none" /\ worker.rx # "none"
  /\ Place \in {"join_hb", "ws_connect", "connect"} => worker.tx = "none" /\ worker.rx = "none"
  /\ Place \in {"ws_connect", "connect", "login", "auth", "ready", "join_channels"}
       => worker.hb = "none"
  /\ Place \in {"flag", "join_tx", "join_rx", "join_hb", "ws_connect"} => ws = "none"

\* What ServedWhileUp says of a connection that is up, and what is there of it when
\* the ping worker is started.  After a shutdown there is no connection again: a job
\* that is left dies on its PART.
Serving ==
  /\ Place \in {"ready", "join_channels"} => authed
  /\ Place = "join_channels" => ~disconnect_now
  /\ lock = "none" /\ ws # "none" => /\ authed /\ ~disconnect_now
                                     /\ worker.hb \in {"check", "ping"} \/ jobs > 0
  /\ pc["main"] = "done" => ws = "none" /\ pc["job"] \in {"idle", "disconnect", "part"}

IInv == Typed /\ Locking /\ Markers /\ Running /\ Serving

-----------------------------------------------------------------------------
(* Queues *)

\* What happens to the markers of a queue that is appended to.
LEMMA AppendFacts ==
  ASSUME NEW M, NEW q \in Seq(M), NEW m \in M
  PROVE  /\ Append(q, m) \in Seq(M)
         /\ Contains(Append(q, m), "dc") <=> Contains(q, "dc") \/ m = "dc"
         /\ OneMarker(q) /\ (m = "dc" => ~Contains(q, "dc")) => OneMarker(Append(q, m))
<1>1. Append(q, m) \in Seq(M)
  OBVIOUS
<1>2. Contains(Append(q, m), "dc") <=> Contains(q, "dc") \/ m = "dc"
  BY DEF Contains
<1>3. OneMarker(q) /\ (m = "dc" => ~Contains(q, "dc")) => OneMarker(Append(q, m))
  BY DEF Contains, OneMarker
<1> QED
  BY <1>1, <1>2, <1>3

\* What happens to them when its first message is taken.
LEMMA TailFacts ==
  ASSUME NEW M, NEW q \in Seq(M), q # <<>>
  PROVE  /\ Tail(q) \in Seq(M) /\ Head(q) \in M
         /\ Head(q) = "dc" \/ Contains(Tail(q), "dc") => Contains(q, "dc")
         /\ OneMarker(q) => OneMarker(Tail(q)) /\ (Head(q) = "dc" => ~Contains(Tail(q), "dc"))
<1>1. Tail(q) \in Seq(M) /\ Head(q) \in M
  OBVIOUS
<1>2. Head(q) = "dc" \/ Contains(Tail(q), "dc") => Contains(q, "dc")
  BY DEF Contains
<1>3. OneMarker(q) => OneMarker(Tail(q)) /\ (Head(q) = "dc" => ~Contains(Tail(q), "dc"))
  BY DEF Contains, OneMarker
<1> QED
  BY <1>1, <1>2, <1>3

-----------------------------------------------------------------------------
\* The parts of the types, as a step is shown to keep them.
Types ==
  /\ lock \in {"none"} \cup Actors
  /\ pc \in [Actors -> MainPlaces \cup JobPlaces]
  /\ pc["main"] \in MainPlaces /\ pc["job"] \in JobPlaces
  /\ worker \in [tx : WorkerPlaces.tx, rx : WorkerPlaces.rx, hb : WorkerPlaces.hb]
  /\ txq \in Seq({"msg", "dc"}) /\ rxq \in Seq({"msg", "pong", "dc"})
  /\ ws \in {"none", "live", "lost"} /\ jobs \in Nat
  /\ handler \in BOOLEAN /\ authed \in BOOLEAN /\ acked \in BOOLEAN
  /\ disconnect_now \in BOOLEAN /\ crashed \in BOOLEAN

LEMMA TypesTogether == Types => Typed
<1> SUFFICES ASSUME Types PROVE Typed
  OBVIOUS
<1> USE DEF Types
<1>1. \A w \in {"tx", "rx", "hb"} : worker[w] \in WorkerPlaces[w]
  BY DEF WorkerPlaces
<1>2. {handler, authed, acked, disconnect_now, crashed} \subseteq BOOLEAN
  OBVIOUS
<1>3. /\ pc["main"] \in {"running", "stopping", "done"} \cup Disconnecting \cup Connecting
      /\ pc["job"] \in {"idle"} \cup Disconnecting \cup Connecting
  BY DEF MainPlaces, JobPlaces, Busy
<1> QED
  BY <1>1, <1>2, <1>3 DEF Typed, TypeOK

\* The same of the state after a step.
LEMMA TypesTogetherNext == Types' => Typed'
BY TypesTogether, PTL

\* What happens to the two queues when they are used.
LEMMA QueueFacts ==
  ASSUME txq \in Seq({"msg", "dc"}), rxq \in Seq({"msg", "pong", "dc"})
  PROVE  /\ \A m \in {"msg", "dc"} :
              /\ Append(txq, m) \in Seq({"msg", "dc"})
              /\ Contains(Append(txq, m), "dc") <=> Contains(txq, "dc") \/ m = "dc"
              /\ OneMarker(txq) /\ (m = "dc" => ~Contains(txq, "dc")) => OneMarker(Append(txq, m))
         /\ \A m \in {"msg", "pong", "dc"} :
              /\ Append(rxq, m) \in Seq({"msg", "pong", "dc"})
              /\ Contains(Append(rxq, m), "dc") <=> Contains(rxq, "dc") \/ m = "dc"
              /\ OneMarker(rxq) /\ (m = "dc" => ~Contains(rxq, "dc")) => OneMarker(Append(rxq, m))
         /\ txq # <<>> =>
              /\ Tail(txq) \in Seq({"msg", "dc"}) /\ Head(txq) \in {"msg", "dc"}
              /\ Head(txq) = "dc" \/ Contains(Tail(txq), "dc") => Contains(txq, "dc")
              /\ OneMarker(txq) => OneMarker(Tail(txq))
              /\ OneMarker(txq) /\ Head(txq) = "dc" => ~Contains(Tail(txq), "dc")
         /\ rxq # <<>> =>
              /\ Tail(rxq) \in Seq({"msg", "pong", "dc"}) /\ Head(rxq) \in {"msg", "pong", "dc"}
              /\ Head(rxq) = "dc" \/ Contains(Tail(rxq), "dc") => Contains(rxq, "dc")
              /\ OneMarker(rxq) => OneMarker(Tail(rxq))
              /\ OneMarker(rxq) /\ Head(rxq) = "dc" => ~Contains(Tail(rxq), "dc")
<1>1. \A m \in {"msg", "dc"} :
        /\ Append(txq, m) \in Seq({"msg", "dc"})
        /\ Contains(Append(txq, m), "dc") <=> Contains(txq, "dc") \/ m = "dc"
        /\ OneMarker(txq) /\ (m = "dc" => ~Contains(txq, "dc")) => OneMarker(Append(txq, m))
  BY AppendFacts
<1>2. \A m \in {"msg", "pong", "dc"} :
        /\ Append(rxq, m) \in Seq({"msg", "pong", "dc"})
        /\ Contains(Append(rxq, m), "dc") <=> Contains(rxq, "dc") \/ m = "dc"
        /\ OneMarker(rxq) /\ (m = "dc" => ~Contains(rxq, "dc")) => OneMarker(Append(rxq, m))
  BY AppendFacts
<1>3. txq # <<>> =>
        /\ Tail(txq) \in Seq({"msg", "dc"}) /\ Head(txq) \in {"msg", "dc"}
        /\ Head(txq) = "dc" \/ Contains(Tail(txq), "dc") => Contains(txq, "dc")
        /\ OneMarker(txq) => OneMarker(Tail(txq)) /\ (Head(txq) = "dc" => ~Contains(Tail(txq), "dc"))
  BY TailFacts
<1>4. rxq # <<>> =>
        /\ Tail(rxq) \in Seq({"msg", "pong", "dc"}) /\ Head(rxq) \in {"msg", "pong", "dc"}
        /\ Head(rxq) = "dc" \/ Contains(Tail(rxq), "dc") => Contains(rxq, "dc")
        /\ OneMarker(rxq) => OneMarker(Tail(rxq)) /\ (Head(rxq) = "dc" => ~Contains(Tail(rxq), "dc"))
  BY TailFacts
<1> QED
  BY <1>1, <1>2, <1>3, <1>4

-----------------------------------------------------------------------------
LEMMA InitIInv == Init => IInv
<1> SUFFICES ASSUME Init PROVE IInv
  OBVIOUS
<1>1. Typed
  <2>1. /\ lock \in {"none"} \cup Actors
        /\ pc \in [Actors -> MainPlaces \cup JobPlaces]
        /\ pc["main"] \in MainPlaces /\ pc["job"] \in JobPlaces
    BY DEF Init, Actors, MainPlaces, JobPlaces, Busy, Connecting
  <2>2. worker \in [tx : WorkerPlaces.tx, rx : WorkerPlaces.rx, hb : WorkerPlaces.hb]
    BY DEF Init, WorkerPlaces
  <2>3. txq \in Seq({"msg", "dc"}) /\ rxq \in Seq({"msg", "pong", "dc"})
    BY DEF Init
  <2>4. ws \in {"none", "live", "lost"} /\ jobs \in Nat
    BY DEF Init
  <2>5. /\ handler \in BOOLEAN /\ authed \in BOOLEAN /\ acked \in BOOLEAN
        /\ disconnect_now \in BOOLEAN /\ crashed \in BOOLEAN
    BY DEF Init
  <2> QED
    BY <2>1, <2>2, <2>3, <2>4, <2>5, TypesTogether DEF Types
<1>2. Locking
  BY DEF Init, Locking, Actors, Busy, Connecting, Disconnecting
<1>3. Markers /\ Running /\ Serving
  BY DEF Init, Markers, OneMarker, Contains, Running, Serving, Place, Marked
<1> QED
  BY <1>1, <1>2, <1>3 DEF IInv

LEMMA NetworkKeepsIInv ==
  ASSUME IInv, Receive \/ ServerClose \/ LoseConnection \/ RequestShutdown
  PROVE  IInv'
<1>t. /\ pc \in [Actors -> MainPlaces \cup JobPlaces] /\ lock \in {"none"} \cup Actors
      /\ worker \in [tx : WorkerPlaces.tx, rx : WorkerPlaces.rx, hb : WorkerPlaces.hb]
      /\ txq \in Seq({"msg", "dc"}) /\ rxq \in Seq({"msg", "pong", "dc"})
      /\ pc["main"] \in MainPlaces /\ pc["job"] \in JobPlaces
  BY DEF IInv, Typed, TypeOK, MainPlaces, JobPlaces, Busy
<1>1. Typed'
  <2>1. /\ lock' \in {"none"} \cup Actors
        /\ pc' \in [Actors -> MainPlaces \cup JobPlaces]
        /\ pc'["main"] \in MainPlaces /\ pc'["job"] \in JobPlaces
    BY <1>t DEF Busy, Connecting, Disconnecting, MainPlaces, JobPlaces, Receive,
      ServerClose, LoseConnection, RequestShutdown, Goto, Actors
  <2>2. worker' \in [tx : WorkerPlaces.tx, rx : WorkerPlaces.rx, hb : WorkerPlaces.hb]
    BY <1>t, QueueFacts DEF WorkerPlaces, Receive, ServerClose, LoseConnection,
      RequestShutdown, Goto, Actors
  <2>3. txq' \in Seq({"msg", "dc"}) /\ rxq' \in Seq({"msg", "pong", "dc"})
    BY <1>t, QueueFacts DEF Receive, ServerClose, LoseConnection, RequestShutdown, Goto,
      Actors
  <2>4. ws' \in {"none", "live", "lost"} /\ jobs' \in Nat
    BY <1>t DEF IInv, Typed, TypeOK, Receive, ServerClose, LoseConnection,
      RequestShutdown, Goto, Actors
  <2>5. /\ handler' \in BOOLEAN /\ authed' \in BOOLEAN /\ acked' \in BOOLEAN
        /\ disconnect_now' \in BOOLEAN /\ crashed' \in BOOLEAN
    BY <1>t DEF IInv, Typed, Receive, ServerClose, LoseConnection, RequestShutdown,
      Goto, Actors
  <2> QED
    BY <2>1, <2>2, <2>3, <2>4, <2>5, TypesTogetherNext DEF Types
<1>2. Locking'
  BY <1>t DEF IInv, Locking, Busy, Connecting, Disconnecting, MainPlaces, JobPlaces,
    Receive, ServerClose, LoseConnection, RequestShutdown, Goto, Actors
<1>3. Markers'
  BY <1>t, QueueFacts DEF IInv, Locking, Markers, Marked, Place, Running, WorkerPlaces,
    Busy, Connecting, Disconnecting, MainPlaces, JobPlaces, Receive, ServerClose,
    LoseConnection, RequestShutdown, Goto, Actors
<1>4. Running'
  BY <1>t DEF IInv, Locking, Running, Markers, Marked, Place, WorkerPlaces, Busy,
    Connecting, Disconnecting, MainPlaces, JobPlaces, Receive, ServerClose,
    LoseConnection, RequestShutdown, Goto, Actors
<1>5. Serving'
  BY <1>t DEF IInv, Typed, TypeOK, Locking, Running, Markers, Marked, Serving, Place,
    WorkerPlaces, Busy, Connecting, Disconnecting, MainPlaces, JobPlaces, Receive,
    ServerClose, LoseConnection, RequestShutdown, Goto, Actors
<1> QED
  BY <1>1, <1>2, <1>3, <1>4, <1>5 DEF IInv

LEMMA SenderKeepsIInv ==
  ASSUME IInv, TxPop \/ TxSend
  PROVE  IInv'
<1>t. /\ pc \in [Actors -> MainPlaces \cup JobPlaces] /\ lock \in {"none"} \cup Actors
      /\ worker \in [tx : WorkerPlaces.tx, rx : WorkerPlaces.rx, hb : WorkerPlaces.hb]
      /\ txq \in Seq({"msg", "dc"}) /\ rxq \in Seq({"msg", "pong", "dc"})
      /\ pc["main"] \in MainPlaces /\ pc["job"] \in JobPlaces
  BY DEF IInv, Typed, TypeOK, MainPlaces, JobPlaces, Busy
<1>1. Typed'
  <2>1. /\ lock' \in {"none"} \cup Actors
        /\ pc' \in [Actors -> MainPlaces \cup JobPlaces]
        /\ pc'["main"] \in MainPlaces /\ pc'["job"] \in JobPlaces
    BY <1>t DEF Busy, Connecting, Disconnecting, MainPlaces, JobPlaces, TxPop, TxSend,
      Crash, Goto, Actors
  <2>2. worker' \in [tx : WorkerPlaces.tx, rx : WorkerPlaces.rx, hb : WorkerPlaces.hb]
    BY <1>t, QueueFacts DEF WorkerPlaces, TxPop, TxSend, Crash, Goto, Actors
  <2>3. txq' \in Seq({"msg", "dc"}) /\ rxq' \in Seq({"msg", "pong", "dc"})
    BY <1>t, QueueFacts DEF TxPop, TxSend, Crash, Goto, Actors
  <2>4. ws' \in {"none", "live", "lost"} /\ jobs' \in Nat
    BY <1>t DEF IInv, Typed, TypeOK, TxPop, TxSend, Crash, Goto, Actors
  <2>5. /\ handler' \in BOOLEAN /\ authed' \in BOOLEAN /\ acked' \in BOOLEAN
        /\ disconnect_now' \in BOOLEAN /\ crashed' \in BOOLEAN
    BY <1>t DEF IInv, Typed, TxPop, TxSend, Crash, Goto, Actors
  <2> QED
    BY <2>1, <2>2, <2>3, <2>4, <2>5, TypesTogetherNext DEF Types
<1>2. Locking'
  BY <1>t DEF IInv, Locking, Busy, Connecting, Disconnecting, MainPlaces, JobPlaces,
    TxPop, TxSend, Crash, Goto, Actors
<1>3. Markers'
  BY <1>t, QueueFacts DEF IInv, Locking, Markers, Marked, Place, Running, WorkerPlaces,
    Busy, Connecting, Disconnecting, MainPlaces, JobPlaces, TxPop, TxSend, Crash, Goto,
    Actors
<1>4. Running'
  BY <1>t DEF IInv, Locking, Running, Markers, Marked, Place, WorkerPlaces, Busy,
    Connecting, Disconnecting, MainPlaces, JobPlaces, TxPop, TxSend, Crash, Goto, Actors
<1>5. Serving'
  BY <1>t DEF IInv, Typed, TypeOK, Locking, Running, Markers, Marked, Serving, Place,
    WorkerPlaces, Busy, Connecting, Disconnecting, MainPlaces, JobPlaces, TxPop, TxSend,
    Crash, Goto, Actors
<1> QED
  BY <1>1, <1>2, <1>3, <1>4, <1>5 DEF IInv

LEMMA ReceiverKeepsIInv ==
  ASSUME IInv, RxPop \/ RxProcess
  PROVE  IInv'
<1>t. /\ pc \in [Actors -> MainPlaces \cup JobPlaces] /\ lock \in {"none"} \cup Actors
      /\ worker \in [tx : WorkerPlaces.tx, rx : WorkerPlaces.rx, hb : WorkerPlaces.hb]
      /\ txq \in Seq({"msg", "dc"}) /\ rxq \in Seq({"msg", "pong", "dc"})
      /\ pc["main"] \in MainPlaces /\ pc["job"] \in JobPlaces
  BY DEF IInv, Typed, TypeOK, MainPlaces, JobPlaces, Busy
<1>1. Typed'
  <2>1. /\ lock' \in {"none"} \cup Actors
        /\ pc' \in [Actors -> MainPlaces \cup JobPlaces]
        /\ pc'["main"] \in MainPlaces /\ pc'["job"] \in JobPlaces
    BY <1>t DEF Busy, Connecting, Disconnecting, MainPlaces, JobPlaces, RxPop,
      RxProcess, Goto, Actors
  <2>2. worker' \in [tx : WorkerPlaces.tx, rx : WorkerPlaces.rx, hb : WorkerPlaces.hb]
    BY <1>t, QueueFacts DEF WorkerPlaces, RxPop, RxProcess, Goto, Actors
  <2>3. txq' \in Seq({"msg", "dc"}) /\ rxq' \in Seq({"msg", "pong", "dc"})
    BY <1>t, QueueFacts DEF RxPop, RxProcess, Goto, Actors
  <2>4. ws' \in {"none", "live", "lost"} /\ jobs' \in Nat
    BY <1>t DEF IInv, Typed, TypeOK, RxPop, RxProcess, Goto, Actors
  <2>5. /\ handler' \in BOOLEAN /\ authed' \in BOOLEAN /\ acked' \in BOOLEAN
        /\ disconnect_now' \in BOOLEAN /\ crashed' \in BOOLEAN
    BY <1>t DEF IInv, Typed, RxPop, RxProcess, Goto, Actors
  <2> QED
    BY <2>1, <2>2, <2>3, <2>4, <2>5, TypesTogetherNext DEF Types
<1>2. Locking'
  BY <1>t DEF IInv, Locking, Busy, Connecting, Disconnecting, MainPlaces, JobPlaces,
    RxPop, RxProcess, Goto, Actors
<1>3. Markers'
  BY <1>t, QueueFacts DEF IInv, Locking, Markers, Marked, Place, Running, WorkerPlaces,
    Busy, Connecting, Disconnecting, MainPlaces, JobPlaces, RxPop, RxProcess, Goto,
    Actors
<1>4. Running'
  BY <1>t DEF IInv, Locking, Running, Markers, Marked, Place, WorkerPlaces, Busy,
    Connecting, Disconnecting, MainPlaces, JobPlaces, RxPop, RxProcess, Goto, Actors
<1>5. Serving'
  BY <1>t DEF IInv, Typed, TypeOK, Locking, Running, Markers, Marked, Serving, Place,
    WorkerPlaces, Busy, Connecting, Disconnecting, MainPlaces, JobPlaces, RxPop,
    RxProcess, Goto, Actors
<1> QED
  BY <1>1, <1>2, <1>3, <1>4, <1>5 DEF IInv

LEMMA PingerKeepsIInv ==
  ASSUME IInv, HbExit \/ HbPatience \/ HbPingDue \/ HbPing
  PROVE  IInv'
<1>t. /\ pc \in [Actors -> MainPlaces \cup JobPlaces] /\ lock \in {"none"} \cup Actors
      /\ worker \in [tx : WorkerPlaces.tx, rx : WorkerPlaces.rx, hb : WorkerPlaces.hb]
      /\ txq \in Seq({"msg", "dc"}) /\ rxq \in Seq({"msg", "pong", "dc"})
      /\ pc["main"] \in MainPlaces /\ pc["job"] \in JobPlaces
  BY DEF IInv, Typed, TypeOK, MainPlaces, JobPlaces, Busy
<1>1. Typed'
  <2>1. /\ lock' \in {"none"} \cup Actors
        /\ pc' \in [Actors -> MainPlaces \cup JobPlaces]
        /\ pc'["main"] \in MainPlaces /\ pc'["job"] \in JobPlaces
    BY <1>t DEF Busy, Connecting, Disconnecting, MainPlaces, JobPlaces, HbExit,
      HbPatience, HbPingDue, HbPing, Goto, Actors
  <2>2. worker' \in [tx : WorkerPlaces.tx, rx : WorkerPlaces.rx, hb : WorkerPlaces.hb]
    BY <1>t, QueueFacts DEF WorkerPlaces, HbExit, HbPatience, HbPingDue, HbPing, Goto,
      Actors
  <2>3. txq' \in Seq({"msg", "dc"}) /\ rxq' \in Seq({"msg", "pong", "dc"})
    BY <1>t, QueueFacts DEF HbExit, HbPatience, HbPingDue, HbPing, Goto, Actors
  <2>4. ws' \in {"none", "live", "lost"} /\ jobs' \in Nat
    BY <1>t DEF IInv, Typed, TypeOK, HbExit, HbPatience, HbPingDue, HbPing, Goto, Actors
  <2>5. /\ handler' \in BOOLEAN /\ authed' \in BOOLEAN /\ acked' \in BOOLEAN
        /\ disconnect_now' \in BOOLEAN /\ crashed' \in BOOLEAN
    BY <1>t DEF IInv, Typed, HbExit, HbPatience, HbPingDue, HbPing, Goto, Actors
  <2> QED
    BY <2>1, <2>2, <2>3, <2>4, <2>5, TypesTogetherNext DEF Types
<1>2. Locking'
  BY <1>t DEF IInv, Locking, Busy, Connecting, Disconnecting, MainPlaces, JobPlaces,
    HbExit, HbPatience, HbPingDue, HbPing, Goto, Actors
<1>3. Markers'
  BY <1>t, QueueFacts DEF IInv, Locking, Markers, Marked, Place, Running, WorkerPlaces,
    Busy, Connecting, Disconnecting, MainPlaces, JobPlaces, HbExit, HbPatience,
    HbPingDue, HbPing, Goto, Actors
<1>4. Running'
  BY <1>t DEF IInv, Locking, Running, Markers, Marked, Place, WorkerPlaces, Busy,
    Connecting, Disconnecting, MainPlaces, JobPlaces, HbExit, HbPatience, HbPingDue,
    HbPing, Goto, Actors
<1>5. Serving'
  BY <1>t DEF IInv, Typed, TypeOK, Locking, Running, Markers, Marked, Serving, Place,
    WorkerPlaces, Busy, Connecting, Disconnecting, MainPlaces, JobPlaces, HbExit,
    HbPatience, HbPingDue, HbPing, Goto, Actors
<1> QED
  BY <1>1, <1>2, <1>3, <1>4, <1>5 DEF IInv

LEMMA LockingKeepsIInv ==
  ASSUME IInv, StartJob \/ Shutdown \/ WsConnect
  PROVE  IInv'
<1>t. /\ pc \in [Actors -> MainPlaces \cup JobPlaces] /\ lock \in {"none"} \cup Actors
      /\ worker \in [tx : WorkerPlaces.tx, rx : WorkerPlaces.rx, hb : WorkerPlaces.hb]
      /\ txq \in Seq({"msg", "dc"}) /\ rxq \in Seq({"msg", "pong", "dc"})
      /\ pc["main"] \in MainPlaces /\ pc["job"] \in JobPlaces
  BY DEF IInv, Typed, TypeOK, MainPlaces, JobPlaces, Busy
<1>1. Typed'
  <2>1. /\ lock' \in {"none"} \cup Actors
        /\ pc' \in [Actors -> MainPlaces \cup JobPlaces]
        /\ pc'["main"] \in MainPlaces /\ pc'["job"] \in JobPlaces
    BY <1>t DEF Busy, Connecting, Disconnecting, MainPlaces, JobPlaces, StartJob,
      Shutdown, WsConnect, Goto, Actors
  <2>2. worker' \in [tx : WorkerPlaces.tx, rx : WorkerPlaces.rx, hb : WorkerPlaces.hb]
    BY <1>t, QueueFacts DEF WorkerPlaces, StartJob, Shutdown, WsConnect, Goto, Actors
  <2>3. txq' \in Seq({"msg", "dc"}) /\ rxq' \in Seq({"msg", "pong", "dc"})
    BY <1>t, QueueFacts DEF StartJob, Shutdown, WsConnect, Goto, Actors
  <2>4. ws' \in {"none", "live", "lost"} /\ jobs' \in Nat
    BY <1>t DEF IInv, Typed, TypeOK, StartJob, Shutdown, WsConnect, Goto, Actors
  <2>5. /\ handler' \in BOOLEAN /\ authed' \in BOOLEAN /\ acked' \in BOOLEAN
        /\ disconnect_now' \in BOOLEAN /\ crashed' \in BOOLEAN
    BY <1>t DEF IInv, Typed, StartJob, Shutdown, WsConnect, Goto, Actors
  <2> QED
    BY <2>1, <2>2, <2>3, <2>4, <2>5, TypesTogetherNext DEF Types
<1>2. Locking'
  BY <1>t DEF IInv, Locking, Busy, Connecting, Disconnecting, MainPlaces, JobPlaces,
    StartJob, Shutdown, WsConnect, Goto, Actors
<1>3. Markers'
  BY <1>t, QueueFacts DEF IInv, Locking, Markers, Marked, Place, Running, WorkerPlaces,
    Busy, Connecting, Disconnecting, MainPlaces, JobPlaces, StartJob, Shutdown,
    WsConnect, Goto, Actors
<1>4. Running'
  BY <1>t DEF IInv, Locking, Running, Markers, Marked, Place, WorkerPlaces, Busy,
    Connecting, Disconnecting, MainPlaces, JobPlaces, StartJob, Shutdown, WsConnect,
    Goto, Actors
<1>5. Serving'
  BY <1>t DEF IInv, Typed, TypeOK, Locking, Running, Markers, Marked, Serving, Place,
    WorkerPlaces, Busy, Connecting, Disconnecting, MainPlaces, JobPlaces, StartJob,
    Shutdown, WsConnect, Goto, Actors
<1> QED
  BY <1>1, <1>2, <1>3, <1>4, <1>5 DEF IInv

LEMMA ConnectingKeepsIInv ==
  ASSUME NEW a \in Actors, IInv, StartWorkers(a) \/ Login(a) \/ Authenticated(a)
  PROVE  IInv'
<1>t. /\ pc \in [Actors -> MainPlaces \cup JobPlaces] /\ lock \in {"none"} \cup Actors
      /\ worker \in [tx : WorkerPlaces.tx, rx : WorkerPlaces.rx, hb : WorkerPlaces.hb]
      /\ txq \in Seq({"msg", "dc"}) /\ rxq \in Seq({"msg", "pong", "dc"})
      /\ pc["main"] \in MainPlaces /\ pc["job"] \in JobPlaces
  BY DEF IInv, Typed, TypeOK, MainPlaces, JobPlaces, Busy
<1>1. Typed'
  <2>1. /\ lock' \in {"none"} \cup Actors
        /\ pc' \in [Actors -> MainPlaces \cup JobPlaces]
        /\ pc'["main"] \in MainPlaces /\ pc'["job"] \in JobPlaces
    BY <1>t DEF Busy, Connecting, Disconnecting, MainPlaces, JobPlaces, StartWorkers,
      Login, Authenticated, Leave, Crash, Goto, Actors
  <2>2. worker' \in [tx : WorkerPlaces.tx, rx : WorkerPlaces.rx, hb : WorkerPlaces.hb]
    BY <1>t, QueueFacts DEF WorkerPlaces, StartWorkers, Login, Authenticated, Leave,
      Crash, Goto, Actors
  <2>3. txq' \in Seq({"msg", "dc"}) /\ rxq' \in Seq({"msg", "pong", "dc"})
    BY <1>t, QueueFacts DEF StartWorkers, Login, Authenticated, Leave, Crash, Goto,
      Actors
  <2>4. ws' \in {"none", "live", "lost"} /\ jobs' \in Nat
    BY <1>t DEF IInv, Typed, TypeOK, StartWorkers, Login, Authenticated, Leave, Crash,
      Goto, Actors
  <2>5. /\ handler' \in BOOLEAN /\ authed' \in BOOLEAN /\ acked' \in BOOLEAN
        /\ disconnect_now' \in BOOLEAN /\ crashed' \in BOOLEAN
    BY <1>t DEF IInv, Typed, StartWorkers, Login, Authenticated, Leave, Crash, Goto,
      Actors
  <2> QED
    BY <2>1, <2>2, <2>3, <2>4, <2>5, TypesTogetherNext DEF Types
<1>2. Locking'
  BY <1>t DEF IInv, Locking, Busy, Connecting, Disconnecting, MainPlaces, JobPlaces,
    StartWorkers, Login, Authenticated, Leave, Crash, Goto, Actors
<1>3. Markers'
  BY <1>t, QueueFacts DEF IInv, Locking, Markers, Marked, Place, Running, WorkerPlaces,
    Busy, Connecting, Disconnecting, MainPlaces, JobPlaces, StartWorkers, Login,
    Authenticated, Leave, Crash, Goto, Actors
<1>4. Running'
  BY <1>t DEF IInv, Locking, Running, Markers, Marked, Place, WorkerPlaces, Busy,
    Connecting, Disconnecting, MainPlaces, JobPlaces, StartWorkers, Login,
    Authenticated, Leave, Crash, Goto, Actors
<1>5. Serving'
  BY <1>t DEF IInv, Typed, TypeOK, Locking, Running, Markers, Marked, Serving, Place,
    WorkerPlaces, Busy, Connecting, Disconnecting, MainPlaces, JobPlaces, StartWorkers,
    Login, Authenticated, Leave, Crash, Goto, Actors
<1> QED
  BY <1>1, <1>2, <1>3, <1>4, <1>5 DEF IInv

LEMMA ReadyKeepsIInv ==
  ASSUME NEW a \in Actors, IInv, AuthTimeout(a) \/ Ready(a) \/ JoinChannels(a)
  PROVE  IInv'
<1>t. /\ pc \in [Actors -> MainPlaces \cup JobPlaces] /\ lock \in {"none"} \cup Actors
      /\ worker \in [tx : WorkerPlaces.tx, rx : WorkerPlaces.rx, hb : WorkerPlaces.hb]
      /\ txq \in Seq({"msg", "dc"}) /\ rxq \in Seq({"msg", "pong", "dc"})
      /\ pc["main"] \in MainPlaces /\ pc["job"] \in JobPlaces
  BY DEF IInv, Typed, TypeOK, MainPlaces, JobPlaces, Busy
<1>1. Typed'
  <2>1. /\ lock' \in {"none"} \cup Actors
        /\ pc' \in [Actors -> MainPlaces \cup JobPlaces]
        /\ pc'["main"] \in MainPlaces /\ pc'["job"] \in JobPlaces
    BY <1>t DEF Busy, Connecting, Disconnecting, MainPlaces, JobPlaces, AuthTimeout,
      Ready, JoinChannels, Leave, Crash, Goto, Actors
  <2>2. worker' \in [tx : WorkerPlaces.tx, rx : WorkerPlaces.rx, hb : WorkerPlaces.hb]
    BY <1>t, QueueFacts DEF WorkerPlaces, AuthTimeout, Ready, JoinChannels, Leave,
      Crash, Goto, Actors
  <2>3. txq' \in Seq({"msg", "dc"}) /\ rxq' \in Seq({"msg", "pong", "dc"})
    BY <1>t, QueueFacts DEF AuthTimeout, Ready, JoinChannels, Leave, Crash, Goto, Actors
  <2>4. ws' \in {"none", "live", "lost"} /\ jobs' \in Nat
    BY <1>t DEF IInv, Typed, TypeOK, AuthTimeout, Ready, JoinChannels, Leave, Crash,
      Goto, Actors
  <2>5. /\ handler' \in BOOLEAN /\ authed' \in BOOLEAN /\ acked' \in BOOLEAN
        /\ disconnect_now' \in BOOLEAN /\ crashed' \in BOOLEAN
    BY <1>t DEF IInv, Typed, AuthTimeout, Ready, JoinChannels, Leave, Crash, Goto,
      Actors
  <2> QED
    BY <2>1, <2>2, <2>3, <2>4, <2>5, TypesTogetherNext DEF Types
<1>2. Locking'
  BY <1>t DEF IInv, Locking, Busy, Connecting, Disconnecting, MainPlaces, JobPlaces,
    AuthTimeout, Ready, JoinChannels, Leave, Crash, Goto, Actors
<1>3. Markers'
  BY <1>t, QueueFacts DEF IInv, Locking, Markers, Marked, Place, Running, WorkerPlaces,
    Busy, Connecting, Disconnecting, MainPlaces, JobPlaces, AuthTimeout, Ready,
    JoinChannels, Leave, Crash, Goto, Actors
<1>4. Running'
  BY <1>t DEF IInv, Locking, Running, Markers, Marked, Place, WorkerPlaces, Busy,
    Connecting, Disconnecting, MainPlaces, JobPlaces, AuthTimeout, Ready, JoinChannels,
    Leave, Crash, Goto, Actors
<1>5. Serving'
  BY <1>t DEF IInv, Typed, TypeOK, Locking, Running, Markers, Marked, Serving, Place,
    WorkerPlaces, Busy, Connecting, Disconnecting, MainPlaces, JobPlaces, AuthTimeout,
    Ready, JoinChannels, Leave, Crash, Goto, Actors
<1> QED
  BY <1>1, <1>2, <1>3, <1>4, <1>5 DEF IInv

LEMMA PushMarkersKeepsIInv ==
  ASSUME NEW a \in Actors, IInv, PushMarkers(a)
  PROVE  IInv'
<1>t. /\ pc \in [Actors -> MainPlaces \cup JobPlaces] /\ lock \in {"none"} \cup Actors
      /\ worker \in [tx : WorkerPlaces.tx, rx : WorkerPlaces.rx, hb : WorkerPlaces.hb]
      /\ txq \in Seq({"msg", "dc"}) /\ rxq \in Seq({"msg", "pong", "dc"})
      /\ pc["main"] \in MainPlaces /\ pc["job"] \in JobPlaces
  BY DEF IInv, Typed, TypeOK, MainPlaces, JobPlaces, Busy
<1>1. Typed'
  <2>1. /\ lock' \in {"none"} \cup Actors
        /\ pc' \in [Actors -> MainPlaces \cup JobPlaces]
        /\ pc'["main"] \in MainPlaces /\ pc'["job"] \in JobPlaces
    BY <1>t DEF Busy, Connecting, Disconnecting, MainPlaces, JobPlaces, PushMarkers,
      Goto, Actors
  <2>2. worker' \in [tx : WorkerPlaces.tx, rx : WorkerPlaces.rx, hb : WorkerPlaces.hb]
    BY <1>t, QueueFacts DEF WorkerPlaces, PushMarkers, Goto, Actors
  <2>3. txq' \in Seq({"msg", "dc"}) /\ rxq' \in Seq({"msg", "pong", "dc"})
    BY <1>t, QueueFacts DEF PushMarkers, Goto, Actors
  <2>4. ws' \in {"none", "live", "lost"} /\ jobs' \in Nat
    BY <1>t DEF IInv, Typed, TypeOK, PushMarkers, Goto, Actors
  <2>5. /\ handler' \in BOOLEAN /\ authed' \in BOOLEAN /\ acked' \in BOOLEAN
        /\ disconnect_now' \in BOOLEAN /\ crashed' \in BOOLEAN
    BY <1>t DEF IInv, Typed, PushMarkers, Goto, Actors
  <2> QED
    BY <2>1, <2>2, <2>3, <2>4, <2>5, TypesTogetherNext DEF Types
<1>2. Locking'
  BY <1>t DEF IInv, Locking, Busy, Connecting, Disconnecting, MainPlaces, JobPlaces,
    PushMarkers, Goto, Actors
<1>3. Markers'
  BY <1>t, QueueFacts DEF IInv, Locking, Markers, Marked, Place, Running, WorkerPlaces,
    Busy, Connecting, Disconnecting, MainPlaces, JobPlaces, PushMarkers, Goto, Actors
<1>4. Running'
  BY <1>t DEF IInv, Locking, Running, Markers, Marked, Place, WorkerPlaces, Busy,
    Connecting, Disconnecting, MainPlaces, JobPlaces, PushMarkers, Goto, Actors
<1>5. Serving'
  BY <1>t DEF IInv, Typed, TypeOK, Locking, Running, Markers, Marked, Serving, Place,
    WorkerPlaces, Busy, Connecting, Disconnecting, MainPlaces, JobPlaces, PushMarkers,
    Goto, Actors
<1> QED
  BY <1>1, <1>2, <1>3, <1>4, <1>5 DEF IInv

LEMMA DisconnectingKeepsIInv ==
  ASSUME NEW a \in Actors, IInv, Part(a) \/ Close(a) \/ SetFlag(a)
  PROVE  IInv'
<1>t. /\ pc \in [Actors -> MainPlaces \cup JobPlaces] /\ lock \in {"none"} \cup Actors
      /\ worker \in [tx : WorkerPlaces.tx, rx : WorkerPlaces.rx, hb : WorkerPlaces.hb]
      /\ txq \in Seq({"msg", "dc"}) /\ rxq \in Seq({"msg", "pong", "dc"})
      /\ pc["main"] \in MainPlaces /\ pc["job"] \in JobPlaces
  BY DEF IInv, Typed, TypeOK, MainPlaces, JobPlaces, Busy
<1>1. Typed'
  <2>1. /\ lock' \in {"none"} \cup Actors
        /\ pc' \in [Actors -> MainPlaces \cup JobPlaces]
        /\ pc'["main"] \in MainPlaces /\ pc'["job"] \in JobPlaces
    BY <1>t DEF Busy, Connecting, Disconnecting, MainPlaces, JobPlaces, Part, Close,
      SetFlag, Crash, Goto, Actors
  <2>2. worker' \in [tx : WorkerPlaces.tx, rx : WorkerPlaces.rx, hb : WorkerPlaces.hb]
    BY <1>t, QueueFacts DEF WorkerPlaces, Part, Close, SetFlag, Crash, Goto, Actors
  <2>3. txq' \in Seq({"msg", "dc"}) /\ rxq' \in Seq({"msg", "pong", "dc"})
    BY <1>t, QueueFacts DEF Part, Close, SetFlag, Crash, Goto, Actors
  <2>4. ws' \in {"none", "live", "lost"} /\ jobs' \in Nat
    BY <1>t DEF IInv, Typed, TypeOK, Part, Close, SetFlag, Crash, Goto, Actors
  <2>5. /\ handler' \in BOOLEAN /\ authed' \in BOOLEAN /\ acked' \in BOOLEAN
        /\ disconnect_now' \in BOOLEAN /\ crashed' \in BOOLEAN
    BY <1>t DEF IInv, Typed, Part, Close, SetFlag, Crash, Goto, Actors
  <2> QED
    BY <2>1, <2>2, <2>3, <2>4, <2>5, TypesTogetherNext DEF Types
<1>2. Locking'
  BY <1>t DEF IInv, Locking, Busy, Connecting, Disconnecting, MainPlaces, JobPlaces,
    Part, Close, SetFlag, Crash, Goto, Actors
<1>3. Markers'
  BY <1>t, QueueFacts DEF IInv, Locking, Markers, Marked, Place, Running, WorkerPlaces,
    Busy, Connecting, Disconnecting, MainPlaces, JobPlaces, Part, Close, SetFlag, Crash,
    Goto, Actors
<1>4. Running'
  BY <1>t DEF IInv, Locking, Running, Markers, Marked, Place, WorkerPlaces, Busy,
    Connecting, Disconnecting, MainPlaces, JobPlaces, Part, Close, SetFlag, Crash, Goto,
    Actors
<1>5. Serving'
  BY <1>t DEF IInv, Typed, TypeOK, Locking, Running, Markers, Marked, Serving, Place,
    WorkerPlaces, Busy, Connecting, Disconnecting, MainPlaces, JobPlaces, Part, Close,
    SetFlag, Crash, Goto, Actors
<1> QED
  BY <1>1, <1>2, <1>3, <1>4, <1>5 DEF IInv

LEMMA JoinKeepsIInv ==
  ASSUME NEW a \in Actors, NEW w \in {"tx", "rx", "hb"}, IInv, Join(a, w)
  PROVE  IInv'
<1>t. /\ pc \in [Actors -> MainPlaces \cup JobPlaces] /\ lock \in {"none"} \cup Actors
      /\ worker \in [tx : WorkerPlaces.tx, rx : WorkerPlaces.rx, hb : WorkerPlaces.hb]
      /\ txq \in Seq({"msg", "dc"}) /\ rxq \in Seq({"msg", "pong", "dc"})
      /\ pc["main"] \in MainPlaces /\ pc["job"] \in JobPlaces
  BY DEF IInv, Typed, TypeOK, MainPlaces, JobPlaces, Busy
<1>1. Typed'
  <2>1. /\ lock' \in {"none"} \cup Actors
        /\ pc' \in [Actors -> MainPlaces \cup JobPlaces]
        /\ pc'["main"] \in MainPlaces /\ pc'["job"] \in JobPlaces
    BY <1>t DEF Busy, Connecting, Disconnecting, MainPlaces, JobPlaces, Join, JoinPlace,
      AfterJoin, Leave, Goto, Actors
  <2>2. worker' \in [tx : WorkerPlaces.tx, rx : WorkerPlaces.rx, hb : WorkerPlaces.hb]
    BY <1>t, QueueFacts DEF WorkerPlaces, Join, JoinPlace, AfterJoin, Leave, Goto,
      Actors
  <2>3. txq' \in Seq({"msg", "dc"}) /\ rxq' \in Seq({"msg", "pong", "dc"})
    BY <1>t, QueueFacts DEF Join, JoinPlace, AfterJoin, Leave, Goto, Actors
  <2>4. ws' \in {"none", "live", "lost"} /\ jobs' \in Nat
    BY <1>t DEF IInv, Typed, TypeOK, Join, JoinPlace, AfterJoin, Leave, Goto, Actors
  <2>5. /\ handler' \in BOOLEAN /\ authed' \in BOOLEAN /\ acked' \in BOOLEAN
        /\ disconnect_now' \in BOOLEAN /\ crashed' \in BOOLEAN
    BY <1>t DEF IInv, Typed, Join, JoinPlace, AfterJoin, Leave, Goto, Actors
  <2> QED
    BY <2>1, <2>2, <2>3, <2>4, <2>5, TypesTogetherNext DEF Types
<1>2. Locking'
  BY <1>t DEF IInv, Locking, Busy, Connecting, Disconnecting, MainPlaces, JobPlaces,
    Join, JoinPlace, AfterJoin, Leave, Goto, Actors
<1>3. Markers'
  BY <1>t, QueueFacts DEF IInv, Locking, Markers, Marked, Place, Running, WorkerPlaces,
    Busy, Connecting, Disconnecting, MainPlaces, JobPlaces, Join, JoinPlace, AfterJoin,
    Leave, Goto, Actors
<1>4. Running'
  BY <1>t DEF IInv, Locking, Running, Markers, Marked, Place, WorkerPlaces, Busy,
    Connecting, Disconnecting, MainPlaces, JobPlaces, Join, JoinPlace, AfterJoin, Leave,
    Goto, Actors
<1>5. Serving'
  BY <1>t DEF IInv, Typed, TypeOK, Locking, Running, Markers, Marked, Serving, Place,
    WorkerPlaces, Busy, Connecting, Disconnecting, MainPlaces, JobPlaces, Join,
    JoinPlace, AfterJoin, Leave, Goto, Actors
<1> QED
  BY <1>1, <1>2, <1>3, <1>4, <1>5 DEF IInv

-----------------------------------------------------------------------------
(* The invariant *)

LEMMA NextKeepsIInv == IInv /\ [Next]_vars => IInv'
<1> SUFFICES ASSUME IInv, [Next]_vars PROVE IInv'
  OBVIOUS
<1>1. CASE Receive \/ ServerClose \/ LoseConnection \/ RequestShutdown
  BY <1>1, NetworkKeepsIInv
<1>2. CASE TxPop \/ TxSend
  BY <1>2, SenderKeepsIInv
<1>3. CASE RxPop \/ RxProcess
  BY <1>3, ReceiverKeepsIInv
<1>4. CASE HbExit \/ HbPatience \/ HbPingDue \/ HbPing
  BY <1>4, PingerKeepsIInv
<1>5. CASE StartJob \/ Shutdown \/ WsConnect
  BY <1>5, LockingKeepsIInv
<1>6. CASE \E a \in Actors : ActorStep(a)
  <2>1. PICK a \in Actors : ActorStep(a)
    BY <1>6
  <2> QED
    BY <2>1, ConnectingKeepsIInv, ReadyKeepsIInv, PushMarkersKeepsIInv,
      DisconnectingKeepsIInv, JoinKeepsIInv DEF ActorStep
<1>7. CASE UNCHANGED vars
  <2>1. Typed'
    BY <1>7, TypesTogetherNext DEF IInv, Typed, TypeOK, Types, MainPlaces, JobPlaces, Busy, vars
  <2>2. Locking' /\ Markers'
    BY <1>7 DEF IInv, Locking, Markers, Place, vars
  <2>3. Running' /\ Serving'
    BY <1>7 DEF IInv, Running, Serving, Place, vars
  <2> QED
    BY <2>1, <2>2, <2>3 DEF IInv
<1> QED
  BY <1>1, <1>2, <1>3, <1>4, <1>5, <1>6, <1>7 DEF Next

\* The invariant holds in every state of a session.
THEOREM Invariance == Spec => []IInv
<1>1. Init => IInv
  BY InitIInv
<1>2. IInv /\ [Next]_vars => IInv'
  BY NextKeepsIInv
<1> QED
  BY <1>1, <1>2, PTL DEF Spec

-----------------------------------------------------------------------------
(* What follows *)

\* The types of a session.
THEOREM TypeCorrect == Spec => []TypeOK
<1>1. IInv => TypeOK
  BY DEF IInv, Typed
<1> QED
  BY <1>1, Invariance, PTL

\* No thread and no marker of one connection is there when the next one begins.
THEOREM ConnectionsApartHolds == Spec => []ConnectionsApart
<1>1. IInv => NoThreadOverwrite
  <2> SUFFICES ASSUME IInv, NEW a \in Actors
               PROVE  /\ pc[a] = "connect" => worker.tx = "none" /\ worker.rx = "none"
                      /\ pc[a] = "join_channels" => worker.hb = "none"
    BY DEF NoThreadOverwrite
  <2>1. pc[a] \in {"connect", "join_channels"} => Place = pc[a]
    BY DEF IInv, Locking, Place, Busy, Connecting, Actors
  <2> QED
    BY <2>1 DEF IInv, Running
<1>2. IInv => NoStaleMarker
  <2> SUFFICES ASSUME IInv, \A a \in Actors : pc[a] \notin Disconnecting
               PROVE  ~Contains(txq, "dc") /\ ~Contains(rxq, "dc")
    BY DEF NoStaleMarker
  <2>1. Place \notin Disconnecting
    BY DEF IInv, Typed, TypeOK, Place, Disconnecting
  <2> QED
    BY <2>1 DEF IInv, Markers, Marked, Disconnecting
<1> QED
  BY <1>1, <1>2, Invariance, PTL DEF ConnectionsApart

\* A connection that is up and idle is served.
THEOREM ServedWhileUpHolds == Spec => []ServedWhileUp
<1>1. IInv => ServedWhileUp
  <2> SUFFICES ASSUME IInv, lock = "none", ws # "none"
               PROVE  /\ authed
                      /\ worker.tx \in {"pop", "msg"} /\ worker.rx \in {"pop", "msg", "pong"}
                      /\ worker.hb \in {"check", "ping"} \/ jobs > 0
    BY DEF ServedWhileUp
  <2>1. Place = "free"
    BY DEF Place
  <2>2. worker.tx \notin {"none", "exited"} /\ worker.rx \notin {"none", "exited"}
    BY <2>1 DEF IInv, Markers, Marked, Running
  <2>3. worker.tx \in {"none", "pop", "msg", "exited"} /\ worker.rx \in {"none", "pop", "msg", "pong", "exited"}
    BY DEF IInv, Typed, WorkerPlaces
  <2> QED
    BY <2>2, <2>3 DEF IInv, Serving
<1> QED
  BY <1>1, Invariance, PTL

\* Nothing is sent on a connection that is not authenticated.
THEOREM NoSendBeforeAuthHolds == Spec => NoSendBeforeAuth
<1>1. IInv /\ [Next]_vars => [worker.tx = "msg" /\ worker'.tx = "pop" => authed]_vars
  <2> SUFFICES ASSUME IInv, Next, worker.tx = "msg", worker'.tx = "pop"
               PROVE  authed
    OBVIOUS
  <2>1. worker \in [tx : WorkerPlaces.tx, rx : WorkerPlaces.rx, hb : WorkerPlaces.hb]
    BY DEF IInv, Typed
  <2>2. CASE TxSend
    BY <2>1, <2>2 DEF IInv, Serving, TxSend, Crash
  <2>3. CASE \E a \in Actors : StartWorkers(a)
    <3>1. worker.tx = "none" \/ worker' = worker
      BY <2>3 DEF IInv, Locking, Running, Place, Busy, Connecting, Actors, StartWorkers
    <3> QED
      BY <3>1
  <2>4. CASE ~TxSend /\ ~\E a \in Actors : StartWorkers(a)
    <3>1. worker'.tx = worker.tx \/ worker'.tx # "pop"
      BY <2>1, <2>4 DEF Next, Receive, ServerClose, LoseConnection, TxPop, RxPop, RxProcess,
        HbExit, HbPatience, HbPingDue, HbPing, ActorStep, Login, Authenticated, AuthTimeout,
        Ready, JoinChannels, PushMarkers, Part, Close, SetFlag, Join, StartJob, WsConnect,
        RequestShutdown, Shutdown, Crash
    <3> QED
      BY <3>1
  <2> QED
    BY <2>2, <2>3, <2>4
<1> QED
  BY <1>1, Invariance, PTL DEF Spec, NoSendBeforeAuth
=============================================================================
