-------------------------- MODULE SocketLifecycle --------------------------
(***************************************************************************)
(* The life of the socket object under a websocket: connection attempts,   *)
(* the receiver thread each successful one starts, the orderly disconnect  *)
(* that joins that thread and the forced one that detaches it and leaves   *)
(* the closing to a job (network/socket.cpp, network/websocket.cpp).       *)
(*                                                                         *)
(* The n-th kissnet socket is n, and so is the receiver thread started for *)
(* it.  "user" is the one thread that connects and disconnects.            *)
(***************************************************************************)
EXTENDS Naturals, FiniteSets

CONSTANT MaxSockets  \* bound on the connection attempts of a behaviour

VARIABLES socket,        \* this->socket, 0 for nullptr
          is_connected,
          thread,        \* the receiver this->thread stands for, 0: not joinable
          receiver,      \* where each receiver is
          on,            \* which socket it has called recv() on
          handler,       \* what rx_callback does
          made,          \* how many sockets were created
          limbo,         \* sockets a job is going to close and delete
          closed,        \* sockets closed (fd is -1)
          deleted,       \* sockets deleted
          awaits,        \* the socket whose job a receiver, or the user (at 0), awaits
          user,          \* where the user is
          aborted        \* an assertion failed or a std::thread was misused

vars == <<socket, is_connected, thread, receiver, on, handler, made, limbo,
          closed, deleted, awaits, user, aborted>>

Ids == 1..MaxSockets
UserPlaces == {"idle", "connect", "tcp", "upgrade", "drop", "up", "closing",
               "waiting"}
ReceiverPlaces == {"none", "check", "call", "recv", "callback", "close_frame",
                   "waiting", "exited"}

Init ==
  /\ socket = 0 /\ is_connected = FALSE /\ thread = 0
  /\ receiver = [r \in Ids |-> "none"] /\ on = [r \in Ids |-> 0]
  /\ handler = "none"
  /\ made = 0 /\ limbo = {} /\ closed = {} /\ deleted = {}
  /\ awaits = [a \in 0..MaxSockets |-> 0]
  /\ user = "connect"
  /\ aborted = FALSE

Abort == /\ aborted' = TRUE
         /\ UNCHANGED <<socket, is_connected, thread, receiver, on, handler, made,
                        limbo, closed, deleted, awaits, user>>

-----------------------------------------------------------------------------
(* Socket::connect and WebSocket::connect, one attempt *)

\* assert(this->socket == nullptr), then a new socket.
Create ==
  /\ user = "connect"
  /\ \/ socket # 0 /\ Abort
     \/ /\ socket = 0 /\ made < MaxSockets
        /\ made' = made + 1
        /\ socket' = made + 1
        /\ user' = "tcp"
        /\ UNCHANGED <<is_connected, thread, receiver, on, handler, limbo, closed,
                       deleted, awaits, aborted>>

\* The socket is closed, but not deleted nor set to null.
TcpFails ==
  /\ user = "tcp"
  /\ is_connected' = FALSE
  /\ closed' = closed \cup {socket}
  /\ user' = "connect"
  /\ UNCHANGED <<socket, thread, receiver, on, handler, made, limbo, deleted, awaits, aborted>>

\* setup_receiver assigns a new thread to this->thread; the websocket waits
\* for the answer to its upgrade request.
TcpSucceeds ==
  /\ user = "tcp"
  /\ \/ thread # 0 /\ Abort
     \/ /\ thread = 0
        /\ is_connected' = TRUE
        /\ thread' = socket
        /\ receiver' = [receiver EXCEPT ![socket] = "check"]
        /\ handler' = "upgrade"
        /\ user' = "upgrade"
        /\ UNCHANGED <<socket, on, made, limbo, closed, deleted, awaits, aborted>>

Upgraded ==
  /\ user = "upgrade"
  /\ handler' = "frames"
  /\ user' = "up"
  /\ UNCHANGED <<socket, is_connected, thread, receiver, on, made, limbo, closed,
                 deleted, awaits, aborted>>

\* No answer, or the wrong one: the first part of Socket::disconnect.
UpgradeFails ==
  /\ user = "upgrade"
  /\ is_connected' = FALSE
  /\ handler' = "none"
  /\ user' = "drop"
  /\ UNCHANGED <<socket, thread, receiver, on, made, limbo, closed, deleted, awaits, aborted>>

\* Socket::disconnect once the receiver can be joined.
Drop ==
  /\ user = "drop"
  /\ thread # 0 => receiver[thread] = "exited"
  /\ thread' = 0
  /\ socket' = 0
  /\ closed' = closed \cup ({socket} \ {0})
  /\ deleted' = deleted \cup ({socket} \ {0})
  /\ user' = "connect"
  /\ UNCHANGED <<is_connected, receiver, on, handler, made, limbo, awaits, aborted>>

-----------------------------------------------------------------------------
(* Disconnecting *)

\* Mutant: the pointer is not cleared.
KeepPointer(caller) ==
  /\ is_connected' = FALSE /\ handler' = "none"
  /\ limbo' = limbo \cup ({socket} \ {0}) /\ thread' = 0
  /\ awaits' = [awaits EXCEPT ![caller] = socket]
  /\ UNCHANGED <<socket, on, made, closed, deleted, aborted>>

\* Socket::force_disconnect, called where the thread is still attached.  The
\* future of the job is a temporary that is not discarded: its destructor makes
\* the caller wait for the job.
ForceDisconnect(caller) ==
  /\ thread # 0
  /\ thread' = 0
  /\ is_connected' = FALSE /\ handler' = "none"
  /\ limbo' = limbo \cup ({socket} \ {0}) /\ socket' = 0
  /\ awaits' = [awaits EXCEPT ![caller] = socket]
  /\ UNCHANGED <<on, made, closed, deleted, aborted>>

\* Detaching a thread that was detached before terminates the process.
DetachAgain == thread = 0 /\ Abort

\* WebSocket::disconnect: nothing to do, or send CLOSE and wait a moment for
\* the answer.
Disconnect ==
  /\ user = "up"
  /\ IF is_connected THEN user' = "closing" /\ handler' = "closing"
                     ELSE user' = "connect" /\ UNCHANGED handler
  /\ UNCHANGED <<socket, is_connected, thread, receiver, on, made, limbo, closed,
                 deleted, awaits, aborted>>

FinishDisconnect ==
  /\ user = "closing"
  /\ \/ DetachAgain
     \/ ForceDisconnect(0) /\ user' = "waiting" /\ UNCHANGED receiver

Awaited(a) == awaits[a] # 0 => awaits[a] \in deleted

Disconnected ==
  /\ user = "waiting" /\ Awaited(0)
  /\ user' = "connect"
  /\ UNCHANGED <<socket, is_connected, thread, receiver, on, handler, made, limbo,
                 closed, deleted, awaits, aborted>>

\* A receiver outside its callback that last read from n, or is about to start.
Occupied(n) ==
  \E r \in Ids : /\ receiver[r] \in {"check", "call", "recv"}
                 /\ n = IF on[r] = 0 THEN r ELSE on[r]

\* Mutant: the job waits for the receiver to end instead of sleeping.
DeferredCloseJoins(n) ==
  /\ n \in limbo
  /\ receiver[n] = "exited"
  /\ limbo' = limbo \ {n}
  /\ closed' = closed \cup {n} /\ deleted' = deleted \cup {n}
  /\ UNCHANGED <<socket, is_connected, thread, receiver, on, handler, made, awaits, user, aborted>>

\* Mutant: the job deletes the socket and does not close it.
DeferredDelete(n) ==
  /\ n \in limbo
  /\ ~Occupied(n)
  /\ limbo' = limbo \ {n} /\ deleted' = deleted \cup {n}
  /\ UNCHANGED <<socket, is_connected, thread, receiver, on, handler, made, closed, awaits, user, aborted>>

\* The job sleeps for twice the receive timeout: by then a recv() that was under
\* way on the socket, or about to start, has returned and the loop has ended.  A
\* callback takes as long as it likes.
DeferredClose(n) ==
  /\ n \in limbo
  /\ ~Occupied(n)
  /\ limbo' = limbo \ {n}
  /\ closed' = closed \cup {n} /\ deleted' = deleted \cup {n}
  /\ UNCHANGED <<socket, is_connected, thread, receiver, on, handler, made, awaits, user, aborted>>

-----------------------------------------------------------------------------
(* The loop of a receiver thread *)

ReceiverGoes(r, place) ==
  /\ receiver' = [receiver EXCEPT ![r] = place]
  /\ UNCHANGED <<socket, is_connected, thread, handler, made, limbo, closed,
                 deleted, awaits, user, aborted>>

\* The test at the top of the loop.
Check(r) ==
  /\ receiver[r] = "check"
  /\ IF is_connected /\ socket # 0 /\ socket \notin closed
     THEN ReceiverGoes(r, "call") /\ on' = [on EXCEPT ![r] = socket]
     ELSE ReceiverGoes(r, "exited") /\ UNCHANGED on

\* The call reads this->socket again, without synchronisation: it may see the
\* pointer that was tested or the one another thread has stored since, and a
\* null one is the end of the process.
CallRecv(r) ==
  /\ receiver[r] = "call"
  /\ \/ ReceiverGoes(r, "recv") /\ UNCHANGED on
     \/ socket # 0 /\ ReceiverGoes(r, "recv") /\ on' = [on EXCEPT ![r] = socket]
     \/ socket = 0 /\ Abort

\* recv() times out, fails or finds the end of the stream, or brings data.
RecvReturns(r) ==
  /\ receiver[r] = "recv"
  /\ \/ is_connected /\ (ReceiverGoes(r, "check") \/ ReceiverGoes(r, "callback"))
     \/ ReceiverGoes(r, "exited")
  /\ UNCHANGED on

\* rx_callback: only the frame handler does anything to the socket, when the
\* frame is a CLOSE.
Callback(r) ==
  /\ receiver[r] = "callback"
  /\ \/ ReceiverGoes(r, "check")
     \/ handler = "frames" /\ ReceiverGoes(r, "close_frame")
  /\ UNCHANGED on

\* handle_frame answers the CLOSE and drops the socket from this thread.
CloseFrame(r) ==
  /\ receiver[r] = "close_frame"
  /\ \/ DetachAgain
     \/ /\ ForceDisconnect(r)
        /\ receiver' = [receiver EXCEPT ![r] = "waiting"]
        /\ UNCHANGED user

FrameHandled(r) ==
  /\ receiver[r] = "waiting" /\ Awaited(r)
  /\ ReceiverGoes(r, "check")
  /\ UNCHANGED on

ReceiverStep(r) == Check(r) \/ CallRecv(r) \/ RecvReturns(r) \/ Callback(r)
                   \/ CloseFrame(r) \/ FrameHandled(r)
UserStep == Create \/ TcpFails \/ TcpSucceeds \/ Upgraded \/ UpgradeFails \/ Drop
            \/ Disconnect \/ FinishDisconnect \/ Disconnected

Next == /\ ~aborted
        /\ \/ UserStep
           \/ \E r \in Ids : ReceiverStep(r)
           \/ \E n \in Ids : DeferredClose(n)

Spec == Init /\ [][Next]_vars

\* The threads are scheduled, recv() has a timeout, a sleeping job wakes up, and
\* a join returns once the thread it waits for has ended.  Nothing makes the
\* user connect or the server answer.
Fairness == /\ \A r \in Ids : WF_vars(~aborted /\ ReceiverStep(r))
            /\ \A n \in Ids : WF_vars(~aborted /\ DeferredClose(n))
            /\ WF_vars(~aborted /\ (Drop \/ FinishDisconnect \/ Disconnected))

FairSpec == Spec /\ Fairness

-----------------------------------------------------------------------------
(* Properties *)

\* Type invariant of the connection state.
TypeOK ==
  /\ socket \in 0..MaxSockets /\ thread \in 0..MaxSockets /\ made \in 0..MaxSockets
  /\ is_connected \in BOOLEAN /\ aborted \in BOOLEAN
  /\ receiver \in [Ids -> ReceiverPlaces] /\ on \in [Ids -> 0..MaxSockets]
  /\ handler \in {"none", "upgrade", "frames", "closing"} /\ user \in UserPlaces
  /\ awaits \in [0..MaxSockets -> 0..MaxSockets]
  /\ limbo \subseteq Ids /\ deleted \subseteq closed /\ closed \subseteq Ids

\* Every socket that connect() allocated is this->socket, or waits for the job
\* that deletes it, or was deleted, and never two of these: across failed
\* upgrades, orderly disconnects and CLOSE frames none leaks and none is
\* deleted twice.
EachSocketOwnedOnce ==
  /\ 1..made = ({socket} \ {0}) \cup limbo \cup deleted
  /\ socket \notin limbo \cup deleted
  /\ limbo \cap deleted = {}

\* A receiver's own socket is open for as long as it is in recv() on it,
\* however the connection ends (force_disconnect defers the closing, disconnect
\* joins first).
OwnSocketOpen == \A r \in Ids : receiver[r] = "recv" /\ on[r] = r => r \notin closed

\* A socket is disposed of once, and not while its receiver needs it.
SocketsDisposedOfOnce == EachSocketOwnedOnce /\ OwnSocketOpen

\* A disconnect ends, the orderly one that joins the receiver and the forced one
\* that waits for the closing job: the receiver leaves its loop.
DisconnectEnds == user \in {"drop", "closing", "waiting"} ~> (user = "connect" \/ aborted)

\* A receiver that handled a CLOSE frame, and so waits for a job that waits for
\* receivers, ends or goes on with the next connection.
CloseFrameEnds ==
  \A r \in Ids : receiver[r] = "waiting" ~> (receiver[r] # "waiting" \/ aborted)

\* However a connection comes to its end, nobody waits for it for ever.
DisconnectsEnd == DisconnectEnds /\ CloseFrameEnds

\* "must join the thread before closing the socket, if not we risk closing the
\* socket from under the recv() call" (socket.cpp:165).  Does not hold: a receiver
\* that was detached can come back to the loop after the next connect(), read the
\* new socket, and is not the one that disconnect() joins.
NotClosedUnderRecv ==
  \A r \in Ids : receiver[r] = "recv" => on[r] \notin deleted
=============================================================================
