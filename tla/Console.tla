------------------------------- MODULE Console -------------------------------
(***************************************************************************)
(* The sessions of the console (console/console.cpp, with the sockets of   *)
(* network/socket.cpp that were accepted): the main thread accepts and     *)
(* authenticates them, a receiver thread each runs what they say, and a    *)
(* reaper deletes what a receiver cannot delete itself; the standard input *)
(* is a session without a socket.                                          *)
(*                                                                         *)
(* The n-th session is n.  A lock of socketBuffers is a variable only for  *)
(* the end, where the main thread keeps it while it joins receivers.  What *)
(* the handlers of authenticate_conn do to its stack frame is left out.    *)
(***************************************************************************)
EXTENDS Naturals, Sequences, Functions

CONSTANT MaxSessions  \* bound on the sessions of a behaviour

VARIABLES connected,        \* State.is_connected
          socketBuffers,    \* the sessions that are in the map
          locked,           \* the main thread holds its write lock
          filtered,         \* the sessions that asked to be sent the log
          danglingSockets,  \* the reaper's queue
          made,             \* how many sessions there have been
          up,               \* sock->is_connected
          handler,          \* what a session's rx_callback does
          receiver,         \* where its thread is
          closed,           \* sockets that are closed: their pointer is null
          deleted,
          main, joining,    \* the main thread, and whose receiver it joins
          reaper, reaped,   \* the reaper, and whom it has popped
          stdin,            \* the thread that reads the standard input
          crashed           \* a null pointer or a deleted object was used

session == <<made, up, handler, receiver, closed, deleted>>
shared == <<connected, socketBuffers, locked, filtered, danglingSockets>>
mainVars == <<main, joining>>
reaperVars == <<reaper, reaped>>
vars == <<shared, session, mainVars, reaperVars, stdin, crashed>>

Ids == 1..MaxSessions
Null == 0

Init ==
  /\ connected = TRUE /\ socketBuffers = {} /\ locked = FALSE /\ filtered = {}
  /\ danglingSockets = <<>> /\ made = 0
  /\ up = [s \in Ids |-> FALSE] /\ handler = [s \in Ids |-> "none"]
  /\ receiver = [s \in Ids |-> "none"]
  /\ closed = {} /\ deleted = {}
  /\ main = "accept" /\ joining = Null
  /\ reaper = "pop" /\ reaped = Null
  /\ stdin = "read" /\ crashed = FALSE

\* The first half of Socket::disconnect; the second waits for the receiver.
Drop(s) == up' = [up EXCEPT ![s] = FALSE] /\ handler' = [handler EXCEPT ![s] = "none"]
Ended(s) == receiver[s] = "ended"

-----------------------------------------------------------------------------
(* The main thread *)

Accept ==
  /\ main = "accept" /\ connected /\ made < MaxSessions
  /\ made' = made + 1
  /\ up' = [up EXCEPT ![made'] = TRUE]
  /\ receiver' = [receiver EXCEPT ![made'] = "recv"]
  /\ socketBuffers' = socketBuffers \cup {made'}
  /\ main' = "authenticate"
  /\ UNCHANGED <<connected, locked, filtered, danglingSockets, handler, closed, deleted,
                 joining, reaperVars, stdin, crashed>>

\* It waits for ten seconds at most, and accepts no other session meanwhile.
Authenticated ==
  /\ main = "authenticate"
  /\ handler' = [handler EXCEPT ![made] = "commands"]
  /\ main' = "accept"
  /\ UNCHANGED <<shared, made, up, receiver, closed, deleted, joining, reaperVars, stdin, crashed>>

AuthenticationFails ==
  /\ main = "authenticate"
  /\ Drop(made) /\ main' = "drop" /\ joining' = made
  /\ UNCHANGED <<shared, made, receiver, closed, deleted, reaperVars, stdin, crashed>>

\* The socket is closed and kill_socket takes it out of the map.
Dropped ==
  /\ main = "drop" /\ Ended(joining)
  /\ closed' = closed \cup {joining}
  /\ socketBuffers' = socketBuffers \ {joining}
  /\ main' = "push"
  /\ UNCHANGED <<connected, locked, filtered, danglingSockets, made, up, handler, receiver,
                 deleted, joining, reaperVars, stdin, crashed>>

Hand ==
  /\ main = "push"
  /\ danglingSockets' = Append(danglingSockets, joining)
  /\ main' = "pushed"
  /\ UNCHANGED <<connected, socketBuffers, locked, filtered, session, joining, reaperVars,
                 stdin, crashed>>

\* kill_socket then uses what the reaper may have deleted.
Handed ==
  /\ main = "pushed"
  /\ crashed' = (joining \in deleted)
  /\ main' = "accept" /\ joining' = Null
  /\ UNCHANGED <<shared, session, reaperVars, stdin>>

\* "kill everything."
Quit ==
  /\ main = "accept" /\ ~connected
  /\ locked' = TRUE /\ main' = "kill"
  /\ UNCHANGED <<connected, socketBuffers, filtered, danglingSockets, session, joining,
                 reaperVars, stdin, crashed>>

Kill(s) ==
  /\ main = "kill" /\ joining = Null /\ s \in socketBuffers \ closed
  /\ Drop(s) /\ joining' = s
  /\ UNCHANGED <<shared, made, receiver, closed, deleted, main, reaperVars, stdin, crashed>>

Killed ==
  /\ main = "kill" /\ joining # Null /\ Ended(joining)
  /\ closed' = closed \cup {joining} /\ joining' = Null
  /\ UNCHANGED <<shared, made, up, handler, receiver, deleted, main, reaperVars, stdin, crashed>>

\* The sessions stay in the map.
AllKilled ==
  /\ main = "kill" /\ socketBuffers \subseteq closed
  /\ locked' = FALSE
  /\ danglingSockets' = Append(danglingSockets, Null)
  /\ main' = "join"
  /\ UNCHANGED <<connected, socketBuffers, filtered, session, joining, reaperVars, stdin, crashed>>

Joined ==
  /\ main = "join" /\ reaper = "ended" /\ stdin = "ended"
  /\ main' = "quit"
  /\ UNCHANGED <<shared, session, joining, reaperVars, stdin, crashed>>

-----------------------------------------------------------------------------
(* The receiver of a session *)

Goto(s, place) == receiver' = [receiver EXCEPT ![s] = place]

\* recv() fails or the session is dropped, or data comes for the handler.
Receive(s) ==
  /\ receiver[s] = "recv"
  /\ \/ Goto(s, "ended")
     \/ up[s] /\ handler[s] = "commands" /\ Goto(s, "find")
  /\ UNCHANGED <<shared, made, up, handler, closed, deleted, mainVars, reaperVars, stdin, crashed>>

\* The handler looks for the session's buffer.
FindBuffer(s) ==
  /\ receiver[s] = "find" /\ ~locked
  /\ Goto(s, IF s \in socketBuffers THEN "command" ELSE "recv")
  /\ UNCHANGED <<shared, made, up, handler, closed, deleted, mainVars, reaperVars, stdin, crashed>>

\* process_command: /stop, /exit, or another one, as that which sets a filter.
Command(s) ==
  /\ receiver[s] = "command"
  /\ \/ Goto(s, "recv") /\ connected' = FALSE /\ UNCHANGED filtered
     \/ Goto(s, "exit") /\ UNCHANGED <<connected, filtered>>
     \/ Goto(s, "recv") /\ filtered' \in {filtered, filtered \cup {s}} /\ UNCHANGED connected
  /\ UNCHANGED <<socketBuffers, locked, danglingSockets, made, up, handler, closed, deleted,
                 mainVars, reaperVars, stdin, crashed>>

\* kill_socket
Exit(s) ==
  /\ receiver[s] = "exit" /\ ~locked
  /\ socketBuffers' = socketBuffers \ {s}
  /\ Goto(s, "push")
  /\ UNCHANGED <<connected, locked, filtered, danglingSockets, made, up, handler, closed,
                 deleted, mainVars, reaperVars, stdin, crashed>>

\* "we can't kill the socket from here (since function will be called from
\* socket's own thread). so, pass it on to someone else."
Pass(s) ==
  /\ receiver[s] = "push"
  /\ danglingSockets' = Append(danglingSockets, s)
  /\ Goto(s, "passed")
  /\ UNCHANGED <<connected, socketBuffers, locked, filtered, made, up, handler, closed,
                 deleted, mainVars, reaperVars, stdin, crashed>>

Passed(s) ==
  /\ receiver[s] = "passed"
  /\ crashed' = (s \in deleted)
  /\ handler' = [handler EXCEPT ![s] = "none"]
  /\ Goto(s, "recv")
  /\ UNCHANGED <<shared, made, up, closed, deleted, mainVars, reaperVars, stdin>>

-----------------------------------------------------------------------------
(* The reaper, the standard input, and the threads that log messages *)

Reap ==
  /\ reaper = "pop" /\ danglingSockets # <<>>
  /\ danglingSockets' = Tail(danglingSockets)
  /\ LET s == Head(danglingSockets)
     IN IF s = Null THEN reaper' = "ended" /\ UNCHANGED <<reaped, up, handler>>
        ELSE reaper' = "join" /\ reaped' = s /\ Drop(s)
  /\ UNCHANGED <<connected, socketBuffers, locked, filtered, made, receiver, closed, deleted,
                 mainVars, stdin, crashed>>

Bury == /\ closed' = closed \cup {reaped} /\ deleted' = deleted \cup {reaped}
        /\ reaper' = "pop" /\ reaped' = Null
        /\ UNCHANGED <<shared, made, up, handler, receiver, mainVars, stdin, crashed>>

\* Mutant: the receiver is not joined first.
BuryAlive == reaper = "join" /\ Bury

Reaped == reaper = "join" /\ Ended(reaped) /\ Bury

\* Its /exit ends the bot, as /stop does.
ReadStdin ==
  /\ stdin = "read"
  /\ \/ connected' = FALSE
     \/ ~connected /\ UNCHANGED connected
  /\ stdin' = "ended"
  /\ UNCHANGED <<socketBuffers, locked, filtered, danglingSockets, session, mainVars,
                 reaperVars, crashed>>

\* logMessage sends to every session that has asked for it.
Log ==
  /\ ~locked /\ socketBuffers \cap filtered \cap closed # {}
  /\ crashed' = TRUE
  /\ UNCHANGED <<shared, session, mainVars, reaperVars, stdin>>

MainStep == \/ Authenticated \/ AuthenticationFails \/ Dropped \/ Hand \/ Handed \/ Quit
            \/ \E s \in Ids : Kill(s) \/ Killed \/ AllKilled \/ Joined
ReceiverStep(s) == Receive(s) \/ FindBuffer(s) \/ Command(s) \/ Exit(s) \/ Pass(s) \/ Passed(s)
ReaperStep == Reap \/ Reaped

Next == /\ ~crashed
        /\ \/ Accept \/ MainStep \/ ReaperStep \/ ReadStdin \/ Log
           \/ \E s \in Ids : ReceiverStep(s)

Spec == Init /\ [][Next]_vars

\* The threads are scheduled, commands and waits end, and the recv() of a session
\* that was dropped returns.  Nobody has to stop the bot, or to log a message.
Fairness ==
  /\ WF_vars(~crashed /\ MainStep) /\ WF_vars(~crashed /\ ReaperStep)
  /\ WF_vars(~crashed /\ ~connected /\ ReadStdin)
  /\ \A s \in Ids : WF_vars(~crashed /\ (~up[s] \/ receiver[s] # "recv") /\ ReceiverStep(s))

FairSpec == Spec /\ Fairness

-----------------------------------------------------------------------------
TypeOK ==
  /\ {connected, locked, crashed} \subseteq BOOLEAN
  /\ socketBuffers \subseteq 1..made /\ filtered \subseteq Ids /\ made \in 0..MaxSessions
  /\ Range(danglingSockets) \subseteq {Null} \cup Ids
  /\ up \in [Ids -> BOOLEAN] /\ handler \in [Ids -> {"none", "commands"}]
  /\ receiver \in [Ids -> {"none", "recv", "find", "command", "exit", "push", "passed", "ended"}]
  /\ deleted \subseteq closed /\ closed \subseteq Ids
  /\ main \in {"accept", "authenticate", "drop", "push", "pushed", "kill", "join", "quit"}
  /\ reaper \in {"pop", "join", "ended"} /\ stdin \in {"read", "ended"}
  /\ {joining, reaped} \subseteq {Null} \cup Ids

\* A session is in the map, or on its way to the reaper, or deleted, and it is
\* deleted when its own thread has ended.
SessionsDisposedOfOnce ==
  \A s \in Ids :
    /\ s \in socketBuffers => s \notin Range(danglingSockets) \cup {reaped} \cup deleted
    /\ s \in deleted => Ended(s) /\ s \notin Range(danglingSockets) \cup {reaped}

\* The main thread joins a receiver that waits for the lock it holds.
JoinsAWaiter == main = "kill" /\ joining # Null /\ receiver[joining] \in {"find", "exit"}

\* "kill the entire bot": the console quits once it was told to, or the process
\* died, or the main thread waits for itself.
StopQuits == ~connected ~> (main = "quit" \/ crashed \/ JoinsAWaiter)
=============================================================================
