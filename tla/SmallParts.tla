----------------------------- MODULE SmallParts -----------------------------
(***************************************************************************)
(* Parts of the bot that share no state: the groups and permissions of the *)
(* users, the buffer that a save is written into, the readers of frames    *)
(* and lines, the dispatcher, the timers of the Discord channels and the   *)
(* sessions of the console.  A behaviour is one of one part; the others    *)
(* stay as they are at first, and all do where a module that extends this  *)
(* one has still other parts.                                              *)
(***************************************************************************)
EXTENDS Naturals, Sequences

\* Of Permissions, Buffers, Readers, ThreadPool, Timers and Console.
CONSTANTS Channels, Users, Names, Restricted, MaxOperations,
          StartCaps, Superblock, Lengths, Kinds, MaxWrites,
          Streams, Room, MaxConnections,
          PoolThreads, Callers, MaxJobs, MaxWaits,
          MaxTimers, MaxSessions

VARIABLES part,
          groups, groupIds, knownUsers, usernames, perms, usermod, granted, disk, undefined,
          operations,
          cap, len, todo, lost, writes,
          reader, messages, phase, sent, from, offset, view, busy, taken, missed, connections,
          jobs, future, waits, thread, job, caller, pool, late,
          active, started, worker, stop, deleted, place, timer,
          connected, socketBuffers, locked, filtered, danglingSockets, made, up, handler,
          receiver, closed, disposed, main, joining, terminator, reaped, stdin, crashed

Perms == INSTANCE Permissions WITH Commands <- Restricted
Buffer == INSTANCE Buffers
Reading == INSTANCE Readers WITH lost <- missed
Pool == INSTANCE ThreadPool WITH Threads <- PoolThreads
Timing == INSTANCE Timers
Sessions == INSTANCE Console WITH deleted <- disposed, reaper <- terminator

permissionVars == <<groups, groupIds, knownUsers, usernames, perms, usermod, granted, disk,
                    undefined, operations>>
bufferVars == <<cap, len, todo, lost, writes>>
readerVars == <<reader, messages, phase, sent, from, offset, view, busy, taken, missed, connections>>
poolVars == <<jobs, future, waits, thread, job, caller, pool, late>>
timerVars == <<active, started, worker, stop, deleted, place, timer>>
consoleVars == <<connected, socketBuffers, locked, filtered, danglingSockets, made, up, handler,
                 receiver, closed, disposed, main, joining, terminator, reaped, stdin, crashed>>
streamVars == <<bufferVars, readerVars>>
threadVars == <<poolVars, timerVars, consoleVars>>
partsVars == <<permissionVars, streamVars, threadVars>>
systemVars == <<part, partsVars>>

SystemParts == {"permissions", "buffer", "reading", "pool", "timers", "console"}

PartsInit == /\ Perms!Init /\ Buffer!Init /\ Reading!Init
             /\ Pool!Init /\ Timing!Init /\ Sessions!Init

PermissionsNext == part = "permissions" /\ Perms!Next /\ UNCHANGED <<part, streamVars, threadVars>>
BufferNext == part = "buffer" /\ Buffer!Next
              /\ UNCHANGED <<part, permissionVars, readerVars, threadVars>>
ReadingNext == part = "reading" /\ Reading!Next
               /\ UNCHANGED <<part, permissionVars, bufferVars, threadVars>>
PoolNext == part = "pool" /\ Pool!Next
            /\ UNCHANGED <<part, permissionVars, streamVars, timerVars, consoleVars>>
TimersNext == part = "timers" /\ Timing!Next
              /\ UNCHANGED <<part, permissionVars, streamVars, poolVars, consoleVars>>
ConsoleNext == part = "console" /\ Sessions!Next
               /\ UNCHANGED <<part, permissionVars, streamVars, poolVars, timerVars>>
PartsNext == \/ PermissionsNext \/ BufferNext \/ ReadingNext
             \/ PoolNext \/ TimersNext \/ ConsoleNext

PartsSpec == PartsInit /\ [][PartsNext]_systemVars

\* The fairness of the parts that have threads, which asks for nothing where they
\* begin.
PartsFairness == Pool!Fairness /\ Timing!Fairness /\ Sessions!Fairness

-----------------------------------------------------------------------------
(* The properties of the parts, stated in their modules *)

\* The type invariants of the readers and of those that have threads.
PartsTypeOK == Reading!TypeOK /\ Pool!TypeOK /\ Timing!TypeOK /\ Sessions!TypeOK

\* Each id means the one group it was granted for (Permissions).
GrantsMeanTheirGroup == Perms!GrantsMeanTheirGroup

\* What is written is whole (Buffers).
NothingIsLost == Buffer!NothingIsLost

\* Frames and lines are handled once and in order (Readers).
EachMessageIsTaken == Reading!EachMessageIsTaken

\* A timer has one owner (Timers), and so has a session (Console), until it is
\* deleted without its thread.
DisposedOfOnce == Timing!OneOwner /\ Sessions!SessionsDisposedOfOnce

\* Jobs are run and the dispatcher comes to its end (ThreadPool), stopped timers go
\* (Timers), and the console quits (Console).
ThreadsEnd == Pool!JobsAreDone /\ Timing!StoppedGoes /\ Sessions!StopQuits
=============================================================================
