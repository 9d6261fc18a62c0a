---------------------------- MODULE ThreadParts ----------------------------
(***************************************************************************)
(* Threads that hand things to each other: a MessageQueue between          *)
(* producers and consumers, the receivers of the sockets beside the thread *)
(* that connects, and the threads that process messages beside the one     *)
(* that saves.  The parts share no state, so a behaviour is one of one     *)
(* part; the others stay as they are at first.                             *)
(***************************************************************************)
EXTENDS WaitQueue

\* Of SocketLifecycle and of Commands.
CONSTANTS MaxSockets, Threads, Inputs, given, Aliases, DefaultPerms, MaxMessages, MaxObjects,
          MaxSyncs

VARIABLES part,
          socket, is_connected, thread, receiver, on, handler, made, limbo, closed, deleted,
          awaits, user, aborted,
          commands, aliases, builtinCommandPermissions, globals, on_message, kind, perms,
          body, live, pc, msg, command, checked, ran, writer, syncing, messages, syncs,
          stopped

Sockets == INSTANCE SocketLifecycle
Messages == INSTANCE Commands

socketVars == <<socket, is_connected, thread, receiver, on, handler, made, limbo, closed,
                deleted, awaits, user, aborted>>
commandVars == <<commands, aliases, builtinCommandPermissions, globals, on_message, kind,
                 perms, body, live, pc, msg, command, checked, ran, writer, syncing,
                 messages, syncs, stopped>>
allVars == <<part, vars, socketVars, commandVars>>

PartsInit == part \in {"queue", "sockets", "commands"} /\ Init /\ Sockets!Init /\ Messages!Init

PartsNext ==
  \/ part = "queue" /\ Next /\ UNCHANGED <<part, socketVars, commandVars>>
  \/ part = "sockets" /\ Sockets!Next /\ UNCHANGED <<part, vars, commandVars>>
  \/ part = "commands" /\ Messages!Next /\ UNCHANGED <<part, vars, socketVars>>

\* The fairness of the parts.  Where the sockets and the commands begin, it asks
\* for nothing; the consumers of an idle queue would go and wait.
PartsFairness ==
  /\ \A p \in Producers : WF_vars(part = "queue" /\ Announcing(p))
  /\ \A c \in Consumers : WF_vars(part = "queue" /\ Consuming(c))
  /\ Sockets!Fairness /\ Messages!Fairness

PartsSpec == PartsInit /\ [][PartsNext]_allVars
FairPartsSpec == PartsSpec /\ PartsFairness

-----------------------------------------------------------------------------
(* The properties of the parts, stated in their modules *)

\* The type invariants of the sockets and the commands.
PartsTypeOK == Sockets!TypeOK /\ Messages!TypeOK

\* No socket leaks, is deleted twice or closed under its receiver (SocketLifecycle).
SocketsDisposedOfOnce == Sockets!SocketsDisposedOfOnce

\* Nobody waits for a disconnection for ever (SocketLifecycle).
DisconnectsEnd == Sockets!DisconnectsEnd

\* What is evaluated for a user is what he was allowed (Commands).
RunsWhatWasChecked == Messages!RunsWhatWasChecked

\* Every message is dealt with, but for one deadlock (Commands).
MessagesEnd == Messages!MessagesEnd
=============================================================================
