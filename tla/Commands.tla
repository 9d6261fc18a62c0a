------------------------------ MODULE Commands ------------------------------
(***************************************************************************)
(* Chat messages that run, define and change commands (commands/command.cpp*)
(* and the builtin commands of interp/builtin.cpp), on the threads of      *)
(* several backends at once, beside a sync of the database.                *)
(*                                                                         *)
(* A command object is the number of its creation.  An action that looks   *)
(* at shared state under a lock is one critical section; a lock is a       *)
(* variable only where it is held while another one is awaited.  An        *)
(* expression is the name that it mentions: what an earlier stage piped    *)
(* into it is left out.  After an undefined operation or a failed assertion*)
(* nothing more is modelled.                                               *)
(***************************************************************************)
EXTENDS Naturals, Sequences, Functions, PermissionSets

CONSTANTS Threads,       \* the threads that process messages
          Inputs,        \* messages: who sends it, and its pipeline of stages
          given,         \* user -> the flags the database has for him
          Aliases,       \* the aliases the database was loaded with
          DefaultPerms,  \* getDefaultBuiltinPermissions()
          MaxMessages, MaxObjects, MaxSyncs  \* bounds on a behaviour

VARIABLES commands,     \* name -> object
          aliases,
          builtinCommandPermissions,
          globals,      \* names of the globals that were added
          on_message,   \* the functions in the global list __on_message
          kind,         \* object -> "macro" or "function", of all ever created
          perms,        \* object -> permission set
          body,         \* object -> the name its code mentions, "" for none
          live,         \* the objects that are not deleted
          pc, msg,      \* where a thread is, and what is left of its message
          command,      \* the object a thread found
          checked,      \* history: objects its user was allowed, for this message
          ran,          \* history: <<what was evaluated, what ran in that>> for it
          writer,       \* who holds the interpreter's write lock over a step
          syncing,      \* the sync holds the database's read lock
          messages, syncs,  \* how many there were
          stopped       \* "", "undefined" or "aborted"

shared == <<commands, aliases, builtinCommandPermissions, globals, on_message, kind, perms, body,
            live>>
local == <<pc, msg, command, checked, ran>>
rest == <<writer, syncing, messages, syncs, stopped>>
vars == <<shared, local, rest>>

Free == "free"
NoMessage == [user |-> "", stages |-> <<>>]
Builtins == {"def", "defun", "redef", "undef", "chmod", "global", "eval", "showmod"}

Init ==
  /\ commands = <<>> /\ aliases = Aliases /\ builtinCommandPermissions = DefaultPerms
  /\ globals = {} /\ on_message = {} /\ live = {}
  /\ kind = <<>> /\ perms = <<>> /\ body = <<>>
  /\ pc = [t \in Threads |-> "idle"] /\ msg = [t \in Threads |-> NoMessage]
  /\ command = [t \in Threads |-> 0]
  /\ checked = [t \in Threads |-> {}] /\ ran = [t \in Threads |-> {}]
  /\ writer = Free /\ syncing = FALSE /\ messages = 0 /\ syncs = 0 /\ stopped = ""

Without(map, key) == Restrict(map, DOMAIN map \ {key})
Put(map, key, value) == [k \in {key} \cup DOMAIN map |-> IF k = key THEN value ELSE map[k]]

\* findCommand: aliases chain, and a circle of them finds nothing.  Find[seen] is
\* what a search finds that has been through some of what the aliases mean.
Find[seen \in SUBSET Range(Aliases)] ==
  [name \in STRING |->
     IF name \in DOMAIN commands THEN commands[name]
     ELSE IF name \notin DOMAIN aliases \/ aliases[name] \in seen THEN 0
     ELSE Find[seen \cup {aliases[name]}][aliases[name]]]
findCommand(name) == Find[{}][name]

Stage(t) == Head(msg[t].stages)
User(t) == msg[t].user
Goto(t, place) == pc' = [pc EXCEPT ![t] = place]
At(t, place) == pc[t] = place /\ stopped = ""

\* Both kinds of lock of the interpreter are to be had.
Unlocked == writer = Free

\* A sync has the database's lock, and a thread waits for it to write: whether a
\* reader gets past that one is up to the library's std::shared_mutex.
HeldBack == syncing /\ \E t \in Threads : pc[t] = "creds"

\* process_command: the stage is over, whatever came of it, and the next one is
\* next; the answer to the last is sent.
EndStage(t) ==
  /\ msg' = [msg EXCEPT ![t] = IF Len(@.stages) > 1
                               THEN [user |-> @.user, stages |-> Tail(@.stages)]
                               ELSE NoMessage]
  /\ Goto(t, IF Len(msg[t].stages) > 1 THEN "find" ELSE "idle")
  /\ command' = [command EXCEPT ![t] = 0]

\* A pointer to a deleted object is followed.
Dangles(t) == command[t] \notin live
locksAndCounts == <<writer, syncing, messages, syncs>>
Stop(how) == stopped' = how /\ UNCHANGED <<shared, local, locksAndCounts>>
Undefined == Stop("undefined")

\* resolveVariable: a global hides a command, and nobody asks for permissions.
Meaning(name) == IF name \in globals THEN {} ELSE {findCommand(name)} \ {0}

\* What an expression that mentions a name can call, and what that calls in turn.
Reached(name) ==
  LET Closed(objects) == /\ Meaning(name) \subseteq objects
                         /\ \A o \in objects : Meaning(body[o]) \subseteq objects
  IN {o \in live : \A objects \in SUBSET live : Closed(objects) => o \in objects}

\* The evaluation of an expression, for an object or, with 0, for eval: it calls
\* what it mentions, or appends it to the handlers.  Their list shares the object,
\* which it does not own.
Evaluate(t, for, name, itself) ==
  \/ /\ ran' = [ran EXCEPT ![t] = @ \cup ({for} \X (itself \cup Reached(name)))]
     /\ UNCHANGED on_message
  \/ /\ Meaning(name) # {} /\ on_message' = on_message \cup Meaning(name)
     /\ ran' = [ran EXCEPT ![t] = @ \cup ({for} \X itself)]

-----------------------------------------------------------------------------
(* A message *)

\* The backend asks for the database's write lock, for update_user_creds.
Receive(t, m) ==
  /\ At(t, "idle") /\ messages < MaxMessages
  /\ messages' = messages + 1
  /\ msg' = [msg EXCEPT ![t] = m]
  /\ Goto(t, "creds")
  /\ checked' = [checked EXCEPT ![t] = {}] /\ ran' = [ran EXCEPT ![t] = {}]
  /\ UNCHANGED <<shared, command, writer, syncing, syncs, stopped>>

\* processMessage: what starts with a prefix is a pipeline; what does not goes to
\* the handlers.
Creds(t) ==
  /\ At(t, "creds") /\ ~syncing
  /\ Goto(t, IF msg[t].stages = <<>> THEN "handlers" ELSE "find")
  /\ UNCHANGED <<shared, msg, command, checked, ran, rest>>

\* The handlers run for a user that nothing was asked about.
RunHandlers(t) ==
  /\ At(t, "handlers") /\ Unlocked
  /\ \/ on_message \subseteq live /\ Goto(t, "idle") /\ msg' = [msg EXCEPT ![t] = NoMessage]
        /\ on_message' \in {on_message} \cup {on_message \cup Meaning(body[o]) : o \in on_message}
        /\ UNCHANGED <<commands, aliases, builtinCommandPermissions, globals, kind, perms, body,
                       live, command, checked, ran, rest>>
     \/ ~ (on_message \subseteq live) /\ Undefined

FindStage(t) ==
  /\ At(t, "find") /\ Unlocked
  /\ LET found == findCommand(Stage(t).cmd)
     IN /\ command' = [command EXCEPT ![t] = found]
        /\ Goto(t, IF found # 0 THEN "check" ELSE "builtin")
  /\ UNCHANGED <<shared, msg, checked, ran, rest>>

\* The permissions are read outside the lock, and the user's from the database.
\* The arguments of a macro are expanded, and those of a function before "|...>".
CheckStage(t) ==
  /\ At(t, "check")
  /\ \/ Dangles(t) /\ Undefined
     \/ /\ ~Dangles(t)
        /\ IF check(perms[command[t]], given[User(t)], {})
           THEN /\ \/ /\ kind[command[t]] = "macro" \/ Len(msg[t].stages) > 1
                      /\ Goto(t, "expand")
                   \/ kind[command[t]] = "function" /\ Goto(t, "run")
                /\ checked' = [checked EXCEPT ![t] = @ \cup {command[t]}]
                /\ UNCHANGED <<msg, command>>
           ELSE EndStage(t) /\ UNCHANGED checked
        /\ UNCHANGED <<shared, ran, rest>>

unexpressed == <<commands, aliases, builtinCommandPermissions, globals, kind, perms, body, live>>

Expand(t) ==
  /\ At(t, "expand") /\ Unlocked
  /\ Evaluate(t, command[t], Stage(t).expr, {})
  /\ Goto(t, "run")
  /\ UNCHANGED <<unexpressed, msg, command, checked, rest>>

\* Mutant: the command is looked up again to be run.
RunFoundAgain(t) ==
  /\ At(t, "run") /\ Unlocked
  /\ LET found == findCommand(Stage(t).cmd)
     IN /\ found # 0 /\ Evaluate(t, found, body[found], {found})
  /\ EndStage(t)
  /\ UNCHANGED <<unexpressed, checked, rest>>

\* A function may fail, and the failure of one that is piped is unwrapped.
Run(t) ==
  /\ At(t, "run") /\ Unlocked
  /\ \/ Dangles(t) /\ Undefined
     \/ /\ ~Dangles(t)
        /\ Evaluate(t, command[t], body[command[t]], {command[t]})
        /\ EndStage(t)
        /\ UNCHANGED <<unexpressed, checked, rest>>
     \/ ~Dangles(t) /\ kind[command[t]] = "function" /\ Len(msg[t].stages) > 1 /\ Stop("aborted")

-----------------------------------------------------------------------------
(* The builtin commands; the target of one is its argument *)

Target(t) == Stage(t).arg
PermsOf(cmd) == IF cmd \in DOMAIN builtinCommandPermissions
                THEN builtinCommandPermissions[cmd] ELSE NoPermissions

\* run_builtin_command: nothing happens for a word that means nothing.
Builtin(t) ==
  /\ At(t, "builtin") /\ Unlocked
  /\ IF /\ Stage(t).cmd \in Builtins
        /\ check(PermsOf(Stage(t).cmd), given[User(t)], {})
     THEN /\ Goto(t, Stage(t).cmd) /\ UNCHANGED <<msg, command>>
          /\ checked' = [checked EXCEPT ![t] = IF Stage(t).cmd = "eval" THEN @ \cup {0} ELSE @]
     ELSE EndStage(t) /\ UNCHANGED checked
  /\ UNCHANGED <<shared, ran, rest>>

\* internal_def looks first, and again through emplace: of two threads one
\* defines the name, and both say so.
DefFind(t) ==
  /\ \E b \in {"def", "defun"} : At(t, b)
  /\ Unlocked
  /\ IF findCommand(Target(t)) = 0
     THEN Goto(t, "emplace") /\ UNCHANGED <<msg, command>> ELSE EndStage(t)
  /\ UNCHANGED <<shared, checked, ran, rest>>

\* The Function constructor leaves the permissions empty.
New(t) == IF Stage(t).cmd = "def" THEN [kind |-> "macro", perms |-> fromFlags({"EVERYONE"})]
          ELSE [kind |-> "function", perms |-> NoPermissions]

DefEmplace(t) ==
  /\ At(t, "emplace") /\ Unlocked /\ Len(kind) < MaxObjects
  /\ kind' = Append(kind, New(t).kind) /\ perms' = Append(perms, New(t).perms)
  /\ body' = Append(body, Stage(t).expr)
  /\ live' = live \cup {Len(kind')}
  /\ commands' = IF Target(t) \in DOMAIN commands THEN commands
                 ELSE Put(commands, Target(t), Len(kind'))
  /\ EndStage(t)
  /\ UNCHANGED <<aliases, builtinCommandPermissions, globals, on_message, checked, ran, rest>>

\* What redef and chmod do to a command that they looked up under the lock: only
\* a macro has code to be set, and the groups that chmod parses are looked up in
\* the database.
FindTarget(t) ==
  /\ At(t, "redef") \/ (At(t, "chmod") /\ Target(t) \notin Builtins)
  /\ Unlocked
  /\ IF findCommand(Target(t)) = 0 THEN EndStage(t)
     ELSE /\ command' = [command EXCEPT ![t] = findCommand(Target(t))]
          /\ Goto(t, "change") /\ UNCHANGED msg
  /\ UNCHANGED <<shared, checked, ran, rest>>

ChangeTarget(t) ==
  /\ At(t, "change")
  /\ \/ Dangles(t) /\ Undefined
     \/ /\ ~Dangles(t)
        /\ perms' = [perms EXCEPT ![command[t]] =
             IF Stage(t).cmd = "chmod" THEN parse(Stage(t).flags, FALSE, <<>>, @) ELSE @]
        /\ body' = [body EXCEPT ![command[t]] =
             IF Stage(t).cmd = "redef" /\ kind[command[t]] = "macro" THEN Stage(t).expr ELSE @]
        /\ EndStage(t)
        /\ UNCHANGED <<commands, aliases, builtinCommandPermissions, globals, on_message, kind,
                       live, checked, ran, rest>>

\* The permissions of a builtin are parsed under the interpreter's lock, with the
\* groups looked up in the database.
ChmodBuiltin(t) ==
  /\ At(t, "chmod") /\ Target(t) \in Builtins /\ Unlocked
  /\ writer' = t /\ Goto(t, "parse")
  /\ UNCHANGED <<shared, msg, command, checked, ran, syncing, messages, syncs, stopped>>

\* Mutant: the groups are looked up for writing.
ParseLocksForWriting(t) ==
  /\ At(t, "parse") /\ ~syncing
  /\ writer' = Free
  /\ EndStage(t)
  /\ UNCHANGED <<shared, checked, ran, syncing, messages, syncs, stopped>>

ChmodParse(t) ==
  /\ At(t, "parse")
  /\ builtinCommandPermissions' =
       Put(builtinCommandPermissions, Target(t),
           parse(Stage(t).flags, FALSE, <<>>, PermsOf(Target(t))))
  /\ writer' = Free
  /\ EndStage(t)
  /\ UNCHANGED <<commands, aliases, globals, on_message, kind, perms, body, live, checked,
                 ran, syncing, messages, syncs, stopped>>

\* removeCommandOrAlias, with the object gone, or the alias.
UndefCommand(t) ==
  /\ At(t, "undef") /\ Unlocked
  /\ IF Target(t) \in DOMAIN commands
     THEN /\ live' = live \ {commands[Target(t)]}
          /\ commands' = Without(commands, Target(t)) /\ UNCHANGED aliases
     ELSE aliases' = Without(aliases, Target(t)) /\ UNCHANGED <<live, commands>>
  /\ IF Target(t) \in DOMAIN commands \cup DOMAIN aliases
     THEN EndStage(t) ELSE Goto(t, "global_gone") /\ UNCHANGED <<msg, command>>
  /\ UNCHANGED <<builtinCommandPermissions, globals, on_message, kind, perms, body, checked,
                 ran, rest>>

\* addGlobal, and removeGlobal as the second thing undef tries.
ChangeGlobal(t) ==
  /\ At(t, "global") \/ At(t, "global_gone")
  /\ Unlocked
  /\ globals' = IF pc[t] = "global" THEN globals \cup {Target(t)} ELSE globals \ {Target(t)}
  /\ EndStage(t)
  /\ UNCHANGED <<commands, aliases, builtinCommandPermissions, on_message, kind, perms, body,
                 live, checked, ran, rest>>

\* Any expression, for whoever may eval.
Eval(t) ==
  /\ At(t, "eval") /\ Unlocked
  /\ Evaluate(t, 0, Stage(t).expr, {})
  /\ EndStage(t)
  /\ UNCHANGED <<unexpressed, checked, rest>>

\* The permissions of a builtin that has none are not there to be shown.
Showmod(t) ==
  /\ At(t, "showmod") /\ Unlocked
  /\ \/ Target(t) \in Builtins \ DOMAIN builtinCommandPermissions /\ Stop("aborted")
     \/ /\ Target(t) \notin Builtins \ DOMAIN builtinCommandPermissions
        /\ EndStage(t)
        /\ UNCHANGED <<shared, checked, ran, rest>>

-----------------------------------------------------------------------------
(* The sync: DbInterpState::serialise wants the interpreter's lock *)

SyncStart == /\ ~syncing /\ syncs < MaxSyncs /\ stopped = ""
             /\ syncing' = TRUE /\ syncs' = syncs + 1
             /\ UNCHANGED <<shared, local, writer, messages, stopped>>

SyncEnd == /\ syncing /\ Unlocked /\ stopped = ""
           /\ syncing' = FALSE
           /\ UNCHANGED <<shared, local, writer, messages, syncs, stopped>>

Step(t) ==
  \/ Creds(t) \/ RunHandlers(t) \/ FindStage(t) \/ CheckStage(t) \/ Expand(t) \/ Run(t)
  \/ Builtin(t) \/ DefFind(t) \/ DefEmplace(t) \/ FindTarget(t) \/ ChangeTarget(t)
  \/ ChmodBuiltin(t) \/ ChmodParse(t) \/ UndefCommand(t) \/ ChangeGlobal(t) \/ Eval(t)
  \/ Showmod(t)

Next == \/ \E t \in Threads : Step(t) \/ \E m \in Inputs : Receive(t, m)
        \/ SyncStart \/ SyncEnd

Spec == Init /\ [][Next]_vars

\* Where a thread reads the database: for its user's groups, and for those that
\* chmod names.
ReadsDatabase(t) == \/ pc[t] \in {"check", "builtin", "parse"}
                    \/ pc[t] = "change" /\ Stage(t).cmd = "chmod"

\* The threads are scheduled, and so is the one that saves; nobody promises a
\* reader that it gets past a writer.
Fairness == /\ \A t \in Threads : WF_vars(Step(t) /\ (ReadsDatabase(t) => ~HeldBack))
            /\ WF_vars(SyncEnd)

FairSpec == Spec /\ Fairness

-----------------------------------------------------------------------------
TypeOK ==
  /\ DOMAIN perms = DOMAIN kind /\ DOMAIN body = DOMAIN kind /\ live \subseteq DOMAIN kind
  /\ Range(commands) \subseteq live
  /\ \A t \in Threads : command[t] \in 0..Len(kind) /\ checked[t] \subseteq 0..Len(kind)
  /\ writer \in Threads \cup {Free} /\ stopped \in {"", "undefined", "aborted"}

\* Between the check of a stage and its run, other threads remove, redefine and
\* chmod what its name means: what is evaluated, its arguments, its own code or an
\* eval, is still what its user was allowed at a moment since his message came.
\* What that calls in turn is not checked, and neither are the handlers.
RunsWhatWasChecked == \A t \in Threads : \A e \in ran[t] : e[1] \in checked[t]

\* The write lock of a builtin's chmod, the read lock of the sync and the wait for
\* the database's write lock hold each other up.
Deadlock == HeldBack /\ writer # Free

\* chmod waits for the database under the interpreter's lock, and a sync for the
\* interpreter under the database's: unless those two and a thread that waits to
\* write to the database deadlock for ever, every message is dealt with.
MessagesEnd ==
  \/ <>[]Deadlock
  \/ \A t \in Threads : (pc[t] # "idle") ~> (pc[t] = "idle" \/ stopped # "")
=============================================================================
