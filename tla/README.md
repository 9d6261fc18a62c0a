# A TLA+ model of ikurabot

ikurabot is a chat bot: one process that talks to Twitch (IRC over a
websocket), Discord (a JSON gateway over a websocket, and HTTP), IRC servers
(sockets) and a console, runs commands written in its own script language,
trains a Markov model on what it hears, and keeps everything in one database
file. It is C++17, built without exceptions, and uses about a dozen threads.

This directory holds the specifications, the TLC configurations that check
them and the TLAPS proofs about them. Paths below are relative to
`source/` of the repository.

## 1. Inventory

| Part | State | Operations | Talks to | Hard behaviour | What makes it correct |
|---|---|---|---|---|---|
| Blocking queues `include/synchro.h`, `include/msgqueue.h` | a deque under a mutex, a semaphore, a count of quiet pushes | push, push_quiet, notify_pending, pop | every worker | producers and consumers interleave; notifications outside the mutex; spurious wakeups | no pop of an empty deque, nothing announced twice or never, no lost wakeup, FIFO |
| Synchronised, condvar, thread pool, futures `include/synchro.h`, `include/async.h`, `main.cpp` | a shared mutex and a value; four threads and a job queue | read/write, run, get, discard, then | everything | waiting futures occupy pool threads; jobs after the stop marker are dropped | every future ends; the pool stops |
| Rate limiter `include/rate.h` | tokens, time of the next refill | attempt, next, setters | Twitch and Discord senders | clock and refill arithmetic | never more than the allowance |
| Sockets `network/socket.cpp` | socket object, receiver thread, flag | connect, send, disconnect, force_disconnect, listen, accept | kissnet, the pool | a detached receiver and a deferred close race with the next connection | no leak, no double delete, no use after delete |
| Websockets `network/websocket.cpp` | receive buffer and offset, handlers | upgrade, frames, ping, close | Socket, sessions | frames split and coalesced arbitrarily; close from both sides | frames come out as they were sent |
| HTTP `network/http.cpp`, `network/requests.cpp` | none | get, post, header parsing | cpr/OpenSSL | incomplete headers | header block parsed once complete |
| Twitch session `backends/twitch/twitch.cpp` | websocket, 3 threads, flags, channels | connect, disconnect, workers, reconnect job, shutdown | queues, limiter, pool | workers want the lock the disconnecting thread holds | no deadlock, no stale marker, an outage is repaired |
| Twitch messages `backends/twitch/{message,channel,log,db}.cpp` | user database, log | processMessage, sendMessage, log | commands, database, Markov | credentials change between messages | permissions seen are current |
| Discord session `backends/discord/discord.cpp` | as Twitch, plus heartbeat and session | init, resume, disconnect, heartbeat, reconnect jobs | queues, pool, websocket | reconnections with and without the lock, nested disconnects | one reconnection at a time, workers alive |
| Discord events `backends/discord/{message,dispatch,db,log}.cpp` | guilds, users, channels | processEvent, update guild/user | database, commands | references kept after the database lock is released | dispatches in order |
| Discord sender, timers `backends/discord/channel.cpp` | buckets; active timers | send, startTimer, stopTimer | HTTP, pool, interpreter | check-then-act on the timer table; a late stop job | one timer per channel; a stop stops its own timer |
| IRC `backends/irc/*` | sockets, 2 threads per server, channels | connect, send, line reader, CTCP | queues | lines split across reads | each line processed once |
| Console `console/console.cpp` | server socket, per-connection buffers and threads | accept, command, log fan-out, shutdown | everything | lines split across reads; shutdown joins threads under a lock | each command runs once; shutdown ends |
| Database `datastore/database.cpp`, `datastore/msglog.cpp` | one value, a dirty flag, a file | load, sync, write | every part | background sync, atomic rename, crash between steps | a crash leaves a whole database; every change reaches the file |
| Serialisation `include/serialise.h`, `misc/buffer.cpp` | byte buffers | write/read tagged values | database | versions, sizes | reading back what was written |
| Groups and permissions `datastore/shared.cpp`, `misc/perms.cpp` | groups, membership | add/remove group and user, update and check | commands | ids by size; inverted result | a denied user cannot run |
| Markov model `markov/markov.cpp` | word table, index maps, training queue | process, train, retrain, generate | queue, database | index map and table updated separately; reset in between | indices are in range |
| Commands `commands/command.cpp` | tables of commands and aliases, handlers of messages | processMessage, pipelines, def, redef, undef, chmod, eval | permissions, interpreter | checked, found and run under different locks; objects deleted in between | what a stage evaluates is what was checked; every message is dealt with |
| Script interpreter `interp/*` | globals, commands, AST | lex, parse, evaluate, serialise | database | precedence, overloads and casts, references into values that move | operators nest by precedence; a chosen overload runs; reading changes nothing; what is saved is read |
| Emotes `emotes/*` | caches with a time | update, find | HTTP, pool | refresh while reading | - |
| Configuration, utilities `misc/*` | constants | load, format, hash | all | none | - |

Threads: the main thread (which becomes the console), 4 dispatcher threads, a
receiver per socket, send/receive/ping threads per Twitch and Discord session
and IRC server, console connections, the Markov worker, the database's sync
thread, timers.

## 2. Plan

The order is: what every other part stands on, then the sessions that fail in
the field, then what outlives the process, then the sequential parts.

| # | Modules | Composes or refines | State |
|---|---|---|---|
| 1 | `WaitQueue`, `FifoQueue` | `WaitQueue` refines `FifoQueue` | done, proved |
| 2 | `TwitchSession` | uses FIFO queues, as `FifoQueue` | done |
| 3 | `RateLimit` | the limiter with the Twitch send loop | done, proved |
| 4 | `SocketLifecycle` | `Socket` with the connection half of `WebSocket` | done |
| 5 | `DiscordSession` | gateway workers with the dispatcher's threads | done |
| 6 | `Database` | memory, file system, threads that save, restarts | done |
| 7 | `Markov` | training queue, model, generator, restart | done |
| 8 | `ThreadPool` | `run`, futures and their destructors, the stop marker | done |
| 9 | `Readers` | frames of a websocket, lines of IRC and of the console, over one stream | done |
| 10 | `PermissionSets`, `Permissions`, `Commands` | groups of users and sets of permissions; `Commands` uses `PermissionSets` | done |
| 11 | `Timers`, `Console` | check-then-act tables, threads that dispose of each other, shutdown | done |
| 12 | `ScriptLexer`, `ScriptTypes`, `ScriptValues`, `ScriptParser`, `ScriptSources`, `Overloads`, `ScriptEval` | `ScriptParser` extends the lexer and the values, `ScriptSources` the parser; `Overloads` and `ScriptEval` use the values, `ScriptEval` and `SavedScripts` an instance of the parser | done |
| 13 | `Buffers`, `RecordFormats`, `SavedRecords`, `SavedScripts` | room, formats, records and scripts of a save | done |
| 14 | `TwitchProofs`, `DiscordProofs`, `DatabaseProofs`, `MarkovProofs`, `RateLimitProofs`, `ThreadPartsProofs`, `SavedPartsProofs`, `SmallPartsProofs` | the safety of 1 to 11, and of `Buffers` | done, proved |
| 15 | `DiscordSender`, `Messages`, an IRC session | buckets and retry after; splitting of messages; workers without reconnection | open |

The parts that share no state are checked together: `ThreadParts`,
`BackgroundParts` and `SmallParts` have an instance of each of their parts
and the transition relation of all, in which one part moves at a time.
`MCThreads`, `MCBackground` and `MCSmallParts` extend them, and choose one
part in a variable `part` at `Init` which alone moves: the others are in one
of their initial states, where their properties hold and where their fairness
asks for nothing, so that such a run is a run of each part on its own. The
proofs about the parts extend the same modules, so that what is proved is the
very formula that the run checks.

The safety of everything but the script language and the saved data is proved.
`Overloads`, `ScriptParser`, `ScriptEval` and `SavedScripts` are recursive and
stay with TLC; so does what recursive functions of formats compute.

## 3. Modules

Conventions. Places of a thread in its code are strings in a `pc`, `worker`
or similar variable, and an action goes from one place to the next; a place
is where another thread can be seen to step in (a lock not held, a join, a
wait). Work under a lock that cannot block is one action.  *History*
variables are read by properties only, never by guards. Definitions whose
comment says *Mutant* are not part of the specifications: each is a plausible
mistake in the code, and replaces the definition it resembles to show that
some property of the run notices it.

### WaitQueue, FifoQueue (`include/synchro.h`)

| Code | Model |
|---|---|
| the deque and its mutex | `queue`, of tickets: the n-th push has ticket n |
| `pending_notifies` | `pending`: which tickets, the code keeps how many |
| `semaphore::value` | `value` |
| `push`, `emplace` | `Push`, then `Post`, then `NotifyOne` or `NotifyAll` |
| `push_quiet`, `emplace_quiet` | `PushQuiet`, then `CountPending` |
| `notify_pending` | `NotifyPending`, then as `push` |
| `pop` | `Pop`, `Acquire` or `Sleep` (and `SpuriousWake`), `TakeFront` |

A push, its post and its notification are separate steps because the code
releases the mutex in between; `pop` takes a unit and the front under
different mutexes. `FifoQueue` is what the users of the queue rely on.

### RateLimit (`include/rate.h`, `backends/twitch/twitch.cpp` send_worker)

`Attempt` is `attempt()` with the `next()` that follows a refusal; `Pop`,
`Wake` and `Send` are the loop around it. Time is a number of ticks. `tokens`
has the width of its type (`% TokenSpan`) and starts as any member of
`Garbage`, since the constructor leaves it uninitialised. Sleeps may end late
and the send may be delayed (`Delays`), the queue may be empty for a while
(`Pauses`).

### TwitchSession (`backends/twitch/twitch.cpp`)

| Code | Model |
|---|---|
| `Synchronised<TwitchState>` | `lock`: who holds it for longer than a step |
| `connect()` | `StartWorkers`, `Login`, `Authenticated` or `AuthTimeout`, `Ready`, `JoinChannels` |
| `disconnect()` | `PushMarkers`, `Part`, `Close`, `SetFlag`, `Join` of tx, rx and hb |
| `send_worker` | `TxPop`, `TxSend` |
| `recv_worker` | `RxPop`, `RxProcess` |
| `ping_worker` | `HbExit`, `HbPatience`, `HbPingDue`, `HbPing` |
| the reconnect job | `StartJob`, a disconnection, `WsConnect`, a connection |
| `shutdown()` | `RequestShutdown`, `Shutdown`, a disconnection |
| peer, network | `Receive`, `ServerClose`, `LoseConnection` |

Processing a message is one step that may queue an answer.  A thread that dies
of a null socket, or an assertion, ends the behaviour (`crashed`).

### SocketLifecycle (`network/socket.cpp`, `network/websocket.cpp`)

`Create`, `TcpFails`, `TcpSucceeds`, `Upgraded` and `UpgradeFails` are a
connection attempt; `Drop` and `DetachAgain` a forced disconnect by the user,
`Disconnect`, `FinishDisconnect` and `Disconnected` an orderly one; `Check`,
`CallRecv`, `RecvReturns`, `Callback`, `CloseFrame` and `FrameHandled` the
receiver's loop; `DeferredClose` the job that closes and deletes a socket.
There may be several receivers at once: one attached, others detached and on
their way out.

### DiscordSession (`backends/discord/discord.cpp`, `message.cpp`, `include/async.h`)

`InitSucceeds`, `InitFails` and `InitAsserts` are `init()` of the websocket
(`internal_connect`), `StartWorkers`, `SendLogin`, `Ready` (the dispatch that
sets the condition variable), `Identified` (the handlers, installed whatever
has become of the socket since) and `LoginFails` the rest of `resume()`;
`BeginDisconnect`, `JoinHb`, `JoinWorkers` and `Close` are `disconnect()`.
`HbCheck`, `HbNotDue`, `HbPatience` and `HbSend` are the heartbeat, `TxPop`,
`RxPop` and `RxProcess` the workers, `StartBeat`, `LockBeat`, `StartUnlocked`
and `RunSock` what the dispatcher's threads do with the jobs of the heartbeat
(with the lock), of the callbacks (without it) and of the socket. The history
`closed` follows a CLOSE frame: its callback was there ("seen") or the empty
one ("missed"), and the login that was going on succeeded all the same
("forgotten").

### Database (`datastore/database.cpp`, `include/synchro.h`, `main.cpp`)

| Code | Model |
|---|---|
| the database in memory | `value`, how many modifications it has had |
| `databaseDirty` | `dirty`, set by `Mark` before the lock is taken, cleared by `BackgroundSync` |
| files | `file` (inodes), `path` and `new` (names), `backup` |
| `load`, `createNewDatabase` | `Start`, `Created`, `Load`, `BackUp`, `BackedUp` |
| `sync` | `LockAndSerialise`, `Open`, `Write`, `WriteRest`, `Rename`, or `SyncFails` |
| the console's command, `main`'s last sync | `ConsoleSync`, `Shutdown`, `Exit` |
| the process is killed | `Crash`, at any point |

A saved value has two halves, so that a file can be partly written.  A short
write (`WriteRest`) starts again from the beginning of the buffer, as in the
code.  A crash is one of the process, not of the machine: what was written is
there.  The file system fails at most once in a behaviour.

### Markov (`markov/markov.cpp`, `console/console.cpp`)

| Code | Model |
|---|---|
| `MarkovModel` | `wordList` (without its two markers), `wordIndices`, `table` (pairs of a prefix and a word that followed it) |
| `State.queue`, `retrainingTotalSize`, `retrainingCompleted` | `queue` with `units` of its semaphore, `total`, `completed` |
| `worker_thread`, `process_one` | `Pop`, `Discard`, `GetIndices` (one critical section), `Update` (one per prefix), `Count`, `ClearTotal`, `ClearCompleted` |
| `retrain` | `Reset`, `Load`, `Store` (a `++` that is not atomic), `PushQuiet`, `NotifyPending` |
| the console's progress thread | `Watch` |
| `generateMessage`, `generate_one` | `Seed`, `Grow` (one critical section per word), `Read` |
| saving, exit and `MarkovDB::deserialise` | `Restart` |

A prefix stands for its hash and frequencies are left out: any word that
followed may be chosen.  The restart reads what is in memory at that moment,
which is a model that some sync has seen.  One console retrains at a time.

### ThreadPool (`include/async.h`, `main.cpp`)

| Code | Model |
|---|---|
| `run`, the future kept or discarded | `Dispatch`, `Run`; `~future` is `FutureWaited` |
| `worker` | `Pop`, `Finish` (the future is set), `Stop` (the marker is put back for the next thread) |
| a job that runs another one and waits for it | `RunInner`, `Finish` of the inner one |
| `~ThreadPool`, at static destruction | `PushMarker`, `Joined` |

The queue is the FIFO queue that `WaitQueue` implements.

### Readers (`network/websocket.cpp`, `backends/irc/server.cpp`, `console/console.cpp`)

One stream, cut into packets anywhere, read by one of three readers
(`reader`).  A message is its length; positions in the stream stand for bytes.

| Code | Model |
|---|---|
| the handler of the upgrade's answer | `AnswerPacket`, `EarlyPacket` |
| installing the frame handler, flushing what came early | `Install`, `Flush`, and `OvertakingPacket` of the receiver thread |
| a packet, the loop over frames or lines | `Packet`, `Take`, `Return` |
| `connect()` again | `Reconnect` |

### PermissionSets, Permissions (`misc/perms.cpp`, `datastore/shared.cpp`)

`PermissionSets` holds `check` and `parse` as operators.  In `Permissions`,
`addGroup`, `removeGroup` and `Chmod` are the operations of those names,
`MessageFrom` is `update_user_creds`, `Usermod` and `UpdateUserGroups` the two
critical sections of `updateUserPermissions`, `Save` and `Restart` what the
database keeps of it.  A thread keeps a pointer to a user between the two
sections; when the table has moved in between, `undefined` ends the behaviour,
as does `removeGroup` of a group that is not there.

### Commands (`commands/command.cpp`, `interp/builtin.cpp`, `interp/interp.cpp`)

| Code | Model |
|---|---|
| `processMessage`, `process_command` | `Receive`, `Creds` (waits to write the user's credentials to the database), `RunHandlers`, `FindStage`, `CheckStage`, `Expand`, `Run`, one critical section each; `EndStage` goes to the next stage of a pipeline |
| `evaluateExpr`, `FunctionCall::evaluate`, `evaluateMacro` | `Evaluate`, of a command's arguments, its code or an eval: it calls what the name it mentions means (`Meaning`, after `resolveVariable`) and what that calls in turn (`Reached`), or appends it to the handlers of messages |
| `def`, `defun` | `DefFind`, `DefEmplace` (looked up, then added, under different locks) |
| `redef`, `chmod` of a command | `FindTarget` under the lock, `ChangeTarget` without it |
| `chmod` of a builtin | `ChmodBuiltin`, `ChmodParse` (holds the interpreter's lock and waits for the database's) |
| `undef`, `global`, `eval`, `showmod` | `UndefCommand`, `ChangeGlobal`, `Eval`, `Showmod` |
| the database's sync | `SyncStart`, `SyncEnd` (holds the database's lock and waits for the interpreter's) |

A command object is the number of its creation, so that a name that was
removed and defined again is told from what it was before.  An expression is
the name that it mentions, and `body` what the code of an object mentions.
What an evaluation calls is found by name, and nobody asks for its
permissions (interp.cpp:119-121): a user who may run a command runs whatever
its code names, and so do the handlers.  `ran` therefore has pairs: what was
evaluated (0 for an eval), and what ran in that.

Whether a thread that waits to write to the database holds back those that
come to read it is left to the library by the standard (`HeldBack`): the
actions of such readers may happen, and no fairness says that they do.

### Script language (`interp/*`)

`ScriptLexer` is `lexer.cpp` over strings of a few characters. `ScriptParser`
is `parser.cpp`: operators named after its functions map a state to a tree
and a state; the precedences are those of `get_binary_precedence`. Neither
has variables: in `ScriptSources` a text is parsed and the two are held
against what they are for. `ScriptTypes` has the types, cast distances and
the choice of an overload (`type.cpp`, `function.cpp`), `ScriptValues`
values, casts, coercions of arguments and the memory (`value.cpp`,
`function.cpp`): a reference is a path into a frame with the time it was
made, and a stamp says when what it points into has moved. `ScriptEval` is
`expr.cpp`, `function.cpp`, `macro.cpp` and the evaluation part of
`interp.cpp`: `Eval` maps a tree and a memory to a value, a memory and how it
ended ("error", "undefined", "aborted"). The interpreter works under one lock
and makes no choices, so the state is the lines that users typed (`eval`,
`global`, `undef`, a command), and `After(lines)` what it holds then: globals
with their values, and how the last line ended. What differs between two runs
of a line is the time it is given: how many calls until it times out. Numbers
are integers and the arithmetic operators are represented by a few of them;
`int`, `str`, `abs`, `append`, `len` and `__builtin_dismantle` stand for the
builtin functions. `Overloads` makes one call, of any function of a small set
with any arguments.

### Saved data (`misc/buffer.cpp`, `include/serialise.h`, `*/db.cpp`, `*/log.cpp`, `interp/ser.cpp`)

`Buffers` is the room: `cap`, `len`, and for each kind of write the chunks
that `Writer` makes of it (`Ensure`, tag, bytes); `Grow` is `Buffer::grow`,
`Copy` is `Buffer::write`, which drops what does not fit.  `RecordFormats` has
the formats of every width and container and, per record, the fields that
`serialise` writes and those that `deserialise` reads, in their orders;
`SavedRecords` takes samples of every record.  `SavedScripts` is the
interpreter's part: commands with their trees, types, values, permissions.
Its state is what was done, `After(steps)` what that leads to: `Defun`, `Def`,
`Redef`, `Undef`, `Chmod`, `SetGlobal`, `SetFunction`, and `Restart`, which is
a save and the start after it.  Definitions are texts that `ScriptParser`
reads.

### Timers (`backends/discord/channel.cpp`, `include/timer.h`)

`Find`, `SetupWorker` and `Insert` are `startTimer`, whose lookup and
insertion are under different locks and whose thread runs in between;
`SendFirst` and `SendLast` the thread of a timer; `Take` and `JoinAndDelete`
are `stopTimer`, of a user or of the job that a timer leaves at its end.
There are two users: the thread that processes messages, and the console,
where `say` runs commands too. Both may find the table empty; of two timers
one is inserted.

### Console (`console/console.cpp`, accepted sockets of `network/socket.cpp`)

| Code | Model |
|---|---|
| the accept loop, authentication | `Accept`, `Authenticated`, `AuthenticationFails`, `Dropped`, `Hand`, `Handed` |
| stopping: the sessions are disconnected under the lock | `Quit`, `Kill`, `Killed`, `AllKilled`, `Joined` |
| a session's receiver | `Receive`, `FindBuffer`, `Command`, `Exit`, `Pass`, `Passed` |
| the thread that deletes sockets | `Reap`, `Reaped` |
| standard input, `logMessage` | `ReadStdin`, `Log` |

## 4. What the runs check

Passing runs (distinct states, two workers):

| Run | Size | Part | Shows |
|---|---|---|---|
| `TwitchSession` | 48 k | | nothing of one connection, thread or marker, is left for the next (`ConnectionsApart`), a connection that is up is served, nothing is sent before the login, shutdowns end and outages are repaired (`SessionGetsOn`, but for the deadlock below) |
| `DiscordSession` | 3.9 M | | under the lock no thread is misused and no reconnection meets a live socket (`ConnectionsApart`); a lost connection has who notices it (`OutageIsWatched`); a closed one has who takes it up, or a login that will forget it (`CloseIsHandled`) |
| `Threads` | 126 k | `WaitQueue` | no pop of an empty deque, every push announced exactly once, no lost wakeup, implements `FifoQueue`, what is announced is popped |
| | | `SocketLifecycle` | each socket has one owner, is deleted once and not under its receiver (`SocketsDisposedOfOnce`); nobody waits for a disconnection for ever (`DisconnectsEnd`) |
| | | `Commands` | the object whose arguments or code a stage evaluates, and an eval, was allowed to its user for this message (`RunsWhatWasChecked`); every message is dealt with, beside a sync that takes the locks in the other order, unless the three deadlock (`MessagesEnd`) |
| `Background` | 360 k | `RateLimit` | average rate, at most two sleeps per message |
| | | `Database` | a process that finds a database loads it (`StartsAgain`), nothing saved is replaced by something older or before it is backed up (`SavedDataIsKept`), a modification reaches the disk (`ModificationsAreSaved`) |
| | | `Markov` | words and indices agree, no index is used for a word that is not there, the counters agree (`ModelAgrees`), a retraining ends |
| `SmallParts` | 150 k | `ScriptLexer`, `ScriptParser` | tokens are the whole source (`LexerKeepsText`); chains of operators nest as their precedences say, against a definition by the loosest operator (`PrecedenceDecides`) |
| | | `Overloads`, `ScriptEval` | an overload that was chosen can be run, and coercing twice is coercing once (`ChosenRuns`); expressions without assignments change no global, globals keep their types |
| | | `Permissions` | the ids of an account are the groups it was put in, over restarts and concurrent changes (`GrantsMeanTheirGroup`) |
| | | `Buffers`, `SavedRecords`, `SavedScripts` | every write fits (`NothingIsLost`); what is saved is what is read (`SavedIsRead`) |
| | | `Readers` | frames and lines are handled once and in order, however they are cut (`EachMessageIsTaken`) |
| | | `ThreadPool`, `Timers`, `Console` | timers and sessions have one owner until they are deleted after their thread ended (`DisposedOfOnce`); jobs are done, stopped timers go, the console quits (`ThreadsEnd`) |

Runs that find a violation, each of one statement of the repository:

| Run | Statement | What happens |
|---|---|---|
| `TwitchSession_worker_deadlock` | twitch.cpp:259, the threads are killed before the join so that they do not deadlock | a worker that popped a message before the marker waits for the lock its joiner holds |
| `RateLimit_twitch` | twitch.cpp:36, 20 messages in 30 seconds | after a pause the bucket holds more than its limit: 21 messages within a period |
| `SocketLifecycle_recv` | socket.cpp:165, the thread is joined before the socket is closed | a receiver that was detached comes back to its loop and is in `recv()` on the next socket |
| `DiscordSession_marker` | message.cpp:21, all dispatches are processed by the receive worker | a failed login disconnects twice, and the second end marker stops the next worker |
| `Database_dirty` | database.cpp:39, saved if anyone took a write lock | the mark comes before the lock; the background thread may clear it and save in between |
| `Buffers_superblock` | serialise.h:179, `ensure` accounts "implicitly for the tag byte" | the length of a text of more than 65535 bytes has a tag of its own that nobody asked room for; where the text just fits, its last byte is dropped |
| `SavedScripts_unreadable` | interp.cpp:259, commands are available when values are read | lambdas, blocks and function definitions are written, but `Expr::deserialise` and `Stmt::deserialise` have no case for them (ser.cpp:755-796): the function is null and the database does not load |

### Exceptions

Several properties of the passing runs hold only on a condition, and the
condition is a defect that the model shows:

* `Database` excepts two syncs that overlap and short writes (`overlap`,
  `faulty`); `Markov` indices taken before a reset (`stale`), a lost increment
  (`miscounted`) and empty logged messages (`skipped`).  Emotes "won't show up
  in the wordIndices table like normal words" only until a restart.
* The sessions except a crash, and `TwitchSession` the circular wait of the
  first run above (`Stuck`).  `DiscordSession` states `ConnectionsApart` for a
  server that only goes silent (`OnlyLocked`): jobs made by the callbacks do
  not take the lock, and then it fails: the process may end by a thread that
  is joined twice or assigned over.
* `CloseIsHandled` excepts a CLOSE that arrives after READY and before
  `onDisconnect` is set (discord.cpp:266-371).  It finds the empty callback,
  and `internal_connect` looks at the condition variable only (294), so that
  it installs the handlers of a session whose socket is gone ("forgotten").
  If an acknowledgement is outstanding, the heartbeat reconnects when its
  patience ends; otherwise none is sent on a closed socket, none is missed,
  and the bot stays offline until it is restarted.
* `Readers` excepts a stream whose bytes were lost (`lost`): frames in the
  packet of the upgrade's answer (websocket.cpp:146), a packet that overtakes
  the flush (259-261), half a frame from before a reconnection, a single byte
  that is left over in a websocket's buffer (249-251), and more bytes than
  the buffers of the upgrade and of the console hold. The console may run a
  line again whenever the rest of a packet is not a line: `taken` may repeat
  there.
* `ThreadPool` excepts jobs that come after the stop marker (`late`): they
  never run, and a future of one that is kept blocks its owner for ever.
  Waiting jobs must be fewer than threads.
* `MessagesEnd` excepts a deadlock of three (`Deadlock`): `chmod` of a builtin
  has the interpreter's lock (builtin.cpp:149) and asks for the database's to
  read (perms.cpp:97); a sync has the database's and asks for the
  interpreter's; a message wants to write its user's credentials to the
  database (twitch/message.cpp:228), and a `std::shared_mutex` that lets
  writers go first holds the reader back.  Without the exception the run
  finds it.
* `RunsWhatWasChecked` is about what a stage evaluates.  What that calls in
  turn was not checked: the property stated of every object that runs fails.
* `Console` excepts the main thread that joins, under the lock of
  `socketBuffers`, a receiver that waits for that lock (`JoinsAWaiter`,
  console.cpp:732-735), and null sockets that stay in the map.
* `Commands` and `Permissions` end with an undefined operation: a command or
  a user that was pointed to is gone. The handlers of messages share a
  command without owning it (interp.cpp:204-208), and an `undef` deletes it
  under them.
* `NothingIsLost` is proved of texts shorter than 65536 bytes, of a superblock
  that fits the buffer's first size (it has 512 bytes), and without the type
  of a list: `Type::serialise` (type.cpp:218-243) writes its tag and then that
  of the element as raw bytes, one more than the tag asked room for.
* `SavedIsRead` excepts the two emote caches of a Twitch channel, which are
  read in each other's place, and functions named by globals, which are
  found again by name or become void.  It says nothing of a save that asks a
  function for its name when there is none (value.cpp:348): of a global of
  function type that
  was made and never assigned ("crashed"), or whose command was removed and
  deleted (interp.cpp:219, "undefined").
* The parser has the precedences of its table only between binary operators;
  `-x[1]` is `(-x)[1]` and `!f(x)` is `(!f)(x)`, a slice swallows a sign after
  it, and `a.b()^c` is `a.(b()^c)`.  `PrecedenceDecides` is about chains
  without those.

### Bounds

* `WaitQueue`: 2 producers, 3 consumers, 3 pushes.  Two producers let two
  announcements race; three pushes with three sleepers make `notify_all` wake
  more than needed and `notify_one` meet a consumer that just arrives.
* `SocketLifecycle`: two sockets, so that a receiver detached from the first
  can meet the second.
* `Commands`: three messages out of thirteen on two threads, so that one
  changes what the other has found; three objects, one of which may mention
  another through an alias; one sync, which with a `chmod` and a message that
  comes in is what the deadlock needs.
* `RateLimit`: limit 2, period 5, interval 2, 4 messages: three refills,
  tokens saved over idle periods, garbage below and above the limit, and the
  wrap of an eight-valued token.
* `Database`: two modifications, two processes, one fault, three threads that
  save: one process crashes anywhere and the other finds what it left.
* `Markov`: prefixes of two, sentences of two words (plus markers), a sentence
  said, a retraining of two logged sentences and a restart in any order.  One
  reset in flight is enough for each pair of critical sections.
* `TwitchSession`: two messages per queue, any number of reconnections: a
  marker with something before and behind it.
* `DiscordSession`: a pool of two (the code has four), one waiting job beside
  those that run, one message per queue, one failure.  One thread may wait for
  another's closing job, and reconnections overlap in pairs.
* Sources: all of up to three characters out of thirteen, some longer ones at
  the lexer's special cases, and all chains of three operators out of eight,
  one or more of each precedence.  Calls: up to two parameters and arguments
  out of nine and eight types.  Evaluation: two lines out of 25 expressions,
  four commands and six globals to make or remove, time
  for one call or three.
* `Permissions`: two channels, a user, two names, seven steps: a group can be
  added, granted, saved and lost, and another take its place.
* `Buffers`: three writes after a start at four capacities; sizes on both
  sides of each threshold. Larger texts than the thresholds allow are those
  of `Buffers_superblock`. Records: numbers of every width, lists and maps of
  two. `SavedScripts`: three steps and a restart, with functions that use
  every class of node.
* `Readers`: streams of three and four messages, cut anywhere, two
  connections. `ThreadPool`: three jobs and one inner one on two threads.
  `Timers`: three timers, two users: both may make
  one at once, and one more follows.
  `Console`: two sessions beside the standard input.

### Fairness

No run assumes anything of the network, the users or the clock. Weak fairness
is given to threads that can step (the operating system schedules them);
strong fairness to a thread of `TwitchSession` that waits for a lock which is
released again and again (`TxSend`, `RxProcess`, `HbPing`, `StartJob`,
`Shutdown`), since `std::shared_mutex` is not fair but does not starve a
waiter in practice. `WaitQueue`: each critical section that can run does.
`SocketLifecycle`, `Console`: `recv()` has a timeout, so a receiver comes
back to its test. `Commands`: a thread goes on with its message unless it is
to read the database while a writer waits for a sync to end (`HeldBack`), and
the sync goes on with its lock. `Database`: the background thread wakes up.
`Markov`: the worker, the retraining thread and the progress thread run.
`ThreadPool`: functions return, and a wait ends when it can. `Timers`: a
thread leaves its loop if it was told to; nothing makes a user stop one.
`Console`: nobody has to stop the bot. `DiscordSession` has no liveness
property: its reconnections wait for each other in ways that end in a
standstill.

## 5. What is proved

Every safety property of the passing runs but those named at the end, for
every value of the constants that satisfies the hypotheses of the theorem.
Bounds of the model are only required to be natural numbers: the sessions, the
queues and the files are of any length and go on for ever.  Each proof has an
inductive invariant, which states what a place in the code knows about the
rest, and one step for each action.

| Module | Theorems | Hypotheses |
|---|---|---|
| `ThreadPartsProofs` | `TypeCorrect`, `NoUnderflowHolds`, `TicketsAccounted`, `NoLostWakeupHolds`, `FifoHolds` | any producers and pushes, finitely many consumers |
| | `SocketsDisposedOfOnceHolds`, `RunsWhatWasCheckedHolds`, `PartsTypeCorrect` | for the types: finitely many aliases that are names, messages of words |
| `TwitchProofs` | `TypeCorrect`, `ConnectionsApartHolds`, `ServedWhileUpHolds`, `NoSendBeforeAuthHolds` | |
| `DiscordProofs` | `TypeCorrect`, `ConnectionsApartHolds`, `OutageIsWatchedHolds`, `CloseIsHandledHolds` | a pool of at least one thread |
| `DatabaseProofs` | `TypeCorrect`, `DiskWholeHolds`, `StartsAgainHolds`, `SavedDataIsKeptHolds`, `ExitSavesHolds` | |
| `MarkovProofs` | `TypeCorrect`, `ModelAgreesHolds` | sentences of words; prefixes and messages have a length of at least one |
| `RateLimitProofs` | `TypeCorrect`, `AverageRateHolds`, `AtMostTwoSleepsHolds` | any limit, period, interval, width and garbage |
| | `StartsAgainHolds`, `SavedDataIsKeptHolds`, `ModelAgreesHolds`, `PartsTypeCorrect` as the run states them | those of `DatabaseProofs` and `MarkovProofs` |
| `SavedPartsProofs` | `GrantsMeanTheirGroupHolds`, `NothingIsLostHolds` | for the buffer: what is written is within its type |
| `SmallPartsProofs` | `EachMessageIsTakenHolds`, `DisposedOfOnceHolds`, `PartsTypeCorrect` | for the readers: no message is empty |

The arguments:

* `WaitQueue`.  `NoUnderflow` is not inductive: it says that the units of the
  semaphore and the consumers on their way to the front are no more than the
  elements, and a post could break it unless its tickets are in the deque.
  `IInv` adds `QueueIsWindow` (the deque holds exactly the tickets between the
  last popped and the last pushed, in order), `UnitsAreTickets` (units,
  consumers at the front and popped elements together are the announced
  tickets), `HandsEmpty` (a producer has tickets in hand only between its
  critical sections) and `AnnouncedExactlyOnce`.  `FifoHolds` is
  `Spec => Fifo!Spec`, step by step.  `NoLostWakeup` needs a count besides:
  the consumers awake and the notifications under way against the units.
* `SocketLifecycle`.  Each socket has one owner at each place of the user
  (`EachSocketOwnedOnce`); the thread that can be joined is that of the
  current socket, and what a receiver tested is open if it is its own.
* `TwitchSession`. The place of the holder of the lock says everything: which
  threads there are, whether a marker is on its way to one, and what a
  connection still lacks (`Locking`, `Markers`, `Running`, `Serving`). A
  queue has at most one marker, and it is gone when its thread is joined.
* `DiscordSession`.  Two layers.  Without any assumption: a socket has its
  heartbeat or one who closes it (`Beating`), a session whose CLOSE was seen
  has a job or one who disconnects, and one whose CLOSE was missed has one who
  logs in or disconnects (`Reconnected`), and whose closing job waits in the
  queue waits for it (`Waits`).  `ConnectionsApart` needs the
  lock, so that `Apart` says, as the property does, under `OnlyLocked` what
  `Locking` says of `TwitchSession`.
* `Database`. Threads that hold the read lock keep the value as it is, so
  that it is what each of them has serialised (`WhatIsWritten`); memory is
  never behind the disk (`Behind`); one that saves alone renames a whole file
  (`Alone`), and an old version has its backup by then (`Backups`).
  `SavedDataIsKept` is an action property: `DiskStep` says what a step can
  put on the disk.
* `RateLimit`.  `AverageRate` counts messages against time; the argument goes
  through the refills.  `TokensAccounted`: messages sent or let through, plus
  the tokens left, are at most the tokens found and the limit times the
  refills (this is where the wrap of the sum matters: it only loses tokens).
  `RefillsApart`: refills lie a period apart.  Together they bound the
  messages by the periods begun.
* `Markov`.  The list of words only grows between resets, so that an index
  once taken stays one of a word: `Updating` says so of the updates that a
  worker holds after it released the lock, `Generating` of the words that a
  message has so far, each unless there was a reset since.  `Announcing`: the
  queue is longer than its units by what the trainer has pushed quietly;
  `Counting`: the two counters differ by the sentences that are outstanding.
  Entering a sentence is a fold and its updates are flattened: the operators
  of the library are recursive functions, which the proof shows to exist, step
  by step, before it uses them (`WordsInTurn`, `Flattened`).
* `Commands`.  What a stage evaluates was checked: a thread that holds an
  object after the check holds the one that it checked, for its user and
  message, whatever the name has come to mean, and one that is about to eval
  was allowed that (`Checked`); an evaluation records nothing under another
  object (`EvaluateIsForOne`).  The types need more: each object has one
  name that owns it (`Owned`), what a thread found was made (`Known`), and
  the recursion of `findCommand` over aliases is well defined, by induction on
  how many of them are not seen yet (`FindExists`).
* `Permissions`. `Consistent`, of what is in memory and of what is on the
  disk: ids are below the number of groups, no two groups have the same id,
  an account has the ids of the groups it was put in, and no id is on both
  lists. The model parses one item at a time, and so does the lemma about it
  (`ParseOne`).
* `Buffers`.  `Leaves`: where there is room for so many bytes, the chunks of a
  value can be written one after the other, since each asks for enough or
  those before it left it, and so much room is left.  Each kind of value is
  shown to leave what it must, in any order and beginning at any size.
* `Readers`.  Unless bytes were lost, nothing is handled before the upgrade
  (`Upgrading`), a reader that skips what it handled has the messages up to
  one, each once, and goes on behind it (`Skipping`), and the console has run
  the lines up to one, some again, and is somewhere among them (`Repeating`).
  Where the n-th message ends is a sum of lengths, by induction on n.
* `ThreadPool`, `Timers`, `Console`.  A job is in the queue once or with one
  thread, and its future is set afterwards (`RunsOnce`); there is a job for
  each that a caller made and for each that was made by one (`Bounded`).  A
  timer is held by the map or by who stops it (`HeldOnce`), and by nobody
  while it is made (`Fresh`).  A session is in the map, on its way to the
  reaper or in its queue, once (`OnePlace`), and is deleted when its thread
  has ended (`Orderly`).
* The parts together.  `PartsAreSpecs`: a behaviour of the composition is one
  of each part.  Where a part has a proof module of its own, its theorem is
  taken over through an instance of that module.

Only model-checked: every liveness property, since the prover does not do
fairness; and everything about the script language and the saved trees, whose
definitions are recursive operators, which the prover cannot read
(`LexerKeepsText`, `PrecedenceDecides`, `ChosenRuns`, `SavedIsRead`, among
others).

## 6. What is not modelled

* HTTP (`network/http.cpp`, `requests.cpp`): calls of a library and the
  splitting of a header block; no state of its own.
* Configuration (`misc/config.cpp`): read once before any thread starts.
* Utilities (`misc/util.cpp`, `unicode.cpp`, `hash/*`, `include/types.h`,
  `zfu.h`, and `zpr.h`, which is a formatting library): pure functions.
* The Discord sender's buckets (`discord/channel.cpp`), whose limits the
  server's headers set; the threads that fetch emotes, which replace a list
  under a lock; the session, CTCP and message parser of IRC; the splitting of
  long messages and the positions of emotes.
* What Discord events change in guilds and channels, sequence numbers and the
  resumed session; the requests for user ids and the credentials of Twitch.
* The string and number functions among the builtins, the fractions of
  numbers, and the wording of every answer and of the log.
* `listen()` of the socket, called once; console commands that only set a
  channel or print.

Data races on the socket pointer are modelled as the abort they lead to, or
not at all where they are undefined behaviour of a `std::function`
(`network/websocket.cpp:277`).
