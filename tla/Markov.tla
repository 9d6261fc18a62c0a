------------------------------- MODULE Markov -------------------------------
(***************************************************************************)
(* The Markov model (markov/markov.cpp): the worker thread that trains it  *)
(* on what is said, the console's "retrain", which resets it and queues    *)
(* everything that was logged, the threads that generate messages, and a   *)
(* restart, which reads the saved model back.  The model has a lock, but   *)
(* training on a sentence and generating a message take many critical      *)
(* sections each.                                                          *)
(*                                                                         *)
(* A sentence is a sequence of words, [text, emote]; splitting text is     *)
(* left out.  A prefix stands for its hash.  Frequencies are left out: any *)
(* word that was seen may be chosen.  Indices begin at 0, as in the code.  *)
(***************************************************************************)
EXTENDS Integers, Sequences, FiniteSets, SequencesExt

CONSTANTS MAX_PREFIX_LENGTH, MIN_INPUT_LENGTH, GOOD_INPUT_LENGTH,
          Said,         \* sentences that may be said
          Logs,         \* what the message log may hold: sequences of sentences
          MaxOutput,    \* max_length
          MaxSaid,      \* bound on the sentences said
          MaxRetrains,  \* bound on the retrainings
          MaxRestarts   \* bound on the restarts

VARIABLES wordList,     \* the words, without the two markers
          wordIndices,  \* from the keys of words to indices
          table,        \* pairs of a prefix and a word that followed it
          queue, units, \* State.queue and its semaphore
          total,        \* retrainingTotalSize
          completed,    \* retrainingCompleted
          worker,       \* where the worker is
          item,         \* what it has taken from the queue
          todo,         \* the updates of the table it still has to make
          log,          \* the message log
          trainer,      \* where the thread that retrains is
          rest,         \* what it still has to queue
          loaded,       \* retrainingTotalSize as it has read it
          watching,     \* a thread waits for the retraining to be complete
          generator,    \* where a generating thread is
          output,       \* the indices it has
          said, retrains, restarts,
          stale,        \* history: who has indices from before a reset
          miscounted,   \* history: an increment of total was lost
          skipped       \* history: empty sentences the worker did not count

model == <<wordList, wordIndices, table>>
counters == <<total, completed, miscounted, skipped>>
training == <<worker, item, todo>>
retraining == <<trainer, rest, loaded, watching, retrains>>
generating == <<generator, output>>
fixed == <<log, restarts>>
vars == <<model, counters, training, retraining, generating, queue, units, said,
          stale, fixed>>

IDX_START_MARKER == 0
IDX_END_MARKER == 1

Item(kind, msg) == [kind |-> kind, msg |-> msg]
NoItem == Item("none", <<>>)

Init ==
  /\ wordList = <<>> /\ wordIndices = <<>> /\ table = {}
  /\ queue = <<>> /\ units = 0
  /\ total = 0 /\ completed = 0 /\ miscounted = FALSE /\ skipped = 0
  /\ worker = "pop" /\ item = NoItem /\ todo = <<>>
  /\ log \in Logs
  /\ trainer = "idle" /\ rest = <<>> /\ loaded = 0 /\ watching = FALSE /\ retrains = 0
  /\ generator = "idle" /\ output = <<>>
  /\ said = 0 /\ restarts = 0
  /\ stale = [table |-> FALSE, worker |-> FALSE, generator |-> FALSE]

-----------------------------------------------------------------------------
(* process() and shutdown() *)

Process ==
  /\ said < MaxSaid
  /\ \E m \in Said : queue' = Append(queue, Item("said", m))
  /\ units' = units + 1
  /\ said' = said + 1
  /\ UNCHANGED <<model, counters, training, retraining, generating, stale, fixed>>

Shutdown ==
  /\ \A i \in DOMAIN queue : queue[i].kind # "stop"
  /\ worker # "exited"
  /\ queue' = Append(queue, Item("stop", <<>>))
  /\ units' = units + 1
  /\ UNCHANGED <<model, counters, training, retraining, generating, said, stale, fixed>>

-----------------------------------------------------------------------------
(* worker_thread() and process_one() *)

Pop ==
  /\ worker = "pop" /\ units > 0
  /\ units' = units - 1
  /\ queue' = Tail(queue)
  /\ LET x == Head(queue) IN
       /\ item' = (IF x.kind = "stop" \/ x.msg = <<>> THEN NoItem ELSE x)
       /\ worker' = (IF x.kind = "stop" THEN "exited" ELSE IF x.msg = <<>> THEN "pop" ELSE "index")
       /\ skipped' = skipped + (IF x.kind = "retrain" /\ x.msg = <<>> THEN 1 ELSE 0)
  /\ UNCHANGED <<model, total, completed, miscounted, todo, retraining, generating, said,
                 stale, fixed>>

\* An emote has a leading space, which no word has.
Key(w) == <<w.text, w.emote>>

\* get_word_index: the index of a word, new if need be.
WithIndex(m, w) ==
  IF Key(w) \in DOMAIN m.indices THEN [m EXCEPT !.ret = Append(@, m.indices[Key(w)])]
  ELSE LET idx == Len(m.list) + 2 IN
       [list    |-> Append(m.list, w),
        indices |-> [k \in {Key(w)} \cup DOMAIN m.indices |->
                       IF k = Key(w) THEN idx ELSE m.indices[k]],
        ret     |-> Append(m.ret, idx)]

\* For each position the prefixes that begin there, and the word that follows.
Updates(ws) ==
  FlattenSeq([i \in 1..(Len(ws) - 1) |->
    LET longest == IF Len(ws) - i < MAX_PREFIX_LENGTH THEN Len(ws) - i ELSE MAX_PREFIX_LENGTH
    IN [k \in 1..longest |-> <<SubSeq(ws, i, i + k - 1), ws[i + k]>>]])

\* Where the worker goes when process_one() returns.
Processed == worker' = IF item.kind = "retrain" THEN "count" ELSE "pop"

\* Mutant: what is dropped is not counted.
DiscardUncounted ==
  /\ worker = "index" /\ Len(item.msg) < GOOD_INPUT_LENGTH
  /\ worker' = "pop"
  /\ item' = NoItem
  /\ UNCHANGED <<model, counters, todo, retraining, generating, queue, units, said,
                 stale, fixed>>

\* Short sentences are dropped, most of the middling ones too.
Discard ==
  /\ worker = "index" /\ Len(item.msg) < GOOD_INPUT_LENGTH
  /\ Processed
  /\ item' = NoItem
  /\ UNCHANGED <<model, counters, todo, retraining, generating, queue, units, said,
                 stale, fixed>>

GetIndices ==
  /\ worker = "index" /\ Len(item.msg) >= MIN_INPUT_LENGTH
  /\ LET m == FoldLeft(WithIndex, [list |-> wordList, indices |-> wordIndices,
                                   ret |-> <<IDX_START_MARKER>>], item.msg) IN
       /\ wordList' = m.list /\ wordIndices' = m.indices
       /\ todo' = Updates(Append(m.ret, IDX_END_MARKER))
  /\ worker' = "table"
  /\ UNCHANGED <<table, counters, item, retraining, generating, queue, units, said,
                 stale, fixed>>

\* Each update has a critical section of its own.
Update ==
  /\ worker = "table"
  /\ table' = table \cup {Head(todo)}
  /\ todo' = Tail(todo)
  /\ stale' = [stale EXCEPT !.table = @ \/ stale.worker, !.worker = @ /\ todo' # <<>>]
  /\ IF todo' = <<>> THEN Processed /\ item' = NoItem ELSE UNCHANGED <<worker, item>>
  /\ UNCHANGED <<wordList, wordIndices, counters, retraining, generating, queue, units,
                 said, fixed>>

Count ==
  /\ worker = "count"
  /\ completed' = completed + 1
  /\ worker' = IF completed' = total THEN "clear_total" ELSE "pop"
  /\ UNCHANGED <<model, total, miscounted, skipped, item, todo, retraining, generating,
                 queue, units, said, stale, fixed>>

\* By now the total may have been counted up again.
ClearTotal ==
  /\ worker = "clear_total"
  /\ total' = 0
  /\ miscounted' = (miscounted \/ total # completed)
  /\ worker' = "clear_completed"
  /\ UNCHANGED <<model, completed, skipped, item, todo, retraining, generating, queue,
                 units, said, stale, fixed>>

ClearCompleted ==
  /\ worker = "clear_completed"
  /\ completed' = 0
  /\ worker' = "pop"
  /\ UNCHANGED <<model, total, miscounted, skipped, item, todo, retraining, generating,
                 queue, units, said, stale, fixed>>

-----------------------------------------------------------------------------
(* retrain() *)

\* Mutant: the indices are kept.
ResetKeepsIndices ==
  /\ trainer = "idle" /\ retrains < MaxRetrains
  /\ wordList' = <<>> /\ table' = {}
  /\ stale' = [table |-> FALSE, worker |-> worker = "table", generator |-> generator # "idle"]
  /\ rest' = log /\ retrains' = retrains + 1
  /\ trainer' = IF log = <<>> THEN "notify" ELSE "load"
  /\ UNCHANGED <<wordIndices, counters, training, loaded, watching, generating, queue, units,
                 said, fixed>>

\* reset(), and the log is copied.
Reset ==
  /\ trainer = "idle" /\ retrains < MaxRetrains
  /\ wordList' = <<>> /\ wordIndices' = <<>> /\ table' = {}
  /\ stale' = [table |-> FALSE, worker |-> worker = "table", generator |-> generator # "idle"]
  /\ rest' = log /\ retrains' = retrains + 1
  /\ trainer' = IF log = <<>> THEN "notify" ELSE "load"
  /\ UNCHANGED <<counters, training, loaded, watching, generating, queue, units, said, fixed>>

\* retrainingTotalSize++, which is not atomic.
Load ==
  /\ trainer = "load"
  /\ loaded' = total
  /\ trainer' = "store"
  /\ UNCHANGED <<model, counters, training, rest, watching, retrains, generating, queue,
                 units, said, stale, fixed>>

Store ==
  /\ trainer = "store"
  /\ total' = loaded + 1
  /\ miscounted' = (miscounted \/ total # loaded)
  /\ trainer' = "push"
  /\ UNCHANGED <<model, completed, skipped, training, rest, loaded, watching, retrains,
                 generating, queue, units, said, stale, fixed>>

PushQuiet ==
  /\ trainer = "push"
  /\ queue' = Append(queue, Item("retrain", Head(rest)))
  /\ rest' = Tail(rest)
  /\ trainer' = IF Tail(rest) = <<>> THEN "notify" ELSE "load"
  /\ UNCHANGED <<model, counters, training, loaded, watching, retrains, generating, units,
                 said, stale, fixed>>

NotifyPending ==
  /\ trainer = "notify"
  /\ units' = units + Len(log)
  /\ trainer' = "idle" /\ watching' = TRUE
  /\ UNCHANGED <<model, counters, training, rest, loaded, retrains, generating, queue,
                 said, stale, fixed>>

\* The console's thread that shows the progress ends when it is 1.
Watch ==
  /\ watching /\ (total = 0 \/ completed = total)
  /\ watching' = FALSE
  /\ UNCHANGED <<model, counters, training, trainer, rest, loaded, retrains, generating,
                 queue, units, said, stale, fixed>>

-----------------------------------------------------------------------------
(* generateMessage() *)

\* A word that is known, or the start.
Seed ==
  /\ generator = "idle"
  /\ \E i \in {IDX_START_MARKER} \cup {wordIndices[k] : k \in DOMAIN wordIndices} :
       output' = <<i>>
  /\ generator' = "grow"
  /\ stale' = [stale EXCEPT !.generator = FALSE]
  /\ UNCHANGED <<model, counters, training, retraining, queue, units, said, fixed>>

Followers(prefix) == {u[2] : u \in {v \in table : v[1] = prefix}}

LastOf(k) == SubSeq(output, Len(output) - k + 1, Len(output))

\* generate_one: of a random length at most, the longest prefix that was seen.
NextWords(k) ==
  LET seen == {j \in 1..k : j <= Len(output) /\ Followers(LastOf(j)) # {}} IN
  IF seen = {} THEN {IDX_END_MARKER}
  ELSE Followers(LastOf(CHOOSE j \in seen : \A i \in seen : i <= j))

Grow ==
  /\ generator = "grow"
  /\ IF Len(output) >= MaxOutput THEN generator' = "read" /\ UNCHANGED output
     ELSE \E k \in 1..MAX_PREFIX_LENGTH : \E next \in NextWords(k) :
            IF next = IDX_END_MARKER THEN generator' = "read" /\ UNCHANGED output
            ELSE output' = Append(output, next) /\ UNCHANGED generator
  /\ stale' = [stale EXCEPT !.generator = @ \/ stale.table]
  /\ UNCHANGED <<model, counters, training, retraining, queue, units, said, fixed>>

\* Read the words; or there are too few, and it tries again.
Read ==
  /\ generator = "read"
  /\ generator' = "idle" /\ output' = <<>>
  /\ stale' = [stale EXCEPT !.generator = FALSE]
  /\ UNCHANGED <<model, counters, training, retraining, queue, units, said, fixed>>

-----------------------------------------------------------------------------
\* The process ends, and one starts from the model that was saved: the indices
\* are made from the words alone, the last of the same text winning.
Restart ==
  /\ restarts < MaxRestarts
  /\ restarts' = restarts + 1
  /\ wordIndices' =
       [k \in {<<wordList[i].text, FALSE>> : i \in DOMAIN wordList} |->
          1 + CHOOSE i \in DOMAIN wordList :
                /\ wordList[i].text = k[1]
                /\ \A j \in DOMAIN wordList : wordList[j].text = k[1] => j <= i]
  /\ worker' = "pop" /\ item' = NoItem /\ todo' = <<>>
  /\ queue' = <<>> /\ units' = 0
  /\ total' = 0 /\ completed' = 0 /\ miscounted' = FALSE /\ skipped' = 0
  /\ trainer' = "idle" /\ rest' = <<>> /\ loaded' = 0 /\ watching' = FALSE
  /\ generator' = "idle" /\ output' = <<>>
  /\ stale' = [stale EXCEPT !.worker = FALSE, !.generator = FALSE]
  /\ UNCHANGED <<wordList, table, retrains, said, log>>

WorkerStep == \/ Pop \/ Discard \/ GetIndices \/ Update
              \/ Count \/ ClearTotal \/ ClearCompleted
TrainerStep == Load \/ Store \/ PushQuiet \/ NotifyPending

Next == \/ Process \/ Shutdown
        \/ WorkerStep \/ TrainerStep \/ Reset \/ Watch
        \/ Seed \/ Grow \/ Read
        \/ Restart

Spec == Init /\ [][Next]_vars

\* The worker and the thread that queues get on, and so does the one that watches.
Fairness == WF_vars(WorkerStep) /\ WF_vars(TrainerStep) /\ WF_vars(Watch)

FairSpec == Spec /\ Fairness

-----------------------------------------------------------------------------
(* Properties *)

\* Indices that name a word or a marker.
Valid == 0..(Len(wordList) + 1)

\* Type invariant of the model and its queue.
TypeOK ==
  /\ \A k \in DOMAIN wordIndices : wordIndices[k] \in Nat \ {IDX_START_MARKER, IDX_END_MARKER}
  /\ \A u \in table : Len(u[1]) \in 1..MAX_PREFIX_LENGTH /\ u[2] \in Nat
  /\ units \in Nat /\ total \in Nat /\ completed \in Nat /\ skipped \in Nat
  /\ worker \in {"pop", "index", "table", "count", "clear_total", "clear_completed", "exited"}
  /\ item.kind \in {"none", "said", "retrain"} /\ (todo # <<>> <=> worker = "table")
  /\ trainer \in {"idle", "load", "store", "push", "notify"}
  /\ (rest # <<>> <=> trainer \in {"load", "store", "push"})
  /\ watching \in BOOLEAN /\ miscounted \in BOOLEAN
  /\ generator \in {"idle", "grow", "read"} /\ Len(output) <= MaxOutput

\* wordList and wordIndices are two views of one set of words, whatever resets,
\* restarts and trainings come in between: a key's index is that of a word of the
\* same text, no ordinary word is entered twice, and an emote is not found as a
\* word ("we mark emotes by a leading space. this way, they won't show up in the
\* wordIndices table like normal words", markov.cpp:286).  The last holds until a
\* restart: deserialise() enters all words without the space.
IndicesNameTheirWord ==
  /\ \A k \in DOMAIN wordIndices :
       /\ wordIndices[k] \in Valid
       /\ wordList[wordIndices[k] - 1].text = k[1]
       /\ restarts = 0 => wordList[wordIndices[k] - 1].emote = k[2]
  /\ \A i, j \in DOMAIN wordList :
       wordList[i] = wordList[j] /\ ~wordList[i].emote => i = j

\* The table names words that exist, although it is updated after the words were
\* entered and the lock was released.  A reset in between breaks it: the updates
\* that are left use indices of the words that were cleared.
TableIsValid ==
  ~stale.table => \A u \in table : u[2] \in Valid /\ \A i \in DOMAIN u[1] : u[1][i] \in Valid

\* What a generator reads from wordList exists, unless the model was reset after
\* its first word or the table was stale.
OutputIsValid == ~stale.generator => \A i \in DOMAIN output : output[i] \in Valid

\* No index is used for a word that is not there.
IndicesAreValid == TableIsValid /\ OutputIsValid

\* Sentences of a retraining that are counted in the total and not yet completed.
Outstanding ==
  Cardinality({i \in DOMAIN queue : queue[i].kind = "retrain"})
  + (IF item.kind = "retrain" \/ worker = "count" THEN 1 ELSE 0)
  + (IF trainer = "push" THEN 1 ELSE 0)

\* The two counters say what is left, although the worker may take sentences
\* before they are announced and reach the total while it still grows, unless
\* that lost an increment.  Empty sentences are never counted as completed.
CountersAgree ==
  ~miscounted =>
     total = (IF worker = "clear_completed" THEN 0 ELSE completed) + skipped + Outstanding

\* The words, their indices, the table, what is generated and the counters agree.
ModelAgrees == IndicesNameTheirWord /\ IndicesAreValid /\ CountersAgree

\* A retraining is over some time, unless an increment was lost, the log has an
\* empty sentence (a message that was only a picture), or the bot is stopped.
RetrainingEnds == watching ~> (~watching \/ miscounted \/ skipped > 0 \/ worker = "exited")
=============================================================================
