-------------------------- MODULE BackgroundParts --------------------------
(***************************************************************************)
(* What goes on in the background: the worker that sends at a limited      *)
(* rate, the threads that save the database, and those that train the      *)
(* Markov model.  The parts share no state, so a behaviour is one of one   *)
(* part; the others stay where they are at the beginning.                  *)
(***************************************************************************)
EXTENDS RateLimit

\* Of Database and of Markov.
CONSTANTS Writers, Faults, MaxValue, MaxStarts,
          MAX_PREFIX_LENGTH, MIN_INPUT_LENGTH, GOOD_INPUT_LENGTH, Said, Logs,
          MaxOutput, MaxSaid, MaxRetrains, MaxRestarts

VARIABLES part,
          main, readonly, value, dirty, writer, sync, snap, fd, file, path, new, backup,
          starts, asked, overlap, faulty,
          wordList, wordIndices, table, queue, units, total, completed, trainee, item, todo,
          log, trainer, rest, loaded, watching, generator, output, said, retrains, restarts,
          stale, miscounted, skipped

Saving == INSTANCE Database
Training == INSTANCE Markov WITH worker <- trainee

databaseVars == <<main, readonly, value, dirty, writer, sync, snap, fd, file, path, new,
                  backup, starts, asked, overlap, faulty>>
markovVars == <<wordList, wordIndices, table, queue, units, total, completed, trainee, item,
                todo, log, trainer, rest, loaded, watching, generator, output, said,
                retrains, restarts, stale, miscounted, skipped>>
allVars == <<part, vars, databaseVars, markovVars>>

PartsInit ==
  part \in {"sending", "saving", "training"} /\ Init /\ Saving!Init /\ Training!Init

PartsNext ==
  \/ part = "sending" /\ Next /\ UNCHANGED <<part, databaseVars, markovVars>>
  \/ part = "saving" /\ Saving!Next /\ UNCHANGED <<part, vars, markovVars>>
  \/ part = "training" /\ Training!Next /\ UNCHANGED <<part, vars, databaseVars>>

PartsSpec == PartsInit /\ [][PartsNext]_allVars

\* The fairness of the parts, which asks for nothing where they begin.
PartsFairness == Saving!Fairness /\ Training!Fairness

-----------------------------------------------------------------------------
(* The properties of the parts, stated in their modules *)

\* The type invariants.
PartsTypeOK == TypeOK /\ Saving!TypeOK /\ Training!TypeOK

\* A process that finds a database loads it (Database).
StartsAgain == Saving!StartsAgain

\* What was saved is not replaced by something older, nor is an old database
\* before it is backed up (Database).
SavedDataIsKept == Saving!SavedDataIsKept

\* What is modified reaches the disk (Database).
ModificationsAreSaved == Saving!ModificationsAreSaved

\* The words and the table of their indices are one set of words, no index is used
\* for a word that is not there, and the counters say what is left (Markov).
ModelAgrees == Training!ModelAgrees

\* A retraining is over some time (Markov).
RetrainingEnds == Training!RetrainingEnds
=============================================================================
