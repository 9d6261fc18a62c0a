------------------------------ MODULE Database ------------------------------
(***************************************************************************)
(* The database and its file (datastore/database.cpp, the write lock       *)
(* callback of include/synchro.h, main.cpp): threads that modify it, the   *)
(* background thread that saves it when it is dirty, the console's sync    *)
(* command and the last one of main(), processes that crash and start      *)
(* again.                                                                  *)
(*                                                                         *)
(* The database's value is the number of modifications made to it.  It is  *)
(* saved in two halves, which is as fine as a short write() is seen.  All  *)
(* saved values have the same length.  A crash is one of the process: what *)
(* it wrote to a file is still there, in the order it was written.         *)
(***************************************************************************)
EXTENDS Integers, Sequences, FiniteSets

CONSTANTS Writers,    \* threads that take the write lock
          Faults,     \* what the file system may do: "error", "short"
          MaxValue,   \* bound on the modifications
          MaxStarts   \* bound on the processes

VARIABLES main,      \* where the main thread is
          readonly,  \* this process was started with --readonly
          value,     \* the database in memory
          dirty,     \* databaseDirty
          writer,    \* where each writer is
          sync,      \* where each thread that saves is
          snap,      \* the value it has serialised
          fd,        \* the file it has open
          file,      \* the contents of each file (inode)
          path, new, \* the files called databasePath and databasePath + ".new", or 0
          backup,    \* db-backup-v*.db: "none", "partial" or "whole"
          starts,    \* how many processes there were
          asked,     \* history: the value when the shutdown began
          overlap,   \* history: two threads were saving at once
          faulty     \* the file system failed, which it does once

vars == <<main, readonly, value, dirty, writer, sync, snap, fd, file, path, new,
          backup, starts, asked, overlap, faulty>>

Syncers == {"main", "background", "console"}
Files == 1..4

\* The halves of a value as they are in a buffer, and a file of them.
Saved(v) == <<<<v, 1>>, <<v, 2>>>>
Empty == [old |-> FALSE, data |-> <<>>]
Whole(f) == f # 0 /\ \E v \in 0..MaxValue : file[f].data = Saved(v)

\* The value a process that starts now would load, -1 if it would refuse.
OnDisk == IF Whole(path) THEN file[path].data[1][1] ELSE -1

\* A database of this or of an older version, or none.
Init ==
  /\ main = "down" /\ readonly = FALSE
  /\ value = 0 /\ dirty = FALSE
  /\ writer = [w \in Writers |-> "idle"]
  /\ sync = [s \in Syncers |-> "idle"] /\ snap = [s \in Syncers |-> 0]
  /\ fd = [s \in Syncers |-> 0]
  /\ path \in {0, 1} /\ new = 0
  /\ \E old \in BOOLEAN :
       file = [f \in Files |-> IF f = path THEN [old |-> old, data |-> Saved(0)] ELSE Empty]
  /\ backup = "none"
  /\ starts = 0 /\ asked = 0 /\ overlap = FALSE /\ faulty = FALSE

Alive == main \notin {"down", "refused", "exited"}

-----------------------------------------------------------------------------
(* load(), on the main thread *)

\* createNewDatabase saves the value before anybody else is there.
Start ==
  /\ main = "down" /\ starts < MaxStarts
  /\ starts' = starts + 1
  /\ readonly' \in BOOLEAN
  /\ value' = 0 /\ dirty' = FALSE
  /\ \/ path = 0 /\ main' = "create" /\ sync' = [sync EXCEPT !["main"] = "lock"]
     \/ path = 0 /\ main' = "refused" /\ UNCHANGED sync
     \/ path # 0 /\ main' = "load" /\ UNCHANGED sync
  /\ UNCHANGED <<writer, snap, fd, file, path, new, backup, asked, overlap, faulty>>

Created ==
  /\ main = "create" /\ sync["main"] = "idle"
  /\ main' = IF path = 0 THEN "refused" ELSE "load"
  /\ UNCHANGED <<readonly, value, dirty, writer, sync, snap, fd, file, path, new,
                 backup, starts, asked, overlap, faulty>>

\* An older version is backed up first.  In memory it is upgraded.
Load ==
  /\ main = "load"
  /\ IF Whole(path)
     THEN /\ value' = OnDisk
          /\ main' = IF file[path].old /\ ~readonly THEN "backup" ELSE "up"
     ELSE main' = "refused" /\ UNCHANGED value
  /\ UNCHANGED <<readonly, dirty, writer, sync, snap, fd, file, path, new, backup,
                 starts, asked, overlap, faulty>>

\* copy_file fails when its target exists.
BackUp ==
  /\ main = "backup"
  /\ \/ backup = "none" /\ backup' = "partial" /\ main' = "copying"
     \/ backup # "none" /\ main' = "refused" /\ UNCHANGED backup
  /\ UNCHANGED <<readonly, value, dirty, writer, sync, snap, fd, file, path, new,
                 starts, asked, overlap, faulty>>

BackedUp ==
  /\ main = "copying"
  /\ backup' = "whole" /\ main' = "up"
  /\ UNCHANGED <<readonly, value, dirty, writer, sync, snap, fd, file, path, new,
                 starts, asked, overlap, faulty>>

-----------------------------------------------------------------------------
(* Synchronised<Database>: wlock(), perform_write, map_write *)

\* The callback comes before the lock.  It is only there if not readonly.
Mark(w) ==
  /\ main \in {"up", "final"} /\ writer[w] = "idle" /\ value < MaxValue
  /\ writer' = [writer EXCEPT ![w] = "marked"]
  /\ dirty' = ~readonly
  /\ UNCHANGED <<main, readonly, value, sync, snap, fd, file, path, new, backup,
                 starts, asked, overlap, faulty>>

\* The threads that save hold a read lock from the lock to the end.
Locked(s) == sync[s] \in {"open", "write", "rest", "rename"}

\* Mutant: the write lock does not exclude the readers.
ModifyUnlocked(w) ==
  /\ writer[w] = "marked" /\ value < MaxValue
  /\ value' = value + 1
  /\ writer' = [writer EXCEPT ![w] = "idle"]
  /\ UNCHANGED <<main, readonly, dirty, sync, snap, fd, file, path, new, backup,
                 starts, asked, overlap, faulty>>

Modify(w) ==
  /\ writer[w] = "marked" /\ value < MaxValue
  /\ \A s \in Syncers : ~Locked(s)
  /\ value' = value + 1
  /\ writer' = [writer EXCEPT ![w] = "idle"]
  /\ UNCHANGED <<main, readonly, dirty, sync, snap, fd, file, path, new, backup,
                 starts, asked, overlap, faulty>>

-----------------------------------------------------------------------------
(* Database::sync, and who calls it *)

SyncGoes(s, place) ==
  /\ sync' = [sync EXCEPT ![s] = place]
  /\ UNCHANGED <<main, readonly, value, writer, backup, starts, asked>>

\* Every 30 seconds: the flag is cleared before the lock is taken.
BackgroundSync ==
  /\ main \in {"up", "final"} /\ ~readonly
  /\ sync["background"] = "idle" /\ dirty
  /\ dirty' = FALSE
  /\ SyncGoes("background", "lock")
  /\ UNCHANGED <<snap, fd, file, path, new, overlap, faulty>>

ConsoleSync ==
  /\ main = "up" /\ sync["console"] = "idle"
  /\ SyncGoes("console", "lock")
  /\ UNCHANGED <<dirty, snap, fd, file, path, new, overlap, faulty>>

\* The console has ended; the other threads have not all.
Shutdown ==
  /\ main = "up" /\ sync["console"] = "idle"
  /\ main' = "final"
  /\ sync' = [sync EXCEPT !["main"] = "lock"]
  /\ asked' = value
  /\ UNCHANGED <<readonly, value, dirty, writer, snap, fd, file, path, new, backup,
                 starts, overlap, faulty>>

Exit ==
  /\ main = "final" /\ sync["main"] = "idle"
  /\ main' = "exited"
  /\ UNCHANGED <<readonly, value, dirty, writer, sync, snap, fd, file, path, new,
                 backup, starts, asked, overlap, faulty>>

\* The read lock is shared, and serialising takes place under it.
LockAndSerialise(s) ==
  /\ sync[s] = "lock"
  /\ IF readonly
     THEN SyncGoes(s, "idle") /\ UNCHANGED <<snap, overlap>>
     ELSE /\ SyncGoes(s, "open")
          /\ snap' = [snap EXCEPT ![s] = value]
          /\ overlap' = (overlap \/ \E t \in Syncers : Locked(t))
  /\ UNCHANGED <<dirty, fd, file, path, new, faulty>>

\* The end of sync().
EndSync(s) ==
  /\ SyncGoes(s, "idle")
  /\ fd' = [fd EXCEPT ![s] = 0]
  /\ snap' = [snap EXCEPT ![s] = 0]

\* open() or write() fails, and the function returns.
SyncFails(s) ==
  /\ "error" \in Faults /\ ~faulty /\ sync[s] \in {"open", "write", "rest"}
  /\ EndSync(s)
  /\ faulty' = TRUE
  /\ UNCHANGED <<dirty, file, path, new, overlap>>

Unused == {f \in Files : f \notin {path, new} \cup {fd[s] : s \in Syncers}}

\* Mutant: the database itself is opened.
OpenInPlace(s) ==
  /\ sync[s] = "open" /\ path # 0
  /\ fd' = [fd EXCEPT ![s] = path]
  /\ file' = [file EXCEPT ![path] = Empty]
  /\ SyncGoes(s, "write")
  /\ UNCHANGED <<dirty, snap, path, new, overlap, faulty>>

\* O_TRUNC | O_CREAT: a file of that name loses what it has.
Open(s) ==
  /\ sync[s] = "open"
  /\ LET f == IF new # 0 THEN new ELSE CHOOSE f \in Unused : TRUE IN
       /\ new' = f
       /\ fd' = [fd EXCEPT ![s] = f]
       /\ file' = [file EXCEPT ![f] = Empty]
  /\ SyncGoes(s, "write")
  /\ UNCHANGED <<dirty, snap, path, overlap, faulty>>

\* Write a half at position i: what lies before it in the file stays, or
\* becomes a hole when the file was truncated in between.
PutAt(data, i, half) == [j \in 1..(IF i > Len(data) THEN i ELSE Len(data)) |->
  IF j = i THEN half ELSE IF j \in DOMAIN data THEN data[j] ELSE <<>>]

Put(s, i, half) ==
  file' = [file EXCEPT ![fd[s]].data = PutAt(@, i, half)]

\* The bytes are written, all at once or only some of them.
Write(s) ==
  /\ sync[s] = "write"
  /\ \/ /\ file' = [file EXCEPT ![fd[s]].data = Saved(snap[s])]
        /\ SyncGoes(s, "rename") /\ UNCHANGED faulty
     \/ /\ "short" \in Faults /\ ~faulty
        /\ Put(s, 1, Saved(snap[s])[1])
        /\ SyncGoes(s, "rest") /\ faulty' = TRUE
  /\ UNCHANGED <<dirty, snap, fd, path, new, overlap>>

\* The rest is written from the beginning of the buffer.
WriteRest(s) ==
  /\ sync[s] = "rest"
  /\ Put(s, 2, Saved(snap[s])[1])
  /\ SyncGoes(s, "rename")
  /\ UNCHANGED <<dirty, snap, fd, path, new, overlap, faulty>>

\* Mutant: a file of that name is not replaced.
RenameKeepsTarget(s) ==
  /\ sync[s] = "rename"
  /\ path' = IF path = 0 THEN new ELSE path
  /\ new' = 0
  /\ EndSync(s)
  /\ file' = [f \in Files |-> IF f \in {path'} \cup {fd'[t] : t \in Syncers}
                             THEN file[f] ELSE Empty]
  /\ UNCHANGED <<dirty, overlap, faulty>>

\* rename() fails when another thread has renamed the file already.  A file with
\* no name that nobody has open is gone.
Rename(s) ==
  /\ sync[s] = "rename"
  /\ path' = IF new # 0 THEN new ELSE path
  /\ new' = 0
  /\ EndSync(s)
  /\ file' = [f \in Files |-> IF f \in {path'} \cup {fd'[t] : t \in Syncers}
                             THEN file[f] ELSE Empty]
  /\ UNCHANGED <<dirty, overlap, faulty>>

-----------------------------------------------------------------------------
\* The process dies, at any point; or it has exited, with the threads it had.
Crash ==
  /\ main \notin {"down", "refused"}
  /\ main' = "down"
  /\ value' = 0 /\ dirty' = FALSE /\ readonly' = FALSE
  /\ writer' = [w \in Writers |-> "idle"]
  /\ sync' = [s \in Syncers |-> "idle"] /\ snap' = [s \in Syncers |-> 0]
  /\ fd' = [s \in Syncers |-> 0]
  /\ asked' = 0
  /\ UNCHANGED <<file, path, new, backup, starts, overlap, faulty>>

SyncStep(s) == LockAndSerialise(s) \/ Open(s) \/ Write(s) \/ WriteRest(s) \/ Rename(s)

MainStep == Start \/ Created \/ Load \/ BackUp \/ BackedUp \/ Shutdown \/ Exit

Next ==
  \/ MainStep \/ Crash
  \/ /\ Alive
     /\ \/ \E w \in Writers : Mark(w) \/ Modify(w)
        \/ BackgroundSync \/ ConsoleSync
        \/ \E s \in Syncers : SyncStep(s) \/ SyncFails(s)

Spec == Init /\ [][Next]_vars

\* The background thread wakes up, a thread that saves gets on, and one that
\* waits for the lock gets it when it keeps being released.
Fairness ==
  /\ WF_vars(Alive /\ BackgroundSync)
  /\ \A s \in Syncers : WF_vars(Alive /\ SyncStep(s))

FairSpec == Spec /\ Fairness

-----------------------------------------------------------------------------
(* Properties *)

\* Type invariant of the database and the file system.
TypeOK ==
  /\ main \in {"down", "create", "load", "backup", "copying", "up", "final",
               "exited", "refused"}
  /\ {readonly, dirty, overlap, faulty} \subseteq BOOLEAN
  /\ value \in 0..MaxValue /\ snap \in [Syncers -> 0..MaxValue]
  /\ writer \in [Writers -> {"idle", "marked"}]
  /\ sync \in [Syncers -> {"idle", "lock", "open", "write", "rest", "rename"}]
  /\ path \in {0} \cup Files /\ new \in {0} \cup Files /\ fd \in [Syncers -> {0} \cup Files]
  /\ \A f \in Files : file[f].old \in BOOLEAN /\ Len(file[f].data) <= 2
  /\ backup \in {"none", "partial", "whole"} /\ starts \in 0..MaxStarts

\* The file of that name is whole whenever the process may die: it is written
\* beside it and renamed.  Two threads saving at once break it (they share the
\* read lock and the name of the new file), and so does a short write (the rest
\* is written from the beginning of the buffer): the invariant is about the others.
DiskWhole == path # 0 /\ ~overlap /\ ~faulty => Whole(path)

\* A process that finds a database loads it, after any crash, unless it was left
\* with a backup of the version it has to upgrade, which it does not overwrite.
StartsAgain ==
  main = "refused" /\ path # 0 => \/ overlap \/ faulty
                                  \/ file[path].old /\ backup # "none"

\* What was saved is not replaced by something older: threads that save hold
\* off those that modify.  (If two overlap or a write is short the file may be
\* no database for a while, or for good.)
NothingSavedIsLost ==
  [][OnDisk' >= OnDisk \/ (OnDisk' = -1 /\ (overlap' \/ faulty'))]_vars

\* The database of an older version is not replaced before its backup is complete.
OldVersionKept ==
  [][path # 0 /\ file[path].old /\ path' # path => backup = "whole"]_vars

\* What is on the disk is replaced by what is as good, or kept aside.
SavedDataIsKept == NothingSavedIsLost /\ OldVersionKept

\* A process that exits has saved everything modified before its shutdown began.
ExitSaves ==
  [][main' = "exited" /\ ~readonly' /\ ~overlap' /\ ~faulty' => OnDisk' >= asked']_vars

\* A modification made while the database is marked dirty reaches the disk.
DirtyIsSaved ==
  \A v \in 1..MaxValue :
    (value = v /\ dirty /\ Alive) ~> (OnDisk >= v \/ ~Alive \/ faulty)

\* What is modified reaches the disk, in time or at the exit.
ModificationsAreSaved == ExitSaves /\ DirtyIsSaved

\* "the database will only sync to disk if it was modified or rather, if anyone
\* took a write lock on it" (datastore/database.cpp:39): a database that differs from its
\* file is marked, or is being saved.  Does not hold: the mark comes before the
\* lock, and the background thread may clear it and save in between.
ModifiedIsMarked ==
  main = "up" /\ ~readonly /\ value > OnDisk =>
     dirty \/ \E s \in Syncers : sync[s] # "idle"
=============================================================================
