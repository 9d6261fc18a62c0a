--------------------------- MODULE DatabaseProofs ---------------------------
(***************************************************************************)
(* What is on the disk survives, for any number of writers, of             *)
(* modifications and of processes that crash at any point: a process finds *)
(* a database that it can load, what was saved is not replaced by          *)
(* something older, an old version is backed up first, and who exits has   *)
(* saved what there was.                                                   *)
(***************************************************************************)
EXTENDS Database, SequenceTheorems, TLAPS

BoundsAreNat == MaxValue \in Nat /\ MaxStarts \in Nat

\* What the parts of a file hold: halves of values, and holes.
Halves == {<<>>} \cup ((0..MaxValue) \X {1, 2})

Typed ==
  /\ TypeOK
  /\ readonly \in BOOLEAN /\ dirty \in BOOLEAN /\ overlap \in BOOLEAN /\ faulty \in BOOLEAN
  /\ file \in [Files -> [old : BOOLEAN, data : Seq(Halves)]]
  /\ asked \in 0..MaxValue

\* A thread has a file open while it writes and renames it, which only one that
\* may write does.  Nobody saves while a process starts, other than the main
\* thread that creates a database.
Savers ==
  /\ \A s \in Syncers : fd[s] # 0 <=> sync[s] \in {"write", "rest", "rename"}
  /\ \A s \in Syncers : Locked(s) => ~readonly
  /\ \A s \in Syncers : sync[s] # "idle" =>
       main \in {"create", "up", "final", "exited"} /\ (main = "create" => s = "main")
  /\ sync["main"] # "idle" => main \in {"create", "final"}

\* Threads that hold the read lock keep the value as it is, so it is what each of
\* them has serialised, and what a file has that is whole and was written by one.
Current(f) == \A v \in 0..MaxValue : file[f].data = Saved(v) => v = value
WhatIsWritten ==
  \A s \in Syncers : /\ Locked(s) => snap[s] = value
                     /\ fd[s] # 0 => Current(fd[s]) /\ (new # 0 => Current(new))

\* The file beside the database is another one, and only the database that a
\* process found can be of an older version, which nobody has open.
Names ==
  /\ new # 0 => new # path
  /\ \A f \in Files : file[f].old => f = path /\ \A s \in Syncers : fd[s] # f

\* Memory is never behind the disk, and no further than it was when a shutdown
\* began, once the last save is over.
Behind ==
  /\ main \notin {"down", "load", "refused"} => OnDisk <= value
  /\ main \notin {"final", "exited"} => asked = 0
  /\ asked <= value \/ main \in {"down", "load", "refused"}
  /\ main = "final" /\ sync["main"] = "idle" /\ ~readonly /\ ~overlap /\ ~faulty => OnDisk >= asked

\* A thread that saves alone writes the file that is called new, and has written
\* it all when it renames it, unless a write was short.
Alone ==
  /\ ~overlap => /\ \A s, t \in Syncers : Locked(s) /\ Locked(t) => s = t
                 /\ \A s \in Syncers : fd[s] # 0 => fd[s] = new
  /\ \A s \in Syncers : /\ sync[s] = "rest" => faulty
                        /\ sync[s] = "rename" /\ ~overlap /\ ~faulty
                             => file[fd[s]].data = Saved(snap[s])

\* An old version has its backup before anything can be renamed.
Backups ==
  /\ main \in {"backup", "copying"} => path # 0 /\ file[path].old
  /\ main \in {"create", "up", "final", "exited"} /\ ~readonly /\ path # 0 /\ file[path].old
       => backup = "whole"

IInv == /\ BoundsAreNat /\ Typed /\ Savers /\ WhatIsWritten /\ Names /\ Behind
        /\ Alone /\ Backups /\ DiskWhole /\ StartsAgain

-----------------------------------------------------------------------------
(* Facts about files *)

\* The value is there to be read in what was saved.
LEMMA SavedIsInjective == \A v, w : /\ Saved(v)[1][1] = v
                                    /\ Saved(v) = Saved(w) => v = w
                                    /\ Saved(v) # <<>> /\ Len(Saved(v)) = 2
BY DEF Saved

LEMMA SavedIsData ==
  ASSUME NEW v \in 0..MaxValue
  PROVE  Saved(v) \in Seq(Halves) /\ Len(Saved(v)) = 2 /\ Saved(v)[1] \in Halves
<1>1. <<v, 1>> \in Halves /\ <<v, 2>> \in Halves
  BY DEF Halves
<1> QED
  BY <1>1 DEF Saved

\* A database that is whole is loaded as the value it was saved for.
ReadsBack ==
  /\ \A v \in 0..MaxValue : path # 0 /\ file[path].data = Saved(v) => Whole(path) /\ OnDisk = v
  /\ Whole(path) => OnDisk \in 0..MaxValue /\ file[path].data = Saved(OnDisk)
  /\ ~Whole(path) => OnDisk = -1

LEMMA DiskFacts == ReadsBack
BY SavedIsInjective DEF ReadsBack, OnDisk, Whole

\* The same of the state after a step.
LEMMA DiskFactsNext == ReadsBack'
BY DiskFacts, PTL

\* What is on the disk depends on the file that has the database's name.
LEMMA DiskUnchanged ==
  ASSUME path' = path, path # 0 => file'[path] = file[path]
  PROVE  /\ OnDisk' = OnDisk /\ (Whole(path)' <=> Whole(path))
         /\ DiskWhole' <=> (path # 0 /\ ~overlap' /\ ~faulty' => Whole(path))
BY DEF OnDisk, Whole, DiskWhole

-----------------------------------------------------------------------------
LEMMA InitIInv == BoundsAreNat /\ Init => IInv
<1> SUFFICES ASSUME BoundsAreNat, Init PROVE IInv
  OBVIOUS
<1> USE DEF Init
<1>0. 0 \in 0..MaxValue /\ 0 \in 0..MaxStarts
  BY DEF BoundsAreNat
<1>1. PICK old \in BOOLEAN :
        file = [f \in Files |-> IF f = path THEN [old |-> old, data |-> Saved(0)] ELSE Empty]
  OBVIOUS
<1>d. \A f \in Files : file[f] = IF f = path THEN [old |-> old, data |-> Saved(0)] ELSE Empty
  BY <1>1
<1>e. Empty = [old |-> FALSE, data |-> <<>>]
  BY DEF Empty
<1>f. \A f \in Files : file[f].old \in BOOLEAN /\ file[f].data \in {<<>>, Saved(0)}
                       /\ (file[f].old => f = path)
  <2> SUFFICES ASSUME NEW f \in Files
               PROVE  /\ file[f].old \in BOOLEAN /\ file[f].data \in {<<>>, Saved(0)}
                      /\ file[f].old => f = path
    OBVIOUS
  <2>1. CASE f = path
    BY <1>d, <2>1
  <2>2. CASE f # path
    <3>1. file[f] = [old |-> FALSE, data |-> <<>>]
      BY <1>d, <1>e, <2>2
    <3>2. file[f].old = FALSE /\ file[f].data = <<>>
      BY <3>1
    <3> QED
      BY <3>2, Zenon
  <2> QED
    BY <2>1, <2>2
<1>2. file \in [Files -> [old : BOOLEAN, data : Seq(Halves)]]
  <2>1. [old |-> old, data |-> Saved(0)] \in [old : BOOLEAN, data : Seq(Halves)]
    BY <1>0, SavedIsData
  <2>2. Empty \in [old : BOOLEAN, data : Seq(Halves)]
    BY <1>e
  <2> QED
    BY <1>1, <2>1, <2>2
<1>3. Typed
  <2>1. \A f \in Files : file[f].old \in BOOLEAN /\ Len(file[f].data) <= 2
    <3>1. Len(Saved(0)) = 2 /\ Len(<<>>) = 0
      BY <1>0, SavedIsData
    <3>2. \A f \in Files : Len(file[f].data) <= 2
      <4> SUFFICES ASSUME NEW f \in Files PROVE Len(file[f].data) <= 2
        OBVIOUS
      <4>1. CASE file[f].data = <<>>
        <5>1. Len(file[f].data) = 0
          BY <3>1, <4>1, Zenon
        <5> QED
          BY <5>1
      <4>2. CASE file[f].data = Saved(0)
        <5>1. Len(file[f].data) = 2
          BY <3>1, <4>2, Zenon
        <5> QED
          BY <5>1
      <4> QED
        BY <1>f, <4>1, <4>2, Zenon
    <3> QED
      BY <1>f, <3>2, Zenon
  <2>2. /\ value \in 0..MaxValue /\ snap \in [Syncers -> 0..MaxValue] /\ asked \in 0..MaxValue
        /\ starts \in 0..MaxStarts
    BY <1>0
  <2>3. /\ path \in {0} \cup Files /\ new \in {0} \cup Files /\ fd \in [Syncers -> {0} \cup Files]
        /\ backup \in {"none", "partial", "whole"}
        /\ writer \in [Writers -> {"idle", "marked"}]
        /\ sync \in [Syncers -> {"idle", "lock", "open", "write", "rest", "rename"}]
    BY DEF Files
  <2>4. readonly \in BOOLEAN /\ dirty \in BOOLEAN /\ overlap \in BOOLEAN /\ faulty \in BOOLEAN
    OBVIOUS
  <2>5. {readonly, dirty, overlap, faulty} \subseteq BOOLEAN
    BY <2>4
  <2> QED
    BY <1>2, <2>1, <2>2, <2>3, <2>4, <2>5 DEF Typed, TypeOK
<1>4. path # 0 => Whole(path) /\ OnDisk = 0
  BY <1>0, DiskFacts DEF ReadsBack, Files
<1>5. Savers /\ WhatIsWritten /\ Alone /\ Backups
  BY DEF Savers, WhatIsWritten, Locked, Alone, Backups, Syncers
<1>8. StartsAgain /\ Behind
  BY DEF StartsAgain, Behind
<1>7. Names
  <2>1. \A f \in Files : \A s \in Syncers : fd[s] # f
    BY DEF Files
  <2> QED
    BY <1>f, <2>1 DEF Names
<1>6. DiskWhole
  BY <1>4 DEF DiskWhole
<1> QED
  BY <1>3, <1>5, <1>6, <1>7, <1>8 DEF IInv
-----------------------------------------------------------------------------
(* Steps that touch no file *)

LEMMA StartingKeepsIInv == IInv /\ (Start \/ Created \/ Load \/ BackUp \/ BackedUp) => IInv'
<1> SUFFICES ASSUME IInv, (Start \/ Created \/ Load \/ BackUp \/ BackedUp) PROVE IInv'
  OBVIOUS
<1>0. BoundsAreNat /\ BoundsAreNat'
  BY DEF IInv, BoundsAreNat
<1>f. UNCHANGED <<file, path, new>>
  BY DEF Start, Created, Load, BackUp, BackedUp
<1>d. /\ OnDisk' = OnDisk /\ (Whole(path)' <=> Whole(path))
      /\ DiskWhole' <=> (path # 0 /\ ~overlap' /\ ~faulty' => Whole(path))
  BY <1>f, DiskUnchanged
<1>1. Typed'
  <2>1. /\ main' \in {"down", "create", "load", "backup", "copying", "up", "final",
                      "exited", "refused"}
        /\ writer' \in [Writers -> {"idle", "marked"}]
        /\ sync' \in [Syncers -> {"idle", "lock", "open", "write", "rest", "rename"}]
        /\ backup' \in {"none", "partial", "whole"}
    BY DEF IInv, Typed, TypeOK, Start, Created, Load, BackUp, BackedUp
  <2>2. /\ value' \in 0..MaxValue /\ snap' \in [Syncers -> 0..MaxValue]
        /\ asked' \in 0..MaxValue /\ starts' \in 0..MaxStarts
    BY <1>0, <1>d, DiskFacts DEF IInv, Typed, TypeOK, BoundsAreNat, ReadsBack, Start, Created,
       Load, BackUp, BackedUp
  <2>3. path' \in {0} \cup Files /\ new' \in {0} \cup Files
        /\ fd' \in [Syncers -> {0} \cup Files]
    BY DEF IInv, Typed, TypeOK, Start, Created, Load, BackUp, BackedUp
  <2>4. readonly' \in BOOLEAN /\ dirty' \in BOOLEAN /\ overlap' \in BOOLEAN /\ faulty' \in BOOLEAN
    BY DEF IInv, Typed, Start, Created, Load, BackUp, BackedUp
  <2>5. \A f \in Files : file'[f].old \in BOOLEAN /\ Len(file'[f].data) <= 2
    BY <1>f DEF IInv, Typed, TypeOK
  <2>6. file' \in [Files -> [old : BOOLEAN, data : Seq(Halves)]]
    BY <1>f DEF IInv, Typed
  <2>7. {readonly', dirty', overlap', faulty'} \subseteq BOOLEAN
    BY <2>4
  <2> QED
    BY <2>1, <2>2, <2>3, <2>4, <2>5, <2>6, <2>7 DEF Typed, TypeOK, Halves
<1>2. Savers'
  BY DEF IInv, Typed, TypeOK, Savers, Locked, Syncers, Start, Created, Load, BackUp, BackedUp
<1>3. WhatIsWritten'
  BY <1>f DEF IInv, Typed, TypeOK, Savers, WhatIsWritten, Current, Locked, Start, Created, Load,
     BackUp, BackedUp
<1>4. Names'
  BY <1>f DEF IInv, Typed, TypeOK, Names, Files, Start, Created, Load, BackUp, BackedUp
<1>5. Behind'
  <2>1. main' \notin {"down", "load", "refused"} => OnDisk' <= value'
    BY <1>0, <1>d, DiskFacts DEF IInv, Typed, TypeOK, Savers, Behind, ReadsBack, Whole,
       BoundsAreNat, Start, Created, Load, BackUp, BackedUp
  <2>2. main' \notin {"final", "exited"} => asked' = 0
    BY DEF IInv, Behind, Start, Created, Load, BackUp, BackedUp
  <2>3. asked' <= value' \/ main' \in {"down", "load", "refused"}
    BY <1>0, <1>d, DiskFacts DEF IInv, Typed, TypeOK, Behind, BoundsAreNat, ReadsBack, Start,
       Created, Load, BackUp, BackedUp
  <2>4. main' = "final" /\ sync'["main"] = "idle" /\ ~readonly' /\ ~overlap' /\ ~faulty'
         => OnDisk' >= asked'
    BY <1>0, <1>d DEF IInv, Typed, TypeOK, Behind, Syncers, Start, Created, Load, BackUp, BackedUp
  <2> QED
    BY <2>1, <2>2, <2>3, <2>4 DEF Behind
<1>6. Alone'
  BY <1>f DEF IInv, Typed, TypeOK, Savers, Alone, Locked, Start, Created, Load, BackUp, BackedUp
<1>7. Backups'
  BY <1>f DEF IInv, Typed, Backups, Whole, Start, Created, Load, BackUp, BackedUp
<1>8. DiskWhole' /\ StartsAgain'
  BY <1>d, <1>f DEF IInv, DiskWhole, StartsAgain, Backups, Start, Created, Load, BackUp, BackedUp
<1> QED
  BY <1>0, <1>1, <1>2, <1>3, <1>4, <1>5, <1>6, <1>7, <1>8 DEF IInv

LEMMA WorkingKeepsIInv == IInv /\ (\/ \E w \in Writers : Mark(w) \/ Modify(w)
        \/ BackgroundSync \/ ConsoleSync \/ Shutdown \/ Exit) => IInv'
<1> SUFFICES ASSUME IInv, (\/ \E w \in Writers : Mark(w) \/ Modify(w)
        \/ BackgroundSync \/ ConsoleSync \/ Shutdown \/ Exit) PROVE IInv'
  OBVIOUS
<1>0. BoundsAreNat /\ BoundsAreNat'
  BY DEF IInv, BoundsAreNat
<1>f. UNCHANGED <<file, path, new>>
  BY DEF Mark, Modify,
    BackgroundSync, ConsoleSync, SyncGoes, Shutdown, Exit
<1>d. /\ OnDisk' = OnDisk /\ (Whole(path)' <=> Whole(path))
      /\ DiskWhole' <=> (path # 0 /\ ~overlap' /\ ~faulty' => Whole(path))
  BY <1>f, DiskUnchanged
<1>1. Typed'
  <2>1. /\ main' \in {"down", "create", "load", "backup", "copying", "up", "final",
                      "exited", "refused"}
        /\ writer' \in [Writers -> {"idle", "marked"}]
        /\ sync' \in [Syncers -> {"idle", "lock", "open", "write", "rest", "rename"}]
        /\ backup' \in {"none", "partial", "whole"}
    BY DEF IInv, Typed, TypeOK, Mark, Modify,
    BackgroundSync, ConsoleSync, SyncGoes, Shutdown, Exit
  <2>2. /\ value' \in 0..MaxValue /\ snap' \in [Syncers -> 0..MaxValue]
        /\ asked' \in 0..MaxValue /\ starts' \in 0..MaxStarts
    BY <1>0, <1>d, DiskFacts DEF IInv, Typed, TypeOK, BoundsAreNat, ReadsBack, Mark, Modify,
    BackgroundSync, ConsoleSync, SyncGoes, Shutdown, Exit
  <2>3. path' \in {0} \cup Files /\ new' \in {0} \cup Files
        /\ fd' \in [Syncers -> {0} \cup Files]
    BY DEF IInv, Typed, TypeOK, Mark, Modify,
    BackgroundSync, ConsoleSync, SyncGoes, Shutdown, Exit
  <2>4. readonly' \in BOOLEAN /\ dirty' \in BOOLEAN /\ overlap' \in BOOLEAN /\ faulty' \in BOOLEAN
    BY DEF IInv, Typed, Mark, Modify,
    BackgroundSync, ConsoleSync, SyncGoes, Shutdown, Exit
  <2>5. \A f \in Files : file'[f].old \in BOOLEAN /\ Len(file'[f].data) <= 2
    BY <1>f DEF IInv, Typed, TypeOK
  <2>6. file' \in [Files -> [old : BOOLEAN, data : Seq(Halves)]]
    BY <1>f DEF IInv, Typed
  <2>7. {readonly', dirty', overlap', faulty'} \subseteq BOOLEAN
    BY <2>4
  <2> QED
    BY <2>1, <2>2, <2>3, <2>4, <2>5, <2>6, <2>7 DEF Typed, TypeOK, Halves
<1>2. Savers'
  BY DEF IInv, Typed, TypeOK, Savers, Locked, Syncers, Mark, Modify,
    BackgroundSync, ConsoleSync, SyncGoes, Shutdown, Exit
<1>3. WhatIsWritten'
  BY <1>f DEF IInv, Typed, TypeOK, Savers, WhatIsWritten, Current, Locked, Mark, Modify,
    BackgroundSync, ConsoleSync, SyncGoes, Shutdown, Exit
<1>4. Names'
  BY <1>f DEF IInv, Typed, TypeOK, Names, Files, Mark, Modify,
    BackgroundSync, ConsoleSync, SyncGoes, Shutdown, Exit
<1>5. Behind'
  <2>1. main' \notin {"down", "load", "refused"} => OnDisk' <= value'
    BY <1>0, <1>d, DiskFacts DEF IInv, Typed, TypeOK, Savers, Behind, ReadsBack, Whole,
       BoundsAreNat, Mark, Modify,
    BackgroundSync, ConsoleSync, SyncGoes, Shutdown, Exit
  <2>2. main' \notin {"final", "exited"} => asked' = 0
    BY DEF IInv, Behind, Mark, Modify,
    BackgroundSync, ConsoleSync, SyncGoes, Shutdown, Exit
  <2>3. asked' <= value' \/ main' \in {"down", "load", "refused"}
    BY <1>0, <1>d, DiskFacts DEF IInv, Typed, TypeOK, Behind, BoundsAreNat, ReadsBack, Mark,
       Modify,
    BackgroundSync, ConsoleSync, SyncGoes, Shutdown, Exit
  <2>4. main' = "final" /\ sync'["main"] = "idle" /\ ~readonly' /\ ~overlap' /\ ~faulty'
         => OnDisk' >= asked'
    BY <1>0, <1>d DEF IInv, Typed, TypeOK, Behind, Syncers, Mark, Modify,
    BackgroundSync, ConsoleSync, SyncGoes, Shutdown, Exit
  <2> QED
    BY <2>1, <2>2, <2>3, <2>4 DEF Behind
<1>6. Alone'
  <2>0. sync' = sync \/ \E r \in Syncers : sync[r] = "idle" /\ sync' = [sync EXCEPT ![r] = "lock"]
    BY DEF IInv, Savers, Syncers, Mark, Modify, BackgroundSync, ConsoleSync, SyncGoes, Shutdown,
       Exit
  <2>1. \A s \in Syncers : /\ Locked(s)' <=> Locked(s)
                           /\ sync'[s] = "rest" => sync[s] = "rest"
                           /\ sync'[s] = "rename" => sync[s] = "rename"
    <3>1. sync \in [Syncers -> {"idle", "lock", "open", "write", "rest", "rename"}]
      BY DEF IInv, Typed, TypeOK
    <3> QED
      BY <2>0, <3>1 DEF Locked
  <2>2. (overlap <=> overlap') /\ (faulty <=> faulty') /\ fd' = fd /\ snap' = snap
      /\ file' = file /\ new' = new
    BY <1>f DEF IInv, Typed, Mark, Modify, BackgroundSync, ConsoleSync, SyncGoes, Shutdown, Exit
  <2>3. ~overlap' => \A s, t \in Syncers : Locked(s)' /\ Locked(t)' => s = t
    BY <2>1, <2>2 DEF IInv, Alone
  <2>5. ~overlap' => \A s \in Syncers : fd'[s] # 0 => fd'[s] = new'
    BY <2>1, <2>2 DEF IInv, Alone
  <2>4. \A s \in Syncers : /\ sync'[s] = "rest" => faulty'
                           /\ sync'[s] = "rename" /\ ~overlap' /\ ~faulty'
                                => file'[fd'[s]].data = Saved(snap'[s])
    BY <2>1, <2>2 DEF IInv, Alone
  <2> QED
    BY <2>3, <2>4, <2>5 DEF Alone
<1>7. Backups'
  BY <1>f DEF IInv, Typed, Backups, Whole, Mark, Modify,
    BackgroundSync, ConsoleSync, SyncGoes, Shutdown, Exit
<1>8. DiskWhole' /\ StartsAgain'
  BY <1>d, <1>f DEF IInv, DiskWhole, StartsAgain, Backups, Mark, Modify,
    BackgroundSync, ConsoleSync, SyncGoes, Shutdown, Exit
<1> QED
  BY <1>0, <1>1, <1>2, <1>3, <1>4, <1>5, <1>6, <1>7, <1>8 DEF IInv

LEMMA LockKeepsIInv == IInv /\ (\E s \in Syncers : LockAndSerialise(s)) => IInv'
<1> SUFFICES ASSUME IInv, (\E s \in Syncers : LockAndSerialise(s)) PROVE IInv'
  OBVIOUS
<1>0. BoundsAreNat /\ BoundsAreNat'
  BY DEF IInv, BoundsAreNat
<1>f. UNCHANGED <<file, path, new>>
  BY DEF LockAndSerialise, SyncGoes
<1>d. /\ OnDisk' = OnDisk /\ (Whole(path)' <=> Whole(path))
      /\ DiskWhole' <=> (path # 0 /\ ~overlap' /\ ~faulty' => Whole(path))
  BY <1>f, DiskUnchanged
<1>1. Typed'
  <2>1. /\ main' \in {"down", "create", "load", "backup", "copying", "up", "final",
                      "exited", "refused"}
        /\ writer' \in [Writers -> {"idle", "marked"}]
        /\ sync' \in [Syncers -> {"idle", "lock", "open", "write", "rest", "rename"}]
        /\ backup' \in {"none", "partial", "whole"}
    BY DEF IInv, Typed, TypeOK, LockAndSerialise, SyncGoes
  <2>2. /\ value' \in 0..MaxValue /\ snap' \in [Syncers -> 0..MaxValue]
        /\ asked' \in 0..MaxValue /\ starts' \in 0..MaxStarts
    BY <1>0, <1>d, DiskFacts DEF IInv, Typed, TypeOK, BoundsAreNat, ReadsBack, LockAndSerialise,
       SyncGoes
  <2>3. path' \in {0} \cup Files /\ new' \in {0} \cup Files
        /\ fd' \in [Syncers -> {0} \cup Files]
    BY DEF IInv, Typed, TypeOK, LockAndSerialise, SyncGoes
  <2>4. readonly' \in BOOLEAN /\ dirty' \in BOOLEAN /\ overlap' \in BOOLEAN /\ faulty' \in BOOLEAN
    BY DEF IInv, Typed, LockAndSerialise, SyncGoes
  <2>5. \A f \in Files : file'[f].old \in BOOLEAN /\ Len(file'[f].data) <= 2
    BY <1>f DEF IInv, Typed, TypeOK
  <2>6. file' \in [Files -> [old : BOOLEAN, data : Seq(Halves)]]
    BY <1>f DEF IInv, Typed
  <2>7. {readonly', dirty', overlap', faulty'} \subseteq BOOLEAN
    BY <2>4
  <2> QED
    BY <2>1, <2>2, <2>3, <2>4, <2>5, <2>6, <2>7 DEF Typed, TypeOK, Halves
<1>2. Savers'
  BY DEF IInv, Typed, TypeOK, Savers, Locked, Syncers, LockAndSerialise, SyncGoes
<1>3. WhatIsWritten'
  BY <1>f DEF IInv, Typed, TypeOK, Savers, WhatIsWritten, Current, Locked, LockAndSerialise,
     SyncGoes
<1>4. Names'
  BY <1>f DEF IInv, Typed, TypeOK, Names, Files, LockAndSerialise, SyncGoes
<1>5. Behind'
  <2>1. main' \notin {"down", "load", "refused"} => OnDisk' <= value'
    BY <1>0, <1>d, DiskFacts DEF IInv, Typed, TypeOK, Savers, Behind, ReadsBack, Whole,
       BoundsAreNat, LockAndSerialise, SyncGoes
  <2>2. main' \notin {"final", "exited"} => asked' = 0
    BY DEF IInv, Behind, LockAndSerialise, SyncGoes
  <2>3. asked' <= value' \/ main' \in {"down", "load", "refused"}
    BY <1>0, <1>d, DiskFacts DEF IInv, Typed, TypeOK, Behind, BoundsAreNat, ReadsBack,
       LockAndSerialise, SyncGoes
  <2>4. main' = "final" /\ sync'["main"] = "idle" /\ ~readonly' /\ ~overlap' /\ ~faulty'
         => OnDisk' >= asked'
    BY <1>0, <1>d DEF IInv, Typed, TypeOK, Behind, Syncers, LockAndSerialise, SyncGoes
  <2> QED
    BY <2>1, <2>2, <2>3, <2>4 DEF Behind
<1>6. Alone'
  <2>1. \A s \in Syncers : /\ sync'[s] = "rest" => sync[s] = "rest"
                           /\ sync'[s] = "rename" => sync[s] = "rename" /\ snap'[s] = snap[s]
    BY DEF IInv, Typed, TypeOK, LockAndSerialise, SyncGoes
  <2>2. fd' = fd /\ faulty' = faulty /\ (overlap => overlap') /\ file' = file /\ new' = new
    BY <1>f DEF LockAndSerialise, SyncGoes
  <2>3. ~overlap' => \A s, t \in Syncers : Locked(s)' /\ Locked(t)' => s = t
    <3>1. PICK r \in Syncers : LockAndSerialise(r)
      OBVIOUS
    <3>2. \A s \in Syncers : s # r => (Locked(s)' <=> Locked(s))
      BY <3>1 DEF IInv, Typed, TypeOK, Locked, LockAndSerialise, SyncGoes
    <3>3. CASE readonly
      <4>1. ~Locked(r)' /\ (overlap' <=> overlap)
        BY <3>1, <3>3 DEF IInv, Typed, TypeOK, Locked, LockAndSerialise, SyncGoes
      <4> QED
        BY <3>2, <4>1 DEF IInv, Alone
    <3>4. CASE ~readonly
      <4>1. ~overlap' => \A s \in Syncers : ~Locked(s)
        BY <3>1, <3>4 DEF LockAndSerialise
      <4> QED
        BY <3>2, <4>1
    <3> QED
      BY <3>3, <3>4
  <2>4. ~overlap' => \A s \in Syncers : fd'[s] # 0 => fd'[s] = new'
    BY <2>2 DEF IInv, Alone
  <2>5. \A s \in Syncers : /\ sync'[s] = "rest" => faulty'
                           /\ sync'[s] = "rename" /\ ~overlap' /\ ~faulty'
                                => file'[fd'[s]].data = Saved(snap'[s])
    BY <2>1, <2>2 DEF IInv, Alone
  <2> QED
    BY <2>3, <2>4, <2>5 DEF Alone
<1>7. Backups'
  BY <1>f DEF IInv, Typed, Backups, Whole, LockAndSerialise, SyncGoes
<1>8. DiskWhole' /\ StartsAgain'
  <2>1. UNCHANGED <<main, faulty, backup>> /\ (overlap => overlap')
    BY DEF LockAndSerialise, SyncGoes
  <2> QED
    BY <1>d, <1>f, <2>1 DEF IInv, DiskWhole, StartsAgain
<1> QED
  BY <1>0, <1>1, <1>2, <1>3, <1>4, <1>5, <1>6, <1>7, <1>8 DEF IInv

LEMMA CrashKeepsIInv == IInv /\ Crash => IInv'
<1> SUFFICES ASSUME IInv, Crash PROVE IInv'
  OBVIOUS
<1>0. BoundsAreNat /\ BoundsAreNat'
  BY DEF IInv, BoundsAreNat
<1>f. UNCHANGED <<file, path, new>>
  BY DEF Crash
<1>d. /\ OnDisk' = OnDisk /\ (Whole(path)' <=> Whole(path))
      /\ DiskWhole' <=> (path # 0 /\ ~overlap' /\ ~faulty' => Whole(path))
  BY <1>f, DiskUnchanged
<1>1. Typed'
  <2>1. /\ main' \in {"down", "create", "load", "backup", "copying", "up", "final",
                      "exited", "refused"}
        /\ writer' \in [Writers -> {"idle", "marked"}]
        /\ sync' \in [Syncers -> {"idle", "lock", "open", "write", "rest", "rename"}]
        /\ backup' \in {"none", "partial", "whole"}
    BY DEF IInv, Typed, TypeOK, Crash
  <2>2. /\ value' \in 0..MaxValue /\ snap' \in [Syncers -> 0..MaxValue]
        /\ asked' \in 0..MaxValue /\ starts' \in 0..MaxStarts
    BY <1>0, <1>d, DiskFacts DEF IInv, Typed, TypeOK, BoundsAreNat, ReadsBack, Crash
  <2>3. path' \in {0} \cup Files /\ new' \in {0} \cup Files
        /\ fd' \in [Syncers -> {0} \cup Files]
    BY DEF IInv, Typed, TypeOK, Crash
  <2>4. readonly' \in BOOLEAN /\ dirty' \in BOOLEAN /\ overlap' \in BOOLEAN /\ faulty' \in BOOLEAN
    BY DEF IInv, Typed, Crash
  <2>5. \A f \in Files : file'[f].old \in BOOLEAN /\ Len(file'[f].data) <= 2
    BY <1>f DEF IInv, Typed, TypeOK
  <2>6. file' \in [Files -> [old : BOOLEAN, data : Seq(Halves)]]
    BY <1>f DEF IInv, Typed
  <2>7. {readonly', dirty', overlap', faulty'} \subseteq BOOLEAN
    BY <2>4
  <2> QED
    BY <2>1, <2>2, <2>3, <2>4, <2>5, <2>6, <2>7 DEF Typed, TypeOK, Halves
<1>2. Savers'
  BY DEF IInv, Typed, TypeOK, Savers, Locked, Syncers, Crash
<1>3. WhatIsWritten'
  BY <1>f DEF IInv, Typed, TypeOK, Savers, WhatIsWritten, Current, Locked, Crash
<1>4. Names'
  BY <1>f DEF IInv, Typed, TypeOK, Names, Files, Crash
<1>5. Behind'
  <2>1. main' \notin {"down", "load", "refused"} => OnDisk' <= value'
    BY <1>0, <1>d, DiskFacts DEF IInv, Typed, TypeOK, Savers, Behind, ReadsBack, Whole,
       BoundsAreNat, Crash
  <2>2. main' \notin {"final", "exited"} => asked' = 0
    BY DEF IInv, Behind, Crash
  <2>3. asked' <= value' \/ main' \in {"down", "load", "refused"}
    BY <1>0, <1>d, DiskFacts DEF IInv, Typed, TypeOK, Behind, BoundsAreNat, ReadsBack, Crash
  <2>4. main' = "final" /\ sync'["main"] = "idle" /\ ~readonly' /\ ~overlap' /\ ~faulty'
         => OnDisk' >= asked'
    BY <1>0, <1>d DEF IInv, Typed, TypeOK, Behind, Syncers, Crash
  <2> QED
    BY <2>1, <2>2, <2>3, <2>4 DEF Behind
<1>6. Alone'
  BY <1>f DEF IInv, Typed, TypeOK, Savers, Alone, Locked, Crash
<1>7. Backups'
  BY <1>f DEF IInv, Typed, Backups, Whole, Crash
<1>8. DiskWhole' /\ StartsAgain'
  BY <1>d, <1>f DEF IInv, DiskWhole, StartsAgain, Backups, Crash
<1> QED
  BY <1>0, <1>1, <1>2, <1>3, <1>4, <1>5, <1>6, <1>7, <1>8 DEF IInv

LEMMA SyncFailsKeepsIInv == IInv /\ (\E s \in Syncers : SyncFails(s)) => IInv'
<1> SUFFICES ASSUME IInv, (\E s \in Syncers : SyncFails(s)) PROVE IInv'
  OBVIOUS
<1>0. BoundsAreNat /\ BoundsAreNat'
  BY DEF IInv, BoundsAreNat
<1>f. UNCHANGED <<file, path, new>>
  BY DEF SyncFails, EndSync, SyncGoes
<1>d. /\ OnDisk' = OnDisk /\ (Whole(path)' <=> Whole(path))
      /\ DiskWhole' <=> (path # 0 /\ ~overlap' /\ ~faulty' => Whole(path))
  BY <1>f, DiskUnchanged
<1>1. Typed'
  <2>1. /\ main' \in {"down", "create", "load", "backup", "copying", "up", "final",
                      "exited", "refused"}
        /\ writer' \in [Writers -> {"idle", "marked"}]
        /\ sync' \in [Syncers -> {"idle", "lock", "open", "write", "rest", "rename"}]
        /\ backup' \in {"none", "partial", "whole"}
    BY DEF IInv, Typed, TypeOK, SyncFails, EndSync, SyncGoes
  <2>2. /\ value' \in 0..MaxValue /\ snap' \in [Syncers -> 0..MaxValue]
        /\ asked' \in 0..MaxValue /\ starts' \in 0..MaxStarts
    BY <1>0, <1>d, DiskFacts DEF IInv, Typed, TypeOK, BoundsAreNat, ReadsBack, SyncFails,
       EndSync, SyncGoes
  <2>3. path' \in {0} \cup Files /\ new' \in {0} \cup Files
        /\ fd' \in [Syncers -> {0} \cup Files]
    BY DEF IInv, Typed, TypeOK, SyncFails, EndSync, SyncGoes
  <2>4. readonly' \in BOOLEAN /\ dirty' \in BOOLEAN /\ overlap' \in BOOLEAN /\ faulty' \in BOOLEAN
    BY DEF IInv, Typed, SyncFails, EndSync, SyncGoes
  <2>5. \A f \in Files : file'[f].old \in BOOLEAN /\ Len(file'[f].data) <= 2
    BY <1>f DEF IInv, Typed, TypeOK
  <2>6. file' \in [Files -> [old : BOOLEAN, data : Seq(Halves)]]
    BY <1>f DEF IInv, Typed
  <2>7. {readonly', dirty', overlap', faulty'} \subseteq BOOLEAN
    BY <2>4
  <2> QED
    BY <2>1, <2>2, <2>3, <2>4, <2>5, <2>6, <2>7 DEF Typed, TypeOK, Halves
<1>2. Savers'
  BY DEF IInv, Typed, TypeOK, Savers, Locked, Syncers, SyncFails, EndSync, SyncGoes
<1>3. WhatIsWritten'
  BY <1>f DEF IInv, Typed, TypeOK, Savers, WhatIsWritten, Current, Locked, SyncFails, EndSync,
     SyncGoes
<1>4. Names'
  BY <1>f DEF IInv, Typed, TypeOK, Names, Files, SyncFails, EndSync, SyncGoes
<1>5. Behind'
  <2>1. main' \notin {"down", "load", "refused"} => OnDisk' <= value'
    BY <1>0, <1>d, DiskFacts DEF IInv, Typed, TypeOK, Savers, Behind, ReadsBack, Whole,
       BoundsAreNat, SyncFails, EndSync, SyncGoes
  <2>2. main' \notin {"final", "exited"} => asked' = 0
    BY DEF IInv, Behind, SyncFails, EndSync, SyncGoes
  <2>3. asked' <= value' \/ main' \in {"down", "load", "refused"}
    BY <1>0, <1>d, DiskFacts DEF IInv, Typed, TypeOK, Behind, BoundsAreNat, ReadsBack,
       SyncFails, EndSync, SyncGoes
  <2>4. main' = "final" /\ sync'["main"] = "idle" /\ ~readonly' /\ ~overlap' /\ ~faulty'
         => OnDisk' >= asked'
    BY <1>0, <1>d DEF IInv, Typed, TypeOK, Behind, Syncers, SyncFails, EndSync, SyncGoes
  <2> QED
    BY <2>1, <2>2, <2>3, <2>4 DEF Behind
<1>6. Alone'
  BY <1>f DEF IInv, Typed, TypeOK, Savers, Alone, Locked, SyncFails, EndSync, SyncGoes
<1>7. Backups'
  BY <1>f DEF IInv, Typed, Backups, Whole, SyncFails, EndSync, SyncGoes
<1>8. DiskWhole' /\ StartsAgain'
  BY <1>d, <1>f DEF IInv, DiskWhole, StartsAgain, Backups, SyncFails, EndSync, SyncGoes
<1> QED
  BY <1>0, <1>1, <1>2, <1>3, <1>4, <1>5, <1>6, <1>7, <1>8 DEF IInv

-----------------------------------------------------------------------------
(* Steps that touch a file *)

\* The file opened is not the database, and is a new one if there is none beside it.
LEMMA OpensAnother ==
  ASSUME NEW s \in Syncers, IInv, Open(s)
  PROVE  \E f \in Files :
           /\ f # path /\ f # 0
           /\ new = 0 => \A t \in Syncers : fd[t] # f
           /\ new' = f /\ fd' = [fd EXCEPT ![s] = f]
           /\ file' = [file EXCEPT ![f] = Empty]
<1>t. path \in {0} \cup Files /\ new \in {0} \cup Files /\ fd \in [Syncers -> {0} \cup Files]
  BY DEF IInv, Typed, TypeOK
<1>1. CASE new # 0
  BY <1>t, <1>1 DEF IInv, Names, Open
<1>2. CASE new = 0
  <2>1. fd[s] = 0
    BY DEF IInv, Savers, Open
  <2>2. \E f \in Files : f \in Unused
    BY <1>t, <1>2, <2>1 DEF Files, Syncers, Unused
  <2> DEFINE f == CHOOSE f \in Unused : TRUE
  <2>3. f \in Unused
    BY <2>2
  <2>4. f \in Files /\ f # path /\ f # 0 /\ \A t \in Syncers : fd[t] # f
    BY <2>3 DEF Unused, Files
  <2>5. new' = f /\ fd' = [fd EXCEPT ![s] = f] /\ file' = [file EXCEPT ![f] = Empty]
    BY <1>2 DEF Open
  <2> QED
    BY <2>4, <2>5
<1> QED
  BY <1>1, <1>2


\* A thread that saves gives the file f, which it has open then, the contents d: no
\* file of an old version and, unless two save at once, not the database; and it is a
\* database only with the value there is.
Fills(s, f, d, place) ==
  /\ Locked(s) /\ place \in {"write", "rest", "rename"}
  /\ f \in Files /\ d \in Seq(Halves) /\ Len(d) <= 2
  /\ ~file[f].old /\ (overlap \/ f # path)
  /\ \A v \in 0..MaxValue : d = Saved(v) => v = value
  /\ file' \in [Files -> [old : BOOLEAN, data : Seq(Halves)]]
  /\ file'[f].old = FALSE /\ file'[f].data = d
  /\ \A g \in Files : g # f => file'[g] = file[g]
  /\ fd' = [fd EXCEPT ![s] = f]
  /\ new' = f \/ (new' = new /\ fd[s] # 0 /\ overlap)
  /\ new' # 0 => new' # path
  /\ sync' = [sync EXCEPT ![s] = place]
  /\ faulty' \in BOOLEAN /\ (faulty => faulty') /\ (place = "rest" => faulty')
  /\ place = "rename" /\ ~overlap /\ ~faulty' => d = Saved(snap[s])
  /\ UNCHANGED <<main, readonly, value, dirty, writer, snap, path, backup, starts,
                 asked, overlap>>

LEMMA FillsKeepsIInv ==
  ASSUME NEW s \in Syncers, NEW f, NEW d, NEW place, IInv, Fills(s, f, d, place)
  PROVE  IInv'
<1>0. BoundsAreNat'
  BY DEF IInv, BoundsAreNat
<1>t. /\ path \in {0} \cup Files /\ new \in {0} \cup Files /\ fd \in [Syncers -> {0} \cup Files]
      /\ sync \in [Syncers -> {"idle", "lock", "open", "write", "rest", "rename"}]
      /\ file \in [Files -> [old : BOOLEAN, data : Seq(Halves)]] /\ f \in Files /\ f # 0
      /\ value \in 0..MaxValue /\ MaxValue \in Nat
  BY DEF IInv, Typed, TypeOK, BoundsAreNat, Fills, Files
<1>u. /\ main' = main /\ (readonly' <=> readonly) /\ value' = value /\ backup' = backup
      /\ asked' = asked /\ snap' = snap /\ path' = path /\ (overlap' <=> overlap)
  BY DEF IInv, Typed, Fills
<1>x. /\ file'[f].old = FALSE /\ file'[f].data = d
      /\ \A g \in Files : g # f => file'[g] = file[g]
      /\ fd'[s] = f /\ sync'[s] = place
      /\ \A t \in Syncers : t # s => fd'[t] = fd[t] /\ sync'[t] = sync[t]
  BY <1>t DEF Fills
<1>l. /\ Locked(s) /\ \A t \in Syncers : Locked(t)' <=> Locked(t)
      /\ place \in {"write", "rest", "rename"}
  BY <1>x DEF Fills, Locked
<1>o. \A g \in Files : file'[g].old <=> file[g].old
  BY <1>t, <1>x DEF Fills
<1>v. \A v \in 0..MaxValue : d = Saved(v) => v = value
  BY DEF Fills
<1>d. f # path => /\ OnDisk' = OnDisk /\ (Whole(path)' <=> Whole(path))
                  /\ DiskWhole' <=> (path # 0 /\ ~overlap' /\ ~faulty' => Whole(path))
  BY <1>t, <1>u, <1>x, DiskUnchanged
<1>e. ~overlap => f # path
  BY DEF Fills
<1>1. Typed'
  <2>1. /\ file' \in [Files -> [old : BOOLEAN, data : Seq(Halves)]]
        /\ fd' \in [Syncers -> {0} \cup Files] /\ new' \in {0} \cup Files
        /\ sync' \in [Syncers -> {"idle", "lock", "open", "write", "rest", "rename"}]
    BY <1>t DEF Fills
  <2>2. \A g \in Files : file'[g].old \in BOOLEAN /\ Len(file'[g].data) <= 2
    <3>1. Len(file'[f].data) <= 2
      BY <1>x DEF Fills
    <3>2. \A g \in Files : g # f => Len(file'[g].data) <= 2
      BY <1>x DEF IInv, Typed, TypeOK
    <3> QED
      BY <2>1, <3>1, <3>2
  <2>3. readonly' \in BOOLEAN /\ dirty' \in BOOLEAN /\ overlap' \in BOOLEAN /\ faulty' \in BOOLEAN
    BY DEF IInv, Typed, Fills
  <2>4. {readonly', dirty', overlap', faulty'} \subseteq BOOLEAN
    BY <2>3
  <2>5. /\ main' \in {"down", "create", "load", "backup", "copying", "up", "final",
                      "exited", "refused"}
        /\ writer' \in [Writers -> {"idle", "marked"}]
        /\ backup' \in {"none", "partial", "whole"} /\ path' \in {0} \cup Files
        /\ value' \in 0..MaxValue /\ snap' \in [Syncers -> 0..MaxValue]
        /\ asked' \in 0..MaxValue /\ starts' \in 0..MaxStarts
    BY DEF IInv, Typed, TypeOK, Fills
  <2> QED
    BY <2>1, <2>2, <2>3, <2>4, <2>5 DEF Typed, TypeOK, Halves
<1>2. Savers'
  <2>1. \A t \in Syncers : fd'[t] # 0 <=> sync'[t] \in {"write", "rest", "rename"}
    BY <1>t, <1>x, <1>l DEF IInv, Savers
  <2>2. \A t \in Syncers : Locked(t)' => ~readonly'
    BY <1>u, <1>l DEF IInv, Savers
  <2>3. \A t \in Syncers : sync'[t] # "idle" => sync[t] # "idle"
    BY <1>x, <1>l DEF Locked
  <2> QED
    BY <1>u, <2>1, <2>2, <2>3 DEF IInv, Savers, Syncers
<1>3. WhatIsWritten'
  <2>1. \A g \in Files : g = f \/ Current(g) =>
           \A v \in 0..MaxValue : file'[g].data = Saved(v) => v = value'
    BY <1>u, <1>v, <1>x DEF Current
  <2>2. \A t \in Syncers : fd'[t] # 0 => Current(fd[t])'
    <3> SUFFICES ASSUME NEW t \in Syncers, fd'[t] # 0 PROVE Current(fd[t])'
      OBVIOUS
    <3>1. fd'[t] = f \/ Current(fd'[t])
      BY <1>x DEF IInv, WhatIsWritten
    <3>2. fd'[t] \in Files
      BY <1>t, <1>x
    <3> QED
      BY <2>1, <3>1, <3>2 DEF Current
  <2>3. new' # 0 => Current(new)'
    <3> SUFFICES ASSUME new' # 0 PROVE Current(new)'
      OBVIOUS
    <3>1. new' = f \/ Current(new')
      BY DEF IInv, WhatIsWritten, Fills
    <3>2. new' \in Files
      BY <1>t DEF Fills
    <3> QED
      BY <2>1, <3>1, <3>2 DEF Current
  <2>4. \A t \in Syncers : Locked(t)' => snap'[t] = value'
    BY <1>l, <1>u DEF IInv, WhatIsWritten
  <2> QED
    BY <2>2, <2>3, <2>4 DEF WhatIsWritten
<1>4. Names'
  BY <1>t, <1>u, <1>x, <1>o DEF IInv, Names, Fills
<1>5. Behind'
  <2>1. f = path => OnDisk' = -1 \/ OnDisk' = value
    BY <1>t, <1>u, <1>v, <1>x, DiskFactsNext DEF ReadsBack
  <2>2. main' \notin {"down", "load", "refused"} => OnDisk' <= value'
    BY <1>d, <1>t, <1>u, <2>1 DEF IInv, Behind
  <2>3. main' = "final" /\ sync'["main"] = "idle" /\ ~readonly' /\ ~overlap' /\ ~faulty'
         => OnDisk' >= asked'
    BY <1>d, <1>e, <1>l, <1>u, <1>x DEF IInv, Behind, Fills, Syncers
  <2> QED
    BY <1>u, <2>2, <2>3 DEF IInv, Behind
<1>6. Alone'
  <2>1. ~overlap' => \A r, t \in Syncers : Locked(r)' /\ Locked(t)' => r = t
    BY <1>l, <1>u DEF IInv, Alone
  <2>2. ~overlap => \A t \in Syncers : t # s => fd[t] = 0 /\ sync[t] \notin {"rest", "rename"}
    BY <1>l DEF IInv, Alone, Savers, Locked
  <2>3. ~overlap' => \A t \in Syncers : fd'[t] # 0 => fd'[t] = new'
    BY <1>u, <1>x, <2>2 DEF Fills
  <2>4. \A t \in Syncers : sync'[t] = "rest" => faulty'
    BY <1>x DEF IInv, Alone, Fills
  <2>5. \A t \in Syncers : sync'[t] = "rename" /\ ~overlap' /\ ~faulty'
                             => file'[fd'[t]].data = Saved(snap'[t])
    BY <1>u, <1>x, <2>2 DEF Fills
  <2> QED
    BY <2>1, <2>3, <2>4, <2>5 DEF Alone
<1>7. Backups'
  BY <1>t, <1>o, <1>u DEF IInv, Backups
<1>8. DiskWhole'
  BY <1>d, <1>e, <1>u DEF IInv, DiskWhole, Fills
<1>9. StartsAgain'
  BY <1>t, <1>o, <1>u DEF IInv, StartsAgain, Fills
<1> QED
  BY <1>0, <1>1, <1>2, <1>3, <1>4, <1>5, <1>6, <1>7, <1>8, <1>9 DEF IInv

\* A step that changes what is on the disk puts there what is in memory, or what no
\* process loads; the database stays there, and one of an old version is replaced when
\* it has its backup.
DiskStep ==
  /\ OnDisk' = OnDisk \/ (OnDisk <= value /\ OnDisk' \in {-1, value})
  /\ path # 0 => path' # 0
  /\ path # 0 /\ file[path].old /\ path' # path => backup = "whole"

LEMMA SameDisk ==
  ASSUME path' = path, path # 0 => file'[path] = file[path]
  PROVE  DiskStep
BY DiskUnchanged DEF DiskStep

LEMMA FillsDisk ==
  ASSUME NEW s \in Syncers, NEW f, NEW d, NEW place, IInv, Fills(s, f, d, place)
  PROVE  DiskStep
<1>1. path' = path /\ path \in {0} \cup Files /\ f \in Files /\ f # 0
  BY DEF IInv, Typed, TypeOK, Fills, Files
<1>2. CASE f # path
  BY <1>1, <1>2, SameDisk DEF Fills
<1>3. CASE f = path
  <2>1. OnDisk' = -1 \/ OnDisk' = value
    BY <1>1, <1>3, DiskFactsNext DEF ReadsBack, Fills
  <2>2. OnDisk <= value
    BY DEF IInv, Savers, Behind, Fills, Locked
  <2> QED
    BY <1>1, <2>1, <2>2 DEF DiskStep
<1> QED
  BY <1>2, <1>3

LEMMA OpenKeepsIInv ==
  ASSUME NEW s \in Syncers, IInv, Open(s)
  PROVE  IInv' /\ DiskStep
<1>f. PICK f \in Files : /\ f # path /\ f # 0
                         /\ new = 0 => \A t \in Syncers : fd[t] # f
                         /\ new' = f /\ fd' = [fd EXCEPT ![s] = f]
                         /\ file' = [file EXCEPT ![f] = Empty]
  BY OpensAnother
<1>1. Empty = [old |-> FALSE, data |-> <<>>] /\ <<>> \in Seq(Halves) /\ Len(<<>>) <= 2
  BY DEF Empty
<1>2. ~file[f].old
  BY <1>f DEF IInv, Names
<1>3. \A v \in 0..MaxValue : <<>> = Saved(v) => v = value
  BY SavedIsInjective
<1>4. sync[s] = "open" /\ sync' = [sync EXCEPT ![s] = "write"] /\ faulty' = faulty
  BY DEF Open, SyncGoes
<1>5. UNCHANGED <<main, readonly, value, dirty, writer, snap, path, backup, starts,
                    asked, overlap>>
  BY DEF Open, SyncGoes
<1>6. Fills(s, f, <<>>, "write")
  BY <1>f, <1>1, <1>2, <1>3, <1>4, <1>5 DEF Fills, Locked, IInv, Typed
<1> QED
  BY <1>6, FillsKeepsIInv, FillsDisk

\* A half that is put into a file is there, and the rest of the file are halves and holes.
LEMMA PutAtIsData ==
  ASSUME NEW data \in Seq(Halves), Len(data) <= 2, NEW i \in {1, 2}, NEW half \in Halves
  PROVE  LET d == PutAt(data, i, half) IN
           d \in Seq(Halves) /\ Len(d) <= 2 /\ d[i] = half
<1> DEFINE d == PutAt(data, i, half)
           n == IF i > Len(data) THEN i ELSE Len(data)
<1>1. Len(data) \in Nat /\ DOMAIN data = 1..Len(data) /\ \A j \in 1..Len(data) : data[j] \in Halves
  OBVIOUS
<1>2. n \in Nat /\ n <= 2 /\ i \in 1..n
  BY <1>1
<1>3. d = [j \in 1..n |-> IF j = i THEN half ELSE IF j \in DOMAIN data THEN data[j] ELSE <<>>]
  BY DEF PutAt
<1>4. \A j \in 1..n : d[j] \in Halves
  <2>1. <<>> \in Halves
    BY DEF Halves
  <2> HIDE DEF d, n
  <2> QED
    BY <1>1, <1>3, <2>1
<1>5. d[i] = half
  <2> HIDE DEF d, n
  <2> QED
    BY <1>2, <1>3
<1>6. d \in Seq(Halves) /\ Len(d) = n
  <2> HIDE DEF d, n
  <2>1. d \in [1..n -> Halves]
    BY <1>3, <1>4
  <2> QED
    BY <1>2, <2>1, LenProperties, SeqDef
<1> QED
  BY <1>2, <1>5, <1>6

\* A file that is written into is open, no database unless two save at once, and stays
\* what it is but for what is in it.
LEMMA Writes ==
  ASSUME NEW s \in Syncers, IInv, sync[s] \in {"write", "rest"},
         NEW d, file' = [file EXCEPT ![fd[s]].data = d]
  PROVE  /\ Locked(s) /\ fd[s] \in Files /\ fd[s] # 0 /\ ~file[fd[s]].old
         /\ file[fd[s]].data \in Seq(Halves) /\ Len(file[fd[s]].data) <= 2
         /\ (overlap \/ (fd[s] = new /\ new # path)) /\ (new # 0 => new # path)
         /\ snap[s] = value /\ value \in 0..MaxValue /\ faulty \in BOOLEAN
         /\ d \in Seq(Halves) => file' \in [Files -> [old : BOOLEAN, data : Seq(Halves)]]
         /\ file'[fd[s]].old = FALSE /\ file'[fd[s]].data = d
         /\ \A g \in Files : g # fd[s] => file'[g] = file[g]
         /\ fd = [fd EXCEPT ![s] = fd[s]]
<1>t. /\ fd \in [Syncers -> {0} \cup Files] /\ faulty \in BOOLEAN /\ value \in 0..MaxValue
      /\ file \in [Files -> [old : BOOLEAN, data : Seq(Halves)]]
      /\ \A f \in Files : Len(file[f].data) <= 2
  BY DEF IInv, Typed, TypeOK
<1>1. Locked(s) /\ fd[s] # 0 /\ fd[s] \in Files /\ snap[s] = value
  BY <1>t DEF IInv, Savers, WhatIsWritten, Locked
<1>2. file[fd[s]].old = FALSE
  BY <1>t, <1>1 DEF IInv, Names
<1>3. overlap \/ (fd[s] = new /\ new # path)
  BY <1>1 DEF IInv, Alone, Names
<1>4. /\ file'[fd[s]].old = FALSE /\ file'[fd[s]].data = d
      /\ \A g \in Files : g # fd[s] => file'[g] = file[g]
  BY <1>t, <1>1, <1>2
<1>5. ASSUME d \in Seq(Halves)
      PROVE  file' \in [Files -> [old : BOOLEAN, data : Seq(Halves)]]
  BY <1>t, <1>1, <1>5
<1> QED
  BY <1>t, <1>1, <1>2, <1>3, <1>4, <1>5 DEF IInv, Names

LEMMA WriteKeepsIInv ==
  ASSUME NEW s \in Syncers, IInv, Write(s)
  PROVE  IInv' /\ DiskStep
<1>s. sync[s] = "write"
  BY DEF Write
<1>u. /\ UNCHANGED <<main, readonly, value, dirty, writer, snap, path, backup, starts,
                    asked, overlap>>
      /\ new' = new /\ fd' = fd
  BY DEF Write, SyncGoes
<1>v. snap[s] = value /\ value \in 0..MaxValue
  BY <1>s DEF IInv, Typed, TypeOK, WhatIsWritten, Locked
<1>1. CASE /\ file' = [file EXCEPT ![fd[s]].data = Saved(snap[s])]
           /\ SyncGoes(s, "rename") /\ UNCHANGED faulty
  <2>1. /\ Saved(value) \in Seq(Halves) /\ Len(Saved(value)) <= 2
        /\ \A v \in 0..MaxValue : Saved(value) = Saved(v) => v = value
    <3>1. Saved(value) \in Seq(Halves) /\ Len(Saved(value)) = 2
      BY <1>v, SavedIsData
    <3>2. \A v \in 0..MaxValue : Saved(value) = Saved(v) => v = value
      BY SavedIsInjective
    <3> QED
      BY <3>1, <3>2
  <2>2. Fills(s, fd[s], Saved(snap[s]), "rename")
    BY <1>1, <1>s, <1>u, <1>v, <2>1, Writes DEF Fills, SyncGoes
  <2> QED
    BY <2>2, FillsKeepsIInv, FillsDisk
<1>2. CASE Put(s, 1, Saved(snap[s])[1]) /\ SyncGoes(s, "rest") /\ faulty' = TRUE
  <2> DEFINE d == PutAt(file[fd[s]].data, 1, Saved(snap[s])[1])
  <2>1. file' = [file EXCEPT ![fd[s]].data = d]
    BY <1>2 DEF Put
  <2>2. Saved(snap[s])[1] \in Halves
    BY <1>v, SavedIsData
  <2>3. d \in Seq(Halves) /\ Len(d) <= 2 /\ d[1] = Saved(snap[s])[1]
    <3>1. file[fd[s]].data \in Seq(Halves) /\ Len(file[fd[s]].data) <= 2
      <4> HIDE DEF d
      <4> QED
        BY <1>s, <2>1, Writes
    <3> QED
      BY <2>2, <3>1, PutAtIsData
  <2> HIDE DEF d
  <2>4. \A v \in 0..MaxValue : d = Saved(v) => v = value
    BY <1>v, <2>3, SavedIsInjective
  <2>5. Fills(s, fd[s], d, "rest")
    BY <1>2, <1>s, <1>u, <2>1, <2>3, <2>4, Writes DEF Fills, SyncGoes
  <2> QED
    BY <2>5, FillsKeepsIInv, FillsDisk
<1> QED
  BY <1>1, <1>2 DEF Write

\* The first half in the second place makes no database.
LEMMA WriteRestKeepsIInv ==
  ASSUME NEW s \in Syncers, IInv, WriteRest(s)
  PROVE  IInv' /\ DiskStep
<1> DEFINE d == PutAt(file[fd[s]].data, 2, Saved(snap[s])[1])
<1>s. sync[s] = "rest" /\ sync' = [sync EXCEPT ![s] = "rename"]
  BY DEF WriteRest, SyncGoes
<1>u. /\ UNCHANGED <<main, readonly, value, dirty, writer, snap, path, backup, starts,
                    asked, overlap>>
      /\ new' = new /\ fd' = fd /\ faulty' = faulty
  BY DEF WriteRest, SyncGoes
<1>v. snap[s] = value /\ value \in 0..MaxValue /\ faulty
  BY <1>s DEF IInv, Typed, TypeOK, WhatIsWritten, Locked, Alone
<1>1. file' = [file EXCEPT ![fd[s]].data = d]
  BY DEF WriteRest, Put
<1>2. Saved(snap[s])[1] \in Halves
  BY <1>v, SavedIsData
<1>3. d \in Seq(Halves) /\ Len(d) <= 2 /\ d[2] = Saved(snap[s])[1]
  <2>1. file[fd[s]].data \in Seq(Halves) /\ Len(file[fd[s]].data) <= 2
    <3> HIDE DEF d
    <3> QED
      BY <1>s, <1>1, Writes
  <2> QED
    BY <1>2, <2>1, PutAtIsData
<1> HIDE DEF d
<1>4. \A v \in 0..MaxValue : d # Saved(v)
  BY <1>3 DEF Saved
<1>5. Fills(s, fd[s], d, "rename")
  BY <1>s, <1>u, <1>v, <1>1, <1>3, <1>4, Writes DEF Fills
<1> QED
  BY <1>5, FillsKeepsIInv, FillsDisk

\* The file of the database is the one it was, or the one beside it, whose contents
\* are those of the value there is if they are whole, and are so if nothing failed.
LEMMA RenameKeepsIInv ==
  ASSUME NEW s \in Syncers, IInv, Rename(s)
  PROVE  IInv' /\ DiskStep
<1>0. BoundsAreNat'
  BY DEF IInv, BoundsAreNat
<1>t. /\ path \in {0} \cup Files /\ new \in {0} \cup Files /\ fd \in [Syncers -> {0} \cup Files]
      /\ sync \in [Syncers -> {"idle", "lock", "open", "write", "rest", "rename"}]
      /\ file \in [Files -> [old : BOOLEAN, data : Seq(Halves)]]
      /\ value \in 0..MaxValue /\ MaxValue \in Nat /\ snap \in [Syncers -> 0..MaxValue]
  BY DEF IInv, Typed, TypeOK, BoundsAreNat
<1>u. /\ main' = main /\ (readonly' <=> readonly) /\ value' = value /\ backup' = backup
      /\ asked' = asked /\ (overlap' <=> overlap) /\ (faulty' <=> faulty) /\ new' = 0
      /\ path' = IF new # 0 THEN new ELSE path
  BY DEF IInv, Typed, Rename, EndSync, SyncGoes
<1>x. /\ fd' = [fd EXCEPT ![s] = 0] /\ sync' = [sync EXCEPT ![s] = "idle"]
      /\ snap' = [snap EXCEPT ![s] = 0]
      /\ sync[s] = "rename" /\ Locked(s)
  BY DEF Rename, EndSync, SyncGoes, Locked
<1>y. /\ fd'[s] = 0 /\ sync'[s] = "idle"
      /\ \A t \in Syncers : t # s => fd'[t] = fd[t] /\ sync'[t] = sync[t] /\ snap'[t] = snap[t]
  BY <1>t, <1>x
<1>l. \A t \in Syncers : Locked(t)' <=> Locked(t) /\ t # s
  BY <1>y DEF Locked
<1>f. /\ path' # 0 => file'[path'] = file[path']
      /\ \A t \in Syncers : fd'[t] # 0 => file'[fd'[t]] = file[fd'[t]]
      /\ \A f \in Files : file'[f] = file[f] \/ file'[f] = Empty
      /\ \A f \in Files : f = path' \/ (\E t \in Syncers : f = fd'[t]) \/ file'[f] = Empty
      /\ file' \in [Files -> [old : BOOLEAN, data : Seq(Halves)]]
  <2>1. Empty \in [old : BOOLEAN, data : Seq(Halves)]
    BY DEF Empty
  <2>2. path' \in {0} \cup Files /\ fd' \in [Syncers -> {0} \cup Files]
    BY <1>t, <1>u, <1>x
  <2>3. file' = [f \in Files |-> IF f \in {path'} \cup {fd'[t] : t \in Syncers}
                                 THEN file[f] ELSE Empty]
    BY DEF Rename
  <2> QED
    BY <1>t, <2>1, <2>2, <2>3
<1>e. Empty.old = FALSE /\ Empty.data = <<>> /\ Len(<<>>) = 0
  BY DEF Empty
\* What the disk holds afterwards.
<1>d. /\ new # 0 => OnDisk' = -1 \/ OnDisk' = value
      /\ new = 0 => OnDisk' = OnDisk
      /\ ~overlap /\ ~faulty => OnDisk' = value /\ Whole(path)'
  <2>1. CASE new # 0
    <3>1. \A v \in 0..MaxValue : file'[path'].data = Saved(v) => v = value
      BY <1>f, <1>t, <1>u, <1>x, <2>1 DEF IInv, WhatIsWritten, Current, Savers
    <3>2. OnDisk' = -1 \/ OnDisk' = value
      BY <3>1, DiskFactsNext DEF ReadsBack
    <3>3. ASSUME ~overlap, ~faulty
          PROVE  OnDisk' = value /\ Whole(path)'
      <4>1. fd[s] = new /\ file[fd[s]].data = Saved(snap[s]) /\ snap[s] = value
        BY <1>x, <2>1, <3>3 DEF IInv, Alone, Savers, WhatIsWritten
      <4>2. file'[path'].data = Saved(value)
        BY <1>f, <1>u, <2>1, <4>1
      <4> QED
        BY <1>t, <1>u, <2>1, <4>2, DiskFactsNext DEF ReadsBack
    <3> QED
      BY <2>1, <3>2, <3>3
  <2>2. CASE new = 0
    <3>1. OnDisk' = OnDisk
      BY <1>f, <1>u, <2>2, DiskUnchanged
    <3>2. overlap
      BY <1>x, <2>2 DEF IInv, Alone, Savers
    <3> QED
      BY <2>2, <3>1, <3>2
  <2> QED
    BY <2>1, <2>2
<1>1. Typed'
  <2>1. /\ path' \in {0} \cup Files /\ new' \in {0} \cup Files
        /\ fd' \in [Syncers -> {0} \cup Files]
        /\ sync' \in [Syncers -> {"idle", "lock", "open", "write", "rest", "rename"}]
        /\ snap' \in [Syncers -> 0..MaxValue]
    BY <1>t, <1>u, <1>x
  <2>2. \A f \in Files : file'[f].old \in BOOLEAN /\ Len(file'[f].data) <= 2
    <3>1. Len(Empty.data) <= 2
      BY <1>e
    <3>2. \A f \in Files : Len(file'[f].data) <= 2
      BY <1>f, <3>1 DEF IInv, Typed, TypeOK
    <3> QED
      BY <1>f, <3>2
  <2>3. readonly' \in BOOLEAN /\ dirty' \in BOOLEAN /\ overlap' \in BOOLEAN /\ faulty' \in BOOLEAN
    BY DEF IInv, Typed, Rename, EndSync, SyncGoes
  <2>4. {readonly', dirty', overlap', faulty'} \subseteq BOOLEAN
    BY <2>3
  <2>5. /\ main' \in {"down", "create", "load", "backup", "copying", "up", "final",
                      "exited", "refused"}
        /\ writer' \in [Writers -> {"idle", "marked"}]
        /\ backup' \in {"none", "partial", "whole"}
        /\ value' \in 0..MaxValue /\ asked' \in 0..MaxValue /\ starts' \in 0..MaxStarts
    BY DEF IInv, Typed, TypeOK, Rename, EndSync, SyncGoes
  <2> QED
    BY <1>f, <2>1, <2>2, <2>3, <2>4, <2>5 DEF Typed, TypeOK, Halves
<1>2. Savers'
  <2>1. \A t \in Syncers : fd'[t] # 0 <=> sync'[t] \in {"write", "rest", "rename"}
    BY <1>y DEF IInv, Savers
  <2>2. \A t \in Syncers : Locked(t)' => ~readonly'
    BY <1>u, <1>l DEF IInv, Savers
  <2>3. \A t \in Syncers : sync'[t] # "idle" => sync[t] # "idle"
    BY <1>y
  <2> QED
    BY <1>u, <2>1, <2>2, <2>3 DEF IInv, Savers, Syncers
<1>3. WhatIsWritten'
  <2>1. \A t \in Syncers : fd'[t] # 0 => Current(fd[t])'
    BY <1>f, <1>u, <1>y DEF IInv, WhatIsWritten, Current
  <2>2. \A t \in Syncers : Locked(t)' => snap'[t] = value'
    BY <1>l, <1>u, <1>y DEF IInv, WhatIsWritten
  <2> QED
    BY <1>u, <2>1, <2>2 DEF WhatIsWritten
<1>o. \A f \in Files : file'[f].old => file[f].old /\ f = path' /\ f = path
  <2> SUFFICES ASSUME NEW f \in Files, file'[f].old PROVE file[f].old /\ f = path' /\ f = path
    OBVIOUS
  <2>1. file'[f] # Empty
    BY <1>e
  <2>2. file[f].old
    BY <1>f, <2>1
  <2>3. f = path /\ \A t \in Syncers : fd[t] # f
    BY <2>2 DEF IInv, Names
  <2>4. \A t \in Syncers : f # fd'[t]
    BY <1>t, <1>y, <2>3 DEF Files
  <2> QED
    BY <1>f, <2>1, <2>2, <2>3, <2>4
<1>4. Names'
  <2>1. \A f \in Files : f = path => \A t \in Syncers : fd'[t] # f \/ fd[t] = f
    BY <1>y DEF Files
  <2> QED
    BY <1>o, <1>u, <2>1 DEF IInv, Names
<1>5. Behind'
  <2>1. main' \notin {"down", "load", "refused"} => OnDisk' <= value'
    BY <1>d, <1>t, <1>u DEF IInv, Behind
  <2>2. main' = "final" /\ sync'["main"] = "idle" /\ ~readonly' /\ ~overlap' /\ ~faulty'
         => OnDisk' >= asked'
    BY <1>d, <1>t, <1>u DEF IInv, Typed, Behind
  <2> QED
    BY <1>u, <2>1, <2>2 DEF IInv, Behind
<1>6. Alone'
  <2>1. ~overlap' => \A r, t \in Syncers : Locked(r)' /\ Locked(t)' => r = t
    BY <1>l, <1>u DEF IInv, Alone
  <2>2. ~overlap => \A t \in Syncers : t # s => fd[t] = 0 /\ sync[t] \notin {"rest", "rename"}
    BY <1>x DEF IInv, Alone, Savers, Locked
  <2>3. ~overlap' => \A t \in Syncers : fd'[t] # 0 => fd'[t] = new'
    BY <1>u, <1>y, <2>2
  <2>4. \A t \in Syncers : sync'[t] = "rest" => faulty'
    BY <1>u, <1>y DEF IInv, Alone
  <2>5. \A t \in Syncers : sync'[t] = "rename" /\ ~overlap' /\ ~faulty'
                             => file'[fd'[t]].data = Saved(snap'[t])
    BY <1>u, <1>y, <2>2
  <2> QED
    BY <2>1, <2>3, <2>4, <2>5 DEF Alone
<1>m. main \in {"create", "up", "final", "exited"}
  BY <1>x DEF IInv, Savers
<1>7. Backups'
  <2>1. path' \in {0} \cup Files
    BY <1>t, <1>u
  <2> QED
    BY <1>m, <1>o, <1>u, <2>1 DEF IInv, Backups
<1>8. DiskWhole' /\ StartsAgain'
  BY <1>d, <1>m, <1>u DEF DiskWhole, StartsAgain
<1>9. DiskStep
  <2>1. OnDisk <= value
    BY <1>m DEF IInv, Behind
  <2>2. path # 0 /\ file[path].old /\ path' # path => backup = "whole"
    BY <1>m, <1>x DEF IInv, Backups, Savers, Locked
  <2> QED
    BY <1>d, <1>u, <2>1, <2>2 DEF DiskStep
<1> QED
  BY <1>9, <1>0, <1>1, <1>2, <1>3, <1>4, <1>5, <1>6, <1>7, <1>8 DEF IInv

-----------------------------------------------------------------------------
(* The invariant *)

LEMMA NextKeepsIInv == IInv /\ [Next]_vars => IInv' /\ (DiskStep \/ UNCHANGED vars)
<1> SUFFICES ASSUME IInv, [Next]_vars PROVE IInv' /\ (DiskStep \/ UNCHANGED vars)
  OBVIOUS
<1>1. CASE Start \/ Created \/ Load \/ BackUp \/ BackedUp
  BY <1>1, StartingKeepsIInv, SameDisk DEF Start, Created, Load, BackUp, BackedUp
<1>2. CASE \/ \E w \in Writers : Mark(w) \/ Modify(w)
           \/ BackgroundSync \/ ConsoleSync \/ Shutdown \/ Exit
  <2>1. IInv'
    BY <1>2, WorkingKeepsIInv
  <2>2. path' = path /\ file' = file
    BY <1>2 DEF Mark, Modify, BackgroundSync, ConsoleSync, Shutdown, Exit
  <2> QED
    BY <2>1, <2>2, SameDisk
<1>3. CASE \E s \in Syncers : SyncStep(s) \/ SyncFails(s)
  <2>1. PICK s \in Syncers : SyncStep(s) \/ SyncFails(s)
    BY <1>3
  <2>2. CASE LockAndSerialise(s)
    BY <2>2, LockKeepsIInv, SameDisk DEF LockAndSerialise
  <2>3. CASE SyncFails(s)
    BY <2>3, SyncFailsKeepsIInv, SameDisk DEF SyncFails
  <2>4. CASE Open(s)
    BY <2>4, OpenKeepsIInv
  <2>5. CASE Write(s)
    BY <2>5, WriteKeepsIInv
  <2>6. CASE WriteRest(s)
    BY <2>6, WriteRestKeepsIInv
  <2>7. CASE Rename(s)
    BY <2>7, RenameKeepsIInv
  <2> QED
    BY <2>1, <2>2, <2>3, <2>4, <2>5, <2>6, <2>7 DEF SyncStep
<1>4. CASE Crash
  BY <1>4, CrashKeepsIInv, SameDisk DEF Crash
<1>5. CASE UNCHANGED vars
  <2>1. BoundsAreNat' /\ Typed' /\ Savers' /\ WhatIsWritten' /\ Names'
    BY <1>5 DEF IInv, vars, BoundsAreNat, Typed, TypeOK, Halves, Savers, Locked, WhatIsWritten,
      Current, Names
  <2>2. Behind' /\ Alone' /\ Backups' /\ DiskWhole' /\ StartsAgain'
    BY <1>5, DiskUnchanged DEF IInv, vars, Behind, Alone, Locked, Backups, DiskWhole, StartsAgain
  <2> QED
    BY <1>5, <2>1, <2>2 DEF IInv
<1> QED
  BY <1>1, <1>2, <1>3, <1>4, <1>5 DEF Next, MainStep

\* The invariant holds in every state of the database.
THEOREM Invariance == BoundsAreNat /\ Spec => []IInv
<1>1. BoundsAreNat /\ Init => IInv
  BY InitIInv
<1>2. IInv /\ [Next]_vars => IInv'
  BY NextKeepsIInv
<1> QED
  BY <1>1, <1>2, PTL DEF Spec

-----------------------------------------------------------------------------
(* What follows *)

\* The types of the database and its files.
THEOREM TypeCorrect == BoundsAreNat /\ Spec => []TypeOK
<1>1. IInv => TypeOK
  BY DEF IInv, Typed
<1> QED
  BY <1>1, Invariance, PTL

\* The database's file is whole whenever the process may die, with no write short and
\* no two threads saving at once.
THEOREM DiskWholeHolds == BoundsAreNat /\ Spec => []DiskWhole
<1>1. IInv => DiskWhole
  BY DEF IInv
<1> QED
  BY <1>1, Invariance, PTL

\* A process that finds a database loads it, but for the cases StartsAgain names.
THEOREM StartsAgainHolds == BoundsAreNat /\ Spec => []StartsAgain
<1>1. IInv => StartsAgain
  BY DEF IInv
<1> QED
  BY <1>1, Invariance, PTL

\* What was saved is replaced by nothing older, and an old version not before it is
\* backed up.
THEOREM SavedDataIsKeptHolds == BoundsAreNat /\ Spec => SavedDataIsKept
<1>1. IInv /\ IInv' /\ [Next]_vars =>
        [OnDisk' >= OnDisk \/ (OnDisk' = -1 /\ (overlap' \/ faulty'))]_vars
  <2> SUFFICES ASSUME IInv, IInv', DiskStep
               PROVE  OnDisk' >= OnDisk \/ (OnDisk' = -1 /\ (overlap' \/ faulty'))
    BY NextKeepsIInv
  <2>1. OnDisk \in Int /\ value \in 0..MaxValue /\ MaxValue \in Nat
    BY DiskFacts DEF IInv, Typed, TypeOK, BoundsAreNat, ReadsBack
  <2>2. OnDisk' = -1 => overlap' \/ faulty' \/ OnDisk = -1
    <3>1. CASE path' # 0
      BY <3>1, DiskFactsNext DEF IInv, DiskWhole, ReadsBack, BoundsAreNat
    <3>2. CASE path' = 0
      BY <3>2 DEF DiskStep, OnDisk, Whole
    <3> QED
      BY <3>1, <3>2
  <2> QED
    BY <2>1, <2>2 DEF DiskStep
<1>2. IInv /\ [Next]_vars =>
        [path # 0 /\ file[path].old /\ path' # path => backup = "whole"]_vars
  BY NextKeepsIInv DEF DiskStep
<1> QED
  BY <1>1, <1>2, Invariance, PTL DEF Spec, SavedDataIsKept, NothingSavedIsLost, OldVersionKept

\* A process that exits has saved everything modified before its shutdown began.
THEOREM ExitSavesHolds == BoundsAreNat /\ Spec => ExitSaves
<1>1. IInv /\ [Next]_vars =>
        [main' = "exited" /\ ~readonly' /\ ~overlap' /\ ~faulty' => OnDisk' >= asked']_vars
  <2> SUFFICES ASSUME IInv, Next, main' = "exited", ~readonly', ~overlap', ~faulty'
               PROVE  OnDisk' >= asked'
    OBVIOUS
  <2>1. Exit
    BY DEF Next, MainStep, Start, Created, Load, BackUp, BackedUp, Shutdown, Crash, Alive,
      Mark, Modify, BackgroundSync, ConsoleSync, SyncGoes, SyncStep, LockAndSerialise,
      Open, Write, WriteRest, Rename, SyncFails, EndSync
  <2>2. OnDisk' = OnDisk
    BY <2>1, DiskUnchanged DEF Exit
  <2> QED
    BY <2>1, <2>2 DEF Exit, IInv, Behind
<1> QED
  BY <1>1, Invariance, PTL DEF Spec, ExitSaves
=============================================================================
