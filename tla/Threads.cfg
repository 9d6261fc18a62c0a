\* Two producers, three consumers, three pushes: both notify_one and notify_all
\* happen, with consumers asleep, awake and arriving.
SPECIFICATION FairPartsSpec
CONSTANTS
  Producers = {p1, p2}
  Consumers = {c1, c2, c3}
  MaxPush = 3
  MaxSockets = 2
  Threads = {"t1", "t2"}
  Inputs <- MCInputs
  given <- MCGiven
  Aliases <- MCAliases
  DefaultPerms <- MCDefaultPerms
  MaxMessages = 3
  MaxObjects = 3
  MaxSyncs = 1
INVARIANTS
  TypeOK
  NoUnderflow
  AnnouncedExactlyOnce
  NoLostWakeup
  PartsTypeOK
  SocketsDisposedOfOnce
  RunsWhatWasChecked
PROPERTIES
  ImplementsFifo
  AnnouncedIsConsumed
  DisconnectsEnd
  MessagesEnd
\* The bounds are reached, or the process has ended.
CHECK_DEADLOCK FALSE
