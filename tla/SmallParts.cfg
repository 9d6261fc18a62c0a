\* Every source of three tokens and of four operands; every call with two arguments;
\* two lines of a script; seven steps with groups; three writes; every record; three
\* changes of what is saved, with starts between and after them; streams of three and four
\* messages; four jobs on two threads; three timers; two sessions.
SPECIFICATION MCSpec
CONSTANTS
  Channels = {"c1", "c2"}
  Users = {"u"}
  Names = {"g", "h"}
  Restricted = {"x"}
  MaxOperations = 7
  Programs <- MCPrograms
  Functions <- MCFunctions
  Macros <- MCMacros
  Commands <- MCCommands
  GlobalTypes <- MCGlobals
  Patience = {1, 3}
  MaxDepth = 1
  MaxLines = 2
  StartCaps = {64, 65, 66, 67}
  Superblock = 24
  Lengths = {0, 1, 20, 127, 128, 65535}
  Kinds = {"byte", "char", "real", "bool", "number", "tag", "string", "container", "relative", "type"}
  MaxWrites = 3
  Streams <- MCStreams
  Room = 5
  MaxConnections = 2
  PoolThreads = {"d1", "d2"}
  Callers = {"c1", "c2"}
  MaxJobs = 3
  MaxWaits = 1
  MaxTimers = 3
  MaxSessions = 2
INVARIANTS
  PartsTypeOK
  GrantsMeanTheirGroup
  NothingIsLost
  EachMessageIsTaken
  DisposedOfOnce
PROPERTIES
  LexerKeepsText
  PrecedenceDecides
  ChosenRuns
  ReadingChangesNothing
  GlobalsKeepTheirTypes
  SavedIsRead
  ThreadsEnd
\* The bounds are reached, or the process has ended.
CHECK_DEADLOCK FALSE
