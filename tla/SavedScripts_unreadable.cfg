\* The same definitions as in SmallParts.cfg, some of which cannot be read back.
SPECIFICATION MCSpec
CONSTANTS
  Channels = {"c1", "c2"}
  Users = {"u"}
  Names = {"g", "h"}
  Restricted = {"x"}
  MaxOperations = 7
  Programs <- MCPrograms
  Functions <- MCFunctions
  Macros <- MCMacros
  Commands <- MCCommands
  GlobalTypes <- MCGlobals
  Patience = {1, 3}
  MaxDepth = 1
  MaxLines = 2
  StartCaps = {64, 65, 66, 67}
  Superblock = 24
  Lengths = {0, 1, 20, 127, 128, 65535}
  Kinds = {"byte", "char", "real", "bool", "number", "tag", "string", "container", "relative", "type"}
  MaxWrites = 3
  Streams <- MCStreams
  Room = 5
  MaxConnections = 2
  PoolThreads = {"d1", "d2"}
  Callers = {"c1", "c2"}
  MaxJobs = 3
  MaxWaits = 1
  MaxTimers = 3
  MaxSessions = 2
PROPERTY CommandsAvailable
CHECK_DEADLOCK FALSE
