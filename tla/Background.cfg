\* Room for three refills and for tokens saved over two periods.
SPECIFICATION MCSpec
CONSTANTS
  limit = 2
  period = 5
  min_interval = 2
  TokenSpan = 8
  Garbage = {0, 3}
  Pauses = {1, 5, 9}
  Delays = {0, 1}
  MaxSends = 4
  MaxPauses = 2
  Writers = {"w"}
  Faults = {"error", "short"}
  MaxValue = 2
  MaxStarts = 2
  MAX_PREFIX_LENGTH = 2
  MIN_INPUT_LENGTH = 2
  GOOD_INPUT_LENGTH = 3
  Said <- MCSaid
  Logs <- MCLogs
  MaxOutput = 2
  MaxSaid = 1
  MaxRetrains = 1
  MaxRestarts = 1
INVARIANTS
  PartsTypeOK
  AverageRate
  AtMostTwoSleeps
  StartsAgain
  ModelAgrees
PROPERTIES
  SavedDataIsKept
  ModificationsAreSaved
  RetrainingEnds
\* The bounds are reached, or the process has ended.
CHECK_DEADLOCK FALSE
