SPECIFICATION Spec
CONSTANTS
  Pool = {"p1", "p2"}
  Servers = {{"lose"}}
  MaxQueued = 1
  MaxJobs = 1
  MaxFailures = 1
INVARIANT
  DispatchesProcessed
\* The process may have ended, or be stuck.
CHECK_DEADLOCK FALSE
