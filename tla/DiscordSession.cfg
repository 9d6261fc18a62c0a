\* A server that goes silent, and one that closes or asks to reconnect; two
\* dispatcher threads, so that one can wait for the other.
SPECIFICATION Spec
CONSTANTS
  Pool = {"p1", "p2"}
  Servers = {{"lose"}, {"close", "reconnect"}}
  MaxQueued = 1
  MaxJobs = 1
  MaxFailures = 1
INVARIANTS
  TypeOK
  ConnectionsApart
  OutageIsWatched
  CloseIsHandled
\* The process may have ended, or be stuck.
CHECK_DEADLOCK FALSE
