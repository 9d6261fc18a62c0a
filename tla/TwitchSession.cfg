\* Two messages queued either way; any number of reconnections.
CONSTANT MaxQueued = 2
SPECIFICATION FairSpec
INVARIANTS TypeOK ConnectionsApart ServedWhileUp
PROPERTIES NoSendBeforeAuth SessionGetsOn
\* The system stops: after a shutdown, a crash, or a circular wait.
CHECK_DEADLOCK FALSE
