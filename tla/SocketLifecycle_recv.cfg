SPECIFICATION Spec
CONSTANT MaxSockets = 2
INVARIANT NotClosedUnderRecv
CHECK_DEADLOCK FALSE
