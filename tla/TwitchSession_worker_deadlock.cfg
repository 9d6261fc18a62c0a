CONSTANT MaxQueued = 1
SPECIFICATION Spec
INVARIANT WorkersNotDeadlocked
CHECK_DEADLOCK FALSE
