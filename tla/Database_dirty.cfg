\* A file system that does not fail.
CONSTANTS
  Writers = {"w"}
  Faults = {}
  MaxValue = 1
  MaxStarts = 1
SPECIFICATION Spec
INVARIANT ModifiedIsMarked
CHECK_DEADLOCK FALSE
