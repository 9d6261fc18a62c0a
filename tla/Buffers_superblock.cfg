\* Text that is larger than a superblock may be, and fits with a byte to spare.
CONSTANTS
  StartCaps = {512}
  Superblock = 24
  Lengths = {89951}
  Kinds = {"string"}
  MaxWrites = 1
SPECIFICATION Spec
INVARIANT NothingIsLost
CHECK_DEADLOCK FALSE
