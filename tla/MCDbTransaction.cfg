SPECIFICATION TransactionSpec
CONSTANTS
  w1 = w1
  w2 = w2
  w3 = w3
  Writes <- ThreeWrites
  Setups <- SoundSetups
  MaxDepth = 2
INVARIANTS
  ReturnedIsDurable
  FailedLeavesNothing
\* All writes executed, or the connection given up: the program stops.
CHECK_DEADLOCK FALSE
