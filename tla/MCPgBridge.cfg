SPECIFICATION FairSpec
CONSTANTS
  MaxCalls = 4
PROPERTIES
  ImplementsSyncDatabase
  CallsReturn
\* The calls are used up: the model ends there.
CHECK_DEADLOCK FALSE
