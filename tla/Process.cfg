CONSTANTS
  t1 = t1
  t2 = t2
  Threads <- MCThreads
  Methods <- AllMethods
  MaxCalls = 4
SPECIFICATION FairSpec
INVARIANTS
  TypeOK
  OnlyOwnChild
  ExitRecorded
  UnreapedIsRunning
PROPERTIES
  ProcessKeepsContract
  StopTerminates
CHECK_DEADLOCK FALSE
