CONSTANTS
  c1 = c1
  c2 = c2
  Callers <- MCCallers
  MaxAttempts = 2
  Window = 3
  BackoffInitial = 1
  BackoffMax = 1
  Policies <- AnyPolicy
  Skews <- Stepped
  Horizon = 4
  MaxCalls = 4
SPECIFICATION FairSpec
INVARIANTS
  WindowBudget
  ExecutionsExclusive
  ProgressIsReal
PROPERTIES
  TableKept
  RecoveryEnds
CHECK_DEADLOCK FALSE
