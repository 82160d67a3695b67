CONSTANTS
  d1 = d1
  d2 = d2
  r = r
  Drivers <- MCDrivers
  Reapers <- MCReapers
  Processes = 2
  MaxCalls = 4
SPECIFICATION Spec
INVARIANTS
  NeverEmbraced
CHECK_DEADLOCK FALSE
