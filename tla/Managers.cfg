CONSTANTS
  d1 = d1
  d2 = d2
  r = r
  Drivers <- MCDrivers
  Reapers <- MCReapers
  Processes = 2
  MaxCalls = 4
SPECIFICATION FairSpec
INVARIANTS
  TypeOK
  ChildIsHeld
  RestingIsEmpty
  ExitIsNoticed
PROPERTIES
  CallsReturn
CHECK_DEADLOCK FALSE
