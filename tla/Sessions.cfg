CONSTANTS
  t1 = t1
  t2 = t2
  seat = seat
  kiosk = kiosk
  Threads <- Two
  Ids <- SeatAndKiosk
  MaxSessions = 2
  MaxCalls = 6
SYMMETRY Symmetry
SPECIFICATION Spec
INVARIANTS
  ActiveIsRegistered
  RemovedIsQuiet
  
PROPERTIES
  StopAllStops
CHECK_DEADLOCK FALSE
