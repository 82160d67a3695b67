CONSTANTS
  t1 = t1
  t2 = t2
  seat = seat
  kiosk = kiosk
  Threads <- Two
  Ids <- SeatAndKiosk
  MaxSessions = 1
  MaxCalls = 4
SYMMETRY Symmetry
SPECIFICATION Spec
INVARIANTS
  RunningHasDirs
CHECK_DEADLOCK FALSE
