CONSTANTS
  c1 = c1
  c2 = c2
  r1 = r1
  Starters <- One
  Stoppers <- One
  Reapers <- Reaper
  Processes = 2
  Pids = {1, 2}
  MaxCalls = 2
SPECIFICATION FairSpec
PROPERTIES
  EveryListedDeathReaped
