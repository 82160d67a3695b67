SPECIFICATION Spec
CONSTANTS
  t1 = t1
  t2 = t2
  Threads <- MCThreads
  Methods <- AllMethods
  MaxCalls = 3
PROPERTIES
  NoRogueHelper
CHECK_DEADLOCK FALSE
