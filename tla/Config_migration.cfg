CONSTANTS
  m1 = m1
  m2 = m2
  Texts <- MCTexts
  Migrators <- MCMigrators
  Requests <- MCRequests
  Initial <- MCInitial
  Room <- MCRoom
  MaxStarts = 1
SYMMETRY Symmetry
SPECIFICATION Spec
INVARIANTS
  OverwritesAtomically
CHECK_DEADLOCK FALSE
