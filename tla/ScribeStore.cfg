SPECIFICATION FairSpec
CHECK_DEADLOCK FALSE
CONSTANTS
  p1 = p1
  p2 = p2
  p3 = p3
  Procs = {p1, p2, p3}
  CommandsOf <- MCMixed
  MaxSeq = 3
  RebuiltAlone = TRUE
  MaintenanceAlone = TRUE
INVARIANTS
  NoBodyOverwritten

PROPERTIES
  EveryCommandEnds
  KeepsTheShelf
