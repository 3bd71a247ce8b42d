SPECIFICATION ReposSpec
CHECK_DEADLOCK FALSE
SYMMETRY MCSymmetry
CONSTANTS
  p1 = p1
  p2 = p2
  r1 = r1
  r2 = r2
  r3 = r3
  h1 = h1
  h2 = h2
  Procs = {p1, p2}
  Repos = {r1, r2, r3}
  Homes = {h1, h2}
  MaxUid = 4
  MaxCommands = 3
  MaxChanges = 3
  Changes = {"move", "copy", "delete", "create", "copymain"}
  Kills <- MCSafeKills
  CheckedFirst = TRUE
  Ships <- MCShips
  Values = {"p", "q", "u"}
  Names = {"c", "d", "e"}
  Migrations = {2, 3}
  MaxFileCommands = 3
  MaxEdits = 2
INVARIANTS
  
  
  
  MigrationsInOrder
