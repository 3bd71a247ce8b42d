SPECIFICATION Spec
CONSTANTS
  p1 = p1
  p2 = p2
  Nobody = Nobody
  NumTickets = 1
  Invocation <- MCOne
  Oversized <- MCNone
  MaxRestarts = 2
  MaxUnreviewed = 2
  TokenCap = 3
  Cost <- MCCost
  MaxCrashes = 2
  May <- MCMaintenance
INVARIANTS
  OkWithoutWorkOnlyAfterInterference
PROPERTIES
  TicketKept
  CommittedWorkKept
