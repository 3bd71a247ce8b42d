SPECIFICATION FairSpec
CONSTANTS
  p1 = p1
  p2 = p2
  Nobody = Nobody
  NumTickets = 2
  Invocation <- MCOne
  Oversized <- MCNone
  MaxRestarts = 2
  MaxUnreviewed = 1
  TokenCap = 9
  Cost <- MCPaid
  MaxCrashes = 1
  May <- MCNone
PROPERTIES
  BacklogDrains
