SPECIFICATION FairSpec
CONSTANTS
  s1 = s1
  p1 = p1
  p2 = p2
  p3 = p3
  r1 = r1
  r2 = r2
  NoRecord = NoRecord
  Sessions = {s1}
  Callers = {p1, p2, p3}
  SessionOf <- MCSessionOf
  Repos = {r1, r2}
  Checkouts = {r1}
  MaxCalls = 3
  CallCap = 1
  LineCap = 1
  MaxTyped = 1
  CommandsOf <- MCCommandsOf
  OneAtATime = TRUE
  FirstCallAlone = TRUE

  
PROPERTY
  EveryCallCloses
