SPECIFICATION FairSpec
CONSTANTS
  a = a
  b = b
  c = c
  NumSteps = 3
  Modifying <- MCModifying
  HasPost <- MCHasPost
  File <- MCFile
  InHead <- MCInHead
  FilesOf <- MCFilesOf
  MaxFeedback = 1
  MaxNoChange = 1
  MaxLaunches = 3
  Modes <- MCBoth
  KillAllowed = TRUE
INVARIANTS
  SuccessMeansEveryStepLanded
  CommitsFollowPlanOrder
  InterruptedStepNotRedone
  UnstagedWorkNotCommitted
  HandedOverWhole
PROPERTY
  InvocationEnds
