SPECIFICATION Spec
CONSTANTS
    MaxRecords = 3
    MaxFiles = 3
    MaxRewrites = 1
    MaxReloads = 1
    MaxSides = 1
    None = None
INVARIANTS
    ShownInOrder
    BannerIsTheOpenQuestion
 
CHECK_DEADLOCK FALSE
