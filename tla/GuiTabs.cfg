CONSTANTS
    tabA = tabA
    tabC = tabC
    Saved <- MCSaved
    SavedActive = 1
    New <- MCNew
    Calls = {t1, t2}
    Requests = {r1, r2}
    Boot = boot
    Closer = closer
    MaxClicks = 2
    None = None
    MaxAgentCalls = 2
    MaxSessions = 2
SYMMETRY MCSymmetry
SPECIFICATION MCSpec
CHECK_DEADLOCK FALSE
INVARIANTS
    AllowedByTheUser
    
    
    
