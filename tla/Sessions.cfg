SPECIFICATION SessionsSpec
SYMMETRY MCSymmetry
CONSTANTS
    Tools = {"Bash", "Write", "Agent", "AskUserQuestion"}
    Pairs <- MCPairs
    SubTools = {"Write"}
    MaxTurns = 2
    MaxApi = 3
    MaxPaired = 2
    MaxMishaps = 1
    RuleSessions = {1, 2}
    Jobs = {j1}
    MinPairs = 2
    MaxCall = 2
    RulePrompts = 5
    RuleDays = 2
    f1 = f1
    f2 = f2
    FileSessions = {f1, f2}
    PinEvery = 2
    MaxHistory = 1
    FlagDays = 1
    IdentityDays = 1
    FileDays = 3
    FilePrompts = 4
    Nothing = Nothing
INVARIANTS
    FlagMeansTold
    CondemnedCallNeverRuns
    BilledOnce
    PairsFaithful
    
    RulesWithinReach
CHECK_DEADLOCK FALSE
