SPECIFICATION MCSpec
CONSTANTS
    MaxAttempts = 2
    MaxRounds = 2
    MaxFindings = 2
    MaxRuns = 3
    SkillFindings <- MCFindings
    Nobody <- MCNobody
    SkillRounds = 2
    SkillRuns = 2
    None = None
    code = code
    doc = doc
    fresh = fresh
    away = away
    hidden = hidden
INVARIANTS
    
    WritersRunInDependencyOrder
    
    NothingUnansweredMerged
    NoFindingLost
CHECK_DEADLOCK FALSE
