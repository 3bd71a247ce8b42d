SPECIFICATION Spec
CONSTANTS
    Procs = {"here", "hook"}
    Owners = {"user", "attacker"}
    DoneDays = 0
    AgeRule <- MCAgeRule
    ArchiveDays = 1
    MaxNotes = 3
    MaxDays = 2
    MaxCommands = 3
    MaxKills = 1
INVARIANTS
    ShelfSettles
    MergedTodoStaysClosed
CHECK_DEADLOCK FALSE
