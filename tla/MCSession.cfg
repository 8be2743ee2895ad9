\* Four commands, entered in the first shell or in shells it starts.
CONSTANTS
    MaxTasks = 10
    TimeMod = 4
    SleepTimes = {2}
    KillPids = {0, 1, 3}
    Others = {"other", "oxterm", "missing"}
SPECIFICATION FairSession
INVARIANTS
    PidsUnique
    KillIsAllowed
    ForegroundFirstAlone
PROPERTY PromptReturns
