\* Any programs on up to 4 tasks, with sleeps of 0 and 1 seconds; TimeMod is as small
\* as it can be, so that the 0 wraps around.
CONSTANTS
    MaxTasks = 4
    TimeMod = 2
    SleepTimes = {0, 1}
SPECIFICATION FairSpec
INVARIANTS
    ListWellFormed
    KernelKept
    PreviousListed
    RunningRunnable
    ContextsIntact
    PidsOrdered
PROPERTIES
    ImplementsScheduler
    EveryTaskRuns
