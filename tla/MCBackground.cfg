\* A background sleep, and a user who need not type again.
CONSTANTS
    MaxTasks = 6
    TimeMod = 4
    SleepTimes = {1}
    KillPids = {}
    Others = {"other"}
SPECIFICATION FairSession
PROPERTY BackgroundCleared
