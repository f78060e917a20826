\* Two peers and a task below them, which yield, sleep, exit or compute for ever.
SPECIFICATION SchedulerFairSpec
CONSTANTS
    N = 4
    BasePrio <- MCTopPeersPrio
    TimeSlice <- MCTopPeersSlice
    Yielders = {2, 4}
    Sleepers = {2, 3, 4}
    Durations = {0, 1, 2}
    Exiters = {3, 4}
INVARIANTS
    KernelTypeOK
    RunsOnlyWhenRunning
    PreemptionPending
    SleepsLongEnough
PROPERTIES
    SleepersWake
    TopTasksRun
