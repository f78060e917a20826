\* Two peers below a task that sleeps one tick at a time: one of the peers starves.
SPECIFICATION SchedulerFairSpec
CONSTANTS
    N = 4
    BasePrio <- MCLowPeersPrio
    TimeSlice <- MCLowPeersSlice
    Yielders = {}
    Sleepers = {4}
    Durations = {1}
    Exiters = {}
PROPERTIES
    PeersTakeTurns
