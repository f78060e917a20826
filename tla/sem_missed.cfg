\* An interrupt gives a semaphore while PendSV executes.
SPECIFICATION Spec
CONSTANTS
    s1 = s1
    s2 = s2
    N = 4
    BasePrio <- MCPeerPrio
    TimeSlice <- MCPeerSlice
    Yielders = {}
    Sleepers = {4}
    Durations = {1}
    Exiters = {3}
    Sems = {s1, s2}
    InitialCount <- MCInitial
    MaxCount <- MCMax
    Takers = {2, 3, 4}
    Givers = {2, 4}
    IsrGiven = {s2}
    IsrTried = {s1}
INVARIANTS
    PreemptionPending
