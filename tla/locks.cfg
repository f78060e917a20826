\* A producer between two consumers, one mutex with a condition and one without, and
\* interrupts that notify.
SPECIFICATION HandshakeFairSpec
CONSTANTS
    mx = mx
    cv = cv
    N = 4
    BasePrio <- MCBasePrio
    TimeSlice <- MCTimeSlice
    Yielders = {}
    Sleepers = {2, 3}
    Durations = {1}
    Exiters = {3, 4}
    Mutexes = {mx, m2}
    Lockers = {2, 3, 4}
    Triers = {2}
    MaxHeld = 1
    ExitHolding = FALSE
    Conds = {cv}
    Consumers = {2, 4}
    Producers = {3}
    MutexOf <- MCMutexOf
    IsrNotified = {cv}
INVARIANTS
    HandshakeConsistent
    MutualExclusion
    PriorityInheritance
    BoostHasACause
    NoLostWakeUp
PROPERTIES
    ImplementsPriorityLock
    TopTaskLocks
    TopConsumerWakes
