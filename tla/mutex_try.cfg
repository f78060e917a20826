\* A task that uses try_lock only, below two that lock.
SPECIFICATION Spec
CONSTANTS
    N = 4
    BasePrio <- MCBasePrio
    TimeSlice <- MCTimeSlice
    Yielders = {}
    Sleepers = {2, 3, 4}
    Durations = {1}
    Exiters = {}
    Mutexes = {m1}
    Lockers = {3, 4}
    Triers = {2}
    MaxHeld = 1
    ExitHolding = FALSE
INVARIANTS
    TriersAreNotBoosted
