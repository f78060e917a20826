\* Nested mutexes: an unlock takes back the boost another mutex still needs.
SPECIFICATION Spec
CONSTANTS
    N = 4
    BasePrio <- MCBasePrio
    TimeSlice <- MCTimeSlice
    Yielders = {}
    Sleepers = {2, 3, 4}
    Durations = {1}
    Exiters = {}
    Mutexes = {m1, m2}
    Lockers = {2, 3, 4}
    Triers = {}
    MaxHeld = 2
    ExitHolding = FALSE
INVARIANTS
    PriorityInheritance
