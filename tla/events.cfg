\* Three tasks wait for flags that a task and interrupt handlers set.
SPECIFICATION FairSpec
CONSTANTS
    a = a
    b = b
    c = c
    N = 4
    BasePrio <- MCBasePrio
    TimeSlice <- MCTimeSlice
    Yielders = {}
    Sleepers = {}
    Durations = {}
    Exiters = {2}
    Flags = {a, b, c}
    AnyMasks <- MCAnyMasks
    AllMasks <- MCAllMasks
    Setters = {2}
    SetMasks = {{a}}
    IsrSets = {{b, c}, {a, b}}
INVARIANTS
    Consistent
    NoSatisfiedWaiter
PROPERTIES
    ImplementsEventWord
    TopTaskReturns
