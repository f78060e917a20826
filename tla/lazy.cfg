\* A Once whose closure allocates from a pool of two slots; tasks and handlers
\* allocate and drop beside it.
SPECIFICATION FairSpec
CONSTANTS
    o = o
    a = a
    b = b
    N = 4
    BasePrio <- MCBasePrio
    TimeSlice <- MCTimeSlice
    Yielders = {}
    Sleepers = {}
    Durations = {}
    Exiters = {}
    Capacity = 2
    Values = {a, b}
    NoValue = NoValue
    Stored <- MCStored
    IsrStored = {a}
    PoolTriers = {2}
    Droppers = {2, 3}
    IsrDrops = TRUE
    Onces = {o}
    CallersOf <- MCCallersOf
    Allocators = {3}
INVARIANTS
    Consistent
    SlotsHaveOneOwner
    OnceRunsOnce
PROPERTIES
    ImplementsAllocator
    TopInitialiserReleases
