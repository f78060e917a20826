\* Two tasks sleep and wait for timers, in absolute time up to the horizon.
SPECIFICATION Spec
CONSTANTS
    N = 3
    BasePrio <- MCBasePrio
    TimeSlice <- MCTimeSlice
    Yielders = {}
    Sleepers = {}
    Durations = {}
    Exiters = {}
    Modulus = 16
    Horizon = 6
    Delays = {1, 15}
    Periods = {2}
    TimerUsers = {2, 3}
CHECK_DEADLOCK FALSE
INVARIANTS
    TimeAgrees
PROPERTIES
    ReturnsWhenDue
    WakesWhenDue
