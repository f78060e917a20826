\* Two tasks wait for one-shot timers, more than once.
SPECIFICATION WaitsSpec
CONSTANTS
    N = 3
    BasePrio <- MCBasePrio
    TimeSlice <- MCTimeSlice
    Yielders = {}
    Sleepers = {}
    Durations = {}
    Exiters = {}
    Modulus = 16
    Horizon = 6
    Delays = {1, 15}
    Periods = {2}
    TimerUsers = {2, 3}
CHECK_DEADLOCK FALSE
INVARIANTS
    LaterWaitsDoNotSleep
