\* Three tasks and interrupt handlers send to and receive from a channel of two places.
SPECIFICATION FairSpec
CONSTANTS
    N = 4
    BasePrio <- MCBasePrio
    TimeSlice <- MCTimeSlice
    Yielders = {}
    Sleepers = {}
    Durations = {}
    Exiters = {2}
    Capacity = 2
    Messages = {a, b}
    NoMessage = NoMessage
    Senders = {2, 3}
    Receivers = {3, 4}
    Triers = {4}
    IsrSends = TRUE
    IsrReceives = TRUE
INVARIANTS
    Consistent
    WaitersHaveReason
    RecvReturnsAMessage
PROPERTIES
    ImplementsFifo
    TopTaskReceives
