\* Loss and jitter: when, in which order and how often packets leave.
SPECIFICATION SimFairSpec
CONSTANTS
    Injected = {p1, p2, p3}
    Injectors = {enc, rcv}
    Lossy = TRUE
    Delay = 0
    Jitter = 2
    MaxTime = 4
INVARIANT NeverOversleeps
INVARIANT LeaveInDueOrder
PROPERTY ImplementsDelayLine
PROPERTY EveryPacketLeaves
CHECK_DEADLOCK FALSE
