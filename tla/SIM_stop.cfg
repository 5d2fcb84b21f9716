\* stop does not wake the drain thread.
SPECIFICATION SimFairSpec
CONSTANTS
    Injected = {p1, p2, p3}
    Injectors = {enc, rcv}
    Lossy = FALSE
    Delay = 0
    Jitter = 2
    MaxTime = 4
PROPERTY StopReturns
CHECK_DEADLOCK FALSE
