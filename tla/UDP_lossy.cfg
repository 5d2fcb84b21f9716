\* Loss in the simulator and in the network, delay, reordering, retransmission.
SPECIFICATION Spec
CONSTANTS
    NFrames = 2
    Fragments <- MCTwoTwo
    Clients = {c1}
    SimLossy = TRUE
    NetLossy = TRUE
    MaxCopies = 1
    MaxNacks = 1
    CacheSize = 4
    Prompt = FALSE
    NackInterval = 1
    GiveUpAge = 1
    Chunk = 2
    LastSize <- MCShortFull
INVARIANT Intact
INVARIANT NoReadyGroupWaits
INVARIANT OneLossCostsNothing
INVARIANT RecentAnswerable
