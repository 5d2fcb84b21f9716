\* One client and a prompt network that may drop packets.
SPECIFICATION FairSpec
CONSTANTS
    NFrames = 1
    Fragments <- MCThree
    Clients = {c1}
    SimLossy = FALSE
    NetLossy = TRUE
    MaxCopies = 3
    MaxNacks = 3
    CacheSize = 4
    Prompt = TRUE
    NackInterval = 1
    GiveUpAge = 1
    Chunk = 2
    LastSize <- MCShort
INVARIANT NothingGivenUp
PROPERTY RecoveryEnds
PROPERTY FecSuffices
