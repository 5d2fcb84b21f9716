\* Two clients keep each other asking, without any loss.
SPECIFICATION FairSpec
CONSTANTS
    NFrames = 1
    Fragments <- MCTwo
    Clients = {c1, c2}
    SimLossy = FALSE
    NetLossy = FALSE
    MaxCopies = 1
    MaxNacks = 1
    CacheSize = 3
    Prompt = TRUE
    NackInterval = 1
    GiveUpAge = 1
    Chunk = 2
    LastSize <- MCShort
PROPERTY NoNackStorm
