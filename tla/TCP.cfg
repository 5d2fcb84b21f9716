\* Two clients; frames, statistics, reading, leaving and a stop at any moment.
SPECIFICATION FairSpec
CONSTANTS
    NConns = 2
    QueueSize = 1
    CloseWakes = TRUE
CHECK_DEADLOCK FALSE
INVARIANT FramesWhole
INVARIANT NoThreadLeft
PROPERTY StopEnds
