\* Two browsers, or one and two frames; a signal or a failing encoder at any moment.
SPECIFICATION FairSpec
CONSTANTS
    NConns = 2
    EncSize = 1
    TapSize = 1
    Load = 4
CHECK_DEADLOCK FALSE
INVARIANT OneWriter
INVARIANT NoThreadLeft
PROPERTY ShutdownEnds
PROPERTY NewestShown
