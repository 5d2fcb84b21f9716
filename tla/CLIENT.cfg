\* Three frames over each transport, with a window or without; the window closes, the
\* server goes away or the decoder fails at any moment.
SPECIFICATION FairSpec
CONSTANTS
    NFrames = 3
    OutSize = 2
    DecodedSize = 2
CHECK_DEADLOCK FALSE
INVARIANT PushedInOrder
PROPERTY ShownInOrder
PROPERTY ShutdownEnds
