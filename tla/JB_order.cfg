\* No realignment: MaxGap covers every gap of the run; the buffer overflows.
SPECIFICATION FairSpec
CONSTANTS
    Half = 8
    WireMod = 16
    MaxUnits = 3
    MaxGap = 8
    MinDelay = 1
    MaxDelay = 2
    Default = 1
    Grace = 1
    NackInterval = 1
    NackLogCap = 20
    LastUnit = 4
    MaxLead = 3
    MaxLost = 20
INVARIANT NoSilentGap
INVARIANT StarvesBeforeMaxWait
PROPERTY DeliveredInOrder
PROPERTY ImplementsStream
PROPERTY NewestAccepted
PROPERTY EveryUnitLeaves
