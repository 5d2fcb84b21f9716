\* The RTP link: numbers wrap before the buffer's do.
SPECIFICATION Spec
CONSTANTS
    Half = 8
    WireMod = 4
    MaxUnits = 3
    MaxGap = 8
    MinDelay = 1
    MaxDelay = 2
    Default = 1
    Grace = 1
    NackInterval = 1
    NackLogCap = 8
    LastUnit = 6
    MaxLead = 2
    MaxLost = 8

PROPERTY NewestAccepted
