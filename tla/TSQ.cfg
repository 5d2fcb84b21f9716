\* Both kinds of queue, drop-oldest and blocking, filled by push and by try_push.
SPECIFICATION FairSpec
CONSTANTS
    Pushers = {p1, p2}
    TryPushers = {t1}
    Poppers = {c1}
    TimedPoppers = {d1}
    Closer = main
    Capacity = 2
    MaxPushes = 4
INVARIANTS
    Contiguous
    NoLostItem
    NoLostRoom
    NobodySleepsAfterClose
PROPERTIES
    PushIsLossless
    DeliveredInOrder
    ImplementsFifo
    EveryElementLeaves
    CloseReleases
