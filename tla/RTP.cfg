\* Any loss, parity packets early, late or never, two entries for them.
SPECIFICATION Spec
CONSTANTS
    NFrames = 3
    Count <- MCCount
    Starts <- MCStarts
    Mtu = 2
    Bytes <- MCBytes
    XorNum <- MCXorNum
    FecLimit = 2
    GiveUpAge = 1
INVARIANT Intact
INVARIANT NoneDisappears
INVARIANT InnerLossRepaired
INVARIANT OutputOrder
