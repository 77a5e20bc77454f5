SPECIFICATION FairSpec
CONSTANTS
    c1 = c1  c2 = c2  c3 = c3  c4 = c4
    Call = {c1, c2, c3, c4}
    Rps = 3
    RpsDen = 2
    TicksPerSec = 3
    MaxWindow = 6
INVARIANTS
    TypeOK
    RateBound
PROPERTY
    WaitReturns
