\* Nothing happens once the clock is at its bound and no call runs; CallReturns shows that
\* nothing stops before.
SPECIFICATION FairSpec
CHECK_DEADLOCK FALSE
CONSTANTS
    g1 = g1  g2 = g2
    NoRow = NoRow
    Unknown = Unknown
    NoInfo = NoInfo
    Goroutine = {g1, g2}
    TTL = 2
    Timeout = 1
    Faults <- AllFaults
    MaxTime = 5
INVARIANTS
    TypeOK
    StampHonest
PROPERTIES
    FreshAnswers
    CallReturns
