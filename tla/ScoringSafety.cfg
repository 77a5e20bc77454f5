SPECIFICATION Spec
CONSTANTS
    t1 = t1  t2 = t2  t3 = t3  w1 = w1  m1 = m1  m2 = m2
    Trade = {t1, t2, t3}
    ProxyWallet <- MCProxyWallet
    ConditionID <- MCConditionID
    Timestamp <- MCTimestamp
    Notional <- MCNotional
    Side <- MCSide
    Price <- MCPrice
    FirstActivity <- MCFirstActivity
    EndDate <- MCEndDate
    LiquidityNum <- MCLiquidity
    StatsRows <- MCStatsRows
    TimeToCloseMax = 172800
    VelocityWindow = 600
    VelocityThreshold = 3
    PositionWindow = 86400
    MinWinRate = 75
    WarnScore = 70
    AlertScore = 85
    Faults <- AllFaults
INVARIANTS
    TypeOK
    BurstSeen
    NeverBelowBase
\* Every trade has been scored: the goroutines have returned.
CHECK_DEADLOCK FALSE
