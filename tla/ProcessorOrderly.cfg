SPECIFICATION Spec
CONSTANTS
    t1 = t1  t2 = t2  t3 = t3  h1 = h1  h2 = h2  w1 = w1  m1 = m1  amt = amt
    NoHash = NoHash
    Free = Free
    Trade = {t1, t2, t3}
    ProxyWallet <- MCOneWallet
    Timestamp <- MCDistinctSeconds
    TransactionHash <- MCDerivedHash
    ConditionID <- MCMarket
    Amount <- MCAmount
    MarketFiltered = {t1}
    Distant = {t1}
    Rejected = {}
    WindowSec = 2
    Workers = 2
    PageLimit = 3
    Cooldown = 2
    Faults <- BenignFaults
    LateTrades = FALSE
    MaxTime = 2
    MaxCrashes = 1
INVARIANTS
    Watermark
    AlertsPerCooldown
