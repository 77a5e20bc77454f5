SPECIFICATION Spec
CONSTANTS
    t1 = t1  t2 = t2  t3 = t3  h1 = h1  h2 = h2  w1 = w1  m1 = m1  amt = amt
    NoHash = NoHash
    Free = Free
    Trade = {t1, t2}
    ProxyWallet <- MCOneWallet
    Timestamp <- MCDistinctSeconds
    TransactionHash <- MCSharedHash
    ConditionID <- MCMarket
    Amount <- MCAmount
    MarketFiltered = {}
    Distant = {}
    Rejected = {}
    WindowSec = 10
    Workers = 2
    PageLimit = 2
    Cooldown = 2
    Faults = {}
    LateTrades = FALSE
    MaxTime = 1
    MaxCrashes = 0
INVARIANT
    CooldownRespected
