SPECIFICATION FairSpec
CONSTANTS
    t1 = t1  t2 = t2  t3 = t3  h1 = h1  h2 = h2  w1 = w1  m1 = m1  amt = amt
    NoHash = NoHash
    Free = Free
    Trade = {t1, t2, t3}
    ProxyWallet <- MCOneWallet
    Timestamp <- MCDistinctSeconds
    TransactionHash <- MCSharedHash
    ConditionID <- MCMarket
    Amount <- MCAmount
    MarketFiltered = {t1}
    Distant = {t1}
    Rejected = {}
    WindowSec = 10
    Workers = 2
    PageLimit = 3
    Cooldown = 0
    Faults <- LateFaults
    LateTrades = FALSE
    MaxTime = 0
    MaxCrashes = 1
PROPERTY
    EveryTradeHandled
