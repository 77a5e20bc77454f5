SPECIFICATION ServiceFairSpec
CONSTANTS
    t1 = t1  t2 = t2  w1 = w1  m1 = m1  yes = yes  no = no  r1 = r1  r2 = r2
    NoWinner = NoWinner
    Open = Open
    Recalc = {r1}
    Trade = {t1}
    ProxyWallet <- MCProxyWallet
    ConditionID <- MCConditionID
    Side <- MCSide
    Outcome <- MCOutcome
    NotionalUSD <- MCNotional
    Outcomes <- MCOutcomes
    PriceLists <- MCPriceLists
    Faults = {}
    MaxCrashes = 1
    Kills = FALSE
PROPERTY
    ResolvedIsCounted
