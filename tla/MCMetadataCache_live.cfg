SPECIFICATION FairSpec
CONSTANTS
    t1 = t1
    t2 = t2
    k1 = k1
    NoEntry = NoEntry
    NoItem = NoItem
    Tokens = {t2}
    Contracts = {k1}
    Getters = {"get-symbol", "get-decimals"}
    Broken <- MCBroken
    Ttl = 2
    ErrorTtl = 1
    TokenCacheSize = 0
    AbiTtl = 1
    AbiCacheSize = 1
    Blocks <- MCSmallBlocks
    r1 = r1
    r2 = r2
    Requests = {r1, r2}
PROPERTIES
    EveryBlockIsSerialized
    FailuresHeal
