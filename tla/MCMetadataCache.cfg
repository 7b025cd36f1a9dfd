SPECIFICATION Spec
CONSTANTS
    t1 = t1
    t2 = t2
    k1 = k1
    NoEntry = NoEntry
    NoItem = NoItem
    Tokens = {t1, t2}
    Contracts = {k1}
    Getters = {"get-symbol", "get-decimals"}
    Broken <- MCBroken
    Ttl = 2
    ErrorTtl = 1
    TokenCacheSize = 1
    AbiTtl = 1
    AbiCacheSize = 1
    Blocks <- MCBlocks
    r1 = r1
    r2 = r2
    Requests = {r1, r2}
INVARIANTS
    TypeOK
    WarmWhenQuiet
    KeptAsLongAsDeserved
    StaleAtMostOnce
PROPERTIES
    KeepsTheTable
