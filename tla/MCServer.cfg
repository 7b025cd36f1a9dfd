SPECIFICATION FairSpec
CONSTANTS
    NoId = NoId
    NoConfig = NoConfig
    NoReply = NoReply
    Clients = {c1, c2}
    ChainIds = {1, 2, 3}
    Mainnet = 1
    CanonicalTestnet = 2
    Environments <- MCEnvironments
    Posts <- MCPosts
INVARIANTS
    TypeOK
    ServesTheNetworkNamed
    SignedForTheRightChain
    EveryErrorIsListed
PROPERTIES
    EventuallyServes
    ShutdownIsGraceful
