SPECIFICATION Spec
CONSTANTS
    NoId = NoId
    NoConfig = NoConfig
    NoReply = NoReply
    Clients = {c1}
    ChainIds = {1, 2, 3}
    Mainnet = 1
    CanonicalTestnet = 2
    Environments <- MCEnvironments
    Posts <- MCPosts
INVARIANT
    OfflineAwaitsNothing
