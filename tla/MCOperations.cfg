SPECIFICATION Spec
CONSTANTS
    al = al
    bo = bo
    ft1 = ft1
    nft1 = nft1
    NoAccount = NoAccount
    NoAsset = NoAsset
    NoTx = NoTx
    Accounts = {al, bo}
    FungibleTokens = {ft1}
    NonFungibleTokens = {nft1}
    Amounts = {1}
    Fees = {0, 2}
    PoxEvents <- MCPoxEvents
    MaxEvents = 2
INVARIANTS
    TypeOK
    IndexesCount
    SidesBelongTogether
    OperationsTellBalances
