SPECIFICATION EchoSpec
CONSTANTS
    r1 = r1
    a2 = a2
    a3 = a3
    b2 = b2
    b3 = b3
    boot = boot
    t1 = t1
    NoBlock = NoBlock
    NoHash = NoHash
    NoId = NoId
    NoAnswer = NoAnswer
    NoTx = NoTx
    Clients = {c1}
    Root = r1
    Boot = boot
    Blocks <- MCBlocks
    Parent <- MCParent
    Height <- MCHeight
    TxsOf <- MCTxsOf
    Txs <- MCTxs
    SubAccounts <- MCSubAccounts
    Indexes <- MCIndexes
    AskHashes <- MCAskHashes
INVARIANT EchoAlwaysWorks
