SPECIFICATION Spec
CONSTANTS
    al = al
    bo = bo
    call = call
    code = code
    u1 = u1
    NoMemo = NoMemo
    NoFee = NoFee
    NoWhat = NoWhat
    NoAccount = NoAccount
    NoAbi = NoAbi
    NoFunction = NoFunction
    Invalid = Invalid
    None = None
    Accounts = {al, bo}
    Memos <- MCMemos
    EmptyMemo = ""
    LongMemos = {"35 bytes"}
    Asks <- MCAsks
    Codes = {call, code}
    Values = {u1}
    Parameters <- MCParameters
    Sessions = {"w1"}
    DefaultFee = 200
    TxSize <- MCTxSize
    MaxNonce = 2
INVARIANTS
    TypeOK
    ExecutesWhatWasAsked
    SignatureCoversTransfer
    
    RefusedOnlyForCause
    SuggestedFeeWithinCap
