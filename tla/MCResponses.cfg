SPECIFICATION FairSpec
CONSTANTS
    x = x
    y = y
    NoAbi = NoAbi
    NoEntry = NoEntry
    NoCall = NoCall
    Functions = {x, y}
    ABIs <- MCABIs
    Calls <- MCCalls
    NeighborEntries <- MCNeighborEntries
    Neighbors <- MCNeighbors
    MaxItems = 1
INVARIANTS
    RefusedOnlyForTheUnknown
    OnlyResultTypesAreLost
    NeighborsShownOnce
PROPERTIES
    OutdatedAbiHeals
