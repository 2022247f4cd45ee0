SPECIFICATION Spec
CONSTANTS
    g = g  a1 = a1  a2 = a2  a3 = a3  b1 = b1  b2 = b2  b3 = b3  b4 = b4
    me = me  change = change  you = you
    NoBlock = NoBlock
    Nobody = Nobody
    Unknown = Unknown
    Blocks <- MCBlocks
    Height <- MCHeight
    Parent <- MCParent
    Transactions <- MCTransactions
    Work <- MCWork
    ChainOf <- MCChainOf
    OwnAddresses = {me, change}
    Maturity = 2
    MinSealHeight = 1
    Nodes = {n1}
    Serving = {n1}
    Refreshes = {1}
    PageSize = 2
    MaxFailures = 2
    MaxUserSteps = 1
    MaxSeals = 2
    MaxLost = 1
INVARIANTS ViewsFollowRows StoredTransactionsAreFound
PROPERTIES SyncingEnds
CHECK_DEADLOCK FALSE
