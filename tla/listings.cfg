\* Clients read listings page by page while the chain is reorganised and the process crashes.
SPECIFICATION ListSpec
CONSTANTS
    g = g
    a1 = a1
    a2 = a2
    b2 = b2
    b3 = b3
    t1 = t1
    t2 = t2
    t3 = t3
    t4 = t4
    NoBlock = NoBlock
    TxHashes = {t1, t2, t3, t4}
    Blocks = {g, a1, a2, b2, b3}
    Number <- MCNumber
    ParentHash <- MCParentHash
    Transactions <- MCTxs
    Short = {}
    Rollback = FALSE
    Faults = {"crash"}
    MaxFaults = 1
    Asks <- MCAsks
    PageSizes = {0, 1, 2}
    MaxPending = 2
    From = {t1, t2, t4}
    To = {t1, t3}
    F_tx_type <- MCTypes
INVARIANTS ListTypeOK PagesContiguous PagesOfOneBlock NothingMissed FittingPendingPaged
