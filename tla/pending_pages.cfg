\* More pending transactions than fit on a page.
SPECIFICATION ListSpec
CONSTANTS
    g = g
    a1 = a1
    a2 = a2
    b2 = b2
    b3 = b3
    t1 = t1
    t2 = t2
    t3 = t3
    t4 = t4
    NoBlock = NoBlock
    TxHashes = {t1, t2, t3, t4}
    Blocks = {g, a1}
    Number <- MCNumber
    ParentHash <- MCParentHash
    Transactions <- MCTxs
    Short = {}
    Rollback = FALSE
    Faults = {}
    MaxFaults = 0
    Asks <- MCTypedAsks
    PageSizes = {1, 2}
    MaxPending = 3
    From = {t1, t2, t4}
    To = {t1, t3}
    F_tx_type <- MCTypes
INVARIANTS PageIsRange
