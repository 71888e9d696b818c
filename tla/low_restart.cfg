\* Block 1 holds a transaction and the process restarts.
SPECIFICATION FairSpec
CONSTANTS
    g = g
    a1 = a1
    a2 = a2
    a3 = a3
    a4 = a4
    a5 = a5
    b2 = b2
    b3 = b3
    b4 = b4
    d1 = d1
    d2 = d2
    t1 = t1
    t2 = t2
    t3 = t3
    NoBlock = NoBlock
    Number <- MCNumber
    ParentHash <- MCParentHash
    Blocks = {g, a1, a2}
    TxHashes = {t1, t2}
    Transactions <- MCLowTxs
    Short = {}
    Rollback = FALSE
    Faults = {"crash"}
    MaxFaults = 1
PROPERTIES ReturnsToPoll
