\* A node connects again before its old connection has ended.
SPECIFICATION Spec
CONSTANTS
    c1 = c1
    c2 = c2
    n1 = n1
    n2 = n2
    None = None
    Conns = {c1, c2}
    Ids = {n1, n2}
    Values = {v}
    MaxHellos = 2
    Uses <- MCUses
INVARIANTS LiveNodesListed
