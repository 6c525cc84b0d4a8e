CONSTANTS
    n1 = n1
    n2 = n2
    k1 = k1
    k2 = k2
    h1 = h1
    h2 = h2
    h3 = h3
    Node = {n1, n2}
    Key = {k1, k2}
    Hit = {h1, h2}
    Bulk = {h2}
    KeyOf <- TwoKeys
    Locate <- Last
    View <- Views
    Cell = {c1, c2, c3}
    NoCell = NoCell
    NoNode = NoNode
    Limit = 0
    MaxBatchSize = 2
    Faults = {"expire", "lose"}
SPECIFICATION Spec
INVARIANTS TypeOK BulkNeverBlocks
PROPERTIES  ImplementsRateLimiter
