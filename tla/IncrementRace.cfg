CONSTANTS
    n1 = n1
    n2 = n2
    k1 = k1
    k2 = k2
    h1 = h1
    h2 = h2
    h3 = h3
    Node = {n1}
    Key = {k1}
    Hit = {h1, h2}
    Bulk = {}
    KeyOf <- OneKey
    Locate <- Last
    View <- ViewsStable
    Cell = {c1, c2, c3}
    NoCell = NoCell
    NoNode = NoNode
    Limit = 1
    MaxBatchSize = 2
    Faults = {}
SPECIFICATION Spec
INVARIANTS NoLostHit
