CONSTANTS
    b1 = b1
    b2 = b2
    Node = {n1, n2}
    BlockOp = {b1, b2}
    UnblockOp = {u1}
    TTL <- ShortAndLong
    MaxTTL = 2
    KeepsExpiry = TRUE
    Environment = {"tick", "lose", "evict", "restart"}
    NoEntry = NoEntry
    NoNode = NoNode
SPECIFICATION Spec
SYMMETRY Nodes
INVARIANTS TypeOK NoProlongedBlock
