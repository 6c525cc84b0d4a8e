CONSTANTS
    b1 = b1
    b2 = b2
    Node = {n1, n2, n3}
    BlockOp = {b2}
    UnblockOp = {}
    TTL <- ShortAndLong
    MaxTTL = 2
    KeepsExpiry = TRUE
    Environment = {"lose"}
    NoEntry = NoEntry
    NoNode = NoNode
SPECIFICATION FairSpec
PROPERTIES BlockSpreads
