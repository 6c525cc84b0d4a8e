CONSTANTS
    Request = {r1, r2, r3}
    Algorithm = {"token-bucket", "sliding-window"}
    Per = {1, 3}
    Window = 3
    Limit = 1
    Unit = 3
    Capacity = 4
    Rate = 2
    MaxTime = 4
    None = None
    Name = {"one", "two"}
    Prefix <- Prefixes
    Path <- Paths
    Claimed <- Claims
    Hops <- Appended
    Index = {0, 1}
    Socket = "socket"
    Header = {"key"}
    Keys <- RuleKeys
    Blank = "blank"
    NoRule = NoRule
    Hosts <- HostNames
    Route = {"p"}
    Config <- Configs
    Proxied = {r1, r2, r3}
    Token = {"missing", "no audience", "good"}
    Pool <- Pools
    Wrap = 4
    Earlier = 1
    Nothing = Nothing
    Server = {m, n}
    Nonce = {x, y}
    Caller = {c, d}
    Session = {s}
    NonceLife = 1
    TokenLife = 1
    SessionLife = 2
    AdminTime = 2
    Absent = Absent
SPECIFICATION MCSpec
SYMMETRY Symmetry
CHECK_DEADLOCK FALSE
INVARIANTS
    RateBound RetryIsEnough
     
     Balanced
    ReadableReply  StoreIsBounded
PROPERTIES BlockIsEarned
