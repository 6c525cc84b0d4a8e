CONSTANTS
    a = a
    b = b
    c = c
    key = key
    Node = {a, b, c}
    h1 = h1
    h2 = h2
    Hit = {h1, h2}
    KeyOf <- OneKey
    Locate <- AThenC
    Setting <- Cases
    Faults = TRUE
    SettlingSuffices = TRUE
    Joiner = {a, b}
    Started = {}
    Blocked = {x}
    MaxCrashes = 1
SPECIFICATION MCSpec
CHECK_DEADLOCK FALSE
INVARIANTS TypeOK CountedOnce 
PROPERTIES  ShutdownEnds JoinReturns
