CONSTANTS
    a = a
    Node = {1, 2}
    Stream = {s1, s2}
    NoStream = NoStream
    Message = {a}
    From <- Sender
    To <- Receiver
    SendBuffer = 1
    Leaving = {2}
    Faults = TRUE
SPECIFICATION FairSpec
CHECK_DEADLOCK FALSE
INVARIANTS TypeOK EntriesAreServed
PROPERTIES HalfOpenEnds StreamsEnd QueuedIsDelivered
