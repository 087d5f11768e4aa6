SPECIFICATION FairSpec
CONSTANTS
    n1 = n1
    n2 = n2
    w1 = w1
    w2 = w2
    NoNode = NoNode
    NotANode = NotANode
    Nobody = Nobody
    Nodes = {n1, n2}
    Waiters = {w1, w2}
    Changers = {c}
    Lists <- MCLists
    TimedOnly = TRUE
    MaxCalls = 2
    MaxEvents = 2
    MaxInterrupts = 1
INVARIANTS
    TypeOK
    SocketsAreLive
    ReadyNodeIsReturned
    AddedIsPolled
    NotAllStuck
PROPERTIES
    AllRead
