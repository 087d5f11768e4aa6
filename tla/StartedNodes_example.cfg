SPECIFICATION FairSpec
CONSTANTS
    None = None
    Nodes = {node1, node2, node3}
    Headers = {version}
    MaxInterrupts = 1
CHECK_DEADLOCK FALSE
INVARIANTS
    TypeOK
    EntersWithHeaders
    HubServes
    NoneLeftRunning
    StopsEachOnce
PROPERTY
    NodesMeet
