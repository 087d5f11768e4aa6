SPECIFICATION FairSpec
CONSTANTS
    c1 = c1
    c2 = c2
    alice = alice
    bob = bob
    Callers = {c1, c2}
    Host <- Nested
    Level <- OneInTheOther
    Main = c1
    Modes <- WaitsInBlock
    Events <- OneOfEach
    Wants <- MCWants
    Durations = {2}
    Ms = 1
    IntMax = 2
    Kinds = {"raise", "trap"}
    MaxTime = 2
    MaxEvents = 2
    MaxInterrupts = 1
PROPERTIES
    TimedCallReturns
    WantedIsFound
CHECK_DEADLOCK FALSE
