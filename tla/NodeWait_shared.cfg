SPECIFICATION FairSpec
CONSTANTS
    c1 = c1
    c2 = c2
    alice = alice
    bob = bob
    Callers = {c1, c2}
    Host <- Separate
    Level <- Outermost
    Main = c1
    Modes <- OnlyTimed
    Events <- OneOfEach
    Wants <- MCWants
    Durations = {1}
    Ms = 1
    IntMax = 2
    Kinds = {}
    MaxTime = 1
    MaxEvents = 1
    MaxInterrupts = 0
PROPERTY
    TimedCallReturns
CHECK_DEADLOCK FALSE
