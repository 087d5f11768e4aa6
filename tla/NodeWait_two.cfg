SPECIFICATION Spec
CONSTANTS
    c1 = c1
    c2 = c2
    alice = alice
    bob = bob
    Callers = {c1, c2}
    Host <- Separate
    Level <- Outermost
    Main = c1
    Modes <- EachOrTimed
    Events <- OneOfEach
    Wants <- MCWants
    Durations = {2}
    Ms = 2
    IntMax = 2
    Kinds = {}
    MaxTime = 2
    MaxEvents = 2
    MaxInterrupts = 0
SYMMETRY Threads
INVARIANTS
    Custody
    WaitTakesFirstWanted
    NothingDisappears
PROPERTY
    DeliversEvents
CHECK_DEADLOCK FALSE
