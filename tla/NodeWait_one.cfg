SPECIFICATION Spec
CONSTANTS
    c1 = c1
    c2 = c2
    alice = alice
    bob = bob
    Callers = {c1, c2}
    Host <- Nested
    Level <- OneInTheOther
    Main = c1
    Modes <- ShortInBlock
    Events <- OneOfEach
    Wants <- MCWants
    Durations = {0, 2}
    Ms = 2
    IntMax = 2
    Kinds = {"trap", "raise"}
    MaxTime = 2
    MaxEvents = 2
    MaxInterrupts = 1
INVARIANTS
    TypeOK
    Custody
    WaitTakesFirstWanted
    NilIsExplained
    NothingDisappears
    PolledReadFindsEvent
PROPERTY
    DeliversEvents
CHECK_DEADLOCK FALSE
