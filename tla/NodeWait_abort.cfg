SPECIFICATION Spec
CONSTANTS
    c1 = c1
    c2 = c2
    alice = alice
    bob = bob
    Callers = {c1}
    Host <- Alone
    Level <- Outermost
    Main = c1
    Modes <- AllMethods
    Events <- OneOfEach
    Wants <- MCWants
    Durations = {2}
    Ms = 1
    IntMax = 2
    Kinds = {"trap"}
    MaxTime = 2
    MaxEvents = 1
    MaxInterrupts = 1
INVARIANT
    ReadGetsEvent
CHECK_DEADLOCK FALSE
