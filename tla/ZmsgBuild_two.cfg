SPECIFICATION Spec
CONSTANTS
    w1 = w1
    w2 = w2
    hello = hello
    pathname = pathname
    number = number
    Nobody = Nobody
    Workers = {w1, w2}
    Parts = {hello, pathname, number}
    Converting = {pathname, number}
    Bad = {number}
    Messages <- MCMessages
    MaxCalls = 3
SYMMETRY Symmetry
CHECK_DEADLOCK FALSE
INVARIANTS
    TypeOK
    AloneFramesMatch
    StrayMeansOverlap
    NoOrphan
