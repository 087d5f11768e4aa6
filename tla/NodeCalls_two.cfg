SPECIFICATION Spec
CONSTANTS
    symbol = symbol
    string = string
    other = other
    s1 = s1
    s2 = s2
    ctype = ctype
    plain = plain
    nul = nul
    None = None
    Callers = {c1, c2}
    Strings = {s1, s2}
    Texts = {ctype, plain, nul}
    Unfit = {nul}
    Keys = {symbol, string, other}
    NameOf <- MCNameOf
    Hashes <- MCHashes
    Ops = {"interface=", "set_header"}
    ArgLists <- MCArgLists
    MaxCalls = 4
    MaxChanges = 1
SYMMETRY Symmetry
CHECK_DEADLOCK FALSE
INVARIANTS
    TypeOK
    ToldAsAsked
    ToldOnceIfReturned
    HeadersMerged
