SPECIFICATION Spec
CONSTANTS
    symbol = symbol
    string = string
    ctype = ctype
    a = a
    b = b
    None = None
    Default = Default
    Strings = {s1, s2}
    Texts = {a, b}
    Keys = {symbol, string}
    Names = {ctype}
    NameOf <- MCNameOf
    NameFrom <- MCNameFrom
    Factories = {f1}
    Hashes = {Default}
    Messages <- MCMessages
    Settable = {}
    MaxEvents = 1
INVARIANTS
    HeadersAreKept
