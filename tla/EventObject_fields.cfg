SPECIFICATION Spec
CONSTANTS
    symbol = symbol
    string = string
    ctype = ctype
    a = a
    b = b
    None = None
    Default = Default
    Strings = {s1}
    Texts = {a, b}
    Keys = {symbol}
    Names = {ctype}
    NameOf <- MCNameOf
    NameFrom <- MCNameFrom
    Factories = {f1}
    Hashes = {Default, own}
    Messages <- MCMessages
    Settable = {"name"}
    MaxEvents = 1
INVARIANTS
    TypeOK
    FieldsAreKept
    HeadersKeptWhileIntact
