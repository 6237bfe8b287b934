CONSTANTS
    c1 = c1
    s1 = s1
    OrderIds = {1, 2}
    Clients = {c1}
    Symbols = {s1}
    SymbolOf <- OneSymbol
    MaxEngines = 1
    MaxStreamCalls = 1
SPECIFICATION Spec
INVARIANT StreamOutlivesOthers
CHECK_DEADLOCK FALSE
