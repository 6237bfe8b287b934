CONSTANTS
    c1 = c1
    s1 = s1
    OrderIds = {1, 2}
    Clients = {c1}
    Symbols = {s1}
    SymbolOf <- OneSymbol
    MaxEngines = 2
    MaxStreamCalls = 2
SPECIFICATION FairSpec
INVARIANTS
    NoOrderForgotten
    RefsCoverIndex
    OpenOrderIsStreamed
PROPERTIES
    OpenOrderIsExecuted
CHECK_DEADLOCK FALSE
