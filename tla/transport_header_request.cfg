SPECIFICATION Spec
CONSTANTS
    c1 = c1
    Conns = {c1}
    SymbolsPerConn = 5
    NumSymbols <- MCNumSymbols
    InitialWindow = 2
    InitialSsthresh = 10
    DecoderOutcomes = {"success"}
    Discardable = {}
    MaxTrims = 2
    MaxDiscards = 0
PROPERTY HeaderTriggersRequest
\* A finished transfer leaves nothing to do.
CHECK_DEADLOCK FALSE
