SPECIFICATION FairSpec
CONSTANTS
    c1 = c1
    Conns = {c1}
    SymbolsPerConn = 7
    NumSymbols <- MCNumSymbols
    InitialWindow = 2
    InitialSsthresh = 3
    DecoderOutcomes = {"success"}
    Discardable = {}
    MaxTrims = 0
    MaxDiscards = 0
INVARIANT WindowLimit
INVARIANT BoundedOverhead
PROPERTY Completes
\* A finished transfer leaves nothing to do.
CHECK_DEADLOCK FALSE
