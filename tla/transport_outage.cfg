SPECIFICATION OutageSpec
CONSTANTS
    c1 = c1
    c2 = c2
    Conns = {c1, c2}
    SymbolsPerConn = 2
    NumSymbols <- MCNumSymbols
    InitialWindow = 1
    InitialSsthresh = 10
    DecoderOutcomes = {"success"}
    Discardable = {c2}
    MaxTrims = 1
    MaxDiscards = 1
    MaxOutages = 2
INVARIANT PacerAliveUntilOutage
INVARIANT FinishedHostSurvives
PROPERTY ServedInTurn
PROPERTY PullsServed
\* A finished transfer leaves nothing to do.
CHECK_DEADLOCK FALSE
