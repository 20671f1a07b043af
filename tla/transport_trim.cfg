SPECIFICATION Spec
CONSTANTS
    c1 = c1
    Conns = {c1}
    SymbolsPerConn = 5
    NumSymbols <- MCNumSymbols
    InitialWindow = 3
    InitialSsthresh = 10
    DecoderOutcomes = {"success", "failure"}
    Discardable = {}
    MaxTrims = 2
    MaxDiscards = 0
INVARIANT TypeOK
INVARIANT PullOrder
INVARIANT NoUnsolicitedSymbol
INVARIANT WindowAccounting
INVARIANT FinishedAfterClosed
INVARIANT NothingToDropInListen
INVARIANT StallsOnlyForTrimmed
PROPERTY ClosedWhenDecodable
PROPERTY ImplementsPullCredit
\* A finished transfer leaves nothing to do.
CHECK_DEADLOCK FALSE
