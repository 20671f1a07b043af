SPECIFICATION FairSpec
CONSTANTS
    short = short
    long = long
    Conns = {short, long}
    ShortSymbols = 2
    LongSymbols = 3
    NumSymbols <- MCNumSymbols
    InitialWindow = 1
    InitialSsthresh = 10
    DecoderOutcomes = {"success"}
    Priority <- MCPriority
    packetCapacity = 1
    WeightModulus = 16
    MaxESI = 8
    MaxTrims = 2
PROPERTY ImplementsTransport
PROPERTY OverloadIsBooked
PROPERTY EverySymbolLeaves
\* Finished transfers leave nothing to do.
CHECK_DEADLOCK FALSE
