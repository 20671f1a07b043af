SPECIFICATION FairSpec
CONSTANTS
    syn1 = syn1
    pull1 = pull1
    pull2 = pull2
    header1 = header1
    low1 = low1
    low2 = low2
    lossy1 = lossy1
    lossy2 = lossy2
    high1 = high1
    stray1 = stray1
    Packet = {syn1, pull1, low1, low2, lossy1, high1, stray1}
    Kind <- MCKind
    Priority <- MCPriority
    packetCapacity = 2
    WeightModulus = 16
INVARIANT TypeOK
INVARIANT BypassBound
PROPERTY AccountedFor
PROPERTY NotStarved
