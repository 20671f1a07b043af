SPECIFICATION Spec
CONSTANTS
    t = t
    a = a
    b = b
    s = s
    Node <- MCNode
    Link <- MCLink
    SrcNode <- MCSrcNode
    DestNode <- MCDestNode
    INFINITY = INFINITY
    NoLink = NoLink
    LinkWeights <- MCLinkWeights
    NodeWeights <- MCNodeWeights
    MaxEdits = 2
INVARIANT TypeOK
INVARIANT LoopFree
INVARIANT ShortestPaths
INVARIANT EqualCostPaths
PROPERTY SettledForGood
