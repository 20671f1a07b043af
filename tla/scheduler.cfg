SPECIFICATION Spec
CONSTANTS
    kValue = 4
    numlongflowsRunningServers = 12
    Shuffles <- MCShuffles
    TrafficMatrixTypes = {"randTM", "permTM"}
    numShortFlows = 2
    FlowSizes <- MCWorkLoad
    longFlowSize = 10000
INVARIANT OwnSink
INVARIANT AppsDistinct
INVARIANT StopsExactlyWhenDone
\* A stopped simulation does nothing more.
CHECK_DEADLOCK FALSE
