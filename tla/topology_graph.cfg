SPECIFICATION Spec
CONSTANTS
    plain = plain
    again = again
    Modules = {1, 2, 3, 4}
    Networks <- MCNetworks
    Manual = {plain, again}
    ManualId <- MCManualId
    MaxLinks = 6
    MaxEdits = 2
INVARIANT TypeOK
INVARIANT LinksConsistent
INVARIANT NodesFound
INVARIANT NetworksDirect
\* An error ends the simulation.
CHECK_DEADLOCK FALSE
