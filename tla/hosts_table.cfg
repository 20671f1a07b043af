SPECIFICATION FairSpec
CONSTANTS
    a = a
    b = b
    c0 = c0
    c1 = c1
    c2 = c2
    cfix = cfix
    cback = cback
    s0 = s0
    s1 = s1
    sdup = sdup
    snone = snone
    sfix = sfix
    sback = sback
    Unspecified = Unspecified
    Hosts = {a, b}
    Clients = {c0, c1, c2, cfix, cback}
    Sinks = {s0, s1, sfix, sdup, snone, sback}
    HostOf <- MCHostOf
    LocalAddress <- MCLocalAddress
    LocalPort <- MCLocalPort
    ConnectAddress <- MCConnectAddress
    ConnectPort <- MCConnectPort
    EPHEMERAL_PORTRANGE_START = 10
    EPHEMERAL_PORTRANGE_END = 12
    Deployments <- MCDeployments
    MaxOutages <- MCMaxOutages
INVARIANT TypeOK
INVARIANT TableConsistent
INVARIANT NoCrossTalk
INVARIANT PortsGivenOut
PROPERTY Accepted
\* An error ends the simulation, and connected hosts may have nothing to do.
CHECK_DEADLOCK FALSE
