----------------------------- MODULE RaqsacHosts -----------------------------
(***************************************************************************)
(* The hosts' connection tables.  Applications open sockets; class Raqsac  *)
(* of a host turns each open request into a connection, enters it into     *)
(* raqsacConnMap under its pair of addresses and ports, and looks there    *)
(* for the connection of every segment that arrives.  A connection corrects*)
(* its own entry as it learns its peer.  Hosts may stop, crash and start.  *)
(*                                                                         *)
(* A host is its own L3 address.  A segment is reduced to what the tables  *)
(* see of it: addresses, ports, and whether it is a symbol of the pushed   *)
(* window (SYN), a later symbol or a pull; a set element stands for any    *)
(* number of such segments in flight.  The open requests take no simulated *)
(* time, a segment does.                                                   *)
(***************************************************************************)
EXTENDS Integers, FiniteSets

CONSTANTS
    Hosts,
    Clients,                    \* sockets of RaqsacBasicClientApps
    Sinks,                      \* sockets of RaqsacSinkApps
    HostOf,                     \* HostOf[s]: the host of socket s
    LocalAddress, LocalPort,    \* parameters of the socket's application
    ConnectAddress, ConnectPort,
    EPHEMERAL_PORTRANGE_START, EPHEMERAL_PORTRANGE_END,
    Unspecified,                \* the address L3Address()
    Deployments,                \* the sets of sockets that may be installed
    MaxOutages                  \* bound: stops and crashes per deployment

Sockets == Clients \cup Sinks

ASSUME SocketsAssumption ==
    /\ Clients \cap Sinks = {}
    /\ Unspecified \notin Hosts
    /\ HostOf \in [Sockets -> Hosts]
    /\ LocalPort \in [Sockets -> Nat \cup {-1}]
    /\ LocalAddress \in [Sockets -> Hosts \cup {Unspecified}]
    /\ \A s \in Sockets : LocalAddress[s] \in {HostOf[s], Unspecified}
    /\ ConnectAddress \in [Clients -> Hosts]
    /\ ConnectPort \in [Clients -> Nat]
ASSUME PortRangeAssumption ==
    /\ EPHEMERAL_PORTRANGE_START \in Nat
    /\ EPHEMERAL_PORTRANGE_END \in Nat
    /\ EPHEMERAL_PORTRANGE_START < EPHEMERAL_PORTRANGE_END
ASSUME DeploymentsAssumption ==
    /\ Deployments \subseteq SUBSET Sockets
    /\ MaxOutages \in [Deployments -> Nat]

VARIABLES
    deployed,           \* the sockets whose applications are installed
    sockstate,          \* [Sockets -> SocketState]
    timer,              \* the clients whose connect timer is scheduled
    requests,           \* sockets whose open request is on its way to Raqsac
    indications,        \* clients whose ESTABLISHED indication is on its way
    conn,               \* conn[s]: the connection raqsacAppConnMap has for s
    raqsacConnMap,      \* raqsacConnMap[h]: from SockPairs to sockets
    usedEphemeralPorts, lastEphemeralPort,
    network,            \* segments in flight
    up,                 \* [Hosts -> BOOLEAN]
    outages,
    failure             \* the runtime error that ended the simulation

hostVars == <<raqsacConnMap, usedEphemeralPorts, lastEphemeralPort>>
vars == <<deployed, sockstate, timer, requests, indications, conn, raqsacConnMap,
          usedEphemeralPorts, lastEphemeralPort, network, up, outages, failure>>

Address == Hosts \cup {Unspecified}
Port == Nat \cup {-1}
EphemeralPorts == EPHEMERAL_PORTRANGE_START .. EPHEMERAL_PORTRANGE_END - 1

SocketState == {"BOUND", "LISTENING", "CONNECTING", "CONNECTED"}

SockPair ==
    [localAddr : Address, remoteAddr : Address, localPort : Port, remotePort : Port]

Connection == [fsm : {"LISTEN", "ESTABLISHED"}, pair : SockPair]

(* from names the sending socket; no handler looks at it.                  *)
Segment ==
    [srcAddr : Hosts, destAddr : Hosts, srcPort : Port, destPort : Port,
     kind : {"syn", "data", "pull"}, from : Sockets]

NoConn == [fsm |-> "none"]

Failure ==
    {"none", "address in use", "ports exhausted", "no local port",
     "close called", "crash not implemented"}

-----------------------------------------------------------------------------
(* The table and the ports of one host.                                    *)

SockPairOf(localAddr, remoteAddr, localPort, remotePort) ==
    [localAddr |-> localAddr, remoteAddr |-> remoteAddr,
     localPort |-> localPort, remotePort |-> remotePort]

(* The pair a segment belongs to, as the receiving host names it.          *)
PairOfSegment(seg) ==
    SockPairOf(seg.destAddr, seg.srcAddr, seg.destPort, seg.srcPort)

(* The keys findConnForSegment tries: the pair itself, without the local   *)
(* address, without the peer, without both.                                *)
LookupKeys_NoLocalBlank(seg) ==
    LET pair == PairOfSegment(seg)
    IN  <<pair, [pair EXCEPT !.remoteAddr = Unspecified, !.remotePort = -1]>>
LookupKeys(seg) ==
    LET pair == PairOfSegment(seg)
        anyPeer == [pair EXCEPT !.remoteAddr = Unspecified, !.remotePort = -1]
    IN  <<pair, [pair EXCEPT !.localAddr = Unspecified],
          anyPeer, [anyPeer EXCEPT !.localAddr = Unspecified]>>

Known(table, keys) == {i \in DOMAIN keys : keys[i] \in DOMAIN table}

HasConnForSegment(seg) == Known(raqsacConnMap[seg.destAddr], LookupKeys(seg)) # {}

FindConnForSegment(seg) ==
    LET table == raqsacConnMap[seg.destAddr]
        keys == LookupKeys(seg)
        first == CHOOSE i \in Known(table, keys) :
                    \A j \in Known(table, keys) : i <= j
    IN  table[keys[first]]

WithoutKey(table, key) == [k \in DOMAIN table \ {key} |-> table[k]]

WithEntry(table, key, s) ==
    [k \in DOMAIN table \cup {key} |-> IF k = key THEN s ELSE table[k]]

(* The table once s, known under old, is known under new.                  *)
UpdateSockPair_KeepsOld(table, s, old, new) == WithEntry(table, new, s)
UpdateSockPair(table, s, old, new) == WithEntry(WithoutKey(table, old), new, s)

RangeSize == EPHEMERAL_PORTRANGE_END - EPHEMERAL_PORTRANGE_START

(* getEphemeralPort: the n-th port the loop looks at, from the one after   *)
(* the last allocated port and wrapping at the end of the range; it stops  *)
(* at a port that is not used, or once it is back at its starting point.   *)
Tried(h, n) ==
    LET port == lastEphemeralPort[h] + n
    IN  IF port < EPHEMERAL_PORTRANGE_END THEN port ELSE port - RangeSize

Stops(h, n) ==
    \/ Tried(h, n) \notin usedEphemeralPorts[h]
    \/ Tried(h, n) = lastEphemeralPort[h]

SearchEnd(h) ==
    CHOOSE n \in 1 .. RangeSize : Stops(h, n) /\ \A m \in 1 .. n - 1 : ~Stops(h, m)

GetEphemeralPort(h) == Tried(h, SearchEnd(h))

(* The loop stopped at its starting point, and that is used too: it throws.*)
Exhausted_BeforeLast(h) == GetEphemeralPort(h) = lastEphemeralPort[h]
Exhausted(h) == GetEphemeralPort(h) \in usedEphemeralPorts[h]

-----------------------------------------------------------------------------
(* Applications bind in initialize(); sinks listen there, and clients      *)
(* schedule their connect timer.                                           *)
Init ==
    /\ sockstate = [s \in Sockets |-> IF s \in Sinks THEN "LISTENING" ELSE "BOUND"]
    /\ deployed \in Deployments
    /\ timer = deployed \cap Clients
    /\ requests = deployed \cap Sinks
    /\ indications = {}
    /\ conn = [s \in Sockets |-> NoConn]
    /\ raqsacConnMap = [h \in Hosts |-> [pair \in {} |-> NoConn]]
    /\ usedEphemeralPorts = [h \in Hosts |-> {}]
    /\ lastEphemeralPort = [h \in Hosts |-> EPHEMERAL_PORTRANGE_START]
    /\ network = {}
    /\ up = [h \in Hosts |-> TRUE]
    /\ outages = 0
    /\ failure = "none"

Running == failure = "none"

(* cRuntimeError ends the simulation.                                      *)
Throw(what) ==
    /\ failure' = what
    /\ UNCHANGED <<deployed, sockstate, timer, requests, indications, conn, hostVars,
                   network, up, outages>>

(* The connect timer of a client expires: socket.connect().                *)
Connect(c) ==
    /\ Running /\ up[HostOf[c]]
    /\ c \in timer /\ sockstate[c] = "BOUND"
    /\ timer' = timer \ {c}
    /\ sockstate' = [sockstate EXCEPT ![c] = "CONNECTING"]
    /\ requests' = requests \cup {c}
    /\ UNCHANGED <<deployed, indications, conn, hostVars, network, up, outages, failure>>

(* addSockPair enters a new connection under its pair and marks a local    *)
(* port of the ephemeral range as used.                                    *)
MarkPort_AnyPort(h, port) ==
    usedEphemeralPorts' = [usedEphemeralPorts EXCEPT ![h] = @ \cup {port}]
MarkPort(h, port) ==
    usedEphemeralPorts' =
        [usedEphemeralPorts EXCEPT ![h] = @ \cup ({port} \cap EphemeralPorts)]

AddSockPair(s, fsm, pair) ==
    LET h == HostOf[s]
    IN  /\ pair \notin DOMAIN raqsacConnMap[h]
        /\ conn' = [conn EXCEPT ![s] = [fsm |-> fsm, pair |-> pair]]
        /\ raqsacConnMap' = [raqsacConnMap EXCEPT ![h] = WithEntry(@, pair, s)]
        /\ MarkPort(h, pair.localPort)

(* A segment of connection s to its peer.                                  *)
SegmentOf(s, pair, kind) ==
    [srcAddr |-> HostOf[s], destAddr |-> pair.remoteAddr,
     srcPort |-> pair.localPort, destPort |-> pair.remotePort,
     kind |-> kind, from |-> s]

ActivePair(c, port) ==
    SockPairOf(LocalAddress[c], ConnectAddress[c], port, ConnectPort[c])

PassivePair(s) == SockPairOf(LocalAddress[s], Unspecified, LocalPort[s], -1)

(* The port of the client's socket, or one getEphemeralPort allocates.     *)
AllocatePort(c, port) ==
    \/ /\ LocalPort[c] # -1 /\ port = LocalPort[c]
       /\ UNCHANGED lastEphemeralPort
    \/ /\ LocalPort[c] = -1 /\ ~Exhausted(HostOf[c])
       /\ port = GetEphemeralPort(HostOf[c])
       /\ lastEphemeralPort' = [lastEphemeralPort EXCEPT ![HostOf[c]] = port]

(* The connection is established before its first symbol has left.         *)
OpenActive(c) ==
    /\ Running /\ c \in requests
    /\ \E port \in {LocalPort[c], GetEphemeralPort(HostOf[c])} :
        /\ AllocatePort(c, port)
        /\ AddSockPair(c, "ESTABLISHED", ActivePair(c, port))
        /\ network' = network \cup {SegmentOf(c, ActivePair(c, port), "syn")}
    /\ requests' = requests \ {c}
    /\ indications' = indications \cup {c}
    /\ UNCHANGED <<deployed, sockstate, timer, up, outages, failure>>

OpenActiveFails(c) ==
    /\ Running /\ c \in requests
    /\ \/ /\ LocalPort[c] # -1
          /\ ActivePair(c, LocalPort[c]) \in DOMAIN raqsacConnMap[HostOf[c]]
          /\ Throw("address in use")
       \/ /\ LocalPort[c] = -1 /\ Exhausted(HostOf[c])
          /\ Throw("ports exhausted")

OpenPassive(s) ==
    /\ Running /\ s \in requests
    /\ LocalPort[s] # -1
    /\ AddSockPair(s, "LISTEN", PassivePair(s))
    /\ requests' = requests \ {s}
    /\ UNCHANGED <<deployed, sockstate, timer, indications, lastEphemeralPort, network, up,
                   outages, failure>>

OpenPassiveFails(s) ==
    /\ Running /\ s \in requests
    /\ \/ LocalPort[s] = -1 /\ Throw("no local port")
       \/ /\ LocalPort[s] # -1
          /\ PassivePair(s) \in DOMAIN raqsacConnMap[HostOf[s]]
          /\ Throw("address in use")

(* RaqsacSocket::processMessage of the client.                             *)
SocketEstablished(c) ==
    /\ Running /\ c \in indications
    /\ indications' = indications \ {c}
    /\ sockstate' = [sockstate EXCEPT ![c] = "CONNECTED"]
    /\ UNCHANGED <<deployed, timer, requests, conn, hostVars, network, up, outages, failure>>

-----------------------------------------------------------------------------
(* Segments.  More segments like the one that arrives may be in flight.    *)

(* A connection that has learned its peer learns it anew with each segment.*)
Learn(s, seg) ==
    /\ conn' = [conn EXCEPT ![s] = [fsm |-> "ESTABLISHED", pair |-> PairOfSegment(seg)]]
    /\ raqsacConnMap' =
        [raqsacConnMap EXCEPT ![HostOf[s]] =
            UpdateSockPair(@, s, conn[s].pair, PairOfSegment(seg))]

Takes(s, seg) == conn[s].fsm = "ESTABLISHED" \/ seg.kind = "syn"

(* A pull is answered with symbols, a symbol causes pulls (now or later).  *)
Answer(s, seg) ==
    SegmentOf(s, PairOfSegment(seg), IF seg.kind = "pull" THEN "data" ELSE "pull")

RcvSegment(seg) ==
    /\ Running /\ requests = {}
    /\ seg \in network /\ up[seg.destAddr] /\ HasConnForSegment(seg)
    /\ \E s \in {FindConnForSegment(seg)}, rest \in {network, network \ {seg}} :
        \/ /\ Takes(s, seg)
           /\ Learn(s, seg)
           /\ network' = rest \cup {Answer(s, seg)}
        \/ /\ ~Takes(s, seg)
           /\ network' = rest
           /\ UNCHANGED <<conn, raqsacConnMap>>
    /\ UNCHANGED <<deployed, sockstate, timer, requests, indications,
                   usedEphemeralPorts, lastEphemeralPort, up, outages, failure>>

(* segmentArrivalWhileClosed, or the host is down: the segment is dropped. *)
DropSegment(seg) ==
    /\ Running /\ requests = {}
    /\ seg \in network /\ (up[seg.destAddr] => ~HasConnForSegment(seg))
    /\ network' = network \ {seg}
    /\ UNCHANGED <<deployed, sockstate, timer, requests, indications, conn, hostVars, up,
                   outages, failure>>

-----------------------------------------------------------------------------
(* Lifecycle operations, which find the open requests of the host handled. *)

ClientsOf(h) == {c \in deployed \cap Clients : HostOf[c] = h}

Reset_KeepsPorts(h) ==
    /\ conn' = [s \in Sockets |-> IF HostOf[s] = h THEN NoConn ELSE conn[s]]
    /\ raqsacConnMap' = [raqsacConnMap EXCEPT ![h] = [pair \in {} |-> NoConn]]
    /\ UNCHANGED <<usedEphemeralPorts, lastEphemeralPort>>
Reset(h) ==
    /\ conn' = [s \in Sockets |-> IF HostOf[s] = h THEN NoConn ELSE conn[s]]
    /\ raqsacConnMap' = [raqsacConnMap EXCEPT ![h] = [pair \in {} |-> NoConn]]
    /\ usedEphemeralPorts' = [usedEphemeralPorts EXCEPT ![h] = {}]
    /\ lastEphemeralPort' =
        [lastEphemeralPort EXCEPT ![h] = EPHEMERAL_PORTRANGE_START]

GoDown(h) ==
    /\ Reset(h)
    /\ up' = [up EXCEPT ![h] = FALSE]
    /\ timer' = timer \ ClientsOf(h)
    /\ outages' = outages + 1
    /\ UNCHANGED <<deployed, sockstate, requests, indications, network, failure>>

MayGoDown(h) ==
    Running /\ up[h] /\ outages < MaxOutages[deployed] /\ requests = {} /\ indications = {}

(* A client that is connected closes its socket, which throws.             *)
Stop(h) ==
    /\ MayGoDown(h)
    /\ \/ /\ \A c \in ClientsOf(h) : sockstate[c] = "BOUND"
          /\ GoDown(h)
       \/ /\ \E c \in ClientsOf(h) : sockstate[c] \in {"CONNECTING", "CONNECTED"}
          /\ Throw("close called")

(* A client does not support a crash at all.                               *)
Crash(h) ==
    /\ MayGoDown(h)
    /\ \/ ClientsOf(h) = {} /\ GoDown(h)
       \/ ClientsOf(h) # {} /\ Throw("crash not implemented")

Start(h) ==
    /\ Running /\ ~up[h]
    /\ up' = [up EXCEPT ![h] = TRUE]
    /\ timer' = timer \cup ClientsOf(h)
    /\ UNCHANGED <<deployed, sockstate, requests, indications, conn, hostVars, network,
                   outages, failure>>

Next ==
    \/ \E c \in Clients :
        Connect(c) \/ OpenActive(c) \/ OpenActiveFails(c) \/ SocketEstablished(c)
    \/ \E s \in Sinks : OpenPassive(s) \/ OpenPassiveFails(s)
    \/ \E seg \in network : RcvSegment(seg) \/ DropSegment(seg)
    \/ \E h \in Hosts : Stop(h) \/ Crash(h) \/ Start(h)

(* Every scheduled event of the simulator happens; lifecycle operations    *)
(* need not.                                                               *)
Fairness ==
    /\ WF_vars(\E c \in Clients : Connect(c))
    /\ WF_vars(\E c \in Clients : OpenActive(c) \/ OpenActiveFails(c))
    /\ WF_vars(\E c \in Clients : SocketEstablished(c))
    /\ WF_vars(\E s \in Sinks : OpenPassive(s) \/ OpenPassiveFails(s))
    /\ \A c \in Clients : WF_vars(\E seg \in network :
            seg.from = c /\ seg.kind = "syn" /\ RcvSegment(seg))

Spec == Init /\ [][Next]_vars

FairSpec == Spec /\ Fairness

-----------------------------------------------------------------------------
(* Properties.                                                             *)

(* Sockets, connections, tables and segments keep their shape.             *)
TypeOK ==
    /\ deployed \in Deployments
    /\ sockstate \in [Sockets -> SocketState]
    /\ timer \subseteq Clients
    /\ requests \subseteq Sockets
    /\ indications \subseteq Clients
    /\ \A s \in Sockets : conn[s] = NoConn \/ conn[s] \in Connection
    /\ \A h \in Hosts : \A pair \in DOMAIN raqsacConnMap[h] :
        pair \in SockPair /\ raqsacConnMap[h][pair] \in Sockets
    /\ usedEphemeralPorts \in [Hosts -> SUBSET EphemeralPorts]
    /\ lastEphemeralPort \in [Hosts -> EphemeralPorts]
    /\ network \subseteq Segment
    /\ up \in [Hosts -> BOOLEAN]
    /\ outages \in 0 .. MaxOutages[deployed]
    /\ failure \in Failure

(* A host finds each of its connections, and nothing else, under the pair  *)
(* the connection believes in, although connections rename their own       *)
(* entries: the ASSERT of updateSockPair never fails, and no entry is      *)
(* overwritten by another connection's.  The ephemeral ports marked as used*)
(* are those of its connections, after a reset too.                        *)
LocalPortsOf(h) ==
    {conn[s].pair.localPort : s \in {t \in Sockets : HostOf[t] = h /\ conn[t] # NoConn}}

TableConsistent ==
    \A h \in Hosts :
        /\ \A pair \in DOMAIN raqsacConnMap[h] :
            LET s == raqsacConnMap[h][pair]
            IN  HostOf[s] = h /\ conn[s] # NoConn /\ conn[s].pair = pair
        /\ \A s \in Sockets :
            HostOf[s] = h /\ conn[s] # NoConn =>
                /\ conn[s].pair \in DOMAIN raqsacConnMap[h]
                /\ raqsacConnMap[h][conn[s].pair] = s
        /\ usedEphemeralPorts[h] = LocalPortsOf(h) \cap EphemeralPorts

(* The pair as the other end names it.                                     *)
Mirrors(pair, peer) ==
    pair.remotePort = peer.localPort /\ pair.localPort = peer.remotePort

(* The local ports a client may get.                                       *)
PortsOf(c) == IF LocalPort[c] = -1 THEN EphemeralPorts ELSE {LocalPort[c]}

SameService(c, d) ==
    /\ HostOf[c] = HostOf[d]
    /\ ConnectAddress[c] = ConnectAddress[d] /\ ConnectPort[c] = ConnectPort[d]

(* What a deployment must see to.  A client that left its address open is  *)
(* renamed once it hears from its peer, and the table then lets another one*)
(* on the same port have the same peer; nor may a client be where others   *)
(* expect a sink.                                                          *)
ClientsApart ==
    \A c, d \in Clients :
        c # d /\ SameService(c, d) =>
            \/ LocalAddress[c] = HostOf[c] /\ LocalAddress[d] = HostOf[d]
            \/ LocalPort[c] = -1 /\ LocalPort[d] = -1
            \/ PortsOf(c) \cap PortsOf(d) = {}

ServicesApart == \A c, d \in Clients : ConnectPort[c] \notin PortsOf(d)

(* A segment on its way to an established connection was sent by the one   *)
(* connection at the other end, which names the same two ports if its host *)
(* has not gone down since: transfers are not mixed up, where clients and  *)
(* services are kept apart as above.                                       *)
NoCrossTalk ==
    \A seg \in network :
        HasConnForSegment(seg) =>
            LET s == FindConnForSegment(seg)
            IN  conn[s].fsm = "ESTABLISHED" =>
                    /\ conn[seg.from] # NoConn =>
                           Mirrors(conn[s].pair, conn[seg.from].pair)
                    /\ conn[s].pair.remoteAddr = HostOf[seg.from]
                    /\ \A other \in network :
                        HasConnForSegment(other) /\ FindConnForSegment(other) = s =>
                            other.from = seg.from

Ephemeral(h) ==
    {c \in Clients : HostOf[c] = h /\ LocalPort[c] = -1 /\ conn[c] # NoConn}

(* The clients of a host that leave the choice to getEphemeralPort are     *)
(* given ports of the range, no two of them the same, and the search for a *)
(* port gives up only when every port of the range is taken, wherever it   *)
(* started.                                                                *)
PortsGivenOut ==
    /\ \A h \in Hosts : \A c \in Ephemeral(h) :
        /\ conn[c].pair.localPort \in EphemeralPorts
        /\ \A d \in Ephemeral(h) \ {c} :
            conn[c].pair.localPort # conn[d].pair.localPort
    /\ failure = "ports exhausted" =>
        \E h \in Hosts : EphemeralPorts \subseteq LocalPortsOf(h)

(* The sinks that listen where the client connects.                        *)
SinksOf(c) ==
    {s \in deployed \cap Sinks :
        HostOf[s] = ConnectAddress[c] /\ LocalPort[s] = ConnectPort[c]}

(* The client has a sink, and no other client uses it.                     *)
HasOwnSink(c) ==
    /\ c \in deployed /\ SinksOf(c) # {}
    /\ \A d \in (deployed \cap Clients) \ {c} : SinksOf(d) \cap SinksOf(c) = {}

AcceptedBySink(c) ==
    \E s \in SinksOf(c) :
        /\ sockstate[c] = "CONNECTED"
        /\ conn[s] # NoConn
        /\ conn[s].pair.remoteAddr = HostOf[c]
        /\ conn[s].pair.remotePort = conn[c].pair.localPort

(* Every client with a sink of its own is eventually connected, and its    *)
(* sink to it, whatever else is deployed, unless the simulation ends with  *)
(* an error or a host goes down.                                           *)
Accepted ==
    \A c \in Clients :
        <>(HasOwnSink(c) /\ failure = "none" /\ outages = 0 => AcceptedBySink(c))

(* listen() creates a connection that keeps listening on its port while    *)
(* every incoming connection gets a socket of its own.                     *)
KeepsListening ==
    [][\A s \in Sinks :
        conn[s] # NoConn /\ conn[s].fsm = "LISTEN" /\ conn'[s] # NoConn =>
            conn'[s].fsm = "LISTEN"]_vars
=============================================================================
