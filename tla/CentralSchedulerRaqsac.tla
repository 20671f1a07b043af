------------------------ MODULE CentralSchedulerRaqsac ------------------------
(***************************************************************************)
(* The central scheduler of the fat tree simulations.  At time 0 it        *)
(* shuffles the servers, gives the first of them to the long flows, takes  *)
(* the temporary app[0] off every server, and creates the applications of  *)
(* all flows: a sink at the destination and a client, told the sink's      *)
(* address and port, at the source.  Sinks of short flows then report the  *)
(* flows that complete, and the last one stops the simulation.             *)
(*                                                                         *)
(* An iteration of the scheduler's loops is an action.  The outcomes of    *)
(* std::shuffle and std::rand and the sizes read from the workload file    *)
(* are arbitrary members of the sets they come from.                       *)
(***************************************************************************)
EXTENDS Integers, Sequences, FiniteSets

CONSTANTS
    kValue,                      \* parameter: ports of a switch, even
    numlongflowsRunningServers,  \* floor(numServers * percentLongFlowNodes)
    Shuffles,                    \* the orders permServers may be shuffled to
    TrafficMatrixTypes,          \* "randTM" and "permTM"
    numShortFlows,
    FlowSizes,                   \* flowSize, or what the workload file holds
    longFlowSize

numServers == (kValue * kValue * kValue) \div 4
numshortflowRunningServers == numServers - numlongflowsRunningServers

ASSUME TreeAssumption == kValue \in Nat \ {0} /\ kValue % 2 = 0
ASSUME ShufflesAssumption ==
    Shuffles \subseteq
        {order \in [1 .. numServers -> 0 .. numServers - 1] :
            {order[i] : i \in 1 .. numServers} = 0 .. numServers - 1}
(* A single server of either kind could only have flows to itself.         *)
ASSUME ShareAssumption ==
    /\ numlongflowsRunningServers \in Nat \ {1}
    /\ numshortflowRunningServers > 1
ASSUME FlowsAssumption ==
    /\ TrafficMatrixTypes \subseteq {"randTM", "permTM"}
    /\ numShortFlows \in Nat /\ FlowSizes \subseteq Nat /\ longFlowSize \in Nat

VARIABLES
    trafficMatrixType,  \* parameters, set by the configuration; oneToOne says
    oneToOne,           \* whether there are short flows at all
    phase,          \* how far handleMessage has come, then "running"
    permServers,
    longFlowsDone,  \* destinations scheduleLongFlows has been through
    apps,           \* apps[l]: the applications of the server at l
    gateSize,       \* gateSize[l]: the gates of that server's dispatcher
    shortFlowsCreated,
    reported,       \* sinks that have reported the end of their flow
    numCompletedShortFlows,
    stopSimulation  \* "none", "scheduled" or "handled"

parameters == <<trafficMatrixType, oneToOne>>
vars == <<parameters, phase, permServers, longFlowsDone, apps, gateSize,
          shortFlowsCreated, reported, numCompletedShortFlows, stopSimulation>>

Servers == 0 .. numServers - 1

(* The servers of the network FatTree.                                     *)
Location ==
    [pod : 0 .. kValue - 1, rack : 0 .. kValue \div 2 - 1,
     node : 0 .. kValue \div 2 - 1]

(* The place of server i in the tree.                                      *)
FindLocation(i) ==
    LET perRack == kValue \div 2
        perPod == perRack * perRack
    IN  [pod |-> i \div perPod, rack |-> (i % perPod) \div perRack, node |-> i % perRack]

(* Of a sink, peer and size only say which flow it was made for.           *)
App ==
    [type : {"temp", "client", "sink"}, name : Nat, gate : Nat, port : Nat,
     peer : Location, size : Nat, priority : 0 .. 4, recordStatistics : BOOLEAN]

(* What RaqsacAppBase::connect() makes of a client's flow size.            *)
GetPriorityValue(flowSize) ==
    CASE 1 <= flowSize /\ flowSize <= 7 -> 1
      [] 8 <= flowSize /\ flowSize <= 67 -> 2
      [] 68 <= flowSize /\ flowSize <= 667 -> 3
      [] 668 <= flowSize /\ flowSize <= 6667 -> 4
      [] OTHER -> 0

-----------------------------------------------------------------------------
(* The traffic matrix, from the shuffled servers.                          *)

LongServers == {permServers[i] : i \in 1 .. numlongflowsRunningServers}

ShortServers ==
    {permServers[i] : i \in numlongflowsRunningServers + 1 .. numServers}

(* <<source, destination>>: each server sends to the one after it, the     *)
(* last one to the first.                                                  *)
CycleOver(first, last) ==
    {<<permServers[i], permServers[IF i = last THEN first ELSE i + 1]>> :
        i \in first .. last}

PermMapLongFlows == CycleOver(1, numlongflowsRunningServers)

PermMapShortFlows == CycleOver(numlongflowsRunningServers + 1, numServers)

RandomFlows == {flow \in ShortServers \X ShortServers : flow[1] # flow[2]}

ShortFlows == IF trafficMatrixType = "randTM" THEN RandomFlows ELSE PermMapShortFlows

-----------------------------------------------------------------------------
(* The applications at l: sinks and clients count alike.                   *)
NumApps_SinksOnly(l) == Cardinality({a \in apps[l] : a.type = "sink"})
NumApps(l) == Cardinality({a \in apps[l] : a.type \in {"client", "sink"}})

(* The two applications of a flow from src to dest, both on port, each     *)
(* with a name and a gate that nothing at its server has had.              *)
SinkPort_Constant(n) == 81
SinkPort(n) == 80 + n

CreateFlow(src, dest, port, size, records) ==
    LET app(type, l, peer) ==
            [type |-> type, name |-> NumApps(l), gate |-> gateSize[l], port |-> port,
             peer |-> peer, size |-> size, priority |-> GetPriorityValue(size),
             recordStatistics |-> records]
    IN  /\ apps' = [apps EXCEPT ![dest] = @ \cup {app("sink", dest, src)},
                                ![src] = @ \cup {app("client", src, dest)}]
        /\ gateSize' = [gateSize EXCEPT ![dest] = @ + 1, ![src] = @ + 1]

-----------------------------------------------------------------------------
TempApp(l) ==
    [type |-> "temp", name |-> 0, gate |-> 0, port |-> 0, peer |-> l, size |-> 0,
     priority |-> 0, recordStatistics |-> FALSE]

Init ==
    /\ trafficMatrixType \in TrafficMatrixTypes
    /\ oneToOne \in BOOLEAN
    /\ phase = "startManagerNode"
    /\ permServers = <<>>
    /\ longFlowsDone = {}
    /\ apps = [l \in Location |-> {TempApp(l)}]
    /\ gateSize = [l \in Location |-> 1]
    /\ shortFlowsCreated = 0
    /\ reported = {}
    /\ numCompletedShortFlows = 0
    /\ stopSimulation = "none"

(* generateTM(), serversLocations() and deleteAllSubModuleApp("app[0]").   *)
GenerateTM ==
    /\ phase = "startManagerNode"
    /\ permServers' \in Shuffles
    /\ apps' = [l \in Location |->
                    IF \E i \in Servers : FindLocation(i) = l THEN {} ELSE apps[l]]
    /\ phase' = "scheduleLongFlows"
    /\ UNCHANGED <<parameters, longFlowsDone, gateSize,
                   shortFlowsCreated, reported, numCompletedShortFlows,
                   stopSimulation>>

(* The next destination, in the order of the map; the sink takes its port  *)
(* from the number of applications at the source.                          *)
ScheduleLongFlow(flow) ==
    LET src == FindLocation(flow[1])
        dest == FindLocation(flow[2])
    IN  /\ flow \in PermMapLongFlows /\ flow[2] \notin longFlowsDone
        /\ \A other \in LongServers \ longFlowsDone : flow[2] <= other
        /\ CreateFlow(src, dest, SinkPort(NumApps(src) + 1), longFlowSize, FALSE)
        /\ longFlowsDone' = longFlowsDone \cup {flow[2]}
        /\ UNCHANGED <<parameters, phase, permServers,
                       shortFlowsCreated, reported, numCompletedShortFlows,
                       stopSimulation>>

LongFlowsScheduled ==
    /\ phase = "scheduleLongFlows" /\ longFlowsDone = LongServers
    /\ phase' = "scheduleShortFlows"
    /\ UNCHANGED <<parameters, permServers, longFlowsDone, apps,
                   gateSize, shortFlowsCreated, reported,
                   numCompletedShortFlows, stopSimulation>>

(* A short flow of the traffic matrix; the sink takes its port from the    *)
(* number of applications at the destination.                              *)
ScheduleNewShortFlow(flow, size) ==
    LET src == FindLocation(flow[1])
        dest == FindLocation(flow[2])
    IN  /\ oneToOne /\ shortFlowsCreated < numShortFlows
        /\ CreateFlow(src, dest, SinkPort(NumApps(dest) + 1), size, TRUE)
        /\ shortFlowsCreated' = shortFlowsCreated + 1
        /\ UNCHANGED <<parameters, phase, permServers, longFlowsDone,
                       reported, numCompletedShortFlows, stopSimulation>>

ShortFlowsScheduled ==
    /\ phase = "scheduleShortFlows"
    /\ oneToOne => shortFlowsCreated = numShortFlows
    /\ phase' = "running"
    /\ UNCHANGED <<parameters, permServers, longFlowsDone, apps,
                   gateSize, shortFlowsCreated, reported,
                   numCompletedShortFlows, stopSimulation>>

(* A sink is told PEER_CLOSED, which its connection reports once.  That of *)
(* a short flow changes the parameter numCompletedShortFlows; that of a    *)
(* long flow deletes the message.                                          *)
Unreported(l, sink) == <<l, sink.port>> \notin reported

ReachedLast_OneEarly == oneToOne /\ numCompletedShortFlows' = numShortFlows - 1
ReachedLast == oneToOne /\ numCompletedShortFlows' = numShortFlows

HandleParameterChange ==
    /\ numCompletedShortFlows' = numCompletedShortFlows + 1
    /\ stopSimulation' = IF ReachedLast THEN "scheduled" ELSE stopSimulation

PeerClosed(l, sink) ==
    /\ phase = "running" /\ stopSimulation # "handled"
    /\ sink.type = "sink" /\ sink.recordStatistics /\ Unreported(l, sink)
    /\ reported' = reported \cup {<<l, sink.port>>}
    /\ HandleParameterChange
    /\ UNCHANGED <<parameters, phase, permServers, longFlowsDone, apps,
                   gateSize, shortFlowsCreated>>

EndSimulation ==
    /\ stopSimulation = "scheduled"
    /\ stopSimulation' = "handled"
    /\ UNCHANGED <<parameters, phase, permServers, longFlowsDone, apps,
                   gateSize, shortFlowsCreated, reported,
                   numCompletedShortFlows>>

Next ==
    \/ GenerateTM
    \/ /\ phase = "scheduleLongFlows"
       /\ \E flow \in PermMapLongFlows : ScheduleLongFlow(flow)
    \/ LongFlowsScheduled
    \/ /\ phase = "scheduleShortFlows"
       /\ \E flow \in ShortFlows, size \in FlowSizes : ScheduleNewShortFlow(flow, size)
    \/ ShortFlowsScheduled
    \/ \E l \in Location : \E sink \in apps[l] : PeerClosed(l, sink)
    \/ EndSimulation

Spec == Init /\ [][Next]_vars

-----------------------------------------------------------------------------
Sinks(l) == {a \in apps[l] : a.type = "sink"}
Clients(l) == {a \in apps[l] : a.type = "client"}

(* Every client connects to a sink made for it: exactly one application at *)
(* the peer listens on the port, and no other client is told to use it.    *)
(* The two ports are computed from different servers for long flows and    *)
(* for short ones, and agree only as flows do not mix.                     *)
OwnSink ==
    \A l \in Location : \A c \in Clients(l) :
        /\ \E s \in Sinks(c.peer) :
              /\ s.port = c.port /\ s.peer = l
              /\ \A other \in Sinks(c.peer) : other.port = c.port => other = s
        /\ \A m \in Location : \A d \in Clients(m) :
              <<d.peer, d.port>> = <<c.peer, c.port>> => <<m, d>> = <<l, c>>

NamesAndGatesApart ==
    \A l \in Location : \A a, b \in apps[l] :
        a # b => a.name # b.name /\ a.gate # b.gate /\ a.gate < gateSize[l]

TempAppsGone ==
    phase # "startManagerNode" =>
        \A l \in Location : \A a \in apps[l] : a.type # "temp"

(* No two applications of a server share its name or its gate, whichever   *)
(* flows, as source or destination, they were made for; and none keeps the *)
(* temporary application, as the places computed from the servers' indices *)
(* are all the places of the network.                                      *)
AppsDistinct == NamesAndGatesApart /\ TempAppsGone

(* A shorter flow is never served by the switches after a longer one: they *)
(* take the priorities in the order 1, 2, 3, 4, 0.                         *)
ServiceRank(priority) == IF priority = 0 THEN 5 ELSE priority

PriorityBySize ==
    LET clients == UNION {Clients(l) : l \in Location}
    IN  \A c, d \in clients :
            0 < c.size /\ c.size <= d.size => ServiceRank(c.priority) <= ServiceRank(d.priority)

(* The simulation is stopped once every short flow has been reported and   *)
(* never before, and never by the scheduler if it makes no short flows.    *)
StopsExactlyWhenDone ==
    stopSimulation # "none" <=>
        /\ phase = "running" /\ oneToOne /\ numShortFlows > 0
        /\ \A l \in Location : \A s \in Sinks(l) :
              s.recordStatistics => <<l, s.port>> \in reported
=============================================================================
