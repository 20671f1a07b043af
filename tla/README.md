# RaQSac, specified in TLA+

RaQSac is a data transport based on fountain codes (RaptorQ), simulated in
OMNeT++/INET. A sender pushes a first window of encoding symbols; after that the
receiver decides, by *pull* packets, when each further symbol is sent. Overloaded
switches do not drop symbols: they *trim* them to their header, which overtakes
data on its way to the receiver. All connections that end at one host share a
pacer that spaces their pulls.

The modules here specify that protocol, the switch queue, the connection tables
of the hosts, the central scheduler of the simulations and the topology behind
the ECMP routes. TLC checks them on small instances; TLAPS proves most of their
properties for every instance. Paths below are relative to `src` of the
repository.

## The parts of the system

| part | state | operations | module |
|---|---|---|---|
| connection (`transportlayer/raqsac/RaqsacConnection*`) | `RaqsacStateVariables`: counters of symbols, headers and pulls, window, pull queue, flags | `sendInitialWindow`, `process_RCV_SEGMENT` with its branches for pulls, headers and symbols, `addRequestToPullsQueue`, `sendRequestFromPullsQueue`, `isDecoderSuccessful` | `RaqsacTransport` |
| request pacer of a host (`Raqsac.cc`, from :434) | `requestTimer`, its owner, the queue of waiting timer requests, `requestCONNMap`, `counter`, `nap` | `sendFirstRequest`, `requestTimer`, `cancelRequestTimer`, `process_REQUEST_TIMER`, `reset` | `RaqsacTransport`, `RaqsacOutage` |
| connection table of a host (`Raqsac.cc`) | `raqsacConnMap`, `raqsacAppConnMap`, ephemeral ports | `addSockPair`, `updateSockPair`, `findConnForSegment`, `getEphemeralPort`, `reset` | `RaqsacHosts` |
| socket, client and sink applications | socket state, connect timer | bind, listen, connect, start, stop, crash | `RaqsacHosts` |
| switch queue (`RaqsacSwitchQueue.cc`) | SYN queue, header queue, five data queues, `weight` | `pushPacket`, `trimPacket`, `popPacket` | `RaqsacSwitchQueue`, `RaqsacPath` |
| central scheduler (`CentralSchedulerRaqsac.cc`) | shuffled servers, traffic matrix, created applications, completed flows | the event at time 0 that builds all flows, `handleParameterChange`, end of the simulation | `CentralSchedulerRaqsac` |
| graph of the topology (`TopologyEcmp.cc`, .h) | vectors of nodes and links, ends and gates of links, network ids | `extractFromNetwork`, `findNetworks`, `addNode`, `addLink`, `deleteNode`, `deleteLink`, `clear` | `TopologyGraph` |
| shortest paths of the topology (`TopologyEcmp.cc`) | weights and enabled states, distances and paths | `calculateWeightedSingleShortestPathsTo`, `calculateUnweighted...`, setters, deletions between calculations | `TopologyEcmp` |

How they interact: the scheduler creates the applications and tells each client
the address and port of its sink. An application calls its socket, which sends
open requests to `Raqsac`; that creates connections and enters them into its
table. Segments find their connection there. The connections of a host call its
pacer and are called by its timer. All segments pass switch queues, over routes
that the topology computes. A sink that sees its transfer completed tells the
scheduler, which ends the simulation after the last short flow.

The program is a discrete event simulation: a handler runs to its end, and
concurrency is the order in which events are delivered. What is hard about it:

* symbols, headers and pulls overtake one another; a pull answers for all those
  it overtook, and a symbol of the first window may arrive before the one that
  announces the transfer;
* a symbol that is trimmed, or (priority 1) lost, must be pulled again, while
  the receiver only counts and keeps no record of which symbol it asked for;
* many connections share one timer, which each of them may cancel, and whose
  ownership OMNeT++ transfers to the module that cancels it;
* a listening connection turns into the connection to the first peer, and
  renames its own entry in the table at each segment;
* hosts stop, crash and restart with segments in flight, and leave the pacer's
  timer and its pointers to connections behind;
* the connections of a host share the memory of the last port on their paths,
  and each of them keeps books of its own symbols only;
* a graph of nodes and links that point to one another is edited by hand, by
  operations that may throw half way;
* counters that bound queues, wrap, or index servers and ports.

`PROJECT.json` lists these hazards at their lines, with the properties that
would notice them.

## The modules

A definition named `X_Mistake` is a wrong variant of `X`, the kind of error that
could be made in the code. No specification uses it; the runs must fail when it
replaces `X`, which shows that the property has something to say about `X`.

### PullCredit

What the transport promises: credit is granted, a sender never exceeds it, a
symbol arrives once, completion is reported once and with enough symbols.
`RaqsacTransport!ImplementsPullCredit` is the refinement: credit is the pushed
window plus the pulls that have left the receiver.

### RaqsacTransport

All connections that end at one host, with their senders. `receiver[c]` and
`sender[c]` keep the fields of the state block that decide anything, under
their names; `pacer` is the state in `Raqsac` the connections share. A handler
is a function of the state block, composed in the order of the code:
`ArriveSymbol` is the branch of an arriving symbol (count it, grow the window,
then either the overrun branch or replace the symbol, register with the pacer,
decode), `ArriveHeader` that of a header. `PacerAfter` is what the handler does
to the pacer on its way. `RcvSymbol`, `RcvHeader`, `RcvPull`, `TimerExpires` and
`SendInitialWindow` are the actions; `TrimSymbol` and `DiscardSymbol` are the
network's.

Symbols in flight are sets of ESIs: any may arrive next. Nothing is duplicated,
as no layer of the simulation does so. SYN symbols are never trimmed, since the
switch queue keeps them apart and unbounded. Time is left out: a scheduled timer
may expire at any moment, which includes every pacing interval. Whether decoding
succeeds is the variable `decoding`, chosen once in `Init`: the draw in
`isDecoderSuccessful` comes from a generator seeded with the same number each
time, so it is one outcome for all connections. Which one is up to the library's
`std::exponential_distribution` (with GNU's it is success); `transport_trim`
covers both.

### RaqsacOutage

Extends `RaqsacTransport` with a receiving host that stops or crashes
(`GoDown`), and starts again (`GoUp`). `reset()` deletes the connections; the
pacer's timer and `requestCONNMap` stay as they are. The sinks of the repository
do not take part in lifecycle operations (`RaqsacSinkApp` has no handler for
them), so nothing listens after a restart, and whatever arrives is dropped
(`DropSymbol`, `DropHeader`). A timer that still expires ends the simulation
(`TimerOfDeleted`): OMNeT++ refuses a self message at a module that is down, and
`process_REQUEST_TIMER` at one that is up follows pointers to deleted objects. A
timer message a connection took with it by cancelling it ("lost") is freed with
that connection, and is no danger. `busy` is a history variable: an outage hit a
host with an unfinished transfer.

Cancelling has another consequence, without any outage. `cancelEvent` is called
in the context of the connection that finished last (`Raqsac.cc:478`), so that
the message then belongs to that connection, and `requestTimer` schedules only a
message the host owns (`:504`). A connection that registers with the host after
that puts its requests into `timerQueue`, where nothing takes them out: its pulls
are never sent, and its transfer does not complete unless the first window held
enough symbols. `late` is the history variable of these connections.
`PacerAliveUntilOutage` states the boundary: an unfinished connection with pulls
waits for a scheduled timer, and for a lost one if it is late. `PullsServed` is
claimed of the others only.

### RaqsacSwitchQueue

One output port. `PushPacket` is `pushPacket` with `trimPacket` in it; the five
disjuncts of `PopPacket` are the branches of `popPacket`. `pending` and
`bypassed` are history variables for the properties. `WeightModulus` stands for
2^32, so that the wrap of the counter `weight` is within reach of TLC (16 in the
run; 2^32 and 16 leave the same remainder by 10). A packet that has been popped
may be pushed again in the role of a later one.

### RaqsacPath

The hosts of `RaqsacTransport` and the queue of `RaqsacSwitchQueue` in one
system: symbols let out by the senders are `upstream`, may be reordered there,
and are pushed into the port that leads to the receiving host; what the port
pops reaches the host's handlers. Both modules are instantiated, the queue with
pairs of connection and ESI as packets, and their operators do the steps; for
that `RaqsacTransport` keeps what a handler does (`OpenSender`, `AnswerPull`,
`ReceiveSymbol`, `ReceiveHeader`, `PaceRequests`) apart from the network it
does it on. `ImplementsTransport` is the refinement: `RaqsacTransport`, whose
network may reorder and trim as it likes, with upstream and queue in the place of
that network. `MaxESI` and `MaxTrims` bound what senders send and what the port
trims per connection; `RcvPull` waits when a pull would take a sender beyond
`MaxESI`, which happens in no state of the run. Priorities are 0 to 4, those
`getPriorityValue` gives.

### RaqsacHosts

The tables of several hosts at once: `raqsacConnMap[h]` is a function from
address-and-port pairs to sockets, as the `std::map` of the code. `OpenActive`,
`OpenPassive` and their failures are the opens; `RcvSegment` finds the
connection under the four keys of `findConnForSegment`, lets it learn its peer,
and sends the answer. `Stop`, `Crash` and `Start` are the lifecycle operations.
`GetEphemeralPort` is the search loop: `Tried` the ports it looks at, in order,
with the wrap, and `Stops` its two ways out.
A client's connection, once made, is never deleted: stopping its host calls
`close()`, which throws, and a crash is not implemented. The ports a reset frees
are therefore those that sinks were bound to within the range.
`deployed` is the set of sockets a simulation has, one of `Deployments`, so that
one run covers several; each has its bound on outages.
`NoCrossTalk` is about deployments in which clients of one host and service are
told apart by their addresses or ports, and none may get the port of a service
(`ClientsApart`, `ServicesApart`). Without that it does not hold: a client that
left its local address open is entered under another pair once it hears from its
peer, and the table then accepts a second client with the old pair and the same
port, to the same sink. The repository's scheduler leaves local ports to the
host, and gives sinks ports outside that range.
A runtime error of the simulation is the variable `failure`, after which nothing
happens. Only what the table sees of a segment is kept; a segment in the set
`network` stands for any number of equal ones.

### CentralSchedulerRaqsac

The event at time 0, one flow at a time, and the completions. Shuffles and
random draws are arbitrary choices out of the sets they come from. `apps[l]`
holds the applications created at server `l` with the name, gate and port the
code computes for them from counts. The parameter `oneToOne` guards both the
short flows (`CentralSchedulerRaqsac.cc:123`) and the end of the simulation
(`:733`); every configuration in `simulations/FatTree` sets it, and the run covers
both values.

### TopologyGraph

The network as the topology sees it: for each module, where each of its output
gates leads, as the list of modules on the way. `Extract` is
`extractFromNetwork` for any selection of modules, up to its last line; that
line, which calls `findNetworks` for each node in turn, is `NextRoot`, and one
call of `findNetworks` is `FindNetworks`. The code's calls are one inside the
other; here they are the set `calls`, taken in any order. All calls open at one
time were reached from the same root and have its network id, and whoever is
not visited gets that id, so that the order decides nothing. Taken apart like
this, what the traversal maintains can be stated, and proved.

The edits follow: a node goes to its place by module id, links are unlinked at
both ends before they are freed or connected anew, and `AddLinkByGates` may
throw after it unlinked (`failed`), which ends the behaviour. Node and link
objects are names, and a freed one may come back as a new one. The vector of
nodes is a sequence, as the binary search depends on its order; the place where
the search ends is `LowerBound`. The vectors of links only say how often they
hold each link: their order is that in which `TopologyEcmp` examines links, any
order there. Links of an extraction are numbered arbitrarily for the same
reason.

### TopologyEcmp

One call of a shortest-path computation, taken apart into the iterations of its
two loops, and the setters and deletions between calls. The links that enter the
node popped are a set, examined in any order: theirs in the code is that of a
vector, which depends on the order of extraction and of earlier deletions. Results are kept from
one call to the next, as in the nodes of the code, so that paths may name links
that were freed; the calculations must leave none.

## What the runs check

| run | instance | what it shows |
|---|---|---|
| `transport_trim` | 1 connection, 5 symbols, window 3, up to 2 trims, decoding succeeds or fails; 670126 states | pulls stay in order and every symbol is solicited; the receiver's books of outstanding symbols (`WindowAccounting`) are exact; completion is reported only with enough symbols, and before the connection counts as finished; a transfer runs dry only when each symbol it misses came as a header; refinement of `PullCredit` |
| `transport_reorder` | 1 connection, 7 symbols, window 2, ssthresh 3, reordering only | the pulls sent and queued stay within the window, at most one symbol too many is pulled, the transfer completes |
| `transport_outage` | 2 connections of 2 symbols, 1 trim each, 1 discard, 2 outages; 212376 states | until the first outage, the shared timer runs for every unfinished connection that waits with pulls and registered while the host had it, and is lost to those that registered later; pulls of the former are sent, those of the latter not; pulls are served round robin; an outage ends the simulation only with a transfer unfinished, or a finished one that still gets headers |
| `transport_header_request` | 1 connection, 2 trims | *violation*: see below |
| `switch_queue` | 7 packets of every kind, capacity 2 | each packet pushed waits once, in the queue of its kind and priority or as a header, and a step loses only one that has priority 1 and finds the memory full, or a priority the queue does not know; data is passed over at most nine times in a row; control packets and first-priority data are not starved |
| `path` | 2 connections of 3 and 2 symbols and different priorities, port memory of 1; 239807 states | the port is a network `RaqsacTransport` allows for: it trims or loses no SYN symbol, trims none of priority 1, loses no other, hands on each once; it drops something only when the windows of the receivers together let out more than it holds; every symbol leaves the port |
| `hosts_table` | 2 hosts, 2 ephemeral ports; 3 clients and 2 sinks with 2 outages, 2 clients and 2 sinks undisturbed, 4 clients and 4 sinks on too few ports, and 2 clients and 3 sinks with each host both, with 2 outages; 38956 states | table, connections and ports agree at every moment, after a reset too; segments never reach a connection of another transfer, where clients and services are told apart; the search for a port gives none to two clients, and gives up only when all are taken; a client with a sink of its own is eventually accepted by it |
| `hosts_fork` | 1 client, 1 sink | *violation*: see below |
| `scheduler` | 16 servers, 12 of them long, 2 short flows | each client has a sink and port of its own, names and gates of applications never clash and no server keeps its temporary application, the simulation stops exactly with the last report, if there are short flows at all |
| `ecmp` | 4 nodes, 10 links, examined in any order, any 2 changes or deletions; 2726536 states | settled nodes stay settled, distances and paths are shortest, equal-cost links complete, loop free and, when weights count hops, exact |
| `ecmp_stale` | the same, 1 change | *violation*: see below |
| `topology_graph` | 4 modules, joined in a row, across a compound module, or one way only; any selection; 2 edits with 2 nodes made by hand; 74424 states | each link is in the vectors of its two ends, once, and nowhere else, also after an error; links keep the gates of their nodes; nodes stay ordered and the binary search finds each; network ids join what links join |

### Bounds, and why they suffice

* `MaxTrims`, `MaxDiscards`: the branches that depend on trimming ask whether a
  header arrived at all and whether the halved window still covers the pulls
  sent; two headers halve the window of 3 to 1 and once more to the floor of
  1, and arrive before, between and after all symbols. A window of 3 leaves a
  header without a pull, so that transfers do run dry.
* Sizes and windows: 5 symbols over a window of 3 and 7 over one of 2 pass
  through the first window, growth below and above `ssthresh`, the last window that covers what is
  missing, the overhead symbols after a failed decoding and the overrun branch.
* Two connections are what one connection's cancellation of a timer another one
  needs takes; the orders of registering, finishing and waiting are all there.
* Two outages let a host go down with transfers at any stage, come back, and go
  down again, or both hosts go down.
* Switch queue: capacity 2 gives empty, partly filled and full memory over
  several levels; 7 packets are two more than what fits, of each kind. In `path`
  a memory of 1 and windows of 1 let the second connection overload the port
  that the first one filled, and the initial windows of SYN symbols pass by.
* Hosts: a range of 2 ephemeral ports is exhausted, its search wraps around, and
  an explicit port lies inside it. One deployment puts a client and two sinks on
  the same host, one of them on a port of the range: it stops before the client
  has connected, the port is free again, and the client gets it, with segments of
  the sinks' former peers still under way.
* Scheduler: `kValue` 4 is the smallest tree with several pods, racks and
  nodes in each; 12 of its 16 servers carry long flows and 4 short ones.
* ECMP: a diamond with a chord has two equal paths, a detour that ties with
  or is longer than the direct one, and a node that may be disabled or deleted.
* Graph: four modules leave room for one that is not selected between two that
  are, on a path and across a compound module's boundary; two edits after an
  extraction reach every pair of operations, and one of the nodes made by hand
  has the id of a module that may be there already, the other has none.

### Fairness

Weak fairness of each kind of event: an event that OMNeT++ has scheduled (a
connect timer, the request timer, a packet on a link) is delivered. Lifecycle
operations, trimming and discarding have none. In the switch queue fairness of
`PopPacket` stands for the link, which asks for the next packet after each
transmission. `NotStarved` presumes that SYN packets cease, as the queue serves
these first; second and later priorities can starve, which is how the queue is
meant. In `path` transfers are finite, so that nothing starves
(`EverySymbolLeaves`); there fairness is assumed of the links only.

A run whose cfg turns the deadlock check off has behaviours that end: a finished
transfer, a stopped simulation, a runtime error.

### Where code and documentation disagree

* `HeaderTriggersRequest`: the comment at `RaqsacConnectionRcvSegment.cc:144`
  says an arriving header makes the receiver send a request. It queues one only
  when the pulls counted in the window (`sentPullsInWindow`) are fewer than the
  window just halved (`:162`), so that several headers may be answered with none.
  `StallsOnlyForTrimmed` shows the limit of what this can cost: a transfer stops for good only after a header, and with
  all its source symbols asked for; those it misses were trimmed. (It is about
  transfers with no pull queued: one whose pulls are queued and never sent, for
  lack of a timer, is what `PacerAliveUntilOutage` is about.)
* `KeepsListening`: `RaqsacSocket.h:165` describes listening connections that
  fork. The first segment takes the listening connection itself, and nobody
  listens any more; the scheduler gives each flow a sink of its own, and
  `Accepted` holds because of that.
* `EcmpOnlyShortest`: the list of equal-cost links keeps those of a longer path
  that was known first, whenever weights differ. In the simulated trees weights
  count hops and the list is exact (`EqualCostPaths`); it is loop free always.

Three more were met and are not runs of their own. The comment of
`getNetworkId()` (`TopologyEcmp.h:142`) says all nodes of a connected network
have the same network id; `findNetworks` follows each connection one hop only,
where the links follow it to the next selected module, and from its starting
node outwards, so that this holds (`NetworksDirect`) where connections lead
both ways and directly from one selected module to the next. The class comment of
`RaqsacSwitchQueue.h:35` calls the queue drop-front, and a full queue trims or
loses the packet that arrives. `RaqsacSocket.h:218` says `close()` is never
called, and stopping the host of a connected client calls it, which throws; the
model keeps that step (`failure = "close called"`).

`FinishedHostSurvives` states what an outage spares. A host that goes down with
an unfinished transfer may end the simulation through the timer `reset()` left
behind, and so may one whose transfers are all finished if a second header of
one arrived since: the header branch asks for a pull, and for the timer, without
looking at `connFinished`. Comments at `Raqsac.cc:339` and :344 mark the lifecycle as unfinished,
so this is a limit of the code and no disagreement.

## What is proved

The theorems below hold for all values of the constants that satisfy the
assumptions named in the modules. Every run's assumptions are among them, and so
is every property of a passing run named here: a run shows it on a small
instance, the theorem for every number of connections, every size, window,
memory, graph and so on. The bounds (`MaxTrims`, `MaxEdits` and the like) are
constants too, so that a theorem covers any number of trims or edits.

| module | theorems | property |
|---|---|---|
| `RaqsacTransportProofs` | `TypeCorrect`, `PullsInOrder`, `SymbolsSolicited`, `WindowAccounted`, `WindowLimited`, `OverheadBounded`, `FinishedIsClosed`, `NothingDropped`, `StallsForTrimmed`, `ClosesWhenDecodable`, `PullCreditImplemented` | `TypeOK`, `PullOrder`, `NoUnsolicitedSymbol`, `WindowAccounting`, `WindowLimit`, `BoundedOverhead`, `FinishedAfterClosed`, `NothingToDropInListen`, `StallsOnlyForTrimmed`, `ClosedWhenDecodable`, `ImplementsPullCredit` |
| `RaqsacOutageProofs` | `PacerKeepsTimer`, `FinishedSurvive`, `RoundRobin` | `PacerAliveUntilOutage`, `FinishedHostSurvives`, `ServedInTurn` |
| `RaqsacSwitchQueueProofs` | `MemoryBounded`, `DataPassedOverBounded`, `PacketsAccountedFor` | `TypeOK`, `BypassBound`, `AccountedFor` |
| `RaqsacPathProofs` | `TransportImplemented`, `OverloadsAreBooked`, `BooksKeptOverPort`, `PullCreditOverPort` | `ImplementsTransport`, `OverloadIsBooked`; the last two put `WindowAccounting`, `PullOrder`, `StallsOnlyForTrimmed` and `ImplementsPullCredit` over the port |
| `RaqsacHostsProofs` | `TypeCorrect`, `TablesConsistent`, `DistinctPortsGivenOut`, `TransfersKeptApart` | `TypeOK`, `TableConsistent`, `PortsGivenOut`, `NoCrossTalk` |
| `CentralSchedulerRaqsacProofs` | `PriorityFollowsSize`, `AppsApart`, `SinkOfItsOwn`, `StopsWhenDone` | (no run), `AppsDistinct`, `OwnSink`, `StopsExactlyWhenDone` |
| `TopologyEcmpProofs` | `TypeCorrect`, `RoutesLoopFree`, `ShortestFound`, `EqualCostFound`, `PoppedForGood` | `TypeOK`, `LoopFree`, `ShortestPaths`, `EqualCostPaths`, `SettledForGood` |
| `TopologyGraphProofs` | `GraphTyped`, `LinksStayConsistent`, `NodesAreFound`, `NetworksAreJoined` | `TypeOK`, `LinksConsistent`, `NodesFound`, `NetworksDirect` |

`TransfersKeptApart` alone assumes more than the modules do, `ClientsApart` and
`ServicesApart` (see `RaqsacHosts` above); the run checks that its deployments
satisfy both.

### The inductive invariants

* `PullInv` (transport): type, `PullOrder`, and `SenderInStep`.
  `NoUnsolicitedSymbol` bounds what a sender has sent by the pulls that were
  sent, so one must know that the sender's `request_id` only counts pulls that
  have left and that it sends one symbol per count. The proof first shows, per
  function of the state block, that the result is a `Receiver` and that it
  appends to the pull queue and touches nothing else of it, then one lemma per
  action. A window never becomes 0, although each header halves it, and the pull
  queue is never popped empty.
* `TransferInv` (transport): `PullInv`, and for each transfer the receiver's
  `Books` and what ties them to the network. `Books` is about the receiver
  alone: each pull sent opens the window by one and each packet received closes
  it by one (`Balanced`); with the wanted symbols it has reported or failed to
  decode once (`Concludes`); it asked for all source symbols, or still pulls and
  has something outstanding (`AsksEnough`); until a header arrives it asked for
  no more than the window admits (`AsksNoMore`). `Conserved` says that each
  symbol sent has arrived, whole or trimmed, is in flight, or was lost, with
  cardinalities of the sets in flight; `Flying`, that each is in one place;
  `NewestFlying`, that the newest pull the sender has not counted is still
  under way, without which a transfer could run dry with pulls lost on the way.
  `WindowAccounting` is `Balanced` and `Conserved` together. The same invariant
  maps every step to one of `PullCredit`.
* `PacerInv` (transport): `TransferInv`; no connection is registered twice; a
  registered connection is one that was established; while the timer rests, a
  connection has no pull that counts and its next one will ask for the timer;
  the timer of a host whose connections are all finished runs only for a late
  header. `OutageInv` carries over what `PacerInv` said of the timer at the
  moment the connections were deleted. A lost timer stays lost, and whoever is
  registered at the time is finished, so that those who are not are late.
* `BypassInv` and `AccountInv` (switch queue): `bypassed` stays behind
  `(weight + 9) % 10`, the turns since the last turn of data; at the wrap of
  `weight`, where 2^32 is no multiple of 10, the turns jump ahead of the count
  and never behind it. `AccountedFor` is an action property: that each packet
  waits once (`KeptOnce`) and in its queue (`InItsQueue`) is inductive, and what
  a step may lose follows from the step.
* `PathInv` (hosts and port): each symbol is in one place at most, upstream or
  once in a queue of the port, which its kind, its priority and its being
  trimmed determine (`Placed`, `SentOnce`); nothing was sent before a connection
  was opened. Without it a step of the port does not map to one of the
  transport's network: popping a symbol that waits a second time would leave it
  in flight. Each action is then one of `RaqsacTransport`, or, if the port only
  stores a symbol, a stutter.

Through that refinement the theorems of `RaqsacTransportProofs` hold over the
port as well (`BooksKeptOverPort`, `PullCreditOverPort`): that module is
instantiated with upstream and queue for the network, its assumptions on the
constants follow from those of `RaqsacPath`, and its specification from the one
`TransportImplemented` establishes. `OverloadsAreBooked` needs them. A port that
trims or loses is full, and the symbols stored in it and the one being pushed
are all among those their receivers book: `WindowAccounting` says that a
receiver's window, corrected by the pushed window, counts its symbols in flight
(`BooksCover`). What remains is a sum over the connections, defined by a fold:
that the fold is a function of the sets of connections (`SumUpTo`), and that the
sum covers the symbols of all connections if each term covers its own
(`SumCovers`), is shown for a least number of connections without it, since the
library's induction theorems cannot be used. It takes the assumption that a host
has finitely many connections.

The other invariants:

* `HostsInv` and `PeersInv` (hosts): a socket whose open request is pending has
  no connection, and a table has each connection under its own pair only. The
  search for a port passes every port of the range in one round, its starting
  point last (`PortSearch`). For
  `NoCrossTalk`, further, the pair of a client names the service it connects to,
  a sink's connection belongs to the client its pair names, and every segment
  under way was sent by the client or by the one sink of that pair.
* `SizedApps` and `SchedulerInv` (scheduler): every application's priority is
  that of its size, and `getPriorityValue` leaves no gap between its classes;
  names and gates count the applications of a server; pod, rack and node of an
  index give every server of the tree (`EveryPlaceTaken`), so that the one
  permutation of the servers replaces each temporary application; sinks of short and of
  long flows are at different servers, so that ports computed at the destination
  and at the source never meet; the flows reported are as many as counted.
* `EcmpInv` (shortest paths): that of Dijkstra's algorithm. The queue is ordered
  by distance and no settled node is further than one in it; each distance is
  that of a path over links examined, and no examined link gives a shorter one;
  the list of equal-cost links has each examined link that gives the distance,
  once, and only links that lead nearer. In the unweighted calculation the
  queued nodes are at most one hop apart. Induction over paths is not needed:
  `ShortestPaths` says that the distances solve the equations of the shortest
  paths, whose solution is unique as weights of links are positive.
* `GraphInv` (graph): nodes are sorted by id and each is there once; the vectors
  hold each link at its ends and nowhere else. Only with the vectors exact do
  the links that `DeleteNode` and `Clear` free by looking into them cover all
  that end at a node, and no link is left with an end that is no node. While a
  search for networks runs, the nodes are those selected and every link is one
  that a gate on some path made (`ExtractionInv`).
* `NetworksInv` (graph, where connections are direct): a visited node shares its
  id with all it leads to, which are visited or being called (`VisitedShare`);
  the calls open share one id (`CallsShare`); every node is joined to the one
  whose number is its id (`IdsJoined`), so that two with the same id are joined;
  and a node that leads anywhere is visited, being called, or still a root
  (`NoneLeftOut`), so that in the end all links join equal ids.

### What the proofs changed

Properties that TLC had confirmed on small instances turned out to be false in
general, and now say what holds: a transfer may run dry further from its end
than the overhead when the window is larger than 2 (`StallsOnlyForTrimmed`); a
header that comes after its connection has finished starts the timer
(`FinishedHostSurvives`); and `NoCrossTalk` depends on how clients are deployed.

### What is only model-checked

* Liveness (`Completes`, `PullsServed`, `NotStarved`, `Accepted`,
  `EverySymbolLeaves`): it needs fairness and ENABLED, which the prover does not
  handle.
* The violations, which are counterexamples and need no proof.

## Assumptions about code outside the repository

OMNeT++: a handler is atomic; `cancelEvent` called in the context of another
module leaves the message with that module, and a message can be scheduled only
by its owner. INET: `L3Address()` is the unspecified address; the packet queue
asks for a packet when the link is idle; lifecycle operations reach a module
when its pending open requests are handled, since these take no time.

## Not modelled

* Serialization of the header, protocol registration and message dispatching:
  formatting and glue.
* `RaqsacAlgorithm` and `DumbRaqsac`: all handlers are empty.
* `RaqsacSwitchQueueController`: nothing creates it.
* `scheduleIncast`, `removePacket`, `receiveSignal`, `removeConnection`: nothing
  calls them, or no transition leads there.
* Result filters, statistics, plots, shell scripts.
* The `extractBy...` functions of the topology, beyond that each selects some
  modules.
* Connections of a host that opens a new listening socket after a restart: no
  application of the repository does.
* What a caller would do with the equal-cost links that an unweighted calculation
  leaves from an earlier weighted one (`TopologyEcmp.cc:383`): it neither clears
  nor promises them, and no property speaks of them.
* A single long server (`CentralSchedulerRaqsac.cc:227`) or a single short one
  (`:199`), which the assumptions of the module exclude.
* Times: pacing intervals, delays, time limits of simulations.

## Plan

Done, in this order: the transport (the core), its abstract specification, its
proofs; the switch queue and its proofs; the hosts; the scheduler; the shortest
paths; the graph they run on and deletions in it; the pacer with outages; the
composition of hosts and switch queue.

The proofs followed: what a receiver asks for and its books; conservation of
symbols and the refinement of `PullCredit`; the pacer, with outages; the packets
of the switch queue; the tables and ports of the hosts; the scheduler's
applications and its end; the shortest paths; the refinement of the transport by
hosts and switch port; the graph, edited and traversed; the transport's theorems
over the port, and with them its overloads.

What is left: the liveness properties, which stay with TLC; every safety
property of a passing run is proved.
