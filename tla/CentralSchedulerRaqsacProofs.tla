--------------------- MODULE CentralSchedulerRaqsacProofs ---------------------
(***************************************************************************)
(* Proofs about the central scheduler, for every tree, shuffle, traffic    *)
(* matrix and workload.  First, the switches serve short flows first:      *)
(* GetPriorityValue leaves no gap between two classes of sizes, and every  *)
(* client gets its priority from the size it is given.  Then, two servers  *)
(* never share a location and a flow never has one server at both ends,    *)
(* which the names, the gates and the ports of applications rest on.  Last,*)
(* the simulation stops when all short flows have been reported.           *)
(***************************************************************************)
EXTENDS CentralSchedulerRaqsac, FiniteSetTheorems, FunctionTheorems, TLAPS

(* The five classes of sizes, in the order of service.                     *)
LEMMA Classes ==
    ASSUME NEW n \in Nat, 0 < n
    PROVE  /\ n <= 7 => GetPriorityValue(n) = 1
           /\ 7 < n /\ n <= 67 => GetPriorityValue(n) = 2
           /\ 67 < n /\ n <= 667 => GetPriorityValue(n) = 3
           /\ 667 < n /\ n <= 6667 => GetPriorityValue(n) = 4
           /\ 6667 < n => GetPriorityValue(n) = 0
<1>1. n <= 7 => GetPriorityValue(n) = 1
  BY DEF GetPriorityValue
<1>2. 7 < n /\ n <= 67 => GetPriorityValue(n) = 2
  BY DEF GetPriorityValue
<1>3. 67 < n /\ n <= 667 => GetPriorityValue(n) = 3
  BY DEF GetPriorityValue
<1>4. 667 < n /\ n <= 6667 => GetPriorityValue(n) = 4
  BY DEF GetPriorityValue
<1>5. 6667 < n => GetPriorityValue(n) = 0
  BY DEF GetPriorityValue
<1> QED
  BY <1>1, <1>2, <1>3, <1>4, <1>5

(* The priorities are assigned in the order of service, without a gap.     *)
LEMMA PriorityMonotone ==
    ASSUME NEW m \in Nat, NEW n \in Nat, 0 < m, m <= n
    PROVE  ServiceRank(GetPriorityValue(m)) <= ServiceRank(GetPriorityValue(n))
<1> DEFINE p == GetPriorityValue(m)
           q == GetPriorityValue(n)
<1>1. /\ m <= 7 => p = 1
      /\ 7 < m /\ m <= 67 => p = 2
      /\ 67 < m /\ m <= 667 => p = 3
      /\ 667 < m /\ m <= 6667 => p = 4
      /\ 6667 < m => p = 0
  BY Classes
<1>2. /\ n <= 7 => q = 1
      /\ 7 < n /\ n <= 67 => q = 2
      /\ 67 < n /\ n <= 667 => q = 3
      /\ 667 < n /\ n <= 6667 => q = 4
      /\ 6667 < n => q = 0
  BY Classes
<1> HIDE DEF p, q
<1> QED
  BY <1>1, <1>2 DEF ServiceRank, p, q

(* Every application carries the priority of its size; the temporary one   *)
(* has size 0.                                                             *)
SizedApps ==
    /\ DOMAIN apps = Location
    /\ \A l \in Location : \A a \in apps[l] :
          a.size \in Nat /\ a.priority = GetPriorityValue(a.size)

LEMMA SizedInit == Init => SizedApps
<1>1. GetPriorityValue(0) = 0
  BY DEF GetPriorityValue
<1> QED
  BY <1>1 DEF Init, SizedApps, TempApp

(* A flow adds one application to each of its servers, both with its size. *)
LEMMA FlowSized ==
    ASSUME SizedApps, NEW src, NEW dest, NEW port, NEW size \in Nat, NEW records,
           CreateFlow(src, dest, port, size, records)
    PROVE  SizedApps'
<1> DEFINE app(type, l, peer) ==
        [type |-> type, name |-> NumApps(l), gate |-> gateSize[l], port |-> port,
         peer |-> peer, size |-> size, priority |-> GetPriorityValue(size),
         recordStatistics |-> records]
<1> DEFINE sink == app("sink", dest, src)
<1> DEFINE client == app("client", src, dest)
<1>1. apps' = [apps EXCEPT ![dest] = @ \cup {sink}, ![src] = @ \cup {client}]
  BY DEF CreateFlow
<1>2. /\ sink.size = size /\ sink.priority = GetPriorityValue(size)
      /\ client.size = size /\ client.priority = GetPriorityValue(size)
  OBVIOUS
<1> HIDE DEF sink, client
<1>3. DOMAIN apps' = Location
  BY <1>1 DEF SizedApps
<1>4. ASSUME NEW l \in Location, NEW a \in apps'[l]
      PROVE  a \in apps[l] \/ a = sink \/ a = client
  BY <1>1, <1>4 DEF SizedApps
<1>5. ASSUME NEW l \in Location, NEW a \in apps'[l]
      PROVE  a.size \in Nat /\ a.priority = GetPriorityValue(a.size)
  BY <1>2, <1>4, <1>5 DEF SizedApps
<1> QED
  BY <1>3, <1>5 DEF SizedApps

LEMMA SizedStep == SizedApps /\ [Next]_vars => SizedApps'
<1> SUFFICES ASSUME SizedApps, [Next]_vars PROVE SizedApps'
  OBVIOUS
<1>1. CASE GenerateTM
  BY <1>1 DEF GenerateTM, SizedApps
<1>2. ASSUME NEW flow \in PermMapLongFlows, ScheduleLongFlow(flow) PROVE SizedApps'
  <2>1. longFlowSize \in Nat
    BY FlowsAssumption
  <2> QED
    BY <1>2, <2>1, FlowSized DEF ScheduleLongFlow
<1>3. ASSUME NEW flow \in ShortFlows, NEW size \in FlowSizes,
             ScheduleNewShortFlow(flow, size)
      PROVE  SizedApps'
  <2>1. size \in Nat
    BY FlowsAssumption
  <2> QED
    BY <1>3, <2>1, FlowSized DEF ScheduleNewShortFlow
<1>4. CASE UNCHANGED apps
  BY <1>4 DEF SizedApps
<1> QED
  BY <1>1, <1>2, <1>3, <1>4
     DEF Next, vars, LongFlowsScheduled, ShortFlowsScheduled, PeerClosed, EndSimulation

LEMMA SizedOrdered == SizedApps => PriorityBySize
  BY PriorityMonotone DEF SizedApps, PriorityBySize, Clients

(* A shorter flow is never served by the switches after a longer one,      *)
(* whatever sizes the workload file holds (CentralSchedulerRaqsac.cc,      *)
(* scheduleNewShortFlow; RaqsacBasicClientApp, connect).                   *)
THEOREM PriorityFollowsSize == Spec => []PriorityBySize
<1>1. Spec => []SizedApps
  BY SizedInit, SizedStep, PTL DEF Spec
<1> QED
  BY <1>1, SizedOrdered, PTL

-----------------------------------------------------------------------------
(* Division, for the places of the servers.                                *)

LEMMA Division ==
    ASSUME NEW n \in Nat, NEW d \in Nat \ {0}
    PROVE  /\ n = (d * (n \div d)) + (n % d)
           /\ n \div d \in Nat /\ n % d \in 0 .. d - 1
OBVIOUS

LEMMA SameNumber ==
    ASSUME NEW m \in Nat, NEW n \in Nat, NEW d \in Nat \ {0},
           m \div d = n \div d, (m % d) = (n % d)
    PROVE  m = n
BY Division

LEMMA QuotientBound ==
    ASSUME NEW n \in Nat, NEW d \in Nat \ {0}, NEW k \in Nat, n < k * d
    PROVE  n \div d \in 0 .. k - 1
<1>1. n \div d < k
  BY Division
<1> QED
  BY <1>1, Division

LEMMA AtLeastOnce ==
    ASSUME NEW d \in Nat \ {0}, NEW x \in Int, 1 <= x
    PROVE  d <= d * x
OBVIOUS

LEMMA RemainderUnique ==
    ASSUME NEW d \in Nat \ {0}, NEW x \in Int, NEW y \in Int,
           NEW r \in 0 .. d - 1, NEW s \in 0 .. d - 1, (d * x) + r = (d * y) + s
    PROVE  x = y /\ r = s
<1>1. d * (x - y) = s - r /\ d * (y - x) = r - s
  OBVIOUS
<1>2. CASE 1 <= x - y
  <2>1. d <= d * (x - y)
    BY <1>2, AtLeastOnce
  <2> QED
    BY <1>1, <2>1
<1>3. CASE 1 <= y - x
  <2>1. d <= d * (y - x)
    BY <1>3, AtLeastOnce
  <2> QED
    BY <1>1, <2>1
<1> QED
  BY <1>2, <1>3

LEMMA RemainderOfRemainder ==
    ASSUME NEW n \in Nat, NEW d \in Nat \ {0}, NEW m \in Nat \ {0}
    PROVE  (n % (d * m)) % d = n % d
<1> DEFINE dm == d * m
           a == n \div dm
           b == n % dm
           q == b \div d
           r == b % d
           p == n \div d
           s == n % d
<1>1. dm \in Nat \ {0}
  OBVIOUS
<1> HIDE DEF dm
<1>2. n = (dm * a) + b /\ a \in Nat /\ b \in Nat
  BY <1>1, Division
<1>3. b = (d * q) + r /\ q \in Nat /\ r \in 0 .. d - 1
  BY <1>2, Division
<1>4. n = (d * p) + s /\ p \in Nat /\ s \in 0 .. d - 1
  BY Division
<1> HIDE DEF a, b, q, r, p, s
<1>5. n = (d * ((m * a) + q)) + r
  <2>1. dm * a = d * (m * a)
    BY <1>2 DEF dm
  <2>2. d * ((m * a) + q) = (d * (m * a)) + (d * q)
    BY <1>2, <1>3
  <2> QED
    BY <1>2, <1>3, <2>1, <2>2
<1> DEFINE x == (m * a) + q
<1>6. x \in Int /\ p \in Int
  BY <1>2, <1>3, <1>4
<1>7. r = s
  <2>1. (d * x) + r = (d * p) + s
    BY <1>4, <1>5
  <2> HIDE DEF x
  <2> QED
    BY <1>3, <1>4, <1>6, <2>1, RemainderUnique
<1> QED
  BY <1>7 DEF r, s, b, dm

(* The tree has as many servers as places for them.                        *)
LEMMA TreeSize ==
    LET perRack == kValue \div 2
    IN  /\ perRack \in Nat \ {0} /\ kValue = 2 * perRack
        /\ perRack * perRack \in Nat \ {0}
        /\ numServers = kValue * (perRack * perRack)
        /\ numServers \in Nat
<1> DEFINE perRack == kValue \div 2
           cube == perRack * (perRack * perRack)
<1>1. kValue \in Nat \ {0} /\ kValue = 2 * perRack /\ perRack \in Nat \ {0}
  BY TreeAssumption, Division
<1> HIDE DEF perRack
<1>2. perRack * perRack \in Nat \ {0} /\ cube \in Nat
  BY <1>1
<1>3. kValue * kValue * kValue = 8 * cube
  BY <1>1
<1>4. kValue * (perRack * perRack) = 2 * cube
  BY <1>1
<1> HIDE DEF cube
<1>5. (8 * cube) \div 4 = 2 * cube
  BY <1>2
<1> QED
  BY <1>1, <1>2, <1>3, <1>4, <1>5 DEF numServers, perRack

LEMMA ServerHasPlace ==
    ASSUME NEW i \in Servers
    PROVE  FindLocation(i) \in Location
<1> DEFINE perRack == kValue \div 2
           perPod == perRack * perRack
<1>1. /\ perRack \in Nat \ {0} /\ perPod \in Nat \ {0} /\ kValue \in Nat
      /\ i \in Nat /\ i < kValue * perPod
  BY TreeSize DEF Servers
<1>2. FindLocation(i) =
        [pod |-> i \div perPod, rack |-> (i % perPod) \div perRack, node |-> i % perRack]
  BY DEF FindLocation
<1>3. Location = [pod : 0 .. kValue - 1, rack : 0 .. perRack - 1, node : 0 .. perRack - 1]
  BY DEF Location
<1>4. i % perPod \in Nat /\ i % perPod < perRack * perRack
  BY <1>1, Division
<1> HIDE DEF perRack
<1>5. (i % perPod) \div perRack \in 0 .. perRack - 1
  BY <1>1, <1>4, QuotientBound
<1> HIDE DEF perPod
<1>6. i \div perPod \in 0 .. kValue - 1
  BY <1>1, QuotientBound
<1>7. i % perRack \in 0 .. perRack - 1
  BY <1>1, Division
<1> QED
  BY <1>2, <1>3, <1>5, <1>6, <1>7

(* findLocation tells the servers apart.                                   *)
LEMMA PlacesDistinct ==
    ASSUME NEW i \in Servers, NEW j \in Servers, FindLocation(i) = FindLocation(j)
    PROVE  i = j
<1> DEFINE perRack == kValue \div 2
           perPod == perRack * perRack
<1>1. /\ perRack \in Nat \ {0} /\ perPod \in Nat \ {0} /\ i \in Nat /\ j \in Nat
  BY TreeSize DEF Servers
<1>2. /\ i \div perPod = j \div perPod
      /\ (i % perPod) \div perRack = (j % perPod) \div perRack
      /\ i % perRack = j % perRack
  BY DEF FindLocation
<1> HIDE DEF perRack
<1>3. (i % perPod) % perRack = i % perRack /\ (j % perPod) % perRack = j % perRack
  BY <1>1, RemainderOfRemainder
<1> HIDE DEF perPod
<1>4. i % perPod = j % perPod
  <2> DEFINE a == i % perPod
             b == j % perPod
  <2>1. a \in Nat /\ b \in Nat
    BY <1>1, Division
  <2>2. a \div perRack = b \div perRack /\ a % perRack = b % perRack
    BY <1>2, <1>3
  <2> HIDE DEF a, b
  <2>3. a = b
    BY <1>1, <2>1, <2>2, SameNumber
  <2> QED
    BY <2>3 DEF a, b
<1> QED
  BY <1>1, <1>2, <1>4, SameNumber

(* The number with a given quotient and remainder.                         *)
LEMMA Composed ==
    ASSUME NEW d \in Nat \ {0}, NEW x \in Nat, NEW r \in 0 .. d - 1,
           NEW n, n = (d * x) + r
    PROVE  n \in Nat /\ n \div d = x /\ n % d = r
<1> DEFINE q == n \div d
           s == n % d
<1>1. d * x \in Nat
  OBVIOUS
<1>2. n \in Nat
  BY <1>1
<1>3. n = (d * q) + s /\ q \in Nat /\ s \in 0 .. d - 1
  BY <1>2, Division
<1> HIDE DEF q, s
<1>4. q \in Int /\ x \in Int /\ (d * q) + s = (d * x) + r
  BY <1>3
<1>5. q = x /\ s = r
  BY <1>3, <1>4, RemainderUnique
<1> QED
  BY <1>2, <1>5 DEF q, s

LEMMA BelowProduct ==
    ASSUME NEW d \in Nat \ {0}, NEW k \in Nat, NEW x \in 0 .. k - 1, NEW r \in 0 .. d - 1
    PROVE  (d * x) + r \in 0 .. (k * d) - 1
<1>1. d <= d * (k - x)
  BY AtLeastOnce
<1>2. d * (k - x) = (k * d) - (d * x) /\ d * x \in Nat /\ k * d \in Nat
  OBVIOUS
<1> QED
  BY <1>1, <1>2

(* Every place of the network is that of a server.                         *)
LEMMA EveryPlaceTaken ==
    ASSUME NEW l \in Location
    PROVE  \E i \in Servers : FindLocation(i) = l
<1> DEFINE perRack == kValue \div 2
           perPod == perRack * perRack
           inPod == (perRack * l.rack) + l.node
           i == (perPod * l.pod) + inPod
<1>1. /\ perRack \in Nat \ {0} /\ perPod \in Nat \ {0} /\ kValue \in Nat
      /\ Servers = 0 .. (kValue * perPod) - 1
  BY TreeSize, TreeAssumption DEF Servers
<1>2. /\ l.pod \in 0 .. kValue - 1 /\ l.rack \in 0 .. perRack - 1
      /\ l.node \in 0 .. perRack - 1
      /\ l = [pod |-> l.pod, rack |-> l.rack, node |-> l.node]
  BY DEF Location
<1>3. FindLocation(i) =
        [pod |-> i \div perPod, rack |-> (i % perPod) \div perRack, node |-> i % perRack]
  BY DEF FindLocation
<1>4. ASSUME NEW n \in Nat PROVE (n % perPod) % perRack = n % perRack
  <2> HIDE DEF perRack
  <2> QED
    BY <1>1, RemainderOfRemainder
<1>5. inPod \in 0 .. perPod - 1 /\ inPod \div perRack = l.rack /\ inPod % perRack = l.node
  <2> HIDE DEF perRack
  <2>1. inPod \in 0 .. perPod - 1
    BY <1>1, <1>2, BelowProduct
  <2>2. inPod \div perRack = l.rack /\ inPod % perRack = l.node
    BY <1>1, <1>2, Composed
  <2> QED
    BY <2>1, <2>2
<1> HIDE DEF perRack, perPod, inPod
<1>6. i \in Servers
  BY <1>1, <1>2, <1>5, BelowProduct
<1>7. i \in Nat /\ i \div perPod = l.pod /\ i % perPod = inPod
  BY <1>1, <1>2, <1>5, Composed
<1> HIDE DEF i
<1> QED
  BY <1>2, <1>3, <1>4, <1>5, <1>6, <1>7

-----------------------------------------------------------------------------
(* The flows of the traffic matrix, once the servers are shuffled.         *)

Places(servers) == {FindLocation(i) : i \in servers}

LEMMA ServersSplit ==
    /\ numlongflowsRunningServers \in Nat /\ numServers \in Nat
    /\ numlongflowsRunningServers + 1 < numServers
    /\ numlongflowsRunningServers # 1
BY ShareAssumption, TreeSize DEF numshortflowRunningServers

(* A shuffle has every server once.                                        *)
LEMMA ShuffledOnce ==
    ASSUME permServers \in Shuffles
    PROVE  /\ permServers \in [1 .. numServers -> Servers]
           /\ \A i, j \in 1 .. numServers : permServers[i] = permServers[j] => i = j
<1> DEFINE order == permServers
<1>1. /\ order \in [1 .. numServers -> 0 .. numServers - 1]
      /\ {order[i] : i \in 1 .. numServers} = 0 .. numServers - 1
  BY ShufflesAssumption
<1> HIDE DEF order
<1>2. order \in Surjection(1 .. numServers, 0 .. numServers - 1)
  BY <1>1 DEF Surjection, Range
<1>3. numServers \in Nat
  BY ServersSplit
<1>4. /\ IsFiniteSet(1 .. numServers)
      /\ Cardinality(1 .. numServers) = Cardinality(0 .. numServers - 1)
  BY <1>3, FS_Interval
<1>5. order \in Injection(1 .. numServers, 0 .. numServers - 1)
  BY <1>2, <1>4, FS_SurjSameCardinalityImpliesInj
<1>6. \A i, j \in 1 .. numServers : order[i] = order[j] => i = j
  BY <1>5 DEF Injection, IsInjective
<1> QED
  BY <1>1, <1>6 DEF order, Servers

(* Long and short flows use different servers, and no server sends to      *)
(* itself.                                                                 *)
LEMMA FlowEnds ==
    ASSUME permServers \in Shuffles
    PROVE  /\ LongServers \subseteq Servers /\ ShortServers \subseteq Servers
           /\ LongServers \cap ShortServers = {}
           /\ \A flow \in PermMapLongFlows :
                flow[1] \in LongServers /\ flow[2] \in LongServers /\ flow[1] # flow[2]
           /\ \A flow \in ShortFlows :
                flow[1] \in ShortServers /\ flow[2] \in ShortServers /\ flow[1] # flow[2]
<1> DEFINE long == numlongflowsRunningServers
<1>1. long \in Nat /\ numServers \in Nat /\ long + 1 < numServers /\ long # 1
  BY ServersSplit
<1>2. /\ permServers \in [1 .. numServers -> Servers]
      /\ \A i, j \in 1 .. numServers : permServers[i] = permServers[j] => i = j
  BY ShuffledOnce
<1>3. /\ LongServers = {permServers[i] : i \in 1 .. long}
      /\ ShortServers = {permServers[i] : i \in long + 1 .. numServers}
  BY DEF LongServers, ShortServers
<1> HIDE DEF long
<1>4. ASSUME NEW first \in Nat \ {0}, NEW last \in Nat, first < last, last <= numServers,
             NEW flow \in CycleOver(first, last)
      PROVE  \E i, j \in first .. last :
                flow[1] = permServers[i] /\ flow[2] = permServers[j] /\ flow[1] # flow[2]
  <2>1. PICK i \in first .. last :
           flow = <<permServers[i], permServers[IF i = last THEN first ELSE i + 1]>>
    BY DEF CycleOver
  <2> DEFINE j == IF i = last THEN first ELSE i + 1
  <2>2. j \in first .. last /\ i # j /\ i \in 1 .. numServers /\ j \in 1 .. numServers
    BY <1>1, <1>4
  <2>3. flow[1] = permServers[i] /\ flow[2] = permServers[j]
    BY <2>1
  <2> HIDE DEF j
  <2> QED
    BY <1>2, <2>2, <2>3
<1>5. ASSUME NEW flow \in PermMapLongFlows
      PROVE  flow[1] \in LongServers /\ flow[2] \in LongServers /\ flow[1] # flow[2]
  <2>1. flow \in CycleOver(1, long)
    BY DEF PermMapLongFlows, long
  <2>2. long # 0
    BY <1>1, <2>1 DEF CycleOver
  <2> QED
    BY <1>1, <1>3, <1>4, <2>1, <2>2
<1>6. ASSUME NEW flow \in ShortFlows
      PROVE  flow[1] \in ShortServers /\ flow[2] \in ShortServers /\ flow[1] # flow[2]
  <2>1. CASE flow \in RandomFlows
    BY <2>1 DEF RandomFlows
  <2>2. CASE flow \in CycleOver(long + 1, numServers)
    BY <1>1, <1>3, <1>4, <2>2
  <2> QED
    BY <1>6, <2>1, <2>2 DEF ShortFlows, PermMapShortFlows, long
<1>7. LongServers \subseteq Servers /\ ShortServers \subseteq Servers
  BY <1>1, <1>2, <1>3
<1>8. LongServers \cap ShortServers = {}
  BY <1>1, <1>2, <1>3
<1> QED
  BY <1>5, <1>6, <1>7, <1>8

-----------------------------------------------------------------------------
(* The invariant.  A server that has been chosen for flows has nothing but *)
(* clients and sinks, numbered in the order they were created.  Sinks of   *)
(* long flows are alone at their server; the port of a short flow's sink is*)
(* its number.                                                             *)

Numbered(l) ==
    \A a \in apps[l] : a.type \in {"client", "sink"} /\ a.name < NumApps(l)

AppsTyped ==
    /\ apps \in [Location -> SUBSET App] /\ gateSize \in [Location -> Nat]
    /\ \A l \in Location : IsFiniteSet(apps[l])
    /\ \A l \in Location : \A a \in apps[l] : a.gate < gateSize[l]

ServersNumbered ==
    /\ phase = "startManagerNode" => \A l \in Location : apps[l] = {TempApp(l)}
    /\ phase # "startManagerNode" =>
          permServers \in Shuffles /\ \A l \in Places(Servers) : Numbered(l)

AppsInv == AppsTyped /\ NamesAndGatesApart /\ ServersNumbered

ShortSinks(l) == {s \in Sinks(l) : s.recordStatistics}

SinkPlaces ==
    \A l \in Location :
        /\ \A s \in ShortSinks(l) :
              l \in Places(ShortServers) /\ s.port = SinkPort(s.name + 1)
        /\ \A s \in Sinks(l) \ ShortSinks(l) : l \in Places(longFlowsDone)

OneSinkPerPort == \A l \in Location : \A s, t \in Sinks(l) : s.port = t.port => s = t

(* The sinks of short flows, as their reports name them.                   *)
ShortFlowKeys ==
    {key \in Location \X Nat : \E s \in ShortSinks(key[1]) : s.port = key[2]}

FlowsInv ==
    /\ AppsInv /\ SinkPlaces /\ OneSinkPerPort /\ OwnSink
    /\ longFlowsDone \subseteq LongServers
    /\ phase = "startManagerNode" => longFlowsDone = {}

CountInv ==
    /\ phase \in {"startManagerNode", "scheduleLongFlows"} => shortFlowsCreated = 0
    /\ phase = "running" /\ oneToOne => shortFlowsCreated = numShortFlows
    /\ ~oneToOne => shortFlowsCreated = 0
    /\ IsFiniteSet(ShortFlowKeys) /\ Cardinality(ShortFlowKeys) = shortFlowsCreated
    /\ reported \subseteq ShortFlowKeys
    /\ Cardinality(reported) = numCompletedShortFlows
    /\ phase # "running" => reported = {}
    /\ (stopSimulation # "none") <=>
          (numShortFlows > 0 /\ numCompletedShortFlows = numShortFlows)

SchedulerInv == FlowsInv /\ CountInv

(* What a flow adds: a sink at one server and its client at another.       *)
FlowAdds(src, dest, sink, client) ==
    /\ sink \in App /\ sink.type = "sink" /\ sink.peer = src
    /\ sink.name = NumApps(dest) /\ sink.gate = gateSize[dest]
    /\ client \in App /\ client.type = "client" /\ client.peer = dest
    /\ client.name = NumApps(src) /\ client.gate = gateSize[src]
    /\ client.port = sink.port
    /\ apps' \in [Location -> SUBSET App] /\ gateSize' \in [Location -> Nat]
    /\ apps'[dest] = apps[dest] \cup {sink} /\ gateSize'[dest] = gateSize[dest] + 1
    /\ apps'[src] = apps[src] \cup {client} /\ gateSize'[src] = gateSize[src] + 1
    /\ \A l \in Location \ {src, dest} : apps'[l] = apps[l] /\ gateSize'[l] = gateSize[l]

LEMMA AppsCounted ==
    ASSUME AppsTyped, NEW l \in Location
    PROVE  /\ NumApps(l) \in Nat
           /\ Numbered(l) => NumApps(l) = Cardinality(apps[l])
<1>1. IsFiniteSet(apps[l])
  BY DEF AppsTyped
<1>2. NumApps(l) \in Nat
  BY <1>1, FS_Subset, FS_CardinalityType DEF NumApps
<1>3. ASSUME Numbered(l) PROVE NumApps(l) = Cardinality(apps[l])
  <2>1. {a \in apps[l] : a.type \in {"client", "sink"}} = apps[l]
    BY <1>3 DEF Numbered
  <2> QED
    BY <2>1 DEF NumApps
<1> QED
  BY <1>2, <1>3

LEMMA FlowCreated ==
    ASSUME AppsTyped, NEW src \in Location, NEW dest \in Location, src # dest,
           NEW port \in Nat, NEW size \in Nat, NEW records \in BOOLEAN,
           CreateFlow(src, dest, port, size, records)
    PROVE  \E sink, client : /\ FlowAdds(src, dest, sink, client)
                             /\ sink.port = port /\ sink.recordStatistics = records
<1> DEFINE app(type, l, peer) ==
        [type |-> type, name |-> NumApps(l), gate |-> gateSize[l], port |-> port,
         peer |-> peer, size |-> size, priority |-> GetPriorityValue(size),
         recordStatistics |-> records]
<1> DEFINE sink == app("sink", dest, src)
           client == app("client", src, dest)
<1>1. /\ apps' = [apps EXCEPT ![dest] = @ \cup {sink}, ![src] = @ \cup {client}]
      /\ gateSize' = [gateSize EXCEPT ![dest] = @ + 1, ![src] = @ + 1]
  BY DEF CreateFlow
<1>2. /\ NumApps(src) \in Nat /\ NumApps(dest) \in Nat
      /\ gateSize[src] \in Nat /\ gateSize[dest] \in Nat
  BY AppsCounted DEF AppsTyped
<1>3. GetPriorityValue(size) \in 0 .. 4
  BY DEF GetPriorityValue
<1>4. sink \in App /\ client \in App
  BY <1>2, <1>3 DEF App
<1>5. /\ sink.type = "sink" /\ sink.peer = src /\ sink.name = NumApps(dest)
      /\ sink.gate = gateSize[dest] /\ sink.port = port /\ sink.recordStatistics = records
      /\ client.type = "client" /\ client.peer = dest /\ client.name = NumApps(src)
      /\ client.gate = gateSize[src] /\ client.port = port
  OBVIOUS
<1> HIDE DEF sink, client
<1>6. /\ apps \in [Location -> SUBSET App] /\ gateSize \in [Location -> Nat]
  BY DEF AppsTyped
<1>7. /\ apps' \in [Location -> SUBSET App]
      /\ apps'[dest] = apps[dest] \cup {sink} /\ apps'[src] = apps[src] \cup {client}
      /\ \A l \in Location \ {src, dest} : apps'[l] = apps[l]
  BY <1>1, <1>4, <1>6
<1>8. /\ gateSize' \in [Location -> Nat]
      /\ gateSize'[dest] = gateSize[dest] + 1 /\ gateSize'[src] = gateSize[src] + 1
      /\ \A l \in Location \ {src, dest} : gateSize'[l] = gateSize[l]
  BY <1>1, <1>6
<1>9. FlowAdds(src, dest, sink, client)
  BY <1>4, <1>5, <1>7, <1>8 DEF FlowAdds
<1> QED
  BY <1>5, <1>9

(* The next application of a server gets a name and a gate of its own.     *)
LEMMA OneMoreApp ==
    ASSUME NEW before, IsFiniteSet(before), NEW gates \in Nat, NEW a,
           \A b \in before : /\ b.type \in {"client", "sink"} /\ b.name < Cardinality(before)
                             /\ b.name \in Nat /\ b.gate \in Nat /\ b.gate < gates,
           \A b, c \in before : b # c => b.name # c.name /\ b.gate # c.gate,
           a.type \in {"client", "sink"}, a.name = Cardinality(before), a.gate = gates,
           NEW after, after = before \cup {a}
    PROVE  /\ IsFiniteSet(after) /\ Cardinality(after) = Cardinality(before) + 1
           /\ \A b \in after : /\ b.type \in {"client", "sink"}
                               /\ b.name < Cardinality(after) /\ b.gate < gates + 1
           /\ \A b, c \in after : b # c => b.name # c.name /\ b.gate # c.gate
<1>1. Cardinality(before) \in Nat
  BY FS_CardinalityType
<1>2. a \notin before
  BY <1>1
<1>3. IsFiniteSet(after) /\ Cardinality(after) = Cardinality(before) + 1
  BY <1>2, FS_AddElement
<1>4. \A b \in after : b \in before \/ b = a
  OBVIOUS
<1>5. ASSUME NEW b \in after
      PROVE  /\ b.type \in {"client", "sink"}
             /\ b.name < Cardinality(after) /\ b.gate < gates + 1
  BY <1>1, <1>3, <1>4
<1>6. ASSUME NEW b \in after, NEW c \in after, b # c
      PROVE  b.name # c.name /\ b.gate # c.gate
  <2>1. CASE b \in before /\ c \in before
    BY <1>6, <2>1
  <2>2. CASE b = a /\ c \in before
    BY <1>1, <2>2
  <2>3. CASE b \in before /\ c = a
    BY <1>1, <2>3
  <2> QED
    BY <1>4, <1>6, <2>1, <2>2, <2>3
<1> QED
  BY <1>3, <1>5, <1>6

LEMMA FlowKeepsApps ==
    ASSUME AppsInv, phase # "startManagerNode", UNCHANGED <<phase, permServers>>,
           NEW src \in Places(Servers), NEW dest \in Places(Servers), src # dest,
           NEW sink, NEW client, FlowAdds(src, dest, sink, client)
    PROVE  AppsInv'
<1>1. src \in Location /\ dest \in Location
  BY ServerHasPlace DEF Places
<1>2. /\ apps \in [Location -> SUBSET App] /\ gateSize \in [Location -> Nat]
      /\ \A l \in Location : IsFiniteSet(apps[l])
      /\ \A l \in Location : \A a \in apps[l] : a.gate < gateSize[l]
  BY DEF AppsInv, AppsTyped
<1>3. ASSUME NEW l \in {src, dest}
      PROVE  /\ IsFiniteSet(apps'[l]) /\ Numbered(l)'
             /\ \A a \in apps'[l] : a.gate < gateSize'[l]
             /\ \A a, b \in apps'[l] : a # b => a.name # b.name /\ a.gate # b.gate
  <2> DEFINE before == apps[l]
             after == apps'[l]
             gates == gateSize[l]
  <2>1. Numbered(l)
    BY DEF AppsInv, ServersNumbered
  <2>2. NumApps(l) = Cardinality(before)
    BY <1>1, <2>1, AppsCounted DEF AppsInv
  <2>3. \A b \in before : /\ b.type \in {"client", "sink"} /\ b.name < Cardinality(before)
                          /\ b.name \in Nat /\ b.gate \in Nat /\ b.gate < gates
    BY <1>1, <1>2, <2>1, <2>2 DEF Numbered, App
  <2>4. \A b, c \in before : b # c => b.name # c.name /\ b.gate # c.gate
    BY <1>1 DEF AppsInv, NamesAndGatesApart
  <2>5. PICK a : /\ a.type \in {"client", "sink"} /\ a.name = Cardinality(before)
                 /\ a.gate = gates /\ after = before \cup {a}
    BY <2>2 DEF FlowAdds
  <2>6. IsFiniteSet(before) /\ gates \in Nat /\ gateSize'[l] = gates + 1
    BY <1>1, <1>2 DEF FlowAdds
  <2> HIDE DEF before, after, gates
  <2>7. /\ IsFiniteSet(after)
        /\ \A b \in after : /\ b.type \in {"client", "sink"}
                            /\ b.name < Cardinality(after) /\ b.gate < gates + 1
        /\ \A b, c \in after : b # c => b.name # c.name /\ b.gate # c.gate
    BY <2>3, <2>4, <2>5, <2>6, OneMoreApp
  <2>8. NumApps(l)' = Cardinality(after)
    <3>1. {b \in after : b.type \in {"client", "sink"}} = after
      BY <2>7
    <3> QED
      BY <3>1 DEF NumApps, after
  <2> QED
    BY <2>6, <2>7, <2>8 DEF Numbered, after
<1>4. ASSUME NEW l \in Location \ {src, dest}
      PROVE  apps'[l] = apps[l] /\ gateSize'[l] = gateSize[l]
  BY DEF FlowAdds
<1>5. AppsTyped'
  BY <1>2, <1>3, <1>4 DEF AppsTyped, FlowAdds
<1>6. NamesAndGatesApart'
  <2>1. ASSUME NEW l \in Location, NEW a \in apps'[l], NEW b \in apps'[l], a # b
        PROVE  a.name # b.name /\ a.gate # b.gate /\ a.gate < gateSize'[l]
    <3>1. CASE l \in {src, dest}
      BY <1>3, <2>1, <3>1
    <3>2. CASE l \notin {src, dest}
      BY <1>4, <2>1, <3>2 DEF AppsInv, NamesAndGatesApart
    <3> QED
      BY <3>1, <3>2
  <2> QED
    BY <2>1 DEF NamesAndGatesApart
<1>7. ServersNumbered'
  <2>1. ASSUME NEW l \in Places(Servers) PROVE Numbered(l)'
    <3>1. CASE l \in {src, dest}
      BY <1>3, <3>1
    <3>2. CASE l \notin {src, dest}
      <4>1. l \in Location
        BY ServerHasPlace DEF Places
      <4>2. Numbered(l) /\ apps'[l] = apps[l]
        BY <1>4, <3>2, <4>1 DEF AppsInv, ServersNumbered
      <4> QED
        BY <4>2 DEF Numbered, NumApps
    <3> QED
      BY <3>1, <3>2
  <2> QED
    BY <2>1 DEF AppsInv, ServersNumbered
<1> QED
  BY <1>5, <1>6, <1>7 DEF AppsInv

(* The two flows of the scheduler, with the servers they join.             *)
LEMMA LongFlowAdds ==
    ASSUME AppsInv, phase = "scheduleLongFlows",
           NEW flow \in PermMapLongFlows, ScheduleLongFlow(flow)
    PROVE  LET src == FindLocation(flow[1])
               dest == FindLocation(flow[2])
           IN  /\ flow[1] \in LongServers /\ flow[2] \in LongServers
               /\ src \in Places(Servers) /\ dest \in Places(Servers) /\ src # dest
               /\ \E sink, client :
                     FlowAdds(src, dest, sink, client) /\ ~ sink.recordStatistics
<1> DEFINE src == FindLocation(flow[1])
           dest == FindLocation(flow[2])
           port == SinkPort(NumApps(src) + 1)
<1>1. permServers \in Shuffles /\ AppsTyped
  BY DEF AppsInv, ServersNumbered
<1>2. /\ flow[1] \in LongServers /\ flow[2] \in LongServers /\ flow[1] # flow[2]
      /\ flow[1] \in Servers /\ flow[2] \in Servers
  BY <1>1, FlowEnds
<1>3. /\ src \in Places(Servers) /\ dest \in Places(Servers)
      /\ src \in Location /\ dest \in Location /\ src # dest
  BY <1>2, ServerHasPlace, PlacesDistinct DEF Places
<1>4. CreateFlow(src, dest, port, longFlowSize, FALSE)
  BY DEF ScheduleLongFlow
<1>5. port \in Nat /\ longFlowSize \in Nat
  BY <1>1, <1>3, AppsCounted, FlowsAssumption DEF SinkPort
<1> HIDE DEF src, dest, port
<1>6. \E sink, client : FlowAdds(src, dest, sink, client) /\ ~ sink.recordStatistics
  BY <1>1, <1>3, <1>4, <1>5, FlowCreated
<1> QED
  BY <1>2, <1>3, <1>6 DEF src, dest

LEMMA ShortFlowAdds ==
    ASSUME AppsInv, phase = "scheduleShortFlows",
           NEW flow \in ShortFlows, NEW size \in FlowSizes, ScheduleNewShortFlow(flow, size)
    PROVE  LET src == FindLocation(flow[1])
               dest == FindLocation(flow[2])
           IN  /\ flow[1] \in ShortServers /\ flow[2] \in ShortServers
               /\ src \in Places(Servers) /\ dest \in Places(Servers) /\ src # dest
               /\ \E sink, client :
                     /\ FlowAdds(src, dest, sink, client) /\ sink.recordStatistics
                     /\ sink.port = SinkPort(NumApps(dest) + 1)
<1> DEFINE src == FindLocation(flow[1])
           dest == FindLocation(flow[2])
           port == SinkPort(NumApps(dest) + 1)
<1>1. permServers \in Shuffles /\ AppsTyped
  BY DEF AppsInv, ServersNumbered
<1>2. /\ flow[1] \in ShortServers /\ flow[2] \in ShortServers /\ flow[1] # flow[2]
      /\ flow[1] \in Servers /\ flow[2] \in Servers
  BY <1>1, FlowEnds
<1>3. /\ src \in Places(Servers) /\ dest \in Places(Servers)
      /\ src \in Location /\ dest \in Location /\ src # dest
  BY <1>2, ServerHasPlace, PlacesDistinct DEF Places
<1>4. CreateFlow(src, dest, port, size, TRUE)
  BY DEF ScheduleNewShortFlow
<1>5. port \in Nat /\ size \in Nat
  BY <1>1, <1>3, AppsCounted, FlowsAssumption DEF SinkPort
<1>6. port = SinkPort(NumApps(dest) + 1)
  OBVIOUS
<1> HIDE DEF src, dest, port
<1>7. \E sink, client : /\ FlowAdds(src, dest, sink, client) /\ sink.recordStatistics
                        /\ sink.port = port
  <2>1. \E sink, client : /\ FlowAdds(src, dest, sink, client)
                          /\ sink.port = port /\ sink.recordStatistics = TRUE
    BY <1>1, <1>3, <1>4, <1>5, FlowCreated
  <2> QED
    BY <2>1
<1> QED
  BY <1>2, <1>3, <1>6, <1>7 DEF src, dest

(* A sink on a port of its own, told to no client before, keeps every      *)
(* client with a sink of its own.                                          *)
LEMMA NewSinkOfItsOwn ==
    ASSUME AppsTyped, OneSinkPerPort, OwnSink,
           NEW src \in Location, NEW dest \in Location, src # dest,
           NEW sink, NEW client, FlowAdds(src, dest, sink, client),
           \A s \in Sinks(dest) : s.port # sink.port
    PROVE  OneSinkPerPort' /\ OwnSink'
<1>1. /\ sink.type = "sink" /\ client.type = "client" /\ client.peer = dest
      /\ sink.peer = src /\ client.port = sink.port
  BY DEF FlowAdds
<1>2. /\ apps'[dest] = apps[dest] \cup {sink} /\ apps'[src] = apps[src] \cup {client}
      /\ \A l \in Location \ {src, dest} : apps'[l] = apps[l]
  BY DEF FlowAdds
<1>3. /\ Sinks(dest)' = Sinks(dest) \cup {sink}
      /\ \A l \in Location \ {dest} : Sinks(l)' = Sinks(l)
  BY <1>1, <1>2 DEF Sinks
<1>4. /\ Clients(src)' = Clients(src) \cup {client}
      /\ \A l \in Location \ {src} : Clients(l)' = Clients(l)
  BY <1>1, <1>2 DEF Clients
<1>5. ASSUME NEW l \in Location, NEW c \in Clients(l) PROVE c.peer \in Location
  BY DEF AppsTyped, App, Clients
<1>6. OneSinkPerPort'
  <2>1. ASSUME NEW l \in Location, NEW s \in Sinks(l)', NEW t \in Sinks(l)',
               s.port = t.port
        PROVE  s = t
    <3>1. CASE l = dest
      <4>1. s \in Sinks(dest) \/ s = sink
        BY <1>3, <2>1, <3>1
      <4>2. t \in Sinks(dest) \/ t = sink
        BY <1>3, <2>1, <3>1
      <4> QED
        BY <2>1, <4>1, <4>2 DEF OneSinkPerPort
    <3>2. CASE l # dest
      BY <1>3, <2>1, <3>2 DEF OneSinkPerPort
    <3> QED
      BY <3>1, <3>2
  <2> QED
    BY <2>1 DEF OneSinkPerPort
<1>7. ASSUME NEW l \in Location, NEW c \in Clients(l)'
      PROVE  \/ c \in Clients(l) /\ <<c.peer, c.port>> # <<dest, sink.port>>
             \/ l = src /\ c = client
  <2>1. c \in Clients(l) \/ (l = src /\ c = client)
    BY <1>4, <1>7
  <2>2. ASSUME c \in Clients(l) PROVE <<c.peer, c.port>> # <<dest, sink.port>>
    BY <2>2 DEF OwnSink
  <2> QED
    BY <2>1, <2>2
<1>8. ASSUME NEW l \in Location, NEW c \in Clients(l)'
      PROVE  /\ \E s \in Sinks(c.peer)' : s.port = c.port /\ s.peer = l
             /\ c.peer \in Location
  <2>1. CASE c \in Clients(l)
    <3>1. PICK s \in Sinks(c.peer) : s.port = c.port /\ s.peer = l
      BY <2>1 DEF OwnSink
    <3>2. s \in Sinks(c.peer)' /\ c.peer \in Location
      BY <1>3, <1>5, <2>1
    <3> QED
      BY <3>1, <3>2
  <2>2. CASE l = src /\ c = client
    BY <1>1, <1>3, <2>2
  <2> QED
    BY <1>7, <1>8, <2>1, <2>2
<1>9. ASSUME NEW l \in Location, NEW c \in Clients(l)',
             NEW m \in Location, NEW d \in Clients(m)',
             <<d.peer, d.port>> = <<c.peer, c.port>>
      PROVE  <<m, d>> = <<l, c>>
  <2>1. CASE c \in Clients(l) /\ d \in Clients(m)
    BY <1>9, <2>1 DEF OwnSink
  <2>2. CASE (l = src /\ c = client) /\ (m = src /\ d = client)
    BY <2>2
  <2> QED
    BY <1>1, <1>7, <1>9, <2>1, <2>2
<1>10. OwnSink'
  <2>1. ASSUME NEW l \in Location, NEW c \in Clients(l)'
        PROVE  /\ \E s \in Sinks(c.peer)' :
                     /\ s.port = c.port /\ s.peer = l
                     /\ \A other \in Sinks(c.peer)' : other.port = c.port => other = s
               /\ \A m \in Location : \A d \in Clients(m)' :
                     <<d.peer, d.port>> = <<c.peer, c.port>> => <<m, d>> = <<l, c>>
    <3>1. PICK s \in Sinks(c.peer)' : s.port = c.port /\ s.peer = l
      BY <1>8, <2>1
    <3>2. \A other \in Sinks(c.peer)' : other.port = c.port => other = s
      BY <1>6, <1>8, <2>1, <3>1 DEF OneSinkPerPort
    <3> QED
      BY <1>9, <2>1, <3>1, <3>2
  <2> QED
    BY <2>1 DEF OwnSink
<1> QED
  BY <1>6, <1>10

LEMMA PlacesApart ==
    ASSUME permServers \in Shuffles
    PROVE  /\ Places(LongServers) \cap Places(ShortServers) = {}
           /\ Places(Servers) \subseteq Location
           /\ \A i \in Servers, servers \in SUBSET Servers :
                 FindLocation(i) \in Places(servers) => i \in servers
<1>1. ASSUME NEW i \in Servers, NEW servers \in SUBSET Servers,
             FindLocation(i) \in Places(servers)
      PROVE  i \in servers
  BY <1>1, PlacesDistinct DEF Places
<1>2. /\ LongServers \subseteq Servers /\ ShortServers \subseteq Servers
      /\ LongServers \cap ShortServers = {}
  BY FlowEnds
<1>3. Places(LongServers) \cap Places(ShortServers) = {}
  <2>1. ASSUME NEW l \in Places(LongServers), l \in Places(ShortServers) PROVE FALSE
    <3>1. PICK i \in LongServers : l = FindLocation(i)
      BY DEF Places
    <3>2. i \in ShortServers
      BY <1>1, <1>2, <2>1, <3>1
    <3> QED
      BY <1>2, <3>2
  <2> QED
    BY <2>1
<1> QED
  BY <1>1, <1>3, ServerHasPlace DEF Places

-----------------------------------------------------------------------------
(* The invariant is kept by every step.                                    *)

(* At the start a server has the temporary application only.               *)
LEMMA NothingAtStart ==
    ASSUME \A l \in Location : apps[l] \in {{}, {TempApp(l)}}
    PROVE  /\ \A l \in Location : Sinks(l) = {} /\ Clients(l) = {}
           /\ SinkPlaces /\ OneSinkPerPort /\ OwnSink /\ ShortFlowKeys = {}
<1>1. ASSUME NEW l \in Location PROVE Sinks(l) = {} /\ Clients(l) = {}
  BY DEF TempApp, Sinks, Clients
<1>2. ShortFlowKeys = {}
  BY <1>1 DEF ShortFlowKeys, ShortSinks
<1> QED
  BY <1>1, <1>2 DEF SinkPlaces, OneSinkPerPort, OwnSink, ShortSinks

LEMMA SchedulerInit == Init => SchedulerInv
<1> SUFFICES ASSUME Init PROVE SchedulerInv
  OBVIOUS
<1>1. /\ apps = [l \in Location |-> {TempApp(l)}] /\ gateSize = [l \in Location |-> 1]
      /\ phase = "startManagerNode" /\ longFlowsDone = {} /\ reported = {}
      /\ shortFlowsCreated = 0 /\ numCompletedShortFlows = 0 /\ stopSimulation = "none"
  BY DEF Init
<1>2. ASSUME NEW l \in Location
      PROVE  TempApp(l) \in App /\ TempApp(l).gate = 0
  BY DEF TempApp, App
<1>3. ASSUME NEW l \in Location
      PROVE  apps[l] = {TempApp(l)} /\ IsFiniteSet(apps[l]) /\ gateSize[l] = 1
  BY <1>1, FS_Singleton
<1>4. AppsTyped
  BY <1>1, <1>2, <1>3 DEF AppsTyped
<1>5. NamesAndGatesApart
  BY <1>3 DEF NamesAndGatesApart
<1>6. ServersNumbered
  BY <1>1, <1>3 DEF ServersNumbered
<1>7. SinkPlaces /\ OneSinkPerPort /\ OwnSink /\ ShortFlowKeys = {}
  BY <1>3, NothingAtStart
<1>8. numShortFlows \in Nat
  BY FlowsAssumption
<1>9. CountInv
  BY <1>1, <1>7, <1>8, FS_EmptySet DEF CountInv
<1> QED
  BY <1>1, <1>4, <1>5, <1>6, <1>7, <1>9 DEF SchedulerInv, FlowsInv, AppsInv

LEMMA GenerateTMKeeps ==
    ASSUME SchedulerInv, GenerateTM
    PROVE  SchedulerInv'
<1>1. /\ phase = "startManagerNode" /\ phase' = "scheduleLongFlows"
      /\ permServers' \in Shuffles
      /\ apps' = [l \in Location |->
                    IF \E i \in Servers : FindLocation(i) = l THEN {} ELSE apps[l]]
      /\ UNCHANGED <<oneToOne, longFlowsDone, gateSize, shortFlowsCreated, reported,
                     numCompletedShortFlows, stopSimulation>>
  BY DEF GenerateTM, parameters
<1>2. /\ AppsTyped /\ NamesAndGatesApart /\ longFlowsDone = {}
      /\ \A l \in Location : apps[l] = {TempApp(l)}
  BY <1>1 DEF SchedulerInv, FlowsInv, AppsInv, ServersNumbered
<1>3. \A l \in Location : apps'[l] \in {{}, apps[l]}
  BY <1>1
<1>4. \A l \in Places(Servers) : apps'[l] = {}
  BY <1>1, ServerHasPlace DEF Places
<1>5. /\ SinkPlaces' /\ OneSinkPerPort' /\ OwnSink' /\ ShortFlowKeys' = {}
  <2>1. \A l \in Location : apps'[l] \in {{}, {TempApp(l)}}
    BY <1>2, <1>3
  <2>2. ASSUME NEW l \in Location PROVE Sinks(l)' = {} /\ Clients(l)' = {}
    BY <2>1 DEF TempApp, Sinks, Clients
  <2>3. ShortFlowKeys' = {}
    BY <2>2 DEF ShortFlowKeys, ShortSinks
  <2> QED
    BY <2>2, <2>3 DEF SinkPlaces, OneSinkPerPort, OwnSink, ShortSinks
<1>6. AppsTyped'
  <2>1. apps' \in [Location -> SUBSET App]
    BY <1>1, <1>2 DEF AppsTyped
  <2> QED
    BY <1>1, <1>2, <1>3, <2>1, FS_EmptySet DEF AppsTyped
<1>7. NamesAndGatesApart'
  BY <1>1, <1>2, <1>3 DEF NamesAndGatesApart
<1>8. ServersNumbered'
  BY <1>1, <1>4 DEF ServersNumbered, Numbered
<1>9. FlowsInv'
  BY <1>1, <1>2, <1>5, <1>6, <1>7, <1>8 DEF FlowsInv, AppsInv
<1>10. CountInv'
  <2>1. shortFlowsCreated = 0 /\ reported = {} /\ Cardinality(reported) = numCompletedShortFlows
        /\ ((stopSimulation # "none") <=>
              (numShortFlows > 0 /\ numCompletedShortFlows = numShortFlows))
    BY <1>1 DEF SchedulerInv, CountInv
  <2> QED
    BY <1>1, <1>5, <2>1, FS_EmptySet DEF CountInv
<1> QED
  BY <1>9, <1>10 DEF SchedulerInv

LEMMA LongFlowKeeps ==
    ASSUME SchedulerInv, phase = "scheduleLongFlows",
           NEW flow \in PermMapLongFlows, ScheduleLongFlow(flow)
    PROVE  SchedulerInv'
<1> DEFINE src == FindLocation(flow[1])
           dest == FindLocation(flow[2])
<1>1. /\ AppsInv /\ AppsTyped /\ SinkPlaces /\ OneSinkPerPort /\ OwnSink /\ CountInv
      /\ longFlowsDone \subseteq LongServers /\ permServers \in Shuffles
  BY DEF SchedulerInv, FlowsInv, AppsInv, ServersNumbered
<1>2. /\ flow[1] \in LongServers /\ flow[2] \in LongServers
      /\ src \in Places(Servers) /\ dest \in Places(Servers) /\ src # dest
      /\ \E sink, client : FlowAdds(src, dest, sink, client) /\ ~ sink.recordStatistics
  BY <1>1, LongFlowAdds
<1>3. /\ flow[2] \notin longFlowsDone /\ longFlowsDone' = longFlowsDone \cup {flow[2]}
      /\ UNCHANGED <<oneToOne, phase, permServers, shortFlowsCreated, reported,
                     numCompletedShortFlows, stopSimulation>>
  BY DEF ScheduleLongFlow, parameters
<1>4. dest \in Places(LongServers) /\ dest \notin Places(longFlowsDone)
  BY <1>1, <1>2, <1>3, FlowEnds, PlacesApart DEF Places
<1>5. dest \in Places(longFlowsDone') /\ \A l \in Places(longFlowsDone) : l \in Places(longFlowsDone')
  BY <1>3 DEF Places
<1> HIDE DEF src, dest
<1>6. PICK sink, client : FlowAdds(src, dest, sink, client) /\ ~ sink.recordStatistics
  BY <1>2
<1>7. src \in Location /\ dest \in Location
  BY <1>1, <1>2, PlacesApart
<1>8. Sinks(dest) = {}
  BY <1>1, <1>4, <1>7, PlacesApart DEF SinkPlaces
<1>9. AppsInv'
  BY <1>1, <1>2, <1>3, <1>6, FlowKeepsApps
<1>10. OneSinkPerPort' /\ OwnSink'
  BY <1>1, <1>2, <1>6, <1>7, <1>8, NewSinkOfItsOwn
<1>11. /\ Sinks(dest)' = {sink}
       /\ \A l \in Location \ {dest} : Sinks(l)' = Sinks(l)
  BY <1>6, <1>7, <1>8 DEF FlowAdds, Sinks
<1>12. \A l \in Location : ShortSinks(l)' = ShortSinks(l)
  BY <1>6, <1>8, <1>11 DEF ShortSinks
<1>13. SinkPlaces'
  <2>1. ASSUME NEW l \in Location, NEW s \in ShortSinks(l)'
        PROVE  l \in Places(ShortServers') /\ s.port = SinkPort(s.name + 1)
    BY <1>1, <1>3, <1>12, <2>1 DEF SinkPlaces, ShortServers
  <2>2. ASSUME NEW l \in Location, NEW s \in Sinks(l)' \ ShortSinks(l)'
        PROVE  l \in Places(longFlowsDone')
    BY <1>1, <1>5, <1>11, <1>12, <2>2 DEF SinkPlaces
  <2>3. ShortServers' = ShortServers
    BY <1>3 DEF ShortServers
  <2> QED
    BY <2>1, <2>2, <2>3 DEF SinkPlaces, Places
<1>14. longFlowsDone' \subseteq LongServers'
  BY <1>1, <1>2, <1>3 DEF LongServers
<1>15. ShortFlowKeys' = ShortFlowKeys
  BY <1>12 DEF ShortFlowKeys
<1>16. CountInv'
  BY <1>1, <1>3, <1>15 DEF CountInv
<1> QED
  BY <1>3, <1>9, <1>10, <1>13, <1>14, <1>16 DEF SchedulerInv, FlowsInv

LEMMA ShortFlowKeeps ==
    ASSUME SchedulerInv, phase = "scheduleShortFlows",
           NEW flow \in ShortFlows, NEW size \in FlowSizes, ScheduleNewShortFlow(flow, size)
    PROVE  SchedulerInv'
<1> DEFINE src == FindLocation(flow[1])
           dest == FindLocation(flow[2])
<1>1. /\ AppsInv /\ AppsTyped /\ SinkPlaces /\ OneSinkPerPort /\ OwnSink /\ CountInv
      /\ longFlowsDone \subseteq LongServers /\ permServers \in Shuffles
      /\ \A l \in Places(Servers) : Numbered(l)
  BY DEF SchedulerInv, FlowsInv, AppsInv, ServersNumbered
<1>2. /\ flow[1] \in ShortServers /\ flow[2] \in ShortServers
      /\ src \in Places(Servers) /\ dest \in Places(Servers) /\ src # dest
      /\ \E sink, client : /\ FlowAdds(src, dest, sink, client) /\ sink.recordStatistics
                           /\ sink.port = SinkPort(NumApps(dest) + 1)
  BY <1>1, ShortFlowAdds
<1>3. /\ shortFlowsCreated' = shortFlowsCreated + 1
      /\ oneToOne /\ UNCHANGED <<oneToOne, phase, permServers, longFlowsDone, reported,
                     numCompletedShortFlows, stopSimulation>>
  BY DEF ScheduleNewShortFlow, parameters
<1>4. dest \in Places(ShortServers) /\ dest \notin Places(longFlowsDone)
  <2>1. dest \in Places(ShortServers)
    BY <1>2 DEF Places
  <2>2. Places(longFlowsDone) \subseteq Places(LongServers)
    BY <1>1 DEF Places
  <2> QED
    BY <1>1, <2>1, <2>2, PlacesApart
<1> HIDE DEF src, dest
<1>5. PICK sink, client : /\ FlowAdds(src, dest, sink, client) /\ sink.recordStatistics
                          /\ sink.port = SinkPort(NumApps(dest) + 1)
  BY <1>2
<1>6. src \in Location /\ dest \in Location
  BY <1>1, <1>2, PlacesApart
<1>7. /\ sink \in App /\ sink.type = "sink" /\ sink.name = NumApps(dest)
      /\ NumApps(dest) \in Nat /\ sink.port = SinkPort(sink.name + 1)
      /\ client.type = "client"
      /\ apps'[dest] = apps[dest] \cup {sink} /\ apps'[src] = apps[src] \cup {client}
      /\ \A l \in Location \ {src, dest} : apps'[l] = apps[l]
  BY <1>1, <1>5, <1>6, AppsCounted DEF FlowAdds
<1>8. \A s \in Sinks(dest) : s.port # sink.port
  <2>1. ASSUME NEW s \in Sinks(dest), s.port = sink.port PROVE FALSE
    <3>1. s \in ShortSinks(dest)
      BY <1>1, <1>4, <1>6, <2>1 DEF SinkPlaces
    <3>2. s.port = SinkPort(s.name + 1)
      BY <1>1, <1>6, <3>1 DEF SinkPlaces
    <3>3. s.name \in Nat /\ s.name < NumApps(dest)
      BY <1>1, <1>2, <1>6, <2>1 DEF Numbered, Sinks, AppsTyped, App
    <3> QED
      BY <1>7, <2>1, <3>2, <3>3 DEF SinkPort
  <2> QED
    BY <2>1
<1>9. AppsInv'
  BY <1>1, <1>2, <1>3, <1>5, FlowKeepsApps
<1>10. OneSinkPerPort' /\ OwnSink'
  BY <1>1, <1>2, <1>5, <1>6, <1>8, NewSinkOfItsOwn
<1>11. /\ Sinks(dest)' = Sinks(dest) \cup {sink}
       /\ \A l \in Location \ {dest} : Sinks(l)' = Sinks(l)
  BY <1>6, <1>7 DEF Sinks
<1>12. /\ ShortSinks(dest)' = ShortSinks(dest) \cup {sink}
       /\ \A l \in Location \ {dest} : ShortSinks(l)' = ShortSinks(l)
  BY <1>5, <1>11 DEF ShortSinks
<1>13. ShortServers' = ShortServers /\ LongServers' = LongServers
  BY <1>3 DEF ShortServers, LongServers
<1>14. SinkPlaces'
  <2>1. ASSUME NEW l \in Location, NEW s \in ShortSinks(l)'
        PROVE  l \in Places(ShortServers) /\ s.port = SinkPort(s.name + 1)
    <3>1. CASE s \in ShortSinks(l)
      BY <1>1, <2>1, <3>1 DEF SinkPlaces
    <3>2. CASE l = dest /\ s = sink
      BY <1>4, <1>7, <3>2
    <3> QED
      BY <1>12, <2>1, <3>1, <3>2
  <2>2. ASSUME NEW l \in Location, NEW s \in Sinks(l)' \ ShortSinks(l)'
        PROVE  l \in Places(longFlowsDone)
    <3>1. s \in Sinks(l) \ ShortSinks(l)
      BY <1>11, <1>12, <2>2
    <3> QED
      BY <1>1, <2>2, <3>1 DEF SinkPlaces
  <2> QED
    BY <1>3, <1>13, <2>1, <2>2 DEF SinkPlaces, Places
<1> DEFINE key == <<dest, sink.port>>
<1>15. key \in Location \X Nat /\ key \notin ShortFlowKeys
  <2>1. sink.port \in Nat
    BY <1>7 DEF SinkPort
  <2> QED
    BY <1>6, <1>8, <2>1 DEF ShortFlowKeys, ShortSinks
<1>16. ShortFlowKeys' = ShortFlowKeys \cup {key}
  <2>1. ASSUME NEW k \in Location \X Nat
        PROVE  (\E s \in ShortSinks(k[1])' : s.port = k[2])
                 <=> (\E s \in ShortSinks(k[1]) : s.port = k[2]) \/ k = key
    <3>1. k = <<k[1], k[2]>> /\ k[1] \in Location
      BY <2>1
    <3>2. CASE k[1] # dest
      BY <1>12, <3>1, <3>2
    <3>3. CASE k[1] = dest
      <4>1. ShortSinks(k[1])' = ShortSinks(k[1]) \cup {sink}
        BY <1>12, <3>3
      <4> QED
        BY <3>1, <3>3, <4>1
    <3> QED
      BY <3>2, <3>3
  <2> HIDE DEF key
  <2> QED
    BY <1>15, <2>1 DEF ShortFlowKeys
<1>17. CountInv'
  <2> HIDE DEF key
  <2>1. /\ IsFiniteSet(ShortFlowKeys) /\ Cardinality(ShortFlowKeys) = shortFlowsCreated
        /\ reported \subseteq ShortFlowKeys
    BY <1>1 DEF CountInv
  <2>2. /\ IsFiniteSet(ShortFlowKeys')
        /\ Cardinality(ShortFlowKeys') = shortFlowsCreated + 1
    BY <1>15, <1>16, <2>1, FS_AddElement
  <2>3. reported' \subseteq ShortFlowKeys'
    BY <1>3, <1>16, <2>1
  <2> QED
    BY <1>1, <1>3, <2>2, <2>3 DEF CountInv
<1> QED
  BY <1>1, <1>3, <1>9, <1>10, <1>13, <1>14, <1>17 DEF SchedulerInv, FlowsInv

(* A step that leaves the servers and their applications alone.            *)
LEMMA FlowsKept ==
    ASSUME FlowsInv, UNCHANGED <<permServers, longFlowsDone, apps, gateSize>>,
           (phase' = "startManagerNode") <=> (phase = "startManagerNode")
    PROVE  FlowsInv'
<1>1. AppsTyped'
  BY DEF FlowsInv, AppsInv, AppsTyped
<1>2. NamesAndGatesApart'
  BY DEF FlowsInv, AppsInv, NamesAndGatesApart
<1>3. ServersNumbered'
  <2>1. ASSUME NEW l \in Places(Servers), Numbered(l) PROVE Numbered(l)'
    BY <2>1 DEF Numbered, NumApps
  <2> QED
    BY <2>1 DEF FlowsInv, AppsInv, ServersNumbered
<1>4. /\ LongServers' = LongServers /\ ShortServers' = ShortServers
      /\ Places(ShortServers)' = Places(ShortServers)
      /\ Places(longFlowsDone)' = Places(longFlowsDone)
  BY DEF LongServers, ShortServers, Places
<1>5. ASSUME NEW l
      PROVE  /\ Sinks(l)' = Sinks(l) /\ ShortSinks(l)' = ShortSinks(l)
             /\ Clients(l)' = Clients(l)
  BY DEF Sinks, ShortSinks, Clients
<1>6. SinkPlaces'
  BY <1>4, <1>5 DEF FlowsInv, SinkPlaces
<1>7. OneSinkPerPort'
  BY <1>5 DEF FlowsInv, OneSinkPerPort
<1>8. OwnSink'
  BY <1>5 DEF FlowsInv, OwnSink
<1> QED
  BY <1>1, <1>2, <1>3, <1>4, <1>6, <1>7, <1>8 DEF FlowsInv, AppsInv

(* A report is of a sink that has not reported; the last one finds all the *)
(* others in.                                                              *)
LEMMA PeerClosedKeeps ==
    ASSUME SchedulerInv, NEW l \in Location, NEW sink \in apps[l], PeerClosed(l, sink)
    PROVE  SchedulerInv'
<1> DEFINE key == <<l, sink.port>>
<1>1. /\ phase = "running" /\ sink \in apps[l]
      /\ sink.type = "sink" /\ sink.recordStatistics
      /\ stopSimulation # "handled" /\ key \notin reported
      /\ reported' = reported \cup {key}
      /\ numCompletedShortFlows' = numCompletedShortFlows + 1
      /\ stopSimulation' = IF oneToOne /\ numCompletedShortFlows' = numShortFlows
                             THEN "scheduled" ELSE stopSimulation
      /\ UNCHANGED <<oneToOne, phase, permServers, longFlowsDone, apps, gateSize,
                     shortFlowsCreated>>
  BY DEF PeerClosed, Unreported, HandleParameterChange, ReachedLast, parameters
<1>2. FlowsInv'
  BY <1>1, FlowsKept DEF SchedulerInv
<1>3. key \in ShortFlowKeys
  BY <1>1 DEF SchedulerInv, FlowsInv, AppsInv, AppsTyped, App, ShortFlowKeys, ShortSinks, Sinks
<1>4. ShortFlowKeys' = ShortFlowKeys
  BY <1>1 DEF ShortFlowKeys, ShortSinks, Sinks
<1> HIDE DEF key
<1>0. oneToOne
  <2>1. /\ IsFiniteSet(ShortFlowKeys) /\ Cardinality(ShortFlowKeys) = shortFlowsCreated
        /\ ~oneToOne => shortFlowsCreated = 0
    BY DEF SchedulerInv, CountInv
  <2> QED
    BY <1>3, <2>1, FS_EmptySet
<1>5. /\ IsFiniteSet(ShortFlowKeys) /\ Cardinality(ShortFlowKeys) = numShortFlows
      /\ reported \subseteq ShortFlowKeys /\ Cardinality(reported) = numCompletedShortFlows
      /\ shortFlowsCreated = numShortFlows
      /\ ((stopSimulation # "none") <=>
            (numShortFlows > 0 /\ numCompletedShortFlows = numShortFlows))
  BY <1>0, <1>1 DEF SchedulerInv, CountInv
<1>6. IsFiniteSet(reported) /\ numShortFlows \in Nat
  BY <1>5, FS_Subset, FlowsAssumption
<1>7. /\ IsFiniteSet(reported') /\ Cardinality(reported') = numCompletedShortFlows + 1
      /\ reported' \subseteq ShortFlowKeys /\ numCompletedShortFlows \in Nat
  BY <1>1, <1>3, <1>5, <1>6, FS_AddElement, FS_CardinalityType
<1>8. numCompletedShortFlows + 1 <= numShortFlows
  BY <1>5, <1>7, FS_Subset
<1>9. CountInv'
  BY <1>0, <1>1, <1>4, <1>5, <1>6, <1>7, <1>8 DEF CountInv
<1> QED
  BY <1>2, <1>9 DEF SchedulerInv

LEMMA SchedulerStep == SchedulerInv /\ [Next]_vars => SchedulerInv'
<1> SUFFICES ASSUME SchedulerInv, [Next]_vars PROVE SchedulerInv'
  OBVIOUS
<1>1. ASSUME UNCHANGED <<permServers, longFlowsDone, apps, gateSize>>,
             (phase' = "startManagerNode") <=> (phase = "startManagerNode")
      PROVE  FlowsInv'
  BY <1>1, FlowsKept DEF SchedulerInv
<1>2. ASSUME UNCHANGED apps PROVE ShortFlowKeys' = ShortFlowKeys
  BY <1>2 DEF ShortFlowKeys, ShortSinks, Sinks
<1>3. CASE LongFlowsScheduled
  <2>1. CountInv'
    BY <1>2, <1>3 DEF LongFlowsScheduled, SchedulerInv, CountInv, parameters
  <2> QED
    BY <1>1, <1>3, <2>1 DEF LongFlowsScheduled, SchedulerInv
<1>4. CASE ShortFlowsScheduled
  <2>1. CountInv'
    BY <1>2, <1>4 DEF ShortFlowsScheduled, SchedulerInv, CountInv, parameters
  <2> QED
    BY <1>1, <1>4, <2>1 DEF ShortFlowsScheduled, SchedulerInv
<1>5. CASE EndSimulation
  <2>1. CountInv'
    BY <1>2, <1>5 DEF EndSimulation, SchedulerInv, CountInv, parameters
  <2> QED
    BY <1>1, <1>5, <2>1 DEF EndSimulation, SchedulerInv
<1>6. CASE UNCHANGED vars
  <2>1. CountInv'
    BY <1>2, <1>6 DEF vars, SchedulerInv, CountInv, parameters
  <2> QED
    BY <1>1, <1>6, <2>1 DEF vars, SchedulerInv
<1> QED
  BY <1>3, <1>4, <1>5, <1>6, GenerateTMKeeps, LongFlowKeeps, ShortFlowKeeps, PeerClosedKeeps
     DEF Next

LEMMA SchedulerInvariant == Spec => []SchedulerInv
BY SchedulerInit, SchedulerStep, PTL DEF Spec

-----------------------------------------------------------------------------
(* No two applications of a server share its name or its gate, whatever    *)
(* flows they were made for: findNumSumbodules, which scheduleLongFlows and*)
(* scheduleNewShortFlow ask for the next name, counts those there are. And *)
(* none keeps the temporary application that deleteAllSubModuleApp takes   *)
(* off: serversLocations computes every place of the network.              *)
THEOREM AppsApart == Spec => []AppsDistinct
<1>1. SchedulerInv => NamesAndGatesApart
  BY DEF SchedulerInv, FlowsInv, AppsInv
<1>2. SchedulerInv => TempAppsGone
  <2> SUFFICES ASSUME SchedulerInv, phase # "startManagerNode",
                      NEW l \in Location, NEW a \in apps[l]
               PROVE  a.type # "temp"
    BY DEF TempAppsGone
  <2>1. l \in Places(Servers)
    BY EveryPlaceTaken DEF Places
  <2>2. Numbered(l)
    BY <2>1 DEF SchedulerInv, FlowsInv, AppsInv, ServersNumbered
  <2> QED
    BY <2>2 DEF Numbered
<1> QED
  BY <1>1, <1>2, SchedulerInvariant, PTL DEF AppsDistinct

(* Every client connects to the sink of its own flow and shares it with no *)
(* other: the ports of long flows, computed at the source, and those of    *)
(* short ones, computed at the destination, never meet, for long and short *)
(* flows have different destinations and a long flow has one to itself     *)
(* (scheduleLongFlows, scheduleNewShortFlow).                              *)
THEOREM SinkOfItsOwn == Spec => []OwnSink
<1>1. SchedulerInv => OwnSink
  BY DEF SchedulerInv, FlowsInv
<1> QED
  BY <1>1, SchedulerInvariant, PTL

LEMMA AllReported == SchedulerInv => StopsExactlyWhenDone
<1> SUFFICES ASSUME SchedulerInv PROVE StopsExactlyWhenDone
  OBVIOUS
<1>1. /\ phase = "running" /\ oneToOne => shortFlowsCreated = numShortFlows
      /\ ~oneToOne => shortFlowsCreated = 0
      /\ IsFiniteSet(ShortFlowKeys) /\ Cardinality(ShortFlowKeys) = shortFlowsCreated
      /\ reported \subseteq ShortFlowKeys /\ Cardinality(reported) = numCompletedShortFlows
      /\ phase # "running" => reported = {}
      /\ ((stopSimulation # "none") <=>
            (numShortFlows > 0 /\ numCompletedShortFlows = numShortFlows))
  BY DEF SchedulerInv, CountInv
<1>2. numShortFlows \in Nat
  BY FlowsAssumption
<1> DEFINE done == \A l \in Location : \A s \in Sinks(l) :
                      s.recordStatistics => <<l, s.port>> \in reported
<1>3. done <=> ShortFlowKeys \subseteq reported
  <2>1. ASSUME done, NEW key \in ShortFlowKeys PROVE key \in reported
    <3>1. PICK s \in ShortSinks(key[1]) : s.port = key[2]
      BY DEF ShortFlowKeys
    <3>2. key \in Location \X Nat
      BY DEF ShortFlowKeys
    <3>3. key[1] \in Location /\ key = <<key[1], key[2]>>
      BY <3>2
    <3> QED
      BY <2>1, <3>1, <3>3 DEF ShortSinks
  <2>2. ASSUME ShortFlowKeys \subseteq reported, NEW l \in Location, NEW s \in Sinks(l),
               s.recordStatistics
        PROVE  <<l, s.port>> \in reported
    <3>1. s.port \in Nat
      BY DEF SchedulerInv, FlowsInv, AppsInv, AppsTyped, App, Sinks
    <3>2. <<l, s.port>> \in ShortFlowKeys
      BY <2>2, <3>1 DEF ShortFlowKeys, ShortSinks
    <3> QED
      BY <2>2, <3>2
  <2> QED
    BY <2>1, <2>2
<1> HIDE DEF done
<1>4. ASSUME stopSimulation # "none"
      PROVE  phase = "running" /\ oneToOne /\ numShortFlows > 0 /\ done
  <2>1. numShortFlows > 0 /\ Cardinality(reported) = numShortFlows
    BY <1>1, <1>4
  <2>2. phase = "running"
    BY <1>1, <1>2, <2>1, FS_EmptySet
  <2>3. oneToOne
    <3>1. Cardinality(reported) <= shortFlowsCreated
      BY <1>1, FS_Subset
    <3> QED
      BY <1>1, <1>2, <2>1, <3>1
  <2>4. reported = ShortFlowKeys
    BY <1>1, <2>1, <2>2, <2>3, FS_Subset
  <2> QED
    BY <1>3, <2>1, <2>2, <2>3, <2>4
<1>5. ASSUME phase = "running", oneToOne, numShortFlows > 0, done PROVE stopSimulation # "none"
  <2>1. reported = ShortFlowKeys
    BY <1>1, <1>3, <1>5
  <2> QED
    BY <1>1, <1>5, <2>1
<1> QED
  BY <1>4, <1>5 DEF StopsExactlyWhenDone, done

(* The simulation is stopped once every short flow has been reported and   *)
(* never before: flows are told apart by the server and port of their sink,*)
(* so that counting the reports counts the flows (handleParameterChange);  *)
(* where the scheduler makes none it does not stop the simulation at all.  *)
THEOREM StopsWhenDone == Spec => []StopsExactlyWhenDone
BY AllReported, SchedulerInvariant, PTL

=============================================================================
