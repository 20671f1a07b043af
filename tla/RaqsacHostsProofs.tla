--------------------------- MODULE RaqsacHostsProofs ---------------------------
(***************************************************************************)
(* Proofs about the connection tables and the ports of the hosts.  What    *)
(* keeps the tables and the connections in step is that a socket whose     *)
(* open request is still to be handled has no connection yet, and that a   *)
(* connection is found under its own pair only.                            *)
(***************************************************************************)
EXTENDS RaqsacHosts, WellFoundedInduction, TLAPS

(* Every table and every connection has its place.                         *)
Shape ==
    /\ conn \in [Sockets -> Connection \cup {NoConn}]
    /\ DOMAIN raqsacConnMap = Hosts

(* A socket gets its connection when its request is handled.               *)
Unopened ==
    \A s \in Sockets :
        /\ s \in requests => sockstate[s] # "BOUND" /\ conn[s] = NoConn
        /\ sockstate[s] = "BOUND" => conn[s] = NoConn

HostsInv == TypeOK /\ Shape /\ Unopened /\ TableConsistent /\ PortsGivenOut

-----------------------------------------------------------------------------
(* The least of a set of natural numbers, as the relation < is well founded.*)

LEMMA LeastNatural ==
    ASSUME NEW T \in SUBSET Nat, T # {}
    PROVE  \E x \in T : \A y \in T : x <= y
<1> DEFINE Below == {pair \in Nat \X Nat : pair[1] < pair[2]}
<1>1. IsWellFoundedOn(Below, Nat)
  BY NatLessThanWellFounded DEF OpToRel
<1>2. PICK x \in T : \A y \in T : <<y, x>> \notin Below
  BY <1>1, WFMin
<1>3. \A y \in T : ~ (y < x)
  BY <1>2
<1> QED
  BY <1>2, <1>3

(* The search for a port ends within one round, at a port of the range; if *)
(* that port is used, so is every other.                                   *)
LEMMA PortSearch ==
    ASSUME lastEphemeralPort \in [Hosts -> EphemeralPorts], NEW h \in Hosts
    PROVE  /\ GetEphemeralPort(h) \in EphemeralPorts
           /\ Exhausted(h) => EphemeralPorts \subseteq usedEphemeralPorts[h]
<1> DEFINE last == lastEphemeralPort[h]
           start == EPHEMERAL_PORTRANGE_START
           end == EPHEMERAL_PORTRANGE_END
           stops == {n \in 1 .. RangeSize : Stops(h, n)}
<1>1. /\ start \in Nat /\ end \in Nat /\ last \in Nat
      /\ start <= last /\ last < end /\ RangeSize = end - start
  BY PortRangeAssumption DEF EphemeralPorts, RangeSize
<1>2. \A n \in Nat : Tried(h, n) = IF last + n < end THEN last + n ELSE last + n - RangeSize
  BY <1>1 DEF Tried
<1>3. EphemeralPorts = start .. end - 1
  BY DEF EphemeralPorts
<1>4. Exhausted(h) <=> Tried(h, SearchEnd(h)) \in usedEphemeralPorts[h]
  BY DEF Exhausted, GetEphemeralPort
<1> HIDE DEF last, start, end
<1>5. /\ RangeSize \in 1 .. RangeSize /\ Tried(h, RangeSize) = last
      /\ \A n \in 1 .. RangeSize :
            Tried(h, n) \in EphemeralPorts /\ (Tried(h, n) = last => n = RangeSize)
  BY <1>1, <1>2, <1>3
<1>6. stops \in SUBSET Nat /\ stops # {}
  BY <1>5 DEF Stops, last
<1>7. PICK least \in stops : \A n \in stops : least <= n
  BY <1>6, LeastNatural
<1>8. \A m \in 1 .. least - 1 : ~Stops(h, m)
  <2>1. least \in Nat /\ least <= RangeSize /\ RangeSize \in Nat
    BY <1>1, <1>7
  <2>2. ASSUME NEW m \in 1 .. least - 1, Stops(h, m) PROVE FALSE
    <3>1. m \in stops
      BY <2>1, <2>2
    <3>2. least <= m
      BY <1>7, <3>1
    <3> QED
      BY <2>1, <3>2
  <2> QED
    BY <2>2
<1>9. /\ SearchEnd(h) \in 1 .. RangeSize /\ Stops(h, SearchEnd(h))
      /\ \A m \in 1 .. SearchEnd(h) - 1 : ~Stops(h, m)
  <2>1. \E n \in 1 .. RangeSize : Stops(h, n) /\ \A m \in 1 .. n - 1 : ~Stops(h, m)
    BY <1>7, <1>8
  <2> QED
    BY <2>1 DEF SearchEnd
<1>10. ASSUME Exhausted(h), NEW port \in EphemeralPorts
       PROVE  port \in usedEphemeralPorts[h]
  <2>1. SearchEnd(h) = RangeSize /\ last \in usedEphemeralPorts[h]
    BY <1>4, <1>5, <1>9, <1>10 DEF Stops, last
  <2>2. CASE port = last
    BY <2>1, <2>2
  <2>3. CASE port # last
    <3>1. PICK n \in 1 .. RangeSize - 1 : Tried(h, n) = port
      <4>1. CASE port > last
        <5>1. port - last \in 1 .. RangeSize - 1 /\ Tried(h, port - last) = port
          BY <1>1, <1>2, <1>3, <4>1
        <5> QED
          BY <5>1
      <4>2. CASE port < last
        <5>1. /\ port - last + RangeSize \in 1 .. RangeSize - 1
              /\ Tried(h, port - last + RangeSize) = port
          BY <1>1, <1>2, <1>3, <4>2
        <5> QED
          BY <5>1
      <4> QED
        BY <1>1, <1>3, <2>3, <4>1, <4>2
    <3> QED
      BY <1>9, <2>1, <3>1 DEF Stops
  <2> QED
    BY <2>2, <2>3
<1> QED
  BY <1>5, <1>9, <1>10 DEF GetEphemeralPort

-----------------------------------------------------------------------------
(* What a segment is looked up under.                                      *)

Matches(pair, seg) ==
    /\ pair.localPort = seg.destPort
    /\ pair.localAddr \in {seg.destAddr, Unspecified}
    /\ \/ pair.remoteAddr = seg.srcAddr /\ pair.remotePort = seg.srcPort
       \/ pair.remoteAddr = Unspecified /\ pair.remotePort = -1

LEMMA PairOfSegmentType ==
    ASSUME NEW seg \in Segment
    PROVE  /\ PairOfSegment(seg) \in SockPair
           /\ PairOfSegment(seg).localPort = seg.destPort
           /\ PairOfSegment(seg).localAddr = seg.destAddr
           /\ PairOfSegment(seg).remotePort = seg.srcPort
           /\ PairOfSegment(seg).remoteAddr = seg.srcAddr
BY DEF PairOfSegment, SockPairOf, Segment, SockPair, Address

LEMMA KeysMatch ==
    ASSUME NEW seg \in Segment
    PROVE  /\ DOMAIN LookupKeys(seg) = 1 .. 4
           /\ LookupKeys(seg)[1] = PairOfSegment(seg)
           /\ \A i \in 1 .. 4 :
                LookupKeys(seg)[i] \in SockPair /\ Matches(LookupKeys(seg)[i], seg)
<1> DEFINE pair == PairOfSegment(seg)
           anyPeer == [pair EXCEPT !.remoteAddr = Unspecified, !.remotePort = -1]
           keys == <<pair, [pair EXCEPT !.localAddr = Unspecified],
                     anyPeer, [anyPeer EXCEPT !.localAddr = Unspecified]>>
<1>1. LookupKeys(seg) = keys
  BY DEF LookupKeys
<1>2. pair \in SockPair /\ Matches(pair, seg)
  BY PairOfSegmentType DEF Matches
<1>3. pair.localPort = seg.destPort /\ pair.localAddr = seg.destAddr
  BY PairOfSegmentType
<1> HIDE DEF pair
<1>4. anyPeer \in SockPair /\ Matches(anyPeer, seg)
  BY <1>2, <1>3 DEF Matches, SockPair, Address, Port
<1>5. keys[2] \in SockPair /\ Matches(keys[2], seg)
  BY <1>2, <1>3 DEF Matches, SockPair, Address, Port
<1>6. keys[4] \in SockPair /\ Matches(keys[4], seg)
  BY <1>2, <1>3 DEF Matches, SockPair, Address, Port
<1>7. DOMAIN keys = 1 .. 4 /\ keys[1] = pair /\ keys[3] = anyPeer
  OBVIOUS
<1> HIDE DEF keys, anyPeer
<1>8. \A i \in 1 .. 4 : i = 1 \/ i = 2 \/ i = 3 \/ i = 4
  OBVIOUS
<1> QED
  BY <1>1, <1>2, <1>4, <1>5, <1>6, <1>7, <1>8 DEF pair

(* The first of the keys that is known.                                    *)
LEMMA FoundUnderFirstKey ==
    ASSUME NEW seg \in Segment, HasConnForSegment(seg)
    PROVE  LET table == raqsacConnMap[seg.destAddr]
               keys == LookupKeys(seg)
           IN  \E i \in 1 .. 4 :
                  /\ keys[i] \in DOMAIN table
                  /\ FindConnForSegment(seg) = table[keys[i]]
                  /\ keys[1] \in DOMAIN table => i = 1
<1> DEFINE table == raqsacConnMap[seg.destAddr]
           keys == LookupKeys(seg)
           known == Known(table, keys)
           first == CHOOSE i \in known : \A j \in known : i <= j
<1>1. known \in SUBSET Nat /\ known # {}
  BY KeysMatch DEF Known, HasConnForSegment
<1>2. \E i \in known : \A j \in known : i <= j
  BY <1>1, LeastNatural
<1>3. first \in known /\ \A j \in known : first <= j
  BY <1>2
<1>4. known = {i \in 1 .. 4 : keys[i] \in DOMAIN table}
  BY KeysMatch DEF Known
<1>5. FindConnForSegment(seg) = table[keys[first]]
  BY DEF FindConnForSegment
<1> HIDE DEF first, known
<1> QED
  BY <1>3, <1>4, <1>5

(* The connection that a host finds for a segment.                         *)
LEMMA FoundConnection ==
    ASSUME TypeOK, Shape, TableConsistent, NEW seg \in Segment, HasConnForSegment(seg)
    PROVE  LET s == FindConnForSegment(seg)
           IN  /\ s \in Sockets /\ HostOf[s] = seg.destAddr
               /\ conn[s] \in Connection /\ conn[s] # NoConn
               /\ Matches(conn[s].pair, seg)
               /\ \A t \in Sockets :
                    /\ HostOf[t] = seg.destAddr /\ conn[t] # NoConn
                    /\ conn[t].pair = PairOfSegment(seg)
                    => t = s
               /\ PairOfSegment(seg) \in DOMAIN raqsacConnMap[seg.destAddr] =>
                    conn[s].pair = PairOfSegment(seg)
<1> DEFINE table == raqsacConnMap[seg.destAddr]
           s == FindConnForSegment(seg)
<1>1. seg.destAddr \in Hosts
  BY DEF Segment
<1>2. PICK i \in 1 .. 4 :
         /\ LookupKeys(seg)[i] \in DOMAIN table
         /\ s = table[LookupKeys(seg)[i]]
         /\ LookupKeys(seg)[1] \in DOMAIN table => i = 1
  BY FoundUnderFirstKey
<1> HIDE DEF s
<1>3. s \in Sockets /\ HostOf[s] = seg.destAddr /\ conn[s] # NoConn
      /\ conn[s].pair = LookupKeys(seg)[i]
  BY <1>1, <1>2 DEF TypeOK, TableConsistent
<1>4. conn[s] \in Connection
  BY <1>3 DEF Shape
<1>5. Matches(conn[s].pair, seg)
  BY <1>3, KeysMatch
<1>6. PairOfSegment(seg) \in DOMAIN table => conn[s].pair = PairOfSegment(seg)
  BY <1>2, <1>3, KeysMatch
<1>7. ASSUME NEW t \in Sockets, HostOf[t] = seg.destAddr, conn[t] # NoConn,
             conn[t].pair = PairOfSegment(seg)
      PROVE  t = s
  <2>1. PairOfSegment(seg) \in DOMAIN table /\ table[PairOfSegment(seg)] = t
    BY <1>1, <1>7 DEF TableConsistent
  <2>2. LookupKeys(seg)[i] = PairOfSegment(seg)
    BY <1>2, <2>1, KeysMatch
  <2> QED
    BY <1>2, <2>1, <2>2
<1> QED
  BY <1>3, <1>4, <1>5, <1>6, <1>7 DEF s

-----------------------------------------------------------------------------
(* How the tables change, one host at a time.                              *)

HostTable(h) ==
    /\ \A pair \in DOMAIN raqsacConnMap[h] :
        LET s == raqsacConnMap[h][pair]
        IN  HostOf[s] = h /\ conn[s] # NoConn /\ conn[s].pair = pair
    /\ \A s \in Sockets :
        HostOf[s] = h /\ conn[s] # NoConn =>
            /\ conn[s].pair \in DOMAIN raqsacConnMap[h]
            /\ raqsacConnMap[h][conn[s].pair] = s
    /\ usedEphemeralPorts[h] = LocalPortsOf(h) \cap EphemeralPorts

LEMMA EveryHostTable == TableConsistent <=> \A h \in Hosts : HostTable(h)
BY DEF TableConsistent, HostTable

(* The shape of a table.                                                   *)
TypedTable(table) ==
    \A pair \in DOMAIN table : pair \in SockPair /\ table[pair] \in Sockets

LEMMA TableUntouched ==
    ASSUME NEW h \in Hosts, HostTable(h), TypedTable(raqsacConnMap[h]),
           raqsacConnMap'[h] = raqsacConnMap[h],
           usedEphemeralPorts'[h] = usedEphemeralPorts[h],
           \A t \in Sockets : HostOf[t] = h => conn'[t] = conn[t]
    PROVE  HostTable(h)'
<1>1. LocalPortsOf(h)' = LocalPortsOf(h)
  BY DEF LocalPortsOf
<1>2. \A pair \in DOMAIN raqsacConnMap'[h] : raqsacConnMap'[h][pair] \in Sockets
  BY DEF TypedTable
<1> QED
  BY <1>1, <1>2 DEF HostTable

LEMMA TablesStay ==
    ASSUME TypeOK, TableConsistent,
           UNCHANGED <<conn, raqsacConnMap, usedEphemeralPorts>>
    PROVE  TableConsistent'
<1>1. ASSUME NEW h \in Hosts PROVE HostTable(h)'
  <2>1. TypedTable(raqsacConnMap[h])
    BY DEF TypeOK, TypedTable
  <2> QED
    BY <2>1, EveryHostTable, TableUntouched
<1> QED
  BY <1>1 DEF TableConsistent, HostTable

(* A new connection of a socket that had none.                             *)
LEMMA AddSockPairTables ==
    ASSUME TypeOK, Shape, TableConsistent, NEW s \in Sockets, conn[s] = NoConn,
           NEW fsm \in {"LISTEN", "ESTABLISHED"}, NEW pair \in SockPair,
           AddSockPair(s, fsm, pair)
    PROVE  /\ Shape' /\ TableConsistent'
           /\ \A h \in Hosts : TypedTable(raqsacConnMap'[h])
           /\ usedEphemeralPorts' \in [Hosts -> SUBSET EphemeralPorts]
           /\ conn'[s] = [fsm |-> fsm, pair |-> pair] /\ conn'[s] # NoConn
           /\ \A t \in Sockets \ {s} : conn'[t] = conn[t]
<1> DEFINE h == HostOf[s]
<1>1. h \in Hosts
  BY SocketsAssumption
<1>2. /\ pair \notin DOMAIN raqsacConnMap[h]
      /\ conn' = [conn EXCEPT ![s] = [fsm |-> fsm, pair |-> pair]]
      /\ raqsacConnMap' = [raqsacConnMap EXCEPT ![h] = WithEntry(@, pair, s)]
      /\ usedEphemeralPorts' =
            [usedEphemeralPorts EXCEPT ![h] = @ \cup ({pair.localPort} \cap EphemeralPorts)]
  BY DEF AddSockPair, MarkPort
<1> HIDE DEF h
<1>3. [fsm |-> fsm, pair |-> pair] \in Connection
      /\ [fsm |-> fsm, pair |-> pair] # NoConn
  BY DEF Connection, NoConn
<1>4. /\ conn'[s] = [fsm |-> fsm, pair |-> pair]
      /\ \A t \in Sockets \ {s} : conn'[t] = conn[t]
  BY <1>2 DEF Shape
<1>5. Shape'
  BY <1>2, <1>3 DEF Shape
<1>6. usedEphemeralPorts' \in [Hosts -> SUBSET EphemeralPorts]
  BY <1>2 DEF TypeOK
<1>7. /\ raqsacConnMap'[h] = WithEntry(raqsacConnMap[h], pair, s)
      /\ \A g \in Hosts \ {h} : raqsacConnMap'[g] = raqsacConnMap[g]
  BY <1>1, <1>2 DEF Shape
<1>8. /\ DOMAIN raqsacConnMap'[h] = DOMAIN raqsacConnMap[h] \cup {pair}
      /\ raqsacConnMap'[h][pair] = s
      /\ \A k \in DOMAIN raqsacConnMap[h] \ {pair} :
            raqsacConnMap'[h][k] = raqsacConnMap[h][k]
  BY <1>7 DEF WithEntry
<1>9. \A g \in Hosts : TypedTable(raqsacConnMap[g])
  BY DEF TypeOK, TypedTable
<1>10. \A g \in Hosts : TypedTable(raqsacConnMap'[g])
  <2>1. TypedTable(raqsacConnMap'[h])
    BY <1>1, <1>8, <1>9 DEF TypedTable
  <2> QED
    BY <1>7, <1>9, <2>1
<1>11. ASSUME NEW g \in Hosts \ {h} PROVE HostTable(g)'
  <2>1. usedEphemeralPorts'[g] = usedEphemeralPorts[g]
    BY <1>2 DEF TypeOK
  <2>2. \A t \in Sockets : HostOf[t] = g => conn'[t] = conn[t]
    BY <1>4 DEF h
  <2> QED
    BY <1>7, <1>9, <2>1, <2>2, EveryHostTable, TableUntouched
<1>12. HostTable(h)'
  <2>1. HostTable(h)
    BY <1>1, EveryHostTable
  <2>2. LocalPortsOf(h)' = LocalPortsOf(h) \cup {pair.localPort}
    <3>1. {t \in Sockets : HostOf[t] = h /\ conn'[t] # NoConn}
            = {t \in Sockets : HostOf[t] = h /\ conn[t] # NoConn} \cup {s}
      BY <1>3, <1>4 DEF h
    <3>2. \A t \in Sockets : HostOf[t] = h /\ conn[t] # NoConn => conn'[t] = conn[t]
      BY <1>4
    <3> QED
      BY <1>4, <3>1, <3>2 DEF LocalPortsOf
  <2>3. usedEphemeralPorts'[h] = LocalPortsOf(h)' \cap EphemeralPorts
    BY <1>1, <1>2, <2>1, <2>2 DEF HostTable, TypeOK
  <2>4. ASSUME NEW key \in DOMAIN raqsacConnMap'[h]
        PROVE  LET t == raqsacConnMap'[h][key]
               IN  HostOf[t] = h /\ conn'[t] # NoConn /\ conn'[t].pair = key
    <3>1. CASE key = pair
      BY <1>3, <1>4, <1>8, <3>1 DEF h
    <3>2. CASE key # pair
      BY <1>1, <1>4, <1>8, <1>9, <2>1, <3>2 DEF HostTable, TypedTable
    <3> QED
      BY <3>1, <3>2
  <2>5. ASSUME NEW t \in Sockets, HostOf[t] = h, conn'[t] # NoConn
        PROVE  /\ conn'[t].pair \in DOMAIN raqsacConnMap'[h]
               /\ raqsacConnMap'[h][conn'[t].pair] = t
    <3>1. CASE t = s
      BY <1>4, <1>8, <3>1
    <3>2. CASE t # s
      BY <1>2, <1>4, <1>8, <2>1, <2>5, <3>2 DEF HostTable
    <3> QED
      BY <3>1, <3>2
  <2> QED
    BY <2>3, <2>4, <2>5 DEF HostTable
<1>13. TableConsistent'
  <2>1. \A g \in Hosts : HostTable(g)'
    BY <1>11, <1>12
  <2> QED
    BY <2>1 DEF TableConsistent, HostTable
<1> QED
  BY <1>3, <1>4, <1>5, <1>6, <1>10, <1>13

(* A connection that learns its peer renames its entry, or finds it named  *)
(* so already, and takes no other connection's place.                      *)
LEMMA LearnTables ==
    ASSUME TypeOK, Shape, TableConsistent, NEW seg \in Segment, HasConnForSegment(seg),
           NEW s, s = FindConnForSegment(seg), Learn(s, seg),
           UNCHANGED usedEphemeralPorts
    PROVE  /\ Shape' /\ TableConsistent'
           /\ \A h \in Hosts : TypedTable(raqsacConnMap'[h])
           /\ conn'[s] = [fsm |-> "ESTABLISHED", pair |-> PairOfSegment(seg)]
           /\ \A t \in Sockets \ {s} : conn'[t] = conn[t]
<1> DEFINE h == HostOf[s]
           old == conn[s].pair
           new == PairOfSegment(seg)
<1>1. /\ s \in Sockets /\ h = seg.destAddr /\ h \in Hosts
      /\ conn[s] # NoConn /\ old \in SockPair /\ old.localPort = new.localPort
      /\ new \in DOMAIN raqsacConnMap[h] => old = new
  <2>1. seg.destAddr \in Hosts
    BY DEF Segment
  <2> QED
    BY <2>1, FoundConnection, PairOfSegmentType DEF Connection, Matches
<1>2. /\ conn' = [conn EXCEPT ![s] = [fsm |-> "ESTABLISHED", pair |-> new]]
      /\ raqsacConnMap' =
            [raqsacConnMap EXCEPT ![h] = UpdateSockPair(@, s, old, new)]
  BY DEF Learn
<1>3. new \in SockPair
  BY PairOfSegmentType
<1> HIDE DEF h, old, new
<1>4. [fsm |-> "ESTABLISHED", pair |-> new] \in Connection
      /\ [fsm |-> "ESTABLISHED", pair |-> new] # NoConn
  BY <1>3 DEF Connection, NoConn
<1>5. /\ conn'[s] = [fsm |-> "ESTABLISHED", pair |-> new]
      /\ \A t \in Sockets \ {s} : conn'[t] = conn[t]
  BY <1>1, <1>2 DEF Shape
<1>6. Shape'
  BY <1>2, <1>4 DEF Shape
<1>7. /\ raqsacConnMap'[h] = UpdateSockPair(raqsacConnMap[h], s, old, new)
      /\ \A g \in Hosts \ {h} : raqsacConnMap'[g] = raqsacConnMap[g]
  BY <1>1, <1>2 DEF Shape
<1>8. /\ DOMAIN raqsacConnMap'[h] = (DOMAIN raqsacConnMap[h] \ {old}) \cup {new}
      /\ raqsacConnMap'[h][new] = s
      /\ \A k \in DOMAIN raqsacConnMap[h] \ {old, new} :
            raqsacConnMap'[h][k] = raqsacConnMap[h][k]
  BY <1>7 DEF UpdateSockPair, WithoutKey, WithEntry
<1>9. \A g \in Hosts : TypedTable(raqsacConnMap[g])
  BY DEF TypeOK, TypedTable
<1>10. \A g \in Hosts : TypedTable(raqsacConnMap'[g])
  <2>1. TypedTable(raqsacConnMap'[h])
    BY <1>1, <1>3, <1>8, <1>9 DEF TypedTable
  <2> QED
    BY <1>7, <1>9, <2>1
<1>11. ASSUME NEW g \in Hosts \ {h} PROVE HostTable(g)'
  <2>1. \A t \in Sockets : HostOf[t] = g => conn'[t] = conn[t]
    BY <1>5 DEF h
  <2> QED
    BY <1>7, <1>9, <2>1, EveryHostTable, TableUntouched
<1>12. HostTable(h)'
  <2>1. HostTable(h)
    BY <1>1, EveryHostTable
  <2>2. LocalPortsOf(h)' = LocalPortsOf(h)
    <3>1. {t \in Sockets : HostOf[t] = h /\ conn'[t] # NoConn}
            = {t \in Sockets : HostOf[t] = h /\ conn[t] # NoConn}
      BY <1>1, <1>4, <1>5
    <3>2. \A t \in Sockets : conn'[t].pair.localPort = conn[t].pair.localPort
      BY <1>1, <1>5 DEF old
    <3> QED
      BY <3>1, <3>2 DEF LocalPortsOf
  <2>3. usedEphemeralPorts'[h] = LocalPortsOf(h)' \cap EphemeralPorts
    BY <2>1, <2>2 DEF HostTable
  <2>4. ASSUME NEW key \in DOMAIN raqsacConnMap'[h]
        PROVE  LET t == raqsacConnMap'[h][key]
               IN  HostOf[t] = h /\ conn'[t] # NoConn /\ conn'[t].pair = key
    <3>1. CASE key = new
      BY <1>1, <1>4, <1>5, <1>8, <3>1 DEF h
    <3>2. CASE key # new
      <4>1. key \in DOMAIN raqsacConnMap[h] \ {old}
        BY <1>8, <3>2
      <4> DEFINE t == raqsacConnMap[h][key]
      <4>2. t \in Sockets /\ HostOf[t] = h /\ conn[t] # NoConn /\ conn[t].pair = key
        BY <1>9, <1>1, <2>1, <4>1 DEF HostTable, TypedTable
      <4>3. t # s
        BY <4>1, <4>2 DEF old
      <4> QED
        BY <1>5, <1>8, <3>2, <4>1, <4>2, <4>3
    <3> QED
      BY <3>1, <3>2
  <2>5. ASSUME NEW t \in Sockets, HostOf[t] = h, conn'[t] # NoConn
        PROVE  /\ conn'[t].pair \in DOMAIN raqsacConnMap'[h]
               /\ raqsacConnMap'[h][conn'[t].pair] = t
    <3>1. CASE t = s
      BY <1>5, <1>8, <3>1
    <3>2. CASE t # s
      <4>1. /\ conn'[t] = conn[t] /\ conn[t].pair \in DOMAIN raqsacConnMap[h]
            /\ raqsacConnMap[h][conn[t].pair] = t
        BY <1>5, <2>1, <2>5, <3>2 DEF HostTable
      <4>2. old \in DOMAIN raqsacConnMap[h] /\ raqsacConnMap[h][old] = s
        BY <1>1, <2>1 DEF HostTable, old, h
      <4>3. conn[t].pair # old /\ conn[t].pair # new
        BY <1>1, <3>2, <4>1, <4>2
      <4> QED
        BY <1>8, <4>1, <4>3
    <3> QED
      BY <3>1, <3>2
  <2> QED
    BY <2>3, <2>4, <2>5 DEF HostTable
<1>13. TableConsistent'
  <2>1. \A g \in Hosts : HostTable(g)'
    BY <1>11, <1>12
  <2> QED
    BY <2>1 DEF TableConsistent, HostTable
<1> QED
  BY <1>5, <1>6, <1>10, <1>13 DEF new

-----------------------------------------------------------------------------
(* The steps.                                                              *)

LEMMA InitHostsInv == Init => HostsInv
<1> SUFFICES ASSUME Init PROVE HostsInv
  OBVIOUS
<1>1. TypeOK
  BY SocketsAssumption, PortRangeAssumption, DeploymentsAssumption
     DEF Init, TypeOK, Sockets, SocketState, EphemeralPorts, Failure
<1>2. Shape /\ Unopened
  BY DEF Init, Shape, Unopened
<1>3. \A h \in Hosts : LocalPortsOf(h) = {}
  BY DEF Init, LocalPortsOf
<1>4. TableConsistent
  BY <1>3 DEF Init, TableConsistent
<1>5. PortsGivenOut
  <2>1. \A h \in Hosts : Ephemeral(h) = {}
    BY DEF Init, Ephemeral, Sockets
  <2> QED
    BY <2>1 DEF Init, PortsGivenOut
<1> QED
  BY <1>1, <1>2, <1>4, <1>5 DEF HostsInv

(* A step that leaves the connections, the tables and the ports alone.     *)
LEMMA TablesAlone ==
    ASSUME HostsInv, TypeOK', Unopened',
           UNCHANGED <<conn, raqsacConnMap, usedEphemeralPorts>>,
           failure' = failure \/ failure' # "ports exhausted"
    PROVE  HostsInv'
<1>1. Shape'
  BY DEF HostsInv, Shape
<1>2. TableConsistent'
  BY TablesStay DEF HostsInv
<1>3. \A h \in Hosts : LocalPortsOf(h)' = LocalPortsOf(h) /\ Ephemeral(h)' = Ephemeral(h)
  BY DEF LocalPortsOf, Ephemeral
<1>4. PortsGivenOut'
  BY <1>3 DEF HostsInv, PortsGivenOut
<1> QED
  BY <1>1, <1>2, <1>4 DEF HostsInv

(* No port of a connection is given to another client.                     *)
LEMMA DistinctPorts ==
    ASSUME HostsInv, NEW c \in Sockets, NEW pair,
           conn'[c] = [fsm |-> "ESTABLISHED", pair |-> pair],
           c \in Clients /\ LocalPort[c] = -1 =>
               /\ pair.localPort \in EphemeralPorts
               /\ pair.localPort \notin LocalPortsOf(HostOf[c]),
           \A t \in Sockets \ {c} : conn'[t] = conn[t],
           Running, failure' = failure
    PROVE  PortsGivenOut'
<1>0. \A h \in Hosts : \A d \in Ephemeral(h) :
        /\ conn[d].pair.localPort \in EphemeralPorts
        /\ \A e \in Ephemeral(h) : d # e => conn[d].pair.localPort # conn[e].pair.localPort
  BY DEF HostsInv, PortsGivenOut
<1>1. ASSUME NEW h \in Hosts, NEW d \in Ephemeral(h)', NEW e \in Ephemeral(h)', d # e
      PROVE  conn'[d].pair.localPort # conn'[e].pair.localPort
  <2>1. /\ d \in Clients /\ HostOf[d] = h /\ LocalPort[d] = -1 /\ conn'[d] # NoConn
        /\ e \in Clients /\ HostOf[e] = h /\ LocalPort[e] = -1 /\ conn'[e] # NoConn
    BY DEF Ephemeral
  <2>2. CASE d # c /\ e # c
    <3>1. d \in Ephemeral(h) /\ e \in Ephemeral(h)
      BY <2>1, <2>2 DEF Ephemeral, Sockets
    <3> QED
      BY <1>1, <2>1, <2>2, <3>1, <1>0 DEF Sockets
  <2>3. CASE d = c
    <3>1. conn'[e] = conn[e] /\ conn[e].pair.localPort \in LocalPortsOf(h)
      BY <1>1, <2>1, <2>3 DEF LocalPortsOf, Sockets
    <3> QED
      BY <2>1, <2>3, <3>1
  <2>4. CASE e = c
    <3>1. conn'[d] = conn[d] /\ conn[d].pair.localPort \in LocalPortsOf(h)
      BY <1>1, <2>1, <2>4 DEF LocalPortsOf, Sockets
    <3> QED
      BY <2>1, <2>4, <3>1
  <2> QED
    BY <2>2, <2>3, <2>4
<1>2. ASSUME NEW h \in Hosts, NEW d \in Ephemeral(h)'
      PROVE  conn'[d].pair.localPort \in EphemeralPorts
  <2>1. d \in Clients /\ HostOf[d] = h /\ LocalPort[d] = -1 /\ conn'[d] # NoConn
    BY DEF Ephemeral
  <2>2. CASE d = c
    BY <2>1, <2>2
  <2>3. CASE d # c
    <3>1. conn'[d] = conn[d] /\ d \in Ephemeral(h)
      BY <2>1, <2>3 DEF Ephemeral, Sockets
    <3> QED
      BY <1>0, <3>1
  <2> QED
    BY <2>2, <2>3
<1>3. failure' # "ports exhausted"
  BY DEF Running
<1> QED
  BY <1>1, <1>2, <1>3 DEF PortsGivenOut

(* The port and the pair of a client's open.                               *)
LEMMA AllocatedPort ==
    ASSUME HostsInv, NEW c \in Clients, NEW port, AllocatePort(c, port)
    PROVE  /\ port \in Port
           /\ ActivePair(c, port) \in SockPair
           /\ ActivePair(c, port).localPort = port
           /\ ActivePair(c, port).localAddr = LocalAddress[c]
           /\ ActivePair(c, port).remoteAddr = ConnectAddress[c]
           /\ ActivePair(c, port).remotePort = ConnectPort[c]
           /\ LocalPort[c] = -1 =>
                port \in EphemeralPorts /\ port \notin LocalPortsOf(HostOf[c])
           /\ LocalPort[c] # -1 => port = LocalPort[c]
           /\ lastEphemeralPort' \in [Hosts -> EphemeralPorts]
<1>1. /\ c \in Sockets /\ HostOf[c] \in Hosts /\ LocalPort[c] \in Port
      /\ LocalAddress[c] \in Address /\ ConnectAddress[c] \in Address
      /\ ConnectPort[c] \in Port
  BY SocketsAssumption DEF Sockets, Port, Address
<1>2. lastEphemeralPort \in [Hosts -> EphemeralPorts]
  BY DEF HostsInv, TypeOK
<1>3. CASE LocalPort[c] # -1 /\ port = LocalPort[c] /\ UNCHANGED lastEphemeralPort
  BY <1>1, <1>2, <1>3 DEF ActivePair, SockPairOf, SockPair
<1>4. CASE /\ LocalPort[c] = -1 /\ ~Exhausted(HostOf[c])
           /\ port = GetEphemeralPort(HostOf[c])
           /\ lastEphemeralPort' = [lastEphemeralPort EXCEPT ![HostOf[c]] = port]
  <2>1. port \in EphemeralPorts /\ port \notin usedEphemeralPorts[HostOf[c]]
    BY <1>1, <1>2, <1>4, PortSearch DEF Exhausted
  <2>2. port \in EphemeralPorts /\ port \notin LocalPortsOf(HostOf[c])
    BY <1>1, <2>1 DEF HostsInv, TableConsistent
  <2>3. port \in Port
    BY <2>2, PortRangeAssumption DEF EphemeralPorts, Port
  <2> QED
    BY <1>1, <1>2, <1>4, <2>2, <2>3 DEF ActivePair, SockPairOf, SockPair
<1> QED
  BY <1>3, <1>4 DEF AllocatePort

LEMMA ConnectTables ==
    ASSUME HostsInv, NEW c \in Clients, Connect(c)
    PROVE  HostsInv'
<1>1. TypeOK'
  BY DEF HostsInv, TypeOK, Connect, SocketState, Sockets, hostVars
<1>2. Unopened'
  BY DEF HostsInv, TypeOK, Unopened, Connect, Sockets
<1> QED
  BY <1>1, <1>2, TablesAlone DEF Connect, hostVars

LEMMA OpenActiveTables ==
    ASSUME HostsInv, NEW c \in Clients, OpenActive(c)
    PROVE  HostsInv'
<1>1. PICK port \in {LocalPort[c], GetEphemeralPort(HostOf[c])} :
         /\ AllocatePort(c, port)
         /\ AddSockPair(c, "ESTABLISHED", ActivePair(c, port))
         /\ network' = network \cup {SegmentOf(c, ActivePair(c, port), "syn")}
  BY DEF OpenActive
<1> DEFINE pair == ActivePair(c, port)
<1>2. /\ Running /\ c \in requests
      /\ requests' = requests \ {c} /\ indications' = indications \cup {c}
      /\ UNCHANGED <<deployed, sockstate, timer, up, outages, failure>>
  BY DEF OpenActive
<1>3. c \in Sockets /\ conn[c] = NoConn /\ sockstate[c] # "BOUND"
  BY <1>2 DEF HostsInv, Unopened, Sockets
<1>4. /\ pair \in SockPair /\ pair.localPort = port /\ port \in Port
      /\ pair.remoteAddr = ConnectAddress[c] /\ pair.remotePort = ConnectPort[c]
      /\ LocalPort[c] = -1 => port \in EphemeralPorts /\ port \notin LocalPortsOf(HostOf[c])
      /\ lastEphemeralPort' \in [Hosts -> EphemeralPorts]
  BY <1>1, AllocatedPort
<1>5. AddSockPair(c, "ESTABLISHED", pair) /\ network' = network \cup {SegmentOf(c, pair, "syn")}
  BY <1>1
<1> HIDE DEF pair
<1>6. /\ Shape' /\ TableConsistent'
      /\ \A h \in Hosts : TypedTable(raqsacConnMap'[h])
      /\ usedEphemeralPorts' \in [Hosts -> SUBSET EphemeralPorts]
      /\ conn'[c] = [fsm |-> "ESTABLISHED", pair |-> pair]
      /\ \A t \in Sockets \ {c} : conn'[t] = conn[t]
  BY <1>3, <1>4, <1>5, AddSockPairTables DEF HostsInv
<1>7. SegmentOf(c, pair, "syn") \in Segment
  BY <1>3, <1>4, SocketsAssumption DEF SegmentOf, Segment, Port
<1>8. TypeOK'
  BY <1>2, <1>3, <1>4, <1>5, <1>6, <1>7 DEF HostsInv, TypeOK, Shape, TypedTable
<1>9. Unopened'
  BY <1>2, <1>3, <1>6 DEF HostsInv, Unopened
<1>10. PortsGivenOut'
  BY <1>2, <1>3, <1>4, <1>6, DistinctPorts
<1> QED
  BY <1>6, <1>8, <1>9, <1>10 DEF HostsInv

LEMMA ThrowTables ==
    ASSUME HostsInv, NEW what \in Failure, Throw(what),
           what = "ports exhausted" =>
               \E h \in Hosts : EphemeralPorts \subseteq LocalPortsOf(h)
    PROVE  HostsInv'
<1>1. /\ failure' = what
      /\ UNCHANGED <<deployed, sockstate, timer, requests, indications, conn,
                     raqsacConnMap, usedEphemeralPorts, lastEphemeralPort, network,
                     up, outages>>
  BY DEF Throw, hostVars
<1>2. TypeOK' /\ Shape' /\ Unopened'
  BY <1>1 DEF HostsInv, TypeOK, Shape, Unopened
<1>3. \A h \in Hosts : LocalPortsOf(h)' = LocalPortsOf(h) /\ Ephemeral(h)' = Ephemeral(h)
  BY <1>1 DEF LocalPortsOf, Ephemeral
<1>4. TableConsistent'
  BY <1>1, TablesStay DEF HostsInv
<1>5. PortsGivenOut'
  BY <1>1, <1>3 DEF HostsInv, PortsGivenOut
<1> QED
  BY <1>2, <1>4, <1>5 DEF HostsInv

LEMMA OpenActiveFailsTables ==
    ASSUME HostsInv, NEW c \in Clients, OpenActiveFails(c)
    PROVE  HostsInv'
<1>1. CASE Throw("address in use")
  BY <1>1, ThrowTables DEF Failure
<1>2. CASE Exhausted(HostOf[c]) /\ Throw("ports exhausted")
  <2>1. HostOf[c] \in Hosts
    BY SocketsAssumption DEF Sockets
  <2>2. usedEphemeralPorts[HostOf[c]] = LocalPortsOf(HostOf[c]) \cap EphemeralPorts
    BY <2>1, EveryHostTable DEF HostsInv, HostTable
  <2>3. EphemeralPorts \subseteq LocalPortsOf(HostOf[c])
    BY <1>2, <2>1, <2>2, PortSearch DEF HostsInv, TypeOK
  <2> QED
    BY <1>2, <2>1, <2>3, ThrowTables DEF Failure
<1> QED
  BY <1>1, <1>2 DEF OpenActiveFails

LEMMA OpenPassiveTables ==
    ASSUME HostsInv, NEW s \in Sinks, OpenPassive(s)
    PROVE  HostsInv'
<1> DEFINE pair == PassivePair(s)
<1>1. /\ Running /\ s \in requests /\ AddSockPair(s, "LISTEN", pair)
      /\ requests' = requests \ {s}
      /\ UNCHANGED <<deployed, sockstate, timer, indications, lastEphemeralPort, network,
                     up, outages, failure>>
  BY DEF OpenPassive
<1>2. s \in Sockets /\ s \notin Clients /\ conn[s] = NoConn /\ sockstate[s] # "BOUND"
  BY <1>1, SocketsAssumption DEF HostsInv, Unopened, Sockets
<1>3. pair \in SockPair
  BY <1>2, SocketsAssumption DEF PassivePair, SockPairOf, SockPair, Address, Port
<1> HIDE DEF pair
<1>4. /\ Shape' /\ TableConsistent'
      /\ \A h \in Hosts : TypedTable(raqsacConnMap'[h])
      /\ usedEphemeralPorts' \in [Hosts -> SUBSET EphemeralPorts]
      /\ conn'[s] = [fsm |-> "LISTEN", pair |-> pair]
      /\ \A t \in Sockets \ {s} : conn'[t] = conn[t]
  BY <1>1, <1>2, <1>3, AddSockPairTables DEF HostsInv
<1>5. TypeOK'
  BY <1>1, <1>4 DEF HostsInv, TypeOK, Shape, TypedTable
<1>6. Unopened'
  BY <1>1, <1>2, <1>4 DEF HostsInv, Unopened
<1>7. PortsGivenOut'
  <2>1. \A h \in Hosts : Ephemeral(h)' = Ephemeral(h)
    BY <1>2, <1>4 DEF Ephemeral, Sockets
  <2>2. \A h \in Hosts : \A c \in Ephemeral(h) : conn'[c] = conn[c]
    BY <1>2, <1>4 DEF Ephemeral, Sockets
  <2> QED
    BY <1>1, <2>1, <2>2 DEF HostsInv, PortsGivenOut, Running
<1> QED
  BY <1>4, <1>5, <1>6, <1>7 DEF HostsInv

LEMMA OpenPassiveFailsTables ==
    ASSUME HostsInv, NEW s \in Sinks, OpenPassiveFails(s)
    PROVE  HostsInv'
BY ThrowTables DEF OpenPassiveFails, Failure

LEMMA SocketEstablishedTables ==
    ASSUME HostsInv, NEW c \in Clients, SocketEstablished(c)
    PROVE  HostsInv'
<1>1. TypeOK'
  BY DEF HostsInv, TypeOK, SocketEstablished, SocketState, Sockets, hostVars
<1>2. Unopened'
  BY DEF HostsInv, TypeOK, Unopened, SocketEstablished, Sockets
<1> QED
  BY <1>1, <1>2, TablesAlone DEF SocketEstablished, hostVars

(* The segment a connection answers with.                                  *)
LEMMA AnswerType ==
    ASSUME NEW s \in Sockets, NEW seg \in Segment
    PROVE  /\ Answer(s, seg) \in Segment
           /\ Answer(s, seg).from = s /\ Answer(s, seg).kind # "syn"
           /\ Answer(s, seg).srcAddr = HostOf[s]
           /\ Answer(s, seg).srcPort = seg.destPort
           /\ Answer(s, seg).destAddr = seg.srcAddr
           /\ Answer(s, seg).destPort = seg.srcPort
<1> DEFINE kind == IF seg.kind = "pull" THEN "data" ELSE "pull"
<1>1. kind \in {"syn", "data", "pull"} /\ kind # "syn"
  OBVIOUS
<1> HIDE DEF kind
<1>2. HostOf[s] \in Hosts /\ seg.srcAddr \in Hosts
      /\ seg.destPort \in Port /\ seg.srcPort \in Port
  BY SocketsAssumption DEF Segment
<1>3. Answer(s, seg) =
        [srcAddr |-> HostOf[s], destAddr |-> seg.srcAddr,
         srcPort |-> seg.destPort, destPort |-> seg.srcPort,
         kind |-> kind, from |-> s]
  BY PairOfSegmentType DEF Answer, SegmentOf, kind
<1> QED
  BY <1>1, <1>2, <1>3 DEF Segment

LEMMA RcvSegmentTables ==
    ASSUME HostsInv, NEW seg \in network, RcvSegment(seg)
    PROVE  HostsInv'
<1> DEFINE s == FindConnForSegment(seg)
<1>1. /\ Running /\ requests = {} /\ HasConnForSegment(seg)
      /\ UNCHANGED <<deployed, sockstate, timer, requests, indications,
                     usedEphemeralPorts, lastEphemeralPort, up, outages, failure>>
  BY DEF RcvSegment
<1>2. seg \in Segment
  BY DEF HostsInv, TypeOK
<1>3. /\ s \in Sockets /\ HostOf[s] = seg.destAddr
      /\ conn[s] \in Connection /\ conn[s] # NoConn
      /\ Matches(conn[s].pair, seg)
  BY <1>1, <1>2, FoundConnection DEF HostsInv
<1>4. \/ /\ Learn(s, seg)
         /\ network' \subseteq network \cup {Answer(s, seg)}
      \/ network' \subseteq network /\ UNCHANGED <<conn, raqsacConnMap>>
  BY DEF RcvSegment
<1>5. s = FindConnForSegment(seg)
  OBVIOUS
<1> HIDE DEF s
<1>6. CASE network' \subseteq network /\ UNCHANGED <<conn, raqsacConnMap>>
  <2>1. TypeOK' /\ Unopened'
    BY <1>1, <1>6 DEF HostsInv, TypeOK, Unopened
  <2> QED
    BY <1>1, <1>6, <2>1, TablesAlone
<1>7. CASE Learn(s, seg) /\ network' \subseteq network \cup {Answer(s, seg)}
  <2>1. /\ Shape' /\ TableConsistent'
        /\ \A h \in Hosts : TypedTable(raqsacConnMap'[h])
        /\ conn'[s] = [fsm |-> "ESTABLISHED", pair |-> PairOfSegment(seg)]
        /\ \A t \in Sockets \ {s} : conn'[t] = conn[t]
    BY <1>1, <1>2, <1>5, <1>7, LearnTables DEF HostsInv
  <2>2. Answer(s, seg) \in Segment
    BY <1>2, <1>3, AnswerType
  <2>3. TypeOK'
    BY <1>1, <1>7, <2>1, <2>2 DEF HostsInv, TypeOK, Shape, TypedTable
  <2>4. Unopened'
    BY <1>1, <1>3, <2>1 DEF HostsInv, Unopened
  <2>5. conn'[s].pair.localPort = conn[s].pair.localPort /\ conn'[s] # NoConn
    BY <1>2, <1>3, <2>1, PairOfSegmentType DEF Matches, NoConn
  <2>6. PortsGivenOut'
    <3>1. \A h \in Hosts : Ephemeral(h)' = Ephemeral(h)
      BY <1>3, <2>1, <2>5 DEF Ephemeral, Sockets
    <3>2. \A c \in Clients : conn'[c].pair.localPort = conn[c].pair.localPort
      BY <2>1, <2>5 DEF Sockets
    <3>3. \A h \in Hosts : \A c \in Ephemeral(h) : c \in Clients
      BY DEF Ephemeral
    <3> QED
      BY <1>1, <3>1, <3>2, <3>3 DEF HostsInv, PortsGivenOut, Running
  <2> QED
    BY <2>1, <2>3, <2>4, <2>6 DEF HostsInv
<1> QED
  BY <1>4, <1>6, <1>7

LEMMA DropSegmentTables ==
    ASSUME HostsInv, NEW seg \in network, DropSegment(seg)
    PROVE  HostsInv'
<1>1. TypeOK' /\ Unopened'
  BY DEF HostsInv, TypeOK, Unopened, DropSegment, hostVars
<1> QED
  BY <1>1, TablesAlone DEF DropSegment, hostVars

(* reset() leaves nothing of the host's connections in any of the three.   *)
LEMMA GoDownTables ==
    ASSUME HostsInv, NEW h \in Hosts, MayGoDown(h), GoDown(h)
    PROVE  HostsInv'
<1>1. /\ conn' = [s \in Sockets |-> IF HostOf[s] = h THEN NoConn ELSE conn[s]]
      /\ raqsacConnMap' = [raqsacConnMap EXCEPT ![h] = [pair \in {} |-> NoConn]]
      /\ usedEphemeralPorts' = [usedEphemeralPorts EXCEPT ![h] = {}]
      /\ lastEphemeralPort' = [lastEphemeralPort EXCEPT ![h] = EPHEMERAL_PORTRANGE_START]
      /\ up' = [up EXCEPT ![h] = FALSE] /\ timer' \subseteq timer
      /\ outages' = outages + 1
      /\ UNCHANGED <<deployed, sockstate, requests, indications, network, failure>>
  BY DEF GoDown, Reset
<1>2. Running /\ outages < MaxOutages[deployed]
  BY DEF MayGoDown
<1>3. EPHEMERAL_PORTRANGE_START \in EphemeralPorts
  BY PortRangeAssumption DEF EphemeralPorts
<1>4. Shape'
  BY <1>1 DEF HostsInv, Shape
<1>5. \A g \in Hosts : TypedTable(raqsacConnMap'[g])
  BY <1>1 DEF HostsInv, TypeOK, Shape, TypedTable
<1>6. outages' \in 0 .. MaxOutages[deployed]
  BY <1>1, <1>2, DeploymentsAssumption DEF HostsInv, TypeOK
<1>7. TypeOK'
  BY <1>1, <1>3, <1>4, <1>5, <1>6 DEF HostsInv, TypeOK, Shape, TypedTable
<1>8. Unopened'
  BY <1>1 DEF HostsInv, Unopened
<1>9. ASSUME NEW g \in Hosts PROVE HostTable(g)'
  <2>1. CASE g = h
    <3>1. DOMAIN raqsacConnMap'[h] = {} /\ usedEphemeralPorts'[h] = {}
      BY <1>1 DEF HostsInv, Shape, TypeOK
    <3>2. \A s \in Sockets : HostOf[s] = h => conn'[s] = NoConn
      BY <1>1
    <3>3. LocalPortsOf(h)' = {}
      BY <3>2 DEF LocalPortsOf
    <3> QED
      BY <2>1, <3>1, <3>2, <3>3 DEF HostTable
  <2>2. CASE g # h
    <3>1. raqsacConnMap'[g] = raqsacConnMap[g] /\ usedEphemeralPorts'[g] = usedEphemeralPorts[g]
      BY <1>1, <2>2 DEF HostsInv, Shape, TypeOK
    <3>2. \A s \in Sockets : HostOf[s] = g => conn'[s] = conn[s]
      BY <1>1, <2>2
    <3>3. TypedTable(raqsacConnMap[g]) /\ HostTable(g)
      BY EveryHostTable DEF HostsInv, TypeOK, TypedTable
    <3> QED
      BY <3>1, <3>2, <3>3, TableUntouched
  <2> QED
    BY <2>1, <2>2
<1>10. TableConsistent'
  BY <1>9 DEF TableConsistent, HostTable
<1>11. PortsGivenOut'
  <2>1. \A g \in Hosts : \A c \in Ephemeral(g)' : c \in Ephemeral(g) /\ conn'[c] = conn[c]
    BY <1>1 DEF Ephemeral, Sockets
  <2>2. failure' # "ports exhausted"
    BY <1>1, <1>2 DEF Running
  <2>3. ASSUME NEW g \in Hosts, NEW c \in Ephemeral(g)', NEW d \in Ephemeral(g)', c # d
        PROVE  conn'[c].pair.localPort # conn'[d].pair.localPort
    BY <2>1, <2>3 DEF HostsInv, PortsGivenOut
  <2>4. ASSUME NEW g \in Hosts, NEW c \in Ephemeral(g)'
        PROVE  conn'[c].pair.localPort \in EphemeralPorts
    BY <2>1, <2>4 DEF HostsInv, PortsGivenOut
  <2> QED
    BY <2>2, <2>3, <2>4 DEF PortsGivenOut
<1> QED
  BY <1>4, <1>7, <1>8, <1>10, <1>11 DEF HostsInv

LEMMA StartTables ==
    ASSUME HostsInv, NEW h \in Hosts, Start(h)
    PROVE  HostsInv'
<1>1. TypeOK' /\ Unopened'
  BY DEF HostsInv, TypeOK, Unopened, Start, hostVars, ClientsOf
<1> QED
  BY <1>1, TablesAlone DEF Start, hostVars

LEMMA HostsInvInductive == HostsInv /\ [Next]_vars => HostsInv'
<1> SUFFICES ASSUME HostsInv, [Next]_vars PROVE HostsInv'
  OBVIOUS
<1>1. ASSUME NEW c \in Clients,
             Connect(c) \/ OpenActive(c) \/ OpenActiveFails(c) \/ SocketEstablished(c)
      PROVE  HostsInv'
  BY <1>1, ConnectTables, OpenActiveTables, OpenActiveFailsTables, SocketEstablishedTables
<1>2. ASSUME NEW s \in Sinks, OpenPassive(s) \/ OpenPassiveFails(s)
      PROVE  HostsInv'
  BY <1>2, OpenPassiveTables, OpenPassiveFailsTables
<1>3. ASSUME NEW seg \in network, RcvSegment(seg) \/ DropSegment(seg)
      PROVE  HostsInv'
  BY <1>3, RcvSegmentTables, DropSegmentTables
<1>4. ASSUME NEW h \in Hosts, Stop(h) \/ Crash(h) \/ Start(h)
      PROVE  HostsInv'
  <2>1. CASE MayGoDown(h) /\ GoDown(h)
    BY <2>1, GoDownTables
  <2>2. CASE Throw("close called") \/ Throw("crash not implemented")
    BY <2>2, ThrowTables DEF Failure
  <2>3. CASE Start(h)
    BY <2>3, StartTables
  <2> QED
    BY <1>4, <2>1, <2>2, <2>3 DEF Stop, Crash
<1>5. CASE UNCHANGED vars
  <2>1. TypeOK' /\ Unopened'
    BY <1>5 DEF HostsInv, TypeOK, Unopened, vars
  <2> QED
    BY <1>5, <2>1, TablesAlone DEF vars
<1> QED
  BY <1>1, <1>2, <1>3, <1>4, <1>5 DEF Next

LEMMA HostsInvHolds == Spec => []HostsInv
BY InitHostsInv, HostsInvInductive, PTL DEF Spec

(* Sockets, connections, tables and segments keep their shape: the lookups *)
(* of Raqsac.cc find sockets, getEphemeralPort a port of the range.        *)
THEOREM TypeCorrect == Spec => []TypeOK
<1>1. HostsInv => TypeOK
  BY DEF HostsInv
<1> QED
  BY <1>1, HostsInvHolds, PTL

(* A host finds each of its connections, and nothing else, under the pair  *)
(* the connection believes in (addSockPair, updateSockPair and reset of    *)
(* Raqsac.cc), for all sockets that may be deployed and any outages.       *)
THEOREM TablesConsistent == Spec => []TableConsistent
<1>1. HostsInv => TableConsistent
  BY DEF HostsInv
<1> QED
  BY <1>1, HostsInvHolds, PTL

(* getEphemeralPort gives ports of its range, none of them to two clients, *)
(* and gives up only when every port of the range is taken.                *)
THEOREM DistinctPortsGivenOut == Spec => []PortsGivenOut
<1>1. HostsInv => PortsGivenOut
  BY DEF HostsInv
<1> QED
  BY <1>1, HostsInvHolds, PTL

-----------------------------------------------------------------------------
(* Transfers are not mixed up.  A client's connection never goes away and  *)
(* keeps its port and its peer; a sink takes on one client only, and once  *)
(* its connection is lost there is no listener left at its host.           *)

Connected(s) == conn[s] # NoConn

DeployedOnly ==
    /\ timer \subseteq deployed /\ requests \subseteq deployed
    /\ \A s \in Sockets : Connected(s) => s \in deployed

ClientConnection(c) ==
    Connected(c) =>
        /\ conn[c].fsm = "ESTABLISHED"
        /\ conn[c].pair.localAddr \in {LocalAddress[c], HostOf[c]}
        /\ conn[c].pair.localPort \in PortsOf(c)
        /\ conn[c].pair.remoteAddr = ConnectAddress[c]
        /\ conn[c].pair.remotePort = ConnectPort[c]

UniqueClients ==
    \A c, d \in Clients :
        c # d /\ SameService(c, d) /\ Connected(c) /\ Connected(d) =>
            conn[c].pair.localPort # conn[d].pair.localPort

ListeningPair(pair) == pair.remoteAddr = Unspecified /\ pair.remotePort = -1

Serves(s, c) ==
    /\ Connected(c) /\ HostOf[s] = ConnectAddress[c]
    /\ conn[s] = [fsm |-> "ESTABLISHED",
                  pair |-> SockPairOf(HostOf[s], HostOf[c], ConnectPort[c],
                                      conn[c].pair.localPort)]

SinkConnection(s) ==
    Connected(s) =>
        \/ conn[s].fsm = "LISTEN" /\ ListeningPair(conn[s].pair)
        \/ \E c \in Clients : Serves(s, c)

ToService(seg, c) ==
    /\ Connected(c)
    /\ seg.srcAddr = HostOf[c] /\ seg.srcPort = conn[c].pair.localPort
    /\ seg.destAddr = ConnectAddress[c] /\ seg.destPort = ConnectPort[c]

FromService(seg, c) ==
    /\ Connected(c)
    /\ seg.destAddr = HostOf[c] /\ seg.destPort = conn[c].pair.localPort
    /\ seg.srcAddr = ConnectAddress[c] /\ seg.srcPort = ConnectPort[c]

SentBySink(seg) ==
    /\ seg.kind # "syn" /\ HostOf[seg.from] = seg.srcAddr
    /\ \E c \in Clients : FromService(seg, c)
    /\ Connected(seg.from) =>
        conn[seg.from] =
            [fsm |-> "ESTABLISHED",
             pair |-> SockPairOf(seg.srcAddr, seg.destAddr, seg.srcPort, seg.destPort)]
    /\ ~Connected(seg.from) =>
        \A t \in Sinks : HostOf[t] = seg.srcAddr => ~Connected(t) /\ t \notin requests

Sent(seg) ==
    IF seg.from \in Clients THEN ToService(seg, seg.from) ELSE SentBySink(seg)

SamePath(seg, other) ==
    /\ seg.srcAddr = other.srcAddr /\ seg.srcPort = other.srcPort
    /\ seg.destAddr = other.destAddr /\ seg.destPort = other.destPort

OneSink ==
    \A seg, other \in network :
        seg.from \in Sinks /\ other.from \in Sinks /\ SamePath(seg, other) =>
            seg.from = other.from

PeersInv ==
    /\ HostsInv /\ DeployedOnly
    /\ \A c \in Clients : ClientConnection(c)
    /\ UniqueClients
    /\ \A s \in Sinks : SinkConnection(s)
    /\ \A seg \in network : Sent(seg)
    /\ OneSink

(* Who sends and who receives, told from the ports.                        *)
LEMMA PeerFacts ==
    ASSUME PeersInv, NEW seg \in network
    PROVE  /\ seg \in Segment /\ seg.from \in Sockets /\ Sent(seg)
           /\ seg.from \in Clients => seg.from \notin Sinks
           /\ seg.from \notin Clients => seg.from \in Sinks
BY SocketsAssumption DEF PeersInv, HostsInv, TypeOK, Segment, Sockets

LEMMA InitPeersInv == Init => PeersInv
<1> SUFFICES ASSUME Init PROVE PeersInv
  OBVIOUS
<1>1. \A s \in Sockets : ~Connected(s)
  BY DEF Init, Connected
<1>2. DeployedOnly
  BY <1>1 DEF Init, DeployedOnly
<1>3. UniqueClients /\ OneSink /\ \A seg \in network : Sent(seg)
  BY <1>1 DEF Init, UniqueClients, OneSink, Sockets
<1>4. \A c \in Clients : ClientConnection(c)
  BY <1>1 DEF ClientConnection, Sockets
<1>5. \A s \in Sinks : SinkConnection(s)
  BY <1>1 DEF SinkConnection, Sockets
<1> QED
  BY <1>2, <1>3, <1>4, <1>5, InitHostsInv DEF PeersInv

(* A step that opens nothing, sends nothing and loses no connection.       *)
LEMMA PeersAlone ==
    ASSUME PeersInv, HostsInv', UNCHANGED <<conn, deployed>>,
           timer' \subseteq deployed, requests' \subseteq deployed,
           requests' \cap Sinks \subseteq requests,
           network' \subseteq network
    PROVE  PeersInv'
<1>1. DeployedOnly'
  BY DEF PeersInv, DeployedOnly, Connected
<1>2. UniqueClients' /\ OneSink'
  BY DEF PeersInv, UniqueClients, OneSink, Connected
<1>3. \A c \in Clients : ClientConnection(c)'
  BY DEF PeersInv, ClientConnection, Connected
<1>4. \A s \in Sinks : SinkConnection(s)'
  BY DEF PeersInv, SinkConnection, Connected, Serves
<1>5. \A seg \in network' : Sent(seg)'
  <2> SUFFICES ASSUME NEW seg \in network' PROVE Sent(seg)'
    OBVIOUS
  <2>1. Sent(seg)
    BY DEF PeersInv
  <2>2. ToService(seg, seg.from) => ToService(seg, seg.from)'
    BY DEF ToService, Connected
  <2>3. SentBySink(seg) => SentBySink(seg)'
    BY DEF SentBySink, FromService, Connected
  <2> QED
    BY <2>1, <2>2, <2>3 DEF Sent
<1> QED
  BY <1>1, <1>2, <1>3, <1>4, <1>5 DEF PeersInv

(* A step that changes the connection of s only, which no client had and   *)
(* no segment came from.                                                   *)
LEMMA OthersSent ==
    ASSUME PeersInv, NEW s \in Sockets, s \in Clients => ~Connected(s),
           s \in Sinks => s \in requests,
           \A t \in Sockets \ {s} : conn'[t] = conn[t],
           requests' \subseteq requests,
           NEW seg \in network, seg.from # s
    PROVE  Sent(seg)'
<1>1. Sent(seg) /\ seg.from \in Sockets
  BY PeerFacts
<1>2. \A c \in Clients : Connected(c) => conn'[c] = conn[c] /\ Connected(c)'
  BY DEF Connected, Sockets
<1>3. ASSUME ToService(seg, seg.from), seg.from \in Clients PROVE ToService(seg, seg.from)'
  BY <1>2, <1>3 DEF ToService
<1>4. ASSUME SentBySink(seg) PROVE SentBySink(seg)'
  <2>1. (\E c \in Clients : FromService(seg, c))'
    BY <1>2, <1>4 DEF SentBySink, FromService
  <2>2. conn'[seg.from] = conn[seg.from] /\ (Connected(seg.from)' <=> Connected(seg.from))
    BY <1>1 DEF Connected
  <2>3. ASSUME ~Connected(seg.from), NEW t \in Sinks, HostOf[t] = seg.srcAddr
        PROVE  ~Connected(t)' /\ t \notin requests'
    <3>1. ~Connected(t) /\ t \notin requests
      BY <1>4, <2>3 DEF SentBySink
    <3> QED
      BY <3>1 DEF Connected, Sockets
  <2> QED
    BY <1>4, <2>1, <2>2, <2>3 DEF SentBySink
<1> QED
  BY <1>1, <1>3, <1>4 DEF Sent

LEMMA OpenActivePeers ==
    ASSUME ClientsApart, PeersInv, NEW c \in Clients, OpenActive(c)
    PROVE  PeersInv'
<1>1. HostsInv'
  BY OpenActiveTables DEF PeersInv
<1>2. PICK port \in {LocalPort[c], GetEphemeralPort(HostOf[c])} :
         /\ AllocatePort(c, port)
         /\ AddSockPair(c, "ESTABLISHED", ActivePair(c, port))
         /\ network' = network \cup {SegmentOf(c, ActivePair(c, port), "syn")}
  BY DEF OpenActive
<1> DEFINE pair == ActivePair(c, port)
           seg == SegmentOf(c, pair, "syn")
<1>3. /\ c \in Sockets /\ c \notin Sinks /\ c \in requests /\ HostOf[c] \in Hosts
      /\ requests' = requests \ {c} /\ UNCHANGED <<deployed, timer>>
      /\ network' = network \cup {seg}
  BY <1>2, SocketsAssumption DEF OpenActive, Sockets
<1>4. ~Connected(c)
  BY <1>3 DEF PeersInv, HostsInv, Unopened, Connected
<1>5. /\ pair \in SockPair /\ pair.localPort = port /\ pair.localAddr = LocalAddress[c]
      /\ pair.remoteAddr = ConnectAddress[c] /\ pair.remotePort = ConnectPort[c]
      /\ LocalPort[c] = -1 => port \notin LocalPortsOf(HostOf[c])
      /\ port \in PortsOf(c)
  BY <1>2, AllocatedPort DEF PeersInv, PortsOf
<1>6. /\ conn'[c] = [fsm |-> "ESTABLISHED", pair |-> pair]
      /\ \A t \in Sockets \ {c} : conn'[t] = conn[t]
      /\ Connected(c)'
  <2>1. AddSockPair(c, "ESTABLISHED", pair)
    BY <1>2
  <2> HIDE DEF pair
  <2> QED
    BY <1>3, <1>4, <1>5, <2>1, AddSockPairTables DEF PeersInv, HostsInv, Connected
<1>7. pair \notin DOMAIN raqsacConnMap[HostOf[c]]
  BY <1>2 DEF AddSockPair
<1>8. /\ seg.from = c /\ seg.srcAddr = HostOf[c] /\ seg.srcPort = port
      /\ seg.destAddr = ConnectAddress[c] /\ seg.destPort = ConnectPort[c]
  BY <1>5 DEF SegmentOf
<1> HIDE DEF pair, seg
<1>9. DeployedOnly'
  BY <1>3, <1>6 DEF PeersInv, DeployedOnly, Connected
<1>10. ASSUME NEW d \in Clients PROVE ClientConnection(d)'
  <2>1. CASE d = c
    BY <1>5, <1>6, <2>1 DEF ClientConnection
  <2>2. CASE d # c
    BY <1>6, <2>2 DEF PeersInv, ClientConnection, Connected, Sockets
  <2> QED
    BY <2>1, <2>2
<1>11. ASSUME NEW d \in Clients, d # c, SameService(c, d) \/ SameService(d, c), Connected(d)
       PROVE  conn[d].pair.localPort # port
  <2>1. /\ HostOf[d] = HostOf[c] /\ ConnectAddress[d] = ConnectAddress[c]
        /\ ConnectPort[d] = ConnectPort[c] /\ SameService(c, d)
    BY <1>11 DEF SameService
  <2>2. /\ conn[d].pair.localAddr \in {LocalAddress[d], HostOf[d]}
        /\ conn[d].pair.localPort \in PortsOf(d)
        /\ conn[d].pair.remoteAddr = ConnectAddress[c]
        /\ conn[d].pair.remotePort = ConnectPort[c]
        /\ d \in Sockets /\ conn[d] \in Connection
    BY <1>11, <2>1 DEF PeersInv, HostsInv, Shape, ClientConnection, Connected, Sockets
  <2>3. CASE LocalAddress[c] = HostOf[c] /\ LocalAddress[d] = HostOf[d]
    <3>1. conn[d].pair \in DOMAIN raqsacConnMap[HostOf[c]]
      BY <1>3, <1>11, <2>1, <2>2 DEF PeersInv, HostsInv, TableConsistent, Connected
    <3>2. conn[d].pair \in SockPair
      BY <2>2 DEF Connection
    <3>3. conn[d].pair.localPort = port => conn[d].pair = pair
      BY <1>5, <2>1, <2>2, <2>3, <3>2 DEF SockPair
    <3> QED
      BY <1>7, <3>1, <3>3
  <2>4. CASE LocalPort[c] = -1 /\ LocalPort[d] = -1
    <3>1. conn[d].pair.localPort \in LocalPortsOf(HostOf[c])
      BY <1>11, <2>1, <2>2 DEF LocalPortsOf, Connected
    <3> QED
      BY <1>5, <2>4, <3>1
  <2>5. CASE PortsOf(c) \cap PortsOf(d) = {}
    BY <1>5, <2>2, <2>5
  <2> QED
    BY <1>11, <2>1, <2>3, <2>4, <2>5 DEF ClientsApart
<1>12. UniqueClients'
  <2> SUFFICES ASSUME NEW d \in Clients, NEW e \in Clients, d # e, SameService(d, e),
                      Connected(d)', Connected(e)'
               PROVE  conn'[d].pair.localPort # conn'[e].pair.localPort
    BY DEF UniqueClients, SameService
  <2>1. CASE d = c
    <3>1. conn'[e] = conn[e] /\ Connected(e)
      BY <1>6, <2>1 DEF Connected, Sockets
    <3> QED
      BY <1>5, <1>6, <1>11, <2>1, <3>1
  <2>2. CASE e = c
    <3>1. conn'[d] = conn[d] /\ Connected(d)
      BY <1>6, <2>2 DEF Connected, Sockets
    <3> QED
      BY <1>5, <1>6, <1>11, <2>2, <3>1
  <2>3. CASE d # c /\ e # c
    <3>1. conn'[d] = conn[d] /\ Connected(d) /\ conn'[e] = conn[e] /\ Connected(e)
      BY <1>6, <2>3 DEF Connected, Sockets
    <3> QED
      BY <3>1 DEF PeersInv, UniqueClients
  <2> QED
    BY <2>1, <2>2, <2>3
<1>13. ASSUME NEW s \in Sinks PROVE SinkConnection(s)'
  <2>1. conn'[s] = conn[s] /\ (Connected(s)' <=> Connected(s))
    BY <1>3, <1>6 DEF Connected, Sockets
  <2>2. ASSUME NEW d \in Clients, Serves(s, d) PROVE Serves(s, d)'
    <3>1. d # c /\ conn'[d] = conn[d] /\ Connected(d)'
      BY <1>4, <1>6, <2>2 DEF Serves, Connected, Sockets
    <3> QED
      BY <2>1, <2>2, <3>1 DEF Serves
  <2> QED
    BY <2>1, <2>2 DEF PeersInv, SinkConnection
<1>14. ASSUME NEW other \in network PROVE Sent(other)'
  <2>1. other.from # c
    BY <1>4, PeerFacts DEF Sent, ToService
  <2> QED
    BY <1>3, <1>4, <1>6, <2>1, OthersSent
<1>15. Sent(seg)'
  BY <1>5, <1>6, <1>8 DEF Sent, ToService
<1>16. OneSink'
  BY <1>3, <1>8 DEF PeersInv, OneSink, SamePath
<1> QED
  BY <1>1, <1>3, <1>9, <1>10, <1>12, <1>13, <1>14, <1>15, <1>16 DEF PeersInv

LEMMA OpenPassivePeers ==
    ASSUME PeersInv, NEW s \in Sinks, OpenPassive(s)
    PROVE  PeersInv'
<1>1. HostsInv'
  BY OpenPassiveTables DEF PeersInv
<1> DEFINE pair == PassivePair(s)
<1>2. /\ s \in Sockets /\ s \notin Clients /\ s \in requests
      /\ AddSockPair(s, "LISTEN", pair)
      /\ requests' = requests \ {s} /\ UNCHANGED <<deployed, timer, network>>
  BY SocketsAssumption DEF OpenPassive, Sockets
<1>3. ~Connected(s)
  BY <1>2 DEF PeersInv, HostsInv, Unopened, Connected
<1>4. pair \in SockPair /\ ListeningPair(pair)
  BY <1>2, SocketsAssumption
     DEF PassivePair, SockPairOf, SockPair, Address, Port, ListeningPair
<1> HIDE DEF pair
<1>5. /\ conn'[s] = [fsm |-> "LISTEN", pair |-> pair]
      /\ \A t \in Sockets \ {s} : conn'[t] = conn[t]
  BY <1>2, <1>3, <1>4, AddSockPairTables DEF PeersInv, HostsInv, Connected
<1>6. DeployedOnly'
  BY <1>2, <1>5 DEF PeersInv, DeployedOnly, Connected
<1>7. \A c \in Clients : conn'[c] = conn[c]
  BY <1>2, <1>5 DEF Sockets
<1>8. UniqueClients' /\ \A c \in Clients : ClientConnection(c)'
  BY <1>7 DEF PeersInv, UniqueClients, ClientConnection, Connected
<1>9. ASSUME NEW t \in Sinks PROVE SinkConnection(t)'
  <2>1. CASE t = s
    BY <1>4, <1>5, <2>1 DEF SinkConnection
  <2>2. CASE t # s
    BY <1>5, <1>7, <2>2 DEF PeersInv, SinkConnection, Serves, Connected, Sockets
  <2> QED
    BY <2>1, <2>2
<1>10. ASSUME NEW seg \in network PROVE Sent(seg)'
  <2>1. seg.from # s
    <3>1. ASSUME seg.from = s PROVE FALSE
      <4>1. SentBySink(seg)
        BY <1>2, <3>1, PeerFacts DEF Sent
      <4> QED
        BY <1>2, <1>3, <3>1, <4>1 DEF SentBySink
    <3> QED
      BY <3>1
  <2> QED
    BY <1>2, <1>3, <1>5, <2>1, OthersSent
<1>11. OneSink'
  BY <1>2 DEF PeersInv, OneSink
<1> QED
  BY <1>1, <1>2, <1>6, <1>8, <1>9, <1>10, <1>11 DEF PeersInv

(* The connection a segment reaches, and where the segment came from.      *)
LEMMA ReachedClient ==
    ASSUME ServicesApart, PeersInv, NEW seg \in network, HasConnForSegment(seg),
           NEW s \in Clients, s = FindConnForSegment(seg)
    PROVE  /\ s \notin Sinks /\ s \in Sockets /\ Connected(s) /\ HostOf[s] = seg.destAddr
           /\ conn[s].pair.localPort = seg.destPort
           /\ conn[s].pair.remoteAddr = seg.srcAddr /\ seg.srcAddr = ConnectAddress[s]
           /\ conn[s].pair.remotePort = seg.srcPort /\ seg.srcPort = ConnectPort[s]
           /\ seg.from \in Sinks /\ SentBySink(seg)
<1>1. seg \in Segment /\ Sent(seg)
  BY PeerFacts
<1>2. /\ HostOf[s] = seg.destAddr /\ Connected(s) /\ Matches(conn[s].pair, seg)
  BY <1>1, FoundConnection DEF PeersInv, HostsInv, Connected
<1>3. conn[s].pair.remoteAddr = ConnectAddress[s]
      /\ conn[s].pair.remotePort = ConnectPort[s]
  BY <1>2 DEF PeersInv, ClientConnection
<1>4. ConnectAddress[s] # Unspecified
  BY SocketsAssumption
<1>5. seg.srcAddr = ConnectAddress[s] /\ seg.srcPort = ConnectPort[s]
      /\ conn[s].pair.localPort = seg.destPort
  BY <1>2, <1>3, <1>4 DEF Matches
<1>6. seg.from \notin Clients
  <2>1. ASSUME seg.from \in Clients PROVE FALSE
    <3>1. seg.srcPort \in PortsOf(seg.from)
      BY <1>1, <2>1 DEF PeersInv, ClientConnection, Sent, ToService
    <3> QED
      BY <1>5, <2>1, <3>1 DEF ServicesApart
  <2> QED
    BY <2>1
<1> QED
  BY <1>1, <1>2, <1>3, <1>5, <1>6, PeerFacts, SocketsAssumption DEF Sent, Sockets

LEMMA ReachedSink ==
    ASSUME ServicesApart, PeersInv, NEW seg \in network, HasConnForSegment(seg),
           NEW s \in Sinks, s = FindConnForSegment(seg), Takes(s, seg)
    PROVE  /\ s \notin Clients /\ s \in Sockets /\ Connected(s) /\ HostOf[s] = seg.destAddr
           /\ seg.from \in Clients /\ ToService(seg, seg.from)
           /\ conn[s].fsm = "ESTABLISHED" =>
                conn[s] = [fsm |-> "ESTABLISHED", pair |-> PairOfSegment(seg)]
<1>1. seg \in Segment /\ Sent(seg)
  BY PeerFacts
<1>2. /\ HostOf[s] = seg.destAddr /\ Connected(s) /\ Matches(conn[s].pair, seg)
  BY <1>1, FoundConnection DEF PeersInv, HostsInv, Connected
<1>3. s \notin Clients /\ s \in Sockets
  BY SocketsAssumption DEF Sockets
<1>4. SinkConnection(s)
  BY DEF PeersInv
<1>5. CASE conn[s].fsm = "LISTEN"
  <2>1. seg.kind = "syn"
    BY <1>5 DEF Takes
  <2>2. seg.from \in Clients
    BY <1>1, <2>1 DEF Sent, SentBySink
  <2> QED
    BY <1>1, <1>2, <1>3, <1>5, <2>2 DEF Sent
<1>6. ASSUME NEW c \in Clients, Serves(s, c)
      PROVE  /\ seg.from \in Clients
             /\ conn[s] = [fsm |-> "ESTABLISHED", pair |-> PairOfSegment(seg)]
  <2> DEFINE port == conn[c].pair.localPort
             pair == SockPairOf(HostOf[s], HostOf[c], ConnectPort[c], port)
  <2>1. conn[s] = [fsm |-> "ESTABLISHED", pair |-> pair] /\ Connected(c)
    BY <1>6 DEF Serves
  <2>2. HostOf[c] # Unspecified
    BY SocketsAssumption DEF Sockets
  <2>3. seg.srcAddr = HostOf[c] /\ seg.srcPort = port /\ seg.destPort = ConnectPort[c]
    BY <1>2, <2>1, <2>2 DEF Matches, SockPairOf
  <2>4. pair = PairOfSegment(seg)
    BY <1>2, <2>3 DEF PairOfSegment
  <2>5. port \in PortsOf(c)
    BY <2>1 DEF PeersInv, ClientConnection
  <2>6. seg.from \in Clients
    <3>1. ASSUME seg.from \notin Clients PROVE FALSE
      <4>1. PICK d \in Clients : FromService(seg, d)
        BY <1>1, <3>1 DEF Sent, SentBySink
      <4>2. seg.srcPort = ConnectPort[d]
        BY <4>1 DEF FromService
      <4> QED
        BY <2>3, <2>5, <4>2 DEF ServicesApart
    <3> QED
      BY <3>1
  <2> QED
    BY <2>1, <2>4, <2>6
<1> QED
  BY <1>1, <1>2, <1>3, <1>4, <1>5, <1>6 DEF SinkConnection, Sent

(* A step after which clients keep their ports and peers, and sinks their  *)
(* connections, but for what s learns.                                     *)
LEMMA LearnedClients ==
    ASSUME PeersInv,
           \A c \in Clients :
               /\ Connected(c)' <=> Connected(c)
               /\ Connected(c) =>
                    /\ conn'[c].fsm = "ESTABLISHED"
                    /\ conn'[c].pair.localAddr \in {LocalAddress[c], HostOf[c]}
                    /\ conn'[c].pair.localPort = conn[c].pair.localPort
                    /\ conn'[c].pair.remoteAddr = ConnectAddress[c]
                    /\ conn'[c].pair.remotePort = ConnectPort[c]
    PROVE  /\ UniqueClients' /\ \A c \in Clients : ClientConnection(c)'
           /\ \A seg, c : c \in Clients =>
                /\ ToService(seg, c) => ToService(seg, c)'
                /\ FromService(seg, c) => FromService(seg, c)'
           /\ \A s \in Sinks, c \in Clients :
                Serves(s, c) /\ conn'[s] = conn[s] => Serves(s, c)'
<1>1. ASSUME NEW c \in Clients PROVE ClientConnection(c)'
  <2>1. ClientConnection(c)
    BY DEF PeersInv
  <2> QED
    BY <2>1 DEF ClientConnection
<1>2. ASSUME NEW c \in Clients, NEW d \in Clients, c # d, SameService(c, d),
             Connected(c)', Connected(d)'
      PROVE  conn'[c].pair.localPort # conn'[d].pair.localPort
  <2>1. Connected(c) /\ Connected(d)
    BY <1>2
  <2>2. conn[c].pair.localPort # conn[d].pair.localPort
    BY <1>2, <2>1 DEF PeersInv, UniqueClients
  <2> QED
    BY <2>1, <2>2
<1>3. UniqueClients'
  BY <1>2 DEF UniqueClients, SameService
<1>4. \A seg, c : c \in Clients =>
         /\ ToService(seg, c) => ToService(seg, c)'
         /\ FromService(seg, c) => FromService(seg, c)'
  BY DEF ToService, FromService
<1>5. ASSUME NEW s \in Sinks, NEW c \in Clients, Serves(s, c), conn'[s] = conn[s]
      PROVE  Serves(s, c)'
  <2>1. Connected(c)
    BY <1>5 DEF Serves
  <2> QED
    BY <1>5, <2>1 DEF Serves
<1> QED
  BY <1>1, <1>3, <1>4, <1>5

(* A client hears from its peer: it learns its own address.                *)
LEMMA ClientLearns ==
    ASSUME ServicesApart, PeersInv, HostsInv', NEW seg \in network, HasConnForSegment(seg),
           NEW s \in Clients, s = FindConnForSegment(seg), Learn(s, seg),
           UNCHANGED <<deployed, timer, requests, usedEphemeralPorts>>,
           network' \subseteq network \cup {Answer(s, seg)}
    PROVE  PeersInv'
<1>1. /\ s \notin Sinks /\ s \in Sockets /\ Connected(s) /\ HostOf[s] = seg.destAddr
      /\ conn[s].pair.localPort = seg.destPort
      /\ seg.srcAddr = ConnectAddress[s] /\ seg.srcPort = ConnectPort[s]
  BY ReachedClient
<1>2. seg \in Segment
  BY PeerFacts
<1>3. /\ conn'[s] = [fsm |-> "ESTABLISHED", pair |-> PairOfSegment(seg)]
      /\ \A t \in Sockets \ {s} : conn'[t] = conn[t]
  BY <1>2, LearnTables DEF PeersInv, HostsInv
<1>4. Connected(s)'
  BY <1>3 DEF Connected, NoConn
<1>5. \A t \in Sockets : Connected(t)' <=> Connected(t)
  BY <1>1, <1>3, <1>4 DEF Connected
<1>6. ASSUME NEW c \in Clients
      PROVE  /\ Connected(c)' <=> Connected(c)
             /\ Connected(c) =>
                  /\ conn'[c].fsm = "ESTABLISHED"
                  /\ conn'[c].pair.localAddr \in {LocalAddress[c], HostOf[c]}
                  /\ conn'[c].pair.localPort = conn[c].pair.localPort
                  /\ conn'[c].pair.remoteAddr = ConnectAddress[c]
                  /\ conn'[c].pair.remotePort = ConnectPort[c]
  <2>1. CASE c = s
    BY <1>1, <1>2, <1>3, <1>4, <2>1, PairOfSegmentType
  <2>2. CASE c # s
    <3>1. conn'[c] = conn[c]
      BY <1>3, <2>2 DEF Sockets
    <3> QED
      BY <3>1 DEF PeersInv, ClientConnection, Connected
  <2> QED
    BY <2>1, <2>2
<1>7. /\ UniqueClients' /\ \A c \in Clients : ClientConnection(c)'
      /\ \A other, c : c \in Clients =>
           /\ ToService(other, c) => ToService(other, c)'
           /\ FromService(other, c) => FromService(other, c)'
      /\ \A t \in Sinks, c \in Clients :
           Serves(t, c) /\ conn'[t] = conn[t] => Serves(t, c)'
  BY <1>6, LearnedClients
<1>8. \A t \in Sinks : conn'[t] = conn[t]
  BY <1>1, <1>3 DEF Sockets
<1>9. \A t \in Sinks : SinkConnection(t)'
  BY <1>7, <1>8 DEF PeersInv, SinkConnection, Connected
<1>10. ASSUME NEW other \in network PROVE Sent(other)'
  <2>1. other.from \in Sockets /\ Sent(other)
    BY PeerFacts
  <2>2. CASE other.from \in Clients
    BY <1>7, <2>1, <2>2 DEF Sent
  <2>3. CASE other.from \notin Clients
    <3>1. other.from \in Sinks /\ SentBySink(other)
      BY <2>1, <2>3, PeerFacts DEF Sent
    <3>2. (\E c \in Clients : FromService(other, c))'
      BY <1>7, <3>1 DEF SentBySink
    <3> QED
      BY <1>8, <2>3, <3>1, <3>2 DEF Sent, SentBySink, Connected
  <2> QED
    BY <2>2, <2>3
<1>11. /\ Answer(s, seg).from = s /\ Answer(s, seg).srcAddr = HostOf[s]
       /\ Answer(s, seg).srcPort = seg.destPort /\ Answer(s, seg).destAddr = seg.srcAddr
       /\ Answer(s, seg).destPort = seg.srcPort
  BY <1>1, <1>2, AnswerType
<1>12. Sent(Answer(s, seg))'
  BY <1>1, <1>4, <1>6, <1>11 DEF Sent, ToService
<1>13. OneSink'
  BY <1>1, <1>11 DEF PeersInv, OneSink, SamePath
<1>14. DeployedOnly'
  BY <1>5 DEF PeersInv, DeployedOnly
<1> QED
  BY <1>7, <1>9, <1>10, <1>12, <1>13, <1>14 DEF PeersInv

(* A sink takes on its client, or hears from it again.                     *)
LEMMA SinkLearns ==
    ASSUME ServicesApart, PeersInv, HostsInv', NEW seg \in network, HasConnForSegment(seg),
           NEW s \in Sinks, s = FindConnForSegment(seg), Takes(s, seg), Learn(s, seg),
           UNCHANGED <<deployed, timer, requests, usedEphemeralPorts>>,
           network' \subseteq network \cup {Answer(s, seg)}
    PROVE  PeersInv'
<1> DEFINE c == seg.from
           pair == SockPairOf(HostOf[s], HostOf[c], ConnectPort[c], conn[c].pair.localPort)
           answer == Answer(s, seg)
<1>1. /\ s \notin Clients /\ s \in Sockets /\ Connected(s) /\ HostOf[s] = seg.destAddr
      /\ c \in Clients /\ ToService(seg, c)
      /\ conn[s].fsm = "ESTABLISHED" =>
            conn[s] = [fsm |-> "ESTABLISHED", pair |-> PairOfSegment(seg)]
  BY ReachedSink
<1>2. seg \in Segment
  BY PeerFacts
<1>3. /\ conn'[s] = [fsm |-> "ESTABLISHED", pair |-> PairOfSegment(seg)]
      /\ \A t \in Sockets \ {s} : conn'[t] = conn[t]
  BY <1>2, LearnTables DEF PeersInv, HostsInv
<1>4. PairOfSegment(seg) = pair
  BY <1>1 DEF PairOfSegment, ToService
<1>5. /\ answer.from = s /\ answer.kind # "syn" /\ answer.srcAddr = HostOf[s]
      /\ answer.srcPort = ConnectPort[c] /\ answer.destAddr = HostOf[c]
      /\ answer.destPort = conn[c].pair.localPort
  BY <1>1, <1>2, AnswerType DEF ToService
<1>6. /\ Connected(c) /\ HostOf[s] = ConnectAddress[c]
      /\ conn'[s] = [fsm |-> "ESTABLISHED", pair |-> pair]
      /\ conn[s].fsm = "ESTABLISHED" => conn'[s] = conn[s]
  BY <1>1, <1>3, <1>4 DEF ToService
<1>7. pair = SockPairOf(answer.srcAddr, answer.destAddr, answer.srcPort, answer.destPort)
  BY <1>5
<1> HIDE DEF c, answer, pair
<1>8. \A t \in Sockets : Connected(t)' <=> Connected(t)
  BY <1>1, <1>3 DEF Connected, NoConn
<1>9. \A d \in Clients : conn'[d] = conn[d]
  BY <1>1, <1>3 DEF Sockets
<1>10. \A d \in Clients :
         /\ Connected(d)' <=> Connected(d)
         /\ Connected(d) =>
              /\ conn'[d].fsm = "ESTABLISHED"
              /\ conn'[d].pair.localAddr \in {LocalAddress[d], HostOf[d]}
              /\ conn'[d].pair.localPort = conn[d].pair.localPort
              /\ conn'[d].pair.remoteAddr = ConnectAddress[d]
              /\ conn'[d].pair.remotePort = ConnectPort[d]
  BY <1>9 DEF PeersInv, ClientConnection, Connected
<1>11. /\ UniqueClients' /\ \A d \in Clients : ClientConnection(d)'
       /\ \A other, d : d \in Clients =>
            /\ ToService(other, d) => ToService(other, d)'
            /\ FromService(other, d) => FromService(other, d)'
       /\ \A t \in Sinks, d \in Clients :
            Serves(t, d) /\ conn'[t] = conn[t] => Serves(t, d)'
  BY <1>10, LearnedClients
<1>12. c \in Clients
  BY <1>1
<1>13. Serves(s, c)'
  BY <1>6, <1>8, <1>9, <1>12 DEF Serves, pair, Sockets
<1>14. ASSUME NEW t \in Sinks PROVE SinkConnection(t)'
  <2>1. CASE t = s
    BY <1>12, <1>13, <2>1 DEF SinkConnection
  <2>2. CASE t # s
    <3>1. conn'[t] = conn[t]
      BY <1>3, <2>2 DEF Sockets
    <3> QED
      BY <1>11, <3>1 DEF PeersInv, SinkConnection, Connected
  <2> QED
    BY <2>1, <2>2
<1>15. ASSUME NEW other \in network, other.from \in Sinks, Connected(other.from)
       PROVE  conn'[other.from] = conn[other.from]
  <2>1. SentBySink(other)
    BY <1>15, PeerFacts DEF Sent
  <2>2. conn[other.from].fsm = "ESTABLISHED"
    BY <1>15, <2>1 DEF SentBySink
  <2> QED
    BY <1>3, <1>6, <1>15, <2>2 DEF Sockets
<1>16. ASSUME NEW other \in network PROVE Sent(other)'
  <2>1. other.from \in Sockets /\ Sent(other)
    BY PeerFacts
  <2>2. CASE other.from \in Clients
    BY <1>11, <2>1, <2>2 DEF Sent
  <2>3. CASE other.from \notin Clients
    <3>1. other.from \in Sinks /\ SentBySink(other)
      BY <2>1, <2>3, PeerFacts DEF Sent
    <3>2. (\E d \in Clients : FromService(other, d))'
      BY <1>11, <3>1 DEF SentBySink
    <3>3. Connected(other.from)' =>
            conn'[other.from] =
              [fsm |-> "ESTABLISHED",
               pair |-> SockPairOf(other.srcAddr, other.destAddr,
                                   other.srcPort, other.destPort)]
      BY <1>8, <1>15, <2>1, <3>1 DEF SentBySink
    <3>4. ~Connected(other.from)' =>
            \A t \in Sinks :
                HostOf[t] = other.srcAddr => ~Connected(t)' /\ t \notin requests'
      BY <1>8, <2>1, <3>1 DEF SentBySink, Sockets
    <3> QED
      BY <2>3, <3>1, <3>2, <3>3, <3>4 DEF Sent, SentBySink
  <2> QED
    BY <2>2, <2>3
<1>17. Sent(answer)'
  <2>1. FromService(answer, c)'
    BY <1>5, <1>6, <1>8, <1>9, <1>12 DEF FromService, Sockets
  <2>2. Connected(s)'
    BY <1>1, <1>8
  <2> QED
    BY <1>1, <1>5, <1>6, <1>7, <1>12, <2>1, <2>2 DEF Sent, SentBySink
<1>18. ASSUME NEW other \in network, other.from \in Sinks, SamePath(answer, other)
       PROVE  other.from = s
  <2>1. SentBySink(other) /\ other.from \in Sockets /\ HostOf[other.from] = HostOf[s]
    BY <1>5, <1>18, PeerFacts DEF Sent, SentBySink, SamePath
  <2>2. Connected(other.from)
    BY <1>1, <1>5, <1>18, <2>1 DEF SentBySink, SamePath
  <2>3. conn[other.from].pair = pair
    BY <1>7, <1>18, <2>1, <2>2 DEF SentBySink, SamePath
  <2>4. /\ conn'[other.from] # NoConn /\ conn'[other.from].pair = pair
        /\ conn'[s] # NoConn /\ conn'[s].pair = pair
    BY <1>1, <1>6, <1>8, <1>15, <1>18, <2>1, <2>2, <2>3 DEF Connected
  <2>5. HostOf[s] \in Hosts
    BY <1>1, SocketsAssumption
  <2> QED
    BY <1>1, <2>1, <2>4, <2>5 DEF HostsInv, TableConsistent
<1>19. OneSink'
  <2> SUFFICES ASSUME NEW a \in network', NEW b \in network',
                      a.from \in Sinks, b.from \in Sinks, SamePath(a, b)
               PROVE  a.from = b.from
    BY DEF OneSink
  <2>1. (a \in network \/ a = answer) /\ (b \in network \/ b = answer)
    BY DEF answer
  <2>2. SamePath(b, a)
    BY DEF SamePath
  <2> QED
    BY <1>5, <1>18, <2>1, <2>2 DEF PeersInv, OneSink
<1>20. DeployedOnly'
  BY <1>8 DEF PeersInv, DeployedOnly
<1>21. network' \subseteq network \cup {answer}
  BY DEF answer
<1> QED
  BY <1>11, <1>14, <1>16, <1>17, <1>19, <1>20, <1>21 DEF PeersInv

LEMMA RcvSegmentPeers ==
    ASSUME ServicesApart, PeersInv, NEW seg \in network, RcvSegment(seg)
    PROVE  PeersInv'
<1> DEFINE s == FindConnForSegment(seg)
<1>1. HostsInv'
  BY RcvSegmentTables DEF PeersInv
<1>2. /\ HasConnForSegment(seg)
      /\ UNCHANGED <<deployed, timer, requests, usedEphemeralPorts>>
  BY DEF RcvSegment
<1>3. s \in Sockets
  BY <1>2, FoundConnection, PeerFacts DEF PeersInv, HostsInv
<1>4. \/ /\ Takes(s, seg) /\ Learn(s, seg)
         /\ network' \subseteq network \cup {Answer(s, seg)}
      \/ network' \subseteq network /\ UNCHANGED <<conn, raqsacConnMap>>
  BY DEF RcvSegment
<1>5. s = FindConnForSegment(seg)
  OBVIOUS
<1> HIDE DEF s
<1>6. CASE network' \subseteq network /\ UNCHANGED <<conn, raqsacConnMap>>
  BY <1>1, <1>2, <1>6, PeersAlone DEF PeersInv, DeployedOnly
<1>7. CASE /\ Takes(s, seg) /\ Learn(s, seg)
           /\ network' \subseteq network \cup {Answer(s, seg)}
  <2>1. CASE s \in Clients
    BY <1>1, <1>2, <1>5, <1>7, <2>1, ClientLearns
  <2>2. CASE s \in Sinks
    BY <1>1, <1>2, <1>5, <1>7, <2>2, SinkLearns
  <2> QED
    BY <1>3, <2>1, <2>2 DEF Sockets
<1> QED
  BY <1>4, <1>6, <1>7

(* A host that goes down has no connected client, and loses all its sinks. *)
LEMMA GoDownPeers ==
    ASSUME PeersInv, NEW h \in Hosts, MayGoDown(h), GoDown(h),
           \A c \in ClientsOf(h) : sockstate[c] = "BOUND"
    PROVE  PeersInv'
<1>1. HostsInv'
  BY GoDownTables DEF PeersInv
<1>2. /\ conn' = [s \in Sockets |-> IF HostOf[s] = h THEN NoConn ELSE conn[s]]
      /\ timer' \subseteq timer /\ requests = {}
      /\ UNCHANGED <<deployed, requests, network>>
  BY DEF GoDown, Reset, MayGoDown
<1>3. ASSUME NEW c \in Clients PROVE conn'[c] = conn[c]
  <2>1. CASE HostOf[c] = h /\ Connected(c)
    <3>1. c \in ClientsOf(h)
      BY <2>1 DEF PeersInv, DeployedOnly, ClientsOf, Sockets
    <3> QED
      BY <2>1, <3>1 DEF PeersInv, HostsInv, Unopened, Connected, Sockets
  <2>2. CASE ~(HostOf[c] = h /\ Connected(c))
    BY <1>2, <2>2 DEF Connected, Sockets
  <2> QED
    BY <2>1, <2>2
<1>4. \A c \in Clients :
         /\ Connected(c)' <=> Connected(c)
         /\ Connected(c) =>
              /\ conn'[c].fsm = "ESTABLISHED"
              /\ conn'[c].pair.localAddr \in {LocalAddress[c], HostOf[c]}
              /\ conn'[c].pair.localPort = conn[c].pair.localPort
              /\ conn'[c].pair.remoteAddr = ConnectAddress[c]
              /\ conn'[c].pair.remotePort = ConnectPort[c]
  BY <1>3 DEF PeersInv, ClientConnection, Connected
<1>5. /\ UniqueClients' /\ \A c \in Clients : ClientConnection(c)'
      /\ \A seg, c : c \in Clients =>
           /\ ToService(seg, c) => ToService(seg, c)'
           /\ FromService(seg, c) => FromService(seg, c)'
      /\ \A s \in Sinks, c \in Clients :
           Serves(s, c) /\ conn'[s] = conn[s] => Serves(s, c)'
  BY <1>4, LearnedClients
<1>6. \A s \in Sinks :
         /\ HostOf[s] = h => ~Connected(s)'
         /\ HostOf[s] # h => conn'[s] = conn[s] /\ (Connected(s)' <=> Connected(s))
  BY <1>2 DEF Connected, Sockets
<1>7. \A s \in Sinks : SinkConnection(s)'
  BY <1>5, <1>6 DEF PeersInv, SinkConnection
<1>8. ASSUME NEW seg \in network PROVE Sent(seg)'
  <2>1. Sent(seg)
    BY PeerFacts
  <2>2. CASE seg.from \in Clients
    BY <1>5, <2>1, <2>2 DEF Sent
  <2>3. CASE seg.from \notin Clients
    <3>1. seg.from \in Sinks /\ SentBySink(seg)
      BY <2>1, <2>3, PeerFacts DEF Sent
    <3>2. (\E c \in Clients : FromService(seg, c))'
      BY <1>5, <3>1 DEF SentBySink
    <3>3. CASE HostOf[seg.from] = h
      <4>1. ~Connected(seg.from)' /\ HostOf[seg.from] = seg.srcAddr
        BY <1>6, <3>1, <3>3 DEF SentBySink
      <4>2. \A t \in Sinks : HostOf[t] = seg.srcAddr => ~Connected(t)' /\ t \notin requests'
        BY <1>2, <1>6, <3>3, <4>1
      <4> QED
        BY <2>3, <3>1, <3>2, <4>1, <4>2 DEF Sent, SentBySink
    <3>4. CASE HostOf[seg.from] # h
      BY <1>2, <1>6, <2>3, <3>1, <3>2, <3>4 DEF Sent, SentBySink
    <3> QED
      BY <3>3, <3>4
  <2> QED
    BY <2>2, <2>3
<1>9. OneSink'
  BY <1>2 DEF PeersInv, OneSink
<1>10. DeployedOnly'
  BY <1>2 DEF PeersInv, DeployedOnly, Connected
<1> QED
  BY <1>1, <1>2, <1>5, <1>7, <1>8, <1>9, <1>10 DEF PeersInv

LEMMA LifecyclePeers ==
    ASSUME PeersInv, NEW h \in Hosts, Stop(h) \/ Crash(h) \/ Start(h)
    PROVE  PeersInv'
<1>1. HostsInv'
  BY HostsInvInductive DEF PeersInv, Next
<1>2. CASE UNCHANGED <<deployed, timer, requests, conn, network>>
  BY <1>1, <1>2, PeersAlone DEF PeersInv, DeployedOnly
<1>3. CASE Start(h)
  BY <1>1, <1>3, PeersAlone DEF Start, PeersInv, DeployedOnly, ClientsOf
<1>4. CASE MayGoDown(h) /\ GoDown(h) /\ \A c \in ClientsOf(h) : sockstate[c] = "BOUND"
  BY <1>4, GoDownPeers
<1> QED
  BY <1>2, <1>3, <1>4 DEF Stop, Crash, Throw

LEMMA PeersInvInductive ==
    ASSUME ClientsApart, ServicesApart
    PROVE  PeersInv /\ [Next]_vars => PeersInv'
<1> SUFFICES ASSUME PeersInv, [Next]_vars PROVE PeersInv'
  OBVIOUS
<1>1. HostsInv'
  BY HostsInvInductive DEF PeersInv
<1>2. CASE UNCHANGED <<deployed, timer, requests, conn, network>>
  BY <1>1, <1>2, PeersAlone DEF PeersInv, DeployedOnly
<1>3. ASSUME NEW c \in Clients,
             Connect(c) \/ OpenActive(c) \/ OpenActiveFails(c) \/ SocketEstablished(c)
      PROVE  PeersInv'
  <2>1. CASE Connect(c)
    <3>1. c \notin Sinks
      BY SocketsAssumption
    <3>2. /\ c \in timer /\ timer' = timer \ {c} /\ requests' = requests \cup {c}
          /\ UNCHANGED <<deployed, conn, network>>
      BY <2>1 DEF Connect
    <3> QED
      BY <1>1, <3>1, <3>2, PeersAlone DEF PeersInv, DeployedOnly
  <2>2. CASE OpenActive(c)
    BY <2>2, OpenActivePeers
  <2>3. CASE OpenActiveFails(c)
    BY <1>2, <2>3 DEF OpenActiveFails, Throw
  <2>4. CASE SocketEstablished(c)
    BY <1>2, <2>4 DEF SocketEstablished
  <2> QED
    BY <1>3, <2>1, <2>2, <2>3, <2>4
<1>4. ASSUME NEW s \in Sinks, OpenPassive(s) \/ OpenPassiveFails(s)
      PROVE  PeersInv'
  BY <1>2, <1>4, OpenPassivePeers DEF OpenPassiveFails, Throw
<1>5. ASSUME NEW seg \in network, RcvSegment(seg) \/ DropSegment(seg)
      PROVE  PeersInv'
  <2>1. CASE DropSegment(seg)
    <3>1. network' \subseteq network /\ UNCHANGED <<deployed, timer, requests, conn>>
      BY <2>1 DEF DropSegment
    <3> QED
      BY <1>1, <3>1, PeersAlone DEF PeersInv, DeployedOnly
  <2> QED
    BY <1>5, <2>1, RcvSegmentPeers
<1> QED
  BY <1>2, <1>3, <1>4, <1>5, LifecyclePeers DEF Next, vars

LEMMA PeersInvSeparates ==
    ASSUME ServicesApart, PeersInv
    PROVE  NoCrossTalk
<1> SUFFICES ASSUME NEW seg \in network, HasConnForSegment(seg),
                    NEW s, s = FindConnForSegment(seg),
                    conn[s].fsm = "ESTABLISHED"
             PROVE  /\ conn[seg.from] # NoConn => Mirrors(conn[s].pair, conn[seg.from].pair)
                    /\ conn[s].pair.remoteAddr = HostOf[seg.from]
                    /\ \A other \in network :
                        HasConnForSegment(other) /\ FindConnForSegment(other) = s =>
                            other.from = seg.from
  BY DEF NoCrossTalk
<1>1. s \in Sockets
  BY FoundConnection, PeerFacts DEF PeersInv, HostsInv
<1>2. ASSUME NEW other \in network, HasConnForSegment(other), FindConnForSegment(other) = s
      PROVE  Takes(s, other)
  BY DEF Takes
<1>3. CASE s \in Clients
  <2>1. ASSUME NEW other \in network, HasConnForSegment(other),
               FindConnForSegment(other) = s
        PROVE  /\ HostOf[s] = other.destAddr /\ conn[s].pair.localPort = other.destPort
               /\ conn[s].pair.remoteAddr = other.srcAddr
               /\ conn[s].pair.remotePort = other.srcPort
               /\ other.from \in Sinks /\ SentBySink(other)
    BY <1>3, <2>1, ReachedClient
  <2>2. /\ HostOf[s] = seg.destAddr /\ conn[s].pair.localPort = seg.destPort
        /\ conn[s].pair.remoteAddr = seg.srcAddr /\ conn[s].pair.remotePort = seg.srcPort
        /\ seg.from \in Sinks /\ SentBySink(seg)
    BY <2>1
  <2>3. /\ HostOf[seg.from] = seg.srcAddr
        /\ conn[seg.from] # NoConn => conn[seg.from].pair =
             SockPairOf(seg.srcAddr, seg.destAddr, seg.srcPort, seg.destPort)
    BY <2>2 DEF SentBySink, Connected
  <2>4. conn[seg.from] # NoConn => Mirrors(conn[s].pair, conn[seg.from].pair)
    BY <2>2, <2>3 DEF Mirrors, SockPairOf
  <2>5. ASSUME NEW other \in network, HasConnForSegment(other),
               FindConnForSegment(other) = s
        PROVE  other.from = seg.from
    BY <2>1, <2>2, <2>5 DEF PeersInv, OneSink, SamePath
  <2> QED
    BY <2>2, <2>3, <2>4, <2>5
<1>4. CASE s \in Sinks
  <2>1. ASSUME NEW other \in network, HasConnForSegment(other),
               FindConnForSegment(other) = s
        PROVE  /\ HostOf[s] = other.destAddr
               /\ other.from \in Clients /\ ToService(other, other.from)
               /\ conn[s].pair = PairOfSegment(other)
               /\ conn[s].pair.localPort = other.destPort
               /\ conn[s].pair.remoteAddr = other.srcAddr
               /\ conn[s].pair.remotePort = other.srcPort
    <3>1. /\ HostOf[s] = other.destAddr
          /\ other.from \in Clients /\ ToService(other, other.from)
          /\ conn[s] = [fsm |-> "ESTABLISHED", pair |-> PairOfSegment(other)]
      <4>1. Takes(s, other) /\ s = FindConnForSegment(other)
        BY <1>2, <2>1
      <4> QED
        BY <1>4, <2>1, <4>1, ReachedSink
    <3> QED
      BY <3>1, PairOfSegmentType, PeerFacts
  <2>2. /\ HostOf[s] = seg.destAddr
        /\ seg.from \in Clients /\ ToService(seg, seg.from)
        /\ conn[s].pair.localPort = seg.destPort
        /\ conn[s].pair.remoteAddr = seg.srcAddr
        /\ conn[s].pair.remotePort = seg.srcPort
    BY <2>1
  <2>3. /\ Mirrors(conn[s].pair, conn[seg.from].pair)
        /\ conn[s].pair.remoteAddr = HostOf[seg.from]
    BY <2>2 DEF Mirrors, ToService, PeersInv, ClientConnection
  <2>4. ASSUME NEW other \in network, HasConnForSegment(other),
               FindConnForSegment(other) = s
        PROVE  other.from = seg.from
    <3>1. /\ other.from \in Clients /\ ToService(other, other.from)
          /\ other.destAddr = seg.destAddr /\ other.destPort = seg.destPort
          /\ other.srcAddr = seg.srcAddr /\ other.srcPort = seg.srcPort
      BY <2>1, <2>2, <2>4
    <3>2. SameService(other.from, seg.from)
      BY <2>2, <3>1 DEF SameService, ToService
    <3> QED
      BY <2>2, <3>1, <3>2 DEF PeersInv, UniqueClients, ToService
  <2> QED
    BY <2>3, <2>4
<1> QED
  BY <1>1, <1>3, <1>4 DEF Sockets

(* Connections never mix up their transfers: findConnForSegment finds the  *)
(* connection whose peer sent the segment, and no connection hears from    *)
(* two, whatever hosts stop, crash and start again meanwhile, where clients*)
(* of one host and service are told apart by their ports and none of them  *)
(* may have the port of a service.                                         *)
THEOREM TransfersKeptApart ==
    ASSUME ClientsApart, ServicesApart
    PROVE  Spec => []NoCrossTalk
<1>1. PeersInv /\ [Next]_vars => PeersInv'
  BY PeersInvInductive
<1>2. PeersInv => NoCrossTalk
  BY PeersInvSeparates
<1> QED
  BY <1>1, <1>2, InitPeersInv, PTL DEF Spec

=============================================================================
