----------------------- MODULE RaqsacSwitchQueueProofs -----------------------
(* Theorems about RaqsacSwitchQueue for every value of its constants.      *)
EXTENDS RaqsacSwitchQueue, FiniteSetTheorems, FunctionTheorems, TLAPS

(* The counter weight steps by one, and from its last value to zero.       *)
LEMMA NextWeightIs ==
    ASSUME weight \in 0 .. WeightModulus - 1
    PROVE  NextWeight = IF weight + 1 = WeightModulus THEN 0 ELSE weight + 1
BY WeightAssumption DEF NextWeight

LEMMA NextWeightType ==
    ASSUME weight \in 0 .. WeightModulus - 1
    PROVE  NextWeight \in 0 .. WeightModulus - 1
BY NextWeightIs, WeightAssumption

(* The control packets that passed waiting data since the data's last turn *)
(* are no more than the turns taken since.  After the wrap of weight there *)
(* are more turns than that, never fewer.                                  *)
TurnsTaken == (weight + 9) % 10

BypassInv == TypeOK /\ bypassed <= TurnsTaken

LEMMA TurnsAfterControl ==
    ASSUME weight \in 0 .. WeightModulus - 1, ~DataTurn,
           weight' = NextWeight, NEW b \in Nat, b <= TurnsTaken
    PROVE  b + 1 <= TurnsTaken'
<1>1. weight' = 0 \/ weight' = weight + 1
  BY NextWeightIs
<1>2. weight \in Nat
  OBVIOUS
<1>3. b + 1 <= weight % 10
  BY <1>2 DEF TurnsTaken, DataTurn
<1>4. CASE weight' = 0
  BY <1>2, <1>3, <1>4 DEF TurnsTaken
<1>5. CASE weight' = weight + 1
  <2>1. TurnsTaken' = weight % 10
    BY <1>2, <1>5 DEF TurnsTaken
  <2> QED
    BY <1>3, <2>1
<1> QED
  BY <1>1, <1>4, <1>5

LEMMA LastDigit ==
    ASSUME NEW n \in 0 .. WeightModulus - 1
    PROVE  (n + 9) % 10 \in 0 .. 9
OBVIOUS

LEMMA TurnsNonNegative ==
    ASSUME weight \in 0 .. WeightModulus - 1
    PROVE  TurnsTaken \in 0 .. 9
BY DEF TurnsTaken

(* The length of the shared memory as a function of the data queues.       *)
TotalLength(q) == Len(q[0]) + Len(q[1]) + Len(q[2]) + Len(q[3]) + Len(q[4])

LEMMA SumOfFive ==
    ASSUME NEW a \in Nat, NEW b \in Nat, NEW c \in Nat, NEW d \in Nat, NEW e \in Nat
    PROVE  a + b + c + d + e \in Nat
OBVIOUS

LEMMA TotalLengthType ==
    ASSUME NEW q \in [Levels -> Seq(Packet)]
    PROVE  /\ Len(q[0]) \in Nat /\ Len(q[1]) \in Nat /\ Len(q[2]) \in Nat
           /\ Len(q[3]) \in Nat /\ Len(q[4]) \in Nat
           /\ TotalLength(q) \in Nat
<1>1. /\ q[0] \in Seq(Packet) /\ q[1] \in Seq(Packet) /\ q[2] \in Seq(Packet)
      /\ q[3] \in Seq(Packet) /\ q[4] \in Seq(Packet)
  BY DEF Levels
<1>2. /\ Len(q[0]) \in Nat /\ Len(q[1]) \in Nat /\ Len(q[2]) \in Nat
      /\ Len(q[3]) \in Nat /\ Len(q[4]) \in Nat
  BY <1>1
<1>3. TotalLength(q) \in Nat
  BY <1>2, SumOfFive, Zenon DEF TotalLength
<1> QED
  BY <1>2, <1>3

(* Replacing the queue of one level changes the sum by that queue's change.*)
LEMMA TotalLengthOfUpdate ==
    ASSUME NEW q \in [Levels -> Seq(Packet)], NEW level \in Levels,
           NEW queue \in Seq(Packet)
    PROVE  TotalLength([q EXCEPT ![level] = queue])
             = TotalLength(q) - Len(q[level]) + Len(queue)
<1> DEFINE r == [q EXCEPT ![level] = queue]
<1>1. level \in {0, 1, 2, 3, 4} /\ Levels = {0, 1, 2, 3, 4}
  BY DEF Levels
<1>2. r \in [Levels -> Seq(Packet)] /\ Len(queue) \in Nat
  OBVIOUS
<1>3. r[level] = queue /\ \A l \in Levels : l # level => r[l] = q[l]
  OBVIOUS
<1> HIDE DEF r
<1>4. /\ Len(q[0]) \in Nat /\ Len(q[1]) \in Nat /\ Len(q[2]) \in Nat
      /\ Len(q[3]) \in Nat /\ Len(q[4]) \in Nat
  BY TotalLengthType
<1>5. CASE level = 0
  BY <1>1, <1>2, <1>3, <1>4, <1>5 DEF TotalLength
<1>6. CASE level = 1
  BY <1>1, <1>2, <1>3, <1>4, <1>6 DEF TotalLength
<1>7. CASE level = 2
  BY <1>1, <1>2, <1>3, <1>4, <1>7 DEF TotalLength
<1>8. CASE level = 3
  BY <1>1, <1>2, <1>3, <1>4, <1>8 DEF TotalLength
<1>9. CASE level = 4
  BY <1>1, <1>2, <1>3, <1>4, <1>9 DEF TotalLength
<1> QED
  <2>1. level = 0 \/ level = 1 \/ level = 2 \/ level = 3 \/ level = 4
    BY <1>1
  <2> QED
    BY <2>1, <1>5, <1>6, <1>7, <1>8, <1>9, Zenon

LEMMA MemoryIsTotal ==
    /\ SharedMemoryLength = TotalLength(dataQueue)
    /\ SharedMemoryLength' = TotalLength(dataQueue')
BY DEF SharedMemoryLength, TotalLength

LEMMA InsertDataFits ==
    ASSUME TypeOK, NEW p \in Packet, Priority[p] \in Levels, ~IsFull, InsertData(p)
    PROVE  /\ dataQueue' \in [Levels -> Seq(Packet)]
           /\ SharedMemoryLength' <= packetCapacity
<1> DEFINE level == Priority[p]
           queue == Append(dataQueue[level], p)
<1>1. queue \in Seq(Packet) /\ Len(queue) = Len(dataQueue[level]) + 1
      /\ Len(dataQueue[level]) \in Nat
  BY DEF TypeOK
<1>2. dataQueue' = [dataQueue EXCEPT ![level] = queue]
  BY DEF InsertData
<1> HIDE DEF queue
<1>3. dataQueue' \in [Levels -> Seq(Packet)]
  BY <1>1, <1>2 DEF TypeOK
<1> HIDE DEF level
<1>4. level \in Levels /\ dataQueue \in [Levels -> Seq(Packet)]
  BY DEF level, TypeOK
<1>5. TotalLength(dataQueue') = TotalLength(dataQueue) + 1
  <2>1. TotalLength(dataQueue')
          = TotalLength(dataQueue) - Len(dataQueue[level]) + Len(queue)
    BY <1>1, <1>2, <1>4, TotalLengthOfUpdate
  <2>2. TotalLength(dataQueue) \in Nat
    BY <1>4, TotalLengthType
  <2> QED
    BY <1>1, <2>1, <2>2
<1>6. SharedMemoryLength \in Nat /\ SharedMemoryLength' = SharedMemoryLength + 1
  BY <1>4, <1>5, MemoryIsTotal, TotalLengthType
<1>7. SharedMemoryLength + 1 <= packetCapacity
  BY <1>6, CapacityAssumption DEF IsFull
<1> QED
  BY <1>3, <1>6, <1>7

LEMMA PopNextPacketFits ==
    ASSUME TypeOK, PopNextPacket
    PROVE  /\ dataQueue' \in [Levels -> Seq(Packet)]
           /\ SharedMemoryLength' <= packetCapacity
           /\ pending' \subseteq Packet
<1>1. PICK i \in DOMAIN Order :
         /\ dataQueue[Order[i]] # <<>>
         /\ dataQueue' = [dataQueue EXCEPT ![Order[i]] = Tail(@)]
         /\ pending' = pending \ {Head(dataQueue[Order[i]])}
  BY DEF PopNextPacket
<1> DEFINE level == Order[i]
           queue == Tail(dataQueue[level])
<1>2. level \in Levels
  BY DEF Order, Levels
<1> HIDE DEF level
<1>3. queue \in Seq(Packet) /\ Len(queue) = Len(dataQueue[level]) - 1
      /\ Len(dataQueue[level]) \in Nat
  BY <1>1, <1>2 DEF TypeOK, level
<1>4. dataQueue' = [dataQueue EXCEPT ![level] = queue]
  BY <1>1 DEF level
<1> HIDE DEF queue
<1>5. dataQueue' \in [Levels -> Seq(Packet)] /\ dataQueue \in [Levels -> Seq(Packet)]
  BY <1>3, <1>4 DEF TypeOK
<1>6. TotalLength(dataQueue') = TotalLength(dataQueue) - 1
  <2>1. TotalLength(dataQueue')
          = TotalLength(dataQueue) - Len(dataQueue[level]) + Len(queue)
    BY <1>2, <1>3, <1>4, <1>5, TotalLengthOfUpdate
  <2>2. TotalLength(dataQueue) \in Nat
    BY <1>5, TotalLengthType
  <2> QED
    BY <1>3, <2>1, <2>2
<1>7. SharedMemoryLength \in Nat /\ SharedMemoryLength' = SharedMemoryLength - 1
  BY <1>5, <1>6, MemoryIsTotal, TotalLengthType
<1>8. SharedMemoryLength' <= packetCapacity
  BY <1>7, CapacityAssumption DEF TypeOK
<1>9. pending' \subseteq Packet
  BY <1>1 DEF TypeOK
<1> QED
  BY <1>5, <1>8, <1>9

LEMMA MemoryUnchanged ==
    ASSUME dataQueue' = dataQueue
    PROVE  SharedMemoryLength' = SharedMemoryLength
BY MemoryIsTotal

LEMMA PushKeepsBypassInv ==
    ASSUME BypassInv, NEW p \in Packet, PushPacket(p)
    PROVE  BypassInv'
<1>1. weight' = weight /\ bypassed' = bypassed /\ pending' \subseteq Packet
  BY DEF PushPacket, BypassInv, TypeOK
<1>2. /\ synAckQueue' \in Seq(Packet) /\ headersQueue' \in Seq(Packet)
      /\ trimmed' \subseteq Packet
  <2>1. /\ synAckQueue \in Seq(Packet) /\ headersQueue \in Seq(Packet)
        /\ trimmed \subseteq Packet
    BY DEF BypassInv, TypeOK
  <2>2. CASE InsertSyn(p)
    BY <2>1, <2>2 DEF InsertSyn
  <2>3. CASE InsertControl(p)
    BY <2>1, <2>3 DEF InsertControl
  <2>4. CASE InsertData(p)
    BY <2>1, <2>4 DEF InsertData
  <2>5. CASE TrimPacket(p)
    BY <2>1, <2>5 DEF TrimPacket
  <2>6. CASE Lose
    BY <2>1, <2>6 DEF Lose
  <2> QED
    BY <2>2, <2>3, <2>4, <2>5, <2>6 DEF PushPacket, PushData
<1>3. /\ dataQueue' \in [Levels -> Seq(Packet)]
      /\ SharedMemoryLength' <= packetCapacity
  <2>1. CASE dataQueue' = dataQueue
    BY <2>1, MemoryUnchanged DEF BypassInv, TypeOK
  <2>2. CASE Priority[p] \in Levels /\ ~IsFull /\ InsertData(p)
    BY <2>2, InsertDataFits DEF BypassInv
  <2> QED
    BY <2>1, <2>2
       DEF PushPacket, InsertSyn, InsertControl, PushData, TrimPacket, Lose
<1> QED
  BY <1>1, <1>2, <1>3 DEF BypassInv, TypeOK, TurnsTaken

LEMMA PopKeepsBypassInv ==
    ASSUME BypassInv, PopPacket
    PROVE  BypassInv'
<1>1. CASE PopSyn
  <2>1. /\ synAckQueue' \in Seq(Packet) /\ pending' \subseteq Packet
        /\ UNCHANGED <<headersQueue, dataQueue, weight, trimmed, bypassed>>
    BY <1>1 DEF PopSyn, BypassInv, TypeOK
  <2> QED
    BY <2>1, MemoryUnchanged DEF BypassInv, TypeOK, TurnsTaken
<1>2. CASE PopOnlyData
  <2>1. weight' = weight /\ bypassed' = 0
        /\ UNCHANGED <<synAckQueue, headersQueue, trimmed>> /\ PopNextPacket
    BY <1>2 DEF PopOnlyData
  <2>2. TypeOK'
    BY <2>1, PopNextPacketFits DEF BypassInv, TypeOK
  <2>3. TurnsTaken' = TurnsTaken /\ TurnsTaken \in 0 .. 9
    BY <2>1, TurnsNonNegative DEF BypassInv, TypeOK, TurnsTaken
  <2> QED
    BY <2>1, <2>2, <2>3 DEF BypassInv
<1>3. CASE PopOnlyControl
  <2>1. /\ headersQueue' \in Seq(Packet) /\ pending' \subseteq Packet
        /\ trimmed' \subseteq Packet
        /\ UNCHANGED <<synAckQueue, dataQueue, weight, bypassed>>
    BY <1>3 DEF PopOnlyControl, PopControl, BypassInv, TypeOK
  <2> QED
    BY <2>1, MemoryUnchanged DEF BypassInv, TypeOK, TurnsTaken
<1>4. CASE PopDataInTurn
  <2>1. weight' = NextWeight /\ bypassed' = 0
        /\ UNCHANGED <<synAckQueue, headersQueue, trimmed>> /\ PopNextPacket
    BY <1>4 DEF PopDataInTurn
  <2>2. weight' \in 0 .. WeightModulus - 1
    BY <2>1, NextWeightType DEF BypassInv, TypeOK
  <2>3. TypeOK'
    BY <2>1, <2>2, PopNextPacketFits DEF BypassInv, TypeOK
  <2>4. TurnsTaken' \in 0 .. 9
    BY <2>2, LastDigit DEF TurnsTaken
  <2> QED
    BY <2>1, <2>3, <2>4 DEF BypassInv
<1>5. CASE PopControlInTurn
  <2>1. weight' = NextWeight /\ bypassed' = bypassed + 1 /\ ~DataTurn
        /\ UNCHANGED <<synAckQueue, dataQueue>> /\ PopControl /\ headersQueue # <<>>
    BY <1>5 DEF PopControlInTurn
  <2>2. weight' \in 0 .. WeightModulus - 1
    BY <2>1, NextWeightType DEF BypassInv, TypeOK
  <2>3. /\ headersQueue' \in Seq(Packet) /\ pending' \subseteq Packet
        /\ trimmed' \subseteq Packet
    BY <2>1 DEF PopControl, BypassInv, TypeOK
  <2>4. TypeOK'
    BY <2>1, <2>2, <2>3, MemoryUnchanged DEF BypassInv, TypeOK
  <2>5. bypassed' <= TurnsTaken'
    BY <2>1, TurnsAfterControl DEF BypassInv, TypeOK
  <2> QED
    BY <2>4, <2>5 DEF BypassInv
<1> QED
  BY <1>1, <1>2, <1>3, <1>4, <1>5 DEF PopPacket

LEMMA InitBypassInv == Init => BypassInv
<1> SUFFICES ASSUME Init PROVE BypassInv
  OBVIOUS
<1>1. 0 \in Levels /\ 1 \in Levels /\ 2 \in Levels /\ 3 \in Levels /\ 4 \in Levels
  BY DEF Levels
<1>2. /\ Len(dataQueue[0]) = 0 /\ Len(dataQueue[1]) = 0 /\ Len(dataQueue[2]) = 0
      /\ Len(dataQueue[3]) = 0 /\ Len(dataQueue[4]) = 0
  BY <1>1 DEF Init
<1>3. SharedMemoryLength = 0
  BY <1>2 DEF SharedMemoryLength
<1>4. TypeOK
  <2>1. 10 \in 0 .. WeightModulus - 1
    BY WeightAssumption
  <2> QED
    BY <1>3, <2>1, CapacityAssumption DEF Init, TypeOK
<1>5. bypassed <= TurnsTaken
  BY DEF Init, TurnsTaken
<1> QED
  BY <1>4, <1>5 DEF BypassInv

LEMMA BypassInvInductive == BypassInv /\ [Next]_vars => BypassInv'
<1> SUFFICES ASSUME BypassInv, [Next]_vars PROVE BypassInv'
  OBVIOUS
<1>1. CASE UNCHANGED vars
  BY <1>1, MemoryUnchanged DEF vars, BypassInv, TypeOK, TurnsTaken
<1>2. CASE Next
  BY <1>2, PushKeepsBypassInv, PopKeepsBypassInv DEF Next
<1> QED
  BY <1>1, <1>2

LEMMA BypassInvHolds == Spec => []BypassInv
BY InitBypassInv, BypassInvInductive, PTL DEF Spec

(* The data queues stay within packetCapacity, whatever the traffic.       *)
THEOREM MemoryBounded == Spec => []TypeOK
<1>1. BypassInv => TypeOK
  BY DEF BypassInv
<1> QED
  BY <1>1, BypassInvHolds, PTL

(* Waiting data is passed over at most nine times in a row, for every      *)
(* traffic and every width of the counter that is wide enough to hold 10.  *)
THEOREM DataPassedOverBounded == Spec => []BypassBound
<1>1. BypassInv => BypassBound
  BY TurnsNonNegative DEF BypassInv, TypeOK, BypassBound
<1> QED
  BY <1>1, BypassInvHolds, PTL

-----------------------------------------------------------------------------
(* How often a packet waits, as packets enter and leave the queues.        *)
Positions(queue, p) == {i \in DOMAIN queue : queue[i] = p}

LEMMA PositionsFinite ==
    ASSUME NEW queue \in Seq(Packet), NEW p
    PROVE  /\ IsFiniteSet(Positions(queue, p))
           /\ Occurrences(queue, p) = Cardinality(Positions(queue, p))
           /\ Occurrences(queue, p) \in Nat
           /\ Occurrences(queue, p) = 0 <=> p \notin Members(queue)
<1>1. Positions(queue, p) \subseteq 1 .. Len(queue) /\ Len(queue) \in Nat
  BY DEF Positions
<1>2. IsFiniteSet(Positions(queue, p))
  <2>1. IsFiniteSet(1 .. Len(queue))
    BY <1>1, FS_Interval
  <2> QED
    BY <1>1, <2>1, FS_Subset
<1>3. Occurrences(queue, p) = Cardinality(Positions(queue, p))
  BY DEF Occurrences, Positions
<1>4. Occurrences(queue, p) = 0 <=> Positions(queue, p) = {}
  BY <1>2, <1>3, FS_EmptySet
<1>5. Positions(queue, p) = {} <=> p \notin Members(queue)
  BY DEF Positions, Members
<1> QED
  BY <1>2, <1>3, <1>4, <1>5, FS_CardinalityType

LEMMA NoOccurrence == \A p : Occurrences(<<>>, p) = 0
<1> TAKE p
<1>1. {i \in DOMAIN <<>> : <<>>[i] = p} = {}
  OBVIOUS
<1> QED
  BY <1>1, FS_EmptySet DEF Occurrences

LEMMA OccurrencesOfAppend ==
    ASSUME NEW queue \in Seq(Packet), NEW x \in Packet, NEW p
    PROVE  Occurrences(Append(queue, x), p)
             = Occurrences(queue, p) + (IF x = p THEN 1 ELSE 0)
<1> DEFINE new == Append(queue, x)
           n == Len(queue) + 1
<1>1. /\ new \in Seq(Packet) /\ DOMAIN new = 1 .. n /\ DOMAIN queue = 1 .. n - 1
      /\ n \in Nat \ {0} /\ new[n] = x /\ \A i \in 1 .. n - 1 : new[i] = queue[i]
  OBVIOUS
<1> HIDE DEF new, n
<1>2. Positions(new, p) = IF x = p THEN Positions(queue, p) \cup {n}
                          ELSE Positions(queue, p)
  <2>1. CASE x = p
    <3>1. 1 .. n = (1 .. n - 1) \cup {n} /\ n \notin 1 .. n - 1
      BY <1>1
    <3>2. \A i : i \in Positions(new, p) <=> i \in Positions(queue, p) \cup {n}
      BY <1>1, <2>1, <3>1, Zenon DEF Positions
    <3> QED
      BY <2>1, <3>2
  <2>2. CASE x # p
    <3>1. \A i : i \in Positions(new, p) <=> i \in Positions(queue, p)
      BY <1>1, <2>2 DEF Positions
    <3> QED
      BY <2>2, <3>1
  <2> QED
    BY <2>1, <2>2
<1>3. n \notin Positions(queue, p)
  BY <1>1 DEF Positions
<1>4. /\ Occurrences(new, p) = Cardinality(Positions(new, p))
      /\ Occurrences(queue, p) = Cardinality(Positions(queue, p))
      /\ Occurrences(queue, p) \in Nat /\ IsFiniteSet(Positions(queue, p))
  BY <1>1, PositionsFinite
<1>5. x = p => Cardinality(Positions(queue, p) \cup {n})
                 = Cardinality(Positions(queue, p)) + 1
  BY <1>3, <1>4, FS_AddElement
<1>6. Occurrences(new, p) = Occurrences(queue, p) + (IF x = p THEN 1 ELSE 0)
  BY <1>2, <1>4, <1>5
<1> QED
  BY <1>6 DEF new

LEMMA OccurrencesOfTail ==
    ASSUME NEW queue \in Seq(Packet), queue # <<>>, NEW p
    PROVE  Occurrences(Tail(queue), p)
             = Occurrences(queue, p) - (IF Head(queue) = p THEN 1 ELSE 0)
<1> DEFINE rest == Tail(queue)
           n == Len(queue)
           later == Positions(queue, p) \ {1}
           next == [i \in Positions(rest, p) |-> i + 1]
<1>1. /\ rest \in Seq(Packet) /\ DOMAIN rest = 1 .. n - 1 /\ DOMAIN queue = 1 .. n
      /\ n \in Nat \ {0} /\ Head(queue) = queue[1]
      /\ \A i \in 1 .. n - 1 : rest[i] = queue[i + 1]
  OBVIOUS
<1> HIDE DEF rest, n
<1>2. next \in Bijection(Positions(rest, p), later)
  <2>1. next \in [Positions(rest, p) -> later]
    BY <1>1 DEF Positions
  <2>2. ASSUME NEW i \in Positions(rest, p), NEW j \in Positions(rest, p),
               next[i] = next[j]
        PROVE  i = j
    BY <1>1, <2>2 DEF Positions
  <2>3. ASSUME NEW j \in later
        PROVE  \E i \in Positions(rest, p) : next[i] = j
    <3>1. j - 1 \in Positions(rest, p)
      BY <1>1, <2>3 DEF Positions
    <3>2. next[j - 1] = j
      BY <1>1, <2>3, <3>1 DEF Positions
    <3> QED
      BY <3>1, <3>2
  <2> QED
    BY <2>1, <2>2, <2>3, Fun_IsBij
<1>3. /\ IsFiniteSet(Positions(rest, p)) /\ IsFiniteSet(Positions(queue, p))
      /\ Occurrences(rest, p) = Cardinality(Positions(rest, p))
      /\ Occurrences(queue, p) = Cardinality(Positions(queue, p))
      /\ Occurrences(queue, p) \in Nat
  BY <1>1, PositionsFinite
<1>4. Cardinality(later) = Cardinality(Positions(rest, p))
  BY <1>2, <1>3, FS_Bijection DEF ExistsBijection
<1>5. Cardinality(later) = IF 1 \in Positions(queue, p)
                           THEN Cardinality(Positions(queue, p)) - 1
                           ELSE Cardinality(Positions(queue, p))
  BY <1>3, FS_RemoveElement
<1>6. 1 \in Positions(queue, p) <=> Head(queue) = p
  BY <1>1 DEF Positions
<1>7. Occurrences(rest, p)
        = Occurrences(queue, p) - (IF Head(queue) = p THEN 1 ELSE 0)
  BY <1>3, <1>4, <1>5, <1>6
<1> QED
  BY <1>7 DEF rest

(* The copies of a packet in the data queues, as a function of the queues. *)
DataCopies(queues, p) ==
    Occurrences(queues[0], p) + Occurrences(queues[1], p)
        + Occurrences(queues[2], p) + Occurrences(queues[3], p)
        + Occurrences(queues[4], p)

LEMMA DataCopiesType ==
    ASSUME NEW queues \in [Levels -> Seq(Packet)], NEW p
    PROVE  /\ \A level \in Levels : Occurrences(queues[level], p) \in Nat
           /\ DataCopies(queues, p) \in Nat
           /\ DataCopies(queues, p) = 0 <=>
                 \A level \in Levels : p \notin Members(queues[level])
<1>1. Levels = {0, 1, 2, 3, 4}
  BY DEF Levels
<1>2. ASSUME NEW level \in Levels
      PROVE  /\ Occurrences(queues[level], p) \in Nat
             /\ Occurrences(queues[level], p) = 0 <=> p \notin Members(queues[level])
  BY PositionsFinite
<1> DEFINE a == Occurrences(queues[0], p)
           b == Occurrences(queues[1], p)
           c == Occurrences(queues[2], p)
           d == Occurrences(queues[3], p)
           e == Occurrences(queues[4], p)
<1>3. a \in Nat /\ b \in Nat /\ c \in Nat /\ d \in Nat /\ e \in Nat
  BY <1>1, <1>2
<1>4. (\A level \in Levels : p \notin Members(queues[level])) <=>
          a = 0 /\ b = 0 /\ c = 0 /\ d = 0 /\ e = 0
  BY <1>1, <1>2
<1>5. DataCopies(queues, p) = a + b + c + d + e
  BY DEF DataCopies
<1> HIDE DEF a, b, c, d, e
<1>6. a + b + c + d + e \in Nat
  BY <1>3
<1>7. a + b + c + d + e = 0 <=> a = 0 /\ b = 0 /\ c = 0 /\ d = 0 /\ e = 0
  BY <1>3
<1> QED
  BY <1>2, <1>4, <1>5, <1>6, <1>7

(* Replacing the queue of one level changes the sum by that queue's change.*)
LEMMA DataCopiesOfUpdate ==
    ASSUME NEW queues \in [Levels -> Seq(Packet)], NEW level \in Levels,
           NEW queue \in Seq(Packet), NEW p
    PROVE  DataCopies([queues EXCEPT ![level] = queue], p)
             = DataCopies(queues, p) - Occurrences(queues[level], p)
                 + Occurrences(queue, p)
<1> DEFINE new == [queues EXCEPT ![level] = queue]
           change == Occurrences(queue, p) - Occurrences(queues[level], p)
<1>1. level = 0 \/ level = 1 \/ level = 2 \/ level = 3 \/ level = 4
  BY DEF Levels
<1>2. new[level] = queue /\ \A l \in Levels : l # level => new[l] = queues[l]
  OBVIOUS
<1>3. /\ 0 \in Levels /\ 1 \in Levels /\ 2 \in Levels /\ 3 \in Levels /\ 4 \in Levels
  BY DEF Levels
<1> HIDE DEF new
<1> DEFINE a == Occurrences(queues[0], p)
           b == Occurrences(queues[1], p)
           c == Occurrences(queues[2], p)
           d == Occurrences(queues[3], p)
           e == Occurrences(queues[4], p)
           was == Occurrences(queues[level], p)
<1>4. a \in Nat /\ b \in Nat /\ c \in Nat /\ d \in Nat /\ e \in Nat
  BY <1>3, DataCopiesType
<1>5. DataCopies(queues, p) = a + b + c + d + e
  BY DEF DataCopies
<1>6. /\ Occurrences(new[level], p) = was + change
      /\ was \in Nat /\ Occurrences(queue, p) \in Nat /\ change \in Int
  <2>1. was \in Nat /\ Occurrences(queue, p) \in Nat
    BY PositionsFinite
  <2> QED
    BY <1>2, <2>1
<1>7. DataCopies(queues, p) - was + Occurrences(queue, p)
        = DataCopies(queues, p) + change
  <2>1. DataCopies(queues, p) \in Nat
    BY DataCopiesType
  <2> QED
    BY <1>6, <2>1
<1> HIDE DEF change
<1>8. DataCopies(new, p) = DataCopies(queues, p) + change
  <2>1. CASE level = 0
    <3>1. DataCopies(new, p) = (a + change) + b + c + d + e
      BY <1>2, <1>3, <1>6, <2>1 DEF DataCopies
    <3> HIDE DEF a, b, c, d, e
    <3> QED
      BY <1>4, <1>5, <1>6, <3>1
  <2>2. CASE level = 1
    <3>1. DataCopies(new, p) = a + (b + change) + c + d + e
      BY <1>2, <1>3, <1>6, <2>2 DEF DataCopies
    <3> HIDE DEF a, b, c, d, e
    <3> QED
      BY <1>4, <1>5, <1>6, <3>1
  <2>3. CASE level = 2
    <3>1. DataCopies(new, p) = a + b + (c + change) + d + e
      BY <1>2, <1>3, <1>6, <2>3 DEF DataCopies
    <3> HIDE DEF a, b, c, d, e
    <3> QED
      BY <1>4, <1>5, <1>6, <3>1
  <2>4. CASE level = 3
    <3>1. DataCopies(new, p) = a + b + c + (d + change) + e
      BY <1>2, <1>3, <1>6, <2>4 DEF DataCopies
    <3> HIDE DEF a, b, c, d, e
    <3> QED
      BY <1>4, <1>5, <1>6, <3>1
  <2>5. CASE level = 4
    <3>1. DataCopies(new, p) = a + b + c + d + (e + change)
      BY <1>2, <1>3, <1>6, <2>5 DEF DataCopies
    <3> HIDE DEF a, b, c, d, e
    <3> QED
      BY <1>4, <1>5, <1>6, <3>1
  <2> QED
    BY <1>1, <2>1, <2>2, <2>3, <2>4, <2>5
<1> QED
  BY <1>7, <1>8 DEF new

(* The places a packet can wait in, summed up.                             *)
LEMMA SumOfCopies ==
    ASSUME NEW syns \in Seq(Packet), NEW controls \in Seq(Packet),
           NEW queues \in [Levels -> Seq(Packet)], NEW p
    PROVE  /\ Occurrences(syns, p) \in Nat
           /\ Occurrences(controls, p) \in Nat
           /\ DataCopies(queues, p) \in Nat
           /\ Occurrences(syns, p) + Occurrences(controls, p)
                + Occurrences(queues[0], p) + Occurrences(queues[1], p)
                + Occurrences(queues[2], p) + Occurrences(queues[3], p)
                + Occurrences(queues[4], p)
                = Occurrences(syns, p) + Occurrences(controls, p)
                    + DataCopies(queues, p)
<1> DEFINE s == Occurrences(syns, p)
           h == Occurrences(controls, p)
           a == Occurrences(queues[0], p)
           b == Occurrences(queues[1], p)
           c == Occurrences(queues[2], p)
           d == Occurrences(queues[3], p)
           e == Occurrences(queues[4], p)
<1>1. s \in Nat /\ h \in Nat
  BY PositionsFinite
<1>2. /\ a \in Nat /\ b \in Nat /\ c \in Nat /\ d \in Nat /\ e \in Nat
      /\ DataCopies(queues, p) \in Nat
  <2>1. 0 \in Levels /\ 1 \in Levels /\ 2 \in Levels /\ 3 \in Levels /\ 4 \in Levels
    BY DEF Levels
  <2> QED
    BY <2>1, DataCopiesType
<1>3. DataCopies(queues, p) = a + b + c + d + e
  BY DEF DataCopies
<1> HIDE DEF s, h, a, b, c, d, e
<1>4. s + h + a + b + c + d + e = s + h + DataCopies(queues, p)
  BY <1>1, <1>2, <1>3
<1> QED
  BY <1>1, <1>2, <1>4 DEF s, h, a, b, c, d, e

LEMMA CopiesType == TypeOK => \A p : Copies(p) \in Nat
<1> SUFFICES ASSUME TypeOK, NEW p PROVE Copies(p) \in Nat
  OBVIOUS
<1>1. /\ synAckQueue \in Seq(Packet) /\ headersQueue \in Seq(Packet)
      /\ dataQueue \in [Levels -> Seq(Packet)]
  BY DEF TypeOK
<1> DEFINE s == Occurrences(synAckQueue, p)
           h == Occurrences(headersQueue, p)
           d == DataCopies(dataQueue, p)
<1>2. s \in Nat /\ h \in Nat /\ d \in Nat /\ Copies(p) = s + h + d
  BY <1>1, SumOfCopies, Zenon DEF Copies
<1> HIDE DEF s, h, d
<1> QED
  BY <1>2

LEMMA NoCopies ==
    ASSUME TypeOK, NEW p, p \notin Waiting
    PROVE  Copies(p) = 0
<1>1. Occurrences(synAckQueue, p) = 0 /\ Occurrences(headersQueue, p) = 0
  BY PositionsFinite DEF TypeOK, Waiting
<1>2. \A level \in Levels : Occurrences(dataQueue[level], p) = 0
  BY PositionsFinite DEF TypeOK, Waiting
<1> QED
  BY <1>1, <1>2 DEF Copies, Levels

(* A step that changes the copies of p in one place by change.             *)
LEMMA CopiesChange ==
    ASSUME TypeOK, TypeOK', NEW p, NEW change \in Int,
           \/ /\ Occurrences(synAckQueue', p) = Occurrences(synAckQueue, p) + change
              /\ UNCHANGED <<headersQueue, dataQueue>>
           \/ /\ Occurrences(headersQueue', p) = Occurrences(headersQueue, p) + change
              /\ UNCHANGED <<synAckQueue, dataQueue>>
           \/ /\ DataCopies(dataQueue', p) = DataCopies(dataQueue, p) + change
              /\ UNCHANGED <<synAckQueue, headersQueue>>
    PROVE  Copies(p)' = Copies(p) + change
<1> DEFINE s == Occurrences(synAckQueue, p)
           h == Occurrences(headersQueue, p)
           d == DataCopies(dataQueue, p)
           s1 == Occurrences(synAckQueue', p)
           h1 == Occurrences(headersQueue', p)
           d1 == DataCopies(dataQueue', p)
<1>1. s \in Nat /\ h \in Nat /\ d \in Nat /\ Copies(p) = s + h + d
  <2>1. /\ synAckQueue \in Seq(Packet) /\ headersQueue \in Seq(Packet)
        /\ dataQueue \in [Levels -> Seq(Packet)]
    BY DEF TypeOK
  <2> QED
    BY <2>1, SumOfCopies, Zenon DEF Copies
<1>2. s1 \in Nat /\ h1 \in Nat /\ d1 \in Nat /\ Copies(p)' = s1 + h1 + d1
  <2>1. /\ synAckQueue' \in Seq(Packet) /\ headersQueue' \in Seq(Packet)
        /\ dataQueue' \in [Levels -> Seq(Packet)]
    BY DEF TypeOK
  <2> QED
    BY <2>1, SumOfCopies, Zenon DEF Copies
<1>3. \/ s1 = s + change /\ h1 = h /\ d1 = d
      \/ h1 = h + change /\ s1 = s /\ d1 = d
      \/ d1 = d + change /\ s1 = s /\ h1 = h
  OBVIOUS
<1> HIDE DEF s, h, d, s1, h1, d1
<1> QED
  BY <1>1, <1>2, <1>3

(* A packet that is pushed and not lost enters one queue, as it is or as   *)
(* its header.                                                             *)
LEMMA PushedOnce ==
    ASSUME TypeOK, TypeOK', NEW p \in Packet,
           \/ InsertSyn(p)
           \/ InsertControl(p)
           \/ TrimPacket(p)
           \/ Priority[p] \in Levels /\ InsertData(p),
           NEW other
    PROVE  Copies(other)' = Copies(other) + (IF p = other THEN 1 ELSE 0)
<1> DEFINE change == IF p = other THEN 1 ELSE 0
<1>1. change \in Int
  OBVIOUS
<1>2. /\ synAckQueue \in Seq(Packet) /\ headersQueue \in Seq(Packet)
      /\ dataQueue \in [Levels -> Seq(Packet)]
  BY DEF TypeOK
<1>3. \A queue \in Seq(Packet) :
          Occurrences(Append(queue, p), other) = Occurrences(queue, other) + change
  BY OccurrencesOfAppend
<1> HIDE DEF change
<1>4. CASE InsertSyn(p)
  <2>1. /\ Occurrences(synAckQueue', other) = Occurrences(synAckQueue, other) + change
        /\ UNCHANGED <<headersQueue, dataQueue>>
    BY <1>2, <1>3, <1>4 DEF InsertSyn
  <2> QED
    BY <1>1, <2>1, CopiesChange DEF change
<1>5. CASE InsertControl(p) \/ TrimPacket(p)
  <2>1. /\ Occurrences(headersQueue', other)
             = Occurrences(headersQueue, other) + change
        /\ UNCHANGED <<synAckQueue, dataQueue>>
    BY <1>2, <1>3, <1>5 DEF InsertControl, TrimPacket
  <2> QED
    BY <1>1, <2>1, CopiesChange DEF change
<1>6. CASE Priority[p] \in Levels /\ InsertData(p)
  <2> DEFINE level == Priority[p]
             queue == Append(dataQueue[level], p)
  <2>1. level \in Levels /\ dataQueue[level] \in Seq(Packet)
    BY <1>2, <1>6
  <2>2. queue \in Seq(Packet)
    BY <2>1
  <2>3. /\ dataQueue' = [dataQueue EXCEPT ![level] = queue]
        /\ UNCHANGED <<synAckQueue, headersQueue>>
    BY <1>6 DEF InsertData
  <2> HIDE DEF level, queue
  <2> DEFINE total == DataCopies(dataQueue, other)
             was == Occurrences(dataQueue[level], other)
             new == [dataQueue EXCEPT ![level] = queue]
  <2>4. DataCopies(new, other) = total - was + Occurrences(queue, other)
    <3>1. \A l \in Levels, q \in Seq(Packet) : \A o :
             DataCopies([dataQueue EXCEPT ![l] = q], o)
               = DataCopies(dataQueue, o) - Occurrences(dataQueue[l], o)
                   + Occurrences(q, o)
      BY <1>2, DataCopiesOfUpdate
    <3> QED
      BY <2>1, <2>2, <3>1
  <2>5. DataCopies(dataQueue', other) = total + change
    <3>1. total \in Nat /\ was \in Nat
      BY <1>2, <2>1, DataCopiesType
    <3>2. Occurrences(queue, other) = was + change
      BY <1>3, <2>1 DEF queue
    <3> HIDE DEF total, was, new
    <3>3. DataCopies(new, other) = total + change
      BY <1>1, <2>4, <3>1, <3>2
    <3> QED
      BY <2>3, <3>3 DEF new
  <2> QED
    BY <1>1, <2>3, <2>5, CopiesChange DEF change
<1> QED
  BY <1>4, <1>5, <1>6

(* A pop takes one packet out of one queue, and accounts for it.           *)
LEMMA PoppedOnce ==
    ASSUME TypeOK, TypeOK', PopPacket
    PROVE  \E h \in Packet :
              /\ pending' = pending \ {h}
              /\ \A p : Copies(p)' = Copies(p) - (IF h = p THEN 1 ELSE 0)
<1> DEFINE change(h, p) == IF h = p THEN -1 ELSE 0
<1>1. \A h, p : change(h, p) \in Int
  OBVIOUS
<1>2. /\ synAckQueue \in Seq(Packet) /\ headersQueue \in Seq(Packet)
      /\ dataQueue \in [Levels -> Seq(Packet)]
  BY DEF TypeOK
<1>3. ASSUME NEW queue \in Seq(Packet), queue # <<>>
      PROVE  /\ Tail(queue) \in Seq(Packet) /\ Head(queue) \in Packet
             /\ \A p : Occurrences(Tail(queue), p)
                         = Occurrences(queue, p) + change(Head(queue), p)
  <2>1. Tail(queue) \in Seq(Packet) /\ Head(queue) \in Packet
    BY <1>3
  <2>2. ASSUME NEW p
        PROVE  Occurrences(Tail(queue), p)
                 = Occurrences(queue, p) + change(Head(queue), p)
    <3>1. Occurrences(queue, p) \in Nat
      BY PositionsFinite
    <3>2. Occurrences(Tail(queue), p)
            = Occurrences(queue, p) - (IF Head(queue) = p THEN 1 ELSE 0)
      BY <1>3, OccurrencesOfTail
    <3> QED
      BY <3>1, <3>2
  <2> QED
    BY <2>1, <2>2
<1>4. SUFFICES \E h \in Packet :
                  /\ pending' = pending \ {h}
                  /\ \A p : Copies(p)' = Copies(p) + change(h, p)
  <2>1. \A p : Copies(p) \in Int
    BY CopiesType
  <2> QED
    BY <1>4, <2>1
<1> HIDE DEF change
<1>5. CASE PopSyn
  <2> DEFINE h == Head(synAckQueue)
  <2>1. /\ h \in Packet /\ pending' = pending \ {h}
        /\ \A p : Occurrences(synAckQueue', p)
                    = Occurrences(synAckQueue, p) + change(h, p)
        /\ UNCHANGED <<headersQueue, dataQueue>>
    BY <1>2, <1>3, <1>5 DEF PopSyn
  <2> HIDE DEF h
  <2>2. \A p : Copies(p)' = Copies(p) + change(h, p)
    BY <1>1, <2>1, CopiesChange
  <2> QED
    BY <2>1, <2>2
<1>6. CASE PopControl /\ headersQueue # <<>> /\ UNCHANGED <<synAckQueue, dataQueue>>
  <2> DEFINE h == Head(headersQueue)
  <2>1. /\ h \in Packet /\ pending' = pending \ {h}
        /\ \A p : Occurrences(headersQueue', p)
                    = Occurrences(headersQueue, p) + change(h, p)
    BY <1>2, <1>3, <1>6 DEF PopControl
  <2> HIDE DEF h
  <2>2. \A p : Copies(p)' = Copies(p) + change(h, p)
    BY <1>1, <1>6, <2>1, CopiesChange
  <2> QED
    BY <2>1, <2>2
<1>7. CASE PopNextPacket /\ UNCHANGED <<synAckQueue, headersQueue>>
  <2>1. PICK i \in DOMAIN Order :
           /\ dataQueue[Order[i]] # <<>>
           /\ dataQueue' = [dataQueue EXCEPT ![Order[i]] = Tail(@)]
           /\ pending' = pending \ {Head(dataQueue[Order[i]])}
    BY <1>7 DEF PopNextPacket
  <2> DEFINE level == Order[i]
             queue == Tail(dataQueue[level])
             h == Head(dataQueue[level])
  <2>2. level \in Levels
    BY DEF Order, Levels
  <2>3. dataQueue' = [dataQueue EXCEPT ![level] = queue] /\ pending' = pending \ {h}
    BY <2>1
  <2>4. dataQueue[level] \in Seq(Packet) /\ dataQueue[level] # <<>>
    BY <1>2, <2>1, <2>2
  <2> HIDE DEF level
  <2>5. /\ h \in Packet /\ queue \in Seq(Packet)
        /\ \A p : Occurrences(queue, p)
                    = Occurrences(dataQueue[level], p) + change(h, p)
    BY <1>3, <2>4
  <2> HIDE DEF queue, h
  <2>6. ASSUME NEW p
        PROVE  DataCopies(dataQueue', p) = DataCopies(dataQueue, p) + change(h, p)
    <3> DEFINE new == [dataQueue EXCEPT ![level] = queue]
    <3> DEFINE total == DataCopies(dataQueue, p)
               was == Occurrences(dataQueue[level], p)
    <3>1. DataCopies(new, p) = total - was + Occurrences(queue, p)
      BY <1>2, <2>2, <2>5, DataCopiesOfUpdate
    <3>2. total \in Nat /\ was \in Nat /\ change(h, p) \in Int
      BY <1>1, <1>2, <2>2, DataCopiesType
    <3>3. Occurrences(queue, p) = was + change(h, p)
      BY <2>5
    <3> HIDE DEF total, was
    <3>4. DataCopies(new, p) = total + change(h, p)
      BY <3>1, <3>2, <3>3
    <3> QED
      BY <2>3, <3>4 DEF total
  <2>7. \A p : Copies(p)' = Copies(p) + change(h, p)
    BY <1>1, <1>7, <2>6, CopiesChange
  <2> QED
    BY <2>3, <2>5, <2>7
<1> QED
  BY <1>5, <1>6, <1>7
     DEF PopPacket, PopOnlyData, PopOnlyControl, PopDataInTurn, PopControlInTurn

AccountInv == BypassInv /\ KeptOnce

LEMMA PushAccounted ==
    ASSUME AccountInv, TypeOK', NEW p \in Packet, PushPacket(p)
    PROVE  KeptOnce'
<1>1. TypeOK /\ KeptOnce /\ Copies(p) = 0 /\ pending' = pending \cup {p}
  BY NoCopies DEF AccountInv, BypassInv, PushPacket
<1>2. \A other \in Packet : Copies(other) \in Int
  BY <1>1, CopiesType
<1>3. CASE \A other \in Packet :
              Copies(other)' = Copies(other) + (IF p = other THEN 1 ELSE 0)
  <2> SUFFICES ASSUME NEW other \in Packet
               PROVE  /\ other \in pending' /\ ~MayBeLost(other) => Copies(other)' = 1
                      /\ other \in pending' /\ MayBeLost(other) => Copies(other)' <= 1
                      /\ other \notin pending' => Copies(other)' = 0
    BY DEF KeptOnce, MayBeLost
  <2>1. Copies(other)' = Copies(other) + (IF p = other THEN 1 ELSE 0)
    BY <1>3
  <2>2. CASE other = p
    BY <1>1, <2>1, <2>2
  <2>3. CASE other # p
    <3>1. Copies(other)' = Copies(other)
      BY <1>2, <2>1, <2>3
    <3> QED
      BY <1>1, <2>3, <3>1 DEF KeptOnce
  <2> QED
    BY <2>2, <2>3
<1>4. CASE Lose /\ MayBeLost(p)
  <2>1. \A other \in Packet : Copies(other)' = Copies(other)
    BY <1>4 DEF Lose, Copies
  <2> QED
    BY <1>1, <1>4, <2>1 DEF KeptOnce, MayBeLost
<1>5. CASE \/ InsertSyn(p)
           \/ InsertControl(p)
           \/ TrimPacket(p)
           \/ Priority[p] \in Levels /\ InsertData(p)
  BY <1>1, <1>3, <1>5, PushedOnce
<1>6. CASE Lose /\ Kind[p] = "data" /\ Priority[p] \notin Levels \ {1}
  BY <1>4, <1>6 DEF MayBeLost
<1> QED
  BY <1>5, <1>6 DEF PushPacket, PushData

LEMMA PopAccounted ==
    ASSUME AccountInv, TypeOK', PopPacket
    PROVE  KeptOnce'
<1>1. TypeOK /\ KeptOnce
  BY DEF AccountInv, BypassInv
<1>2. PICK h \in Packet :
         /\ pending' = pending \ {h}
         /\ \A p : Copies(p)' = Copies(p) - (IF h = p THEN 1 ELSE 0)
  BY <1>1, PoppedOnce
<1>3. \A p \in Packet : Copies(p) \in Nat
  BY <1>1, CopiesType
<1>4. \A p \in Packet : Copies(p)' \in Nat
  <2>1. (\A p : Copies(p) \in Nat)'
    BY CopiesType, PTL
  <2> QED
    BY <2>1
<1> SUFFICES ASSUME NEW p \in Packet
             PROVE  /\ p \in pending' /\ ~MayBeLost(p) => Copies(p)' = 1
                    /\ p \in pending' /\ MayBeLost(p) => Copies(p)' <= 1
                    /\ p \notin pending' => Copies(p)' = 0
  BY DEF KeptOnce, MayBeLost
<1>5. /\ p \in pending /\ ~MayBeLost(p) => Copies(p) = 1
      /\ p \in pending /\ MayBeLost(p) => Copies(p) <= 1
      /\ p \notin pending => Copies(p) = 0
  BY <1>1 DEF KeptOnce
<1>6. CASE p = h
  <2>1. Copies(p)' = Copies(p) - 1 /\ p \notin pending'
    BY <1>2, <1>6
  <2>2. Copies(p) <= 1
    BY <1>5, <1>3
  <2> QED
    BY <1>3, <1>4, <2>1, <2>2
<1>7. CASE p # h
  <2>1. Copies(p)' = Copies(p) /\ (p \in pending' <=> p \in pending)
    BY <1>2, <1>3, <1>7
  <2> QED
    BY <1>5, <2>1
<1> QED
  BY <1>6, <1>7

(* What a queue loses and gains with a push and a pop.                     *)
LEMMA MembersOfAppend ==
    ASSUME NEW queue \in Seq(Packet), NEW p \in Packet
    PROVE  Members(Append(queue, p)) = Members(queue) \cup {p}
<1> DEFINE new == Append(queue, p)
           n == Len(queue)
<1>1. /\ new \in Seq(Packet) /\ DOMAIN new = 1 .. n + 1 /\ DOMAIN queue = 1 .. n
      /\ n \in Nat /\ new[n + 1] = p
      /\ \A i \in 1 .. n : new[i] = queue[i]
  OBVIOUS
<1> HIDE DEF new, n
<1>2. 1 .. n + 1 = (1 .. n) \cup {n + 1}
  BY <1>1
<1>3. Members(new) = Members(queue) \cup {p}
  BY <1>1, <1>2 DEF Members
<1> QED
  BY <1>3 DEF new

LEMMA MembersOfTail ==
    ASSUME NEW queue \in Seq(Packet), queue # <<>>
    PROVE  Members(queue) = Members(Tail(queue)) \cup {Head(queue)}
<1> DEFINE rest == Tail(queue)
           n == Len(queue)
<1>1. /\ DOMAIN rest = 1 .. n - 1 /\ DOMAIN queue = 1 .. n /\ n \in Nat \ {0}
      /\ Head(queue) = queue[1]
      /\ \A i \in 1 .. n - 1 : rest[i] = queue[i + 1]
  OBVIOUS
<1> HIDE DEF rest, n
<1>2. ASSUME NEW i \in 1 .. n, i # 1 PROVE i - 1 \in 1 .. n - 1 /\ (i - 1) + 1 = i
  BY <1>1, <1>2
<1>3. \A i \in 1 .. n - 1 : i + 1 \in 1 .. n
  BY <1>1
<1>4. Members(queue) \subseteq Members(rest) \cup {Head(queue)}
  <2> SUFFICES ASSUME NEW i \in 1 .. n
               PROVE  queue[i] \in Members(rest) \cup {Head(queue)}
    BY <1>1 DEF Members
  <2>1. CASE i = 1
    BY <1>1, <2>1
  <2>2. CASE i # 1
    <3>1. i - 1 \in 1 .. n - 1 /\ queue[i] = rest[i - 1]
      BY <1>1, <1>2, <2>2
    <3> QED
      BY <1>1, <3>1 DEF Members
  <2> QED
    BY <2>1, <2>2
<1>5. Members(rest) \cup {Head(queue)} \subseteq Members(queue)
  <2>1. Head(queue) \in Members(queue)
    BY <1>1 DEF Members
  <2>2. ASSUME NEW i \in 1 .. n - 1 PROVE rest[i] \in Members(queue)
    BY <1>1, <1>3 DEF Members
  <2> QED
    BY <1>1, <2>1, <2>2 DEF Members
<1> QED
  BY <1>4, <1>5 DEF rest

(* A packet of which there is no copy waits nowhere.                       *)
LEMMA CopiesOfWaiting ==
    TypeOK => \A p : Copies(p) = 0 => p \notin Members(headersQueue)
<1> SUFFICES ASSUME TypeOK, NEW p, Copies(p) = 0
             PROVE  p \notin Members(headersQueue)
  OBVIOUS
<1> DEFINE s == Occurrences(synAckQueue, p)
           h == Occurrences(headersQueue, p)
           d == DataCopies(dataQueue, p)
<1>1. /\ synAckQueue \in Seq(Packet) /\ headersQueue \in Seq(Packet)
      /\ dataQueue \in [Levels -> Seq(Packet)]
  BY DEF TypeOK
<1>2. s \in Nat /\ h \in Nat /\ d \in Nat /\ Copies(p) = s + h + d
  BY <1>1, SumOfCopies, Zenon DEF Copies
<1>3. h = 0
  <2> HIDE DEF s, h, d
  <2> QED
    BY <1>2
<1> QED
  BY <1>1, <1>3, PositionsFinite

-----------------------------------------------------------------------------
(* The queue a packet waits in, and the losses.                            *)
PlaceInv == AccountInv /\ InItsQueue

LEMMA PushPlaced ==
    ASSUME PlaceInv, NEW p \in Packet, PushPacket(p)
    PROVE  InItsQueue' /\ LostForACause
<1>1. /\ synAckQueue \in Seq(Packet) /\ headersQueue \in Seq(Packet)
      /\ dataQueue \in [Levels -> Seq(Packet)]
      /\ p \notin Waiting /\ pending' = pending \cup {p}
      /\ InItsQueue /\ Kind \in [Packet -> {"syn", "header", "pull", "data"}]
  BY KindAssumption DEF PlaceInv, AccountInv, BypassInv, TypeOK, PushPacket
<1>2. CASE Kind[p] = "syn" /\ InsertSyn(p)
  <2>1. /\ Members(synAckQueue') = Members(synAckQueue) \cup {p}
        /\ UNCHANGED <<headersQueue, dataQueue, trimmed>>
    BY <1>1, <1>2, MembersOfAppend DEF InsertSyn
  <2> QED
    BY <1>1, <1>2, <2>1 DEF InItsQueue, LostForACause, Waiting
<1>3. CASE Kind[p] \in {"header", "pull"} /\ InsertControl(p)
  <2>1. /\ Members(headersQueue') = Members(headersQueue) \cup {p}
        /\ UNCHANGED <<synAckQueue, dataQueue, trimmed>>
    BY <1>1, <1>3, MembersOfAppend DEF InsertControl
  <2> QED
    BY <1>1, <1>3, <2>1 DEF InItsQueue, LostForACause, Waiting
<1>4. CASE Kind[p] = "data" /\ Priority[p] \in Levels \ {1} /\ TrimPacket(p)
  <2>1. /\ Members(headersQueue') = Members(headersQueue) \cup {p}
        /\ trimmed' = trimmed \cup {p}
        /\ UNCHANGED <<synAckQueue, dataQueue>>
    BY <1>1, <1>4, MembersOfAppend DEF TrimPacket
  <2> QED
    BY <1>1, <1>4, <2>1 DEF InItsQueue, LostForACause, Waiting
<1>5. CASE Kind[p] = "data" /\ Priority[p] \in Levels /\ InsertData(p)
  <2>1. /\ dataQueue' = [dataQueue EXCEPT
                            ![Priority[p]] = Append(dataQueue[Priority[p]], p)]
        /\ UNCHANGED <<synAckQueue, headersQueue, trimmed>>
    BY <1>5 DEF InsertData
  <2>2. \A level \in Levels : Members(dataQueue'[level]) =
            IF level = Priority[p] THEN Members(dataQueue[level]) \cup {p}
                                   ELSE Members(dataQueue[level])
    <3>1. /\ dataQueue[Priority[p]] \in Seq(Packet)
          /\ Members(Append(dataQueue[Priority[p]], p))
               = Members(dataQueue[Priority[p]]) \cup {p}
      BY <1>1, <1>5, MembersOfAppend
    <3> QED
      BY <1>1, <1>5, <2>1, <3>1
  <2>3. p \in Waiting' /\ Waiting \subseteq Waiting'
    <3> DEFINE waitsIn(level) == Members(dataQueue[level])
    <3>1. p \in Members(dataQueue'[Priority[p]])
      BY <1>5, <2>2
    <3>2. \A level \in Levels : waitsIn(level) \subseteq Members(dataQueue'[level])
      BY <2>2
    <3>3. /\ Members(synAckQueue') = Members(synAckQueue)
          /\ Members(headersQueue') = Members(headersQueue)
      BY <2>1
    <3> QED
      BY <1>5, <3>1, <3>2, <3>3, Zenon DEF Waiting
  <2>4. LostForACause
    BY <1>1, <2>3 DEF LostForACause
  <2>5. \A level \in Levels : \A q \in Members(dataQueue'[level]) :
            Kind[q] = "data" /\ Priority[q] = level
    <3> SUFFICES ASSUME NEW level \in Levels, NEW q \in Members(dataQueue'[level])
                 PROVE  Kind[q] = "data" /\ Priority[q] = level
      OBVIOUS
    <3>1. q \in Members(dataQueue[level]) \/ (q = p /\ level = Priority[p])
      BY <2>2
    <3> QED
      BY <1>1, <1>5, <3>1 DEF InItsQueue
  <2>6. /\ Members(synAckQueue') = Members(synAckQueue)
        /\ Members(headersQueue') = Members(headersQueue)
        /\ trimmed' = trimmed
    BY <2>1
  <2> QED
    BY <1>1, <2>4, <2>5, <2>6 DEF InItsQueue
<1>6. CASE /\ Lose /\ Kind[p] = "data"
           /\ (Priority[p] = 1 /\ IsFull) \/ Priority[p] \notin Levels
  BY <1>1, <1>6 DEF Lose, InItsQueue, LostForACause, Waiting
<1> QED
  BY <1>2, <1>3, <1>4, <1>5, <1>6 DEF PushPacket, PushData

LEMMA PopPlaced ==
    ASSUME PlaceInv, TypeOK', KeptOnce', PopPacket
    PROVE  InItsQueue' /\ LostForACause
<1>1. /\ synAckQueue \in Seq(Packet) /\ headersQueue \in Seq(Packet)
      /\ dataQueue \in [Levels -> Seq(Packet)]
      /\ InItsQueue /\ TypeOK
  BY DEF PlaceInv, AccountInv, BypassInv, TypeOK
<1>2. CASE PopSyn
  <2>1. /\ Members(synAckQueue) = Members(synAckQueue') \cup {Head(synAckQueue)}
        /\ pending' = pending \ {Head(synAckQueue)}
        /\ UNCHANGED <<headersQueue, dataQueue, trimmed>>
    BY <1>1, <1>2, MembersOfTail DEF PopSyn
  <2> QED
    BY <1>1, <2>1 DEF InItsQueue, LostForACause, Waiting
<1>3. CASE /\ PopControl /\ headersQueue # <<>>
           /\ UNCHANGED <<synAckQueue, dataQueue>>
  <2> DEFINE h == Head(headersQueue)
  <2>1. /\ Members(headersQueue) = Members(headersQueue') \cup {h}
        /\ pending' = pending \ {h} /\ trimmed' = trimmed \ {h}
        /\ h \in Packet
    BY <1>1, <1>3, MembersOfTail DEF PopControl
  <2>2. h \notin Members(headersQueue')
    <3>1. \A p \in Packet : p \notin pending' => Copies(p)' = 0
      BY DEF KeptOnce, MayBeLost
    <3>2. (\A p : Copies(p) = 0 => p \notin Members(headersQueue))'
      BY CopiesOfWaiting, PTL
    <3>3. \A p : Copies(p)' = 0 => p \notin Members(headersQueue')
      BY <3>2
    <3> HIDE DEF h
    <3> QED
      BY <2>1, <3>1, <3>3
  <2> HIDE DEF h
  <2> QED
    BY <1>1, <1>3, <2>1, <2>2 DEF InItsQueue, LostForACause, Waiting
<1>4. CASE PopNextPacket /\ UNCHANGED <<synAckQueue, headersQueue, trimmed>>
  <2>1. PICK i \in DOMAIN Order :
           /\ dataQueue[Order[i]] # <<>>
           /\ dataQueue' = [dataQueue EXCEPT ![Order[i]] = Tail(@)]
           /\ pending' = pending \ {Head(dataQueue[Order[i]])}
    BY <1>4 DEF PopNextPacket
  <2> DEFINE level == Order[i]
             h == Head(dataQueue[level])
  <2>2. level \in Levels
    BY DEF Order, Levels
  <2>3. /\ dataQueue[level] \in Seq(Packet) /\ dataQueue[level] # <<>>
        /\ dataQueue' = [dataQueue EXCEPT ![level] = Tail(dataQueue[level])]
        /\ pending' = pending \ {h}
    BY <1>1, <2>1, <2>2
  <2>4. Members(dataQueue[level]) = Members(Tail(dataQueue[level])) \cup {h}
    BY <2>3, MembersOfTail
  <2> HIDE DEF level, h
  <2>5. \A l \in Levels :
            /\ Members(dataQueue'[l]) \subseteq Members(dataQueue[l])
            /\ Members(dataQueue[l]) \subseteq Members(dataQueue'[l]) \cup {h}
    BY <1>1, <2>2, <2>3, <2>4
  <2> QED
    BY <1>1, <1>4, <2>3, <2>5 DEF InItsQueue, LostForACause, Waiting
<1> QED
  BY <1>2, <1>3, <1>4
     DEF PopPacket, PopOnlyData, PopOnlyControl, PopDataInTurn, PopControlInTurn

LEMMA PlaceStep ==
    PlaceInv /\ [Next]_vars => PlaceInv' /\ [KeptOnce' /\ InItsQueue' /\ LostForACause]_vars
<1> SUFFICES ASSUME PlaceInv, [Next]_vars
             PROVE  PlaceInv' /\ [KeptOnce' /\ InItsQueue' /\ LostForACause]_vars
  OBVIOUS
<1>1. BypassInv' /\ TypeOK'
  BY BypassInvInductive DEF PlaceInv, AccountInv, BypassInv
<1>2. CASE UNCHANGED vars
  BY <1>1, <1>2 DEF vars, PlaceInv, AccountInv, KeptOnce, Copies, InItsQueue
<1>3. CASE Next
  <2>1. KeptOnce'
    BY <1>1, <1>3, PushAccounted, PopAccounted DEF Next, PlaceInv
  <2>2. InItsQueue' /\ LostForACause
    BY <1>1, <1>3, <2>1, PushPlaced, PopPlaced DEF Next
  <2> QED
    BY <1>1, <2>1, <2>2 DEF PlaceInv, AccountInv
<1> QED
  BY <1>2, <1>3

LEMMA InitPlaceInv == Init => PlaceInv
<1> SUFFICES ASSUME Init PROVE PlaceInv
  OBVIOUS
<1>1. \A p : Copies(p) = 0
  BY NoOccurrence DEF Init, Copies, Levels
<1>2. InItsQueue
  BY DEF Init, InItsQueue, Members, Levels
<1> QED
  BY <1>1, <1>2, InitBypassInv DEF Init, PlaceInv, AccountInv, KeptOnce

(* Whatever the traffic and the capacity: each packet that was pushed and  *)
(* not popped waits once, in the queue of its kind and priority or, data of*)
(* another priority than 1, as a header; a push loses only data of priority*)
(* 1 that comes with the memory full and data of an unknown priority.      *)
THEOREM PacketsAccountedFor == Spec => AccountedFor
BY InitPlaceInv, PlaceStep, PTL DEF Spec, AccountedFor

=============================================================================
