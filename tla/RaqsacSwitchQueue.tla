-------------------------- MODULE RaqsacSwitchQueue --------------------------
(***************************************************************************)
(* The output queue of a switch port.  SYN packets, control packets (pulls *)
(* and headers) and the data packets of five priorities wait in queues of  *)
(* their own; the data queues share packetCapacity places.  A data packet  *)
(* that finds them taken is trimmed to its header, which queues with the   *)
(* control packets; one of priority 1 is lost instead.                     *)
(*                                                                         *)
(* A packet is a name with a kind and a priority.  Packets are pushed by   *)
(* the routing layer at any time and popped when the link is idle; one     *)
(* that has left may stand for a later packet and be pushed again.         *)
(***************************************************************************)
EXTENDS Integers, Sequences, FiniteSets

CONSTANTS
    Packet,
    Kind,            \* Kind[p]: "syn", "header", "pull" or "data"
    Priority,        \* Priority[p]: the priorityValue of its RaqsacHeader
    packetCapacity,  \* parameter packetCapacity of RaqsacSwitchQueue.ned
    WeightModulus    \* 2^32, the range of the unsigned int weight

ASSUME KindAssumption == Kind \in [Packet -> {"syn", "header", "pull", "data"}]
ASSUME PriorityAssumption == Priority \in [Packet -> Nat]
ASSUME CapacityAssumption == packetCapacity \in Nat
ASSUME WeightAssumption == WeightModulus \in Nat /\ WeightModulus > 10

VARIABLES
    synAckQueue, headersQueue,
    dataQueue,   \* dataQueue[level]: dataQueuePriority1 .. 4 and, as 0,
                 \* dataQueueLowestPriority
    weight,
    trimmed,     \* packets waiting as the header they were trimmed to
    pending,     \* history: packets pushed that no pop has returned
    bypassed     \* history: control packets popped while data waited, since
                 \* data was popped

vars == <<synAckQueue, headersQueue, dataQueue, weight, trimmed, pending, bypassed>>

Levels == 0 .. 4

(* The order in which popNextPacket looks at the data queues.              *)
Order_LowestForgotten == <<1, 2, 3, 4>>
Order == <<1, 2, 3, 4, 0>>

Members(queue) == {queue[i] : i \in DOMAIN queue}

Waiting ==
    Members(synAckQueue) \cup Members(headersQueue)
        \cup UNION {Members(dataQueue[level]) : level \in Levels}

SharedMemoryLength ==
    Len(dataQueue[0]) + Len(dataQueue[1]) + Len(dataQueue[2])
        + Len(dataQueue[3]) + Len(dataQueue[4])

IsFull_OffByOne == SharedMemoryLength > packetCapacity
IsFull == SharedMemoryLength >= packetCapacity

-----------------------------------------------------------------------------
Init ==
    /\ synAckQueue = <<>>
    /\ headersQueue = <<>>
    /\ dataQueue = [level \in Levels |-> <<>>]
    /\ weight = 10
    /\ trimmed = {}
    /\ pending = {}
    /\ bypassed = 0

InsertSyn(p) ==
    /\ synAckQueue' = Append(synAckQueue, p)
    /\ UNCHANGED <<headersQueue, dataQueue, trimmed>>

InsertControl(p) ==
    /\ headersQueue' = Append(headersQueue, p)
    /\ UNCHANGED <<synAckQueue, dataQueue, trimmed>>

InsertData(p) ==
    /\ dataQueue' = [dataQueue EXCEPT ![Priority[p]] = Append(@, p)]
    /\ UNCHANGED <<synAckQueue, headersQueue, trimmed>>

(* The packet becomes its header, and waits with the control packets.      *)
TrimPacket(p) ==
    /\ headersQueue' = Append(headersQueue, p)
    /\ trimmed' = trimmed \cup {p}
    /\ UNCHANGED <<synAckQueue, dataQueue>>

(* pushPacket returns without inserting: the packet is lost.               *)
Lose == UNCHANGED <<synAckQueue, headersQueue, dataQueue, trimmed>>

PushData_LosesLowest(p) ==
    \/ Priority[p] \in Levels /\ ~IsFull /\ InsertData(p)
    \/ Priority[p] \in Levels \ {0} /\ IsFull /\ TrimPacket(p)
    \/ Priority[p] \notin Levels \ {0} /\ IsFull /\ Lose
PushData(p) ==
    \/ Priority[p] \in Levels /\ ~IsFull /\ InsertData(p)
    \/ Priority[p] \in Levels \ {1} /\ IsFull /\ TrimPacket(p)
    \/ Priority[p] = 1 /\ IsFull /\ Lose
    \/ Priority[p] \notin Levels /\ Lose

PushPacket(p) ==
    /\ p \notin Waiting
    /\ \/ Kind[p] = "syn" /\ InsertSyn(p)
       \/ Kind[p] \in {"header", "pull"} /\ InsertControl(p)
       \/ Kind[p] = "data" /\ PushData(p)
    /\ pending' = pending \cup {p}
    /\ UNCHANGED <<weight, bypassed>>

NextWeight_Kept == weight
NextWeight == (weight + 1) % WeightModulus

DataTurn_EveryEleventh == weight % 11 = 0
DataTurn == weight % 10 = 0

(* The head of the first data queue that is not empty.                     *)
PopNextPacket ==
    \E i \in DOMAIN Order :
        /\ dataQueue[Order[i]] # <<>>
        /\ \A j \in 1 .. i - 1 : dataQueue[Order[j]] = <<>>
        /\ dataQueue' = [dataQueue EXCEPT ![Order[i]] = Tail(@)]
        /\ pending' = pending \ {Head(dataQueue[Order[i]])}

PopControl ==
    /\ headersQueue' = Tail(headersQueue)
    /\ trimmed' = trimmed \ {Head(headersQueue)}
    /\ pending' = pending \ {Head(headersQueue)}

PopSyn ==
    /\ synAckQueue # <<>>
    /\ synAckQueue' = Tail(synAckQueue)
    /\ pending' = pending \ {Head(synAckQueue)}
    /\ UNCHANGED <<headersQueue, dataQueue, weight, trimmed, bypassed>>

(* Only data waits: it leaves without taking a turn.                       *)
PopOnlyData ==
    /\ synAckQueue = <<>> /\ headersQueue = <<>> /\ SharedMemoryLength # 0
    /\ PopNextPacket
    /\ bypassed' = 0
    /\ UNCHANGED <<synAckQueue, headersQueue, weight, trimmed>>

(* Only control packets wait: they leave without taking a turn.            *)
PopOnlyControl ==
    /\ synAckQueue = <<>> /\ headersQueue # <<>> /\ SharedMemoryLength = 0
    /\ PopControl
    /\ UNCHANGED <<synAckQueue, dataQueue, weight, bypassed>>

(* Both wait: of ten turns one is the data's, nine are the control's.      *)
PopDataInTurn ==
    /\ synAckQueue = <<>> /\ headersQueue # <<>> /\ SharedMemoryLength # 0
    /\ DataTurn
    /\ PopNextPacket
    /\ weight' = NextWeight
    /\ bypassed' = 0
    /\ UNCHANGED <<synAckQueue, headersQueue, trimmed>>

PopControlInTurn ==
    /\ synAckQueue = <<>> /\ headersQueue # <<>> /\ SharedMemoryLength # 0
    /\ ~DataTurn
    /\ PopControl
    /\ weight' = NextWeight
    /\ bypassed' = bypassed + 1
    /\ UNCHANGED <<synAckQueue, dataQueue>>

PopPacket ==
    PopSyn \/ PopOnlyData \/ PopOnlyControl \/ PopDataInTurn \/ PopControlInTurn

Next == PopPacket \/ \E p \in Packet : PushPacket(p)

(* The link transmits, and asks for the next packet, as long as one waits. *)
Spec == Init /\ [][Next]_vars

FairSpec == Spec /\ WF_vars(PopPacket)

-----------------------------------------------------------------------------
(* Properties.                                                             *)

(* The data queues never outgrow the memory they share.                    *)
TypeOK ==
    /\ synAckQueue \in Seq(Packet)
    /\ headersQueue \in Seq(Packet)
    /\ dataQueue \in [Levels -> Seq(Packet)]
    /\ weight \in 0 .. WeightModulus - 1
    /\ trimmed \subseteq Packet
    /\ pending \subseteq Packet
    /\ bypassed \in Nat
    /\ SharedMemoryLength <= packetCapacity

(* How often p waits in queue.                                             *)
Occurrences(queue, p) == Cardinality({i \in DOMAIN queue : queue[i] = p})

Copies(p) ==
    Occurrences(synAckQueue, p) + Occurrences(headersQueue, p)
        + Occurrences(dataQueue[0], p) + Occurrences(dataQueue[1], p)
        + Occurrences(dataQueue[2], p) + Occurrences(dataQueue[3], p)
        + Occurrences(dataQueue[4], p)

MayBeLost(p) == Kind[p] = "data" /\ Priority[p] \notin Levels \ {1}

KeptOnce ==
    \A p \in Packet :
        /\ p \in pending /\ ~MayBeLost(p) => Copies(p) = 1
        /\ p \in pending /\ MayBeLost(p) => Copies(p) <= 1
        /\ p \notin pending => Copies(p) = 0

InItsQueue ==
    /\ \A p \in Members(synAckQueue) : Kind[p] = "syn"
    /\ \A p \in Members(headersQueue) :
          Kind[p] \in {"header", "pull"} \/ p \in trimmed
    /\ \A p \in trimmed :
          Kind[p] = "data" /\ Priority[p] # 1 /\ p \in Members(headersQueue)
    /\ \A level \in Levels : \A p \in Members(dataQueue[level]) :
          Kind[p] = "data" /\ Priority[p] = level

(* A packet that was pushed and waits nowhere is lost.                     *)
LostForACause ==
    \A p \in Packet :
        /\ p \notin pending /\ p \in pending' /\ p \notin Waiting' =>
              /\ Kind[p] = "data"
              /\ (Priority[p] = 1 /\ IsFull) \/ Priority[p] \notin Levels
        /\ p \in Waiting /\ p \in pending' => p \in Waiting'

(* After every step a packet that was pushed and not popped waits once: as *)
(* what it came as, in the queue of its kind and priority, or as a header, *)
(* which takes data of another priority than 1.  A step loses only data of *)
(* priority 1 that comes with the memory full, or data of an unknown       *)
(* priority, and nothing that waits already.                               *)
AccountedFor == [][KeptOnce' /\ InItsQueue' /\ LostForACause]_vars

(* Waiting data is passed over by at most nine control packets in a row,   *)
(* the wrap of the counter weight included.                                *)
BypassBound == bypassed <= 9

NoMoreSyns == <>[](synAckQueue = <<>>)

(* Once no SYN packets come, which are served before everything else,      *)
(* control packets are not starved by data, and data of the first priority *)
(* is starved neither by control packets nor by other data, however much   *)
(* of them arrives.                                                        *)
NotStarved ==
    NoMoreSyns =>
        \A p \in Packet :
            \/ Kind[p] \in {"header", "pull"}
            \/ Kind[p] = "data" /\ Priority[p] = 1
            => (p \in Waiting ~> p \notin Waiting)
=============================================================================
