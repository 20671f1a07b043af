------------------------------ MODULE RaqsacPath ------------------------------
(***************************************************************************)
(* The transport of RaqsacTransport over the switch port that leads to the *)
(* receiving host, the queue of RaqsacSwitchQueue: senders let symbols out *)
(* upstream, where per-packet routes may reorder them; each one is pushed  *)
(* into the port's queue, which trims or loses it when the data of all the *)
(* host's connections fills the shared memory; what the port pops reaches  *)
(* the host.  Where RaqsacTransport lets the network trim any symbol, here *)
(* only the queue decides.  Pulls travel the other way, over other ports.  *)
(***************************************************************************)
EXTENDS Integers, Sequences, FiniteSets, FiniteSetsExt

CONSTANTS
    Conns, NumSymbols, InitialWindow, InitialSsthresh, DecoderOutcomes,
    Priority,        \* Priority[c]: the priorityValue the symbols of c carry
    packetCapacity, WeightModulus,
    MaxESI,          \* bound: the symbols a sender ever sends
    MaxTrims         \* bound: symbols trimmed per connection

ASSUME TransfersAssumption ==
    /\ IsFiniteSet(Conns)
    /\ NumSymbols \in [Conns -> Nat \ {0}]
    /\ InitialWindow \in Nat \ {0} /\ InitialSsthresh \in Nat
    /\ DecoderOutcomes \subseteq {"success", "failure"}
(* The priorities the applications give their transfers.                   *)
ASSUME PriorityAssumption == Priority \in [Conns -> 0 .. 4]
ASSUME PortAssumption ==
    packetCapacity \in Nat /\ WeightModulus \in Nat /\ WeightModulus > 10
ASSUME BoundsAssumption ==
    MaxTrims \in Nat /\ MaxESI \in Nat /\ \A c \in Conns : NumSymbols[c] <= MaxESI

VARIABLES
    sender, receiver, pacer, pulls, decoding,    \* the hosts
    upstream,                                    \* upstream[c]: ESIs on their way to the port
    synAckQueue, headersQueue, dataQueue,        \* the port's queue
    weight, trimmed, pending, bypassed

hostVars == <<sender, receiver, pacer, pulls, decoding>>
queueVars ==
    <<synAckQueue, headersQueue, dataQueue, weight, trimmed, pending, bypassed>>
vars == <<hostVars, upstream, queueVars>>

Symbol == Conns \X (1 .. MaxESI)

(* The symbols the sender pushes unasked carry the SYN bit.                *)
SymbolKind ==
    [s \in Symbol |-> IF s[2] <= InitialWindow /\ s[2] <= NumSymbols[s[1]]
                      THEN "syn" ELSE "data"]

SymbolPriority == [s \in Symbol |-> Priority[s[1]]]

Port ==
    INSTANCE RaqsacSwitchQueue WITH
        Packet <- Symbol,
        Kind <- SymbolKind,
        Priority <- SymbolPriority

ESIs(symbols, c) == {s[2] : s \in {t \in symbols : t[1] = c}}

(* What RaqsacTransport calls the network is upstream and the queue; the   *)
(* symbols pushed that neither wait nor were popped are those it lost.     *)
Lost == pending \ Port!Waiting

Hosts ==
    INSTANCE RaqsacTransport WITH
        Discardable <- {c \in Conns : Priority[c] = 1},
        MaxDiscards <- MaxESI,
        data <- [c \in Conns |-> upstream[c] \cup ESIs(Port!Waiting \ trimmed, c)],
        headers <- [c \in Conns |-> ESIs(trimmed, c)],
        discarded <- [c \in Conns |-> Cardinality(ESIs(Lost, c))]

-----------------------------------------------------------------------------
Init ==
    /\ upstream = [c \in Conns |-> {}]
    /\ Port!Init
    /\ Hosts!Init

SendInitialWindow(c) ==
    /\ Hosts!OpenSender(c)
    /\ upstream' = [upstream EXCEPT ![c] = 1 .. Hosts!PushedWindow(c)]
    /\ UNCHANGED <<receiver, pacer, pulls, decoding, queueVars>>

RcvPull(c, pull) ==
    /\ sender[c].esi + Hosts!RequestsGap(c, pull) <= MaxESI
    /\ Hosts!AnswerPull(c, pull)
    /\ upstream' = [upstream EXCEPT ![c] = @ \cup Hosts!Answers(c, pull)]
    /\ UNCHANGED <<receiver, pacer, decoding, queueVars>>

MayTrim(c) ==
    Cardinality(ESIs(trimmed, c)) + receiver[c].numRcvTrimmedHeader < MaxTrims

(* A symbol arrives at the port.                                           *)
Push(c, esi) ==
    /\ esi \in upstream[c]
    /\ Port!IsFull /\ SymbolKind[<<c, esi>>] = "data" => MayTrim(c)
    /\ upstream' = [upstream EXCEPT ![c] = @ \ {esi}]
    /\ Port!PushPacket(<<c, esi>>)
    /\ UNCHANGED hostVars

(* The port's link is idle: what its queue pops reaches the host.          *)
Pop ==
    /\ Port!PopPacket
    /\ \E s \in pending \ pending' :
           IF s \in trimmed
           THEN Hosts!ReceiveHeader(s[1], s[2])
           ELSE Hosts!ReceiveSymbol(s[1], s[2])
    /\ UNCHANGED <<sender, pulls, decoding, upstream>>

TimerExpires ==
    /\ pacer.timer = "scheduled"
    /\ Hosts!PaceRequests
    /\ UNCHANGED <<sender, decoding, upstream, queueVars>>

Next ==
    \/ \E c \in Conns :
        \/ SendInitialWindow(c)
        \/ \E pull \in pulls[c] : RcvPull(c, pull)
        \/ \E esi \in upstream[c] : Push(c, esi)
    \/ Pop
    \/ TimerExpires

(* Packets on their way arrive, and an idle link asks its queue for more.  *)
Fairness ==
    /\ \A c \in Conns : WF_vars(\E esi \in upstream[c] : Push(c, esi))
    /\ WF_queueVars(Port!PopPacket)

Spec == Init /\ [][Next]_vars

FairSpec == Spec /\ Fairness

-----------------------------------------------------------------------------
(* Properties.                                                             *)

(* The port is a network RaqsacTransport allows for: every step of hosts   *)
(* and port is one of its steps or changes nothing it can see.  In         *)
(* particular the queue never trims or loses a SYN symbol, trims no symbol *)
(* of priority 1 and loses no other, and hands on each symbol once.        *)
ImplementsTransport == Hosts!Spec

(* The symbols under way by the receivers' own books.                      *)
BookedInWindow(c) ==
    IF sender[c].opened
    THEN receiver[c].sentPullsInWindow - (InitialWindow - Hosts!PushedWindow(c))
    ELSE 0

(* The port trims or loses a symbol only when the windows of the host's    *)
(* connections together let out more than its memory holds: the books the  *)
(* receivers keep never understate the load of the port they share.        *)
OverloadIsBooked ==
    [][trimmed' \ trimmed # {} \/ Lost' # Lost =>
            MapThenSumSet(BookedInWindow, Conns) > packetCapacity]_vars

(* Every symbol sent reaches the host, as itself or as a header, or was of *)
(* priority 1 and lost: no priority and no header keeps another symbol in  *)
(* the port for ever.  Transfers are finite, so both run empty for good.   *)
EverySymbolLeaves ==
    \A c \in Conns : <>[](upstream[c] = {} /\ ESIs(Port!Waiting, c) = {})
=============================================================================
