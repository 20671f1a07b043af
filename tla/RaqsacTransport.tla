--------------------------- MODULE RaqsacTransport ---------------------------
(***************************************************************************)
(* The RaQSac pull transport as one receiving host sees it: every          *)
(* connection in Conns has a sender of its own and ends at this host,      *)
(* whose connections share one request pacer (the requestTimer of class    *)
(* Raqsac).  A sender pushes an initial window of encoding symbols; from   *)
(* then on it sends one symbol for every pull the receiver's pacer lets    *)
(* out.  The network may reorder packets, an overloaded switch queue trims *)
(* a symbol to its header, and it discards symbols of priority 1.          *)
(*                                                                         *)
(* Symbols are their ESI, pulls are [seq, fin] records; time is abstract:  *)
(* a scheduled timer may expire at any moment.  Fields and operators keep  *)
(* the names of RaqsacStateVariables and of the methods they stand for.    *)
(* A definition X_Mistake is a wrong variant of X that no specification    *)
(* uses: replacing X by it must violate one of the properties.             *)
(***************************************************************************)
EXTENDS Integers, Sequences, FiniteSets

CONSTANTS
    Conns,            \* the connections of the receiving host
    NumSymbols,       \* NumSymbols[c]: numSymbolsToSend of c's application
    InitialWindow,    \* parameter initialWindow of Raqsac.ned
    InitialSsthresh,  \* parameter ssthresh of Raqsac.ned
    DecoderOutcomes,  \* what the draw of isDecoderSuccessful may come to
    Discardable,      \* the connections of priority 1: switches discard, not trim
    MaxTrims,         \* bound: symbols trimmed per connection
    MaxDiscards       \* bound: symbols discarded per connection

ASSUME NumSymbolsAssumption == NumSymbols \in [Conns -> Nat \ {0}]
ASSUME InitialWindowAssumption == InitialWindow \in Nat \ {0}
ASSUME InitialSsthreshAssumption == InitialSsthresh \in Nat
ASSUME DecoderAssumption == DecoderOutcomes \subseteq {"success", "failure"}
ASSUME NetworkAssumption ==
    Discardable \subseteq Conns /\ MaxTrims \in Nat /\ MaxDiscards \in Nat

VARIABLES
    sender,     \* [Conns -> Sender]
    receiver,   \* [Conns -> Receiver]
    pacer,      \* the host's request pacer
    data,       \* data[c]: ESIs of c's symbols in flight
    headers,    \* headers[c]: ESIs of c's trimmed headers in flight
    pulls,      \* pulls[c]: pull packets in flight to c's sender
    discarded,  \* discarded[c]: symbols of c the network discarded
    decoding    \* outcome of every draw of isDecoderSuccessful

vars ==
    <<sender, receiver, pacer, data, headers, pulls, discarded, decoding>>

Pull == [seq : Nat \ {0}, fin : BOOLEAN]

Sender == [opened : BOOLEAN, esi : Nat, request_id : Nat, connFinished : BOOLEAN]

Receiver ==
    [fsm : {"LISTEN", "ESTABLISHED"},
     numPacketsToGet : Nat, numberReceivedPackets : Nat, numRcvTrimmedHeader : Nat,
     esi : Nat, request_id : Nat, pullQueue : Seq(Pull),
     cwnd : Nat \ {0}, ssthresh : Nat, receivedPacketsInWindow : Nat,
     sentPullsInWindow : Int, sendPulls : BOOLEAN, connNotAddedYet : BOOLEAN,
     redoDecoding : BOOLEAN, connFinished : BOOLEAN,
     isfinalReceivedPrintedOut : BOOLEAN]

(***************************************************************************)
(* timer: "idle" (the requestTimer is owned by the host and not scheduled),*)
(* "scheduled", or "lost": cancelled from a connection's method, which     *)
(* makes the connection its owner, and requestTimer() never schedules a    *)
(* timer the host does not own.                                            *)
(***************************************************************************)
Pacer ==
    [requestCONNMap : Seq(Conns), counter : Nat, nap : BOOLEAN,
     timer : {"idle", "scheduled", "lost"}, timerQueue : Nat]

(* The window a sender pushes unasked; all its symbols carry the SYN bit.  *)
PushedWindow(c) ==
    IF InitialWindow > NumSymbols[c] THEN NumSymbols[c] ELSE InitialWindow

IsSyn_FirstOnly(c, esi) == esi = 1
IsSyn(c, esi) == esi <= PushedWindow(c)

-----------------------------------------------------------------------------
(* The receiver's half of a connection, as functions of its state block r. *)

(* The state block after initConnection and process_OPEN_PASSIVE.          *)
ListeningReceiver ==
    [fsm |-> "LISTEN", numPacketsToGet |-> 0, numberReceivedPackets |-> 0,
     numRcvTrimmedHeader |-> 0, esi |-> 0, request_id |-> 0, pullQueue |-> <<>>,
     cwnd |-> InitialWindow, ssthresh |-> InitialSsthresh,
     receivedPacketsInWindow |-> 0, sentPullsInWindow |-> InitialWindow,
     sendPulls |-> TRUE, connNotAddedYet |-> TRUE, redoDecoding |-> FALSE,
     connFinished |-> FALSE, isfinalReceivedPrintedOut |-> FALSE]

(* A SYN symbol takes a listening connection to ESTABLISHED and tells it   *)
(* how many symbols to get and how large the pushed window was.            *)
ProcessSegmentInListen(r, c) ==
    [r EXCEPT !.fsm = "ESTABLISHED", !.numPacketsToGet = NumSymbols[c],
              !.cwnd = PushedWindow(c)]

(* The connection as it processes a segment, SYN handled; a segment without*)
(* SYN that reaches a listening connection is dropped.                     *)
Established(r, c) ==
    IF r.fsm = "LISTEN" THEN ProcessSegmentInListen(r, c) ELSE r

Dropped(r, syn) == r.fsm = "LISTEN" /\ ~syn

IsFin(r) == r.numberReceivedPackets >= r.numPacketsToGet + 2

AddRequestToPullsQueue(r) ==
    [r EXCEPT
        !.request_id = @ + 1,
        !.pullQueue = Append(@, [seq |-> r.request_id + 1, fin |-> IsFin(r)])]

WantedSymbols_NoOverhead(r) == r.numPacketsToGet
WantedSymbols(r) ==
    IF r.numRcvTrimmedHeader = 0 THEN r.numPacketsToGet ELSE r.numPacketsToGet + 2

CountSymbol(r) ==
    [r EXCEPT !.esi = @ + 1, !.numberReceivedPackets = @ + 1,
              !.receivedPacketsInWindow = @ + 1, !.sentPullsInWindow = @ - 1]

(* The window covers what is missing.                                      *)
WindowSuffices_Never(r) == FALSE
WindowSuffices(r) == r.numberReceivedPackets + r.cwnd > r.numPacketsToGet

OpenWindow_NotAtAll(r) == r
OpenWindow(r) == [r EXCEPT !.cwnd = @ + 1]

(* Stop pulling once the window suffices; until then open it by one, with  *)
(* each symbol below ssthresh and once a window above.                     *)
GrowWindow(r) ==
    LET slowStart == r.cwnd < r.ssthresh
        windowDone == r.receivedPacketsInWindow % r.cwnd = 0
    IN  IF ~r.sendPulls THEN r
        ELSE IF WindowSuffices(r) THEN [r EXCEPT !.sendPulls = FALSE]
        ELSE IF slowStart THEN AddRequestToPullsQueue(OpenWindow(r))
        ELSE IF windowDone
        THEN AddRequestToPullsQueue(
                 [OpenWindow(r) EXCEPT !.receivedPacketsInWindow = 0])
        ELSE r

(* More symbols than wanted have arrived: the connection is finished.      *)
Overrun_AtWanted(r) ==
    r.numberReceivedPackets >= WantedSymbols(r) /\ ~r.redoDecoding
Overrun(r) == r.numberReceivedPackets > WantedSymbols(r) /\ ~r.redoDecoding

(* A pull for the symbol that arrived; r.esi follows the highest ESI seen. *)
ReplaceSymbol_AheadOnly(r, esi) ==
    IF r.sendPulls /\ r.numberReceivedPackets < WantedSymbols(r) /\ esi > r.esi
    THEN AddRequestToPullsQueue([r EXCEPT !.esi = esi])
    ELSE r

ReplaceSymbol(r, esi) ==
    IF ~r.sendPulls \/ r.connFinished \/ r.numberReceivedPackets >= WantedSymbols(r)
    THEN r
    ELSE CASE esi > r.esi -> AddRequestToPullsQueue([r EXCEPT !.esi = esi])
           [] esi < r.esi -> AddRequestToPullsQueue([r EXCEPT !.esi = @ - 1])
           [] OTHER ->
                IF r.numberReceivedPackets <= WantedSymbols(r) - InitialWindow
                THEN AddRequestToPullsQueue(r)
                ELSE r

(* Each draw starts a generator with the same seed, so that all draws of a *)
(* simulation agree; what they come to is up to the C++ library.           *)
IsDecoderSuccessful(r) == r.numRcvTrimmedHeader = 0 \/ decoding = "success"

(* With the wanted symbols decode and report PEER_CLOSED, once; after a    *)
(* failure pull one more symbol and take it for enough.                    *)
Decode(r) ==
    IF \/ r.isfinalReceivedPrintedOut
       \/ ~(\/ r.numberReceivedPackets = WantedSymbols(r)
            \/ r.connFinished
            \/ r.redoDecoding)
    THEN r
    ELSE IF IsDecoderSuccessful(r) \/ r.redoDecoding
    THEN [r EXCEPT !.isfinalReceivedPrintedOut = TRUE]
    ELSE [AddRequestToPullsQueue(r) EXCEPT !.redoDecoding = TRUE]

(* The first packet of a connection enters it into requestCONNMap.         *)
Registers(r, count) == r.numberReceivedPackets = count /\ r.connNotAddedYet

Register(r, count) ==
    IF Registers(r, count) THEN [r EXCEPT !.connNotAddedYet = FALSE] ELSE r

(* The branch "symbol arrived at the receiver", in the order of the code.  *)
ArriveSymbol(r, esi) ==
    LET grown == GrowWindow(CountSymbol(r))
    IN  IF Overrun(grown)
        THEN [grown EXCEPT !.connFinished = TRUE]
        ELSE Decode(Register(ReplaceSymbol(grown, esi), 1))

Half(window) == IF window \div 2 = 0 THEN 1 ELSE window \div 2

CountHeader_KeepsCredit(r) == [r EXCEPT !.numRcvTrimmedHeader = @ + 1]
CountHeader(r) ==
    [r EXCEPT !.sentPullsInWindow = @ - 1, !.numRcvTrimmedHeader = @ + 1]

(* The branch "HEADER arrived": halve the window, and pull a replacement   *)
(* unless the pulls already sent fill the halved window.                   *)
HalveWindow(r) ==
    LET half == Half(r.cwnd)
    IN  [CountHeader(r) EXCEPT
            !.cwnd = half, !.ssthresh = half,
            !.receivedPacketsInWindow = IF @ + 1 >= half THEN 0 ELSE @ + 1]

ArriveHeader(r) ==
    LET halved == HalveWindow(r)
    IN  Register(IF halved.sentPullsInWindow < halved.cwnd
                 THEN AddRequestToPullsQueue(halved)
                 ELSE halved, 0)

-----------------------------------------------------------------------------
(* The request pacer of the host, as functions of its state p.             *)

(* n calls of requestTimer(): an idle timer is scheduled, every further    *)
(* request waits in timerQueue.                                            *)
RequestTimer(p, n) ==
    IF p.timer = "idle" /\ n > 0
    THEN [p EXCEPT !.timer = "scheduled", !.timerQueue = @ + n - 1]
    ELSE [p EXCEPT !.timerQueue = @ + n]

(* cancelRequestTimer() out of a connection's method: the cancelled timer  *)
(* message becomes the connection's and is lost to the host.               *)
CancelRequestTimer_Never(p) == p
CancelRequestTimer(p) ==
    IF p.timer = "scheduled" THEN [p EXCEPT !.timer = "lost"] ELSE p

Registered(p) == {p.requestCONNMap[i] : i \in DOMAIN p.requestCONNMap}

AllPullQueuesEmpty(p, rcv) == \A c \in Registered(p) : rcv[c].pullQueue = <<>>

AllConnFinished_Some(p, rcv) == \E c \in Registered(p) : rcv[c].connFinished
AllConnFinished(p, rcv) == \A c \in Registered(p) : rcv[c].connFinished

(* How often a handler that took c from r to s asks for the timer with its *)
(* new pulls.                                                              *)
NapRequests(r, s) == IF pacer.nap THEN s.request_id - r.request_id ELSE 0

(* The pacer after a handler took connection c from state r to rcv[c]:     *)
(* every new pull asks for the timer while the pacer naps, a registration  *)
(* asks for it when some pull waits (the first packet is never the one a   *)
(* decoder fails on), and a handler that finds c finished may cancel it.   *)
PacerAfter(c, r, rcv, registers, finishing) ==
    LET added == IF registers
                 THEN [pacer EXCEPT !.requestCONNMap = Append(@, c)]
                 ELSE pacer
        byFirst == IF registers /\ ~AllPullQueuesEmpty(added, rcv) THEN 1 ELSE 0
        requested == RequestTimer(added, NapRequests(r, rcv[c]) + byFirst)
    IN  IF finishing /\ AllConnFinished(requested, rcv)
        THEN CancelRequestTimer(requested)
        ELSE requested

-----------------------------------------------------------------------------
Init ==
    /\ sender = [c \in Conns |-> [opened |-> FALSE, esi |-> 0, request_id |-> 0,
                                  connFinished |-> FALSE]]
    /\ receiver = [c \in Conns |-> ListeningReceiver]
    /\ pacer = [requestCONNMap |-> <<>>, counter |-> 0, nap |-> FALSE,
                timer |-> "idle", timerQueue |-> 0]
    /\ data = [c \in Conns |-> {}]
    /\ headers = [c \in Conns |-> {}]
    /\ pulls = [c \in Conns |-> {}]
    /\ discarded = [c \in Conns |-> 0]
    /\ decoding \in DecoderOutcomes

(* The client application connects: process_OPEN_ACTIVE establishes the    *)
(* connection at once and pushes the initial window.                       *)
OpenSender(c) ==
    /\ ~sender[c].opened
    /\ sender' = [sender EXCEPT ![c].opened = TRUE, ![c].esi = PushedWindow(c)]

SendInitialWindow(c) ==
    /\ OpenSender(c)
    /\ data' = [data EXCEPT ![c] = 1 .. PushedWindow(c)]
    /\ UNCHANGED <<receiver, pacer, headers, pulls, discarded, decoding>>

(* How many pulls up to this one the sender has not answered yet; none when*)
(* a later pull has overtaken it.                                          *)
RequestsGap_AtLeastOne(c, pull) ==
    IF pull.seq > sender[c].request_id THEN pull.seq - sender[c].request_id ELSE 1
RequestsGap(c, pull) ==
    IF pull.seq > sender[c].request_id THEN pull.seq - sender[c].request_id ELSE 0

(* A pull reaches the sender: it sends a symbol for every unanswered pull  *)
(* up to this one.                                                         *)
AnswerPull(c, pull) ==
    LET new == RequestsGap(c, pull)
    IN  /\ pull \in pulls[c]
        /\ pulls' = [pulls EXCEPT ![c] = @ \ {pull}]
        /\ sender' = [sender EXCEPT ![c].esi = @ + new,
                                    ![c].request_id = @ + new,
                                    ![c].connFinished = @ \/ pull.fin]

Answers(c, pull) == (sender[c].esi + 1) .. (sender[c].esi + RequestsGap(c, pull))

RcvPull(c, pull) ==
    /\ AnswerPull(c, pull)
    /\ data' = [data EXCEPT ![c] = @ \cup Answers(c, pull)]
    /\ UNCHANGED <<receiver, pacer, headers, discarded, decoding>>

(* A symbol reaches the receiver.                                          *)
ReceiveSymbol(c, esi) ==
    LET r == Established(receiver[c], c)
        counted == GrowWindow(CountSymbol(r))
    IN  IF Dropped(receiver[c], IsSyn(c, esi))
        THEN UNCHANGED <<receiver, pacer>>
        ELSE /\ receiver' = [receiver EXCEPT ![c] = ArriveSymbol(r, esi)]
             /\ pacer' = PacerAfter(c, r, receiver',
                              ~Overrun(counted) /\ Registers(counted, 1),
                              Overrun(counted))

RcvSymbol(c, esi) ==
    /\ esi \in data[c]
    /\ data' = [data EXCEPT ![c] = @ \ {esi}]
    /\ ReceiveSymbol(c, esi)
    /\ UNCHANGED <<sender, headers, pulls, discarded, decoding>>

(* A trimmed header reaches the receiver.                                  *)
ReceiveHeader(c, esi) ==
    LET r == Established(receiver[c], c)
    IN  IF Dropped(receiver[c], IsSyn(c, esi))
        THEN UNCHANGED <<receiver, pacer>>
        ELSE /\ receiver' = [receiver EXCEPT ![c] = ArriveHeader(r)]
             /\ pacer' = PacerAfter(c, r, receiver', Registers(r, 0), FALSE)

RcvHeader(c, esi) ==
    /\ esi \in headers[c]
    /\ headers' = [headers EXCEPT ![c] = @ \ {esi}]
    /\ ReceiveHeader(c, esi)
    /\ UNCHANGED <<sender, data, pulls, discarded, decoding>>

(* The position the round robin over requestCONNMap serves: the first one  *)
(* from counter on, cyclically, whose pull queue is not empty.             *)
IsNextInTurn_FromFirst(i) ==
    LET waits(j) == receiver[pacer.requestCONNMap[j]].pullQueue # <<>>
    IN  waits(i) /\ \A j \in 1 .. Len(pacer.requestCONNMap) : waits(j) => i <= j

IsNextInTurn(i) ==
    LET size == Len(pacer.requestCONNMap)
        turn(j) == (j - 1 - pacer.counter + size) % size
        waits(j) == receiver[pacer.requestCONNMap[j]].pullQueue # <<>>
    IN  /\ waits(i)
        /\ \A j \in 1 .. size : waits(j) => turn(i) <= turn(j)

SendPull_Newest(c) ==
    LET queue == receiver[c].pullQueue
    IN  /\ receiver' = [receiver EXCEPT
                ![c].pullQueue = SubSeq(queue, 1, Len(queue) - 1),
                ![c].sentPullsInWindow = @ + 1]
        /\ pulls' = [pulls EXCEPT ![c] = @ \cup {queue[Len(queue)]}]

(* sendRequestFromPullsQueue: the oldest pull of connection c leaves.      *)
SendPull(c) ==
    /\ receiver' = [receiver EXCEPT ![c].pullQueue = Tail(@),
                                    ![c].sentPullsInWindow = @ + 1]
    /\ pulls' = [pulls EXCEPT ![c] = @ \cup {Head(receiver[c].pullQueue)}]

(* Once the timer has expired and one more request is waiting, the waiting *)
(* request takes the timer.                                                *)
NextRequest_Unguarded(p) ==
    IF p.timer = "idle"
    THEN [p EXCEPT !.timer = "scheduled", !.timerQueue = @ - 1]
    ELSE p
NextRequest(p) ==
    IF p.timerQueue > 0 /\ p.timer = "idle"
    THEN [p EXCEPT !.timer = "scheduled", !.timerQueue = @ - 1]
    ELSE p

(* The requestTimer expires: nothing to do once every connection finished, *)
(* a nap when no pull waits, otherwise one pull leaves and the timer is    *)
(* requested again.                                                        *)
PaceRequests ==
    LET expired == [pacer EXCEPT !.timer = "idle"]
    IN  \/ /\ AllConnFinished(pacer, receiver)
           /\ pacer' = NextRequest(expired)
           /\ UNCHANGED <<receiver, pulls>>
        \/ /\ ~AllConnFinished(pacer, receiver)
           /\ AllPullQueuesEmpty(pacer, receiver)
           /\ pacer' = NextRequest([expired EXCEPT !.nap = TRUE])
           /\ UNCHANGED <<receiver, pulls>>
        \/ /\ ~AllConnFinished(pacer, receiver)
           /\ \E i \in DOMAIN pacer.requestCONNMap :
                 /\ IsNextInTurn(i)
                 /\ SendPull(pacer.requestCONNMap[i])
                 /\ pacer' = NextRequest(RequestTimer(
                         [expired EXCEPT !.nap = FALSE, !.counter = i], 1))

TimerExpires ==
    /\ pacer.timer = "scheduled"
    /\ PaceRequests
    /\ UNCHANGED <<sender, data, headers, discarded, decoding>>

(* The network: an overloaded switch queue trims a symbol to its header,   *)
(* or discards it when the connection has priority 1.  SYN symbols travel  *)
(* in a queue of their own that is never overloaded.                       *)
TrimSymbol(c, esi) ==
    /\ esi \in data[c] /\ ~IsSyn(c, esi) /\ c \notin Discardable
    /\ Cardinality(headers[c]) + receiver[c].numRcvTrimmedHeader < MaxTrims
    /\ data' = [data EXCEPT ![c] = @ \ {esi}]
    /\ headers' = [headers EXCEPT ![c] = @ \cup {esi}]
    /\ UNCHANGED <<sender, receiver, pacer, pulls, discarded, decoding>>

DiscardSymbol(c, esi) ==
    /\ esi \in data[c] /\ ~IsSyn(c, esi) /\ c \in Discardable
    /\ discarded[c] < MaxDiscards
    /\ data' = [data EXCEPT ![c] = @ \ {esi}]
    /\ discarded' = [discarded EXCEPT ![c] = @ + 1]
    /\ UNCHANGED <<sender, receiver, pacer, headers, pulls, decoding>>

Network(c) == \E esi \in data[c] : TrimSymbol(c, esi) \/ DiscardSymbol(c, esi)

Next ==
    \/ \E c \in Conns :
        \/ SendInitialWindow(c)
        \/ \E pull \in pulls[c] : RcvPull(c, pull)
        \/ \E esi \in data[c] : RcvSymbol(c, esi)
        \/ \E esi \in headers[c] : RcvHeader(c, esi)
        \/ Network(c)
    \/ TimerExpires

(* The simulator delivers every scheduled event: clients connect, packets  *)
(* arrive, a scheduled timer expires.  Nothing forces a queue to overflow. *)
Fairness ==
    /\ \A c \in Conns :
        /\ WF_vars(SendInitialWindow(c))
        /\ WF_vars(\E pull \in pulls[c] : RcvPull(c, pull))
        /\ WF_vars(\E esi \in data[c] : RcvSymbol(c, esi))
        /\ WF_vars(\E esi \in headers[c] : RcvHeader(c, esi))
    /\ WF_vars(TimerExpires)

Spec == Init /\ [][Next]_vars

FairSpec == Spec /\ Fairness

-----------------------------------------------------------------------------
(* Properties.                                                             *)

PullsSent(c) == receiver[c].request_id - Len(receiver[c].pullQueue)

Outstanding(c) ==
    Cardinality(data[c]) + Cardinality(headers[c]) + discarded[c]

(* Every counter stays in its range; in particular a halved window is      *)
(* never 0, so that the modulus of processSegment1stThru8th is defined.    *)
TypeOK ==
    /\ sender \in [Conns -> Sender]
    /\ receiver \in [Conns -> Receiver]
    /\ pacer \in Pacer
    /\ data \in [Conns -> SUBSET Nat]
    /\ headers \in [Conns -> SUBSET Nat]
    /\ pulls \in [Conns -> SUBSET Pull]
    /\ discarded \in [Conns -> Nat]
    /\ decoding \in {"success", "failure"}

(* The pull queue holds the newest pulls in the order of their sequence    *)
(* numbers without a hole, every pull in flight is older than any of them, *)
(* and the sender never counts a request the receiver has not sent:        *)
(* the sender's request gap is the number of pulls it has not answered.    *)
PullOrder ==
    \A c \in Conns :
        /\ \A i \in DOMAIN receiver[c].pullQueue :
              receiver[c].pullQueue[i].seq = PullsSent(c) + i
        /\ \A pull \in pulls[c] : pull.seq <= PullsSent(c)
        /\ sender[c].request_id <= PullsSent(c)

(* A sender never sends a symbol nobody asked for: the pushed window apart,*)
(* each symbol answers a pull of its own, whatever pulls overtake others.  *)
NoUnsolicitedSymbol ==
    \A c \in Conns : sender[c].esi <= PushedWindow(c) + PullsSent(c)

(* sentPullsInWindow, which the header branch compares with the window,    *)
(* counts the symbols that may still arrive: pulls sent and not answered,  *)
(* symbols and headers in flight, and symbols discarded for good.  It is   *)
(* off by what the pushed window falls short of initialWindow.             *)
WindowAccounting ==
    \A c \in Conns : sender[c].opened =>
        receiver[c].sentPullsInWindow =
            (InitialWindow - PushedWindow(c))
            + (PullsSent(c) - sender[c].request_id) + Outstanding(c)

(* Until a header arrives the pulls sent and queued stay within the        *)
(* congestion window.                                                      *)
WindowLimit ==
    \A c \in Conns :
        receiver[c].fsm = "ESTABLISHED" /\ receiver[c].numRcvTrimmedHeader = 0 =>
            receiver[c].sentPullsInWindow + Len(receiver[c].pullQueue)
                <= receiver[c].cwnd + (InitialWindow - PushedWindow(c))

(* While nothing is trimmed the receiver asks for at most one symbol more  *)
(* than the application sends, however symbols are reordered.              *)
BoundedOverhead ==
    \A c \in Conns : receiver[c].numRcvTrimmedHeader = 0 =>
        PushedWindow(c) + receiver[c].request_id <= NumSymbols[c] + 1

(* PEER_CLOSED is reported with all the source symbols received or, once a *)
(* header arrived, with the two symbols of overhead the decoder needs.     *)
ClosedWhenDecodable ==
    [][\A c \in Conns :
        ~receiver[c].isfinalReceivedPrintedOut
        /\ receiver'[c].isfinalReceivedPrintedOut =>
            \/ receiver'[c].numberReceivedPackets >= NumSymbols[c] + 2
            \/ receiver'[c].numberReceivedPackets >= NumSymbols[c]
               /\ receiver'[c].numRcvTrimmedHeader = 0]_vars

(* A connection that counts as finished has reported PEER_CLOSED, although *)
(* the branch that finishes it skips the report.                           *)
FinishedAfterClosed ==
    \A c \in Conns :
        receiver[c].connFinished => receiver[c].isfinalReceivedPrintedOut

(* Nothing a listening connection would drop is ever in flight to one: a   *)
(* symbol without SYN or a header cannot overtake the whole first window.  *)
NothingToDropInListen ==
    \A c \in Conns : receiver[c].fsm = "LISTEN" =>
        headers[c] = {} /\ \A esi \in data[c] : IsSyn(c, esi)

(* Nothing more will happen to a connection that has not reported.  Pulls  *)
(* that are queued and not sent are no stall: they are the pacer's, see    *)
(* PacerAliveUntilOutage and PullsServed of RaqsacOutage.                  *)
Stalled(c) ==
    /\ sender[c].opened
    /\ ~receiver[c].isfinalReceivedPrintedOut
    /\ data[c] = {} /\ headers[c] = {} /\ pulls[c] = {}
    /\ receiver[c].pullQueue = <<>>

(* A transfer runs dry only if a queue discarded a symbol of it, or for    *)
(* want of trimmed ones: the header branch leaves a header without a pull  *)
(* when enough others are out, but each source symbol that is missing then *)
(* was asked for and came as a header.                                     *)
StallsOnlyForTrimmed ==
    \A c \in Conns : Stalled(c) =>
        \/ discarded[c] > 0
        \/ /\ receiver[c].numRcvTrimmedHeader > 0
           /\ receiver[c].numberReceivedPackets
                + receiver[c].numRcvTrimmedHeader >= NumSymbols[c]

(* How many positions the round robin passes before it serves c.           *)
Turn(c) ==
    LET size == Len(pacer.requestCONNMap)
        at == CHOOSE i \in 1 .. size : pacer.requestCONNMap[i] = c
    IN  (at - 1 - pacer.counter + size) % size

(* A pull that leaves brings every other waiting connection nearer to its  *)
(* turn, so that no connection starves another.                            *)
ServedInTurn ==
    [][\A c, d \in Registered(pacer) :
        /\ c # d /\ receiver[c].pullQueue # <<>>
        /\ Len(receiver'[d].pullQueue) < Len(receiver[d].pullQueue)
        => Turn(c)' < Turn(c)]_vars

(* A trimmed header is answered with a request, as the comment above the   *)
(* header branch has it.                                                   *)
HeaderTriggersRequest ==
    [][\A c \in Conns :
        receiver'[c].numRcvTrimmedHeader > receiver[c].numRcvTrimmedHeader =>
            receiver'[c].request_id > receiver[c].request_id]_vars

(* The only transfer of a host is eventually reported complete, if nothing *)
(* is trimmed or discarded (MaxTrims = MaxDiscards = 0).  It is not so for *)
(* a connection that enters requestCONNMap after the others cancelled the  *)
(* timer of their host.                                                    *)
Completes ==
    \A c \in Conns :
        Conns = {c} => <>receiver[c].isfinalReceivedPrintedOut

(* The transport implements PullCredit: the pushed window and every pull   *)
(* sent are credit, a symbol that is trimmed or discarded never arrives.   *)
Credit ==
    INSTANCE PullCredit WITH
        Transfers <- Conns,
        Size <- NumSymbols,
        Initial <- [c \in Conns |-> PushedWindow(c)],
        granted <- [c \in Conns |-> PushedWindow(c) + PullsSent(c)],
        sent <- [c \in Conns |-> sender[c].esi],
        arrived <- [c \in Conns |-> receiver[c].numberReceivedPackets],
        complete <- [c \in Conns |-> receiver[c].isfinalReceivedPrintedOut]

ImplementsPullCredit == Credit!Spec
=============================================================================
