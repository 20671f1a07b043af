-------------------------- MODULE RaqsacOutageProofs --------------------------
(***************************************************************************)
(* Proofs about the request pacer of a host, first while its connections   *)
(* exist (the steps of RaqsacTransport), then through its outages.  The    *)
(* timer and requestCONNMap are tied to the state of every connection:     *)
(* PacerInv says when the timer may rest and who is in the table.          *)
(***************************************************************************)
EXTENDS RaqsacOutage, RaqsacTransportProofs

(* The pacer stays in one connection's hands only as long as it has a row. *)
EachOnce(p) ==
    /\ \A i, j \in DOMAIN p.requestCONNMap :
          p.requestCONNMap[i] = p.requestCONNMap[j] => i = j
    /\ p.counter <= Len(p.requestCONNMap)

(* A transfer whose pushed window is all of it is never pulled.            *)
NeverPulls(r, c) ==
    PushedWindow(c) = NumSymbols[c] =>
        r.request_id = 0 /\ r.numRcvTrimmedHeader = 0

(* Once finished, each further symbol takes the branch of Overrun.         *)
StaysFinished(r) ==
    r.connFinished =>
        r.numberReceivedPackets > WantedSymbols(r) /\ ~r.redoDecoding

(* What holds of a connection while the timer rests: it has no pull that   *)
(* counts, and its next pull will ask for the timer if one may come.       *)
Rests(r, p, c) ==
    /\ r.pullQueue = <<>> \/ r.connFinished
    /\ \/ p.nap \/ r.fsm = "LISTEN" \/ r.connFinished
       \/ PushedWindow(c) = NumSymbols[c]

PacerOf(r, p, c) ==
    /\ c \in Registered(p) <=> r.fsm = "ESTABLISHED"
    /\ r.connNotAddedYet => r.fsm = "LISTEN"
    /\ NeverPulls(r, c)
    /\ StaysFinished(r)
    /\ p.timer = "idle" => Rests(r, p, c)

(* A finished connection that got more than one header.                    *)
LateHeader(r) == r.connFinished /\ r.numRcvTrimmedHeader >= 2

(* A timer runs for an unfinished connection, or for a late header.        *)
RunsForSomebody(p, rcv) ==
    p.timer = "scheduled" /\ AllConnFinished(p, rcv) =>
        \E c \in Conns : LateHeader(rcv[c])

PacerInv ==
    /\ TransferInv
    /\ EachOnce(pacer)
    /\ \A c \in Conns : PacerOf(receiver[c], pacer, c)
    /\ RunsForSomebody(pacer, receiver)

-----------------------------------------------------------------------------
(* The flag connNotAddedYet, which only Register clears.                   *)

LEMMA AddRequestEntry ==
    ASSUME NEW r \in Receiver
    PROVE  AddRequestToPullsQueue(r).connNotAddedYet = r.connNotAddedYet
BY DEF AddRequestToPullsQueue, Receiver

LEMMA GrowWindowEntry ==
    ASSUME NEW r \in Receiver
    PROVE  GrowWindow(r).connNotAddedYet = r.connNotAddedYet
<1> DEFINE opened == OpenWindow(r)
           zeroed == [OpenWindow(r) EXCEPT !.receivedPacketsInWindow = 0]
<1>1. opened \in Receiver /\ zeroed \in Receiver
  BY OpenWindowType, SetReceivedInWindow
<1>2. /\ opened.connNotAddedYet = r.connNotAddedYet
      /\ zeroed.connNotAddedYet = r.connNotAddedYet
  BY DEF OpenWindow, Receiver
<1> HIDE DEF opened, zeroed
<1>3. /\ AddRequestToPullsQueue(opened).connNotAddedYet = r.connNotAddedYet
      /\ AddRequestToPullsQueue(zeroed).connNotAddedYet = r.connNotAddedYet
  BY <1>1, <1>2, AddRequestEntry
<1>4. [r EXCEPT !.sendPulls = FALSE].connNotAddedYet = r.connNotAddedYet
  BY DEF Receiver
<1>5. GrowWindow(r) \in {r, [r EXCEPT !.sendPulls = FALSE],
                         AddRequestToPullsQueue(opened),
                         AddRequestToPullsQueue(zeroed)}
  BY DEF GrowWindow, opened, zeroed
<1> QED
  BY <1>3, <1>4, <1>5

LEMMA ReplaceSymbolEntry ==
    ASSUME NEW r \in Receiver, NEW esi \in Nat
    PROVE  ReplaceSymbol(r, esi).connNotAddedYet = r.connNotAddedYet
<1> DEFINE ahead == [r EXCEPT !.esi = esi]
           behind == [r EXCEPT !.esi = @ - 1]
<1>1. ahead \in Receiver /\ ahead.connNotAddedYet = r.connNotAddedYet
  BY SetEsi DEF Receiver
<1>2. esi < r.esi => behind \in Receiver /\ behind.connNotAddedYet = r.connNotAddedYet
  <2>1. esi < r.esi => r.esi - 1 \in Nat
    BY ReceiverFields
  <2> QED
    BY <2>1, SetEsi DEF Receiver
<1>3. r.esi \in Nat
  BY ReceiverFields
<1> HIDE DEF ahead, behind
<1>4. \/ ReplaceSymbol(r, esi) = r
      \/ ReplaceSymbol(r, esi) = AddRequestToPullsQueue(ahead)
      \/ esi < r.esi /\ ReplaceSymbol(r, esi) = AddRequestToPullsQueue(behind)
      \/ ReplaceSymbol(r, esi) = AddRequestToPullsQueue(r)
  BY <1>3 DEF ReplaceSymbol, ahead, behind
<1> QED
  BY <1>1, <1>2, <1>4, AddRequestEntry

LEMMA DecodeEntry ==
    ASSUME NEW r \in Receiver
    PROVE  Decode(r).connNotAddedYet = r.connNotAddedYet
<1> DEFINE added == AddRequestToPullsQueue(r)
<1>1. added \in Receiver /\ added.connNotAddedYet = r.connNotAddedYet
  BY AddRequestType, AddRequestEntry
<1> HIDE DEF added
<1>2. /\ [added EXCEPT !.redoDecoding = TRUE].connNotAddedYet = r.connNotAddedYet
      /\ [r EXCEPT !.isfinalReceivedPrintedOut = TRUE].connNotAddedYet
            = r.connNotAddedYet
  BY <1>1 DEF Receiver
<1>3. Decode(r) \in {r, [r EXCEPT !.isfinalReceivedPrintedOut = TRUE],
                     [added EXCEPT !.redoDecoding = TRUE]}
  BY DEF Decode, added
<1> QED
  BY <1>2, <1>3

(* What ReceiveSymbol tells the pacer of the symbol that arrived.          *)
Finishing(r) == Overrun(GrowWindow(CountSymbol(r)))
Entering(r) == ~Finishing(r) /\ Registers(GrowWindow(CountSymbol(r)), 1)

LEMMA ArriveSymbolPacing ==
    ASSUME NEW r \in Receiver, NEW esi \in Nat
    PROVE  LET s == ArriveSymbol(r, esi)
           IN  /\ Finishing(r) <=> /\ r.numberReceivedPackets + 1 > WantedSymbols(r)
                                   /\ ~r.redoDecoding
               /\ Entering(r) <=> /\ ~Finishing(r)
                                  /\ r.numberReceivedPackets = 0
                                  /\ r.connNotAddedYet
               /\ Finishing(r) => s.connFinished
               /\ r.connFinished => s.connFinished
               /\ s.connNotAddedYet => r.connNotAddedYet /\ ~Entering(r)
<1> DEFINE counted == CountSymbol(r)
           g == GrowWindow(counted)
           p == ReplaceSymbol(g, esi)
           q == Register(p, 1)
           s == ArriveSymbol(r, esi)
<1>1. counted \in Receiver /\ r.numberReceivedPackets \in Nat
  BY CountSymbolType, ReceiverFields
<1>2. /\ counted.numberReceivedPackets = r.numberReceivedPackets + 1
      /\ counted.numRcvTrimmedHeader = r.numRcvTrimmedHeader
      /\ counted.numPacketsToGet = r.numPacketsToGet
      /\ SameVerdict(r, counted)
  BY CountSymbolEffect
<1>3. counted.connNotAddedYet = r.connNotAddedYet
  BY DEF CountSymbol, Receiver
<1>4. s = IF Overrun(g) THEN [g EXCEPT !.connFinished = TRUE] ELSE Decode(q)
  BY DEF ArriveSymbol
<1>5. Finishing(r) = Overrun(g) /\ Entering(r) = (~Overrun(g) /\ Registers(g, 1))
  BY DEF Finishing, Entering
<1> HIDE DEF counted
<1>6. /\ g \in Receiver /\ SameCounts(counted, g) /\ SameVerdict(counted, g)
      /\ g.connNotAddedYet = r.connNotAddedYet
  BY <1>1, <1>3, GrowWindowType, GrowWindowEffect, GrowWindowEntry
<1> HIDE DEF g
<1>7. /\ g.numberReceivedPackets = r.numberReceivedPackets + 1
      /\ WantedSymbols(g) = WantedSymbols(r)
      /\ SameVerdict(r, g)
  BY <1>2, <1>6 DEF SameCounts, SameVerdict, WantedSymbols
<1>8. /\ p \in Receiver /\ SameCounts(g, p) /\ SameVerdict(g, p)
      /\ p.connNotAddedYet = r.connNotAddedYet
  BY <1>6, ReplaceSymbolType, ReplaceSymbolEffect, ReplaceSymbolEntry
<1> HIDE DEF p
<1>9. Registers(p, 1) = Registers(g, 1)
  BY <1>6, <1>8 DEF Registers, SameCounts
<1>10. /\ q \in Receiver /\ SameVerdict(p, q)
       /\ q.connNotAddedYet => r.connNotAddedYet /\ ~Registers(p, 1)
  BY <1>8, RegisterType, RegisterEffect DEF Register, Receiver
<1> HIDE DEF q
<1>11. /\ Decode(q).connNotAddedYet = q.connNotAddedYet
       /\ Decode(q).connFinished = q.connFinished
  BY <1>10, DecodeEntry, DecodeEffect
<1>12. /\ [g EXCEPT !.connFinished = TRUE].connFinished = TRUE
       /\ [g EXCEPT !.connFinished = TRUE].connNotAddedYet = g.connNotAddedYet
  BY <1>6 DEF Receiver
<1>13. Overrun(g) <=> /\ r.numberReceivedPackets + 1 > WantedSymbols(r)
                      /\ ~r.redoDecoding
  BY <1>7 DEF Overrun, SameVerdict
<1>14. Registers(g, 1) <=> r.numberReceivedPackets = 0 /\ r.connNotAddedYet
  BY <1>1, <1>6, <1>7 DEF Registers
<1>15. q.connFinished = r.connFinished
  BY <1>7, <1>8, <1>10 DEF SameVerdict
<1> HIDE DEF s
<1>16. /\ Overrun(g) => s.connFinished
       /\ r.connFinished => s.connFinished
       /\ s.connNotAddedYet => r.connNotAddedYet /\ ~(~Overrun(g) /\ Registers(g, 1))
  BY <1>4, <1>6, <1>9, <1>10, <1>11, <1>12, <1>15
<1> QED
  BY <1>5, <1>13, <1>14, <1>16 DEF s

LEMMA ArriveHeaderEntry ==
    ASSUME NEW r \in Receiver
    PROVE  ArriveHeader(r).connNotAddedYet => r.connNotAddedYet
<1> DEFINE h == HalveWindow(r)
           p == IF h.sentPullsInWindow < h.cwnd
                THEN AddRequestToPullsQueue(h) ELSE h
<1>1. h \in Receiver
  BY HalveWindowType
<1>2. h.connNotAddedYet = r.connNotAddedYet
  BY DEF HalveWindow, CountHeader, Receiver
<1>3. ArriveHeader(r) = Register(p, 0)
  BY DEF ArriveHeader
<1> HIDE DEF h
<1>4. p \in Receiver /\ p.connNotAddedYet = r.connNotAddedYet
  BY <1>1, <1>2, AddRequestType, AddRequestEntry
<1> HIDE DEF p
<1> QED
  BY <1>3, <1>4 DEF Register, Receiver

-----------------------------------------------------------------------------
(* What the operators of the pacer do to the timer and the table.          *)

LEMMA RequestTimerEffect ==
    ASSUME NEW p \in Pacer, NEW n \in Nat
    PROVE  LET q == RequestTimer(p, n)
           IN  /\ q.requestCONNMap = p.requestCONNMap
               /\ q.counter = p.counter /\ q.nap = p.nap
               /\ q.timer = "idle" => p.timer = "idle" /\ n = 0
BY DEF RequestTimer, Pacer

LEMMA NextRequestEffect ==
    ASSUME NEW p \in Pacer
    PROVE  LET q == NextRequest(p)
           IN  /\ q.requestCONNMap = p.requestCONNMap
               /\ q.counter = p.counter /\ q.nap = p.nap
               /\ q.timer = "idle" => p.timer = "idle"
BY DEF NextRequest, Pacer

LEMMA CancelRequestTimerEffect ==
    ASSUME NEW p \in Pacer
    PROVE  LET q == CancelRequestTimer(p)
           IN  /\ q.requestCONNMap = p.requestCONNMap
               /\ q.counter = p.counter /\ q.nap = p.nap
               /\ q.timer = "idle" => p.timer = "idle"
               /\ q.timer # "scheduled"
BY DEF CancelRequestTimer, Pacer

LEMMA PacerAfterEffect ==
    ASSUME pacer \in Pacer, NEW c \in Conns, NEW r \in Receiver,
           NEW rcv \in [Conns -> Receiver], r.request_id <= rcv[c].request_id,
           NEW registers \in BOOLEAN, NEW finishing \in BOOLEAN
    PROVE  LET added == IF registers
                        THEN [pacer EXCEPT !.requestCONNMap = Append(@, c)]
                        ELSE pacer
               q == PacerAfter(c, r, rcv, registers, finishing)
           IN  /\ q.requestCONNMap = added.requestCONNMap
               /\ q.counter = pacer.counter /\ q.nap = pacer.nap
               /\ q.timer = "idle" =>
                     /\ pacer.timer = "idle"
                     /\ pacer.nap => rcv[c].request_id = r.request_id
                     /\ registers => AllPullQueuesEmpty(added, rcv)
               /\ finishing /\ AllConnFinished(q, rcv) => q.timer # "scheduled"
<1> DEFINE added == IF registers
                    THEN [pacer EXCEPT !.requestCONNMap = Append(@, c)]
                    ELSE pacer
           byFirst == IF registers /\ ~AllPullQueuesEmpty(added, rcv) THEN 1 ELSE 0
           n == NapRequests(r, rcv[c]) + byFirst
           requested == RequestTimer(added, n)
           q == PacerAfter(c, r, rcv, registers, finishing)
<1>1. /\ added \in Pacer
      /\ added.counter = pacer.counter /\ added.nap = pacer.nap
      /\ added.timer = pacer.timer
  BY DEF Pacer
<1>2. /\ r.request_id \in Nat /\ rcv[c].request_id \in Nat
      /\ NapRequests(r, rcv[c]) \in Nat
      /\ byFirst \in Nat
  <2>1. rcv[c] \in Receiver
    OBVIOUS
  <2>2. r.request_id \in Nat /\ rcv[c].request_id \in Nat
    BY <2>1, ReceiverFields
  <2> QED
    BY <2>2 DEF NapRequests
<1>3. n = 0 => /\ pacer.nap => rcv[c].request_id = r.request_id
               /\ registers => AllPullQueuesEmpty(added, rcv)
  BY <1>2 DEF NapRequests
<1>4. q = IF finishing /\ AllConnFinished(requested, rcv)
          THEN CancelRequestTimer(requested)
          ELSE requested
  BY DEF PacerAfter
<1>5. n \in Nat
  BY <1>2
<1> HIDE DEF added, n, q
<1>6. /\ requested \in Pacer
      /\ requested.requestCONNMap = added.requestCONNMap
      /\ requested.counter = pacer.counter /\ requested.nap = pacer.nap
      /\ requested.timer = "idle" => pacer.timer = "idle" /\ n = 0
  BY <1>1, <1>5, RequestTimerType, RequestTimerEffect
<1> HIDE DEF requested
<1>7. /\ q.requestCONNMap = requested.requestCONNMap
      /\ q.counter = requested.counter /\ q.nap = requested.nap
      /\ q.timer = "idle" => requested.timer = "idle"
      /\ finishing /\ AllConnFinished(requested, rcv) => q.timer # "scheduled"
  BY <1>4, <1>6, CancelRequestTimerEffect
<1>8. AllConnFinished(q, rcv) = AllConnFinished(requested, rcv)
  BY <1>7 DEF AllConnFinished, Registered
<1> QED
  BY <1>3, <1>6, <1>7, <1>8 DEF added, q

-----------------------------------------------------------------------------
(* The table of the round robin.                                           *)

LEMMA TableGrows ==
    ASSUME NEW p \in Pacer, NEW c \in Conns, c \notin Registered(p),
           EachOnce(p), NEW q \in Pacer,
           q.requestCONNMap = Append(p.requestCONNMap, c), q.counter = p.counter
    PROVE  EachOnce(q) /\ Registered(q) = Registered(p) \cup {c}
<1> DEFINE m == p.requestCONNMap
<1>1. /\ m \in Seq(Conns) /\ p.counter \in Nat
  BY DEF Pacer
<1>2. /\ Len(m) \in Nat /\ DOMAIN m = 1 .. Len(m)
      /\ DOMAIN q.requestCONNMap = 1 .. (Len(m) + 1)
      /\ Len(q.requestCONNMap) = Len(m) + 1
      /\ q.requestCONNMap[Len(m) + 1] = c
      /\ \A i \in 1 .. Len(m) : q.requestCONNMap[i] = m[i]
  BY <1>1
<1>3. \A i \in 1 .. Len(m) : m[i] # c
  BY <1>2 DEF Registered
<1>4. q.counter <= Len(q.requestCONNMap)
  BY <1>1, <1>2 DEF EachOnce
<1>5. ASSUME NEW i \in 1 .. (Len(m) + 1), NEW j \in 1 .. (Len(m) + 1),
             q.requestCONNMap[i] = q.requestCONNMap[j]
      PROVE  i = j
  <2>1. CASE i \in 1 .. Len(m) /\ j \in 1 .. Len(m)
    BY <1>2, <1>5, <2>1 DEF EachOnce
  <2>2. CASE i = Len(m) + 1 \/ j = Len(m) + 1
    BY <1>2, <1>3, <1>5, <2>2
  <2> QED
    BY <1>2, <2>1, <2>2
<1>6. Registered(q) = Registered(p) \cup {c}
  BY <1>2 DEF Registered
<1> QED
  BY <1>2, <1>4, <1>5, <1>6 DEF EachOnce

LEMMA SameTable ==
    ASSUME NEW p, NEW q, q.requestCONNMap = p.requestCONNMap
    PROVE  /\ Registered(q) = Registered(p)
           /\ EachOnce(p) /\ q.counter = p.counter => EachOnce(q)
BY DEF Registered, EachOnce

-----------------------------------------------------------------------------
(* A symbol at the receiver, for the pacer.                                *)

LEMMA PacerFacts ==
    ASSUME PacerInv, NEW c \in Conns
    PROVE  /\ TransferInv /\ pacer \in Pacer
           /\ receiver \in [Conns -> Receiver] /\ receiver[c] \in Receiver
           /\ PacerOf(receiver[c], pacer, c)
BY DEF PacerInv, TransferInv, PullInv, TypeOK

(* The connection as it processes a packet: it has an entry to make if and *)
(* only if it was listening, and then it has received nothing before.      *)
LEMMA EstablishedEntry ==
    ASSUME PacerInv, NEW c \in Conns
    PROVE  LET r == receiver[c]
               e == Established(r, c)
           IN  /\ e \in Receiver /\ Books(e, c) /\ e.fsm = "ESTABLISHED"
               /\ e.request_id = r.request_id /\ SameVerdict(r, e)
               /\ e.numRcvTrimmedHeader = r.numRcvTrimmedHeader
               /\ e.numberReceivedPackets = r.numberReceivedPackets
               /\ WantedSymbols(e) =
                     IF e.numRcvTrimmedHeader = 0 THEN NumSymbols[c]
                     ELSE NumSymbols[c] + 2
               /\ r.fsm = "LISTEN" =>
                     /\ r = ListeningReceiver
                     /\ e.connNotAddedYet /\ e.sendPulls
                     /\ e.numberReceivedPackets = 0 /\ e.request_id = 0
                     /\ e.numRcvTrimmedHeader = 0
                     /\ ~e.redoDecoding /\ e.cwnd = PushedWindow(c)
                     /\ e.numPacketsToGet = NumSymbols[c]
               /\ r.fsm # "LISTEN" => e = r /\ ~e.connNotAddedYet
<1> DEFINE r == receiver[c]
           e == Established(r, c)
<1>1. /\ r \in Receiver /\ Books(r, c) /\ PacerOf(r, pacer, c)
  BY PacerFacts, TransferFacts
<1>2. /\ e \in Receiver /\ Books(e, c) /\ e.fsm = "ESTABLISHED"
      /\ e.request_id = r.request_id /\ SameVerdict(r, e)
      /\ e.numRcvTrimmedHeader = r.numRcvTrimmedHeader
      /\ e.numberReceivedPackets = r.numberReceivedPackets
  BY <1>1, EstablishedType, EstablishedBooks, EstablishedCounts
<1>3. WantedSymbols(e) = IF e.numRcvTrimmedHeader = 0 THEN NumSymbols[c]
                         ELSE NumSymbols[c] + 2
  BY <1>2 DEF Books, KnowsSize, WantedSymbols
<1>4. r.fsm # "LISTEN" => e = r /\ ~e.connNotAddedYet
  BY <1>1 DEF Established, PacerOf
<1>5. ASSUME r.fsm = "LISTEN"
      PROVE  /\ r = ListeningReceiver
             /\ e.connNotAddedYet /\ e.sendPulls
             /\ e.numberReceivedPackets = 0 /\ e.request_id = 0
             /\ e.numRcvTrimmedHeader = 0
             /\ ~e.redoDecoding /\ e.cwnd = PushedWindow(c)
             /\ e.numPacketsToGet = NumSymbols[c]
  <2>1. r = ListeningReceiver
    BY <1>1, <1>5 DEF Books, Untouched
  <2>2. e = ProcessSegmentInListen(ListeningReceiver, c)
    BY <1>5, <2>1 DEF Established
  <2> QED
    BY <2>1, <2>2 DEF ProcessSegmentInListen, ListeningReceiver
<1> QED
  BY <1>2, <1>3, <1>4, <1>5

LEMMA SymbolPacing ==
    ASSUME PacerInv, NEW c \in Conns, NEW esi \in data[c], RcvSymbol(c, esi)
    PROVE  LET r == receiver[c]
               e == Established(r, c)
               s == ArriveSymbol(e, esi)
           IN  /\ receiver' = [receiver EXCEPT ![c] = s]
               /\ s \in Receiver /\ s.fsm = "ESTABLISHED"
               /\ pacer' = PacerAfter(c, e, receiver', Entering(e), Finishing(e))
               /\ Entering(e) <=> r.fsm = "LISTEN"
               /\ ~s.connNotAddedYet
               /\ r.connFinished => s.connFinished
               /\ s.connFinished => Finishing(e)
               /\ e.request_id <= s.request_id /\ Sent(s) = Sent(r)
<1> DEFINE r == receiver[c]
           e == Established(r, c)
           s == ArriveSymbol(e, esi)
<1>1. /\ TransferInv /\ PacerOf(r, pacer, c)
      /\ esi \in Nat /\ NumSymbols[c] \in Nat \ {0}
  BY PacerFacts, SizeType DEF TransferInv, PullInv, TypeOK
<1>2. ~Dropped(r, IsSyn(c, esi))
  BY <1>1, ListeningTransfer DEF Dropped
<1>3. /\ receiver' = [receiver EXCEPT ![c] = s]
      /\ pacer' = PacerAfter(c, e, receiver', Entering(e), Finishing(e))
  BY <1>2 DEF RcvSymbol, ReceiveSymbol, Entering, Finishing
<1>4. s \in Receiver /\ s.fsm = "ESTABLISHED" /\ Sent(s) = Sent(r)
  BY <1>1, SymbolArrives
<1>5. /\ e \in Receiver /\ Books(e, c)
      /\ SameVerdict(r, e)
      /\ WantedSymbols(e) = IF e.numRcvTrimmedHeader = 0 THEN NumSymbols[c]
                            ELSE NumSymbols[c] + 2
      /\ r.fsm = "LISTEN" => /\ e.connNotAddedYet /\ e.numberReceivedPackets = 0
                             /\ e.numRcvTrimmedHeader = 0 /\ ~e.redoDecoding
      /\ r.fsm # "LISTEN" => e = r /\ ~e.connNotAddedYet
  BY EstablishedEntry
<1> HIDE DEF e
<1>6. /\ Finishing(e) <=> /\ e.numberReceivedPackets + 1 > WantedSymbols(e)
                          /\ ~e.redoDecoding
      /\ Entering(e) <=> /\ ~Finishing(e)
                         /\ e.numberReceivedPackets = 0 /\ e.connNotAddedYet
      /\ e.connFinished => s.connFinished
      /\ s.connNotAddedYet => e.connNotAddedYet /\ ~Entering(e)
  BY <1>1, <1>5, ArriveSymbolPacing
<1>7. s.connFinished => e.connFinished \/ Finishing(e)
  BY <1>1, <1>5, <1>6, ArriveSymbolConcludes
<1>8. OnlyRequests(e, s)
  BY <1>1, <1>5, ArriveSymbolOnly
<1> HIDE DEF s
<1>9. e.numberReceivedPackets \in Nat /\ WantedSymbols(e) \in Nat
  BY <1>1, <1>5, ReceiverFields
<1>10. Entering(e) <=> r.fsm = "LISTEN"
  BY <1>1, <1>5, <1>6, <1>9
<1>11. e.connFinished => Finishing(e)
  <2>1. e.connFinished =>
            /\ r.fsm # "LISTEN"
            /\ e.numberReceivedPackets > WantedSymbols(e) /\ ~e.redoDecoding
    <3>1. r.fsm = "LISTEN" => ~r.connFinished
      BY EstablishedEntry DEF ListeningReceiver
    <3> QED
      BY <1>1, <1>5, <3>1 DEF PacerOf, StaysFinished, SameVerdict
  <2> QED
    BY <1>6, <1>9, <2>1
<1> QED
  BY <1>3, <1>4, <1>5, <1>6, <1>7, <1>8, <1>10, <1>11
     DEF OnlyRequests, SameVerdict, s, e

LEMMA SymbolKeepsFinished ==
    ASSUME PacerInv, NEW c \in Conns, NEW esi \in data[c], RcvSymbol(c, esi)
    PROVE  StaysFinished(ArriveSymbol(Established(receiver[c], c), esi))
<1> DEFINE e == Established(receiver[c], c)
           s == ArriveSymbol(e, esi)
<1>1. esi \in Nat
  BY DEF PacerInv, TransferInv, PullInv, TypeOK
<1>2. e \in Receiver /\ Books(e, c)
  BY EstablishedEntry
<1>3. s.connFinished => Finishing(e)
  BY SymbolPacing
<1> HIDE DEF e
<1>4. /\ Finishing(e) <=> /\ e.numberReceivedPackets + 1 > WantedSymbols(e)
                          /\ ~e.redoDecoding
      /\ s.numberReceivedPackets = e.numberReceivedPackets + 1
      /\ WantedSymbols(s) = WantedSymbols(e)
  BY <1>1, <1>2, ArriveSymbolPacing, ArriveSymbolCounts DEF WantedSymbols
<1>5. s.redoDecoding =>
          \/ e.redoDecoding
          \/ /\ ~e.isfinalReceivedPrintedOut
             /\ e.numberReceivedPackets + 1 = WantedSymbols(e) \/ e.connFinished
  BY <1>1, <1>2, ArriveSymbolConcludes
<1>6. e.connFinished => e.isfinalReceivedPrintedOut
  BY <1>2 DEF Books, Concludes
<1> HIDE DEF s
<1>7. e.numberReceivedPackets \in Nat /\ WantedSymbols(e) \in Int
  BY <1>2, ReceiverFields DEF WantedSymbols
<1> QED
  BY <1>3, <1>4, <1>5, <1>6, <1>7 DEF StaysFinished, s, e

(* A transfer pushed whole is not pulled; the first symbol of any other    *)
(* leads to a pull.                                                        *)
LEMMA SymbolPulls ==
    ASSUME PacerInv, NEW c \in Conns, NEW esi \in data[c], RcvSymbol(c, esi)
    PROVE  LET r == receiver[c]
               s == ArriveSymbol(Established(r, c), esi)
           IN  /\ NeverPulls(s, c)
               /\ r.fsm = "LISTEN" =>
                     s.request_id > 0 \/ PushedWindow(c) = NumSymbols[c]
<1> DEFINE r == receiver[c]
           e == Established(r, c)
           s == ArriveSymbol(e, esi)
           n == e.numberReceivedPackets
<1>1. /\ esi \in Nat /\ PacerOf(r, pacer, c)
      /\ NumSymbols[c] \in Nat \ {0} /\ PushedWindow(c) \in Nat \ {0}
      /\ PushedWindow(c) = InitialWindow \/ PushedWindow(c) = NumSymbols[c]
      /\ PushedWindow(c) <= NumSymbols[c]
      /\ InitialWindow \in Nat
  BY PacerFacts, SizeType, InitialWindowAssumption
     DEF TransferInv, PullInv, TypeOK
<1>2. /\ e \in Receiver /\ Books(e, c) /\ e.fsm = "ESTABLISHED"
      /\ e.request_id = r.request_id
      /\ e.numRcvTrimmedHeader = r.numRcvTrimmedHeader
      /\ WantedSymbols(e) = IF e.numRcvTrimmedHeader = 0 THEN NumSymbols[c]
                            ELSE NumSymbols[c] + 2
      /\ r.fsm = "LISTEN" =>
            /\ e.sendPulls /\ e.numRcvTrimmedHeader = 0
            /\ e.numberReceivedPackets = 0 /\ e.cwnd = PushedWindow(c)
            /\ e.request_id = 0
  BY EstablishedEntry
<1> HIDE DEF e
<1>3. n \in Nat /\ e.numPacketsToGet = NumSymbols[c] /\ e.cwnd \in Nat
  BY <1>2, ReceiverFields DEF Books, KnowsSize
<1>4. e.connFinished => n >= e.numPacketsToGet
  BY <1>2, <1>3 DEF Books, Concludes
<1>5. /\ s.request_id >= e.request_id
      /\ s.cwnd >= e.cwnd
      /\ ~s.sendPulls /\ e.sendPulls => n + 1 + e.cwnd > e.numPacketsToGet
      /\ s.sendPulls =>
            /\ n + 1 + e.cwnd <= e.numPacketsToGet
            /\ \/ s.request_id - e.request_id >= 1 + s.cwnd - e.cwnd
               \/ n + 1 > WantedSymbols(e) - InitialWindow
      /\ e.numRcvTrimmedHeader = 0 =>
            (s.request_id > e.request_id => n + 1 + e.cwnd <= e.numPacketsToGet)
  BY <1>1, <1>2, <1>4, ArriveSymbolAsks
<1>6. s \in Receiver /\ s.numRcvTrimmedHeader = e.numRcvTrimmedHeader
  BY <1>1, <1>2, ArriveSymbolType, ArriveSymbolCounts
<1> HIDE DEF s
<1>7. s.request_id \in Nat /\ s.cwnd \in Nat /\ e.request_id \in Nat
  BY <1>2, <1>6, ReceiverFields
<1>8. NeverPulls(s, c)
  <2> SUFFICES ASSUME PushedWindow(c) = NumSymbols[c]
               PROVE  s.request_id = 0 /\ s.numRcvTrimmedHeader = 0
    BY DEF NeverPulls
  <2>1. e.request_id = 0 /\ e.numRcvTrimmedHeader = 0
    BY <1>1, <1>2 DEF PacerOf, NeverPulls
  <2>2. PushedWindow(c) <= n + e.cwnd
    BY <1>1, <1>2, <2>1 DEF Books, AsksNoMore, Asked
  <2> HIDE DEF n
  <2>3. ~(s.request_id > e.request_id)
    BY <1>1, <1>3, <1>5, <2>1, <2>2
  <2> QED
    BY <1>6, <1>7, <2>1, <2>3
<1>9. ASSUME r.fsm = "LISTEN", s.request_id = 0
      PROVE  PushedWindow(c) = NumSymbols[c]
  <2>1. /\ n = 0 /\ e.cwnd = PushedWindow(c) /\ e.sendPulls
        /\ e.request_id = 0 /\ WantedSymbols(e) = NumSymbols[c]
    BY <1>2, <1>9
  <2> HIDE DEF n
  <2>2. CASE ~s.sendPulls
    BY <1>1, <1>3, <1>5, <2>1, <2>2
  <2>3. CASE s.sendPulls
    <3>1. /\ 1 + PushedWindow(c) <= NumSymbols[c]
          /\ \/ s.request_id >= 1 + s.cwnd - e.cwnd
             \/ 1 > NumSymbols[c] - InitialWindow
      BY <1>1, <1>3, <1>5, <1>7, <2>1, <2>3
    <3> QED
      BY <1>1, <1>3, <1>5, <1>7, <1>9, <3>1
  <2> QED
    BY <2>2, <2>3
<1> QED
  BY <1>7, <1>8, <1>9 DEF s, e

LEMMA RcvSymbolPacer ==
    ASSUME PacerInv, NEW c \in Conns, NEW esi \in data[c], RcvSymbol(c, esi)
    PROVE  PacerInv'
<1> DEFINE r == receiver[c]
           e == Established(r, c)
           s == ArriveSymbol(e, esi)
           added == IF Entering(e)
                    THEN [pacer EXCEPT !.requestCONNMap = Append(@, c)]
                    ELSE pacer
<1>1. TransferInv' /\ pacer' \in Pacer
  BY RcvSymbolTransfer DEF PacerInv, TransferInv, PullInv, TypeOK
<1>2. /\ pacer \in Pacer /\ receiver \in [Conns -> Receiver] /\ r \in Receiver
      /\ PacerOf(r, pacer, c) /\ e \in Receiver /\ e.request_id = r.request_id
  BY PacerFacts, EstablishedEntry
<1>3. /\ receiver' = [receiver EXCEPT ![c] = s]
      /\ s \in Receiver /\ s.fsm = "ESTABLISHED"
      /\ pacer' = PacerAfter(c, e, receiver', Entering(e), Finishing(e))
      /\ Entering(e) <=> r.fsm = "LISTEN"
      /\ ~s.connNotAddedYet
      /\ r.connFinished => s.connFinished
      /\ s.connFinished => Finishing(e)
      /\ e.request_id <= s.request_id /\ Sent(s) = Sent(r)
  BY SymbolPacing
<1>4. /\ StaysFinished(s) /\ NeverPulls(s, c)
      /\ r.fsm = "LISTEN" => s.request_id > 0 \/ PushedWindow(c) = NumSymbols[c]
  BY SymbolKeepsFinished, SymbolPulls
<1>5. r.fsm = "LISTEN" => Sent(r) = 0
  BY PacerFacts, ListeningTransfer
<1>6. Entering(e) \in BOOLEAN /\ Finishing(e) \in BOOLEAN
  BY DEF Entering, Finishing, Overrun, Registers
<1> HIDE DEF e, s
<1>7. /\ receiver' \in [Conns -> Receiver] /\ receiver'[c] = s
      /\ \A d \in Conns \ {c} : receiver'[d] = receiver[d]
  BY <1>2, <1>3
<1>8. /\ pacer'.requestCONNMap = added.requestCONNMap
      /\ pacer'.counter = pacer.counter /\ pacer'.nap = pacer.nap
      /\ pacer'.timer = "idle" =>
            /\ pacer.timer = "idle"
            /\ pacer.nap => s.request_id = e.request_id
            /\ Entering(e) => AllPullQueuesEmpty(added, receiver')
      /\ Finishing(e) /\ AllConnFinished(pacer', receiver') =>
            pacer'.timer # "scheduled"
  <2> DEFINE enters == Entering(e)
             finishes == Finishing(e)
             rcv == receiver'
  <2>1. /\ rcv \in [Conns -> Receiver] /\ rcv[c] = s
        /\ e.request_id <= rcv[c].request_id
        /\ enters \in BOOLEAN /\ finishes \in BOOLEAN
        /\ pacer' = PacerAfter(c, e, rcv, enters, finishes)
        /\ added = IF enters
                   THEN [pacer EXCEPT !.requestCONNMap = Append(@, c)]
                   ELSE pacer
    BY <1>3, <1>6, <1>7
  <2> HIDE DEF enters, finishes, rcv, added
  <2>2. /\ pacer'.requestCONNMap = added.requestCONNMap
        /\ pacer'.counter = pacer.counter /\ pacer'.nap = pacer.nap
        /\ pacer'.timer = "idle" =>
              /\ pacer.timer = "idle"
              /\ pacer.nap => rcv[c].request_id = e.request_id
              /\ enters => AllPullQueuesEmpty(added, rcv)
        /\ finishes /\ AllConnFinished(pacer', rcv) =>
              pacer'.timer # "scheduled"
    BY <1>2, <2>1, PacerAfterEffect
  <2> QED
    BY <2>1, <2>2 DEF enters, finishes, rcv
<1>9. EachOnce(pacer') /\ Registered(pacer') = Registered(pacer) \cup {c}
  <2>1. CASE Entering(e)
    <3>1. pacer'.requestCONNMap = Append(pacer.requestCONNMap, c)
      BY <1>2, <1>8, <2>1 DEF Pacer
    <3>2. c \notin Registered(pacer)
      BY <1>2, <1>3, <2>1 DEF PacerOf
    <3> QED
      BY <1>1, <1>2, <1>8, <3>1, <3>2, TableGrows DEF PacerInv
  <2>2. CASE ~Entering(e)
    <3>1. pacer'.requestCONNMap = pacer.requestCONNMap
      BY <1>8, <2>2
    <3>2. c \in Registered(pacer)
      BY <1>2, <1>3, <2>2, ReceiverFields DEF PacerOf
    <3> QED
      BY <1>8, <3>1, <3>2, SameTable DEF PacerInv
  <2> QED
    BY <2>1, <2>2
<1>10. ASSUME NEW d \in Conns, d # c
       PROVE  PacerOf(receiver'[d], pacer', d)
  BY <1>7, <1>8, <1>9, <1>10, PacerFacts DEF PacerOf, Rests
<1>11. s.request_id \in Nat /\ r.request_id \in Nat
       /\ Len(s.pullQueue) \in Nat /\ Len(r.pullQueue) \in Nat
       /\ (Len(s.pullQueue) = 0 <=> s.pullQueue = <<>>)
       /\ (Len(r.pullQueue) = 0 <=> r.pullQueue = <<>>)
  <2>1. s.pullQueue \in Seq(Pull) /\ r.pullQueue \in Seq(Pull)
        /\ s.request_id \in Nat /\ r.request_id \in Nat
    BY <1>2, <1>3, ReceiverFields
  <2> QED
    BY <2>1
<1>12. ASSUME pacer'.timer = "idle" PROVE Rests(s, pacer', c)
  <2>1. CASE r.fsm = "LISTEN"
    <3>1. c \in Registered(added)
      <4>1. Registered(added) = Registered(pacer')
        BY <1>8 DEF Registered
      <4> QED
        BY <1>9, <4>1
    <3>2. s.pullQueue = <<>>
      BY <1>3, <1>7, <1>8, <1>12, <2>1, <3>1 DEF AllPullQueuesEmpty
    <3>3. s.request_id = 0
      BY <1>3, <1>5, <1>11, <2>1, <3>2 DEF Sent
    <3> QED
      BY <1>4, <2>1, <3>2, <3>3 DEF Rests
  <2>2. CASE r.fsm # "LISTEN"
    <3>1. Rests(r, pacer, c)
      BY <1>2, <1>8, <1>12 DEF PacerOf
    <3>2. CASE r.connFinished
      BY <1>3, <3>2 DEF Rests
    <3>3. CASE ~r.connFinished
      <4>1. r.pullQueue = <<>>
        BY <3>1, <3>3 DEF Rests
      <4>2. s.request_id = r.request_id
        <5>1. CASE pacer.nap
          BY <1>2, <1>8, <1>12, <5>1
        <5>2. CASE ~pacer.nap
          <6>1. PushedWindow(c) = NumSymbols[c]
            BY <2>2, <3>1, <3>3, <5>2 DEF Rests
          <6> QED
            BY <1>2, <1>4, <6>1 DEF NeverPulls, PacerOf
        <5> QED
          BY <5>1, <5>2
      <4>3. s.pullQueue = <<>>
        BY <1>3, <1>11, <4>1, <4>2 DEF Sent
      <4> QED
        BY <1>8, <2>2, <3>1, <3>3, <4>3 DEF Rests
    <3> QED
      BY <3>2, <3>3
  <2> QED
    BY <2>1, <2>2
<1>13. PacerOf(receiver'[c], pacer', c)
  BY <1>3, <1>4, <1>7, <1>9, <1>12 DEF PacerOf
<1>14. RunsForSomebody(pacer', receiver')
  <2> SUFFICES ASSUME pacer'.timer = "scheduled",
                      AllConnFinished(pacer', receiver')
               PROVE  FALSE
    BY DEF RunsForSomebody
  <2>1. s.connFinished
    BY <1>7, <1>9 DEF AllConnFinished
  <2> QED
    BY <1>3, <1>8, <2>1
<1> QED
  BY <1>1, <1>9, <1>10, <1>13, <1>14
     DEF PacerInv, EachOnce, Registered, PacerOf, Rests, RunsForSomebody,
         AllConnFinished, LateHeader, NeverPulls, StaysFinished, PushedWindow

(* A header at the receiver: it is never the first packet, and a finished  *)
(* connection it reaches has had one before.                               *)
LEMMA HeaderPacing ==
    ASSUME PacerInv, NEW c \in Conns, NEW esi \in headers[c], RcvHeader(c, esi)
    PROVE  LET r == receiver[c]
               s == ArriveHeader(r)
           IN  /\ r.fsm = "ESTABLISHED"
               /\ receiver' = [receiver EXCEPT ![c] = s]
               /\ s \in Receiver /\ s.fsm = "ESTABLISHED" /\ ~s.connNotAddedYet
               /\ pacer' = PacerAfter(c, r, receiver', FALSE, FALSE)
               /\ s.connFinished = r.connFinished
               /\ r.request_id <= s.request_id /\ Sent(s) = Sent(r)
               /\ NeverPulls(s, c) /\ StaysFinished(s)
               /\ r.connFinished => LateHeader(s)
<1> DEFINE r == receiver[c]
           s == ArriveHeader(r)
<1>1. /\ TransferInv /\ PacerOf(r, pacer, c) /\ r \in Receiver /\ Books(r, c)
      /\ sender[c] \in Sender /\ discarded[c] \in Nat
      /\ Flying(sender[c], data[c], headers[c], c)
      /\ Conserved(sender[c], r, data[c], headers[c], discarded[c], c)
      /\ sender[c].esi <= PushedWindow(c) + sender[c].request_id
      /\ sender[c].request_id <= Sent(r)
  BY PacerFacts, TransferFacts
<1>2. r.fsm = "ESTABLISHED"
  BY <1>1, ListeningTransfer, ReceiverFields
<1>3. Established(r, c) = r /\ ~Dropped(r, IsSyn(c, esi))
  BY <1>2 DEF Established, Dropped
<1>4. ~r.connNotAddedYet
  BY <1>1, <1>2 DEF PacerOf
<1>5. /\ receiver' = [receiver EXCEPT ![c] = s]
      /\ pacer' = PacerAfter(c, r, receiver', FALSE, FALSE)
  BY <1>3, <1>4 DEF RcvHeader, ReceiveHeader, Registers
<1>6. /\ s \in Receiver /\ s.fsm = "ESTABLISHED" /\ Sent(s) = Sent(r)
      /\ s.numberReceivedPackets = r.numberReceivedPackets
      /\ s.numRcvTrimmedHeader = r.numRcvTrimmedHeader + 1
      /\ SameVerdict(r, s)
  BY <1>1, <1>3, HeaderArrives
<1>7. ~s.connNotAddedYet
  BY <1>1, <1>4, ArriveHeaderEntry
<1>8. /\ r.request_id <= s.request_id
      /\ s.numPacketsToGet = NumSymbols[c] /\ r.numPacketsToGet = NumSymbols[c]
  BY <1>1, <1>2, ArriveHeaderOnly, ArriveHeaderEffect
     DEF OnlyRequests, Books, KnowsSize
<1>9. /\ r.numberReceivedPackets \in Nat /\ r.numRcvTrimmedHeader \in Nat
      /\ r.request_id \in Nat /\ sender[c].esi \in Nat
      /\ sender[c].request_id \in Nat /\ Sent(r) \in Int /\ Sent(r) <= r.request_id
      /\ NumSymbols[c] \in Nat \ {0} /\ PushedWindow(c) \in Nat \ {0}
      /\ Cardinality(data[c]) \in Nat /\ Cardinality(headers[c]) \in Nat
      /\ esi \in Int
  BY <1>1, ReceiverFields, SentType, SizeType, FlyingFinite, TransferNumbers
     DEF Flying
<1>10. PushedWindow(c) < esi /\ esi <= sender[c].esi
  BY <1>1, <1>9 DEF Flying
<1> HIDE DEF s
<1>11. NeverPulls(s, c)
  <2>1. ASSUME PushedWindow(c) = NumSymbols[c] PROVE FALSE
    <3>1. r.request_id = 0
      BY <1>1, <2>1 DEF PacerOf, NeverPulls
    <3> HIDE DEF r
    <3> QED
      BY <1>1, <1>9, <1>10, <3>1
  <2> QED
    BY <2>1 DEF NeverPulls
<1>12. r.numRcvTrimmedHeader = 0 => r.numberReceivedPackets <= NumSymbols[c]
  <2> SUFFICES ASSUME r.numRcvTrimmedHeader = 0
               PROVE  r.numberReceivedPackets <= NumSymbols[c]
    OBVIOUS
  <2>1. PushedWindow(c) + r.request_id <= NumSymbols[c] + 1
    BY <1>1, <1>2 DEF Books, AsksNoMore, Asked
  <2>2. sender[c].esi <= NumSymbols[c] + 1
    <3> HIDE DEF r
    <3> QED
      BY <1>1, <1>9, <2>1
  <2>3. sender[c].esi = r.numberReceivedPackets + 0
            + Cardinality(data[c]) + Cardinality(headers[c]) + discarded[c]
    BY <1>1 DEF Conserved
  <2>4. Cardinality(headers[c]) >= 1
    <3>1. /\ Cardinality(headers[c] \ {esi}) = Cardinality(headers[c]) - 1
          /\ Flying(sender[c], data[c], headers[c] \ {esi}, c)
      BY <1>1, HeaderMoves
    <3>2. Cardinality(headers[c] \ {esi}) \in Nat
      BY <1>1, <3>1, FlyingFinite
    <3> QED
      BY <1>9, <3>1, <3>2
  <2> DEFINE n == r.numberReceivedPackets
             symbols == Cardinality(data[c])
             trimmed == Cardinality(headers[c])
             k == discarded[c]
  <2>5. n \in Nat /\ symbols \in Nat /\ trimmed \in Nat /\ k \in Nat
    BY <1>1, <1>9
  <2>6. sender[c].esi = n + symbols + trimmed + k /\ trimmed >= 1
    BY <2>3, <2>4, <2>5
  <2> HIDE DEF n, symbols, trimmed, k
  <2>7. n <= NumSymbols[c]
    BY <1>9, <2>2, <2>5, <2>6
  <2> QED
    BY <2>7 DEF n
<1>13. r.connFinished => /\ r.numberReceivedPackets > WantedSymbols(r)
                         /\ ~r.redoDecoding
  BY <1>1 DEF PacerOf, StaysFinished
<1>14. r.connFinished => r.numRcvTrimmedHeader >= 1
  BY <1>8, <1>9, <1>12, <1>13 DEF WantedSymbols
<1>15. r.connFinished => WantedSymbols(s) = WantedSymbols(r)
  BY <1>6, <1>8, <1>9, <1>14 DEF WantedSymbols
<1>16. StaysFinished(s)
  BY <1>6, <1>13, <1>15 DEF StaysFinished, SameVerdict
<1>17. r.connFinished => LateHeader(s)
  BY <1>6, <1>9, <1>14 DEF LateHeader, SameVerdict
<1> QED
  BY <1>2, <1>5, <1>6, <1>7, <1>8, <1>11, <1>16, <1>17 DEF SameVerdict, s

LEMMA RcvHeaderPacer ==
    ASSUME PacerInv, NEW c \in Conns, NEW esi \in headers[c], RcvHeader(c, esi)
    PROVE  PacerInv'
<1> DEFINE r == receiver[c]
           s == ArriveHeader(r)
<1>1. TransferInv' /\ pacer' \in Pacer
  BY RcvHeaderTransfer DEF PacerInv, TransferInv, PullInv, TypeOK
<1>2. /\ pacer \in Pacer /\ receiver \in [Conns -> Receiver] /\ r \in Receiver
      /\ PacerOf(r, pacer, c)
  BY PacerFacts
<1>3. /\ r.fsm = "ESTABLISHED"
      /\ receiver' = [receiver EXCEPT ![c] = s]
      /\ s \in Receiver /\ s.fsm = "ESTABLISHED" /\ ~s.connNotAddedYet
      /\ pacer' = PacerAfter(c, r, receiver', FALSE, FALSE)
      /\ s.connFinished = r.connFinished
      /\ r.request_id <= s.request_id /\ Sent(s) = Sent(r)
      /\ NeverPulls(s, c) /\ StaysFinished(s)
      /\ r.connFinished => LateHeader(s)
  BY HeaderPacing
<1> HIDE DEF s
<1>4. /\ receiver' \in [Conns -> Receiver] /\ receiver'[c] = s
      /\ \A d \in Conns \ {c} : receiver'[d] = receiver[d]
  BY <1>2, <1>3
<1>5. /\ pacer'.requestCONNMap = pacer.requestCONNMap
      /\ pacer'.counter = pacer.counter /\ pacer'.nap = pacer.nap
      /\ pacer'.timer = "idle" =>
            pacer.timer = "idle" /\ (pacer.nap => s.request_id = r.request_id)
  <2> DEFINE rcv == receiver'
  <2>1. /\ rcv \in [Conns -> Receiver] /\ rcv[c] = s
        /\ r.request_id <= rcv[c].request_id
        /\ pacer' = PacerAfter(c, r, rcv, FALSE, FALSE)
    BY <1>3, <1>4
  <2> DEFINE n == NapRequests(r, rcv[c])
  <2>2. r.request_id \in Nat /\ rcv[c].request_id \in Nat
    BY <1>2, <1>3, <2>1, ReceiverFields
  <2> HIDE DEF rcv, r
  <2>3. n \in Nat /\ (n = 0 /\ pacer.nap => rcv[c].request_id = r.request_id)
    BY <2>1, <2>2 DEF NapRequests
  <2>4. pacer' = RequestTimer(pacer, n)
    BY <2>1, <2>3 DEF PacerAfter
  <2> HIDE DEF n
  <2>5. /\ pacer'.requestCONNMap = pacer.requestCONNMap
        /\ pacer'.counter = pacer.counter /\ pacer'.nap = pacer.nap
        /\ pacer'.timer = "idle" => pacer.timer = "idle" /\ n = 0
    BY <1>2, <2>3, <2>4, RequestTimerEffect
  <2> QED
    BY <2>1, <2>3, <2>5
<1>6. EachOnce(pacer') /\ Registered(pacer') = Registered(pacer)
  BY <1>5, SameTable DEF PacerInv
<1>7. ASSUME NEW d \in Conns, d # c
      PROVE  PacerOf(receiver'[d], pacer', d)
  BY <1>4, <1>5, <1>6, <1>7, PacerFacts DEF PacerOf, Rests
<1>8. /\ s.request_id \in Nat /\ r.request_id \in Nat
      /\ Len(s.pullQueue) \in Nat /\ Len(r.pullQueue) \in Nat
      /\ Len(s.pullQueue) = 0 <=> s.pullQueue = <<>>
      /\ Len(r.pullQueue) = 0 <=> r.pullQueue = <<>>
  <2>1. s.pullQueue \in Seq(Pull) /\ r.pullQueue \in Seq(Pull)
        /\ s.request_id \in Nat /\ r.request_id \in Nat
    BY <1>2, <1>3, ReceiverFields
  <2> QED
    BY <2>1
<1>9. ASSUME pacer'.timer = "idle" PROVE Rests(s, pacer', c)
  <2>1. Rests(r, pacer, c)
    BY <1>2, <1>5, <1>9 DEF PacerOf
  <2>2. CASE r.connFinished
    BY <1>3, <2>2 DEF Rests
  <2>3. CASE ~r.connFinished
    <3>1. r.pullQueue = <<>>
      BY <2>1, <2>3 DEF Rests
    <3>2. s.request_id = r.request_id
      <4>1. CASE pacer.nap
        BY <1>5, <1>9, <4>1
      <4>2. CASE ~pacer.nap
        <5>1. PushedWindow(c) = NumSymbols[c]
          BY <1>3, <2>1, <2>3, <4>2 DEF Rests
        <5> QED
          BY <1>2, <1>3, <5>1 DEF NeverPulls, PacerOf
      <4> QED
        BY <4>1, <4>2
    <3>3. s.pullQueue = <<>>
      BY <1>3, <1>8, <3>1, <3>2 DEF Sent
    <3> QED
      BY <1>3, <1>5, <2>1, <2>3, <3>3 DEF Rests
  <2> QED
    BY <2>2, <2>3
<1>10. PacerOf(receiver'[c], pacer', c)
  BY <1>2, <1>3, <1>4, <1>6, <1>9 DEF PacerOf
<1>11. RunsForSomebody(pacer', receiver')
  <2> SUFFICES ASSUME AllConnFinished(pacer', receiver')
               PROVE  LateHeader(s)
    BY <1>4 DEF RunsForSomebody
  <2>1. c \in Registered(pacer')
    BY <1>2, <1>3, <1>6 DEF PacerOf
  <2> QED
    BY <1>3, <1>4, <2>1 DEF AllConnFinished
<1> QED
  BY <1>1, <1>6, <1>7, <1>10, <1>11
     DEF PacerInv, EachOnce, Registered, PacerOf, Rests, RunsForSomebody,
         AllConnFinished, LateHeader, NeverPulls, StaysFinished, PushedWindow

-----------------------------------------------------------------------------
(* The timer.                                                              *)

LEMMA Unregistered ==
    ASSUME PacerInv, NEW c \in Conns, c \notin Registered(pacer)
    PROVE  receiver[c].fsm = "LISTEN" /\ receiver[c].pullQueue = <<>>
<1>1. receiver[c].fsm = "LISTEN"
  BY PacerFacts, ReceiverFields DEF PacerOf
<1>2. receiver[c] = ListeningReceiver
  BY <1>1, PacerFacts, ListeningTransfer
<1> QED
  BY <1>1, <1>2 DEF ListeningReceiver

(* A pull that leaves changes nothing of a connection but its queue.       *)
LEMMA SendPullPacing ==
    ASSUME PacerInv, NEW c \in Conns, receiver[c].pullQueue # <<>>, SendPull(c)
    PROVE  \E s \in Receiver :
              /\ receiver' = [receiver EXCEPT ![c] = s]
              /\ s.fsm = receiver[c].fsm
              /\ s.connNotAddedYet = receiver[c].connNotAddedYet
              /\ s.connFinished = receiver[c].connFinished
              /\ NeverPulls(s, c) /\ StaysFinished(s)
              /\ s.numRcvTrimmedHeader = receiver[c].numRcvTrimmedHeader
              /\ s.pullQueue = Tail(receiver[c].pullQueue)
<1> DEFINE r == receiver[c]
           s == [r EXCEPT !.pullQueue = Tail(@), !.sentPullsInWindow = @ + 1]
<1>1. /\ receiver \in [Conns -> Receiver] /\ r \in Receiver
      /\ NeverPulls(r, c) /\ StaysFinished(r)
  BY PacerFacts DEF PacerOf
<1>2. receiver' = [receiver EXCEPT ![c] = s]
  BY <1>1 DEF SendPull
<1>3. s \in Receiver
  BY <1>1, SendPullType
<1>4. /\ s.fsm = r.fsm /\ s.connNotAddedYet = r.connNotAddedYet
      /\ s.connFinished = r.connFinished /\ s.redoDecoding = r.redoDecoding
      /\ s.request_id = r.request_id
      /\ s.numberReceivedPackets = r.numberReceivedPackets
      /\ s.numPacketsToGet = r.numPacketsToGet
      /\ s.numRcvTrimmedHeader = r.numRcvTrimmedHeader
      /\ s.pullQueue = Tail(r.pullQueue)
  BY <1>1 DEF Receiver
<1> HIDE DEF r, s
<1>5. NeverPulls(s, c) /\ StaysFinished(s)
  BY <1>1, <1>4 DEF NeverPulls, StaysFinished, WantedSymbols
<1> QED
  BY <1>2, <1>3, <1>4, <1>5 DEF r

LEMMA TimerExpiresPacer ==
    ASSUME PacerInv, TimerExpires
    PROVE  PacerInv'
<1> DEFINE expired == [pacer EXCEPT !.timer = "idle"]
           napping == [expired EXCEPT !.nap = TRUE]
<1>1. TransferInv' /\ pacer' \in Pacer
  BY TimerExpiresTransfer DEF PacerInv, TransferInv, PullInv, TypeOK
<1>2. /\ pacer \in Pacer /\ pacer.timer = "scheduled"
      /\ expired \in Pacer /\ napping \in Pacer
      /\ expired.requestCONNMap = pacer.requestCONNMap
      /\ expired.counter = pacer.counter
      /\ napping.requestCONNMap = pacer.requestCONNMap
      /\ napping.counter = pacer.counter /\ napping.nap
  BY DEF TimerExpires, PacerInv, TransferInv, PullInv, TypeOK, Pacer
<1>3. CASE AllConnFinished(pacer, receiver) /\ pacer' = NextRequest(expired)
           /\ UNCHANGED <<receiver, pulls>>
  <2> HIDE DEF expired
  <2>1. /\ pacer'.requestCONNMap = pacer.requestCONNMap
        /\ pacer'.counter = pacer.counter
    BY <1>2, <1>3, NextRequestEffect
  <2>2. EachOnce(pacer') /\ Registered(pacer') = Registered(pacer)
    BY <2>1, SameTable DEF PacerInv
  <2>3. ASSUME NEW c \in Conns PROVE PacerOf(receiver[c], pacer', c)
    <3>1. Rests(receiver[c], pacer', c)
      BY <1>3, Unregistered DEF AllConnFinished, Rests
    <3> QED
      BY <2>2, <3>1, PacerFacts DEF PacerOf
  <2>4. RunsForSomebody(pacer', receiver)
    BY <1>2, <1>3 DEF PacerInv, RunsForSomebody
  <2> QED
    BY <1>1, <1>3, <2>2, <2>3, <2>4
       DEF PacerInv, EachOnce, Registered, PacerOf, Rests, RunsForSomebody,
           AllConnFinished, LateHeader, NeverPulls, StaysFinished, PushedWindow
<1>4. CASE /\ ~AllConnFinished(pacer, receiver)
           /\ AllPullQueuesEmpty(pacer, receiver)
           /\ pacer' = NextRequest(napping)
           /\ UNCHANGED <<receiver, pulls>>
  <2> HIDE DEF napping
  <2>1. /\ pacer'.requestCONNMap = pacer.requestCONNMap
        /\ pacer'.counter = pacer.counter /\ pacer'.nap
    BY <1>2, <1>4, NextRequestEffect
  <2>2. EachOnce(pacer') /\ Registered(pacer') = Registered(pacer)
    BY <2>1, SameTable DEF PacerInv
  <2>3. ASSUME NEW c \in Conns PROVE PacerOf(receiver[c], pacer', c)
    <3>1. Rests(receiver[c], pacer', c)
      BY <1>4, <2>1, Unregistered DEF AllPullQueuesEmpty, Rests
    <3> QED
      BY <2>2, <3>1, PacerFacts DEF PacerOf
  <2>4. RunsForSomebody(pacer', receiver)
    BY <1>4, <2>2 DEF RunsForSomebody, AllConnFinished
  <2> QED
    BY <1>1, <1>4, <2>2, <2>3, <2>4
       DEF PacerInv, EachOnce, Registered, PacerOf, Rests, RunsForSomebody,
           AllConnFinished, LateHeader, NeverPulls, StaysFinished, PushedWindow
<1>5. ASSUME ~AllConnFinished(pacer, receiver),
             NEW i \in DOMAIN pacer.requestCONNMap,
             IsNextInTurn(i),
             SendPull(pacer.requestCONNMap[i]),
             pacer' = NextRequest(RequestTimer(
                          [expired EXCEPT !.nap = FALSE, !.counter = i], 1))
      PROVE  PacerInv'
  <2> DEFINE c == pacer.requestCONNMap[i]
             turned == [expired EXCEPT !.nap = FALSE, !.counter = i]
             again == RequestTimer(turned, 1)
  <2>1. /\ c \in Conns /\ i \in Nat /\ i <= Len(pacer.requestCONNMap)
        /\ receiver[c].pullQueue # <<>>
    BY <1>2, <1>5 DEF Pacer, IsNextInTurn
  <2>2. /\ turned \in Pacer /\ turned.counter = i
        /\ turned.requestCONNMap = pacer.requestCONNMap
    BY <1>2, <2>1 DEF Pacer
  <2> HIDE DEF turned
  <2>3. /\ again \in Pacer /\ again.counter = i /\ again.timer # "idle"
        /\ again.requestCONNMap = pacer.requestCONNMap
    BY <2>2, RequestTimerType, RequestTimerEffect
  <2>4. pacer' = NextRequest(again)
    BY <1>5 DEF turned
  <2> HIDE DEF again
  <2>5. /\ pacer'.requestCONNMap = pacer.requestCONNMap
        /\ pacer'.counter = i /\ pacer'.timer # "idle"
    BY <2>3, <2>4, NextRequestEffect
  <2>6. EachOnce(pacer') /\ Registered(pacer') = Registered(pacer)
    BY <2>1, <2>5 DEF PacerInv, EachOnce, Registered
  <2>7. PICK s \in Receiver :
              /\ receiver' = [receiver EXCEPT ![c] = s]
              /\ s.fsm = receiver[c].fsm
              /\ s.connNotAddedYet = receiver[c].connNotAddedYet
              /\ s.connFinished = receiver[c].connFinished
              /\ NeverPulls(s, c) /\ StaysFinished(s)
              /\ s.numRcvTrimmedHeader = receiver[c].numRcvTrimmedHeader
    BY <1>5, <2>1, SendPullPacing
  <2>8. /\ receiver'[c] = s /\ \A d \in Conns \ {c} : receiver'[d] = receiver[d]
    BY <2>1, <2>7, PacerFacts
  <2> HIDE DEF c
  <2>9. ASSUME NEW d \in Conns PROVE PacerOf(receiver'[d], pacer', d)
    <3>1. PacerOf(receiver[d], pacer, d)
      BY PacerFacts
    <3> QED
      BY <2>5, <2>6, <2>7, <2>8, <3>1 DEF PacerOf
  <2>10. RunsForSomebody(pacer', receiver')
    <3>1. PICK d \in Registered(pacer) : ~receiver[d].connFinished
      BY <1>5 DEF AllConnFinished
    <3>2. d \in Conns
      BY <1>2 DEF Registered, Pacer
    <3>3. ~receiver'[d].connFinished
      BY <2>7, <2>8, <3>1, <3>2
    <3> QED
      BY <2>6, <3>3 DEF RunsForSomebody, AllConnFinished
  <2> QED
    BY <1>1, <2>6, <2>9, <2>10
       DEF PacerInv, EachOnce, Registered, PacerOf, Rests, RunsForSomebody,
           AllConnFinished, LateHeader, NeverPulls, StaysFinished, PushedWindow
<1> QED
  BY <1>3, <1>4, <1>5 DEF TimerExpires, PaceRequests

LEMMA InitPacerInv == Init => PacerInv
<1> SUFFICES ASSUME Init PROVE PacerInv
  OBVIOUS
<1>1. TransferInv
  BY InitTransferInv
<1>2. Registered(pacer) = {} /\ EachOnce(pacer)
  BY DEF Init, Registered, EachOnce
<1>3. pacer.timer = "idle" /\ \A c \in Conns : receiver[c] = ListeningReceiver
  BY DEF Init
<1>4. ASSUME NEW c \in Conns PROVE PacerOf(ListeningReceiver, pacer, c)
  BY <1>2 DEF PacerOf, NeverPulls, StaysFinished, Rests, ListeningReceiver
<1> QED
  BY <1>1, <1>2, <1>3, <1>4 DEF PacerInv, RunsForSomebody

LEMMA OthersKeepPacer ==
    ASSUME PacerInv, TransferInv', UNCHANGED <<receiver, pacer>>
    PROVE  PacerInv'
BY DEF PacerInv, EachOnce, Registered, PacerOf, Rests, RunsForSomebody,
       AllConnFinished, LateHeader, NeverPulls, StaysFinished, PushedWindow

LEMMA PacerInvInductive == PacerInv /\ [Next]_vars => PacerInv'
<1> SUFFICES ASSUME PacerInv, [Next]_vars PROVE PacerInv'
  OBVIOUS
<1>1. TransferInv'
  BY TransferInvInductive DEF PacerInv
<1>2. CASE UNCHANGED <<receiver, pacer>>
  BY <1>1, <1>2, OthersKeepPacer
<1>3. ASSUME NEW c \in Conns,
             \/ SendInitialWindow(c)
             \/ \E pull \in pulls[c] : RcvPull(c, pull)
             \/ Network(c)
      PROVE  UNCHANGED <<receiver, pacer>>
  BY <1>3 DEF SendInitialWindow, RcvPull, Network, TrimSymbol, DiscardSymbol
<1>4. CASE UNCHANGED vars
  BY <1>2, <1>4 DEF vars
<1> QED
  BY <1>2, <1>3, <1>4, RcvSymbolPacer, RcvHeaderPacer, TimerExpiresPacer DEF Next

LEMMA PacerInvHolds == Spec => []PacerInv
BY InitPacerInv, PacerInvInductive, PTL DEF Spec

(* While its connections exist, the pacer of a host never leaves a pull of *)
(* an unfinished connection waiting for a timer that nobody armed.         *)
LEMMA PacerInvAlive ==
    ASSUME PacerInv, NEW c \in Conns,
           receiver[c].pullQueue # <<>>, ~receiver[c].connFinished
    PROVE  c \in Registered(pacer) /\ pacer.timer \in {"scheduled", "lost"}
<1>1. c \in Registered(pacer)
  BY Unregistered
<1>2. pacer.timer # "idle"
  BY PacerFacts DEF PacerOf, Rests
<1> QED
  BY <1>1, <1>2, PacerFacts DEF Pacer

-----------------------------------------------------------------------------
(* The loss of the timer: for good, and only when all who are registered   *)
(* are finished, who stay so.                                              *)
LEMMA LossInPacerAfter ==
    ASSUME pacer \in Pacer, NEW c, NEW r, NEW rcv,
           NEW registers \in BOOLEAN, NEW finishing \in BOOLEAN
    PROVE  LET q == PacerAfter(c, r, rcv, registers, finishing)
           IN  /\ pacer.timer = "lost" => q.timer = "lost"
               /\ q.timer = "lost" /\ pacer.timer # "lost" =>
                     AllConnFinished(q, rcv)
<1> DEFINE added == IF registers
                    THEN [pacer EXCEPT !.requestCONNMap = Append(@, c)]
                    ELSE pacer
           byFirst == IF registers /\ ~AllPullQueuesEmpty(added, rcv) THEN 1 ELSE 0
           n == NapRequests(r, rcv[c]) + byFirst
           requested == RequestTimer(added, n)
           q == PacerAfter(c, r, rcv, registers, finishing)
<1>1. added.timer = pacer.timer
  BY DEF Pacer
<1>2. q = IF finishing /\ AllConnFinished(requested, rcv)
          THEN CancelRequestTimer(requested)
          ELSE requested
  BY DEF PacerAfter
<1>3. \A k : \/ RequestTimer(added, k) =
                   [added EXCEPT !.timer = "scheduled", !.timerQueue = @ + k - 1]
                /\ added.timer = "idle"
             \/ RequestTimer(added, k) = [added EXCEPT !.timerQueue = @ + k]
  BY DEF RequestTimer
<1>4. DOMAIN added =
          {"requestCONNMap", "counter", "nap", "timer", "timerQueue"}
  BY DEF Pacer
<1> HIDE DEF added, n, q
<1>5. requested.timer = "lost" <=> added.timer = "lost"
  BY <1>3, <1>4
<1>6. /\ q.timer = "lost" => requested.timer \in {"scheduled", "lost"}
      /\ requested.timer = "lost" => q = requested
      /\ q.requestCONNMap = requested.requestCONNMap
      /\ q # requested => finishing /\ AllConnFinished(requested, rcv)
  <2> HIDE DEF requested
  <2> QED
    BY <1>2 DEF CancelRequestTimer
<1>7. AllConnFinished(q, rcv) = AllConnFinished(requested, rcv)
  BY <1>6 DEF AllConnFinished, Registered
<1> HIDE DEF requested
<1> QED
  BY <1>1, <1>5, <1>6, <1>7 DEF q

LostForGood ==
    /\ pacer.timer = "lost" => pacer'.timer = "lost"
    /\ pacer'.timer = "lost" /\ pacer.timer # "lost" =>
          AllConnFinished(pacer', receiver')
    /\ \A c \in Conns : receiver[c].connFinished => receiver'[c].connFinished

LEMMA TimerLoss == PacerInv /\ [Next]_vars => LostForGood
<1> SUFFICES ASSUME PacerInv, [Next]_vars PROVE LostForGood
  OBVIOUS
<1>1. CASE UNCHANGED <<receiver, pacer>>
  BY <1>1 DEF LostForGood
<1>2. ASSUME NEW c \in Conns,
             \/ SendInitialWindow(c)
             \/ \E pull \in pulls[c] : RcvPull(c, pull)
             \/ Network(c)
      PROVE  UNCHANGED <<receiver, pacer>>
  BY <1>2 DEF SendInitialWindow, RcvPull, Network, TrimSymbol, DiscardSymbol
<1>3. ASSUME NEW c \in Conns, NEW esi \in data[c], RcvSymbol(c, esi)
      PROVE  LostForGood
  <2> DEFINE e == Established(receiver[c], c)
             s == ArriveSymbol(e, esi)
  <2>1. /\ receiver' = [receiver EXCEPT ![c] = s]
        /\ pacer' = PacerAfter(c, e, receiver', Entering(e), Finishing(e))
        /\ receiver[c].connFinished => s.connFinished
    BY <1>3, SymbolPacing
  <2>2. Entering(e) \in BOOLEAN /\ Finishing(e) \in BOOLEAN
    BY DEF Entering, Finishing, Overrun, Registers
  <2> HIDE DEF e, s
  <2>3. pacer \in Pacer /\ receiver \in [Conns -> Receiver]
    BY PacerFacts
  <2>4. \A d \in Conns : receiver[d].connFinished => receiver'[d].connFinished
    BY <2>1, <2>3
  <2>5. /\ pacer.timer = "lost" => pacer'.timer = "lost"
        /\ pacer'.timer = "lost" /\ pacer.timer # "lost" =>
              AllConnFinished(pacer', receiver')
    <3> DEFINE rcv == receiver'
               enters == Entering(e)
               finishes == Finishing(e)
    <3>1. /\ pacer' = PacerAfter(c, e, rcv, enters, finishes)
          /\ enters \in BOOLEAN /\ finishes \in BOOLEAN
      BY <2>1, <2>2
    <3> HIDE DEF rcv, enters, finishes
    <3>2. /\ pacer.timer = "lost" => pacer'.timer = "lost"
          /\ pacer'.timer = "lost" /\ pacer.timer # "lost" =>
                AllConnFinished(pacer', rcv)
      BY <2>3, <3>1, LossInPacerAfter
    <3> QED
      BY <3>2 DEF rcv
  <2> QED
    BY <2>4, <2>5 DEF LostForGood
<1>4. ASSUME NEW c \in Conns, NEW esi \in headers[c], RcvHeader(c, esi)
      PROVE  LostForGood
  <2> DEFINE r == receiver[c]
             s == ArriveHeader(r)
  <2>1. /\ receiver' = [receiver EXCEPT ![c] = s]
        /\ pacer' = PacerAfter(c, r, receiver', FALSE, FALSE)
        /\ s.connFinished = r.connFinished
    BY <1>4, HeaderPacing
  <2> HIDE DEF s
  <2>2. pacer \in Pacer /\ receiver \in [Conns -> Receiver]
    BY PacerFacts
  <2>3. \A d \in Conns : receiver[d].connFinished => receiver'[d].connFinished
    BY <2>1, <2>2
  <2>4. /\ pacer.timer = "lost" => pacer'.timer = "lost"
        /\ pacer'.timer = "lost" /\ pacer.timer # "lost" =>
              AllConnFinished(pacer', receiver')
    <3> DEFINE rcv == receiver'
    <3>1. pacer' = PacerAfter(c, r, rcv, FALSE, FALSE)
      BY <2>1
    <3> HIDE DEF rcv, r
    <3>2. /\ pacer.timer = "lost" => pacer'.timer = "lost"
          /\ pacer'.timer = "lost" /\ pacer.timer # "lost" =>
                AllConnFinished(pacer', rcv)
      BY <2>2, <3>1, LossInPacerAfter
    <3> QED
      BY <3>2 DEF rcv
  <2> QED
    BY <2>3, <2>4 DEF LostForGood
<1>5. CASE TimerExpires
  <2>1. pacer \in Pacer /\ pacer.timer = "scheduled"
        /\ receiver \in [Conns -> Receiver]
    BY <1>5, PacerFacts DEF TimerExpires, PacerInv, TransferInv, PullInv, TypeOK
  <2>2. pacer'.timer # "lost"
    BY <1>5, <2>1
       DEF TimerExpires, PaceRequests, NextRequest, RequestTimer, Pacer
  <2>3. \A c \in Conns : receiver[c].connFinished => receiver'[c].connFinished
    <3>1. CASE UNCHANGED receiver
      BY <3>1
    <3>2. ASSUME NEW i \in DOMAIN pacer.requestCONNMap, IsNextInTurn(i),
                 SendPull(pacer.requestCONNMap[i])
          PROVE  \A c \in Conns : receiver[c].connFinished =>
                                      receiver'[c].connFinished
      <4>1. /\ pacer.requestCONNMap[i] \in Conns
            /\ receiver[pacer.requestCONNMap[i]].pullQueue # <<>>
        BY <2>1, <3>2 DEF Pacer, IsNextInTurn
      <4> DEFINE d == pacer.requestCONNMap[i]
      <4>2. PICK s \in Receiver :
               /\ receiver' = [receiver EXCEPT ![d] = s]
               /\ s.connFinished = receiver[d].connFinished
        BY <3>2, <4>1, SendPullPacing
      <4> QED
        BY <2>1, <4>1, <4>2
    <3> QED
      BY <1>5, <3>1, <3>2 DEF TimerExpires, PaceRequests
  <2> QED
    BY <2>1, <2>2, <2>3 DEF LostForGood
<1>6. CASE UNCHANGED vars
  BY <1>1, <1>6 DEF vars
<1> QED
  BY <1>1, <1>2, <1>3, <1>4, <1>5, <1>6 DEF Next

-----------------------------------------------------------------------------
(* Outages.  A host that loses its connections keeps the timer it had: what*)
(* PacerInv said of the timer then is what is known of it from then on.    *)
SomeLateHeader == \E c \in Conns : LateHeader(receiver[c])

(* Who registered in time for the timer is finished when it is lost.       *)
OnTime ==
    /\ late # {} => pacer.timer = "lost"
    /\ pacer.timer = "lost" =>
          \A c \in Registered(pacer) \ late : receiver[c].connFinished

OutageInv ==
    /\ pacer \in Pacer /\ receiver \in [Conns -> Receiver]
    /\ deleted \in BOOLEAN /\ busy \in BOOLEAN /\ failure \in BOOLEAN
    /\ ~deleted => PacerInv /\ OnTime
    /\ deleted /\ pacer.timer = "scheduled" => busy \/ SomeLateHeader
    /\ failure => busy \/ SomeLateHeader

LEMMA InitOutageInv == OutageInit => OutageInv
<1> SUFFICES ASSUME OutageInit PROVE OutageInv
  OBVIOUS
<1>1. /\ PacerInv /\ deleted = FALSE /\ busy = FALSE /\ failure = FALSE
      /\ OnTime
  BY InitPacerInv DEF OutageInit, OnTime, Init
<1>2. pacer \in Pacer /\ receiver \in [Conns -> Receiver]
  BY <1>1 DEF PacerInv, TransferInv, PullInv, TypeOK
<1> QED
  BY <1>1, <1>2 DEF OutageInv

(* While the connections exist, a packet or the timer makes a step of      *)
(* RaqsacTransport.                                                        *)
LEMMA TransportStep ==
    ASSUME NEW c \in Conns, Transfers(c) \/ Expires, ~deleted
    PROVE  Next
BY DEF Transfers, ArriveOrDrop, DropSymbol, DropHeader, Expires, Next

(* Once they are deleted nothing but the timer's expiry reaches the pacer. *)
LEMMA DeletedStep ==
    ASSUME NEW c \in Conns, Transfers(c), deleted
    PROVE  UNCHANGED <<receiver, pacer>>
BY DEF Transfers, ArriveOrDrop, DropSymbol, DropHeader, SendInitialWindow,
       RcvPull, Network, TrimSymbol, DiscardSymbol

LEMMA SameReceivers ==
    ASSUME UNCHANGED receiver
    PROVE  SomeLateHeader' = SomeLateHeader
BY DEF SomeLateHeader, LateHeader

LEMMA OnTimeKept ==
    ASSUME PacerInv, OnTime, [Next]_vars, RecordLate
    PROVE  OnTime'
<1>1. LostForGood /\ pacer \in Pacer
  BY TimerLoss DEF PacerInv, TransferInv, PullInv, TypeOK
<1>2. CASE pacer.timer = "lost"
  <2>1. /\ pacer'.timer = "lost"
        /\ late' = late \cup (Registered(pacer') \ Registered(pacer))
    BY <1>1, <1>2 DEF LostForGood, RecordLate
  <2>2. \A c \in Registered(pacer') \ late' : c \in Registered(pacer) \ late
    BY <2>1
  <2>3. Registered(pacer) \subseteq Conns
    BY <1>1 DEF Registered, Pacer
  <2> QED
    BY <1>1, <1>2, <2>1, <2>2, <2>3 DEF OnTime, LostForGood, Registered
<1>3. CASE pacer.timer # "lost"
  <2>1. late = {} /\ late' = {}
    BY <1>3 DEF OnTime, RecordLate
  <2> QED
    BY <1>1, <1>3, <2>1 DEF OnTime, LostForGood, AllConnFinished, Registered
<1> QED
  BY <1>2, <1>3

LEMMA OutageInvInductive == OutageInv /\ [OutageNext]_OutageVars => OutageInv'
<1> SUFFICES ASSUME OutageInv, [OutageNext]_OutageVars PROVE OutageInv'
  OBVIOUS
<1>1. CASE UNCHANGED OutageVars
  <2>1. UNCHANGED <<vars, deleted, busy, failure, late>>
    BY <1>1 DEF OutageVars, lifecycle
  <2>2. PacerInv /\ OnTime => PacerInv' /\ OnTime'
    BY <2>1, PacerInvInductive DEF OnTime, Registered, vars
  <2>3. SomeLateHeader' = SomeLateHeader /\ pacer' = pacer /\ receiver' = receiver
    BY <2>1, SameReceivers DEF vars
  <2> QED
    BY <2>1, <2>2, <2>3 DEF OutageInv
<1>2. ASSUME NEW c \in Conns, Transfers(c), UNCHANGED lifecycle, ~failure,
             RecordLate
      PROVE  OutageInv'
  <2>1. UNCHANGED <<deleted, busy, failure>>
    BY <1>2 DEF lifecycle
  <2>2. CASE deleted
    <3>1. /\ SomeLateHeader' = SomeLateHeader
          /\ pacer' = pacer /\ receiver' = receiver
      BY <1>2, <2>2, DeletedStep, SameReceivers
    <3> QED
      BY <1>2, <2>1, <2>2, <3>1 DEF OutageInv
  <2>3. CASE ~deleted
    <3>1. PacerInv' /\ OnTime'
      BY <1>2, <2>3, TransportStep, PacerInvInductive, OnTimeKept DEF OutageInv
    <3>2. pacer' \in Pacer /\ receiver' \in [Conns -> Receiver]
      BY <3>1 DEF PacerInv, TransferInv, PullInv, TypeOK
    <3> QED
      BY <1>2, <2>1, <2>3, <3>1, <3>2 DEF OutageInv
  <2> QED
    BY <2>2, <2>3
<1>3. ASSUME Expires, UNCHANGED lifecycle, ~failure, RecordLate
      PROVE  OutageInv'
  <2>1. ~deleted /\ UNCHANGED <<deleted, busy, failure>> /\ Next
    BY <1>3 DEF lifecycle, Expires, Next
  <2>2. PacerInv' /\ OnTime'
    BY <1>3, <2>1, PacerInvInductive, OnTimeKept DEF OutageInv
  <2>3. pacer' \in Pacer /\ receiver' \in [Conns -> Receiver]
    BY <2>2 DEF PacerInv, TransferInv, PullInv, TypeOK
  <2> QED
    BY <1>3, <2>1, <2>2, <2>3 DEF OutageInv
<1>4. CASE TimerOfDeleted
  <2>1. /\ pacer' \in Pacer /\ pacer'.timer = "idle"
        /\ deleted' = deleted /\ busy' = busy /\ failure'
        /\ busy \/ SomeLateHeader
    BY <1>4 DEF TimerOfDeleted, OutageInv, Pacer
  <2>2. SomeLateHeader' = SomeLateHeader /\ receiver' = receiver
    BY <1>4, SameReceivers DEF TimerOfDeleted
  <2>3. deleted /\ failure' \in BOOLEAN
    BY <1>4 DEF TimerOfDeleted
  <2> QED
    BY <2>1, <2>2, <2>3 DEF OutageInv
<1>5. CASE GoDown /\ ~failure
  <2>1. SomeLateHeader' = SomeLateHeader /\ pacer' = pacer /\ receiver' = receiver
    BY <1>5, SameReceivers DEF GoDown, vars
  <2>2. /\ deleted' = TRUE /\ failure' = failure
        /\ busy' = (busy \/ (~deleted /\ ~AllConnFinished(pacer, receiver)))
    BY <1>5 DEF GoDown
  <2>3. busy' \in BOOLEAN
    BY <2>2
  <2>4. pacer.timer = "scheduled" => busy' \/ SomeLateHeader
    BY <2>2 DEF OutageInv, PacerInv, RunsForSomebody, SomeLateHeader
  <2> QED
    BY <1>5, <2>1, <2>2, <2>3, <2>4 DEF OutageInv
<1>6. CASE GoUp /\ RecordLate
  <2>1. UNCHANGED <<vars, deleted, busy, failure>>
    BY <1>6 DEF GoUp
  <2>2. PacerInv /\ OnTime => PacerInv' /\ OnTime'
    BY <1>6, <2>1, PacerInvInductive, OnTimeKept
  <2>3. SomeLateHeader' = SomeLateHeader /\ pacer' = pacer /\ receiver' = receiver
    BY <2>1, SameReceivers DEF vars
  <2> QED
    BY <2>1, <2>2, <2>3 DEF OutageInv
<1> QED
  BY <1>1, <1>2, <1>3, <1>4, <1>5, <1>6 DEF OutageNext

LEMMA OutageInvHolds == OutageSpec => []OutageInv
BY InitOutageInv, OutageInvInductive, PTL DEF OutageSpec

(* Until the first outage deletes its connections, the pulls of every      *)
(* unfinished connection of a host wait for a timer that runs, but for the *)
(* connections that registered after the timer was lost: theirs wait for   *)
(* one that never runs again.                                              *)
THEOREM PacerKeepsTimer == OutageSpec => []PacerAliveUntilOutage
<1>1. OutageInv => PacerAliveUntilOutage
  <2> SUFFICES ASSUME OutageInv, ~deleted, NEW c \in Conns,
                      receiver[c].pullQueue # <<>>, ~receiver[c].connFinished
               PROVE  pacer.timer = IF c \in late THEN "lost" ELSE "scheduled"
    BY DEF PacerAliveUntilOutage
  <2>1. PacerInv /\ OnTime
    BY DEF OutageInv
  <2>2. c \in Registered(pacer) /\ pacer.timer \in {"scheduled", "lost"}
    BY <2>1, PacerInvAlive
  <2> QED
    BY <2>1, <2>2 DEF OnTime
<1> QED
  BY <1>1, OutageInvHolds, PTL

(* Going down ends the simulation only if a transfer was unfinished, or if *)
(* a finished one got a header too late.                                   *)
THEOREM FinishedSurvive == OutageSpec => []FinishedHostSurvives
<1>1. OutageInv => FinishedHostSurvives
  BY DEF OutageInv, FinishedHostSurvives, SomeLateHeader, LateHeader
<1> QED
  BY <1>1, OutageInvHolds, PTL

-----------------------------------------------------------------------------
(* The round robin.  A position is reached from the counter by going round *)
(* the table once.                                                         *)
LEMMA OnceRound ==
    ASSUME NEW n \in Nat \ {0}, NEW v \in 0 .. 2 * n - 1
    PROVE  v % n = IF v < n THEN v ELSE v - n
<1>1. CASE v \in 0 .. n - 1
  BY <1>1
<1>2. CASE v \in n .. 2 * n - 1
  BY <1>2
<1> QED
  BY <1>1, <1>2

LEMMA AfterServing ==
    ASSUME NEW n \in Nat \ {0}, NEW k \in 0 .. n,
           NEW i \in 1 .. n, NEW j \in 1 .. n, i # j,
           (i - 1 - k + n) % n <= (j - 1 - k + n) % n
    PROVE  (j - 1 - i + n) % n < (j - 1 - k + n) % n
<1> DEFINE vi == i - 1 - k + n
           vj == j - 1 - k + n
           after == j - 1 - i + n
<1>1. /\ vi \in 0 .. 2 * n - 1 /\ vj \in 0 .. 2 * n - 1
      /\ after \in 0 .. 2 * n - 1
      /\ vi \in Int /\ vj \in Int /\ after = vj - vi + n - 1
      /\ vi # vj /\ vj - vi < n /\ vi - vj < n
  OBVIOUS
<1>2. vi % n <= vj % n
  OBVIOUS
<1> HIDE DEF vi, vj, after
<1>3. vi % n = IF vi < n THEN vi ELSE vi - n
  BY <1>1, OnceRound
<1>4. vj % n = IF vj < n THEN vj ELSE vj - n
  BY <1>1, OnceRound
<1>5. after % n = IF after < n THEN after ELSE after - n
  BY <1>1, OnceRound
<1> DEFINE turn == after % n
           old == vj % n
           served == vi % n
<1>6. turn < old
  <2>1. served <= old
    BY <1>2
  <2> HIDE DEF turn, old, served
  <2> QED
    BY <1>1, <1>3, <1>4, <1>5, <2>1 DEF turn, old, served
<1> QED
  BY <1>6 DEF after, vj

(* Turn(c) is computed from the one row c has.                             *)
LEMMA TurnOfRow ==
    ASSUME EachOnce(pacer), pacer \in Pacer, NEW j \in DOMAIN pacer.requestCONNMap
    PROVE  Turn(pacer.requestCONNMap[j]) =
               (j - 1 - pacer.counter + Len(pacer.requestCONNMap))
                   % Len(pacer.requestCONNMap)
<1> DEFINE size == Len(pacer.requestCONNMap)
           at == CHOOSE i \in 1 .. size :
                     pacer.requestCONNMap[i] = pacer.requestCONNMap[j]
<1>1. DOMAIN pacer.requestCONNMap = 1 .. size
  BY DEF Pacer
<1>2. at \in 1 .. size /\ pacer.requestCONNMap[at] = pacer.requestCONNMap[j]
  BY <1>1
<1>3. at = j
  BY <1>1, <1>2 DEF EachOnce
<1> QED
  BY <1>3 DEF Turn

(* Only the pacer takes a pull out of a queue, in the order of the table.  *)
LEMMA QueueShrinks ==
    ASSUME PacerInv, [Next]_vars, NEW d \in Conns,
           Len(receiver'[d].pullQueue) < Len(receiver[d].pullQueue)
    PROVE  \E i \in DOMAIN pacer.requestCONNMap :
              /\ IsNextInTurn(i) /\ pacer.requestCONNMap[i] = d
              /\ pacer'.requestCONNMap = pacer.requestCONNMap
              /\ pacer'.counter = i
<1>1. receiver \in [Conns -> Receiver] /\ pacer \in Pacer
  BY PacerFacts
<1>2. /\ Len(receiver[d].pullQueue) \in Nat
      /\ receiver[d].request_id \in Nat
  BY <1>1, ReceiverFields
<1>3. receiver' # receiver
  BY <1>2
<1>4. ASSUME NEW c \in Conns, NEW s \in Receiver,
             receiver' = [receiver EXCEPT ![c] = s],
             receiver[c].request_id <= s.request_id, Sent(s) = Sent(receiver[c])
      PROVE  FALSE
  <2>1. d = c /\ receiver'[d] = s
    BY <1>1, <1>2, <1>4
  <2>2. s.request_id \in Nat /\ Len(s.pullQueue) \in Nat
    BY ReceiverFields
  <2>3. s.request_id - Len(s.pullQueue)
            = receiver[d].request_id - Len(receiver[d].pullQueue)
    BY <1>4, <2>1 DEF Sent
  <2> DEFINE q == Len(s.pullQueue)
             was == Len(receiver[d].pullQueue)
  <2>4. q < was /\ receiver[d].request_id <= s.request_id
    BY <1>4, <2>1
  <2> HIDE DEF q, was
  <2> QED
    BY <1>2, <2>2, <2>3, <2>4 DEF q, was
<1>5. ASSUME NEW c \in Conns, NEW esi \in data[c], RcvSymbol(c, esi)
      PROVE  FALSE
  <2>1. Established(receiver[c], c).request_id = receiver[c].request_id
    BY EstablishedEntry
  <2> QED
    BY <1>4, <1>5, <2>1, SymbolPacing
<1>6. ASSUME NEW c \in Conns, NEW esi \in headers[c], RcvHeader(c, esi)
      PROVE  FALSE
  BY <1>4, <1>6, HeaderPacing
<1>7. TimerExpires
  BY <1>3, <1>5, <1>6
     DEF Next, vars, SendInitialWindow, RcvPull, Network, TrimSymbol, DiscardSymbol
<1> DEFINE expired == [pacer EXCEPT !.timer = "idle"]
<1>8. PICK i \in DOMAIN pacer.requestCONNMap :
              /\ IsNextInTurn(i)
              /\ SendPull(pacer.requestCONNMap[i])
              /\ pacer' = NextRequest(RequestTimer(
                         [expired EXCEPT !.nap = FALSE, !.counter = i], 1))
  BY <1>3, <1>7 DEF TimerExpires, PaceRequests
<1>9. i \in Nat /\ pacer.requestCONNMap[i] \in Conns
  BY <1>1, <1>8 DEF Pacer
<1>10. pacer.requestCONNMap[i] = d
  <2> DEFINE e == pacer.requestCONNMap[i]
  <2>1. e \in Conns /\ receiver[e].pullQueue # <<>> /\ SendPull(e)
    BY <1>8, <1>9 DEF IsNextInTurn
  <2> HIDE DEF e
  <2>2. PICK s \in Receiver : receiver' = [receiver EXCEPT ![e] = s]
    BY <2>1, SendPullPacing
  <2>3. e # d => receiver'[d] = receiver[d]
    BY <1>1, <2>2
  <2>4. e = d
    BY <1>2, <2>3
  <2> QED
    BY <2>4 DEF e
<1> DEFINE turned == [expired EXCEPT !.nap = FALSE, !.counter = i]
<1>11. /\ turned \in Pacer /\ turned.counter = i
       /\ turned.requestCONNMap = pacer.requestCONNMap
  BY <1>1, <1>9 DEF Pacer
<1>12. pacer' = NextRequest(RequestTimer(turned, 1))
  BY <1>8
<1> HIDE DEF turned
<1>13. pacer'.requestCONNMap = pacer.requestCONNMap /\ pacer'.counter = i
  BY <1>11, <1>12, RequestTimerType, RequestTimerEffect, NextRequestEffect
<1> QED
  BY <1>8, <1>10, <1>13

(* What ServedInTurn says of one step.                                     *)
LEMMA NearerTurn ==
    ASSUME PacerInv, [Next]_vars, NEW c \in Registered(pacer),
           NEW d \in Registered(pacer), c # d, receiver[c].pullQueue # <<>>,
           Len(receiver'[d].pullQueue) < Len(receiver[d].pullQueue)
    PROVE  Turn(c)' < Turn(c)
<1> DEFINE size == Len(pacer.requestCONNMap)
           k == pacer.counter
<1>1. /\ pacer \in Pacer /\ EachOnce(pacer) /\ d \in Conns
      /\ pacer' \in Pacer /\ EachOnce(pacer')
  <2>1. pacer \in Pacer /\ EachOnce(pacer)
    BY DEF PacerInv, TransferInv, PullInv, TypeOK
  <2>2. pacer' \in Pacer /\ EachOnce(pacer)'
    BY PacerInvInductive DEF PacerInv, TransferInv, PullInv, TypeOK
  <2> QED
    BY <2>1, <2>2 DEF Registered, Pacer, EachOnce
<1>2. PICK i \in DOMAIN pacer.requestCONNMap :
              /\ IsNextInTurn(i) /\ pacer.requestCONNMap[i] = d
              /\ pacer'.requestCONNMap = pacer.requestCONNMap
              /\ pacer'.counter = i
  BY <1>1, QueueShrinks
<1>3. PICK j \in DOMAIN pacer.requestCONNMap : pacer.requestCONNMap[j] = c
  BY DEF Registered
<1>4. /\ DOMAIN pacer.requestCONNMap = 1 .. size /\ size \in Nat
      /\ i # j /\ k \in 0 .. size
  BY <1>1, <1>2, <1>3 DEF Pacer, EachOnce
<1>5. (i - 1 - k + size) % size <= (j - 1 - k + size) % size
  BY <1>2, <1>3, <1>4 DEF IsNextInTurn
<1>6. Turn(c) = (j - 1 - k + size) % size
  BY <1>1, <1>3, TurnOfRow
<1>7. Turn(c)' = (j - 1 - i + size) % size
  <2> DEFINE at == CHOOSE row \in 1 .. size : pacer.requestCONNMap[row] = c
  <2>1. Turn(c)' = (at - 1 - i + size) % size
    BY <1>2 DEF Turn
  <2>2. at \in 1 .. size /\ pacer.requestCONNMap[at] = c
    BY <1>3, <1>4
  <2>3. at = j
    BY <1>1, <1>3, <1>4, <2>2 DEF EachOnce
  <2> QED
    BY <2>1, <2>3
<1> HIDE DEF size, k
<1>8. size \in Nat \ {0} /\ i \in 1 .. size /\ j \in 1 .. size
  BY <1>2, <1>3, <1>4
<1> QED
  BY <1>4, <1>5, <1>6, <1>7, <1>8, AfterServing

(* A pull that leaves brings every other waiting connection nearer to its  *)
(* turn: the counter moves to the row served, and the rows between are no  *)
(* longer in the way.                                                      *)
THEOREM RoundRobin == OutageSpec => ServedInTurn
<1> DEFINE Nearer ==
        \A c, d \in Registered(pacer) :
            /\ c # d /\ receiver[c].pullQueue # <<>>
            /\ Len(receiver'[d].pullQueue) < Len(receiver[d].pullQueue)
            => Turn(c)' < Turn(c)
<1>1. OutageInv /\ [OutageNext]_OutageVars => [Nearer]_vars
  <2> SUFFICES ASSUME OutageInv, [OutageNext]_OutageVars,
                      NEW c \in Registered(pacer), NEW d \in Registered(pacer),
                      c # d, receiver[c].pullQueue # <<>>,
                      Len(receiver'[d].pullQueue) < Len(receiver[d].pullQueue)
               PROVE  Turn(c)' < Turn(c)
    OBVIOUS
  <2>1. receiver' # receiver
    <3>1. receiver[d] \in Receiver
      BY DEF OutageInv, Registered, Pacer
    <3>2. Len(receiver[d].pullQueue) \in Nat
      BY <3>1, ReceiverFields
    <3> QED
      BY <3>2
  <2>2. ~deleted /\ Next
    BY <2>1, TransportStep, DeletedStep
       DEF OutageNext, OutageVars, vars, Expires, Next, TimerOfDeleted, GoDown, GoUp
  <2> QED
    BY <2>2, NearerTurn DEF OutageInv
<1> QED
  BY <1>1, OutageInvHolds, PTL DEF OutageSpec, ServedInTurn

=============================================================================
