------------------------ MODULE RaqsacTransportProofs ------------------------
(***************************************************************************)
(* Theorems about RaqsacTransport for every value of its constants: first  *)
(* the types and the order of the pulls, then what a receiver knows and    *)
(* asks for, which needs the books of the receiver (its window, its        *)
(* counters, its verdict) and the conservation of symbols between sender,  *)
(* network and receiver.                                                   *)
(***************************************************************************)
EXTENDS RaqsacTransport, FiniteSetTheorems, TLAPS

-----------------------------------------------------------------------------
(* The types of what the handlers are built from.  The state block has 16  *)
(* fields: each update is proved one field at a time.                      *)

LEMMA PushedWindowType ==
    ASSUME NEW c \in Conns
    PROVE  PushedWindow(c) \in Nat \ {0}
BY NumSymbolsAssumption, InitialWindowAssumption DEF PushedWindow

LEMMA ListeningReceiverType == ListeningReceiver \in Receiver
BY InitialWindowAssumption, InitialSsthreshAssumption
   DEF ListeningReceiver, Receiver

LEMMA EstablishedType ==
    ASSUME NEW c \in Conns, NEW r \in Receiver
    PROVE  Established(r, c) \in Receiver
BY PushedWindowType, NumSymbolsAssumption
   DEF Established, ProcessSegmentInListen, Receiver

LEMMA SetRequestId ==
    ASSUME NEW r \in Receiver, NEW n \in Nat
    PROVE  [r EXCEPT !.request_id = n] \in Receiver
BY DEF Receiver

LEMMA SetPullQueue ==
    ASSUME NEW r \in Receiver, NEW q \in Seq(Pull)
    PROVE  [r EXCEPT !.pullQueue = q] \in Receiver
BY DEF Receiver

LEMMA SetEsi ==
    ASSUME NEW r \in Receiver, NEW n \in Nat
    PROVE  [r EXCEPT !.esi = n] \in Receiver
BY DEF Receiver

LEMMA SetNumberReceived ==
    ASSUME NEW r \in Receiver, NEW n \in Nat
    PROVE  [r EXCEPT !.numberReceivedPackets = n] \in Receiver
BY DEF Receiver

LEMMA SetTrimmed ==
    ASSUME NEW r \in Receiver, NEW n \in Nat
    PROVE  [r EXCEPT !.numRcvTrimmedHeader = n] \in Receiver
BY DEF Receiver

LEMMA SetReceivedInWindow ==
    ASSUME NEW r \in Receiver, NEW n \in Nat
    PROVE  [r EXCEPT !.receivedPacketsInWindow = n] \in Receiver
BY DEF Receiver

LEMMA SetSentPulls ==
    ASSUME NEW r \in Receiver, NEW n \in Int
    PROVE  [r EXCEPT !.sentPullsInWindow = n] \in Receiver
BY DEF Receiver

LEMMA SetCwnd ==
    ASSUME NEW r \in Receiver, NEW n \in Nat \ {0}
    PROVE  [r EXCEPT !.cwnd = n] \in Receiver
BY DEF Receiver

LEMMA SetSsthresh ==
    ASSUME NEW r \in Receiver, NEW n \in Nat
    PROVE  [r EXCEPT !.ssthresh = n] \in Receiver
BY DEF Receiver

LEMMA SetFlags ==
    ASSUME NEW r \in Receiver, NEW b \in BOOLEAN
    PROVE  /\ [r EXCEPT !.sendPulls = b] \in Receiver
           /\ [r EXCEPT !.connNotAddedYet = b] \in Receiver
           /\ [r EXCEPT !.redoDecoding = b] \in Receiver
           /\ [r EXCEPT !.connFinished = b] \in Receiver
           /\ [r EXCEPT !.isfinalReceivedPrintedOut = b] \in Receiver
<1>1. [r EXCEPT !.sendPulls = b] \in Receiver BY DEF Receiver
<1>2. [r EXCEPT !.connNotAddedYet = b] \in Receiver BY DEF Receiver
<1>3. [r EXCEPT !.redoDecoding = b] \in Receiver BY DEF Receiver
<1>4. [r EXCEPT !.connFinished = b] \in Receiver BY DEF Receiver
<1>5. [r EXCEPT !.isfinalReceivedPrintedOut = b] \in Receiver BY DEF Receiver
<1> QED BY <1>1, <1>2, <1>3, <1>4, <1>5

(* The types of the fields, one fact for arithmetic to cite.               *)
LEMMA ReceiverFields ==
    ASSUME NEW r \in Receiver
    PROVE  /\ r.numPacketsToGet \in Nat /\ r.numberReceivedPackets \in Nat
           /\ r.numRcvTrimmedHeader \in Nat /\ r.esi \in Nat
           /\ r.request_id \in Nat /\ r.pullQueue \in Seq(Pull)
           /\ r.cwnd \in Nat \ {0} /\ r.ssthresh \in Nat
           /\ r.receivedPacketsInWindow \in Nat /\ r.sentPullsInWindow \in Int
           /\ r.connFinished \in BOOLEAN /\ r.sendPulls \in BOOLEAN
           /\ r.connNotAddedYet \in BOOLEAN /\ r.redoDecoding \in BOOLEAN
           /\ r.isfinalReceivedPrintedOut \in BOOLEAN
           /\ r.fsm \in {"LISTEN", "ESTABLISHED"}
BY DEF Receiver

LEMMA AddRequestType ==
    ASSUME NEW r \in Receiver
    PROVE  AddRequestToPullsQueue(r) \in Receiver
<1> DEFINE pull == [seq |-> r.request_id + 1, fin |-> IsFin(r)]
<1>1. pull \in Pull
  BY ReceiverFields DEF Pull, IsFin
<1>2. AddRequestToPullsQueue(r)
        = [[r EXCEPT !.request_id = r.request_id + 1]
              EXCEPT !.pullQueue = Append(r.pullQueue, pull)]
  BY ReceiverFields DEF AddRequestToPullsQueue, Receiver
<1> HIDE DEF pull
<1>3. Append(r.pullQueue, pull) \in Seq(Pull)
  BY <1>1, ReceiverFields
<1>4. [r EXCEPT !.request_id = r.request_id + 1] \in Receiver
  BY ReceiverFields, SetRequestId
<1> QED
  BY <1>2, <1>3, <1>4, SetPullQueue

LEMMA CountSymbolType ==
    ASSUME NEW r \in Receiver
    PROVE  CountSymbol(r) \in Receiver
<1>1. /\ r.esi + 1 \in Nat /\ r.numberReceivedPackets + 1 \in Nat
      /\ r.receivedPacketsInWindow + 1 \in Nat
      /\ r.sentPullsInWindow - 1 \in Int
  BY ReceiverFields
<1>2. CountSymbol(r) =
        [[[[r EXCEPT !.esi = r.esi + 1]
              EXCEPT !.numberReceivedPackets = r.numberReceivedPackets + 1]
              EXCEPT !.receivedPacketsInWindow = r.receivedPacketsInWindow + 1]
              EXCEPT !.sentPullsInWindow = r.sentPullsInWindow - 1]
  BY DEF CountSymbol, Receiver
<1>3. [[[[r EXCEPT !.esi = r.esi + 1]
            EXCEPT !.numberReceivedPackets = r.numberReceivedPackets + 1]
            EXCEPT !.receivedPacketsInWindow = r.receivedPacketsInWindow + 1]
            EXCEPT !.sentPullsInWindow = r.sentPullsInWindow - 1] \in Receiver
  BY <1>1, SetEsi, SetNumberReceived, SetReceivedInWindow, SetSentPulls
<1> QED
  BY <1>2, <1>3

LEMMA OpenWindowType ==
    ASSUME NEW r \in Receiver
    PROVE  OpenWindow(r) \in Receiver
BY ReceiverFields, SetCwnd DEF OpenWindow

LEMMA GrowWindowType ==
    ASSUME NEW r \in Receiver
    PROVE  GrowWindow(r) \in Receiver
<1>1. OpenWindow(r) \in Receiver
  BY OpenWindowType
<1>2. [OpenWindow(r) EXCEPT !.receivedPacketsInWindow = 0] \in Receiver
  BY <1>1, SetReceivedInWindow
<1>3. [r EXCEPT !.sendPulls = FALSE] \in Receiver
  BY SetFlags
<1> QED
  BY <1>1, <1>2, <1>3, AddRequestType DEF GrowWindow

LEMMA ReplaceSymbolType ==
    ASSUME NEW r \in Receiver, NEW esi \in Nat
    PROVE  ReplaceSymbol(r, esi) \in Receiver
<1>1. [r EXCEPT !.esi = esi] \in Receiver
  BY SetEsi
<1>2. ASSUME esi < r.esi
      PROVE  [r EXCEPT !.esi = @ - 1] \in Receiver
  <2>1. r.esi - 1 \in Nat
    BY <1>2, ReceiverFields
  <2> QED
    BY <2>1, SetEsi
<1>3. esi > r.esi \/ esi < r.esi \/ esi = r.esi
  BY ReceiverFields
<1> QED
  BY <1>1, <1>2, <1>3, AddRequestType, ReceiverFields DEF ReplaceSymbol

LEMMA DecodeType ==
    ASSUME NEW r \in Receiver
    PROVE  Decode(r) \in Receiver
BY SetFlags, AddRequestType DEF Decode

LEMMA RegisterType ==
    ASSUME NEW r \in Receiver, NEW n
    PROVE  Register(r, n) \in Receiver
BY SetFlags DEF Register

LEMMA ArriveSymbolType ==
    ASSUME NEW r \in Receiver, NEW esi \in Nat
    PROVE  ArriveSymbol(r, esi) \in Receiver
<1> DEFINE grown == GrowWindow(CountSymbol(r))
<1>1. grown \in Receiver
  BY CountSymbolType, GrowWindowType
<1>2. ArriveSymbol(r, esi) =
        IF Overrun(grown)
        THEN [grown EXCEPT !.connFinished = TRUE]
        ELSE Decode(Register(ReplaceSymbol(grown, esi), 1))
  BY DEF ArriveSymbol
<1> HIDE DEF grown
<1> QED
  BY <1>1, <1>2, SetFlags, ReplaceSymbolType, RegisterType, DecodeType

LEMMA HalfType ==
    ASSUME NEW n \in Nat
    PROVE  Half(n) \in Nat \ {0}
BY DEF Half

LEMMA CountHeaderType ==
    ASSUME NEW r \in Receiver
    PROVE  CountHeader(r) \in Receiver
<1>1. r.numRcvTrimmedHeader + 1 \in Nat /\ r.sentPullsInWindow - 1 \in Int
  BY ReceiverFields
<1>2. CountHeader(r) =
        [[r EXCEPT !.sentPullsInWindow = r.sentPullsInWindow - 1]
            EXCEPT !.numRcvTrimmedHeader = r.numRcvTrimmedHeader + 1]
  BY DEF CountHeader, Receiver
<1>3. [[r EXCEPT !.sentPullsInWindow = r.sentPullsInWindow - 1]
          EXCEPT !.numRcvTrimmedHeader = r.numRcvTrimmedHeader + 1] \in Receiver
  BY <1>1, SetTrimmed, SetSentPulls
<1> QED
  BY <1>2, <1>3

LEMMA HalveWindowType ==
    ASSUME NEW r \in Receiver
    PROVE  HalveWindow(r) \in Receiver
<1> DEFINE half == Half(r.cwnd)
           r1 == CountHeader(r)
           r2 == [r1 EXCEPT !.cwnd = half]
           r3 == [r2 EXCEPT !.ssthresh = half]
           n == IF r1.receivedPacketsInWindow + 1 >= half
                THEN 0 ELSE r1.receivedPacketsInWindow + 1
<1>1. r1 \in Receiver
  BY CountHeaderType
<1>2. half \in Nat \ {0} /\ half \in Nat
  BY HalfType, ReceiverFields
<1>3. HalveWindow(r) = [r1 EXCEPT !.cwnd = half, !.ssthresh = half,
                                  !.receivedPacketsInWindow =
                                     IF @ + 1 >= half THEN 0 ELSE @ + 1]
  BY DEF HalveWindow
<1> HIDE DEF half, r1
<1>4. r2 \in Receiver
  BY <1>1, <1>2, SetCwnd
<1>5. r3 \in Receiver
  BY <1>2, <1>4, SetSsthresh
<1>6. n \in Nat
  BY <1>1, ReceiverFields
<1>7. HalveWindow(r) = [r3 EXCEPT !.receivedPacketsInWindow = n]
  BY <1>1, <1>3 DEF Receiver
<1> HIDE DEF r2, r3, n
<1> QED
  BY <1>5, <1>6, <1>7, SetReceivedInWindow

LEMMA ArriveHeaderType ==
    ASSUME NEW r \in Receiver
    PROVE  ArriveHeader(r) \in Receiver
BY HalveWindowType, AddRequestType, RegisterType DEF ArriveHeader

LEMMA SendPullType ==
    ASSUME NEW r \in Receiver, r.pullQueue # <<>>
    PROVE  /\ [r EXCEPT !.pullQueue = Tail(@), !.sentPullsInWindow = @ + 1]
                 \in Receiver
           /\ Head(r.pullQueue) \in Pull
<1>1. Tail(r.pullQueue) \in Seq(Pull) /\ Head(r.pullQueue) \in Pull
  BY ReceiverFields
<1>2. r.sentPullsInWindow + 1 \in Int
  BY ReceiverFields
<1>3. [r EXCEPT !.pullQueue = Tail(@), !.sentPullsInWindow = @ + 1]
        = [[r EXCEPT !.pullQueue = Tail(r.pullQueue)]
              EXCEPT !.sentPullsInWindow = r.sentPullsInWindow + 1]
  BY DEF Receiver
<1> QED
  BY <1>1, <1>2, <1>3, SetPullQueue, SetSentPulls

-----------------------------------------------------------------------------
(* The types of what the pacer does.                                       *)

LEMMA RequestTimerType ==
    ASSUME NEW p \in Pacer, NEW n \in Nat
    PROVE  RequestTimer(p, n) \in Pacer
<1>1. /\ p.timerQueue + n \in Nat
      /\ n > 0 => p.timerQueue + n - 1 \in Nat
  BY DEF Pacer
<1>2. [p EXCEPT !.timerQueue = p.timerQueue + n] \in Pacer
  BY <1>1 DEF Pacer
<1> DEFINE k == p.timerQueue + n - 1
<1>3. n > 0 => k \in Nat
  BY <1>1
<1> HIDE DEF k
<1>4. ASSUME k \in Nat
      PROVE  [p EXCEPT !.timer = "scheduled", !.timerQueue = k] \in Pacer
  BY <1>4 DEF Pacer
<1> QED
  BY <1>2, <1>3, <1>4 DEF RequestTimer, k

LEMMA CancelRequestTimerType ==
    ASSUME NEW p \in Pacer
    PROVE  CancelRequestTimer(p) \in Pacer
BY DEF CancelRequestTimer, Pacer

LEMMA NextRequestType ==
    ASSUME NEW p \in Pacer
    PROVE  NextRequest(p) \in Pacer
<1> DEFINE k == p.timerQueue - 1
<1>1. ASSUME p.timerQueue > 0
      PROVE  k \in Nat
  BY <1>1 DEF Pacer
<1> HIDE DEF k
<1>2. ASSUME k \in Nat
      PROVE  [p EXCEPT !.timer = "scheduled", !.timerQueue = k] \in Pacer
  BY <1>2 DEF Pacer
<1> QED
  BY <1>1, <1>2 DEF NextRequest, k

(* A handler never takes back a request: it only adds to request_id.       *)
LEMMA PacerAfterType ==
    ASSUME pacer \in Pacer, NEW c \in Conns, NEW r \in Receiver,
           NEW rcv \in [Conns -> Receiver], r.request_id <= rcv[c].request_id,
           NEW registers \in BOOLEAN, NEW finishing \in BOOLEAN
    PROVE  PacerAfter(c, r, rcv, registers, finishing) \in Pacer
<1> DEFINE added == IF registers
                    THEN [pacer EXCEPT !.requestCONNMap = Append(@, c)]
                    ELSE pacer
           byFirst == IF registers /\ ~AllPullQueuesEmpty(added, rcv) THEN 1 ELSE 0
           n == NapRequests(r, rcv[c]) + byFirst
           requested == RequestTimer(added, n)
<1>1. added \in Pacer
  BY DEF Pacer
<1>2. rcv[c] \in Receiver
  OBVIOUS
<1>3. NapRequests(r, rcv[c]) \in Nat
  BY <1>2, ReceiverFields DEF NapRequests
<1>4. n \in Nat
  BY <1>3
<1>5. PacerAfter(c, r, rcv, registers, finishing) =
        IF finishing /\ AllConnFinished(requested, rcv)
        THEN CancelRequestTimer(requested)
        ELSE requested
  BY DEF PacerAfter
<1> HIDE DEF added, n
<1>6. requested \in Pacer
  BY <1>1, <1>4, RequestTimerType
<1> HIDE DEF requested
<1> QED
  BY <1>5, <1>6, CancelRequestTimerType

-----------------------------------------------------------------------------
(* What a handler does to the pulls of a connection: it may append new     *)
(* ones, numbered on from request_id, and touches none that is queued.     *)

Sent(r) == r.request_id - Len(r.pullQueue)

InOrder(r) == \A i \in DOMAIN r.pullQueue : r.pullQueue[i].seq = Sent(r) + i

OnlyRequests(r, s) ==
    /\ r.request_id <= s.request_id
    /\ Sent(s) = Sent(r)
    /\ InOrder(r) => InOrder(s)

LEMMA OnlyRequestsSame ==
    ASSUME NEW r \in Receiver, NEW s \in Receiver,
           s.request_id = r.request_id, s.pullQueue = r.pullQueue
    PROVE  OnlyRequests(r, s)
BY ReceiverFields DEF OnlyRequests, InOrder, Sent

LEMMA OnlyRequestsTrans ==
    ASSUME NEW r \in Receiver, NEW s \in Receiver, NEW t \in Receiver,
           OnlyRequests(r, s), OnlyRequests(s, t)
    PROVE  OnlyRequests(r, t)
BY ReceiverFields DEF OnlyRequests

LEMMA AddRequestOnly ==
    ASSUME NEW r \in Receiver
    PROVE  OnlyRequests(r, AddRequestToPullsQueue(r))
<1> DEFINE pull == [seq |-> r.request_id + 1, fin |-> IsFin(r)]
           s == AddRequestToPullsQueue(r)
<1>1. /\ s.request_id = r.request_id + 1
      /\ s.pullQueue = Append(r.pullQueue, pull)
  BY DEF AddRequestToPullsQueue, Receiver
<1>2. pull \in Pull /\ pull.seq = r.request_id + 1
  BY ReceiverFields DEF Pull, IsFin
<1> HIDE DEF pull, s
<1>3. r.pullQueue \in Seq(Pull) /\ r.request_id \in Nat
  BY ReceiverFields
<1>4. Len(s.pullQueue) = Len(r.pullQueue) + 1
  BY <1>1, <1>2, <1>3
<1>5. Sent(s) = Sent(r)
  <2>1. Len(r.pullQueue) \in Nat
    BY <1>3
  <2> QED
    BY <1>1, <1>3, <1>4, <2>1 DEF Sent
<1>6. ASSUME InOrder(r), NEW i \in DOMAIN s.pullQueue
      PROVE  s.pullQueue[i].seq = Sent(s) + i
  <2>1. CASE i \in DOMAIN r.pullQueue
    <3>1. s.pullQueue[i] = r.pullQueue[i]
      BY <1>1, <1>2, <1>3, <2>1
    <3> QED
      BY <1>5, <1>6, <2>1, <3>1 DEF InOrder
  <2>2. CASE i = Len(r.pullQueue) + 1
    <3>1. s.pullQueue[i] = pull
      BY <1>1, <1>2, <1>3, <2>2
    <3> QED
      BY <1>2, <1>3, <1>5, <2>2, <3>1 DEF Sent
  <2> QED
    BY <1>1, <1>2, <1>3, <1>4, <1>6, <2>1, <2>2
<1> QED
  BY <1>1, <1>3, <1>5, <1>6 DEF OnlyRequests, InOrder, s

LEMMA CountSymbolOnly ==
    ASSUME NEW r \in Receiver
    PROVE  OnlyRequests(r, CountSymbol(r))
<1>1. /\ CountSymbol(r).request_id = r.request_id
      /\ CountSymbol(r).pullQueue = r.pullQueue
  BY DEF CountSymbol, Receiver
<1> QED
  BY <1>1, CountSymbolType, OnlyRequestsSame

LEMMA OpenWindowOnly ==
    ASSUME NEW r \in Receiver
    PROVE  /\ OnlyRequests(r, OpenWindow(r))
           /\ OnlyRequests(r, [OpenWindow(r) EXCEPT !.receivedPacketsInWindow = 0])
<1> DEFINE w == OpenWindow(r)
           z == [w EXCEPT !.receivedPacketsInWindow = 0]
<1>1. w \in Receiver /\ w.request_id = r.request_id /\ w.pullQueue = r.pullQueue
  BY OpenWindowType DEF OpenWindow, Receiver
<1> HIDE DEF w
<1>2. z \in Receiver /\ z.request_id = w.request_id /\ z.pullQueue = w.pullQueue
  BY <1>1, SetReceivedInWindow DEF Receiver
<1> HIDE DEF z
<1>3. OnlyRequests(r, w) /\ OnlyRequests(r, z)
  BY <1>1, <1>2, OnlyRequestsSame
<1> QED
  BY <1>3 DEF z, w

LEMMA GrowWindowOnly ==
    ASSUME NEW r \in Receiver
    PROVE  OnlyRequests(r, GrowWindow(r))
<1> DEFINE w == OpenWindow(r)
           z == [w EXCEPT !.receivedPacketsInWindow = 0]
           closed == [r EXCEPT !.sendPulls = FALSE]
<1>1. w \in Receiver /\ z \in Receiver /\ closed \in Receiver
  BY OpenWindowType, SetReceivedInWindow, SetFlags
<1>2. OnlyRequests(r, w) /\ OnlyRequests(r, z)
  BY OpenWindowOnly
<1>3. closed.request_id = r.request_id /\ closed.pullQueue = r.pullQueue
  BY DEF Receiver
<1>4. GrowWindow(r) \in {r, closed, AddRequestToPullsQueue(w),
                         AddRequestToPullsQueue(z)}
  BY DEF GrowWindow
<1> HIDE DEF w, z, closed
<1>5. OnlyRequests(r, AddRequestToPullsQueue(w))
  BY <1>1, <1>2, AddRequestOnly, AddRequestType, OnlyRequestsTrans
<1>6. OnlyRequests(r, AddRequestToPullsQueue(z))
  BY <1>1, <1>2, AddRequestOnly, AddRequestType, OnlyRequestsTrans
<1>7. OnlyRequests(r, r) /\ OnlyRequests(r, closed)
  BY <1>1, <1>3, OnlyRequestsSame
<1> QED
  BY <1>4, <1>5, <1>6, <1>7

LEMMA ReplaceSymbolOnly ==
    ASSUME NEW r \in Receiver, NEW esi \in Nat
    PROVE  OnlyRequests(r, ReplaceSymbol(r, esi))
<1> DEFINE up == [r EXCEPT !.esi = esi]
           down == [r EXCEPT !.esi = r.esi - 1]
<1>1. up \in Receiver /\ up.request_id = r.request_id /\ up.pullQueue = r.pullQueue
  BY SetEsi DEF Receiver
<1>2. /\ esi < r.esi => down \in Receiver
      /\ down.request_id = r.request_id /\ down.pullQueue = r.pullQueue
  <2>1. esi < r.esi => r.esi - 1 \in Nat
    BY ReceiverFields
  <2> QED
    BY <2>1, SetEsi DEF Receiver
<1>3. \/ ReplaceSymbol(r, esi) \in {r, AddRequestToPullsQueue(r),
                                   AddRequestToPullsQueue(up)}
      \/ esi < r.esi /\ ReplaceSymbol(r, esi) = AddRequestToPullsQueue(down)
  <2>1. esi > r.esi \/ esi < r.esi \/ esi = r.esi
    BY ReceiverFields
  <2> QED
    BY <2>1, ReceiverFields DEF ReplaceSymbol
<1> HIDE DEF up, down
<1>4. OnlyRequests(r, AddRequestToPullsQueue(up))
  BY <1>1, AddRequestOnly, AddRequestType, OnlyRequestsSame, OnlyRequestsTrans
<1>5. ASSUME esi < r.esi
      PROVE  OnlyRequests(r, AddRequestToPullsQueue(down))
  BY <1>2, <1>5, AddRequestOnly, AddRequestType, OnlyRequestsSame, OnlyRequestsTrans
<1>6. OnlyRequests(r, r) /\ OnlyRequests(r, AddRequestToPullsQueue(r))
  BY AddRequestOnly, OnlyRequestsSame
<1> QED
  BY <1>3, <1>4, <1>5, <1>6

LEMMA RegisterOnly ==
    ASSUME NEW r \in Receiver, NEW n
    PROVE  OnlyRequests(r, Register(r, n))
<1>1. /\ Register(r, n).request_id = r.request_id
      /\ Register(r, n).pullQueue = r.pullQueue
  BY DEF Register, Receiver
<1> QED
  BY <1>1, RegisterType, OnlyRequestsSame

LEMMA DecodeOnly ==
    ASSUME NEW r \in Receiver
    PROVE  OnlyRequests(r, Decode(r))
<1> DEFINE added == AddRequestToPullsQueue(r)
           reported == [r EXCEPT !.isfinalReceivedPrintedOut = TRUE]
           redo == [added EXCEPT !.redoDecoding = TRUE]
<1>1. reported \in Receiver /\ reported.request_id = r.request_id
      /\ reported.pullQueue = r.pullQueue
  BY SetFlags DEF Receiver
<1>2. added \in Receiver /\ OnlyRequests(r, added)
  BY AddRequestType, AddRequestOnly
<1>3. Decode(r) \in {r, reported, redo}
  BY DEF Decode
<1> HIDE DEF added, reported
<1>4. redo \in Receiver /\ redo.request_id = added.request_id
      /\ redo.pullQueue = added.pullQueue
  BY <1>2, SetFlags DEF Receiver
<1> HIDE DEF redo
<1>5. OnlyRequests(r, redo)
  BY <1>2, <1>4, OnlyRequestsSame, OnlyRequestsTrans
<1> QED
  BY <1>1, <1>3, <1>5, OnlyRequestsSame

LEMMA ArriveSymbolOnly ==
    ASSUME NEW r \in Receiver, NEW esi \in Nat
    PROVE  OnlyRequests(r, ArriveSymbol(r, esi))
<1> DEFINE counted == CountSymbol(r)
           grown == GrowWindow(counted)
           replaced == ReplaceSymbol(grown, esi)
           registered == Register(replaced, 1)
           decoded == Decode(registered)
           overrun == [grown EXCEPT !.connFinished = TRUE]
<1>1. counted \in Receiver /\ OnlyRequests(r, counted)
  BY CountSymbolType, CountSymbolOnly
<1>2. ArriveSymbol(r, esi) = IF Overrun(grown) THEN overrun ELSE decoded
  BY DEF ArriveSymbol
<1> HIDE DEF counted
<1>3. grown \in Receiver /\ OnlyRequests(r, grown)
  BY <1>1, GrowWindowType, GrowWindowOnly, OnlyRequestsTrans
<1> HIDE DEF grown
<1>4. overrun \in Receiver /\ overrun.request_id = grown.request_id
      /\ overrun.pullQueue = grown.pullQueue
  BY <1>3, SetFlags DEF Receiver
<1>5. replaced \in Receiver /\ OnlyRequests(r, replaced)
  BY <1>3, ReplaceSymbolType, ReplaceSymbolOnly, OnlyRequestsTrans
<1> HIDE DEF replaced, overrun
<1>6. registered \in Receiver /\ OnlyRequests(r, registered)
  BY <1>5, RegisterType, RegisterOnly, OnlyRequestsTrans
<1> HIDE DEF registered
<1>7. OnlyRequests(r, decoded)
  BY <1>6, DecodeType, DecodeOnly, OnlyRequestsTrans
<1>8. OnlyRequests(r, overrun)
  BY <1>3, <1>4, OnlyRequestsSame, OnlyRequestsTrans
<1> QED
  BY <1>2, <1>7, <1>8

LEMMA ArriveHeaderOnly ==
    ASSUME NEW r \in Receiver
    PROVE  OnlyRequests(r, ArriveHeader(r))
<1> DEFINE halved == HalveWindow(r)
           pulled == IF halved.sentPullsInWindow < halved.cwnd
                     THEN AddRequestToPullsQueue(halved)
                     ELSE halved
<1>1. halved.request_id = r.request_id /\ halved.pullQueue = r.pullQueue
  BY DEF HalveWindow, CountHeader, Receiver
<1>2. halved \in Receiver
  BY HalveWindowType
<1>3. ArriveHeader(r) = Register(pulled, 0)
  BY DEF ArriveHeader
<1> HIDE DEF halved
<1>4. pulled \in Receiver /\ OnlyRequests(r, pulled)
  BY <1>1, <1>2, AddRequestType, AddRequestOnly, OnlyRequestsSame, OnlyRequestsTrans
<1> HIDE DEF pulled
<1> QED
  BY <1>3, <1>4, RegisterType, RegisterOnly, OnlyRequestsTrans

LEMMA EstablishedOnly ==
    ASSUME NEW c \in Conns, NEW r \in Receiver
    PROVE  OnlyRequests(r, Established(r, c))
<1>1. /\ Established(r, c).request_id = r.request_id
      /\ Established(r, c).pullQueue = r.pullQueue
  BY DEF Established, ProcessSegmentInListen, Receiver
<1> QED
  BY <1>1, EstablishedType, OnlyRequestsSame

-----------------------------------------------------------------------------
(* The inductive invariant: types, the order of the pulls and, for the     *)
(* sender, that beyond the pushed window it only counted requests.         *)

SenderInStep ==
    \A c \in Conns : sender[c].esi <= PushedWindow(c) + sender[c].request_id

PullInv == TypeOK /\ PullOrder /\ SenderInStep

LEMMA PullOrderOfReceivers ==
    PullOrder <=>
        \A c \in Conns :
            /\ InOrder(receiver[c])
            /\ \A pull \in pulls[c] : pull.seq <= Sent(receiver[c])
            /\ sender[c].request_id <= Sent(receiver[c])
BY DEF PullOrder, PullsSent, InOrder, Sent

LEMMA InitPullInv == Init => PullInv
<1> SUFFICES ASSUME Init PROVE PullInv
  OBVIOUS
<1> USE DEF Init
<1>1. sender \in [Conns -> Sender]
  BY DEF Sender
<1>2. receiver \in [Conns -> Receiver]
  BY ListeningReceiverType
<1>3. pacer \in Pacer
  BY DEF Pacer
<1>4. TypeOK
  BY <1>1, <1>2, <1>3, DecoderAssumption DEF TypeOK
<1>5. ASSUME NEW c \in Conns
      PROVE  /\ InOrder(receiver[c])
             /\ \A pull \in pulls[c] : pull.seq <= Sent(receiver[c])
             /\ sender[c].request_id <= Sent(receiver[c])
             /\ sender[c].esi <= PushedWindow(c) + sender[c].request_id
  <2>1. receiver[c].pullQueue = <<>> /\ receiver[c].request_id = 0
    BY DEF ListeningReceiver
  <2>2. sender[c].esi = 0 /\ sender[c].request_id = 0 /\ pulls[c] = {}
    OBVIOUS
  <2>3. Sent(receiver[c]) = 0
    BY <2>1 DEF Sent
  <2> QED
    BY <2>1, <2>2, <2>3, PushedWindowType DEF InOrder
<1>6. PullOrder
  BY <1>5, PullOrderOfReceivers
<1>7. SenderInStep
  BY <1>5 DEF SenderInStep
<1> QED
  BY <1>4, <1>6, <1>7 DEF PullInv

(* A handler of the receiver that only appends requests keeps the order.   *)
LEMMA ReceiverKeepsPullOrder ==
    ASSUME PullInv, NEW c \in Conns, NEW s \in Receiver,
           OnlyRequests(receiver[c], s),
           receiver' = [receiver EXCEPT ![c] = s],
           UNCHANGED <<sender, pulls>>
    PROVE  /\ receiver' \in [Conns -> Receiver]
           /\ PullOrder'
           /\ SenderInStep'
<1>1. receiver' \in [Conns -> Receiver]
  BY DEF PullInv, TypeOK
<1>2. ASSUME NEW d \in Conns
      PROVE  /\ InOrder(receiver'[d])
             /\ \A pull \in pulls'[d] : pull.seq <= Sent(receiver'[d])
             /\ sender'[d].request_id <= Sent(receiver'[d])
  <2>1. /\ InOrder(receiver[d])
        /\ \A pull \in pulls[d] : pull.seq <= Sent(receiver[d])
        /\ sender[d].request_id <= Sent(receiver[d])
    BY PullOrderOfReceivers DEF PullInv
  <2>2. CASE d = c
    BY <2>1, <2>2 DEF PullInv, TypeOK, OnlyRequests
  <2>3. CASE d # c
    BY <2>1, <2>3 DEF PullInv, TypeOK
  <2> QED
    BY <2>2, <2>3
<1>3. PullOrder'
  BY <1>2 DEF PullOrder, PullsSent, InOrder, Sent
<1>4. SenderInStep'
  BY DEF PullInv, SenderInStep, PushedWindow
<1> QED
  BY <1>1, <1>3, <1>4

LEMMA SendInitialWindowKeepsPullInv ==
    ASSUME PullInv, NEW c \in Conns, SendInitialWindow(c)
    PROVE  PullInv'
<1> USE DEF PullInv, TypeOK, SendInitialWindow, OpenSender
<1> DEFINE s == [sender[c] EXCEPT !.opened = TRUE, !.esi = PushedWindow(c)]
<1>1. sender' = [sender EXCEPT ![c] = s]
  OBVIOUS
<1>2. s \in Sender /\ s.request_id = sender[c].request_id
      /\ s.esi = PushedWindow(c)
  BY PushedWindowType DEF Sender
<1> HIDE DEF s
<1>3. TypeOK'
  <2>1. sender' \in [Conns -> Sender]
    BY <1>1, <1>2
  <2>2. 1 .. PushedWindow(c) \in SUBSET Nat
    BY PushedWindowType
  <2>3. data' \in [Conns -> SUBSET Nat]
    BY <2>2
  <2> QED
    BY <2>1, <2>3
<1>4. \A d \in Conns : sender'[d].request_id = sender[d].request_id
  BY <1>1, <1>2
<1>5. PullOrder'
  BY <1>4 DEF PullOrder, PullsSent
<1>6. ASSUME NEW d \in Conns
      PROVE  sender'[d].esi <= PushedWindow(d) + sender'[d].request_id
  <2>1. CASE d = c
    BY <1>1, <1>2, <2>1, PushedWindowType DEF Sender
  <2>2. CASE d # c
    BY <1>1, <2>2 DEF SenderInStep
  <2> QED
    BY <2>1, <2>2
<1>7. SenderInStep'
  BY <1>6 DEF SenderInStep, PushedWindow
<1> QED
  BY <1>3, <1>5, <1>7

LEMMA RcvPullKeepsPullInv ==
    ASSUME PullInv, NEW c \in Conns, NEW pull \in pulls[c], RcvPull(c, pull)
    PROVE  PullInv'
<1> DEFINE new == RequestsGap(c, pull)
           s == [sender[c] EXCEPT !.esi = sender[c].esi + new,
                                  !.request_id = sender[c].request_id + new,
                                  !.connFinished = @ \/ pull.fin]
<1>1. sender[c] \in Sender /\ pull \in Pull
  BY DEF PullInv, TypeOK
<1>2. sender[c].esi \in Nat /\ sender[c].request_id \in Nat
      /\ pull.seq \in Nat /\ pull.fin \in BOOLEAN
      /\ sender[c].connFinished \in BOOLEAN
  BY <1>1 DEF Sender, Pull
<1>3. /\ new \in Nat
      /\ new = 0 \/ sender[c].request_id + new = pull.seq
  BY <1>2 DEF RequestsGap
<1>4. /\ sender' = [sender EXCEPT ![c] = s]
      /\ pulls' = [pulls EXCEPT ![c] = @ \ {pull}]
      /\ data' = [data EXCEPT ![c] =
                      @ \cup (sender[c].esi + 1) .. (sender[c].esi + new)]
      /\ UNCHANGED <<receiver, pacer, headers, discarded, decoding>>
  BY DEF RcvPull, AnswerPull, Answers
<1> HIDE DEF new
<1>5. /\ s.esi = sender[c].esi + new
      /\ s.request_id = sender[c].request_id + new
  BY <1>1 DEF Sender
<1>6. s \in Sender
  <2>1. /\ sender[c].esi + new \in Nat /\ sender[c].request_id + new \in Nat
        /\ (sender[c].connFinished \/ pull.fin) \in BOOLEAN
    BY <1>2, <1>3
  <2> QED
    BY <1>1, <2>1 DEF Sender
<1> HIDE DEF s
<1>7. TypeOK'
  <2>1. sender' \in [Conns -> Sender]
    BY <1>4, <1>6 DEF PullInv, TypeOK
  <2>2. (sender[c].esi + 1) .. (sender[c].esi + new) \in SUBSET Nat
    BY <1>2, <1>3
  <2>3. data' \in [Conns -> SUBSET Nat]
    BY <1>4, <2>2 DEF PullInv, TypeOK
  <2>4. pulls' \in [Conns -> SUBSET Pull]
    BY <1>4 DEF PullInv, TypeOK
  <2> QED
    BY <1>4, <2>1, <2>3, <2>4 DEF PullInv, TypeOK
<1>8. ASSUME NEW d \in Conns
      PROVE  /\ InOrder(receiver'[d])
             /\ \A p \in pulls'[d] : p.seq <= Sent(receiver'[d])
             /\ sender'[d].request_id <= Sent(receiver'[d])
             /\ sender'[d].esi <= PushedWindow(d) + sender'[d].request_id
  <2>1. /\ InOrder(receiver[d])
        /\ \A p \in pulls[d] : p.seq <= Sent(receiver[d])
        /\ sender[d].request_id <= Sent(receiver[d])
        /\ sender[d].esi <= PushedWindow(d) + sender[d].request_id
    BY PullOrderOfReceivers DEF PullInv, SenderInStep
  <2>2. CASE d = c
    <3>1. sender'[d] = s /\ pulls'[d] = pulls[d] \ {pull}
          /\ receiver'[d] = receiver[d]
      BY <1>4, <2>2 DEF PullInv, TypeOK
    <3>2. s.request_id <= Sent(receiver[d])
      BY <1>2, <1>3, <1>5, <2>1, <2>2
    <3>3. s.esi <= PushedWindow(d) + s.request_id
      BY <1>2, <1>3, <1>5, <2>1, <2>2, PushedWindowType
    <3> QED
      BY <2>1, <3>1, <3>2, <3>3
  <2>3. CASE d # c
    BY <1>4, <2>1, <2>3 DEF PullInv, TypeOK
  <2> QED
    BY <2>2, <2>3
<1>9. PullOrder'
  BY <1>8 DEF PullOrder, PullsSent, InOrder, Sent
<1>10. SenderInStep'
  BY <1>8 DEF SenderInStep, PushedWindow
<1> QED
  BY <1>7, <1>9, <1>10 DEF PullInv

LEMMA RcvSymbolKeepsPullInv ==
    ASSUME PullInv, NEW c \in Conns, NEW esi \in data[c], RcvSymbol(c, esi)
    PROVE  PullInv'
<1> DEFINE r == Established(receiver[c], c)
           s == ArriveSymbol(r, esi)
<1>1. receiver[c] \in Receiver /\ esi \in Nat
  BY DEF PullInv, TypeOK
<1>2. r \in Receiver /\ OnlyRequests(receiver[c], r)
  BY <1>1, EstablishedType, EstablishedOnly
<1>3. /\ data' = [data EXCEPT ![c] = @ \ {esi}]
      /\ UNCHANGED <<sender, headers, pulls, discarded, decoding>>
  BY DEF RcvSymbol, ReceiveSymbol
<1>4. \/ UNCHANGED <<receiver, pacer>>
      \/ /\ receiver' = [receiver EXCEPT ![c] = s]
         /\ \E registers \in BOOLEAN, finishing \in BOOLEAN :
                pacer' = PacerAfter(c, r, receiver', registers, finishing)
  BY DEF RcvSymbol, ReceiveSymbol, Registers, Overrun
<1> HIDE DEF r
<1>5. s \in Receiver /\ OnlyRequests(r, s)
  BY <1>1, <1>2, ArriveSymbolType, ArriveSymbolOnly
<1> HIDE DEF s
<1>6. OnlyRequests(receiver[c], s)
  BY <1>1, <1>2, <1>5, OnlyRequestsTrans
<1>7. data' \in [Conns -> SUBSET Nat]
  BY <1>3 DEF PullInv, TypeOK
<1>8. CASE UNCHANGED <<receiver, pacer>>
  BY <1>3, <1>7, <1>8
     DEF PullInv, TypeOK, PullOrder, PullsSent, SenderInStep, PushedWindow
<1>9. CASE /\ receiver' = [receiver EXCEPT ![c] = s]
           /\ \E registers \in BOOLEAN, finishing \in BOOLEAN :
                 pacer' = PacerAfter(c, r, receiver', registers, finishing)
  <2>1. /\ receiver' \in [Conns -> Receiver]
        /\ PullOrder'
        /\ SenderInStep'
    BY <1>3, <1>5, <1>6, <1>9, ReceiverKeepsPullOrder
  <2>2. r.request_id <= receiver'[c].request_id
    BY <1>5, <1>9 DEF PullInv, TypeOK, OnlyRequests
  <2>3. PICK registers \in BOOLEAN, finishing \in BOOLEAN :
           pacer' = PacerAfter(c, r, receiver', registers, finishing)
    BY <1>9
  <2>4. pacer \in Pacer
    BY DEF PullInv, TypeOK
  <2>5. pacer' \in Pacer
    BY <1>2, <2>1, <2>2, <2>3, <2>4, PacerAfterType
  <2> QED
    BY <1>3, <1>7, <2>1, <2>5 DEF PullInv, TypeOK
<1> QED
  BY <1>4, <1>8, <1>9

LEMMA RcvHeaderKeepsPullInv ==
    ASSUME PullInv, NEW c \in Conns, NEW esi \in headers[c], RcvHeader(c, esi)
    PROVE  PullInv'
<1> DEFINE r == Established(receiver[c], c)
           s == ArriveHeader(r)
<1>1. receiver[c] \in Receiver
  BY DEF PullInv, TypeOK
<1>2. r \in Receiver /\ OnlyRequests(receiver[c], r)
  BY <1>1, EstablishedType, EstablishedOnly
<1>3. /\ headers' = [headers EXCEPT ![c] = @ \ {esi}]
      /\ UNCHANGED <<sender, data, pulls, discarded, decoding>>
  BY DEF RcvHeader, ReceiveHeader
<1>4. \/ UNCHANGED <<receiver, pacer>>
      \/ /\ receiver' = [receiver EXCEPT ![c] = s]
         /\ \E registers \in BOOLEAN :
                pacer' = PacerAfter(c, r, receiver', registers, FALSE)
  BY DEF RcvHeader, ReceiveHeader, Registers
<1> HIDE DEF r
<1>5. s \in Receiver /\ OnlyRequests(r, s)
  BY <1>1, <1>2, ArriveHeaderType, ArriveHeaderOnly
<1> HIDE DEF s
<1>6. OnlyRequests(receiver[c], s)
  BY <1>1, <1>2, <1>5, OnlyRequestsTrans
<1>7. headers' \in [Conns -> SUBSET Nat]
  BY <1>3 DEF PullInv, TypeOK
<1>8. CASE UNCHANGED <<receiver, pacer>>
  BY <1>3, <1>7, <1>8
     DEF PullInv, TypeOK, PullOrder, PullsSent, SenderInStep, PushedWindow
<1>9. CASE /\ receiver' = [receiver EXCEPT ![c] = s]
           /\ \E registers \in BOOLEAN :
                 pacer' = PacerAfter(c, r, receiver', registers, FALSE)
  <2>1. /\ receiver' \in [Conns -> Receiver]
        /\ PullOrder'
        /\ SenderInStep'
    BY <1>3, <1>5, <1>6, <1>9, ReceiverKeepsPullOrder
  <2>2. r.request_id <= receiver'[c].request_id
    BY <1>5, <1>9 DEF PullInv, TypeOK, OnlyRequests
  <2>3. PICK registers \in BOOLEAN :
           pacer' = PacerAfter(c, r, receiver', registers, FALSE)
    BY <1>9
  <2>4. pacer \in Pacer /\ FALSE \in BOOLEAN
    BY DEF PullInv, TypeOK
  <2>5. pacer' \in Pacer
    BY <1>2, <2>1, <2>2, <2>3, <2>4, PacerAfterType
  <2> QED
    BY <1>3, <1>7, <2>1, <2>5 DEF PullInv, TypeOK
<1> QED
  BY <1>4, <1>8, <1>9

LEMMA SendPullKeepsPullOrder ==
    ASSUME PullInv, NEW c \in Conns, receiver[c].pullQueue # <<>>, SendPull(c),
           UNCHANGED sender
    PROVE  /\ receiver' \in [Conns -> Receiver]
           /\ pulls' \in [Conns -> SUBSET Pull]
           /\ PullOrder'
           /\ SenderInStep'
<1> DEFINE r == receiver[c]
           s == [r EXCEPT !.pullQueue = Tail(@), !.sentPullsInWindow = @ + 1]
<1>1. r \in Receiver
  BY DEF PullInv, TypeOK
<1>2. /\ receiver' = [receiver EXCEPT ![c] = s]
      /\ pulls' = [pulls EXCEPT ![c] = @ \cup {Head(r.pullQueue)}]
  BY DEF SendPull
<1>3. s \in Receiver /\ Head(r.pullQueue) \in Pull
  BY <1>1, SendPullType
<1>4. s.pullQueue = Tail(r.pullQueue) /\ s.request_id = r.request_id
  BY <1>1 DEF Receiver
<1>5. r.pullQueue \in Seq(Pull) /\ r.pullQueue # <<>> /\ r.request_id \in Nat
  BY <1>1, ReceiverFields
<1> HIDE DEF s, r
<1>6. /\ Len(r.pullQueue) \in Nat \ {0}
      /\ Len(s.pullQueue) = Len(r.pullQueue) - 1
      /\ Head(r.pullQueue) = r.pullQueue[1]
      /\ \A i \in DOMAIN s.pullQueue :
            i + 1 \in DOMAIN r.pullQueue /\ s.pullQueue[i] = r.pullQueue[i + 1]
  BY <1>4, <1>5
<1>7. Sent(s) = Sent(r) + 1 /\ Sent(r) \in Int
  BY <1>4, <1>5, <1>6 DEF Sent
<1>8. /\ InOrder(r)
      /\ \A pull \in pulls[c] : pull.seq <= Sent(r)
      /\ sender[c].request_id <= Sent(r)
  BY PullOrderOfReceivers DEF PullInv, r
<1>9. InOrder(s)
  <2> SUFFICES ASSUME NEW i \in DOMAIN s.pullQueue
               PROVE  s.pullQueue[i].seq = Sent(s) + i
    BY DEF InOrder
  <2>1. r.pullQueue[i + 1].seq = Sent(r) + (i + 1)
    BY <1>6, <1>8 DEF InOrder
  <2>2. i \in Nat
    BY <1>3, ReceiverFields
  <2> QED
    BY <1>6, <1>7, <2>1, <2>2
<1>10. Head(r.pullQueue).seq = Sent(s)
  <2>1. 1 \in DOMAIN r.pullQueue
    BY <1>5, <1>6
  <2>2. r.pullQueue[1].seq = Sent(r) + 1
    BY <1>8, <2>1 DEF InOrder
  <2> QED
    BY <1>6, <1>7, <2>2
<1>11. ASSUME NEW d \in Conns
       PROVE  /\ InOrder(receiver'[d])
              /\ \A pull \in pulls'[d] : pull.seq <= Sent(receiver'[d])
              /\ sender'[d].request_id <= Sent(receiver'[d])
  <2>1. CASE d = c
    <3>1. /\ receiver'[d] = s /\ sender'[d] = sender[c]
          /\ pulls'[d] = pulls[c] \cup {Head(r.pullQueue)}
      BY <1>2, <2>1 DEF PullInv, TypeOK
    <3>2. ASSUME NEW pull \in pulls[c]
          PROVE  pull.seq <= Sent(s)
      <4>1. pull.seq \in Nat /\ pull.seq <= Sent(r)
        BY <1>8 DEF PullInv, TypeOK, Pull
      <4> QED
        BY <1>7, <4>1
    <3>3. sender[c].request_id <= Sent(s)
      <4>1. sender[c].request_id \in Nat
        BY DEF PullInv, TypeOK, Sender
      <4> QED
        BY <1>7, <1>8, <4>1
    <3>4. Head(r.pullQueue).seq <= Sent(s)
      BY <1>7, <1>10
    <3> QED
      BY <1>9, <3>1, <3>2, <3>3, <3>4
  <2>2. CASE d # c
    <3>1. receiver'[d] = receiver[d] /\ pulls'[d] = pulls[d]
          /\ sender'[d] = sender[d]
      BY <1>2, <2>2 DEF PullInv, TypeOK
    <3> QED
      BY <3>1, PullOrderOfReceivers DEF PullInv
  <2> QED
    BY <2>1, <2>2
<1>12. PullOrder'
  BY <1>11 DEF PullOrder, PullsSent, InOrder, Sent
<1>13. receiver' \in [Conns -> Receiver] /\ pulls' \in [Conns -> SUBSET Pull]
  BY <1>2, <1>3 DEF PullInv, TypeOK
<1>14. SenderInStep'
  BY DEF PullInv, SenderInStep, PushedWindow
<1> QED
  BY <1>12, <1>13, <1>14

LEMMA TimerExpiresKeepsPullInv ==
    ASSUME PullInv, TimerExpires
    PROVE  PullInv'
<1> DEFINE expired == [pacer EXCEPT !.timer = "idle"]
           napping == [expired EXCEPT !.nap = TRUE]
<1>1. UNCHANGED <<sender, data, headers, discarded, decoding>>
  BY DEF TimerExpires, PaceRequests
<1>2. expired \in Pacer /\ napping \in Pacer
  BY DEF PullInv, TypeOK, Pacer
<1>3. CASE \/ pacer' = NextRequest(expired) /\ UNCHANGED <<receiver, pulls>>
           \/ pacer' = NextRequest(napping) /\ UNCHANGED <<receiver, pulls>>
  <2>1. pacer' \in Pacer
    BY <1>2, <1>3, NextRequestType
  <2> QED
    BY <1>1, <1>3, <2>1
       DEF PullInv, TypeOK, PullOrder, PullsSent, SenderInStep, PushedWindow
<1>4. ASSUME NEW i \in DOMAIN pacer.requestCONNMap,
             IsNextInTurn(i),
             SendPull(pacer.requestCONNMap[i]),
             pacer' = NextRequest(RequestTimer(
                          [expired EXCEPT !.nap = FALSE, !.counter = i], 1))
      PROVE  PullInv'
  <2> DEFINE c == pacer.requestCONNMap[i]
  <2>1. c \in Conns /\ i \in Nat
    BY DEF PullInv, TypeOK, Pacer
  <2>2. receiver[c].pullQueue # <<>>
    BY <1>4 DEF IsNextInTurn
  <2>3. [expired EXCEPT !.nap = FALSE, !.counter = i] \in Pacer
    BY <1>2, <2>1 DEF Pacer
  <2>4. pacer' \in Pacer
    BY <1>4, <2>3, RequestTimerType, NextRequestType
  <2>5. /\ receiver' \in [Conns -> Receiver]
        /\ pulls' \in [Conns -> SUBSET Pull]
        /\ PullOrder'
        /\ SenderInStep'
    BY <1>1, <1>4, <2>1, <2>2, SendPullKeepsPullOrder
  <2> QED
    BY <1>1, <2>4, <2>5 DEF PullInv, TypeOK
<1> QED
  BY <1>3, <1>4 DEF TimerExpires, PaceRequests

LEMMA NetworkKeepsPullInv ==
    ASSUME PullInv, NEW c \in Conns, Network(c)
    PROVE  PullInv'
<1>1. /\ UNCHANGED <<sender, receiver, pacer, pulls, decoding>>
      /\ data' \in [Conns -> SUBSET Nat]
      /\ headers' \in [Conns -> SUBSET Nat]
      /\ discarded' \in [Conns -> Nat]
  BY DEF PullInv, TypeOK, Network, TrimSymbol, DiscardSymbol
<1> QED
  BY <1>1 DEF PullInv, TypeOK, PullOrder, PullsSent, SenderInStep, PushedWindow

LEMMA PullInvInductive == PullInv /\ [Next]_vars => PullInv'
<1> SUFFICES ASSUME PullInv, [Next]_vars PROVE PullInv'
  OBVIOUS
<1>1. CASE UNCHANGED vars
  BY <1>1 DEF PullInv, TypeOK, PullOrder, PullsSent, SenderInStep, PushedWindow, vars
<1>2. CASE Next
  BY <1>2, SendInitialWindowKeepsPullInv, RcvPullKeepsPullInv,
     RcvSymbolKeepsPullInv, RcvHeaderKeepsPullInv, NetworkKeepsPullInv,
     TimerExpiresKeepsPullInv DEF Next
<1> QED
  BY <1>1, <1>2

LEMMA PullInvHolds == Spec => []PullInv
BY InitPullInv, PullInvInductive, PTL DEF Spec

-----------------------------------------------------------------------------
(* Every counter stays in its range, whatever the number of connections,   *)
(* the sizes of the transfers, the windows and the trims.                  *)
THEOREM TypeCorrect == Spec => []TypeOK
<1>1. PullInv => TypeOK
  BY DEF PullInv
<1> QED
  BY <1>1, PullInvHolds, PTL

(* Pulls leave the queue in order and without a hole, and no sender counts *)
(* a request that was not sent, however the network reorders pulls.        *)
THEOREM PullsInOrder == Spec => []PullOrder
<1>1. PullInv => PullOrder
  BY DEF PullInv
<1> QED
  BY <1>1, PullInvHolds, PTL

(* Beyond the pushed window every symbol sent answers a pull of its own.   *)
THEOREM SymbolsSolicited == Spec => []NoUnsolicitedSymbol
<1>1. PullInv => NoUnsolicitedSymbol
  <2> SUFFICES ASSUME PullInv, NEW c \in Conns
               PROVE  sender[c].esi <= PushedWindow(c) + PullsSent(c)
    BY DEF NoUnsolicitedSymbol
  <2>1. /\ sender[c].esi \in Nat /\ sender[c].request_id \in Nat
        /\ receiver[c].request_id \in Nat /\ Len(receiver[c].pullQueue) \in Nat
    BY DEF PullInv, TypeOK, Sender, Receiver
  <2>2. /\ sender[c].request_id <= PullsSent(c)
        /\ sender[c].esi <= PushedWindow(c) + sender[c].request_id
    BY DEF PullInv, PullOrder, SenderInStep
  <2>3. PullsSent(c) \in Int
    BY <2>1 DEF PullsSent
  <2> QED
    BY <2>1, <2>2, <2>3, PushedWindowType
<1> QED
  BY <1>1, PullInvHolds, PTL

-----------------------------------------------------------------------------
(* What each part of a handler changes, in the fields the books are about. *)

SameCounts(r, s) ==
    /\ s.fsm = r.fsm
    /\ s.numPacketsToGet = r.numPacketsToGet
    /\ s.numberReceivedPackets = r.numberReceivedPackets
    /\ s.numRcvTrimmedHeader = r.numRcvTrimmedHeader
    /\ s.sentPullsInWindow = r.sentPullsInWindow

SameVerdict(r, s) ==
    /\ s.connFinished = r.connFinished
    /\ s.redoDecoding = r.redoDecoding
    /\ s.isfinalReceivedPrintedOut = r.isfinalReceivedPrintedOut

SameWindow(r, s) == s.cwnd = r.cwnd /\ s.sendPulls = r.sendPulls

LEMMA AddRequestEffect ==
    ASSUME NEW r \in Receiver
    PROVE  LET s == AddRequestToPullsQueue(r)
           IN  /\ SameCounts(r, s) /\ SameVerdict(r, s) /\ SameWindow(r, s)
               /\ s.request_id = r.request_id + 1
BY DEF AddRequestToPullsQueue, Receiver, SameCounts, SameVerdict, SameWindow

LEMMA CountSymbolEffect ==
    ASSUME NEW r \in Receiver
    PROVE  LET s == CountSymbol(r)
           IN  /\ SameVerdict(r, s) /\ SameWindow(r, s)
               /\ s.fsm = r.fsm
               /\ s.numPacketsToGet = r.numPacketsToGet
               /\ s.numberReceivedPackets = r.numberReceivedPackets + 1
               /\ s.numRcvTrimmedHeader = r.numRcvTrimmedHeader
               /\ s.sentPullsInWindow = r.sentPullsInWindow - 1
               /\ s.request_id = r.request_id
BY DEF CountSymbol, Receiver, SameVerdict, SameWindow

(* The four ways GrowWindow may go.                                        *)
LEMMA GrowWindowEffect ==
    ASSUME NEW r \in Receiver
    PROVE  LET s == GrowWindow(r)
           IN  /\ SameCounts(r, s) /\ SameVerdict(r, s)
               /\ \/ /\ ~r.sendPulls
                     /\ SameWindow(r, s) /\ s.request_id = r.request_id
                  \/ /\ r.sendPulls /\ WindowSuffices(r) /\ ~s.sendPulls
                     /\ s.cwnd = r.cwnd /\ s.request_id = r.request_id
                  \/ /\ r.sendPulls /\ ~WindowSuffices(r)
                     /\ SameWindow(r, s) /\ s.request_id = r.request_id
                  \/ /\ r.sendPulls /\ ~WindowSuffices(r) /\ s.sendPulls
                     /\ s.cwnd = r.cwnd + 1
                     /\ s.request_id = r.request_id + 1
<1> DEFINE w == OpenWindow(r)
           z == [w EXCEPT !.receivedPacketsInWindow = 0]
           closed == [r EXCEPT !.sendPulls = FALSE]
           s == GrowWindow(r)
<1> USE DEF SameCounts, SameVerdict, SameWindow
<1>1. w \in Receiver /\ z \in Receiver
  BY OpenWindowType, SetReceivedInWindow
<1>2. /\ SameCounts(r, w) /\ SameVerdict(r, w)
      /\ w.cwnd = r.cwnd + 1 /\ w.sendPulls = r.sendPulls
      /\ w.request_id = r.request_id
  BY DEF OpenWindow, Receiver
<1>3. /\ SameCounts(r, closed) /\ SameVerdict(r, closed)
      /\ closed.cwnd = r.cwnd /\ ~closed.sendPulls
      /\ closed.request_id = r.request_id
  BY DEF Receiver
<1>4. \/ ~r.sendPulls /\ s = r
      \/ r.sendPulls /\ WindowSuffices(r) /\ s = closed
      \/ /\ r.sendPulls /\ ~WindowSuffices(r)
         /\ s \in {r, AddRequestToPullsQueue(w), AddRequestToPullsQueue(z)}
  BY DEF GrowWindow
<1> HIDE DEF w
<1>5. /\ SameCounts(w, z) /\ SameVerdict(w, z) /\ SameWindow(w, z)
      /\ z.request_id = w.request_id
  BY <1>1 DEF Receiver
<1> HIDE DEF z, closed, s
<1>6. r.sendPulls \in BOOLEAN
  BY ReceiverFields
<1>7. CASE ~r.sendPulls /\ s = r
  BY <1>7 DEF s
<1>8. CASE r.sendPulls /\ WindowSuffices(r) /\ s = closed
  BY <1>3, <1>8 DEF s
<1>9. CASE r.sendPulls /\ ~WindowSuffices(r) /\ s = r
  BY <1>9 DEF s
<1>10. CASE r.sendPulls /\ ~WindowSuffices(r) /\ s = AddRequestToPullsQueue(w)
  <2>1. /\ SameCounts(w, s) /\ SameVerdict(w, s) /\ SameWindow(w, s)
        /\ s.request_id = w.request_id + 1
    BY <1>1, <1>10, AddRequestEffect
  <2> QED
    BY <1>2, <1>10, <2>1 DEF s
<1>11. CASE r.sendPulls /\ ~WindowSuffices(r) /\ s = AddRequestToPullsQueue(z)
  <2>1. /\ SameCounts(z, s) /\ SameVerdict(z, s) /\ SameWindow(z, s)
        /\ s.request_id = z.request_id + 1
    BY <1>1, <1>11, AddRequestEffect DEF s
  <2> QED
    BY <1>2, <1>5, <1>11, <2>1 DEF s
<1> QED
  BY <1>4, <1>7, <1>8, <1>9, <1>10, <1>11

(* A pulling connection that still wants symbols leaves the symbol without *)
(* a pull only near the end of the transfer.                               *)
LEMMA ReplaceSymbolEffect ==
    ASSUME NEW r \in Receiver, NEW esi \in Nat
    PROVE  LET s == ReplaceSymbol(r, esi)
           IN  /\ SameCounts(r, s) /\ SameVerdict(r, s) /\ SameWindow(r, s)
               /\ \/ /\ s.request_id = r.request_id
                     /\ \/ ~r.sendPulls \/ r.connFinished
                        \/ r.numberReceivedPackets >= WantedSymbols(r)
                        \/ r.numberReceivedPackets > WantedSymbols(r) - InitialWindow
                  \/ /\ s.request_id = r.request_id + 1
                     /\ r.sendPulls /\ r.numberReceivedPackets < WantedSymbols(r)
<1> DEFINE up == [r EXCEPT !.esi = esi]
           down == [r EXCEPT !.esi = r.esi - 1]
           s == ReplaceSymbol(r, esi)
<1> USE DEF SameCounts, SameVerdict, SameWindow
<1>1. /\ up \in Receiver /\ SameCounts(r, up) /\ SameVerdict(r, up)
      /\ SameWindow(r, up) /\ up.request_id = r.request_id
  BY SetEsi DEF Receiver
<1>2. /\ esi < r.esi => down \in Receiver
      /\ SameCounts(r, down) /\ SameVerdict(r, down)
      /\ SameWindow(r, down) /\ down.request_id = r.request_id
  <2>1. esi < r.esi => r.esi - 1 \in Nat
    BY ReceiverFields
  <2> QED
    BY <2>1, SetEsi DEF Receiver
<1> DEFINE skipped == \/ ~r.sendPulls \/ r.connFinished
                      \/ r.numberReceivedPackets >= WantedSymbols(r)
                      \/ r.numberReceivedPackets > WantedSymbols(r) - InitialWindow
           wanted == r.sendPulls /\ r.numberReceivedPackets < WantedSymbols(r)
<1>3. \/ s = r /\ skipped
      \/ wanted /\ s \in {AddRequestToPullsQueue(r), AddRequestToPullsQueue(up)}
      \/ wanted /\ esi < r.esi /\ s = AddRequestToPullsQueue(down)
  <2>1. esi > r.esi \/ esi < r.esi \/ esi = r.esi
    BY ReceiverFields
  <2>2. WantedSymbols(r) \in Int /\ r.numberReceivedPackets \in Int
    BY ReceiverFields DEF WantedSymbols
  <2> QED
    BY <2>1, <2>2, ReceiverFields, InitialWindowAssumption DEF ReplaceSymbol
<1> HIDE DEF up, down, s, skipped, wanted
<1>4. CASE s = r /\ skipped
  BY <1>4 DEF s, skipped
<1>5. CASE wanted /\ s = AddRequestToPullsQueue(r)
  BY <1>5, AddRequestEffect DEF s, wanted
<1>6. CASE wanted /\ s = AddRequestToPullsQueue(up)
  <2>1. /\ SameCounts(up, s) /\ SameVerdict(up, s) /\ SameWindow(up, s)
        /\ s.request_id = up.request_id + 1
    BY <1>1, <1>6, AddRequestEffect DEF s
  <2> QED
    BY <1>1, <1>6, <2>1 DEF s, wanted
<1>7. CASE wanted /\ esi < r.esi /\ s = AddRequestToPullsQueue(down)
  <2>1. /\ SameCounts(down, s) /\ SameVerdict(down, s) /\ SameWindow(down, s)
        /\ s.request_id = down.request_id + 1
    BY <1>2, <1>7, AddRequestEffect DEF s
  <2> QED
    BY <1>2, <1>7, <2>1 DEF s, wanted
<1> QED
  BY <1>3, <1>4, <1>5, <1>6, <1>7

LEMMA RegisterEffect ==
    ASSUME NEW r \in Receiver, NEW n
    PROVE  LET s == Register(r, n)
           IN  /\ SameCounts(r, s) /\ SameVerdict(r, s) /\ SameWindow(r, s)
               /\ s.request_id = r.request_id
BY DEF Register, Receiver, SameCounts, SameVerdict, SameWindow

(* Decode does nothing, reports, or pulls one symbol more after a failure. *)
DecodeDue(r) ==
    /\ ~r.isfinalReceivedPrintedOut
    /\ \/ r.numberReceivedPackets = WantedSymbols(r)
       \/ r.connFinished
       \/ r.redoDecoding

LEMMA DecodeEffect ==
    ASSUME NEW r \in Receiver
    PROVE  LET s == Decode(r)
           IN  /\ SameCounts(r, s) /\ SameWindow(r, s)
               /\ s.connFinished = r.connFinished
               /\ \/ /\ ~DecodeDue(r)
                     /\ SameVerdict(r, s) /\ s.request_id = r.request_id
                  \/ /\ DecodeDue(r)
                     /\ s.isfinalReceivedPrintedOut
                     /\ s.redoDecoding = r.redoDecoding
                     /\ s.request_id = r.request_id
                  \/ /\ DecodeDue(r)
                     /\ r.numRcvTrimmedHeader # 0
                     /\ ~r.redoDecoding /\ s.redoDecoding
                     /\ ~s.isfinalReceivedPrintedOut
                     /\ s.request_id = r.request_id + 1
<1> DEFINE added == AddRequestToPullsQueue(r)
           reported == [r EXCEPT !.isfinalReceivedPrintedOut = TRUE]
           redo == [added EXCEPT !.redoDecoding = TRUE]
           s == Decode(r)
<1> USE DEF SameCounts, SameVerdict, SameWindow
<1>1. /\ added \in Receiver /\ SameCounts(r, added) /\ SameVerdict(r, added)
      /\ SameWindow(r, added) /\ added.request_id = r.request_id + 1
  BY AddRequestType, AddRequestEffect
<1>2. \/ ~DecodeDue(r) /\ s = r
      \/ DecodeDue(r) /\ s = reported
      \/ /\ DecodeDue(r) /\ r.numRcvTrimmedHeader # 0 /\ ~r.redoDecoding
         /\ s = redo
  BY DEF Decode, DecodeDue, IsDecoderSuccessful
<1>3. /\ SameCounts(r, reported) /\ SameWindow(r, reported)
      /\ reported.connFinished = r.connFinished
      /\ reported.redoDecoding = r.redoDecoding
      /\ reported.isfinalReceivedPrintedOut
      /\ reported.request_id = r.request_id
  BY DEF Receiver
<1> HIDE DEF added
<1>4. /\ SameCounts(added, redo) /\ SameWindow(added, redo)
      /\ redo.connFinished = added.connFinished
      /\ redo.redoDecoding
      /\ redo.isfinalReceivedPrintedOut = added.isfinalReceivedPrintedOut
      /\ redo.request_id = added.request_id
  BY <1>1 DEF Receiver
<1> HIDE DEF reported, redo, s
<1>5. CASE ~DecodeDue(r) /\ s = r
  BY <1>5 DEF s
<1>6. CASE DecodeDue(r) /\ s = reported
  BY <1>3, <1>6 DEF s
<1>7. CASE /\ DecodeDue(r) /\ r.numRcvTrimmedHeader # 0 /\ ~r.redoDecoding
           /\ s = redo
  BY <1>1, <1>4, <1>7 DEF s, DecodeDue
<1> QED
  BY <1>2, <1>5, <1>6, <1>7

(* The arrival of a symbol: first what it does to the counters, then how   *)
(* many pulls it adds, then what it comes to conclude.                     *)
LEMMA ArriveSymbolParts ==
    ASSUME NEW r \in Receiver, NEW esi \in Nat
    PROVE  \E g, q \in Receiver :
              LET s == ArriveSymbol(r, esi)
                  n == r.numberReceivedPackets + 1
                  suffices == n + r.cwnd > r.numPacketsToGet
              IN  /\ g.numberReceivedPackets = n
                  /\ g.numPacketsToGet = r.numPacketsToGet
                  /\ g.numRcvTrimmedHeader = r.numRcvTrimmedHeader
                  /\ g.fsm = r.fsm
                  /\ g.sentPullsInWindow = r.sentPullsInWindow - 1
                  /\ SameVerdict(r, g)
                  /\ \/ /\ ~r.sendPulls
                        /\ SameWindow(r, g) /\ g.request_id = r.request_id
                     \/ /\ r.sendPulls /\ suffices /\ ~g.sendPulls
                        /\ g.cwnd = r.cwnd /\ g.request_id = r.request_id
                     \/ /\ r.sendPulls /\ ~suffices
                        /\ SameWindow(r, g) /\ g.request_id = r.request_id
                     \/ /\ r.sendPulls /\ ~suffices /\ g.sendPulls
                        /\ g.cwnd = r.cwnd + 1
                        /\ g.request_id = r.request_id + 1
                  /\ SameCounts(g, q) /\ SameVerdict(g, q) /\ SameWindow(g, q)
                  /\ \/ /\ q.request_id = g.request_id
                        /\ \/ ~g.sendPulls \/ g.connFinished
                           \/ n >= WantedSymbols(r)
                           \/ n > WantedSymbols(r) - InitialWindow
                     \/ /\ q.request_id = g.request_id + 1
                        /\ g.sendPulls /\ n < WantedSymbols(r)
                  /\ \/ /\ n > WantedSymbols(r) /\ ~r.redoDecoding
                        /\ s = [g EXCEPT !.connFinished = TRUE]
                     \/ /\ n <= WantedSymbols(r) \/ r.redoDecoding
                        /\ s = Decode(q)
<1> DEFINE counted == CountSymbol(r)
           g == GrowWindow(counted)
           p == ReplaceSymbol(g, esi)
           q == Register(p, 1)
           s == ArriveSymbol(r, esi)
<1>1. counted \in Receiver
  BY CountSymbolType
<1>2. s = IF Overrun(g) THEN [g EXCEPT !.connFinished = TRUE] ELSE Decode(q)
  BY DEF ArriveSymbol
<1>3. /\ SameVerdict(r, counted) /\ SameWindow(r, counted)
      /\ counted.fsm = r.fsm
      /\ counted.numPacketsToGet = r.numPacketsToGet
      /\ counted.numberReceivedPackets = r.numberReceivedPackets + 1
      /\ counted.numRcvTrimmedHeader = r.numRcvTrimmedHeader
      /\ counted.sentPullsInWindow = r.sentPullsInWindow - 1
      /\ counted.request_id = r.request_id
  BY CountSymbolEffect
<1> HIDE DEF counted
<1>4. g \in Receiver /\ SameCounts(counted, g) /\ SameVerdict(counted, g)
  BY <1>1, GrowWindowType, GrowWindowEffect
<1>5. \/ /\ ~counted.sendPulls
         /\ SameWindow(counted, g) /\ g.request_id = counted.request_id
      \/ /\ counted.sendPulls /\ WindowSuffices(counted) /\ ~g.sendPulls
         /\ g.cwnd = counted.cwnd /\ g.request_id = counted.request_id
      \/ /\ counted.sendPulls /\ ~WindowSuffices(counted)
         /\ SameWindow(counted, g) /\ g.request_id = counted.request_id
      \/ /\ counted.sendPulls /\ ~WindowSuffices(counted) /\ g.sendPulls
         /\ g.cwnd = counted.cwnd + 1
         /\ g.request_id = counted.request_id + 1
  BY <1>1, GrowWindowEffect
<1> HIDE DEF g
<1>6. WantedSymbols(g) = WantedSymbols(r)
  BY <1>3, <1>4 DEF WantedSymbols, SameCounts
<1>7. /\ p \in Receiver
      /\ SameCounts(g, p) /\ SameVerdict(g, p) /\ SameWindow(g, p)
      /\ \/ /\ p.request_id = g.request_id
            /\ \/ ~g.sendPulls \/ g.connFinished
               \/ g.numberReceivedPackets >= WantedSymbols(g)
               \/ g.numberReceivedPackets > WantedSymbols(g) - InitialWindow
         \/ /\ p.request_id = g.request_id + 1
            /\ g.sendPulls /\ g.numberReceivedPackets < WantedSymbols(g)
  BY <1>4, ReplaceSymbolType, ReplaceSymbolEffect
<1> HIDE DEF p
<1>8. /\ q \in Receiver /\ SameCounts(p, q) /\ SameVerdict(p, q)
      /\ SameWindow(p, q) /\ q.request_id = p.request_id
  BY <1>7, RegisterType, RegisterEffect
<1> HIDE DEF q, s
<1>9. /\ g.numberReceivedPackets = r.numberReceivedPackets + 1
      /\ g.numPacketsToGet = r.numPacketsToGet
      /\ g.numRcvTrimmedHeader = r.numRcvTrimmedHeader
      /\ g.fsm = r.fsm
      /\ g.sentPullsInWindow = r.sentPullsInWindow - 1
      /\ SameVerdict(r, g)
  BY <1>3, <1>4 DEF SameCounts, SameVerdict
<1>10. WindowSuffices(counted) <=>
          r.numberReceivedPackets + 1 + r.cwnd > r.numPacketsToGet
  BY <1>3 DEF WindowSuffices, SameWindow
<1>11. SameCounts(g, q) /\ SameVerdict(g, q) /\ SameWindow(g, q)
  BY <1>7, <1>8 DEF SameCounts, SameVerdict, SameWindow
<1>12. \/ /\ r.numberReceivedPackets + 1 > WantedSymbols(r) /\ ~r.redoDecoding
          /\ s = [g EXCEPT !.connFinished = TRUE]
       \/ /\ \/ r.numberReceivedPackets + 1 <= WantedSymbols(r)
             \/ r.redoDecoding
          /\ s = Decode(q)
  <2>1. WantedSymbols(r) \in Int /\ r.numberReceivedPackets + 1 \in Int
    BY ReceiverFields DEF WantedSymbols
  <2> QED
    BY <1>2, <1>6, <1>9, <2>1 DEF Overrun, SameVerdict
<1>13. \/ /\ ~r.sendPulls
          /\ SameWindow(r, g) /\ g.request_id = r.request_id
       \/ /\ r.sendPulls /\ WindowSuffices(counted) /\ ~g.sendPulls
          /\ g.cwnd = r.cwnd /\ g.request_id = r.request_id
       \/ /\ r.sendPulls /\ ~WindowSuffices(counted)
          /\ SameWindow(r, g) /\ g.request_id = r.request_id
       \/ /\ r.sendPulls /\ ~WindowSuffices(counted) /\ g.sendPulls
          /\ g.cwnd = r.cwnd + 1
          /\ g.request_id = r.request_id + 1
  BY <1>3, <1>5 DEF SameWindow
<1> QED
  BY <1>4, <1>6, <1>7, <1>8, <1>9, <1>10, <1>11, <1>12, <1>13, Zenon DEF s

LEMMA ArriveSymbolCounts ==
    ASSUME NEW r \in Receiver, NEW esi \in Nat
    PROVE  LET s == ArriveSymbol(r, esi)
           IN  /\ s.fsm = r.fsm
               /\ s.numPacketsToGet = r.numPacketsToGet
               /\ s.numberReceivedPackets = r.numberReceivedPackets + 1
               /\ s.numRcvTrimmedHeader = r.numRcvTrimmedHeader
               /\ s.sentPullsInWindow = r.sentPullsInWindow - 1
<1> DEFINE s == ArriveSymbol(r, esi)
<1>1. PICK g \in Receiver, q \in Receiver :
         /\ g.fsm = r.fsm
         /\ g.numPacketsToGet = r.numPacketsToGet
         /\ g.numberReceivedPackets = r.numberReceivedPackets + 1
         /\ g.numRcvTrimmedHeader = r.numRcvTrimmedHeader
         /\ g.sentPullsInWindow = r.sentPullsInWindow - 1
         /\ SameCounts(g, q)
         /\ s = [g EXCEPT !.connFinished = TRUE] \/ s = Decode(q)
  BY ArriveSymbolParts, Zenon
<1> HIDE DEF s
<1>2. CASE s = [g EXCEPT !.connFinished = TRUE]
  BY <1>1, <1>2 DEF Receiver, s
<1>3. CASE s = Decode(q)
  <2>1. SameCounts(q, s)
    BY <1>3, DecodeEffect
  <2> QED
    BY <1>1, <2>1 DEF SameCounts, s
<1> QED
  BY <1>1, <1>2, <1>3

(* The pulls an arriving symbol adds.  While the window does not suffice   *)
(* there is one for the symbol and one for the step that opens the window, *)
(* or the transfer is so near its end that the pushed window covers it.    *)
LEMMA ArriveSymbolAsks ==
    ASSUME NEW r \in Receiver, NEW esi \in Nat,
           r.connFinished => r.numberReceivedPackets >= r.numPacketsToGet
    PROVE  LET s == ArriveSymbol(r, esi)
               n == r.numberReceivedPackets + 1
           IN  /\ s.request_id >= r.request_id
               /\ s.cwnd >= r.cwnd
               /\ ~s.sendPulls /\ r.sendPulls =>
                     n + r.cwnd > r.numPacketsToGet
               /\ s.sendPulls =>
                     /\ r.sendPulls
                     /\ n + r.cwnd <= r.numPacketsToGet
                     /\ \/ s.request_id - r.request_id >= 1 + s.cwnd - r.cwnd
                        \/ n > WantedSymbols(r) - InitialWindow
               /\ r.numRcvTrimmedHeader = 0 =>
                     /\ s.request_id - r.request_id <= 1 + s.cwnd - r.cwnd
                     /\ s.request_id <= r.request_id + 2
                     /\ s.request_id > r.request_id =>
                           n + r.cwnd <= r.numPacketsToGet
<1> DEFINE s == ArriveSymbol(r, esi)
           n == r.numberReceivedPackets + 1
           suffices == n + r.cwnd > r.numPacketsToGet
<1>1. PICK g \in Receiver, q \in Receiver :
         /\ g.numberReceivedPackets = n
         /\ g.numPacketsToGet = r.numPacketsToGet
         /\ g.numRcvTrimmedHeader = r.numRcvTrimmedHeader
         /\ SameVerdict(r, g)
         /\ \/ /\ ~r.sendPulls
               /\ SameWindow(r, g) /\ g.request_id = r.request_id
            \/ /\ r.sendPulls /\ suffices /\ ~g.sendPulls
               /\ g.cwnd = r.cwnd /\ g.request_id = r.request_id
            \/ /\ r.sendPulls /\ ~suffices
               /\ SameWindow(r, g) /\ g.request_id = r.request_id
            \/ /\ r.sendPulls /\ ~suffices /\ g.sendPulls
               /\ g.cwnd = r.cwnd + 1
               /\ g.request_id = r.request_id + 1
         /\ SameCounts(g, q) /\ SameWindow(g, q)
         /\ \/ /\ q.request_id = g.request_id
               /\ \/ ~g.sendPulls \/ g.connFinished
                  \/ n >= WantedSymbols(r)
                  \/ n > WantedSymbols(r) - InitialWindow
            \/ /\ q.request_id = g.request_id + 1
               /\ g.sendPulls /\ n < WantedSymbols(r)
         /\ \/ /\ n > WantedSymbols(r)
               /\ s = [g EXCEPT !.connFinished = TRUE]
            \/ s = Decode(q)
  BY ArriveSymbolParts, Zenon
<1>2. /\ r.numberReceivedPackets \in Nat /\ r.cwnd \in Nat \ {0}
      /\ r.numPacketsToGet \in Nat /\ r.request_id \in Nat
      /\ r.sendPulls \in BOOLEAN /\ r.connFinished \in BOOLEAN
      /\ WantedSymbols(r) \in Nat /\ WantedSymbols(r) >= r.numPacketsToGet
  BY ReceiverFields DEF WantedSymbols
<1>3. /\ g.cwnd \in Nat \ {0} /\ g.sendPulls \in BOOLEAN
      /\ g.request_id \in Nat /\ q.request_id \in Nat
  BY ReceiverFields
<1>4. CASE n > WantedSymbols(r) /\ s = [g EXCEPT !.connFinished = TRUE]
  <2>1. SameWindow(g, s) /\ s.request_id = g.request_id
    BY <1>4 DEF Receiver, SameWindow
  <2> HIDE DEF s
  <2>2. s.cwnd = g.cwnd /\ s.sendPulls = g.sendPulls
    BY <2>1 DEF SameWindow
  <2>3. ASSUME g.sendPulls PROVE FALSE
    <3>1. ~suffices
      BY <1>1, <1>2, <1>3, <2>3 DEF SameWindow
    <3> QED
      BY <1>2, <1>4, <3>1
  <2>4. ~s.sendPulls
    BY <2>2, <2>3
  <2> QED
    BY <1>1, <1>2, <1>3, <2>1, <2>2, <2>4 DEF SameWindow, s
<1>5. CASE s = Decode(q)
  <2>1. /\ SameWindow(q, s)
        /\ \/ s.request_id = q.request_id
           \/ q.numRcvTrimmedHeader # 0 /\ s.request_id = q.request_id + 1
    BY <1>5, DecodeEffect
  <2>2. s.request_id \in Nat /\ q.numRcvTrimmedHeader = r.numRcvTrimmedHeader
    BY <1>1, ArriveSymbolType, ReceiverFields DEF SameCounts
  <2>3. /\ s.cwnd = g.cwnd /\ s.sendPulls = g.sendPulls
        /\ g.connFinished = r.connFinished
    BY <1>1, <2>1 DEF SameWindow, SameVerdict
  <2> HIDE DEF s
  <2>4. /\ s.request_id >= r.request_id /\ s.cwnd >= r.cwnd
        /\ ~s.sendPulls /\ r.sendPulls => suffices
    BY <1>1, <1>2, <1>3, <2>1, <2>2, <2>3 DEF SameWindow
  <2>5. ASSUME s.sendPulls
        PROVE  /\ r.sendPulls /\ ~suffices
               /\ \/ s.request_id - r.request_id >= 1 + s.cwnd - r.cwnd
                  \/ n > WantedSymbols(r) - InitialWindow
    <3>1. r.sendPulls /\ g.sendPulls /\ ~suffices
      BY <1>1, <1>2, <1>3, <2>3, <2>5 DEF SameWindow
    <3>2. ~g.connFinished /\ n < WantedSymbols(r)
      BY <1>2, <2>3, <3>1
    <3> QED
      BY <1>1, <1>2, <1>3, <2>1, <2>2, <2>3, <3>1, <3>2,
         InitialWindowAssumption DEF SameWindow
  <2>6. ASSUME r.numRcvTrimmedHeader = 0
        PROVE  /\ s.request_id - r.request_id <= 1 + s.cwnd - r.cwnd
               /\ s.request_id <= r.request_id + 2
               /\ s.request_id > r.request_id => ~suffices
    BY <1>1, <1>2, <1>3, <2>1, <2>2, <2>3, <2>6 DEF SameWindow
  <2> QED
    BY <1>2, <2>4, <2>5, <2>6 DEF s
<1> QED
  BY <1>1, <1>4, <1>5

LEMMA ArriveSymbolConcludes ==
    ASSUME NEW r \in Receiver, NEW esi \in Nat
    PROVE  LET s == ArriveSymbol(r, esi)
               n == r.numberReceivedPackets + 1
           IN  /\ s.connFinished =>
                     \/ r.connFinished
                     \/ n > WantedSymbols(r) /\ ~r.redoDecoding
               /\ r.isfinalReceivedPrintedOut => s.isfinalReceivedPrintedOut
               /\ r.redoDecoding => s.redoDecoding
               /\ s.isfinalReceivedPrintedOut =>
                     \/ r.isfinalReceivedPrintedOut
                     \/ n = WantedSymbols(r) \/ r.connFinished \/ r.redoDecoding
               /\ s.redoDecoding =>
                     \/ r.redoDecoding
                     \/ /\ r.numRcvTrimmedHeader # 0
                        /\ ~r.isfinalReceivedPrintedOut
                        /\ n = WantedSymbols(r) \/ r.connFinished
               /\ n = WantedSymbols(r) =>
                     s.isfinalReceivedPrintedOut \/ s.redoDecoding
<1> DEFINE s == ArriveSymbol(r, esi)
           n == r.numberReceivedPackets + 1
<1>1. PICK g \in Receiver, q \in Receiver :
         /\ g.numberReceivedPackets = n
         /\ g.numPacketsToGet = r.numPacketsToGet
         /\ g.numRcvTrimmedHeader = r.numRcvTrimmedHeader
         /\ SameVerdict(r, g)
         /\ SameCounts(g, q) /\ SameVerdict(g, q)
         /\ \/ /\ n > WantedSymbols(r) /\ ~r.redoDecoding
               /\ s = [g EXCEPT !.connFinished = TRUE]
            \/ /\ n <= WantedSymbols(r) \/ r.redoDecoding
               /\ s = Decode(q)
  BY ArriveSymbolParts, Zenon
<1>2. n \in Nat /\ WantedSymbols(r) \in Nat
  BY ReceiverFields DEF WantedSymbols
<1>3. CASE /\ n > WantedSymbols(r) /\ ~r.redoDecoding
           /\ s = [g EXCEPT !.connFinished = TRUE]
  <2>1. /\ s.isfinalReceivedPrintedOut = g.isfinalReceivedPrintedOut
        /\ s.redoDecoding = g.redoDecoding
    BY <1>3 DEF Receiver
  <2> HIDE DEF s
  <2> QED
    BY <1>1, <1>2, <1>3, <2>1 DEF SameVerdict, s
<1>4. CASE s = Decode(q)
  <2>1. /\ WantedSymbols(q) = WantedSymbols(r) /\ q.numberReceivedPackets = n
        /\ q.numRcvTrimmedHeader = r.numRcvTrimmedHeader
        /\ SameVerdict(r, q)
    BY <1>1 DEF SameCounts, SameVerdict, WantedSymbols
  <2>2. /\ s.connFinished = q.connFinished
        /\ \/ /\ ~DecodeDue(q) /\ SameVerdict(q, s)
           \/ /\ DecodeDue(q)
              /\ s.isfinalReceivedPrintedOut
              /\ s.redoDecoding = q.redoDecoding
           \/ /\ DecodeDue(q)
              /\ q.numRcvTrimmedHeader # 0
              /\ ~q.redoDecoding /\ s.redoDecoding
              /\ ~s.isfinalReceivedPrintedOut
    BY <1>4, DecodeEffect, Zenon
  <2> HIDE DEF s
  <2> QED
    BY <2>1, <2>2 DEF DecodeDue, SameVerdict, s
<1> QED
  BY <1>1, <1>3, <1>4

LEMMA ArriveHeaderEffect ==
    ASSUME NEW r \in Receiver
    PROVE  LET s == ArriveHeader(r)
           IN  /\ s.fsm = r.fsm
               /\ s.numPacketsToGet = r.numPacketsToGet
               /\ s.numberReceivedPackets = r.numberReceivedPackets
               /\ s.numRcvTrimmedHeader = r.numRcvTrimmedHeader + 1
               /\ s.sentPullsInWindow = r.sentPullsInWindow - 1
               /\ SameVerdict(r, s)
               /\ s.sendPulls = r.sendPulls /\ s.cwnd <= r.cwnd
               /\ \/ s.request_id = r.request_id + 1
                  \/ s.request_id = r.request_id /\ s.sentPullsInWindow >= s.cwnd
<1> DEFINE h == HalveWindow(r)
           p == IF h.sentPullsInWindow < h.cwnd
                THEN AddRequestToPullsQueue(h) ELSE h
           s == ArriveHeader(r)
<1>1. h \in Receiver
  BY HalveWindowType
<1>2. /\ h.fsm = r.fsm /\ h.numPacketsToGet = r.numPacketsToGet
      /\ h.numberReceivedPackets = r.numberReceivedPackets
      /\ h.numRcvTrimmedHeader = r.numRcvTrimmedHeader + 1
      /\ h.sentPullsInWindow = r.sentPullsInWindow - 1
      /\ h.sendPulls = r.sendPulls /\ h.cwnd = Half(r.cwnd)
      /\ h.request_id = r.request_id
  BY DEF HalveWindow, CountHeader, Receiver
<1>3. SameVerdict(r, h)
  BY DEF HalveWindow, CountHeader, Receiver, SameVerdict
<1>4. Half(r.cwnd) <= r.cwnd
  BY ReceiverFields DEF Half
<1>5. s = Register(p, 0)
  BY DEF ArriveHeader
<1> HIDE DEF h
<1>6. /\ p \in Receiver
      /\ SameCounts(h, p) /\ SameVerdict(h, p) /\ SameWindow(h, p)
      /\ \/ p.request_id = h.request_id + 1
         \/ p.request_id = h.request_id /\ ~(h.sentPullsInWindow < h.cwnd)
  <2>1. CASE h.sentPullsInWindow < h.cwnd
    BY <1>1, <2>1, AddRequestType, AddRequestEffect
  <2>2. CASE ~(h.sentPullsInWindow < h.cwnd)
    BY <1>1, <2>2 DEF SameCounts, SameVerdict, SameWindow
  <2> QED
    BY <2>1, <2>2
<1>7. ~(h.sentPullsInWindow < h.cwnd) => h.sentPullsInWindow >= h.cwnd
  BY <1>1, ReceiverFields
<1> HIDE DEF p, s
<1>8. /\ SameCounts(p, s) /\ SameVerdict(p, s) /\ SameWindow(p, s)
      /\ s.request_id = p.request_id
  BY <1>5, <1>6, RegisterEffect
<1> QED
  BY <1>2, <1>3, <1>4, <1>6, <1>7, <1>8
     DEF SameCounts, SameVerdict, SameWindow, s

-----------------------------------------------------------------------------
(* The books of a receiver: an invariant of its state block r alone.       *)

(* Symbols asked for, the pushed window included.                          *)
Asked(r, c) == PushedWindow(c) + r.request_id

(* Nothing has happened to a connection that still listens.                *)
Untouched(r) == r.fsm = "LISTEN" => r = ListeningReceiver

KnowsSize(r, c) == r.fsm = "ESTABLISHED" => r.numPacketsToGet = NumSymbols[c]

(* Each pull sent opens the books by one, each packet received closes them.*)
Balanced(r) ==
    r.sentPullsInWindow =
        InitialWindow + Sent(r) - r.numberReceivedPackets - r.numRcvTrimmedHeader

(* The verdict follows the count of symbols.                               *)
Concludes(r, c) ==
    /\ r.fsm = "ESTABLISHED" /\ r.numberReceivedPackets >= WantedSymbols(r) =>
          r.isfinalReceivedPrintedOut \/ r.redoDecoding
    /\ r.connFinished => r.isfinalReceivedPrintedOut
    /\ r.isfinalReceivedPrintedOut =>
          r.fsm = "ESTABLISHED" /\ r.numberReceivedPackets >= NumSymbols[c]
    /\ r.redoDecoding =>
          /\ r.numRcvTrimmedHeader > 0
          /\ r.numberReceivedPackets >= NumSymbols[c] + 2

(* A connection that stopped pulling has asked for all the source symbols. *)
(* One that still pulls has, or it has asked for one symbol per symbol     *)
(* received, for the whole window, and has something outstanding.          *)
AsksEnough(r, c) ==
    r.fsm = "ESTABLISHED" =>
        \/ Asked(r, c) >= NumSymbols[c]
        \/ /\ r.sendPulls
           /\ r.request_id >= r.numberReceivedPackets
           /\ Asked(r, c) >= r.numberReceivedPackets + r.cwnd
           /\ Asked(r, c) > r.numberReceivedPackets + r.numRcvTrimmedHeader

(* Until the first header it asks for no more than its window admits.      *)
AsksNoMore(r, c) ==
    r.fsm = "ESTABLISHED" /\ r.numRcvTrimmedHeader = 0 =>
        /\ Asked(r, c) <= r.numberReceivedPackets + r.cwnd
        /\ Asked(r, c) <= NumSymbols[c] + 1

Books(r, c) ==
    /\ Untouched(r) /\ KnowsSize(r, c) /\ Balanced(r)
    /\ Concludes(r, c) /\ AsksEnough(r, c) /\ AsksNoMore(r, c)

LEMMA SizeType ==
    ASSUME NEW c \in Conns
    PROVE  /\ NumSymbols[c] \in Nat \ {0}
           /\ PushedWindow(c) \in Nat \ {0}
           /\ PushedWindow(c) = InitialWindow \/ PushedWindow(c) = NumSymbols[c]
           /\ PushedWindow(c) <= NumSymbols[c]
           /\ PushedWindow(c) <= InitialWindow
BY NumSymbolsAssumption, InitialWindowAssumption DEF PushedWindow

LEMMA ListeningBooks ==
    ASSUME NEW c \in Conns
    PROVE  Books(ListeningReceiver, c)
BY InitialWindowAssumption
   DEF Books, Untouched, KnowsSize, Balanced, Concludes, AsksEnough, AsksNoMore,
       ListeningReceiver, Sent

LEMMA EstablishedBooks ==
    ASSUME NEW c \in Conns, NEW r \in Receiver, Books(r, c)
    PROVE  /\ Books(Established(r, c), c)
           /\ Established(r, c).fsm = "ESTABLISHED"
<1>1. CASE r.fsm # "LISTEN"
  BY <1>1 DEF Established, Receiver
<1>2. CASE r.fsm = "LISTEN"
  <2> DEFINE s == Established(r, c)
  <2>1. r = ListeningReceiver
    BY <1>2 DEF Books, Untouched
  <2>2. /\ s.fsm = "ESTABLISHED" /\ s.numPacketsToGet = NumSymbols[c]
        /\ s.cwnd = PushedWindow(c)
        /\ s.numberReceivedPackets = 0 /\ s.numRcvTrimmedHeader = 0
        /\ s.request_id = 0 /\ s.pullQueue = <<>>
        /\ s.sentPullsInWindow = InitialWindow
        /\ s.sendPulls /\ ~s.connFinished /\ ~s.redoDecoding
        /\ ~s.isfinalReceivedPrintedOut
    BY <2>1 DEF Established, ProcessSegmentInListen, ListeningReceiver
  <2> HIDE DEF s
  <2>3. Sent(s) = 0
    <3>1. s.request_id = 0 /\ s.pullQueue = <<>>
      BY <2>2
    <3>2. Len(s.pullQueue) = 0
      BY <3>1
    <3>3. Sent(s) = s.request_id - Len(s.pullQueue)
      BY DEF Sent
    <3> QED
      BY <3>1, <3>2, <3>3
  <2> QED
    BY <2>2, <2>3, SizeType, InitialWindowAssumption
       DEF Books, Untouched, KnowsSize, Balanced, Concludes, AsksEnough,
           AsksNoMore, WantedSymbols, Asked, s
<1> QED
  BY <1>1, <1>2

LEMMA SentType ==
    ASSUME NEW r \in Receiver
    PROVE  Sent(r) \in Int /\ Sent(r) <= r.request_id
<1>1. r.request_id \in Nat /\ Len(r.pullQueue) \in Nat
  BY ReceiverFields
<1> QED
  BY <1>1 DEF Sent

LEMMA ArriveSymbolBooks ==
    ASSUME NEW c \in Conns, NEW r \in Receiver, NEW esi \in Nat,
           Books(r, c), r.fsm = "ESTABLISHED"
    PROVE  Books(ArriveSymbol(r, esi), c)
<1> DEFINE s == ArriveSymbol(r, esi)
           n == r.numberReceivedPackets + 1
<1>1. s \in Receiver /\ Sent(s) = Sent(r)
  BY ArriveSymbolType, ArriveSymbolOnly DEF OnlyRequests
<1>2. /\ s.fsm = r.fsm
      /\ s.numPacketsToGet = r.numPacketsToGet
      /\ s.numberReceivedPackets = n
      /\ s.numRcvTrimmedHeader = r.numRcvTrimmedHeader
      /\ s.sentPullsInWindow = r.sentPullsInWindow - 1
  BY ArriveSymbolCounts
<1>3. /\ r.numPacketsToGet = NumSymbols[c]
      /\ WantedSymbols(r) =
            NumSymbols[c] + (IF r.numRcvTrimmedHeader = 0 THEN 0 ELSE 2)
      /\ WantedSymbols(s) = WantedSymbols(r)
  BY <1>2, NumSymbolsAssumption DEF Books, KnowsSize, WantedSymbols
<1>4. r.connFinished => r.numberReceivedPackets >= r.numPacketsToGet
  BY <1>3 DEF Books, Concludes
<1>5. /\ s.request_id >= r.request_id
      /\ s.cwnd >= r.cwnd
      /\ ~s.sendPulls /\ r.sendPulls =>
            n + r.cwnd > r.numPacketsToGet
      /\ s.sendPulls =>
            /\ r.sendPulls
            /\ n + r.cwnd <= r.numPacketsToGet
            /\ \/ s.request_id - r.request_id >= 1 + s.cwnd - r.cwnd
               \/ n > WantedSymbols(r) - InitialWindow
      /\ r.numRcvTrimmedHeader = 0 =>
            /\ s.request_id - r.request_id <= 1 + s.cwnd - r.cwnd
            /\ s.request_id <= r.request_id + 2
            /\ s.request_id > r.request_id =>
                  n + r.cwnd <= r.numPacketsToGet
  BY <1>4, ArriveSymbolAsks
<1>6. /\ s.connFinished =>
            \/ r.connFinished
            \/ n > WantedSymbols(r) /\ ~r.redoDecoding
      /\ r.isfinalReceivedPrintedOut => s.isfinalReceivedPrintedOut
      /\ r.redoDecoding => s.redoDecoding
      /\ s.isfinalReceivedPrintedOut =>
            \/ r.isfinalReceivedPrintedOut
            \/ n = WantedSymbols(r) \/ r.connFinished \/ r.redoDecoding
      /\ s.redoDecoding =>
            \/ r.redoDecoding
            \/ /\ r.numRcvTrimmedHeader # 0
               /\ ~r.isfinalReceivedPrintedOut
               /\ n = WantedSymbols(r) \/ r.connFinished
      /\ n = WantedSymbols(r) =>
            s.isfinalReceivedPrintedOut \/ s.redoDecoding
  BY ArriveSymbolConcludes
<1>7. /\ r.numberReceivedPackets \in Nat /\ n \in Nat
      /\ r.numRcvTrimmedHeader \in Nat
      /\ r.request_id \in Nat /\ s.request_id \in Nat
      /\ r.cwnd \in Nat \ {0} /\ s.cwnd \in Nat \ {0}
      /\ r.sentPullsInWindow \in Int /\ Sent(r) \in Int
      /\ NumSymbols[c] \in Nat \ {0} /\ PushedWindow(c) \in Nat \ {0}
      /\ WantedSymbols(r) \in Nat /\ InitialWindow \in Nat
  BY <1>1, <1>3, ReceiverFields, SentType, SizeType, InitialWindowAssumption
<1> HIDE DEF s
<1>8. Untouched(s) /\ KnowsSize(s, c)
  BY <1>2, <1>3 DEF Untouched, KnowsSize
<1>9. Balanced(s)
  BY <1>1, <1>2, <1>7 DEF Books, Balanced
<1>10. Concludes(s, c)
  <2>1. Concludes(r, c)
    BY DEF Books
  <2>2. ASSUME n >= WantedSymbols(s)
        PROVE  s.isfinalReceivedPrintedOut \/ s.redoDecoding
    <3>1. n = WantedSymbols(r) \/ r.numberReceivedPackets >= WantedSymbols(r)
      BY <1>3, <1>7, <2>2
    <3> QED
      BY <1>6, <2>1, <3>1 DEF Concludes
  <2>3. ASSUME s.connFinished
        PROVE  s.isfinalReceivedPrintedOut
    <3>1. \/ r.connFinished
          \/ r.numberReceivedPackets >= WantedSymbols(r) /\ ~r.redoDecoding
      BY <1>6, <1>7, <2>3
    <3> QED
      BY <1>6, <2>1, <3>1 DEF Concludes
  <2>4. ASSUME s.isfinalReceivedPrintedOut
        PROVE  n >= NumSymbols[c]
    <3>1. \/ r.isfinalReceivedPrintedOut \/ r.redoDecoding
          \/ n = WantedSymbols(r)
      BY <1>6, <2>1, <2>4 DEF Concludes
    <3> QED
      BY <1>3, <1>7, <2>1, <3>1 DEF Concludes
  <2>5. ASSUME s.redoDecoding
        PROVE  r.numRcvTrimmedHeader > 0 /\ n >= NumSymbols[c] + 2
    <3>1. \/ r.redoDecoding
          \/ r.numRcvTrimmedHeader # 0 /\ n = WantedSymbols(r)
      BY <1>6, <2>1, <2>5 DEF Concludes
    <3> QED
      BY <1>3, <1>7, <2>1, <3>1 DEF Concludes
  <2> QED
    BY <1>2, <2>2, <2>3, <2>4, <2>5 DEF Concludes
<1>11. AsksEnough(s, c)
  <2>1. CASE Asked(r, c) >= NumSymbols[c]
    BY <1>5, <1>7, <2>1 DEF AsksEnough, Asked
  <2>2. CASE /\ r.sendPulls
             /\ r.request_id >= r.numberReceivedPackets
             /\ Asked(r, c) >= r.numberReceivedPackets + r.cwnd
             /\ Asked(r, c) > r.numberReceivedPackets + r.numRcvTrimmedHeader
    <3>1. CASE ~s.sendPulls
      <4>1. n + r.cwnd > NumSymbols[c]
        BY <1>3, <1>5, <2>2, <3>1
      <4>2. Asked(s, c) >= NumSymbols[c]
        BY <1>5, <1>7, <2>2, <4>1 DEF Asked
      <4> QED
        BY <4>2 DEF AsksEnough
    <3>2. CASE /\ s.sendPulls
               /\ s.request_id - r.request_id >= 1 + s.cwnd - r.cwnd
      <4>1. s.request_id >= r.request_id + 1
        BY <1>5, <1>7, <3>2
      <4> QED
        BY <1>2, <1>7, <2>2, <3>2, <4>1 DEF AsksEnough, Asked
    <3>3. CASE s.sendPulls /\ n > WantedSymbols(r) - InitialWindow
      <4>1. Asked(s, c) >= NumSymbols[c]
        BY <1>3, <1>5, <1>7, <2>2, <3>3, SizeType DEF Asked
      <4> QED
        BY <4>1 DEF AsksEnough
    <3> QED
      BY <1>5, <3>1, <3>2, <3>3
  <2> QED
    BY <2>1, <2>2 DEF Books, AsksEnough
<1>12. AsksNoMore(s, c)
  <2> SUFFICES ASSUME r.numRcvTrimmedHeader = 0
               PROVE  /\ Asked(s, c) <= n + s.cwnd
                      /\ Asked(s, c) <= NumSymbols[c] + 1
    BY <1>2 DEF AsksNoMore
  <2>1. /\ Asked(r, c) <= r.numberReceivedPackets + r.cwnd
        /\ Asked(r, c) <= NumSymbols[c] + 1
    BY DEF Books, AsksNoMore
  <2>2. Asked(s, c) <= n + s.cwnd
    BY <1>5, <1>7, <2>1 DEF Asked
  <2>3. Asked(s, c) <= NumSymbols[c] + 1
    <3>1. CASE s.request_id = r.request_id
      BY <2>1, <3>1 DEF Asked
    <3>2. CASE s.request_id > r.request_id
      BY <1>3, <1>5, <1>7, <2>1, <3>2 DEF Asked
    <3> QED
      BY <1>5, <1>7, <3>1, <3>2
  <2> QED
    BY <2>2, <2>3
<1> QED
  BY <1>8, <1>9, <1>10, <1>11, <1>12 DEF Books, s

LEMMA ArriveHeaderBooks ==
    ASSUME NEW c \in Conns, NEW r \in Receiver,
           Books(r, c), r.fsm = "ESTABLISHED"
    PROVE  Books(ArriveHeader(r), c)
<1> DEFINE s == ArriveHeader(r)
           t == r.numRcvTrimmedHeader + 1
<1>1. s \in Receiver /\ Sent(s) = Sent(r)
  BY ArriveHeaderType, ArriveHeaderOnly DEF OnlyRequests
<1>2. /\ s.fsm = r.fsm
      /\ s.numPacketsToGet = r.numPacketsToGet
      /\ s.numberReceivedPackets = r.numberReceivedPackets
      /\ s.numRcvTrimmedHeader = t
      /\ s.sentPullsInWindow = r.sentPullsInWindow - 1
      /\ SameVerdict(r, s)
      /\ s.sendPulls = r.sendPulls /\ s.cwnd <= r.cwnd
      /\ \/ s.request_id = r.request_id + 1
         \/ s.request_id = r.request_id /\ s.sentPullsInWindow >= s.cwnd
  BY ArriveHeaderEffect
<1>3. /\ r.numberReceivedPackets \in Nat
      /\ r.numRcvTrimmedHeader \in Nat /\ t \in Nat /\ t # 0
      /\ r.request_id \in Nat /\ s.request_id \in Nat
      /\ r.cwnd \in Nat \ {0} /\ s.cwnd \in Nat \ {0}
      /\ r.sentPullsInWindow \in Int /\ Sent(r) \in Int
      /\ Sent(r) <= r.request_id
      /\ NumSymbols[c] \in Nat \ {0} /\ PushedWindow(c) \in Nat \ {0}
      /\ InitialWindow \in Nat
  BY <1>1, ReceiverFields, SentType, SizeType, InitialWindowAssumption
<1>4. /\ r.numPacketsToGet = NumSymbols[c]
      /\ WantedSymbols(s) >= WantedSymbols(r)
      /\ WantedSymbols(s) \in Nat /\ WantedSymbols(r) \in Nat
  BY <1>2, <1>3 DEF Books, KnowsSize, WantedSymbols
<1> HIDE DEF s
<1>5. Untouched(s) /\ KnowsSize(s, c)
  BY <1>2, <1>4 DEF Untouched, KnowsSize
<1>6. Balanced(s)
  BY <1>1, <1>2, <1>3 DEF Books, Balanced
<1>7. Concludes(s, c)
  BY <1>2, <1>3, <1>4 DEF Books, Concludes, SameVerdict
<1>8. AsksEnough(s, c)
  <2>1. CASE Asked(r, c) >= NumSymbols[c]
    <3>1. Asked(s, c) >= NumSymbols[c]
      BY <1>2, <1>3, <2>1 DEF Asked
    <3> QED
      BY <3>1 DEF AsksEnough
  <2>2. CASE /\ r.sendPulls
             /\ r.request_id >= r.numberReceivedPackets
             /\ Asked(r, c) >= r.numberReceivedPackets + r.cwnd
             /\ Asked(r, c) > r.numberReceivedPackets + r.numRcvTrimmedHeader
    <3>1. /\ s.request_id >= s.numberReceivedPackets
          /\ Asked(s, c) >= s.numberReceivedPackets + s.cwnd
      BY <1>2, <1>3, <2>2 DEF Asked
    <3>2. CASE s.request_id = r.request_id + 1
      BY <1>2, <1>3, <2>2, <3>1, <3>2 DEF AsksEnough, Asked
    <3>3. CASE s.request_id = r.request_id /\ s.sentPullsInWindow >= s.cwnd
      <4>1. InitialWindow + Sent(r) - r.numberReceivedPackets - t >= 1
        BY <1>1, <1>2, <1>3, <1>6, <3>3 DEF Balanced
      <4>2. CASE PushedWindow(c) = InitialWindow
        <5>1. Asked(s, c) > s.numberReceivedPackets + s.numRcvTrimmedHeader
          BY <1>2, <1>3, <3>3, <4>1, <4>2 DEF Asked
        <5> QED
          BY <1>2, <2>2, <3>1, <5>1 DEF AsksEnough
      <4>3. CASE PushedWindow(c) = NumSymbols[c]
        BY <1>3, <4>3 DEF AsksEnough, Asked
      <4> QED
        BY <4>2, <4>3, SizeType
    <3> QED
      BY <1>2, <3>2, <3>3
  <2> QED
    BY <2>1, <2>2 DEF Books, AsksEnough
<1>9. AsksNoMore(s, c)
  BY <1>2, <1>3 DEF AsksNoMore
<1> QED
  BY <1>5, <1>6, <1>7, <1>8, <1>9 DEF Books, s

(* The pacer sends the oldest pull of a connection.                        *)
LEMMA SendPullBooks ==
    ASSUME NEW c \in Conns, NEW r \in Receiver, Books(r, c),
           r.pullQueue # <<>>
    PROVE  LET s == [r EXCEPT !.pullQueue = Tail(@), !.sentPullsInWindow = @ + 1]
           IN  /\ Books(s, c)
               /\ Sent(s) = Sent(r) + 1
               /\ s.fsm = "ESTABLISHED"
<1> DEFINE s == [r EXCEPT !.pullQueue = Tail(@), !.sentPullsInWindow = @ + 1]
<1>1. /\ s.pullQueue = Tail(r.pullQueue)
      /\ s.sentPullsInWindow = r.sentPullsInWindow + 1
      /\ s.fsm = r.fsm /\ s.numPacketsToGet = r.numPacketsToGet
      /\ s.numberReceivedPackets = r.numberReceivedPackets
      /\ s.numRcvTrimmedHeader = r.numRcvTrimmedHeader
      /\ s.request_id = r.request_id
  BY DEF Receiver
<1>2. SameVerdict(r, s) /\ SameWindow(r, s)
  BY DEF Receiver, SameVerdict, SameWindow
<1> HIDE DEF s
<1>3. /\ r.pullQueue \in Seq(Pull) /\ r.request_id \in Nat
      /\ r.sentPullsInWindow \in Int
      /\ r.numberReceivedPackets \in Nat /\ r.numRcvTrimmedHeader \in Nat
  BY ReceiverFields
<1>4. Len(s.pullQueue) = Len(r.pullQueue) - 1 /\ Len(r.pullQueue) \in Nat
  BY <1>1, <1>3
<1>5. Sent(s) = Sent(r) + 1 /\ Sent(r) \in Int
  BY <1>1, <1>3, <1>4 DEF Sent
<1>6. r.fsm = "ESTABLISHED"
  <2>1. ListeningReceiver.pullQueue = <<>>
    BY DEF ListeningReceiver
  <2> QED
    BY <2>1, ReceiverFields DEF Books, Untouched
<1>7. Balanced(s)
  <2>1. Balanced(r)
    BY DEF Books
  <2>2. /\ s.sentPullsInWindow = r.sentPullsInWindow + 1
        /\ s.numberReceivedPackets = r.numberReceivedPackets
        /\ s.numRcvTrimmedHeader = r.numRcvTrimmedHeader
    BY <1>1
  <2>3. /\ r.sentPullsInWindow \in Int /\ Sent(r) \in Int /\ InitialWindow \in Int
        /\ r.numberReceivedPackets \in Int /\ r.numRcvTrimmedHeader \in Int
    BY <1>3, <1>5, InitialWindowAssumption
  <2>4. r.sentPullsInWindow = InitialWindow + Sent(r) - r.numberReceivedPackets
                                - r.numRcvTrimmedHeader
    BY <2>1 DEF Balanced
  <2>5. r.sentPullsInWindow + 1 = InitialWindow + (Sent(r) + 1) - r.numberReceivedPackets
                                    - r.numRcvTrimmedHeader
    <3>1. \A a, b, c1, d, e \in Int :
             a = b + c1 - d - e => a + 1 = b + (c1 + 1) - d - e
      BY ONLY SMT
    <3> QED
      BY <2>3, <2>4, <3>1
  <2> QED
    BY <1>5, <2>2, <2>5 DEF Balanced
<1>8. WantedSymbols(s) = WantedSymbols(r) /\ Asked(s, c) = Asked(r, c)
  BY <1>1 DEF WantedSymbols, Asked
<1>9. Untouched(s) /\ KnowsSize(s, c) /\ Concludes(s, c)
  BY <1>1, <1>2, <1>6, <1>8
     DEF Books, Untouched, KnowsSize, Concludes, SameVerdict
<1>10. AsksEnough(s, c) /\ AsksNoMore(s, c)
  BY <1>1, <1>2, <1>8 DEF Books, AsksEnough, AsksNoMore, SameWindow
<1> QED
  BY <1>1, <1>5, <1>6, <1>7, <1>9, <1>10 DEF Books, s

-----------------------------------------------------------------------------
(* A transfer: its sender s, receiver r, symbols D and headers H in flight,*)
(* pulls Q in flight and the number k of discarded symbols.                *)

(* A symbol in flight has been sent, a header is one of a pulled symbol,   *)
(* and no symbol is both.                                                  *)
Flying(s, D, H, c) ==
    /\ D \subseteq 1 .. s.esi
    /\ H \subseteq (PushedWindow(c) + 1) .. s.esi
    /\ D \cap H = {}

(* Every symbol sent has arrived, whole or trimmed, or is in flight, or was*)
(* discarded; and beyond the pushed window each was requested.  Before its *)
(* first symbol nothing can have reached the receiver.                     *)
Conserved(s, r, D, H, k, c) ==
    /\ s.esi = r.numberReceivedPackets + r.numRcvTrimmedHeader
                  + Cardinality(D) + Cardinality(H) + k
    /\ IF s.opened
       THEN s.esi = PushedWindow(c) + s.request_id
       ELSE s.esi = 0 /\ r.fsm = "LISTEN"

(* Unless the sender has counted it, the newest pull sent is in flight.    *)
NewestFlying(s, r, Q) ==
    s.request_id < Sent(r) => \E pull \in Q : pull.seq = Sent(r)

Transfer(s, r, D, H, Q, k, c) ==
    /\ Books(r, c)
    /\ Flying(s, D, H, c)
    /\ Conserved(s, r, D, H, k, c)
    /\ NewestFlying(s, r, Q)

TransferOf(c) ==
    Transfer(sender[c], receiver[c], data[c], headers[c], pulls[c], discarded[c], c)

TransferInv == PullInv /\ \A c \in Conns : TransferOf(c)

LEMMA FlyingFinite ==
    ASSUME NEW c \in Conns, NEW s \in Sender, NEW D, NEW H, Flying(s, D, H, c)
    PROVE  /\ IsFiniteSet(D) /\ Cardinality(D) \in Nat
           /\ IsFiniteSet(H) /\ Cardinality(H) \in Nat
<1>1. s.esi \in Int /\ PushedWindow(c) + 1 \in Int
  BY SizeType DEF Sender
<1>2. /\ IsFiniteSet(1 .. s.esi)
      /\ IsFiniteSet((PushedWindow(c) + 1) .. s.esi)
  BY <1>1, FS_Interval
<1>3. IsFiniteSet(D) /\ IsFiniteSet(H)
  BY <1>2, FS_Subset DEF Flying
<1> QED
  BY <1>3, FS_CardinalityType

(* One element moves out of a finite set.                                  *)
LEMMA OneOut ==
    ASSUME NEW S, IsFiniteSet(S), NEW x \in S
    PROVE  /\ IsFiniteSet(S \ {x})
           /\ Cardinality(S \ {x}) = Cardinality(S) - 1
BY FS_RemoveElement

LEMMA IntervalSize ==
    ASSUME NEW a \in Nat, NEW n \in Nat
    PROVE  /\ IsFiniteSet((a + 1) .. (a + n))
           /\ Cardinality((a + 1) .. (a + n)) = n
<1>1. a + 1 \in Int /\ a + n \in Int
  OBVIOUS
<1>2. /\ IsFiniteSet((a + 1) .. (a + n))
      /\ Cardinality((a + 1) .. (a + n)) =
            IF a + 1 > a + n THEN 0 ELSE (a + n) - (a + 1) + 1
  BY <1>1, FS_Interval
<1> QED
  BY <1>2

LEMMA DisjointSizes ==
    ASSUME NEW S, IsFiniteSet(S), NEW T, IsFiniteSet(T), S \cap T = {}
    PROVE  /\ IsFiniteSet(S \cup T)
           /\ Cardinality(S \cup T) = Cardinality(S) + Cardinality(T)
<1>1. /\ IsFiniteSet(S \cup T)
      /\ Cardinality(S \cup T)
            = Cardinality(S) + Cardinality(T) - Cardinality(S \cap T)
  BY FS_Union
<1>2. Cardinality(S \cap T) = 0
  BY FS_EmptySet
<1>3. Cardinality(S) \in Nat /\ Cardinality(T) \in Nat
  BY FS_CardinalityType
<1> QED
  BY <1>1, <1>2, <1>3

LEMMA InitTransferInv == Init => TransferInv
<1> SUFFICES ASSUME Init, NEW c \in Conns
             PROVE  TransferOf(c)
  BY InitPullInv DEF TransferInv
<1>1. /\ sender[c].esi = 0 /\ sender[c].request_id = 0 /\ ~sender[c].opened
      /\ receiver[c] = ListeningReceiver
      /\ data[c] = {} /\ headers[c] = {} /\ pulls[c] = {} /\ discarded[c] = 0
  BY DEF Init
<1>2. Books(receiver[c], c)
  BY <1>1, ListeningBooks
<1>3. Cardinality(data[c]) = 0 /\ Cardinality(headers[c]) = 0
  BY <1>1, FS_EmptySet
<1>4. /\ receiver[c].numberReceivedPackets = 0
      /\ receiver[c].numRcvTrimmedHeader = 0
      /\ receiver[c].request_id = 0 /\ receiver[c].pullQueue = <<>>
      /\ receiver[c].fsm = "LISTEN"
  BY <1>1 DEF ListeningReceiver
<1>5. Sent(receiver[c]) = 0
  <2>1. Len(receiver[c].pullQueue) = 0
    BY <1>4
  <2>2. Sent(receiver[c]) = receiver[c].request_id - Len(receiver[c].pullQueue)
    BY DEF Sent
  <2> QED
    BY <1>4, <2>1, <2>2
<1>6. Flying(sender[c], data[c], headers[c], c)
  BY <1>1 DEF Flying
<1>7. Conserved(sender[c], receiver[c], data[c], headers[c], discarded[c], c)
  BY <1>1, <1>3, <1>4 DEF Conserved
<1>8. NewestFlying(sender[c], receiver[c], pulls[c])
  BY <1>1, <1>5 DEF NewestFlying
<1> QED
  BY <1>2, <1>6, <1>7, <1>8 DEF TransferOf, Transfer

(* A step of one transfer leaves the others alone.                         *)
OthersUnchanged(c) ==
    \A d \in Conns \ {c} :
        UNCHANGED <<sender[d], receiver[d], data[d], headers[d], pulls[d],
                    discarded[d]>>

LEMMA OneTransferSteps ==
    ASSUME TransferInv, PullInv', NEW c \in Conns, OthersUnchanged(c),
           TransferOf(c)'
    PROVE  TransferInv'
<1>1. ASSUME NEW d \in Conns, d # c
      PROVE  TransferOf(d)'
  <2>1. /\ sender'[d] = sender[d] /\ receiver'[d] = receiver[d]
        /\ data'[d] = data[d] /\ headers'[d] = headers[d]
        /\ pulls'[d] = pulls[d] /\ discarded'[d] = discarded[d]
    BY <1>1 DEF OthersUnchanged
  <2>2. TransferOf(d)
    BY DEF TransferInv
  <2> QED
    BY <2>1, <2>2 DEF TransferOf
<1> QED
  BY <1>1 DEF TransferInv

(* The facts about a transfer that its steps start from.                   *)
LEMMA TransferFacts ==
    ASSUME TransferInv, NEW c \in Conns
    PROVE  /\ sender[c] \in Sender /\ receiver[c] \in Receiver
           /\ pulls[c] \subseteq Pull /\ discarded[c] \in Nat
           /\ Books(receiver[c], c)
           /\ Flying(sender[c], data[c], headers[c], c)
           /\ Conserved(sender[c], receiver[c], data[c], headers[c],
                        discarded[c], c)
           /\ NewestFlying(sender[c], receiver[c], pulls[c])
           /\ sender[c].request_id <= Sent(receiver[c])
           /\ \A pull \in pulls[c] : pull.seq <= Sent(receiver[c])
           /\ sender[c].esi <= PushedWindow(c) + sender[c].request_id
<1>1. TypeOK
  BY DEF TransferInv, PullInv
<1>2. TransferOf(c)
  BY DEF TransferInv
<1>3. /\ sender[c] \in Sender /\ receiver[c] \in Receiver
      /\ pulls[c] \subseteq Pull /\ discarded[c] \in Nat
  BY <1>1 DEF TypeOK
<1>4. /\ Books(receiver[c], c)
      /\ Flying(sender[c], data[c], headers[c], c)
      /\ Conserved(sender[c], receiver[c], data[c], headers[c], discarded[c], c)
      /\ NewestFlying(sender[c], receiver[c], pulls[c])
  BY <1>2 DEF TransferOf, Transfer
<1>5. /\ sender[c].request_id <= Sent(receiver[c])
      /\ \A pull \in pulls[c] : pull.seq <= Sent(receiver[c])
      /\ sender[c].esi <= PushedWindow(c) + sender[c].request_id
  BY PullOrderOfReceivers DEF TransferInv, PullInv, SenderInStep
<1> QED
  BY <1>3, <1>4, <1>5

(* To a listening connection only the pushed window can be under way.      *)
LEMMA ListeningTransfer ==
    ASSUME TransferInv, NEW c \in Conns, receiver[c].fsm = "LISTEN"
    PROVE  /\ receiver[c] = ListeningReceiver
           /\ headers[c] = {}
           /\ \A esi \in data[c] : IsSyn(c, esi)
           /\ sender[c].request_id = 0 /\ Sent(receiver[c]) = 0
<1>1. receiver[c] = ListeningReceiver
  BY TransferFacts DEF Books, Untouched
<1>2. Sent(receiver[c]) = 0
  <2>1. receiver[c].request_id = 0 /\ receiver[c].pullQueue = <<>>
    BY <1>1 DEF ListeningReceiver
  <2>2. Len(receiver[c].pullQueue) = 0
    BY <2>1
  <2>3. Sent(receiver[c]) = receiver[c].request_id - Len(receiver[c].pullQueue)
    BY DEF Sent
  <2> QED
    BY <2>1, <2>2, <2>3
<1>3. sender[c].request_id = 0 /\ sender[c].esi \in Nat
  <2>1. sender[c].request_id \in Nat /\ sender[c].esi \in Nat
    BY TransferFacts DEF Sender
  <2> QED
    BY <1>2, <2>1, TransferFacts
<1>4. sender[c].esi <= PushedWindow(c)
  <2>1. sender[c].esi <= PushedWindow(c) + sender[c].request_id
    BY TransferFacts
  <2> QED
    BY <1>3, <2>1, SizeType
<1>5. /\ data[c] \subseteq 1 .. sender[c].esi
      /\ headers[c] \subseteq (PushedWindow(c) + 1) .. sender[c].esi
  BY TransferFacts DEF Flying
<1>6. headers[c] = {}
  BY <1>3, <1>4, <1>5, SizeType
<1>7. \A esi \in data[c] : IsSyn(c, esi)
  BY <1>3, <1>4, <1>5, SizeType DEF IsSyn
<1> QED
  BY <1>1, <1>2, <1>3, <1>6, <1>7

-----------------------------------------------------------------------------
(* Each action keeps the books of its transfer.                            *)

LEMMA SendInitialWindowTransfer ==
    ASSUME TransferInv, NEW c \in Conns, SendInitialWindow(c)
    PROVE  TransferInv'
<1> DEFINE s == [sender[c] EXCEPT !.opened = TRUE, !.esi = PushedWindow(c)]
           P == PushedWindow(c)
<1>1. PullInv'
  BY SendInitialWindowKeepsPullInv DEF TransferInv
<1>2. /\ sender' = [sender EXCEPT ![c] = s] /\ ~sender[c].opened
      /\ data' = [data EXCEPT ![c] = 1 .. P]
      /\ UNCHANGED <<receiver, headers, pulls, discarded>>
  BY DEF SendInitialWindow, OpenSender
<1>3. TypeOK
  BY DEF TransferInv, PullInv
<1>4. /\ s.opened /\ s.esi = P /\ s.request_id = sender[c].request_id
  BY TransferFacts DEF Sender
<1> HIDE DEF s
<1>5. /\ sender'[c] = s /\ data'[c] = 1 .. P
      /\ OthersUnchanged(c)
  BY <1>2, <1>3 DEF TypeOK, OthersUnchanged
<1>6. /\ sender[c].esi = 0
      /\ receiver[c].numberReceivedPackets = 0
      /\ receiver[c].numRcvTrimmedHeader = 0
      /\ data[c] = {} /\ headers[c] = {} /\ discarded[c] = 0
  <2>1. /\ receiver[c].numberReceivedPackets \in Nat
        /\ receiver[c].numRcvTrimmedHeader \in Nat
        /\ Cardinality(data[c]) \in Nat /\ Cardinality(headers[c]) \in Nat
        /\ discarded[c] \in Nat
    BY TransferFacts, FlyingFinite, ReceiverFields
  <2>2. /\ sender[c].esi = 0
        /\ sender[c].esi = receiver[c].numberReceivedPackets
              + receiver[c].numRcvTrimmedHeader
              + Cardinality(data[c]) + Cardinality(headers[c]) + discarded[c]
    BY <1>2, TransferFacts DEF Conserved
  <2>3. data[c] \subseteq 1 .. 0 /\ headers[c] \subseteq (P + 1) .. 0
    BY <2>2, TransferFacts DEF Flying
  <2>4. data[c] = {} /\ headers[c] = {}
    BY <2>3, SizeType
  <2>5. /\ receiver[c].numberReceivedPackets = 0
        /\ receiver[c].numRcvTrimmedHeader = 0
        /\ discarded[c] = 0
    <3> DEFINE n == receiver[c].numberReceivedPackets
               t == receiver[c].numRcvTrimmedHeader
               dn == Cardinality(data[c])
               hn == Cardinality(headers[c])
               k == discarded[c]
    <3>1. n \in Nat /\ t \in Nat /\ dn \in Nat /\ hn \in Nat /\ k \in Nat
      BY <2>1
    <3>2. n + t + dn + hn + k = 0
      BY <2>2
    <3> HIDE DEF n, t, dn, hn, k
    <3>3. n = 0 /\ t = 0 /\ k = 0
      BY <3>1, <3>2
    <3> QED
      BY <3>3 DEF n, t, k
  <2> QED
    BY <2>2, <2>4, <2>5
<1>7. receiver[c].fsm = "LISTEN"
  BY <1>2, TransferFacts DEF Conserved
<1>8. sender[c].request_id = 0 /\ Sent(receiver[c]) = 0
  BY <1>7, ListeningTransfer
<1>9. Flying(s, 1 .. P, headers[c], c)
  BY <1>4, <1>6 DEF Flying
<1>10. Conserved(s, receiver[c], 1 .. P, headers[c], discarded[c], c)
  <2>1. Cardinality(1 .. P) = P /\ Cardinality(headers[c]) = 0
    BY <1>6, SizeType, FS_Interval, FS_EmptySet
  <2> QED
    BY <1>4, <1>6, <1>8, <2>1, SizeType DEF Conserved
<1>11. NewestFlying(s, receiver[c], pulls[c])
  BY <1>4, <1>8 DEF NewestFlying
<1>12. TransferOf(c)'
  BY <1>2, <1>5, <1>9, <1>10, <1>11, TransferFacts DEF TransferOf, Transfer
<1> QED
  BY <1>1, <1>5, <1>12, OneTransferSteps

LEMMA RcvPullTransfer ==
    ASSUME TransferInv, NEW c \in Conns, NEW pull \in pulls[c], RcvPull(c, pull)
    PROVE  TransferInv'
<1> DEFINE new == RequestsGap(c, pull)
           esi == sender[c].esi
           s == [sender[c] EXCEPT !.esi = esi + new,
                                  !.request_id = sender[c].request_id + new,
                                  !.connFinished = @ \/ pull.fin]
           A == (esi + 1) .. (esi + new)
           Q == pulls[c] \ {pull}
<1>1. PullInv'
  BY RcvPullKeepsPullInv DEF TransferInv
<1>2. TypeOK
  BY DEF TransferInv, PullInv
<1>3. /\ sender' = [sender EXCEPT ![c] = s]
      /\ pulls' = [pulls EXCEPT ![c] = Q]
      /\ data' = [data EXCEPT ![c] = @ \cup A]
      /\ UNCHANGED <<receiver, headers, discarded>>
  BY DEF RcvPull, AnswerPull, Answers
<1>4. /\ sender[c] \in Sender /\ pull \in Pull /\ discarded[c] \in Nat
      /\ receiver[c] \in Receiver
  BY TransferFacts
<1>5. /\ esi \in Nat /\ sender[c].request_id \in Nat /\ pull.seq \in Nat \ {0}
      /\ PushedWindow(c) \in Nat \ {0} /\ Sent(receiver[c]) \in Int
      /\ receiver[c].numberReceivedPackets \in Nat
      /\ receiver[c].numRcvTrimmedHeader \in Nat
  BY <1>4, SizeType, SentType, ReceiverFields DEF Sender, Pull
<1>6. /\ new \in Nat
      /\ \/ pull.seq <= sender[c].request_id /\ new = 0
         \/ sender[c].request_id + new = pull.seq
  BY <1>5 DEF RequestsGap
<1>7. /\ s.esi = esi + new /\ s.request_id = sender[c].request_id + new
      /\ s.opened = sender[c].opened
  BY <1>4 DEF Sender
<1>8. /\ sender'[c] = s /\ pulls'[c] = Q /\ data'[c] = data[c] \cup A
      /\ OthersUnchanged(c)
  BY <1>2, <1>3 DEF TypeOK, OthersUnchanged
<1> HIDE DEF new, s
<1>9. sender[c].opened
  <2> SUFFICES ASSUME ~sender[c].opened PROVE FALSE
    OBVIOUS
  <2>1. Sent(receiver[c]) = 0
    BY TransferFacts, ListeningTransfer DEF Conserved
  <2>2. pull.seq <= Sent(receiver[c])
    BY TransferFacts
  <2> QED
    BY <1>5, <2>1, <2>2
<1>10. /\ data[c] \subseteq 1 .. esi
       /\ headers[c] \subseteq (PushedWindow(c) + 1) .. esi
       /\ data[c] \cap headers[c] = {}
  BY TransferFacts DEF Flying
<1>11. data[c] \cap A = {} /\ headers[c] \cap A = {}
  BY <1>5, <1>6, <1>10
<1>12. Flying(s, data[c] \cup A, headers[c], c)
  BY <1>5, <1>6, <1>7, <1>10, <1>11 DEF Flying
<1>13. Cardinality(data[c] \cup A) = Cardinality(data[c]) + new
  <2>1. /\ IsFiniteSet(data[c]) /\ Cardinality(data[c]) \in Nat
    BY <1>4, TransferFacts, FlyingFinite
  <2>2. IsFiniteSet(A) /\ Cardinality(A) = new
    BY <1>5, <1>6, IntervalSize
  <2> HIDE DEF A
  <2> QED
    BY <1>11, <2>1, <2>2, DisjointSizes
<1>14. Conserved(s, receiver[c], data[c] \cup A, headers[c], discarded[c], c)
  <2>1. /\ Cardinality(data[c]) \in Nat /\ Cardinality(headers[c]) \in Nat
    BY <1>4, TransferFacts, FlyingFinite
  <2>2. /\ esi = receiver[c].numberReceivedPackets
                   + receiver[c].numRcvTrimmedHeader
                   + Cardinality(data[c]) + Cardinality(headers[c]) + discarded[c]
        /\ esi = PushedWindow(c) + sender[c].request_id
    BY <1>9, TransferFacts DEF Conserved
  <2> HIDE DEF A
  <2> QED
    BY <1>4, <1>5, <1>6, <1>7, <1>9, <1>13, <2>1, <2>2 DEF Conserved
<1>15. NewestFlying(s, receiver[c], Q)
  <2> SUFFICES ASSUME s.request_id < Sent(receiver[c])
               PROVE  \E p \in Q : p.seq = Sent(receiver[c])
    BY DEF NewestFlying
  <2>1. sender[c].request_id < Sent(receiver[c])
    BY <1>5, <1>6, <1>7
  <2>2. PICK p \in pulls[c] : p.seq = Sent(receiver[c])
    BY <2>1, TransferFacts DEF NewestFlying
  <2>3. p # pull
    BY <1>5, <1>6, <1>7, <2>1, <2>2
  <2> QED
    BY <2>2, <2>3
<1> HIDE DEF A, Q
<1>16. TransferOf(c)'
  BY <1>3, <1>8, <1>12, <1>14, <1>15, TransferFacts DEF TransferOf, Transfer
<1> QED
  BY <1>1, <1>8, <1>16, OneTransferSteps

LEMMA EstablishedCounts ==
    ASSUME NEW c \in Conns, NEW r \in Receiver
    PROVE  LET s == Established(r, c)
           IN  /\ s.numberReceivedPackets = r.numberReceivedPackets
               /\ s.numRcvTrimmedHeader = r.numRcvTrimmedHeader
               /\ s.request_id = r.request_id
               /\ SameVerdict(r, s)
BY DEF Established, ProcessSegmentInListen, Receiver, SameVerdict

(* A symbol is never dropped: the books of the receiver have its arrival.  *)
LEMMA SymbolArrives ==
    ASSUME TransferInv, NEW c \in Conns, NEW esi \in data[c], RcvSymbol(c, esi)
    PROVE  LET r == receiver[c]
               s == ArriveSymbol(Established(r, c), esi)
           IN  /\ receiver' = [receiver EXCEPT ![c] = s]
               /\ s \in Receiver /\ Books(s, c) /\ s.fsm = "ESTABLISHED"
               /\ Sent(s) = Sent(r)
               /\ s.numberReceivedPackets = r.numberReceivedPackets + 1
               /\ s.numRcvTrimmedHeader = r.numRcvTrimmedHeader
<1> DEFINE r == receiver[c]
           e == Established(r, c)
           s == ArriveSymbol(e, esi)
<1>1. r \in Receiver /\ Books(r, c) /\ esi \in Nat
  BY TransferFacts DEF TransferInv, PullInv, TypeOK
<1>2. ~Dropped(r, IsSyn(c, esi))
  BY ListeningTransfer DEF Dropped
<1>3. receiver' = [receiver EXCEPT ![c] = s]
  BY <1>2 DEF RcvSymbol, ReceiveSymbol
<1> HIDE DEF r
<1>4. /\ e \in Receiver /\ Books(e, c) /\ e.fsm = "ESTABLISHED"
      /\ OnlyRequests(r, e)
      /\ e.numberReceivedPackets = r.numberReceivedPackets
      /\ e.numRcvTrimmedHeader = r.numRcvTrimmedHeader
  BY <1>1, EstablishedType, EstablishedBooks, EstablishedOnly, EstablishedCounts
<1> HIDE DEF e
<1>5. s \in Receiver /\ Books(s, c) /\ OnlyRequests(e, s)
  BY <1>1, <1>4, ArriveSymbolType, ArriveSymbolBooks, ArriveSymbolOnly
<1>6. /\ s.fsm = "ESTABLISHED"
      /\ s.numberReceivedPackets = r.numberReceivedPackets + 1
      /\ s.numRcvTrimmedHeader = r.numRcvTrimmedHeader
  BY <1>1, <1>4, ArriveSymbolCounts
<1>7. Sent(s) = Sent(r)
  BY <1>4, <1>5 DEF OnlyRequests
<1> QED
  BY <1>3, <1>5, <1>6, <1>7 DEF r, e

LEMMA HeaderArrives ==
    ASSUME TransferInv, NEW c \in Conns, NEW esi \in headers[c], RcvHeader(c, esi)
    PROVE  LET r == receiver[c]
               s == ArriveHeader(Established(r, c))
           IN  /\ receiver' = [receiver EXCEPT ![c] = s]
               /\ s \in Receiver /\ Books(s, c) /\ s.fsm = "ESTABLISHED"
               /\ Sent(s) = Sent(r)
               /\ s.numberReceivedPackets = r.numberReceivedPackets
               /\ s.numRcvTrimmedHeader = r.numRcvTrimmedHeader + 1
               /\ SameVerdict(r, s)
<1> DEFINE r == receiver[c]
           e == Established(r, c)
           s == ArriveHeader(e)
<1>1. r \in Receiver /\ Books(r, c)
  BY TransferFacts
<1>2. ~Dropped(r, IsSyn(c, esi))
  BY ListeningTransfer DEF Dropped
<1>3. receiver' = [receiver EXCEPT ![c] = s]
  BY <1>2 DEF RcvHeader, ReceiveHeader
<1> HIDE DEF r
<1>4. /\ e \in Receiver /\ Books(e, c) /\ e.fsm = "ESTABLISHED"
      /\ OnlyRequests(r, e) /\ SameVerdict(r, e)
      /\ e.numberReceivedPackets = r.numberReceivedPackets
      /\ e.numRcvTrimmedHeader = r.numRcvTrimmedHeader
  BY <1>1, EstablishedType, EstablishedBooks, EstablishedOnly, EstablishedCounts
<1> HIDE DEF e
<1>5. s \in Receiver /\ Books(s, c) /\ OnlyRequests(e, s)
  BY <1>4, ArriveHeaderType, ArriveHeaderBooks, ArriveHeaderOnly
<1>6. /\ s.fsm = e.fsm /\ SameVerdict(e, s)
      /\ s.numberReceivedPackets = e.numberReceivedPackets
      /\ s.numRcvTrimmedHeader = e.numRcvTrimmedHeader + 1
  BY <1>4, ArriveHeaderEffect
<1>7. Sent(s) = Sent(r) /\ SameVerdict(r, s)
  BY <1>4, <1>5, <1>6 DEF OnlyRequests, SameVerdict
<1> QED
  BY <1>3, <1>4, <1>5, <1>6, <1>7 DEF r, e

(* What taking one symbol, or one header, out of flight does to the counts.*)
LEMMA SymbolMoves ==
    ASSUME TransferInv, NEW c \in Conns, NEW x \in data[c]
    PROVE  /\ sender[c].opened
           /\ Flying(sender[c], data[c] \ {x}, headers[c], c)
           /\ Cardinality(data[c] \ {x}) = Cardinality(data[c]) - 1
           /\ x > PushedWindow(c) =>
                 /\ Flying(sender[c], data[c] \ {x}, headers[c] \cup {x}, c)
                 /\ Cardinality(headers[c] \cup {x}) = Cardinality(headers[c]) + 1
<1>1. /\ sender[c] \in Sender
      /\ Flying(sender[c], data[c], headers[c], c)
      /\ Conserved(sender[c], receiver[c], data[c], headers[c], discarded[c], c)
  BY TransferFacts
<1> DEFINE s == sender[c]
           D == data[c]
           H == headers[c]
<1> HIDE DEF s, D, H
<1>2. IsFiniteSet(D) /\ IsFiniteSet(H)
  BY <1>1, FlyingFinite DEF s, D, H
<1>3. s.esi \in Nat /\ PushedWindow(c) \in Nat
  BY <1>1, SizeType DEF Sender, s
<1>4. s.opened
  BY <1>1, <1>3 DEF Conserved, Flying, s
<1>5. Flying(s, D \ {x}, H, c)
  BY <1>1 DEF Flying, s, D, H
<1>6. Cardinality(D \ {x}) = Cardinality(D) - 1
  BY <1>2, OneOut DEF D
<1>7. x \in D /\ x \notin H
  BY <1>1 DEF Flying, D, H
<1>8. Cardinality(H \cup {x}) = Cardinality(H) + 1
  BY <1>2, <1>7, FS_AddElement
<1>9. ASSUME x > PushedWindow(c)
      PROVE  Flying(s, D \ {x}, H \cup {x}, c)
  <2>1. Flying(s, D, H, c)
    BY <1>1 DEF s, D, H
  <2> QED
    BY <1>3, <1>7, <1>9, <2>1 DEF Flying
<1> QED
  BY <1>4, <1>5, <1>6, <1>8, <1>9 DEF s, D, H

LEMMA HeaderMoves ==
    ASSUME TransferInv, NEW c \in Conns, NEW x \in headers[c]
    PROVE  /\ sender[c].opened
           /\ Flying(sender[c], data[c], headers[c] \ {x}, c)
           /\ Cardinality(headers[c] \ {x}) = Cardinality(headers[c]) - 1
<1>1. /\ sender[c] \in Sender
      /\ Flying(sender[c], data[c], headers[c], c)
      /\ Conserved(sender[c], receiver[c], data[c], headers[c], discarded[c], c)
  BY TransferFacts
<1>2. sender[c].esi \in Nat /\ PushedWindow(c) \in Nat
  BY <1>1, SizeType DEF Sender
<1>3. sender[c].opened
  BY <1>1, <1>2 DEF Conserved, Flying
<1>4. Flying(sender[c], data[c], headers[c] \ {x}, c)
  BY <1>1 DEF Flying
<1>5. IsFiniteSet(headers[c])
  BY <1>1, FlyingFinite
<1> QED
  BY <1>3, <1>4, <1>5, OneOut

LEMMA RcvSymbolTransfer ==
    ASSUME TransferInv, NEW c \in Conns, NEW esi \in data[c], RcvSymbol(c, esi)
    PROVE  TransferInv'
<1> DEFINE r == receiver[c]
           s == ArriveSymbol(Established(r, c), esi)
           D == data[c] \ {esi}
<1>1. PullInv' /\ TypeOK
  BY RcvSymbolKeepsPullInv DEF TransferInv, PullInv
<1>2. /\ receiver' = [receiver EXCEPT ![c] = s]
      /\ s \in Receiver /\ Books(s, c)
      /\ Sent(s) = Sent(r)
      /\ s.numberReceivedPackets = r.numberReceivedPackets + 1
      /\ s.numRcvTrimmedHeader = r.numRcvTrimmedHeader
  BY SymbolArrives
<1>3. /\ data' = [data EXCEPT ![c] = D]
      /\ UNCHANGED <<sender, headers, pulls, discarded>>
  BY DEF RcvSymbol
<1> HIDE DEF s
<1>4. receiver'[c] = s /\ data'[c] = D /\ OthersUnchanged(c)
  BY <1>1, <1>2, <1>3 DEF TypeOK, OthersUnchanged
<1>5. /\ sender[c] \in Sender /\ r \in Receiver /\ discarded[c] \in Nat
      /\ Flying(sender[c], data[c], headers[c], c)
      /\ Conserved(sender[c], r, data[c], headers[c], discarded[c], c)
  BY TransferFacts
<1>6. /\ sender[c].opened
      /\ Flying(sender[c], D, headers[c], c)
      /\ Cardinality(D) = Cardinality(data[c]) - 1
  BY SymbolMoves
<1> HIDE DEF D
<1>7. Conserved(sender[c], s, D, headers[c], discarded[c], c)
  <2>1. /\ r.numberReceivedPackets \in Nat /\ r.numRcvTrimmedHeader \in Nat
        /\ Cardinality(data[c]) \in Nat /\ Cardinality(headers[c]) \in Nat
    BY <1>5, ReceiverFields, FlyingFinite
  <2> HIDE DEF r
  <2> QED
    BY <1>2, <1>5, <1>6, <2>1 DEF Conserved
<1>8. NewestFlying(sender[c], s, pulls[c])
  BY <1>2, TransferFacts DEF NewestFlying
<1>9. TransferOf(c)'
  BY <1>2, <1>3, <1>4, <1>6, <1>7, <1>8 DEF TransferOf, Transfer
<1> QED
  BY <1>1, <1>4, <1>9, OneTransferSteps

LEMMA RcvHeaderTransfer ==
    ASSUME TransferInv, NEW c \in Conns, NEW esi \in headers[c], RcvHeader(c, esi)
    PROVE  TransferInv'
<1> DEFINE r == receiver[c]
           s == ArriveHeader(Established(r, c))
           H == headers[c] \ {esi}
<1>1. PullInv' /\ TypeOK
  BY RcvHeaderKeepsPullInv DEF TransferInv, PullInv
<1>2. /\ receiver' = [receiver EXCEPT ![c] = s]
      /\ s \in Receiver /\ Books(s, c)
      /\ Sent(s) = Sent(r)
      /\ s.numberReceivedPackets = r.numberReceivedPackets
      /\ s.numRcvTrimmedHeader = r.numRcvTrimmedHeader + 1
  BY HeaderArrives
<1>3. /\ headers' = [headers EXCEPT ![c] = H]
      /\ UNCHANGED <<sender, data, pulls, discarded>>
  BY DEF RcvHeader
<1> HIDE DEF s
<1>4. receiver'[c] = s /\ headers'[c] = H /\ OthersUnchanged(c)
  BY <1>1, <1>2, <1>3 DEF TypeOK, OthersUnchanged
<1>5. /\ sender[c] \in Sender /\ r \in Receiver /\ discarded[c] \in Nat
      /\ Flying(sender[c], data[c], headers[c], c)
      /\ Conserved(sender[c], r, data[c], headers[c], discarded[c], c)
  BY TransferFacts
<1>6. /\ sender[c].opened
      /\ Flying(sender[c], data[c], H, c)
      /\ Cardinality(H) = Cardinality(headers[c]) - 1
  BY HeaderMoves
<1> HIDE DEF H
<1>7. Conserved(sender[c], s, data[c], H, discarded[c], c)
  <2>1. /\ r.numberReceivedPackets \in Nat /\ r.numRcvTrimmedHeader \in Nat
        /\ Cardinality(data[c]) \in Nat /\ Cardinality(headers[c]) \in Nat
    BY <1>5, ReceiverFields, FlyingFinite
  <2> HIDE DEF r
  <2> QED
    BY <1>2, <1>5, <1>6, <2>1 DEF Conserved
<1>8. NewestFlying(sender[c], s, pulls[c])
  BY <1>2, TransferFacts DEF NewestFlying
<1>9. TransferOf(c)'
  BY <1>2, <1>3, <1>4, <1>6, <1>7, <1>8 DEF TransferOf, Transfer
<1> QED
  BY <1>1, <1>4, <1>9, OneTransferSteps

(* A pull that leaves is the newest one sent.                              *)
LEMMA SendPullTransfer ==
    ASSUME TransferInv, PullInv', NEW c \in Conns,
           receiver[c].pullQueue # <<>>, SendPull(c),
           UNCHANGED <<sender, data, headers, discarded>>
    PROVE  TransferInv'
<1> DEFINE r == receiver[c]
           s == [r EXCEPT !.pullQueue = Tail(@), !.sentPullsInWindow = @ + 1]
           Q == pulls[c] \cup {Head(r.pullQueue)}
<1>1. TypeOK /\ PullOrder
  BY DEF TransferInv, PullInv
<1>2. /\ receiver' = [receiver EXCEPT ![c] = s]
      /\ pulls' = [pulls EXCEPT ![c] = Q]
  BY <1>1 DEF SendPull, TypeOK
<1>3. receiver'[c] = s /\ pulls'[c] = Q /\ OthersUnchanged(c)
  BY <1>1, <1>2 DEF TypeOK, OthersUnchanged
<1>4. /\ r \in Receiver /\ Books(r, c) /\ sender[c] \in Sender
      /\ Flying(sender[c], data[c], headers[c], c)
      /\ Conserved(sender[c], r, data[c], headers[c], discarded[c], c)
  BY TransferFacts
<1>5. Books(s, c) /\ Sent(s) = Sent(r) + 1 /\ s.fsm = "ESTABLISHED"
  BY <1>4, SendPullBooks
<1>6. /\ s.numberReceivedPackets = r.numberReceivedPackets
      /\ s.numRcvTrimmedHeader = r.numRcvTrimmedHeader
  BY <1>4 DEF Receiver
<1>7. r.fsm = "ESTABLISHED"
  BY <1>4, <1>5 DEF Receiver
<1>8. Conserved(sender[c], s, data[c], headers[c], discarded[c], c)
  BY <1>4, <1>5, <1>6, <1>7 DEF Conserved
<1>9. Head(r.pullQueue).seq = Sent(s)
  <2>1. r.pullQueue \in Seq(Pull) /\ r.pullQueue # <<>>
    BY <1>4, ReceiverFields
  <2>2. 1 \in DOMAIN r.pullQueue /\ Head(r.pullQueue) = r.pullQueue[1]
    BY <2>1
  <2>3. r.pullQueue[1].seq = Sent(r) + 1
    BY <1>1, <2>2 DEF PullOrder, PullsSent, Sent
  <2> HIDE DEF r, s
  <2> QED
    BY <1>5, <2>2, <2>3
<1>10. NewestFlying(sender[c], s, Q)
  BY <1>9 DEF NewestFlying
<1> HIDE DEF s, Q
<1>11. TransferOf(c)'
  BY <1>3, <1>4, <1>5, <1>8, <1>10 DEF TransferOf, Transfer
<1> QED
  BY <1>3, <1>11, OneTransferSteps

LEMMA TimerExpiresTransfer ==
    ASSUME TransferInv, TimerExpires
    PROVE  TransferInv'
<1>1. PullInv' /\ PullInv
  BY TimerExpiresKeepsPullInv DEF TransferInv
<1>2. UNCHANGED <<sender, data, headers, discarded, decoding>>
  BY DEF TimerExpires
<1>3. CASE UNCHANGED <<receiver, pulls>>
  BY <1>1, <1>2, <1>3 DEF TransferInv, TransferOf
<1>4. ASSUME NEW i \in DOMAIN pacer.requestCONNMap,
             IsNextInTurn(i), SendPull(pacer.requestCONNMap[i])
      PROVE  TransferInv'
  <2>1. pacer.requestCONNMap[i] \in Conns
    BY <1>1 DEF PullInv, TypeOK, Pacer
  <2>2. receiver[pacer.requestCONNMap[i]].pullQueue # <<>>
    BY <1>4 DEF IsNextInTurn
  <2> QED
    BY <1>1, <1>2, <1>4, <2>1, <2>2, SendPullTransfer
<1> QED
  BY <1>3, <1>4 DEF TimerExpires, PaceRequests

LEMMA TrimSymbolTransfer ==
    ASSUME TransferInv, NEW c \in Conns, NEW esi \in data[c], TrimSymbol(c, esi)
    PROVE  TransferInv'
<1> DEFINE D == data[c] \ {esi}
           H == headers[c] \cup {esi}
<1>1. Network(c)
  BY DEF Network
<1>2. PullInv' /\ TypeOK
  BY <1>1, NetworkKeepsPullInv DEF TransferInv, PullInv
<1>3. /\ data' = [data EXCEPT ![c] = D]
      /\ headers' = [headers EXCEPT ![c] = H]
      /\ UNCHANGED <<sender, receiver, pulls, discarded>>
  BY DEF TrimSymbol
<1>4. data'[c] = D /\ headers'[c] = H /\ OthersUnchanged(c)
  BY <1>2, <1>3 DEF TypeOK, OthersUnchanged
<1>5. esi > PushedWindow(c)
  BY <1>2, SizeType DEF TrimSymbol, IsSyn, TypeOK
<1>6. /\ Flying(sender[c], D, H, c)
      /\ Cardinality(D) = Cardinality(data[c]) - 1
      /\ Cardinality(H) = Cardinality(headers[c]) + 1
  BY <1>5, SymbolMoves
<1>7. /\ sender[c] \in Sender /\ receiver[c] \in Receiver /\ discarded[c] \in Nat
      /\ Flying(sender[c], data[c], headers[c], c)
      /\ Conserved(sender[c], receiver[c], data[c], headers[c], discarded[c], c)
      /\ Books(receiver[c], c)
      /\ NewestFlying(sender[c], receiver[c], pulls[c])
  BY TransferFacts
<1> HIDE DEF D, H
<1>8. Conserved(sender[c], receiver[c], D, H, discarded[c], c)
  <2>1. /\ receiver[c].numberReceivedPackets \in Nat
        /\ receiver[c].numRcvTrimmedHeader \in Nat
        /\ Cardinality(data[c]) \in Nat /\ Cardinality(headers[c]) \in Nat
    BY <1>7, ReceiverFields, FlyingFinite
  <2> QED
    BY <1>6, <1>7, <2>1 DEF Conserved
<1>9. TransferOf(c)'
  BY <1>3, <1>4, <1>6, <1>7, <1>8 DEF TransferOf, Transfer
<1> QED
  BY <1>2, <1>4, <1>9, OneTransferSteps

LEMMA DiscardSymbolTransfer ==
    ASSUME TransferInv, NEW c \in Conns, NEW esi \in data[c],
           DiscardSymbol(c, esi)
    PROVE  TransferInv'
<1> DEFINE D == data[c] \ {esi}
           k == discarded[c] + 1
<1>1. Network(c)
  BY DEF Network
<1>2. PullInv' /\ TypeOK
  BY <1>1, NetworkKeepsPullInv DEF TransferInv, PullInv
<1>3. /\ data' = [data EXCEPT ![c] = D]
      /\ discarded' = [discarded EXCEPT ![c] = k]
      /\ UNCHANGED <<sender, receiver, pulls, headers>>
  BY <1>2 DEF DiscardSymbol, TypeOK
<1>4. data'[c] = D /\ discarded'[c] = k /\ OthersUnchanged(c)
  BY <1>2, <1>3 DEF TypeOK, OthersUnchanged
<1>5. /\ Flying(sender[c], D, headers[c], c)
      /\ Cardinality(D) = Cardinality(data[c]) - 1
  BY SymbolMoves
<1>6. /\ sender[c] \in Sender /\ receiver[c] \in Receiver /\ discarded[c] \in Nat
      /\ Flying(sender[c], data[c], headers[c], c)
      /\ Conserved(sender[c], receiver[c], data[c], headers[c], discarded[c], c)
      /\ Books(receiver[c], c)
      /\ NewestFlying(sender[c], receiver[c], pulls[c])
  BY TransferFacts
<1> HIDE DEF D
<1>7. Conserved(sender[c], receiver[c], D, headers[c], k, c)
  <2>1. /\ receiver[c].numberReceivedPackets \in Nat
        /\ receiver[c].numRcvTrimmedHeader \in Nat
        /\ Cardinality(data[c]) \in Nat /\ Cardinality(headers[c]) \in Nat
    BY <1>6, ReceiverFields, FlyingFinite
  <2> QED
    BY <1>5, <1>6, <2>1 DEF Conserved
<1> HIDE DEF k
<1>8. TransferOf(c)'
  BY <1>3, <1>4, <1>5, <1>6, <1>7 DEF TransferOf, Transfer
<1> QED
  BY <1>2, <1>4, <1>8, OneTransferSteps

LEMMA TransferInvInductive == TransferInv /\ [Next]_vars => TransferInv'
<1> SUFFICES ASSUME TransferInv, [Next]_vars PROVE TransferInv'
  OBVIOUS
<1>1. CASE UNCHANGED vars
  <2>1. PullInv'
    BY <1>1, PullInvInductive DEF TransferInv
  <2> QED
    BY <1>1, <2>1 DEF TransferInv, TransferOf, vars
<1>2. CASE Next
  BY <1>2, SendInitialWindowTransfer, RcvPullTransfer, RcvSymbolTransfer,
     RcvHeaderTransfer, TrimSymbolTransfer, DiscardSymbolTransfer,
     TimerExpiresTransfer DEF Next, Network
<1> QED
  BY <1>1, <1>2

LEMMA TransferInvHolds == Spec => []TransferInv
BY InitTransferInv, TransferInvInductive, PTL DEF Spec

-----------------------------------------------------------------------------
(* What the books say of the properties.                                   *)

(* The facts of one transfer, in numbers.                                  *)
LEMMA TransferNumbers ==
    ASSUME TransferInv, NEW c \in Conns
    PROVE  /\ receiver[c].numberReceivedPackets \in Nat
           /\ receiver[c].numRcvTrimmedHeader \in Nat
           /\ receiver[c].request_id \in Nat
           /\ receiver[c].sentPullsInWindow \in Int
           /\ receiver[c].cwnd \in Nat
           /\ Len(receiver[c].pullQueue) \in Nat
           /\ sender[c].esi \in Nat /\ sender[c].request_id \in Nat
           /\ Cardinality(data[c]) \in Nat /\ Cardinality(headers[c]) \in Nat
           /\ discarded[c] \in Nat
           /\ PullsSent(c) \in Int /\ PullsSent(c) = Sent(receiver[c])
<1>1. /\ sender[c] \in Sender /\ receiver[c] \in Receiver /\ discarded[c] \in Nat
      /\ Flying(sender[c], data[c], headers[c], c)
  BY TransferFacts
<1>2. Cardinality(data[c]) \in Nat /\ Cardinality(headers[c]) \in Nat
  BY <1>1, FlyingFinite
<1>3. PullsSent(c) \in Int /\ PullsSent(c) = Sent(receiver[c])
  BY <1>1, SentType DEF PullsSent, Sent
<1>4. /\ receiver[c].numberReceivedPackets \in Nat
      /\ receiver[c].numRcvTrimmedHeader \in Nat
      /\ receiver[c].request_id \in Nat
      /\ receiver[c].sentPullsInWindow \in Int
      /\ receiver[c].cwnd \in Nat
      /\ Len(receiver[c].pullQueue) \in Nat
  BY <1>1, ReceiverFields
<1> QED
  BY <1>1, <1>2, <1>3, <1>4 DEF Sender

(* sentPullsInWindow counts what may still arrive, in every state: no order*)
(* of arrivals, trims, discards or overtaking pulls makes it drift.        *)
THEOREM WindowAccounted == Spec => []WindowAccounting
<1>1. TransferInv => WindowAccounting
  <2> SUFFICES ASSUME TransferInv, NEW c \in Conns, sender[c].opened
               PROVE  receiver[c].sentPullsInWindow =
                          (InitialWindow - PushedWindow(c))
                          + (PullsSent(c) - sender[c].request_id) + Outstanding(c)
    BY DEF WindowAccounting
  <2>1. receiver[c].sentPullsInWindow =
            InitialWindow + Sent(receiver[c]) - receiver[c].numberReceivedPackets
            - receiver[c].numRcvTrimmedHeader
    BY TransferFacts DEF Books, Balanced
  <2>2. PushedWindow(c) + sender[c].request_id =
            receiver[c].numberReceivedPackets + receiver[c].numRcvTrimmedHeader
            + Cardinality(data[c]) + Cardinality(headers[c]) + discarded[c]
    BY TransferFacts DEF Conserved
  <2>3. InitialWindow \in Int /\ PushedWindow(c) \in Int
    BY SizeType, InitialWindowAssumption
  <2> DEFINE n == receiver[c].numberReceivedPackets
             t == receiver[c].numRcvTrimmedHeader
             credit == receiver[c].sentPullsInWindow
             sent == Sent(receiver[c])
             answered == sender[c].request_id
             symbols == Cardinality(data[c])
             trimmed == Cardinality(headers[c])
             k == discarded[c]
  <2>4. /\ n \in Int /\ t \in Int /\ credit \in Int /\ sent \in Int
        /\ answered \in Int /\ symbols \in Int /\ trimmed \in Int /\ k \in Int
        /\ PullsSent(c) = sent /\ Outstanding(c) = symbols + trimmed + k
    BY TransferNumbers DEF Outstanding
  <2> HIDE DEF n, t, credit, sent, answered, symbols, trimmed, k
  <2>5. /\ credit = InitialWindow + sent - n - t
        /\ PushedWindow(c) + answered = n + t + symbols + trimmed + k
    BY <2>1, <2>2 DEF n, t, credit, sent, answered, symbols, trimmed, k
  <2>6. credit = (InitialWindow - PushedWindow(c)) + (sent - answered)
                    + (symbols + trimmed + k)
    BY <2>3, <2>4, <2>5
  <2> QED
    BY <2>4, <2>6 DEF credit, answered
<1> QED
  BY <1>1, TransferInvHolds, PTL

(* Until a header arrives, the pulls sent and queued stay within the window*)
(* the receiver has grown, for every initial window and transfer size.     *)
THEOREM WindowLimited == Spec => []WindowLimit
<1>1. TransferInv => WindowLimit
  <2> SUFFICES ASSUME TransferInv, NEW c \in Conns,
                      receiver[c].fsm = "ESTABLISHED",
                      receiver[c].numRcvTrimmedHeader = 0
               PROVE  receiver[c].sentPullsInWindow + Len(receiver[c].pullQueue)
                          <= receiver[c].cwnd + (InitialWindow - PushedWindow(c))
    BY DEF WindowLimit
  <2>1. receiver[c].sentPullsInWindow =
            InitialWindow + Sent(receiver[c]) - receiver[c].numberReceivedPackets
            - receiver[c].numRcvTrimmedHeader
    BY TransferFacts DEF Books, Balanced
  <2>2. PushedWindow(c) + receiver[c].request_id
            <= receiver[c].numberReceivedPackets + receiver[c].cwnd
    BY TransferFacts DEF Books, AsksNoMore, Asked
  <2>3. InitialWindow \in Int /\ PushedWindow(c) \in Int
    BY SizeType, InitialWindowAssumption
  <2> DEFINE n == receiver[c].numberReceivedPackets
             credit == receiver[c].sentPullsInWindow
             queued == Len(receiver[c].pullQueue)
             asked == receiver[c].request_id
             cwnd == receiver[c].cwnd
  <2>4. /\ n \in Int /\ credit \in Int /\ queued \in Int /\ asked \in Int
        /\ cwnd \in Int /\ Sent(receiver[c]) = asked - queued
    BY TransferNumbers DEF Sent
  <2> HIDE DEF n, credit, queued, asked, cwnd
  <2>5. credit = InitialWindow + (asked - queued) - n - 0
    BY <2>1, <2>4 DEF n, credit
  <2>6. PushedWindow(c) + asked <= n + cwnd
    BY <2>2 DEF n, asked, cwnd
  <2>7. credit + queued <= cwnd + (InitialWindow - PushedWindow(c))
    BY <2>3, <2>4, <2>5, <2>6
  <2> QED
    BY <2>7 DEF credit, queued, cwnd
<1> QED
  BY <1>1, TransferInvHolds, PTL

(* While nothing is trimmed, no more than one symbol beyond those of the   *)
(* application is asked for, whatever the order of arrival.                *)
THEOREM OverheadBounded == Spec => []BoundedOverhead
<1>1. TransferInv => BoundedOverhead
  <2> SUFFICES ASSUME TransferInv, NEW c \in Conns,
                      receiver[c].numRcvTrimmedHeader = 0
               PROVE  PushedWindow(c) + receiver[c].request_id
                          <= NumSymbols[c] + 1
    BY DEF BoundedOverhead
  <2>1. CASE receiver[c].fsm = "ESTABLISHED"
    BY <2>1, TransferFacts DEF Books, AsksNoMore, Asked
  <2>2. CASE receiver[c].fsm = "LISTEN"
    <3>1. receiver[c].request_id = 0
      BY <2>2, ListeningTransfer DEF ListeningReceiver
    <3> QED
      BY <3>1, SizeType
  <2> QED
    BY <2>1, <2>2, TransferFacts, ReceiverFields
<1> QED
  BY <1>1, TransferInvHolds, PTL

(* connFinished, which the branch that skips the report sets, implies that *)
(* PEER_CLOSED was reported by an earlier symbol.                          *)
THEOREM FinishedIsClosed == Spec => []FinishedAfterClosed
<1>1. TransferInv => FinishedAfterClosed
  BY TransferFacts DEF FinishedAfterClosed, Books, Concludes
<1> QED
  BY <1>1, TransferInvHolds, PTL

(* No packet that a listening connection drops ever reaches one.           *)
THEOREM NothingDropped == Spec => []NothingToDropInListen
<1>1. TransferInv => NothingToDropInListen
  BY ListeningTransfer DEF NothingToDropInListen
<1> QED
  BY <1>1, TransferInvHolds, PTL

(* A transfer that ran dry lost a symbol to a discard, or each source      *)
(* symbol it lacks was asked for and came as a trimmed header.             *)
THEOREM StallsForTrimmed == Spec => []StallsOnlyForTrimmed
<1>1. TransferInv => StallsOnlyForTrimmed
  <2> SUFFICES ASSUME TransferInv, NEW c \in Conns, Stalled(c),
                      discarded[c] = 0
               PROVE  /\ receiver[c].numRcvTrimmedHeader > 0
                      /\ receiver[c].numberReceivedPackets
                            + receiver[c].numRcvTrimmedHeader >= NumSymbols[c]
    BY TransferNumbers DEF StallsOnlyForTrimmed
  <2> DEFINE n == receiver[c].numberReceivedPackets
             t == receiver[c].numRcvTrimmedHeader
  <2>1. n \in Nat /\ t \in Nat /\ NumSymbols[c] \in Nat
    BY TransferNumbers, SizeType
  <2>2. Cardinality(data[c]) = 0 /\ Cardinality(headers[c]) = 0
    BY FS_EmptySet DEF Stalled
  <2>3. PushedWindow(c) + sender[c].request_id = n + t
    <3>1. sender[c].opened
      BY DEF Stalled
    <3>2. /\ sender[c].esi = n + t + Cardinality(data[c])
                                + Cardinality(headers[c]) + discarded[c]
          /\ sender[c].esi = PushedWindow(c) + sender[c].request_id
      BY <3>1, TransferFacts DEF Conserved
    <3> HIDE DEF n, t
    <3> QED
      BY <2>1, <2>2, <3>2
  <2>4. Sent(receiver[c]) = receiver[c].request_id
    <3>1. Len(receiver[c].pullQueue) = 0
      BY DEF Stalled
    <3> QED
      BY <3>1, TransferNumbers DEF Sent
  <2>5. sender[c].request_id = receiver[c].request_id
    <3>1. ~(sender[c].request_id < Sent(receiver[c]))
      BY TransferFacts DEF NewestFlying, Stalled
    <3>2. sender[c].request_id <= Sent(receiver[c])
      BY TransferFacts
    <3> QED
      BY <2>4, <3>1, <3>2, TransferNumbers
  <2>6. receiver[c].fsm = "ESTABLISHED"
    <3>1. ASSUME receiver[c].fsm = "LISTEN" PROVE FALSE
      <4>1. n = 0 /\ t = 0
        BY <3>1, ListeningTransfer DEF ListeningReceiver
      <4> QED
        BY <2>3, <4>1, SizeType, TransferNumbers
    <3> QED
      BY <3>1, TransferFacts, ReceiverFields
  <2>7. n + t >= NumSymbols[c]
    <3>1. \/ Asked(receiver[c], c) >= NumSymbols[c]
          \/ Asked(receiver[c], c) > n + t
      BY <2>6, TransferFacts DEF Books, AsksEnough
    <3>2. Asked(receiver[c], c) = n + t
      BY <2>3, <2>5 DEF Asked
    <3> QED
      BY <2>1, <3>1, <3>2
  <2>8. t > 0
    <3>1. ASSUME t = 0 PROVE FALSE
      <4>1. WantedSymbols(receiver[c]) = NumSymbols[c]
        BY <2>6, <3>1, TransferFacts DEF WantedSymbols, Books, KnowsSize
      <4>2. n >= WantedSymbols(receiver[c])
        BY <2>1, <2>7, <3>1, <4>1
      <4>3. receiver[c].redoDecoding
        BY <2>6, <4>2, TransferFacts DEF Books, Concludes, Stalled
      <4> QED
        BY <2>1, <3>1, <4>3, TransferFacts DEF Books, Concludes
    <3> QED
      BY <2>1, <3>1
  <2> QED
    BY <2>7, <2>8
<1> QED
  BY <1>1, TransferInvHolds, PTL

-----------------------------------------------------------------------------
(* The report of PEER_CLOSED, and the refinement of PullCredit.            *)

DecodableReport(s, c) ==
    \/ s.numberReceivedPackets >= NumSymbols[c] + 2
    \/ s.numberReceivedPackets >= NumSymbols[c] /\ s.numRcvTrimmedHeader = 0

(* A symbol reports completion with enough symbols, and withdraws no report*)
LEMMA SymbolVerdict ==
    ASSUME TransferInv, NEW c \in Conns, NEW esi \in data[c], RcvSymbol(c, esi)
    PROVE  LET r == receiver[c]
               s == receiver'[c]
           IN  /\ r.isfinalReceivedPrintedOut => s.isfinalReceivedPrintedOut
               /\ ~r.isfinalReceivedPrintedOut /\ s.isfinalReceivedPrintedOut =>
                     DecodableReport(s, c)
<1> DEFINE r == receiver[c]
           e == Established(r, c)
           s == ArriveSymbol(e, esi)
<1>1. TypeOK /\ r \in Receiver /\ Books(r, c)
  BY TransferFacts DEF TransferInv, PullInv
<1>2. esi \in Nat
  BY <1>1 DEF TypeOK
<1>3. receiver'[c] = s
  BY <1>1, SymbolArrives DEF TypeOK
<1>4. /\ e \in Receiver /\ Books(e, c) /\ e.fsm = "ESTABLISHED"
      /\ SameVerdict(r, e)
  BY <1>1, EstablishedType, EstablishedBooks, EstablishedCounts
<1> HIDE DEF r, e
<1>5. /\ s.numberReceivedPackets = e.numberReceivedPackets + 1
      /\ s.numRcvTrimmedHeader = e.numRcvTrimmedHeader
  BY <1>2, <1>4, ArriveSymbolCounts
<1>6. /\ e.isfinalReceivedPrintedOut => s.isfinalReceivedPrintedOut
      /\ s.isfinalReceivedPrintedOut =>
            \/ e.isfinalReceivedPrintedOut
            \/ e.numberReceivedPackets + 1 = WantedSymbols(e)
            \/ e.connFinished \/ e.redoDecoding
  BY <1>2, <1>4, ArriveSymbolConcludes
<1> HIDE DEF s
<1>7. ASSUME ~e.isfinalReceivedPrintedOut, s.isfinalReceivedPrintedOut
      PROVE  DecodableReport(s, c)
  <2>1. /\ e.numberReceivedPackets \in Nat /\ e.numRcvTrimmedHeader \in Nat
        /\ NumSymbols[c] \in Nat
    BY <1>4, ReceiverFields, SizeType
  <2>2. \/ e.numberReceivedPackets + 1 = WantedSymbols(e)
        \/ e.numberReceivedPackets >= NumSymbols[c] + 2
    BY <1>4, <1>6, <1>7 DEF Books, Concludes
  <2>3. WantedSymbols(e) =
            IF e.numRcvTrimmedHeader = 0 THEN NumSymbols[c] ELSE NumSymbols[c] + 2
    BY <1>4 DEF WantedSymbols, Books, KnowsSize
  <2> QED
    BY <1>5, <2>1, <2>2, <2>3 DEF DecodableReport
<1> QED
  BY <1>3, <1>4, <1>6, <1>7 DEF SameVerdict, r

(* How a step may change what PullCredit sees of a transfer.               *)
SameReport(c) ==
    /\ receiver'[c].isfinalReceivedPrintedOut = receiver[c].isfinalReceivedPrintedOut
    /\ receiver'[c].numberReceivedPackets = receiver[c].numberReceivedPackets

LEMMA OtherStepsKeepReport ==
    ASSUME TransferInv, [Next]_vars
    PROVE  \/ \E c \in Conns : \E esi \in data[c] : RcvSymbol(c, esi)
           \/ \A c \in Conns : SameReport(c)
<1>1. CASE UNCHANGED receiver
  BY <1>1 DEF SameReport
<1>2. ASSUME NEW c \in Conns, NEW esi \in headers[c], RcvHeader(c, esi)
      PROVE  \A d \in Conns : SameReport(d)
  <2> DEFINE s == ArriveHeader(Established(receiver[c], c))
  <2>1. /\ receiver' = [receiver EXCEPT ![c] = s]
        /\ s.numberReceivedPackets = receiver[c].numberReceivedPackets
        /\ s.isfinalReceivedPrintedOut = receiver[c].isfinalReceivedPrintedOut
    BY <1>2, HeaderArrives DEF SameVerdict
  <2> HIDE DEF s
  <2>2. receiver \in [Conns -> Receiver]
    BY DEF TransferInv, PullInv, TypeOK
  <2> QED
    BY <2>1, <2>2 DEF SameReport
<1>3. ASSUME NEW c \in Conns, SendPull(c)
      PROVE  \A d \in Conns : SameReport(d)
  <2>1. receiver \in [Conns -> Receiver]
    BY DEF TransferInv, PullInv, TypeOK
  <2> DEFINE r == receiver[c]
             s == [r EXCEPT !.pullQueue = Tail(@), !.sentPullsInWindow = @ + 1]
  <2>2. receiver' = [receiver EXCEPT ![c] = s]
    BY <1>3, <2>1 DEF SendPull
  <2> QED
    BY <2>1, <2>2 DEF SameReport, Receiver
<1>4. CASE TimerExpires
  <2>1. \A i \in DOMAIN pacer.requestCONNMap : pacer.requestCONNMap[i] \in Conns
    BY DEF TransferInv, PullInv, TypeOK, Pacer
  <2> QED
    BY <1>1, <1>3, <1>4, <2>1 DEF TimerExpires, PaceRequests
<1>5. ASSUME NEW c \in Conns,
             \/ SendInitialWindow(c)
             \/ \E pull \in pulls[c] : RcvPull(c, pull)
             \/ Network(c)
      PROVE  UNCHANGED receiver
  BY <1>5 DEF SendInitialWindow, RcvPull, Network, TrimSymbol, DiscardSymbol
<1> QED
  BY <1>1, <1>2, <1>4, <1>5 DEF Next, vars

(* PEER_CLOSED is reported only by the arrival of a symbol with which the  *)
(* receiver has the source symbols, and two more if one was trimmed.       *)
THEOREM ClosesWhenDecodable == Spec => ClosedWhenDecodable
<1> DEFINE Closing ==
        \A c \in Conns :
            ~receiver[c].isfinalReceivedPrintedOut
            /\ receiver'[c].isfinalReceivedPrintedOut =>
                \/ receiver'[c].numberReceivedPackets >= NumSymbols[c] + 2
                \/ receiver'[c].numberReceivedPackets >= NumSymbols[c]
                   /\ receiver'[c].numRcvTrimmedHeader = 0
<1>1. TransferInv /\ [Next]_vars => [Closing]_vars
  <2> SUFFICES ASSUME TransferInv, [Next]_vars, NEW d \in Conns,
                      ~receiver[d].isfinalReceivedPrintedOut,
                      receiver'[d].isfinalReceivedPrintedOut
               PROVE  DecodableReport(receiver'[d], d)
    BY DEF DecodableReport
  <2>1. PICK c \in Conns : \E esi \in data[c] : RcvSymbol(c, esi)
    BY OtherStepsKeepReport DEF SameReport
  <2>2. PICK esi \in data[c] : RcvSymbol(c, esi)
    BY <2>1
  <2>3. d = c
    BY <2>2, SymbolArrives DEF TransferInv, PullInv, TypeOK
  <2> QED
    BY <2>2, <2>3, SymbolVerdict
<1> QED
  BY <1>1, TransferInvHolds, PTL DEF Spec, ClosedWhenDecodable

-----------------------------------------------------------------------------
(* The refinement of PullCredit: the pacer grants, a connecting client and *)
(* a sender that is pulled send, a symbol at the receiver arrives, and all *)
(* the other steps are stuttering steps of the abstraction.                *)

SameSent(c) == PullsSent(c)' = PullsSent(c)

LEMMA InitCredit == Init => Credit!Init
<1> SUFFICES ASSUME Init PROVE Credit!Init
  OBVIOUS
<1>1. \A c \in Conns : PullsSent(c) = 0 /\ PushedWindow(c) \in Nat
  BY SizeType DEF Init, PullsSent, ListeningReceiver
<1> QED
  BY <1>1 DEF Init, Credit!Init, ListeningReceiver

LEMMA CreditSend ==
    ASSUME TransferInv, NEW c \in Conns,
           NEW n \in (sender[c].esi + 1) .. (PushedWindow(c) + PullsSent(c)),
           UNCHANGED receiver,
           sender'[c].esi = n,
           \A d \in Conns \ {c} : sender'[d].esi = sender[d].esi
    PROVE  Credit!Send(c)
<1>1. [d \in Conns |-> sender[d].esi]' =
          [[d \in Conns |-> sender[d].esi] EXCEPT ![c] = n]
  OBVIOUS
<1>2. UNCHANGED <<[d \in Conns |-> PushedWindow(d) + PullsSent(d)],
                  [d \in Conns |-> receiver[d].numberReceivedPackets],
                  [d \in Conns |-> receiver[d].isfinalReceivedPrintedOut]>>
  BY DEF PullsSent, PushedWindow
<1> QED
  BY <1>1, <1>2 DEF Credit!Send

LEMMA CreditGrant ==
    ASSUME TransferInv, NEW c \in Conns, receiver[c].pullQueue # <<>>,
           SendPull(c), UNCHANGED sender
    PROVE  Credit!Grant(c)
<1> DEFINE r == receiver[c]
           s == [r EXCEPT !.pullQueue = Tail(@), !.sentPullsInWindow = @ + 1]
<1>1. receiver \in [Conns -> Receiver]
  BY DEF TransferInv, PullInv, TypeOK
<1>2. receiver' = [receiver EXCEPT ![c] = s]
  BY <1>1 DEF SendPull
<1>3. /\ s.numberReceivedPackets = r.numberReceivedPackets
      /\ s.isfinalReceivedPrintedOut = r.isfinalReceivedPrintedOut
  BY <1>1 DEF Receiver
<1>4. Sent(s) = Sent(r) + 1 /\ Sent(r) \in Int
  BY <1>1, TransferFacts, SendPullBooks, SentType
<1> HIDE DEF s
<1>5. receiver'[c] = s /\ \A d \in Conns \ {c} : receiver'[d] = receiver[d]
  BY <1>1, <1>2
<1>6. /\ PullsSent(c)' = PullsSent(c) + 1
      /\ \A d \in Conns \ {c} : PullsSent(d)' = PullsSent(d)
      /\ \A d \in Conns : PushedWindow(d)' = PushedWindow(d)
  BY <1>4, <1>5 DEF PullsSent, Sent, PushedWindow
<1>7. \A d \in Conns : PushedWindow(d) \in Int /\ PullsSent(d) \in Int
  BY SizeType, TransferNumbers
<1>8. [d \in Conns |-> PushedWindow(d) + PullsSent(d)]' =
          [[d \in Conns |-> PushedWindow(d) + PullsSent(d)] EXCEPT ![c] = @ + 1]
  <2> DEFINE credit == [d \in Conns |-> PushedWindow(d) + PullsSent(d)]
  <2>1. \A d \in Conns :
            (PushedWindow(d) + PullsSent(d))' =
                IF d = c THEN credit[c] + 1 ELSE credit[d]
    BY <1>6, <1>7
  <2> QED
    BY <2>1
<1>9. UNCHANGED <<[d \in Conns |-> sender[d].esi],
                  [d \in Conns |-> receiver[d].numberReceivedPackets],
                  [d \in Conns |-> receiver[d].isfinalReceivedPrintedOut]>>
  BY <1>3, <1>5
<1> QED
  BY <1>8, <1>9 DEF Credit!Grant

LEMMA CreditArrive ==
    ASSUME TransferInv, NEW c \in Conns, NEW esi \in data[c], RcvSymbol(c, esi)
    PROVE  Credit!Arrive(c)
<1> DEFINE r == receiver[c]
           s == ArriveSymbol(Established(r, c), esi)
<1>1. receiver \in [Conns -> Receiver]
  BY DEF TransferInv, PullInv, TypeOK
<1>2. /\ receiver' = [receiver EXCEPT ![c] = s]
      /\ s \in Receiver /\ Sent(s) = Sent(r)
      /\ s.numberReceivedPackets = r.numberReceivedPackets + 1
  BY SymbolArrives
<1>3. receiver'[c] = s
  BY <1>1, <1>2
<1>4. /\ r.isfinalReceivedPrintedOut => s.isfinalReceivedPrintedOut
      /\ ~r.isfinalReceivedPrintedOut /\ s.isfinalReceivedPrintedOut =>
            DecodableReport(s, c)
  BY <1>3, SymbolVerdict
<1>5. UNCHANGED sender
  BY DEF RcvSymbol
<1> HIDE DEF s
<1>6. \A d \in Conns \ {c} : receiver'[d] = receiver[d]
  BY <1>1, <1>2
<1>7. UNCHANGED <<[d \in Conns |-> PushedWindow(d) + PullsSent(d)],
                  [d \in Conns |-> sender[d].esi]>>
  BY <1>2, <1>3, <1>5, <1>6 DEF PullsSent, Sent, PushedWindow
<1>8. r.numberReceivedPackets < sender[c].esi
  <2>1. Cardinality(data[c] \ {esi}) = Cardinality(data[c]) - 1
    BY SymbolMoves
  <2>2. Cardinality(data[c] \ {esi}) \in Nat
    <3>1. Flying(sender[c], data[c] \ {esi}, headers[c], c)
      BY SymbolMoves
    <3> QED
      BY <3>1, TransferFacts, FlyingFinite
  <2>3. sender[c].esi = r.numberReceivedPackets + r.numRcvTrimmedHeader
            + Cardinality(data[c]) + Cardinality(headers[c]) + discarded[c]
    BY TransferFacts DEF Conserved
  <2> DEFINE symbols == Cardinality(data[c])
             trimmed == Cardinality(headers[c])
             k == discarded[c]
             n == r.numberReceivedPackets
             t == r.numRcvTrimmedHeader
  <2>4. /\ symbols \in Nat /\ trimmed \in Nat /\ k \in Nat /\ n \in Nat /\ t \in Nat
        /\ symbols >= 1
    BY <2>1, <2>2, TransferNumbers
  <2> HIDE DEF symbols, trimmed, k, n, t
  <2>5. sender[c].esi = n + t + symbols + trimmed + k
    BY <2>3 DEF symbols, trimmed, k, n, t
  <2>6. n < sender[c].esi
    BY <2>4, <2>5
  <2> QED
    BY <2>6 DEF n
<1>9. [d \in Conns |-> receiver[d].numberReceivedPackets]' =
          [[d \in Conns |-> receiver[d].numberReceivedPackets]
              EXCEPT ![c] = @ + 1]
  <2> DEFINE arrived == [d \in Conns |-> receiver[d].numberReceivedPackets]
  <2>1. \A d \in Conns : receiver'[d].numberReceivedPackets =
            IF d = c THEN arrived[c] + 1 ELSE arrived[d]
    BY <1>2, <1>3, <1>6
  <2> QED
    BY <2>1
<1>10. CASE r.isfinalReceivedPrintedOut = s.isfinalReceivedPrintedOut
  <2>1. UNCHANGED [d \in Conns |-> receiver[d].isfinalReceivedPrintedOut]
    BY <1>3, <1>6, <1>10
  <2> QED
    BY <1>7, <1>8, <1>9, <2>1 DEF Credit!Arrive
<1>11. CASE r.isfinalReceivedPrintedOut # s.isfinalReceivedPrintedOut
  <2>1. ~r.isfinalReceivedPrintedOut /\ s.isfinalReceivedPrintedOut = TRUE
    BY <1>1, <1>2, <1>4, <1>11, ReceiverFields
  <2>2. [d \in Conns |-> receiver[d].isfinalReceivedPrintedOut]' =
            [[d \in Conns |-> receiver[d].isfinalReceivedPrintedOut]
                EXCEPT ![c] = TRUE]
    BY <1>3, <1>6, <2>1
  <2>3. s.numberReceivedPackets >= NumSymbols[c]
    <3>1. DecodableReport(s, c)
      BY <1>4, <2>1
    <3>2. s.numberReceivedPackets \in Nat /\ NumSymbols[c] \in Nat
      BY <1>2, ReceiverFields, SizeType
    <3> QED
      BY <3>1, <3>2 DEF DecodableReport
  <2> QED
    BY <1>3, <1>7, <1>8, <1>9, <2>1, <2>2, <2>3 DEF Credit!Arrive
<1> QED
  BY <1>10, <1>11

LEMMA CreditStutter ==
    ASSUME \A c \in Conns : SameReport(c) /\ SameSent(c),
           \A c \in Conns : sender'[c].esi = sender[c].esi
    PROVE  UNCHANGED Credit!vars
BY DEF SameReport, SameSent, Credit!vars, PushedWindow

LEMMA SendInitialWindowCredit ==
    ASSUME TransferInv, NEW c \in Conns, SendInitialWindow(c)
    PROVE  Credit!Next
<1>1. sender \in [Conns -> Sender]
  BY DEF TransferInv, PullInv, TypeOK
<1>2. /\ sender'[c].esi = PushedWindow(c)
      /\ \A d \in Conns \ {c} : sender'[d].esi = sender[d].esi
      /\ UNCHANGED receiver /\ ~sender[c].opened
  BY <1>1 DEF SendInitialWindow, OpenSender, Sender
<1>3. sender[c].esi = 0
  BY <1>2, TransferFacts DEF Conserved
<1>4. 0 <= PullsSent(c) /\ PullsSent(c) \in Int
  BY TransferFacts, TransferNumbers
<1>5. PushedWindow(c) \in (sender[c].esi + 1) .. (PushedWindow(c) + PullsSent(c))
  BY <1>3, <1>4, SizeType
<1> QED
  BY <1>2, <1>5, CreditSend DEF Credit!Next

(* A pull that a later one has overtaken is answered by nothing.           *)
LEMMA RcvPullCredit ==
    ASSUME TransferInv, NEW c \in Conns, NEW pull \in pulls[c], RcvPull(c, pull)
    PROVE  [Credit!Next]_(Credit!vars)
<1> DEFINE new == RequestsGap(c, pull)
           n == sender[c].esi + new
<1>1. sender \in [Conns -> Sender]
  BY DEF TransferInv, PullInv, TypeOK
<1>2. /\ sender'[c].esi = n
      /\ \A d \in Conns \ {c} : sender'[d].esi = sender[d].esi
      /\ UNCHANGED receiver
  BY <1>1 DEF RcvPull, AnswerPull, Sender
<1>3. /\ sender[c].esi \in Nat /\ sender[c].request_id \in Nat
      /\ pull.seq \in Nat /\ PushedWindow(c) \in Nat
      /\ PullsSent(c) \in Int /\ PullsSent(c) = Sent(receiver[c])
  BY SizeType, TransferFacts, TransferNumbers DEF Pull
<1>4. pull.seq <= PullsSent(c)
  BY <1>3, TransferFacts
<1>5. sender[c].esi <= PushedWindow(c) + sender[c].request_id
  BY TransferFacts
<1>6. CASE pull.seq > sender[c].request_id
  <2>1. new = pull.seq - sender[c].request_id
    BY <1>6 DEF RequestsGap
  <2>2. n \in (sender[c].esi + 1) .. (PushedWindow(c) + PullsSent(c))
    BY <1>3, <1>4, <1>5, <1>6, <2>1
  <2> QED
    BY <1>2, <2>2, CreditSend DEF Credit!Next
<1>7. CASE ~(pull.seq > sender[c].request_id)
  <2>1. new = 0
    BY <1>7 DEF RequestsGap
  <2>2. \A d \in Conns : sender'[d].esi = sender[d].esi
    BY <1>2, <1>3, <2>1
  <2>3. \A d \in Conns : SameReport(d) /\ SameSent(d)
    BY <1>2 DEF SameReport, SameSent, PullsSent
  <2> QED
    BY <2>2, <2>3, CreditStutter
<1> QED
  BY <1>6, <1>7

LEMMA RcvHeaderCredit ==
    ASSUME TransferInv, NEW c \in Conns, NEW esi \in headers[c], RcvHeader(c, esi)
    PROVE  UNCHANGED Credit!vars
<1> DEFINE s == ArriveHeader(Established(receiver[c], c))
<1>1. receiver \in [Conns -> Receiver]
  BY DEF TransferInv, PullInv, TypeOK
<1>2. /\ receiver' = [receiver EXCEPT ![c] = s]
      /\ Sent(s) = Sent(receiver[c])
      /\ s.numberReceivedPackets = receiver[c].numberReceivedPackets
      /\ s.isfinalReceivedPrintedOut = receiver[c].isfinalReceivedPrintedOut
  BY HeaderArrives DEF SameVerdict
<1> HIDE DEF s
<1>3. \A d \in Conns : SameReport(d) /\ SameSent(d)
  BY <1>1, <1>2 DEF SameReport, SameSent, PullsSent, Sent
<1>4. UNCHANGED sender
  BY DEF RcvHeader
<1> QED
  BY <1>3, <1>4, CreditStutter

LEMMA TimerExpiresCredit ==
    ASSUME TransferInv, TimerExpires
    PROVE  [Credit!Next]_(Credit!vars)
<1>1. UNCHANGED sender
  BY DEF TimerExpires
<1>2. CASE UNCHANGED receiver
  <2>1. \A d \in Conns : SameReport(d) /\ SameSent(d)
    BY <1>2 DEF SameReport, SameSent, PullsSent
  <2> QED
    BY <1>1, <2>1, CreditStutter
<1>3. ASSUME NEW i \in DOMAIN pacer.requestCONNMap,
             IsNextInTurn(i), SendPull(pacer.requestCONNMap[i])
      PROVE  Credit!Next
  <2>1. pacer.requestCONNMap[i] \in Conns
    BY DEF TransferInv, PullInv, TypeOK, Pacer
  <2>2. receiver[pacer.requestCONNMap[i]].pullQueue # <<>>
    BY <1>3 DEF IsNextInTurn
  <2> QED
    BY <1>1, <1>3, <2>1, <2>2, CreditGrant DEF Credit!Next
<1> QED
  BY <1>2, <1>3 DEF TimerExpires, PaceRequests

LEMMA NextCredit ==
    ASSUME TransferInv, [Next]_vars
    PROVE  [Credit!Next]_(Credit!vars)
<1>1. CASE UNCHANGED <<sender, receiver>>
  BY <1>1, CreditStutter DEF SameReport, SameSent, PullsSent
<1>2. CASE \E c \in Conns : \E esi \in data[c] : RcvSymbol(c, esi)
  BY <1>2, CreditArrive DEF Credit!Next
<1>3. CASE \E c \in Conns : Network(c)
  BY <1>1, <1>3 DEF Network, TrimSymbol, DiscardSymbol
<1>4. CASE UNCHANGED vars
  BY <1>1, <1>4 DEF vars
<1> QED
  BY <1>2, <1>3, <1>4, SendInitialWindowCredit, RcvPullCredit, RcvHeaderCredit,
     TimerExpiresCredit DEF Next

(* The transport implements PullCredit, for every number of transfers and  *)
(* every size: credit covers each symbol sent, a symbol arrives at most    *)
(* once, and its arrival alone can complete a transfer.                    *)
THEOREM PullCreditImplemented == Spec => ImplementsPullCredit
<1>1. TransferInv /\ [Next]_vars => [Credit!Next]_(Credit!vars)
  BY NextCredit
<1> QED
  BY <1>1, InitCredit, TransferInvHolds, PTL
     DEF Spec, ImplementsPullCredit, Credit!Spec

=============================================================================
