--------------------------- MODULE RaqsacPathProofs ---------------------------
(***************************************************************************)
(* Proof that hosts joined by the queue of a switch port implement the     *)
(* transport over the network RaqsacTransport assumes: for any number of   *)
(* connections, any priorities and any memory of the port.  It needs that  *)
(* every symbol is in one place at most: upstream, or once in one of the   *)
(* port's queues, which its kind, its priority and its trimming determine. *)
(* What RaqsacTransportProofs proves of the transport then holds over the  *)
(* port, and from it follows that the port trims and loses only what the   *)
(* receivers' books, taken together, show as more than its memory.         *)
(***************************************************************************)
EXTENDS RaqsacPath, FiniteSetTheorems, TLAPS

(* The fields of a receiver that decide what its sender may send.          *)
Requests(r) ==
    /\ {"request_id", "pullQueue"} \subseteq DOMAIN r
    /\ r.request_id \in Nat /\ r.pullQueue \in Seq(Hosts!Pull)

HostsTyped ==
    /\ sender \in [Conns -> Hosts!Sender]
    /\ receiver = [c \in Conns |-> receiver[c]]
    /\ \A c \in Conns : Requests(receiver[c])
    /\ pulls \in [Conns -> SUBSET Hosts!Pull]

PortTyped ==
    /\ synAckQueue \in Seq(Symbol) /\ headersQueue \in Seq(Symbol)
    /\ dataQueue \in [Port!Levels -> Seq(Symbol)]
    /\ trimmed \subseteq Symbol /\ pending \subseteq Symbol
    /\ upstream \in [Conns -> SUBSET (1 .. MaxESI)]

(* Before its client connects nothing was sent to or asked of a sender.    *)
NothingBefore ==
    \A c \in Conns : ~sender[c].opened =>
        sender[c].esi = 0 /\ pulls[c] = {} /\ receiver[c].pullQueue = <<>>

(* A symbol was sent once, and is upstream or was pushed.                  *)
SentOnce ==
    /\ \A c \in Conns :
        /\ sender[c].esi <= MaxESI
        /\ \A esi \in upstream[c] : esi <= sender[c].esi /\ <<c, esi>> \notin pending
    /\ \A s \in pending : s[2] <= sender[s[1]].esi
    /\ Port!Waiting \subseteq pending

Once(queue) == \A i, j \in DOMAIN queue : queue[i] = queue[j] => i = j

(* Where a symbol waits.                                                   *)
Placed ==
    /\ Once(synAckQueue) /\ Once(headersQueue)
    /\ \A level \in Port!Levels : Once(dataQueue[level])
    /\ \A s \in Port!Members(synAckQueue) : SymbolKind[s] = "syn"
    /\ Port!Members(headersQueue) = trimmed
    /\ \A s \in trimmed : SymbolKind[s] = "data"
    /\ \A level \in Port!Levels : \A s \in Port!Members(dataQueue[level]) :
        SymbolKind[s] = "data" /\ s \notin trimmed /\ SymbolPriority[s] = level

PathInv == HostsTyped /\ PortTyped /\ NothingBefore /\ SentOnce /\ Placed

-----------------------------------------------------------------------------
(* What the handlers of a receiver do to its requests.                     *)

LEMMA AddRequestKeeps ==
    ASSUME NEW r, Requests(r) PROVE Requests(Hosts!AddRequestToPullsQueue(r))
<1> DEFINE pull == [seq |-> r.request_id + 1, fin |-> Hosts!IsFin(r)]
<1>1. Hosts!IsFin(r) \in BOOLEAN
  BY DEF Hosts!IsFin
<1>2. pull \in Hosts!Pull
  BY <1>1 DEF Requests, Hosts!Pull
<1> HIDE DEF pull
<1>3. Append(r.pullQueue, pull) \in Seq(Hosts!Pull)
  BY <1>2 DEF Requests
<1> QED
  BY <1>3 DEF Requests, Hosts!AddRequestToPullsQueue, pull

LEMMA EstablishedKeeps ==
    ASSUME NEW r, NEW c, Requests(r) PROVE Requests(Hosts!Established(r, c))
BY DEF Requests, Hosts!Established, Hosts!ProcessSegmentInListen

LEMMA GrowWindowKeeps ==
    ASSUME NEW r, Requests(r) PROVE Requests(Hosts!GrowWindow(r))
<1> DEFINE opened == Hosts!OpenWindow(r)
           round == [opened EXCEPT !.receivedPacketsInWindow = 0]
<1>1. Requests(opened) /\ Requests(round)
  BY DEF Requests, Hosts!OpenWindow
<1>2. Requests([r EXCEPT !.sendPulls = FALSE])
  BY DEF Requests
<1> HIDE DEF opened, round
<1>3. Hosts!GrowWindow(r) \in
        {r, [r EXCEPT !.sendPulls = FALSE], Hosts!AddRequestToPullsQueue(opened),
         Hosts!AddRequestToPullsQueue(round)}
  BY DEF Hosts!GrowWindow, opened, round
<1> QED
  BY <1>1, <1>2, <1>3, AddRequestKeeps

LEMMA ArriveSymbolKeeps ==
    ASSUME NEW r, NEW esi, Requests(r) PROVE Requests(Hosts!ArriveSymbol(r, esi))
<1> DEFINE counted == Hosts!CountSymbol(r)
           grown == Hosts!GrowWindow(counted)
           replaced == Hosts!ReplaceSymbol(grown, esi)
           registered == Hosts!Register(replaced, 1)
<1>1. Requests(counted)
  BY DEF Requests, Hosts!CountSymbol
<1>2. Requests(grown)
  BY <1>1, GrowWindowKeeps
<1>3. \A x : Requests([grown EXCEPT !.esi = x])
  BY <1>2 DEF Requests
<1>4. Requests(replaced)
  <2> HIDE DEF grown
  <2> DEFINE up == [grown EXCEPT !.esi = esi]
             down == [grown EXCEPT !.esi = grown.esi - 1]
  <2>1. Requests(up) /\ Requests(down)
    BY <1>3
  <2>2. replaced \in {grown, Hosts!AddRequestToPullsQueue(grown),
                      Hosts!AddRequestToPullsQueue(up), Hosts!AddRequestToPullsQueue(down)}
    <3>1. CASE esi > grown.esi
      BY <3>1 DEF Hosts!ReplaceSymbol
    <3>2. CASE esi < grown.esi
      BY <3>2 DEF Hosts!ReplaceSymbol
    <3>3. CASE ~(esi > grown.esi) /\ ~(esi < grown.esi)
      BY <3>3 DEF Hosts!ReplaceSymbol
    <3> QED
      BY <3>1, <3>2, <3>3
  <2> HIDE DEF up, down
  <2> QED
    BY <1>2, <2>1, <2>2, AddRequestKeeps
<1>5. Requests(registered)
  BY <1>4 DEF Requests, Hosts!Register
<1>6. Requests(Hosts!Decode(registered))
  <2> HIDE DEF registered
  <2>1. Requests(Hosts!AddRequestToPullsQueue(registered))
    BY <1>5, AddRequestKeeps
  <2> QED
    BY <1>5, <2>1 DEF Requests, Hosts!Decode
<1>7. Requests([grown EXCEPT !.connFinished = TRUE])
  BY <1>2 DEF Requests
<1> QED
  BY <1>6, <1>7 DEF Hosts!ArriveSymbol

LEMMA ArriveHeaderKeeps ==
    ASSUME NEW r, Requests(r) PROVE Requests(Hosts!ArriveHeader(r))
<1> DEFINE halved == Hosts!HalveWindow(r)
<1>1. Requests(halved)
  BY DEF Requests, Hosts!HalveWindow, Hosts!CountHeader
<1>2. \A s : Requests(s) => Requests(Hosts!Register(s, 0))
  BY DEF Requests, Hosts!Register
<1>3. Requests(Hosts!AddRequestToPullsQueue(halved))
  BY <1>1, AddRequestKeeps
<1> QED
  BY <1>1, <1>2, <1>3 DEF Hosts!ArriveHeader

-----------------------------------------------------------------------------
(* What a push and a pop do to the symbols of the port.                    *)

LEMMA Appended ==
    ASSUME NEW queue \in Seq(Symbol), NEW p \in Symbol, p \notin Port!Members(queue),
           Once(queue)
    PROVE  LET longer == Append(queue, p)
           IN  /\ longer \in Seq(Symbol) /\ Once(longer)
               /\ Port!Members(longer) = Port!Members(queue) \cup {p}
<1> DEFINE longer == Append(queue, p)
<1>1. /\ longer \in Seq(Symbol) /\ DOMAIN queue = 1 .. Len(queue) /\ Len(queue) \in Nat
      /\ DOMAIN longer = 1 .. Len(queue) + 1 /\ longer[Len(queue) + 1] = p
      /\ \A i \in 1 .. Len(queue) : longer[i] = queue[i]
  OBVIOUS
<1> HIDE DEF longer
<1>2. \A i \in 1 .. Len(queue) : queue[i] # p
  BY <1>1 DEF Port!Members
<1>3. Once(longer)
  BY <1>1, <1>2 DEF Once
<1>4. Port!Members(longer) = Port!Members(queue) \cup {p}
  <2>1. \A i \in DOMAIN longer : longer[i] \in Port!Members(queue) \cup {p}
    BY <1>1 DEF Port!Members
  <2>2. \A i \in DOMAIN queue : queue[i] \in Port!Members(longer)
    BY <1>1 DEF Port!Members
  <2>3. p \in Port!Members(longer)
    BY <1>1 DEF Port!Members
  <2> QED
    BY <2>1, <2>2, <2>3 DEF Port!Members
<1> QED
  BY <1>1, <1>3, <1>4 DEF longer

LEMMA Behead ==
    ASSUME NEW queue \in Seq(Symbol), queue # <<>>, Once(queue)
    PROVE  /\ Tail(queue) \in Seq(Symbol) /\ Once(Tail(queue))
           /\ Head(queue) \in Port!Members(queue)
           /\ Port!Members(Tail(queue)) = Port!Members(queue) \ {Head(queue)}
<1> DEFINE rest == Tail(queue)
           head == Head(queue)
<1>1. /\ rest \in Seq(Symbol) /\ DOMAIN queue = 1 .. Len(queue) /\ Len(queue) \in Nat \ {0}
      /\ DOMAIN rest = 1 .. Len(queue) - 1 /\ head = queue[1]
      /\ \A i \in 1 .. Len(queue) - 1 : rest[i] = queue[i + 1]
  OBVIOUS
<1> HIDE DEF rest, head
<1>2. Once(rest)
  <2>1. ASSUME NEW i \in DOMAIN rest, NEW j \in DOMAIN rest, rest[i] = rest[j] PROVE i = j
    <3>1. i + 1 \in DOMAIN queue /\ j + 1 \in DOMAIN queue /\ queue[i + 1] = queue[j + 1]
      BY <1>1, <2>1
    <3> QED
      BY <1>1, <3>1 DEF Once
  <2> QED
    BY <2>1 DEF Once
<1>3. Port!Members(rest) = Port!Members(queue) \ {head}
  <2>1. ASSUME NEW i \in DOMAIN rest PROVE rest[i] \in Port!Members(queue) \ {head}
    <3>1. i + 1 \in DOMAIN queue /\ 1 \in DOMAIN queue /\ i + 1 # 1 /\ rest[i] = queue[i + 1]
      BY <1>1
    <3> QED
      BY <1>1, <3>1 DEF Port!Members, Once
  <2>2. ASSUME NEW i \in DOMAIN queue, queue[i] # head PROVE queue[i] \in Port!Members(rest)
    <3>1. i - 1 \in DOMAIN rest /\ rest[i - 1] = queue[i]
      BY <1>1, <2>2
    <3> QED
      BY <3>1 DEF Port!Members
  <2> QED
    BY <2>1, <2>2 DEF Port!Members
<1>4. head \in Port!Members(queue)
  BY <1>1 DEF Port!Members
<1> QED
  BY <1>1, <1>2, <1>3, <1>4 DEF rest, head

LEMMA WaitingIs ==
    \A s : s \in Port!Waiting <=>
              \/ s \in Port!Members(synAckQueue) \/ s \in Port!Members(headersQueue)
              \/ \E level \in Port!Levels : s \in Port!Members(dataQueue[level])
BY DEF Port!Waiting

LEMMA SymbolFacts ==
    ASSUME NEW c \in Conns, NEW esi \in 1 .. MaxESI, NEW p, p = <<c, esi>>
    PROVE  /\ p \in Symbol /\ p[1] = c /\ p[2] = esi
           /\ SymbolKind[p] \in {"syn", "data"} /\ SymbolPriority[p] = Priority[c]
           /\ SymbolPriority[p] \in Port!Levels
           /\ SymbolKind[p] = "data" => ~Hosts!IsSyn(c, esi)
<1>1. p \in Symbol /\ p[1] = c /\ p[2] = esi
  BY DEF Symbol
<1>2. SymbolPriority[p] = Priority[c] /\ Priority[c] \in 0 .. 4
  BY <1>1, PriorityAssumption DEF SymbolPriority
<1>3. SymbolKind[p] = IF esi <= InitialWindow /\ esi <= NumSymbols[c] THEN "syn" ELSE "data"
  BY <1>1 DEF SymbolKind
<1>4. esi \in Nat /\ InitialWindow \in Nat /\ NumSymbols[c] \in Nat
  BY BoundsAssumption, TransfersAssumption
<1>5. SymbolKind[p] = "data" => ~Hosts!IsSyn(c, esi)
  BY <1>3, <1>4 DEF Hosts!IsSyn, Hosts!PushedWindow
<1> QED
  BY <1>1, <1>2, <1>3, <1>5 DEF Port!Levels

(* A symbol pushed waits as itself or as its header, or is lost.           *)
LEMMA Pushed ==
    ASSUME PathInv, NEW c \in Conns, NEW esi \in upstream[c], Push(c, esi),
           NEW p, p = <<c, esi>>
    PROVE  /\ p \in Symbol /\ p[1] = c /\ p[2] = esi /\ p \notin pending
           /\ p \notin Port!Waiting /\ pending' = pending \cup {p}
           /\ PortTyped' /\ Placed'
           /\ \/ Port!Waiting' = Port!Waiting \cup {p} /\ trimmed' = trimmed
              \/ /\ Port!Waiting' = Port!Waiting \cup {p} /\ trimmed' = trimmed \cup {p}
                 /\ Port!IsFull /\ SymbolKind[p] = "data" /\ Priority[c] # 1
              \/ /\ Port!Waiting' = Port!Waiting /\ trimmed' = trimmed
                 /\ Port!IsFull /\ SymbolKind[p] = "data" /\ Priority[c] = 1
<1>1. esi \in 1 .. MaxESI
  BY DEF PathInv, PortTyped
<1>2. /\ p \in Symbol /\ p[1] = c /\ p[2] = esi
      /\ SymbolKind[p] \in {"syn", "data"} /\ SymbolPriority[p] = Priority[c]
      /\ SymbolPriority[p] \in Port!Levels
  BY <1>1, SymbolFacts
<1>3. /\ p \notin pending /\ p \notin Port!Waiting
      /\ Port!PushPacket(p) /\ pending' = pending \cup {p}
      /\ upstream' = [upstream EXCEPT ![c] = @ \ {esi}]
  BY DEF PathInv, SentOnce, Push, Port!PushPacket
<1>4. /\ p \notin Port!Members(synAckQueue) /\ p \notin Port!Members(headersQueue)
      /\ \A level \in Port!Levels : p \notin Port!Members(dataQueue[level])
  BY <1>3, WaitingIs
<1>5. /\ synAckQueue \in Seq(Symbol) /\ headersQueue \in Seq(Symbol)
      /\ dataQueue \in [Port!Levels -> Seq(Symbol)]
      /\ trimmed \subseteq Symbol /\ pending \subseteq Symbol
      /\ upstream \in [Conns -> SUBSET (1 .. MaxESI)]
  BY DEF PathInv, PortTyped
<1>6. Placed /\ p \notin trimmed
  BY <1>4 DEF PathInv, Placed
<1>7. upstream' \in [Conns -> SUBSET (1 .. MaxESI)] /\ pending' \subseteq Symbol
  BY <1>2, <1>3, <1>5
<1>8. CASE SymbolKind[p] = "syn" /\ Port!InsertSyn(p)
  <2>1. /\ synAckQueue' = Append(synAckQueue, p)
        /\ UNCHANGED <<headersQueue, dataQueue, trimmed>>
    BY <1>8 DEF Port!InsertSyn
  <2>2. /\ synAckQueue' \in Seq(Symbol) /\ Once(synAckQueue')
        /\ Port!Members(synAckQueue') = Port!Members(synAckQueue) \cup {p}
    BY <1>2, <1>4, <1>5, <1>6, <2>1, Appended DEF Placed
  <2>3. PortTyped' /\ Placed'
    BY <1>5, <1>6, <1>7, <1>8, <2>1, <2>2 DEF PortTyped, Placed
  <2>4. Port!Waiting' = Port!Waiting \cup {p}
    BY <2>1, <2>2 DEF Port!Waiting
  <2> QED
    BY <1>2, <1>3, <2>1, <2>3, <2>4
<1>9. CASE SymbolKind[p] = "data" /\ Port!InsertData(p)
  <2> DEFINE level == SymbolPriority[p]
             queue == dataQueue[level]
  <2>1. /\ dataQueue' = [dataQueue EXCEPT ![level] = Append(queue, p)]
        /\ UNCHANGED <<synAckQueue, headersQueue, trimmed>>
    BY <1>9 DEF Port!InsertData
  <2>2. /\ Append(queue, p) \in Seq(Symbol) /\ Once(Append(queue, p))
        /\ Port!Members(Append(queue, p)) = Port!Members(queue) \cup {p}
    <3>1. queue \in Seq(Symbol) /\ p \notin Port!Members(queue) /\ Once(queue)
      BY <1>2, <1>4, <1>5, <1>6 DEF Placed
    <3> QED
      BY ONLY <1>2, <3>1, Appended
  <2> DEFINE longer == Append(queue, p)
  <2> HIDE DEF longer
  <2>3. /\ dataQueue' \in [Port!Levels -> Seq(Symbol)]
        /\ dataQueue'[level] = longer
        /\ \A l \in Port!Levels \ {level} : dataQueue'[l] = dataQueue[l]
    BY <1>2, <1>5, <2>1, <2>2 DEF longer
  <2> HIDE DEF level
  <2>4. /\ Once(longer) /\ Port!Members(longer) = Port!Members(dataQueue[level]) \cup {p}
        /\ level \in Port!Levels /\ level = SymbolPriority[p]
    BY <1>2, <2>2 DEF longer, level
  <2>5. \A l \in Port!Levels : \A s \in Port!Members(dataQueue'[l]) :
            s \in Port!Members(dataQueue[l]) \/ (s = p /\ l = level)
    BY <2>3, <2>4
  <2>6. PortTyped' /\ Placed'
    <3>1. PortTyped'
      BY <1>5, <1>7, <2>1, <2>3 DEF PortTyped
    <3>2. \A l \in Port!Levels : Once(dataQueue'[l])
      BY <1>6, <2>3, <2>4 DEF Placed
    <3>3. \A l \in Port!Levels : \A s \in Port!Members(dataQueue'[l]) :
              SymbolKind[s] = "data" /\ s \notin trimmed /\ SymbolPriority[s] = l
      BY <1>6, <1>9, <2>4, <2>5 DEF Placed
    <3> QED
      BY <1>6, <2>1, <3>1, <3>2, <3>3 DEF Placed
  <2>7. Port!Waiting' = Port!Waiting \cup {p}
    <3>1. \A s : s \in Port!Waiting' <=>
              \/ s \in Port!Members(synAckQueue) \/ s \in Port!Members(headersQueue)
              \/ \E l \in Port!Levels : s \in Port!Members(dataQueue'[l])
      BY <2>1 DEF Port!Waiting
    <3>2. \A s : (\E l \in Port!Levels : s \in Port!Members(dataQueue'[l])) <=>
              (s = p \/ \E l \in Port!Levels : s \in Port!Members(dataQueue[l]))
      BY <2>3, <2>4, <2>5
    <3> QED
      BY <3>1, <3>2, WaitingIs
  <2> QED
    BY <1>2, <1>3, <2>1, <2>6, <2>7
<1>10. CASE SymbolKind[p] = "data" /\ SymbolPriority[p] # 1 /\ Port!IsFull /\ Port!TrimPacket(p)
  <2>1. /\ headersQueue' = Append(headersQueue, p) /\ trimmed' = trimmed \cup {p}
        /\ UNCHANGED <<synAckQueue, dataQueue>>
    BY <1>10 DEF Port!TrimPacket
  <2>2. /\ headersQueue' \in Seq(Symbol) /\ Once(headersQueue')
        /\ Port!Members(headersQueue') = Port!Members(headersQueue) \cup {p}
    BY <1>2, <1>4, <1>5, <1>6, <2>1, Appended DEF Placed
  <2>3. PortTyped'
    BY <1>2, <1>5, <1>7, <2>1, <2>2 DEF PortTyped
  <2>4. Placed'
    <3>1. Once(synAckQueue') /\ \A level \in Port!Levels : Once(dataQueue'[level])
      BY <1>6, <2>1 DEF Placed
    <3>2. \A s \in Port!Members(synAckQueue') : SymbolKind[s] = "syn"
      BY <1>6, <2>1 DEF Placed
    <3>3. /\ Port!Members(headersQueue') = trimmed'
          /\ \A s \in trimmed' : SymbolKind[s] = "data"
      BY <1>6, <1>10, <2>1, <2>2 DEF Placed
    <3>4. ASSUME NEW level \in Port!Levels, NEW s \in Port!Members(dataQueue'[level])
          PROVE  SymbolKind[s] = "data" /\ s \notin trimmed' /\ SymbolPriority[s] = level
      <4>1. s \in Port!Members(dataQueue[level])
        BY <2>1, <3>4
      <4>2. SymbolKind[s] = "data" /\ s \notin trimmed /\ SymbolPriority[s] = level
        BY <1>6, <4>1 DEF Placed
      <4>3. s # p
        BY <1>4, <4>1
      <4> QED
        BY <2>1, <4>2, <4>3
    <3> QED
      BY <2>2, <3>1, <3>2, <3>3, <3>4 DEF Placed
  <2>5. Port!Waiting' = Port!Waiting \cup {p}
    BY <2>1, <2>2 DEF Port!Waiting
  <2> QED
    BY <1>2, <1>3, <1>10, <2>1, <2>3, <2>4, <2>5
<1>11. CASE SymbolKind[p] = "data" /\ SymbolPriority[p] = 1 /\ Port!IsFull /\ Port!Lose
  <2>1. UNCHANGED <<synAckQueue, headersQueue, dataQueue, trimmed>>
    BY <1>11 DEF Port!Lose
  <2>2. PortTyped' /\ Placed' /\ Port!Waiting' = Port!Waiting
    BY <1>5, <1>6, <1>7, <2>1 DEF PortTyped, Placed, Port!Waiting
  <2> QED
    BY <1>2, <1>3, <1>11, <2>1, <2>2
<1> QED
  <2>1. \/ SymbolKind[p] = "syn" /\ Port!InsertSyn(p)
        \/ SymbolKind[p] = "data" /\ Port!PushData(p)
    BY <1>2, <1>3 DEF Port!PushPacket
  <2>2. SymbolKind[p] = "data" /\ Port!PushData(p) =>
          \/ Port!InsertData(p)
          \/ SymbolPriority[p] # 1 /\ Port!IsFull /\ Port!TrimPacket(p)
          \/ SymbolPriority[p] = 1 /\ Port!IsFull /\ Port!Lose
    BY <1>2 DEF Port!PushData
  <2> QED
    BY <1>8, <1>9, <1>10, <1>11, <2>1, <2>2

(* The port pops a symbol that waits, and then waits nowhere any more.     *)
Leaves(p) ==
    /\ p \in Port!Waiting /\ Port!Waiting' = Port!Waiting \ {p}
    /\ pending' = pending \ {p} /\ trimmed' = trimmed \ {p}

LEMMA Popped ==
    ASSUME PathInv, Port!PopPacket, UNCHANGED upstream
    PROVE  PortTyped' /\ Placed' /\ \E p : Leaves(p)
<1>1. /\ synAckQueue \in Seq(Symbol) /\ headersQueue \in Seq(Symbol)
      /\ dataQueue \in [Port!Levels -> Seq(Symbol)]
      /\ trimmed \subseteq Symbol /\ pending \subseteq Symbol
      /\ upstream \in [Conns -> SUBSET (1 .. MaxESI)]
  BY DEF PathInv, PortTyped
<1>2. Placed
  BY DEF PathInv
<1>3. CASE Port!PopSyn
  <2> DEFINE p == Head(synAckQueue)
  <2>1. /\ synAckQueue # <<>> /\ synAckQueue' = Tail(synAckQueue) /\ pending' = pending \ {p}
        /\ UNCHANGED <<headersQueue, dataQueue, trimmed>>
    BY <1>3 DEF Port!PopSyn
  <2>2. /\ synAckQueue' \in Seq(Symbol) /\ Once(synAckQueue')
        /\ p \in Port!Members(synAckQueue)
        /\ Port!Members(synAckQueue') = Port!Members(synAckQueue) \ {p}
    BY <1>1, <1>2, <2>1, Behead DEF Placed
  <2> HIDE DEF p
  <2>3. PortTyped' /\ Placed'
    BY <1>1, <1>2, <2>1, <2>2 DEF PortTyped, Placed
  <2>4. /\ p \notin Port!Members(headersQueue) /\ p \notin trimmed
        /\ \A level \in Port!Levels : p \notin Port!Members(dataQueue[level])
    BY <1>2, <2>2 DEF Placed
  <2>5. Port!Waiting' = Port!Waiting \ {p} /\ p \in Port!Waiting
    BY <2>1, <2>2, <2>4 DEF Port!Waiting
  <2> QED
    BY <2>1, <2>3, <2>4, <2>5 DEF Leaves
<1>4. CASE Port!PopNextPacket /\ UNCHANGED <<synAckQueue, headersQueue, trimmed>>
  <2>1. PICK i \in DOMAIN Port!Order :
            /\ dataQueue[Port!Order[i]] # <<>>
            /\ dataQueue' = [dataQueue EXCEPT ![Port!Order[i]] = Tail(@)]
            /\ pending' = pending \ {Head(dataQueue[Port!Order[i]])}
    BY <1>4 DEF Port!PopNextPacket
  <2> DEFINE level == Port!Order[i]
             queue == dataQueue[level]
             rest == Tail(queue)
             p == Head(queue)
  <2>2. level \in Port!Levels
    BY DEF Port!Order, Port!Levels
  <2>3. /\ dataQueue' = [dataQueue EXCEPT ![level] = rest] /\ pending' = pending \ {p}
        /\ queue # <<>>
    BY <2>1
  <2>4. queue \in Seq(Symbol) /\ Once(queue)
    BY <1>1, <1>2, <2>2 DEF Placed
  <2> HIDE DEF level
  <2>5. /\ rest \in Seq(Symbol) /\ Once(rest) /\ p \in Port!Members(queue)
        /\ Port!Members(rest) = Port!Members(queue) \ {p}
    BY ONLY <2>3, <2>4, Behead
  <2> HIDE DEF p, rest
  <2>6. /\ dataQueue' \in [Port!Levels -> Seq(Symbol)]
        /\ dataQueue'[level] = rest
        /\ \A l \in Port!Levels \ {level} : dataQueue'[l] = dataQueue[l]
    BY <1>1, <2>2, <2>3, <2>5
  <2>7. \A l \in Port!Levels : \A s \in Port!Members(dataQueue'[l]) :
            s \in Port!Members(dataQueue[l])
    BY <2>5, <2>6
  <2>8. PortTyped' /\ Placed'
    <3>1. PortTyped'
      BY <1>1, <1>4, <2>3, <2>6 DEF PortTyped
    <3>2. \A l \in Port!Levels : Once(dataQueue'[l])
      BY <1>2, <2>5, <2>6 DEF Placed
    <3>3. \A l \in Port!Levels : \A s \in Port!Members(dataQueue'[l]) :
              SymbolKind[s] = "data" /\ s \notin trimmed /\ SymbolPriority[s] = l
      BY <1>2, <2>7 DEF Placed
    <3> QED
      BY <1>2, <1>4, <3>1, <3>2, <3>3 DEF Placed
  <2>9. /\ p \notin Port!Members(headersQueue) /\ p \notin trimmed
        /\ p \notin Port!Members(synAckQueue)
        /\ \A l \in Port!Levels \ {level} : p \notin Port!Members(dataQueue[l])
    BY <1>2, <2>2, <2>5 DEF Placed
  <2>10. Port!Waiting' = Port!Waiting \ {p} /\ p \in Port!Waiting
    <3>1. \A s : s \in Port!Waiting' <=>
              \/ s \in Port!Members(synAckQueue) \/ s \in Port!Members(headersQueue)
              \/ \E l \in Port!Levels : s \in Port!Members(dataQueue'[l])
      BY <1>4 DEF Port!Waiting
    <3>2. \A s : (\E l \in Port!Levels : s \in Port!Members(dataQueue'[l])) <=>
              (s # p /\ \E l \in Port!Levels : s \in Port!Members(dataQueue[l]))
      BY <2>2, <2>5, <2>6, <2>9
    <3>3. p \in Port!Waiting
      BY <2>2, <2>5, WaitingIs
    <3> QED
      BY <2>9, <3>1, <3>2, <3>3, WaitingIs
  <2> QED
    BY <1>4, <2>3, <2>8, <2>9, <2>10 DEF Leaves
<1>5. CASE Port!PopControl /\ headersQueue # <<>> /\ UNCHANGED <<synAckQueue, dataQueue>>
  <2> DEFINE p == Head(headersQueue)
  <2>1. /\ headersQueue' = Tail(headersQueue) /\ trimmed' = trimmed \ {p}
        /\ pending' = pending \ {p}
    BY <1>5 DEF Port!PopControl
  <2>2. /\ headersQueue' \in Seq(Symbol) /\ Once(headersQueue')
        /\ p \in Port!Members(headersQueue)
        /\ Port!Members(headersQueue') = Port!Members(headersQueue) \ {p}
    BY <1>1, <1>2, <1>5, <2>1, Behead DEF Placed
  <2> HIDE DEF p
  <2>3. PortTyped' /\ Placed'
    BY <1>1, <1>2, <1>5, <2>1, <2>2 DEF PortTyped, Placed
  <2>4. /\ p \notin Port!Members(synAckQueue)
        /\ \A level \in Port!Levels : p \notin Port!Members(dataQueue[level])
    BY <1>2, <2>2 DEF Placed
  <2>5. Port!Waiting' = Port!Waiting \ {p} /\ p \in Port!Waiting
    BY <1>5, <2>2, <2>4 DEF Port!Waiting
  <2> QED
    BY <2>1, <2>3, <2>5 DEF Leaves
<1> QED
  BY <1>3, <1>4, <1>5 DEF Port!PopPacket, Port!PopOnlyData, Port!PopOnlyControl,
     Port!PopDataInTurn, Port!PopControlInTurn

-----------------------------------------------------------------------------
(* The network of RaqsacTransport, as the port and the way to it make it up.*)

Data == [c \in Conns |-> upstream[c] \cup ESIs(Port!Waiting \ trimmed, c)]
Headers == [c \in Conns |-> ESIs(trimmed, c)]
Discarded == [c \in Conns |-> Cardinality(ESIs(Lost, c))]

LEMMA ESIsOf ==
    ASSUME NEW S, S \subseteq Symbol, NEW c \in Conns
    PROVE  /\ \A esi : esi \in ESIs(S, c) <=> <<c, esi>> \in S
           /\ ESIs(S, c) \subseteq 1 .. MaxESI
<1>1. ASSUME NEW e PROVE e \in ESIs(S, c) <=> \E s \in S : s[1] = c /\ s[2] = e
  BY DEF ESIs
<1>2. ASSUME NEW s \in S PROVE s = <<s[1], s[2]>> /\ s[2] \in 1 .. MaxESI
  BY DEF Symbol
<1>3. ASSUME NEW e PROVE <<c, e>>[1] = c /\ <<c, e>>[2] = e
  OBVIOUS
<1> QED
  BY <1>1, <1>2, <1>3

(* T holds the symbol <<c, esi>> besides those of S, or S besides T.        *)
Joins(S, T, c, esi) == S \cup T \subseteq Symbol /\ T = S \cup {<<c, esi>>}
Quits(S, T, c, esi) == S \cup T \subseteq Symbol /\ T = S \ {<<c, esi>>}

LEMMA ESIsJoin ==
    ASSUME NEW S, NEW T, NEW c \in Conns, NEW esi, Joins(S, T, c, esi), NEW d \in Conns
    PROVE  ESIs(T, d) = IF d = c THEN ESIs(S, d) \cup {esi} ELSE ESIs(S, d)
<1>1. ASSUME NEW e PROVE <<d, e>> = <<c, esi>> <=> d = c /\ e = esi
  OBVIOUS
<1>2. S \subseteq Symbol /\ T \subseteq Symbol /\ T = S \cup {<<c, esi>>}
  BY DEF Joins
<1>3. /\ \A e : e \in ESIs(S, d) <=> <<d, e>> \in S
      /\ \A e : e \in ESIs(T, d) <=> <<d, e>> \in T
  BY <1>2, ESIsOf
<1>4. \A e : e \in ESIs(T, d) <=> e \in ESIs(S, d) \/ (d = c /\ e = esi)
  BY <1>1, <1>2, <1>3
<1> QED
  BY <1>4

LEMMA ESIsQuit ==
    ASSUME NEW S, NEW T, NEW c \in Conns, NEW esi, Quits(S, T, c, esi), NEW d \in Conns
    PROVE  ESIs(T, d) = IF d = c THEN ESIs(S, d) \ {esi} ELSE ESIs(S, d)
<1>1. ASSUME NEW e PROVE <<d, e>> = <<c, esi>> <=> d = c /\ e = esi
  OBVIOUS
<1>2. S \subseteq Symbol /\ T \subseteq Symbol /\ T = S \ {<<c, esi>>}
  BY DEF Quits
<1>3. /\ \A e : e \in ESIs(S, d) <=> <<d, e>> \in S
      /\ \A e : e \in ESIs(T, d) <=> <<d, e>> \in T
  BY <1>2, ESIsOf
<1>4. \A e : e \in ESIs(T, d) <=> e \in ESIs(S, d) /\ ~(d = c /\ e = esi)
  BY <1>1, <1>2, <1>3
<1> QED
  BY <1>4

LEMMA NetworkSteps ==
    ASSUME NEW c, NEW esi
    PROVE  /\ Hosts!SendInitialWindow(c) <=>
                /\ Hosts!OpenSender(c)
                /\ Data' = [Data EXCEPT ![c] = 1 .. Hosts!PushedWindow(c)]
                /\ UNCHANGED <<receiver, pacer, Headers, pulls, Discarded, decoding>>
           /\ \A pull : Hosts!RcvPull(c, pull) <=>
                /\ Hosts!AnswerPull(c, pull)
                /\ Data' = [Data EXCEPT ![c] = @ \cup Hosts!Answers(c, pull)]
                /\ UNCHANGED <<receiver, pacer, Headers, Discarded, decoding>>
           /\ Hosts!RcvSymbol(c, esi) <=>
                /\ esi \in Data[c] /\ Data' = [Data EXCEPT ![c] = @ \ {esi}]
                /\ Hosts!ReceiveSymbol(c, esi)
                /\ UNCHANGED <<sender, Headers, pulls, Discarded, decoding>>
           /\ Hosts!RcvHeader(c, esi) <=>
                /\ esi \in Headers[c] /\ Headers' = [Headers EXCEPT ![c] = @ \ {esi}]
                /\ Hosts!ReceiveHeader(c, esi)
                /\ UNCHANGED <<sender, Data, pulls, Discarded, decoding>>
           /\ Hosts!TimerExpires <=>
                /\ pacer.timer = "scheduled" /\ Hosts!PaceRequests
                /\ UNCHANGED <<sender, Data, Headers, Discarded, decoding>>
BY DEF Hosts!SendInitialWindow, Hosts!RcvPull, Hosts!RcvSymbol, Hosts!RcvHeader,
       Hosts!TimerExpires, Data, Headers, Discarded

LEMMA SameCardinality == \A S : Hosts!Cardinality(S) = Cardinality(S)
BY DEF Hosts!Cardinality, Cardinality

LEMMA NetworkLoses ==
    ASSUME NEW c \in Conns, NEW esi
    PROVE  /\ Hosts!TrimSymbol(c, esi) <=>
                /\ esi \in Data[c] /\ ~Hosts!IsSyn(c, esi) /\ Priority[c] # 1
                /\ Cardinality(Headers[c]) + receiver[c].numRcvTrimmedHeader < MaxTrims
                /\ Data' = [Data EXCEPT ![c] = @ \ {esi}]
                /\ Headers' = [Headers EXCEPT ![c] = @ \cup {esi}]
                /\ UNCHANGED <<sender, receiver, pacer, pulls, Discarded, decoding>>
           /\ Hosts!DiscardSymbol(c, esi) <=>
                /\ esi \in Data[c] /\ ~Hosts!IsSyn(c, esi) /\ Priority[c] = 1
                /\ Discarded[c] < MaxESI
                /\ Data' = [Data EXCEPT ![c] = @ \ {esi}]
                /\ Discarded' = [Discarded EXCEPT ![c] = @ + 1]
                /\ UNCHANGED <<sender, receiver, pacer, Headers, pulls, decoding>>
<1>1. c \notin {d \in Conns : Priority[d] = 1} <=> Priority[c] # 1
  OBVIOUS
<1>2. Hosts!Cardinality(Headers[c]) = Cardinality(Headers[c])
  BY SameCardinality
<1> QED
  BY <1>1, <1>2 DEF Hosts!TrimSymbol, Hosts!DiscardSymbol, Data, Headers, Discarded

LEMMA PortSame ==
    ASSUME UNCHANGED queueVars
    PROVE  /\ Port!Waiting' = Port!Waiting /\ Lost' = Lost
           /\ trimmed' = trimmed /\ pending' = pending
           /\ UNCHANGED <<Headers, Discarded>>
           /\ PortTyped /\ upstream' \in [Conns -> SUBSET (1 .. MaxESI)] => PortTyped'
           /\ Placed => Placed'
BY DEF queueVars, Port!Waiting, Lost, Headers, Discarded, PortTyped, Placed

LEMMA DataIs ==
    ASSUME NEW c \in Conns
    PROVE  /\ Data[c] = upstream[c] \cup ESIs(Port!Waiting \ trimmed, c)
           /\ Headers[c] = ESIs(trimmed, c) /\ Discarded[c] = Cardinality(ESIs(Lost, c))
BY DEF Data, Headers, Discarded

-----------------------------------------------------------------------------
(* Every step of hosts and port is one of the transport.                   *)

LEMMA WindowFacts ==
    ASSUME NEW c \in Conns
    PROVE  Hosts!PushedWindow(c) \in Nat \ {0} /\ Hosts!PushedWindow(c) <= MaxESI
BY TransfersAssumption, BoundsAssumption DEF Hosts!PushedWindow

LEMMA NothingPushed ==
    ASSUME PathInv, NEW c \in Conns, ~sender[c].opened
    PROVE  upstream[c] = {} /\ \A s \in pending : s[1] # c
<1>1. sender[c].esi = 0 /\ upstream[c] \subseteq 1 .. MaxESI /\ pending \subseteq Symbol
  BY DEF PathInv, NothingBefore, PortTyped
<1>2. /\ \A esi \in upstream[c] : esi <= sender[c].esi
      /\ \A s \in pending : s[2] <= sender[s[1]].esi
  BY DEF PathInv, SentOnce
<1>3. \A s \in pending : s[2] \in 1 .. MaxESI
  BY <1>1 DEF Symbol
<1>4. ASSUME NEW n \in 1 .. MaxESI, n <= 0 PROVE FALSE
  BY <1>4, BoundsAssumption
<1> QED
  BY <1>1, <1>2, <1>3, <1>4

LEMMA OpenImplements ==
    ASSUME PathInv, NEW c \in Conns, SendInitialWindow(c)
    PROVE  Hosts!SendInitialWindow(c)
<1>1. /\ Hosts!OpenSender(c) /\ UNCHANGED queueVars
      /\ upstream' = [upstream EXCEPT ![c] = 1 .. Hosts!PushedWindow(c)]
      /\ UNCHANGED <<receiver, pacer, pulls, decoding>>
  BY DEF SendInitialWindow, queueVars
<1>2. /\ Port!Waiting' = Port!Waiting /\ trimmed' = trimmed
      /\ UNCHANGED <<Headers, Discarded>>
  BY <1>1, PortSame
<1>3. ESIs(Port!Waiting \ trimmed, c) = {}
  <2>1. \A s \in pending : s[1] # c
    BY <1>1, NothingPushed DEF Hosts!OpenSender
  <2>2. Port!Waiting \subseteq pending
    BY DEF PathInv, SentOnce
  <2> QED
    BY <2>1, <2>2 DEF ESIs
<1>4. Data' = [Data EXCEPT ![c] = 1 .. Hosts!PushedWindow(c)]
  <2>1. upstream \in [Conns -> SUBSET (1 .. MaxESI)]
    BY DEF PathInv, PortTyped
  <2>2. \A d \in Conns : upstream'[d] \cup ESIs(Port!Waiting' \ trimmed', d)
            = IF d = c THEN 1 .. Hosts!PushedWindow(c) ELSE Data[d]
    BY <1>1, <1>2, <1>3, <2>1, DataIs
  <2> QED
    BY <2>2 DEF Data
<1> QED
  BY <1>1, <1>2, <1>4, NetworkSteps

LEMMA PullImplements ==
    ASSUME PathInv, NEW c \in Conns, NEW pull, RcvPull(c, pull)
    PROVE  Hosts!RcvPull(c, pull)
<1>1. /\ Hosts!AnswerPull(c, pull) /\ UNCHANGED queueVars
      /\ upstream' = [upstream EXCEPT ![c] = @ \cup Hosts!Answers(c, pull)]
      /\ UNCHANGED <<receiver, pacer, decoding>>
  BY DEF RcvPull, queueVars
<1>2. /\ Port!Waiting' = Port!Waiting /\ trimmed' = trimmed
      /\ UNCHANGED <<Headers, Discarded>>
  BY <1>1, PortSame
<1>3. Data' = [Data EXCEPT ![c] = @ \cup Hosts!Answers(c, pull)]
  <2>1. upstream \in [Conns -> SUBSET (1 .. MaxESI)]
    BY DEF PathInv, PortTyped
  <2>2. \A d \in Conns : upstream'[d] \cup ESIs(Port!Waiting' \ trimmed', d)
            = IF d = c THEN Data[d] \cup Hosts!Answers(c, pull) ELSE Data[d]
    BY <1>1, <1>2, <2>1, DataIs
  <2> QED
    BY <2>2 DEF Data
<1> QED
  BY <1>1, <1>2, <1>3, NetworkSteps

LEMMA TimerImplements ==
    ASSUME TimerExpires PROVE Hosts!TimerExpires
<1>1. /\ pacer.timer = "scheduled" /\ Hosts!PaceRequests /\ UNCHANGED queueVars
      /\ UNCHANGED <<sender, decoding, upstream>>
  BY DEF TimerExpires, queueVars
<1>2. UNCHANGED <<Data, Headers, Discarded>>
  BY <1>1, PortSame DEF Data
<1> QED
  BY <1>1, <1>2, NetworkSteps

LEMMA PushImplements ==
    ASSUME PathInv, NEW c \in Conns, NEW esi \in upstream[c], Push(c, esi)
    PROVE  Hosts!TrimSymbol(c, esi) \/ Hosts!DiscardSymbol(c, esi) \/ UNCHANGED Hosts!vars
<1> DEFINE p == <<c, esi>>
<1>1. /\ p \in Symbol /\ p \notin pending /\ p \notin Port!Waiting
      /\ pending' = pending \cup {p}
      /\ PortTyped' /\ Placed'
      /\ \/ Port!Waiting' = Port!Waiting \cup {p} /\ trimmed' = trimmed
         \/ /\ Port!Waiting' = Port!Waiting \cup {p} /\ trimmed' = trimmed \cup {p}
            /\ Port!IsFull /\ SymbolKind[p] = "data" /\ Priority[c] # 1
         \/ /\ Port!Waiting' = Port!Waiting /\ trimmed' = trimmed
            /\ Port!IsFull /\ SymbolKind[p] = "data" /\ Priority[c] = 1
  BY Pushed
<1>2. /\ UNCHANGED hostVars /\ upstream' = [upstream EXCEPT ![c] = @ \ {esi}]
      /\ Port!IsFull /\ SymbolKind[p] = "data" => MayTrim(c)
  BY DEF Push
<1>3. /\ trimmed \subseteq Symbol /\ pending \subseteq Symbol /\ Port!Waiting \subseteq pending
      /\ upstream \in [Conns -> SUBSET (1 .. MaxESI)]
  BY DEF PathInv, PortTyped, SentOnce
<1>4. trimmed \subseteq Port!Waiting
  BY WaitingIs DEF PathInv, Placed
<1>5. /\ esi \in 1 .. MaxESI /\ p = <<c, esi>>
  BY <1>3
<1>6. SymbolKind[p] = "data" => ~Hosts!IsSyn(c, esi)
  BY <1>5, SymbolFacts
<1>7. esi \in Data[c]
  BY DataIs
<1> HIDE DEF p
<1>8. p \notin trimmed
  BY <1>1, <1>4
<1>9. ASSUME UNCHANGED Discarded, UNCHANGED Headers, UNCHANGED Data PROVE UNCHANGED Hosts!vars
  BY <1>2, <1>9 DEF Hosts!vars, hostVars, Data, Headers, Discarded
<1>10. esi \notin ESIs(Port!Waiting \ trimmed, c)
  <2>1. esi \in ESIs(Port!Waiting \ trimmed, c) <=> <<c, esi>> \in Port!Waiting \ trimmed
    BY <1>3, ESIsOf
  <2> QED
    BY <1>1, <1>5, <2>1
<1>11. \A d \in Conns : upstream'[d] = IF d = c THEN upstream[d] \ {esi} ELSE upstream[d]
  BY <1>2, <1>3
<1>12. CASE Port!Waiting' = Port!Waiting \cup {p} /\ trimmed' = trimmed
  <2>1. Lost' = Lost
    BY <1>1, <1>12 DEF Lost
  <2>2. Port!Waiting' \ trimmed' = (Port!Waiting \ trimmed) \cup {p}
    BY <1>8, <1>12
  <2>3. ASSUME NEW d \in Conns
        PROVE  ESIs(Port!Waiting' \ trimmed', d) =
            IF d = c THEN ESIs(Port!Waiting \ trimmed, d) \cup {esi}
                     ELSE ESIs(Port!Waiting \ trimmed, d)
    <3>1. Joins(Port!Waiting \ trimmed, Port!Waiting' \ trimmed', c, esi)
      BY <1>1, <1>3, <1>5, <2>2 DEF Joins
    <3> QED
      BY <3>1, ESIsJoin
  <2>4. \A d \in Conns : upstream'[d] \cup ESIs(Port!Waiting' \ trimmed', d) = Data[d]
    BY <1>11, <2>3, DataIs
  <2>5. Data' = Data
    BY <2>4 DEF Data
  <2> QED
    BY <1>9, <1>12, <2>1, <2>5 DEF Headers, Discarded
<1>13. ASSUME Port!Waiting' \ trimmed' = Port!Waiting \ trimmed
       PROVE  Data' = [Data EXCEPT ![c] = @ \ {esi}]
  <2>1. \A d \in Conns : upstream'[d] \cup ESIs(Port!Waiting' \ trimmed', d)
            = IF d = c THEN Data[d] \ {esi} ELSE Data[d]
    BY <1>10, <1>11, <1>13, DataIs
  <2> QED
    BY <2>1 DEF Data
<1>14. CASE /\ Port!Waiting' = Port!Waiting \cup {p} /\ trimmed' = trimmed \cup {p}
            /\ Port!IsFull /\ SymbolKind[p] = "data" /\ Priority[c] # 1
  <2>1. Lost' = Lost
    BY <1>1, <1>14 DEF Lost
  <2>2. Data' = [Data EXCEPT ![c] = @ \ {esi}]
    BY <1>1, <1>8, <1>13, <1>14
  <2>3. ASSUME NEW d \in Conns
        PROVE  ESIs(trimmed', d) =
            IF d = c THEN ESIs(trimmed, d) \cup {esi} ELSE ESIs(trimmed, d)
    <3>1. Joins(trimmed, trimmed', c, esi)
      BY <1>1, <1>3, <1>5, <1>14 DEF Joins
    <3> QED
      BY <3>1, ESIsJoin
  <2>4. Headers' = [Headers EXCEPT ![c] = @ \cup {esi}]
    BY <2>3 DEF Headers
  <2>5. Cardinality(Headers[c]) + receiver[c].numRcvTrimmedHeader < MaxTrims
    BY <1>2, <1>14, DataIs DEF MayTrim
  <2> QED
    BY <1>2, <1>6, <1>7, <1>14, <2>1, <2>2, <2>4, <2>5, NetworkLoses DEF hostVars, Discarded
<1>15. CASE /\ Port!Waiting' = Port!Waiting /\ trimmed' = trimmed
            /\ Port!IsFull /\ SymbolKind[p] = "data" /\ Priority[c] = 1
  <2>1. Data' = [Data EXCEPT ![c] = @ \ {esi}]
    BY <1>13, <1>15
  <2>2. Lost' = Lost \cup {p} /\ Lost \subseteq Symbol /\ p \notin Lost
    BY <1>1, <1>3, <1>15 DEF Lost
  <2>3. ASSUME NEW d \in Conns
        PROVE  ESIs(Lost', d) =
            IF d = c THEN ESIs(Lost, d) \cup {esi} ELSE ESIs(Lost, d)
    <3>1. Joins(Lost, Lost', c, esi)
      BY <1>1, <1>5, <2>2 DEF Joins
    <3> QED
      BY <3>1, ESIsJoin
  <2>4. esi \notin ESIs(Lost, c) /\ ESIs(Lost, c) \subseteq 1 .. MaxESI
    <3>1. /\ esi \in ESIs(Lost, c) <=> <<c, esi>> \in Lost
          /\ ESIs(Lost, c) \subseteq 1 .. MaxESI
      BY <2>2, ESIsOf
    <3> QED
      BY <1>5, <2>2, <3>1
  <2> DEFINE lost == ESIs(Lost, c)
             all == 1 .. MaxESI
  <2>5. IsFiniteSet(all) /\ Cardinality(all) = MaxESI
    BY BoundsAssumption, FS_Interval
  <2>6. lost \subseteq all \ {esi} /\ esi \in all
    BY <1>5, <2>4
  <2> HIDE DEF lost, all
  <2>7. IsFiniteSet(all \ {esi}) /\ Cardinality(all \ {esi}) = MaxESI - 1
    BY <2>5, <2>6, FS_RemoveElement
  <2>8. IsFiniteSet(lost) /\ Cardinality(lost) <= MaxESI - 1
    BY <2>6, <2>7, FS_Subset
  <2>9. Cardinality(lost) \in Nat /\ Cardinality(lost \cup {esi}) = Cardinality(lost) + 1
    <3>1. esi \notin lost
      BY <2>6
    <3> QED
      BY <2>8, <3>1, FS_AddElement, FS_CardinalityType
  <2>10. Discarded[c] = Cardinality(lost) /\ Discarded[c] < MaxESI
    BY <2>8, <2>9, DataIs, BoundsAssumption DEF lost
  <2>11. Discarded' = [Discarded EXCEPT ![c] = @ + 1]
    <3>1. \A d \in Conns : Cardinality(ESIs(Lost', d)) =
              IF d = c THEN Discarded[d] + 1 ELSE Discarded[d]
      BY <2>3, <2>9, <2>10, DataIs DEF lost
    <3> QED
      BY <3>1 DEF Discarded
  <2>12. UNCHANGED Headers
    BY <1>15 DEF Headers
  <2> QED
    BY <1>2, <1>6, <1>7, <1>15, <2>1, <2>10, <2>11, <2>12, NetworkLoses DEF hostVars
<1> QED
  BY <1>1, <1>12, <1>14, <1>15

LEMMA PopImplements ==
    ASSUME PathInv, Pop
    PROVE  \E c \in Conns :
              \/ \E esi \in Data[c] : Hosts!RcvSymbol(c, esi)
              \/ \E esi \in Headers[c] : Hosts!RcvHeader(c, esi)
<1>1. /\ Port!PopPacket /\ UNCHANGED <<sender, pulls, decoding, upstream>>
      /\ \E s \in pending \ pending' :
           IF s \in trimmed THEN Hosts!ReceiveHeader(s[1], s[2])
                            ELSE Hosts!ReceiveSymbol(s[1], s[2])
  BY DEF Pop
<1>2. PICK p : Leaves(p)
  BY <1>1, Popped
<1>3. /\ trimmed \subseteq Symbol /\ pending \subseteq Symbol /\ Port!Waiting \subseteq pending
      /\ upstream \in [Conns -> SUBSET (1 .. MaxESI)] /\ trimmed \subseteq Port!Waiting
  BY WaitingIs DEF PathInv, PortTyped, SentOnce, Placed
<1>4. /\ p \in Port!Waiting /\ p \in pending /\ p \in Symbol /\ pending \ pending' = {p}
      /\ Lost' = Lost /\ Port!Waiting' = Port!Waiting \ {p} /\ trimmed' = trimmed \ {p}
  BY <1>2, <1>3 DEF Leaves, Lost
<1>5. PICK c \in Conns, esi \in 1 .. MaxESI : p = <<c, esi>>
  BY <1>4 DEF Symbol
<1>6. /\ p[1] = c /\ p[2] = esi
      /\ IF p \in trimmed THEN Hosts!ReceiveHeader(c, esi) ELSE Hosts!ReceiveSymbol(c, esi)
  BY <1>1, <1>4, <1>5
<1>7. UNCHANGED Discarded
  BY <1>4 DEF Discarded
<1>8. CASE p \in trimmed
  <2>1. UNCHANGED Data
    <3>1. Port!Waiting' \ trimmed' = Port!Waiting \ trimmed
      BY <1>4, <1>8
    <3> QED
      BY <1>1, <3>1 DEF Data
  <2>2. esi \in Headers[c]
    <3>1. <<c, esi>> \in trimmed
      BY <1>5, <1>8
    <3> QED
      BY <1>3, <3>1, ESIsOf, DataIs
  <2>3. ASSUME NEW d \in Conns
        PROVE  ESIs(trimmed', d) =
            IF d = c THEN ESIs(trimmed, d) \ {esi} ELSE ESIs(trimmed, d)
    <3>1. Quits(trimmed, trimmed', c, esi)
      BY <1>3, <1>4, <1>5 DEF Quits
    <3> QED
      BY <3>1, ESIsQuit
  <2>4. Headers' = [Headers EXCEPT ![c] = @ \ {esi}]
    BY <2>3 DEF Headers
  <2>5. Hosts!RcvHeader(c, esi)
    BY <1>1, <1>6, <1>7, <1>8, <2>1, <2>2, <2>4, NetworkSteps
  <2> QED
    BY <2>2, <2>5
<1>9. CASE p \notin trimmed
  <2>1. trimmed' = trimmed /\ Port!Waiting' \ trimmed' = (Port!Waiting \ trimmed) \ {p}
    BY <1>4, <1>9
  <2>2. UNCHANGED Headers
    BY <2>1 DEF Headers
  <2> DEFINE whole == Port!Waiting \ trimmed
  <2>3. whole \subseteq Symbol /\ p \in whole
    BY <1>3, <1>4, <1>9
  <2>4. <<c, esi>> \in whole
    BY <1>5, <2>3
  <2> HIDE DEF whole
  <2>5. esi \in Data[c]
    <3>1. esi \in ESIs(whole, c)
      BY <2>3, <2>4, ESIsOf
    <3> QED
      BY <3>1, DataIs DEF whole
  <2>6. ASSUME NEW d \in Conns
        PROVE  ESIs(whole \ {p}, d) =
            IF d = c THEN ESIs(whole, d) \ {esi} ELSE ESIs(whole, d)
    <3>1. Quits(whole, whole \ {p}, c, esi)
      BY <1>5, <2>3 DEF Quits
    <3> QED
      BY <3>1, ESIsQuit
  <2>7. esi \notin upstream[c]
    BY <1>4, <1>5 DEF PathInv, SentOnce
  <2>8. Data' = [Data EXCEPT ![c] = @ \ {esi}]
    <3>1. Port!Waiting' \ trimmed' = whole \ {p}
      BY <2>1 DEF whole
    <3>2. \A d \in Conns : upstream'[d] \cup ESIs(Port!Waiting' \ trimmed', d)
              = IF d = c THEN Data[d] \ {esi} ELSE Data[d]
      BY <1>1, <2>6, <2>7, <3>1, DataIs DEF whole
    <3> QED
      BY <3>2 DEF Data
  <2>9. Hosts!RcvSymbol(c, esi)
    BY <1>1, <1>6, <1>7, <1>9, <2>2, <2>5, <2>8, NetworkSteps
  <2> QED
    BY <2>5, <2>9
<1> QED
  BY <1>8, <1>9

-----------------------------------------------------------------------------
(* The invariant.                                                          *)

LEMMA InitHolds ==
    ASSUME Init PROVE PathInv
<1>1. /\ upstream = [c \in Conns |-> {}]
      /\ sender = [c \in Conns |-> [opened |-> FALSE, esi |-> 0, request_id |-> 0,
                                    connFinished |-> FALSE]]
      /\ receiver = [c \in Conns |-> Hosts!ListeningReceiver]
      /\ pulls = [c \in Conns |-> {}]
  BY DEF Init, Hosts!Init
<1>2. /\ synAckQueue = <<>> /\ headersQueue = <<>> /\ dataQueue = [l \in Port!Levels |-> <<>>]
      /\ trimmed = {} /\ pending = {}
  BY DEF Init, Port!Init
<1>3. /\ Port!Members(<<>>) = {} /\ Once(<<>>) /\ <<>> \in Seq(Symbol)
      /\ <<>> \in Seq(Hosts!Pull)
  BY DEF Port!Members, Once
<1>4. HostsTyped
  <2>1. Requests(Hosts!ListeningReceiver)
    BY <1>3 DEF Requests, Hosts!ListeningReceiver
  <2> QED
    BY <1>1, <2>1 DEF HostsTyped, Hosts!Sender
<1>5. PortTyped /\ Placed
  BY <1>1, <1>2, <1>3 DEF PortTyped, Placed
<1>6. NothingBefore
  BY <1>1 DEF NothingBefore, Hosts!ListeningReceiver
<1>7. SentOnce
  <2>1. Port!Waiting = {}
    BY <1>2, <1>3 DEF Port!Waiting
  <2> QED
    BY <1>1, <1>2, <2>1, BoundsAssumption DEF SentOnce
<1> QED
  BY <1>4, <1>5, <1>6, <1>7 DEF PathInv

(* Hosts that only receive keep their requests apart from one receiver,    *)
(* whose connection was opened.                                            *)
LEMMA ReceiveKeeps ==
    ASSUME PathInv, NEW c \in Conns, sender[c].opened, NEW r, Requests(r),
           receiver' = [receiver EXCEPT ![c] = r] \/ receiver' = receiver,
           UNCHANGED <<sender, pulls>>
    PROVE  HostsTyped' /\ NothingBefore'
<1>1. /\ \A d \in Conns : receiver'[d] = receiver[d] \/ (d = c /\ receiver'[d] = r)
      /\ receiver' = [d \in Conns |-> receiver'[d]]
  BY DEF PathInv, HostsTyped
<1>2. HostsTyped'
  BY <1>1 DEF PathInv, HostsTyped
<1>3. NothingBefore'
  BY <1>1 DEF PathInv, NothingBefore
<1> QED
  BY <1>2, <1>3

LEMMA OpenKeeps ==
    ASSUME PathInv, NEW c \in Conns, SendInitialWindow(c) PROVE PathInv'
<1>1. /\ Hosts!OpenSender(c) /\ UNCHANGED queueVars
      /\ upstream' = [upstream EXCEPT ![c] = 1 .. Hosts!PushedWindow(c)]
      /\ UNCHANGED <<receiver, pacer, pulls, decoding>>
  BY DEF SendInitialWindow, queueVars
<1> DEFINE window == Hosts!PushedWindow(c)
<1>2. window \in Nat \ {0} /\ window <= MaxESI
  BY WindowFacts
<1>3. /\ sender \in [Conns -> Hosts!Sender] /\ ~sender[c].opened
      /\ sender' = [sender EXCEPT ![c].opened = TRUE, ![c].esi = window]
      /\ upstream \in [Conns -> SUBSET (1 .. MaxESI)]
  BY <1>1 DEF PathInv, HostsTyped, PortTyped, Hosts!OpenSender
<1> HIDE DEF window
<1>4. /\ sender' \in [Conns -> Hosts!Sender] /\ sender'[c].opened /\ sender'[c].esi = window
      /\ \A d \in Conns \ {c} : sender'[d] = sender[d]
  BY <1>2, <1>3 DEF Hosts!Sender
<1>5. /\ upstream' \in [Conns -> SUBSET (1 .. MaxESI)] /\ upstream'[c] = 1 .. window
      /\ \A d \in Conns \ {c} : upstream'[d] = upstream[d]
  BY <1>1, <1>2, <1>3, BoundsAssumption DEF window
<1>6. PortTyped' /\ Placed' /\ Port!Waiting' = Port!Waiting /\ pending' = pending
  BY <1>1, <1>5, PortSame DEF PathInv
<1>7. HostsTyped'
  BY <1>1, <1>4 DEF PathInv, HostsTyped
<1>8. NothingBefore'
  BY <1>1, <1>4 DEF PathInv, NothingBefore
<1>9. \A s \in pending : s[1] # c
  BY <1>3, NothingPushed
<1>10. SentOnce'
  <2>1. \A s \in pending : s[1] \in Conns
    BY DEF PathInv, PortTyped, Symbol
  <2>2. \A d \in Conns : sender'[d].esi <= MaxESI
    BY <1>2, <1>4 DEF PathInv, SentOnce
  <2>3. ASSUME NEW d \in Conns, NEW esi \in upstream'[d]
        PROVE  esi <= sender'[d].esi /\ <<d, esi>> \notin pending'
    <3>1. CASE d = c
      <4>1. <<d, esi>>[1] = c
        BY <3>1
      <4>2. esi \in 1 .. window
        BY <1>5, <2>3, <3>1
      <4> QED
        BY <1>2, <1>4, <1>6, <1>9, <3>1, <4>1, <4>2
    <3>2. CASE d # c
      BY <1>4, <1>5, <1>6, <2>3, <3>2 DEF PathInv, SentOnce
    <3> QED
      BY <3>1, <3>2
  <2>4. \A s \in pending' : s[2] <= sender'[s[1]].esi
    BY <1>4, <1>6, <1>9, <2>1 DEF PathInv, SentOnce
  <2>5. Port!Waiting' \subseteq pending'
    BY <1>6 DEF PathInv, SentOnce
  <2> QED
    BY <2>2, <2>3, <2>4, <2>5 DEF SentOnce
<1> QED
  BY <1>6, <1>7, <1>8, <1>10 DEF PathInv

LEMMA PullKeeps ==
    ASSUME PathInv, NEW c \in Conns, NEW pull \in pulls[c], RcvPull(c, pull) PROVE PathInv'
<1> DEFINE gap == Hosts!RequestsGap(c, pull)
<1>1. /\ sender[c].esi + gap <= MaxESI /\ Hosts!AnswerPull(c, pull) /\ UNCHANGED queueVars
      /\ upstream' = [upstream EXCEPT ![c] = @ \cup Hosts!Answers(c, pull)]
      /\ UNCHANGED <<receiver, pacer, decoding>>
  BY DEF RcvPull, queueVars
<1>2. /\ sender \in [Conns -> Hosts!Sender] /\ sender[c] \in Hosts!Sender
      /\ pull \in Hosts!Pull /\ pulls \in [Conns -> SUBSET Hosts!Pull]
      /\ upstream \in [Conns -> SUBSET (1 .. MaxESI)]
  BY DEF PathInv, HostsTyped, PortTyped
<1>3. gap \in Nat
  BY <1>2 DEF Hosts!RequestsGap, Hosts!Sender, Hosts!Pull
<1>4. Hosts!Answers(c, pull) = sender[c].esi + 1 .. sender[c].esi + gap
  BY DEF Hosts!Answers
<1>5. sender[c].esi \in Nat /\ MaxESI \in Nat
  BY <1>2, BoundsAssumption DEF Hosts!Sender
<1>6. /\ pulls' = [pulls EXCEPT ![c] = @ \ {pull}]
      /\ sender' = [sender EXCEPT ![c].esi = @ + gap, ![c].request_id = @ + gap,
                                  ![c].connFinished = @ \/ pull.fin]
  BY <1>1 DEF Hosts!AnswerPull
<1> HIDE DEF gap
<1>7. /\ sender' \in [Conns -> Hosts!Sender] /\ sender'[c].esi = sender[c].esi + gap
      /\ sender'[c].opened = sender[c].opened
      /\ \A d \in Conns \ {c} : sender'[d] = sender[d]
  <2> DEFINE s == [sender[c] EXCEPT !.esi = @ + gap, !.request_id = @ + gap,
                                    !.connFinished = @ \/ pull.fin]
  <2>1. sender' = [sender EXCEPT ![c] = s]
    BY <1>6
  <2>2. s.esi = sender[c].esi + gap /\ s.opened = sender[c].opened
    BY <1>2 DEF Hosts!Sender
  <2>3. s \in Hosts!Sender
    <3>1. /\ sender[c].esi + gap \in Nat /\ sender[c].request_id + gap \in Nat
          /\ (sender[c].connFinished \/ pull.fin) \in BOOLEAN
      BY <1>2, <1>3 DEF Hosts!Sender
    <3> QED
      BY <1>2, <3>1 DEF Hosts!Sender
  <2> HIDE DEF s
  <2> QED
    BY <1>2, <2>1, <2>2, <2>3
<1>8. /\ pulls' \in [Conns -> SUBSET Hosts!Pull]
      /\ \A d \in Conns : pulls'[d] \subseteq pulls[d]
  BY <1>2, <1>6
<1>9. /\ upstream' \in [Conns -> SUBSET (1 .. MaxESI)]
      /\ upstream'[c] = upstream[c] \cup (sender[c].esi + 1 .. sender[c].esi + gap)
      /\ \A d \in Conns \ {c} : upstream'[d] = upstream[d]
  BY <1>1, <1>2, <1>3, <1>4, <1>5
<1>10. PortTyped' /\ Placed' /\ Port!Waiting' = Port!Waiting /\ pending' = pending
  BY <1>1, <1>9, PortSame DEF PathInv
<1>11. HostsTyped'
  BY <1>1, <1>7, <1>8 DEF PathInv, HostsTyped
<1>12. sender[c].opened
  BY DEF PathInv, NothingBefore
<1>13. NothingBefore'
  BY <1>1, <1>7, <1>8, <1>12 DEF PathInv, NothingBefore
<1>14. SentOnce'
  <2>1. \A s \in pending : s[1] \in Conns /\ s[2] \in Nat /\ s = <<s[1], s[2]>>
    BY <1>5 DEF PathInv, PortTyped, Symbol
  <2>2. \A s \in pending : s[2] <= sender[s[1]].esi
    BY DEF PathInv, SentOnce
  <2>3. \A d \in Conns : sender'[d].esi <= MaxESI
    BY <1>1, <1>7 DEF PathInv, SentOnce
  <2>4. ASSUME NEW d \in Conns, NEW esi \in upstream'[d]
        PROVE  esi <= sender'[d].esi /\ <<d, esi>> \notin pending'
    <3>1. CASE d = c /\ esi \in sender[c].esi + 1 .. sender[c].esi + gap
      <4>1. <<d, esi>>[1] = c /\ <<d, esi>>[2] = esi
        BY <3>1
      <4>2. esi \in Int /\ esi <= sender[c].esi + gap /\ ~(esi <= sender[c].esi)
        BY <1>3, <1>5, <3>1
      <4>3. <<d, esi>> \notin pending
        BY <2>2, <4>1, <4>2
      <4> QED
        BY <1>7, <1>10, <3>1, <4>2, <4>3
    <3>2. CASE esi \in upstream[d]
      <4>1. esi <= sender[d].esi /\ <<d, esi>> \notin pending /\ esi \in 1 .. MaxESI
        BY <1>2, <3>2 DEF PathInv, SentOnce
      <4> QED
        BY <1>3, <1>5, <1>7, <1>10, <4>1
    <3> QED
      BY <1>9, <2>4, <3>1, <3>2
  <2>5. ASSUME NEW s \in pending PROVE s[2] <= sender'[s[1]].esi
    BY <1>3, <1>5, <1>7, <2>1, <2>2
  <2>6. Port!Waiting' \subseteq pending'
    BY <1>10 DEF PathInv, SentOnce
  <2> QED
    BY <1>10, <2>3, <2>4, <2>5, <2>6 DEF SentOnce
<1> QED
  BY <1>10, <1>11, <1>13, <1>14 DEF PathInv

LEMMA PushKeeps ==
    ASSUME PathInv, NEW c \in Conns, NEW esi \in upstream[c], Push(c, esi) PROVE PathInv'
<1> DEFINE p == <<c, esi>>
<1>1. /\ pending' = pending \cup {p} /\ PortTyped' /\ Placed'
      /\ Port!Waiting' = Port!Waiting \cup {p} \/ Port!Waiting' = Port!Waiting
  BY Pushed
<1>2. UNCHANGED <<sender, receiver, pulls>> /\ upstream' = [upstream EXCEPT ![c] = @ \ {esi}]
  BY DEF Push, hostVars
<1>3. HostsTyped' /\ NothingBefore'
  BY <1>2 DEF PathInv, HostsTyped, NothingBefore
<1>4. /\ upstream \in [Conns -> SUBSET (1 .. MaxESI)] /\ SentOnce
  BY DEF PathInv, PortTyped
<1>5. \A d \in Conns : upstream'[d] = IF d = c THEN upstream[d] \ {esi} ELSE upstream[d]
  BY <1>2, <1>4
<1>6. p[1] = c /\ p[2] = esi /\ \A d, e : <<d, e>> = p => d = c /\ e = esi
  OBVIOUS
<1> HIDE DEF p
<1>7. SentOnce'
  <2>1. \A d \in Conns : sender'[d].esi <= MaxESI
    BY <1>2, <1>4 DEF SentOnce
  <2>2. ASSUME NEW d \in Conns, NEW e \in upstream'[d]
        PROVE  e <= sender'[d].esi /\ <<d, e>> \notin pending'
    <3>1. e \in upstream[d] /\ ~(d = c /\ e = esi)
      BY <1>5, <2>2
    <3>2. e <= sender[d].esi /\ <<d, e>> \notin pending /\ <<d, e>> # p
      BY <1>4, <1>6, <3>1 DEF SentOnce
    <3> QED
      BY <1>1, <1>2, <3>2
  <2>3. \A s \in pending' : s[2] <= sender'[s[1]].esi
    BY <1>1, <1>2, <1>4, <1>6 DEF SentOnce
  <2>4. Port!Waiting' \subseteq pending'
    BY <1>1, <1>4 DEF SentOnce
  <2> QED
    BY <2>1, <2>2, <2>3, <2>4 DEF SentOnce
<1> QED
  BY <1>1, <1>3, <1>7 DEF PathInv

LEMMA PopKeeps ==
    ASSUME PathInv, Pop PROVE PathInv'
<1>1. /\ Port!PopPacket /\ UNCHANGED <<sender, pulls, decoding, upstream>>
      /\ \E s \in pending \ pending' :
           IF s \in trimmed THEN Hosts!ReceiveHeader(s[1], s[2])
                            ELSE Hosts!ReceiveSymbol(s[1], s[2])
  BY DEF Pop
<1>2. PICK p : Leaves(p)
  BY <1>1, Popped
<1>3. PortTyped' /\ Placed'
  BY <1>1, Popped
<1>4. pending \subseteq Symbol /\ SentOnce /\ Port!Waiting \subseteq pending
  BY DEF PathInv, PortTyped, SentOnce
<1>5. p \in pending /\ p \in Symbol /\ pending' = pending \ {p} /\ Port!Waiting' = Port!Waiting \ {p}
  BY <1>2, <1>4 DEF Leaves
<1>6. PICK c \in Conns, esi \in 1 .. MaxESI : p = <<c, esi>>
  BY <1>5 DEF Symbol
<1>7. Hosts!ReceiveHeader(c, esi) \/ Hosts!ReceiveSymbol(c, esi)
  <2>1. p[1] = c /\ p[2] = esi /\ pending \ pending' = {p}
    BY <1>5, <1>6
  <2> QED
    BY <1>1, <2>1
<1>8. sender[c].opened
  BY <1>5, <1>6, NothingPushed
<1>9. HostsTyped' /\ NothingBefore'
  <2> DEFINE r == Hosts!Established(receiver[c], c)
  <2>1. Requests(receiver[c]) /\ Requests(r)
    BY EstablishedKeeps DEF PathInv, HostsTyped
  <2>2. Requests(Hosts!ArriveHeader(r)) /\ Requests(Hosts!ArriveSymbol(r, esi))
    BY <2>1, ArriveHeaderKeeps, ArriveSymbolKeeps
  <2>3. \/ receiver' = receiver
        \/ receiver' = [receiver EXCEPT ![c] = Hosts!ArriveHeader(r)]
        \/ receiver' = [receiver EXCEPT ![c] = Hosts!ArriveSymbol(r, esi)]
    BY <1>7 DEF Hosts!ReceiveHeader, Hosts!ReceiveSymbol
  <2> HIDE DEF r
  <2>4. UNCHANGED <<sender, pulls>>
    BY <1>1
  <2> QED
    BY <1>8, <2>1, <2>2, <2>3, <2>4, ReceiveKeeps
<1>10. SentOnce'
  BY <1>1, <1>4, <1>5 DEF SentOnce
<1> QED
  BY <1>3, <1>9, <1>10 DEF PathInv

LEMMA TimerKeeps ==
    ASSUME PathInv, TimerExpires PROVE PathInv'
<1>1. Hosts!PaceRequests /\ UNCHANGED queueVars /\ UNCHANGED <<sender, decoding, upstream>>
  BY DEF TimerExpires, queueVars
<1>2. /\ PortTyped' /\ Placed' /\ Port!Waiting' = Port!Waiting /\ pending' = pending
  BY <1>1, PortSame DEF PathInv, PortTyped
<1>3. SentOnce'
  BY <1>1, <1>2 DEF PathInv, SentOnce
<1>4. HostsTyped' /\ NothingBefore'
  <2>1. CASE UNCHANGED <<receiver, pulls>>
    BY <1>1, <2>1 DEF PathInv, HostsTyped, NothingBefore
  <2>2. ASSUME NEW d, Hosts!SendPull(d), receiver[d].pullQueue # <<>>
        PROVE  HostsTyped' /\ NothingBefore'
    <3>1. /\ receiver' = [receiver EXCEPT ![d].pullQueue = Tail(@),
                                          ![d].sentPullsInWindow = @ + 1]
          /\ pulls' = [pulls EXCEPT ![d] = @ \cup {Head(receiver[d].pullQueue)}]
      BY <2>2 DEF Hosts!SendPull
    <3>2. CASE d \notin Conns
      <4>1. receiver' = receiver /\ pulls' = pulls
        BY <3>1, <3>2 DEF PathInv, HostsTyped
      <4> QED
        BY <2>1, <4>1
    <3>3. CASE d \in Conns
      <4>1. /\ Requests(receiver[d]) /\ receiver = [c \in Conns |-> receiver[c]]
            /\ pulls \in [Conns -> SUBSET Hosts!Pull]
        BY <3>3 DEF PathInv, HostsTyped
      <4> DEFINE queue == receiver[d].pullQueue
                 pull == Head(queue)
      <4>2. queue \in Seq(Hosts!Pull) /\ queue # <<>>
        BY <2>2, <4>1 DEF Requests
      <4>3. Tail(queue) \in Seq(Hosts!Pull) /\ pull \in Hosts!Pull
        BY ONLY <4>2
      <4>4. /\ receiver' = [c \in Conns |-> receiver'[c]]
            /\ \A c \in Conns \ {d} : receiver'[c] = receiver[c]
            /\ receiver'[d] = [receiver[d] EXCEPT !.pullQueue = Tail(queue),
                                   !.sentPullsInWindow = @ + 1]
        BY <3>1, <3>3, <4>1
      <4> HIDE DEF queue, pull
      <4>5. Requests(receiver'[d])
        BY <4>1, <4>3, <4>4 DEF Requests
      <4>6. /\ pulls' \in [Conns -> SUBSET Hosts!Pull]
            /\ \A c \in Conns \ {d} : pulls'[c] = pulls[c]
        BY <3>1, <3>3, <4>1, <4>3 DEF pull, queue
      <4>7. sender[d].opened
        BY <3>3, <4>2 DEF PathInv, NothingBefore, queue
      <4>8. HostsTyped'
        BY <1>1, <4>4, <4>5, <4>6 DEF PathInv, HostsTyped
      <4>9. NothingBefore'
        BY <1>1, <4>4, <4>6, <4>7 DEF PathInv, NothingBefore
      <4> QED
        BY <4>8, <4>9
    <3> QED
      BY <3>2, <3>3
  <2> QED
    BY <1>1, <2>1, <2>2 DEF Hosts!PaceRequests, Hosts!IsNextInTurn
<1> QED
  BY <1>2, <1>3, <1>4 DEF PathInv

LEMMA NextKeeps ==
    ASSUME PathInv, [Next]_vars PROVE PathInv'
<1>1. CASE UNCHANGED vars
  <2>1. UNCHANGED queueVars /\ UNCHANGED <<sender, receiver, pulls, upstream>>
    BY <1>1 DEF vars, hostVars, queueVars
  <2>2. PortTyped' /\ Placed' /\ Port!Waiting' = Port!Waiting /\ pending' = pending
    BY <2>1, PortSame DEF PathInv, PortTyped
  <2> QED
    BY <2>1, <2>2 DEF PathInv, HostsTyped, NothingBefore, SentOnce
<1> QED
  BY <1>1, OpenKeeps, PullKeeps, PushKeeps, PopKeeps, TimerKeeps DEF Next

LEMMA NextImplements ==
    ASSUME PathInv, [Next]_vars PROVE [Hosts!Next]_(Hosts!vars)
<1>1. CASE UNCHANGED vars
  <2>1. UNCHANGED queueVars
    BY <1>1 DEF vars, queueVars
  <2>2. UNCHANGED <<Headers, Discarded, Data>>
    BY <1>1, <2>1, PortSame DEF Data, vars
  <2> QED
    BY <1>1, <2>2 DEF vars, hostVars, Hosts!vars, Data, Headers, Discarded
<1>2. ASSUME NEW c \in Conns, NEW pull \in pulls[c], RcvPull(c, pull) PROVE Hosts!Next
  BY <1>2, PullImplements DEF Hosts!Next
<1>3. ASSUME NEW c \in Conns, SendInitialWindow(c) PROVE Hosts!Next
  BY <1>3, OpenImplements DEF Hosts!Next
<1>4. ASSUME NEW c \in Conns, NEW esi \in upstream[c], Push(c, esi)
      PROVE  [Hosts!Next]_(Hosts!vars)
  <2>1. esi \in Data[c]
    BY DataIs
  <2>2. Hosts!TrimSymbol(c, esi) \/ Hosts!DiscardSymbol(c, esi) => Hosts!Next
    BY <2>1 DEF Hosts!Next, Hosts!Network, Data
  <2> QED
    BY <1>4, <2>2, PushImplements
<1>5. ASSUME Pop PROVE Hosts!Next
  BY <1>5, PopImplements DEF Hosts!Next, Data, Headers
<1>6. ASSUME TimerExpires PROVE Hosts!Next
  BY <1>6, TimerImplements DEF Hosts!Next
<1> QED
  BY <1>1, <1>2, <1>3, <1>4, <1>5, <1>6 DEF Next

LEMMA InitImplements ==
    ASSUME Init PROVE Hosts!Init
BY DEF Init

(* Hosts joined by a switch port do what the transport of RaqsacTransport  *)
(* does over its network: whatever the port's memory, the priorities and   *)
(* the order in which symbols reach it, the port trims and loses only what *)
(* that network may, and hands on each symbol once.                        *)
THEOREM TransportImplemented ==
    Spec => ImplementsTransport
<1>1. Init => PathInv /\ Hosts!Init
  BY InitHolds, InitImplements
<1>2. PathInv /\ [Next]_vars => PathInv' /\ [Hosts!Next]_(Hosts!vars)
  BY NextKeeps, NextImplements
<1> QED
  BY <1>1, <1>2, PTL DEF Spec, ImplementsTransport, Hosts!Spec

-----------------------------------------------------------------------------
(* What is proved of the transport holds over the port: its theorems, with *)
(* this network put for theirs.                                            *)

Proved ==
    INSTANCE RaqsacTransportProofs WITH
        Discardable <- {c \in Conns : Priority[c] = 1},
        MaxDiscards <- MaxESI,
        data <- [c \in Conns |-> upstream[c] \cup ESIs(Port!Waiting \ trimmed, c)],
        headers <- [c \in Conns |-> ESIs(trimmed, c)],
        discarded <- [c \in Conns |-> Cardinality(ESIs(Lost, c))]

(* What that module assumes of the constants.                              *)
LEMMA ProvedFor ==
    /\ NumSymbols \in [Conns -> Nat \ {0}]
    /\ InitialWindow \in Nat \ {0} /\ InitialSsthresh \in Nat
    /\ DecoderOutcomes \subseteq {"success", "failure"}
    /\ {c \in Conns : Priority[c] = 1} \subseteq Conns
    /\ MaxTrims \in Nat /\ MaxESI \in Nat
BY TransfersAssumption, BoundsAssumption

(* Both instances are of one module: what they define is the same.         *)
LEMMA SameReceiver ==
    ASSUME NEW r, NEW c, NEW esi
    PROVE  /\ Hosts!PushedWindow(c) = Proved!PushedWindow(c)
           /\ Hosts!Established(r, c) = Proved!Established(r, c)
           /\ Hosts!CountSymbol(r) = Proved!CountSymbol(r)
           /\ Hosts!GrowWindow(r) = Proved!GrowWindow(r)
           /\ Hosts!Overrun(r) = Proved!Overrun(r)
           /\ Hosts!ArriveSymbol(r, esi) = Proved!ArriveSymbol(r, esi)
           /\ Hosts!ArriveHeader(r) = Proved!ArriveHeader(r)
<1>1. Hosts!PushedWindow(c) = Proved!PushedWindow(c)
  BY DEF Hosts!PushedWindow, Proved!PushedWindow
<1>2. \A s : Hosts!AddRequestToPullsQueue(s) = Proved!AddRequestToPullsQueue(s)
  BY DEF Hosts!AddRequestToPullsQueue, Proved!AddRequestToPullsQueue,
         Hosts!IsFin, Proved!IsFin
<1>3. \A s : /\ Hosts!CountSymbol(s) = Proved!CountSymbol(s)
             /\ Hosts!WantedSymbols(s) = Proved!WantedSymbols(s)
             /\ Hosts!Register(s, 0) = Proved!Register(s, 0)
             /\ Hosts!Register(s, 1) = Proved!Register(s, 1)
  BY DEF Hosts!CountSymbol, Proved!CountSymbol, Hosts!WantedSymbols, Proved!WantedSymbols,
         Hosts!Register, Proved!Register, Hosts!Registers, Proved!Registers
<1>4. \A s : Hosts!Overrun(s) = Proved!Overrun(s)
  BY <1>3 DEF Hosts!Overrun, Proved!Overrun
<1>5. \A s : Hosts!GrowWindow(s) = Proved!GrowWindow(s)
  BY <1>2 DEF Hosts!GrowWindow, Proved!GrowWindow, Hosts!WindowSuffices,
         Proved!WindowSuffices, Hosts!OpenWindow, Proved!OpenWindow
<1>6. \A s : Hosts!ReplaceSymbol(s, esi) = Proved!ReplaceSymbol(s, esi)
  BY <1>2, <1>3 DEF Hosts!ReplaceSymbol, Proved!ReplaceSymbol
<1>7. \A s : Hosts!Decode(s) = Proved!Decode(s)
  BY <1>2, <1>3 DEF Hosts!Decode, Proved!Decode, Hosts!IsDecoderSuccessful,
         Proved!IsDecoderSuccessful
<1>8. Hosts!Established(r, c) = Proved!Established(r, c)
  BY <1>1 DEF Hosts!Established, Proved!Established, Hosts!ProcessSegmentInListen,
         Proved!ProcessSegmentInListen
<1>9. Hosts!ArriveSymbol(r, esi) = Proved!ArriveSymbol(r, esi)
  BY <1>3, <1>4, <1>5, <1>6, <1>7 DEF Hosts!ArriveSymbol, Proved!ArriveSymbol
<1>10. \A s : Hosts!HalveWindow(s) = Proved!HalveWindow(s)
  BY DEF Hosts!HalveWindow, Proved!HalveWindow, Hosts!Half, Proved!Half,
         Hosts!CountHeader, Proved!CountHeader
<1>11. Hosts!ArriveHeader(r) = Proved!ArriveHeader(r)
  BY <1>2, <1>3, <1>10 DEF Hosts!ArriveHeader, Proved!ArriveHeader
<1> QED
  BY <1>1, <1>3, <1>4, <1>5, <1>8, <1>9, <1>11

LEMMA SamePacer ==
    /\ Hosts!PaceRequests <=> Proved!PaceRequests
    /\ \A c, r, rcv, registers, finishing :
          Hosts!PacerAfter(c, r, rcv, registers, finishing)
              = Proved!PacerAfter(c, r, rcv, registers, finishing)
<1>1. \A p, n : Hosts!RequestTimer(p, n) = Proved!RequestTimer(p, n)
  BY DEF Hosts!RequestTimer, Proved!RequestTimer
<1>2. \A p : /\ Hosts!CancelRequestTimer(p) = Proved!CancelRequestTimer(p)
             /\ Hosts!NextRequest(p) = Proved!NextRequest(p)
  BY DEF Hosts!CancelRequestTimer, Proved!CancelRequestTimer,
         Hosts!NextRequest, Proved!NextRequest
<1>3. \A p, rcv :
          /\ Hosts!AllPullQueuesEmpty(p, rcv) <=> Proved!AllPullQueuesEmpty(p, rcv)
          /\ Hosts!AllConnFinished(p, rcv) <=> Proved!AllConnFinished(p, rcv)
  BY DEF Hosts!AllPullQueuesEmpty, Proved!AllPullQueuesEmpty, Hosts!AllConnFinished,
         Proved!AllConnFinished, Hosts!Registered, Proved!Registered
<1>4. \A i : Hosts!IsNextInTurn(i) <=> Proved!IsNextInTurn(i)
  BY DEF Hosts!IsNextInTurn, Proved!IsNextInTurn
<1>5. \A c : Hosts!SendPull(c) <=> Proved!SendPull(c)
  BY DEF Hosts!SendPull, Proved!SendPull
<1>6. Hosts!PaceRequests <=> Proved!PaceRequests
  BY <1>1, <1>2, <1>3, <1>4, <1>5 DEF Hosts!PaceRequests, Proved!PaceRequests
<1>7. ASSUME NEW c, NEW r, NEW rcv, NEW registers, NEW finishing
      PROVE  Hosts!PacerAfter(c, r, rcv, registers, finishing)
                 = Proved!PacerAfter(c, r, rcv, registers, finishing)
  BY <1>1, <1>2, <1>3 DEF Hosts!PacerAfter, Proved!PacerAfter,
         Hosts!NapRequests, Proved!NapRequests
<1> QED
  BY <1>6, <1>7

LEMMA SameSteps ==
    Hosts!Next <=> Proved!Next
<1>1. \A c, esi : Hosts!IsSyn(c, esi) <=> Proved!IsSyn(c, esi)
  BY SameReceiver DEF Hosts!IsSyn, Proved!IsSyn
<1>2. \A r, syn : Hosts!Dropped(r, syn) <=> Proved!Dropped(r, syn)
  BY DEF Hosts!Dropped, Proved!Dropped
<1>3. \A r, n : Hosts!Registers(r, n) <=> Proved!Registers(r, n)
  BY DEF Hosts!Registers, Proved!Registers
<1>4. ASSUME NEW c PROVE Hosts!SendInitialWindow(c) <=> Proved!SendInitialWindow(c)
  BY SameReceiver DEF Hosts!SendInitialWindow, Proved!SendInitialWindow,
         Hosts!OpenSender, Proved!OpenSender
<1>5. ASSUME NEW c, NEW pull PROVE Hosts!RcvPull(c, pull) <=> Proved!RcvPull(c, pull)
  BY DEF Hosts!RcvPull, Proved!RcvPull, Hosts!AnswerPull, Proved!AnswerPull,
         Hosts!Answers, Proved!Answers, Hosts!RequestsGap, Proved!RequestsGap
<1>6. ASSUME NEW c, NEW esi PROVE Hosts!RcvSymbol(c, esi) <=> Proved!RcvSymbol(c, esi)
  <2>1. Hosts!ReceiveSymbol(c, esi) <=> Proved!ReceiveSymbol(c, esi)
    BY <1>1, <1>2, <1>3, SameReceiver, SamePacer
       DEF Hosts!ReceiveSymbol, Proved!ReceiveSymbol
  <2> QED
    BY <2>1 DEF Hosts!RcvSymbol, Proved!RcvSymbol
<1>7. ASSUME NEW c, NEW esi PROVE Hosts!RcvHeader(c, esi) <=> Proved!RcvHeader(c, esi)
  <2>1. Hosts!ReceiveHeader(c, esi) <=> Proved!ReceiveHeader(c, esi)
    BY <1>1, <1>2, <1>3, SameReceiver, SamePacer
       DEF Hosts!ReceiveHeader, Proved!ReceiveHeader
  <2> QED
    BY <2>1 DEF Hosts!RcvHeader, Proved!RcvHeader
<1>8. ASSUME NEW c PROVE Hosts!Network(c) <=> Proved!Network(c)
  BY <1>1 DEF Hosts!Network, Proved!Network, Hosts!TrimSymbol, Proved!TrimSymbol,
         Hosts!DiscardSymbol, Proved!DiscardSymbol, Hosts!Cardinality, Proved!Cardinality
<1>9. Hosts!TimerExpires <=> Proved!TimerExpires
  BY SamePacer DEF Hosts!TimerExpires, Proved!TimerExpires
<1> QED
  BY <1>4, <1>5, <1>6, <1>7, <1>8, <1>9 DEF Hosts!Next, Proved!Next

LEMMA SameTransport ==
    /\ Hosts!Init <=> Proved!Init
    /\ UNCHANGED Hosts!vars <=> UNCHANGED Proved!vars
    /\ Proved!WindowAccounting => Hosts!WindowAccounting
    /\ Proved!PullOrder => Hosts!PullOrder
    /\ Proved!StallsOnlyForTrimmed => Hosts!StallsOnlyForTrimmed
<1>1. Hosts!Init <=> Proved!Init
  BY DEF Hosts!Init, Proved!Init, Hosts!ListeningReceiver, Proved!ListeningReceiver
<1>2. UNCHANGED Hosts!vars <=> UNCHANGED Proved!vars
  BY DEF Hosts!vars, Proved!vars
<1>3. \A c : Hosts!PullsSent(c) = Proved!PullsSent(c)
  BY DEF Hosts!PullsSent, Proved!PullsSent
<1>4. Proved!WindowAccounting => Hosts!WindowAccounting
  BY SameReceiver, <1>3 DEF Hosts!WindowAccounting, Proved!WindowAccounting,
         Hosts!Outstanding, Proved!Outstanding, Hosts!Cardinality, Proved!Cardinality
<1>5. Proved!PullOrder => Hosts!PullOrder
  BY <1>3 DEF Hosts!PullOrder, Proved!PullOrder
<1>6. Proved!StallsOnlyForTrimmed => Hosts!StallsOnlyForTrimmed
  BY DEF Hosts!StallsOnlyForTrimmed, Proved!StallsOnlyForTrimmed, Hosts!Stalled,
         Proved!Stalled
<1> QED
  BY <1>1, <1>2, <1>4, <1>5, <1>6

LEMMA SameCredit ==
    /\ Hosts!Credit!Init <=> Proved!Credit!Init
    /\ [Hosts!Credit!Next]_(Hosts!Credit!vars) <=> [Proved!Credit!Next]_(Proved!Credit!vars)
BY DEF Hosts!Credit!Init, Proved!Credit!Init, Hosts!Credit!Next, Proved!Credit!Next,
       Hosts!Credit!Grant, Proved!Credit!Grant, Hosts!Credit!Send, Proved!Credit!Send,
       Hosts!Credit!Arrive, Proved!Credit!Arrive, Hosts!Credit!vars, Proved!Credit!vars,
       Hosts!PushedWindow, Proved!PushedWindow, Hosts!PullsSent, Proved!PullsSent

LEMMA ProvedOverPort == Spec => Proved!Spec
<1>1. Spec => Hosts!Spec
  BY TransportImplemented DEF ImplementsTransport
<1>2. Hosts!Init => Proved!Init
  BY SameTransport
<1>3. [Hosts!Next]_(Hosts!vars) => [Proved!Next]_(Proved!vars)
  BY SameTransport, SameSteps
<1> QED
  BY <1>1, <1>2, <1>3, PTL DEF Hosts!Spec, Proved!Spec

(* The books of the hosts are right over the port: sentPullsInWindow counts*)
(* what may still arrive, pulls are numbered without a hole, and a transfer*)
(* runs dry only if the port lost a symbol of it or each source symbol it  *)
(* lacks was asked for and came as a header.                               *)
THEOREM BooksKeptOverPort ==
    Spec => [](Hosts!WindowAccounting /\ Hosts!PullOrder /\ Hosts!StallsOnlyForTrimmed)
<1>1. Proved!Spec => []Proved!WindowAccounting
  BY Proved!WindowAccounted, ProvedFor
<1>2. Proved!Spec => []Proved!PullOrder
  BY Proved!PullsInOrder, ProvedFor
<1>3. Proved!Spec => []Proved!StallsOnlyForTrimmed
  BY Proved!StallsForTrimmed, ProvedFor
<1>4. /\ Proved!WindowAccounting => Hosts!WindowAccounting
      /\ Proved!PullOrder => Hosts!PullOrder
      /\ Proved!StallsOnlyForTrimmed => Hosts!StallsOnlyForTrimmed
  BY SameTransport
<1> QED
  BY ProvedOverPort, <1>1, <1>2, <1>3, <1>4, PTL

(* Hosts joined by a switch port implement PullCredit: also where the port *)
(* trims and loses symbols, credit covers each symbol sent, a symbol       *)
(* arrives once at most, and its arrival alone can complete a transfer.    *)
THEOREM PullCreditOverPort == Spec => Hosts!ImplementsPullCredit
<1>1. Proved!Spec => Proved!ImplementsPullCredit
  BY Proved!PullCreditImplemented, ProvedFor
<1>2. Proved!ImplementsPullCredit => Hosts!ImplementsPullCredit
  BY SameCredit, PTL DEF Proved!ImplementsPullCredit, Hosts!ImplementsPullCredit,
     Hosts!Credit!Spec, Proved!Credit!Spec
<1> QED
  BY ProvedOverPort, <1>1, <1>2, PTL

-----------------------------------------------------------------------------
(* Sums over the connections: a fold, whose function exists as there are   *)
(* finitely many.                                                          *)

LEMMA LeastNatural ==
    ASSUME NEW T \in SUBSET Nat, T # {}
    PROVE  \E x \in T : \A y \in T : x <= y
<1> DEFINE Below == {pair \in Nat \X Nat : pair[1] < pair[2]}
<1>1. IsWellFoundedOn(Below, Nat)
  BY NatLessThanWellFounded DEF OpToRel
<1>2. PICK x \in T : \A y \in T : <<y, x>> \notin Below
  BY <1>1, WFMin
<1>3. \A y \in T : ~ (y < x)
  BY <1>2
<1> QED
  BY <1>2, <1>3

Pick(s) == CHOOSE x \in s : TRUE

(* sum is the fold, for the sets of at most n connections.                 *)
UpTo(n) == {s \in SUBSET Conns : Cardinality(s) <= n}
Unfolds(sum, sets) ==
    sum = [s \in sets |->
              IF s = {} THEN 0 ELSE BookedInWindow(Pick(s)) + sum[s \ {Pick(s)}]]

LEMMA FewerConns ==
    ASSUME NEW s \in SUBSET Conns, s # {}
    PROVE  /\ IsFiniteSet(s) /\ Cardinality(s) \in Nat \ {0} /\ Pick(s) \in s
           /\ s \ {Pick(s)} \in SUBSET Conns
           /\ Cardinality(s \ {Pick(s)}) = Cardinality(s) - 1
<1>1. IsFiniteSet(s) /\ Cardinality(s) \in Nat
  BY TransfersAssumption, FS_Subset, FS_CardinalityType
<1>2. Pick(s) \in s
  BY DEF Pick
<1>3. Cardinality(s) # 0
  BY <1>1, FS_EmptySet
<1>4. Cardinality(s \ {Pick(s)}) = Cardinality(s) - 1
  BY <1>1, <1>2, FS_RemoveElement
<1> QED
  BY <1>1, <1>2, <1>3, <1>4

LEMMA SumUpTo ==
    ASSUME NEW n \in Nat PROVE \E sum : Unfolds(sum, UpTo(n))
<1> DEFINE Bad == {k \in Nat : ~\E sum : Unfolds(sum, UpTo(k))}
<1> SUFFICES ASSUME Bad # {} PROVE FALSE
  OBVIOUS
<1>1. PICK k \in Bad : \A j \in Bad : k <= j
  <2>1. Bad \in SUBSET Nat /\ Bad # {}
    OBVIOUS
  <2> HIDE DEF Bad
  <2> QED
    BY <2>1, LeastNatural
<1>2. k \in Nat /\ ~\E sum : Unfolds(sum, UpTo(k))
  OBVIOUS
<1>3. CASE k = 0
  <2> DEFINE sum == [s \in UpTo(0) |-> 0]
  <2>1. \A s \in UpTo(0) : s = {}
    <3>1. ASSUME NEW s \in UpTo(0), s # {} PROVE FALSE
      <4>1. s \in SUBSET Conns /\ Cardinality(s) <= 0
        BY DEF UpTo
      <4>2. Cardinality(s) \in Nat \ {0}
        BY <3>1, <4>1, FewerConns
      <4> QED
        BY <4>1, <4>2
    <3> QED
      BY <3>1
  <2>2. Unfolds(sum, UpTo(0))
    BY <2>1 DEF Unfolds
  <2> QED
    BY <1>2, <1>3, <2>2
<1>4. CASE k # 0
  <2>1. k - 1 \in Nat /\ k - 1 \notin Bad
    BY <1>1, <1>2, <1>4
  <2>2. PICK g : Unfolds(g, UpTo(k - 1))
    BY <2>1
  <2> DEFINE step(f, s) ==
        IF s = {} THEN 0 ELSE BookedInWindow(Pick(s)) + f[s \ {Pick(s)}]
             sum == [s \in UpTo(k) |-> step(g, s)]
  <2>3. \A s \in UpTo(k) : s # {} => s \ {Pick(s)} \in UpTo(k - 1)
    BY <1>2, FewerConns DEF UpTo
  <2>4. UpTo(k - 1) \subseteq UpTo(k)
    <3>1. \A s \in SUBSET Conns : Cardinality(s) \in Nat
      BY TransfersAssumption, FS_Subset, FS_CardinalityType
    <3> QED
      BY <1>2, <3>1 DEF UpTo
  <2>5. \A s \in UpTo(k - 1) : g[s] = sum[s]
    BY <2>2, <2>4 DEF Unfolds
  <2>6. \A s \in UpTo(k) : step(g, s) = step(sum, s)
    <3> HIDE DEF sum
    <3> QED
      BY <2>3, <2>5
  <2>7. sum = [s \in UpTo(k) |-> step(sum, s)]
    <3>1. sum = [s \in UpTo(k) |-> step(g, s)]
      OBVIOUS
    <3> HIDE DEF sum
    <3> QED
      BY <2>6, <3>1
  <2> HIDE DEF sum
  <2> QED
    BY <1>2, <2>7 DEF Unfolds
<1> QED
  BY <1>3, <1>4

LEMMA SumIsFold ==
    \E sum : /\ Unfolds(sum, SUBSET Conns)
             /\ MapThenSumSet(BookedInWindow, Conns) = sum[Conns]
<1>1. Cardinality(Conns) \in Nat /\ UpTo(Cardinality(Conns)) = SUBSET Conns
  BY TransfersAssumption, FS_Subset, FS_CardinalityType DEF UpTo
<1>2. PICK sum : Unfolds(sum, SUBSET Conns)
  BY <1>1, SumUpTo
<1> QED
  BY <1>2 DEF MapThenSumSet, MapThenFoldSet, Unfolds, Pick

(* If each connection's books cover its symbols, their sum covers all.     *)
LEMMA SumCovers ==
    ASSUME NEW D, D \subseteq Symbol,
           \A c \in Conns : BookedInWindow(c) \in Int
                            /\ Cardinality(ESIs(D, c)) <= BookedInWindow(c)
    PROVE  /\ IsFiniteSet(D) /\ MapThenSumSet(BookedInWindow, Conns) \in Int
           /\ Cardinality(D) <= MapThenSumSet(BookedInWindow, Conns)
<1>1. PICK sum : /\ Unfolds(sum, SUBSET Conns)
                 /\ MapThenSumSet(BookedInWindow, Conns) = sum[Conns]
  BY SumIsFold
<1> DEFINE Of(T) == {s \in D : s[1] \in T}
           Covered(T) == sum[T] \in Int /\ Cardinality(Of(T)) <= sum[T]
           Bad == {n \in Nat : \E T \in SUBSET Conns : Cardinality(T) = n /\ ~Covered(T)}
<1>2. IsFiniteSet(1 .. MaxESI) /\ IsFiniteSet(D) /\ \A T : IsFiniteSet(Of(T))
  <2>1. IsFiniteSet(1 .. MaxESI)
    BY BoundsAssumption, FS_Interval
  <2>2. IsFiniteSet(Symbol)
    BY <2>1, TransfersAssumption, FS_Product DEF Symbol
  <2>3. \A T : Of(T) \in SUBSET Symbol
    OBVIOUS
  <2> HIDE DEF Of
  <2> QED
    BY <2>1, <2>2, <2>3, FS_Subset
<1>3. \A T \in SUBSET Conns : Cardinality(T) \in Nat
  BY TransfersAssumption, FS_Subset, FS_CardinalityType
<1>4. sum[{}] = 0
  BY <1>1 DEF Unfolds
<1>5. \A T \in SUBSET Conns : T # {} =>
          sum[T] = BookedInWindow(Pick(T)) + sum[T \ {Pick(T)}]
  BY <1>1 DEF Unfolds
<1>6. Bad = {}
  <2> SUFFICES ASSUME Bad # {} PROVE FALSE
    OBVIOUS
  <2>1. PICK n \in Bad : \A m \in Bad : n <= m
    <3>1. Bad \in SUBSET Nat /\ Bad # {}
      OBVIOUS
    <3> HIDE DEF Bad
    <3> QED
      BY <3>1, LeastNatural
  <2>2. PICK T \in SUBSET Conns : Cardinality(T) = n /\ ~Covered(T)
    BY <2>1
  <2>3. T # {}
    <3>1. Of({}) = {}
      OBVIOUS
    <3> HIDE DEF Of
    <3>2. sum[{}] \in Int /\ Cardinality(Of({})) <= sum[{}]
      BY <1>4, <3>1, FS_EmptySet
    <3>3. Covered({})
      BY <3>2
    <3> HIDE DEF Covered
    <3> QED
      BY <2>2, <3>3
  <2> DEFINE c == Pick(T)
             rest == T \ {c}
             own == {s \in D : s[1] = c}
  <2>4. /\ c \in T /\ c \in Conns /\ rest \in SUBSET Conns /\ n \in Nat
        /\ Cardinality(rest) = n - 1 /\ n - 1 \in Nat
    BY <2>2, <2>3, FewerConns
  <2>5. Covered(rest)
    <3>1. n - 1 \notin Bad
      <4> HIDE DEF Bad
      <4> QED
        BY <2>1, <2>4
    <3> HIDE DEF Covered, rest
    <3> QED
      BY <2>4, <3>1
  <2>6. /\ IsFiniteSet(own) /\ BookedInWindow(c) \in Int
        /\ Cardinality(own) \in Nat /\ Cardinality(own) <= BookedInWindow(c)
    <3> DEFINE f == [s \in own |-> s[2]]
    <3>1. IsFiniteSet(ESIs(D, c)) /\ Cardinality(ESIs(D, c)) \in Nat
      <4> HIDE DEF c
      <4>1. ESIs(D, c) \in SUBSET (1 .. MaxESI)
        BY <2>4, ESIsOf
      <4>2. IsFiniteSet(ESIs(D, c))
        BY <1>2, <4>1, FS_Subset
      <4> QED
        BY <4>2, FS_CardinalityType
    <3>2. f \in [own -> ESIs(D, c)]
      BY DEF ESIs
    <3>3. \A s, t \in own : f[s] = f[t] => s = t
      BY DEF Symbol
    <3>4. f \in Injection(own, ESIs(D, c))
      BY <3>2, <3>3 DEF Injection, IsInjective
    <3> HIDE DEF f, own, c
    <3>5. IsFiniteSet(own) /\ Cardinality(own) <= Cardinality(ESIs(D, c))
      BY <3>1, <3>4, FS_Injection
    <3>6. Cardinality(own) \in Nat
      BY <3>5, FS_CardinalityType
    <3> QED
      BY <2>4, <3>1, <3>5, <3>6
  <2>7. Cardinality(Of(T)) <= Cardinality(Of(rest)) + Cardinality(own)
    <3>1. Of(T) = Of(rest) \cup own
      BY <2>4
    <3> HIDE DEF Of, own, rest
    <3>2. /\ IsFiniteSet(Of(rest)) /\ IsFiniteSet(own)
          /\ Cardinality(Of(rest) \cap own) \in Nat
      BY <1>2, <2>6, FS_Intersection, FS_CardinalityType
    <3>3. Cardinality(Of(rest)) \in Nat /\ Cardinality(own) \in Nat
      BY <3>2, FS_CardinalityType
    <3>4. Cardinality(Of(T)) =
              Cardinality(Of(rest)) + Cardinality(own) - Cardinality(Of(rest) \cap own)
      BY <3>1, <3>2, FS_Union
    <3> QED
      BY <3>2, <3>3, <3>4
  <2>8. Cardinality(Of(T)) \in Nat /\ Cardinality(Of(rest)) \in Nat
    <3> HIDE DEF Of
    <3> QED
      BY <1>2, FS_CardinalityType
  <2>9. sum[T] = BookedInWindow(c) + sum[rest]
    BY <1>5, <2>2, <2>3
  <2>10. sum[rest] \in Int /\ Cardinality(Of(rest)) <= sum[rest]
    BY <2>5
  <2>11. sum[T] \in Int /\ Cardinality(Of(T)) <= sum[T]
    <3> HIDE DEF Of, own, c, rest
    <3> QED
      BY <2>6, <2>7, <2>8, <2>9, <2>10
  <2> QED
    BY <2>2, <2>11
<1>7. Covered(Conns)
  <2> HIDE DEF Covered
  <2> QED
    BY <1>3, <1>6
<1>8. Of(Conns) = D
  BY DEF Symbol
<1> HIDE DEF Of
<1> QED
  BY <1>1, <1>2, <1>7, <1>8

-----------------------------------------------------------------------------
(* What fills the memory of the port.                                      *)

LEMMA MembersCount ==
    ASSUME NEW queue \in Seq(Symbol), Once(queue)
    PROVE  /\ IsFiniteSet(Port!Members(queue))
           /\ Cardinality(Port!Members(queue)) = Len(queue) /\ Len(queue) \in Nat
<1>1. DOMAIN queue = 1 .. Len(queue) /\ Len(queue) \in Nat
  OBVIOUS
<1>2. queue \in [1 .. Len(queue) -> Port!Members(queue)]
  BY <1>1 DEF Port!Members
<1>3. queue \in Bijection(1 .. Len(queue), Port!Members(queue))
  BY <1>1, <1>2 DEF Once, Port!Members, Bijection, Injection, Surjection, IsInjective
<1>4. IsFiniteSet(1 .. Len(queue)) /\ Cardinality(1 .. Len(queue)) = Len(queue)
  BY <1>1, FS_Interval
<1> QED
  BY <1>1, <1>3, <1>4, FS_Bijection DEF ExistsBijection

LEMMA Disjoint ==
    ASSUME NEW S, IsFiniteSet(S), NEW T, IsFiniteSet(T), S \cap T = {}
    PROVE  /\ IsFiniteSet(S \cup T)
           /\ Cardinality(S \cup T) = Cardinality(S) + Cardinality(T)
<1>1. Cardinality(S) \in Nat /\ Cardinality(T) \in Nat
  BY FS_CardinalityType
<1> QED
  BY <1>1, FS_Union, FS_EmptySet

(* The symbols that wait whole, SYN symbols apart.                         *)
Stored == UNION {Port!Members(dataQueue[level]) : level \in Port!Levels}

LEMMA StoredCount ==
    ASSUME PathInv
    PROVE  /\ IsFiniteSet(Stored) /\ Cardinality(Stored) = Port!SharedMemoryLength
           /\ Port!SharedMemoryLength \in Nat
           /\ Stored \subseteq Port!Waiting \ trimmed /\ Stored \subseteq Symbol
<1> DEFINE M(level) == Port!Members(dataQueue[level])
<1>1. \A level \in Port!Levels :
          /\ IsFiniteSet(M(level)) /\ Cardinality(M(level)) = Len(dataQueue[level])
          /\ Len(dataQueue[level]) \in Nat
  <2> SUFFICES ASSUME NEW level \in Port!Levels
               PROVE  /\ IsFiniteSet(M(level))
                      /\ Cardinality(M(level)) = Len(dataQueue[level])
                      /\ Len(dataQueue[level]) \in Nat
    OBVIOUS
  <2>1. dataQueue[level] \in Seq(Symbol) /\ Once(dataQueue[level])
    BY DEF PathInv, PortTyped, Placed
  <2> QED
    BY <2>1, MembersCount
<1>2. \A k, l \in Port!Levels : k # l => M(k) \cap M(l) = {}
  BY DEF PathInv, Placed
<1>3. \A l \in Port!Levels : \A s \in M(l) :
          s \in Symbol /\ s \in Port!Waiting /\ s \notin trimmed
  <2>1. Port!Waiting \subseteq Symbol
    BY DEF PathInv, SentOnce, PortTyped
  <2>2. \A l \in Port!Levels : \A s \in M(l) : s \in Port!Waiting
    BY WaitingIs
  <2> QED
    BY <2>1, <2>2 DEF PathInv, Placed
<1>4. Stored = M(0) \cup M(1) \cup M(2) \cup M(3) \cup M(4)
  BY DEF Stored, Port!Levels
<1>5. 0 \in Port!Levels /\ 1 \in Port!Levels /\ 2 \in Port!Levels
      /\ 3 \in Port!Levels /\ 4 \in Port!Levels
  BY DEF Port!Levels
<1>6. Stored \subseteq Port!Waiting \ trimmed /\ Stored \subseteq Symbol
  BY <1>3, <1>4, <1>5
<1> HIDE DEF M
<1> DEFINE A == M(0) \cup M(1)
           B == A \cup M(2)
           C == B \cup M(3)
<1>7. /\ A \cap M(2) = {} /\ B \cap M(3) = {} /\ C \cap M(4) = {} /\ M(0) \cap M(1) = {}
      /\ Stored = C \cup M(4)
  BY <1>2, <1>4, <1>5
<1> DEFINE len(level) == Len(dataQueue[level])
<1>8. /\ Cardinality(M(0)) = len(0) /\ Cardinality(M(1)) = len(1)
      /\ Cardinality(M(2)) = len(2) /\ Cardinality(M(3)) = len(3)
      /\ Cardinality(M(4)) = len(4)
      /\ len(0) \in Nat /\ len(1) \in Nat /\ len(2) \in Nat /\ len(3) \in Nat /\ len(4) \in Nat
  BY <1>1, <1>5
<1>9. Port!SharedMemoryLength = len(0) + len(1) + len(2) + len(3) + len(4)
  BY DEF Port!SharedMemoryLength
<1> HIDE DEF len
<1>10. /\ IsFiniteSet(M(0)) /\ IsFiniteSet(M(1)) /\ IsFiniteSet(M(2))
       /\ IsFiniteSet(M(3)) /\ IsFiniteSet(M(4))
  BY <1>1, <1>5
<1>11. IsFiniteSet(A) /\ Cardinality(A) = Cardinality(M(0)) + Cardinality(M(1))
  BY <1>7, <1>10, Disjoint
<1> HIDE DEF A
<1>12. IsFiniteSet(B) /\ Cardinality(B) = Cardinality(A) + Cardinality(M(2))
  BY <1>7, <1>10, <1>11, Disjoint
<1> HIDE DEF B
<1>13. IsFiniteSet(C) /\ Cardinality(C) = Cardinality(B) + Cardinality(M(3))
  BY <1>7, <1>10, <1>12, Disjoint
<1> HIDE DEF C
<1>14. IsFiniteSet(Stored) /\ Cardinality(Stored) = Cardinality(C) + Cardinality(M(4))
  BY <1>7, <1>10, <1>13, Disjoint
<1>15. Cardinality(Stored) = len(0) + len(1) + len(2) + len(3) + len(4)
  BY <1>8, <1>11, <1>12, <1>13, <1>14
<1>16. len(0) + len(1) + len(2) + len(3) + len(4) \in Nat
  BY <1>8
<1> QED
  BY <1>6, <1>9, <1>14, <1>15, <1>16

(* The books of a receiver cover its symbols under way.                    *)
LEMMA BooksCover ==
    ASSUME PathInv, Hosts!WindowAccounting, Hosts!PullOrder, NEW c \in Conns
    PROVE  /\ BookedInWindow(c) \in Int /\ Cardinality(Data[c]) <= BookedInWindow(c)
           /\ IsFiniteSet(Data[c]) /\ Cardinality(Data[c]) \in Nat
<1>1. /\ upstream[c] \subseteq 1 .. MaxESI /\ trimmed \subseteq Symbol
      /\ Port!Waiting \subseteq pending /\ pending \subseteq Symbol
      /\ sender[c] \in Hosts!Sender /\ Requests(receiver[c])
  BY DEF PathInv, PortTyped, SentOnce, HostsTyped
<1>2. Port!Waiting \ trimmed \subseteq Symbol /\ Lost \subseteq Symbol
  BY <1>1 DEF Lost
<1>3. /\ Data[c] = upstream[c] \cup ESIs(Port!Waiting \ trimmed, c)
      /\ Headers[c] = ESIs(trimmed, c) /\ Discarded[c] = Cardinality(ESIs(Lost, c))
  BY DataIs
<1>4. /\ ESIs(Port!Waiting \ trimmed, c) \subseteq 1 .. MaxESI
      /\ ESIs(trimmed, c) \subseteq 1 .. MaxESI /\ ESIs(Lost, c) \subseteq 1 .. MaxESI
  BY <1>1, <1>2, ESIsOf
<1>5. /\ IsFiniteSet(Data[c]) /\ Cardinality(Data[c]) \in Nat
      /\ Cardinality(Headers[c]) \in Nat /\ Discarded[c] \in Nat
  <2>1. IsFiniteSet(1 .. MaxESI)
    BY BoundsAssumption, FS_Interval
  <2>2. Data[c] \in SUBSET (1 .. MaxESI) /\ Headers[c] \in SUBSET (1 .. MaxESI)
    BY <1>1, <1>3, <1>4
  <2> QED
    BY <1>3, <1>4, <2>1, <2>2, FS_Subset, FS_CardinalityType
<1>6. CASE sender[c].opened
  <2> DEFINE missing == InitialWindow - Hosts!PushedWindow(c)
             unanswered == Hosts!PullsSent(c) - sender[c].request_id
  <2>1. receiver[c].sentPullsInWindow = missing + unanswered
            + (Cardinality(Data[c]) + Cardinality(Headers[c]) + Discarded[c])
    <3>1. receiver[c].sentPullsInWindow = missing + unanswered + Hosts!Outstanding(c)
      BY <1>6 DEF Hosts!WindowAccounting
    <3>2. Hosts!Outstanding(c) =
              Cardinality(Data[c]) + Cardinality(Headers[c]) + Discarded[c]
      BY SameCardinality DEF Hosts!Outstanding, Data, Headers, Discarded
    <3> HIDE DEF missing, unanswered
    <3> QED
      BY <3>1, <3>2
  <2>2. unanswered \in Nat
    <3>1. Len(receiver[c].pullQueue) \in Nat /\ receiver[c].request_id \in Nat
      BY <1>1 DEF Requests
    <3>2. sender[c].request_id \in Nat /\ sender[c].request_id <= Hosts!PullsSent(c)
      BY <1>1 DEF Hosts!Sender, Hosts!PullOrder
    <3> QED
      BY <3>1, <3>2 DEF Hosts!PullsSent
  <2>3. missing \in Int
    BY WindowFacts, TransfersAssumption
  <2>4. BookedInWindow(c) = receiver[c].sentPullsInWindow - missing
    BY <1>6 DEF BookedInWindow
  <2> HIDE DEF missing, unanswered
  <2> QED
    BY <1>5, <2>1, <2>2, <2>3, <2>4
<1>7. CASE ~sender[c].opened
  <2>1. upstream[c] = {} /\ \A s \in Port!Waiting : s[1] # c
    BY <1>1, <1>7, NothingPushed
  <2>2. Data[c] = {}
    BY <1>3, <2>1 DEF ESIs
  <2> QED
    BY <1>5, <1>7, <2>2, FS_EmptySet DEF BookedInWindow
<1> QED
  BY <1>5, <1>6, <1>7

LEMMA OverloadBooked ==
    ASSUME PathInv, Hosts!WindowAccounting, Hosts!PullOrder,
           NEW c \in Conns, NEW esi \in upstream[c], <<c, esi>> \notin pending,
           Port!IsFull
    PROVE  MapThenSumSet(BookedInWindow, Conns) > packetCapacity
<1> DEFINE D == Stored \cup {<<c, esi>>}
<1>1. /\ IsFiniteSet(Stored) /\ Cardinality(Stored) \in Nat
      /\ Cardinality(Stored) >= packetCapacity
      /\ Stored \subseteq Port!Waiting \ trimmed /\ Stored \subseteq Symbol
  BY StoredCount DEF Port!IsFull
<1>2. <<c, esi>> \notin Stored /\ <<c, esi>> \in Symbol
  BY <1>1 DEF PathInv, SentOnce, PortTyped, Symbol
<1>3. Cardinality(D) = Cardinality(Stored) + 1 /\ D \subseteq Symbol
  BY <1>1, <1>2, FS_AddElement
<1>4. ASSUME NEW d \in Conns
      PROVE  BookedInWindow(d) \in Int /\ Cardinality(ESIs(D, d)) <= BookedInWindow(d)
  <2>1. ESIs(D, d) \subseteq Data[d]
    <3>1. ASSUME NEW e \in ESIs(D, d) PROVE e \in Data[d]
      <4>1. <<d, e>> \in D
        BY <1>3, ESIsOf
      <4>2. CASE <<d, e>> = <<c, esi>>
        BY <4>2, DataIs
      <4>3. CASE <<d, e>> \in Stored
        <5>1. Port!Waiting \ trimmed \subseteq Symbol
          BY DEF PathInv, SentOnce, PortTyped
        <5>2. e \in ESIs(Port!Waiting \ trimmed, d)
          BY <1>1, <4>3, <5>1, ESIsOf
        <5> QED
          BY <5>2, DataIs
      <4> QED
        BY <4>1, <4>2, <4>3
    <3> QED
      BY <3>1
  <2>2. /\ BookedInWindow(d) \in Int /\ Cardinality(Data[d]) <= BookedInWindow(d)
        /\ IsFiniteSet(Data[d]) /\ Cardinality(Data[d]) \in Nat
    BY BooksCover
  <2>3. /\ IsFiniteSet(ESIs(D, d)) /\ Cardinality(ESIs(D, d)) <= Cardinality(Data[d])
        /\ Cardinality(ESIs(D, d)) \in Nat
    BY <2>1, <2>2, FS_Subset, FS_CardinalityType
  <2> QED
    BY <2>2, <2>3
<1> HIDE DEF D
<1>5. /\ MapThenSumSet(BookedInWindow, Conns) \in Int
      /\ Cardinality(D) <= MapThenSumSet(BookedInWindow, Conns)
  BY <1>3, <1>4, SumCovers
<1> QED
  BY <1>1, <1>3, <1>5, PortAssumption

(* Only a full port trims or loses, the symbol that is pushed into it.      *)
LEMMA StepsBooked ==
    ASSUME PathInv, Hosts!WindowAccounting, Hosts!PullOrder, [Next]_vars,
           trimmed' \ trimmed # {} \/ Lost' # Lost
    PROVE  MapThenSumSet(BookedInWindow, Conns) > packetCapacity
<1>1. ~UNCHANGED queueVars
  BY PortSame
<1>2. ~Pop
  <2> SUFFICES ASSUME Pop PROVE FALSE
    OBVIOUS
  <2>1. Port!PopPacket /\ UNCHANGED upstream
    BY DEF Pop
  <2>2. PICK p : Leaves(p)
    BY <2>1, Popped
  <2>3. Port!Waiting \subseteq pending
    BY DEF PathInv, SentOnce
  <2>4. Lost' = Lost /\ trimmed' \subseteq trimmed
    BY <2>2, <2>3 DEF Leaves, Lost
  <2> QED
    BY <2>4
<1>3. PICK c \in Conns : \E esi \in upstream[c] : Push(c, esi)
  BY <1>1, <1>2 DEF Next, SendInitialWindow, RcvPull, TimerExpires, vars
<1>4. PICK esi \in upstream[c] : Push(c, esi)
  BY <1>3
<1> DEFINE p == <<c, esi>>
<1>5. /\ p \notin pending /\ pending' = pending \cup {p}
      /\ \/ Port!Waiting' = Port!Waiting \cup {p} /\ trimmed' = trimmed
         \/ Port!IsFull
  BY <1>4, Pushed
<1>6. Port!IsFull
  <2>1. ASSUME Port!Waiting' = Port!Waiting \cup {p} PROVE Lost' = Lost
    BY <1>5, <2>1 DEF Lost
  <2> QED
    BY <1>5, <2>1
<1> QED
  BY <1>4, <1>5, <1>6, OverloadBooked

(* The port trims or loses only when the windows its receivers have booked *)
(* together exceed its memory: for any number of connections, whatever the *)
(* order in which their symbols, pulls and headers travel.                 *)
THEOREM OverloadsAreBooked == Spec => OverloadIsBooked
<1>1. Spec => []PathInv
  BY InitHolds, NextKeeps, PTL DEF Spec
<1>2. PathInv /\ Hosts!WindowAccounting /\ Hosts!PullOrder /\ [Next]_vars =>
          [trimmed' \ trimmed # {} \/ Lost' # Lost =>
              MapThenSumSet(BookedInWindow, Conns) > packetCapacity]_vars
  BY StepsBooked
<1> QED
  BY <1>1, <1>2, BooksKeptOverPort, PTL DEF Spec, OverloadIsBooked

=============================================================================
