-------------------------- MODULE TopologyEcmpProofs --------------------------
(***************************************************************************)
(* Proofs about the shortest path finders, for every graph, all weights    *)
(* and any changes between calculations: that both find the shortest       *)
(* paths, that the links of equal cost are complete and never make a loop, *)
(* and that a node popped from the queue is done with.  Both calculations  *)
(* keep one invariant, that of Dijkstra's algorithm: the queue is ordered  *)
(* by distance, no node in it is nearer than one that has left it, and the *)
(* links examined so far lead to no distance shorter than the one kept.    *)
(***************************************************************************)
EXTENDS TopologyEcmp, WellFoundedInduction, TLAPS

Calculated == phase \in Running \cup Found

WeightsCount == phase \in {"weighted", "foundWeighted"}

(* The distance of the node l comes from, by l, in the measure of the      *)
(* calculation.                                                            *)
PathDist(l) == IF WeightsCount THEN NewDist(l) ELSE Plus(dist[DestNode[l]], 1)

(* A link over which a node was, or could have been, reached.              *)
Examined(l) == InGraph(l) /\ Usable(l) /\ Settled(DestNode[l]) /\ l \notin links

(* The graph; unlike those of nodes, weights of links are positive.        *)
GraphTyped ==
    /\ linkWeight \in [Link -> Weight \ {0}] /\ linkEnabled \in [Link -> BOOLEAN]
    /\ nodeWeight \in [Node -> Weight] /\ nodeEnabled \in [Node -> BOOLEAN]
    /\ nodes \subseteq Node
    /\ inLinks \in [Node -> SUBSET Link] /\ \A n \in Node : \A l \in inLinks[n] : DestNode[l] = n
    /\ edits \in 0 .. MaxEdits

CalculationTyped ==
    /\ phase \in {"idle"} \cup Running \cup Found
    /\ target \in Node /\ dest \in Node
    /\ dist \in [Node -> Weight]
    /\ outPath \in [Node -> Link \cup {NoLink}]
    /\ outPathEcmp \in [Node -> Seq(Link)]
    /\ q \in Seq(Node) /\ links \subseteq inLinks[dest]
    /\ phase \notin Running => links = {} /\ q = <<>>

(* The queue holds nodes that were reached, each once, nearest first; those*)
(* that left it are at least as near.                                      *)
QueueOrdered ==
    /\ \A i, j \in DOMAIN q : i < j => q[i] # q[j] /\ dist[q[i]] <= dist[q[j]]
    /\ \A i \in DOMAIN q : dist[q[i]] \in Nat
    /\ \A n \in Node, i \in DOMAIN q : Settled(n) => dist[n] <= dist[q[i]]

(* The node popped is the last that was settled.                           *)
DestLast ==
    links # {} => Settled(dest) /\ \A n \in Node : Settled(n) => dist[n] <= dist[dest]

(* The nodes in the queue are at most a hop further than its first, and    *)
(* than the one popped.                                                    *)
HopApart ==
    ~WeightsCount =>
        /\ \A i, j \in DOMAIN q : dist[q[j]] <= dist[q[i]] + 1
        /\ links # {} => \A i \in DOMAIN q : dist[q[i]] <= dist[dest] + 1

(* Every distance is that of a path over examined links, ...               *)
PathsKept ==
    /\ dist[target] = 0 /\ outPath[target] = NoLink
    /\ \A n \in Node \ {target} :
        \/ dist[n] = INFINITY /\ outPath[n] = NoLink
        \/ /\ outPath[n] \in Link /\ SrcNode[outPath[n]] = n /\ Examined(outPath[n])
           /\ dist[n] \in Nat /\ dist[n] = PathDist(outPath[n])

(* ... and no examined link leads to a shorter one.                        *)
NoShorter ==
    \A l \in Link :
        Examined(l) /\ PathDist(l) # INFINITY =>
            dist[SrcNode[l]] \in Nat /\ dist[SrcNode[l]] <= PathDist(l)

(* The links of equal cost are examined ones, each there once; none that   *)
(* gives the distance kept is missing.                                     *)
EcmpKept ==
    WeightsCount =>
        /\ \A n \in Node : \A i \in DOMAIN outPathEcmp[n] :
              LET l == outPathEcmp[n][i]
              IN  /\ SrcNode[l] = n /\ Examined(l) /\ dist[n] \in Nat
                  /\ PathDist(l) # INFINITY /\ dist[DestNode[l]] < dist[n]
        /\ \A n \in Node : \A i, j \in DOMAIN outPathEcmp[n] :
              outPathEcmp[n][i] = outPathEcmp[n][j] => i = j
        /\ \A l \in Link :
              Examined(l) /\ PathDist(l) # INFINITY /\ dist[SrcNode[l]] = PathDist(l) =>
                \E i \in DOMAIN outPathEcmp[SrcNode[l]] : outPathEcmp[SrcNode[l]][i] = l

(* If the weights count hops, a tie is the only improvement there is.      *)
EcmpTies ==
    WeightsCount /\ HopCounts =>
        \A n \in Node : \A i \in DOMAIN outPathEcmp[n] :
            PathDist(outPathEcmp[n][i]) = dist[n]

CalculationInv ==
    Calculated =>
        /\ QueueOrdered /\ DestLast /\ HopApart /\ PathsKept /\ NoShorter
        /\ EcmpKept /\ EcmpTies

EcmpInv == GraphTyped /\ CalculationTyped /\ CalculationInv

-----------------------------------------------------------------------------
(* The queue: what taking a node out and putting one in leave in it.       *)

Elements(s) == {s[i] : i \in DOMAIN s}

(* Nodes in the order of the distances d, each once.                       *)
InOrder(s, d) == \A i, j \in DOMAIN s : i < j => s[i] # s[j] /\ d[s[i]] <= d[s[j]]

LEMMA Cut ==
    ASSUME NEW S, NEW s \in Seq(S), NEW k \in 1 .. Len(s)
    PROVE  LET r == RemoveAt(s, k)
           IN  /\ r \in Seq(S) /\ Len(r) = Len(s) - 1
               /\ \A i \in 1 .. Len(s) - 1 : r[i] = IF i < k THEN s[i] ELSE s[i + 1]
<1> DEFINE a == SubSeq(s, 1, k - 1)
           b == SubSeq(s, k + 1, Len(s))
           r == RemoveAt(s, k)
<1>1. /\ a \in Seq(S) /\ Len(a) = k - 1 /\ \A i \in 1 .. k - 1 : a[i] = s[i]
      /\ b \in Seq(S) /\ Len(b) = Len(s) - k
      /\ \A i \in 1 .. Len(s) - k : b[i] = s[i + k]
  OBVIOUS
<1>2. r = a \o b
  BY DEF RemoveAt
<1> HIDE DEF a, b, r
<1>3. r \in Seq(S) /\ Len(r) = Len(s) - 1
  BY <1>1, <1>2
<1>4. ASSUME NEW i \in 1 .. Len(s) - 1
      PROVE  r[i] = IF i < k THEN s[i] ELSE s[i + 1]
  <2>1. CASE i < k
    BY <1>1, <1>2, <2>1
  <2>2. CASE ~(i < k)
    <3>1. r[i] = b[i - (k - 1)]
      BY <1>1, <1>2, <2>2
    <3>2. i - (k - 1) \in 1 .. Len(s) - k
      BY <2>2
    <3>3. b[i - (k - 1)] = s[i - (k - 1) + k]
      BY <1>1, <3>2
    <3> QED
      BY <2>2, <3>1, <3>3
  <2> QED
    BY <2>1, <2>2
<1> QED
  BY <1>3, <1>4 DEF r

Spliced(s, k, e) == SubSeq(s, 1, k - 1) \o <<e>> \o SubSeq(s, k, Len(s))

LEMMA PutIn ==
    ASSUME NEW s \in Seq(Node), NEW k \in 1 .. Len(s) + 1, NEW e \in Node
    PROVE  LET t == Spliced(s, k, e)
           IN  /\ t \in Seq(Node) /\ Len(t) = Len(s) + 1
               /\ \A i \in 1 .. Len(s) + 1 :
                     t[i] = IF i < k THEN s[i] ELSE IF i = k THEN e ELSE s[i - 1]
<1> DEFINE a == SubSeq(s, 1, k - 1)
           b == SubSeq(s, k, Len(s))
           c == a \o <<e>>
           t == c \o b
<1>1. /\ a \in Seq(Node) /\ Len(a) = k - 1 /\ \A i \in 1 .. k - 1 : a[i] = s[i]
      /\ b \in Seq(Node) /\ Len(b) = Len(s) - k + 1
      /\ \A i \in 1 .. Len(s) - k + 1 : b[i] = s[i + k - 1]
  OBVIOUS
<1> HIDE DEF a, b
<1>2. /\ c \in Seq(Node) /\ Len(c) = k /\ c[k] = e
      /\ \A i \in 1 .. k - 1 : c[i] = s[i]
  <2>1. c = Append(a, e) /\ c \in Seq(Node) /\ Len(c) = Len(a) + 1
    BY <1>1
  <2>2. Append(a, e)[Len(a) + 1] = e /\ \A i \in 1 .. Len(a) : Append(a, e)[i] = a[i]
    BY <1>1
  <2>3. Len(a) + 1 = k /\ 1 .. Len(a) = 1 .. k - 1
    BY <1>1
  <2> HIDE DEF c
  <2> QED
    BY <1>1, <2>1, <2>2, <2>3
<1> HIDE DEF c
<1>3. t \in Seq(Node) /\ Len(t) = Len(s) + 1
  BY <1>1, <1>2
<1>4. ASSUME NEW i \in 1 .. Len(s) + 1
      PROVE  t[i] = IF i < k THEN s[i] ELSE IF i = k THEN e ELSE s[i - 1]
  <2>1. CASE i <= k
    BY <1>1, <1>2, <2>1
  <2>2. CASE ~(i <= k)
    <3>1. t[i] = b[i - k]
      BY <1>1, <1>2, <2>2
    <3>2. i - k \in 1 .. Len(s) - k + 1
      BY <2>2
    <3>3. b[i - k] = s[i - k + k - 1]
      BY <1>1, <3>2
    <3> QED
      BY <2>2, <3>1, <3>3
  <2> QED
    BY <2>1, <2>2
<1> QED
  BY <1>3, <1>4 DEF Spliced, c, a, b

(* n is taken out of a queue that may hold it.                             *)
LEMMA Removed ==
    ASSUME NEW S, NEW s \in Seq(S), NEW d, InOrder(s, d), NEW k \in DOMAIN s,
           \A i \in DOMAIN s : d[s[i]] \in Nat
    PROVE  LET r == RemoveAt(s, k)
           IN  r \in Seq(S) /\ InOrder(r, d) /\ Elements(r) = Elements(s) \ {s[k]}
<1> DEFINE r == RemoveAt(s, k)
<1>1. k \in 1 .. Len(s)
  OBVIOUS
<1>2. /\ r \in Seq(S) /\ Len(r) = Len(s) - 1
      /\ \A i \in 1 .. Len(s) - 1 : r[i] = IF i < k THEN s[i] ELSE s[i + 1]
  BY <1>1, Cut
<1> HIDE DEF r
<1>3. DOMAIN r = 1 .. Len(s) - 1 /\ DOMAIN s = 1 .. Len(s) /\ Len(s) \in Nat
  BY <1>2
<1>4. InOrder(r, d)
  <2>1. ASSUME NEW i \in DOMAIN r, NEW j \in DOMAIN r, i < j
        PROVE  r[i] # r[j] /\ d[r[i]] <= d[r[j]]
    <3> DEFINE m == IF i < k THEN i ELSE i + 1
               n == IF j < k THEN j ELSE j + 1
    <3>1. m \in DOMAIN s /\ n \in DOMAIN s /\ m < n
      BY <1>3, <2>1
    <3>2. r[i] = s[m] /\ r[j] = s[n]
      BY <1>2, <1>3
    <3> QED
      BY <3>1, <3>2 DEF InOrder
  <2> QED
    BY <2>1 DEF InOrder
<1>5. ASSUME NEW i \in DOMAIN r PROVE r[i] \in Elements(s) \ {s[k]}
  <2> DEFINE m == IF i < k THEN i ELSE i + 1
  <2>1. m \in DOMAIN s /\ m # k /\ r[i] = s[m]
    BY <1>2, <1>3
  <2>2. s[m] # s[k]
    BY <1>1, <1>3, <2>1 DEF InOrder
  <2> QED
    BY <2>1, <2>2 DEF Elements
<1>6. ASSUME NEW m \in DOMAIN s, s[m] # s[k] PROVE s[m] \in Elements(r)
  <2> DEFINE i == IF m < k THEN m ELSE m - 1
  <2>1. i \in DOMAIN r /\ r[i] = s[m]
    BY <1>1, <1>2, <1>3, <1>6
  <2> QED
    BY <2>1 DEF Elements
<1> QED
  BY <1>2, <1>4, <1>5, <1>6 DEF Elements, r

LEMMA LeastNatural ==
    ASSUME NEW T \in SUBSET Nat, T # {}
    PROVE  \E x \in T : \A y \in T : x <= y
<1> DEFINE Below == {pair \in Nat \X Nat : pair[1] < pair[2]}
<1>1. IsWellFoundedOn(Below, Nat)
  BY NatLessThanWellFounded DEF OpToRel
<1>2. PICK x \in T : \A y \in T : <<y, x>> \notin Below
  BY <1>1, WFMin
<1>3. \A y \in T : ~ (y < x)
  BY <1>2
<1> QED
  BY <1>2, <1>3

LEMMA Dequeued ==
    ASSUME q \in Seq(Node), QueueOrdered, NEW n
    PROVE  LET r == RemoveFromQueue(n)
           IN  r \in Seq(Node) /\ InOrder(r, dist) /\ Elements(r) = Elements(q) \ {n}
<1>1. InOrder(q, dist) /\ \A i \in DOMAIN q : dist[q[i]] \in Nat
  BY DEF QueueOrdered, InOrder
<1>2. CASE ~InQueue(n)
  <2>1. n \notin Elements(q)
    BY <1>2 DEF InQueue, Elements
  <2> QED
    BY <1>1, <1>2, <2>1 DEF RemoveFromQueue
<1>3. CASE InQueue(n)
  <2> DEFINE k == CHOOSE i \in DOMAIN q : q[i] = n
  <2>1. k \in DOMAIN q /\ q[k] = n
    BY <1>3 DEF InQueue
  <2>2. RemoveFromQueue(n) = RemoveAt(q, k)
    BY <1>3 DEF RemoveFromQueue
  <2> HIDE DEF k
  <2> QED
    BY <1>1, <2>1, <2>2, Removed
<1> QED
  BY <1>2, <1>3

(* n, which the queue does not hold, is put in at distance x, behind the   *)
(* nodes as near and before those further away.                            *)
LEMMA Inserted ==
    ASSUME dist \in [Node -> Weight], NEW s \in Seq(Node), InOrder(s, dist),
           \A i \in DOMAIN s : dist[s[i]] \in Nat,
           NEW n \in Node, n \notin Elements(s), NEW x \in Nat
    PROVE  LET t == Insert(s, n, x)
           IN  /\ t \in Seq(Node) /\ InOrder(t, [dist EXCEPT ![n] = x])
               /\ Elements(t) = Elements(s) \cup {n}
<1> DEFINE further == {i \in DOMAIN s : dist[s[i]] > x}
           k == CHOOSE i \in 1 .. Len(s) + 1 :
                    /\ i \in further \cup {Len(s) + 1}
                    /\ \A j \in further : i <= j
<1>1. Insert(s, n, x) = Spliced(s, k, n)
  BY DEF Insert, Spliced
<1>2. Len(s) \in Nat /\ DOMAIN s = 1 .. Len(s) /\ further \subseteq 1 .. Len(s)
  OBVIOUS
<1>3. \E i \in 1 .. Len(s) + 1 :
          i \in further \cup {Len(s) + 1} /\ \A j \in further : i <= j
  <2>1. further \cup {Len(s) + 1} \in SUBSET Nat /\ further \cup {Len(s) + 1} # {}
    BY <1>2
  <2>2. PICK i \in further \cup {Len(s) + 1} : \A j \in further \cup {Len(s) + 1} : i <= j
    BY <2>1, LeastNatural
  <2>3. i \in 1 .. Len(s) + 1
    BY <1>2
  <2> QED
    BY <2>2, <2>3
<1>4. /\ k \in 1 .. Len(s) + 1 /\ k \in further \cup {Len(s) + 1}
      /\ \A j \in further : k <= j
  BY <1>3
<1>5. \A j \in DOMAIN s : j \in further <=> dist[s[j]] > x
  OBVIOUS
<1> HIDE DEF k, further
<1>6. \A i \in 1 .. Len(s) : (i < k => dist[s[i]] <= x) /\ (k <= i => x <= dist[s[i]])
  <2>1. ASSUME NEW i \in 1 .. Len(s), i < k PROVE dist[s[i]] <= x
    <3>1. i \notin further
      BY <1>2, <1>4, <2>1
    <3> QED
      BY <1>2, <1>5, <3>1
  <2>2. ASSUME NEW i \in 1 .. Len(s), k <= i PROVE x <= dist[s[i]]
    <3>1. k \in DOMAIN s /\ k \in further
      BY <1>2, <1>4, <2>2
    <3>2. dist[s[k]] > x /\ dist[s[k]] \in Nat /\ dist[s[i]] \in Nat
      BY <1>2, <1>5, <3>1
    <3>3. k = i \/ dist[s[k]] <= dist[s[i]]
      BY <1>2, <1>4, <2>2, <3>1 DEF InOrder
    <3> QED
      BY <3>2, <3>3
  <2> QED
    BY <2>1, <2>2
<1> DEFINE e == [dist EXCEPT ![n] = x]
<1>7. e[n] = x /\ \A m \in Elements(s) : e[m] = dist[m]
  BY <1>2 DEF Elements
<1> HIDE DEF e
<1> DEFINE t == Spliced(s, k, n)
<1>8. /\ t \in Seq(Node) /\ Len(t) = Len(s) + 1
      /\ \A i \in 1 .. Len(s) + 1 :
            t[i] = IF i < k THEN s[i] ELSE IF i = k THEN n ELSE s[i - 1]
  BY <1>4, PutIn
<1> HIDE DEF t
<1>9. /\ DOMAIN t = 1 .. Len(s) + 1 /\ DOMAIN s = 1 .. Len(s) /\ Len(s) \in Nat
      /\ k \in 1 .. Len(s) + 1
  BY <1>4, <1>8
<1>10. ASSUME NEW i \in DOMAIN s PROVE s[i] # n /\ e[s[i]] = dist[s[i]] /\ dist[s[i]] \in Nat
  BY <1>7 DEF Elements
<1>11. InOrder(t, e)
  <2>1. ASSUME NEW i \in DOMAIN t, NEW j \in DOMAIN t, i < j
        PROVE  t[i] # t[j] /\ e[t[i]] <= e[t[j]]
    <3>1. CASE i = k
      <4>1. t[i] = n /\ t[j] = s[j - 1] /\ j - 1 \in DOMAIN s /\ k <= j - 1
        BY <1>8, <1>9, <2>1, <3>1
      <4> QED
        BY <1>6, <1>7, <1>9, <1>10, <4>1
    <3>2. CASE j = k
      <4>1. t[j] = n /\ t[i] = s[i] /\ i \in DOMAIN s /\ i < k
        BY <1>8, <1>9, <2>1, <3>2
      <4> QED
        BY <1>6, <1>7, <1>9, <1>10, <4>1
    <3>3. CASE i # k /\ j # k
      <4> DEFINE m == IF i < k THEN i ELSE i - 1
                 p == IF j < k THEN j ELSE j - 1
      <4>1. m \in DOMAIN s /\ p \in DOMAIN s /\ m < p
        BY <1>9, <2>1, <3>3
      <4>2. t[i] = s[m] /\ t[j] = s[p]
        BY <1>8, <1>9, <3>3
      <4>3. s[m] # s[p] /\ dist[s[m]] <= dist[s[p]]
        BY <4>1 DEF InOrder
      <4> QED
        BY <1>10, <4>1, <4>2, <4>3
    <3> QED
      BY <3>1, <3>2, <3>3
  <2> QED
    BY <2>1 DEF InOrder
<1>12. ASSUME NEW i \in DOMAIN t PROVE t[i] \in Elements(s) \cup {n}
  <2>1. CASE i = k
    BY <1>8, <1>9, <2>1
  <2>2. CASE i # k
    <3> DEFINE m == IF i < k THEN i ELSE i - 1
    <3>1. m \in DOMAIN s /\ t[i] = s[m]
      BY <1>8, <1>9, <2>2
    <3> QED
      BY <3>1 DEF Elements
  <2> QED
    BY <2>1, <2>2
<1>13. ASSUME NEW m \in DOMAIN s PROVE s[m] \in Elements(t)
  <2> DEFINE i == IF m < k THEN m ELSE m + 1
  <2>1. i \in DOMAIN t /\ t[i] = s[m]
    BY <1>8, <1>9
  <2> QED
    BY <2>1 DEF Elements
<1>14. n \in Elements(t)
  <2>1. k \in DOMAIN t /\ t[k] = n
    BY <1>8, <1>9
  <2> QED
    BY <2>1 DEF Elements
<1> QED
  BY <1>1, <1>8, <1>11, <1>12, <1>13, <1>14 DEF Elements, t, e

-----------------------------------------------------------------------------
(* Distances.                                                              *)

LEMMA PlusFacts ==
    ASSUME NEW x \in Weight, NEW y \in Weight
    PROVE  /\ Plus(x, y) \in Weight
           /\ Plus(x, y) # INFINITY => x \in Nat /\ y \in Nat /\ Plus(x, y) = x + y
           /\ x # INFINITY /\ y # INFINITY => Plus(x, y) = x + y
BY InfinityAssumption DEF Plus, Weight

(* A path is longer than what follows its first link.                      *)
LEMMA PathLonger ==
    ASSUME GraphTyped, CalculationTyped, NEW l \in Link
    PROVE  LET d == DestNode[l]
           IN  /\ SrcNode[l] \in Node /\ d \in Node /\ PathDist(l) \in Weight
               /\ PathDist(l) # INFINITY =>
                     PathDist(l) \in Nat /\ dist[d] \in Nat /\ dist[d] < PathDist(l)
               /\ ~WeightsCount /\ dist[d] \in Nat => PathDist(l) = dist[d] + 1
               /\ WeightsCount /\ PathDist(l) # INFINITY =>
                     /\ linkWeight[l] \in Nat /\ (d = target \/ nodeWeight[d] \in Nat)
                     /\ PathDist(l) = dist[d] + linkWeight[l]
                                        + (IF d = target THEN 0 ELSE nodeWeight[d])
<1> DEFINE d == DestNode[l]
           c == IF d = target THEN 0 ELSE nodeWeight[d]
           w == linkWeight[l]
<1>1. /\ d \in Node /\ dist[d] \in Weight /\ w \in Weight /\ w # 0 /\ c \in Weight
      /\ SrcNode[l] \in Node /\ 1 \in Weight
  BY GraphAssumption DEF GraphTyped, CalculationTyped, Weight
<1>2. NewDist(l) = Plus(Plus(dist[d], w), c)
  BY DEF NewDist
<1>3. /\ NewDist(l) \in Weight
      /\ NewDist(l) # INFINITY =>
            /\ dist[d] \in Nat /\ w \in Nat /\ c \in Nat /\ NewDist(l) = dist[d] + w + c
  <2> HIDE DEF d, c, w
  <2>1. Plus(dist[d], w) \in Weight
    BY <1>1, PlusFacts
  <2> DEFINE pw == Plus(dist[d], w)
  <2>2. pw # INFINITY => dist[d] \in Nat /\ w \in Nat /\ pw = dist[d] + w
    BY <1>1, PlusFacts
  <2> HIDE DEF pw
  <2>3. /\ Plus(pw, c) \in Weight
        /\ Plus(pw, c) # INFINITY => pw \in Nat /\ c \in Nat /\ Plus(pw, c) = pw + c
    BY <1>1, <2>1, PlusFacts DEF pw
  <2> QED
    BY <1>2, <2>2, <2>3, InfinityAssumption DEF pw
<1>4. /\ Plus(dist[d], 1) \in Weight
      /\ Plus(dist[d], 1) # INFINITY => dist[d] \in Nat
      /\ dist[d] \in Nat => Plus(dist[d], 1) = dist[d] + 1
  <2> HIDE DEF d
  <2> QED
    BY <1>1, PlusFacts, InfinityAssumption
<1>5. d = target \/ c = nodeWeight[d]
  OBVIOUS
<1>6. CASE WeightsCount
  <2>1. PathDist(l) = NewDist(l)
    BY <1>6 DEF PathDist
  <2>2. ASSUME NewDist(l) # INFINITY
        PROVE  NewDist(l) \in Nat /\ dist[d] < NewDist(l)
    <3> HIDE DEF d, c, w
    <3> QED
      BY <1>1, <1>3, <2>2
  <2> QED
    BY <1>1, <1>3, <1>5, <1>6, <2>1, <2>2
<1>7. CASE ~WeightsCount
  <2>1. PathDist(l) = Plus(dist[d], 1)
    BY <1>7 DEF PathDist
  <2> HIDE DEF d
  <2>2. PathDist(l) \in Weight /\ (PathDist(l) # INFINITY => dist[d] \in Nat)
        /\ (dist[d] \in Nat => PathDist(l) = dist[d] + 1)
    BY <1>4, <2>1
  <2> QED
    BY <1>1, <1>7, <2>2 DEF d
<1> QED
  BY <1>6, <1>7

-----------------------------------------------------------------------------
(* Examining a link.                                                       *)

(* What every step of a calculation leaves alone.                          *)
Underway ==
    /\ phase \in Running /\ GraphTyped /\ CalculationTyped /\ CalculationInv
    /\ UNCHANGED <<config, phase, target, edits>>

(* l leads to the node it comes from at a distance x no longer than the one*)
(* known, and the node moves to its place in the queue.                    *)
Reaches(l, x) ==
    /\ l \in links /\ Usable(l) /\ x = PathDist(l) /\ x # INFINITY
    /\ dist[SrcNode[l]] # INFINITY => x <= dist[SrcNode[l]]
    /\ dist' = [dist EXCEPT ![SrcNode[l]] = x]
    /\ outPath' = [outPath EXCEPT ![SrcNode[l]] = l]
    /\ links' = links \ {l} /\ dest' = dest
    /\ q' \in Seq(Node) /\ InOrder(q', dist')
    /\ Elements(q') = Elements(q) \cup {SrcNode[l]}

LEMMA QueuedNodes == \A n : InQueue(n) <=> n \in Elements(q)
BY DEF InQueue, Elements

LEMMA UnderwayFacts ==
    ASSUME Underway
    PROVE  /\ QueueOrdered /\ DestLast /\ HopApart /\ PathsKept /\ NoShorter
           /\ EcmpKept /\ EcmpTies
           /\ dist \in [Node -> Weight] /\ q \in Seq(Node) /\ dest \in Node /\ target \in Node
           /\ \A l \in links : l \in Link /\ DestNode[l] = dest /\ InGraph(l)
           /\ \A l \in Link : InGraph(l)' <=> InGraph(l)
           /\ \A l \in Link : Usable(l)' <=> Usable(l)
           /\ WeightsCount' <=> WeightsCount
           /\ HopCounts' <=> HopCounts
<1>1. Calculated
  BY DEF Underway, Calculated
<1>2. ASSUME NEW l \in links PROVE l \in Link /\ DestNode[l] = dest /\ InGraph(l)
  BY DEF Underway, CalculationTyped, GraphTyped, InGraph
<1>3. /\ UNCHANGED <<linkWeight, linkEnabled, nodeWeight, nodeEnabled, nodes, inLinks>>
      /\ UNCHANGED phase
  BY DEF Underway, config
<1>4. /\ \A l \in Link : InGraph(l)' <=> InGraph(l)
      /\ \A l \in Link : Usable(l)' <=> Usable(l)
  BY <1>3 DEF InGraph, Usable
<1>5. (WeightsCount' <=> WeightsCount) /\ (HopCounts' <=> HopCounts)
  BY <1>3 DEF WeightsCount, HopCounts, Live, InGraph
<1> QED
  BY <1>1, <1>2, <1>4, <1>5 DEF Underway, CalculationInv, CalculationTyped

LEMMA SettledDistance ==
    ASSUME dist \in [Node -> Weight], NEW n \in Node, Settled(n)
    PROVE  dist[n] \in Nat
BY DEF Settled, Weight

(* A node that was settled is not reached again.                           *)
LEMMA OnlyUnsettled ==
    ASSUME Underway, NEW l, NEW x, Reaches(l, x)
    PROVE  LET src == SrcNode[l]
           IN  /\ l \in Link /\ src \in Node /\ DestNode[l] = dest /\ InGraph(l)
               /\ x \in Nat /\ dist[dest] \in Nat /\ dist[dest] < x
               /\ Settled(dest) /\ ~Settled(src) /\ src # target /\ src # dest
               /\ \A n \in Node : Settled(n) => dist[n] <= dist[dest]
<1> DEFINE src == SrcNode[l]
<1>1. /\ l \in Link /\ DestNode[l] = dest /\ InGraph(l)
      /\ dist \in [Node -> Weight] /\ dest \in Node /\ target \in Node
      /\ DestLast /\ PathsKept
  BY UnderwayFacts DEF Reaches
<1>2. /\ src \in Node /\ x \in Nat /\ dist[dest] \in Nat /\ dist[dest] < x
  BY <1>1, PathLonger DEF Underway, Reaches
<1>3. Settled(dest) /\ \A n \in Node : Settled(n) => dist[n] <= dist[dest]
  BY <1>1 DEF DestLast, Reaches
<1>4. ~Settled(src)
  <2>1. ASSUME Settled(src) PROVE FALSE
    <3>1. dist[src] \in Nat /\ dist[src] <= dist[dest]
      BY <1>1, <1>2, <1>3, <2>1, SettledDistance
    <3>2. x <= dist[src]
      BY <3>1, InfinityAssumption DEF Reaches
    <3> QED
      BY <1>2, <3>1, <3>2
  <2> QED
    BY <2>1
<1>5. src # target
  <2>1. ASSUME src = target PROVE FALSE
    <3>1. dist[src] = 0
      BY <1>1, <2>1 DEF PathsKept
    <3>2. x <= 0
      BY <3>1, InfinityAssumption DEF Reaches
    <3> QED
      BY <1>2, <3>2
  <2> QED
    BY <2>1
<1> QED
  BY <1>1, <1>2, <1>3, <1>4, <1>5

LEMMA ReachedOnce ==
    ASSUME Underway, NEW l, NEW x, Reaches(l, x)
    PROVE  /\ dist'[SrcNode[l]] = x /\ outPath'[SrcNode[l]] = l
           /\ \A n \in Node \ {SrcNode[l]} : dist'[n] = dist[n] /\ outPath'[n] = outPath[n]
           /\ \A n \in Node : Settled(n)' <=> Settled(n)
           /\ \A n \in Node : Settled(n) => dist'[n] = dist[n]
           /\ \A m \in Link : Settled(DestNode[m]) => PathDist(m)' = PathDist(m)
           /\ \A m \in Link : Examined(m)' <=> Examined(m) \/ m = l
<1> DEFINE src == SrcNode[l]
<1>1. /\ l \in Link /\ src \in Node /\ DestNode[l] = dest /\ InGraph(l)
      /\ Settled(dest) /\ ~Settled(src) /\ x \in Nat
  BY OnlyUnsettled
<1>2. /\ dist' = [dist EXCEPT ![src] = x] /\ outPath' = [outPath EXCEPT ![src] = l]
      /\ links' = links \ {l} /\ l \in links
      /\ Elements(q') = Elements(q) \cup {src}
  BY DEF Reaches
<1>3. /\ dist \in [Node -> Weight] /\ outPath \in [Node -> Link \cup {NoLink}]
  BY DEF Underway, CalculationTyped
<1> HIDE DEF src
<1>4. /\ dist'[src] = x /\ outPath'[src] = l
      /\ \A n \in Node \ {src} : dist'[n] = dist[n] /\ outPath'[n] = outPath[n]
  BY <1>1, <1>2, <1>3
<1>5. \A n : InQueue(n)' <=> InQueue(n) \/ n = src
  BY <1>2 DEF InQueue, Elements
<1>6. ASSUME NEW n \in Node PROVE Settled(n)' <=> Settled(n)
  <2>1. CASE n = src
    BY <1>1, <1>5, <2>1 DEF Settled
  <2>2. CASE n # src
    BY <1>4, <1>5, <2>2 DEF Settled
  <2> QED
    BY <2>1, <2>2
<1>7. \A n \in Node : Settled(n) => dist'[n] = dist[n]
  BY <1>1, <1>4
<1>8. ASSUME NEW m \in Link, Settled(DestNode[m]) PROVE PathDist(m)' = PathDist(m)
  <2>1. DestNode[m] \in Node /\ dist'[DestNode[m]] = dist[DestNode[m]]
    BY <1>7, <1>8, GraphAssumption
  <2>2. UNCHANGED <<linkWeight, nodeWeight, target, phase>>
    BY DEF Underway, config
  <2> QED
    BY <2>1, <2>2 DEF PathDist, WeightsCount, NewDist, Plus
<1>9. ASSUME NEW m \in Link PROVE Examined(m)' <=> Examined(m) \/ m = l
  <2>1. /\ InGraph(m)' <=> InGraph(m)
        /\ Usable(m)' <=> Usable(m)
        /\ Settled(DestNode[m])' <=> Settled(DestNode[m])
    BY <1>6, UnderwayFacts, GraphAssumption
  <2>2. Usable(l)
    BY DEF Reaches
  <2> QED
    BY <1>1, <1>2, <2>1, <2>2 DEF Examined
<1> QED
  BY <1>4, <1>6, <1>7, <1>8, <1>9 DEF src

(* Reaching a node keeps the order of the queue and the paths.             *)
LEMMA ReachedKeeps ==
    ASSUME Underway, NEW l, NEW x, Reaches(l, x)
    PROVE  QueueOrdered' /\ DestLast' /\ PathsKept' /\ NoShorter'
<1> DEFINE src == SrcNode[l]
<1>1. /\ l \in Link /\ src \in Node /\ DestNode[l] = dest /\ InGraph(l)
      /\ x \in Nat /\ dist[dest] \in Nat /\ dist[dest] < x
      /\ Settled(dest) /\ ~Settled(src) /\ src # target /\ src # dest
      /\ \A n \in Node : Settled(n) => dist[n] <= dist[dest]
  BY OnlyUnsettled
<1>2. /\ dist'[src] = x /\ outPath'[src] = l
      /\ \A n \in Node \ {src} : dist'[n] = dist[n] /\ outPath'[n] = outPath[n]
      /\ \A n \in Node : Settled(n)' <=> Settled(n)
      /\ \A n \in Node : Settled(n) => dist'[n] = dist[n]
      /\ \A m \in Link : Settled(DestNode[m]) => PathDist(m)' = PathDist(m)
      /\ \A m \in Link : Examined(m)' <=> Examined(m) \/ m = l
  BY ReachedOnce
<1>3. /\ QueueOrdered /\ PathsKept /\ NoShorter
      /\ dist \in [Node -> Weight] /\ q \in Seq(Node) /\ dest \in Node /\ target \in Node
  BY UnderwayFacts
<1>4. /\ q' \in Seq(Node) /\ InOrder(q', dist') /\ Elements(q') = Elements(q) \cup {src}
      /\ dist[src] # INFINITY => x <= dist[src]
      /\ x = PathDist(l) /\ x # INFINITY /\ links' \subseteq links /\ dest' = dest
  BY DEF Reaches
<1>5. target' = target
  BY DEF Underway
<1> HIDE DEF src
<1>6. ASSUME NEW i \in DOMAIN q'
      PROVE  /\ dist'[q'[i]] \in Nat
             /\ \A n \in Node : Settled(n)' => dist'[n] <= dist'[q'[i]]
  <2>1. q'[i] \in Elements(q')
    BY DEF Elements
  <2>2. CASE q'[i] = src
    <3>1. ASSUME NEW n \in Node, Settled(n)' PROVE dist'[n] <= x
      <4>1. Settled(n) /\ dist'[n] = dist[n] /\ dist[n] <= dist[dest]
        BY <1>1, <1>2, <3>1
      <4>2. dist[n] \in Nat
        BY <1>3, <4>1, SettledDistance
      <4> QED
        BY <1>1, <4>1, <4>2
    <3> QED
      BY <1>1, <1>2, <2>2, <3>1
  <2>3. CASE q'[i] # src
    <3>1. PICK j \in DOMAIN q : q[j] = q'[i]
      BY <1>4, <2>1, <2>3 DEF Elements
    <3>2. q[j] \in Node /\ dist'[q'[i]] = dist[q[j]]
      BY <1>2, <1>3, <2>3, <3>1
    <3> QED
      BY <1>2, <1>3, <3>2 DEF QueueOrdered
  <2> QED
    BY <2>2, <2>3
<1>7. QueueOrdered'
  BY <1>4, <1>6 DEF QueueOrdered, InOrder
<1>8. DestLast'
  BY <1>1, <1>2, <1>3, <1>4 DEF DestLast
<1>9. PathDist(l)' = x
  BY <1>1, <1>2, <1>4
<1>10. PathsKept'
  <2>1. dist'[target] = 0 /\ outPath'[target] = NoLink
    BY <1>1, <1>2, <1>3 DEF PathsKept
  <2>2. ASSUME NEW n \in Node \ {target}
        PROVE  \/ dist'[n] = INFINITY /\ outPath'[n] = NoLink
               \/ /\ outPath'[n] \in Link /\ SrcNode[outPath'[n]] = n
                  /\ Examined(outPath[n])'
                  /\ dist'[n] \in Nat /\ dist'[n] = PathDist(outPath[n])'
    <3>1. CASE n = src
      <4>1. Examined(outPath[n])' /\ PathDist(outPath[n])' = x
        BY <1>1, <1>2, <1>9, <3>1
      <4> QED
        BY <1>1, <1>2, <3>1, <4>1 DEF src
    <3>2. CASE n # src
      <4>1. dist'[n] = dist[n] /\ outPath'[n] = outPath[n]
        BY <1>2, <3>2
      <4>2. CASE dist[n] = INFINITY /\ outPath[n] = NoLink
        BY <4>1, <4>2
      <4>3. CASE /\ outPath[n] \in Link /\ SrcNode[outPath[n]] = n /\ Examined(outPath[n])
                 /\ dist[n] \in Nat /\ dist[n] = PathDist(outPath[n])
        <5> DEFINE m == outPath[n]
        <5>1. Settled(DestNode[m])
          BY <4>3 DEF Examined
        <5>2. Examined(m)' /\ PathDist(m)' = PathDist(m)
          BY <1>2, <4>1, <4>3, <5>1
        <5> QED
          BY <4>1, <4>3, <5>2
      <4> QED
        BY <1>3, <4>2, <4>3 DEF PathsKept
    <3> QED
      BY <3>1, <3>2
  <2> QED
    BY <1>5, <2>1, <2>2 DEF PathsKept
<1>11. NoShorter'
  <2>1. ASSUME NEW m \in Link, Examined(m)', PathDist(m)' # INFINITY
        PROVE  dist'[SrcNode[m]] \in Nat /\ dist'[SrcNode[m]] <= PathDist(m)'
    <3>1. CASE m = l
      BY <1>1, <1>2, <1>9, <3>1 DEF src
    <3>2. CASE m # l
      <4>1. Examined(m) /\ PathDist(m)' = PathDist(m)
        BY <1>2, <2>1, <3>2 DEF Examined
      <4>2. dist[SrcNode[m]] \in Nat /\ dist[SrcNode[m]] <= PathDist(m)
        BY <1>3, <2>1, <4>1 DEF NoShorter
      <4>3. SrcNode[m] \in Node /\ PathDist(m) \in Nat
        BY <2>1, <4>1, PathLonger DEF Underway
      <4>4. CASE SrcNode[m] = src
        BY <1>1, <1>2, <1>4, <4>1, <4>2, <4>3, <4>4, InfinityAssumption
      <4>5. CASE SrcNode[m] # src
        BY <1>2, <4>1, <4>2, <4>3, <4>5
      <4> QED
        BY <4>4, <4>5
    <3> QED
      BY <3>1, <3>2
  <2> QED
    BY <2>1 DEF NoShorter
<1> QED
  BY <1>7, <1>8, <1>10, <1>11

(* The links of equal cost, when one is added.                             *)
LEMMA EcmpAdded ==
    ASSUME Underway, WeightsCount, NEW l, NEW x, Reaches(l, x), outPathEcmp' = AddEcmp(l)
    PROVE  /\ outPathEcmp'[SrcNode[l]] = Append(outPathEcmp[SrcNode[l]], l)
           /\ outPathEcmp[SrcNode[l]] \in Seq(Link)
           /\ \A n \in Node \ {SrcNode[l]} : outPathEcmp'[n] = outPathEcmp[n]
           /\ \A n \in Node : \A i \in DOMAIN outPathEcmp'[n] :
                 \/ /\ i \in DOMAIN outPathEcmp[n]
                    /\ outPathEcmp'[n][i] = outPathEcmp[n][i]
                 \/ /\ n = SrcNode[l] /\ outPathEcmp'[n][i] = l
                    /\ i = Len(outPathEcmp[n]) + 1
<1> DEFINE src == SrcNode[l]
           old == outPathEcmp[src]
<1>1. src \in Node /\ l \in Link /\ outPathEcmp \in [Node -> Seq(Link)] /\ old \in Seq(Link)
  BY OnlyUnsettled DEF Underway, CalculationTyped
<1>2. /\ outPathEcmp'[src] = Append(old, l)
      /\ \A n \in Node \ {src} : outPathEcmp'[n] = outPathEcmp[n]
  BY <1>1 DEF AddEcmp
<1>3. ASSUME NEW n \in Node, NEW i \in DOMAIN outPathEcmp'[n]
      PROVE  \/ /\ i \in DOMAIN outPathEcmp[n]
                /\ outPathEcmp'[n][i] = outPathEcmp[n][i]
             \/ /\ n = src /\ outPathEcmp'[n][i] = l
                /\ i = Len(outPathEcmp[n]) + 1
  <2>1. CASE n # src
    BY <1>2, <2>1
  <2>2. CASE n = src
    <3>1. /\ DOMAIN Append(old, l) = 1 .. Len(old) + 1 /\ DOMAIN old = 1 .. Len(old)
          /\ Len(old) \in Nat /\ Append(old, l)[Len(old) + 1] = l
          /\ \A j \in 1 .. Len(old) : Append(old, l)[j] = old[j]
      BY <1>1
    <3> HIDE DEF src
    <3> QED
      BY <1>2, <2>2, <3>1
  <2> QED
    BY <2>1, <2>2
<1> QED
  BY <1>1, <1>2, <1>3

LEMMA ReachedEcmp ==
    ASSUME Underway, WeightsCount, NEW l, NEW x, Reaches(l, x), outPathEcmp' = AddEcmp(l)
    PROVE  EcmpKept' /\ EcmpTies'
<1> DEFINE src == SrcNode[l]
<1>1. /\ l \in Link /\ src \in Node /\ DestNode[l] = dest /\ InGraph(l)
      /\ x \in Nat /\ dist[dest] \in Nat /\ dist[dest] < x
      /\ Settled(dest) /\ ~Settled(src) /\ src # target /\ src # dest
      /\ \A n \in Node : Settled(n) => dist[n] <= dist[dest]
  BY OnlyUnsettled
<1>2. /\ dist'[src] = x
      /\ \A n \in Node \ {src} : dist'[n] = dist[n]
      /\ \A n \in Node : Settled(n) => dist'[n] = dist[n]
      /\ \A m \in Link : Settled(DestNode[m]) => PathDist(m)' = PathDist(m)
      /\ \A m \in Link : Examined(m)' <=> Examined(m) \/ m = l
  BY ReachedOnce
<1>3. /\ EcmpKept /\ EcmpTies /\ NoShorter /\ PathsKept
      /\ dist \in [Node -> Weight] /\ dest \in Node /\ target \in Node
      /\ (HopCounts' <=> HopCounts)
  BY UnderwayFacts
<1>4. /\ dist[src] # INFINITY => x <= dist[src]
      /\ x = PathDist(l) /\ x # INFINITY /\ l \in links
  BY DEF Reaches
<1>5. /\ outPathEcmp'[src] = Append(outPathEcmp[src], l)
      /\ outPathEcmp[src] \in Seq(Link)
      /\ \A n \in Node \ {src} : outPathEcmp'[n] = outPathEcmp[n]
      /\ \A n \in Node : \A i \in DOMAIN outPathEcmp'[n] :
            \/ i \in DOMAIN outPathEcmp[n] /\ outPathEcmp'[n][i] = outPathEcmp[n][i]
            \/ /\ n = src /\ outPathEcmp'[n][i] = l
               /\ i = Len(outPathEcmp[n]) + 1
  BY EcmpAdded
<1>6. \A n \in Node : outPathEcmp[n] \in Seq(Link)
  BY DEF Underway, CalculationTyped
<1>7. PathDist(l)' = x /\ Examined(l)' /\ dist'[dest] = dist[dest] /\ ~Examined(l)
  BY <1>1, <1>2, <1>3, <1>4 DEF Examined
<1>8. \A m \in Link : /\ DestNode[m] \in Node /\ SrcNode[m] \in Node
                      /\ PathDist(m) \in Weight
                      /\ PathDist(m) # INFINITY => PathDist(m) \in Nat
  BY PathLonger DEF Underway
<1>9. ASSUME NEW n \in Node, NEW i \in DOMAIN outPathEcmp[n]
      PROVE  LET m == outPathEcmp[n][i]
             IN  /\ m \in Link /\ m # l /\ SrcNode[m] = n /\ Examined(m) /\ dist[n] \in Nat
                 /\ PathDist(m) # INFINITY /\ dist[DestNode[m]] < dist[n]
                 /\ Settled(DestNode[m]) /\ dist[DestNode[m]] \in Nat
  <2> DEFINE m == outPathEcmp[n][i]
  <2>1. m \in Link
    BY <1>6
  <2>2. /\ SrcNode[m] = n /\ Examined(m) /\ dist[n] \in Nat
        /\ PathDist(m) # INFINITY /\ dist[DestNode[m]] < dist[n]
    BY <1>3 DEF EcmpKept
  <2>3. Settled(DestNode[m])
    BY <2>2 DEF Examined
  <2> QED
    BY <1>3, <1>7, <1>8, <2>1, <2>2, <2>3, SettledDistance
<1> HIDE DEF src
<1>10. ASSUME NEW n \in Node, NEW i \in DOMAIN outPathEcmp'[n],
              NEW m, m = outPathEcmp'[n][i]
       PROVE  /\ SrcNode[m] = n /\ Examined(m)' /\ dist'[n] \in Nat
              /\ PathDist(m)' # INFINITY /\ dist'[DestNode[m]] < dist'[n]
  <2>1. CASE n = src /\ m = l
    BY <1>1, <1>2, <1>4, <1>7, <2>1 DEF src
  <2>2. CASE i \in DOMAIN outPathEcmp[n] /\ m = outPathEcmp[n][i]
    <3>1. /\ m \in Link /\ SrcNode[m] = n /\ Examined(m) /\ dist[n] \in Nat
          /\ PathDist(m) # INFINITY /\ dist[DestNode[m]] < dist[n]
          /\ Settled(DestNode[m]) /\ dist[DestNode[m]] \in Nat
      BY <1>9, <2>2
    <3>2. /\ Examined(m)' /\ PathDist(m)' = PathDist(m) /\ DestNode[m] \in Node
          /\ dist'[DestNode[m]] = dist[DestNode[m]] /\ dist[DestNode[m]] <= dist[dest]
      BY <1>1, <1>2, <1>8, <3>1
    <3>3. CASE n = src
      BY <1>1, <1>2, <3>1, <3>2, <3>3
    <3>4. CASE n # src
      BY <1>2, <3>1, <3>2, <3>4
    <3> QED
      BY <3>3, <3>4
  <2> QED
    BY <1>5, <1>10, <2>1, <2>2
<1> DEFINE Apart == \A n \in Node : \A i, j \in DOMAIN outPathEcmp[n] :
                       outPathEcmp[n][i] = outPathEcmp[n][j] => i = j
<1>apart. Apart
  BY <1>3 DEF EcmpKept
<1>11. ASSUME NEW n \in Node, NEW i \in DOMAIN outPathEcmp'[n],
              NEW j \in DOMAIN outPathEcmp'[n], outPathEcmp'[n][i] = outPathEcmp'[n][j]
       PROVE  i = j
  <2>1. CASE i \in DOMAIN outPathEcmp[n] /\ j \in DOMAIN outPathEcmp[n]
             /\ outPathEcmp'[n][i] = outPathEcmp[n][i]
             /\ outPathEcmp'[n][j] = outPathEcmp[n][j]
    BY <1>11, <1>apart, <2>1
  <2>2. CASE i = Len(outPathEcmp[n]) + 1 /\ outPathEcmp'[n][i] = l
    BY <1>5, <1>9, <1>11, <2>2
  <2>3. CASE j = Len(outPathEcmp[n]) + 1 /\ outPathEcmp'[n][j] = l
    BY <1>5, <1>9, <1>11, <2>3
  <2> QED
    BY <1>5, <2>1, <2>2, <2>3
<1>12. ASSUME NEW n \in Node, NEW i \in DOMAIN outPathEcmp[n]
       PROVE  i \in DOMAIN outPathEcmp'[n] /\ outPathEcmp'[n][i] = outPathEcmp[n][i]
  <2>1. CASE n = src
    BY <1>5, <2>1
  <2>2. CASE n # src
    BY <1>5, <2>2
  <2> QED
    BY <2>1, <2>2
<1>13. ASSUME NEW m \in Link, Examined(m)', PathDist(m)' # INFINITY,
              dist'[SrcNode[m]] = PathDist(m)'
       PROVE  \E i \in DOMAIN outPathEcmp'[SrcNode[m]] : outPathEcmp'[SrcNode[m]][i] = m
  <2>1. CASE m = l
    <3>1. Len(outPathEcmp[src]) + 1 \in DOMAIN outPathEcmp'[src]
          /\ outPathEcmp'[src][Len(outPathEcmp[src]) + 1] = l
      BY <1>1, <1>5
    <3> QED
      BY <2>1, <3>1 DEF src
  <2>2. CASE m # l
    <3>1. Examined(m) /\ PathDist(m)' = PathDist(m)
      BY <1>2, <1>13, <2>2 DEF Examined
    <3>2. dist[SrcNode[m]] \in Nat /\ dist[SrcNode[m]] <= PathDist(m) /\ PathDist(m) \in Nat
      BY <1>3, <1>8, <1>13, <3>1 DEF NoShorter
    <3>3. dist[SrcNode[m]] = PathDist(m)
      <4>1. CASE SrcNode[m] = src
        BY <1>1, <1>2, <1>4, <1>13, <3>1, <3>2, <4>1, InfinityAssumption
      <4>2. CASE SrcNode[m] # src
        BY <1>2, <1>8, <1>13, <3>1, <4>2
      <4> QED
        BY <4>1, <4>2
    <3>4. PICK i \in DOMAIN outPathEcmp[SrcNode[m]] : outPathEcmp[SrcNode[m]][i] = m
      BY <1>3, <1>13, <3>1, <3>3 DEF EcmpKept
    <3> QED
      BY <1>8, <1>12, <3>4
  <2> QED
    BY <2>1, <2>2
<1>14. EcmpKept'
  BY <1>10, <1>11, <1>13 DEF EcmpKept
<1>15. ASSUME HopCounts, dist[src] # INFINITY PROVE dist[src] = x
  <2> DEFINE p == outPath[src]
             d == DestNode[p]
  <2>1. /\ p \in Link /\ Examined(p) /\ dist[src] \in Nat /\ dist[src] = PathDist(p)
    BY <1>1, <1>3, <1>15 DEF PathsKept
  <2>2. /\ linkWeight[l] \in Nat /\ (dest = target \/ nodeWeight[dest] \in Nat)
        /\ PathDist(l) = dist[dest] + linkWeight[l]
                           + (IF dest = target THEN 0 ELSE nodeWeight[dest])
    BY <1>1, <1>4, PathLonger DEF Underway
  <2>3. /\ linkWeight[p] \in Nat /\ (d = target \/ nodeWeight[d] \in Nat)
        /\ PathDist(p) = dist[d] + linkWeight[p]
                           + (IF d = target THEN 0 ELSE nodeWeight[d])
    BY <2>1, PathLonger, InfinityAssumption DEF Underway
  <2>4. d \in Node /\ dist[d] \in Nat /\ dist[d] <= dist[dest]
    BY <1>1, <1>3, <1>8, <2>1, SettledDistance DEF Examined
  <2>5. /\ linkWeight[p] = linkWeight[l]
        /\ nodeWeight[d] \in {0, INFINITY} /\ nodeWeight[dest] \in {0, INFINITY}
    BY <1>1, <1>3, <1>15, <2>1, <2>4 DEF HopCounts, Live, Examined
  <2> HIDE DEF p, d
  <2>6. /\ PathDist(l) = dist[dest] + linkWeight[l]
        /\ PathDist(p) = dist[d] + linkWeight[l]
    BY <1>1, <2>2, <2>3, <2>4, <2>5, InfinityAssumption
  <2> QED
    BY <1>1, <1>4, <1>15, <2>1, <2>2, <2>4, <2>6
<1>16. EcmpTies'
  <2>1. ASSUME HopCounts, NEW n \in Node, NEW i \in DOMAIN outPathEcmp'[n],
               NEW m, m = outPathEcmp'[n][i]
        PROVE  PathDist(m)' = dist'[n]
    <3>1. CASE n = src /\ m = l
      BY <1>2, <1>7, <3>1
    <3>2. CASE i \in DOMAIN outPathEcmp[n] /\ m = outPathEcmp[n][i]
      <4>1. /\ m \in Link /\ Settled(DestNode[m]) /\ dist[n] \in Nat /\ PathDist(m) = dist[n]
        BY <1>3, <1>9, <2>1, <3>2 DEF EcmpTies
      <4>2. PathDist(m)' = dist[n]
        BY <1>2, <4>1
      <4>3. dist'[n] = dist[n]
        BY <1>2, <1>15, <2>1, <4>1, InfinityAssumption
      <4> QED
        BY <4>2, <4>3
    <3> QED
      BY <1>5, <2>1, <3>1, <3>2
  <2> QED
    BY <1>3, <2>1 DEF EcmpTies
<1> QED
  BY <1>14, <1>16

(* Where no distance changes, the paths stay if a link that has become an  *)
(* examined one leads to no shorter path.                                  *)
LEMMA PathsStay ==
    ASSUME PathsKept, NoShorter, EcmpKept, EcmpTies, outPathEcmp \in [Node -> Seq(Link)],
           UNCHANGED <<dist, outPath, outPathEcmp, target>>,
           WeightsCount' <=> WeightsCount, HopCounts' <=> HopCounts,
           \A m \in Link : PathDist(m)' = PathDist(m),
           \A m \in Link : Examined(m) => Examined(m)',
           \A m \in Link : Examined(m)' =>
              \/ Examined(m) \/ PathDist(m) = INFINITY
              \/ /\ dist[SrcNode[m]] \in Nat /\ dist[SrcNode[m]] <= PathDist(m)
                 /\ WeightsCount => dist[SrcNode[m]] # PathDist(m)
    PROVE  PathsKept' /\ NoShorter' /\ EcmpKept' /\ EcmpTies'
<1>1. PathsKept'
  <2>1. ASSUME NEW n \in Node \ {target}
        PROVE  \/ dist'[n] = INFINITY /\ outPath'[n] = NoLink
               \/ /\ outPath'[n] \in Link /\ SrcNode[outPath'[n]] = n
                  /\ Examined(outPath[n])'
                  /\ dist'[n] \in Nat /\ dist'[n] = PathDist(outPath[n])'
    <3>1. CASE dist[n] = INFINITY /\ outPath[n] = NoLink
      BY <3>1
    <3>2. CASE /\ outPath[n] \in Link /\ SrcNode[outPath[n]] = n /\ Examined(outPath[n])
               /\ dist[n] \in Nat /\ dist[n] = PathDist(outPath[n])
      BY <3>2
    <3> QED
      BY <3>1, <3>2 DEF PathsKept
  <2> QED
    BY <2>1 DEF PathsKept
<1>2. NoShorter'
  <2>1. ASSUME NEW m \in Link, Examined(m)', PathDist(m)' # INFINITY
        PROVE  dist'[SrcNode[m]] \in Nat /\ dist'[SrcNode[m]] <= PathDist(m)'
    BY <2>1 DEF NoShorter
  <2> QED
    BY <2>1 DEF NoShorter
<1>3. EcmpKept'
  <2> SUFFICES ASSUME WeightsCount PROVE EcmpKept'
    BY DEF EcmpKept
  <2>1. ASSUME NEW n \in Node, NEW i \in DOMAIN outPathEcmp[n],
               NEW m, m = outPathEcmp[n][i]
        PROVE  /\ SrcNode[m] = n /\ Examined(m)' /\ dist[n] \in Nat
               /\ PathDist(m)' # INFINITY /\ dist[DestNode[m]] < dist[n]
    <3>1. m \in Link
      BY <2>1
    <3>2. /\ SrcNode[m] = n /\ Examined(m) /\ dist[n] \in Nat
          /\ PathDist(m) # INFINITY /\ dist[DestNode[m]] < dist[n]
      BY <2>1 DEF EcmpKept
    <3> QED
      BY <3>1, <3>2
  <2>2. ASSUME NEW n \in Node, NEW i \in DOMAIN outPathEcmp[n],
               NEW j \in DOMAIN outPathEcmp[n], outPathEcmp[n][i] = outPathEcmp[n][j]
        PROVE  i = j
    BY <2>2 DEF EcmpKept
  <2>3. ASSUME NEW m \in Link, Examined(m)', PathDist(m)' # INFINITY,
               dist[SrcNode[m]] = PathDist(m)'
        PROVE  \E i \in DOMAIN outPathEcmp[SrcNode[m]] : outPathEcmp[SrcNode[m]][i] = m
    <3>1. Examined(m) /\ PathDist(m)' = PathDist(m)
      BY <2>3
    <3> QED
      BY <2>3, <3>1 DEF EcmpKept
  <2> QED
    BY <2>1, <2>2, <2>3 DEF EcmpKept
<1>4. EcmpTies'
  <2>1. ASSUME WeightsCount, HopCounts, NEW n \in Node, NEW i \in DOMAIN outPathEcmp[n],
               NEW m, m = outPathEcmp[n][i]
        PROVE  PathDist(m)' = dist[n]
    <3>1. m \in Link /\ PathDist(m) = dist[n]
      BY <2>1 DEF EcmpTies
    <3> QED
      BY <3>1
  <2> QED
    BY <2>1 DEF EcmpTies
<1> QED
  BY <1>1, <1>2, <1>3, <1>4

(* A link that leads to no shorter path is merely done with.               *)
LEMMA PassedOver ==
    ASSUME Underway, NEW l \in links, links' = links \ {l},
           UNCHANGED <<dist, outPath, outPathEcmp, q, dest>>,
           Usable(l) => \/ PathDist(l) = INFINITY
                        \/ /\ dist[SrcNode[l]] \in Nat /\ dist[SrcNode[l]] <= PathDist(l)
                           /\ WeightsCount => dist[SrcNode[l]] # PathDist(l)
    PROVE  CalculationInv'
<1>1. /\ QueueOrdered /\ DestLast /\ HopApart /\ PathsKept /\ NoShorter
      /\ EcmpKept /\ EcmpTies /\ l \in Link /\ InGraph(l) /\ DestNode[l] = dest
      /\ \A m \in Link : InGraph(m)' <=> InGraph(m)
      /\ \A m \in Link : Usable(m)' <=> Usable(m)
      /\ (WeightsCount' <=> WeightsCount) /\ (HopCounts' <=> HopCounts)
  BY UnderwayFacts
<1>2. /\ UNCHANGED <<linkWeight, nodeWeight, target, phase>>
      /\ outPathEcmp \in [Node -> Seq(Link)]
  BY DEF Underway, config, CalculationTyped
<1>3. \A n : Settled(n)' <=> Settled(n)
  BY DEF Settled, InQueue
<1>4. ASSUME NEW m \in Link PROVE PathDist(m)' = PathDist(m)
  BY <1>2 DEF PathDist, WeightsCount, NewDist, Plus
<1>5. ASSUME NEW m \in Link
      PROVE  /\ Examined(m) => Examined(m)'
             /\ Examined(m)' => Examined(m) \/ (m = l /\ Usable(l))
  BY <1>1, <1>3 DEF Examined
<1>6. QueueOrdered' /\ DestLast' /\ HopApart'
  BY <1>1, <1>3 DEF QueueOrdered, DestLast, HopApart
<1>7. PathsKept' /\ NoShorter' /\ EcmpKept' /\ EcmpTies'
  BY <1>1, <1>2, <1>4, <1>5, PathsStay
<1> QED
  BY <1>6, <1>7 DEF CalculationInv

(* The nearest node of the queue is settled.                               *)
LEMMA HeadSettled ==
    ASSUME Underway, Pop, NEW head, head = Head(q)
    PROVE  /\ head \in Node /\ head = q[1] /\ dest' = head /\ 1 \in DOMAIN q
           /\ q' \in Seq(Node)
           /\ \A i \in DOMAIN q' : i + 1 \in DOMAIN q /\ q'[i] = q[i + 1]
           /\ \A n : InQueue(n) <=> InQueue(n)' \/ n = head
           /\ \A n : Settled(n)' <=> Settled(n) \/ n = head
           /\ \A m \in Link : PathDist(m)' = PathDist(m)
           /\ \A m \in Link : Examined(m)' <=> Examined(m)
<1>1. q \in Seq(Node) /\ QueueOrdered
  BY UnderwayFacts
<1>2. /\ links = {} /\ q # <<>> /\ dest' = head /\ q' = Tail(q)
      /\ links' = inLinks[head] /\ UNCHANGED <<dist, outPath, outPathEcmp>>
  BY DEF Pop
<1>3. /\ head \in Node /\ head = q[1] /\ 1 \in DOMAIN q /\ q' \in Seq(Node)
      /\ \A i \in DOMAIN q' : i + 1 \in DOMAIN q /\ q'[i] = q[i + 1]
  BY <1>1, <1>2
<1>4. \A i \in DOMAIN q : i = 1 \/ (i - 1 \in DOMAIN q' /\ q[i] = q'[i - 1])
  BY <1>1, <1>2
<1>5. ASSUME NEW i \in DOMAIN q' PROVE q'[i] # head
  <2>1. i + 1 \in DOMAIN q /\ 1 < i + 1 /\ q'[i] = q[i + 1]
    BY <1>1, <1>2, <1>3
  <2> QED
    BY <1>1, <1>3, <2>1 DEF QueueOrdered
<1>6. \A n : InQueue(n) <=> InQueue(n)' \/ n = head
  BY <1>3, <1>4 DEF InQueue
<1>7. ~InQueue(head)' /\ InQueue(head)
  BY <1>3, <1>5 DEF InQueue
<1>8. dist[head] # INFINITY
  BY <1>1, <1>3, InfinityAssumption DEF QueueOrdered
<1>9. ASSUME NEW n PROVE Settled(n)' <=> Settled(n) \/ n = head
  <2>1. dist'[n] = dist[n]
    BY <1>2
  <2> QED
    BY <1>6, <1>7, <1>8, <2>1 DEF Settled
<1>10. UNCHANGED <<linkWeight, nodeWeight, target, phase, inLinks>>
  BY DEF Underway, config
<1>11. ASSUME NEW m \in Link PROVE PathDist(m)' = PathDist(m)
  BY <1>2, <1>10 DEF PathDist, WeightsCount, NewDist, Plus
<1>12. ASSUME NEW m \in Link PROVE Examined(m)' <=> Examined(m)
  <2>1. (InGraph(m)' <=> InGraph(m)) /\ (Usable(m)' <=> Usable(m))
    BY UnderwayFacts
  <2>2. CASE DestNode[m] = head
    <3>1. ~Settled(head)
      BY <1>7 DEF Settled
    <3>2. InGraph(m) => m \in links'
      BY <1>2, <2>2 DEF InGraph
    <3> QED
      BY <2>1, <2>2, <3>1, <3>2 DEF Examined
  <2>3. CASE DestNode[m] # head
    <3>1. Settled(DestNode[m])' <=> Settled(DestNode[m])
      BY <1>9, <2>3
    <3>2. m \notin links'
      BY <1>2, <1>3, <2>3 DEF Underway, GraphTyped
    <3> QED
      BY <1>2, <2>1, <3>1, <3>2 DEF Examined
  <2> QED
    BY <2>2, <2>3
<1> QED
  BY <1>2, <1>3, <1>6, <1>9, <1>11, <1>12

LEMMA PopKeeps ==
    ASSUME Underway, Pop
    PROVE  CalculationInv'
<1>1. PICK head : head = Head(q)
  OBVIOUS
<1>2. /\ head \in Node /\ head = q[1] /\ dest' = head /\ 1 \in DOMAIN q
      /\ q' \in Seq(Node)
      /\ \A i \in DOMAIN q' : i + 1 \in DOMAIN q /\ q'[i] = q[i + 1]
      /\ \A n : InQueue(n) <=> InQueue(n)' \/ n = head
      /\ \A n : Settled(n)' <=> Settled(n) \/ n = head
      /\ \A m \in Link : PathDist(m)' = PathDist(m)
      /\ \A m \in Link : Examined(m)' <=> Examined(m)
  BY <1>1, HeadSettled
<1>3. /\ QueueOrdered /\ DestLast /\ HopApart /\ PathsKept /\ NoShorter
      /\ EcmpKept /\ EcmpTies
      /\ dist \in [Node -> Weight] /\ q \in Seq(Node)
      /\ (WeightsCount' <=> WeightsCount) /\ (HopCounts' <=> HopCounts)
  BY UnderwayFacts
<1>4. UNCHANGED <<dist, outPath, outPathEcmp, target>>
  BY DEF Pop, Underway
<1>5. \A i \in DOMAIN q : i \in Nat /\ 1 <= i /\ (i = 1 \/ 1 < i)
  BY <1>3
<1>6. \A i \in DOMAIN q' : i \in Nat
  BY <1>2
<1>7. \A i \in DOMAIN q : dist[q[i]] \in Nat /\ dist[head] <= dist[q[i]] /\ dist[head] \in Nat
  BY <1>2, <1>3, <1>5 DEF QueueOrdered
<1>8. QueueOrdered'
  <2>1. ASSUME NEW i \in DOMAIN q', NEW j \in DOMAIN q', i < j
        PROVE  q'[i] # q'[j] /\ dist[q'[i]] <= dist[q'[j]]
    <3>1. /\ i + 1 \in DOMAIN q /\ q'[i] = q[i + 1] /\ j + 1 \in DOMAIN q
          /\ q'[j] = q[j + 1] /\ i + 1 < j + 1
      BY <1>2, <1>6, <2>1
    <3> QED
      BY <1>3, <3>1 DEF QueueOrdered
  <2>2. ASSUME NEW i \in DOMAIN q'
        PROVE  /\ dist[q'[i]] \in Nat
               /\ \A n \in Node : Settled(n)' => dist[n] <= dist[q'[i]]
    <3>1. i + 1 \in DOMAIN q /\ q'[i] = q[i + 1]
      BY <1>2
    <3> QED
      BY <1>2, <1>3, <1>7, <3>1 DEF QueueOrdered
  <2> QED
    BY <1>4, <2>1, <2>2 DEF QueueOrdered
<1>9. DestLast'
  <2>1. ASSUME NEW n \in Node, Settled(n)' PROVE dist[n] <= dist[head]
    BY <1>2, <1>3, <1>7, <2>1 DEF QueueOrdered
  <2>2. Settled(dest)'
    <3>1. Settled(head)'
      BY <1>2
    <3> QED
      BY <1>2, <3>1 DEF Settled, InQueue
  <2> QED
    BY <1>2, <1>4, <2>1, <2>2 DEF DestLast
<1>10. HopApart'
  <2>1. ASSUME ~WeightsCount, NEW i \in DOMAIN q', NEW j \in DOMAIN q'
        PROVE  /\ dist[q'[j]] <= dist[q'[i]] + 1
               /\ dist[q'[i]] <= dist[head] + 1
    BY <1>2, <1>3, <2>1 DEF HopApart
  <2> QED
    BY <1>2, <1>3, <1>4, <2>1 DEF HopApart
<1>11. PathsKept' /\ NoShorter' /\ EcmpKept' /\ EcmpTies'
  <2>1. outPathEcmp \in [Node -> Seq(Link)]
    BY DEF Underway, CalculationTyped
  <2> QED
    BY <1>2, <1>3, <1>4, <2>1, PathsStay
<1> QED
  BY <1>8, <1>9, <1>10, <1>11 DEF CalculationInv

(* What the weighted calculation makes of a link.                          *)
LEMMA WeightedReaches ==
    ASSUME Underway, NEW l \in links, RelaxWeighted(l)
    PROVE  \/ Reaches(l, PathDist(l)) /\ outPathEcmp' = AddEcmp(l)
           \/ /\ UNCHANGED <<dist, outPath, outPathEcmp, q>>
              /\ \/ PathDist(l) = INFINITY
                 \/ /\ dist[SrcNode[l]] \in Nat /\ dist[SrcNode[l]] <= PathDist(l)
                    /\ dist[SrcNode[l]] # PathDist(l)
<1> DEFINE src == SrcNode[l]
           x == NewDist(l)
<1>1. /\ q \in Seq(Node) /\ QueueOrdered /\ HopApart /\ dist \in [Node -> Weight] /\ l \in Link
      /\ (WeightsCount' <=> WeightsCount)
  BY UnderwayFacts
<1>2. /\ WeightsCount /\ Usable(l) /\ links' = links \ {l} /\ dest' = dest
      /\ PathDist(l) = x
  BY DEF RelaxWeighted, WeightsCount, PathDist
<1>3. src \in Node /\ x \in Weight
  BY <1>1, <1>2, PathLonger DEF Underway
<1>4. \A n \in Node : dist[n] \in Weight
  BY <1>1
<1>5. CASE /\ Improves(l)
           /\ dist' = [dist EXCEPT ![src] = x] /\ outPath' = [outPath EXCEPT ![src] = l]
           /\ outPathEcmp' = AddEcmp(l) /\ q' = Insert(RemoveFromQueue(src), src, x)
  <2> DEFINE r == RemoveFromQueue(src)
  <2>1. x \in Nat /\ (dist[src] # INFINITY => x <= dist[src]) /\ x # INFINITY
    <3> HIDE DEF src, x
    <3>1. x # INFINITY /\ (dist[src] # INFINITY => dist[src] >= x)
      BY <1>5 DEF Improves, src, x
    <3> QED
      BY <1>3, <1>4, <3>1, InfinityAssumption DEF Weight
  <2>2. r \in Seq(Node) /\ InOrder(r, dist) /\ Elements(r) = Elements(q) \ {src}
    BY <1>1, Dequeued
  <2> HIDE DEF r, src, x
  <2>3. \A i \in DOMAIN r : dist[r[i]] \in Nat
    BY <1>1, <2>2 DEF Elements, QueueOrdered
  <2>4. /\ Insert(r, src, x) \in Seq(Node)
        /\ InOrder(Insert(r, src, x), [dist EXCEPT ![src] = x])
        /\ Elements(Insert(r, src, x)) = Elements(r) \cup {src}
    <3>1. src \notin Elements(r)
      BY <2>2
    <3>2. /\ dist \in [Node -> Weight] /\ r \in Seq(Node) /\ InOrder(r, dist)
          /\ src \in Node /\ x \in Nat
      BY <1>1, <1>3, <2>1, <2>2
    <3> QED
      BY ONLY <2>3, <3>1, <3>2, Inserted
  <2>5. /\ q' \in Seq(Node) /\ InOrder(q', dist') /\ Elements(q') = Elements(q) \cup {src}
    <3>1. q' = Insert(r, src, x) /\ dist' = [dist EXCEPT ![src] = x]
      BY <1>5 DEF r
    <3>2. Elements(r) \cup {src} = Elements(q) \cup {src}
      BY <2>2
    <3> QED
      BY <2>4, <3>1, <3>2
  <2>6. Reaches(l, PathDist(l))
    BY <1>2, <1>5, <2>1, <2>5 DEF Reaches, src
  <2> QED
    BY <1>5, <2>6
<1>6. CASE ~Improves(l) /\ UNCHANGED <<dist, outPath, outPathEcmp, q>>
  <2> HIDE DEF src, x
  <2>1. x = INFINITY \/ (dist[src] # INFINITY /\ ~(dist[src] >= x))
    BY <1>6 DEF Improves, src, x
  <2>2. x = INFINITY \/ (dist[src] \in Nat /\ dist[src] <= x /\ dist[src] # x)
    BY <1>3, <1>4, <2>1, InfinityAssumption DEF Weight
  <2> QED
    BY <1>2, <1>6, <2>2 DEF src
<1> QED
  BY <1>5, <1>6 DEF RelaxWeighted

LEMMA WeightedKeeps ==
    ASSUME Underway, NEW l \in links, RelaxWeighted(l)
    PROVE  CalculationInv'
<1>1. WeightsCount /\ Usable(l) /\ links' = links \ {l} /\ dest' = dest
  BY DEF RelaxWeighted, WeightsCount
<1>2. CASE Reaches(l, PathDist(l)) /\ outPathEcmp' = AddEcmp(l)
  <2>1. QueueOrdered' /\ DestLast' /\ PathsKept' /\ NoShorter' /\ EcmpKept' /\ EcmpTies'
    BY <1>1, <1>2, ReachedKeeps, ReachedEcmp
  <2>2. HopApart'
    BY <1>1, UnderwayFacts DEF HopApart
  <2> QED
    BY <2>1, <2>2 DEF CalculationInv
<1>3. CASE /\ UNCHANGED <<dist, outPath, outPathEcmp, q>>
           /\ \/ PathDist(l) = INFINITY
              \/ /\ dist[SrcNode[l]] \in Nat /\ dist[SrcNode[l]] <= PathDist(l)
                 /\ dist[SrcNode[l]] # PathDist(l)
  BY <1>1, <1>3, PassedOver
<1> QED
  BY <1>2, <1>3, WeightedReaches

(* What the unweighted calculation makes of a link: a node reached is a hop*)
(* further than the one popped, and no node in the queue is further.       *)
LEMMA UnweightedReaches ==
    ASSUME Underway, NEW l \in links, RelaxUnweighted(l)
    PROVE  \/ Reaches(l, PathDist(l)) /\ HopApart'
           \/ /\ UNCHANGED <<dist, outPath, q>>
              /\ dist[SrcNode[l]] \in Nat /\ dist[SrcNode[l]] <= PathDist(l)
<1> DEFINE src == SrcNode[l]
           x == PathDist(l)
<1>1. /\ q \in Seq(Node) /\ QueueOrdered /\ DestLast /\ HopApart /\ dist \in [Node -> Weight]
      /\ l \in Link /\ DestNode[l] = dest /\ dest \in Node
      /\ (WeightsCount' <=> WeightsCount) /\ EcmpKept /\ EcmpTies
  BY UnderwayFacts
<1>2. /\ ~WeightsCount /\ Usable(l) /\ links' = links \ {l} /\ dest' = dest
      /\ UNCHANGED outPathEcmp
  BY DEF RelaxUnweighted, WeightsCount
<1>3. Settled(dest) /\ dist[dest] \in Nat /\ \A n \in Node : Settled(n) => dist[n] <= dist[dest]
  BY <1>1, SettledDistance DEF DestLast
<1>4. src \in Node /\ x = dist[dest] + 1 /\ x \in Nat
  BY <1>1, <1>2, <1>3, PathLonger DEF Underway
<1> HIDE DEF x
<1>5. links # {}
  OBVIOUS
<1>6. \A i \in DOMAIN q : q[i] \in Node /\ dist[q[i]] \in Nat /\ dist[q[i]] <= x
                          /\ dist[dest] <= dist[q[i]]
  BY <1>1, <1>2, <1>3, <1>4, <1>5 DEF HopApart, QueueOrdered
<1>7. CASE /\ dist[src] = INFINITY
           /\ dist' = [dist EXCEPT ![src] = dist[dest] + 1]
           /\ outPath' = [outPath EXCEPT ![src] = l] /\ q' = Append(q, src)
  <2>1. ~InQueue(src)
    BY <1>6, <1>7, InfinityAssumption DEF InQueue
  <2> HIDE DEF src
  <2>2. /\ dist'[src] = x /\ \A n \in Node \ {src} : dist'[n] = dist[n]
    BY <1>1, <1>4, <1>7
  <2>3. /\ q' \in Seq(Node) /\ Len(q') = Len(q) + 1 /\ q'[Len(q) + 1] = src
        /\ DOMAIN q = 1 .. Len(q) /\ DOMAIN q' = 1 .. Len(q) + 1 /\ Len(q) \in Nat
        /\ \A i \in DOMAIN q : q'[i] = q[i] /\ i \in DOMAIN q'
    BY <1>1, <1>4, <1>7
  <2>4. ASSUME NEW i \in DOMAIN q
        PROVE  q'[i] = q[i] /\ q[i] # src /\ dist'[q[i]] = dist[q[i]]
    BY <1>6, <2>1, <2>2, <2>3 DEF InQueue
  <2>5. InOrder(q', dist')
    <3>1. ASSUME NEW i \in DOMAIN q', NEW j \in DOMAIN q', i < j
          PROVE  q'[i] # q'[j] /\ dist'[q'[i]] <= dist'[q'[j]]
      <4>1. i \in DOMAIN q
        BY <2>3, <3>1
      <4>2. CASE j \in DOMAIN q
        <5>1. q[i] # q[j] /\ dist[q[i]] <= dist[q[j]]
          BY <1>1, <3>1, <4>1, <4>2 DEF QueueOrdered
        <5> QED
          BY <2>4, <4>1, <4>2, <5>1
      <4>3. CASE j = Len(q) + 1
        BY <1>6, <2>2, <2>3, <2>4, <4>1, <4>3
      <4> QED
        BY <2>3, <4>2, <4>3
    <3> QED
      BY <3>1 DEF InOrder
  <2>6. Elements(q') = Elements(q) \cup {src}
    <3>1. \A i \in DOMAIN q' : q'[i] \in Elements(q) \cup {src}
      BY <2>3 DEF Elements
    <3>2. \A i \in DOMAIN q : q[i] \in Elements(q')
      BY <2>3, <2>4 DEF Elements
    <3>3. src \in Elements(q')
      BY <2>3 DEF Elements
    <3> QED
      BY <3>1, <3>2, <3>3 DEF Elements
  <2>7. Reaches(l, x)
    BY <1>2, <1>4, <1>7, <2>3, <2>5, <2>6, InfinityAssumption DEF Reaches, src, x
  <2>8. HopApart'
    <3>1. ASSUME NEW i \in DOMAIN q'
          PROVE  dist'[q'[i]] \in Nat /\ dist[dest] <= dist'[q'[i]] /\ dist'[q'[i]] <= x
      <4>1. CASE i \in DOMAIN q
        BY <1>6, <2>4, <4>1
      <4>2. CASE i = Len(q) + 1
        BY <1>3, <1>4, <2>2, <2>3, <4>2
      <4> QED
        BY <2>3, <4>1, <4>2
    <3>2. dist'[dest] = dist[dest]
      <4>1. dest # src
        BY <1>3, <1>7, InfinityAssumption
      <4> QED
        BY <1>1, <2>2, <4>1
    <3> QED
      BY <1>2, <1>3, <1>4, <3>1, <3>2 DEF HopApart
  <2> QED
    BY <2>7, <2>8 DEF x
<1>8. CASE dist[src] # INFINITY /\ UNCHANGED <<dist, outPath, q>>
  <2>1. dist[src] \in Nat /\ dist[src] <= x
    <3>1. CASE Settled(src)
      BY <1>1, <1>3, <1>4, <3>1, SettledDistance
    <3>2. CASE InQueue(src)
      BY <1>6, <3>2 DEF InQueue
    <3> QED
      BY <1>8, <3>1, <3>2 DEF Settled
  <2> QED
    BY <1>8, <2>1 DEF x, src
<1> QED
  BY <1>7, <1>8 DEF RelaxUnweighted

LEMMA UnweightedKeeps ==
    ASSUME Underway, NEW l \in links, RelaxUnweighted(l)
    PROVE  CalculationInv'
<1>1. /\ ~WeightsCount /\ links' = links \ {l} /\ dest' = dest
      /\ UNCHANGED outPathEcmp
  BY DEF RelaxUnweighted, WeightsCount
<1>2. CASE Reaches(l, PathDist(l)) /\ HopApart'
  <2>1. QueueOrdered' /\ DestLast' /\ PathsKept' /\ NoShorter'
    BY <1>2, ReachedKeeps
  <2>2. EcmpKept' /\ EcmpTies'
    BY <1>1, UnderwayFacts DEF EcmpKept, EcmpTies
  <2> QED
    BY <1>2, <2>1, <2>2 DEF CalculationInv
<1>3. CASE /\ UNCHANGED <<dist, outPath, q>>
           /\ dist[SrcNode[l]] \in Nat /\ dist[SrcNode[l]] <= PathDist(l)
  BY <1>1, <1>3, PassedOver
<1> QED
  BY <1>2, <1>3, UnweightedReaches

-----------------------------------------------------------------------------
(* The other steps, and the invariant.                                     *)

LEMMA Initially == Init => EcmpInv
<1> SUFFICES ASSUME Init PROVE EcmpInv
  OBVIOUS
<1>1. GraphTyped
  BY GraphAssumption, BoundAssumption DEF Init, GraphTyped, Weight
<1>2. CalculationTyped
  BY DEF Init, CalculationTyped, Weight, Running
<1>3. CalculationInv
  BY DEF Init, CalculationInv, Calculated, Running, Found
<1> QED
  BY <1>1, <1>2, <1>3 DEF EcmpInv

Changes ==
    \/ \E l \in Link, w \in LinkWeights : SetLinkWeight(l, w)
    \/ \E n \in Node, w \in NodeWeights : SetNodeWeight(n, w)
    \/ \E l \in Link, b \in BOOLEAN : SetLinkEnabled(l, b)
    \/ \E n \in Node, b \in BOOLEAN : SetNodeEnabled(n, b)
    \/ \E l \in Link : DeleteLink(l)
    \/ \E n \in Node : DeleteNode(n)

LEMMA ChangesKeep == ASSUME EcmpInv, Changes PROVE EcmpInv'
<1>1. Edit
  BY DEF Changes, SetLinkWeight, SetNodeWeight, SetLinkEnabled, SetNodeEnabled,
         DeleteLink, DeleteNode
<1>2. GraphTyped
  BY DEF EcmpInv
<1>3. edits' \in 0 .. MaxEdits
  BY <1>1, <1>2, BoundAssumption DEF Edit, GraphTyped
<1>4. GraphTyped'
  <2>1. ASSUME NEW l \in Link, NEW w \in LinkWeights, SetLinkWeight(l, w) PROVE GraphTyped'
    BY <1>2, <1>3, <2>1, WeightAssumption DEF SetLinkWeight, GraphTyped
  <2>2. ASSUME NEW n \in Node, NEW w \in NodeWeights, SetNodeWeight(n, w) PROVE GraphTyped'
    BY <1>2, <1>3, <2>2, WeightAssumption DEF SetNodeWeight, GraphTyped
  <2>3. ASSUME NEW l \in Link, NEW b \in BOOLEAN, SetLinkEnabled(l, b) PROVE GraphTyped'
    BY <1>2, <1>3, <2>3 DEF SetLinkEnabled, GraphTyped
  <2>4. ASSUME NEW n \in Node, NEW b \in BOOLEAN, SetNodeEnabled(n, b) PROVE GraphTyped'
    BY <1>2, <1>3, <2>4 DEF SetNodeEnabled, GraphTyped
  <2>5. ASSUME NEW gone, Unlink(gone), nodes' \subseteq nodes PROVE GraphTyped'
    <3>1. inLinks' \in [Node -> SUBSET Link]
      BY <1>2, <2>5 DEF Unlink, GraphTyped
    <3>2. \A n \in Node : inLinks'[n] \subseteq inLinks[n]
      BY <2>5 DEF Unlink
    <3> QED
      BY <1>2, <1>3, <2>5, <3>1, <3>2 DEF Unlink, GraphTyped
  <2>6. ASSUME NEW l \in Link, DeleteLink(l) PROVE GraphTyped'
    BY <2>5, <2>6 DEF DeleteLink
  <2>7. ASSUME NEW n \in Node, DeleteNode(n) PROVE GraphTyped'
    BY <2>5, <2>7 DEF DeleteNode
  <2> QED
    BY <2>1, <2>2, <2>3, <2>4, <2>6, <2>7 DEF Changes
<1>5. CalculationTyped'
  <2>1. CalculationTyped
    BY DEF EcmpInv
  <2>2. /\ phase' = "idle" /\ links = {} /\ q = <<>>
        /\ UNCHANGED <<target, dist, outPath, outPathEcmp, q, dest, links>>
    BY <1>1, <2>1 DEF Edit, CalculationTyped
  <2> QED
    BY <2>1, <2>2 DEF CalculationTyped, Running
<1>6. CalculationInv'
  BY <1>1 DEF Edit, CalculationInv, Calculated, Running, Found
<1> QED
  BY <1>4, <1>5, <1>6 DEF EcmpInv

(* A calculation starts with the target in the queue and no link examined. *)
LEMMA StartKeeps ==
    ASSUME EcmpInv, NEW t \in Node, CalculateWeighted(t) \/ CalculateUnweighted(t)
    PROVE  EcmpInv'
<1>1. PICK kind \in Running : Start(kind, t) /\ (kind = "weighted" => outPathEcmp' = Cleared)
  BY DEF CalculateWeighted, CalculateUnweighted, Running
<1>2. /\ phase' = kind /\ target' = t /\ links' = {} /\ q' = <<t>>
      /\ dist' = [n \in Node |-> IF n = t THEN 0 ELSE INFINITY]
      /\ outPath' = [n \in Node |-> NoLink]
      /\ UNCHANGED <<config, dest, edits>>
  BY <1>1 DEF Start
<1>3. GraphTyped'
  BY <1>2 DEF EcmpInv, GraphTyped, config
<1>4. CalculationTyped'
  <2>1. outPathEcmp' \in [Node -> Seq(Link)]
    <3>1. outPathEcmp' = Cleared \/ outPathEcmp' = outPathEcmp
      BY DEF CalculateWeighted, CalculateUnweighted
    <3>2. Cleared \in [Node -> Seq(Link)]
      <4>1. <<>> \in Seq(Link)
        OBVIOUS
      <4> QED
        BY <4>1 DEF Cleared
    <3>3. outPathEcmp \in [Node -> Seq(Link)]
      BY DEF EcmpInv, CalculationTyped
    <3> QED
      BY <3>1, <3>2, <3>3
  <2> QED
    BY <1>2, <2>1 DEF EcmpInv, CalculationTyped, Weight
<1>5. \A n \in Node : ~Settled(n)'
  BY <1>2 DEF Settled, InQueue
<1>6. \A l \in Link : ~Examined(l)'
  BY <1>5, GraphAssumption DEF Examined
<1>7. QueueOrdered' /\ DestLast' /\ HopApart' /\ PathsKept' /\ NoShorter'
  <2>1. DOMAIN q' = {1} /\ q'[1] = t /\ dist'[t] = 0
    BY <1>2
  <2>2. QueueOrdered' /\ HopApart' /\ DestLast'
    BY <1>2, <1>5, <2>1 DEF QueueOrdered, HopApart, DestLast
  <2>3. PathsKept' /\ NoShorter'
    BY <1>2, <1>6 DEF PathsKept, NoShorter
  <2> QED
    BY <2>2, <2>3
<1>8. EcmpKept' /\ EcmpTies'
  <2>1. WeightsCount' => outPathEcmp' = [n \in Node |-> <<>>]
    BY <1>1, <1>2 DEF WeightsCount, Running, Cleared
  <2>2. WeightsCount' => \A n \in Node : DOMAIN outPathEcmp'[n] = {}
    BY <2>1
  <2> QED
    BY <1>6, <2>2 DEF EcmpKept, EcmpTies
<1> QED
  BY <1>3, <1>4, <1>7, <1>8 DEF EcmpInv, CalculationInv

LEMMA ReturnKeeps == ASSUME EcmpInv, Return PROVE EcmpInv'
<1>1. /\ links = {} /\ q = <<>> /\ phase \in Running
      /\ phase' = IF phase = "weighted" THEN "foundWeighted" ELSE "foundUnweighted"
      /\ UNCHANGED <<config, target, dist, outPath, outPathEcmp, q, dest, links, edits>>
  BY DEF Return
<1>2. GraphTyped' /\ CalculationTyped'
  BY <1>1 DEF EcmpInv, GraphTyped, CalculationTyped, config, Running, Found
<1>3. /\ QueueOrdered /\ DestLast /\ HopApart /\ PathsKept /\ NoShorter
      /\ EcmpKept /\ EcmpTies /\ outPathEcmp \in [Node -> Seq(Link)]
  BY <1>1 DEF EcmpInv, CalculationInv, Calculated, CalculationTyped
<1>4. UNCHANGED <<linkWeight, linkEnabled, nodeWeight, nodeEnabled, nodes, inLinks>>
  BY <1>1 DEF config
<1>5. (WeightsCount' <=> WeightsCount) /\ (HopCounts' <=> HopCounts)
  BY <1>1, <1>4 DEF WeightsCount, Running, HopCounts, Live, InGraph
<1>6. \A n : Settled(n)' <=> Settled(n)
  BY <1>1 DEF Settled, InQueue
<1>7. \A m \in Link : Examined(m)' <=> Examined(m)
  BY <1>1, <1>4, <1>6 DEF Examined, InGraph, Usable
<1>8. \A m \in Link : PathDist(m)' = PathDist(m)
  BY <1>1, <1>4, <1>5 DEF PathDist, NewDist, Plus
<1>9. PathsKept' /\ NoShorter' /\ EcmpKept' /\ EcmpTies'
  BY <1>1, <1>3, <1>5, <1>7, <1>8, PathsStay
<1>10. QueueOrdered' /\ DestLast' /\ HopApart'
  BY <1>1 DEF QueueOrdered, DestLast, HopApart
<1> QED
  BY <1>2, <1>9, <1>10 DEF EcmpInv, CalculationInv

(* A step of a calculation keeps the types.                                *)
LEMMA StepTyped ==
    ASSUME Underway, Pop \/ \E l \in links : Skip(l) \/ RelaxWeighted(l) \/ RelaxUnweighted(l)
    PROVE  GraphTyped' /\ CalculationTyped'
<1>1. GraphTyped'
  BY DEF Underway, GraphTyped, config
<1>2. /\ phase' = phase /\ phase \in Running /\ target' = target /\ target \in Node
      /\ dest \in Node /\ q \in Seq(Node) /\ links \subseteq inLinks[dest]
      /\ dist \in [Node -> Weight] /\ outPath \in [Node -> Link \cup {NoLink}]
      /\ outPathEcmp \in [Node -> Seq(Link)] /\ inLinks' = inLinks
      /\ \A l \in links : l \in Link /\ SrcNode[l] \in Node
  BY UnderwayFacts, GraphAssumption DEF Underway, CalculationTyped, config
<1>3. CASE Pop
  <2>1. PICK head : head = Head(q)
    OBVIOUS
  <2>2. head \in Node /\ dest' = head /\ q' \in Seq(Node) /\ links' = inLinks[head]
    BY <1>3, <2>1, HeadSettled DEF Pop
  <2>3. UNCHANGED <<dist, outPath, outPathEcmp>>
    BY <1>3 DEF Pop
  <2> QED
    BY <1>1, <1>2, <2>2, <2>3 DEF CalculationTyped
<1>4. ASSUME NEW l \in links, Skip(l) PROVE CalculationTyped'
  BY <1>2, <1>4 DEF Skip, CalculationTyped
<1>5. ASSUME NEW l \in links, RelaxWeighted(l) \/ RelaxUnweighted(l)
      PROVE  CalculationTyped'
  <2>1. links' \subseteq links /\ dest' = dest
    BY <1>5 DEF RelaxWeighted, RelaxUnweighted
  <2>2. outPathEcmp' \in [Node -> Seq(Link)]
    <3>1. outPathEcmp' = outPathEcmp \/ outPathEcmp' = AddEcmp(l)
      BY <1>5 DEF RelaxWeighted, RelaxUnweighted
    <3>2. /\ l \in Link /\ SrcNode[l] \in Node
          /\ outPathEcmp \in [Node -> Seq(Link)]
      BY <1>2
    <3>3. Append(outPathEcmp[SrcNode[l]], l) \in Seq(Link)
      BY ONLY <3>2
    <3>4. AddEcmp(l) \in [Node -> Seq(Link)]
      BY <3>2, <3>3 DEF AddEcmp
    <3> QED
      BY <3>1, <3>2, <3>4
  <2>3. CASE UNCHANGED <<dist, outPath, q>>
    BY <1>2, <2>1, <2>2, <2>3 DEF CalculationTyped
  <2>4. CASE Reaches(l, PathDist(l))
    <3>1. PathDist(l) \in Nat
      BY <2>4, OnlyUnsettled
    <3>2. /\ dist' = [dist EXCEPT ![SrcNode[l]] = PathDist(l)]
          /\ outPath' = [outPath EXCEPT ![SrcNode[l]] = l] /\ q' \in Seq(Node)
      BY <2>4 DEF Reaches
    <3>3. PathDist(l) \in Weight
      BY <3>1 DEF Weight
    <3>4. dist' \in [Node -> Weight] /\ outPath' \in [Node -> Link \cup {NoLink}]
      BY <1>2, <3>2, <3>3
    <3> QED
      BY <1>2, <2>1, <2>2, <3>2, <3>4 DEF CalculationTyped
  <2> QED
    BY <1>5, <2>3, <2>4, WeightedReaches, UnweightedReaches
<1> QED
  BY <1>1, <1>3, <1>4, <1>5

LEMMA StutterKeeps == ASSUME EcmpInv, UNCHANGED vars PROVE EcmpInv'
<1>1. /\ UNCHANGED <<linkWeight, linkEnabled, nodeWeight, nodeEnabled, nodes, inLinks>>
      /\ UNCHANGED <<phase, target, dist, outPath, outPathEcmp, q, dest, links, edits>>
  BY DEF vars, config
<1>2. GraphTyped' /\ CalculationTyped'
  BY <1>1 DEF EcmpInv, GraphTyped, CalculationTyped
<1>3. (WeightsCount' <=> WeightsCount) /\ (HopCounts' <=> HopCounts)
  BY <1>1 DEF WeightsCount, HopCounts, Live, InGraph
<1>4. \A n : Settled(n)' <=> Settled(n)
  BY <1>1 DEF Settled, InQueue
<1>5. \A m \in Link : Examined(m)' <=> Examined(m)
  BY <1>1, <1>4 DEF Examined, InGraph, Usable
<1>6. \A m \in Link : PathDist(m)' = PathDist(m)
  BY <1>1, <1>3 DEF PathDist, NewDist, Plus
<1>7. CASE Calculated
  <2>1. /\ QueueOrdered /\ DestLast /\ HopApart /\ PathsKept /\ NoShorter
        /\ EcmpKept /\ EcmpTies /\ outPathEcmp \in [Node -> Seq(Link)]
    BY <1>7 DEF EcmpInv, CalculationInv, CalculationTyped
  <2>2. PathsKept' /\ NoShorter' /\ EcmpKept' /\ EcmpTies'
    BY <1>1, <1>3, <1>5, <1>6, <2>1, PathsStay
  <2>3. QueueOrdered' /\ DestLast' /\ HopApart'
    BY <1>1, <1>3, <1>4, <2>1 DEF QueueOrdered, DestLast, HopApart
  <2> QED
    BY <1>2, <2>2, <2>3 DEF EcmpInv, CalculationInv
<1>8. CASE ~Calculated
  BY <1>1, <1>2, <1>8 DEF EcmpInv, CalculationInv, Calculated
<1> QED
  BY <1>7, <1>8

LEMMA StepKeeps == EcmpInv /\ [Next]_vars => EcmpInv'
<1> SUFFICES ASSUME EcmpInv, [Next]_vars PROVE EcmpInv'
  OBVIOUS
<1> DEFINE Examine == \E l \in links : Skip(l) \/ RelaxWeighted(l) \/ RelaxUnweighted(l)
<1>1. CASE Changes
  BY <1>1, ChangesKeep
<1>2. CASE \E t \in Node : CalculateWeighted(t) \/ CalculateUnweighted(t)
  BY <1>2, StartKeeps
<1>3. CASE Pop
  <2>1. Underway
    BY <1>3 DEF Underway, EcmpInv, Pop
  <2> QED
    BY <1>3, <2>1, PopKeeps, StepTyped DEF EcmpInv
<1>4. ASSUME NEW l \in links, Skip(l) \/ RelaxWeighted(l) \/ RelaxUnweighted(l)
      PROVE  EcmpInv'
  <2>1. phase \in Running /\ UNCHANGED <<config, phase, target, edits>>
    BY <1>4 DEF Skip, RelaxWeighted, RelaxUnweighted, Running
  <2>2. Underway
    BY <2>1 DEF Underway, EcmpInv
  <2>3. GraphTyped' /\ CalculationTyped'
    BY <1>4, <2>2, StepTyped
  <2>4. CalculationInv'
    <3>1. CASE Skip(l)
      <4>1. links' = links \ {l} /\ UNCHANGED <<dist, outPath, outPathEcmp, q, dest>> /\ ~Usable(l)
        BY <3>1 DEF Skip
      <4> QED
        BY <2>2, <4>1, PassedOver
    <3> QED
      BY <1>4, <2>2, <3>1, WeightedKeeps, UnweightedKeeps
  <2> QED
    BY <2>3, <2>4 DEF EcmpInv
<1>5. CASE Return
  BY <1>5, ReturnKeeps
<1>6. CASE UNCHANGED vars
  BY <1>6, StutterKeeps
<1> QED
  BY <1>1, <1>2, <1>3, <1>4, <1>5, <1>6 DEF Next, Changes

LEMMA Invariant == Spec => []EcmpInv
BY Initially, StepKeeps, PTL DEF Spec

-----------------------------------------------------------------------------
(* What the invariant says of the calculations.                            *)

(* Type correctness, for every graph: the values the setters store, the    *)
(* results in the nodes, and a queue that never holds a node twice.        *)
THEOREM TypeCorrect == Spec => []TypeOK
<1>1. EcmpInv => TypeOK
  <2> SUFFICES ASSUME EcmpInv PROVE TypeOK
    OBVIOUS
  <2>1. \A i, j \in DOMAIN q : q[i] = q[j] => i = j
    <3>1. CASE Calculated
      <4>1. QueueOrdered /\ q \in Seq(Node)
        BY <3>1 DEF EcmpInv, CalculationInv, CalculationTyped
      <4>2. ASSUME NEW i \in DOMAIN q, NEW j \in DOMAIN q, q[i] = q[j] PROVE i = j
        <5>1. i \in Nat /\ j \in Nat /\ ~(i < j) /\ ~(j < i)
          BY <4>1, <4>2 DEF QueueOrdered
        <5> QED
          BY <5>1
      <4> QED
        BY <4>2
    <3>2. CASE ~Calculated
      BY <3>2 DEF EcmpInv, CalculationTyped, Calculated
    <3> QED
      BY <3>1, <3>2
  <2> QED
    BY <2>1 DEF EcmpInv, GraphTyped, CalculationTyped, TypeOK
<1> QED
  BY <1>1, Invariant, PTL

(* Routing by the links of equal cost, at any moment of a calculation and  *)
(* after it, leads strictly nearer to the target over links of the graph:  *)
(* longer paths that were known before a shorter one replaced them, and    *)
(* that calculateWeightedSingleShortestPathsTo() leaves in the list, make  *)
(* no loop.                                                                *)
THEOREM RoutesLoopFree == Spec => []LoopFree
<1>1. EcmpInv => LoopFree
  <2> SUFFICES ASSUME EcmpInv, WeightsCount, NEW n \in Node, NEW i \in DOMAIN outPathEcmp[n],
                      NEW m, m = outPathEcmp[n][i]
               PROVE  /\ InGraph(m) /\ dist[n] # INFINITY /\ dist[DestNode[m]] # INFINITY
                      /\ dist[DestNode[m]] < dist[n]
    BY DEF LoopFree, WeightsCount
  <2>1. EcmpKept
    BY DEF EcmpInv, CalculationInv, Calculated, WeightsCount, Running, Found
  <2>2. Examined(m) /\ dist[n] \in Nat /\ dist[DestNode[m]] < dist[n]
    BY <2>1 DEF EcmpKept
  <2> QED
    BY <2>2, InfinityAssumption DEF Examined, Settled
<1> QED
  BY <1>1, Invariant, PTL

(* When a calculation has ended, the links a node could take are those     *)
(* examined that lead to the target, at the cost examined.                 *)
LEMMA Ended ==
    ASSUME EcmpInv, phase \in Found
    PROVE  /\ PathsKept /\ NoShorter /\ EcmpKept /\ EcmpTies
           /\ \A l \in Link : Cost(l) = PathDist(l)
           /\ \A n \in Node : \A l \in Link :
                 l \in NextLinks(n) <=> SrcNode[l] = n /\ Examined(l) /\ PathDist(l) # INFINITY
<1>1. /\ PathsKept /\ NoShorter /\ EcmpKept /\ EcmpTies /\ GraphTyped /\ CalculationTyped
  BY DEF EcmpInv, CalculationInv, Calculated
<1>2. links = {} /\ q = <<>>
  BY <1>1 DEF CalculationTyped, Found, Running
<1>3. \A n : Settled(n) <=> dist[n] # INFINITY
  BY <1>2 DEF Settled, InQueue
<1>4. WeightsCount <=> phase # "foundUnweighted"
  BY DEF WeightsCount, Found
<1>5. ASSUME NEW l \in Link PROVE Cost(l) = PathDist(l)
  <2> DEFINE d == DestNode[l]
             hops == phase = "foundUnweighted"
             w == IF hops THEN 1 ELSE linkWeight[l]
             v == IF hops \/ d = target THEN 0 ELSE nodeWeight[d]
  <2>1. dist[d] \in Weight /\ w \in Weight /\ v \in Weight
    BY <1>1, GraphAssumption DEF GraphTyped, CalculationTyped, Weight
  <2>2. Cost(l) = IF dist[d] = INFINITY \/ w = INFINITY \/ v = INFINITY THEN INFINITY
                  ELSE dist[d] + w + v
    BY DEF Cost
  <2>3. CASE hops
    <3>1. PathDist(l) = Plus(dist[d], 1) /\ w = 1 /\ v = 0
      BY <1>4, <2>3 DEF PathDist
    <3> HIDE DEF d, w, v
    <3> QED
      BY <2>1, <2>2, <3>1, InfinityAssumption DEF Plus, Weight
  <2>4. CASE ~hops
    <3>1. PathDist(l) = Plus(Plus(dist[d], w), v)
      BY <1>4, <2>4 DEF PathDist, NewDist
    <3> HIDE DEF d, w, v
    <3>2. Plus(dist[d], w) \in Weight
      BY <2>1, PlusFacts
    <3> DEFINE pw == Plus(dist[d], w)
    <3>3. pw = IF dist[d] = INFINITY \/ w = INFINITY THEN INFINITY ELSE dist[d] + w
      BY DEF Plus
    <3> HIDE DEF pw
    <3>4. Plus(pw, v) = IF pw = INFINITY \/ v = INFINITY THEN INFINITY ELSE pw + v
      BY DEF Plus
    <3> QED
      BY <2>1, <2>2, <3>1, <3>3, <3>4, InfinityAssumption DEF Weight, pw
  <2> QED
    BY <2>3, <2>4
<1>6. ASSUME NEW n \in Node, NEW l \in Link
      PROVE  l \in NextLinks(n) <=> SrcNode[l] = n /\ Examined(l) /\ PathDist(l) # INFINITY
  <2>1. PathDist(l) # INFINITY => dist[DestNode[l]] # INFINITY
    BY <1>1, PathLonger, InfinityAssumption
  <2>2. Examined(l) <=> InGraph(l) /\ Usable(l) /\ dist[DestNode[l]] # INFINITY
    BY <1>2, <1>3 DEF Examined
  <2> QED
    BY <1>5, <2>1, <2>2 DEF NextLinks, Usable
<1> QED
  BY <1>1, <1>5, <1>6

(* Both calculations find the shortest paths: the distance kept in every   *)
(* node is that of its cheapest link towards the target, which getPath()   *)
(* gives, and INFINITY where there is none.                                *)
THEOREM ShortestFound == Spec => []ShortestPaths
<1>1. EcmpInv => ShortestPaths
  <2> SUFFICES ASSUME EcmpInv, phase \in Found PROVE ShortestPaths
    BY DEF ShortestPaths
  <2>1. /\ PathsKept /\ NoShorter
        /\ \A l \in Link : Cost(l) = PathDist(l)
        /\ \A n \in Node : \A l \in Link :
              l \in NextLinks(n) <=> SrcNode[l] = n /\ Examined(l) /\ PathDist(l) # INFINITY
    BY Ended
  <2>2. \A n \in Node : NextLinks(n) \subseteq Link
    BY DEF NextLinks
  <2>3. ASSUME NEW n \in Node \ {target}
        PROVE  \/ NextLinks(n) = {} /\ dist[n] = INFINITY /\ outPath[n] = NoLink
               \/ Shortest(n, outPath[n]) /\ dist[n] = Cost(outPath[n])
    <3>1. ASSUME NEW l \in NextLinks(n) PROVE dist[n] \in Nat /\ dist[n] <= Cost(l)
      BY <2>1, <2>2 DEF NoShorter
    <3>2. CASE dist[n] = INFINITY /\ outPath[n] = NoLink
      BY <3>1, <3>2, InfinityAssumption
    <3>3. CASE /\ outPath[n] \in Link /\ SrcNode[outPath[n]] = n /\ Examined(outPath[n])
               /\ dist[n] \in Nat /\ dist[n] = PathDist(outPath[n])
      <4>1. outPath[n] \in NextLinks(n) /\ dist[n] = Cost(outPath[n])
        BY <2>1, <3>3, InfinityAssumption
      <4> QED
        BY <3>1, <4>1 DEF Shortest
    <3> QED
      BY <2>1, <3>2, <3>3 DEF PathsKept
  <2> QED
    BY <2>1, <2>3 DEF ShortestPaths, PathsKept
<1> QED
  BY <1>1, Invariant, PTL

(* getPathECMP() finds the first link of every shortest path, once, and no *)
(* other link where the weights count hops.                                *)
THEOREM EqualCostFound == Spec => []EqualCostPaths
<1>1. EcmpInv => EqualCostPaths
  <2> SUFFICES ASSUME EcmpInv, phase = "foundWeighted" PROVE EqualCostPaths
    BY DEF EqualCostPaths
  <2>1. /\ PathsKept /\ NoShorter /\ EcmpKept /\ EcmpTies
        /\ \A l \in Link : Cost(l) = PathDist(l)
        /\ \A n \in Node : \A l \in Link :
              l \in NextLinks(n) <=> SrcNode[l] = n /\ Examined(l) /\ PathDist(l) # INFINITY
    BY Ended DEF Found
  <2>2. WeightsCount /\ CalculationTyped /\ GraphTyped
    BY DEF WeightsCount, EcmpInv
  <2>3. ASSUME NEW n \in Node \ {target}, NEW l \in Link, Shortest(n, l)
        PROVE  \E i \in DOMAIN outPathEcmp[n] : outPathEcmp[n][i] = l
    <3>1. /\ SrcNode[l] = n /\ Examined(l) /\ PathDist(l) # INFINITY
          /\ dist[n] \in Nat /\ dist[n] <= PathDist(l)
      BY <2>1, <2>3 DEF Shortest, NoShorter
    <3>2. /\ outPath[n] \in Link /\ SrcNode[outPath[n]] = n /\ Examined(outPath[n])
          /\ dist[n] = PathDist(outPath[n])
      BY <2>1, <3>1, InfinityAssumption DEF PathsKept
    <3>3. outPath[n] \in NextLinks(n)
      BY <2>1, <3>1, <3>2, InfinityAssumption
    <3>4. PathDist(l) <= dist[n] /\ PathDist(l) \in Nat
      BY <2>1, <2>2, <2>3, <3>1, <3>2, <3>3, PathLonger DEF Shortest
    <3>5. dist[SrcNode[l]] = PathDist(l)
      BY <3>1, <3>4
    <3> QED
      BY <2>1, <2>2, <3>1, <3>5 DEF EcmpKept
  <2>4. \A n \in Node : \A i, j \in DOMAIN outPathEcmp[n] :
            outPathEcmp[n][i] = outPathEcmp[n][j] => i = j
    BY <2>1, <2>2 DEF EcmpKept
  <2>5. ASSUME HopCounts, NEW n \in Node, NEW i \in DOMAIN outPathEcmp[n],
               NEW m, m = outPathEcmp[n][i]
        PROVE  Shortest(n, m)
    <3>1. m \in Link
      BY <2>2, <2>5 DEF CalculationTyped
    <3>2. SrcNode[m] = n /\ Examined(m) /\ PathDist(m) # INFINITY
      BY <2>1, <2>2, <2>5 DEF EcmpKept
    <3>3. PathDist(m) = dist[n]
      BY <2>1, <2>2, <2>5 DEF EcmpTies
    <3>4. m \in NextLinks(n) /\ Cost(m) = dist[n]
      BY <2>1, <3>1, <3>2, <3>3
    <3>5. ASSUME NEW other \in NextLinks(n) PROVE dist[n] <= Cost(other)
      <4>1. other \in Link
        BY DEF NextLinks
      <4> QED
        BY <2>1, <4>1 DEF NoShorter
    <3> QED
      BY <3>4, <3>5 DEF Shortest
  <2> QED
    BY <2>3, <2>4, <2>5 DEF EqualCostPaths, OnlyShortest
<1> QED
  BY <1>1, Invariant, PTL

(* A node popped from the queue keeps its distance and its path, and is not*)
(* queued again, to the end of the calculation: a tie does not reopen it.  *)
THEOREM PoppedForGood == Spec => SettledForGood
<1>1. EcmpInv /\ [Next]_vars => [(phase \in Running) => StaysSettled]_vars
  <2> SUFFICES ASSUME EcmpInv, Next, phase \in Running, NEW n \in Node,
                      Settled(n) \/ (InQueue(n) /\ ~InQueue(n)')
               PROVE  /\ dist'[n] = dist[n] /\ outPath'[n] = outPath[n]
                      /\ Settled(n)'
    BY DEF StaysSettled
  <2>1. ASSUME UNCHANGED <<dist, outPath, q>>
        PROVE  dist'[n] = dist[n] /\ outPath'[n] = outPath[n] /\ Settled(n)'
    BY <2>1 DEF Settled, InQueue
  <2>2. ASSUME Pop PROVE dist'[n] = dist[n] /\ outPath'[n] = outPath[n] /\ Settled(n)'
    <3>1. Underway
      BY <2>2 DEF Underway, EcmpInv, Pop
    <3>2. PICK head : head = Head(q)
      OBVIOUS
    <3>3. /\ Settled(n)' <=> Settled(n) \/ n = head
          /\ InQueue(n) <=> InQueue(n)' \/ n = head
      BY <2>2, <3>1, <3>2, HeadSettled
    <3>4. UNCHANGED <<dist, outPath>>
      BY <2>2 DEF Pop
    <3> QED
      BY <3>3, <3>4
  <2>3. ASSUME NEW l \in links, RelaxWeighted(l) \/ RelaxUnweighted(l)
        PROVE  dist'[n] = dist[n] /\ outPath'[n] = outPath[n] /\ Settled(n)'
    <3>1. Underway
      BY <2>3 DEF Underway, EcmpInv, RelaxWeighted, RelaxUnweighted
    <3>2. CASE Reaches(l, PathDist(l))
      <4>1. InQueue(n) => InQueue(n)'
        BY <3>2 DEF Reaches, InQueue, Elements
      <4>2. Settled(n)
        BY <4>1
      <4>3. n # SrcNode[l]
        BY <3>1, <3>2, <4>2, OnlyUnsettled
      <4> QED
        BY <3>1, <3>2, <4>2, <4>3, ReachedOnce
    <3> QED
      BY <2>1, <2>3, <3>1, <3>2, WeightedReaches, UnweightedReaches
  <2>4. ASSUME NEW l \in links, Skip(l) PROVE UNCHANGED <<dist, outPath, q>>
    BY <2>4 DEF Skip
  <2>5. ASSUME Return PROVE UNCHANGED <<dist, outPath, q>>
    BY <2>5 DEF Return
  <2>6. ~Changes /\ \A t \in Node : ~CalculateWeighted(t) /\ ~CalculateUnweighted(t)
    BY DEF Changes, SetLinkWeight, SetNodeWeight, SetLinkEnabled, SetNodeEnabled,
           DeleteLink, DeleteNode, Edit, CalculateWeighted, CalculateUnweighted, Start
  <2> QED
    BY <2>1, <2>2, <2>3, <2>4, <2>5, <2>6 DEF Next, Changes
<1> QED
  BY <1>1, Invariant, PTL DEF Spec, SettledForGood

=============================================================================
