-------------------------- MODULE TopologyGraphProofs --------------------------
(***************************************************************************)
(* Proofs about the graph of TopologyEcmp, for every network, selection    *)
(* and sequence of edits: that links and vectors agree, that the binary    *)
(* search finds each node, and that where connections are direct the       *)
(* network ids tell what is joined.  The last needs what the traversal     *)
(* keeps: a visited node shares its id with all it leads to, the calls     *)
(* open share one id, and every id is the number of a node joined to it.   *)
(***************************************************************************)
EXTENDS TopologyGraph, FiniteSetTheorems, WellFoundedInduction, TLAPS

Sorted(s) ==
    \A i, j \in DOMAIN s : i < j => ~LessByModuleId(IdOf(s[j]), IdOf(s[i]))
EachOnce(s) == \A i, j \in DOMAIN s : s[i] = s[j] => i = j

-----------------------------------------------------------------------------
(* Ids and their order.                                                    *)

LEMMA IdFacts ==
    /\ \A n \in Node : IdOf(n) \in Modules \cup {-1}
    /\ \A m \in Modules : m \in Node /\ m \in Nat /\ IdOf(m) = m
BY ModulesAssumption, ManualAssumption DEF IdOf, Node

LEMMA LessFacts ==
    \A i, j, k \in Nat \cup {-1} :
        /\ ~LessByModuleId(i, i)
        /\ ~LessByModuleId(i, j) /\ ~LessByModuleId(j, i) => i = j
        /\ LessByModuleId(i, j) => ~LessByModuleId(j, i)
        /\ ~LessByModuleId(j, i) /\ LessByModuleId(j, k) => LessByModuleId(i, k)
        /\ ~LessByModuleId(j, i) /\ ~LessByModuleId(i, k) => ~LessByModuleId(j, k)
BY DEF LessByModuleId

LEMMA LeastNatural ==
    ASSUME NEW T \in SUBSET Nat, T # {}
    PROVE  \E x \in T : \A y \in T : x <= y
<1> DEFINE Below == {pair \in Nat \X Nat : pair[1] < pair[2]}
<1>1. IsWellFoundedOn(Below, Nat)
  BY NatLessThanWellFounded DEF OpToRel
<1>2. PICK x \in T : \A y \in T : <<y, x>> \notin Below
  BY <1>1, WFMin
<1>3. \A y \in T : ~ (y < x)
  BY <1>2
<1> QED
  BY <1>2, <1>3

(* A binary search among sorted nodes ends at the only place it can.       *)
LEMMA SearchEnds ==
    ASSUME nodes \in Seq(Node), Sorted(nodes), NEW id \in Modules \cup {-1}
    PROVE  LET k == LowerBound(id)
           IN  /\ k \in 1 .. Len(nodes) + 1
               /\ \A i \in DOMAIN nodes : i < k <=> LessByModuleId(IdOf(nodes[i]), id)
<1> DEFINE End(k) ==
        /\ k > 1 => LessByModuleId(IdOf(nodes[k - 1]), id)
        /\ k <= Len(nodes) => ~LessByModuleId(IdOf(nodes[k]), id)
<1>1. \E k \in 1 .. Len(nodes) + 1 : End(k)
  <2> DEFINE T == {k \in 1 .. Len(nodes) + 1 :
                      k <= Len(nodes) => ~LessByModuleId(IdOf(nodes[k]), id)}
  <2>1. Len(nodes) + 1 \in T /\ T \in SUBSET Nat
    OBVIOUS
  <2> HIDE DEF T
  <2>2. PICK k \in T : \A j \in T : k <= j
    BY <2>1, LeastNatural
  <2>3. k \in 1 .. Len(nodes) + 1
    BY <2>2 DEF T
  <2>4. CASE k > 1
    <3>1. k - 1 \notin T
      BY <2>2, <2>3, <2>4
    <3>2. LessByModuleId(IdOf(nodes[k - 1]), id)
      BY <2>3, <2>4, <3>1 DEF T
    <3> QED
      BY <2>2, <2>3, <3>2 DEF T
  <2> QED
    BY <2>2, <2>3, <2>4 DEF T
<1> DEFINE k == LowerBound(id)
<1>2. k \in 1 .. Len(nodes) + 1 /\ End(k)
  BY <1>1 DEF LowerBound
<1>3. DOMAIN nodes = 1 .. Len(nodes)
  OBVIOUS
<1>4. id \in Nat \cup {-1} /\ \A i \in DOMAIN nodes : IdOf(nodes[i]) \in Nat \cup {-1}
  BY IdFacts
<1> HIDE DEF k
<1>5. ASSUME NEW i \in DOMAIN nodes, i < k PROVE LessByModuleId(IdOf(nodes[i]), id)
  <2>1. k > 1 /\ k - 1 \in DOMAIN nodes /\ i <= k - 1
    BY <1>2, <1>3, <1>5
  <2>2. LessByModuleId(IdOf(nodes[k - 1]), id)
    BY <1>2, <2>1
  <2>3. i = k - 1 \/ ~LessByModuleId(IdOf(nodes[k - 1]), IdOf(nodes[i]))
    BY <1>3, <2>1 DEF Sorted
  <2> QED
    BY <1>4, <2>1, <2>2, <2>3, LessFacts
<1>6. ASSUME NEW i \in DOMAIN nodes, ~(i < k) PROVE ~LessByModuleId(IdOf(nodes[i]), id)
  <2>1. k \in DOMAIN nodes /\ k <= i
    BY <1>2, <1>3, <1>6
  <2>2. ~LessByModuleId(IdOf(nodes[k]), id)
    BY <1>2, <1>3, <2>1
  <2>3. i = k \/ ~LessByModuleId(IdOf(nodes[i]), IdOf(nodes[k]))
    BY <1>3, <2>1 DEF Sorted
  <2> QED
    BY <1>4, <2>1, <2>2, <2>3, LessFacts
<1> QED
  BY <1>2, <1>5, <1>6 DEF k

(* It finds a node for a module if and only if there is one.               *)
LEMMA Found ==
    ASSUME nodes \in Seq(Node), Sorted(nodes), NEW m \in Modules
    PROVE  /\ HasNodeFor(m) <=> \E n \in ToSet(nodes) : IdOf(n) = m
           /\ HasNodeFor(m) => InGraph(GetNodeFor(m)) /\ IdOf(GetNodeFor(m)) = m
<1> DEFINE k == LowerBound(m)
<1>1. /\ k \in 1 .. Len(nodes) + 1
      /\ \A i \in DOMAIN nodes : i < k <=> LessByModuleId(IdOf(nodes[i]), m)
  BY SearchEnds
<1>2. ASSUME HasNodeFor(m)
      PROVE  InGraph(GetNodeFor(m)) /\ IdOf(GetNodeFor(m)) = m
  BY <1>2 DEF HasNodeFor, GetNodeFor, InGraph, ToSet
<1>3. ASSUME NEW i \in DOMAIN nodes, IdOf(nodes[i]) = m PROVE HasNodeFor(m)
  <2> HIDE DEF k
  <2>1. m \in Nat \cup {-1} /\ \A j \in DOMAIN nodes : IdOf(nodes[j]) \in Nat \cup {-1}
    BY IdFacts
  <2>2. k \in DOMAIN nodes /\ k <= i
    BY <1>1, <1>3, <2>1, LessFacts
  <2>3. ~LessByModuleId(IdOf(nodes[k]), m)
    BY <1>1, <2>2
  <2>4. i = k \/ ~LessByModuleId(m, IdOf(nodes[k]))
    BY <1>3, <2>2 DEF Sorted
  <2>5. IdOf(nodes[k]) = m
    BY <1>3, <2>1, <2>2, <2>3, <2>4, LessFacts
  <2> QED
    BY <2>2, <2>5 DEF HasNodeFor, k
<1> QED
  BY <1>2, <1>3 DEF ToSet, InGraph
-----------------------------------------------------------------------------
(* What taking a node out and putting one in leave of the nodes.           *)

LEMMA Cut ==
    ASSUME NEW s \in Seq(Node), NEW k \in 1 .. Len(s)
    PROVE  LET r == RemoveAt(s, k)
           IN  /\ r \in Seq(Node) /\ Len(r) = Len(s) - 1
               /\ \A i \in 1 .. Len(s) - 1 : r[i] = IF i < k THEN s[i] ELSE s[i + 1]
<1> DEFINE a == SubSeq(s, 1, k - 1)
           b == SubSeq(s, k + 1, Len(s))
           r == RemoveAt(s, k)
<1>1. /\ a \in Seq(Node) /\ Len(a) = k - 1 /\ \A i \in 1 .. k - 1 : a[i] = s[i]
      /\ b \in Seq(Node) /\ Len(b) = Len(s) - k
      /\ \A i \in 1 .. Len(s) - k : b[i] = s[i + k]
  OBVIOUS
<1>2. r = a \o b
  BY DEF RemoveAt
<1> HIDE DEF a, b, r
<1>3. r \in Seq(Node) /\ Len(r) = Len(s) - 1
  BY <1>1, <1>2
<1>4. ASSUME NEW i \in 1 .. Len(s) - 1
      PROVE  r[i] = IF i < k THEN s[i] ELSE s[i + 1]
  <2>1. CASE i < k
    BY <1>1, <1>2, <2>1
  <2>2. CASE ~(i < k)
    <3>1. r[i] = b[i - (k - 1)]
      BY <1>1, <1>2, <2>2
    <3>2. i - (k - 1) \in 1 .. Len(s) - k
      BY <2>2
    <3>3. b[i - (k - 1)] = s[i - (k - 1) + k]
      BY <1>1, <3>2
    <3> QED
      BY <2>2, <3>1, <3>3
  <2> QED
    BY <2>1, <2>2
<1> QED
  BY <1>3, <1>4 DEF r

LEMMA PutIn ==
    ASSUME NEW s \in Seq(Node), NEW k \in 1 .. Len(s) + 1, NEW e \in Node
    PROVE  LET t == InsertAt(s, k, e)
           IN  /\ t \in Seq(Node) /\ Len(t) = Len(s) + 1
               /\ \A i \in 1 .. Len(s) + 1 :
                     t[i] = IF i < k THEN s[i] ELSE IF i = k THEN e ELSE s[i - 1]
<1> DEFINE a == SubSeq(s, 1, k - 1)
           b == SubSeq(s, k, Len(s))
           c == a \o <<e>>
           t == c \o b
<1>1. /\ a \in Seq(Node) /\ Len(a) = k - 1 /\ \A i \in 1 .. k - 1 : a[i] = s[i]
      /\ b \in Seq(Node) /\ Len(b) = Len(s) - k + 1
      /\ \A i \in 1 .. Len(s) - k + 1 : b[i] = s[i + k - 1]
  OBVIOUS
<1> HIDE DEF a, b
<1>2. /\ c \in Seq(Node) /\ Len(c) = k /\ c[k] = e
      /\ \A i \in 1 .. k - 1 : c[i] = s[i]
  <2>1. c = Append(a, e) /\ c \in Seq(Node) /\ Len(c) = Len(a) + 1
    BY <1>1
  <2>2. Append(a, e)[Len(a) + 1] = e /\ \A i \in 1 .. Len(a) : Append(a, e)[i] = a[i]
    BY <1>1
  <2>3. Len(a) + 1 = k /\ 1 .. Len(a) = 1 .. k - 1
    BY <1>1
  <2> HIDE DEF c
  <2> QED
    BY <1>1, <2>1, <2>2, <2>3
<1> HIDE DEF c
<1>3. t \in Seq(Node) /\ Len(t) = Len(s) + 1
  BY <1>1, <1>2
<1>4. ASSUME NEW i \in 1 .. Len(s) + 1
      PROVE  t[i] = IF i < k THEN s[i] ELSE IF i = k THEN e ELSE s[i - 1]
  <2>1. CASE i <= k
    BY <1>1, <1>2, <2>1
  <2>2. CASE ~(i <= k)
    <3>1. t[i] = b[i - k]
      BY <1>1, <1>2, <2>2
    <3>2. i - k \in 1 .. Len(s) - k + 1
      BY <2>2
    <3>3. b[i - k] = s[i - k + k - 1]
      BY <1>1, <3>2
    <3> QED
      BY <2>2, <3>1, <3>3
  <2> QED
    BY <2>1, <2>2
<1> QED
  BY <1>3, <1>4 DEF InsertAt, c, a, b

LEMMA NodeRemoved ==
    ASSUME NEW s \in Seq(Node), Sorted(s), EachOnce(s), NEW n \in ToSet(s)
    PROVE  LET r == RemoveFirst(s, n)
           IN  /\ r \in Seq(Node) /\ Sorted(r) /\ EachOnce(r)
               /\ ToSet(r) = ToSet(s) \ {n}
<1> DEFINE at == {i \in 1 .. Len(s) : s[i] = n}
           k == SelectInSeq(s, LAMBDA v : v = n)
           r == RemoveFirst(s, n)
<1>1. DOMAIN s = 1 .. Len(s) /\ Len(s) \in Nat
  OBVIOUS
<1>2. PICK i \in 1 .. Len(s) : s[i] = n
  BY <1>1 DEF ToSet
<1>3. \A j \in at : j = i
  BY <1>1, <1>2 DEF EachOnce
<1>4. k = i
  <2>1. k = Min(at)
    BY <1>2 DEF SelectInSeq
  <2>2. at = {i}
    BY <1>2, <1>3
  <2> HIDE DEF at, k
  <2> QED
    BY <2>1, <2>2 DEF Min
<1>5. r = RemoveAt(s, i)
  BY <1>2, <1>4 DEF RemoveFirst
<1> HIDE DEF at, k, r
<1>6. /\ r \in Seq(Node) /\ Len(r) = Len(s) - 1
      /\ \A j \in 1 .. Len(s) - 1 : r[j] = IF j < i THEN s[j] ELSE s[j + 1]
  BY <1>2, <1>5, Cut
<1>7. DOMAIN r = 1 .. Len(s) - 1
  BY <1>6
<1> DEFINE Old(j) == IF j < i THEN j ELSE j + 1
<1>8. \A j \in DOMAIN r : Old(j) \in DOMAIN s \ {i} /\ r[j] = s[Old(j)]
  BY <1>1, <1>2, <1>6, <1>7
<1>9. \A j, m \in DOMAIN r : (j < m => Old(j) < Old(m)) /\ (Old(j) = Old(m) => j = m)
  BY <1>1, <1>2, <1>7
<1>10. \A m \in DOMAIN s \ {i} : \E j \in DOMAIN r : m = Old(j)
  <2> TAKE m \in DOMAIN s \ {i}
  <2>1. CASE m < i
    <3>1. m \in DOMAIN r /\ m = Old(m)
      BY <1>1, <1>2, <1>7, <2>1
    <3> QED
      BY <3>1
  <2>2. CASE ~(m < i)
    <3>1. m - 1 \in DOMAIN r /\ m = Old(m - 1)
      BY <1>1, <1>2, <1>7, <2>2
    <3> QED
      BY <3>1
  <2> QED
    BY <2>1, <2>2
<1> HIDE DEF Old
<1>11. Sorted(r)
  BY <1>8, <1>9 DEF Sorted
<1>12. EachOnce(r)
  BY <1>8, <1>9 DEF EachOnce
<1>13. ToSet(r) = ToSet(s) \ {n}
  <2>1. \A m \in DOMAIN s : s[m] = n <=> m = i
    BY <1>1, <1>2 DEF EachOnce
  <2> QED
    BY <1>8, <1>10, <2>1 DEF ToSet
<1> QED
  BY <1>6, <1>11, <1>12, <1>13 DEF r

LEMMA NodeAdded ==
    ASSUME nodes \in Seq(Node), Sorted(nodes), EachOnce(nodes),
           NEW n \in Node, ~InGraph(n)
    PROVE  LET t == AddNode(n)
           IN  /\ t \in Seq(Node) /\ Sorted(t) /\ EachOnce(t)
               /\ ToSet(t) = ToSet(nodes) \cup {n}
<1> DEFINE t == AddNode(n)
<1>1. /\ DOMAIN nodes = 1 .. Len(nodes) /\ Len(nodes) \in Nat
      /\ \A i \in DOMAIN nodes : nodes[i] \in Node
  OBVIOUS
<1>2. /\ IdOf(n) \in Nat \cup {-1}
      /\ \A i \in DOMAIN nodes : IdOf(nodes[i]) \in Nat \cup {-1}
  BY <1>1, IdFacts
<1>3. PICK k \in 1 .. Len(nodes) + 1 :
        /\ t \in Seq(Node) /\ Len(t) = Len(nodes) + 1
        /\ \A i \in 1 .. Len(nodes) + 1 :
              t[i] = IF i < k THEN nodes[i] ELSE IF i = k THEN n ELSE nodes[i - 1]
        /\ \A i \in DOMAIN nodes :
              IF i < k THEN ~LessByModuleId(IdOf(n), IdOf(nodes[i]))
                       ELSE ~LessByModuleId(IdOf(nodes[i]), IdOf(n))
  <2>1. CASE IdOf(n) = -1
    <3>1. t = Append(nodes, n)
      BY <2>1 DEF AddNode
    <3>2. \A i \in DOMAIN nodes : ~LessByModuleId(IdOf(n), IdOf(nodes[i]))
      BY <2>1 DEF LessByModuleId
    <3>3. Len(nodes) + 1 \in 1 .. Len(nodes) + 1
      OBVIOUS
    <3> QED
      BY <1>1, <3>1, <3>2, <3>3
  <2>2. CASE IdOf(n) # -1
    <3> DEFINE k == LowerBound(IdOf(n))
    <3>1. /\ k \in 1 .. Len(nodes) + 1
          /\ \A i \in DOMAIN nodes : i < k <=> LessByModuleId(IdOf(nodes[i]), IdOf(n))
      BY SearchEnds, IdFacts
    <3>2. t = InsertAt(nodes, k, n)
      BY <2>2 DEF AddNode
    <3> HIDE DEF k
    <3> DEFINE u == InsertAt(nodes, k, n)
    <3>3. /\ u \in Seq(Node) /\ Len(u) = Len(nodes) + 1
          /\ \A i \in 1 .. Len(nodes) + 1 :
                u[i] = IF i < k THEN nodes[i] ELSE IF i = k THEN n ELSE nodes[i - 1]
      BY <3>1, PutIn
    <3>4. \A i \in DOMAIN nodes :
              IF i < k THEN ~LessByModuleId(IdOf(n), IdOf(nodes[i]))
                       ELSE ~LessByModuleId(IdOf(nodes[i]), IdOf(n))
      BY <1>2, <3>1, LessFacts
    <3>5. t = u
      BY <3>2
    <3> HIDE DEF t, u
    <3> QED
      BY <3>1, <3>3, <3>4, <3>5
  <2> QED
    BY <2>1, <2>2
<1> HIDE DEF t
<1>4. DOMAIN t = 1 .. Len(nodes) + 1
  BY <1>3
<1> DEFINE Old(i) == IF i < k THEN i ELSE i - 1
<1>5. \A i \in DOMAIN t \ {k} : Old(i) \in DOMAIN nodes /\ t[i] = nodes[Old(i)]
  BY <1>1, <1>3, <1>4
<1>6. \A i, j \in DOMAIN t \ {k} :
        (i < j => Old(i) < Old(j)) /\ (Old(i) = Old(j) => i = j)
  BY <1>1, <1>4
<1>7. \A m \in DOMAIN nodes : \E i \in DOMAIN t \ {k} : m = Old(i)
  <2> TAKE m \in DOMAIN nodes
  <2>1. CASE m < k
    <3>1. m \in DOMAIN t \ {k} /\ m = Old(m)
      BY <1>1, <1>4, <2>1
    <3> QED
      BY <3>1
  <2>2. CASE ~(m < k)
    <3>1. m + 1 \in DOMAIN t \ {k} /\ m = Old(m + 1)
      BY <1>1, <1>4, <2>2
    <3> QED
      BY <3>1
  <2> QED
    BY <2>1, <2>2
<1>8. k \in DOMAIN t /\ t[k] = n
  BY <1>3, <1>4
<1>9. \A i \in DOMAIN t \ {k} : i < k <=> Old(i) < k
  BY <1>1, <1>4
<1> HIDE DEF Old
<1>10. Sorted(t)
  <2>1. ASSUME NEW i \in DOMAIN t, NEW j \in DOMAIN t, i < j
        PROVE  ~LessByModuleId(IdOf(t[j]), IdOf(t[i]))
    <3>1. CASE i = k
      <4>1. j # k /\ ~(j < k)
        BY <1>4, <2>1, <3>1
      <4> QED
        BY <1>3, <1>5, <1>8, <1>9, <3>1, <4>1
    <3>2. CASE j = k
      BY <1>3, <1>5, <1>8, <1>9, <2>1, <3>2
    <3>3. CASE i # k /\ j # k
      BY <1>5, <1>6, <2>1, <3>3 DEF Sorted
    <3> QED
      BY <3>1, <3>2, <3>3
  <2> QED
    BY <2>1 DEF Sorted
<1>11. \A i \in DOMAIN nodes : nodes[i] # n
  BY DEF InGraph, ToSet
<1>12. EachOnce(t)
  BY <1>5, <1>6, <1>8, <1>11 DEF EachOnce
<1>13. ToSet(t) = ToSet(nodes) \cup {n}
  BY <1>5, <1>7, <1>8 DEF ToSet
<1> QED
  BY <1>3, <1>10, <1>12, <1>13 DEF t
-----------------------------------------------------------------------------
(* What an extraction makes.                                               *)

Increasing(order) ==
    \A i, j \in DOMAIN order : i < j => order[i] < order[j]

LEMMA AscendingExists ==
    ASSUME NEW selected \in SUBSET Modules
    PROVE  \E order \in [1 .. Cardinality(selected) -> selected] : Increasing(order)
<1> DEFINE Bad == {S \in SUBSET Modules :
                      ~ \E order \in [1 .. Cardinality(S) -> S] : Increasing(order)}
           T == {Cardinality(S) : S \in Bad}
<1>1. \A S \in SUBSET Modules : IsFiniteSet(S) /\ Cardinality(S) \in Nat /\ S \in SUBSET Nat
  BY ModulesAssumption, FS_Subset, FS_CardinalityType
<1> SUFFICES ASSUME T # {} PROVE FALSE
  OBVIOUS
<1>2. T \in SUBSET Nat
  BY <1>1
<1>3. PICK S \in Bad : \A R \in Bad : Cardinality(S) <= Cardinality(R)
  <2> HIDE DEF Bad
  <2>1. PICK x \in T : \A y \in T : x <= y
    BY <1>2, LeastNatural
  <2>2. PICK S \in Bad : x = Cardinality(S)
    BY <2>1
  <2>3. \A R \in Bad : Cardinality(R) \in T
    OBVIOUS
  <2> QED
    BY <2>1, <2>2, <2>3
<1>4. S # {}
  <2>1. ASSUME S = {} PROVE FALSE
    <3>1. Cardinality(S) = 0
      BY <2>1, FS_EmptySet
    <3> DEFINE empty == [i \in 1 .. Cardinality(S) |-> i]
    <3>2. empty \in [1 .. Cardinality(S) -> S] /\ Increasing(empty)
      BY <3>1 DEF Increasing
    <3> QED
      BY <3>2
  <2> QED
    BY <2>1
<1>5. PICK m \in S : \A k \in S : m <= k
  BY <1>1, <1>4, LeastNatural
<1> DEFINE R == S \ {m}
           n == Cardinality(S)
<1>6. Cardinality(R) = n - 1 /\ n \in Nat \ {0}
  BY <1>1, <1>4, FS_RemoveElement, FS_EmptySet
<1>7. PICK rest \in [1 .. n - 1 -> R] : Increasing(rest)
  <2>1. R \in SUBSET Modules /\ ~(Cardinality(S) <= Cardinality(R))
    BY <1>6
  <2>2. R \notin Bad
    BY <1>3, <2>1
  <2> QED
    BY <1>6, <2>1, <2>2
<1> DEFINE order == [i \in 1 .. n |-> IF i = 1 THEN m ELSE rest[i - 1]]
<1>8. \A i \in 1 .. n : i # 1 => i - 1 \in 1 .. n - 1 /\ rest[i - 1] \in R
  BY <1>6, <1>7
<1>9. order \in [1 .. n -> S]
  BY <1>8
<1>10. Increasing(order)
  <2>1. ASSUME NEW i \in 1 .. n, NEW j \in 1 .. n, i < j PROVE order[i] < order[j]
    <3>1. j # 1 /\ order[j] = rest[j - 1] /\ rest[j - 1] \in R
      BY <1>6, <1>8, <2>1
    <3>2. CASE i = 1
      <4>1. order[i] = m /\ m <= rest[j - 1] /\ m # rest[j - 1]
        BY <1>5, <3>1, <3>2
      <4>2. m \in Nat /\ rest[j - 1] \in Nat
        BY <1>1, <3>1
      <4> QED
        BY <3>1, <4>1, <4>2
    <3>3. CASE i # 1
      <4>1. order[i] = rest[i - 1] /\ i - 1 \in 1 .. n - 1 /\ j - 1 \in 1 .. n - 1
        BY <1>8, <3>1, <3>3
      <4>2. i - 1 < j - 1
        BY <1>6, <2>1
      <4> QED
        BY <1>7, <3>1, <4>1, <4>2 DEF Increasing
    <3> QED
      BY <3>2, <3>3
  <2> QED
    BY <2>1 DEF Increasing
<1> QED
  BY <1>9, <1>10

LEMMA OrderFacts ==
    ASSUME NEW selected \in SUBSET Modules
    PROVE  LET order == Ascending(selected)
           IN  /\ order \in Seq(selected) /\ ToSet(order) = selected
               /\ DOMAIN order \subseteq 1 .. Cardinality(Modules)
               /\ Sorted(order) /\ EachOnce(order)
<1> DEFINE order == Ascending(selected)
           n == Cardinality(selected)
<1>1. order \in [1 .. n -> selected] /\ Increasing(order)
  BY AscendingExists DEF Ascending, Increasing
<1>2. /\ IsFiniteSet(selected) /\ selected \in SUBSET Nat
      /\ n \in Nat /\ Cardinality(Modules) \in Nat /\ n <= Cardinality(Modules)
  BY ModulesAssumption, FS_Subset, FS_CardinalityType
<1> HIDE DEF order, n
<1>3. \A i, j \in 1 .. n : i # j => order[i] # order[j]
  <2>1. \A i, j \in 1 .. n : i < j => order[i] # order[j]
    <3> TAKE i, j \in 1 .. n
    <3>1. order[i] \in Nat
      BY <1>1, <1>2
    <3> QED
      BY <1>1, <3>1 DEF Increasing
  <2>2. \A i, j \in 1 .. n : i # j => i < j \/ j < i
    BY <1>2
  <2> QED
    BY <2>1, <2>2
<1>4. ToSet(order) = selected
  <2>1. order \in Injection(1 .. n, selected)
    BY <1>1, <1>3 DEF Injection, IsInjective
  <2>2. Cardinality(1 .. n) = n
    BY <1>2, FS_Interval
  <2>3. order \in Surjection(1 .. n, selected)
    BY <1>2, <2>1, <2>2, FS_Injection DEF n
  <2> QED
    BY <1>1, <2>3 DEF Surjection, ToSet
<1>5. Sorted(order)
  <2> SUFFICES ASSUME NEW i \in 1 .. n, NEW j \in 1 .. n, i < j
               PROVE  ~LessByModuleId(IdOf(order[j]), IdOf(order[i]))
    BY <1>1 DEF Sorted
  <2>1. order[i] \in Modules /\ order[j] \in Modules
    BY <1>1
  <2>2. IdOf(order[i]) = order[i] /\ IdOf(order[j]) = order[j]
    BY <2>1, IdFacts
  <2>3. order[i] \in Nat /\ order[j] \in Nat /\ order[i] < order[j]
    BY <1>1, <1>2 DEF Increasing
  <2> QED
    BY <2>2, <2>3 DEF LessByModuleId
<1>6. order \in Seq(selected)
  BY <1>1, <1>2
<1> QED
  BY <1>1, <1>2, <1>3, <1>4, <1>5, <1>6 DEF EachOnce, order

LEMMA SequenceOfFiniteSet ==
    ASSUME NEW S, IsFiniteSet(S)
    PROVE  /\ SetToSeq(S) \in [1 .. Cardinality(S) -> S]
           /\ \A e \in S : \E i \in 1 .. Cardinality(S) : SetToSeq(S)[i] = e
<1> DEFINE n == Cardinality(S)
           s == SetToSeq(S)
<1>1. n \in Nat /\ ExistsBijection(1 .. n, S)
  BY FS_CardinalityType
<1>2. \E f \in [1 .. n -> S] : IsInjective(f)
  BY <1>1 DEF ExistsBijection, Bijection, Injection, IsInjective
<1>3. s \in [1 .. n -> S] /\ IsInjective(s)
  BY <1>2 DEF SetToSeq
<1> HIDE DEF n, s
<1>4. s \in Injection(1 .. n, S)
  BY <1>3 DEF Injection, IsInjective
<1>5. Cardinality(1 .. n) = n
  BY <1>1, FS_Interval
<1>6. s \in Surjection(1 .. n, S)
  BY <1>4, <1>5, FS_Injection DEF n
<1> QED
  BY <1>3, <1>6 DEF Surjection, n, s

(* The paths of the gates of a module lead through modules.                *)
LEMMA PathFacts ==
    ASSUME paths \in Networks, NEW m \in Modules
    PROVE  /\ paths[m] \in Seq(Seq(Modules))
           /\ \A i \in DOMAIN paths[m] : paths[m][i] \in Seq(Modules)
           /\ NextModules(m) \subseteq Modules
<1>1. paths[m] \in Seq(Seq(Modules))
  BY NetworksAssumption
<1>2. \A i \in DOMAIN paths[m] : paths[m][i] \in Seq(Modules)
  BY <1>1
<1> QED
  BY <1>1, <1>2 DEF NextModules, ToSet

LEMMA GatesFinite ==
    ASSUME paths \in Networks, NEW selected \in SUBSET Modules
    PROVE  IsFiniteSet(LinkedGates(selected))
<1> DEFINE Of(m) ==
        {m} \X {i \in DOMAIN paths[m] : ToSet(paths[m][i]) \cap selected # {}}
           G == {Of(m) : m \in selected}
           of == [m \in selected |-> Of(m)]
<1>1. ASSUME NEW m \in selected PROVE IsFiniteSet(Of(m))
  <2>1. paths[m] \in Seq(Seq(Modules))
    BY PathFacts
  <2>2. DOMAIN paths[m] = 1 .. Len(paths[m]) /\ Len(paths[m]) \in Nat
    BY <2>1
  <2>3. IsFiniteSet(DOMAIN paths[m])
    BY <2>2, FS_Interval
  <2>4. IsFiniteSet({i \in DOMAIN paths[m] : ToSet(paths[m][i]) \cap selected # {}})
    BY <2>3, FS_Subset
  <2> QED
    BY <2>4, FS_Singleton, FS_Product
<1>2. IsFiniteSet(selected)
  BY ModulesAssumption, FS_Subset
<1> HIDE DEF Of
<1>3. of \in Surjection(selected, G)
  BY DEF Surjection
<1>4. IsFiniteSet(G)
  BY <1>2, <1>3, FS_Surjection
<1>5. \A T \in G : IsFiniteSet(T)
  BY <1>1
<1>6. IsFiniteSet(UNION G)
  BY <1>4, <1>5, FS_UNION
<1> QED
  BY <1>6 DEF LinkedGates, Of

(* A link arrives at the first selected module on its path.                *)
LEMMA Arrives ==
    ASSUME NEW path \in Seq(Modules), NEW S \in SUBSET Modules, ToSet(path) \cap S # {}
    PROVE  /\ path # <<>> /\ Arrival(path, S) \in S
           /\ Head(path) \in S => Arrival(path, S) = Head(path)
<1> DEFINE at == {i \in 1 .. Len(path) : path[i] \in S}
           k == SelectInSeq(path, LAMBDA m : m \in S)
<1>1. at # {} /\ at \in SUBSET Nat
  BY DEF ToSet
<1>2. k = Min(at)
  BY <1>1 DEF SelectInSeq
<1>3. \E x \in at : \A y \in at : x <= y
  BY <1>1, LeastNatural
<1>4. k \in at /\ \A y \in at : k <= y
  BY <1>2, <1>3 DEF Min
<1> HIDE DEF k
<1>5. ASSUME Head(path) \in S PROVE path[k] = Head(path)
  <2>1. 1 \in at
    BY <1>1, <1>5
  <2>2. k <= 1 /\ k \in Nat \ {0}
    BY <1>4, <2>1
  <2>3. k = 1
    BY <2>2
  <2> QED
    BY <1>1, <2>3
<1>6. Arrival(path, S) = path[k]
  BY DEF Arrival, k
<1> QED
  BY <1>1, <1>4, <1>5, <1>6

(* The links of an extraction: one for each gate that leads to a selected  *)
(* module.                                                                 *)
LEMMA LinksFacts ==
    ASSUME paths \in Networks, NEW S \in SUBSET Modules
    PROVE  /\ \A l \in DOMAIN LinksOf(S) : \E m \in S : \E i \in DOMAIN paths[m] :
                 /\ ToSet(paths[m][i]) \cap S # {}
                 /\ LinksOf(S)[l] = [src |-> m, dest |-> Arrival(paths[m][i], S),
                                     srcGate |-> m, destGate |-> Arrival(paths[m][i], S)]
           /\ \A m \in S : \A i \in DOMAIN paths[m] :
                 ToSet(paths[m][i]) \cap S # {} =>
                     \E l \in DOMAIN LinksOf(S) :
                         /\ LinksOf(S)[l].src = m
                         /\ LinksOf(S)[l].dest = Arrival(paths[m][i], S)
<1> DEFINE G == LinkedGates(S)
           gates == SetToSeq(G)
           links == LinksOf(S)
<1>1. /\ gates \in [1 .. Cardinality(G) -> G]
      /\ \A g \in G : \E l \in 1 .. Cardinality(G) : gates[l] = g
  BY GatesFinite, SequenceOfFiniteSet
<1>2. \A g : g \in G <=> \E m \in S : \E i \in DOMAIN paths[m] :
                            g = <<m, i>> /\ ToSet(paths[m][i]) \cap S # {}
  BY DEF LinkedGates
<1>3. links = [l \in DOMAIN gates |->
                  [src |-> gates[l][1], dest |-> Arrival(paths[gates[l][1]][gates[l][2]], S),
                   srcGate |-> gates[l][1],
                   destGate |-> Arrival(paths[gates[l][1]][gates[l][2]], S)]]
  BY DEF LinksOf
<1> HIDE DEF G, gates, links
<1>4. ASSUME NEW l \in DOMAIN links
      PROVE  \E m \in S : \E i \in DOMAIN paths[m] :
                 /\ ToSet(paths[m][i]) \cap S # {}
                 /\ links[l] = [src |-> m, dest |-> Arrival(paths[m][i], S),
                                srcGate |-> m, destGate |-> Arrival(paths[m][i], S)]
  <2>1. l \in DOMAIN gates /\ gates[l] \in G
    BY <1>1, <1>3
  <2>2. PICK m \in S : \E i \in DOMAIN paths[m] :
            gates[l] = <<m, i>> /\ ToSet(paths[m][i]) \cap S # {}
    BY <1>2, <2>1
  <2>3. PICK i \in DOMAIN paths[m] :
            gates[l] = <<m, i>> /\ ToSet(paths[m][i]) \cap S # {}
    BY <2>2
  <2>4. links[l] = [src |-> m, dest |-> Arrival(paths[m][i], S),
                    srcGate |-> m, destGate |-> Arrival(paths[m][i], S)]
    BY <1>3, <2>1, <2>3
  <2> QED
    BY <2>3, <2>4
<1>5. ASSUME NEW m \in S, NEW i \in DOMAIN paths[m], ToSet(paths[m][i]) \cap S # {}
      PROVE  \E l \in DOMAIN links :
                 links[l].src = m /\ links[l].dest = Arrival(paths[m][i], S)
  <2>1. <<m, i>> \in G
    BY <1>2, <1>5
  <2>2. PICK l \in DOMAIN gates : gates[l] = <<m, i>>
    BY <1>1, <2>1
  <2>3. l \in DOMAIN links /\ links[l].src = m
        /\ links[l].dest = Arrival(paths[m][i], S)
    BY <1>3, <2>2
  <2> QED
    BY <2>3
<1> QED
  BY <1>4, <1>5 DEF links
-----------------------------------------------------------------------------
(* The invariant of the graph.                                             *)

NodesInv == nodes \in Seq(Node) /\ Sorted(nodes) /\ EachOnce(nodes)

LinksInv ==
    /\ DOMAIN link \subseteq Links
    /\ \A l \in DOMAIN link :
        /\ link[l] \in Ends
        /\ link[l].srcGate \in {-1, IdOf(link[l].src)}
        /\ link[l].destGate \in {-1, IdOf(link[l].dest)}
        /\ l # failed => InGraph(link[l].src) /\ InGraph(link[l].dest)

(* The vectors are what the ends of the links make them.                   *)
VectorsInv ==
    /\ failed \in 0 .. MaxLinks
    /\ outLinks \in [Node -> [Links -> Nat]] /\ inLinks \in [Node -> [Links -> Nat]]
    /\ \A n \in Node : \A l \in Links :
        /\ outLinks[n][l] =
              IF l \in DOMAIN link /\ l # failed /\ link[l].src = n THEN 1 ELSE 0
        /\ inLinks[n][l] =
              IF l \in DOMAIN link /\ l # failed /\ link[l].dest = n THEN 1 ELSE 0

TraversalTyped ==
    /\ paths \in Networks /\ edits \in 0 .. MaxEdits
    /\ networkId \in [Node -> 0 .. Cardinality(Modules)]
    /\ visited \subseteq extracted \/ ~Running
    /\ roots \in Seq(extracted) /\ calls \subseteq extracted
    /\ extracted \subseteq Modules

(* What the last extraction made is still there, and where connections are *)
(* direct its links are the steps that the traversal takes.                *)
ExtractionInv ==
    extracted # {} =>
        /\ nodes = Ascending(extracted)
        /\ \A l \in DOMAIN link : link[l].src \in extracted /\ link[l].dest \in extracted
        /\ Direct => \A m, h \in extracted :
              h \in NextModules(m) <=>
                  \E l \in DOMAIN link : link[l].src = m /\ link[l].dest = h

GraphInv == NodesInv /\ LinksInv /\ VectorsInv /\ TraversalTyped /\ ExtractionInv

LEMMA GraphInitially == Init => GraphInv
<1> SUFFICES ASSUME Init PROVE GraphInv
  OBVIOUS
<1> USE DEF Init
<1>1. NodesInv
  BY DEF NodesInv, Sorted, EachOnce
<1>2. LinksInv
  BY DEF LinksInv
<1>3. VectorsInv
  BY BoundsAssumption DEF VectorsInv, Empty
<1>4. TraversalTyped
  <2>1. Cardinality(Modules) \in Nat
    BY ModulesAssumption, FS_CardinalityType
  <2> QED
    BY <2>1, BoundsAssumption DEF TraversalTyped, Running
<1>5. ExtractionInv
  BY DEF ExtractionInv
<1> QED
  BY <1>1, <1>2, <1>3, <1>4, <1>5 DEF GraphInv

-----------------------------------------------------------------------------
(* An extraction keeps it.                                                 *)

LEMMA ExtractKeeps ==
    ASSUME GraphInv, NEW selected \in SUBSET Modules, Extract(selected)
    PROVE  GraphInv'
<1> DEFINE order == Ascending(selected)
           links == LinksOf(selected)
<1>1. /\ failed = 0 /\ ~Running /\ DOMAIN links \subseteq Links
      /\ nodes' = order /\ link' = links
      /\ outLinks' = [n \in Node |-> [l \in Links |->
                          IF l \in DOMAIN links /\ links[l].src = n THEN 1 ELSE 0]]
      /\ inLinks' = [n \in Node |-> [l \in Links |->
                          IF l \in DOMAIN links /\ links[l].dest = n THEN 1 ELSE 0]]
      /\ networkId' = [n \in Node |->
                          IF n \in selected THEN CHOOSE i \in DOMAIN order : order[i] = n
                                            ELSE 0]
      /\ visited' = {} /\ roots' = order /\ calls' = {} /\ extracted' = selected
      /\ paths' = paths /\ failed' = failed /\ edits' = edits
  BY DEF Extract
<1>2. paths \in Networks
  BY DEF GraphInv, TraversalTyped
<1>3. /\ order \in Seq(selected) /\ ToSet(order) = selected
      /\ DOMAIN order \subseteq 1 .. Cardinality(Modules)
      /\ Sorted(order) /\ EachOnce(order)
  BY OrderFacts
<1> HIDE DEF order, links
<1>4. \A l \in DOMAIN links :
        /\ links[l] \in [src : selected, dest : selected,
                         srcGate : selected, destGate : selected]
        /\ links[l].srcGate = links[l].src /\ links[l].destGate = links[l].dest
  <2> TAKE l \in DOMAIN links
  <2>1. PICK m \in selected : \E i \in DOMAIN paths[m] :
            /\ ToSet(paths[m][i]) \cap selected # {}
            /\ links[l] = [src |-> m, dest |-> Arrival(paths[m][i], selected),
                           srcGate |-> m, destGate |-> Arrival(paths[m][i], selected)]
    BY <1>2, LinksFacts DEF links
  <2>2. PICK i \in DOMAIN paths[m] :
            /\ ToSet(paths[m][i]) \cap selected # {}
            /\ links[l] = [src |-> m, dest |-> Arrival(paths[m][i], selected),
                           srcGate |-> m, destGate |-> Arrival(paths[m][i], selected)]
    BY <2>1
  <2>3. paths[m][i] \in Seq(Modules)
    BY <1>2, PathFacts
  <2>4. Arrival(paths[m][i], selected) \in selected
    BY <2>2, <2>3, Arrives
  <2> QED
    BY <2>2, <2>4
<1>5. selected \subseteq Modules /\ \A m \in selected : m \in Node /\ IdOf(m) = m
  BY IdFacts
<1>6. NodesInv'
  <2>1. order \in Seq(Node)
    BY <1>3, <1>5
  <2> QED
    BY <1>1, <1>3, <2>1 DEF NodesInv
<1>7. LinksInv'
  <2>1. \A l \in DOMAIN links : links[l] \in Ends
    BY <1>4, <1>5 DEF Ends
  <2> QED
    BY <1>1, <1>3, <1>4, <1>5, <2>1 DEF LinksInv, InGraph
<1>8. VectorsInv'
  BY <1>1 DEF VectorsInv, Links, GraphInv
<1>9. TraversalTyped'
  <2>1. Cardinality(Modules) \in Nat
    BY ModulesAssumption, FS_CardinalityType
  <2>2. \A n \in selected :
            (CHOOSE i \in DOMAIN order : order[i] = n) \in 0 .. Cardinality(Modules)
    <3> TAKE n \in selected
    <3>1. \E i \in DOMAIN order : order[i] = n
      BY <1>3 DEF ToSet
    <3>2. (CHOOSE i \in DOMAIN order : order[i] = n) \in 1 .. Cardinality(Modules)
      BY <1>3, <3>1
    <3> QED
      BY <2>1, <3>2
  <2>3. networkId' \in [Node -> 0 .. Cardinality(Modules)]
    BY <1>1, <2>1, <2>2
  <2> QED
    BY <1>1, <1>3, <2>3 DEF TraversalTyped, GraphInv
<1>10. ExtractionInv'
  <2>1. ASSUME Direct', NEW m \in selected, NEW h \in selected
        PROVE  h \in NextModules(m) <=>
                   \E l \in DOMAIN links : links[l].src = m /\ links[l].dest = h
    <3>1. \A k \in selected : \A i \in DOMAIN paths[k] :
              ToSet(paths[k][i]) \cap selected # {} => Head(paths[k][i]) \in selected
      BY <1>1, <2>1 DEF Direct, ToSet
    <3>2. paths[m] \in Seq(Seq(Modules))
          /\ \A i \in DOMAIN paths[m] : paths[m][i] \in Seq(Modules)
      BY <1>2, PathFacts
    <3>3. ASSUME h \in NextModules(m)
          PROVE  \E l \in DOMAIN links : links[l].src = m /\ links[l].dest = h
      <4>1. PICK i \in DOMAIN paths[m] : paths[m][i] # <<>> /\ h = Head(paths[m][i])
        BY <3>3 DEF NextModules, ToSet
      <4>2. h \in ToSet(paths[m][i])
        BY <3>2, <4>1 DEF ToSet
      <4>3. Arrival(paths[m][i], selected) = h
        BY <3>2, <4>1, <4>2, Arrives
      <4> QED
        BY <1>2, <4>2, <4>3, LinksFacts DEF links
    <3>4. ASSUME NEW l \in DOMAIN links, links[l].src = m, links[l].dest = h
          PROVE  h \in NextModules(m)
      <4>1. PICK k \in selected : \E i \in DOMAIN paths[k] :
                /\ ToSet(paths[k][i]) \cap selected # {}
                /\ links[l] = [src |-> k, dest |-> Arrival(paths[k][i], selected),
                               srcGate |-> k, destGate |-> Arrival(paths[k][i], selected)]
        BY <1>2, LinksFacts DEF links
      <4>2. k = m
        BY <3>4, <4>1
      <4>3. PICK i \in DOMAIN paths[m] :
                ToSet(paths[m][i]) \cap selected # {} /\ h = Arrival(paths[m][i], selected)
        BY <3>4, <4>1, <4>2
      <4>4. Head(paths[m][i]) \in selected
        BY <3>1, <4>3
      <4>5. paths[m][i] # <<>> /\ h = Head(paths[m][i])
        BY <3>2, <4>3, <4>4, Arrives
      <4> QED
        BY <4>5 DEF NextModules, ToSet
    <3> QED
      BY <3>3, <3>4
  <2>2. \A m \in selected : NextModules(m)' = NextModules(m)
    BY <1>1 DEF NextModules
  <2>3. Direct' => \A m, h \in selected :
            h \in NextModules(m)' <=>
                \E l \in DOMAIN links : links[l].src = m /\ links[l].dest = h
    BY <2>1, <2>2
  <2> QED
    BY <1>1, <1>4, <2>3 DEF ExtractionInv, order
<1> QED
  BY <1>6, <1>7, <1>8, <1>9, <1>10 DEF GraphInv
-----------------------------------------------------------------------------
(* Edits keep it.                                                          *)

LEMMA EditKeeps ==
    ASSUME GraphInv, Edit
    PROVE  TraversalTyped' /\ ExtractionInv' /\ failed = 0
<1>1. /\ failed = 0 /\ ~Running /\ edits' = edits + 1 /\ edits < MaxEdits /\ extracted' = {}
      /\ paths' = paths /\ networkId' = networkId
      /\ visited' = visited /\ roots' = roots /\ calls' = calls
  BY DEF Edit, traversal
<1>2. roots = <<>> /\ calls = {}
  BY <1>1 DEF Running
<1>3. TraversalTyped'
  BY <1>1, <1>2, BoundsAssumption DEF GraphInv, TraversalTyped, Running
<1> QED
  BY <1>1, <1>3 DEF ExtractionInv

LEMMA AddManualNodeKeeps ==
    ASSUME GraphInv, NEW n \in Manual, AddManualNode(n)
    PROVE  GraphInv'
<1>1. /\ Edit /\ ~InGraph(n) /\ nodes' = AddNode(n)
      /\ link' = link /\ outLinks' = outLinks /\ inLinks' = inLinks /\ failed' = failed
  BY DEF AddManualNode
<1>2. /\ AddNode(n) \in Seq(Node) /\ Sorted(AddNode(n)) /\ EachOnce(AddNode(n))
      /\ ToSet(AddNode(n)) = ToSet(nodes) \cup {n}
  BY <1>1, NodeAdded DEF GraphInv, NodesInv, Node
<1>3. NodesInv'
  BY <1>1, <1>2 DEF NodesInv
<1>4. LinksInv'
  BY <1>1, <1>2 DEF GraphInv, LinksInv, InGraph
<1>5. VectorsInv'
  BY <1>1 DEF GraphInv, VectorsInv
<1> QED
  BY <1>1, <1>3, <1>4, <1>5, EditKeeps DEF GraphInv

LEMMA UnlinkedFacts ==
    ASSUME LinksInv, VectorsInv, failed = 0, NEW gone
    PROVE  /\ UnlinkedFromSource(gone) \in [Node -> [Links -> Nat]]
           /\ UnlinkedFromDest(gone) \in [Node -> [Links -> Nat]]
           /\ \A n \in Node : \A l \in Links :
               /\ UnlinkedFromSource(gone)[n][l] =
                     IF l \in DOMAIN link \ gone /\ link[l].src = n THEN 1 ELSE 0
               /\ UnlinkedFromDest(gone)[n][l] =
                     IF l \in DOMAIN link \ gone /\ link[l].dest = n THEN 1 ELSE 0
<1>1. \A l \in Links : l # failed
  BY DEF Links
<1>2. \A n \in Node : \A l \in Links :
        /\ UnlinkedFromSource(gone)[n][l] =
              outLinks[n][l] - (IF l \in gone \cap DOMAIN link /\ link[l].src = n THEN 1 ELSE 0)
        /\ UnlinkedFromDest(gone)[n][l] =
              inLinks[n][l] - (IF l \in gone \cap DOMAIN link /\ link[l].dest = n THEN 1 ELSE 0)
  BY DEF UnlinkedFromSource, UnlinkedFromDest
<1>3. \A n \in Node : \A l \in Links :
        /\ UnlinkedFromSource(gone)[n][l] =
              IF l \in DOMAIN link \ gone /\ link[l].src = n THEN 1 ELSE 0
        /\ UnlinkedFromDest(gone)[n][l] =
              IF l \in DOMAIN link \ gone /\ link[l].dest = n THEN 1 ELSE 0
  BY <1>1, <1>2 DEF VectorsInv
<1>4. /\ UnlinkedFromSource(gone) =
            [n \in Node |-> [l \in Links |-> UnlinkedFromSource(gone)[n][l]]]
      /\ UnlinkedFromDest(gone) =
            [n \in Node |-> [l \in Links |-> UnlinkedFromDest(gone)[n][l]]]
  BY DEF UnlinkedFromSource, UnlinkedFromDest
<1>5. \A n \in Node : \A l \in Links :
        UnlinkedFromSource(gone)[n][l] \in Nat /\ UnlinkedFromDest(gone)[n][l] \in Nat
  BY <1>3
<1> QED
  BY <1>3, <1>4, <1>5

LEMMA WithoutFacts ==
    ASSUME NEW gone
    PROVE  /\ DOMAIN Without(gone) = DOMAIN link \ gone
           /\ \A l \in DOMAIN link \ gone : Without(gone)[l] = link[l]
BY DEF Without

LEMMA DeleteNodeKeeps ==
    ASSUME GraphInv, NEW n \in ToSet(nodes), DeleteNode(n)
    PROVE  GraphInv'
<1> DEFINE leaving == HeldBy(outLinks, n)
           entering == HeldBy(inLinks, n)
           gone == leaving \cup entering
<1>1. /\ Edit /\ nodes' = RemoveFirst(nodes, n) /\ failed' = failed
      /\ link' = Without(gone)
      /\ outLinks' = [UnlinkedFromSource(entering) EXCEPT ![n] = Empty[n]]
      /\ inLinks' = [UnlinkedFromDest(leaving) EXCEPT ![n] = Empty[n]]
  BY DEF DeleteNode
<1>2. NodesInv /\ LinksInv /\ VectorsInv /\ failed = 0
  BY <1>1, EditKeeps DEF GraphInv
<1>3. n \in Node
  BY <1>2 DEF NodesInv, ToSet
<1>4. /\ leaving = {l \in DOMAIN link : link[l].src = n}
      /\ entering = {l \in DOMAIN link : link[l].dest = n}
  BY <1>2, <1>3 DEF HeldBy, LinksInv, VectorsInv, Links
<1> HIDE DEF leaving, entering
<1>5. /\ RemoveFirst(nodes, n) \in Seq(Node)
      /\ Sorted(RemoveFirst(nodes, n)) /\ EachOnce(RemoveFirst(nodes, n))
      /\ ToSet(RemoveFirst(nodes, n)) = ToSet(nodes) \ {n}
  BY <1>2, NodeRemoved DEF NodesInv
<1>6. NodesInv'
  BY <1>1, <1>5 DEF NodesInv
<1>7. DOMAIN link' = DOMAIN link \ gone /\ \A l \in DOMAIN link' : link'[l] = link[l]
  BY <1>1, WithoutFacts
<1>8. LinksInv'
  <2>1. \A l \in DOMAIN link' : link[l].src # n /\ link[l].dest # n
    BY <1>4, <1>7
  <2> QED
    BY <1>1, <1>2, <1>5, <1>7, <2>1 DEF LinksInv, InGraph
<1>9. VectorsInv'
  <2>1. /\ UnlinkedFromSource(entering) \in [Node -> [Links -> Nat]]
        /\ UnlinkedFromDest(leaving) \in [Node -> [Links -> Nat]]
        /\ \A m \in Node : \A l \in Links :
            /\ UnlinkedFromSource(entering)[m][l] =
                  IF l \in DOMAIN link \ entering /\ link[l].src = m THEN 1 ELSE 0
            /\ UnlinkedFromDest(leaving)[m][l] =
                  IF l \in DOMAIN link \ leaving /\ link[l].dest = m THEN 1 ELSE 0
    BY <1>2, UnlinkedFacts
  <2>2. Empty[n] \in [Links -> Nat] /\ \A l \in Links : Empty[n][l] = 0
    BY <1>3 DEF Empty
  <2>3. outLinks' \in [Node -> [Links -> Nat]] /\ inLinks' \in [Node -> [Links -> Nat]]
    BY <1>1, <2>1, <2>2
  <2>4. \A m \in Node : \A l \in Links :
          /\ outLinks'[m][l] = IF m = n THEN 0 ELSE UnlinkedFromSource(entering)[m][l]
          /\ inLinks'[m][l] = IF m = n THEN 0 ELSE UnlinkedFromDest(leaving)[m][l]
    BY <1>1, <2>1, <2>2
  <2>5. \A m \in Node : \A l \in Links :
          /\ outLinks'[m][l] =
                IF l \in DOMAIN link \ gone /\ link[l].src = m THEN 1 ELSE 0
          /\ inLinks'[m][l] =
                IF l \in DOMAIN link \ gone /\ link[l].dest = m THEN 1 ELSE 0
    <3> TAKE m \in Node
    <3> TAKE l \in Links
    <3>1. CASE m = n
      BY <1>4, <2>4, <3>1
    <3>2. CASE m # n
      <4>1. /\ outLinks'[m][l] =
                  IF l \in DOMAIN link \ entering /\ link[l].src = m THEN 1 ELSE 0
            /\ inLinks'[m][l] =
                  IF l \in DOMAIN link \ leaving /\ link[l].dest = m THEN 1 ELSE 0
        BY <2>1, <2>4, <3>2
      <4> QED
        BY <1>4, <3>2, <4>1
    <3> QED
      BY <3>1, <3>2
  <2>6. failed' \in 0 .. MaxLinks /\ \A l \in Links : l # failed'
    BY <1>1, <1>2 DEF VectorsInv, Links
  <2> QED
    BY <1>7, <2>3, <2>5, <2>6 DEF VectorsInv
<1> QED
  BY <1>1, <1>6, <1>8, <1>9, EditKeeps DEF GraphInv

LEMMA DeleteLinkKeeps ==
    ASSUME GraphInv, NEW l \in Links, DeleteLink(l)
    PROVE  GraphInv'
<1>1. /\ Edit /\ link' = Without({l}) /\ nodes' = nodes /\ failed' = failed
      /\ outLinks' = UnlinkedFromSource({l}) /\ inLinks' = UnlinkedFromDest({l})
  BY DEF DeleteLink
<1>2. NodesInv /\ LinksInv /\ VectorsInv /\ failed = 0
  BY <1>1, EditKeeps DEF GraphInv
<1>3. DOMAIN link' = DOMAIN link \ {l} /\ \A k \in DOMAIN link' : link'[k] = link[k]
  BY <1>1, WithoutFacts
<1>4. LinksInv'
  BY <1>1, <1>2, <1>3 DEF LinksInv, InGraph
<1>5. VectorsInv'
  <2>1. \A k \in Links : k # failed'
    BY <1>1, <1>2 DEF Links
  <2>2. failed' \in 0 .. MaxLinks
    BY <1>1, <1>2 DEF VectorsInv
  <2>3. /\ outLinks' \in [Node -> [Links -> Nat]] /\ inLinks' \in [Node -> [Links -> Nat]]
        /\ \A n \in Node : \A k \in Links :
            /\ outLinks'[n][k] = IF k \in DOMAIN link \ {l} /\ link[k].src = n THEN 1 ELSE 0
            /\ inLinks'[n][k] = IF k \in DOMAIN link \ {l} /\ link[k].dest = n THEN 1 ELSE 0
    BY <1>1, <1>2, UnlinkedFacts
  <2> QED
    BY <1>3, <2>1, <2>2, <2>3 DEF VectorsInv
<1> QED
  BY <1>1, <1>2, <1>4, <1>5, EditKeeps DEF GraphInv, NodesInv

LEMMA ClearKeeps == ASSUME GraphInv, Clear PROVE GraphInv'
<1> DEFINE gone == UNION {HeldBy(outLinks, n) : n \in ToSet(nodes)}
<1>1. /\ Edit /\ link' = Without(gone) /\ failed' = failed
      /\ nodes' = <<>> /\ outLinks' = Empty /\ inLinks' = Empty
  BY DEF Clear
<1>2. NodesInv /\ LinksInv /\ VectorsInv /\ failed = 0
  BY <1>1, EditKeeps DEF GraphInv
<1>3. \A l \in DOMAIN link : l \in gone
  <2> TAKE l \in DOMAIN link
  <2>1. l \in Links /\ l # failed /\ link[l].src \in ToSet(nodes) /\ link[l].src \in Node
    BY <1>2 DEF LinksInv, Links, InGraph, Ends
  <2>2. outLinks[link[l].src][l] = 1
    BY <1>2, <2>1 DEF VectorsInv
  <2> QED
    BY <2>1, <2>2 DEF HeldBy
<1> HIDE DEF gone
<1>4. DOMAIN link' = {}
  BY <1>1, <1>3, WithoutFacts
<1>5. NodesInv'
  BY <1>1 DEF NodesInv, Sorted, EachOnce
<1>6. LinksInv'
  BY <1>4 DEF LinksInv
<1>7. VectorsInv'
  BY <1>1, <1>2, <1>4 DEF VectorsInv, Empty
<1> QED
  BY <1>1, <1>5, <1>6, <1>7, EditKeeps DEF GraphInv

LEMMA CountedOnceMore ==
    ASSUME NEW U \in [Node -> [Links -> Nat]], NEW a \in Node, NEW l \in Links
    PROVE  LET V == [U EXCEPT ![a][l] = @ + 1]
           IN  /\ V \in [Node -> [Links -> Nat]]
               /\ \A n \in Node : \A k \in Links :
                     V[n][k] = IF n = a /\ k = l THEN U[n][k] + 1 ELSE U[n][k]
<1> DEFINE row == [U[a] EXCEPT ![l] = U[a][l] + 1]
           V == [U EXCEPT ![a] = row]
<1>1. U[a] \in [Links -> Nat] /\ U[a][l] \in Nat
  OBVIOUS
<1>2. row \in [Links -> Nat] /\ \A k \in Links : row[k] = IF k = l THEN U[a][k] + 1 ELSE U[a][k]
  BY <1>1
<1>3. [U EXCEPT ![a][l] = @ + 1] = V
  OBVIOUS
<1> HIDE DEF row
<1>4. V \in [Node -> [Links -> Nat]] /\ \A n \in Node : V[n] = IF n = a THEN row ELSE U[n]
  BY <1>2
<1>5. \A n \in Node : \A k \in Links :
        V[n][k] = IF n = a /\ k = l THEN U[n][k] + 1 ELSE U[n][k]
  BY <1>2, <1>4
<1> QED
  BY <1>3, <1>4, <1>5

(* A link joins two nodes of the graph.                                    *)
LEMMA LinkedKeeps ==
    ASSUME GraphInv, Edit, NEW l \in Links, NEW ends \in Ends, Linked(l, ends),
           InGraph(ends.src), InGraph(ends.dest),
           ends.srcGate \in {-1, IdOf(ends.src)}, ends.destGate \in {-1, IdOf(ends.dest)},
           UNCHANGED <<nodes, failed>>
    PROVE  GraphInv'
<1>1. NodesInv /\ LinksInv /\ VectorsInv /\ failed = 0
  BY EditKeeps DEF GraphInv
<1>2. ends.src \in Node /\ ends.dest \in Node
  BY DEF Ends
<1>3. /\ DOMAIN link' = DOMAIN link \cup {l}
      /\ \A k \in DOMAIN link' : link'[k] = IF k = l THEN ends ELSE link[k]
  BY DEF Linked
<1>4. LinksInv'
  BY <1>1, <1>3 DEF LinksInv, InGraph
<1>5. /\ UnlinkedFromSource({l}) \in [Node -> [Links -> Nat]]
      /\ UnlinkedFromDest({l}) \in [Node -> [Links -> Nat]]
      /\ \A n \in Node : \A k \in Links :
          /\ UnlinkedFromSource({l})[n][k] =
                IF k \in DOMAIN link \ {l} /\ link[k].src = n THEN 1 ELSE 0
          /\ UnlinkedFromDest({l})[n][k] =
                IF k \in DOMAIN link \ {l} /\ link[k].dest = n THEN 1 ELSE 0
  BY <1>1, UnlinkedFacts
<1>6. /\ outLinks' = [UnlinkedFromSource({l}) EXCEPT ![ends.src][l] = @ + 1]
      /\ inLinks' = [UnlinkedFromDest({l}) EXCEPT ![ends.dest][l] = @ + 1]
  BY DEF Linked
<1>7. /\ outLinks' \in [Node -> [Links -> Nat]] /\ inLinks' \in [Node -> [Links -> Nat]]
      /\ \A n \in Node : \A k \in Links :
          /\ outLinks'[n][k] = IF n = ends.src /\ k = l
                               THEN UnlinkedFromSource({l})[n][k] + 1
                               ELSE UnlinkedFromSource({l})[n][k]
          /\ inLinks'[n][k] = IF n = ends.dest /\ k = l
                              THEN UnlinkedFromDest({l})[n][k] + 1
                              ELSE UnlinkedFromDest({l})[n][k]
  <2> DEFINE U == UnlinkedFromSource({l})
             V == UnlinkedFromDest({l})
  <2>1. U \in [Node -> [Links -> Nat]] /\ V \in [Node -> [Links -> Nat]]
    BY <1>5
  <2>2. /\ outLinks' = [U EXCEPT ![ends.src][l] = @ + 1]
        /\ inLinks' = [V EXCEPT ![ends.dest][l] = @ + 1]
    BY <1>6
  <2> HIDE DEF U, V
  <2>3. /\ outLinks' \in [Node -> [Links -> Nat]]
        /\ \A n \in Node : \A k \in Links :
              outLinks'[n][k] = IF n = ends.src /\ k = l THEN U[n][k] + 1 ELSE U[n][k]
    BY <1>2, <2>1, <2>2, CountedOnceMore
  <2>4. /\ inLinks' \in [Node -> [Links -> Nat]]
        /\ \A n \in Node : \A k \in Links :
              inLinks'[n][k] = IF n = ends.dest /\ k = l THEN V[n][k] + 1 ELSE V[n][k]
    BY <1>2, <2>1, <2>2, CountedOnceMore
  <2> QED
    BY <2>3, <2>4 DEF U, V
<1>8. VectorsInv'
  <2>1. \A k \in Links : k # failed'
    BY <1>1 DEF Links
  <2>2. failed' \in 0 .. MaxLinks
    BY <1>1 DEF VectorsInv
  <2>3. \A n \in Node : \A k \in Links :
          /\ outLinks'[n][k] = IF k \in DOMAIN link' /\ link'[k].src = n THEN 1 ELSE 0
          /\ inLinks'[n][k] = IF k \in DOMAIN link' /\ link'[k].dest = n THEN 1 ELSE 0
    <3> TAKE n \in Node
    <3> TAKE k \in Links
    <3>1. CASE k = l
      <4>1. k \in DOMAIN link' /\ link'[k] = ends
        BY <1>3, <3>1
      <4>2. UnlinkedFromSource({l})[n][k] = 0 /\ UnlinkedFromDest({l})[n][k] = 0
        BY <1>5, <3>1
      <4> QED
        BY <1>7, <3>1, <4>1, <4>2
    <3>2. CASE k # l
      <4>1. /\ k \in DOMAIN link' <=> k \in DOMAIN link \ {l}
            /\ k \in DOMAIN link' => link'[k] = link[k]
        BY <1>3, <3>2
      <4>2. /\ outLinks'[n][k] = UnlinkedFromSource({l})[n][k]
            /\ inLinks'[n][k] = UnlinkedFromDest({l})[n][k]
        BY <1>7, <3>2
      <4>3. /\ UnlinkedFromSource({l})[n][k] =
                  IF k \in DOMAIN link \ {l} /\ link[k].src = n THEN 1 ELSE 0
            /\ UnlinkedFromDest({l})[n][k] =
                  IF k \in DOMAIN link \ {l} /\ link[k].dest = n THEN 1 ELSE 0
        BY <1>5
      <4> QED
        BY <4>1, <4>2, <4>3
    <3> QED
      BY <3>1, <3>2
  <2> QED
    BY <1>7, <2>1, <2>2, <2>3 DEF VectorsInv
<1> QED
  BY <1>1, <1>4, <1>8, EditKeeps DEF GraphInv, NodesInv

LEMMA AddLinkKeeps ==
    ASSUME GraphInv, NEW l \in Links, NEW src \in ToSet(nodes), NEW dest \in ToSet(nodes),
           AddLink(l, src, dest)
    PROVE  GraphInv'
<1> DEFINE ends == EndsAt(l, src, dest)
<1>1. Edit /\ Linked(l, ends) /\ UNCHANGED <<nodes, failed>>
  BY DEF AddLink
<1>2. src \in Node /\ dest \in Node
  BY DEF GraphInv, NodesInv, ToSet
<1>3. ends.src = src /\ ends.dest = dest
  BY DEF EndsAt
<1>4. l \in DOMAIN link =>
        /\ link[l] \in Ends
        /\ link[l].srcGate \in {-1, IdOf(link[l].src)}
        /\ link[l].destGate \in {-1, IdOf(link[l].dest)}
  BY DEF GraphInv, LinksInv
<1>5. ends \in Ends
  BY <1>2, <1>4 DEF Ends, EndsAt
<1>6. ends.srcGate \in {-1, IdOf(ends.src)} /\ ends.destGate \in {-1, IdOf(ends.dest)}
  BY <1>4 DEF EndsAt
<1> HIDE DEF ends
<1>7. InGraph(ends.src) /\ InGraph(ends.dest)
  BY <1>3 DEF InGraph
<1> QED
  BY <1>1, <1>5, <1>6, <1>7, LinkedKeeps

LEMMA AddLinkByGatesKeeps ==
    ASSUME GraphInv, NEW l \in Links, NEW src \in Modules, NEW dest \in Modules,
           AddLinkByGates(l, src, dest)
    PROVE  GraphInv'
<1>1. Edit /\ nodes' = nodes
  BY DEF AddLinkByGates
<1>2. NodesInv /\ LinksInv /\ VectorsInv /\ failed = 0
  BY <1>1, EditKeeps DEF GraphInv
<1>3. CASE HasNodeFor(src) /\ HasNodeFor(dest)
  <2> DEFINE ends == [src |-> GetNodeFor(src), dest |-> GetNodeFor(dest),
                      srcGate |-> src, destGate |-> dest]
  <2>1. Linked(l, ends) /\ UNCHANGED <<nodes, failed>>
    BY <1>1, <1>3 DEF AddLinkByGates
  <2>2. /\ InGraph(GetNodeFor(src)) /\ IdOf(GetNodeFor(src)) = src
        /\ InGraph(GetNodeFor(dest)) /\ IdOf(GetNodeFor(dest)) = dest
    BY <1>2, <1>3, Found DEF NodesInv
  <2>3. GetNodeFor(src) \in Node /\ GetNodeFor(dest) \in Node
    BY <1>2, <2>2 DEF InGraph, ToSet, NodesInv
  <2>4. ends \in Ends
    BY <2>3 DEF Ends
  <2>5. /\ InGraph(ends.src) /\ InGraph(ends.dest)
        /\ ends.srcGate \in {-1, IdOf(ends.src)} /\ ends.destGate \in {-1, IdOf(ends.dest)}
    BY <2>2
  <2> HIDE DEF ends
  <2> QED
    BY <1>1, <2>1, <2>4, <2>5, LinkedKeeps
<1>4. CASE ~(HasNodeFor(src) /\ HasNodeFor(dest))
  <2>1. /\ failed' = l /\ link' = link
        /\ outLinks' = UnlinkedFromSource({l}) /\ inLinks' = UnlinkedFromDest({l})
    BY <1>4 DEF AddLinkByGates
  <2>2. LinksInv'
    BY <1>1, <1>2, <2>1 DEF LinksInv, InGraph, Links
  <2>3. VectorsInv'
    <3>1. failed' \in 0 .. MaxLinks
      BY <2>1 DEF Links
    <3> QED
      BY <1>2, <2>1, <3>1, UnlinkedFacts DEF VectorsInv
  <2> QED
    BY <1>1, <1>2, <2>2, <2>3, EditKeeps DEF GraphInv, NodesInv
<1> QED
  BY <1>3, <1>4
-----------------------------------------------------------------------------
(* The traversal keeps it.                                                 *)

LEMMA GraphStays ==
    ASSUME GraphInv, UNCHANGED <<paths, graph, extracted, failed>>
    PROVE  NodesInv' /\ LinksInv' /\ VectorsInv' /\ ExtractionInv'
<1> USE DEF graph, GraphInv
<1>1. NodesInv'
  BY DEF NodesInv
<1>2. LinksInv'
  BY DEF LinksInv, InGraph
<1>3. VectorsInv'
  BY DEF VectorsInv
<1>4. ExtractionInv'
  BY DEF ExtractionInv, Direct, NextModules
<1> QED
  BY <1>1, <1>2, <1>3, <1>4

LEMMA NextRootKeeps == ASSUME GraphInv, NextRoot PROVE GraphInv'
<1>1. /\ calls = {} /\ roots # <<>> /\ calls' = {Head(roots)} \ visited /\ roots' = Tail(roots)
      /\ paths' = paths /\ networkId' = networkId /\ visited' = visited
      /\ extracted' = extracted /\ edits' = edits
      /\ UNCHANGED <<paths, graph, extracted, failed>>
  BY DEF NextRoot
<1>2. TraversalTyped'
  <2>1. TraversalTyped /\ Running
    BY <1>1 DEF GraphInv, Running
  <2>2. Head(roots) \in extracted /\ Tail(roots) \in Seq(extracted)
    BY <1>1, <2>1 DEF TraversalTyped
  <2> QED
    BY <1>1, <2>1, <2>2 DEF TraversalTyped
<1> QED
  BY <1>1, <1>2, GraphStays DEF GraphInv

(* While the calls are open, the nodes are those selected, so that the     *)
(* modules found in the graph are the selected ones.                       *)
LEMMA CallFacts ==
    ASSUME GraphInv, NEW n \in extracted
    PROVE  {GetNodeFor(m) : m \in {k \in NextModules(n) : HasNodeFor(k)}} =
           NextModules(n) \cap extracted
<1>1. /\ NodesInv /\ TraversalTyped /\ n \in Modules
      /\ nodes = Ascending(extracted) /\ extracted \in SUBSET Modules
  BY DEF GraphInv, ExtractionInv, TraversalTyped
<1>2. ToSet(nodes) = extracted
  BY <1>1, OrderFacts
<1>3. NextModules(n) \subseteq Modules
  BY <1>1, PathFacts DEF TraversalTyped
<1>4. ASSUME NEW k \in Modules
      PROVE  /\ HasNodeFor(k) <=> k \in extracted
             /\ HasNodeFor(k) => GetNodeFor(k) = k
  <2>1. /\ HasNodeFor(k) <=> \E m \in extracted : IdOf(m) = k
        /\ HasNodeFor(k) => GetNodeFor(k) \in extracted /\ IdOf(GetNodeFor(k)) = k
    BY <1>1, <1>2, Found DEF NodesInv, InGraph
  <2>2. \A m \in extracted : IdOf(m) = m
    BY <1>1, IdFacts
  <2> QED
    BY <2>1, <2>2
<1> QED
  BY <1>3, <1>4

LEMMA CallEffect ==
    ASSUME GraphInv, NEW n \in calls, FindNetworks(n)
    PROVE  LET next == NextModules(n) \cap extracted
           IN  /\ n \in extracted /\ visited \subseteq extracted
               /\ visited' = IF NextModules(n) # {} THEN visited \cup {n} ELSE visited
               /\ networkId' = [k \in Node |-> IF k \in next \ visited' THEN networkId[n]
                                                                        ELSE networkId[k]]
               /\ calls' = (calls \ {n}) \cup (next \ visited')
               /\ UNCHANGED <<paths, graph, roots, extracted, failed, edits>>
<1>1. n \in extracted /\ visited \subseteq extracted
  BY DEF GraphInv, TraversalTyped, Running
<1>2. {GetNodeFor(m) : m \in {k \in NextModules(n) : HasNodeFor(k)}} =
      NextModules(n) \cap extracted
  BY <1>1, CallFacts
<1> QED
  BY <1>1, <1>2 DEF FindNetworks

LEMMA FindNetworksKeeps ==
    ASSUME GraphInv, NEW n \in calls, FindNetworks(n)
    PROVE  GraphInv'
<1> DEFINE next == NextModules(n) \cap extracted
<1>1. /\ n \in extracted /\ visited \subseteq extracted
      /\ visited' = IF NextModules(n) # {} THEN visited \cup {n} ELSE visited
      /\ networkId' = [k \in Node |-> IF k \in next \ visited' THEN networkId[n]
                                                               ELSE networkId[k]]
      /\ calls' = (calls \ {n}) \cup (next \ visited')
      /\ UNCHANGED <<paths, graph, roots, extracted, failed, edits>>
  BY CallEffect
<1>2. TraversalTyped'
  <2>1. TraversalTyped /\ n \in Node
    BY <1>1, IdFacts DEF GraphInv, TraversalTyped
  <2>2. networkId' \in [Node -> 0 .. Cardinality(Modules)]
    BY <1>1, <2>1 DEF TraversalTyped
  <2>3. visited' \subseteq extracted /\ calls' \subseteq extracted
    BY <1>1, <2>1 DEF TraversalTyped
  <2> QED
    BY <1>1, <2>1, <2>2, <2>3 DEF TraversalTyped
<1> QED
  BY <1>1, <1>2, GraphStays DEF GraphInv

LEMMA StutterKeepsGraph == ASSUME GraphInv, UNCHANGED vars PROVE GraphInv'
<1>1. UNCHANGED <<paths, graph, extracted, failed>>
  BY DEF vars
<1>2. TraversalTyped'
  BY DEF vars, traversal, GraphInv, TraversalTyped, Running
<1> QED
  BY <1>1, <1>2, GraphStays DEF GraphInv

LEMMA StepKeepsGraph == GraphInv /\ [Next]_vars => GraphInv'
<1> SUFFICES ASSUME GraphInv, [Next]_vars PROVE GraphInv'
  OBVIOUS
<1>1. CASE \E selected \in SUBSET Modules : Extract(selected)
  BY <1>1, ExtractKeeps
<1>2. CASE NextRoot
  BY <1>2, NextRootKeeps
<1>3. CASE \E n \in calls : FindNetworks(n)
  BY <1>3, FindNetworksKeeps
<1>4. CASE \E n \in Manual : AddManualNode(n)
  BY <1>4, AddManualNodeKeeps
<1>5. CASE \E n \in ToSet(nodes) : DeleteNode(n)
  BY <1>5, DeleteNodeKeeps
<1>6. CASE \E l \in Links : DeleteLink(l)
  BY <1>6, DeleteLinkKeeps
<1>7. CASE \E l \in Links : \E src, dest \in ToSet(nodes) : AddLink(l, src, dest)
  BY <1>7, AddLinkKeeps
<1>8. CASE \E l \in Links : \E src, dest \in Modules : AddLinkByGates(l, src, dest)
  BY <1>8, AddLinkByGatesKeeps
<1>9. CASE Clear
  BY <1>9, ClearKeeps
<1>10. CASE UNCHANGED vars
  BY <1>10, StutterKeepsGraph
<1> QED
  BY <1>1, <1>2, <1>3, <1>4, <1>5, <1>6, <1>7, <1>8, <1>9, <1>10 DEF Next

LEMMA GraphInvariant == Spec => []GraphInv
BY GraphInitially, StepKeepsGraph, PTL DEF Spec

(* The vectors, ends, gates, ids and the open calls keep their shape.      *)
THEOREM GraphTyped == Spec => []TypeOK
<1>1. GraphInv => TypeOK
  BY DEF GraphInv, NodesInv, LinksInv, VectorsInv, TraversalTyped, TypeOK
<1> QED
  BY <1>1, GraphInvariant, PTL

(* Whatever is extracted, added, deleted and moved, each link is in the    *)
(* vectors of its two ends, once, and nowhere else, and both are nodes of  *)
(* the graph: no freed node or link can be reached, and unlinking always   *)
(* finds the link.                                                         *)
THEOREM LinksStayConsistent == Spec => []LinksConsistent
<1>1. GraphInv => LinksConsistent
  <2> SUFFICES ASSUME GraphInv PROVE LinksConsistent
    OBVIOUS
  <2>1. LinksInv /\ VectorsInv
    BY DEF GraphInv
  <2>2. ASSUME NEW l \in DOMAIN link \ {failed}
        PROVE  /\ FoundAt(outLinks, l, {link[l].src}) /\ InGraph(link[l].src)
               /\ FoundAt(inLinks, l, {link[l].dest}) /\ InGraph(link[l].dest)
    BY <2>1, <2>2 DEF LinksInv, VectorsInv, FoundAt
  <2>3. ASSUME NEW l \in Links, l \notin DOMAIN link \/ l = failed
        PROVE  FoundAt(outLinks, l, {}) /\ FoundAt(inLinks, l, {})
    BY <2>1, <2>3 DEF VectorsInv, FoundAt
  <2> QED
    BY <2>2, <2>3 DEF LinksConsistent
<1> QED
  BY <1>1, GraphInvariant, PTL

(* However nodes are added and deleted, the binary search finds a node for *)
(* a module if and only if the graph has one.                              *)
THEOREM NodesAreFound == Spec => []NodesFound
<1>1. GraphInv => NodesFound
  <2> SUFFICES ASSUME GraphInv PROVE NodesFound
    OBVIOUS
  <2>1. nodes \in Seq(Node) /\ Sorted(nodes) /\ EachOnce(nodes)
    BY DEF GraphInv, NodesInv
  <2>2. \A m \in Modules : HasNodeFor(m) <=> \E n \in ToSet(nodes) : IdOf(n) = m
    BY <2>1, Found
  <2> QED
    BY <2>1, <2>2 DEF NodesFound, Sorted, EachOnce
<1> QED
  BY <1>1, GraphInvariant, PTL
-----------------------------------------------------------------------------
(* The networks.                                                           *)

(* The number that the extraction gave to k.                               *)
Own(k) == CHOOSE i \in DOMAIN Ascending(extracted) : Ascending(extracted)[i] = k

(* All that a visited node leads to shares its id, and is visited or being *)
(* called.                                                                 *)
VisitedShare ==
    \A v \in visited \cap extracted : \A h \in NextModules(v) \cap extracted :
        h \in visited \cup calls /\ networkId[h] = networkId[v]

CallsShare ==
    /\ \A a, b \in calls : networkId[a] = networkId[b]
    /\ calls \cap visited = {}

(* Each id is the number of a node joined to the one that has it.          *)
IdsJoined ==
    \A m \in extracted : \E k \in extracted : networkId[m] = Own(k) /\ Joined(k, m)

(* No node that leads anywhere is left out.                                *)
NoneLeftOut ==
    \A m \in extracted :
        NextModules(m) # {} => m \in visited \cup calls \cup ToSet(roots)

NetworksInv ==
    Direct => VisitedShare /\ CallsShare /\ IdsJoined /\ NoneLeftOut

LEMMA OwnFacts ==
    ASSUME TraversalTyped, NEW k \in extracted
    PROVE  Own(k) \in DOMAIN Ascending(extracted) /\ Ascending(extracted)[Own(k)] = k
<1>1. ToSet(Ascending(extracted)) = extracted
  BY OrderFacts DEF TraversalTyped
<1>2. \E i \in DOMAIN Ascending(extracted) : Ascending(extracted)[i] = k
  BY <1>1 DEF ToSet
<1> QED
  BY <1>2 DEF Own

(* Where connections are direct, links are steps of the traversal, which   *)
(* lead both ways.                                                         *)
LEMMA Steps ==
    ASSUME GraphInv, Direct, NEW m \in extracted, NEW h \in extracted
    PROVE  /\ h \in NextModules(m) <=>
                  \E l \in DOMAIN link : link[l].src = m /\ link[l].dest = h
           /\ h \in NextModules(m) => m \in NextModules(h)
<1>1. \A a, b \in extracted :
        b \in NextModules(a) <=> \E l \in DOMAIN link : link[l].src = a /\ link[l].dest = b
  BY DEF GraphInv, ExtractionInv
<1>2. \A k \in DOMAIN link : \E l \in DOMAIN link :
        link[l].src = link[k].dest /\ link[l].dest = link[k].src
  BY DEF Direct
<1> QED
  BY <1>1, <1>2

LEMMA JoinedFurther ==
    ASSUME GraphInv, Direct, NEW k \in extracted, NEW m \in extracted,
           NEW h \in NextModules(m) \cap extracted, Joined(k, m)
    PROVE  Joined(k, h)
<1>1. \E l \in DOMAIN link : link[l].src = m /\ link[l].dest = h
  BY Steps
<1> QED
  BY <1>1 DEF Joined, Closed

LEMMA JoinedSymmetric ==
    ASSUME GraphInv, Direct, NEW m \in extracted, NEW n \in extracted, Joined(m, n)
    PROVE  Joined(n, m)
<1> SUFFICES ASSUME NEW S \in SUBSET extracted, n \in S, Closed(S), m \notin S
             PROVE  FALSE
  BY DEF Joined
<1> DEFINE rest == extracted \ S
<1>1. \A l \in DOMAIN link : link[l].src \in extracted /\ link[l].dest \in extracted
  BY DEF GraphInv, ExtractionInv
<1>2. \A k \in DOMAIN link : \E l \in DOMAIN link :
        link[l].src = link[k].dest /\ link[l].dest = link[k].src
  BY DEF Direct
<1>3. Closed(rest)
  BY <1>1, <1>2 DEF Closed
<1> QED
  BY <1>3 DEF Joined

LEMMA ExtractNumbers ==
    ASSUME GraphInv, NEW selected \in SUBSET Modules, Extract(selected)
    PROVE  NetworksInv'
<1>1. /\ extracted' = selected /\ visited' = {} /\ calls' = {}
      /\ roots' = Ascending(selected)
      /\ networkId' = [n \in Node |->
            IF n \in selected THEN CHOOSE i \in DOMAIN Ascending(selected) :
                                       Ascending(selected)[i] = n
                              ELSE 0]
  BY DEF Extract
<1>2. VisitedShare' /\ CallsShare'
  BY <1>1 DEF VisitedShare, CallsShare
<1>3. IdsJoined'
  <2>1. ASSUME NEW m \in selected PROVE networkId'[m] = Own(m)' /\ Joined(m, m)'
    BY <1>1, IdFacts DEF Own, Joined
  <2> QED
    BY <1>1, <2>1 DEF IdsJoined
<1>4. NoneLeftOut'
  BY <1>1, OrderFacts DEF NoneLeftOut
<1> QED
  BY <1>2, <1>3, <1>4 DEF NetworksInv

LEMMA EditForgets == ASSUME GraphInv, Edit PROVE NetworksInv'
<1>1. extracted' = {} /\ calls' \subseteq extracted'
  BY EditKeeps DEF Edit, TraversalTyped
<1> QED
  BY <1>1 DEF NetworksInv, VisitedShare, CallsShare, IdsJoined, NoneLeftOut

LEMMA DirectStays ==
    ASSUME UNCHANGED <<paths, graph, extracted>>
    PROVE  /\ Direct' = Direct
           /\ \A m \in Node : NextModules(m)' = NextModules(m)
           /\ \A k : Own(k)' = Own(k)
           /\ \A k, m : Joined(k, m)' <=> Joined(k, m)
<1> USE DEF graph
<1>1. Direct' = Direct
  BY DEF Direct
<1>2. \A m \in Node : NextModules(m)' = NextModules(m)
  BY DEF NextModules
<1>3. \A k : Own(k)' = Own(k)
  BY DEF Own
<1>4. \A k, m : Joined(k, m)' <=> Joined(k, m)
  BY DEF Joined, Closed
<1> QED
  BY <1>1, <1>2, <1>3, <1>4

LEMMA NextRootTraverses ==
    ASSUME GraphInv, NetworksInv, NextRoot
    PROVE  NetworksInv'
<1>1. /\ calls = {} /\ roots # <<>> /\ calls' = {Head(roots)} \ visited /\ roots' = Tail(roots)
      /\ networkId' = networkId /\ visited' = visited /\ extracted' = extracted
      /\ UNCHANGED <<paths, graph, extracted>>
  BY DEF NextRoot
<1>2. roots \in Seq(extracted) /\ extracted \subseteq Node
  BY IdFacts DEF GraphInv, TraversalTyped
<1> SUFFICES ASSUME Direct PROVE VisitedShare' /\ CallsShare' /\ IdsJoined' /\ NoneLeftOut'
  BY <1>1, DirectStays DEF NetworksInv
<1>3. VisitedShare /\ CallsShare /\ IdsJoined /\ NoneLeftOut
  BY DEF NetworksInv
<1>4. \A m \in extracted : NextModules(m)' = NextModules(m)
  BY <1>1, <1>2, DirectStays
<1>5. VisitedShare'
  BY <1>1, <1>3, <1>4 DEF VisitedShare
<1>6. CallsShare'
  BY <1>1 DEF CallsShare
<1>7. IdsJoined'
  BY <1>1, <1>3, DirectStays DEF IdsJoined
<1>8. NoneLeftOut'
  <2>1. \A m \in ToSet(roots) : m = Head(roots) \/ m \in ToSet(Tail(roots))
    <3> TAKE m \in ToSet(roots)
    <3>1. PICK i \in 1 .. Len(roots) : m = roots[i]
      BY <1>2 DEF ToSet
    <3>2. CASE i = 1
      BY <1>1, <1>2, <3>1, <3>2
    <3>3. CASE i # 1
      <4>1. i - 1 \in DOMAIN Tail(roots) /\ Tail(roots)[i - 1] = m
        BY <1>1, <1>2, <3>1, <3>3
      <4> QED
        BY <4>1 DEF ToSet
    <3> QED
      BY <3>2, <3>3
  <2> QED
    BY <1>1, <1>3, <1>4, <2>1 DEF NoneLeftOut
<1> QED
  BY <1>5, <1>6, <1>7, <1>8

LEMMA FindNetworksTraverses ==
    ASSUME GraphInv, NetworksInv, NEW n \in calls, FindNetworks(n)
    PROVE  NetworksInv'
<1> DEFINE next == NextModules(n) \cap extracted
<1>1. /\ n \in extracted /\ visited \subseteq extracted
      /\ visited' = IF NextModules(n) # {} THEN visited \cup {n} ELSE visited
      /\ networkId' = [k \in Node |-> IF k \in next \ visited' THEN networkId[n]
                                                               ELSE networkId[k]]
      /\ calls' = (calls \ {n}) \cup (next \ visited')
      /\ UNCHANGED <<paths, graph, extracted>>
      /\ extracted' = extracted /\ roots' = roots
  BY CallEffect
<1>2. extracted \subseteq Node /\ calls \subseteq extracted
  BY IdFacts DEF GraphInv, TraversalTyped
<1> SUFFICES ASSUME Direct PROVE VisitedShare' /\ CallsShare' /\ IdsJoined' /\ NoneLeftOut'
  BY <1>1, DirectStays DEF NetworksInv
<1>3. VisitedShare /\ CallsShare /\ IdsJoined /\ NoneLeftOut
  BY DEF NetworksInv
<1>4. \A m \in extracted : NextModules(m)' = NextModules(m)
  BY <1>1, <1>2, DirectStays
<1>5. \A m \in extracted :
        networkId'[m] = IF m \in next \ visited' THEN networkId[n] ELSE networkId[m]
  BY <1>1, <1>2
<1>6. n \notin visited /\ networkId'[n] = networkId[n]
  BY <1>1, <1>3, <1>5 DEF CallsShare
<1>7. \A a, h \in extracted : h \in NextModules(a) => a \in NextModules(h)
  BY Steps
<1> HIDE DEF next
<1>8. VisitedShare'
  <2> SUFFICES ASSUME NEW v \in visited' \cap extracted,
                      NEW h \in NextModules(v) \cap extracted
               PROVE  h \in visited' \cup calls' /\ networkId'[h] = networkId'[v]
    BY <1>1, <1>4 DEF VisitedShare
  <2>1. CASE v = n
    <3>1. h \in next
      BY <2>1 DEF next
    <3>2. CASE h \in visited'
      <4>1. networkId'[h] = networkId[h]
        BY <1>5, <3>2
      <4>2. CASE h = n
        BY <2>1, <3>2, <4>2
      <4>3. CASE h # n
        <5>1. h \in visited /\ n \in NextModules(h)
          BY <1>1, <1>7, <2>1, <3>2, <4>3
        <5>2. networkId[n] = networkId[h]
          BY <1>1, <1>3, <5>1 DEF VisitedShare
        <5> QED
          BY <1>6, <2>1, <3>2, <4>1, <5>2
      <4> QED
        BY <4>2, <4>3
    <3>3. CASE h \notin visited'
      BY <1>1, <1>5, <1>6, <2>1, <3>1, <3>3
    <3> QED
      BY <3>2, <3>3
  <2>2. CASE v # n
    <3>1. v \in visited /\ networkId'[v] = networkId[v]
      BY <1>1, <1>5, <2>2
    <3>2. h \in visited \cup calls /\ networkId[h] = networkId[v]
      BY <1>3, <3>1 DEF VisitedShare
    <3>3. CASE h \in visited
      BY <1>1, <1>5, <3>1, <3>2, <3>3
    <3>4. CASE h = n
      <4>1. v \in NextModules(n)
        BY <1>7, <3>4
      <4> QED
        BY <1>1, <1>6, <3>1, <3>2, <3>4, <4>1
    <3>5. CASE h \in calls \ {n}
      <4>1. h \in calls' /\ networkId[h] = networkId[n]
        BY <1>1, <1>3, <3>5 DEF CallsShare
      <4> QED
        BY <1>5, <3>1, <3>2, <4>1
    <3> QED
      BY <3>2, <3>3, <3>4, <3>5
  <2> QED
    BY <2>1, <2>2
<1>9. CallsShare'
  <2>1. \A a \in calls' : networkId'[a] = networkId[n]
    <3> TAKE a \in calls'
    <3>1. CASE a \in calls
      BY <1>2, <1>3, <1>5, <3>1 DEF CallsShare
    <3>2. CASE a \in next \ visited'
      BY <1>5, <3>2 DEF next
    <3> QED
      BY <1>1, <3>1, <3>2
  <2>2. calls' \cap visited' = {}
    BY <1>1, <1>3 DEF CallsShare
  <2> QED
    BY <2>1, <2>2 DEF CallsShare
<1>10. IdsJoined'
  <2>1. ASSUME NEW m \in extracted
        PROVE  \E k \in extracted : networkId'[m] = Own(k) /\ Joined(k, m)
    <3>1. CASE m \in next \ visited'
      <4>1. PICK k \in extracted : networkId[n] = Own(k) /\ Joined(k, n)
        BY <1>1, <1>3 DEF IdsJoined
      <4>2. Joined(k, m)
        BY <1>1, <3>1, <4>1, JoinedFurther DEF next
      <4> QED
        BY <1>5, <3>1, <4>1, <4>2
    <3>2. CASE m \notin next \ visited'
      BY <1>3, <1>5, <3>2 DEF IdsJoined
    <3> QED
      BY <3>1, <3>2
  <2> QED
    BY <1>1, <2>1, DirectStays DEF IdsJoined
<1>11. NoneLeftOut'
  BY <1>1, <1>3, <1>4 DEF NoneLeftOut
<1> QED
  BY <1>8, <1>9, <1>10, <1>11

LEMMA StutterKeepsNetworks ==
    ASSUME GraphInv, NetworksInv, UNCHANGED vars PROVE NetworksInv'
<1>1. /\ UNCHANGED <<paths, graph, extracted>> /\ UNCHANGED traversal /\ extracted' = extracted
  BY DEF vars
<1>2. extracted \subseteq Node
  BY IdFacts DEF GraphInv, TraversalTyped
<1> SUFFICES ASSUME Direct PROVE VisitedShare' /\ CallsShare' /\ IdsJoined' /\ NoneLeftOut'
  BY <1>1, DirectStays DEF NetworksInv
<1>3. VisitedShare /\ CallsShare /\ IdsJoined /\ NoneLeftOut
  BY DEF NetworksInv
<1>4. \A m \in extracted : NextModules(m)' = NextModules(m)
  BY <1>1, <1>2, DirectStays
<1>5. VisitedShare' /\ CallsShare' /\ NoneLeftOut'
  BY <1>1, <1>3, <1>4 DEF VisitedShare, CallsShare, NoneLeftOut, traversal
<1>6. IdsJoined'
  BY <1>1, <1>3, DirectStays DEF IdsJoined, traversal
<1> QED
  BY <1>5, <1>6

LEMMA StepKeepsNetworks == GraphInv /\ NetworksInv /\ [Next]_vars => NetworksInv'
<1> SUFFICES ASSUME GraphInv, NetworksInv, [Next]_vars PROVE NetworksInv'
  OBVIOUS
<1>1. CASE \E selected \in SUBSET Modules : Extract(selected)
  BY <1>1, ExtractNumbers
<1>2. CASE NextRoot
  BY <1>2, NextRootTraverses
<1>3. CASE \E n \in calls : FindNetworks(n)
  BY <1>3, FindNetworksTraverses
<1>4. CASE \/ \E n \in Manual : AddManualNode(n)
           \/ \E n \in ToSet(nodes) : DeleteNode(n)
           \/ \E l \in Links :
               \/ DeleteLink(l)
               \/ \E src, dest \in ToSet(nodes) : AddLink(l, src, dest)
               \/ \E src, dest \in Modules : AddLinkByGates(l, src, dest)
           \/ Clear
  <2>1. Edit
    BY <1>4 DEF AddManualNode, DeleteNode, DeleteLink, AddLink, AddLinkByGates, Clear
  <2> QED
    BY <2>1, EditForgets
<1>5. CASE UNCHANGED vars
  BY <1>5, StutterKeepsNetworks
<1> QED
  BY <1>1, <1>2, <1>3, <1>4, <1>5 DEF Next

LEMMA NetworksInitially == Init => NetworksInv
BY DEF Init, NetworksInv, VisitedShare, CallsShare, IdsJoined, NoneLeftOut

(* When the traversal has ended, nodes with the same id are joined to the  *)
(* node whose number it is; those with one id are closed under links.      *)
LEMMA NetworksTold == GraphInv /\ NetworksInv => NetworksDirect
<1> SUFFICES ASSUME GraphInv, NetworksInv, ~Running, Direct,
                    NEW m \in extracted, NEW n \in extracted
             PROVE  networkId[m] = networkId[n] <=> Joined(m, n)
  BY DEF NetworksDirect
<1>1. VisitedShare /\ CallsShare /\ IdsJoined /\ NoneLeftOut
  BY DEF NetworksInv
<1>2. calls = {} /\ ToSet(roots) = {}
  BY DEF Running, ToSet
<1>3. ASSUME networkId[m] = networkId[n] PROVE Joined(m, n)
  <2>1. PICK k \in extracted : networkId[m] = Own(k) /\ Joined(k, m)
    BY <1>1 DEF IdsJoined
  <2>2. PICK j \in extracted : networkId[n] = Own(j) /\ Joined(j, n)
    BY <1>1 DEF IdsJoined
  <2>3. k = j
    BY <1>3, <2>1, <2>2, OwnFacts DEF GraphInv
  <2>4. Joined(m, k) /\ Joined(k, n)
    BY <2>1, <2>2, <2>3, JoinedSymmetric
  <2> QED
    BY <2>4 DEF Joined
<1>4. ASSUME Joined(m, n) PROVE networkId[m] = networkId[n]
  <2> DEFINE same == {k \in extracted : networkId[k] = networkId[m]}
  <2>1. Closed(same)
    <3> SUFFICES ASSUME NEW l \in DOMAIN link, link[l].src \in same
                 PROVE  link[l].dest \in same
      BY DEF Closed
    <3> DEFINE a == link[l].src
               h == link[l].dest
    <3>1. a \in extracted /\ h \in extracted
      BY DEF GraphInv, ExtractionInv
    <3>2. h \in NextModules(a)
      BY <3>1, Steps
    <3>3. a \in visited
      BY <1>1, <1>2, <3>1, <3>2 DEF NoneLeftOut
    <3>4. networkId[h] = networkId[a]
      BY <1>1, <3>1, <3>2, <3>3 DEF VisitedShare
    <3> QED
      BY <3>1, <3>4
  <2> QED
    BY <1>4, <2>1 DEF Joined
<1> QED
  BY <1>3, <1>4

(* After an extraction, whatever the network and the selection, two nodes  *)
(* have the same network id if and only if links join them, where          *)
(* connections are direct and lead both ways.                              *)
THEOREM NetworksAreJoined == Spec => []NetworksDirect
<1>1. Spec => []NetworksInv
  BY NetworksInitially, StepKeepsNetworks, GraphInvariant, PTL DEF Spec
<1> QED
  BY <1>1, NetworksTold, GraphInvariant, PTL
=============================================================================
