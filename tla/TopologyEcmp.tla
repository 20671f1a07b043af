----------------------------- MODULE TopologyEcmp -----------------------------
(***************************************************************************)
(* The shortest path finders of TopologyEcmp, which the configurator of    *)
(* the simulated network asks for the routes to each target in turn, and   *)
(* the setters of weights and of enabled states, and the deletion of nodes *)
(* and links, between calculations.                                        *)
(*                                                                         *)
(* A calculation is one call of the program: its loops are taken apart,    *)
(* into an action for each node popped from the queue and for each         *)
(* incoming link examined, so that what the loops maintain can be stated.  *)
(* The links that enter a node are examined in any order, which is that of *)
(* a vector in the code.  Weights and distances, doubles in the code, are  *)
(* natural numbers or INFINITY.                                            *)
(***************************************************************************)
EXTENDS Integers, SequencesExt

CONSTANTS
    Node, Link,
    SrcNode,     \* SrcNode[l], DestNode[l]: the nodes at the ends of l
    DestNode,
    INFINITY, NoLink,
    LinkWeights, NodeWeights,  \* the weights the setters are given
    MaxEdits     \* bound on the calls that change the graph

Weight == Nat \cup {INFINITY}

ASSUME InfinityAssumption == INFINITY \notin Nat
ASSUME NoLinkAssumption == NoLink \notin Link
ASSUME GraphAssumption ==
    /\ SrcNode \in [Link -> Node]
    /\ DestNode \in [Link -> Node]
(* The ASSERTs of the weighted calculation.                                *)
ASSUME WeightAssumption ==
    LinkWeights \subseteq Weight \ {0} /\ NodeWeights \subseteq Weight
ASSUME BoundAssumption == MaxEdits \in Nat

VARIABLES
    linkWeight, linkEnabled, nodeWeight, nodeEnabled,
    nodes,        \* the nodes that are not deleted
    inLinks,      \* inLinks[n]: the links that enter n; a link in none is deleted
    phase,        \* "idle", the calculation that runs, or what it found
    target,
    dist, outPath, outPathEcmp,  \* the results, kept in the nodes
    q,
    dest, links,  \* the node popped, and its incoming links yet to examine
    edits

config == <<linkWeight, linkEnabled, nodeWeight, nodeEnabled, nodes, inLinks>>
vars == <<config, phase, target, dist, outPath, outPathEcmp, q, dest, links, edits>>

Running == {"weighted", "unweighted"}
Found == {"foundWeighted", "foundUnweighted"}

(* The links of the graph.                                                 *)
InGraph(l) == l \in inLinks[DestNode[l]]

Live == {l \in Link : InGraph(l)}

(* New nodes and links: weight 0 and 1, enabled, no path.                  *)
Init ==
    /\ linkWeight = [l \in Link |-> 1]
    /\ linkEnabled = [l \in Link |-> TRUE]
    /\ nodeWeight = [n \in Node |-> 0]
    /\ nodeEnabled = [n \in Node |-> TRUE]
    /\ nodes = Node
    /\ inLinks = [n \in Node |-> {l \in Link : DestNode[l] = n}]
    /\ phase = "idle"
    /\ target \in Node
    /\ dist = [n \in Node |-> INFINITY]
    /\ outPath = [n \in Node |-> NoLink]
    /\ outPathEcmp = [n \in Node |-> <<>>]
    /\ q = <<>> /\ dest = target /\ links = {}
    /\ edits = 0

-----------------------------------------------------------------------------
(* The graph changes between calculations only; what was found before says *)
(* nothing of it as it is then, and paths may name links that were deleted.*)
Edit ==
    /\ phase \notin Running /\ edits < MaxEdits
    /\ edits' = edits + 1 /\ phase' = "idle"
    /\ UNCHANGED <<target, dist, outPath, outPathEcmp, q, dest, links>>

SetLinkWeight(l, w) ==
    /\ Edit /\ InGraph(l) /\ linkWeight' = [linkWeight EXCEPT ![l] = w]
    /\ UNCHANGED <<linkEnabled, nodeWeight, nodeEnabled, nodes, inLinks>>

SetNodeWeight(n, w) ==
    /\ Edit /\ n \in nodes /\ nodeWeight' = [nodeWeight EXCEPT ![n] = w]
    /\ UNCHANGED <<linkWeight, linkEnabled, nodeEnabled, nodes, inLinks>>

SetLinkEnabled(l, b) ==
    /\ Edit /\ InGraph(l) /\ linkEnabled' = [linkEnabled EXCEPT ![l] = b]
    /\ UNCHANGED <<linkWeight, nodeWeight, nodeEnabled, nodes, inLinks>>

SetNodeEnabled(n, b) ==
    /\ Edit /\ n \in nodes /\ nodeEnabled' = [nodeEnabled EXCEPT ![n] = b]
    /\ UNCHANGED <<linkWeight, linkEnabled, nodeWeight, nodes, inLinks>>

(* Links are unlinked from both their nodes and freed, those of a node     *)
(* together with it.                                                       *)
Unlink(gone) ==
    /\ inLinks' = [n \in Node |-> inLinks[n] \ gone]
    /\ UNCHANGED <<linkWeight, linkEnabled, nodeWeight, nodeEnabled>>

DeleteLink(l) == Edit /\ InGraph(l) /\ Unlink({l}) /\ UNCHANGED nodes

DeleteNode(n) ==
    /\ Edit /\ n \in nodes
    /\ nodes' = nodes \ {n}
    /\ Unlink({l \in Live : n \in {SrcNode[l], DestNode[l]}})

-----------------------------------------------------------------------------
Start(kind, t) ==
    /\ phase \notin Running /\ t \in nodes
    /\ phase' = kind /\ target' = t
    /\ dist' = [n \in Node |-> IF n = t THEN 0 ELSE INFINITY]
    /\ outPath' = [n \in Node |-> NoLink]
    /\ q' = <<t>> /\ links' = {}
    /\ UNCHANGED <<config, dest, edits>>

(* Only the weighted calculation clears the links of equal cost.           *)
Cleared_Kept == outPathEcmp
Cleared == [n \in Node |-> <<>>]

CalculateWeighted(t) == Start("weighted", t) /\ outPathEcmp' = Cleared
CalculateUnweighted(t) == Start("unweighted", t) /\ UNCHANGED outPathEcmp

Pop ==
    /\ phase \in Running /\ links = {} /\ q # <<>>
    /\ dest' = Head(q) /\ q' = Tail(q) /\ links' = inLinks[Head(q)]
    /\ UNCHANGED <<config, phase, target, dist, outPath, outPathEcmp, edits>>

(* A link counts if it and the node it comes from are enabled.             *)
Usable(l) == linkEnabled[l] /\ nodeEnabled[SrcNode[l]]

Skip(l) ==
    /\ phase \in Running /\ ~Usable(l)
    /\ links' = links \ {l}
    /\ UNCHANGED <<config, phase, target, dist, outPath, outPathEcmp, q, dest, edits>>

Plus(a, b) == IF INFINITY \in {a, b} THEN INFINITY ELSE a + b

(* The distance of the node l comes from, by l: a node other than the      *)
(* target charges its weight for routing, INFINITY if it does not route.   *)
NewDist_NoNodeWeight(l) == Plus(dist[DestNode[l]], linkWeight[l])
NewDist_NoLinkWeight(l) ==
    Plus(dist[DestNode[l]], IF DestNode[l] = target THEN 0 ELSE nodeWeight[DestNode[l]])
NewDist(l) ==
    LET n == DestNode[l]
    IN  Plus(Plus(dist[n], linkWeight[l]), IF n = target THEN 0 ELSE nodeWeight[n])

(* A path as short as the one known replaces it too.                       *)
Improves_Strictly(l) ==
    /\ NewDist(l) # INFINITY
    /\ dist[SrcNode[l]] # INFINITY => dist[SrcNode[l]] > NewDist(l)
Improves(l) ==
    /\ NewDist(l) # INFINITY
    /\ dist[SrcNode[l]] # INFINITY => dist[SrcNode[l]] >= NewDist(l)

(* n goes in front of the first node of s that is further away than d.     *)
Insert(s, n, d) ==
    LET further == {i \in DOMAIN s : dist[s[i]] > d}
        k == CHOOSE i \in 1 .. Len(s) + 1 :
                 /\ i \in further \cup {Len(s) + 1}
                 /\ \A j \in further : i <= j
    IN  SubSeq(s, 1, k - 1) \o <<n>> \o SubSeq(s, k, Len(s))

InQueue(n) == \E i \in DOMAIN q : q[i] = n

RemoveFromQueue_Kept(n) == q
RemoveFromQueue(n) ==
    IF InQueue(n) THEN RemoveAt(q, CHOOSE i \in DOMAIN q : q[i] = n) ELSE q

(* A longer path that was known stays among the links of equal cost.       *)
AddEcmp(l) == [outPathEcmp EXCEPT ![SrcNode[l]] = Append(@, l)]

RelaxWeighted(l) ==
    LET src == SrcNode[l]
    IN  /\ phase = "weighted" /\ Usable(l)
        /\ links' = links \ {l}
        /\ \/ /\ Improves(l)
              /\ dist' = [dist EXCEPT ![src] = NewDist(l)]
              /\ outPath' = [outPath EXCEPT ![src] = l]
              /\ outPathEcmp' = AddEcmp(l)
              /\ q' = Insert(RemoveFromQueue(src), src, NewDist(l))
           \/ /\ ~Improves(l)
              /\ UNCHANGED <<dist, outPath, outPathEcmp, q>>
        /\ UNCHANGED <<config, phase, target, dest, edits>>

(* The first path to a node is the one that stays.                         *)
RelaxUnweighted(l) ==
    LET src == SrcNode[l]
    IN  /\ phase = "unweighted" /\ Usable(l)
        /\ links' = links \ {l}
        /\ \/ /\ dist[src] = INFINITY
              /\ dist' = [dist EXCEPT ![src] = dist[dest] + 1]
              /\ outPath' = [outPath EXCEPT ![src] = l]
              /\ q' = Append(q, src)
           \/ /\ dist[src] # INFINITY
              /\ UNCHANGED <<dist, outPath, q>>
        /\ UNCHANGED <<config, phase, target, outPathEcmp, dest, edits>>

Return ==
    /\ phase \in Running /\ links = {} /\ q = <<>>
    /\ phase' = IF phase = "weighted" THEN "foundWeighted" ELSE "foundUnweighted"
    /\ UNCHANGED <<config, target, dist, outPath, outPathEcmp, q, dest, links, edits>>

-----------------------------------------------------------------------------
Next ==
    \/ \E l \in Link, w \in LinkWeights : SetLinkWeight(l, w)
    \/ \E n \in Node, w \in NodeWeights : SetNodeWeight(n, w)
    \/ \E l \in Link, b \in BOOLEAN : SetLinkEnabled(l, b)
    \/ \E n \in Node, b \in BOOLEAN : SetNodeEnabled(n, b)
    \/ \E l \in Link : DeleteLink(l)
    \/ \E n \in Node : DeleteNode(n)
    \/ \E t \in Node : CalculateWeighted(t) \/ CalculateUnweighted(t)
    \/ Pop
    \/ \E l \in links : Skip(l) \/ RelaxWeighted(l) \/ RelaxUnweighted(l)
    \/ Return

Spec == Init /\ [][Next]_vars

-----------------------------------------------------------------------------
(* Reached, and out of the queue for good.                                 *)
Settled(n) == dist[n] # INFINITY /\ ~InQueue(n)

(* The cost of a path whose first link is l, in the calculation's measure. *)
Cost(l) ==
    LET d == DestNode[l]
        hops == phase = "foundUnweighted"
        link == IF hops THEN 1 ELSE linkWeight[l]
        node == IF hops \/ d = target THEN 0 ELSE nodeWeight[d]
    IN  IF INFINITY \in {dist[d], link, node} THEN INFINITY ELSE dist[d] + link + node

(* The links n could take towards the target.                              *)
NextLinks(n) ==
    {l \in Link :
        SrcNode[l] = n /\ InGraph(l) /\ linkEnabled[l] /\ nodeEnabled[n] /\ Cost(l) # INFINITY}

Shortest(n, l) ==
    l \in NextLinks(n) /\ \A other \in NextLinks(n) : Cost(l) <= Cost(other)

(* The values the variables take; a node is in the queue at most once, and *)
(* links holds only links that enter the node popped.                      *)
TypeOK ==
    /\ linkWeight \in [Link -> Weight] /\ linkEnabled \in [Link -> BOOLEAN]
    /\ nodeWeight \in [Node -> Weight] /\ nodeEnabled \in [Node -> BOOLEAN]
    /\ nodes \subseteq Node
    /\ inLinks \in [Node -> SUBSET Link] /\ \A n \in Node : \A l \in inLinks[n] : DestNode[l] = n
    /\ phase \in {"idle"} \cup Running \cup Found
    /\ target \in Node /\ dest \in Node
    /\ dist \in [Node -> Weight]
    /\ outPath \in [Node -> Link \cup {NoLink}]
    /\ outPathEcmp \in [Node -> Seq(Link)]
    /\ q \in Seq(Node) /\ \A i, j \in DOMAIN q : q[i] = q[j] => i = j
    /\ links \subseteq inLinks[dest]
    /\ edits \in 0 .. MaxEdits

(* A node that has been popped keeps its distance and its path to the end  *)
(* of the calculation, and is never queued again: a tie, which counts as an*)
(* improvement, must not start a round without end.                        *)
StaysSettled ==
    \A n \in Node :
        Settled(n) \/ (InQueue(n) /\ ~InQueue(n)') =>
            /\ dist'[n] = dist[n] /\ outPath'[n] = outPath[n]
            /\ Settled(n)'

SettledForGood == [][(phase \in Running) => StaysSettled]_vars

(* Following any of the links of equal cost, those of longer paths among   *)
(* them, leads strictly nearer to the target, at every moment: a packet    *)
(* that any mix of choices routes never goes in a circle, nor over a link  *)
(* that was deleted after an earlier calculation found it.                 *)
LoopFree ==
    phase \in {"weighted", "foundWeighted"} =>
        \A n \in Node : \A i \in DOMAIN outPathEcmp[n] :
            LET d == DestNode[outPathEcmp[n][i]]
            IN  /\ InGraph(outPathEcmp[n][i])
                /\ dist[n] # INFINITY /\ dist[d] # INFINITY /\ dist[d] < dist[n]

(* The distances found are those of the shortest paths, and getPath() is   *)
(* the first link of one.  Weights of links are positive, so that the      *)
(* equations have one solution; a node that is disabled, or has no path,   *)
(* is at INFINITY, and it and the target have no link.                     *)
ShortestPaths ==
    phase \in Found =>
        /\ dist[target] = 0 /\ outPath[target] = NoLink
        /\ \A n \in Node \ {target} :
              \/ NextLinks(n) = {} /\ dist[n] = INFINITY /\ outPath[n] = NoLink
              \/ Shortest(n, outPath[n]) /\ dist[n] = Cost(outPath[n])

OnlyShortest ==
    \A n \in Node : \A i \in DOMAIN outPathEcmp[n] : Shortest(n, outPathEcmp[n][i])

(* Every link costs a hop and a node routes or does not, as in the fat     *)
(* trees simulated.                                                        *)
HopCounts ==
    /\ \A k, l \in Live : linkWeight[k] = linkWeight[l]
    /\ \A n \in Node : nodeWeight[n] \in {0, INFINITY}

(* getPathECMP() finds every first link of a shortest path, once, and no   *)
(* other if the weights count hops.                                        *)
EqualCostPaths ==
    phase = "foundWeighted" =>
        /\ \A n \in Node \ {target} : \A l \in Link :
              Shortest(n, l) =>
                /\ \E i \in DOMAIN outPathEcmp[n] : outPathEcmp[n][i] = l
                /\ \A i, j \in DOMAIN outPathEcmp[n] :
                      outPathEcmp[n][i] = outPathEcmp[n][j] => i = j
        /\ HopCounts => OnlyShortest

(* getPathECMP() finds first links of shortest paths only: what a header   *)
(* that promises the shortest paths says.                                  *)
EcmpOnlyShortest == phase = "foundWeighted" => OnlyShortest
=============================================================================
