---------------------------- MODULE TopologyGraph ----------------------------
(***************************************************************************)
(* The graph of TopologyEcmp: its extraction from the simulated network,   *)
(* the networks it finds in it, and the edits by hand.                     *)
(*                                                                         *)
(* A module of the network is its id.  A network says where each output    *)
(* gate of a module leads: through gates of the modules listed, up to the  *)
(* end of the connection (a gate of a compound module continues inside or  *)
(* outside of it).  A gate is reduced to the module that owns it.  A node  *)
(* extracted for a module goes by the id of the module, one made by hand   *)
(* by a name; the name of a node that was freed, or the number of a link,  *)
(* may stand for a new one later.  The vectors of links are reduced to how *)
(* often they hold each link.                                              *)
(*                                                                         *)
(* The calls of findNetworks, one inside the other in the program, are     *)
(* taken apart, so that what they maintain can be stated.  Those open have *)
(* got the same network id, so that the order among them does not matter.  *)
(***************************************************************************)
EXTENDS Integers, FiniteSets, SequencesExt

CONSTANTS
    Modules,   \* the ids of modules
    Networks,  \* the networks: functions from Modules to sequences of paths
    Manual,    \* nodes made by hand
    ManualId,  \* ManualId[n]: the module id given to node n, or -1
    MaxLinks,  \* bound: links in the graph
    MaxEdits   \* bound: edits by hand, after which nothing is extracted

ASSUME ModulesAssumption ==
    Modules \subseteq Nat /\ IsFiniteSet(Modules) /\ Modules \cap Manual = {}
ASSUME NetworksAssumption == Networks \subseteq [Modules -> Seq(Seq(Modules))]
ASSUME ManualAssumption == ManualId \in [Manual -> Modules \cup {-1}]
ASSUME BoundsAssumption == MaxLinks \in Nat /\ MaxEdits \in Nat

VARIABLES
    paths,              \* the network there is
    nodes,              \* the vector nodes of the graph
    link,               \* from the links in the graph to their ends
    outLinks, inLinks,  \* the vectors of the nodes
    networkId, visited, \* of the nodes
    roots,              \* nodes that findNetworks is yet to be called for, and
    calls,              \* those its calls are open for
    extracted,          \* the modules selected by the last extraction
    failed,             \* the link on which addLink threw, or 0
    edits

graph == <<nodes, link, outLinks, inLinks>>
traversal == <<networkId, visited, roots, calls>>
vars == <<paths, graph, traversal, extracted, failed, edits>>

Node == Modules \cup Manual
Links == 1 .. MaxLinks

IdOf(n) == IF n \in Manual THEN ManualId[n] ELSE n

Ends ==
    [src : Node, dest : Node, srcGate : Modules \cup {-1}, destGate : Modules \cup {-1}]

(* Module ids are compared as unsigned numbers, so that -1 is the largest. *)
LessByModuleId_Signed(i, j) == i < j
LessByModuleId(i, j) == IF i = -1 THEN FALSE ELSE j = -1 \/ i < j

(* Where a binary search among the nodes may end: after a node that is     *)
(* less, if any, and before one that is not.  If they are sorted, there is *)
(* one such place.                                                         *)
LowerBound(id) ==
    CHOOSE k \in 1 .. Len(nodes) + 1 :
        /\ k > 1 => LessByModuleId(IdOf(nodes[k - 1]), id)
        /\ k <= Len(nodes) => ~LessByModuleId(IdOf(nodes[k]), id)

InGraph(n) == n \in ToSet(nodes)

HasNodeFor(m) ==
    LowerBound(m) \in DOMAIN nodes /\ IdOf(nodes[LowerBound(m)]) = m
GetNodeFor(m) == nodes[LowerBound(m)]

Empty == [n \in Node |-> [l \in Links |-> 0]]

Init ==
    /\ paths \in Networks
    /\ nodes = <<>>
    /\ link = <<>>
    /\ outLinks = Empty /\ inLinks = Empty
    /\ networkId = [n \in Node |-> 0]
    /\ visited = {} /\ roots = <<>> /\ calls = {}
    /\ extracted = {}
    /\ failed = 0
    /\ edits = 0

-----------------------------------------------------------------------------
(* Extraction.                                                             *)

(* The modules selected, by id: the order in which they are visited.       *)
Ascending(selected) ==
    CHOOSE order \in [1 .. Cardinality(selected) -> selected] :
        \A i, j \in DOMAIN order : i < j => order[i] < order[j]

(* The first selected module on a path, where a gate's link ends.          *)
Arrival(path, selected) == path[SelectInSeq(path, LAMBDA m : m \in selected)]

(* The output gates that lead to a selected module: <<module, number>>.    *)
LinkedGates(selected) ==
    UNION {{m} \X {i \in DOMAIN paths[m] : ToSet(paths[m][i]) \cap selected # {}} :
              m \in selected}

(* The links of a selection, numbered in an arbitrary order.               *)
LinksOf(selected) ==
    LET gates == SetToSeq(LinkedGates(selected))
        dest(g) == Arrival(paths[g[1]][g[2]], selected)
    IN  [l \in DOMAIN gates |->
            [src |-> gates[l][1], dest |-> dest(gates[l]),
             srcGate |-> gates[l][1], destGate |-> dest(gates[l])]]

Running == roots # <<>> \/ calls # {}

(* extractFromNetwork, up to the search for networks: what was in the graph*)
(* before is freed.                                                        *)
Extract(selected) ==
    LET order == Ascending(selected)
        links == LinksOf(selected)
    IN  /\ failed = 0 /\ ~Running /\ edits < MaxEdits
        /\ DOMAIN links \subseteq Links
        /\ nodes' = order
        /\ link' = links
        /\ outLinks' = [n \in Node |-> [l \in Links |->
                            IF l \in DOMAIN links /\ links[l].src = n THEN 1 ELSE 0]]
        /\ inLinks' = [n \in Node |-> [l \in Links |->
                            IF l \in DOMAIN links /\ links[l].dest = n THEN 1 ELSE 0]]
        /\ networkId' = [n \in Node |->
                            IF n \in selected THEN CHOOSE i \in DOMAIN order : order[i] = n
                                              ELSE 0]
        /\ visited' = {} /\ roots' = order /\ calls' = {}
        /\ extracted' = selected
        /\ UNCHANGED <<paths, failed, edits>>

(* The last line of extractFromNetwork, for one node.                      *)
NextRoot ==
    /\ calls = {} /\ roots # <<>>
    /\ calls' = {Head(roots)} \ visited
    /\ roots' = Tail(roots)
    /\ UNCHANGED <<paths, graph, networkId, visited, extracted, failed, edits>>

(* The modules to which connected output gates of m lead directly.         *)
NextModules_FirstGate(m) ==
    LET connected == {i \in DOMAIN paths[m] : paths[m][i] # <<>>}
    IN  {Head(paths[m][i]) : i \in {j \in connected : \A k \in connected : j <= k}}
NextModules(m) == {Head(path) : path \in ToSet(paths[m]) \ {<<>>}}

(* findNetworks: a node one of whose gates is connected is visited, and    *)
(* its network id handed on to the neighbours not visited yet.             *)
FindNetworks(n) ==
    LET next == {GetNodeFor(m) : m \in {k \in NextModules(n) : HasNodeFor(k)}}
    IN  /\ n \in calls
        /\ visited' = IF NextModules(n) # {} THEN visited \cup {n} ELSE visited
        /\ networkId' = [k \in Node |-> IF k \in next \ visited' THEN networkId[n]
                                                                 ELSE networkId[k]]
        /\ calls' = (calls \ {n}) \cup (next \ visited')
        /\ UNCHANGED <<paths, graph, roots, extracted, failed, edits>>

-----------------------------------------------------------------------------
(* Edits by hand.                                                          *)
Edit ==
    /\ failed = 0 /\ ~Running /\ edits < MaxEdits
    /\ edits' = edits + 1
    /\ extracted' = {}
    /\ UNCHANGED <<paths, traversal>>

(* A new node goes before the first one whose id is not less than its own, *)
(* a node without a module to the end.                                     *)
AddNode(n) ==
    IF IdOf(n) = -1 THEN Append(nodes, n) ELSE InsertAt(nodes, LowerBound(IdOf(n)), n)

AddManualNode(n) ==
    /\ Edit /\ ~InGraph(n)
    /\ nodes' = AddNode(n)
    /\ UNCHANGED <<link, outLinks, inLinks, failed>>

(* The vectors after the links given that have ends were erased from those *)
(* of their ends, which an ASSERT expects to hold them: below 0 it fails.  *)
UnlinkedFromSource(gone) ==
    [n \in Node |-> [l \in Links |->
        outLinks[n][l] - IF l \in gone \cap DOMAIN link /\ link[l].src = n THEN 1 ELSE 0]]
UnlinkedFromDest(gone) ==
    [n \in Node |-> [l \in Links |->
        inLinks[n][l] - IF l \in gone \cap DOMAIN link /\ link[l].dest = n THEN 1 ELSE 0]]

Without(gone) == [l \in DOMAIN link \ gone |-> link[l]]

HeldBy(vectors, n) == {l \in Links : vectors[n][l] > 0}

(* Links that leave n are taken from the nodes they enter, those that enter*)
(* it from the nodes they leave, and both are freed.                       *)
DeleteNode(n) ==
    /\ Edit
    /\ nodes' = RemoveFirst(nodes, n)
    /\ link' = Without(HeldBy(outLinks, n) \cup HeldBy(inLinks, n))
    /\ outLinks' = [UnlinkedFromSource(HeldBy(inLinks, n)) EXCEPT ![n] = Empty[n]]
    /\ inLinks' = [UnlinkedFromDest(HeldBy(outLinks, n)) EXCEPT ![n] = Empty[n]]
    /\ UNCHANGED failed

DeleteLink(l) ==
    /\ Edit /\ l \in DOMAIN link
    /\ link' = Without({l})
    /\ outLinks' = UnlinkedFromSource({l})
    /\ inLinks' = UnlinkedFromDest({l})
    /\ UNCHANGED <<nodes, failed>>

(* Links are freed at their source.                                        *)
Clear ==
    /\ Edit
    /\ link' = Without(UNION {HeldBy(outLinks, n) : n \in ToSet(nodes)})
    /\ nodes' = <<>> /\ outLinks' = Empty /\ inLinks' = Empty
    /\ UNCHANGED failed

(* The link, new or taken out of the graph first, joins the ends given.    *)
Linked_LeftAtSource(l, ends) ==
    /\ link' = [k \in DOMAIN link \cup {l} |-> IF k = l THEN ends ELSE link[k]]
    /\ outLinks' = [outLinks EXCEPT ![ends.src][l] = @ + 1]
    /\ inLinks' = [UnlinkedFromDest({l}) EXCEPT ![ends.dest][l] = @ + 1]
Linked(l, ends) ==
    /\ link' = [k \in DOMAIN link \cup {l} |-> IF k = l THEN ends ELSE link[k]]
    /\ outLinks' = [UnlinkedFromSource({l}) EXCEPT ![ends.src][l] = @ + 1]
    /\ inLinks' = [UnlinkedFromDest({l}) EXCEPT ![ends.dest][l] = @ + 1]

(* A link of the graph, or the next new one.                               *)
MayAdd(l) == l \in DOMAIN link \/ \A k \in 1 .. l - 1 : k \in DOMAIN link

(* A gate is kept only where the link keeps its node.                      *)
EndsAt_GatesKept(l, src, dest) ==
    [src |-> src, dest |-> dest,
     srcGate |-> IF l \in DOMAIN link THEN link[l].srcGate ELSE -1,
     destGate |-> IF l \in DOMAIN link THEN link[l].destGate ELSE -1]
EndsAt(l, src, dest) ==
    LET old == l \in DOMAIN link
    IN  [src |-> src, dest |-> dest,
         srcGate |-> IF old /\ link[l].src = src THEN link[l].srcGate ELSE -1,
         destGate |-> IF old /\ link[l].dest = dest THEN link[l].destGate ELSE -1]

AddLink(l, src, dest) ==
    /\ Edit /\ MayAdd(l)
    /\ Linked(l, EndsAt(l, src, dest))
    /\ UNCHANGED <<nodes, failed>>

(* Between the gates of two modules, which should have nodes.              *)
AddLinkByGates(l, srcModule, destModule) ==
    /\ Edit /\ MayAdd(l)
    /\ \/ /\ HasNodeFor(srcModule) /\ HasNodeFor(destModule)
          /\ Linked(l, [src |-> GetNodeFor(srcModule), dest |-> GetNodeFor(destModule),
                        srcGate |-> srcModule, destGate |-> destModule])
          /\ UNCHANGED failed
       \/ /\ ~(HasNodeFor(srcModule) /\ HasNodeFor(destModule))
          /\ outLinks' = UnlinkedFromSource({l})
          /\ inLinks' = UnlinkedFromDest({l})
          /\ failed' = l
          /\ UNCHANGED link
    /\ UNCHANGED nodes

Next ==
    \/ \E selected \in SUBSET Modules : Extract(selected)
    \/ NextRoot
    \/ \E n \in calls : FindNetworks(n)
    \/ \E n \in Manual : AddManualNode(n)
    \/ \E n \in ToSet(nodes) : DeleteNode(n)
    \/ \E l \in Links :
        \/ DeleteLink(l)
        \/ \E src, dest \in ToSet(nodes) : AddLink(l, src, dest)
        \/ \E src, dest \in Modules : AddLinkByGates(l, src, dest)
    \/ Clear

Spec == Init /\ [][Next]_vars

-----------------------------------------------------------------------------
(* Properties.                                                             *)

(* The vectors, ends and ids keep their shape.  In particular a gate of a  *)
(* link is a gate of the module its node stands for, after the link has    *)
(* been reconnected to other nodes too.                                    *)
TypeOK ==
    /\ paths \in Networks
    /\ nodes \in Seq(Node)
    /\ DOMAIN link \subseteq Links /\ \A l \in DOMAIN link : link[l] \in Ends
    /\ \A l \in DOMAIN link :
        /\ link[l].srcGate \in {-1, IdOf(link[l].src)}
        /\ link[l].destGate \in {-1, IdOf(link[l].dest)}
    /\ outLinks \in [Node -> [Links -> Nat]]
    /\ inLinks \in [Node -> [Links -> Nat]]
    /\ networkId \in [Node -> 0 .. Cardinality(Modules)]
    /\ visited \subseteq extracted \/ ~Running
    /\ roots \in Seq(extracted) /\ calls \subseteq extracted
    /\ extracted \subseteq Modules
    /\ failed \in 0 .. MaxLinks
    /\ edits \in 0 .. MaxEdits

(* l is found in the vectors of the nodes given, once, and of no other.    *)
FoundAt(vectors, l, ends) ==
    \A n \in Node : vectors[n][l] = IF n \in ends THEN 1 ELSE 0

(* However the graph is edited, each link is found at its two ends, once,  *)
(* and nowhere else, and its ends are nodes of the graph: unlinking always *)
(* finds the link, and no freed node or link can be reached.  Only a link  *)
(* on which addLink threw has left the graph, at both its ends, and keeps  *)
(* believing in them.                                                      *)
LinksConsistent ==
    /\ \A l \in DOMAIN link \ {failed} :
        /\ FoundAt(outLinks, l, {link[l].src}) /\ InGraph(link[l].src)
        /\ FoundAt(inLinks, l, {link[l].dest}) /\ InGraph(link[l].dest)
    /\ \A l \in Links : l \notin DOMAIN link \/ l = failed =>
        FoundAt(outLinks, l, {}) /\ FoundAt(inLinks, l, {})

(* The nodes stay ordered by module id, those without one at the end, so   *)
(* that the binary search finds a node for a module if and only if there is*)
(* one; no node is there twice.                                            *)
NodesFound ==
    /\ \A i, j \in DOMAIN nodes : i < j => ~LessByModuleId(IdOf(nodes[j]), IdOf(nodes[i]))
    /\ \A i, j \in DOMAIN nodes : nodes[i] = nodes[j] => i = j
    /\ \A m \in Modules : HasNodeFor(m) <=> \E n \in ToSet(nodes) : IdOf(n) = m

(* The connections of the selected modules lead both ways, and directly    *)
(* from one to the next: across no other module, as between the hosts and  *)
(* switches of a flat network.                                             *)
Direct ==
    /\ \A m \in extracted : \A path \in ToSet(paths[m]) :
        ToSet(path) \cap extracted # {} => Head(path) \in extracted
    /\ \A k \in DOMAIN link : \E l \in DOMAIN link :
        link[l].src = link[k].dest /\ link[l].dest = link[k].src

(* What links join: what is in every set that holds m and all that a link  *)
(* leads to from within it.                                                *)
Closed(S) == \A l \in DOMAIN link : link[l].src \in S => link[l].dest \in S
Joined(m, n) == \A S \in SUBSET extracted : m \in S /\ Closed(S) => n \in S

(* After an extraction two nodes have the same network id if and only if   *)
(* links join them, where connections are direct.                          *)
NetworksDirect ==
    ~Running /\ Direct =>
        \A m, n \in extracted : networkId[m] = networkId[n] <=> Joined(m, n)
=============================================================================
