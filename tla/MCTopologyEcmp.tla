---------------------------- MODULE MCTopologyEcmp ----------------------------
(* Instances of TopologyEcmp for TLC.                                      *)
EXTENDS TopologyEcmp, TLC

CONSTANTS t, a, b, s

MCNode == {t, a, b, s}

(* Two routers a and b between t and s, joined to each other, every edge   *)
(* a link each way.                                                        *)
Edges == {<<t, a>>, <<t, b>>, <<a, b>>, <<a, s>>, <<b, s>>}
MCLink == Edges \cup {<<e[2], e[1]>> : e \in Edges}
MCSrcNode == [l \in MCLink |-> l[1]]
MCDestNode == [l \in MCLink |-> l[2]]

(* A new link has weight 1 and a new node weight 0: what else they are given. *)
MCLinkWeights == {2}
MCNodeWeights == {1, INFINITY}
=============================================================================
