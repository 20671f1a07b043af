--------------------------- MODULE MCTopologyGraph ---------------------------
(* Instances of TopologyGraph for TLC.                                     *)
EXTENDS TopologyGraph

CONSTANTS plain, again

(* Three modules in a row and one apart.                                   *)
Row == <<<<<<2>>>>, <<<<1>>, <<3>>>>, <<<<2>>>>, <<<<>>>>>>

(* Module 3 is compound and holds 4, which is joined to 1 across its       *)
(* boundary; two connections join 1 to 2.                                  *)
Nested == <<<<<<2>>, <<3, 4>>, <<2>>>>, <<<<1>>>>, <<<<1>>>>, <<<<3, 1>>>>>>

(* 1 and 3 send to 2, which sends to itself.                               *)
OneWay == <<<<<<>>, <<2>>>>, <<<<2>>>>, <<<<2>>>>, <<>>>>

MCNetworks == {Row, Nested, OneWay}
MCManualId == [n \in Manual |-> IF n = plain THEN -1 ELSE 2]
=============================================================================
