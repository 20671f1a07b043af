--------------------------- MODULE MCRaqsacOutage ---------------------------
(* Instances of RaqsacOutage for TLC: every transfer has the same size.    *)
EXTENDS RaqsacOutage

CONSTANT SymbolsPerConn

MCNumSymbols == [c \in Conns |-> SymbolsPerConn]
=============================================================================
