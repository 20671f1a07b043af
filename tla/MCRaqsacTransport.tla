-------------------------- MODULE MCRaqsacTransport --------------------------
(* Instances of RaqsacTransport for TLC: every transfer has the same size. *)
EXTENDS RaqsacTransport

CONSTANT SymbolsPerConn

MCNumSymbols == [c \in Conns |-> SymbolsPerConn]
=============================================================================
