----------------------------- MODULE MCRaqsacPath -----------------------------
(* An instance of RaqsacPath for TLC: a short transfer of priority 1, which *)
(* queues lose, and a longer one of the lowest priority, which they trim.   *)
EXTENDS RaqsacPath

CONSTANTS short, long, ShortSymbols, LongSymbols

MCNumSymbols == [c \in Conns |-> IF c = short THEN ShortSymbols ELSE LongSymbols]

MCPriority == [c \in Conns |-> IF c = short THEN 1 ELSE 0]
=============================================================================
