------------------------- MODULE MCRaqsacSwitchQueue -------------------------
(* Instances of RaqsacSwitchQueue for TLC: Traffic says how many packets   *)
(* of each kind and priority there are.                                    *)
EXTENDS RaqsacSwitchQueue, TLC

CONSTANTS syn1, pull1, pull2, header1, low1, low2, lossy1, lossy2, high1, stray1

MCKind ==
    [p \in Packet |->
        CASE p = syn1 -> "syn"
          [] p \in {pull1, pull2} -> "pull"
          [] p = header1 -> "header"
          [] OTHER -> "data"]

MCPriority ==
    [p \in Packet |->
        CASE p \in {lossy1, lossy2} -> 1
          [] p = high1 -> 2
          [] p = stray1 -> 7
          [] OTHER -> 0]
=============================================================================
