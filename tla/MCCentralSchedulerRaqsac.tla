------------------------ MODULE MCCentralSchedulerRaqsac ------------------------
(* Instances of CentralSchedulerRaqsac for TLC: the fat tree of kValue 4,  *)
(* with 16 servers.                                                        *)
EXTENDS CentralSchedulerRaqsac

Unshuffled == [i \in 1 .. 16 |-> i - 1]
Strided == [i \in 1 .. 16 |-> (5 * i + 3) % 16]
MCShuffles == {Unshuffled, Strided}

(* The sizes around the boundaries of the priorities.                      *)
MCWorkLoad == {7, 8, 67, 68, 667, 668, 6667, 6668}
=============================================================================
