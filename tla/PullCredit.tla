------------------------------ MODULE PullCredit ------------------------------
(***************************************************************************)
(* What the pull transport promises, without its counters and queues: a    *)
(* receiver grants credit, a sender sends no more symbols than it has      *)
(* credit for, a symbol arrives at most once, and a transfer is reported   *)
(* complete, once and for all, by the arrival of a symbol with which at    *)
(* least as many symbols have arrived as the application sends.            *)
(***************************************************************************)
EXTENDS Naturals

CONSTANTS
    Transfers,  \* the transfers
    Size,       \* Size[t]: symbols the application of t sends
    Initial     \* Initial[t]: credit the sender of t has from the start

VARIABLES granted, sent, arrived, complete

vars == <<granted, sent, arrived, complete>>

Init ==
    /\ granted = Initial
    /\ sent = [t \in Transfers |-> 0]
    /\ arrived = [t \in Transfers |-> 0]
    /\ complete = [t \in Transfers |-> FALSE]

(* The receiver grants credit for one more symbol.                         *)
Grant(t) ==
    /\ granted' = [granted EXCEPT ![t] = @ + 1]
    /\ UNCHANGED <<sent, arrived, complete>>

(* The sender uses some of its credit, not necessarily all of it.          *)
Send(t) ==
    /\ \E n \in sent[t] + 1 .. granted[t] : sent' = [sent EXCEPT ![t] = n]
    /\ UNCHANGED <<granted, arrived, complete>>

(* A symbol in flight arrives, and may complete the transfer.              *)
Arrive(t) ==
    /\ arrived[t] < sent[t]
    /\ arrived' = [arrived EXCEPT ![t] = @ + 1]
    /\ \/ UNCHANGED complete
       \/ /\ ~complete[t]
          /\ arrived'[t] >= Size[t]
          /\ complete' = [complete EXCEPT ![t] = TRUE]
    /\ UNCHANGED <<granted, sent>>

Next == \E t \in Transfers : Grant(t) \/ Send(t) \/ Arrive(t)

Spec == Init /\ [][Next]_vars
=============================================================================
