---------------------------- MODULE MCRaqsacHosts ----------------------------
(* Instances of RaqsacHosts for TLC: clients on host a, sinks on host b,   *)
(* but for cback, a client of b with the sink sback on a.  A socket's name *)
(* tells its parameters: c0 and s0 leave their address open, cfix and sfix *)
(* bind port 11 of the ephemeral range, s1 and c1 use port 1.              *)
EXTENDS RaqsacHosts

CONSTANTS a, b, c0, c1, c2, cfix, cback, s0, s1, sdup, snone, sfix, sback

MCHostOf ==
    [s \in Sockets |->
        IF s \in (Clients \ {cback}) \cup {sfix, sback} THEN a ELSE b]

MCLocalAddress ==
    [s \in Sockets |-> IF s \in {c0, s0} THEN Unspecified ELSE MCHostOf[s]]

MCLocalPort ==
    [s \in Sockets |->
        CASE s \in {cfix, sfix} -> 11
          [] s = s0 -> 0
          [] s = sback -> 3
          [] s \in {s1, sdup} -> 1
          [] OTHER -> -1]

MCConnectAddress == [c \in Clients |-> IF c = cback THEN a ELSE b]

MCConnectPort ==
    [c \in Clients |->
        CASE c = c0 -> 0 [] c = c2 -> 2 [] c = cback -> 3 [] OTHER -> 1]

(* Clients and sinks that match, with outages of their hosts; the same     *)
(* undisturbed; one client too many, next to sinks that cannot open; and a *)
(* host that is both, so that it can stop before its client has connected, *)
(* with another client's segments on their way and an ephemeral port used. *)
Exposed == {c0, c1, cfix, s0, s1}
Quiet == {c0, c1, s0, s1}
Crowded == {c0, c1, c2, cfix, s1, sfix, sdup, snone}
Mixed == {c1, cback, s1, sback, sfix}
Single == {c1, s1}

MCDeployments == {Exposed, Quiet, Crowded, Mixed}
MCMaxOutages ==
    [d \in MCDeployments |-> IF d \in {Exposed, Mixed} THEN 2 ELSE 0]

MCSingle == {Single}
MCNoOutage == [d \in MCSingle |-> 0]

(* NoCrossTalk is claimed of deployments that keep to these only.          *)
ASSUME ApartAssumption == ClientsApart /\ ServicesApart
=============================================================================
