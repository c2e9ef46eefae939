------------------------------- MODULE MCStp --------------------------------
(***************************************************************************)
(* Topologies for Stp.  A port is a pair <<switch, port number>>; a link   *)
(* is a pair of ports.                                                     *)
(***************************************************************************)
EXTENDS Stp

\* four_node_ring.py: b1-eth0 to b2-eth0, b1-eth1 to b3-eth0, b2-eth1 to b4-eth0,
\* b3-eth1 to b4-eth1; stp_init numbers the ports from 1.
RingLinks == {<< <<1, 1>>, <<2, 1>> >>, << <<1, 2>>, <<3, 1>> >>,
              << <<2, 2>>, <<4, 1>> >>, << <<3, 2>>, <<4, 2>> >>}

TriangleLinks == {<< <<1, 1>>, <<2, 1>> >>, << <<1, 2>>, <<3, 1>> >>,
                  << <<2, 2>>, <<3, 2>> >>}

\* Two crossed links between the first two switches, so that only port numbers
\* tell their ends apart, and a third switch behind the second.
TwinLinks == {<< <<1, 1>>, <<2, 2>> >>, << <<1, 2>>, <<2, 1>> >>,
              << <<2, 3>>, <<3, 1>> >>}

PortsOf(links) == {l[1] : l \in links} \cup {l[2] : l \in links}
PeerIn(links) ==
    [p \in PortsOf(links) |->
        CHOOSE q \in PortsOf(links) : <<p, q>> \in links \/ <<q, p>> \in links]

MCSwitch3 == 1..3
MCSwitch4 == 1..4
MCPortTriangle == PortsOf(TriangleLinks)
MCPortTwin == PortsOf(TwinLinks)
MCPortRing == PortsOf(RingLinks)
MCPeerTriangle == PeerIn(TriangleLinks)
MCPeerTwin == PeerIn(TwinLinks)
MCPeerRing == PeerIn(RingLinks)
MCSw == [p \in Port |-> p[1]]
MCPortId == [p \in Port |-> p[2]]

\* Path costs by breadth-first search over the links.
Neighbours(S) == S \cup {Sw[Peer[p]] : p \in {q \in Port : Sw[q] \in S}}
Within[n \in 0..Cardinality(Switch), s \in Switch] ==
    IF n = 0 THEN {s} ELSE Neighbours(Within[n - 1, s])
MCDist == [s \in Switch |-> [t \in Switch |->
              PathCost * CHOOSE n \in 0..Cardinality(Switch) :
                  t \in Within[n, s] /\ \A m \in 0..(n - 1) : t \notin Within[m, s]]]
=============================================================================
