------------------------------- MODULE Routes -------------------------------
(***************************************************************************)
(* mospf_update_rtable (mospf_daemon.c): from the link-state database and  *)
(* the neighbours to the routing table.  A database is a list, in the      *)
(* order in which its entries arrived; the order decides between paths of  *)
(* equal length, and every router has its own.                             *)
(*                                                                         *)
(* Around the computation, a state machine: the routers of a network that  *)
(* does not change learn of each other one LSU at a time, in any order,    *)
(* and rebuild their tables each time; what is asked is where packets go   *)
(* meanwhile and afterwards.  Each network has a mask of its own length,   *)
(* so that longest_prefix_match finds the one entry of a destination.      *)
(***************************************************************************)
EXTENDS Naturals, Sequences, FiniteSets, SequencesExt

CONSTANTS
    Router,     \* router ids
    NoRid,      \* rid 0: the LSA of a network without neighbour
    Graphs,     \* the networks looked at, each a set of links {a, b}
    Stub        \* routers with a network of hosts

ASSUME RouterAssumption == IsFiniteSet(Router) /\ NoRid \notin Router
ASSUME GraphsAssumption ==
    \A g \in Graphs : \A link \in g : \E a, b \in Router : a # b /\ link = {a, b}
ASSUME StubAssumption == Stub \subseteq Router

VARIABLES
    graph,      \* the links of the network
    db,         \* db[r]: list of entries [rid, lsas], lsas a list of [net, rid]
    rtable      \* rtable[r]: the gateway of each network in the table; r itself: none

vars == <<graph, db, rtable>>

-----------------------------------------------------------------------------
\* The nodes in the order they are met; the router itself comes first.
AddNode(ns, r) == IF r \in ToSet(ns) THEN ns ELSE Append(ns, r)

\* Those of the list lsas behind the nodes ns.
WithLsas(ns, lsas) ==
    LET Upto[k \in 0..Len(lsas)] ==
            IF k = 0 THEN ns
            ELSE IF lsas[k].rid = NoRid THEN Upto[k - 1]
            ELSE AddNode(Upto[k - 1], lsas[k].rid)
    IN  Upto[Len(lsas)]

Nodes(self, d) ==
    LET Upto[k \in 0..Len(d)] ==
            IF k = 0 THEN <<self>> ELSE WithLsas(AddNode(Upto[k - 1], d[k].rid), d[k].lsas)
    IN  Upto[Len(d)]

\* A link claimed from one end counts in both directions.
Edges(d) ==
    UNION {{{e.rid, a.rid} : a \in {l \in ToSet(e.lsas) : l.rid \notin {NoRid, e.rid}}} :
              e \in ToSet(d)}

\* The first of the nearest of the nodes I.
Nearest(dist, I) ==
    CHOOSE i \in I : \A j \in I : dist[i] < dist[j] \/ (dist[i] = dist[j] /\ i <= j)

\* One round of Dijkstra: visit the first of the nearest nodes not visited yet.  A
\* distance of Len(ns) stands for INT_MAX, 0 for no predecessor.
Visit(ns, edges, st) ==
    LET Index == 1..Len(ns)
        Open == {i \in Index \ st.visited : st.dist[i] < Len(ns)}
        u == Nearest(st.dist, Open)
        Closer == {v \in Index \ (st.visited \cup {u}) :
                      {ns[u], ns[v]} \in edges /\ st.dist[v] > st.dist[u] + 1}
    IN  IF Open = {} THEN st
        ELSE [visited |-> st.visited \cup {u},
              dist |-> [v \in Index |-> IF v \in Closer THEN st.dist[u] + 1 ELSE st.dist[v]],
              prev |-> [v \in Index |-> IF v \in Closer THEN u ELSE st.prev[v]]]

Unvisited(ns) ==
    [visited |-> {},
     dist |-> [i \in 1..Len(ns) |-> IF i = 1 THEN 0 ELSE Len(ns)],
     prev |-> [i \in 1..Len(ns) |-> 0]]

Dijkstra(ns, edges) ==
    LET Round[k \in 0..Len(ns)] ==
            IF k = 0 THEN Unvisited(ns) ELSE Visit(ns, edges, Round[k - 1])
    IN  Round[Len(ns)]

\* Mutant: the way back is followed to the router itself.
FirstHopTooFar(prev, i) ==
    LET Back[k \in 0..Len(prev)] ==
            IF k = 0 THEN i
            ELSE IF prev[Back[k - 1]] = 0 THEN Back[k - 1] ELSE prev[Back[k - 1]]
    IN  Back[Len(prev)]

\* The node next to the router on the way to node i.
FirstHop(prev, i) ==
    LET Back[k \in 0..Len(prev)] ==
            IF k = 0 THEN i
            ELSE IF prev[Back[k - 1]] \in {0, 1} THEN Back[k - 1] ELSE prev[Back[k - 1]]
    IN  Back[Len(prev)]

\* Mutant: the neighbour found is not compared with rid.
FindAnyIp(nbrs, rid) ==
    IF nbrs = {} THEN NoRid ELSE CHOOSE n \in nbrs : \A m \in nbrs : n <= m

\* find_rid_ip: the neighbour with router id rid, or none.
FindRidIp(nbrs, rid) == IF rid \in nbrs THEN rid ELSE NoRid

\* The networks of the entry of r, if the database has one.
NetsOf(d, r) == {a.net : a \in UNION {ToSet(e.lsas) : e \in {f \in ToSet(d) : f.rid = r}}}

\* The table: the router's own networks, then those of the other nodes by growing
\* distance; the first entry of a network stays, and nodes whose first hop is not a
\* neighbour are left out.
Rebuilt(self, own, nbrs, d) ==
    LET ns == Nodes(self, d)
        sp == Dijkstra(ns, Edges(d))
        Gateway(i) == FindRidIp(nbrs, ns[FirstHop(sp.prev, i)])
        Routed == {i \in 2..Len(ns) : sp.dist[i] \in 1..(Len(ns) - 1) /\ Gateway(i) # NoRid}
        Owners(net) == {i \in Routed : net \in NetsOf(d, ns[i])}
    IN  [net \in own \cup UNION {NetsOf(d, ns[i]) : i \in Routed} |->
            IF net \in own THEN self ELSE Gateway(Nearest(sp.dist, Owners(net)))]

-----------------------------------------------------------------------------
\* The network: what a router is attached to, and the LSAs it sends.
Linked(r) == {s \in Router : {r, s} \in graph}
Attached(r) == {{r, s} : s \in Linked(r)} \cup (IF r \in Stub THEN {{r}} ELSE {})
Networks == UNION {Attached(r) : r \in Router}

\* In the order of the interfaces, which decides nothing but the order of the nodes.
Lsas(r) ==
    LET Nbrs == SetToSeq(Linked(r))
    IN  [i \in 1..Len(Nbrs) |-> [net |-> {r, Nbrs[i]}, rid |-> Nbrs[i]]]
        \o (IF r \in Stub THEN <<[net |-> {r}, rid |-> NoRid]>> ELSE <<>>)

\* What is at most k links away from r, k up to the number of routers.
Within(r) ==
    LET Ball(S) == S \cup UNION {Linked(s) : s \in S}
        Upto[k \in 0..Cardinality(Router)] == IF k = 0 THEN {r} ELSE Ball(Upto[k - 1])
    IN  Upto

Reachable(r) == Within(r)[Cardinality(Router)]

Init ==
    /\ graph \in Graphs
    /\ db = [r \in Router |-> <<>>]
    /\ rtable = [r \in Router |-> [n \in Attached(r) |-> r]]

\* handle_mospf_lsu of the first LSU of router o: its entry goes to the end of the
\* list, and the table is rebuilt.
Learn(r, o) ==
    /\ o \in Reachable(r) \ {r} /\ \A e \in ToSet(db[r]) : e.rid # o
    /\ db' = [db EXCEPT ![r] = Append(@, [rid |-> o, lsas |-> Lsas(o)])]
    /\ rtable' = [rtable EXCEPT ![r] = Rebuilt(r, Attached(r), Linked(r), db'[r])]
    /\ UNCHANGED graph

Next == \E r, o \in Router : Learn(r, o)

Spec == Init /\ [][Next]_vars

-----------------------------------------------------------------------------
\* The routers whose packets for network net are still being forwarded after as many
\* hops as there are routers.
OnTheirWay(net) ==
    LET Passed(r, S) == net \in DOMAIN rtable[r] /\ rtable[r][net] # r /\ rtable[r][net] \in S
        Still[k \in 0..Cardinality(Router)] ==
            IF k = 0 THEN Router ELSE {r \in Router : Passed(r, Still[k - 1])}
    IN  Still[Cardinality(Router)]

\* The links between a router and the next router with the network, by the definition;
\* as many as there are routers when there is no way.
Distance(r, net) ==
    LET Near == {k \in 0..Cardinality(Router) : \E s \in Within(r)[k] : net \in Attached(s)}
    IN  IF Near = {} THEN Cardinality(Router)
        ELSE CHOOSE k \in Near : \A j \in Near : k <= j

\* r has heard of every router that there is a way to.
Complete(r) == \A o \in Reachable(r) \ {r} : \E e \in ToSet(db[r]) : e.rid = o

\* A router that has heard of all the others has a route to each network that there is a
\* way to, and to no other, by a neighbour that is one step closer to it.
ShortestRoutes ==
    \A r \in {s \in Router : Complete(s)}, net \in Networks :
        LET away == Distance(r, net)
        IN  /\ net \in DOMAIN rtable[r] <=> away < Cardinality(Router)
            /\ away \in 1..(Cardinality(Router) - 1) =>
                  /\ rtable[r][net] \in Linked(r)
                  /\ Distance(rtable[r][net], net) = away - 1

\* Packets for the hosts never go round in circles, not even while some routers have
\* heard of others and some have not.  This is a property of networks like that of the
\* lab: around a ring of five, two neighbours that are both far from a host can each
\* know the way through the other only.  (Packets for the network of a link may go
\* round in the lab as well.)
HostPacketsDoNotLoop == \A s \in Stub : OnTheirWay({s}) = {}

\* When every router has heard of all the others there is a way to, no packet goes round
\* in circles any more, whatever the network and wherever it is sent.
SettledPacketsDoNotLoop ==
    (\A r \in Router : Complete(r)) => \A net \in Networks : OnTheirWay(net) = {}
=============================================================================
