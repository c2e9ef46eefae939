-------------------------------- MODULE Stp ---------------------------------
(***************************************************************************)
(* The spanning tree protocol of the Sept24 lab (stp.c, stp_timer.c): each *)
(* switch starts as its own root, remembers on every port the best         *)
(* priority vector heard or claimed there, and derives root, root port and *)
(* port roles from these.  Switches are separate processes joined by       *)
(* point-to-point links that deliver in order.                             *)
(*                                                                         *)
(* The receive thread and the timer thread of a switch do all their work   *)
(* under stp->lock, so one action is one critical section.  A switch that  *)
(* has not been started yet loses what arrives; there is no ageing, no     *)
(* link failure and no restart in the code or in this module.              *)
(***************************************************************************)
EXTENDS Integers, Sequences, FiniteSets, FiniteSetsExt

CONSTANTS
    Switch,     \* switch ids, a set of numbers
    Port,       \* all ports of all switches
    Sw,         \* Sw[p]: the switch port p belongs to
    PortId,     \* PortId[p]: port_id, unique within the switch
    Peer,       \* Peer[p]: the port at the other end of the link
    PathCost,   \* path_cost of every port, always 1 in the lab
    Dist,       \* Dist[s][t]: the path cost from s to t in the topology
    NoPort,     \* root_port == NULL
    MaxInFlight \* a hello timer fires while at most so many BPDUs are in flight

ASSUME TopologyAssumption ==
    /\ Switch \subseteq Nat
    /\ Sw \in [Port -> Switch]
    /\ PortId \in [Port -> Nat]
    /\ \A p, q \in Port : Sw[p] = Sw[q] /\ PortId[p] = PortId[q] => p = q
    /\ Peer \in [Port -> Port]
    /\ \A p \in Port : Peer[Peer[p]] = p /\ Sw[Peer[p]] # Sw[p]
    /\ PathCost \in Nat \ {0}
    /\ Dist \in [Switch -> [Switch -> Nat]]
    /\ \A s \in Switch : Dist[s][s] = 0
    /\ \A p \in Port, t \in Switch : Dist[Sw[p]][t] <= Dist[Sw[Peer[p]]][t] + PathCost
    /\ NoPort \notin Port
    /\ MaxInFlight \in Nat
    /\ IsFiniteSet(Port)

\* Dist is the least cost of a path: some port of s is the first one on it, so the
\* topology is connected.
DistIsAttained ==
    \A s, t \in Switch : s # t =>
        \E p \in Port : Sw[p] = s /\ Dist[s][t] = Dist[Sw[Peer[p]]][t] + PathCost

ASSUME PathAssumption == DistIsAttained

VARIABLES
    up,         \* the switch process has been started
    root,       \* stp->designated_root
    cost,       \* stp->root_path_cost
    rootPort,   \* stp->root_port
    vec,        \* per port: designated root, cost, switch and port
    hello,      \* hello_timer.active
    chan        \* per port: config BPDUs on their way to it

vars == <<up, root, cost, rootPort, vec, hello, chan>>

Vector == [root : Switch, cost : Nat, sw : Switch, port : Nat]

Ports(s) == {p \in Port : Sw[p] = s}

\* stp_vector_better and stp_root_port_better: lexicographic comparisons.
Better(a, b) ==
    \/ a.root < b.root
    \/ /\ a.root = b.root
       /\ \/ a.cost < b.cost
          \/ /\ a.cost = b.cost
             /\ \/ a.sw < b.sw
                \/ a.sw = b.sw /\ a.port < b.port

RootPortBetter(v, p, q) ==
    \/ Better(v[p], v[q])
    \/ v[p] = v[q] /\ PortId[p] < PortId[q]

IsDesignated(v, p) == v[p].sw = Sw[p] /\ v[p].port = PortId[p]

\* What switch Sw[p] claims on its port p when it believes in root r at cost c.
Local(p, r, c) == [root |-> r, cost |-> c, sw |-> Sw[p], port |-> PortId[p]]

-----------------------------------------------------------------------------
\* Mutant: the root path cost starts as "unknown".
InitUnknown ==
    /\ up = [s \in Switch |-> FALSE]
    /\ root = [s \in Switch |-> s]
    /\ cost = [s \in Switch |-> -1]
    /\ rootPort = [s \in Switch |-> NoPort]
    /\ vec = [p \in Port |-> Local(p, Sw[p], -1)]
    /\ hello = [s \in Switch |-> FALSE]
    /\ chan = [p \in Port |-> <<>>]

\* stp_init: every switch is its own root and designated on all its ports.
Init ==
    /\ up = [s \in Switch |-> FALSE]
    /\ root = [s \in Switch |-> s]
    /\ cost = [s \in Switch |-> 0]
    /\ rootPort = [s \in Switch |-> NoPort]
    /\ vec = [p \in Port |-> Local(p, Sw[p], 0)]
    /\ hello = [s \in Switch |-> FALSE]
    /\ chan = [p \in Port |-> <<>>]

Start(s) ==
    /\ ~up[s]
    /\ up' = [up EXCEPT ![s] = TRUE]
    /\ hello' = [hello EXCEPT ![s] = TRUE]
    /\ UNCHANGED <<root, cost, rootPort, vec, chan>>

\* Mutant: only the root sends.
SendRootOnly(ch, s, P, r, c, rp) ==
    [q \in Port |->
        IF Peer[q] \in P /\ r = s THEN Append(ch[q], Local(Peer[q], r, c)) ELSE ch[q]]

\* stp_port_send_config on each port of P: a switch that believes in root r at
\* cost c says so.  (A non-root switch without a root port would keep silent.)
Send(ch, s, P, r, c, rp) ==
    [q \in Port |->
        IF Peer[q] \in P /\ (r = s \/ rp # NoPort)
        THEN Append(ch[q], Local(Peer[q], r, c))
        ELSE ch[q]]

InFlight == FoldSet(LAMBDA p, n : n + Len(chan[p]), 0, Port)

\* The root's hello timer fires and is started again.  Hellos are 2 s apart and
\* BPDUs take microseconds: the timers of two switches may fire together, but no
\* timer outruns the network.
HelloTimeout(s) ==
    /\ up[s] /\ hello[s]
    /\ InFlight <= MaxInFlight
    /\ chan' = Send(chan, s, {p \in Ports(s) : IsDesignated(vec, p)},
                    root[s], cost[s], rootPort[s])
    /\ UNCHANGED <<up, root, cost, rootPort, vec, hello>>

\* stp_update_state, first loop: the best port that heard of a root below the
\* switch's own id, if any.
Candidates(s, v) == {p \in Ports(s) : ~IsDesignated(v, p) /\ v[p].root < s}
BestRootPorts(s, v) ==
    IF Candidates(s, v) = {} THEN {NoPort}
    ELSE {p \in Candidates(s, v) :
             \A q \in Candidates(s, v) : ~RootPortBetter(v, q, p)}

\* Mutant: the cost of the link to the root port is forgotten.
RootCostFree(v, rp) == IF rp = NoPort THEN 0 ELSE v[rp].cost

\* ... the root and the cost that follow from it.
RootOf(s, v, rp) == IF rp = NoPort THEN s ELSE v[rp].root
RootCost(v, rp) == IF rp = NoPort THEN 0 ELSE v[rp].cost + PathCost

\* Mutant: ports already held keep claiming what the switch believed before.
ClaimedStale(s, v, r, c) ==
    [p \in Port |->
        IF Sw[p] = s /\ ~IsDesignated(v, p) /\ ~Better(v[p], Local(p, r, c))
        THEN Local(p, r, c)
        ELSE v[p]]

\* Mutant: a port once lost is never claimed back.
ClaimedHeld(s, v, r, c) ==
    [p \in Port |->
        IF Sw[p] = s /\ IsDesignated(v, p) THEN Local(p, r, c) ELSE v[p]]

\* Mutant: the comparison is the wrong way round.
ClaimedSwapped(s, v, r, c) ==
    [p \in Port |->
        IF Sw[p] = s /\ (IsDesignated(v, p) \/ Better(v[p], Local(p, r, c)))
        THEN Local(p, r, c)
        ELSE v[p]]

\* ... second loop: the switch claims the ports it already held, and those on
\* which it is now at least as good as what it heard.
Claimed(s, v, r, c) ==
    [p \in Port |->
        IF Sw[p] = s /\ (IsDesignated(v, p) \/ ~Better(v[p], Local(p, r, c)))
        THEN Local(p, r, c)
        ELSE v[p]]

Received(p) == [chan EXCEPT ![p] = Tail(@)]

\* Mutant: the hello timer is left running.
HelloKept(s, r) == hello

\* The hello timer stops when the switch just ceased to be root.
HelloAfter(s, r) == [hello EXCEPT ![s] = @ /\ ~(root[s] = s /\ r # s)]

\* stp_handle_config_packet, a better vector: record it, recompute, and tell all
\* designated ports.
AdoptConfig(p) ==
    LET s     == Sw[p]
        heard == [vec EXCEPT ![p] = Head(chan[p])]
    IN  /\ up[s] /\ chan[p] # <<>>
        /\ Better(Head(chan[p]), vec[p])
        /\ \E rp \in BestRootPorts(s, heard) :
              LET r   == RootOf(s, heard, rp)
                  c   == RootCost(heard, rp)
                  new == Claimed(s, heard, r, c)
              IN  /\ root' = [root EXCEPT ![s] = r]
                  /\ cost' = [cost EXCEPT ![s] = c]
                  /\ rootPort' = [rootPort EXCEPT ![s] = rp]
                  /\ vec' = new
                  /\ hello' = HelloAfter(s, r)
                  /\ chan' = Send(Received(p), s, {q \in Ports(s) : IsDesignated(new, q)},
                                  r, c, rp)
        /\ UNCHANGED up

\* Mutant: an inferior BPDU is dropped without an answer.
RefuseConfigSilent(p) ==
    LET s == Sw[p]
    IN  /\ up[s] /\ chan[p] # <<>>
        /\ ~Better(Head(chan[p]), vec[p])
        /\ chan' = Received(p)
        /\ UNCHANGED <<up, root, cost, rootPort, vec, hello>>

\* ... a vector that is no better: a designated port answers with its own.
RefuseConfig(p) ==
    LET s == Sw[p]
    IN  /\ up[s] /\ chan[p] # <<>>
        /\ ~Better(Head(chan[p]), vec[p])
        /\ chan' = Send(Received(p), s, {q \in {p} : IsDesignated(vec, q)},
                        root[s], cost[s], rootPort[s])
        /\ UNCHANGED <<up, root, cost, rootPort, vec, hello>>

\* Nobody listens on the interfaces of a switch that is not started.
Lose(p) ==
    /\ ~up[Sw[p]] /\ chan[p] # <<>>
    /\ chan' = Received(p)
    /\ UNCHANGED <<up, root, cost, rootPort, vec, hello>>

HandleConfig(p) == AdoptConfig(p) \/ RefuseConfig(p)

Next ==
    \/ \E s \in Switch : Start(s) \/ HelloTimeout(s)
    \/ \E p \in Port : HandleConfig(p) \/ Lose(p)

Spec == Init /\ [][Next]_vars

\* Every switch is started and reads its ports.  The timer is strongly fair because
\* the bound on the BPDUs in flight disables it now and then: stp_timer_routine fires
\* a due timer within 100 us, whatever the other switches do.
Fairness ==
    /\ \A s \in Switch : WF_vars(Start(s)) /\ SF_vars(HelloTimeout(s))
    /\ \A p \in Port : WF_vars(HandleConfig(p)) /\ WF_vars(Lose(p))

FairSpec == Spec /\ Fairness

-----------------------------------------------------------------------------
TypeOK ==
    /\ up \in [Switch -> BOOLEAN]
    /\ root \in [Switch -> Switch]
    /\ cost \in [Switch -> Nat]
    /\ rootPort \in [Switch -> Port \cup {NoPort}]
    /\ vec \in [Port -> Vector]
    /\ hello \in [Switch -> BOOLEAN]
    /\ chan \in [Port -> Seq(Vector)]

\* A switch is root exactly when it has no root port; otherwise its root is below
\* its own id and root and cost are those heard on the root port.
RootXorRootPort ==
    \A s \in Switch :
        IF rootPort[s] = NoPort
        THEN root[s] = s /\ cost[s] = 0
        ELSE /\ Sw[rootPort[s]] = s /\ root[s] < s
             /\ vec[rootPort[s]].root = root[s]
             /\ vec[rootPort[s]].cost + PathCost = cost[s]
             /\ ~IsDesignated(vec, rootPort[s])

\* Only a switch that believes it is root sends hellos, and a started root does.
HelloIffRoot == \A s \in Switch : hello[s] <=> up[s] /\ root[s] = s

\* A designated port claims what its switch believes now, and no port believes a
\* vector its switch could beat.
ClaimsAreCurrent ==
    \A p \in Port :
        LET mine == Local(p, root[Sw[p]], cost[Sw[p]])
        IN  IF IsDesignated(vec, p) THEN vec[p] = mine ELSE Better(vec[p], mine)

\* No switch, port or BPDU ever believes in a path shorter than the topology has.
NoBetterThanTruth ==
    LET Possible(v) == v.cost >= Dist[v.sw][v.root]
    IN  /\ \A s \in Switch : cost[s] >= Dist[s][root[s]]
        /\ \A p \in Port : Possible(vec[p])
        /\ \A p \in Port : \A i \in 1..Len(chan[p]) : Possible(chan[p][i])

\* What a port knows of its segment only ever improves, although messages of two
\* switches cross on the link.
OnlyImproves ==
    [][\A p \in Port : vec'[p] = vec[p] \/ Better(vec'[p], vec[p])]_vars

\* The spanning tree, defined from the topology alone: the switch of lowest id is
\* the root; of a link's two ends the one nearer to it is designated, and of a
\* switch's ports the one facing the nearest end is the root port, switch and port
\* numbers breaking the ties.
LowestId == CHOOSE s \in Switch : \A t \in Switch : s <= t
Truth(p) == Local(p, LowestId, Dist[Sw[p]][LowestId])

IsTree ==
    /\ \A s \in Switch : root[s] = LowestId /\ cost[s] = Dist[s][LowestId]
    /\ \A p \in Port : IsDesignated(vec, p) <=> Better(Truth(p), Truth(Peer[p]))
    /\ \A s \in Switch \ {LowestId} :
          /\ rootPort[s] # NoPort
          /\ \A p \in Ports(s) \ {rootPort[s]} :
                Better(Truth(Peer[rootPort[s]]), Truth(Peer[p]))

\* Whatever the order in which switches start and BPDUs cross, once only one
\* switch still sends hellos and nothing is in flight, the tree is built: no two
\* ends of a link are left believing they are both designated, which would be a
\* forwarding loop that no later message repairs.
QuietMeansTree ==
    (/\ \A s \in Switch : up[s]
     /\ \A p \in Port : chan[p] = <<>>
     /\ Cardinality({s \in Switch : hello[s]}) = 1) => IsTree

\* The switches converge to the tree and stay there.
Converges == <>[]IsTree
=============================================================================
