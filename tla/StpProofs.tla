------------------------------ MODULE StpProofs -----------------------------
(***************************************************************************)
(* The spanning tree protocol, for every topology of point-to-point links. *)
(* First its safety: the inductive invariant StpInv, what follows from it, *)
(* and the monotonicity of what a port knows.  Then its correctness, where *)
(* the topology is connected: once every switch runs, nothing is in flight *)
(* and one switch still sends hellos, what the switches believe is the     *)
(* spanning tree.  For that, StpInv is joined by an invariant that says    *)
(* what a link whose ends disagree still has in flight.                    *)
(***************************************************************************)
EXTENDS Stp, FiniteSetTheorems, WellFoundedInduction, TLAPS

\* A port that is not designated, and every BPDU on its way to it, speaks of the
\* switch at the other end of the link.
FromPeer ==
    \A p \in Port :
        /\ IsDesignated(vec, p) \/ vec[p].sw = Sw[Peer[p]]
        /\ \A i \in 1..Len(chan[p]) : chan[p][i].sw = Sw[Peer[p]]

\* A switch that was not started yet has heard of no other root.
DownIsRoot == \A s \in Switch : ~up[s] => root[s] = s

StpInv ==
    /\ TypeOK
    /\ DownIsRoot
    /\ RootXorRootPort
    /\ HelloIffRoot
    /\ ClaimsAreCurrent
    /\ FromPeer
    /\ NoBetterThanTruth

-----------------------------------------------------------------------------
\* The comparison of stp_vector_better is a strict total order.
LEMMA BetterIsTotal ==
    ASSUME NEW a \in Vector, NEW b \in Vector
    PROVE  Better(a, b) \/ Better(b, a) \/ a = b
<1>1. /\ a.root \in Nat /\ a.cost \in Nat /\ a.sw \in Nat /\ a.port \in Nat
      /\ b.root \in Nat /\ b.cost \in Nat /\ b.sw \in Nat /\ b.port \in Nat
    BY TopologyAssumption DEF Vector
<1>2. ASSUME a.root = b.root, a.cost = b.cost, a.sw = b.sw, a.port = b.port
      PROVE  a = b
    BY <1>2 DEF Vector
<1> QED BY <1>1, <1>2 DEF Better

LEMMA BetterIsTransitive ==
    ASSUME NEW a \in Vector, NEW b \in Vector, NEW c \in Vector,
           Better(a, b), Better(b, c)
    PROVE  Better(a, c)
<1>1. /\ a.root \in Nat /\ a.cost \in Nat /\ a.sw \in Nat /\ a.port \in Nat
      /\ b.root \in Nat /\ b.cost \in Nat /\ b.sw \in Nat /\ b.port \in Nat
      /\ c.root \in Nat /\ c.cost \in Nat /\ c.sw \in Nat /\ c.port \in Nat
    BY TopologyAssumption DEF Vector
<1> QED BY <1>1 DEF Better

LEMMA DistIsNat ==
    ASSUME NEW s \in Switch, NEW t \in Switch
    PROVE  Dist[s][t] \in Nat
<1>1. Dist \in [Switch -> [Switch -> Nat]]
    BY TopologyAssumption
<1>2. Dist[s] \in [Switch -> Nat]
    BY <1>1
<1> QED BY <1>2

\* A claim is a vector of the port's own switch.
LEMMA LocalIsVector ==
    ASSUME NEW p \in Port, NEW r \in Switch, NEW c \in Nat
    PROVE  /\ Local(p, r, c) \in Vector
           /\ Local(p, r, c).root = r
           /\ Local(p, r, c).cost = c
           /\ Local(p, r, c).sw = Sw[p]
           /\ Local(p, r, c).port = PortId[p]
    BY TopologyAssumption DEF Local, Vector

\* Channels ch hold only BPDUs of channels old and, towards the ports P face, the
\* claim of root r at cost c.
OldOrClaims(ch, old, P, r, c) ==
    /\ ch \in [Port -> Seq(Vector)]
    /\ \A q \in Port : \A i \in 1..Len(ch[q]) :
          \/ i \in 1..Len(old[q]) /\ ch[q][i] = old[q][i]
          \/ Peer[q] \in P /\ ch[q][i] = Local(Peer[q], r, c)

\* stp_send_config only appends the sender's claim to what is in flight.
LEMMA SendAppends ==
    ASSUME NEW ch \in [Port -> Seq(Vector)], NEW s \in Switch, NEW P \in SUBSET Port,
           NEW r \in Switch, NEW c \in Nat, NEW rp \in Port \cup {NoPort}
    PROVE  OldOrClaims(Send(ch, s, P, r, c, rp), ch, P, r, c)
<1> DEFINE S == Send(ch, s, P, r, c, rp)
<1>1. ASSUME NEW q \in Port
      PROVE  /\ S[q] \in Seq(Vector)
             /\ \A i \in 1..Len(S[q]) :
                   \/ i \in 1..Len(ch[q]) /\ S[q][i] = ch[q][i]
                   \/ Peer[q] \in P /\ S[q][i] = Local(Peer[q], r, c)
  <2>1. Peer[q] \in Port /\ Local(Peer[q], r, c) \in Vector
      BY LocalIsVector, TopologyAssumption
  <2>2. ch[q] \in Seq(Vector)
      OBVIOUS
  <2>3. CASE Peer[q] \in P /\ (r = s \/ rp # NoPort)
    <3>1. S[q] = Append(ch[q], Local(Peer[q], r, c))
        BY <2>3 DEF Send
    <3> QED BY <3>1, <2>1, <2>2, <2>3
  <2>4. CASE ~(Peer[q] \in P /\ (r = s \/ rp # NoPort))
    <3>1. S[q] = ch[q]
        BY <2>4 DEF Send
    <3> QED BY <3>1, <2>2
  <2> QED BY <2>3, <2>4
<1>2. S = [q \in Port |-> S[q]]
    BY DEF Send
<1>3. S \in [Port -> Seq(Vector)]
    BY <1>1, <1>2
<1> QED BY <1>1, <1>3 DEF OldOrClaims

\* Taking a BPDU from a port leaves only BPDUs that were there before.
LEMMA ReceivedShrinks ==
    ASSUME TypeOK, NEW p \in Port, chan[p] # <<>>
    PROVE  /\ Received(p) \in [Port -> Seq(Vector)]
           /\ \A q \in Port : \A i \in 1..Len(Received(p)[q]) :
                 \E j \in 1..Len(chan[q]) : Received(p)[q][i] = chan[q][j]
           /\ Head(chan[p]) \in Vector
           /\ Head(chan[p]) = chan[p][1]
           /\ 1 \in 1..Len(chan[p])
<1>1. chan \in [Port -> Seq(Vector)] /\ chan[p] \in Seq(Vector)
    BY DEF TypeOK
<1>2. Tail(chan[p]) \in Seq(Vector) /\ Len(Tail(chan[p])) = Len(chan[p]) - 1
      /\ \A i \in 1..Len(Tail(chan[p])) : Tail(chan[p])[i] = chan[p][i + 1]
    BY <1>1
<1>3. ASSUME NEW q \in Port, NEW i \in 1..Len(Received(p)[q])
      PROVE  \E j \in 1..Len(chan[q]) : Received(p)[q][i] = chan[q][j]
  <2>1. CASE q = p
    <3>1. Received(p)[q] = Tail(chan[p])
        BY <2>1, <1>1 DEF Received
    <3>2. i + 1 \in 1..Len(chan[p]) /\ Received(p)[q][i] = chan[p][i + 1]
        BY <3>1, <1>1, <1>2
    <3> QED BY <3>2, <2>1
  <2>2. CASE q # p
      BY <2>2, <1>1 DEF Received
  <2> QED BY <2>1, <2>2
<1>4. Received(p) \in [Port -> Seq(Vector)]
    BY <1>1, <1>2 DEF Received
<1> QED BY <1>1, <1>3, <1>4

-----------------------------------------------------------------------------
LEMMA InvInit == Init => StpInv
<1> SUFFICES ASSUME Init
             PROVE  StpInv
    OBVIOUS
<1>1. \A p \in Port : /\ Sw[p] \in Switch /\ PortId[p] \in Nat
                      /\ vec[p] = Local(p, Sw[p], 0) /\ vec[p] \in Vector
                      /\ vec[p].root = Sw[p] /\ vec[p].cost = 0
                      /\ vec[p].sw = Sw[p] /\ vec[p].port = PortId[p]
  <2>1. ASSUME NEW p \in Port
        PROVE  /\ Sw[p] \in Switch /\ PortId[p] \in Nat
               /\ vec[p] = Local(p, Sw[p], 0)
      BY <2>1, TopologyAssumption DEF Init
  <2>2. ASSUME NEW p \in Port
        PROVE  /\ vec[p] \in Vector
               /\ vec[p].root = Sw[p] /\ vec[p].cost = 0
               /\ vec[p].sw = Sw[p] /\ vec[p].port = PortId[p]
    <3>1. 0 \in Nat
        OBVIOUS
    <3> QED BY <2>1, <3>1, LocalIsVector
  <2> QED BY <2>1, <2>2
<1>2. \A p \in Port : chan[p] = <<>> /\ Len(chan[p]) = 0
    BY DEF Init
<1>3. vec = [p \in Port |-> Local(p, Sw[p], 0)] /\ chan = [p \in Port |-> <<>>]
    BY DEF Init
<1>4. TypeOK
  <2>1. vec \in [Port -> Vector]
      BY <1>1, <1>3
  <2>2. chan \in [Port -> Seq(Vector)]
      BY <1>3
  <2> QED BY <2>1, <2>2 DEF Init, TypeOK
<1>5. RootXorRootPort /\ HelloIffRoot
    BY DEF Init, RootXorRootPort, HelloIffRoot
<1>6. ClaimsAreCurrent /\ FromPeer
    BY <1>1, <1>2, TopologyAssumption
    DEF Init, ClaimsAreCurrent, FromPeer, IsDesignated
<1>7. NoBetterThanTruth
  <2>1. \A s \in Switch : cost[s] >= Dist[s][root[s]]
      BY TopologyAssumption DEF Init
  <2>2. \A p \in Port : vec[p].cost >= Dist[vec[p].sw][vec[p].root]
    <3>1. ASSUME NEW p \in Port
          PROVE  Dist[Sw[p]][Sw[p]] = 0
        BY <1>1, TopologyAssumption
    <3> QED BY <1>1, <3>1
  <2> QED BY <2>1, <2>2, <1>2 DEF NoBetterThanTruth
<1>8. DownIsRoot
    BY DEF Init, DownIsRoot
<1> QED BY <1>4, <1>5, <1>6, <1>7, <1>8 DEF StpInv

\* Appending claims that are true of their sender, to channels whose BPDUs are
\* among those of chan, keeps what the invariant says of BPDUs.
LEMMA SendKeeps ==
    ASSUME StpInv, NEW ch \in [Port -> Seq(Vector)],
           \A q \in Port : \A i \in 1..Len(ch[q]) :
               \E j \in 1..Len(chan[q]) : ch[q][i] = chan[q][j],
           NEW s \in Switch, NEW P \in SUBSET Ports(s), NEW r \in Switch, NEW c \in Nat,
           NEW rp \in Port \cup {NoPort}, c >= Dist[s][r],
           chan' = Send(ch, s, P, r, c, rp)
    PROVE  /\ chan' \in [Port -> Seq(Vector)]
           /\ \A q \in Port : \A i \in 1..Len(chan'[q]) :
                 /\ chan'[q][i].sw = Sw[Peer[q]]
                 /\ chan'[q][i].cost >= Dist[chan'[q][i].sw][chan'[q][i].root]
<1>1. P \in SUBSET Port
    BY DEF Ports
<1>2. /\ chan' \in [Port -> Seq(Vector)]
      /\ \A q \in Port : \A i \in 1..Len(chan'[q]) :
            \/ i \in 1..Len(ch[q]) /\ chan'[q][i] = ch[q][i]
            \/ Peer[q] \in P /\ chan'[q][i] = Local(Peer[q], r, c)
  <2>1. OldOrClaims(Send(ch, s, P, r, c, rp), ch, P, r, c)
      BY <1>1, SendAppends
  <2> QED BY <2>1 DEF OldOrClaims
<1>3. ASSUME NEW q \in Port, NEW i \in 1..Len(chan'[q])
      PROVE  /\ chan'[q][i].sw = Sw[Peer[q]]
             /\ chan'[q][i].cost >= Dist[chan'[q][i].sw][chan'[q][i].root]
  <2>1. CASE i \in 1..Len(ch[q]) /\ chan'[q][i] = ch[q][i]
    <3>1. PICK j \in 1..Len(chan[q]) : chan'[q][i] = chan[q][j]
        BY <2>1
    <3> QED BY <3>1 DEF StpInv, FromPeer, NoBetterThanTruth
  <2>2. CASE Peer[q] \in P /\ chan'[q][i] = Local(Peer[q], r, c)
    <3>1. Peer[q] \in Port /\ Sw[Peer[q]] = s
        BY <2>2 DEF Ports
    <3> QED BY <2>2, <3>1, LocalIsVector
  <2> QED BY <1>2, <2>1, <2>2
<1> QED BY <1>2, <1>3

\* A step that changes only the channels keeps the rest of the invariant.
LEMMA QuietStep ==
    ASSUME StpInv, UNCHANGED <<up, root, cost, rootPort, vec, hello>>,
           chan' \in [Port -> Seq(Vector)],
           \A q \in Port : \A i \in 1..Len(chan'[q]) :
               /\ chan'[q][i].sw = Sw[Peer[q]]
               /\ chan'[q][i].cost >= Dist[chan'[q][i].sw][chan'[q][i].root]
    PROVE  StpInv'
<1>1. TypeOK' /\ DownIsRoot' /\ RootXorRootPort' /\ HelloIffRoot' /\ ClaimsAreCurrent'
    BY DEF StpInv, TypeOK, DownIsRoot, RootXorRootPort, HelloIffRoot, ClaimsAreCurrent, IsDesignated
<1>2. FromPeer'
    BY DEF StpInv, FromPeer, IsDesignated
<1>3. NoBetterThanTruth'
    BY DEF StpInv, NoBetterThanTruth
<1> QED BY <1>1, <1>2, <1>3 DEF StpInv

-----------------------------------------------------------------------------
\* What stp_update_state's second loop leaves on each port: a claim of the
\* switch, or a vector heard that beats it.
LEMMA ClaimedPorts ==
    ASSUME NEW s \in Switch, NEW v \in [Port -> Vector], NEW r \in Switch, NEW c \in Nat
    PROVE  /\ Claimed(s, v, r, c) \in [Port -> Vector]
           /\ \A q \in Port :
                 \/ Sw[q] # s /\ Claimed(s, v, r, c)[q] = v[q]
                 \/ /\ Sw[q] = s /\ Claimed(s, v, r, c)[q] = Local(q, r, c)
                    /\ IsDesignated(v, q) \/ ~Better(v[q], Local(q, r, c))
                 \/ /\ Sw[q] = s /\ Claimed(s, v, r, c)[q] = v[q]
                    /\ ~IsDesignated(v, q) /\ Better(v[q], Local(q, r, c))
<1>1. \A q \in Port : Local(q, r, c) \in Vector
    BY LocalIsVector
<1> QED BY <1>1 DEF Claimed

\* What stp_update_state's first loop finds after a better vector came in on port
\* p: the new root and cost are sound, and never worse than the old ones.
RecomputedSoundly(p, heard, rp, r, c) ==
    /\ heard \in [Port -> Vector]
    /\ heard[p] = Head(chan[p]) /\ Better(heard[p], vec[p])
    /\ \A q \in Port : q # p => heard[q] = vec[q]
    /\ \A q \in Port : IsDesignated(heard, q) \/ heard[q].sw = Sw[Peer[q]]
    /\ \A q \in Port : heard[q].cost >= Dist[heard[q].sw][heard[q].root]
    /\ r \in Switch /\ c \in Nat /\ c >= Dist[Sw[p]][r]
    /\ rp = NoPort => r = Sw[p] /\ c = 0
    /\ rp # NoPort => /\ rp \in Port /\ Sw[rp] = Sw[p] /\ ~IsDesignated(heard, rp)
                      /\ r < Sw[p] /\ r = heard[rp].root
                      /\ c = heard[rp].cost + PathCost
    /\ \A q \in Candidates(Sw[p], heard) : rp # NoPort /\ ~RootPortBetter(heard, q, rp)
    /\ r < root[Sw[p]] \/ (r = root[Sw[p]] /\ c <= cost[Sw[p]])

LEMMA RecomputeIsSound ==
    ASSUME StpInv, NEW p \in Port, chan[p] # <<>>, Better(Head(chan[p]), vec[p]),
           NEW heard, heard = [vec EXCEPT ![p] = Head(chan[p])],
           NEW rp \in BestRootPorts(Sw[p], heard),
           NEW r, r = RootOf(Sw[p], heard, rp), NEW c, c = RootCost(heard, rp)
    PROVE  RecomputedSoundly(p, heard, rp, r, c)
<1> DEFINE s == Sw[p]
<1>0. TypeOK /\ s \in Switch /\ s \in Nat /\ PathCost \in Nat
    BY TopologyAssumption DEF StpInv
<1>1. Head(chan[p]) \in Vector /\ Head(chan[p]) = chan[p][1] /\ 1 \in 1..Len(chan[p])
    BY <1>0, ReceivedShrinks
<1>2. /\ heard \in [Port -> Vector] /\ heard[p] = Head(chan[p])
      /\ Better(heard[p], vec[p]) /\ \A q \in Port : q # p => heard[q] = vec[q]
    BY <1>0, <1>1 DEF TypeOK
<1>3. heard[p].sw = Sw[Peer[p]]
    BY <1>1, <1>2 DEF StpInv, FromPeer
<1>4. \A q \in Port : IsDesignated(heard, q) \/ heard[q].sw = Sw[Peer[q]]
    BY <1>2, <1>3 DEF StpInv, FromPeer, IsDesignated
<1>5. \A q \in Port : heard[q].cost >= Dist[heard[q].sw][heard[q].root]
    BY <1>1, <1>2 DEF StpInv, NoBetterThanTruth
<1>6. \A q \in Port : /\ heard[q].root \in Switch /\ heard[q].root \in Nat
                      /\ heard[q].cost \in Nat
                      /\ vec[q].root \in Nat /\ vec[q].cost \in Nat
    BY <1>0, <1>2, TopologyAssumption DEF TypeOK, Vector
<1>7. rp # NoPort => /\ rp \in Port /\ Sw[rp] = s /\ ~IsDesignated(heard, rp)
                     /\ heard[rp].root < s
                     /\ \A q \in Candidates(s, heard) : ~RootPortBetter(heard, q, rp)
    BY DEF BestRootPorts, Candidates, Ports
<1>8. rp = NoPort => Candidates(s, heard) = {}
    BY TopologyAssumption DEF BestRootPorts, Candidates, Ports
<1>9. r \in Switch /\ c \in Nat
    BY <1>0, <1>6, <1>7 DEF RootOf, RootCost
<1>10. /\ rp = NoPort => r = s /\ c = 0
       /\ rp # NoPort => r = heard[rp].root /\ c = heard[rp].cost + PathCost
    BY DEF RootOf, RootCost
<1>11. c >= Dist[s][r]
  <2>1. CASE rp = NoPort
      BY <2>1, <1>0, <1>10, TopologyAssumption
  <2>2. CASE rp # NoPort
    <3>1. heard[rp].sw = Sw[Peer[rp]] /\ heard[rp].cost >= Dist[Sw[Peer[rp]]][r]
        BY <2>2, <1>4, <1>5, <1>7, <1>10
    <3>2. Dist[Sw[rp]][r] <= Dist[Sw[Peer[rp]]][r] + PathCost
        BY <2>2, <1>7, <1>9, TopologyAssumption
    <3>3. Dist[Sw[rp]][r] \in Nat /\ Dist[Sw[Peer[rp]]][r] \in Nat
      <4>1. Sw[rp] \in Switch /\ Peer[rp] \in Port
          BY <2>2, <1>7, TopologyAssumption
      <4>2. Sw[Peer[rp]] \in Switch
          BY <4>1, TopologyAssumption
      <4> QED BY <4>1, <4>2, <1>9, DistIsNat
    <3> QED BY <2>2, <3>1, <3>2, <3>3, <1>0, <1>6, <1>7, <1>10
  <2> QED BY <2>1, <2>2
<1>12. r < root[s] \/ (r = root[s] /\ c <= cost[s])
  <2>1. root[s] \in Nat /\ cost[s] \in Nat /\ r \in Nat
      BY <1>0, <1>9, TopologyAssumption DEF TypeOK
  <2>2. CASE rootPort[s] = NoPort
    <3>1. root[s] = s /\ cost[s] = 0
        BY <2>2, <1>0 DEF StpInv, RootXorRootPort
    <3> QED BY <3>1, <2>1, <1>0, <1>6, <1>7, <1>10
  <2>3. CASE rootPort[s] # NoPort
    <3> DEFINE old == rootPort[s]
    <3>1. /\ old \in Port /\ Sw[old] = s /\ root[s] < s
          /\ vec[old].root = root[s] /\ vec[old].cost + PathCost = cost[s]
          /\ ~IsDesignated(vec, old)
        BY <2>3, <1>0 DEF StpInv, RootXorRootPort, TypeOK
    <3>2. heard[old].root < vec[old].root
          \/ (heard[old].root = vec[old].root /\ heard[old].cost <= vec[old].cost)
        BY <3>1, <1>2, <1>6 DEF Better
    <3>3. ~IsDesignated(heard, old)
      <4>1. CASE old = p
          BY <4>1, <1>3, <3>1, TopologyAssumption DEF IsDesignated
      <4>2. CASE old # p
          BY <4>2, <1>2, <3>1 DEF IsDesignated
      <4> QED BY <4>1, <4>2
    <3>4. heard[old].root < s
        BY <3>1, <3>2, <1>0, <1>6, <2>1
    <3>5. old \in Candidates(s, heard)
        BY <3>1, <3>3, <3>4 DEF Candidates, Ports
    <3>6. rp # NoPort /\ ~RootPortBetter(heard, old, rp)
        BY <3>5, <1>7, <1>8
    <3>7. heard[rp].root < heard[old].root
          \/ (heard[rp].root = heard[old].root /\ heard[rp].cost <= heard[old].cost)
        BY <3>1, <3>6, <1>6, <1>7 DEF RootPortBetter, Better
    <3>8. r = heard[rp].root /\ c = heard[rp].cost + PathCost /\ rp \in Port
        BY <3>6, <1>7, <1>10
    <3>9. heard[rp].root < root[s]
          \/ (heard[rp].root = root[s] /\ heard[rp].cost <= vec[old].cost)
      <4>1. /\ heard[rp].root \in Nat /\ heard[rp].cost \in Nat
            /\ heard[old].root \in Nat /\ heard[old].cost \in Nat
            /\ vec[old].root \in Nat /\ vec[old].cost \in Nat
          BY <3>1, <3>8, <1>6
      <4> QED BY <4>1, <3>1, <3>2, <3>7
    <3>10. /\ heard[rp].cost \in Nat /\ vec[old].cost \in Nat
           /\ PathCost \in Nat /\ cost[s] = vec[old].cost + PathCost
        BY <3>1, <3>8, <1>0, <1>6
    <3>11. CASE heard[rp].root < root[s]
        BY <3>8, <3>11
    <3>12. CASE heard[rp].root = root[s] /\ heard[rp].cost <= vec[old].cost
      <4>1. heard[rp].cost + PathCost <= vec[old].cost + PathCost
          BY <3>10, <3>12
      <4> QED BY <3>8, <3>10, <3>12, <4>1
    <3> QED BY <3>9, <3>11, <3>12
  <2> QED BY <2>2, <2>3
<1>13. \A q \in Candidates(s, heard) : rp # NoPort /\ ~RootPortBetter(heard, q, rp)
    BY <1>7, <1>8
<1> QED BY <1>2, <1>4, <1>5, <1>7, <1>9, <1>10, <1>11, <1>12, <1>13 DEF RecomputedSoundly

-----------------------------------------------------------------------------
\* The step of AdoptConfig, with its local definitions named.
AdoptsWith(p, heard, rp, r, c) ==
    LET s == Sw[p]
    IN  /\ up[s] /\ chan[p] # <<>>
        /\ RecomputedSoundly(p, heard, rp, r, c)
        /\ root' = [root EXCEPT ![s] = r]
        /\ cost' = [cost EXCEPT ![s] = c]
        /\ rootPort' = [rootPort EXCEPT ![s] = rp]
        /\ vec' = Claimed(s, heard, r, c)
        /\ hello' = HelloAfter(s, r)
        /\ chan' = Send(Received(p), s, {q \in Ports(s) : IsDesignated(vec', q)}, r, c, rp)
        /\ up' = up

LEMMA AdoptUnfolds ==
    ASSUME StpInv, NEW p \in Port, AdoptConfig(p)
    PROVE  \E heard, rp, r, c : AdoptsWith(p, heard, rp, r, c)
<1> DEFINE s == Sw[p]
           heard == [vec EXCEPT ![p] = Head(chan[p])]
<1>1. PICK rp \in BestRootPorts(s, heard) :
          LET r   == RootOf(s, heard, rp)
              c   == RootCost(heard, rp)
              new == Claimed(s, heard, r, c)
          IN  /\ root' = [root EXCEPT ![s] = r]
              /\ cost' = [cost EXCEPT ![s] = c]
              /\ rootPort' = [rootPort EXCEPT ![s] = rp]
              /\ vec' = new
              /\ hello' = HelloAfter(s, r)
              /\ chan' = Send(Received(p), s, {q \in Ports(s) : IsDesignated(new, q)},
                              r, c, rp)
    BY DEF AdoptConfig
<1> DEFINE r == RootOf(s, heard, rp)
           c == RootCost(heard, rp)
<1>2. RecomputedSoundly(p, heard, rp, r, c)
    BY RecomputeIsSound DEF AdoptConfig
<1>3. AdoptsWith(p, heard, rp, r, c)
    BY <1>1, <1>2 DEF AdoptsWith, AdoptConfig
<1> QED BY <1>3

\* Ports of the adopting switch hold its new claim or a better vector; the others
\* are untouched.
LEMMA AdoptPorts ==
    ASSUME StpInv, NEW p \in Port, NEW heard, NEW rp, NEW r, NEW c,
           AdoptsWith(p, heard, rp, r, c)
    PROVE  /\ vec' \in [Port -> Vector]
           /\ \A q \in Port :
                 \/ Sw[q] # Sw[p] /\ vec'[q] = vec[q]
                 \/ /\ Sw[q] = Sw[p] /\ vec'[q] = Local(q, r, c) /\ IsDesignated(vec', q)
                    /\ IsDesignated(heard, q) \/ ~Better(heard[q], Local(q, r, c))
                 \/ /\ Sw[q] = Sw[p] /\ vec'[q] = heard[q]
                    /\ ~IsDesignated(vec', q) /\ Better(heard[q], Local(q, r, c))
<1> DEFINE s == Sw[p]
<1>1. s \in Switch /\ heard \in [Port -> Vector] /\ r \in Switch /\ c \in Nat
    BY TopologyAssumption DEF AdoptsWith, RecomputedSoundly
<1>2. vec' = Claimed(s, heard, r, c) /\ \A q \in Port : q # p => heard[q] = vec[q]
    BY DEF AdoptsWith, RecomputedSoundly
<1>3. /\ vec' \in [Port -> Vector]
      /\ \A q \in Port :
            \/ Sw[q] # s /\ vec'[q] = heard[q]
            \/ /\ Sw[q] = s /\ vec'[q] = Local(q, r, c)
               /\ IsDesignated(heard, q) \/ ~Better(heard[q], Local(q, r, c))
            \/ /\ Sw[q] = s /\ vec'[q] = heard[q]
               /\ ~IsDesignated(heard, q) /\ Better(heard[q], Local(q, r, c))
    BY <1>1, <1>2, ClaimedPorts
<1>4. \A q \in Port : vec'[q] = Local(q, r, c) => IsDesignated(vec', q)
    BY <1>1, LocalIsVector DEF IsDesignated
<1>5. \A q \in Port : vec'[q] = heard[q] /\ ~IsDesignated(heard, q)
                          => ~IsDesignated(vec', q)
    BY DEF IsDesignated
<1> QED BY <1>2, <1>3, <1>4, <1>5

LEMMA AdoptKeepsInv ==
    ASSUME StpInv, NEW p \in Port, NEW heard, NEW rp, NEW r, NEW c,
           AdoptsWith(p, heard, rp, r, c)
    PROVE  StpInv'
<1> DEFINE s == Sw[p]
<1>1. /\ TypeOK /\ s \in Switch /\ s \in Nat /\ r \in Switch /\ c \in Nat
      /\ rp \in Port \cup {NoPort}
    BY TopologyAssumption DEF StpInv, AdoptsWith, RecomputedSoundly
<1>2. /\ root' = [root EXCEPT ![s] = r] /\ root' \in [Switch -> Switch]
      /\ cost' = [cost EXCEPT ![s] = c] /\ cost' \in [Switch -> Nat]
      /\ rootPort' = [rootPort EXCEPT ![s] = rp]
      /\ rootPort' \in [Switch -> Port \cup {NoPort}]
      /\ up' = up
    BY <1>1 DEF AdoptsWith, TypeOK
<1>3. /\ hello' \in [Switch -> BOOLEAN]
      /\ \A t \in Switch : t # s => hello'[t] = hello[t]
      /\ hello'[s] <=> hello[s] /\ ~(root[s] = s /\ r # s)
    BY <1>1 DEF AdoptsWith, HelloAfter, TypeOK
<1>4. /\ vec' \in [Port -> Vector]
      /\ \A q \in Port :
            \/ Sw[q] # s /\ vec'[q] = vec[q]
            \/ /\ Sw[q] = s /\ vec'[q] = Local(q, r, c) /\ IsDesignated(vec', q)
               /\ IsDesignated(heard, q) \/ ~Better(heard[q], Local(q, r, c))
            \/ /\ Sw[q] = s /\ vec'[q] = heard[q]
               /\ ~IsDesignated(vec', q) /\ Better(heard[q], Local(q, r, c))
    BY AdoptPorts
<1>5. /\ chan' \in [Port -> Seq(Vector)]
      /\ \A q \in Port : \A i \in 1..Len(chan'[q]) :
            /\ chan'[q][i].sw = Sw[Peer[q]]
            /\ chan'[q][i].cost >= Dist[chan'[q][i].sw][chan'[q][i].root]
  <2>1. /\ Received(p) \in [Port -> Seq(Vector)]
        /\ \A q \in Port : \A i \in 1..Len(Received(p)[q]) :
              \E j \in 1..Len(chan[q]) : Received(p)[q][i] = chan[q][j]
      BY <1>1, ReceivedShrinks DEF AdoptsWith
  <2>2. {q \in Ports(s) : IsDesignated(vec', q)} \in SUBSET Ports(s)
      OBVIOUS
  <2>3. c >= Dist[s][r]
      BY DEF AdoptsWith, RecomputedSoundly
  <2>4. chan' = Send(Received(p), s, {q \in Ports(s) : IsDesignated(vec', q)}, r, c, rp)
      BY DEF AdoptsWith
  <2> HIDE DEF s
  <2> QED BY <2>1, <2>2, <2>3, <2>4, <1>1, SendKeeps
<1>6. TypeOK'
    BY <1>1, <1>2, <1>3, <1>4, <1>5 DEF TypeOK
<1>7. RootXorRootPort'
  <2> SUFFICES ASSUME NEW t \in Switch
               PROVE  IF rootPort'[t] = NoPort
                      THEN root'[t] = t /\ cost'[t] = 0
                      ELSE /\ Sw[rootPort'[t]] = t /\ root'[t] < t
                           /\ vec'[rootPort'[t]].root = root'[t]
                           /\ vec'[rootPort'[t]].cost + PathCost = cost'[t]
                           /\ ~IsDesignated(vec', rootPort'[t])
      BY DEF RootXorRootPort
  <2>1. CASE t # s
    <3>1. /\ rootPort'[t] = rootPort[t] /\ root'[t] = root[t] /\ cost'[t] = cost[t]
          /\ rootPort[t] \in Port \cup {NoPort}
        BY <2>1, <1>1, <1>2 DEF TypeOK
    <3>2. ASSUME rootPort[t] # NoPort
          PROVE  vec'[rootPort[t]] = vec[rootPort[t]]
        BY <3>1, <3>2, <2>1, <1>4 DEF StpInv, RootXorRootPort
    <3> QED BY <3>1, <3>2 DEF StpInv, RootXorRootPort, IsDesignated
  <2>2. CASE t = s /\ rp = NoPort
      BY <2>2, <1>1, <1>2 DEF AdoptsWith, RecomputedSoundly, TypeOK
  <2>3. CASE t = s /\ rp # NoPort
    <3>1. /\ rp \in Port /\ Sw[rp] = s /\ ~IsDesignated(heard, rp)
          /\ r < s /\ r = heard[rp].root /\ c = heard[rp].cost + PathCost
          /\ heard[rp] \in Vector
        BY <2>3 DEF AdoptsWith, RecomputedSoundly
    <3>2. rootPort'[t] = rp /\ root'[t] = r /\ cost'[t] = c
        BY <2>3, <1>1, <1>2 DEF TypeOK
    <3>3. Better(heard[rp], Local(rp, r, c))
      <4>1. heard[rp].cost < c
        <5>1. heard[rp].cost \in Nat /\ PathCost \in Nat /\ PathCost > 0
            BY <3>1, TopologyAssumption DEF Vector
        <5> QED BY <5>1, <3>1
      <4> QED BY <4>1, <3>1, <1>1, LocalIsVector DEF Better
    <3>4. vec'[rp] = heard[rp] /\ ~IsDesignated(vec', rp)
        BY <3>1, <3>3, <1>4
    <3> QED BY <3>1, <3>2, <3>4, <2>3
  <2> QED BY <2>1, <2>2, <2>3, <1>1
<1>8. HelloIffRoot'
  <2>1. root[s] # s => r # s
    <3>1. r < root[s] \/ r = root[s]
        BY DEF AdoptsWith, RecomputedSoundly
    <3>2. root[s] # s => root[s] < s
        BY <1>1 DEF StpInv, RootXorRootPort
    <3>3. root[s] \in Nat /\ r \in Nat
        BY <1>1, TopologyAssumption DEF TypeOK
    <3> QED BY <3>1, <3>2, <3>3, <1>1
  <2>2. up[s] /\ (hello[s] <=> root[s] = s)
      BY <1>1 DEF StpInv, HelloIffRoot, AdoptsWith
  <2>3. hello'[s] <=> r = s
      BY <2>1, <2>2, <1>3
  <2>4. \A t \in Switch : t # s => root'[t] = root[t]
      BY <1>1, <1>2 DEF TypeOK
  <2>5. root'[s] = r
      BY <1>1, <1>2 DEF TypeOK
  <2> QED BY <2>2, <2>3, <2>4, <2>5, <1>2, <1>3 DEF StpInv, HelloIffRoot
<1>9. ClaimsAreCurrent'
  <2> SUFFICES ASSUME NEW q \in Port
               PROVE  IF IsDesignated(vec', q)
                      THEN vec'[q] = Local(q, root'[Sw[q]], cost'[Sw[q]])
                      ELSE Better(vec'[q], Local(q, root'[Sw[q]], cost'[Sw[q]]))
      BY DEF ClaimsAreCurrent, IsDesignated
  <2>1. CASE Sw[q] # s
    <3>1. Sw[q] \in Switch
        BY TopologyAssumption
    <3>2. /\ root'[Sw[q]] = root[Sw[q]] /\ cost'[Sw[q]] = cost[Sw[q]]
          /\ vec'[q] = vec[q]
        BY <3>1, <2>1, <1>2, <1>4 DEF StpInv, TypeOK
    <3> QED BY <3>2 DEF StpInv, ClaimsAreCurrent, IsDesignated
  <2>2. CASE Sw[q] = s
    <3>1. root'[s] = r /\ cost'[s] = c
        BY <1>1, <1>2 DEF TypeOK
    <3> QED BY <3>1, <2>2, <1>4
  <2> QED BY <2>1, <2>2
<1>10. FromPeer'
  <2>1. ASSUME NEW q \in Port
        PROVE  IsDesignated(vec', q) \/ vec'[q].sw = Sw[Peer[q]]
      BY <1>4 DEF StpInv, FromPeer, IsDesignated, AdoptsWith, RecomputedSoundly
  <2> QED BY <2>1, <1>5 DEF FromPeer, IsDesignated
<1>11. NoBetterThanTruth'
  <2>1. ASSUME NEW t \in Switch
        PROVE  cost'[t] >= Dist[t][root'[t]]
    <3>1. CASE t = s
        BY <3>1, <1>1, <1>2 DEF TypeOK, AdoptsWith, RecomputedSoundly
    <3>2. CASE t # s
        BY <3>2, <1>1, <1>2 DEF TypeOK, StpInv, NoBetterThanTruth
    <3> QED BY <3>1, <3>2
  <2>2. ASSUME NEW q \in Port
        PROVE  vec'[q].cost >= Dist[vec'[q].sw][vec'[q].root]
    <3>1. CASE vec'[q] = vec[q]
        BY <3>1 DEF StpInv, NoBetterThanTruth
    <3>2. CASE vec'[q] = heard[q]
        BY <3>2 DEF AdoptsWith, RecomputedSoundly
    <3>3. CASE Sw[q] = s /\ vec'[q] = Local(q, r, c)
        BY <3>3, <1>1, LocalIsVector DEF AdoptsWith, RecomputedSoundly
    <3> QED BY <3>1, <3>2, <3>3, <1>4
  <2> QED BY <2>1, <2>2, <1>5 DEF NoBetterThanTruth
<1>12. DownIsRoot'
    BY <1>1, <1>2 DEF StpInv, TypeOK, DownIsRoot, AdoptsWith
<1> QED BY <1>6, <1>7, <1>8, <1>9, <1>10, <1>11, <1>12 DEF StpInv

LEMMA StartKeepsInv ==
    ASSUME StpInv, NEW s \in Switch, Start(s)
    PROVE  StpInv'
<1>1. TypeOK'
    BY DEF StpInv, TypeOK, Start
<1>2. RootXorRootPort' /\ ClaimsAreCurrent' /\ FromPeer' /\ NoBetterThanTruth'
    BY DEF StpInv, Start, RootXorRootPort, ClaimsAreCurrent, FromPeer,
           NoBetterThanTruth, IsDesignated
<1>3. HelloIffRoot' /\ DownIsRoot'
    BY DEF StpInv, Start, TypeOK, HelloIffRoot, DownIsRoot
<1> QED BY <1>1, <1>2, <1>3 DEF StpInv

\* What a switch believes may be claimed in a BPDU.
LEMMA BeliefIsSound ==
    ASSUME StpInv, NEW s \in Switch
    PROVE  /\ root[s] \in Switch /\ cost[s] \in Nat /\ cost[s] >= Dist[s][root[s]]
           /\ rootPort[s] \in Port \cup {NoPort}
    BY DEF StpInv, TypeOK, NoBetterThanTruth

LEMMA HelloKeepsInv ==
    ASSUME StpInv, NEW s \in Switch, HelloTimeout(s)
    PROVE  StpInv'
<1>1. chan \in [Port -> Seq(Vector)]
    BY DEF StpInv, TypeOK
<1>2. {p \in Ports(s) : IsDesignated(vec, p)} \in SUBSET Ports(s)
    OBVIOUS
<1>3. chan' = Send(chan, s, {p \in Ports(s) : IsDesignated(vec, p)},
                   root[s], cost[s], rootPort[s])
    BY DEF HelloTimeout
<1>4. \A q \in Port : \A i \in 1..Len(chan[q]) :
          \E j \in 1..Len(chan[q]) : chan[q][i] = chan[q][j]
    OBVIOUS
<1>5. /\ chan' \in [Port -> Seq(Vector)]
      /\ \A q \in Port : \A i \in 1..Len(chan'[q]) :
            /\ chan'[q][i].sw = Sw[Peer[q]]
            /\ chan'[q][i].cost >= Dist[chan'[q][i].sw][chan'[q][i].root]
    BY <1>1, <1>2, <1>3, <1>4, BeliefIsSound, SendKeeps
<1> QED BY <1>5, QuietStep DEF HelloTimeout

LEMMA RefuseKeepsInv ==
    ASSUME StpInv, NEW p \in Port, RefuseConfig(p)
    PROVE  StpInv'
<1> DEFINE s == Sw[p]
           P == {q \in {p} : IsDesignated(vec, q)}
<1>1. s \in Switch /\ TypeOK /\ chan[p] # <<>>
    BY TopologyAssumption DEF StpInv, RefuseConfig
<1>2. P \in SUBSET Ports(s)
    BY DEF Ports
<1>3. chan' = Send(Received(p), s, P, root[s], cost[s], rootPort[s])
    BY DEF RefuseConfig
<1>4. /\ Received(p) \in [Port -> Seq(Vector)]
      /\ \A q \in Port : \A i \in 1..Len(Received(p)[q]) :
            \E j \in 1..Len(chan[q]) : Received(p)[q][i] = chan[q][j]
    BY <1>1, ReceivedShrinks
<1> HIDE DEF s, P
<1>5. /\ chan' \in [Port -> Seq(Vector)]
      /\ \A q \in Port : \A i \in 1..Len(chan'[q]) :
            /\ chan'[q][i].sw = Sw[Peer[q]]
            /\ chan'[q][i].cost >= Dist[chan'[q][i].sw][chan'[q][i].root]
    BY <1>1, <1>2, <1>3, <1>4, BeliefIsSound, SendKeeps
<1> QED BY <1>5, QuietStep DEF RefuseConfig

LEMMA LoseKeepsInv ==
    ASSUME StpInv, NEW p \in Port, Lose(p)
    PROVE  StpInv'
<1>1. /\ chan' = Received(p)
      /\ Received(p) \in [Port -> Seq(Vector)]
      /\ \A q \in Port : \A i \in 1..Len(Received(p)[q]) :
            \E j \in 1..Len(chan[q]) : Received(p)[q][i] = chan[q][j]
    BY ReceivedShrinks DEF Lose, StpInv
<1>2. ASSUME NEW q \in Port, NEW i \in 1..Len(chan'[q])
      PROVE  /\ chan'[q][i].sw = Sw[Peer[q]]
             /\ chan'[q][i].cost >= Dist[chan'[q][i].sw][chan'[q][i].root]
  <2>1. PICK j \in 1..Len(chan[q]) : chan'[q][i] = chan[q][j]
      BY <1>1
  <2> QED BY <2>1 DEF StpInv, FromPeer, NoBetterThanTruth
<1> QED BY <1>1, <1>2, QuietStep DEF Lose

LEMMA InvNext == StpInv /\ [Next]_vars => StpInv'
<1> SUFFICES ASSUME StpInv, [Next]_vars
             PROVE  StpInv'
    OBVIOUS
<1>1. ASSUME NEW s \in Switch, Start(s)
      PROVE  StpInv'
    BY <1>1, StartKeepsInv
<1>2. ASSUME NEW s \in Switch, HelloTimeout(s)
      PROVE  StpInv'
    BY <1>2, HelloKeepsInv
<1>3. ASSUME NEW p \in Port, AdoptConfig(p)
      PROVE  StpInv'
    BY <1>3, AdoptUnfolds, AdoptKeepsInv
<1>4. ASSUME NEW p \in Port, RefuseConfig(p)
      PROVE  StpInv'
    BY <1>4, RefuseKeepsInv
<1>5. ASSUME NEW p \in Port, Lose(p)
      PROVE  StpInv'
    BY <1>5, LoseKeepsInv
<1>6. CASE UNCHANGED vars
    BY <1>6 DEF vars, StpInv, TypeOK, DownIsRoot, RootXorRootPort, HelloIffRoot,
                ClaimsAreCurrent, FromPeer, NoBetterThanTruth, IsDesignated
<1> QED BY <1>1, <1>2, <1>3, <1>4, <1>5, <1>6 DEF Next, HandleConfig

-----------------------------------------------------------------------------
\* The inductive invariant holds in every reachable state, whatever the topology.
THEOREM StpInvariant == Spec => []StpInv
    BY InvInit, InvNext, PTL DEF Spec

\* Every variable keeps its type.
THEOREM StpTypeCorrect == Spec => []TypeOK
<1>1. StpInv => TypeOK
    BY DEF StpInv
<1> QED BY <1>1, StpInvariant, PTL

\* stp_update_state leaves a switch either root or with a root port that heard of
\* the root it believes in, never both and never neither.
THEOREM RootOrRootPort == Spec => []RootXorRootPort
<1>1. StpInv => RootXorRootPort
    BY DEF StpInv
<1> QED BY <1>1, StpInvariant, PTL

\* stp_stop_timer is called exactly when needed: a started switch sends hellos if
\* and only if it believes it is root, and a non-root never becomes root again.
THEOREM HellosComeFromRoots == Spec => []HelloIffRoot
<1>1. StpInv => HelloIffRoot
    BY DEF StpInv
<1> QED BY <1>1, StpInvariant, PTL

\* A designated port claims what its switch believes now; the others know better.
THEOREM ClaimsFollowBelief == Spec => []ClaimsAreCurrent
<1>1. StpInv => ClaimsAreCurrent
    BY DEF StpInv
<1> QED BY <1>1, StpInvariant, PTL

\* Nobody ever believes in a path shorter than the topology has.
THEOREM CostsAreReal == Spec => []NoBetterThanTruth
<1>1. StpInv => NoBetterThanTruth
    BY DEF StpInv
<1> QED BY <1>1, StpInvariant, PTL

-----------------------------------------------------------------------------
\* No port ever holds a worse vector than before: a claim refreshed after
\* recomputing is at least as good, and a port taken over is at least as good as
\* what was heard there.
LEMMA AdoptImproves ==
    ASSUME StpInv, NEW p \in Port, NEW heard, NEW rp, NEW r, NEW c,
           AdoptsWith(p, heard, rp, r, c), NEW q \in Port
    PROVE  vec'[q] = vec[q] \/ Better(vec'[q], vec[q])
<1> DEFINE s == Sw[p]
           mine == Local(q, r, c)
<1>1. /\ TypeOK /\ s \in Switch /\ r \in Switch /\ c \in Nat
      /\ vec[q] \in Vector /\ heard[q] \in Vector /\ mine \in Vector
  <2>1. TypeOK /\ s \in Switch
      BY TopologyAssumption DEF StpInv
  <2>2. r \in Switch /\ c \in Nat /\ heard[q] \in Vector
      BY DEF AdoptsWith, RecomputedSoundly
  <2> QED BY <2>1, <2>2, LocalIsVector DEF TypeOK
<1>2. heard[q] = vec[q] \/ (q = p /\ Better(heard[q], vec[q]))
    BY DEF AdoptsWith, RecomputedSoundly
<1>3. \/ vec'[q] = vec[q]
      \/ vec'[q] = heard[q]
      \/ /\ Sw[q] = s /\ vec'[q] = mine
         /\ IsDesignated(heard, q) \/ ~Better(heard[q], mine)
    BY AdoptPorts
<1>4. CASE vec'[q] = vec[q] \/ vec'[q] = heard[q]
    BY <1>2, <1>4
<1>5. CASE vec'[q] = mine /\ ~Better(heard[q], mine)
  <2>1. mine = heard[q] \/ Better(mine, heard[q])
      BY <1>1, <1>5, BetterIsTotal
  <2> QED BY <2>1, <1>1, <1>2, <1>5, BetterIsTransitive
<1>6. CASE vec'[q] = mine /\ Sw[q] = s /\ IsDesignated(heard, q)
  <2>1. heard[q] = vec[q]
    \* what came in on p is from the other end, so p is not designated in heard
    <3>1. p \in Port /\ ~IsDesignated(heard, p)
      <4>1. heard[p].sw = Sw[Peer[p]]
        <5>1. heard[p] = chan[p][1] /\ 1 \in 1..Len(chan[p])
            BY <1>1, ReceivedShrinks DEF AdoptsWith, RecomputedSoundly
        <5> QED BY <5>1 DEF StpInv, FromPeer
      <4> QED BY <4>1, TopologyAssumption DEF IsDesignated
    <3> QED BY <3>1, <1>2, <1>6
  <2>2. vec[q] = Local(q, root[s], cost[s])
      BY <2>1, <1>6 DEF StpInv, ClaimsAreCurrent, IsDesignated
  <2>3. r < root[s] \/ (r = root[s] /\ c <= cost[s])
      BY DEF AdoptsWith, RecomputedSoundly
  <2>4. root[s] \in Switch /\ cost[s] \in Nat
      BY <1>1 DEF TypeOK
  <2>5. CASE r = root[s] /\ c = cost[s]
      BY <2>2, <2>5, <1>6
  <2>6. CASE r < root[s] \/ (r = root[s] /\ c < cost[s])
      BY <2>2, <2>4, <2>6, <1>1, <1>6, LocalIsVector DEF Better
  <2> QED BY <2>3, <2>4, <2>5, <2>6, <1>1
<1> QED BY <1>3, <1>4, <1>5, <1>6

\* No step replaces what a port knows by something worse.
LEMMA StepImproves ==
    ASSUME StpInv, [Next]_vars, NEW q \in Port
    PROVE  vec'[q] = vec[q] \/ Better(vec'[q], vec[q])
<1>1. ASSUME NEW p \in Port, AdoptConfig(p)
      PROVE  vec'[q] = vec[q] \/ Better(vec'[q], vec[q])
    BY <1>1, AdoptUnfolds, AdoptImproves
<1>2. CASE UNCHANGED vec
    BY <1>2
<1> QED BY <1>1, <1>2
    DEF Next, HandleConfig, Start, HelloTimeout, RefuseConfig, Lose, vars

\* stp_handle_config_packet never replaces what a port knows by something worse.
THEOREM KnowledgeOnlyImproves == Spec => OnlyImproves
<1>1. StpInv /\ [Next]_vars
          => [\A p \in Port : vec'[p] = vec[p] \/ Better(vec'[p], vec[p])]_vars
    BY StepImproves
<1> QED BY <1>1, StpInvariant, PTL DEF Spec, OnlyImproves

-----------------------------------------------------------------------------
\* Correctness.

\* What a port p may hear when the switches of u are up and the ports hold v: the
\* claim of the other end, no better than what is known there, of a root that was
\* started and is not above its sender.
Sound(u, v, m, p) ==
    /\ m.port = PortId[Peer[p]]
    /\ ~Better(m, v[Peer[p]])
    /\ u[m.root]
    /\ m.root <= m.sw /\ (m.root = m.sw => m.cost = 0)

\* A port that is not designated holds something it heard.
PortsAreSound == \A p \in Port : IsDesignated(vec, p) \/ Sound(up, vec, vec[p], p)

\* What is on its way to a port may be heard there.
BpdusAreSound ==
    \A p \in Port : \A i \in 1..Len(chan[p]) : Sound(up, vec, chan[p][i], p)

\* Nobody believes in another switch before that one was started.
RootIsUp == \A s \in Switch : root[s] # s => up[root[s]]

\* No port heard better than the root port.
RootPortIsBest ==
    \A s \in Switch : \A q \in Candidates(s, vec) :
        rootPort[s] # NoPort /\ ~RootPortBetter(vec, q, rootPort[s])

\* The newest BPDU on a link is what the designated port it left still claims.
LastIsCurrent ==
    \A p \in Port : IsDesignated(vec, p) /\ chan[Peer[p]] # <<>>
        => chan[Peer[p]][Len(chan[Peer[p]])] = vec[p]

\* A root that faces a switch which does not believe in it.
Stranger(p) == root[Sw[p]] = Sw[p] /\ root[Sw[Peer[p]]] # Sw[p]

\* The ends of a link agree unless a BPDU is on its way between them, or one of
\* them is a root the other has yet to hear of, or to give up for a better one.
LinksAgree ==
    \A p \in Port :
        chan[p] = <<>> /\ chan[Peer[p]] = <<>> /\ ~Stranger(p) /\ ~Stranger(Peer[p])
            => vec[p] = vec[Peer[p]]

TreeInv ==
    /\ StpInv
    /\ PortsAreSound
    /\ BpdusAreSound
    /\ RootPortIsBest
    /\ LastIsCurrent
    /\ LinksAgree

-----------------------------------------------------------------------------
\* Every non-empty set of numbers has a least element.
LEMMA LeastNumber ==
    ASSUME NEW T, T \subseteq Nat, T # {}
    PROVE  \E x \in T : \A y \in T : x <= y
<1>1. PICK x \in T : \A y \in T : ~(<<y, x>> \in OpToRel(<, Nat))
    BY WFMin, NatLessThanWellFounded
<1>2. ASSUME NEW y \in T
      PROVE  x <= y
  <2>1. x \in Nat /\ y \in Nat
      OBVIOUS
  <2>2. ~(y < x)
      BY <1>1, <2>1 DEF OpToRel
  <2> QED BY <2>1, <2>2
<1> QED BY <1>2

\* The fields of a vector are numbers, and two vectors with equal fields are equal.
LEMMA VectorFields ==
    ASSUME NEW a \in Vector
    PROVE  /\ a.root \in Switch /\ a.sw \in Switch /\ a.root \in Nat /\ a.sw \in Nat
           /\ a.cost \in Nat /\ a.port \in Nat
    BY TopologyAssumption DEF Vector

LEMMA SameVector ==
    ASSUME NEW a \in Vector, NEW b \in Vector,
           a.root = b.root, a.cost = b.cost, a.sw = b.sw, a.port = b.port
    PROVE  a = b
    BY DEF Vector

LEMMA BetterIsStrict ==
    ASSUME NEW a \in Vector, NEW b \in Vector
    PROVE  ~(Better(a, b) /\ Better(b, a)) /\ ~Better(a, a)
    BY VectorFields DEF Better

\* Numbers, types and the other end of a port.
LEMMA PortFacts ==
    ASSUME NEW p \in Port
    PROVE  /\ Sw[p] \in Switch /\ Sw[p] \in Nat /\ PortId[p] \in Nat
           /\ Peer[p] \in Port /\ Peer[Peer[p]] = p
           /\ Sw[Peer[p]] \in Switch /\ Sw[Peer[p]] # Sw[p]
    BY TopologyAssumption

\* What the invariant says of one port.
LEMMA PortState ==
    ASSUME StpInv, NEW p \in Port
    PROVE  /\ vec[p] \in Vector /\ chan[p] \in Seq(Vector)
           /\ root[Sw[p]] \in Switch /\ cost[Sw[p]] \in Nat
           /\ Local(p, root[Sw[p]], cost[Sw[p]]) \in Vector
           /\ IsDesignated(vec, p) => vec[p] = Local(p, root[Sw[p]], cost[Sw[p]])
           /\ ~IsDesignated(vec, p) =>
                 /\ Better(vec[p], Local(p, root[Sw[p]], cost[Sw[p]]))
                 /\ vec[p].sw = Sw[Peer[p]]
           /\ \A i \in 1..Len(chan[p]) : chan[p][i].sw = Sw[Peer[p]]
    BY PortFacts, LocalIsVector DEF StpInv, TypeOK, ClaimsAreCurrent, FromPeer

\* What the invariant says of the root a switch believes in.
LEMMA RootState ==
    ASSUME StpInv, NEW s \in Switch
    PROVE  /\ root[s] \in Switch /\ root[s] \in Nat /\ cost[s] \in Nat /\ s \in Nat
           /\ root[s] <= s
           /\ rootPort[s] = NoPort <=> root[s] = s
           /\ root[s] = s => cost[s] = 0
           /\ rootPort[s] # NoPort => rootPort[s] \in Port
<1>1. /\ root[s] \in Switch /\ cost[s] \in Nat /\ s \in Nat
      /\ rootPort[s] # NoPort => rootPort[s] \in Port
    BY TopologyAssumption DEF StpInv, TypeOK
<1>2. root[s] \in Nat
    BY <1>1, TopologyAssumption
<1>3. IF rootPort[s] = NoPort THEN root[s] = s /\ cost[s] = 0 ELSE root[s] < s
    BY DEF StpInv, RootXorRootPort
<1> QED BY <1>1, <1>2, <1>3

-----------------------------------------------------------------------------
\* A step as the links see it: the ports X take their oldest BPDU, the designated
\* ports S of started switches send what they now hold.  A port that is designated
\* and does not send holds what it held, and one that is not designated holds what
\* it held or what it just took.
Taken(X) == [q \in Port |-> IF q \in X THEN Tail(chan[q]) ELSE chan[q]]

Exchange(X, S) ==
    /\ \A q \in X : chan[q] # <<>>
    /\ \A q \in S : q \in Port /\ IsDesignated(vec', q) /\ up[Sw[q]]
    /\ chan' = [q \in Port |->
                   IF Peer[q] \in S THEN Append(Taken(X)[q], vec'[Peer[q]]) ELSE Taken(X)[q]]
    /\ \A q \in Port :
          IF IsDesignated(vec', q)
          THEN q \in S \/ (IsDesignated(vec, q) /\ vec'[q] = vec[q])
          ELSE \/ ~IsDesignated(vec, q) /\ vec'[q] = vec[q]
               \/ q \in X /\ vec'[q] = Head(chan[q])
    /\ \A s \in Switch : up[s] => up'[s]

\* What such a step leaves on one link.
LEMMA ExchangeOnLink ==
    ASSUME StpInv, StpInv', NEW X, NEW S, Exchange(X, S), NEW q \in Port
    PROVE  /\ \A i \in 1..Len(chan'[q]) :
                 \/ \E j \in 1..Len(chan[q]) : chan'[q][i] = chan[q][j]
                 \/ Peer[q] \in S /\ chan'[q][i] = vec'[Peer[q]]
           /\ Peer[q] \in S =>
                 chan'[q] # <<>> /\ chan'[q][Len(chan'[q])] = vec'[Peer[q]]
           /\ Peer[q] \notin S /\ q \notin X => chan'[q] = chan[q]
           /\ Peer[q] \notin S /\ chan'[q] # <<>> =>
                 chan[q] # <<>> /\ chan'[q][Len(chan'[q])] = chan[q][Len(chan[q])]
           /\ Peer[q] \notin S /\ q \in X /\ chan'[q] = <<>> =>
                 Head(chan[q]) = chan[q][Len(chan[q])]
<1> DEFINE t == Taken(X)[q]
           m == vec'[Peer[q]]
<1>1. chan[q] \in Seq(Vector) /\ (q \in X => chan[q] # <<>>)
    BY PortState DEF Exchange
<1>2. m \in Vector
    BY PortFacts DEF StpInv, TypeOK
<1>3. chan'[q] = IF Peer[q] \in S THEN Append(t, m) ELSE t
    BY DEF Exchange
<1>4. t = IF q \in X THEN Tail(chan[q]) ELSE chan[q]
    BY DEF Taken
<1> HIDE DEF t, m
<1>5. /\ t \in Seq(Vector)
      /\ \A i \in 1..Len(t) : \E j \in 1..Len(chan[q]) : t[i] = chan[q][j]
      /\ t # <<>> => chan[q] # <<>> /\ t[Len(t)] = chan[q][Len(chan[q])]
      /\ q \in X /\ t = <<>> => Head(chan[q]) = chan[q][Len(chan[q])]
      /\ q \notin X => t = chan[q]
  <2>1. CASE q \notin X
      BY <2>1, <1>1, <1>4
  <2>2. CASE q \in X
    <3>1. /\ t \in Seq(Vector) /\ Len(t) = Len(chan[q]) - 1
          /\ \A i \in 1..Len(t) : t[i] = chan[q][i + 1]
          /\ Len(chan[q]) \in Nat /\ Len(chan[q]) > 0
          /\ Head(chan[q]) = chan[q][1]
        BY <2>2, <1>1, <1>4
    <3>2. ASSUME NEW i \in 1..Len(t)
          PROVE  \E j \in 1..Len(chan[q]) : t[i] = chan[q][j]
      <4>1. i + 1 \in 1..Len(chan[q])
          BY <3>1
      <4> QED BY <4>1, <3>1
    <3>3. ASSUME t # <<>>
          PROVE  t[Len(t)] = chan[q][Len(chan[q])]
      <4>1. Len(t) \in 1..Len(t) /\ Len(t) + 1 = Len(chan[q])
          BY <3>1, <3>3
      <4> QED BY <4>1, <3>1
    <3>4. ASSUME t = <<>>
          PROVE  Head(chan[q]) = chan[q][Len(chan[q])]
      <4>1. Len(chan[q]) = 1
          BY <3>1, <3>4
      <4> QED BY <4>1, <3>1
    <3> QED BY <3>1, <3>2, <3>3, <3>4, <2>2, <1>1
  <2> QED BY <2>1, <2>2
<1>6. CASE Peer[q] \notin S
    BY <1>3, <1>5, <1>6
<1>7. CASE Peer[q] \in S
  <2>1. /\ chan'[q] = Append(t, m)
        /\ Len(chan'[q]) = Len(t) + 1 /\ Len(t) \in Nat
        /\ \A i \in 1..Len(t) : chan'[q][i] = t[i]
        /\ chan'[q][Len(t) + 1] = m
      BY <1>2, <1>3, <1>5, <1>7
  <2>2. chan'[q] # <<>>
    <3>1. Len(chan'[q]) # 0
        BY <2>1
    <3> QED BY <3>1
  <2>3. ASSUME NEW i \in 1..Len(chan'[q])
        PROVE  \/ \E j \in 1..Len(chan[q]) : chan'[q][i] = chan[q][j]
               \/ chan'[q][i] = m
    <3>1. i \in 1..Len(t) \/ i = Len(t) + 1
        BY <2>1
    <3> QED BY <3>1, <2>1, <1>5
  <2> QED BY <2>1, <2>2, <2>3, <1>7 DEF m
<1> QED BY <1>6, <1>7

\* What was sound stays sound while ports only learn better and switches start.
LEMMA SoundStays ==
    ASSUME StpInv, StpInv', NEW p \in Port, NEW m \in Vector, Sound(up, vec, m, p),
           vec'[Peer[p]] = vec[Peer[p]] \/ Better(vec'[Peer[p]], vec[Peer[p]]),
           \A s \in Switch : up[s] => up'[s]
    PROVE  Sound(up', vec', m, p)
<1>1. vec[Peer[p]] \in Vector /\ vec'[Peer[p]] \in Vector
    BY PortFacts DEF StpInv, TypeOK
<1>2. ~Better(m, vec'[Peer[p]])
    BY <1>1, BetterIsTransitive, BetterIsTotal, BetterIsStrict DEF Sound
<1> QED BY <1>2, VectorFields DEF Sound

\* A root other than the switch itself was heard on the root port.
LEMMA RootsAreUp == StpInv /\ PortsAreSound => RootIsUp
<1> SUFFICES ASSUME StpInv, PortsAreSound, NEW s \in Switch, root[s] # s
             PROVE  up[root[s]]
    BY DEF RootIsUp
<1>1. rootPort[s] \in Port
    BY RootState
<1>2. vec[rootPort[s]].root = root[s] /\ ~IsDesignated(vec, rootPort[s])
    BY DEF StpInv, RootXorRootPort
<1> QED BY <1>1, <1>2 DEF PortsAreSound, Sound

\* What a designated port of a started switch holds may be heard at the other end.
ClaimsMayBeHeard ==
    \A p \in Port : IsDesignated(vec, p) /\ up[Sw[p]] => Sound(up, vec, vec[p], Peer[p])

LEMMA ClaimsAreSound == StpInv /\ RootIsUp => ClaimsMayBeHeard
<1> SUFFICES ASSUME StpInv, RootIsUp, NEW p \in Port, IsDesignated(vec, p), up[Sw[p]]
             PROVE  Sound(up, vec, vec[p], Peer[p])
    BY DEF ClaimsMayBeHeard
<1>1. /\ vec[p] \in Vector /\ vec[p] = Local(p, root[Sw[p]], cost[Sw[p]])
      /\ root[Sw[p]] \in Switch /\ cost[Sw[p]] \in Nat
    BY PortState
<1>2. /\ vec[p].root = root[Sw[p]] /\ vec[p].cost = cost[Sw[p]]
      /\ vec[p].sw = Sw[p] /\ vec[p].port = PortId[p]
    BY <1>1, LocalIsVector
<1>3. ~Better(vec[p], vec[Peer[Peer[p]]])
    BY <1>1, BetterIsStrict, PortFacts
<1>4. /\ root[Sw[p]] <= Sw[p] /\ (root[Sw[p]] = Sw[p] => cost[Sw[p]] = 0)
    BY RootState, PortFacts
<1>5. up[root[Sw[p]]]
    BY PortFacts DEF RootIsUp
<1> QED BY <1>2, <1>3, <1>4, <1>5, PortFacts DEF Sound

-----------------------------------------------------------------------------
LEMMA ExchangeKeepsSound ==
    ASSUME StpInv, StpInv', PortsAreSound, BpdusAreSound, NEW X, NEW S, Exchange(X, S),
           \A q \in Port : vec'[q] = vec[q] \/ Better(vec'[q], vec[q])
    PROVE  PortsAreSound' /\ BpdusAreSound'
<1>1. \A q \in Port, m \in Vector : Sound(up, vec, m, q) => Sound(up', vec', m, q)
  <2>1. \A s \in Switch : up[s] => up'[s]
      BY DEF Exchange
  <2> QED BY <2>1, SoundStays, PortFacts
<1>2. PortsAreSound'
  <2> SUFFICES ASSUME NEW q \in Port, ~IsDesignated(vec', q)
               PROVE  Sound(up', vec', vec'[q], q)
      BY DEF PortsAreSound, IsDesignated
  <2>1. CASE ~IsDesignated(vec, q) /\ vec'[q] = vec[q]
      BY <2>1, <1>1, PortState DEF PortsAreSound
  <2>2. CASE q \in X /\ vec'[q] = Head(chan[q])
    <3>1. chan[q] \in Seq(Vector) /\ chan[q] # <<>>
        BY <2>2, PortState DEF Exchange
    <3>2. Head(chan[q]) = chan[q][1] /\ 1 \in 1..Len(chan[q]) /\ Head(chan[q]) \in Vector
        BY <3>1
    <3> QED BY <2>2, <3>2, <1>1 DEF BpdusAreSound
  <2> QED BY <2>1, <2>2 DEF Exchange
<1>3. RootIsUp'
  <2>1. StpInv' /\ PortsAreSound' => RootIsUp'
      BY RootsAreUp, PTL
  <2> QED BY <2>1, <1>2
<1>4. \A q \in Port : IsDesignated(vec', q) /\ up'[Sw[q]] => Sound(up', vec', vec'[q], Peer[q])
  <2>1. StpInv' /\ RootIsUp' => ClaimsMayBeHeard'
      BY ClaimsAreSound, PTL
  <2> QED BY <2>1, <1>3 DEF ClaimsMayBeHeard, IsDesignated, Sound
<1>5. BpdusAreSound'
  <2> SUFFICES ASSUME NEW q \in Port, NEW i \in 1..Len(chan'[q])
               PROVE  Sound(up', vec', chan'[q][i], q)
      BY DEF BpdusAreSound, Sound
  <2>1. CASE \E j \in 1..Len(chan[q]) : chan'[q][i] = chan[q][j]
    <3>1. PICK j \in 1..Len(chan[q]) : chan'[q][i] = chan[q][j]
        BY <2>1
    <3>2. chan[q][j] \in Vector
        BY PortState
    <3> QED BY <3>1, <3>2, <1>1 DEF BpdusAreSound
  <2>2. CASE Peer[q] \in S /\ chan'[q][i] = vec'[Peer[q]]
    <3>1. IsDesignated(vec', Peer[q]) /\ up'[Sw[Peer[q]]]
        BY <2>2, PortFacts DEF Exchange
    <3> QED BY <2>2, <3>1, <1>4, PortFacts
  <2> QED BY <2>1, <2>2, ExchangeOnLink
<1> QED BY <1>2, <1>5

LEMMA ExchangeKeepsLast ==
    ASSUME StpInv, StpInv', LastIsCurrent, NEW X, NEW S, Exchange(X, S)
    PROVE  LastIsCurrent'
<1> SUFFICES ASSUME NEW p \in Port, IsDesignated(vec', p), chan'[Peer[p]] # <<>>
             PROVE  chan'[Peer[p]][Len(chan'[Peer[p]])] = vec'[p]
    BY DEF LastIsCurrent, IsDesignated
<1>1. Peer[p] \in Port /\ Peer[Peer[p]] = p
    BY PortFacts
<1>2. CASE p \in S
    BY <1>1, <1>2, ExchangeOnLink
<1>3. CASE p \notin S
  <2>1. IsDesignated(vec, p) /\ vec'[p] = vec[p]
      BY <1>3 DEF Exchange
  <2>2. /\ chan[Peer[p]] # <<>>
        /\ chan'[Peer[p]][Len(chan'[Peer[p]])] = chan[Peer[p]][Len(chan[Peer[p]])]
      BY <1>1, <1>3, ExchangeOnLink
  <2> QED BY <2>1, <2>2 DEF LastIsCurrent
<1> QED BY <1>2, <1>3

-----------------------------------------------------------------------------
\* Two ends of a link that are both not designated heard the same.
BothHeardTheSame ==
    \A p \in Port : ~IsDesignated(vec, p) /\ ~IsDesignated(vec, Peer[p])
                        => vec[p] = vec[Peer[p]]

LEMMA HeardAlike == StpInv /\ PortsAreSound => BothHeardTheSame
<1> SUFFICES ASSUME StpInv, PortsAreSound, NEW p \in Port,
                    ~IsDesignated(vec, p), ~IsDesignated(vec, Peer[p])
             PROVE  vec[p] = vec[Peer[p]]
    BY DEF BothHeardTheSame
<1>1. /\ Peer[p] \in Port /\ Peer[Peer[p]] = p
      /\ vec[p] \in Vector /\ vec[Peer[p]] \in Vector
    BY PortFacts, PortState
<1>2. ~Better(vec[p], vec[Peer[p]]) /\ ~Better(vec[Peer[p]], vec[p])
    BY <1>1 DEF PortsAreSound, Sound
<1> QED BY <1>1, <1>2, BetterIsTotal

\* A port that takes the last BPDU on its link, leaves what it knows as it was and
\* answers nothing belongs to a switch that is down, or agrees with the other end.
LEMMA TakenUnanswered ==
    ASSUME StpInv, PortsAreSound, RootIsUp, LastIsCurrent, NEW p \in Port,
           chan[p] # <<>>, Head(chan[p]) = chan[p][Len(chan[p])],
           ~up[Sw[p]] \/ (~Better(Head(chan[p]), vec[p]) /\ ~IsDesignated(vec, p)),
           ~Stranger(p)
    PROVE  vec[p] = vec[Peer[p]]
<1> DEFINE q == Peer[p]
<1>1. /\ q \in Port /\ Peer[q] = p /\ vec[p] \in Vector /\ vec[q] \in Vector
      /\ Sw[p] \in Switch /\ Sw[q] \in Switch /\ Sw[q] # Sw[p]
    BY PortFacts, PortState
<1>2. CASE ~up[Sw[p]]
  <2>1. root[Sw[p]] = Sw[p]
      BY <1>1, <1>2 DEF StpInv, DownIsRoot
  <2>2. root[Sw[q]] # Sw[p]
      BY <1>1, <1>2 DEF RootIsUp
  <2> QED BY <2>1, <2>2 DEF Stranger
<1>3. CASE ~Better(Head(chan[p]), vec[p]) /\ ~IsDesignated(vec, p)
  <2>1. CASE IsDesignated(vec, q)
    <3>1. Head(chan[p]) = vec[q]
        BY <2>1, <1>1 DEF LastIsCurrent
    <3>2. ~Better(vec[p], vec[q])
        BY <1>3 DEF PortsAreSound, Sound
    <3> QED BY <3>1, <3>2, <1>1, <1>3, BetterIsTotal
  <2>2. CASE ~IsDesignated(vec, q)
      BY <2>2, <1>3, HeardAlike DEF BothHeardTheSame
  <2> QED BY <2>1, <2>2
<1> QED BY <1>2, <1>3

\* A step that changes only the channels keeps the links in agreement.
LEMMA ExchangeKeepsLinks ==
    ASSUME TreeInv, StpInv', NEW X, NEW S, Exchange(X, S), UNCHANGED <<root, vec>>,
           \A x \in X : \/ ~up[Sw[x]]
                        \/ /\ ~Better(Head(chan[x]), vec[x])
                           /\ x \in S \/ ~IsDesignated(vec, x)
    PROVE  LinksAgree'
<1>1. StpInv /\ PortsAreSound /\ LastIsCurrent /\ LinksAgree /\ RootIsUp
    BY RootsAreUp DEF TreeInv
<1> SUFFICES ASSUME NEW p \in Port, chan'[p] = <<>>, chan'[Peer[p]] = <<>>,
                    ~Stranger(p), ~Stranger(Peer[p])
             PROVE  vec[p] = vec[Peer[p]]
    BY DEF LinksAgree, Stranger
<1>2. Peer[p] \in Port /\ Peer[Peer[p]] = p
    BY PortFacts
<1>3. p \notin S /\ Peer[p] \notin S
    BY <1>1, <1>2, ExchangeOnLink
<1>4. ASSUME NEW x \in Port, x \in X, x \notin S, Peer[x] \notin S,
             chan'[x] = <<>>, ~Stranger(x)
      PROVE  vec[x] = vec[Peer[x]]
  <2>1. chan[x] # <<>> /\ Head(chan[x]) = chan[x][Len(chan[x])]
      BY <1>1, <1>4, ExchangeOnLink DEF Exchange
  <2> QED BY <2>1, <1>1, <1>4, TakenUnanswered
<1>5. CASE p \in X
    BY <1>3, <1>4, <1>5
<1>6. CASE Peer[p] \in X
  <2>1. vec[Peer[p]] = vec[Peer[Peer[p]]]
      BY <1>2, <1>3, <1>4, <1>6
  <2> QED BY <2>1, <1>2
<1>7. CASE p \notin X /\ Peer[p] \notin X
  <2>1. chan[p] = <<>> /\ chan[Peer[p]] = <<>>
      BY <1>1, <1>2, <1>3, <1>7, ExchangeOnLink
  <2> QED BY <2>1, <1>1 DEF LinksAgree
<1> QED BY <1>5, <1>6, <1>7

-----------------------------------------------------------------------------
\* Adopting a vector, as the links see it.
LEMMA AdoptIsExchange ==
    ASSUME StpInv, NEW p \in Port, NEW heard, NEW rp, NEW r, NEW c,
           AdoptsWith(p, heard, rp, r, c)
    PROVE  Exchange({p}, {q \in Ports(Sw[p]) : IsDesignated(vec', q)})
<1> DEFINE s == Sw[p]
           S == {q \in Ports(s) : IsDesignated(vec', q)}
<1>1. \A q \in S : q \in Port /\ Sw[q] = s /\ IsDesignated(vec', q)
    BY DEF Ports
<1>2. /\ up[s] /\ up' = up /\ chan[p] # <<>>
      /\ chan' = Send(Received(p), s, S, r, c, rp)
    BY DEF AdoptsWith
<1>3. r = s \/ rp # NoPort
    BY DEF AdoptsWith, RecomputedSoundly
<1>4. \A q \in Port :
          \/ Sw[q] # s /\ vec'[q] = vec[q]
          \/ /\ Sw[q] = s /\ vec'[q] = Local(q, r, c) /\ IsDesignated(vec', q)
          \/ /\ Sw[q] = s /\ vec'[q] = heard[q] /\ ~IsDesignated(vec', q)
    BY AdoptPorts
<1>5. heard[p] = Head(chan[p]) /\ \A q \in Port : q # p => heard[q] = vec[q]
    BY DEF AdoptsWith, RecomputedSoundly
<1>6. \A q \in Port : Taken({p})[q] = Received(p)[q]
    BY DEF StpInv, TypeOK, Taken, Received
<1>7. chan' = [q \in Port |->
                  IF Peer[q] \in S THEN Append(Taken({p})[q], vec'[Peer[q]])
                  ELSE Taken({p})[q]]
  <2>1. \A q \in Port : Peer[q] \in S => vec'[Peer[q]] = Local(Peer[q], r, c)
      BY <1>1, <1>4
  <2> HIDE DEF S
  <2> QED BY <2>1, <1>2, <1>3, <1>6 DEF Send
<1>8. ASSUME NEW q \in Port
      PROVE  IF IsDesignated(vec', q)
             THEN q \in S \/ (IsDesignated(vec, q) /\ vec'[q] = vec[q])
             ELSE \/ ~IsDesignated(vec, q) /\ vec'[q] = vec[q]
                  \/ q \in {p} /\ vec'[q] = Head(chan[q])
  <2>1. CASE Sw[q] # s
      BY <2>1, <1>4 DEF IsDesignated
  <2>2. CASE Sw[q] = s /\ IsDesignated(vec', q)
      BY <2>2 DEF Ports
  <2>3. CASE Sw[q] = s /\ ~IsDesignated(vec', q)
      BY <2>3, <1>4, <1>5 DEF IsDesignated
  <2> QED BY <2>1, <2>2, <2>3
<1> HIDE DEF S
<1> QED BY <1>1, <1>2, <1>7, <1>8 DEF Exchange, S

\* The root port is chosen among what was heard, and what was heard and not claimed
\* stays.
LEMMA AdoptKeepsBest ==
    ASSUME StpInv, RootPortIsBest, NEW p \in Port, NEW heard, NEW rp, NEW r, NEW c,
           AdoptsWith(p, heard, rp, r, c)
    PROVE  RootPortIsBest'
<1> DEFINE s == Sw[p]
<1>0. s \in Switch /\ TypeOK
    BY PortFacts DEF StpInv
<1>1. \A q \in Port :
          \/ Sw[q] # s /\ vec'[q] = vec[q]
          \/ Sw[q] = s /\ IsDesignated(vec', q)
          \/ Sw[q] = s /\ vec'[q] = heard[q] /\ ~IsDesignated(vec', q)
    BY AdoptPorts
<1>2. rootPort' = [rootPort EXCEPT ![s] = rp]
    BY DEF AdoptsWith
<1> SUFFICES ASSUME NEW t \in Switch, NEW q \in Candidates(t, vec')
             PROVE  rootPort'[t] # NoPort /\ ~RootPortBetter(vec', q, rootPort'[t])
    BY DEF RootPortIsBest, Candidates, IsDesignated, RootPortBetter, Ports
<1>3. q \in Port /\ Sw[q] = t /\ ~IsDesignated(vec', q) /\ vec'[q].root < t
    BY DEF Candidates, Ports
<1>4. CASE t # s
  <2>1. vec'[q] = vec[q] /\ q \in Candidates(t, vec)
      BY <1>1, <1>3, <1>4 DEF Candidates, Ports, IsDesignated
  <2>2. rootPort'[t] = rootPort[t] /\ rootPort[t] # NoPort
      BY <2>1, <1>0, <1>2, <1>4 DEF RootPortIsBest, TypeOK
  <2>3. rootPort[t] \in Port /\ Sw[rootPort[t]] = t
      BY <2>2 DEF StpInv, TypeOK, RootXorRootPort
  <2>4. vec'[rootPort[t]] = vec[rootPort[t]]
      BY <2>3, <1>1, <1>4
  <2> QED BY <2>1, <2>2, <2>4 DEF RootPortIsBest, RootPortBetter
<1>5. CASE t = s
  <2>1. vec'[q] = heard[q] /\ q \in Candidates(s, heard)
      BY <1>1, <1>3, <1>5 DEF Candidates, Ports, IsDesignated
  <2>2. rp # NoPort /\ ~RootPortBetter(heard, q, rp)
      BY <2>1 DEF AdoptsWith, RecomputedSoundly
  <2>3. rootPort'[t] = rp
      BY <1>0, <1>2, <1>5 DEF TypeOK
  <2>4. vec'[rp] = heard[rp]
    <3>1. StpInv'
        BY AdoptKeepsInv
    <3>2. rp \in Port /\ Sw[rp] = s
        BY <2>2 DEF AdoptsWith, RecomputedSoundly
    <3>3. ~IsDesignated(vec', rp)
        BY <3>1, <2>2, <2>3, <1>5 DEF StpInv, RootXorRootPort, IsDesignated
    <3> QED BY <3>2, <3>3, <1>1
  <2> QED BY <2>1, <2>2, <2>3, <2>4 DEF RootPortBetter
<1> QED BY <1>4, <1>5

\* A port of a root holds nothing it heard from a switch that believes in another
\* root, or else the switch would have followed it.
LEMMA RootsHoldTheirPorts ==
    ASSUME StpInv, PortsAreSound, RootPortIsBest, NEW p \in Port, root[Sw[p]] = Sw[p]
    PROVE  IsDesignated(vec, p)
<1> SUFFICES ASSUME ~IsDesignated(vec, p)
             PROVE  FALSE
    OBVIOUS
<1> DEFINE s == Sw[p]
           v == vec[p]
<1>1. s \in Switch /\ s \in Nat /\ Sw[Peer[p]] # s
    BY PortFacts
<1>2. rootPort[s] = NoPort /\ cost[s] = 0
    BY <1>1, RootState
<1>3. v.root \in Nat /\ v.cost \in Nat /\ v.sw \in Nat
    BY PortState, VectorFields
<1>4. ~(v.root < s)
    BY <1>2, <1>1 DEF RootPortIsBest, Candidates, Ports
<1>5. Better(v, Local(p, s, 0))
    BY <1>2, PortState
<1>6. v.sw # s /\ v.root <= v.sw
    BY <1>1, PortState DEF PortsAreSound, Sound
<1>7. Local(p, s, 0).root = s /\ Local(p, s, 0).cost = 0 /\ Local(p, s, 0).sw = s
    BY <1>1, LocalIsVector
<1> HIDE DEF s, v
<1> QED BY <1>1, <1>3, <1>4, <1>5, <1>6, <1>7 DEF Better

\* A switch that follows the root at the other end of a link, and holds something it
\* heard there, holds the root's own claim.
FollowersAgree ==
    \A p \in Port :
        ( /\ ~IsDesignated(vec, p) /\ IsDesignated(vec, Peer[p])
          /\ root[Sw[Peer[p]]] = Sw[Peer[p]] /\ root[Sw[p]] = Sw[Peer[p]] )
        => vec[p] = vec[Peer[p]]

LEMMA FollowersHoldTheClaim ==
    StpInv /\ PortsAreSound /\ RootPortIsBest => FollowersAgree
<1> SUFFICES ASSUME StpInv, PortsAreSound, RootPortIsBest, NEW p \in Port,
                    ~IsDesignated(vec, p), IsDesignated(vec, Peer[p]),
                    root[Sw[Peer[p]]] = Sw[Peer[p]], root[Sw[p]] = Sw[Peer[p]]
             PROVE  vec[p] = vec[Peer[p]]
    BY DEF FollowersAgree
<1> DEFINE s == Sw[p]
           q == Peer[p]
           t == Sw[q]
           v == vec[p]
           rp == rootPort[s]
<1>1. /\ s \in Switch /\ s \in Nat /\ t \in Switch /\ t \in Nat /\ t # s
      /\ q \in Port /\ root[s] = t /\ root[t] = t
    BY PortFacts
<1>2. v \in Vector /\ v.root \in Nat /\ v.cost \in Nat /\ v.sw = t
    BY PortState, VectorFields
<1>3. v.root <= t
  <2>1. Better(v, Local(p, t, cost[s])) /\ cost[s] \in Nat
      BY <1>1, PortState
  <2>2. Local(p, t, cost[s]).root = t
      BY <1>1, <2>1, LocalIsVector
  <2> HIDE DEF s, t, v
  <2> QED BY <1>1, <1>2, <2>1, <2>2 DEF Better
<1>4. rp \in Port /\ t < s /\ vec[rp].root = t
  <2>1. rp # NoPort /\ rp \in Port
      BY <1>1, RootState
  <2> QED BY <1>1, <2>1 DEF StpInv, RootXorRootPort
<1>5. v.root = t
  <2>1. p \in Candidates(s, vec)
      BY <1>1, <1>2, <1>3, <1>4 DEF Candidates, Ports
  <2>2. ~Better(v, vec[rp])
      BY <1>1, <2>1 DEF RootPortIsBest, RootPortBetter
  <2> HIDE DEF s, t, v, rp
  <2> QED BY <1>1, <1>2, <1>3, <1>4, <2>2 DEF Better
<1>6. v.cost = 0 /\ v.port = PortId[q]
    BY <1>2, <1>5 DEF PortsAreSound, Sound
<1>7. vec[q] = Local(q, t, 0) /\ vec[q] \in Vector
    BY <1>1, PortState, RootState
<1>8. /\ vec[q].root = t /\ vec[q].cost = 0 /\ vec[q].sw = t /\ vec[q].port = PortId[q]
    BY <1>1, <1>7, LocalIsVector
<1> QED BY <1>2, <1>5, <1>6, <1>7, <1>8, SameVector

LEMMA AdoptedEndAgrees ==
    ASSUME TreeInv, StpInv', PortsAreSound', RootPortIsBest',
           NEW x \in Port, NEW heard, NEW rp, NEW r, NEW c, AdoptsWith(x, heard, rp, r, c),
           NEW p \in Port, Sw[p] = Sw[x], chan'[p] = <<>>, chan'[Peer[p]] = <<>>,
           root'[Sw[Peer[p]]] = Sw[Peer[p]] => root'[Sw[p]] = Sw[Peer[p]]
    PROVE  vec'[p] = vec'[Peer[p]]
<1> DEFINE s == Sw[x]
           q == Peer[p]
           S == {y \in Ports(s) : IsDesignated(vec', y)}
<1>0. StpInv /\ PortsAreSound /\ RootPortIsBest /\ LastIsCurrent /\ LinksAgree
    BY DEF TreeInv
<1>1. /\ q \in Port /\ Peer[q] = p /\ Sw[q] # s /\ Sw[q] \in Switch /\ s \in Switch
    BY PortFacts
<1>2. Exchange({x}, S)
    BY <1>0, AdoptIsExchange
<1>3. /\ vec'[q] = vec[q] /\ root'[Sw[q]] = root[Sw[q]]
      /\ IsDesignated(vec', q) <=> IsDesignated(vec, q)
  <2>1. vec'[q] = vec[q]
      BY <1>0, <1>1, AdoptPorts
  <2>2. root' = [root EXCEPT ![s] = r]
      BY DEF AdoptsWith
  <2> QED BY <2>1, <2>2, <1>0, <1>1 DEF StpInv, TypeOK, IsDesignated
<1>4. p \notin S /\ q \notin S
  <2>1. q \notin S
      BY <1>1 DEF Ports
  <2>2. p \notin S
      BY <1>0, <1>1, <1>2, ExchangeOnLink
  <2> QED BY <2>1, <2>2
<1>5. ~IsDesignated(vec', p) /\ Sw[p] = s
    BY <1>4 DEF Ports
<1> HIDE DEF S
<1>6. CASE ~IsDesignated(vec, q)
  <2>1. StpInv' /\ PortsAreSound' => BothHeardTheSame'
      BY HeardAlike, PTL
  <2> QED BY <2>1, <1>3, <1>5, <1>6 DEF BothHeardTheSame, IsDesignated
<1>7. CASE IsDesignated(vec, q) /\ p = x
  <2>1. vec'[p] = Head(chan[p]) /\ chan[p] # <<>>
    <3>1. ~IsDesignated(vec', p) => vec'[p] = heard[p]
        BY <1>0, <1>5, AdoptPorts
    <3> QED BY <3>1, <1>5, <1>7 DEF AdoptsWith, RecomputedSoundly
  <2>2. Head(chan[p]) = chan[p][Len(chan[p])]
      BY <1>0, <1>2, <1>4, <1>7, ExchangeOnLink
  <2>3. chan[p][Len(chan[p])] = vec[q]
      BY <2>1, <1>0, <1>1, <1>7 DEF LastIsCurrent
  <2> QED BY <2>1, <2>2, <2>3, <1>3
<1>8. CASE IsDesignated(vec, q) /\ p # x
  <2>1. vec'[p] = vec[p] /\ ~IsDesignated(vec, p)
      BY <1>2, <1>5, <1>8 DEF Exchange
  <2>2. chan[p] = <<>> /\ chan[q] = <<>>
    <3>1. p \notin {x} /\ q \notin {x}
        BY <1>1, <1>8
    <3> QED BY <3>1, <1>0, <1>1, <1>2, <1>4, ExchangeOnLink
  <2>3. ~Stranger(p)
      BY <2>1, <1>0, RootsHoldTheirPorts DEF Stranger
  <2>4. CASE ~Stranger(q)
      BY <2>1, <2>2, <2>3, <2>4, <1>0, <1>3 DEF LinksAgree
  <2>5. CASE Stranger(q)
    \* the other end is the root that the switch has just come to follow
    <3>1. root'[Sw[q]] = Sw[q] /\ root'[Sw[p]] = Sw[q]
        BY <2>5, <1>3 DEF Stranger
    <3>2. StpInv' /\ PortsAreSound' /\ RootPortIsBest' => FollowersAgree'
        BY FollowersHoldTheClaim, PTL
    <3> QED BY <3>1, <3>2, <1>3, <1>5, <1>8 DEF FollowersAgree, IsDesignated
  <2> QED BY <2>4, <2>5
<1> QED BY <1>6, <1>7, <1>8

LEMMA AdoptKeepsLinks ==
    ASSUME TreeInv, StpInv', PortsAreSound', RootPortIsBest',
           NEW x \in Port, NEW heard, NEW rp, NEW r, NEW c, AdoptsWith(x, heard, rp, r, c)
    PROVE  LinksAgree'
<1> SUFFICES ASSUME NEW p \in Port, chan'[p] = <<>>, chan'[Peer[p]] = <<>>,
                    root'[Sw[Peer[p]]] = Sw[Peer[p]] => root'[Sw[p]] = Sw[Peer[p]],
                    root'[Sw[p]] = Sw[p] => root'[Sw[Peer[p]]] = Sw[p]
             PROVE  vec'[p] = vec'[Peer[p]]
    BY PortFacts DEF LinksAgree, Stranger
<1>1. /\ Peer[p] \in Port /\ Peer[Peer[p]] = p
      /\ Sw[p] \in Switch /\ Sw[Peer[p]] \in Switch
    BY PortFacts
<1>2. CASE Sw[p] = Sw[x]
    BY <1>2, AdoptedEndAgrees
<1>3. CASE Sw[Peer[p]] = Sw[x]
  <2>1. vec'[Peer[p]] = vec'[Peer[Peer[p]]]
      BY <1>1, <1>3, AdoptedEndAgrees
  <2> QED BY <2>1, <1>1
<1>4. CASE Sw[p] # Sw[x] /\ Sw[Peer[p]] # Sw[x]
  <2> DEFINE S == {y \in Ports(Sw[x]) : IsDesignated(vec', y)}
  <2>1. StpInv /\ LinksAgree /\ Exchange({x}, S)
      BY AdoptIsExchange DEF TreeInv
  <2>2. p \notin S /\ Peer[p] \notin S /\ p \notin {x} /\ Peer[p] \notin {x}
      BY <1>4 DEF Ports
  <2>3. chan[p] = <<>> /\ chan[Peer[p]] = <<>>
    <3> HIDE DEF S
    <3> QED BY <2>1, <2>2, <1>1, ExchangeOnLink
  <2>4. vec'[p] = vec[p] /\ vec'[Peer[p]] = vec[Peer[p]]
      BY <2>1, <1>1, <1>4, AdoptPorts
  <2>5. root'[Sw[p]] = root[Sw[p]] /\ root'[Sw[Peer[p]]] = root[Sw[Peer[p]]]
    <3>1. root' = [root EXCEPT ![Sw[x]] = r]
        BY DEF AdoptsWith
    <3> QED BY <3>1, <2>1, <1>1, <1>4 DEF StpInv, TypeOK
  <2> QED BY <2>1, <2>3, <2>4, <2>5, <1>1 DEF LinksAgree, Stranger
<1> QED BY <1>2, <1>3, <1>4

-----------------------------------------------------------------------------
LEMMA TreeInvInit == Init => TreeInv
<1> SUFFICES ASSUME Init
             PROVE  TreeInv
    OBVIOUS
<1>1. StpInv
    BY InvInit
<1>2. \A p \in Port : IsDesignated(vec, p)
  <2>1. ASSUME NEW p \in Port
        PROVE  vec[p] = Local(p, Sw[p], 0) /\ Sw[p] \in Switch
      BY PortFacts DEF Init
  <2> QED BY <2>1, LocalIsVector DEF IsDesignated
<1>3. \A p \in Port : chan[p] = <<>>
    BY DEF Init
<1>4. PortsAreSound /\ BpdusAreSound /\ LastIsCurrent
    BY <1>2, <1>3, PortFacts DEF PortsAreSound, BpdusAreSound, LastIsCurrent
<1>5. RootPortIsBest
    BY <1>2 DEF RootPortIsBest, Candidates, Ports
<1>6. LinksAgree
    BY PortFacts DEF Init, LinksAgree, Stranger
<1> QED BY <1>1, <1>4, <1>5, <1>6 DEF TreeInv

\* A step that changes only channels, and perhaps starts a switch.
LEMMA QuietExchange ==
    ASSUME TreeInv, StpInv', NEW X, NEW S, Exchange(X, S),
           UNCHANGED <<root, rootPort, vec>>,
           \A x \in X : \/ ~up[Sw[x]]
                        \/ /\ ~Better(Head(chan[x]), vec[x])
                           /\ x \in S \/ ~IsDesignated(vec, x)
    PROVE  TreeInv'
<1>1. PortsAreSound' /\ BpdusAreSound'
    BY ExchangeKeepsSound DEF TreeInv
<1>2. RootPortIsBest'
    BY DEF TreeInv, RootPortIsBest, Candidates, RootPortBetter, IsDesignated
<1>3. LastIsCurrent'
    BY ExchangeKeepsLast DEF TreeInv
<1>4. LinksAgree'
    BY ExchangeKeepsLinks
<1> QED BY <1>1, <1>2, <1>3, <1>4 DEF TreeInv

\* stp_port_send_config on ports that hold their switch's claim.
LEMMA SendIsExchange ==
    ASSUME StpInv, NEW s \in Switch, up[s], NEW X, \A q \in X : chan[q] # <<>>,
           NEW base, \A q \in Port : base[q] = Taken(X)[q],
           NEW S \in SUBSET Ports(s), \A q \in S : IsDesignated(vec, q),
           chan' = Send(base, s, S, root[s], cost[s], rootPort[s]),
           UNCHANGED <<up, vec>>
    PROVE  Exchange(X, S)
<1>1. \A q \in S : q \in Port /\ Sw[q] = s /\ vec[q] = Local(q, root[s], cost[s])
    BY PortState DEF Ports
<1>2. root[s] = s \/ rootPort[s] # NoPort
    BY RootState
<1>3. chan' = [q \in Port |->
                  IF Peer[q] \in S THEN Append(Taken(X)[q], vec'[Peer[q]]) ELSE Taken(X)[q]]
    BY <1>1, <1>2 DEF Send
<1> QED BY <1>1, <1>3 DEF Exchange, IsDesignated

LEMMA ActionKeepsTree ==
    ASSUME TreeInv, StpInv'
    PROVE  /\ \A s \in Switch : Start(s) \/ HelloTimeout(s) => TreeInv'
           /\ \A p \in Port : RefuseConfig(p) \/ Lose(p) => TreeInv'
<1>0. StpInv
    BY DEF TreeInv
<1>1. ASSUME NEW s \in Switch, Start(s)
      PROVE  TreeInv'
  <2>1. Exchange({}, {})
    <3>1. chan = [q \in Port |-> chan[q]]
        BY <1>0 DEF StpInv, TypeOK
    <3>2. \A t \in Switch : up[t] => up'[t]
        BY <1>0, <1>1 DEF StpInv, TypeOK, Start
    <3> QED BY <3>1, <3>2, <1>1 DEF Start, Exchange, Taken, IsDesignated
  <2> QED BY <2>1, <1>1, QuietExchange DEF Start
<1>2. ASSUME NEW s \in Switch, HelloTimeout(s)
      PROVE  TreeInv'
  <2> DEFINE S == {p \in Ports(s) : IsDesignated(vec, p)}
  <2>1. Exchange({}, S)
    <3>1. \A q \in Port : chan[q] = Taken({})[q]
        BY DEF Taken
    <3>2. /\ up[s] /\ chan' = Send(chan, s, S, root[s], cost[s], rootPort[s])
          /\ UNCHANGED <<up, vec>>
        BY <1>2 DEF HelloTimeout
    <3> QED BY <3>1, <3>2, <1>0, SendIsExchange
  <2> QED BY <2>1, <1>2, QuietExchange DEF HelloTimeout
<1>3. ASSUME NEW p \in Port, RefuseConfig(p)
      PROVE  TreeInv'
  <2> DEFINE S == {q \in {p} : IsDesignated(vec, q)}
  <2>1. Exchange({p}, S)
    <3>1. \A q \in Port : Received(p)[q] = Taken({p})[q]
        BY <1>0 DEF StpInv, TypeOK, Taken, Received
    <3>2. S \in SUBSET Ports(Sw[p]) /\ Sw[p] \in Switch
        BY PortFacts DEF Ports
    <3>3. /\ up[Sw[p]] /\ chan[p] # <<>> /\ UNCHANGED <<up, vec>>
          /\ chan' = Send(Received(p), Sw[p], S, root[Sw[p]], cost[Sw[p]], rootPort[Sw[p]])
        BY <1>3 DEF RefuseConfig
    <3> QED BY <3>1, <3>2, <3>3, <1>0, SendIsExchange
  <2>2. ~Better(Head(chan[p]), vec[p]) /\ UNCHANGED <<root, rootPort, vec>>
      BY <1>3 DEF RefuseConfig
  <2> QED BY <2>1, <2>2, QuietExchange
<1>4. ASSUME NEW p \in Port, Lose(p)
      PROVE  TreeInv'
  <2>1. Exchange({p}, {})
    <3>1. chan' = [q \in Port |-> Taken({p})[q]]
        BY <1>0, <1>4 DEF StpInv, TypeOK, Lose, Received, Taken
    <3> QED BY <3>1, <1>4 DEF Lose, Exchange, IsDesignated
  <2> QED BY <2>1, <1>4, QuietExchange DEF Lose
<1> QED BY <1>1, <1>2, <1>3, <1>4

LEMMA AdoptKeepsTree ==
    ASSUME TreeInv, StpInv', NEW p \in Port, AdoptConfig(p)
    PROVE  TreeInv'
<1>0. StpInv
    BY DEF TreeInv
<1>1. PICK heard, rp, r, c : AdoptsWith(p, heard, rp, r, c)
    BY <1>0, AdoptUnfolds
<1> DEFINE S == {q \in Ports(Sw[p]) : IsDesignated(vec', q)}
<1>2. Exchange({p}, S)
    BY <1>0, <1>1, AdoptIsExchange
<1> HIDE DEF S
<1>3. \A q \in Port : vec'[q] = vec[q] \/ Better(vec'[q], vec[q])
    BY <1>0, <1>1, AdoptImproves
<1>4. PortsAreSound' /\ BpdusAreSound' /\ LastIsCurrent'
    BY <1>2, <1>3, ExchangeKeepsSound, ExchangeKeepsLast DEF TreeInv
<1>5. RootPortIsBest'
    BY <1>1, AdoptKeepsBest DEF TreeInv
<1>6. LinksAgree'
    BY <1>1, <1>4, <1>5, AdoptKeepsLinks
<1> QED BY <1>4, <1>5, <1>6 DEF TreeInv

LEMMA TreeInvNext == TreeInv /\ [Next]_vars => TreeInv'
<1> SUFFICES ASSUME TreeInv, [Next]_vars
             PROVE  TreeInv'
    OBVIOUS
<1>1. StpInv'
    BY InvNext DEF TreeInv
<1>2. CASE UNCHANGED vars
    BY <1>1, <1>2
    DEF vars, TreeInv, PortsAreSound, BpdusAreSound, RootPortIsBest, LastIsCurrent,
        LinksAgree, Stranger, Sound, IsDesignated, Candidates, RootPortBetter
<1> QED BY <1>1, <1>2, ActionKeepsTree, AdoptKeepsTree DEF Next, HandleConfig

\* The invariant of the links holds in every reachable state.
THEOREM TreeInvariant == Spec => []TreeInv
    BY TreeInvInit, TreeInvNext, PTL DEF Spec

-----------------------------------------------------------------------------
\* Every switch runs, nothing is in flight and s is the only one to send hellos.
Quiet(s) ==
    /\ s \in Switch
    /\ \A t \in Switch : up[t] /\ (hello[t] <=> t = s)
    /\ \A p \in Port : chan[p] = <<>>

\* The only switch that sends hellos is the one of lowest id.
LEMMA LowestSendsHellos ==
    ASSUME StpInv, NEW s \in Switch, Quiet(s)
    PROVE  /\ s = LowestId
           /\ \A t \in Switch : s <= t /\ (root[t] = t <=> t = s)
<1>1. \A t \in Switch : root[t] = t <=> t = s
    BY DEF StpInv, HelloIffRoot, Quiet
<1>2. PICK m \in Switch : \A t \in Switch : m <= t
    BY LeastNumber, TopologyAssumption
<1>3. root[m] = m
  <2>1. root[m] \in Switch /\ root[m] <= m /\ root[m] \in Nat /\ m \in Nat
      BY RootState
  <2> QED BY <2>1, <1>2
<1>4. m = s
    BY <1>1, <1>3
<1>5. LowestId \in Switch /\ \A t \in Switch : LowestId <= t
    BY <1>2 DEF LowestId
<1>6. LowestId = s
  <2>1. LowestId <= s /\ s <= LowestId
      BY <1>2, <1>4, <1>5
  <2>2. LowestId \in Nat /\ s \in Nat
      BY <1>5, TopologyAssumption
  <2> QED BY <2>1, <2>2
<1> QED BY <1>1, <1>2, <1>4, <1>6

\* A port that holds what the other end holds: exactly one of them claims it.
LEMMA AgreedLink ==
    ASSUME StpInv, PortsAreSound, NEW p \in Port, vec[p] = vec[Peer[p]]
    PROVE  IsDesignated(vec, p) <=> ~IsDesignated(vec, Peer[p])
<1>1. Peer[p] \in Port /\ Sw[Peer[p]] # Sw[p]
    BY PortFacts
<1>2. ~IsDesignated(vec, p) => vec[p].sw = Sw[Peer[p]] /\ vec[p].port = PortId[Peer[p]]
    BY PortState DEF PortsAreSound, Sound
<1> QED BY <1>1, <1>2 DEF IsDesignated

\* Then every switch believes in that root: a switch of least cost that believed in
\* another would have heard of it from a switch that costs less.
LEMMA AllFollowTheLowest ==
    ASSUME TreeInv, NEW s \in Switch, Quiet(s)
    PROVE  \A t \in Switch : root[t] = s
<1> DEFINE B == {t \in Switch : root[t] # s}
           C == {cost[t] : t \in B}
<1>0. StpInv /\ PortsAreSound /\ LinksAgree
    BY DEF TreeInv
<1>1. \A t \in Switch : s <= t /\ (root[t] = t <=> t = s)
    BY <1>0, LowestSendsHellos
<1> SUFFICES ASSUME B # {}
             PROVE  FALSE
    OBVIOUS
<1>2. PICK t \in B : \A x \in B : cost[t] <= cost[x]
  <2>1. C \subseteq Nat /\ C # {}
      BY <1>0, RootState
  <2>2. PICK n \in C : \A m \in C : n <= m
      BY <2>1, LeastNumber
  <2> QED BY <2>2
<1>3. t \in Switch /\ root[t] # s /\ t # s
    BY <1>1
<1> DEFINE p == rootPort[t]
           q == Peer[p]
           u == Sw[q]
<1>4. /\ p \in Port /\ Sw[p] = t /\ root[t] < t /\ vec[p].root = root[t]
      /\ vec[p].cost + PathCost = cost[t] /\ ~IsDesignated(vec, p)
  <2>1. p # NoPort /\ p \in Port
      BY <1>0, <1>1, <1>3, RootState
  <2> QED BY <2>1, <1>0, <1>3 DEF StpInv, RootXorRootPort
<1>5. q \in Port /\ Peer[q] = p /\ u \in Switch /\ vec[p].sw = u
    BY <1>0, <1>4, PortFacts, PortState
<1>6. u # s
  <2>1. vec[p].root <= vec[p].sw
      BY <1>4 DEF TreeInv, PortsAreSound, Sound
  <2>2. root[t] \in Nat /\ s \in Nat /\ root[t] \in Switch
      BY <1>0, <1>3, RootState
  <2> QED BY <2>1, <2>2, <1>1, <1>3, <1>4, <1>5
<1>7. vec[p] = vec[q]
  <2>1. ~Stranger(p) /\ ~Stranger(q)
      BY <1>1, <1>3, <1>4, <1>5, <1>6 DEF Stranger
  <2> QED BY <2>1, <1>0, <1>4, <1>5 DEF LinksAgree, Quiet
<1>8. vec[q] = Local(q, root[u], cost[u]) /\ root[u] \in Switch /\ cost[u] \in Nat
    BY <1>0, <1>4, <1>5, <1>7, AgreedLink, PortState
<1>9. root[u] = root[t] /\ cost[u] + PathCost = cost[t]
    BY <1>4, <1>5, <1>7, <1>8, LocalIsVector
<1>10. u \in B /\ cost[u] < cost[t]
  <2>1. PathCost \in Nat /\ PathCost > 0
      BY TopologyAssumption
  <2> QED BY <2>1, <1>3, <1>5, <1>8, <1>9
<1>11. cost[t] <= cost[u] /\ cost[t] \in Nat
    BY <1>0, <1>2, <1>3, <1>10, RootState
<1> QED BY <1>8, <1>10, <1>11

\* ... and the ends of every link hold the same.
LEMMA AllLinksAgree ==
    ASSUME TreeInv, NEW s \in Switch, Quiet(s), NEW p \in Port
    PROVE  vec[p] = vec[Peer[p]]
<1>1. Sw[p] \in Switch /\ Sw[Peer[p]] \in Switch /\ Peer[p] \in Port /\ Peer[Peer[p]] = p
    BY PortFacts
<1>2. root[Sw[p]] = s /\ root[Sw[Peer[p]]] = s
    BY <1>1, AllFollowTheLowest
<1>3. ~Stranger(p) /\ ~Stranger(Peer[p])
    BY <1>1, <1>2 DEF Stranger
<1> QED BY <1>1, <1>3 DEF TreeInv, LinksAgree, Quiet

\* What one port then knows: the claim of its own switch, or the other end's, which
\* is better.
LEMMA QuietPort ==
    ASSUME TreeInv, NEW s \in Switch, Quiet(s), NEW p \in Port
    PROVE  /\ cost[Sw[p]] \in Nat /\ cost[Sw[Peer[p]]] \in Nat
           /\ IsDesignated(vec, p) <=> ~IsDesignated(vec, Peer[p])
           /\ IsDesignated(vec, p) =>
                 Better(Local(p, s, cost[Sw[p]]), Local(Peer[p], s, cost[Sw[Peer[p]]]))
           /\ ~IsDesignated(vec, p) =>
                 /\ vec[p] = Local(Peer[p], s, cost[Sw[Peer[p]]])
                 /\ Better(Local(Peer[p], s, cost[Sw[Peer[p]]]), Local(p, s, cost[Sw[p]]))
<1>0. StpInv /\ PortsAreSound
    BY DEF TreeInv
<1>1. ASSUME NEW x \in Port
      PROVE  /\ Peer[x] \in Port /\ Peer[Peer[x]] = x /\ vec[x] = vec[Peer[x]]
             /\ root[Sw[x]] = s /\ cost[Sw[x]] \in Nat
             /\ IsDesignated(vec, x) <=> ~IsDesignated(vec, Peer[x])
    BY <1>0, PortFacts, PortState, AllFollowTheLowest, AllLinksAgree, AgreedLink
<1>2. ASSUME NEW x \in Port, ~IsDesignated(vec, x)
      PROVE  /\ vec[x] = Local(Peer[x], s, cost[Sw[Peer[x]]])
             /\ Better(Local(Peer[x], s, cost[Sw[Peer[x]]]), Local(x, s, cost[Sw[x]]))
  <2>1. vec[x] = Local(Peer[x], s, cost[Sw[Peer[x]]])
      BY <1>0, <1>1, <1>2, PortState
  <2>2. Better(vec[x], Local(x, s, cost[Sw[x]]))
      BY <1>0, <1>1, <1>2, PortState
  <2> QED BY <2>1, <2>2
<1>3. CASE IsDesignated(vec, p)
  <2>1. Better(Local(Peer[Peer[p]], s, cost[Sw[Peer[Peer[p]]]]),
               Local(Peer[p], s, cost[Sw[Peer[p]]]))
      BY <1>1, <1>2, <1>3
  <2> QED BY <2>1, <1>1, <1>3
<1>4. CASE ~IsDesignated(vec, p)
    BY <1>1, <1>2, <1>4
<1> QED BY <1>3, <1>4

\* Two claims of one root are compared by cost first.
LEMMA BetterCost ==
    ASSUME NEW p \in Port, NEW q \in Port, NEW s \in Switch, NEW c \in Nat, NEW d \in Nat
    PROVE  /\ Better(Local(p, s, c), Local(q, s, d)) => c <= d
           /\ c < d => Better(Local(p, s, c), Local(q, s, d))
    BY TopologyAssumption DEF Local, Better

\* The costs are the true ones: a nearest switch with too high a cost would have a
\* neighbour with a true one, and follow it.
LEMMA CostsAreTrue ==
    ASSUME TreeInv, NEW s \in Switch, Quiet(s)
    PROVE  \A t \in Switch : cost[t] = Dist[t][s]
<1> DEFINE B == {t \in Switch : cost[t] # Dist[t][s]}
           C == {Dist[t][s] : t \in B}
<1>0. StpInv /\ \A t \in Switch : root[t] = s
    BY AllFollowTheLowest DEF TreeInv
<1>1. \A t \in Switch : /\ Dist[t][s] \in Nat /\ cost[t] \in Nat
                        /\ cost[t] >= Dist[t][s] /\ t \in Nat
    BY <1>0, DistIsNat, RootState DEF StpInv, NoBetterThanTruth
<1> SUFFICES ASSUME B # {}
             PROVE  FALSE
    OBVIOUS
<1>2. PICK t \in B : \A x \in B : Dist[t][s] <= Dist[x][s]
  <2>1. C \subseteq Nat /\ C # {}
      BY <1>1
  <2>2. PICK n \in C : \A m \in C : n <= m
      BY <2>1, LeastNumber
  <2> QED BY <2>2
<1>3. t \in Switch /\ cost[t] > Dist[t][s]
    BY <1>1
<1>4. t # s
    BY <1>0, <1>1, <1>3, RootState
<1>5. PICK p \in Port : Sw[p] = t /\ Dist[t][s] = Dist[Sw[Peer[p]]][s] + PathCost
    BY <1>3, <1>4, PathAssumption DEF DistIsAttained
<1> DEFINE q == Peer[p]
           u == Sw[q]
<1>6. q \in Port /\ u \in Switch /\ PathCost \in Nat /\ PathCost > 0
    BY PortFacts, TopologyAssumption
<1>7. cost[u] = Dist[u][s]
  <2>1. Dist[u][s] < Dist[t][s]
      BY <1>1, <1>3, <1>5, <1>6
  <2>2. u \notin B
      BY <2>1, <1>1, <1>2, <1>3, <1>6
  <2> QED BY <2>2, <1>6
<1>8. cost[u] + PathCost < cost[t]
    BY <1>1, <1>3, <1>5, <1>6, <1>7
<1>9. CASE IsDesignated(vec, p)
  <2>1. cost[t] <= cost[u]
      BY <1>1, <1>3, <1>5, <1>6, <1>9, QuietPort, BetterCost
  <2> QED BY <2>1, <1>1, <1>3, <1>6, <1>8
<1>10. CASE ~IsDesignated(vec, p)
  <2> DEFINE rp == rootPort[t]
  <2>1. vec[p].root = s /\ vec[p].cost = cost[u]
      BY <1>1, <1>5, <1>6, <1>10, QuietPort, LocalIsVector
  <2>2. s < t
      BY <1>0, <1>1, <1>3, <1>4, RootState
  <2>3. p \in Candidates(t, vec)
      BY <2>1, <2>2, <1>5, <1>10 DEF Candidates, Ports
  <2>4. /\ rp # NoPort /\ ~Better(vec[p], vec[rp])
      BY <2>3, <1>3 DEF TreeInv, RootPortIsBest, RootPortBetter
  <2>5. /\ vec[rp].root = s /\ vec[rp].cost + PathCost = cost[t] /\ rp \in Port
      BY <2>4, <1>0, <1>3, RootState DEF StpInv, RootXorRootPort
  <2>6. vec[rp].cost \in Nat
      BY <2>5, <1>0, PortState, VectorFields
  <2>7. vec[rp].cost <= cost[u]
      BY <2>1, <2>4, <2>5, <2>6, <1>1, <1>6 DEF Better
  <2> QED BY <2>5, <2>6, <2>7, <1>1, <1>3, <1>6, <1>8
<1> QED BY <1>9, <1>10

LEMMA QuietIsTree ==
    ASSUME TreeInv, NEW s \in Switch, Quiet(s)
    PROVE  IsTree
<1>0. StpInv
    BY DEF TreeInv
<1>1. s = LowestId /\ \A t \in Switch : s <= t /\ (root[t] = t <=> t = s)
    BY <1>0, LowestSendsHellos
<1>2. \A t \in Switch : root[t] = s /\ cost[t] = Dist[t][s] /\ Dist[t][s] \in Nat /\ t \in Nat
    BY AllFollowTheLowest, CostsAreTrue, DistIsNat, TopologyAssumption
<1>3. \A p \in Port : Truth(p) = Local(p, s, cost[Sw[p]]) /\ Truth(p) \in Vector
    BY <1>1, <1>2, PortFacts, LocalIsVector DEF Truth
<1>4. ASSUME NEW p \in Port
      PROVE  /\ Peer[p] \in Port
             /\ IsDesignated(vec, p) <=> Better(Truth(p), Truth(Peer[p]))
             /\ ~IsDesignated(vec, p) => vec[p] = Truth(Peer[p])
  <2>1. Peer[p] \in Port /\ Truth(p) \in Vector /\ Truth(Peer[p]) \in Vector
      BY <1>3, PortFacts
  <2>2. IF IsDesignated(vec, p)
        THEN Better(Truth(p), Truth(Peer[p]))
        ELSE vec[p] = Truth(Peer[p]) /\ Better(Truth(Peer[p]), Truth(p))
      BY <2>1, <1>3, QuietPort
  <2> QED BY <2>1, <2>2, BetterIsStrict
<1>5. ASSUME NEW t \in Switch, t # s
      PROVE  /\ rootPort[t] # NoPort
             /\ \A p \in Ports(t) \ {rootPort[t]} :
                   Better(Truth(Peer[rootPort[t]]), Truth(Peer[p]))
  <2> DEFINE rp == rootPort[t]
  <2>1. /\ rp # NoPort /\ rp \in Port /\ Sw[rp] = t /\ ~IsDesignated(vec, rp)
        /\ vec[rp].cost + PathCost = cost[t]
    <3>1. rp # NoPort /\ rp \in Port
        BY <1>0, <1>1, <1>5, RootState
    <3> QED BY <3>1, <1>0, <1>5 DEF StpInv, RootXorRootPort
  <2>2. vec[rp] = Truth(Peer[rp]) /\ Peer[rp] \in Port
      BY <2>1, <1>4
  <2>3. ASSUME NEW p \in Ports(t), p # rp
        PROVE  Better(Truth(Peer[rp]), Truth(Peer[p]))
    <3>1. p \in Port /\ Sw[p] = t /\ Peer[p] \in Port
        BY PortFacts DEF Ports
    <3>2. CASE ~IsDesignated(vec, p)
      <4>1. vec[p] = Truth(Peer[p])
          BY <3>1, <3>2, <1>4
      <4>2. vec[p].root = s /\ s < t
        <5>1. s \in Nat /\ t \in Nat /\ s <= t
            BY <1>1, <1>2
        <5>2. cost[Sw[Peer[p]]] \in Nat
            BY <3>1, <1>0, PortState
        <5> QED BY <5>1, <5>2, <4>1, <3>1, <1>3, <1>5, LocalIsVector
      <4>3. p \in Candidates(t, vec)
          BY <4>2, <3>1, <3>2 DEF Candidates, Ports
      <4>4. ~Better(vec[p], vec[rp])
          BY <4>3 DEF TreeInv, RootPortIsBest, RootPortBetter
      <4>5. vec[p] # vec[rp]
        <5>1. Peer[p] # Peer[rp]
            BY <2>1, <2>3, <3>1, PortFacts
        <5>2. Sw[Peer[p]] # Sw[Peer[rp]] \/ PortId[Peer[p]] # PortId[Peer[rp]]
            BY <5>1, <2>2, <3>1, TopologyAssumption
        <5>3. /\ vec[p].sw = Sw[Peer[p]] /\ vec[p].port = PortId[Peer[p]]
              /\ vec[rp].sw = Sw[Peer[rp]] /\ vec[rp].port = PortId[Peer[rp]]
            BY <2>1, <3>1, <3>2, <1>0, PortState DEF TreeInv, PortsAreSound, Sound
        <5> QED BY <5>2, <5>3
      <4> QED BY <4>1, <4>4, <4>5, <2>1, <2>2, <3>1, <1>0, PortState, BetterIsTotal
    <3>3. CASE IsDesignated(vec, p)
      <4>1. /\ cost[Sw[Peer[p]]] \in Nat /\ cost[Sw[Peer[rp]]] \in Nat /\ cost[t] \in Nat
            /\ PathCost \in Nat /\ PathCost > 0
          BY <2>1, <2>2, <3>1, <1>0, PortFacts, RootState, TopologyAssumption
      <4>2. cost[t] <= cost[Sw[Peer[p]]]
          BY <3>1, <3>3, <4>1, QuietPort, BetterCost
      <4>3. cost[Sw[Peer[rp]]] + PathCost = cost[t]
          BY <2>1, <2>2, <4>1, <1>3, LocalIsVector
      <4>4. cost[Sw[Peer[rp]]] < cost[Sw[Peer[p]]]
          BY <4>1, <4>2, <4>3
      <4> QED BY <4>1, <4>4, <2>2, <3>1, <1>3, BetterCost
    <3> QED BY <3>2, <3>3
  <2> QED BY <2>1, <2>3
<1> QED BY <1>1, <1>2, <1>4, <1>5 DEF IsTree

\* A connected topology with finitely many ports has finitely many switches.
LEMMA SwitchIsFinite == IsFiniteSet(Switch)
<1>1. CASE \E s \in Switch : \A p \in Port : Sw[p] # s
  <2>1. PICK s \in Switch : \A p \in Port : Sw[p] # s
      BY <1>1
  <2>2. Switch = {s}
      BY <2>1, PathAssumption DEF DistIsAttained
  <2> QED BY <2>2, FS_Singleton
<1>2. CASE \A s \in Switch : \E p \in Port : Sw[p] = s
  <2>1. Sw \in Surjection(Port, Switch) /\ IsFiniteSet(Port)
      BY <1>2, TopologyAssumption DEF Surjection
  <2> QED BY <2>1, FS_Surjection
<1> QED BY <1>1, <1>2

\* Whatever the connected topology and the order in which switches start and BPDUs
\* cross, once one switch still sends hellos and nothing is in flight the switches
\* have built its spanning tree: the lowest id is root, costs are the least ones, a
\* link has one designated end and root ports face the nearest of the neighbours.
THEOREM QuietNetworksAreTrees == Spec => []QuietMeansTree
<1>1. TreeInv => QuietMeansTree
  <2> SUFFICES ASSUME TreeInv, \A s \in Switch : up[s], \A p \in Port : chan[p] = <<>>,
                      Cardinality({s \in Switch : hello[s]}) = 1
               PROVE  IsTree
      BY DEF QuietMeansTree
  <2> DEFINE H == {s \in Switch : hello[s]}
  <2>1. IsFiniteSet(H)
      BY SwitchIsFinite, FS_Subset
  <2>2. PICK s : H = {s}
      BY <2>1, FS_Singleton
  <2>3. s \in Switch /\ \A t \in Switch : hello[t] <=> t = s
    <3>1. s \in H
        BY <2>2
    <3>2. \A t \in H : t = s
        BY <2>2
    <3> QED BY <3>1, <3>2
  <2>4. Quiet(s)
      BY <2>3 DEF Quiet
  <2> QED BY <2>3, <2>4, QuietIsTree
<1> QED BY <1>1, TreeInvariant, PTL
=============================================================================
