---------------------------- MODULE MospfProofs -----------------------------
(***************************************************************************)
(* Theorems about the mOSPF daemon for every network of point-to-point     *)
(* links, all timers, any number of failures at any time and every space   *)
(* of sequence numbers: types, what numbers and tables say, and when the   *)
(* neighbours are settled.                                                 *)
(*                                                                         *)
(* With timers in the order the code has them, numbers that do not wrap    *)
(* around and no more routers than an LSU's TTL lets it pass: entries are  *)
(* lost only after a failure, and the network converges in a time that is  *)
(* given.  The steps are first put in six kinds (StepKinds), and each part *)
(* of the invariant is kept by each kind.                                  *)
(***************************************************************************)
EXTENDS Mospf, ListsProofs

\* The routers at the other ends of the links of r.
Peers(r) == {n \in Router : {r, n} \in Link}

\* A packet on the wire: an LSU names neighbours over links that are there.
Packet == {m \in LsuPacket : m.adv \subseteq Peers(m.rid)} \cup {Hello}
Packets == [Wire -> Seq(Packet)]
SeqNumber == 0..(SeqSpace - 1)

EnvTypes ==
    /\ up \subseteq Router /\ cut \subseteq Link
    /\ failures \in 0..MaxFailures /\ calm \in 0..Settle

TimerTypes ==
    /\ helloint \in [Router -> 0..HELLOINT]
    /\ lsuint \in [Router -> 0..LSUINT]

\* The state of a router is there for each router, and nothing else is.
Shapes ==
    /\ DOMAIN nbr = Router /\ DOMAIN db = Router /\ DOMAIN routes = Router

\* What a list of neighbours and a database of router r hold.
NeighboursOf(r, t) ==
    /\ DOMAIN t \subseteq Peers(r)
    /\ \A n \in DOMAIN t : t[n] \in -1..(3 * HELLOINT)

DatabaseOf(r, d) ==
    /\ DOMAIN d \subseteq Router \ {r}
    /\ \A o \in DOMAIN d : d[o] \in Entry /\ d[o].adv \subseteq Peers(o)

Tables == \A r \in Router : NeighboursOf(r, nbr[r]) /\ DatabaseOf(r, db[r])

\* A router that is down knows nothing, and nothing is on its way to it.
DownIsEmpty ==
    /\ \A r \in Router \ up : nbr[r] = Nothing /\ db[r] = Nothing
    /\ \A w \in Wire : chan[w] # <<>> => w[2] \in up

\* The routing table is that of the present database; only the neighbours may have
\* changed since it was computed.
RoutesFollowDatabase ==
    \A r \in Router : routes[r].known = DOMAIN db[r] /\ routes[r].links = Links(db[r])

\* No routing table was computed from a link that does not exist.
OnlyRealLinks ==
    \A r \in Router : routes[r].known \subseteq Router \ {r} /\ routes[r].links \subseteq Link

MospfInv ==
    /\ EnvTypes /\ TimerTypes /\ seq \in [Router -> SeqNumber] /\ chan \in Packets
    /\ Shapes /\ Tables /\ DownIsEmpty /\ RoutesFollowDatabase

-----------------------------------------------------------------------------
\* Operators.

LEMMA Remainder ==
    ASSUME NEW a \in Int, NEW b \in Nat \ {0}
    PROVE  a % b \in 0..(b - 1)
    OBVIOUS

LEMMA Constants ==
    /\ HELLOINT \in Nat \ {0} /\ LSUINT \in Nat \ {0} /\ DBTIMEOUT \in Nat \ {0}
    /\ SeqSpace \in Nat \ {0} /\ MaxFailures \in Nat /\ Settle \in Nat
    BY MospfAssumption

LEMMA NewTtl == DEFAULT_TTL \in Nat /\ DEFAULT_TTL \in 1..DEFAULT_TTL
<1>1. DEFAULT_TTL \in Nat \ {0}
    BY MospfAssumption
<1> QED BY <1>1

LEMMA BumpTyped ==
    ASSUME seq \in [Router -> SeqNumber], NEW r \in Router
    PROVE  Bump(r) \in [Router -> SeqNumber] /\ Bump(r)[r] \in SeqNumber
<1>1. (seq[r] + 1) % SeqSpace \in SeqNumber
    BY Constants, Remainder DEF SeqNumber
<1>2. Bump(r) = [seq EXCEPT ![r] = (seq[r] + 1) % SeqSpace]
    BY DEF Bump
<1> QED BY <1>1, <1>2

LEMMA WireEnds == \A w \in Wire : w[1] \in Router /\ w[2] \in Router
    BY DEF Wire

LEMMA PutTyped ==
    ASSUME NEW ch \in Packets, NEW W, NEW m \in Packet
    PROVE  /\ Put(ch, W, m) \in Packets
           /\ \A w \in Wire : Put(ch, W, m)[w] # <<>> => ch[w] # <<>> \/ w[2] \in up
<1>1. \A w \in Wire : ch[w] \in Seq(Packet) /\ Append(ch[w], m) \in Seq(Packet)
    BY DEF Packets
<1>2. Put(ch, W, m) \in Packets
    BY <1>1 DEF Put, Packets
<1>3. \A w \in Wire : Put(ch, W, m)[w] # <<>> => ch[w] # <<>> \/ w[2] \in up
    BY DEF Put, Alive
<1> QED BY <1>2, <1>3

LEMMA SendLsuTyped ==
    ASSUME NEW ch \in Packets, NEW r \in Router, NEW s \in SeqNumber, NEW N \in SUBSET Peers(r)
    PROVE  /\ SendLsu(ch, r, s, N) \in Packets
           /\ \A w \in Wire : SendLsu(ch, r, s, N)[w] # <<>> => ch[w] # <<>> \/ w[2] \in up
<1>1. Lsu(r, s, N) \in LsuPacket /\ Lsu(r, s, N).adv = N /\ Lsu(r, s, N).rid = r
    BY NewTtl DEF Lsu, LsuPacket, SeqNumber, Peers
<1>2. Lsu(r, s, N) \in Packet
    BY <1>1 DEF Packet
<1> QED BY <1>2, PutTyped DEF SendLsu

LEMMA TakenTyped ==
    ASSUME chan \in Packets, NEW w \in Wire, chan[w] # <<>>
    PROVE  /\ Head(chan[w]) \in Packet
           /\ Taken(w) \in Packets
           /\ \A v \in Wire : Taken(w)[v] # <<>> => chan[v] # <<>>
<1>1. chan[w] \in Seq(Packet)
    BY DEF Packets
<1>2. Head(chan[w]) \in Packet /\ Tail(chan[w]) \in Seq(Packet)
    BY <1>1
<1>3. Taken(w) = [chan EXCEPT ![w] = Tail(chan[w])]
    BY DEF Taken
<1> QED BY <1>2, <1>3 DEF Packets

\* What a packet that is not a hello is.
LEMMA LsuIsTyped ==
    ASSUME NEW m \in Packet, ~IsHello(m)
    PROVE  /\ m.rid \in Router /\ m.seq \in SeqNumber /\ m.adv \in SUBSET Router
           /\ m.adv \subseteq Peers(m.rid) /\ m.ttl \in 1..DEFAULT_TTL
    BY DEF Packet, LsuPacket, IsHello, SeqNumber

\* Packet x is what becomes of m when it is sent on, which it is when its TTL allows.
SentOn(m, x) == m.ttl > 1 /\ x = Onward(m)

\* It says the same.
LEMMA SentOnSays ==
    ASSUME NEW m \in Packet, ~IsHello(m), m.ttl > 1
    PROVE  /\ Onward(m) \in Packet /\ ~IsHello(Onward(m)) /\ Onward(m).rid = m.rid
           /\ Onward(m).seq = m.seq /\ Onward(m).adv = m.adv /\ Onward(m).ttl = m.ttl - 1
<1>1. m \in LsuPacket /\ m.adv \subseteq Peers(m.rid)
    BY DEF Packet, IsHello
<1>2. m.ttl - 1 \in 1..DEFAULT_TTL
    BY <1>1, NewTtl DEF LsuPacket
<1>3. Onward(m) = [m EXCEPT !.ttl = m.ttl - 1]
    BY DEF Onward
<1>4. /\ Onward(m) \in LsuPacket /\ Onward(m).type = "lsu" /\ Onward(m).rid = m.rid
      /\ Onward(m).seq = m.seq /\ Onward(m).adv = m.adv /\ Onward(m).ttl = m.ttl - 1
    BY <1>1, <1>2, <1>3 DEF LsuPacket
<1>5. ~IsHello(Onward(m))
    BY <1>4 DEF IsHello, Hello
<1> QED BY <1>1, <1>4, <1>5 DEF Packet

LEMMA WirePeers == \A w \in Wire : w[1] \in Peers(w[2]) /\ w[2] \in Peers(w[1])
<1> SUFFICES ASSUME NEW w \in Wire PROVE w[1] \in Peers(w[2]) /\ w[2] \in Peers(w[1])
    OBVIOUS
<1>1. {w[2], w[1]} = {w[1], w[2]}
    OBVIOUS
<1> QED BY <1>1, WireEnds DEF Wire, Peers

\* The invariant is the type invariant and more.
LEMMA InvIsTyped == MospfInv => TypeOK
<1> SUFFICES ASSUME MospfInv PROVE TypeOK
    OBVIOUS
<1>1. EnvTypes /\ TimerTypes /\ seq \in [Router -> SeqNumber] /\ chan \in Packets /\ Tables
    BY DEF MospfInv
<1>2. chan \in [Wire -> Seq(LsuPacket \cup {Hello})]
    <2>1. \A q \in Seq(Packet) : q \in Seq(LsuPacket \cup {Hello})
        BY DEF Packet
    <2> QED BY <1>1, <2>1 DEF Packets
<1>3. ASSUME NEW r \in Router
      PROVE  /\ DOMAIN nbr[r] \subseteq Router
             /\ \A n \in DOMAIN nbr[r] : nbr[r][n] \in -1..(3 * HELLOINT)
             /\ DOMAIN db[r] \subseteq Router \ {r}
             /\ \A o \in DOMAIN db[r] : db[r][o] \in Entry
    BY <1>1 DEF Tables, NeighboursOf, DatabaseOf, Peers
<1> QED BY <1>1, <1>2, <1>3 DEF TypeOK, EnvTypes, TimerTypes, SeqNumber

\* ... and so are the links of the routing tables.
LEMMA InvIsReal == MospfInv => OnlyRealLinks
<1> SUFFICES ASSUME MospfInv, NEW r \in Router
             PROVE  routes[r].known \subseteq Router \ {r} /\ routes[r].links \subseteq Link
    BY DEF OnlyRealLinks
<1>1. /\ DatabaseOf(r, db[r])
      /\ routes[r].known = DOMAIN db[r] /\ routes[r].links = Links(db[r])
    BY DEF MospfInv, Tables, RoutesFollowDatabase
<1>2. Links(db[r]) \subseteq Link
    BY <1>1 DEF DatabaseOf, Links, Peers
<1> QED BY <1>1, <1>2 DEF DatabaseOf

-----------------------------------------------------------------------------
\* The lists.

LEMMA NothingIsEmpty == DOMAIN Nothing = {} /\ Links(Nothing) = {}
<1>1. DOMAIN Nothing = {}
    BY DEF Nothing
<1> QED BY <1>1 DEF Links

LEMMA RestrictLemma ==
    ASSUME NEW t, NEW S, S \subseteq DOMAIN t
    PROVE  DOMAIN Restrict(t, S) = S /\ \A x \in S : Restrict(t, S)[x] = t[x]
    BY DEF Restrict

\* A table without some of its elements.
LEMMA FewerTyped ==
    ASSUME NEW r \in Router, NEW t, NEW S, S \subseteq DOMAIN t
    PROVE  /\ NeighboursOf(r, t) => NeighboursOf(r, Restrict(t, S))
           /\ DatabaseOf(r, t) => DatabaseOf(r, Restrict(t, S))
    BY RestrictLemma DEF NeighboursOf, DatabaseOf

LEMMA UpdatedTyped ==
    ASSUME NEW r \in Router, DatabaseOf(r, db[r]),
           NEW m \in Packet, ~IsHello(m), m.rid # r
    PROVE  DatabaseOf(r, Updated(r, m))
<1> DEFINE new == [seq |-> m.seq, adv |-> m.adv, alive |-> DBTIMEOUT]
<1>1. new \in Entry /\ new.adv \subseteq Peers(m.rid) /\ m.rid \in Router
    BY LsuIsTyped, Constants DEF Entry, SeqNumber
<1>2. DOMAIN Updated(r, m) = DOMAIN db[r] \cup {m.rid}
    BY DEF Updated
<1>3. \A o \in DOMAIN Updated(r, m) :
          Updated(r, m)[o] = IF o = m.rid THEN new ELSE db[r][o]
    BY DEF Updated
<1> HIDE DEF new
<1> QED BY <1>1, <1>2, <1>3 DEF DatabaseOf

\* A routing table computed from a database follows it.
LEMMA ViewFollows ==
    \A r, d, N : View(r, d, N).known = DOMAIN d /\ View(r, d, N).links = Links(d)
    BY DEF View

-----------------------------------------------------------------------------
\* Steps.

LEMMA InvInit == Init => MospfInv
<1> SUFFICES ASSUME Init PROVE MospfInv
    OBVIOUS
<1>1. EnvTypes /\ TimerTypes
    BY Constants DEF Init, EnvTypes, TimerTypes
<1>2. seq \in [Router -> SeqNumber]
    BY Constants DEF Init, SeqNumber
<1>3. chan \in Packets /\ \A w \in Wire : chan[w] = <<>>
    BY DEF Init, Packets
<1>4. /\ DOMAIN nbr = Router /\ DOMAIN db = Router /\ DOMAIN routes = Router
      /\ \A r \in Router : nbr[r] = Nothing /\ db[r] = Nothing /\ routes[r] = NoRoutes
    BY DEF Init
<1>5. Tables
    BY <1>4, NothingIsEmpty DEF Tables, NeighboursOf, DatabaseOf
<1>6. DownIsEmpty
    BY <1>3, <1>4 DEF DownIsEmpty
<1>7. RoutesFollowDatabase
    <2>1. NoRoutes.known = {} /\ NoRoutes.links = {}
        BY DEF NoRoutes
    <2> QED BY <2>1, <1>4, NothingIsEmpty DEF RoutesFollowDatabase
<1> QED BY <1>1, <1>2, <1>3, <1>4, <1>5, <1>6, <1>7 DEF MospfInv, Shapes

\* Steps that leave the environment, the databases and the routing tables alone.
LEMMA SendingSteps ==
    ASSUME MospfInv,
           UNCHANGED <<env, calm, db, routes>>,
           TimerTypes', seq' \in [Router -> SeqNumber], chan' \in Packets,
           DOMAIN nbr' = Router, \A r \in Router : NeighboursOf(r, nbr'[r]),
           \A r \in Router \ up : nbr'[r] = Nothing,
           \A w \in Wire : chan'[w] # <<>> => w[2] \in up
    PROVE  MospfInv'
<1>1. up' = up /\ cut' = cut /\ failures' = failures /\ calm' = calm /\ db' = db /\ routes' = routes
    BY DEF env
<1>2. EnvTypes'
    BY <1>1 DEF MospfInv, EnvTypes
<1>3. Shapes'
    BY <1>1 DEF MospfInv, Shapes
<1>4. Tables'
    BY <1>1 DEF MospfInv, Tables
<1>5. DownIsEmpty'
    BY <1>1 DEF MospfInv, DownIsEmpty
<1>6. RoutesFollowDatabase'
    BY <1>1 DEF MospfInv, RoutesFollowDatabase
<1> QED BY <1>2, <1>3, <1>4, <1>5, <1>6 DEF MospfInv

\* Steps of router r that change its database and rebuild its routing table.
LEMMA DatabaseSteps ==
    ASSUME MospfInv, NEW r \in up, NEW d, DatabaseOf(r, d),
           UNCHANGED <<env, calm, seq, helloint, lsuint, nbr>>,
           db' = [db EXCEPT ![r] = d],
           routes' = [routes EXCEPT ![r] = View(r, d, DOMAIN nbr[r])],
           chan' \in Packets,
           \A w \in Wire : chan'[w] # <<>> => w[2] \in up
    PROVE  MospfInv'
<1>1. /\ up' = up /\ cut' = cut /\ failures' = failures /\ calm' = calm
      /\ seq' = seq /\ helloint' = helloint /\ lsuint' = lsuint /\ nbr' = nbr
    BY DEF env
<1>2. up \subseteq Router
    BY DEF MospfInv, EnvTypes
<1>3. /\ DOMAIN db' = Router /\ db'[r] = d
      /\ \A q \in Router \ {r} : db'[q] = db[q]
    BY <1>2 DEF MospfInv, Shapes
<1>4. /\ DOMAIN routes' = Router /\ routes'[r] = View(r, d, DOMAIN nbr[r])
      /\ \A q \in Router \ {r} : routes'[q] = routes[q]
    BY <1>2 DEF MospfInv, Shapes
<1>5. EnvTypes' /\ TimerTypes' /\ seq' \in [Router -> SeqNumber]
    BY <1>1 DEF MospfInv, EnvTypes, TimerTypes
<1>6. Shapes'
    BY <1>1, <1>3, <1>4 DEF MospfInv, Shapes
<1>7. Tables'
    BY <1>1, <1>3 DEF MospfInv, Tables
<1>8. DownIsEmpty'
    BY <1>1, <1>3 DEF MospfInv, DownIsEmpty
<1>9. RoutesFollowDatabase'
    <2> SUFFICES ASSUME NEW q \in Router
                 PROVE  routes'[q].known = DOMAIN db'[q] /\ routes'[q].links = Links(db'[q])
        BY DEF RoutesFollowDatabase
    <2>1. CASE q = r
        BY <2>1, <1>3, <1>4, ViewFollows
    <2>2. CASE q # r
        BY <2>2, <1>3, <1>4 DEF MospfInv, RoutesFollowDatabase
    <2> QED BY <2>1, <2>2
<1> QED BY <1>5, <1>6, <1>7, <1>8, <1>9 DEF MospfInv

LEMMA HelloTimeoutStep ==
    ASSUME MospfInv, NEW r \in Router, HelloTimeout(r)
    PROVE  MospfInv'
<1>1. Hello \in Packet /\ chan \in Packets
    BY DEF Packet, MospfInv
<1>2. chan' \in Packets /\ \A w \in Wire : chan'[w] # <<>> => chan[w] # <<>> \/ w[2] \in up
    BY <1>1, PutTyped DEF HelloTimeout
<1>3. \A w \in Wire : chan'[w] # <<>> => w[2] \in up
    BY <1>2 DEF MospfInv, DownIsEmpty
<1>4. TimerTypes'
    BY Constants DEF HelloTimeout, MospfInv, TimerTypes
<1>5. nbr' = nbr /\ seq' = seq /\ UNCHANGED <<env, calm, db, routes>>
    BY DEF HelloTimeout
<1>6. /\ DOMAIN nbr' = Router /\ \A q \in Router : NeighboursOf(q, nbr'[q])
      /\ \A q \in Router \ up : nbr'[q] = Nothing
      /\ seq' \in [Router -> SeqNumber]
    BY <1>5 DEF MospfInv, Shapes, Tables, DownIsEmpty
<1> QED BY <1>2, <1>3, <1>4, <1>5, <1>6, SendingSteps

LEMMA LsuTimeoutStep ==
    ASSUME MospfInv, NEW r \in Router, LsuTimeout(r)
    PROVE  MospfInv'
<1>1. seq' \in [Router -> SeqNumber] /\ seq'[r] \in SeqNumber
    BY BumpTyped DEF LsuTimeout, MospfInv
<1>2. DOMAIN nbr[r] \in SUBSET Peers(r) /\ chan \in Packets
    BY DEF MospfInv, Tables, NeighboursOf
<1>3. chan' \in Packets /\ \A w \in Wire : chan'[w] # <<>> => chan[w] # <<>> \/ w[2] \in up
    BY <1>1, <1>2, SendLsuTyped DEF LsuTimeout
<1>4. \A w \in Wire : chan'[w] # <<>> => w[2] \in up
    BY <1>3 DEF MospfInv, DownIsEmpty
<1>5. TimerTypes'
    BY Constants DEF LsuTimeout, MospfInv, TimerTypes
<1>6. nbr' = nbr /\ UNCHANGED <<env, calm, db, routes>>
    BY DEF LsuTimeout
<1>7. /\ DOMAIN nbr' = Router /\ \A q \in Router : NeighboursOf(q, nbr'[q])
      /\ \A q \in Router \ up : nbr'[q] = Nothing
    BY <1>6 DEF MospfInv, Shapes, Tables, DownIsEmpty
<1> QED BY <1>1, <1>3, <1>4, <1>5, <1>6, <1>7, SendingSteps

\* The list of neighbours of one running router becomes t.
LEMMA NeighboursChange ==
    ASSUME MospfInv, NEW r \in up, NEW t, NeighboursOf(r, t),
           nbr' = [nbr EXCEPT ![r] = t]
    PROVE  /\ DOMAIN nbr' = Router /\ \A q \in Router : NeighboursOf(q, nbr'[q])
           /\ \A q \in Router \ up : nbr'[q] = Nothing
<1>1. up \subseteq Router
    BY DEF MospfInv, EnvTypes
<1>2. DOMAIN nbr' = Router /\ nbr'[r] = t /\ \A q \in Router \ {r} : nbr'[q] = nbr[q]
    BY <1>1 DEF MospfInv, Shapes
<1> QED BY <1>2 DEF MospfInv, Tables, DownIsEmpty

LEMMA NbrTimeoutStep ==
    ASSUME MospfInv, NEW r \in Router, NbrTimeout(r)
    PROVE  MospfInv'
<1> DEFINE left == {n \in DOMAIN nbr[r] : nbr[r][n] >= 0}
<1>1. seq' \in [Router -> SeqNumber] /\ seq'[r] \in SeqNumber
    BY BumpTyped DEF NbrTimeout, MospfInv
<1>2. NeighboursOf(r, nbr[r]) /\ chan \in Packets /\ r \in up
    BY DEF MospfInv, Tables, NbrTimeout
<1>3. left \in SUBSET Peers(r)
    BY <1>2 DEF NeighboursOf
<1>4. chan' = SendLsu(chan, r, seq'[r], left) /\ nbr' = [nbr EXCEPT ![r] = Restrict(nbr[r], left)]
    BY DEF NbrTimeout
<1>5. NeighboursOf(r, Restrict(nbr[r], left))
    BY <1>2, FewerTyped
<1> HIDE DEF left
<1>6. chan' \in Packets /\ \A w \in Wire : chan'[w] # <<>> => chan[w] # <<>> \/ w[2] \in up
    BY <1>1, <1>2, <1>3, <1>4, SendLsuTyped
<1>7. \A w \in Wire : chan'[w] # <<>> => w[2] \in up
    BY <1>6 DEF MospfInv, DownIsEmpty
<1>8. TimerTypes' /\ UNCHANGED <<env, calm, db, routes>>
    BY DEF NbrTimeout, MospfInv, TimerTypes
<1>9. /\ DOMAIN nbr' = Router /\ \A q \in Router : NeighboursOf(q, nbr'[q])
      /\ \A q \in Router \ up : nbr'[q] = Nothing
    BY <1>2, <1>4, <1>5, NeighboursChange
<1> QED BY <1>1, <1>6, <1>7, <1>8, <1>9, SendingSteps

\* The head of a wire and what a router that takes it knows.
LEMMA Receiving ==
    ASSUME MospfInv, NEW w \in Wire, chan[w] # <<>>
    PROVE  /\ w[1] \in Peers(w[2]) /\ w[2] \in up /\ w[2] \in Router
           /\ Head(chan[w]) \in Packet /\ Taken(w) \in Packets
           /\ \A v \in Wire : Taken(w)[v] # <<>> => v[2] \in up
           /\ NeighboursOf(w[2], nbr[w[2]]) /\ DatabaseOf(w[2], db[w[2]])
<1>1. chan \in Packets /\ Tables /\ DownIsEmpty
    BY DEF MospfInv
<1>2. w[1] \in Peers(w[2]) /\ w[2] \in Router
    BY WirePeers, WireEnds
<1>3. w[2] \in up
    BY <1>1 DEF DownIsEmpty
<1>4. /\ Head(chan[w]) \in Packet /\ Taken(w) \in Packets
      /\ \A v \in Wire : Taken(w)[v] # <<>> => chan[v] # <<>>
    BY <1>1, TakenTyped
<1>5. \A v \in Wire : Taken(w)[v] # <<>> => v[2] \in up
    BY <1>1, <1>4 DEF DownIsEmpty
<1>6. NeighboursOf(w[2], nbr[w[2]]) /\ DatabaseOf(w[2], db[w[2]])
    BY <1>1, <1>2 DEF Tables
<1> QED BY <1>2, <1>3, <1>4, <1>5, <1>6

LEMMA HandleHelloStep ==
    ASSUME MospfInv, NEW w \in Wire, HandleHello(w)
    PROVE  MospfInv'
<1> DEFINE n == w[1]
           r == w[2]
           heard == [m \in DOMAIN nbr[r] \cup {n} |->
                        IF m = n THEN 3 * HELLOINT ELSE nbr[r][m]]
<1>1. /\ n \in Peers(r) /\ r \in up /\ r \in Router
      /\ Taken(w) \in Packets
      /\ \A v \in Wire : Taken(w)[v] # <<>> => v[2] \in up
      /\ NeighboursOf(r, nbr[r])
    BY Receiving DEF HandleHello
<1>2. NeighboursOf(r, heard) /\ DOMAIN heard \in SUBSET Peers(r)
    <2>1. 3 * HELLOINT \in -1..(3 * HELLOINT)
        BY Constants
    <2>2. DOMAIN heard = DOMAIN nbr[r] \cup {n}
        OBVIOUS
    <2>3. \A m \in DOMAIN heard : heard[m] = IF m = n THEN 3 * HELLOINT ELSE nbr[r][m]
        OBVIOUS
    <2> HIDE DEF heard, n, r
    <2> QED BY <1>1, <2>1, <2>2, <2>3 DEF NeighboursOf
<1>3. /\ nbr' = [nbr EXCEPT ![r] = heard]
      /\ \/ chan' = Taken(w) /\ seq' = seq
         \/ seq' = Bump(r) /\ chan' = SendLsu(Taken(w), r, seq'[r], DOMAIN heard)
      /\ UNCHANGED <<env, calm, db, routes>> /\ helloint' = helloint /\ lsuint' = lsuint
    BY DEF HandleHello
<1> HIDE DEF heard, n, r
<1>4. /\ DOMAIN nbr' = Router /\ \A q \in Router : NeighboursOf(q, nbr'[q])
      /\ \A q \in Router \ up : nbr'[q] = Nothing
    BY <1>1, <1>2, <1>3, NeighboursChange
<1>5. TimerTypes'
    BY <1>3 DEF MospfInv, TimerTypes
<1>6. /\ seq' \in [Router -> SeqNumber] /\ chan' \in Packets
      /\ \A v \in Wire : chan'[v] # <<>> => v[2] \in up
    <2>1. CASE chan' = Taken(w) /\ seq' = seq
        BY <2>1, <1>1 DEF MospfInv
    <2>2. CASE seq' = Bump(r) /\ chan' = SendLsu(Taken(w), r, seq'[r], DOMAIN heard)
        <3>1. seq' \in [Router -> SeqNumber] /\ seq'[r] \in SeqNumber
            BY <2>2, <1>1, BumpTyped DEF MospfInv
        <3>2. /\ chan' \in Packets
              /\ \A v \in Wire : chan'[v] # <<>> => Taken(w)[v] # <<>> \/ v[2] \in up
            BY <3>1, <2>2, <1>1, <1>2, SendLsuTyped
        <3> QED BY <3>1, <3>2, <1>1
    <2> QED BY <2>1, <2>2, <1>3
<1> QED BY <1>3, <1>4, <1>5, <1>6, SendingSteps

LEMMA DropLsuStep ==
    ASSUME MospfInv, NEW w \in Wire, DropLsu(w)
    PROVE  MospfInv'
<1>1. chan' \in Packets /\ \A v \in Wire : chan'[v] # <<>> => v[2] \in up
    BY Receiving DEF DropLsu
<1>2. /\ UNCHANGED <<env, calm, db, routes>> /\ nbr' = nbr /\ seq' = seq
      /\ helloint' = helloint /\ lsuint' = lsuint
    BY DEF DropLsu, proto
<1>3. TimerTypes' /\ seq' \in [Router -> SeqNumber]
    BY <1>2 DEF MospfInv, TimerTypes
<1>4. /\ DOMAIN nbr' = Router /\ \A q \in Router : NeighboursOf(q, nbr'[q])
      /\ \A q \in Router \ up : nbr'[q] = Nothing
    BY <1>2 DEF MospfInv, Shapes, Tables, DownIsEmpty
<1> QED BY <1>1, <1>2, <1>3, <1>4, SendingSteps

LEMMA AcceptLsuStep ==
    ASSUME MospfInv, NEW w \in Wire, AcceptLsu(w)
    PROVE  MospfInv'
<1> DEFINE r == w[2]
           m == Head(chan[w])
           d == Updated(r, m)
<1>1. /\ r \in up /\ r \in Router /\ m \in Packet /\ Taken(w) \in Packets
      /\ \A v \in Wire : Taken(w)[v] # <<>> => v[2] \in up
      /\ DatabaseOf(r, db[r])
    BY Receiving DEF AcceptLsu
<1>2. ~IsHello(m) /\ m.rid # r
    BY DEF AcceptLsu, Stale
<1>3. DatabaseOf(r, d)
    BY <1>1, <1>2, UpdatedTyped
<1>4. /\ UNCHANGED <<env, calm, seq, helloint, lsuint, nbr>>
      /\ db' = [db EXCEPT ![r] = d]
      /\ routes' = [routes EXCEPT ![r] = View(r, d, DOMAIN nbr[r])]
      /\ chan' = IF m.ttl > 1
                 THEN Put(Taken(w), {<<r, q>> : q \in DOMAIN nbr[r] \ {w[1]}}, Onward(m))
                 ELSE Taken(w)
    BY DEF AcceptLsu
<1> HIDE DEF r, m, d
<1>5. /\ chan' \in Packets
      /\ \A v \in Wire : chan'[v] # <<>> => Taken(w)[v] # <<>> \/ v[2] \in up
    <2>1. CASE m.ttl > 1
        BY <1>1, <1>2, <1>4, <2>1, SentOnSays, PutTyped
    <2>2. CASE ~(m.ttl > 1)
        BY <1>1, <1>4, <2>2
    <2> QED BY <2>1, <2>2
<1>6. \A v \in Wire : chan'[v] # <<>> => v[2] \in up
    BY <1>1, <1>5
<1> QED BY <1>1, <1>3, <1>4, <1>5, <1>6, DatabaseSteps

LEMMA DbTimeoutStep ==
    ASSUME MospfInv, NEW r \in Router, DbTimeout(r)
    PROVE  MospfInv'
<1> DEFINE left == {o \in DOMAIN db[r] : db[r][o].alive > 0}
           d == Restrict(db[r], left)
<1>1. r \in up /\ DatabaseOf(r, db[r])
    BY DEF DbTimeout, MospfInv, Tables
<1>2. DatabaseOf(r, d)
    BY <1>1, FewerTyped
<1>3. /\ UNCHANGED <<env, calm, seq, helloint, lsuint, nbr>> /\ chan' = chan
      /\ db' = [db EXCEPT ![r] = d]
      /\ routes' = [routes EXCEPT ![r] = View(r, d, DOMAIN nbr[r])]
    BY DEF DbTimeout
<1> HIDE DEF d
<1>4. chan' \in Packets /\ \A v \in Wire : chan'[v] # <<>> => v[2] \in up
    BY <1>3 DEF MospfInv, DownIsEmpty
<1> QED BY <1>1, <1>2, <1>3, <1>4, DatabaseSteps

\* A second passes only when no timer of a running router has run out, so that none
\* becomes less than it may be.
LEMMA TickStep ==
    ASSUME MospfInv, Tick
    PROVE  MospfInv'
<1>1. /\ up' = up /\ cut' = cut /\ failures' = failures
      /\ seq' = seq /\ routes' = routes /\ chan' = chan
    BY DEF Tick, env
<1>2. EnvTypes'
    <2>1. calm' \in 0..Settle
        BY Constants DEF Tick, MospfInv, EnvTypes
    <2> QED BY <2>1, <1>1 DEF MospfInv, EnvTypes
<1>3. TimerTypes'
    <2>1. ASSUME NEW r \in Router
          PROVE  Less(r, helloint[r]) \in 0..HELLOINT /\ Less(r, lsuint[r]) \in 0..LSUINT
        <3>1. helloint[r] \in 0..HELLOINT /\ lsuint[r] \in 0..LSUINT
            BY DEF MospfInv, TimerTypes
        <3>2. r \in up => helloint[r] > 0 /\ lsuint[r] > 0
            BY DEF Tick, Quiet
        <3> QED BY <3>1, <3>2, Constants DEF Less
    <2> QED BY <2>1 DEF Tick, TimerTypes
<1>4. ASSUME NEW r \in Router
      PROVE  /\ NeighboursOf(r, nbr'[r]) /\ DatabaseOf(r, db'[r])
             /\ DOMAIN db'[r] = DOMAIN db[r] /\ Links(db'[r]) = Links(db[r])
             /\ r \notin up => nbr'[r] = Nothing /\ db'[r] = Nothing
    <2>1. /\ nbr'[r] = [n \in DOMAIN nbr[r] |-> nbr[r][n] - 1]
          /\ db'[r] = [o \in DOMAIN db[r] |-> [db[r][o] EXCEPT !.alive = @ - 1]]
        BY DEF Tick
    <2>2. NeighboursOf(r, nbr[r]) /\ DatabaseOf(r, db[r])
        BY DEF MospfInv, Tables
    <2>3. r \notin up => DOMAIN nbr[r] = {} /\ DOMAIN db[r] = {}
        BY NothingIsEmpty DEF MospfInv, DownIsEmpty
    <2>4. /\ \A n \in DOMAIN nbr[r] : nbr[r][n] >= 0
          /\ \A o \in DOMAIN db[r] : db[r][o].alive > 0
        BY <2>3 DEF Tick, Quiet
    <2>5. NeighboursOf(r, nbr'[r])
        BY <2>1, <2>2, <2>4, Constants DEF NeighboursOf
    <2>6. ASSUME NEW o \in DOMAIN db[r]
          PROVE  db'[r][o] \in Entry /\ db'[r][o].adv = db[r][o].adv
        <3>1. db[r][o] \in Entry /\ db[r][o].alive > 0
            BY <2>2, <2>4 DEF DatabaseOf
        <3>2. db'[r][o] = [db[r][o] EXCEPT !.alive = db[r][o].alive - 1]
            BY <2>1
        <3> QED BY <3>1, <3>2, Constants DEF Entry
    <2>7. DOMAIN db'[r] = DOMAIN db[r]
        BY <2>1
    <2>8. DatabaseOf(r, db'[r])
        BY <2>2, <2>6, <2>7 DEF DatabaseOf
    <2>9. Links(db'[r]) = Links(db[r])
        BY <2>6, <2>7 DEF Links
    <2>10. ASSUME r \notin up PROVE nbr'[r] = Nothing /\ db'[r] = Nothing
        <3>1. \A x : [y \in {} |-> x] = <<>>
            OBVIOUS
        <3> QED BY <2>1, <2>3, <2>10, <3>1 DEF Nothing
    <2> QED BY <2>5, <2>7, <2>8, <2>9, <2>10
<1>5. Shapes'
    BY <1>1 DEF Tick, MospfInv, Shapes
<1>6. Tables'
    BY <1>4 DEF Tables
<1>7. DownIsEmpty'
    BY <1>1, <1>4 DEF MospfInv, DownIsEmpty
<1>8. RoutesFollowDatabase'
    BY <1>1, <1>4 DEF MospfInv, RoutesFollowDatabase
<1>9. seq' \in [Router -> SeqNumber] /\ chan' \in Packets
    BY <1>1 DEF MospfInv
<1> QED BY <1>2, <1>3, <1>5, <1>6, <1>7, <1>8, <1>9 DEF MospfInv

-----------------------------------------------------------------------------
\* Failures.

LEMMA FailTyped ==
    ASSUME MospfInv, Fail
    PROVE  failures' \in 0..MaxFailures /\ calm' \in 0..Settle
    BY Constants DEF MospfInv, EnvTypes, Fail

LEMMA CrashStep ==
    ASSUME MospfInv, NEW r \in Router, Crash(r)
    PROVE  MospfInv'
<1>1. /\ cut' = cut /\ up' = up \ {r}
      /\ failures' \in 0..MaxFailures /\ calm' \in 0..Settle
    BY FailTyped DEF Crash
<1>2. EnvTypes'
    BY <1>1 DEF MospfInv, EnvTypes
<1>3. TimerTypes'
    BY Constants DEF Crash, MospfInv, TimerTypes
<1>4. seq' \in [Router -> SeqNumber]
    BY Constants DEF Crash, MospfInv, SeqNumber
<1>5. /\ chan' \in Packets
      /\ \A w \in Wire : chan'[w] # <<>> => chan[w] # <<>> /\ w[2] # r
    BY DEF Crash, MospfInv, Packets
<1>6. /\ DOMAIN nbr' = Router /\ DOMAIN db' = Router /\ DOMAIN routes' = Router
      /\ nbr'[r] = Nothing /\ db'[r] = Nothing /\ routes'[r] = NoRoutes
      /\ \A q \in Router \ {r} :
            nbr'[q] = nbr[q] /\ db'[q] = db[q] /\ routes'[q] = routes[q]
    BY DEF Crash, MospfInv, Shapes
<1>7. NeighboursOf(r, Nothing) /\ DatabaseOf(r, Nothing)
    BY NothingIsEmpty DEF NeighboursOf, DatabaseOf
<1>8. Tables'
    BY <1>6, <1>7 DEF MospfInv, Tables
<1>9. DownIsEmpty'
    BY <1>1, <1>5, <1>6 DEF MospfInv, DownIsEmpty
<1>10. RoutesFollowDatabase'
    <2>1. NoRoutes.known = {} /\ NoRoutes.links = {}
        BY DEF NoRoutes
    <2> QED BY <2>1, <1>6, NothingIsEmpty DEF MospfInv, RoutesFollowDatabase
<1> QED BY <1>2, <1>3, <1>4, <1>5, <1>6, <1>8, <1>9, <1>10 DEF MospfInv, Shapes

\* Steps that only change which routers and links work, and lose packets.
LEMMA EnvironmentSteps ==
    ASSUME MospfInv, UNCHANGED proto, EnvTypes', chan' \in Packets, up \subseteq up',
           \A w \in Wire : chan'[w] # <<>> => chan[w] # <<>>
    PROVE  MospfInv'
<1>1. /\ seq' = seq /\ helloint' = helloint /\ lsuint' = lsuint
      /\ nbr' = nbr /\ db' = db /\ routes' = routes
    BY DEF proto
<1>2. TimerTypes' /\ seq' \in [Router -> SeqNumber]
    BY <1>1 DEF MospfInv, TimerTypes
<1>3. Shapes' /\ Tables'
    BY <1>1 DEF MospfInv, Shapes, Tables
<1>4. DownIsEmpty'
    BY <1>1 DEF MospfInv, DownIsEmpty
<1>5. RoutesFollowDatabase'
    BY <1>1 DEF MospfInv, RoutesFollowDatabase
<1> QED BY <1>2, <1>3, <1>4, <1>5 DEF MospfInv

LEMMA FailureStep ==
    ASSUME MospfInv, Failure
    PROVE  MospfInv'
<1>1. chan \in Packets /\ up \subseteq Router /\ cut \subseteq Link
    BY DEF MospfInv, EnvTypes
<1>2. ASSUME NEW r \in Router, Crash(r) PROVE MospfInv'
    BY <1>2, CrashStep
<1>3. ASSUME NEW r \in Router, Restart(r) PROVE MospfInv'
    <2>1. up' = up \cup {r} /\ cut' = cut /\ chan' = chan /\ UNCHANGED proto
        BY <1>3 DEF Restart
    <2>2. failures' \in 0..MaxFailures /\ calm' \in 0..Settle
        BY <1>3, FailTyped DEF Restart
    <2>3. EnvTypes'
        BY <1>1, <2>1, <2>2 DEF EnvTypes
    <2> QED BY <1>1, <2>1, <2>3, EnvironmentSteps
<1>4. ASSUME NEW l \in Link, Cut(l) PROVE MospfInv'
    <2>1. up' = up /\ cut' = cut \cup {l} /\ UNCHANGED proto
        BY <1>4 DEF Cut
    <2>2. failures' \in 0..MaxFailures /\ calm' \in 0..Settle
        BY <1>4, FailTyped DEF Cut
    <2>3. EnvTypes'
        BY <1>1, <2>1, <2>2 DEF EnvTypes
    <2>4. chan' \in Packets /\ \A w \in Wire : chan'[w] # <<>> => chan[w] # <<>>
        BY <1>1, <1>4 DEF Cut, Packets
    <2> QED BY <2>1, <2>3, <2>4, EnvironmentSteps
<1>5. ASSUME NEW l \in Link, Mend(l) PROVE MospfInv'
    <2>1. up' = up /\ cut' = cut \ {l} /\ chan' = chan /\ UNCHANGED proto
        BY <1>5 DEF Mend
    <2>2. failures' \in 0..MaxFailures /\ calm' \in 0..Settle
        BY <1>5, FailTyped DEF Mend
    <2>3. EnvTypes'
        BY <1>1, <2>1, <2>2 DEF EnvTypes
    <2> QED BY <1>1, <2>1, <2>3, EnvironmentSteps
<1> QED BY <1>2, <1>3, <1>4, <1>5 DEF Failure

LEMMA InvStep == MospfInv /\ [Next]_vars => MospfInv'
<1> SUFFICES ASSUME MospfInv, [Next]_vars PROVE MospfInv'
    OBVIOUS
<1>1. ASSUME NEW r \in Router, HelloTimeout(r) \/ NbrTimeout(r) \/ LsuTimeout(r) \/ DbTimeout(r)
      PROVE  MospfInv'
    BY <1>1, HelloTimeoutStep, NbrTimeoutStep, LsuTimeoutStep, DbTimeoutStep
<1>2. ASSUME NEW w \in Wire, HandleHello(w) \/ DropLsu(w) \/ AcceptLsu(w)
      PROVE  MospfInv'
    BY <1>2, HandleHelloStep, DropLsuStep, AcceptLsuStep
<1>3. ASSUME UNCHANGED vars PROVE MospfInv'
    <2>1. /\ UNCHANGED <<env, calm, db, routes>> /\ nbr' = nbr /\ seq' = seq /\ chan' = chan
          /\ helloint' = helloint /\ lsuint' = lsuint
        BY <1>3 DEF vars, env
    <2>2. /\ TimerTypes' /\ seq' \in [Router -> SeqNumber] /\ chan' \in Packets
          /\ DOMAIN nbr' = Router /\ \A q \in Router : NeighboursOf(q, nbr'[q])
          /\ \A q \in Router \ up : nbr'[q] = Nothing
          /\ \A w \in Wire : chan'[w] # <<>> => w[2] \in up
        BY <2>1 DEF MospfInv, TimerTypes, Shapes, Tables, DownIsEmpty
    <2> QED BY <2>1, <2>2, SendingSteps
<1> QED BY <1>1, <1>2, <1>3, TickStep, FailureStep DEF Next, Work

LEMMA InvAlways == Spec => []MospfInv
<1> QED BY InvInit, InvStep, PTL DEF Spec

-----------------------------------------------------------------------------
\* Whatever fails and whenever, sequence numbers stay u16, timers never run past the
\* point at which their threads act, databases hold entries of other routers only, and
\* whatever is in flight is a hello or a well-formed LSU.
THEOREM DaemonTypeCorrect == Spec => []TypeOK
<1> QED BY InvAlways, InvIsTyped, PTL

\* mospf_update_rtable is called wherever the database changes: the routing table of
\* every router is always one computed from the origins and links in its database,
\* although it may be one computed for former neighbours.
THEOREM TableFollowsDatabase == Spec => []RoutesFollowDatabase
<1>1. MospfInv => RoutesFollowDatabase
    BY DEF MospfInv
<1> QED BY <1>1, InvAlways, PTL

\* No router ever computes its routes from a link that does not exist: what a hello
\* announces, an LSU repeats and a database keeps are links of the network, through
\* all crashes, losses and reorderings.
THEOREM RoutesUseRealLinks == Spec => []OnlyRealLinks
<1> QED BY InvAlways, InvIsReal, PTL

\* A stopped daemon has lost everything, and nothing is delivered to it.
THEOREM StoppedDaemonIsEmpty == Spec => []DownIsEmpty
<1>1. MospfInv => DownIsEmpty
    BY DEF MospfInv
<1> QED BY <1>1, InvAlways, PTL

-----------------------------------------------------------------------------
\* Sequence numbers.

\* The first numbers of every router: the last one is not reached.
NoWrap == \A r \in Router : seq[r] # SeqSpace - 1

\* So far nobody has restarted: a crash and a restart are two failures.
NobodyRestarted == up = Router /\ failures <= 1

\* Packet m is on its way somewhere.
InFlight(ch, m) == \E w \in Wire : \E i \in 1..Len(ch[w]) : ch[w][i] = m

\* What may be said under number s by origin o, which is at number top and has the
\* neighbours N: nothing under a later one, and N under the present one.
Says(s, adv, top, N) == s <= top /\ (s = top => adv = N)

EntriesSay ==
    \A o, r \in Router :
        o \in DOMAIN db[r] => Says(db[r][o].seq, db[r][o].adv, seq[o], DOMAIN nbr[o])

PacketsSay ==
    \A m \in Packet :
        (InFlight(chan, m) /\ ~IsHello(m)) => Says(m.seq, m.adv, seq[m.rid], DOMAIN nbr[m.rid])

SeqInv ==
    /\ up # Router => failures >= 1
    /\ NobodyRestarted => EntriesSay /\ PacketsSay

LEMMA SeqInvNames == MospfInv /\ SeqInv => SeqNamesLinks
<1> SUFFICES ASSUME MospfInv, SeqInv, NobodyRestarted, NEW o \in Router
             PROVE  /\ \A r \in Router :
                          o \in DOMAIN db[r] /\ db[r][o].seq = seq[o]
                              => db[r][o].adv = DOMAIN nbr[o]
                    /\ \A w \in Wire : \A i \in 1..Len(chan[w]) :
                          (~IsHello(chan[w][i]) /\ chan[w][i].rid = o /\ chan[w][i].seq = seq[o])
                              => chan[w][i].adv = DOMAIN nbr[o]
    BY DEF SeqNamesLinks, NobodyRestarted
<1>1. EntriesSay /\ PacketsSay /\ chan \in Packets
    BY DEF SeqInv, MospfInv
<1>2. \A r \in Router :
          o \in DOMAIN db[r] /\ db[r][o].seq = seq[o] => db[r][o].adv = DOMAIN nbr[o]
    BY <1>1 DEF EntriesSay, Says
<1>3. ASSUME NEW w \in Wire, NEW i \in 1..Len(chan[w])
      PROVE  chan[w][i] \in Packet /\ InFlight(chan, chan[w][i])
    <2>1. chan[w] \in Seq(Packet)
        BY <1>1 DEF Packets
    <2>2. chan[w][i] \in Packet
        BY <2>1
    <2> QED BY <2>2 DEF InFlight
<1> QED BY <1>1, <1>2, <1>3 DEF PacketsSay, Says

\* Where the packets of the next state come from.
LEMMA PutFlies ==
    ASSUME NEW ch \in Packets, NEW W, NEW m \in Packet, NEW x, InFlight(Put(ch, W, m), x)
    PROVE  x = m \/ InFlight(ch, x)
<1>0. PICK w \in Wire : \E i \in 1..Len(Put(ch, W, m)[w]) : Put(ch, W, m)[w][i] = x
    BY DEF InFlight
<1>1. PICK i \in 1..Len(Put(ch, W, m)[w]) : Put(ch, W, m)[w][i] = x
    BY <1>0
<1>2. ch[w] \in Seq(Packet)
    BY DEF Packets
<1>3. Put(ch, W, m)[w] = ch[w] \/ Put(ch, W, m)[w] = Append(ch[w], m)
    BY DEF Put
<1>4. CASE Put(ch, W, m)[w] = ch[w]
    BY <1>1, <1>4 DEF InFlight
<1>5. CASE Put(ch, W, m)[w] = Append(ch[w], m)
    <2>1. i \in 1..(Len(ch[w]) + 1) /\ Append(ch[w], m)[i] = x
        BY <1>1, <1>2, <1>5
    <2>2. CASE i = Len(ch[w]) + 1
        BY <2>1, <2>2, <1>2
    <2>3. CASE i # Len(ch[w]) + 1
        <3>1. Len(ch[w]) \in Nat
            BY <1>2
        <3>2. i \in 1..Len(ch[w])
            BY <2>1, <2>3, <3>1
        <3>3. ch[w][i] = x
            BY <2>1, <3>2, <1>2
        <3> QED BY <3>2, <3>3 DEF InFlight
    <2> QED BY <2>2, <2>3
<1> QED BY <1>3, <1>4, <1>5

LEMMA TakenFlies ==
    ASSUME chan \in Packets, NEW w \in Wire, chan[w] # <<>>, NEW x, InFlight(Taken(w), x)
    PROVE  InFlight(chan, x)
<1>0. PICK v \in Wire : \E i \in 1..Len(Taken(w)[v]) : Taken(w)[v][i] = x
    BY DEF InFlight
<1>1. PICK i \in 1..Len(Taken(w)[v]) : Taken(w)[v][i] = x
    BY <1>0
<1>2. chan[w] \in Seq(Packet)
    BY DEF Packets
<1>3. Taken(w)[v] = IF v = w THEN Tail(chan[w]) ELSE chan[v]
    BY DEF Taken, Packets
<1>4. CASE v = w
    <2>1. Len(chan[w]) \in Nat /\ Len(chan[w]) > 0
        BY <1>2
    <2>2. i \in 1..(Len(chan[w]) - 1) /\ Tail(chan[w])[i] = x
        BY <1>1, <1>2, <1>3, <1>4
    <2>3. chan[w][i + 1] = x /\ i + 1 \in 1..Len(chan[w])
        BY <2>1, <2>2, <1>2
    <2> QED BY <2>3 DEF InFlight
<1>5. CASE v # w
    BY <1>1, <1>3, <1>5 DEF InFlight
<1> QED BY <1>4, <1>5

LEMMA HeadFlies ==
    ASSUME chan \in Packets, NEW w \in Wire, chan[w] # <<>>
    PROVE  InFlight(chan, Head(chan[w]))
<1>1. chan[w] \in Seq(Packet)
    BY DEF Packets
<1>2. 1 \in 1..Len(chan[w]) /\ chan[w][1] = Head(chan[w])
    BY <1>1
<1> QED BY <1>2 DEF InFlight

\* Steps that use no new number and change no list of neighbours: what is said was
\* said before, by an entry or by a packet.
LEMMA NumbersKept ==
    ASSUME MospfInv, SeqInv,
           up' # Router => failures' >= 1,
           NobodyRestarted' => NobodyRestarted,
           \A o \in Router : seq'[o] = seq[o] /\ DOMAIN nbr'[o] = DOMAIN nbr[o],
           \A m \in Packet : InFlight(chan', m) /\ ~IsHello(m) =>
               \E p \in Packet : /\ InFlight(chan, p) /\ ~IsHello(p)
                                 /\ p.rid = m.rid /\ p.seq = m.seq /\ p.adv = m.adv,
           \A r \in Router : \A o \in DOMAIN db'[r] :
               \/ /\ o \in DOMAIN db[r]
                  /\ db'[r][o].seq = db[r][o].seq /\ db'[r][o].adv = db[r][o].adv
               \/ \E m \in Packet :
                     /\ InFlight(chan, m) /\ ~IsHello(m) /\ m.rid = o
                     /\ db'[r][o].seq = m.seq /\ db'[r][o].adv = m.adv
    PROVE  SeqInv'
<1> SUFFICES ASSUME NobodyRestarted'
             PROVE  EntriesSay' /\ PacketsSay'
    BY DEF SeqInv
<1>1. EntriesSay /\ PacketsSay
    BY DEF SeqInv
<1>2. PacketsSay'
    <2> SUFFICES ASSUME NEW m \in Packet, InFlight(chan', m), ~IsHello(m)
                 PROVE  Says(m.seq, m.adv, seq'[m.rid], DOMAIN nbr'[m.rid])
        BY DEF PacketsSay
    <2>1. m.rid \in Router
        BY LsuIsTyped
    <2>2. PICK p \in Packet : /\ InFlight(chan, p) /\ ~IsHello(p)
                              /\ p.rid = m.rid /\ p.seq = m.seq /\ p.adv = m.adv
        OBVIOUS
    <2>3. Says(m.seq, m.adv, seq[m.rid], DOMAIN nbr[m.rid])
        BY <1>1, <2>2 DEF PacketsSay
    <2> QED BY <2>1, <2>3
<1>3. EntriesSay'
    <2> SUFFICES ASSUME NEW o \in Router, NEW r \in Router, o \in DOMAIN db'[r]
                 PROVE  Says(db'[r][o].seq, db'[r][o].adv, seq'[o], DOMAIN nbr'[o])
        BY DEF EntriesSay
    <2>1. CASE /\ o \in DOMAIN db[r]
               /\ db'[r][o].seq = db[r][o].seq /\ db'[r][o].adv = db[r][o].adv
        BY <2>1, <1>1 DEF EntriesSay
    <2>2. CASE \E m \in Packet :
                     /\ InFlight(chan, m) /\ ~IsHello(m) /\ m.rid = o
                     /\ db'[r][o].seq = m.seq /\ db'[r][o].adv = m.adv
        <3>1. PICK m \in Packet :
                     /\ InFlight(chan, m) /\ ~IsHello(m) /\ m.rid = o
                     /\ db'[r][o].seq = m.seq /\ db'[r][o].adv = m.adv
            BY <2>2
        <3>2. Says(m.seq, m.adv, seq[m.rid], DOMAIN nbr[m.rid])
            BY <3>1, <1>1 DEF PacketsSay
        <3> QED BY <3>1, <3>2
    <2> QED BY <2>1, <2>2
<1> QED BY <1>2, <1>3

\* Steps by which router r takes a new number and announces its neighbours with it.
LEMMA NumberTaken ==
    ASSUME MospfInv, SeqInv, NoWrap, NEW r \in Router,
           UNCHANGED env, db' = db, seq' = Bump(r),
           \A o \in Router \ {r} : DOMAIN nbr'[o] = DOMAIN nbr[o],
           \A m \in Packet : InFlight(chan', m) =>
               InFlight(chan, m) \/ m = Lsu(r, seq'[r], DOMAIN nbr'[r])
    PROVE  SeqInv'
<1>1. up' = up /\ failures' = failures
    BY DEF env
<1> SUFFICES ASSUME NobodyRestarted
             PROVE  EntriesSay' /\ PacketsSay'
    BY <1>1 DEF SeqInv, NobodyRestarted
<1>2. EntriesSay /\ PacketsSay /\ seq \in [Router -> SeqNumber]
    BY DEF SeqInv, MospfInv
<1>3. seq'[r] = seq[r] + 1 /\ \A o \in Router \ {r} : seq'[o] = seq[o]
    <2>1. seq[r] + 1 \in 0..(SeqSpace - 1)
        BY <1>2, Constants DEF NoWrap, SeqNumber
    <2>2. (seq[r] + 1) % SeqSpace = seq[r] + 1
        BY <2>1, Constants
    <2> QED BY <2>2, <1>2 DEF Bump
<1>4. \A s \in SeqNumber, o \in Router : \A a :
          Says(s, a, seq[o], DOMAIN nbr[o]) => Says(s, a, seq'[o], DOMAIN nbr'[o])
    <2> SUFFICES ASSUME NEW s \in SeqNumber, NEW o \in Router, NEW a,
                        Says(s, a, seq[o], DOMAIN nbr[o])
                 PROVE  Says(s, a, seq'[o], DOMAIN nbr'[o])
        OBVIOUS
    <2>1. CASE o = r
        <3>1. s <= seq[r] /\ s \in Int /\ seq[r] \in Int
            BY <2>1, <1>2 DEF Says, SeqNumber
        <3> QED BY <2>1, <3>1, <1>3 DEF Says
    <2>2. CASE o # r
        BY <2>2, <1>3
    <2> QED BY <2>1, <2>2
<1>5. EntriesSay'
    <2> SUFFICES ASSUME NEW o \in Router, NEW q \in Router, o \in DOMAIN db[q]
                 PROVE  Says(db[q][o].seq, db[q][o].adv, seq'[o], DOMAIN nbr'[o])
        BY DEF EntriesSay
    <2>1. Says(db[q][o].seq, db[q][o].adv, seq[o], DOMAIN nbr[o])
        BY <1>2 DEF EntriesSay
    <2>2. db[q][o].seq \in SeqNumber
        BY DEF MospfInv, Tables, DatabaseOf, Entry, SeqNumber
    <2> QED BY <1>4, <2>1, <2>2
<1>6. PacketsSay'
    <2> SUFFICES ASSUME NEW m \in Packet, InFlight(chan', m), ~IsHello(m)
                 PROVE  Says(m.seq, m.adv, seq'[m.rid], DOMAIN nbr'[m.rid])
        BY DEF PacketsSay
    <2>1. m.rid \in Router /\ m.seq \in SeqNumber
        BY LsuIsTyped
    <2>2. CASE InFlight(chan, m)
        BY <2>1, <2>2, <1>2, <1>4 DEF PacketsSay
    <2>3. CASE m = Lsu(r, seq'[r], DOMAIN nbr'[r])
        BY <2>1, <2>3, <1>3 DEF Says, Lsu, SeqNumber
    <2> QED BY <2>2, <2>3
<1> QED BY <1>5, <1>6

LEMMA SeqInvInit == Init => SeqInv
<1> SUFFICES ASSUME Init PROVE SeqInv
    OBVIOUS
<1>1. up = Router /\ \A r \in Router : db[r] = Nothing
    BY DEF Init
<1>2. \A m : ~InFlight(chan, m)
    BY DEF Init, InFlight
<1> QED BY <1>1, <1>2, NothingIsEmpty DEF SeqInv, EntriesSay, PacketsSay

LEMMA SeqHelloTimeout ==
    ASSUME MospfInv, SeqInv, NEW r \in Router, HelloTimeout(r)
    PROVE  SeqInv'
<1>1. up' = up /\ failures' = failures /\ seq' = seq /\ nbr' = nbr /\ db' = db
    BY DEF HelloTimeout, env
<1>2. Hello \in Packet /\ chan \in Packets /\ IsHello(Hello)
    BY DEF Packet, MospfInv, IsHello
<1>3. \A m \in Packet : InFlight(chan', m) /\ ~IsHello(m) => InFlight(chan, m)
    BY <1>2, PutFlies DEF HelloTimeout
<1>4. (NobodyRestarted' => NobodyRestarted) /\ (up' # Router => failures' >= 1)
    BY <1>1 DEF NobodyRestarted, SeqInv
<1> QED BY <1>1, <1>3, <1>4, NumbersKept

LEMMA SendLsuFlies ==
    ASSUME NEW ch \in Packets, NEW r \in Router, NEW s \in SeqNumber, NEW N \in SUBSET Peers(r),
           NEW x, InFlight(SendLsu(ch, r, s, N), x)
    PROVE  InFlight(ch, x) \/ x = Lsu(r, s, N)
<1>1. Lsu(r, s, N) \in LsuPacket /\ Lsu(r, s, N).adv = N /\ Lsu(r, s, N).rid = r
    BY NewTtl DEF Lsu, LsuPacket, SeqNumber, Peers
<1>2. Lsu(r, s, N) \in Packet
    BY <1>1 DEF Packet
<1> QED BY <1>2, PutFlies DEF SendLsu

LEMMA SeqLsuTimeout ==
    ASSUME MospfInv, SeqInv, NoWrap, NEW r \in Router, LsuTimeout(r)
    PROVE  SeqInv'
<1>1. UNCHANGED env /\ db' = db /\ nbr' = nbr /\ seq' = Bump(r)
    BY DEF LsuTimeout
<1>2. chan \in Packets /\ DOMAIN nbr[r] \in SUBSET Peers(r) /\ seq'[r] \in SeqNumber
    BY <1>1, BumpTyped DEF MospfInv, Tables, NeighboursOf
<1>3. \A m \in Packet : InFlight(chan', m) =>
          InFlight(chan, m) \/ m = Lsu(r, seq'[r], DOMAIN nbr'[r])
    BY <1>1, <1>2, SendLsuFlies DEF LsuTimeout
<1> QED BY <1>1, <1>3, NumberTaken

LEMMA SeqNbrTimeout ==
    ASSUME MospfInv, SeqInv, NoWrap, NEW r \in Router, NbrTimeout(r)
    PROVE  SeqInv'
<1> DEFINE left == {n \in DOMAIN nbr[r] : nbr[r][n] >= 0}
<1>1. /\ UNCHANGED env /\ db' = db /\ seq' = Bump(r)
      /\ nbr' = [nbr EXCEPT ![r] = Restrict(nbr[r], left)]
      /\ chan' = SendLsu(chan, r, seq'[r], left)
    BY DEF NbrTimeout
<1>2. chan \in Packets /\ left \in SUBSET Peers(r) /\ seq'[r] \in SeqNumber
    BY <1>1, BumpTyped DEF MospfInv, Tables, NeighboursOf
<1>3. DOMAIN Restrict(nbr[r], left) = left
    BY RestrictLemma
<1> HIDE DEF left
<1>4. DOMAIN nbr'[r] = left /\ \A o \in Router \ {r} : DOMAIN nbr'[o] = DOMAIN nbr[o]
    BY <1>1, <1>3 DEF MospfInv, Shapes
<1>5. \A m \in Packet : InFlight(chan', m) =>
          InFlight(chan, m) \/ m = Lsu(r, seq'[r], DOMAIN nbr'[r])
    BY <1>1, <1>2, <1>4, SendLsuFlies
<1> QED BY <1>1, <1>4, <1>5, NumberTaken

LEMMA SeqHandleHello ==
    ASSUME MospfInv, SeqInv, NoWrap, NEW w \in Wire, HandleHello(w)
    PROVE  SeqInv'
<1> DEFINE n == w[1]
           r == w[2]
           heard == [m \in DOMAIN nbr[r] \cup {n} |->
                        IF m = n THEN 3 * HELLOINT ELSE nbr[r][m]]
<1>1. /\ chan \in Packets /\ chan[w] # <<>> /\ n \in Peers(r) /\ r \in Router
      /\ Taken(w) \in Packets /\ NeighboursOf(r, nbr[r])
    BY Receiving DEF HandleHello, MospfInv
<1>2. /\ UNCHANGED env /\ db' = db /\ nbr' = [nbr EXCEPT ![r] = heard]
      /\ \/ n \in DOMAIN nbr[r] /\ chan' = Taken(w) /\ seq' = seq
         \/ seq' = Bump(r) /\ chan' = SendLsu(Taken(w), r, seq'[r], DOMAIN heard)
    BY DEF HandleHello
<1>3. DOMAIN heard = DOMAIN nbr[r] \cup {n}
    OBVIOUS
<1> HIDE DEF heard, n, r
<1>4. DOMAIN nbr'[r] = DOMAIN heard /\ \A o \in Router \ {r} : DOMAIN nbr'[o] = DOMAIN nbr[o]
    BY <1>1, <1>2 DEF MospfInv, Shapes
<1>5. CASE n \in DOMAIN nbr[r] /\ chan' = Taken(w) /\ seq' = seq
    <2>1. \A o \in Router : DOMAIN nbr'[o] = DOMAIN nbr[o]
        BY <1>3, <1>4, <1>5
    <2>2. \A m \in Packet : InFlight(chan', m) => InFlight(chan, m)
        BY <1>1, <1>5, TakenFlies
    <2>3. (NobodyRestarted' => NobodyRestarted) /\ (up' # Router => failures' >= 1)
        BY <1>2 DEF NobodyRestarted, SeqInv, env
    <2> QED BY <1>2, <1>5, <2>1, <2>2, <2>3, NumbersKept
<1>6. CASE seq' = Bump(r) /\ chan' = SendLsu(Taken(w), r, seq'[r], DOMAIN heard)
    <2>1. seq'[r] \in SeqNumber
        BY <1>1, <1>6, BumpTyped DEF MospfInv
    <2>2. DOMAIN heard \in SUBSET Peers(r)
        BY <1>1, <1>3 DEF NeighboursOf
    <2>3. ASSUME NEW m \in Packet, InFlight(chan', m)
          PROVE  InFlight(chan, m) \/ m = Lsu(r, seq'[r], DOMAIN nbr'[r])
        <3>1. InFlight(Taken(w), m) \/ m = Lsu(r, seq'[r], DOMAIN heard)
            BY <2>3, <1>1, <1>6, <2>1, <2>2, SendLsuFlies
        <3> QED BY <3>1, <1>1, <1>4, TakenFlies
    <2> QED BY <1>1, <1>2, <1>4, <1>6, <2>3, NumberTaken
<1> QED BY <1>2, <1>5, <1>6

LEMMA SeqDropLsu ==
    ASSUME MospfInv, SeqInv, NEW w \in Wire, DropLsu(w)
    PROVE  SeqInv'
<1>1. /\ up' = up /\ failures' = failures /\ seq' = seq /\ nbr' = nbr /\ db' = db
      /\ chan' = Taken(w) /\ chan[w] # <<>> /\ chan \in Packets
    BY DEF DropLsu, env, proto, MospfInv
<1>2. \A m \in Packet : InFlight(chan', m) => InFlight(chan, m)
    BY <1>1, TakenFlies
<1>3. (NobodyRestarted' => NobodyRestarted) /\ (up' # Router => failures' >= 1)
    BY <1>1 DEF NobodyRestarted, SeqInv
<1> QED BY <1>1, <1>2, <1>3, NumbersKept

LEMMA SeqAcceptLsu ==
    ASSUME MospfInv, SeqInv, NEW w \in Wire, AcceptLsu(w)
    PROVE  SeqInv'
<1> DEFINE r == w[2]
           m == Head(chan[w])
           d == Updated(r, m)
<1>1. /\ r \in Router /\ m \in Packet /\ Taken(w) \in Packets
      /\ chan \in Packets /\ chan[w] # <<>> /\ ~IsHello(m) /\ InFlight(chan, m)
    BY Receiving, HeadFlies DEF AcceptLsu, MospfInv
<1>2. /\ up' = up /\ failures' = failures /\ seq' = seq /\ nbr' = nbr
      /\ db' = [db EXCEPT ![r] = d]
      /\ chan' = IF m.ttl > 1
                 THEN Put(Taken(w), {<<r, q>> : q \in DOMAIN nbr[r] \ {w[1]}}, Onward(m))
                 ELSE Taken(w)
    BY DEF AcceptLsu, env
<1>3. \A o \in DOMAIN d : \/ o \in DOMAIN db[r] /\ d[o] = db[r][o]
                          \/ o = m.rid /\ d[o].seq = m.seq /\ d[o].adv = m.adv
    BY DEF Updated
<1> HIDE DEF r, m, d
<1>4. ASSUME NEW x \in Packet, InFlight(chan', x), ~IsHello(x)
      PROVE  \E p \in Packet : /\ InFlight(chan, p) /\ ~IsHello(p)
                               /\ p.rid = x.rid /\ p.seq = x.seq /\ p.adv = x.adv
    <2>1. CASE InFlight(Taken(w), x)
        BY <1>1, <1>4, <2>1, TakenFlies
    <2>2. CASE m.ttl > 1 /\ ~InFlight(Taken(w), x)
        <3>1. Onward(m) \in Packet
            BY <1>1, <2>2, SentOnSays
        <3>2. x = Onward(m)
            BY <1>1, <1>2, <1>4, <2>2, <3>1, PutFlies
        <3>3. x.rid = m.rid /\ x.seq = m.seq /\ x.adv = m.adv
            BY <1>1, <2>2, <3>2, SentOnSays
        <3> QED BY <1>1, <3>3
    <2> QED BY <1>2, <1>4, <2>1, <2>2
<1>5. db'[r] = d /\ \A q \in Router \ {r} : db'[q] = db[q]
    BY <1>1, <1>2 DEF MospfInv, Shapes
<1>6. ASSUME NEW q \in Router, NEW o \in DOMAIN db'[q]
      PROVE  \/ /\ o \in DOMAIN db[q]
                /\ db'[q][o].seq = db[q][o].seq /\ db'[q][o].adv = db[q][o].adv
             \/ \E p \in Packet :
                   /\ InFlight(chan, p) /\ ~IsHello(p) /\ p.rid = o
                   /\ db'[q][o].seq = p.seq /\ db'[q][o].adv = p.adv
    <2>1. CASE q = r
        BY <2>1, <1>1, <1>3, <1>5
    <2>2. CASE q # r
        BY <2>2, <1>5
    <2> QED BY <2>1, <2>2
<1>7. (NobodyRestarted' => NobodyRestarted) /\ (up' # Router => failures' >= 1)
    BY <1>2 DEF NobodyRestarted, SeqInv
<1> QED BY <1>2, <1>4, <1>6, <1>7, NumbersKept

LEMMA SeqDbTimeout ==
    ASSUME MospfInv, SeqInv, NEW r \in Router, DbTimeout(r)
    PROVE  SeqInv'
<1> DEFINE left == {o \in DOMAIN db[r] : db[r][o].alive > 0}
           d == Restrict(db[r], left)
<1>1. /\ up' = up /\ failures' = failures /\ seq' = seq /\ nbr' = nbr /\ chan' = chan
      /\ db' = [db EXCEPT ![r] = d]
    BY DEF DbTimeout, env
<1>2. \A o \in DOMAIN d : o \in DOMAIN db[r] /\ d[o] = db[r][o]
    BY RestrictLemma
<1> HIDE DEF d
<1>3. db'[r] = d /\ \A q \in Router \ {r} : db'[q] = db[q]
    BY <1>1 DEF MospfInv, Shapes
<1>4. \A q \in Router : \A o \in DOMAIN db'[q] :
          /\ o \in DOMAIN db[q]
          /\ db'[q][o].seq = db[q][o].seq /\ db'[q][o].adv = db[q][o].adv
    BY <1>2, <1>3
<1>5. (NobodyRestarted' => NobodyRestarted) /\ (up' # Router => failures' >= 1)
    BY <1>1 DEF NobodyRestarted, SeqInv
<1> QED BY <1>1, <1>4, <1>5, NumbersKept

LEMMA SeqTick ==
    ASSUME MospfInv, SeqInv, Tick
    PROVE  SeqInv'
<1>1. up' = up /\ failures' = failures /\ seq' = seq /\ chan' = chan
    BY DEF Tick, env
<1>2. \A o \in Router : DOMAIN nbr'[o] = DOMAIN nbr[o]
    BY DEF Tick
<1>3. ASSUME NEW r \in Router, NEW o \in DOMAIN db'[r]
      PROVE  /\ o \in DOMAIN db[r]
             /\ db'[r][o].seq = db[r][o].seq /\ db'[r][o].adv = db[r][o].adv
    <2>1. db'[r] = [p \in DOMAIN db[r] |-> [db[r][p] EXCEPT !.alive = @ - 1]]
        BY DEF Tick
    <2>2. o \in DOMAIN db[r] /\ db'[r][o] = [db[r][o] EXCEPT !.alive = db[r][o].alive - 1]
        BY <2>1
    <2>3. db[r][o] \in Entry
        BY <2>2 DEF MospfInv, Tables, DatabaseOf
    <2> QED BY <2>2, <2>3 DEF Entry
<1>4. (NobodyRestarted' => NobodyRestarted) /\ (up' # Router => failures' >= 1)
    BY <1>1 DEF NobodyRestarted, SeqInv
<1> QED BY <1>1, <1>2, <1>3, <1>4, NumbersKept

LEMMA SeqFailure ==
    ASSUME MospfInv, SeqInv, Failure
    PROVE  SeqInv'
<1>1. chan \in Packets /\ up \subseteq Router /\ failures \in Nat
    BY Constants DEF MospfInv, EnvTypes
<1>2. ASSUME NEW r \in Router, Crash(r) PROVE SeqInv'
    <2>1. up' # Router /\ failures' >= 1
        BY <1>1, <1>2 DEF Crash, Fail
    <2> QED BY <2>1 DEF SeqInv, NobodyRestarted
<1>3. ASSUME NEW r \in Router, Restart(r) PROVE SeqInv'
    <2>1. failures >= 1 /\ failures' = failures + 1
        BY <1>3 DEF Restart, Fail, SeqInv
    <2> QED BY <1>1, <2>1 DEF SeqInv, NobodyRestarted
<1>4. ASSUME up' = up, failures' = failures + 1, UNCHANGED proto, chan' \in Packets,
             \A m : InFlight(chan', m) => InFlight(chan, m)
      PROVE  SeqInv'
    <2>1. seq' = seq /\ nbr' = nbr /\ db' = db
        BY <1>4 DEF proto
    <2>2. (NobodyRestarted' => NobodyRestarted) /\ (up' # Router => failures' >= 1)
        BY <1>1, <1>4 DEF NobodyRestarted, SeqInv
    <2> QED BY <1>4, <2>1, <2>2, NumbersKept
<1>5. ASSUME NEW l \in Link, Cut(l) PROVE SeqInv'
    <2>1. up' = up /\ failures' = failures + 1 /\ UNCHANGED proto
        BY <1>5 DEF Cut, Fail
    <2>2. chan' \in Packets /\ \A w \in Wire : chan'[w] = <<>> \/ chan'[w] = chan[w]
        BY <1>1, <1>5 DEF Cut, Packets
    <2>3. \A m : InFlight(chan', m) => InFlight(chan, m)
        BY <2>2 DEF InFlight
    <2> QED BY <1>4, <2>1, <2>2, <2>3
<1>6. ASSUME NEW l \in Link, Mend(l) PROVE SeqInv'
    <2>1. up' = up /\ failures' = failures + 1 /\ UNCHANGED proto /\ chan' = chan
        BY <1>6 DEF Mend, Fail
    <2> QED BY <1>1, <1>4, <2>1
<1> QED BY <1>2, <1>3, <1>5, <1>6 DEF Failure

LEMMA SeqInvStep == MospfInv /\ NoWrap /\ SeqInv /\ [Next]_vars => SeqInv'
<1> SUFFICES ASSUME MospfInv, NoWrap, SeqInv, [Next]_vars PROVE SeqInv'
    OBVIOUS
<1>1. ASSUME NEW r \in Router, HelloTimeout(r) \/ NbrTimeout(r) \/ LsuTimeout(r) \/ DbTimeout(r)
      PROVE  SeqInv'
    BY <1>1, SeqHelloTimeout, SeqNbrTimeout, SeqLsuTimeout, SeqDbTimeout
<1>2. ASSUME NEW w \in Wire, HandleHello(w) \/ DropLsu(w) \/ AcceptLsu(w)
      PROVE  SeqInv'
    BY <1>2, SeqHandleHello, SeqDropLsu, SeqAcceptLsu
<1>3. ASSUME UNCHANGED vars PROVE SeqInv'
    BY <1>3 DEF vars, SeqInv, NobodyRestarted, EntriesSay, PacketsSay
<1> QED BY <1>1, <1>2, <1>3, SeqTick, SeqFailure DEF Next, Work

\* As long as no router reaches its last sequence number and nobody has restarted,
\* whatever carries a router's current number, in a database or in flight, lists its
\* current neighbours: each of the three places that bump sequence_num announces the
\* list as it has just become, and an older announcement can no longer be taken for it.
THEOREM NumbersNameLinks == Spec /\ []NoWrap => []SeqNamesLinks
<1>1. SeqInv /\ MospfInv => SeqNamesLinks
    BY SeqInvNames
<1> QED BY <1>1, SeqInvInit, SeqInvStep, InvAlways, PTL DEF Spec

-----------------------------------------------------------------------------
\* Wires.

\* Packet m is on its way over wire w.
Carries(ch, w, m) == \E i \in 1..Len(ch[w]) : ch[w][i] = m

Lsus == Packet \ {Hello}

LEMMA CarriesTyped ==
    ASSUME NEW ch \in Packets, NEW w \in Wire
    PROVE  /\ \A x : Carries(ch, w, x) => x \in Packet /\ ch[w] # <<>>
           /\ ch[w] # <<>> => \E x \in Packet : Carries(ch, w, x)
           /\ \A x : ~Carries([ch EXCEPT ![w] = <<>>], w, x)
<1>1. ch[w] \in Seq(Packet)
    BY DEF Packets
<1>2. ASSUME NEW x, Carries(ch, w, x)
      PROVE  x \in Packet /\ ch[w] # <<>>
    <2>1. PICK i \in 1..Len(ch[w]) : ch[w][i] = x
        BY <1>2 DEF Carries
    <2> QED BY <1>1, <2>1
<1>3. ASSUME ch[w] # <<>>
      PROVE  \E x \in Packet : Carries(ch, w, x)
    <2>1. 1 \in 1..Len(ch[w]) /\ ch[w][1] \in Packet
        BY <1>1, <1>3
    <2> QED BY <2>1 DEF Carries
<1>4. \A x : ~Carries([ch EXCEPT ![w] = <<>>], w, x)
    BY DEF Packets, Carries
<1> QED BY <1>2, <1>3, <1>4

LEMMA CarriesPut ==
    ASSUME NEW ch \in Packets, NEW W, NEW m \in Packet, NEW w \in Wire, NEW x
    PROVE  Carries(Put(ch, W, m), w, x)
             <=> \/ Carries(ch, w, x)
                 \/ w \in W /\ Alive(w) /\ x = m
<1>1. ch[w] \in Seq(Packet)
    BY DEF Packets
<1>2. Put(ch, W, m)[w] = IF w \in W /\ Alive(w) THEN Append(ch[w], m) ELSE ch[w]
    BY DEF Put
<1>3. CASE ~(w \in W /\ Alive(w))
    BY <1>2, <1>3 DEF Carries
<1>4. CASE w \in W /\ Alive(w)
    <2>1. /\ Len(ch[w]) \in Nat /\ Len(Append(ch[w], m)) = Len(ch[w]) + 1
          /\ \A i \in 1..Len(ch[w]) : Append(ch[w], m)[i] = ch[w][i]
          /\ Append(ch[w], m)[Len(ch[w]) + 1] = m
        BY <1>1
    <2>2. Put(ch, W, m)[w] = Append(ch[w], m)
        BY <1>2, <1>4
    <2>3. Carries(Put(ch, W, m), w, x) => Carries(ch, w, x) \/ x = m
        BY <2>1, <2>2 DEF Carries
    <2>4. Carries(ch, w, x) \/ x = m => Carries(Put(ch, W, m), w, x)
        <3>1. 1..Len(ch[w]) \subseteq 1..(Len(ch[w]) + 1) /\ Len(ch[w]) + 1 \in 1..(Len(ch[w]) + 1)
            BY <2>1
        <3> QED BY <2>1, <2>2, <3>1 DEF Carries
    <2> QED BY <2>3, <2>4, <1>4
<1> QED BY <1>3, <1>4

LEMMA CarriesTaken ==
    ASSUME chan \in Packets, NEW w \in Wire, chan[w] # <<>>, NEW v \in Wire, NEW x
    PROVE  /\ Carries(chan, w, Head(chan[w]))
           /\ Carries(Taken(w), v, x) => Carries(chan, v, x)
           /\ Carries(chan, v, x) => Carries(Taken(w), v, x) \/ (v = w /\ x = Head(chan[w]))
<1>1. chan[w] \in Seq(Packet)
    BY DEF Packets
<1>2. Taken(w)[v] = IF v = w THEN Tail(chan[w]) ELSE chan[v]
    BY DEF Taken, Packets
<1>3. /\ Len(chan[w]) \in Nat /\ Len(chan[w]) > 0 /\ Len(Tail(chan[w])) = Len(chan[w]) - 1
      /\ \A i \in 1..(Len(chan[w]) - 1) : Tail(chan[w])[i] = chan[w][i + 1]
      /\ chan[w][1] = Head(chan[w])
    BY <1>1
<1>4. Carries(chan, w, Head(chan[w]))
    <2>1. 1 \in 1..Len(chan[w])
        BY <1>3
    <2> QED BY <1>3, <2>1 DEF Carries
<1>5. CASE v # w
    BY <1>2, <1>4, <1>5 DEF Carries
<1>6. CASE v = w
    <2>1. ASSUME Carries(Taken(w), v, x)
          PROVE  Carries(chan, v, x)
        <3>1. PICK i \in 1..(Len(chan[w]) - 1) : Tail(chan[w])[i] = x
            BY <1>2, <1>3, <1>6, <2>1 DEF Carries
        <3>2. i + 1 \in 1..Len(chan[w]) /\ chan[w][i + 1] = x
            BY <1>3, <3>1
        <3> QED BY <1>6, <3>2 DEF Carries
    <2>2. ASSUME Carries(chan, v, x), x # Head(chan[w])
          PROVE  Carries(Taken(w), v, x)
        <3>1. PICK i \in 1..Len(chan[w]) : chan[w][i] = x
            BY <1>6, <2>2 DEF Carries
        <3>2. i # 1
            BY <1>3, <2>2, <3>1
        <3>3. i - 1 \in 1..(Len(chan[w]) - 1) /\ (i - 1) + 1 = i
            BY <1>3, <3>1, <3>2
        <3>4. Tail(chan[w])[i - 1] = x
            BY <1>3, <3>1, <3>3
        <3> QED BY <1>2, <1>3, <1>6, <3>3, <3>4 DEF Carries
    <2> QED BY <1>4, <1>6, <2>1, <2>2
<1> QED BY <1>5, <1>6

LEMMA LsuIsPacket ==
    ASSUME NEW r \in Router, NEW s \in SeqNumber, NEW N \in SUBSET Peers(r)
    PROVE  Lsu(r, s, N) \in Packet /\ Lsu(r, s, N) \in Lsus
<1>1. /\ Lsu(r, s, N) \in LsuPacket /\ Lsu(r, s, N).adv = N /\ Lsu(r, s, N).rid = r
      /\ Lsu(r, s, N).type = "lsu" /\ Hello.type = "hello"
    BY NewTtl DEF Lsu, LsuPacket, SeqNumber, Peers, Hello
<1>2. Lsu(r, s, N) \in Packet
    BY <1>1 DEF Packet
<1>3. Lsu(r, s, N) # Hello
    BY <1>1
<1> QED BY <1>2, <1>3 DEF Lsus

\* send_mospf_lsu.
LEMMA CarriesSendLsu ==
    ASSUME NEW ch \in Packets, NEW r \in Router, NEW s \in SeqNumber, NEW N \in SUBSET Peers(r),
           NEW w \in Wire, NEW x
    PROVE  Carries(SendLsu(ch, r, s, N), w, x)
             <=> \/ Carries(ch, w, x)
                 \/ w[1] = r /\ w[2] \in N /\ Alive(w) /\ x = Lsu(r, s, N)
<1>1. w \in {<<r, n>> : n \in N} <=> w[1] = r /\ w[2] \in N
    BY DEF Wire
<1> QED BY <1>1, LsuIsPacket, CarriesPut DEF SendLsu

-----------------------------------------------------------------------------
\* What the steps send and take.

\* What r announces in a step, as it goes out over wire v.
Announced(r, v, x) ==
    /\ v[1] = r /\ v[2] \in DOMAIN nbr'[r] /\ Alive(v)
    /\ x = Lsu(r, seq'[r], DOMAIN nbr'[r])

LEMMA HelloTimeoutSends ==
    ASSUME MospfInv, NEW r \in Router, HelloTimeout(r)
    PROVE  /\ r \in up /\ UNCHANGED <<env, calm, seq, lsuint, nbr, db, routes>>
           /\ helloint'[r] = HELLOINT /\ \A q \in Router \ {r} : helloint'[q] = helloint[q]
           /\ \A w \in Wire : \A x : Carries(chan', w, x)
                <=> \/ Carries(chan, w, x)
                    \/ w[1] = r /\ Alive(w) /\ x = Hello
<1>1. Hello \in Packet /\ chan \in Packets
    BY DEF Packet, MospfInv
<1>2. helloint \in [Router -> 0..HELLOINT]
    BY DEF MospfInv, TimerTypes
<1>3. /\ r \in up /\ UNCHANGED <<env, calm, seq, lsuint, nbr, db, routes>>
      /\ helloint'[r] = HELLOINT /\ \A q \in Router \ {r} : helloint'[q] = helloint[q]
      /\ chan' = Put(chan, {w \in Wire : w[1] = r}, Hello)
    BY <1>2 DEF HelloTimeout
<1> QED BY <1>1, <1>3, CarriesPut

LEMMA HandleHelloSends ==
    ASSUME MospfInv, NEW w \in Wire, HandleHello(w)
    PROVE  /\ w[2] \in up /\ w[1] \in Peers(w[2]) /\ Carries(chan, w, Hello)
           /\ UNCHANGED <<env, calm, helloint, lsuint, db, routes>>
           /\ DOMAIN nbr'[w[2]] = DOMAIN nbr[w[2]] \cup {w[1]}
           /\ nbr'[w[2]][w[1]] = 3 * HELLOINT
           /\ \A n \in DOMAIN nbr[w[2]] \ {w[1]} : nbr'[w[2]][n] = nbr[w[2]][n]
           /\ \A q \in Router \ {w[2]} : nbr'[q] = nbr[q]
           /\ \/ /\ w[1] \in DOMAIN nbr[w[2]] /\ seq' = seq
                 /\ \A v \in Wire : \A x :
                       /\ Carries(chan', v, x) => Carries(chan, v, x)
                       /\ Carries(chan, v, x) => Carries(chan', v, x) \/ (v = w /\ x = Hello)
              \/ /\ w[1] \notin DOMAIN nbr[w[2]] /\ seq' = Bump(w[2])
                 /\ \A v \in Wire : \A x :
                       /\ Carries(chan', v, x) => Carries(chan, v, x) \/ Announced(w[2], v, x)
                       /\ Carries(chan, v, x) => Carries(chan', v, x) \/ (v = w /\ x = Hello)
                       /\ Announced(w[2], v, x) => Carries(chan', v, x)
<1> DEFINE n == w[1]
           r == w[2]
           heard == [m \in DOMAIN nbr[r] \cup {n} |->
                        IF m = n THEN 3 * HELLOINT ELSE nbr[r][m]]
<1>1. /\ chan \in Packets /\ chan[w] # <<>> /\ n \in Peers(r) /\ r \in Router /\ r \in up
      /\ Taken(w) \in Packets /\ NeighboursOf(r, nbr[r]) /\ Head(chan[w]) = Hello
    BY Receiving DEF HandleHello, MospfInv, IsHello
<1>2. /\ UNCHANGED <<env, calm, helloint, lsuint, db, routes>> /\ nbr' = [nbr EXCEPT ![r] = heard]
      /\ \/ n \in DOMAIN nbr[r] /\ chan' = Taken(w) /\ seq' = seq
         \/ n \notin DOMAIN nbr[r] /\ seq' = Bump(r) /\ chan' = SendLsu(Taken(w), r, seq'[r], DOMAIN heard)
    BY DEF HandleHello
<1>3. /\ DOMAIN heard = DOMAIN nbr[r] \cup {n} /\ heard[n] = 3 * HELLOINT
      /\ \A m \in DOMAIN nbr[r] \ {n} : heard[m] = nbr[r][m]
    OBVIOUS
<1> HIDE DEF heard, n, r
<1>4. nbr'[r] = heard /\ \A q \in Router \ {r} : nbr'[q] = nbr[q]
    BY <1>1, <1>2 DEF MospfInv, Shapes
<1>5. \A v \in Wire : \A x :
          /\ Carries(chan, w, Hello)
          /\ Carries(Taken(w), v, x) => Carries(chan, v, x)
          /\ Carries(chan, v, x) => Carries(Taken(w), v, x) \/ (v = w /\ x = Hello)
    BY <1>1, CarriesTaken
<1>6. ASSUME n \notin DOMAIN nbr[r], seq' = Bump(r), chan' = SendLsu(Taken(w), r, seq'[r], DOMAIN heard)
      PROVE  \A v \in Wire : \A x :
                 Carries(chan', v, x) <=> Carries(Taken(w), v, x) \/ Announced(r, v, x)
    <2>1. seq'[r] \in SeqNumber
        BY <1>1, <1>6, BumpTyped DEF MospfInv
    <2>2. DOMAIN heard \in SUBSET Peers(r)
        BY <1>1, <1>3 DEF NeighboursOf
    <2> QED BY <1>1, <1>4, <1>6, <2>1, <2>2, CarriesSendLsu DEF Announced
<1>7. CASE n \in DOMAIN nbr[r] /\ chan' = Taken(w) /\ seq' = seq
    BY <1>1, <1>2, <1>3, <1>4, <1>5, <1>7 DEF n, r
<1>8. CASE n \notin DOMAIN nbr[r] /\ seq' = Bump(r) /\ chan' = SendLsu(Taken(w), r, seq'[r], DOMAIN heard)
    <2>1. \A v \in Wire : \A x :
              /\ Carries(chan', v, x) => Carries(chan, v, x) \/ Announced(r, v, x)
              /\ Carries(chan, v, x) => Carries(chan', v, x) \/ (v = w /\ x = Hello)
              /\ Announced(r, v, x) => Carries(chan', v, x)
        BY <1>5, <1>6, <1>8
    <2> QED BY <1>1, <1>2, <1>3, <1>4, <1>5, <1>8, <2>1 DEF n, r
<1> QED BY <1>2, <1>7, <1>8

LEMMA NbrTimeoutSends ==
    ASSUME MospfInv, NEW r \in Router, NbrTimeout(r)
    PROVE  /\ r \in up /\ UNCHANGED <<env, calm, helloint, lsuint, db, routes>> /\ seq' = Bump(r)
           /\ DOMAIN nbr'[r] = {n \in DOMAIN nbr[r] : nbr[r][n] >= 0}
           /\ DOMAIN nbr'[r] # DOMAIN nbr[r]
           /\ \A n \in DOMAIN nbr'[r] : nbr'[r][n] = nbr[r][n]
           /\ \A q \in Router \ {r} : nbr'[q] = nbr[q]
           /\ \A w \in Wire : \A x : Carries(chan', w, x)
                <=> Carries(chan, w, x) \/ Announced(r, w, x)
<1> DEFINE left == {n \in DOMAIN nbr[r] : nbr[r][n] >= 0}
<1>1. /\ r \in up /\ UNCHANGED <<env, calm, helloint, lsuint, db, routes>> /\ seq' = Bump(r)
      /\ nbr' = [nbr EXCEPT ![r] = Restrict(nbr[r], left)] /\ left # DOMAIN nbr[r]
      /\ chan' = SendLsu(chan, r, seq'[r], left)
    BY DEF NbrTimeout
<1>2. chan \in Packets /\ left \in SUBSET Peers(r) /\ seq'[r] \in SeqNumber
    BY <1>1, BumpTyped DEF MospfInv, Tables, NeighboursOf
<1>3. DOMAIN Restrict(nbr[r], left) = left /\ \A n \in left : Restrict(nbr[r], left)[n] = nbr[r][n]
    BY RestrictLemma
<1>4. left = {n \in DOMAIN nbr[r] : nbr[r][n] >= 0}
    OBVIOUS
<1> HIDE DEF left
<1>5. nbr'[r] = Restrict(nbr[r], left) /\ \A q \in Router \ {r} : nbr'[q] = nbr[q]
    BY <1>1 DEF MospfInv, Shapes
<1>6. \A w \in Wire : \A x : Carries(chan', w, x)
          <=> Carries(chan, w, x) \/ Announced(r, w, x)
    BY <1>1, <1>2, <1>3, <1>5, CarriesSendLsu DEF Announced
<1> QED BY <1>1, <1>3, <1>4, <1>5, <1>6

LEMMA LsuTimeoutSends ==
    ASSUME MospfInv, NEW r \in Router, LsuTimeout(r)
    PROVE  /\ r \in up /\ UNCHANGED <<env, calm, helloint, nbr, db, routes>> /\ seq' = Bump(r)
           /\ lsuint[r] = 0 /\ lsuint'[r] = LSUINT
           /\ \A q \in Router \ {r} : lsuint'[q] = lsuint[q]
           /\ \A w \in Wire : \A x : Carries(chan', w, x)
                <=> Carries(chan, w, x) \/ Announced(r, w, x)
<1>1. /\ r \in up /\ UNCHANGED <<env, calm, helloint, nbr, db, routes>> /\ seq' = Bump(r)
      /\ lsuint[r] = 0 /\ lsuint' = [lsuint EXCEPT ![r] = LSUINT]
      /\ chan' = SendLsu(chan, r, seq'[r], DOMAIN nbr'[r])
    BY DEF LsuTimeout
<1>2. chan \in Packets /\ DOMAIN nbr'[r] \in SUBSET Peers(r) /\ seq'[r] \in SeqNumber
    BY <1>1, BumpTyped DEF MospfInv, Tables, NeighboursOf
<1>3. \A w \in Wire : \A x : Carries(chan', w, x)
          <=> Carries(chan, w, x) \/ Announced(r, w, x)
    BY <1>1, <1>2, CarriesSendLsu DEF Announced
<1> QED BY <1>1, <1>3 DEF MospfInv, TimerTypes

LEMMA DropLsuLoses ==
    ASSUME MospfInv, NEW w \in Wire, DropLsu(w)
    PROVE  /\ UNCHANGED <<env, calm, proto>>
           /\ \A v \in Wire : \A x :
                 /\ Carries(chan', v, x) => Carries(chan, v, x)
                 /\ Carries(chan, v, x) =>
                       \/ Carries(chan', v, x)
                       \/ v = w /\ x # Hello /\ Stale(w[2], x)
<1>1. chan \in Packets /\ chan[w] # <<>> /\ chan' = Taken(w)
      /\ Head(chan[w]) # Hello /\ Stale(w[2], Head(chan[w])) /\ UNCHANGED <<env, calm, proto>>
    BY DEF DropLsu, MospfInv, IsHello
<1> QED BY <1>1, CarriesTaken

LEMMA AcceptLsuSends ==
    ASSUME MospfInv, NEW w \in Wire, AcceptLsu(w)
    PROVE  \E m \in Lsus :
           /\ w[2] \in up /\ Carries(chan, w, m) /\ ~Stale(w[2], m)
           /\ UNCHANGED <<env, calm, seq, helloint, lsuint, nbr>>
           /\ DOMAIN db'[w[2]] = DOMAIN db[w[2]] \cup {m.rid}
           /\ db'[w[2]][m.rid] = [seq |-> m.seq, adv |-> m.adv, alive |-> DBTIMEOUT]
           /\ \A o \in DOMAIN db[w[2]] \ {m.rid} : db'[w[2]][o] = db[w[2]][o]
           /\ \A q \in Router \ {w[2]} : db'[q] = db[q] /\ routes'[q] = routes[q]
           /\ routes'[w[2]] = View(w[2], db'[w[2]], DOMAIN nbr[w[2]])
           /\ \A v \in Wire : \A x :
                 /\ Carries(chan', v, x) => Carries(chan, v, x) \/ (SentOn(m, x) /\ v[1] = w[2])
                 /\ Carries(chan, v, x) => Carries(chan', v, x) \/ (x = m /\ v = w)
                 /\ SentOn(m, x) /\ v[1] = w[2] /\ v[2] \in DOMAIN nbr[w[2]] \ {w[1]} /\ Alive(v)
                       => Carries(chan', v, x)
<1> DEFINE n == w[1]
           r == w[2]
           m == Head(chan[w])
           d == Updated(r, m)
           W == {<<r, q>> : q \in DOMAIN nbr[r] \ {n}}
<1>1. /\ chan \in Packets /\ chan[w] # <<>> /\ r \in Router /\ r \in up
      /\ Taken(w) \in Packets /\ m \in Packet /\ ~IsHello(m) /\ ~Stale(r, m)
    BY Receiving DEF AcceptLsu, MospfInv
<1>2. m \in Lsus
    BY <1>1 DEF Lsus, IsHello
<1>3. /\ UNCHANGED <<env, calm, seq, helloint, lsuint, nbr>>
      /\ db' = [db EXCEPT ![r] = d] /\ routes' = [routes EXCEPT ![r] = View(r, d, DOMAIN nbr[r])]
      /\ chan' = IF m.ttl > 1 THEN Put(Taken(w), W, Onward(m)) ELSE Taken(w)
    BY DEF AcceptLsu
<1>4. /\ DOMAIN d = DOMAIN db[r] \cup {m.rid}
      /\ d[m.rid] = [seq |-> m.seq, adv |-> m.adv, alive |-> DBTIMEOUT]
      /\ \A o \in DOMAIN db[r] \ {m.rid} : d[o] = db[r][o]
    BY DEF Updated
<1>5. \A v \in Wire : v \in W <=> v[1] = r /\ v[2] \in DOMAIN nbr[r] \ {n}
    BY DEF Wire
<1> HIDE DEF n, r, m, d, W
<1>6. /\ db'[r] = d /\ routes'[r] = View(r, d, DOMAIN nbr[r])
      /\ \A q \in Router \ {r} : db'[q] = db[q] /\ routes'[q] = routes[q]
    BY <1>1, <1>3 DEF MospfInv, Shapes
<1>7. \A v \in Wire : \A x :
          Carries(chan', v, x)
            <=> Carries(Taken(w), v, x) \/ (v \in W /\ Alive(v) /\ SentOn(m, x))
    <2>1. CASE m.ttl > 1
        BY <1>1, <1>3, <2>1, SentOnSays, CarriesPut DEF SentOn
    <2>2. CASE ~(m.ttl > 1)
        BY <1>3, <2>2 DEF SentOn
    <2> QED BY <2>1, <2>2
<1>8. \A v \in Wire : \A x :
          /\ Carries(chan, w, m)
          /\ Carries(Taken(w), v, x) => Carries(chan, v, x)
          /\ Carries(chan, v, x) => Carries(Taken(w), v, x) \/ (v = w /\ x = m)
    BY <1>1, CarriesTaken DEF m
<1>9. \A v \in Wire : \A x :
                 /\ Carries(chan', v, x) => Carries(chan, v, x) \/ (SentOn(m, x) /\ v[1] = r)
                 /\ Carries(chan, v, x) => Carries(chan', v, x) \/ (x = m /\ v = w)
                 /\ SentOn(m, x) /\ v[1] = r /\ v[2] \in DOMAIN nbr[r] \ {n} /\ Alive(v)
                       => Carries(chan', v, x)
    BY <1>5, <1>7, <1>8
<1> QED BY <1>1, <1>2, <1>3, <1>4, <1>6, <1>8, <1>9 DEF n, r

LEMMA DbTimeoutDrops ==
    ASSUME MospfInv, NEW r \in Router, DbTimeout(r)
    PROVE  /\ r \in up /\ UNCHANGED <<env, calm, seq, helloint, lsuint, nbr, chan>>
           /\ DOMAIN db'[r] = {o \in DOMAIN db[r] : db[r][o].alive > 0}
           /\ \A o \in DOMAIN db'[r] : db'[r][o] = db[r][o]
           /\ \A q \in Router \ {r} : db'[q] = db[q] /\ routes'[q] = routes[q]
           /\ routes'[r] = View(r, db'[r], DOMAIN nbr[r])
<1> DEFINE left == {o \in DOMAIN db[r] : db[r][o].alive > 0}
           d == Restrict(db[r], left)
<1>1. /\ r \in up /\ UNCHANGED <<env, calm, seq, helloint, lsuint, nbr, chan>>
      /\ db' = [db EXCEPT ![r] = d] /\ routes' = [routes EXCEPT ![r] = View(r, d, DOMAIN nbr[r])]
    BY DEF DbTimeout
<1>2. DOMAIN d = {o \in DOMAIN db[r] : db[r][o].alive > 0} /\ \A o \in DOMAIN d : d[o] = db[r][o]
    BY RestrictLemma
<1> HIDE DEF d
<1>3. /\ db'[r] = d /\ routes'[r] = View(r, d, DOMAIN nbr[r])
      /\ \A q \in Router \ {r} : db'[q] = db[q] /\ routes'[q] = routes[q]
    BY <1>1 DEF MospfInv, Shapes
<1> QED BY <1>1, <1>2, <1>3

LEMMA TickAges ==
    ASSUME MospfInv, Tick
    PROVE  /\ UNCHANGED <<env, seq, routes, chan>> /\ calm \in Nat /\ calm' = calm + 1
           /\ \A w \in Wire : chan[w] = <<>> /\ \A x : ~Carries(chan, w, x)
           /\ \A r \in Router \ up : helloint'[r] = helloint[r] /\ lsuint'[r] = lsuint[r]
           /\ \A r \in up : /\ helloint[r] > 0 /\ helloint'[r] = helloint[r] - 1
                            /\ lsuint[r] > 0 /\ lsuint'[r] = lsuint[r] - 1
           /\ \A r \in Router :
                 /\ DOMAIN nbr'[r] = DOMAIN nbr[r]
                 /\ \A n \in DOMAIN nbr[r] : nbr[r][n] >= 0 /\ nbr'[r][n] = nbr[r][n] - 1
                 /\ DOMAIN db'[r] = DOMAIN db[r]
                 /\ \A o \in DOMAIN db[r] :
                       /\ db'[r][o].seq = db[r][o].seq /\ db'[r][o].adv = db[r][o].adv
                       /\ db[r][o].alive > 0 /\ db'[r][o].alive = db[r][o].alive - 1
<1>1. /\ UNCHANGED <<env, seq, routes, chan>> /\ calm' = calm + 1
      /\ \A w \in Wire : chan[w] = <<>>
    BY DEF Tick, Quiet
<1>2. \A w \in Wire : \A x : ~Carries(chan, w, x)
    BY <1>1 DEF Carries
<1>3. up \subseteq Router /\ calm \in Nat
    BY Constants DEF MospfInv, EnvTypes
<1>4. /\ \A r \in Router \ up : helloint'[r] = helloint[r] /\ lsuint'[r] = lsuint[r]
      /\ \A r \in up : /\ helloint[r] > 0 /\ helloint'[r] = helloint[r] - 1
                       /\ lsuint[r] > 0 /\ lsuint'[r] = lsuint[r] - 1
    BY <1>3 DEF Tick, Quiet, Less
<1>5. ASSUME NEW r \in Router
      PROVE  /\ DOMAIN nbr'[r] = DOMAIN nbr[r]
             /\ \A n \in DOMAIN nbr[r] : nbr[r][n] >= 0 /\ nbr'[r][n] = nbr[r][n] - 1
             /\ DOMAIN db'[r] = DOMAIN db[r]
             /\ \A o \in DOMAIN db[r] :
                   /\ db'[r][o].seq = db[r][o].seq /\ db'[r][o].adv = db[r][o].adv
                   /\ db[r][o].alive > 0 /\ db'[r][o].alive = db[r][o].alive - 1
    <2>1. /\ nbr'[r] = [n \in DOMAIN nbr[r] |-> nbr[r][n] - 1]
          /\ db'[r] = [o \in DOMAIN db[r] |-> [db[r][o] EXCEPT !.alive = @ - 1]]
        BY DEF Tick
    <2>2. r \notin up => DOMAIN nbr[r] = {} /\ DOMAIN db[r] = {}
        BY NothingIsEmpty DEF MospfInv, DownIsEmpty
    <2>3. /\ \A n \in DOMAIN nbr[r] : nbr[r][n] >= 0
          /\ \A o \in DOMAIN db[r] : db[r][o].alive > 0
        BY <2>2 DEF Tick, Quiet
    <2>4. ASSUME NEW o \in DOMAIN db[r]
          PROVE  /\ db'[r][o].seq = db[r][o].seq /\ db'[r][o].adv = db[r][o].adv
                 /\ db'[r][o].alive = db[r][o].alive - 1
        <3>1. db[r][o] \in Entry
            BY DEF MospfInv, Tables, DatabaseOf
        <3>2. db'[r][o] = [db[r][o] EXCEPT !.alive = db[r][o].alive - 1]
            BY <2>1
        <3> QED BY <3>1, <3>2 DEF Entry
    <2> QED BY <2>1, <2>3, <2>4
<1> QED BY <1>1, <1>2, <1>3, <1>4, <1>5

-----------------------------------------------------------------------------
\* Neighbours.  Hellos come in time over the links that are there, and over no other.

LEMMA FailureChanges ==
    ASSUME MospfInv, Failure
    PROVE  /\ calm' = 0 /\ failures' = failures + 1
           /\ \A w \in Wire : \A x : Carries(chan', w, x) => Carries(chan, w, x)
           /\ \A q \in Router :
                 \/ /\ q \in up => q \in up'
                    /\ seq'[q] = seq[q] /\ lsuint'[q] = lsuint[q]
                    /\ nbr'[q] = nbr[q] /\ db'[q] = db[q] /\ routes'[q] = routes[q]
                 \/ /\ q \notin up' /\ lsuint'[q] = LSUINT
                    /\ nbr'[q] = Nothing /\ db'[q] = Nothing /\ routes'[q] = NoRoutes
           /\ \A q \in Router : q \in up' /\ q \notin up => lsuint'[q] = lsuint[q]
<1>1. chan \in Packets /\ lsuint \in [Router -> 0..LSUINT] /\ seq \in [Router -> SeqNumber] /\ Shapes
    BY DEF MospfInv, TimerTypes
<1>2. calm' = 0 /\ failures' = failures + 1
    BY DEF Failure, Crash, Restart, Cut, Mend, Fail
<1>3. ASSUME NEW r \in Router, Crash(r)
      PROVE  /\ \A w \in Wire : chan'[w] = <<>> \/ chan'[w] = chan[w]
             /\ up' = up \ {r} /\ lsuint'[r] = LSUINT
             /\ nbr'[r] = Nothing /\ db'[r] = Nothing /\ routes'[r] = NoRoutes
             /\ \A q \in Router \ {r} :
                   /\ seq'[q] = seq[q] /\ lsuint'[q] = lsuint[q]
                   /\ nbr'[q] = nbr[q] /\ db'[q] = db[q] /\ routes'[q] = routes[q]
    BY <1>1, <1>3 DEF Crash, Shapes
<1>4. ASSUME NEW r \in Router, Restart(r)
      PROVE  /\ \A w \in Wire : chan'[w] = <<>> \/ chan'[w] = chan[w]
             /\ UNCHANGED proto /\ up \subseteq up'
    BY <1>4 DEF Restart
<1>5. ASSUME NEW l \in Link, Cut(l) \/ Mend(l)
      PROVE  /\ \A w \in Wire : chan'[w] = <<>> \/ chan'[w] = chan[w]
             /\ UNCHANGED proto /\ up \subseteq up'
    BY <1>5 DEF Cut, Mend
<1>6. \A w \in Wire : chan'[w] = <<>> \/ chan'[w] = chan[w]
    BY <1>3, <1>4, <1>5 DEF Failure
<1>7. \A w \in Wire : \A x : Carries(chan', w, x) => Carries(chan, w, x)
    BY <1>6 DEF Carries
<1>8. ASSUME UNCHANGED proto, NEW q \in Router
      PROVE  /\ seq'[q] = seq[q] /\ lsuint'[q] = lsuint[q]
             /\ nbr'[q] = nbr[q] /\ db'[q] = db[q] /\ routes'[q] = routes[q]
    BY <1>8 DEF proto
<1>9. ASSUME NEW q \in Router
      PROVE  /\ \/ /\ q \in up => q \in up'
                   /\ seq'[q] = seq[q] /\ lsuint'[q] = lsuint[q]
                   /\ nbr'[q] = nbr[q] /\ db'[q] = db[q] /\ routes'[q] = routes[q]
                \/ /\ q \notin up' /\ lsuint'[q] = LSUINT
                   /\ nbr'[q] = Nothing /\ db'[q] = Nothing /\ routes'[q] = NoRoutes
             /\ q \in up' /\ q \notin up => lsuint'[q] = lsuint[q]
    <2>1. CASE \E r \in Router : Crash(r)
        <3>1. PICK r \in Router : Crash(r)
            BY <2>1
        <3> QED BY <3>1, <1>3
    <2>2. CASE UNCHANGED proto /\ up \subseteq up'
        BY <2>2, <1>8
    <2> QED BY <2>1, <2>2, <1>4, <1>5 DEF Failure
<1> QED BY <1>2, <1>7, <1>9

-----------------------------------------------------------------------------
\* Neighbours.

\* A wire over which packets are delivered, and back.
TrueWire(w) == w[1] \in up /\ w[2] \in up /\ {w[1], w[2]} \notin cut

\* The receiving end lists the sending end, as heard of in the last seconds.
Lists(w) == w[1] \in DOMAIN nbr[w[2]]

\* By then the last neighbour that is none any more has been dropped.
NeighboursSettled == 3 * HELLOINT + 1

CalmWires == calm > 0 => \A w \in Wire : chan[w] # <<>> => TrueWire(w)

\* The next hello over a wire comes before the last one is forgotten.
HelloComes(w) ==
    \/ Carries(chan, w, Hello)
    \/ Lists(w) /\ nbr[w[2]][w[1]] >= 2 * HELLOINT + helloint[w[1]]
    \/ helloint[w[1]] + calm <= HELLOINT

HelloHeard(w) == Lists(w) /\ nbr[w[2]][w[1]] >= 2 * HELLOINT

Forgotten(w) ==
    /\ Lists(w) => nbr[w[2]][w[1]] + calm <= 3 * HELLOINT
    /\ calm > NeighboursSettled => ~Lists(w)

WireKnown(w) ==
    /\ TrueWire(w) => HelloComes(w)
    /\ TrueWire(w) /\ calm > HELLOINT => HelloHeard(w)
    /\ ~TrueWire(w) => Forgotten(w)

HelloInv == CalmWires /\ \A w \in Wire : WireKnown(w)

LEMMA HelloTypes ==
    ASSUME MospfInv, NEW w \in Wire
    PROVE  /\ w[1] \in Router /\ w[2] \in Router
           /\ helloint[w[1]] \in 0..HELLOINT /\ calm \in Nat
           /\ Lists(w) => nbr[w[2]][w[1]] \in -1..(3 * HELLOINT) /\ w[2] \in up
<1>1. w[1] \in Router /\ w[2] \in Router
    BY WireEnds
<1>2. helloint[w[1]] \in 0..HELLOINT /\ calm \in Nat
    BY <1>1, Constants DEF MospfInv, TimerTypes, EnvTypes
<1>3. Lists(w) => nbr[w[2]][w[1]] \in -1..(3 * HELLOINT)
    BY <1>1 DEF Lists, MospfInv, Tables, NeighboursOf
<1>4. Lists(w) => w[2] \in up
    BY <1>1, NothingIsEmpty DEF Lists, MospfInv, DownIsEmpty
<1> QED BY <1>1, <1>2, <1>3, <1>4

\* What comes from the routers that are up over links that are there is on true wires.
LEMMA CalmWiresKept ==
    ASSUME MospfInv, MospfInv', CalmWires, up' = up, cut' = cut, calm' = calm,
           \A w \in Wire : \A x :
               Carries(chan', w, x) => Carries(chan, w, x) \/ (w[1] \in up /\ Alive(w))
    PROVE  CalmWires'
<1> SUFFICES ASSUME calm > 0, NEW w \in Wire, chan'[w] # <<>>
             PROVE  TrueWire(w)
    BY DEF CalmWires, TrueWire
<1>1. chan \in Packets /\ chan' \in Packets
    BY DEF MospfInv
<1>2. PICK x : Carries(chan', w, x)
    BY <1>1, CarriesTyped
<1>3. CASE Carries(chan, w, x)
    BY <1>1, <1>3, CarriesTyped DEF CalmWires
<1>4. CASE w[1] \in up /\ Alive(w)
    BY <1>4 DEF TrueWire, Alive
<1> QED BY <1>2, <1>3, <1>4

\* Steps that take hellos in and send them, and drop neighbours not heard of.
LEMMA WireKnownKept ==
    ASSUME MospfInv, MospfInv', HelloInv, up' = up, cut' = cut, calm' = calm, NEW w \in Wire,
           \/ helloint'[w[1]] = helloint[w[1]]
           \/ TrueWire(w) => Carries(chan', w, Hello),
           \/ Carries(chan, w, Hello) => Carries(chan', w, Hello)
           \/ Lists(w)' /\ nbr'[w[2]][w[1]] = 3 * HELLOINT,
           Lists(w) /\ nbr[w[2]][w[1]] >= 0 =>
              Lists(w)' /\ nbr'[w[2]][w[1]] \in {nbr[w[2]][w[1]], 3 * HELLOINT},
           Lists(w)' =>
              \/ Lists(w) /\ nbr'[w[2]][w[1]] = nbr[w[2]][w[1]]
              \/ Carries(chan, w, Hello)
    PROVE  WireKnown(w)'
<1>1. /\ WireKnown(w) /\ CalmWires /\ TrueWire(w)' = TrueWire(w)
    BY DEF HelloInv, TrueWire
<1>2. /\ helloint[w[1]] \in 0..HELLOINT /\ calm \in Nat
      /\ Lists(w) => nbr[w[2]][w[1]] \in -1..(3 * HELLOINT)
    BY HelloTypes
<1>3. /\ helloint'[w[1]] \in 0..HELLOINT
      /\ Lists(w)' => nbr'[w[2]][w[1]] \in -1..(3 * HELLOINT)
    <2>1. w[1] \in Router /\ w[2] \in Router
        BY WireEnds
    <2> QED BY <2>1 DEF MospfInv, TimerTypes, Tables, NeighboursOf, Lists
<1>4. HELLOINT \in Nat \ {0}
    BY Constants
<1>5. ASSUME TrueWire(w)
      PROVE  HelloComes(w)'
    BY <1>1, <1>2, <1>3, <1>4, <1>5 DEF WireKnown, HelloComes
<1>6. ASSUME TrueWire(w), calm > HELLOINT
      PROVE  HelloHeard(w)'
    BY <1>1, <1>2, <1>4, <1>6 DEF WireKnown, HelloHeard
<1>7. ASSUME ~TrueWire(w)
      PROVE  Forgotten(w)'
    <2>1. Forgotten(w)
        BY <1>1, <1>7 DEF WireKnown
    <2>2. Carries(chan, w, Hello) => calm = 0
        <3>1. chan \in Packets
            BY DEF MospfInv
        <3>2. Carries(chan, w, Hello) => chan[w] # <<>>
            BY <3>1, CarriesTyped
        <3>3. chan[w] # <<>> => ~(calm > 0)
            BY <1>1, <1>7 DEF CalmWires
        <3> QED BY <1>2, <3>2, <3>3
    <2> QED BY <2>1, <2>2, <1>2, <1>3, <1>4 DEF Forgotten, NeighboursSettled
<1> QED BY <1>1, <1>5, <1>6, <1>7 DEF WireKnown

LEMMA HelloInvInit == Init => HelloInv
<1> SUFFICES ASSUME Init PROVE HelloInv
    OBVIOUS
<1>1. calm = 0
    BY DEF Init
<1>2. \A w \in Wire : helloint[w[1]] = HELLOINT /\ DOMAIN nbr[w[2]] = {}
    BY WireEnds, NothingIsEmpty DEF Init
<1> QED BY <1>1, <1>2, Constants
        DEF HelloInv, CalmWires, WireKnown, HelloComes, HelloHeard, Forgotten, Lists, NeighboursSettled

LEMMA HelloInvStep == MospfInv /\ MospfInv' /\ HelloInv /\ [Next]_vars => HelloInv'
<1> SUFFICES ASSUME MospfInv, MospfInv', HelloInv, [Next]_vars PROVE HelloInv'
    OBVIOUS
<1>0. /\ \A w \in Wire : w[1] \in Router /\ w[2] \in Router
      /\ up \subseteq Router /\ HELLOINT \in Nat \ {0} /\ CalmWires
    BY WireEnds, Constants DEF MospfInv, EnvTypes, HelloInv
<1>1. ASSUME NEW r \in Router, HelloTimeout(r) PROVE HelloInv'
    <2>1. /\ r \in up /\ up' = up /\ cut' = cut /\ calm' = calm /\ nbr' = nbr
          /\ \A q \in Router \ {r} : helloint'[q] = helloint[q]
          /\ \A w \in Wire : \A x : Carries(chan', w, x)
                <=> Carries(chan, w, x) \/ (w[1] = r /\ Alive(w) /\ x = Hello)
        BY <1>1, HelloTimeoutSends DEF env
    <2>2. CalmWires'
        BY <1>0, <2>1, CalmWiresKept
    <2>3. ASSUME NEW w \in Wire PROVE WireKnown(w)'
        <3>1. \/ helloint'[w[1]] = helloint[w[1]]
              \/ TrueWire(w) => Carries(chan', w, Hello)
            BY <1>0, <2>1 DEF TrueWire, Alive
        <3>2. Lists(w)' <=> Lists(w)
            BY <2>1 DEF Lists
        <3> QED BY <2>1, <3>1, <3>2, WireKnownKept
    <2> QED BY <2>2, <2>3 DEF HelloInv
<1>2. ASSUME NEW v \in Wire, HandleHello(v) PROVE HelloInv'
    <2>1. /\ v[2] \in up /\ up' = up /\ cut' = cut /\ calm' = calm /\ helloint' = helloint
          /\ Carries(chan, v, Hello)
          /\ DOMAIN nbr'[v[2]] = DOMAIN nbr[v[2]] \cup {v[1]}
          /\ nbr'[v[2]][v[1]] = 3 * HELLOINT
          /\ \A n \in DOMAIN nbr[v[2]] \ {v[1]} : nbr'[v[2]][n] = nbr[v[2]][n]
          /\ \A q \in Router \ {v[2]} : nbr'[q] = nbr[q]
          /\ \A w \in Wire : \A x :
                /\ Carries(chan', w, x) => Carries(chan, w, x) \/ Announced(v[2], w, x)
                /\ Carries(chan, w, x) => Carries(chan', w, x) \/ (w = v /\ x = Hello)
        BY <1>2, HandleHelloSends DEF env
    <2>2. CalmWires'
        BY <1>0, <2>1, CalmWiresKept DEF Announced
    <2>3. ASSUME NEW w \in Wire PROVE WireKnown(w)'
        <3>1. CASE w[2] # v[2]
            <4>1. nbr'[w[2]] = nbr[w[2]] /\ (Lists(w)' <=> Lists(w))
                BY <1>0, <2>1, <3>1 DEF Lists
            <4>2. w # v
                BY <3>1
            <4> QED BY <2>1, <4>1, <4>2, WireKnownKept
        <3>2. CASE w[2] = v[2] /\ w[1] # v[1]
            <4>1. w # v /\ (Lists(w)' <=> Lists(w)) /\ (Lists(w) => nbr'[w[2]][w[1]] = nbr[w[2]][w[1]])
                BY <2>1, <3>2 DEF Lists
            <4> QED BY <2>1, <4>1, WireKnownKept
        <3>3. CASE w[2] = v[2] /\ w[1] = v[1]
            <4>1. w = v
                BY <3>3 DEF Wire
            <4>2. Lists(w)' /\ nbr'[w[2]][w[1]] = 3 * HELLOINT
                BY <2>1, <4>1 DEF Lists
            <4> QED BY <2>1, <4>1, <4>2, WireKnownKept
        <3> QED BY <3>1, <3>2, <3>3
    <2> QED BY <2>2, <2>3 DEF HelloInv
<1>3. ASSUME NEW r \in Router, NbrTimeout(r) PROVE HelloInv'
    <2>1. /\ r \in up /\ up' = up /\ cut' = cut /\ calm' = calm /\ helloint' = helloint
          /\ DOMAIN nbr'[r] = {n \in DOMAIN nbr[r] : nbr[r][n] >= 0}
          /\ \A n \in DOMAIN nbr'[r] : nbr'[r][n] = nbr[r][n]
          /\ \A q \in Router \ {r} : nbr'[q] = nbr[q]
          /\ \A w \in Wire : \A x : Carries(chan', w, x)
                <=> Carries(chan, w, x) \/ Announced(r, w, x)
        BY <1>3, NbrTimeoutSends DEF env
    <2>2. CalmWires'
        BY <1>0, <2>1, CalmWiresKept DEF Announced
    <2>3. ASSUME NEW w \in Wire PROVE WireKnown(w)'
        <3>1. /\ Lists(w)' => Lists(w) /\ nbr'[w[2]][w[1]] = nbr[w[2]][w[1]]
              /\ Lists(w) /\ nbr[w[2]][w[1]] >= 0 => Lists(w)'
            BY <1>0, <2>1 DEF Lists
        <3> QED BY <2>1, <3>1, WireKnownKept
    <2> QED BY <2>2, <2>3 DEF HelloInv
<1>4. ASSUME up' = up, cut' = cut, calm' = calm, helloint' = helloint, nbr' = nbr,
             \A w \in Wire : \A x :
                /\ Carries(chan', w, x) => Carries(chan, w, x) \/ (w[1] \in up /\ Alive(w))
                /\ Carries(chan, w, Hello) => Carries(chan', w, Hello)
      PROVE  HelloInv'
    <2>1. CalmWires'
        BY <1>0, <1>4, CalmWiresKept
    <2>2. ASSUME NEW w \in Wire PROVE WireKnown(w)'
        <3>1. Lists(w)' <=> Lists(w)
            BY <1>4 DEF Lists
        <3> QED BY <1>4, <3>1, WireKnownKept
    <2> QED BY <2>1, <2>2 DEF HelloInv
<1>5. ASSUME NEW r \in Router, LsuTimeout(r) PROVE HelloInv'
    <2>1. /\ r \in up /\ up' = up /\ cut' = cut /\ calm' = calm /\ helloint' = helloint /\ nbr' = nbr
          /\ \A w \in Wire : \A x : Carries(chan', w, x)
                <=> Carries(chan, w, x) \/ Announced(r, w, x)
        BY <1>5, LsuTimeoutSends DEF env
    <2> QED BY <1>4, <2>1 DEF Announced
<1>6. ASSUME NEW v \in Wire, DropLsu(v) PROVE HelloInv'
    <2>1. /\ up' = up /\ cut' = cut /\ calm' = calm /\ helloint' = helloint /\ nbr' = nbr
          /\ \A w \in Wire : \A x :
                 /\ Carries(chan', w, x) => Carries(chan, w, x)
                 /\ Carries(chan, w, x) => Carries(chan', w, x) \/ x # Hello
        BY <1>6, DropLsuLoses DEF env, proto
    <2> QED BY <1>4, <2>1
<1>7. ASSUME NEW v \in Wire, AcceptLsu(v) PROVE HelloInv'
    <2>1. /\ v[2] \in up /\ up' = up /\ cut' = cut /\ calm' = calm /\ helloint' = helloint /\ nbr' = nbr
          /\ chan[v] # <<>> /\ Head(chan[v]) # Hello
          /\ chan' = IF Head(chan[v]).ttl > 1
                     THEN Put(Taken(v), {<<v[2], q>> : q \in DOMAIN nbr[v[2]] \ {v[1]}},
                              Onward(Head(chan[v])))
                     ELSE Taken(v)
          /\ Taken(v) \in Packets /\ Head(chan[v]) \in Packet /\ chan \in Packets
        BY <1>7, Receiving DEF AcceptLsu, env, IsHello, MospfInv
    <2>2. ASSUME NEW w \in Wire, NEW x
          PROVE  /\ Carries(chan', w, x) => Carries(chan, w, x) \/ (w[1] \in up /\ Alive(w))
                 /\ Carries(chan, w, Hello) => Carries(chan', w, Hello)
        <3>1. w \in {<<v[2], q>> : q \in DOMAIN nbr[v[2]] \ {v[1]}} => w[1] = v[2]
            OBVIOUS
        <3>2. CASE Head(chan[v]).ttl > 1
            <4>1. Onward(Head(chan[v])) \in Packet
                BY <2>1, <3>2, SentOnSays DEF IsHello
            <4> QED BY <2>1, <3>1, <3>2, <4>1, CarriesPut, CarriesTaken
        <3>3. CASE ~(Head(chan[v]).ttl > 1)
            BY <2>1, <3>3, CarriesTaken
        <3> QED BY <3>2, <3>3
    <2> QED BY <1>4, <2>1, <2>2
<1>8. ASSUME NEW r \in Router, DbTimeout(r) PROVE HelloInv'
    <2>1. /\ up' = up /\ cut' = cut /\ calm' = calm /\ helloint' = helloint /\ nbr' = nbr /\ chan' = chan
        BY <1>8, DbTimeoutDrops DEF env
    <2> QED BY <1>4, <2>1
<1>9. ASSUME UNCHANGED vars PROVE HelloInv'
    BY <1>4, <1>9 DEF vars
<1>10. ASSUME Tick PROVE HelloInv'
    <2>1. /\ up' = up /\ cut' = cut /\ chan' = chan /\ calm \in Nat /\ calm' = calm + 1
          /\ \A w \in Wire : chan[w] = <<>> /\ ~Carries(chan, w, Hello)
          /\ \A r \in up : helloint[r] > 0 /\ helloint'[r] = helloint[r] - 1
          /\ \A r \in Router :
                /\ DOMAIN nbr'[r] = DOMAIN nbr[r]
                /\ \A n \in DOMAIN nbr[r] : nbr[r][n] >= 0 /\ nbr'[r][n] = nbr[r][n] - 1
        BY <1>10, TickAges DEF env
    <2>2. CalmWires'
        BY <2>1 DEF CalmWires
    <2>3. ASSUME NEW w \in Wire PROVE WireKnown(w)'
        <3>1. /\ WireKnown(w) /\ (TrueWire(w)' <=> TrueWire(w)) /\ (Lists(w)' <=> Lists(w))
              /\ w[1] \in Router /\ w[2] \in Router
              /\ Lists(w) => nbr[w[2]][w[1]] >= 0 /\ nbr'[w[2]][w[1]] = nbr[w[2]][w[1]] - 1
              /\ TrueWire(w) => helloint[w[1]] > 0 /\ helloint'[w[1]] = helloint[w[1]] - 1
            BY <1>0, <2>1 DEF HelloInv, TrueWire, Lists
        <3>2. /\ helloint[w[1]] \in 0..HELLOINT /\ calm \in Nat
              /\ Lists(w) => nbr[w[2]][w[1]] \in -1..(3 * HELLOINT)
            BY HelloTypes
        <3>3. ASSUME TrueWire(w) PROVE HelloComes(w)' /\ (calm' > HELLOINT => HelloHeard(w)')
            <4>1. \/ Lists(w) /\ nbr[w[2]][w[1]] >= 2 * HELLOINT + helloint[w[1]]
                  \/ helloint[w[1]] + calm <= HELLOINT
                BY <2>1, <3>1, <3>3 DEF WireKnown, HelloComes
            <4>2. /\ helloint'[w[1]] = helloint[w[1]] - 1 /\ helloint[w[1]] \in Nat \ {0}
                  /\ calm' = calm + 1 /\ calm \in Nat /\ HELLOINT \in Nat
                BY <1>0, <2>1, <3>1, <3>2, <3>3
            <4>3. /\ Lists(w)' <=> Lists(w)
                  /\ Lists(w) => /\ nbr'[w[2]][w[1]] = nbr[w[2]][w[1]] - 1
                                 /\ nbr[w[2]][w[1]] \in Int /\ nbr[w[2]][w[1]] >= 0
                BY <3>1, <3>2
            <4>4. CASE Lists(w) /\ nbr[w[2]][w[1]] >= 2 * HELLOINT + helloint[w[1]]
                <5>1. Lists(w)' /\ nbr'[w[2]][w[1]] >= 2 * HELLOINT + helloint'[w[1]]
                    BY <4>2, <4>3, <4>4
                <5>2. nbr'[w[2]][w[1]] >= 2 * HELLOINT
                    BY <4>2, <4>3, <4>4
                <5> QED BY <5>1, <5>2 DEF HelloComes, HelloHeard
            <4>5. CASE helloint[w[1]] + calm <= HELLOINT
                <5>1. helloint'[w[1]] + calm' <= HELLOINT
                    BY <4>2, <4>5
                <5>2. calm' <= HELLOINT
                    BY <4>2, <4>5
                <5> QED BY <4>2, <5>1, <5>2 DEF HelloComes
            <4> QED BY <4>1, <4>4, <4>5
        <3>4. ASSUME ~TrueWire(w) PROVE Forgotten(w)'
            BY <1>0, <2>1, <3>1, <3>2, <3>4 DEF WireKnown, Forgotten, NeighboursSettled
        <3> QED BY <3>1, <3>3, <3>4 DEF WireKnown
    <2> QED BY <2>2, <2>3 DEF HelloInv
<1>11. ASSUME Failure PROVE HelloInv'
    <2>1. calm' = 0
        BY <1>11, FailureChanges
    <2>2. ASSUME NEW w \in Wire PROVE WireKnown(w)'
        <3>1. /\ helloint'[w[1]] \in 0..HELLOINT
              /\ Lists(w)' => nbr'[w[2]][w[1]] \in -1..(3 * HELLOINT)
            BY <1>0 DEF MospfInv, TimerTypes, Tables, NeighboursOf, Lists
        <3> QED BY <1>0, <2>1, <3>1 DEF WireKnown, HelloComes, Forgotten, NeighboursSettled
    <2> QED BY <2>1, <2>2 DEF HelloInv, CalmWires
<1> QED BY <1>1, <1>2, <1>3, <1>5, <1>6, <1>7, <1>8, <1>9, <1>10, <1>11 DEF Next, Work

LEMMA NeighboursAreTrue ==
    ASSUME MospfInv, HelloInv, calm > NeighboursSettled, NEW r \in up
    PROVE  DOMAIN nbr[r] = TrueNbrs(r)
<1>1. r \in Router /\ DOMAIN nbr[r] \subseteq Peers(r) /\ up \subseteq Router
    BY DEF MospfInv, EnvTypes, Tables, NeighboursOf
<1>2. calm > HELLOINT
    BY Constants DEF NeighboursSettled, MospfInv, EnvTypes
<1>3. ASSUME NEW n \in Peers(r)
      PROVE  n \in DOMAIN nbr[r] <=> n \in TrueNbrs(r)
    <2>1. n \in Router /\ {r, n} \in Link /\ {n, r} = {r, n}
        BY DEF Peers
    <2>2. <<n, r>> \in Wire /\ WireKnown(<<n, r>>)
        BY <1>1, <2>1 DEF Wire, HelloInv
    <2>3. n \in TrueNbrs(r) <=> TrueWire(<<n, r>>)
        BY <2>1 DEF TrueNbrs, TrueWire
    <2>4. n \in DOMAIN nbr[r] <=> Lists(<<n, r>>)
        BY DEF Lists
    <2> QED BY <1>2, <2>2, <2>3, <2>4 DEF WireKnown, HelloHeard, Forgotten
<1>4. TrueNbrs(r) \subseteq Peers(r)
    BY <1>1 DEF TrueNbrs, Peers
<1> QED BY <1>1, <1>3, <1>4

LEMMA HelloInvAlways == Spec => [](MospfInv /\ HelloInv)
<1> QED BY InvAlways, HelloInvInit, HelloInvStep, PTL DEF Spec

\* 3 * HELLOINT + 1 seconds after the last failure every running router lists the routers
\* it exchanges packets with and no other, whatever failed before and whatever hellos were
\* lost: a hello comes at least every HELLOINT seconds, checking_nbr_thread forgets a
\* router that has been silent for longer than three times that.
NeighboursSettle ==
    calm > NeighboursSettled => \A r \in up : DOMAIN nbr[r] = TrueNbrs(r)

THEOREM NeighboursGetSettled == Spec => []NeighboursSettle
<1>1. MospfInv /\ HelloInv => NeighboursSettle
    BY NeighboursAreTrue DEF NeighboursSettle
<1> QED BY <1>1, HelloInvAlways, PTL

-----------------------------------------------------------------------------
\* Sequence numbers that do not wrap around.

\* No router is at the second half of its numbers.
LowNumbers == \A r \in Router : 2 * seq[r] < SeqSpace

LEMMA NewerIsGreater ==
    ASSUME NEW a \in Nat, NEW b \in Nat, 2 * a < SeqSpace, 2 * b < SeqSpace
    PROVE  Newer(a, b) <=> a > b
<1> DEFINE h == SeqSpace \div 2
<1>1. h \in Nat /\ SeqSpace = 2 * h /\ SeqSpace \in Nat \ {0}
    BY MospfAssumption
<1>2. a < h /\ b < h
    BY <1>1
<1> HIDE DEF h
<1>3. CASE a > b
    <2>1. (a - b) % SeqSpace = a - b
        BY <1>1, <1>2, <1>3
    <2>2. a - b \in 1..(h - 1)
        BY <1>1, <1>2, <1>3
    <2> QED BY <1>3, <2>1, <2>2 DEF Newer, h
<1>4. CASE ~(a > b)
    <2>1. CASE a = b
        <3>1. (a - b) % SeqSpace = 0
            BY <1>1, <2>1
        <3>2. 0 \notin 1..(h - 1)
            BY <1>1
        <3> QED BY <1>4, <3>1, <3>2 DEF Newer, h
    <2>2. CASE a # b
        <3>1. SeqSpace + a - b \in Nat /\ SeqSpace + a - b < SeqSpace
            BY <1>1, <1>2, <1>4, <2>2
        <3>2. (a - b) % SeqSpace = SeqSpace + a - b
            BY <1>1, <3>1
        <3>3. SeqSpace + a - b \notin 1..(h - 1)
            BY <1>1, <1>2, <3>1
        <3> QED BY <1>4, <3>2, <3>3 DEF Newer, h
    <2> QED BY <2>1, <2>2
<1> QED BY <1>3, <1>4

LEMMA BumpIsNext ==
    ASSUME MospfInv, LowNumbers, NEW r \in Router, seq' = Bump(r)
    PROVE  seq'[r] = seq[r] + 1 /\ \A q \in Router \ {r} : seq'[q] = seq[q]
<1>1. seq \in [Router -> SeqNumber] /\ SeqSpace % 2 = 0 /\ SeqSpace \in Nat /\ SeqSpace > 1
    BY MospfAssumption DEF MospfInv
<1>2. seq[r] \in Nat /\ 2 * seq[r] < SeqSpace
    BY <1>1 DEF LowNumbers, SeqNumber
<1>3. seq[r] + 1 \in 0..(SeqSpace - 1)
    BY <1>1, <1>2
<1>4. (seq[r] + 1) % SeqSpace = seq[r] + 1
    BY <1>1, <1>3
<1> QED BY <1>1, <1>4 DEF Bump

-----------------------------------------------------------------------------
\* What the steps do to the LSUs and the databases.

SameWorld == UNCHANGED <<up, cut, failures, calm>>

\* Hellos come and go, and LSUs nobody needs.
Lull ==
    /\ SameWorld /\ UNCHANGED <<seq, lsuint, db, routes>>
    /\ \A r \in Router : DOMAIN nbr'[r] = DOMAIN nbr[r]
    /\ \A w \in Wire : \A x \in Lsus :
          /\ Carries(chan', w, x) => Carries(chan, w, x)
          /\ Carries(chan, w, x) => Carries(chan', w, x) \/ Stale(w[2], x)

\* Router o announces its neighbours, because it is time to or because they changed.
Announces(o) ==
    /\ o \in up /\ SameWorld /\ UNCHANGED <<db, routes>>
    /\ seq'[o] = seq[o] + 1
    /\ \A q \in Router \ {o} :
          seq'[q] = seq[q] /\ lsuint'[q] = lsuint[q] /\ DOMAIN nbr'[q] = DOMAIN nbr[q]
    /\ \/ lsuint[o] = 0 /\ lsuint'[o] = LSUINT /\ DOMAIN nbr'[o] = DOMAIN nbr[o]
       \/ calm <= NeighboursSettled /\ lsuint'[o] = lsuint[o]
    /\ Lsu(o, seq'[o], DOMAIN nbr'[o]) \in Lsus
    /\ \A w \in Wire : \A x \in Lsus :
          Carries(chan', w, x) <=> Carries(chan, w, x) \/ Announced(o, w, x)

\* The router at the end of w stores m and sends it on.
Accepts(w, m) ==
    /\ w[2] \in up /\ Carries(chan, w, m) /\ ~Stale(w[2], m)
    /\ SameWorld /\ UNCHANGED <<seq, lsuint, nbr>>
    /\ DOMAIN db'[w[2]] = DOMAIN db[w[2]] \cup {m.rid}
    /\ db'[w[2]][m.rid] = [seq |-> m.seq, adv |-> m.adv, alive |-> DBTIMEOUT]
    /\ \A o \in DOMAIN db[w[2]] \ {m.rid} : db'[w[2]][o] = db[w[2]][o]
    /\ \A q \in Router \ {w[2]} : db'[q] = db[q] /\ routes'[q] = routes[q]
    /\ routes'[w[2]] = View(w[2], db'[w[2]], DOMAIN nbr[w[2]])
    /\ \A v \in Wire : \A x \in Lsus :
          /\ Carries(chan', v, x) => Carries(chan, v, x) \/ (SentOn(m, x) /\ v[1] = w[2])
          /\ Carries(chan, v, x) => Carries(chan', v, x) \/ (x = m /\ v = w)
          /\ SentOn(m, x) /\ v[1] = w[2] /\ v[2] \in DOMAIN nbr[w[2]] \ {w[1]} /\ Alive(v)
                => Carries(chan', v, x)

\* Entries that are too old go.
Expires(r) ==
    /\ r \in up /\ SameWorld /\ UNCHANGED <<seq, lsuint, nbr, chan>>
    /\ DOMAIN db'[r] = {o \in DOMAIN db[r] : db[r][o].alive > 0}
    /\ \A o \in DOMAIN db'[r] : db'[r][o] = db[r][o]
    /\ \A q \in Router \ {r} : db'[q] = db[q] /\ routes'[q] = routes[q]
    /\ routes'[r] = View(r, db'[r], DOMAIN nbr[r])

Ages ==
    /\ UNCHANGED <<up, cut, failures, seq, routes, chan>> /\ calm' = calm + 1
    /\ \A w \in Wire : \A x : ~Carries(chan, w, x)
    /\ \A r \in Router \ up : lsuint'[r] = lsuint[r]
    /\ \A r \in up : lsuint[r] > 0 /\ lsuint'[r] = lsuint[r] - 1
    /\ \A r \in Router :
          /\ DOMAIN nbr'[r] = DOMAIN nbr[r] /\ DOMAIN db'[r] = DOMAIN db[r]
          /\ \A o \in DOMAIN db[r] :
                /\ db'[r][o].seq = db[r][o].seq /\ db'[r][o].adv = db[r][o].adv
                /\ db[r][o].alive > 0 /\ db'[r][o].alive = db[r][o].alive - 1

Fails ==
    /\ calm' = 0 /\ failures' = failures + 1
    /\ \A w \in Wire : \A x \in Lsus : Carries(chan', w, x) => Carries(chan, w, x)
    /\ \A q \in Router :
          \/ /\ q \in up => q \in up'
             /\ seq'[q] = seq[q] /\ lsuint'[q] = lsuint[q]
             /\ nbr'[q] = nbr[q] /\ db'[q] = db[q] /\ routes'[q] = routes[q]
          \/ /\ q \notin up' /\ lsuint'[q] = LSUINT
             /\ nbr'[q] = Nothing /\ db'[q] = Nothing /\ routes'[q] = NoRoutes
    /\ \A q \in Router : q \in up' /\ q \notin up => lsuint'[q] = lsuint[q]

LEMMA StepKinds ==
    ASSUME MospfInv, HelloInv, LowNumbers, [Next]_vars
    PROVE  \/ Lull
           \/ \E o \in Router : Announces(o)
           \/ \E w \in Wire : \E m \in Lsus : Accepts(w, m)
           \/ \E r \in Router : Expires(r)
           \/ Ages
           \/ Fails
<1>0. /\ \A w \in Wire : w[1] \in Router /\ w[2] \in Router
      /\ Hello \notin Lsus /\ calm \in Nat /\ chan \in Packets
      /\ DOMAIN nbr = Router
      /\ \A r \in Router : DOMAIN nbr[r] \subseteq Peers(r)
    BY WireEnds, Constants DEF Lsus, MospfInv, EnvTypes, Shapes, Tables, NeighboursOf
<1>1. ASSUME NEW r \in Router, HelloTimeout(r) PROVE Lull
    BY <1>0, <1>1, HelloTimeoutSends DEF Lull, SameWorld, env
<1>2. ASSUME NEW o \in Router, seq' = Bump(o), DOMAIN nbr'[o] \subseteq Peers(o)
      PROVE  Lsu(o, seq'[o], DOMAIN nbr'[o]) \in Lsus
    BY <1>2, BumpTyped, LsuIsPacket DEF MospfInv
<1>3. ASSUME NEW v \in Wire, HandleHello(v) PROVE Lull \/ Announces(v[2])
    <2> DEFINE r == v[2]
    <2>1. /\ r \in up /\ r \in Router /\ v[1] \in Peers(r) /\ Carries(chan, v, Hello)
          /\ SameWorld /\ UNCHANGED <<lsuint, db, routes>>
          /\ DOMAIN nbr'[r] = DOMAIN nbr[r] \cup {v[1]}
          /\ \A q \in Router \ {r} : nbr'[q] = nbr[q]
        BY <1>0, <1>3, HandleHelloSends DEF SameWorld, env
    <2>2. \/ /\ v[1] \in DOMAIN nbr[r] /\ seq' = seq
             /\ \A w \in Wire : \A x :
                   /\ Carries(chan', w, x) => Carries(chan, w, x)
                   /\ Carries(chan, w, x) => Carries(chan', w, x) \/ (w = v /\ x = Hello)
          \/ /\ v[1] \notin DOMAIN nbr[r] /\ seq' = Bump(r)
             /\ \A w \in Wire : \A x :
                   /\ Carries(chan', w, x) => Carries(chan, w, x) \/ Announced(r, w, x)
                   /\ Carries(chan, w, x) => Carries(chan', w, x) \/ (w = v /\ x = Hello)
                   /\ Announced(r, w, x) => Carries(chan', w, x)
        BY <1>3, HandleHelloSends
    <2>3. CASE v[1] \in DOMAIN nbr[r]
        <3>1. \A q \in Router : DOMAIN nbr'[q] = DOMAIN nbr[q]
            BY <2>1, <2>3
        <3> QED BY <1>0, <2>1, <2>2, <2>3, <3>1 DEF Lull
    <2>4. CASE v[1] \notin DOMAIN nbr[r]
        <3>1. seq' = Bump(r)
            BY <2>2, <2>4
        <3>2. seq'[r] = seq[r] + 1 /\ \A q \in Router \ {r} : seq'[q] = seq[q]
            BY <2>1, <3>1, BumpIsNext
        <3>3. calm <= NeighboursSettled
            <4> SUFFICES ASSUME calm > NeighboursSettled PROVE FALSE
                BY <1>0, Constants DEF NeighboursSettled
            <4>0. calm > HELLOINT /\ calm > 0
                BY <1>0, Constants DEF NeighboursSettled
            <4>1. chan[v] # <<>> /\ calm > HELLOINT /\ calm > 0
                BY <1>0, <2>1, <4>0, CarriesTyped
            <4>2. TrueWire(v)
                BY <4>1 DEF HelloInv, CalmWires
            <4>3. Lists(v)
                BY <4>1, <4>2 DEF HelloInv, WireKnown, HelloHeard
            <4> QED BY <2>4, <4>3 DEF Lists
        <3>4. \A w \in Wire : \A x \in Lsus :
                  Carries(chan', w, x) <=> Carries(chan, w, x) \/ Announced(r, w, x)
            BY <1>0, <2>2, <2>4
        <3>5. Lsu(r, seq'[r], DOMAIN nbr'[r]) \in Lsus
            BY <1>0, <1>2, <2>1, <3>1
        <3> QED BY <2>1, <3>2, <3>3, <3>4, <3>5 DEF Announces
    <2> QED BY <2>3, <2>4
<1>4. ASSUME NEW r \in Router, NbrTimeout(r) PROVE Announces(r)
    <2>1. /\ r \in up /\ SameWorld /\ UNCHANGED <<lsuint, db, routes>> /\ seq' = Bump(r)
          /\ DOMAIN nbr'[r] = {n \in DOMAIN nbr[r] : nbr[r][n] >= 0}
          /\ DOMAIN nbr'[r] # DOMAIN nbr[r]
          /\ \A q \in Router \ {r} : nbr'[q] = nbr[q]
          /\ \A w \in Wire : \A x : Carries(chan', w, x)
               <=> Carries(chan, w, x) \/ Announced(r, w, x)
        BY <1>4, NbrTimeoutSends DEF SameWorld, env
    <2>2. seq'[r] = seq[r] + 1 /\ \A q \in Router \ {r} : seq'[q] = seq[q]
        BY <2>1, BumpIsNext
    <2>3. calm <= NeighboursSettled
        <3> SUFFICES ASSUME calm > NeighboursSettled PROVE FALSE
            BY <1>0, Constants DEF NeighboursSettled
        <3>1. PICK n \in DOMAIN nbr[r] : ~(nbr[r][n] >= 0)
            BY <2>1
        <3>2. n \in Router /\ {r, n} \in Link /\ {n, r} = {r, n}
            BY <1>0 DEF Peers
        <3>3. <<n, r>> \in Wire /\ WireKnown(<<n, r>>) /\ Lists(<<n, r>>)
            BY <3>2 DEF Wire, HelloInv, Lists
        <3>4. HELLOINT \in Nat \ {0} /\ calm > HELLOINT /\ nbr[r][n] \in Int
            BY <1>0, <3>1, Constants DEF NeighboursSettled, MospfInv, Tables, NeighboursOf
        <3> QED BY <3>1, <3>3, <3>4 DEF WireKnown, HelloHeard, Forgotten
    <2>4. Lsu(r, seq'[r], DOMAIN nbr'[r]) \in Lsus
        BY <1>0, <1>2, <2>1
    <2> QED BY <2>1, <2>2, <2>3, <2>4 DEF Announces
<1>5. ASSUME NEW r \in Router, LsuTimeout(r) PROVE Announces(r)
    <2>1. /\ r \in up /\ SameWorld /\ UNCHANGED <<nbr, db, routes>> /\ seq' = Bump(r)
          /\ lsuint[r] = 0 /\ lsuint'[r] = LSUINT
          /\ \A q \in Router \ {r} : lsuint'[q] = lsuint[q]
          /\ \A w \in Wire : \A x : Carries(chan', w, x)
               <=> Carries(chan, w, x) \/ Announced(r, w, x)
        BY <1>5, LsuTimeoutSends DEF SameWorld, env
    <2>2. seq'[r] = seq[r] + 1 /\ \A q \in Router \ {r} : seq'[q] = seq[q]
        BY <2>1, BumpIsNext
    <2>3. Lsu(r, seq'[r], DOMAIN nbr'[r]) \in Lsus
        <3>1. DOMAIN nbr'[r] \subseteq Peers(r)
            BY <1>0, <2>1
        <3> QED BY <1>2, <2>1, <3>1
    <2> QED BY <2>1, <2>2, <2>3 DEF Announces
<1>6. ASSUME NEW v \in Wire, DropLsu(v) PROVE Lull
    BY <1>6, DropLsuLoses DEF Lull, SameWorld, env, proto
<1>7. ASSUME NEW v \in Wire, AcceptLsu(v) PROVE \E m \in Lsus : Accepts(v, m)
    <2>1. PICK m \in Lsus :
           /\ v[2] \in up /\ Carries(chan, v, m) /\ ~Stale(v[2], m)
           /\ UNCHANGED <<env, calm, seq, helloint, lsuint, nbr>>
           /\ DOMAIN db'[v[2]] = DOMAIN db[v[2]] \cup {m.rid}
           /\ db'[v[2]][m.rid] = [seq |-> m.seq, adv |-> m.adv, alive |-> DBTIMEOUT]
           /\ \A o \in DOMAIN db[v[2]] \ {m.rid} : db'[v[2]][o] = db[v[2]][o]
           /\ \A q \in Router \ {v[2]} : db'[q] = db[q] /\ routes'[q] = routes[q]
           /\ routes'[v[2]] = View(v[2], db'[v[2]], DOMAIN nbr[v[2]])
           /\ \A w \in Wire : \A x :
                 /\ Carries(chan', w, x) => Carries(chan, w, x) \/ (SentOn(m, x) /\ w[1] = v[2])
                 /\ Carries(chan, w, x) => Carries(chan', w, x) \/ (x = m /\ w = v)
                 /\ SentOn(m, x) /\ w[1] = v[2] /\ w[2] \in DOMAIN nbr[v[2]] \ {v[1]} /\ Alive(w)
                       => Carries(chan', w, x)
        BY <1>7, AcceptLsuSends
    <2>2. SameWorld /\ UNCHANGED <<seq, lsuint, nbr>>
        BY <2>1 DEF SameWorld, env
    <2>3. Accepts(v, m)
        BY <2>1, <2>2 DEF Accepts
    <2> QED BY <2>3
<1>8. ASSUME NEW r \in Router, DbTimeout(r) PROVE Expires(r)
    BY <1>8, DbTimeoutDrops DEF Expires, SameWorld, env
<1>9. ASSUME UNCHANGED vars PROVE Lull
    BY <1>9 DEF vars, Lull, SameWorld
<1>10. ASSUME Tick PROVE Ages
    BY <1>10, TickAges DEF Ages, env
<1>11. ASSUME Failure PROVE Fails
    BY <1>11, FailureChanges DEF Fails
<1> QED BY <1>0, <1>1, <1>3, <1>4, <1>5, <1>6, <1>7, <1>8, <1>9, <1>10, <1>11 DEF Next, Work

-----------------------------------------------------------------------------
\* Sequence numbers and restarts.  A database holds a number its origin has not reached
\* only as long as the origin has run for less time than the entry has aged.

\* A number of seconds after which a router sends its LSUs again and again.
Periods(n) == \E k \in Nat : n = k * LSUINT

\* The last moment at which a database may still hold an LSU a router sent before it
\* restarted when it sends the next one.
LastOld == LSUINT * (DBTIMEOUT \div LSUINT)

LEMMA PeriodsLemma ==
    /\ LastOld \in Nat
    /\ Periods(LSUINT)
    /\ \A n \in Nat : Periods(n) => Periods(n + LSUINT)
    /\ \A n \in Nat : Periods(n) /\ n <= DBTIMEOUT => n <= LastOld
    /\ LSUINT <= DBTIMEOUT => LSUINT <= LastOld
    /\ DBTIMEOUT < LastOld + LSUINT
<1>1. LSUINT \in Nat \ {0} /\ DBTIMEOUT \in Nat
    BY Constants
<1> DEFINE q == DBTIMEOUT \div LSUINT
<1>2. q \in Nat /\ LSUINT * q <= DBTIMEOUT /\ DBTIMEOUT < LSUINT * q + LSUINT
    BY <1>1
<1>3. LastOld = LSUINT * q
    BY DEF LastOld
<1> HIDE DEF q
<1>4. LastOld \in Nat /\ DBTIMEOUT < LastOld + LSUINT
    BY <1>1, <1>2, <1>3
<1>5. Periods(LSUINT)
    <2>1. LSUINT = 1 * LSUINT
        BY <1>1
    <2> QED BY <2>1 DEF Periods
<1>6. ASSUME NEW n \in Nat, Periods(n) PROVE Periods(n + LSUINT)
    <2>1. PICK k \in Nat : n = k * LSUINT
        BY <1>6 DEF Periods
    <2>2. n + LSUINT = (k + 1) * LSUINT /\ k + 1 \in Nat
        BY <1>1, <2>1
    <2> QED BY <2>2 DEF Periods
<1>7. ASSUME NEW n \in Nat, Periods(n), n <= DBTIMEOUT PROVE n <= LastOld
    <2>1. PICK k \in Nat : n = k * LSUINT
        BY <1>7 DEF Periods
    <2>2. CASE k <= q
        BY <1>1, <1>2, <1>3, <2>1, <2>2
    <2>3. CASE k >= q + 1
        <3>1. k * LSUINT >= (q + 1) * LSUINT
            BY <1>1, <1>2, <2>3
        <3>2. (q + 1) * LSUINT = LSUINT * q + LSUINT
            BY <1>1, <1>2
        <3> QED BY <1>1, <1>2, <1>7, <2>1, <3>1, <3>2
    <2> QED BY <1>2, <2>2, <2>3
<1>8. LSUINT <= DBTIMEOUT => LSUINT <= LastOld
    BY <1>1, <1>5, <1>7
<1> QED BY <1>4, <1>5, <1>6, <1>7, <1>8

LEMMA EntryTypes ==
    ASSUME MospfInv, NEW r \in Router, NEW o \in DOMAIN db[r]
    PROVE  /\ r \in up /\ o \in Router /\ o # r /\ lsuint[o] \in 0..LSUINT
           /\ db[r][o].seq \in Nat /\ db[r][o].alive \in 0..DBTIMEOUT
           /\ db[r][o].adv \subseteq Router
<1>1. DatabaseOf(r, db[r]) /\ lsuint \in [Router -> 0..LSUINT]
    BY DEF MospfInv, Tables, TimerTypes
<1>2. r \in up
    BY NothingIsEmpty DEF MospfInv, DownIsEmpty
<1>3. db[r][o] \in Entry /\ o \in Router /\ o # r
    BY <1>1 DEF DatabaseOf
<1> QED BY <1>1, <1>2, <1>3 DEF Entry

LEMMA LsuTypes ==
    ASSUME NEW x \in Lsus
    PROVE  /\ x.rid \in Router /\ x.seq \in Nat /\ x.adv \subseteq Router
           /\ x.ttl \in 1..DEFAULT_TTL
    BY LsuIsTyped DEF Lsus, IsHello, SeqNumber

\* An LSU that is sent on says what it said.
LEMMA SentOnIsLsu ==
    ASSUME NEW m \in Lsus, NEW x, SentOn(m, x)
    PROVE  /\ x \in Lsus /\ x.rid = m.rid /\ x.seq = m.seq /\ x.adv = m.adv
           /\ x.ttl = m.ttl - 1
<1>1. m \in Packet /\ ~IsHello(m) /\ m.ttl > 1 /\ x = Onward(m)
    BY DEF Lsus, IsHello, SentOn
<1> QED BY <1>1, SentOnSays DEF Lsus, IsHello

\* The time since o was started, which is at most the age given, and at least the time
\* since the last failure.
OldAt(o, age) == \E t \in Nat : Periods(t + lsuint[o]) /\ calm <= t /\ t <= age

\* A router that runs has sent whatever is said in its name, except what an entry
\* has kept, or a packet has carried, from before its last restart.
EntryOfNow(r, o) == db[r][o].seq <= seq[o] \/ OldAt(o, DBTIMEOUT - db[r][o].alive)
PacketOfNow(x) == x.seq <= seq[x.rid] \/ (calm = 0 /\ lsuint[x.rid] = LSUINT)

EntriesOfNow == \A r \in Router : \A o \in DOMAIN db[r] : o \in up => EntryOfNow(r, o)
PacketsOfNow ==
    \A w \in Wire : \A x \in Lsus : Carries(chan, w, x) /\ x.rid \in up => PacketOfNow(x)
LowEntries == \A r \in Router : \A o \in DOMAIN db[r] : 2 * db[r][o].seq < SeqSpace
LowPackets == \A w \in Wire : \A x \in Lsus : Carries(chan, w, x) => 2 * x.seq < SeqSpace
DownTimers == \A r \in Router \ up : lsuint[r] = LSUINT

NumbersInv == EntriesOfNow /\ PacketsOfNow /\ LowEntries /\ LowPackets /\ DownTimers

LEMMA NumbersInit == Init => NumbersInv
<1> SUFFICES ASSUME Init PROVE NumbersInv
    OBVIOUS
<1>1. up = Router /\ \A r \in Router : DOMAIN db[r] = {}
    BY NothingIsEmpty DEF Init
<1>2. \A w \in Wire : \A x : ~Carries(chan, w, x)
    BY DEF Init, Carries
<1> QED BY <1>1, <1>2 DEF NumbersInv, EntriesOfNow, PacketsOfNow, LowEntries, LowPackets, DownTimers

LEMMA NumbersLull ==
    ASSUME MospfInv, NumbersInv, Lull
    PROVE  NumbersInv'
<1>1. /\ up' = up /\ calm' = calm /\ seq' = seq /\ lsuint' = lsuint /\ db' = db
      /\ \A w \in Wire : \A x \in Lsus : Carries(chan', w, x) => Carries(chan, w, x)
    BY DEF Lull, SameWorld
<1>2. EntriesOfNow' /\ LowEntries' /\ DownTimers'
    BY <1>1 DEF NumbersInv, EntriesOfNow, EntryOfNow, OldAt, LowEntries, DownTimers
<1>3. PacketsOfNow' /\ LowPackets'
    BY <1>1 DEF NumbersInv, PacketsOfNow, PacketOfNow, LowPackets
<1> QED BY <1>2, <1>3 DEF NumbersInv

LEMMA NumbersAnnounces ==
    ASSUME MospfInv, NumbersInv, LowNumbers', NEW o \in Router, Announces(o)
    PROVE  NumbersInv'
<1>1. /\ up' = up /\ calm' = calm /\ db' = db /\ o \in up
      /\ seq'[o] = seq[o] + 1 /\ seq[o] \in Nat
      /\ \A q \in Router \ {o} : seq'[q] = seq[q] /\ lsuint'[q] = lsuint[q]
      /\ \/ lsuint[o] = 0 /\ lsuint'[o] = LSUINT
         \/ lsuint'[o] = lsuint[o]
      /\ \A w \in Wire : \A x \in Lsus :
            Carries(chan', w, x) => Carries(chan, w, x) \/ Announced(o, w, x)
    BY DEF Announces, SameWorld, MospfInv, SeqNumber
<1>2. LSUINT \in Nat \ {0}
    BY Constants
<1>3. ASSUME NEW r \in Router, NEW p \in DOMAIN db[r], p \in up
      PROVE  EntryOfNow(r, p)'
    <2>1. p \in Router /\ db[r][p].seq \in Nat /\ db[r][p].alive \in 0..DBTIMEOUT
        BY EntryTypes
    <2>2. CASE db[r][p].seq <= seq[p]
        BY <1>1, <2>1, <2>2 DEF EntryOfNow
    <2>3. CASE OldAt(p, DBTIMEOUT - db[r][p].alive)
        <3>1. PICK t \in Nat : /\ Periods(t + lsuint[p]) /\ calm <= t
                               /\ t <= DBTIMEOUT - db[r][p].alive
            BY <2>3 DEF OldAt
        <3>2. Periods(t + lsuint'[p])
            BY <1>1, <1>2, <2>1, <3>1, PeriodsLemma
        <3> QED BY <1>1, <3>1, <3>2 DEF EntryOfNow, OldAt
    <2> QED BY <1>3, <2>2, <2>3 DEF NumbersInv, EntriesOfNow, EntryOfNow
<1>4. EntriesOfNow'
    BY <1>1, <1>3 DEF EntriesOfNow
<1>5. LowEntries' /\ DownTimers'
    BY <1>1 DEF NumbersInv, LowEntries, DownTimers
<1>6. ASSUME NEW w \in Wire, NEW x \in Lsus, Carries(chan', w, x)
      PROVE  2 * x.seq < SeqSpace /\ (x.rid \in up => PacketOfNow(x)')
    <2>1. CASE Carries(chan, w, x)
        <3>1. x.rid \in Router /\ x.seq \in Nat
            BY LsuTypes
        <3>2. 2 * x.seq < SeqSpace /\ (x.rid \in up => PacketOfNow(x))
            BY <2>1 DEF NumbersInv, PacketsOfNow, LowPackets
        <3>3. ASSUME PacketOfNow(x) PROVE PacketOfNow(x)'
            BY <1>1, <1>2, <3>1, <3>3 DEF PacketOfNow
        <3> QED BY <3>2, <3>3
    <2>2. CASE Announced(o, w, x)
        <3>1. x.rid = o /\ x.seq = seq'[o]
            BY <2>2 DEF Announced, Lsu
        <3> QED BY <1>1, <3>1 DEF LowNumbers, PacketOfNow
    <2> QED BY <1>1, <1>6, <2>1, <2>2
<1>7. PacketsOfNow' /\ LowPackets'
    BY <1>1, <1>6 DEF PacketsOfNow, LowPackets
<1> QED BY <1>4, <1>5, <1>7 DEF NumbersInv

LEMMA NumbersAccepts ==
    ASSUME MospfInv, NumbersInv, NEW w \in Wire, NEW m \in Lsus, Accepts(w, m)
    PROVE  NumbersInv'
<1> DEFINE r == w[2]
<1>1. /\ up' = up /\ calm' = calm /\ seq' = seq /\ lsuint' = lsuint
      /\ r \in Router /\ Carries(chan, w, m)
      /\ DOMAIN db'[r] = DOMAIN db[r] \cup {m.rid}
      /\ db'[r][m.rid] = [seq |-> m.seq, adv |-> m.adv, alive |-> DBTIMEOUT]
      /\ \A o \in DOMAIN db[r] \ {m.rid} : db'[r][o] = db[r][o]
      /\ \A q \in Router \ {r} : db'[q] = db[q]
      /\ \A v \in Wire : \A x \in Lsus : Carries(chan', v, x) =>
            Carries(chan, v, x) \/ (x.rid = m.rid /\ x.seq = m.seq)
    BY WireEnds, SentOnIsLsu DEF Accepts, SameWorld
<1>2. db'[r][m.rid].seq = m.seq /\ db'[r][m.rid].alive = DBTIMEOUT
    BY <1>1
<1> HIDE DEF r
<1>3. DownTimers' /\ PacketsOfNow' /\ LowPackets'
    BY <1>1 DEF NumbersInv, DownTimers, PacketsOfNow, PacketOfNow, LowPackets
<1>4. ASSUME NEW q \in Router, NEW o \in DOMAIN db'[q]
      PROVE  2 * db'[q][o].seq < SeqSpace /\ (o \in up => EntryOfNow(q, o)')
    <2>1. CASE q = r /\ o = m.rid
        <3>1. 2 * m.seq < SeqSpace /\ (o \in up => PacketOfNow(m))
            BY <1>1, <2>1 DEF NumbersInv, PacketsOfNow, LowPackets
        <3>2. ASSUME calm = 0, lsuint[o] = LSUINT PROVE OldAt(o, 0)
            <4>1. 0 \in Nat /\ Periods(0 + lsuint[o]) /\ calm <= 0 /\ 0 <= 0
                BY <3>2, PeriodsLemma, Constants
            <4> QED BY <4>1 DEF OldAt
        <3>3. DBTIMEOUT - db'[q][o].alive = 0
            BY <1>2, <2>1, Constants
        <3>4. OldAt(o, 0)' <=> OldAt(o, 0)
            BY <1>1 DEF OldAt
        <3> QED BY <1>1, <1>2, <2>1, <3>1, <3>2, <3>3, <3>4 DEF PacketOfNow, EntryOfNow
    <2>2. CASE ~(q = r /\ o = m.rid)
        <3>1. o \in DOMAIN db[q] /\ db'[q][o] = db[q][o]
            BY <1>1, <1>4, <2>2
        <3> QED BY <1>1, <3>1 DEF NumbersInv, EntriesOfNow, LowEntries, EntryOfNow, OldAt
    <2> QED BY <2>1, <2>2
<1>5. EntriesOfNow' /\ LowEntries'
    BY <1>1, <1>4 DEF EntriesOfNow, LowEntries
<1> QED BY <1>3, <1>5 DEF NumbersInv

LEMMA NumbersExpires ==
    ASSUME MospfInv, NumbersInv, NEW r \in Router, Expires(r)
    PROVE  NumbersInv'
<1>1. /\ up' = up /\ calm' = calm /\ seq' = seq /\ lsuint' = lsuint /\ chan' = chan
      /\ \A q \in Router : \A o \in DOMAIN db'[q] : o \in DOMAIN db[q] /\ db'[q][o] = db[q][o]
    BY DEF Expires, SameWorld
<1>2. EntriesOfNow' /\ LowEntries'
    BY <1>1 DEF NumbersInv, EntriesOfNow, EntryOfNow, OldAt, LowEntries
<1>3. PacketsOfNow' /\ LowPackets' /\ DownTimers'
    BY <1>1 DEF NumbersInv, PacketsOfNow, PacketOfNow, LowPackets, DownTimers
<1> QED BY <1>2, <1>3 DEF NumbersInv

LEMMA NumbersAges ==
    ASSUME MospfInv, NumbersInv, Ages
    PROVE  NumbersInv'
<1>1. /\ up' = up /\ calm' = calm + 1 /\ seq' = seq /\ chan' = chan
      /\ \A w \in Wire : \A x : ~Carries(chan, w, x)
      /\ \A r \in Router \ up : lsuint'[r] = lsuint[r]
      /\ \A r \in up : lsuint[r] > 0 /\ lsuint'[r] = lsuint[r] - 1
      /\ \A r \in Router :
            /\ DOMAIN db'[r] = DOMAIN db[r]
            /\ \A o \in DOMAIN db[r] :
                  db'[r][o].seq = db[r][o].seq /\ db'[r][o].alive = db[r][o].alive - 1
    BY DEF Ages
<1>2. calm \in Nat
    BY Constants DEF MospfInv, EnvTypes
<1>3. DownTimers' /\ PacketsOfNow' /\ LowPackets' /\ LowEntries'
    BY <1>1 DEF NumbersInv, DownTimers, PacketsOfNow, LowPackets, LowEntries
<1>4. ASSUME NEW r \in Router, NEW o \in DOMAIN db[r], o \in up
      PROVE  EntryOfNow(r, o)'
    <2>1. o \in Router /\ db[r][o].alive \in 0..DBTIMEOUT /\ lsuint[o] \in 0..LSUINT
        BY EntryTypes
    <2>2. CASE db[r][o].seq <= seq[o]
        BY <1>1, <2>2 DEF EntryOfNow
    <2>3. CASE OldAt(o, DBTIMEOUT - db[r][o].alive)
        <3>1. PICK t \in Nat : /\ Periods(t + lsuint[o]) /\ calm <= t
                               /\ t <= DBTIMEOUT - db[r][o].alive
            BY <2>3 DEF OldAt
        <3>2. (t + 1) + lsuint'[o] = t + lsuint[o]
            BY <1>1, <1>4, <2>1, <3>1, Constants
        <3>3. t + 1 \in Nat /\ calm' <= t + 1 /\ t + 1 <= DBTIMEOUT - db'[r][o].alive
            BY <1>1, <1>2, <2>1, <3>1, Constants
        <3>4. Periods((t + 1) + lsuint'[o])
            BY <3>1, <3>2
        <3> QED BY <3>3, <3>4 DEF EntryOfNow, OldAt
    <2> QED BY <1>4, <2>2, <2>3 DEF NumbersInv, EntriesOfNow, EntryOfNow
<1>5. EntriesOfNow'
    BY <1>1, <1>4 DEF EntriesOfNow
<1> QED BY <1>3, <1>5 DEF NumbersInv

LEMMA NumbersFails ==
    ASSUME MospfInv, NumbersInv, Fails
    PROVE  NumbersInv'
<1>1. /\ calm' = 0
      /\ \A w \in Wire : \A x \in Lsus : Carries(chan', w, x) => Carries(chan, w, x)
      /\ \A q \in Router :
            \/ /\ q \in up => q \in up'
               /\ seq'[q] = seq[q] /\ lsuint'[q] = lsuint[q] /\ db'[q] = db[q]
            \/ /\ q \notin up' /\ lsuint'[q] = LSUINT /\ DOMAIN db'[q] = {}
    BY NothingIsEmpty DEF Fails
<1>2. LSUINT \in Nat \ {0} /\ DBTIMEOUT \in Nat /\ calm \in Nat
    BY Constants DEF MospfInv, EnvTypes
<1>3. DownTimers' /\ LowPackets'
    BY <1>1 DEF NumbersInv, DownTimers, LowPackets
<1>4. LowEntries'
    BY <1>1 DEF NumbersInv, LowEntries
<1>5. ASSUME NEW w \in Wire, NEW x \in Lsus, Carries(chan', w, x), x.rid \in up'
      PROVE  PacketOfNow(x)'
    <2>1. x.rid \in Router
        BY LsuTypes
    <2>2. x.rid \in up => PacketOfNow(x)
        BY <1>1, <1>5 DEF NumbersInv, PacketsOfNow
    <2>3. x.rid \notin up => lsuint[x.rid] = LSUINT
        BY <2>1 DEF NumbersInv, DownTimers
    <2> QED BY <1>1, <1>5, <2>1, <2>2, <2>3 DEF PacketOfNow
<1>6. ASSUME NEW r \in Router, NEW o \in DOMAIN db'[r], o \in up'
      PROVE  EntryOfNow(r, o)'
    <2>1. db'[r] = db[r] /\ o \in DOMAIN db[r]
        BY <1>1, <1>6
    <2>2. o \in Router /\ db[r][o].alive \in 0..DBTIMEOUT
        BY <2>1, EntryTypes
    <2>3. seq'[o] = seq[o] /\ lsuint'[o] = lsuint[o]
        BY <1>1, <1>6, <2>2
    <2>4. CASE o \in up /\ db[r][o].seq <= seq[o]
        BY <2>1, <2>3, <2>4 DEF EntryOfNow
    <2>5. CASE o \in up /\ OldAt(o, DBTIMEOUT - db[r][o].alive)
        <3>1. PICK t \in Nat : Periods(t + lsuint[o]) /\ t <= DBTIMEOUT - db[r][o].alive
            BY <2>5 DEF OldAt
        <3>2. calm' <= t
            BY <1>1, <3>1
        <3> QED BY <2>1, <2>3, <3>1, <3>2 DEF EntryOfNow, OldAt
    <2>6. CASE o \notin up
        <3>1. lsuint[o] = LSUINT
            BY <2>2, <2>6 DEF NumbersInv, DownTimers
        <3>2. 0 \in Nat /\ Periods(0 + lsuint'[o]) /\ calm' <= 0 /\ 0 <= DBTIMEOUT - db'[r][o].alive
            BY <1>1, <1>2, <2>1, <2>2, <2>3, <3>1, PeriodsLemma
        <3> QED BY <3>2 DEF EntryOfNow, OldAt
    <2>7. o \in up => EntryOfNow(r, o)
        BY <2>1 DEF NumbersInv, EntriesOfNow
    <2> QED BY <2>4, <2>5, <2>6, <2>7 DEF EntryOfNow
<1>7. PacketsOfNow' /\ EntriesOfNow'
    BY <1>5, <1>6 DEF PacketsOfNow, EntriesOfNow
<1> QED BY <1>3, <1>4, <1>7 DEF NumbersInv

LEMMA NumbersStep ==
    ASSUME MospfInv, HelloInv, LowNumbers, LowNumbers', NumbersInv, [Next]_vars
    PROVE  NumbersInv'
BY StepKinds, NumbersLull, NumbersAnnounces, NumbersAccepts, NumbersExpires, NumbersAges, NumbersFails

-----------------------------------------------------------------------------
\* What follows.

AcceptedAt(r, o) == db[r][o].alive + calm - DBTIMEOUT

\* Router r has accepted an LSU of o since the last failure.
Fresh(r, o) == o \in DOMAIN db[r] /\ AcceptedAt(r, o) > 0

\* Router r has accepted an LSU of o this second.
Renewed(r, o) == o \in DOMAIN db[r] /\ db[r][o].alive = DBTIMEOUT

\* A fresh entry is of now, and so is every entry when o announces itself in time.
LEMMA EntriesAreOfNow ==
    ASSUME MospfInv, NumbersInv, NEW r \in Router, NEW o \in DOMAIN db[r], o \in up,
           Fresh(r, o) \/ (calm > LastOld /\ lsuint[o] = 0)
    PROVE  db[r][o].seq <= seq[o]
<1>1. DBTIMEOUT \in Nat /\ calm \in Nat /\ LastOld \in Nat
    BY Constants, PeriodsLemma DEF MospfInv, EnvTypes
<1>2. db[r][o].alive \in 0..DBTIMEOUT
    BY EntryTypes
<1> SUFFICES ASSUME OldAt(o, DBTIMEOUT - db[r][o].alive) PROVE FALSE
    BY DEF NumbersInv, EntriesOfNow, EntryOfNow
<1>3. PICK t \in Nat : Periods(t + lsuint[o]) /\ calm <= t /\ t <= DBTIMEOUT - db[r][o].alive
    BY DEF OldAt
<1>4. CASE Fresh(r, o)
    BY <1>1, <1>2, <1>3, <1>4 DEF Fresh, AcceptedAt
<1>5. CASE calm > LastOld /\ lsuint[o] = 0
    <2>1. Periods(t) /\ t <= DBTIMEOUT
        BY <1>1, <1>2, <1>3, <1>5
    <2>2. t <= LastOld
        BY <2>1, PeriodsLemma
    <2> QED BY <1>1, <1>3, <1>5, <2>2
<1> QED BY <1>4, <1>5

\* Whether an LSU is accepted is a matter of numbers that do not wrap around.
LEMMA AcceptedIfGreater ==
    ASSUME MospfInv, NumbersInv, NEW w \in Wire, NEW x \in Lsus, Carries(chan, w, x),
           NEW r \in Router, x.rid # r
    PROVE  ~Stale(r, x) <=> (x.rid \in DOMAIN db[r] => x.seq > db[r][x.rid].seq)
<1>1. x.seq \in Nat /\ 2 * x.seq < SeqSpace
    BY LsuTypes DEF NumbersInv, LowPackets
<1>2. x.rid \in DOMAIN db[r] => db[r][x.rid].seq \in Nat /\ 2 * db[r][x.rid].seq < SeqSpace
    BY EntryTypes DEF NumbersInv, LowEntries
<1> QED BY <1>1, <1>2, NewerIsGreater DEF Stale

-----------------------------------------------------------------------------
\* What has been said since the last failure.

\* The code's timers: a silent neighbour is dropped before the next periodic LSU comes,
\* and an entry lives longer than it takes to send an LSU and a hello.
TimersInOrder == 3 * HELLOINT < LSUINT /\ LSUINT + HELLOINT <= DBTIMEOUT

LEMMA TimerFacts ==
    ASSUME TimersInOrder
    PROVE  /\ NeighboursSettled \in Nat /\ NeighboursSettled <= LastOld
           /\ HELLOINT < NeighboursSettled /\ LastOld \in Nat
<1>1. HELLOINT \in Nat \ {0} /\ LSUINT \in Nat /\ DBTIMEOUT \in Nat
    BY Constants
<1>2. LSUINT <= DBTIMEOUT
    BY <1>1 DEF TimersInOrder
<1> QED BY <1>1, <1>2, PeriodsLemma DEF TimersInOrder, NeighboursSettled

-----------------------------------------------------------------------------
\* Since the last failure LSUs come from running routers, over routers that have just
\* accepted them, and as soon as the neighbours are settled they say who they are.

PacketIsNew(w, x) ==
    /\ x.rid \in up
    /\ w[1] = x.rid \/ Renewed(w[1], x.rid)
    /\ calm > NeighboursSettled => x.adv = DOMAIN nbr[x.rid] /\ lsuint[x.rid] = LSUINT

EntryIsNew(r, o) ==
    /\ Fresh(r, o) => o \in up
    /\ AcceptedAt(r, o) > NeighboursSettled => db[r][o].adv = DOMAIN nbr[o]
    /\ calm > NeighboursSettled /\ Renewed(r, o) => lsuint[o] = LSUINT

PacketsAreNew ==
    calm > 0 => \A w \in Wire : \A x \in Lsus : Carries(chan, w, x) => PacketIsNew(w, x)
EntriesAreNew == \A r \in Router : \A o \in DOMAIN db[r] : EntryIsNew(r, o)

FlightInv == PacketsAreNew /\ EntriesAreNew

LEMMA AgeTypes ==
    ASSUME MospfInv, NEW r \in Router, NEW o \in DOMAIN db[r]
    PROVE  /\ AcceptedAt(r, o) \in Int /\ AcceptedAt(r, o) <= calm /\ calm \in Nat
           /\ Renewed(r, o) => AcceptedAt(r, o) = calm
           /\ o \in Router /\ NeighboursSettled \in Nat
<1>1. db[r][o].alive \in 0..DBTIMEOUT /\ o \in Router
    BY EntryTypes
<1>2. DBTIMEOUT \in Nat /\ calm \in Nat /\ HELLOINT \in Nat
    BY Constants DEF MospfInv, EnvTypes
<1> QED BY <1>1, <1>2 DEF AcceptedAt, Renewed, NeighboursSettled

LEMMA FlightInit == Init => FlightInv
<1> SUFFICES ASSUME Init PROVE FlightInv
    OBVIOUS
<1>1. calm = 0 /\ \A r \in Router : DOMAIN db[r] = {}
    BY NothingIsEmpty DEF Init
<1> QED BY <1>1 DEF FlightInv, PacketsAreNew, EntriesAreNew

LEMMA FlightLull ==
    ASSUME MospfInv, FlightInv, Lull
    PROVE  FlightInv'
<1>1. /\ up' = up /\ calm' = calm /\ seq' = seq /\ lsuint' = lsuint /\ db' = db
      /\ \A r \in Router : DOMAIN nbr'[r] = DOMAIN nbr[r]
      /\ \A w \in Wire : \A x \in Lsus : Carries(chan', w, x) => Carries(chan, w, x)
    BY DEF Lull, SameWorld
<1>2. ASSUME NEW r \in Router, NEW o \in DOMAIN db[r] PROVE EntryIsNew(r, o)'
    <2>1. EntryIsNew(r, o) /\ o \in Router
        BY EntryTypes DEF FlightInv, EntriesAreNew
    <2> QED BY <1>1, <2>1 DEF EntryIsNew, Fresh, AcceptedAt, Renewed
<1>3. ASSUME NEW w \in Wire, NEW x \in Lsus, Carries(chan', w, x), calm > 0
      PROVE  PacketIsNew(w, x)'
    <2>1. PacketIsNew(w, x) /\ x.rid \in Router
        BY <1>1, <1>3, LsuTypes DEF FlightInv, PacketsAreNew
    <2> QED BY <1>1, <2>1 DEF PacketIsNew, Renewed
<1> QED BY <1>1, <1>2, <1>3 DEF FlightInv, PacketsAreNew, EntriesAreNew

LEMMA FlightAnnounces ==
    ASSUME MospfInv, FlightInv, NEW o \in Router, Announces(o)
    PROVE  FlightInv'
<1>1. /\ up' = up /\ calm' = calm /\ db' = db /\ o \in up
      /\ \A q \in Router \ {o} : lsuint'[q] = lsuint[q] /\ DOMAIN nbr'[q] = DOMAIN nbr[q]
      /\ \/ lsuint[o] = 0 /\ lsuint'[o] = LSUINT /\ DOMAIN nbr'[o] = DOMAIN nbr[o]
         \/ calm <= NeighboursSettled /\ lsuint'[o] = lsuint[o]
      /\ \A w \in Wire : \A x \in Lsus :
            Carries(chan', w, x) => Carries(chan, w, x) \/ Announced(o, w, x)
    BY DEF Announces, SameWorld
<1>2. LSUINT \in Nat \ {0} /\ calm \in Nat /\ NeighboursSettled \in Nat
    BY Constants DEF MospfInv, EnvTypes, NeighboursSettled
<1>3. ASSUME NEW r \in Router, NEW p \in DOMAIN db[r] PROVE EntryIsNew(r, p)'
    <2>1. EntryIsNew(r, p) /\ p \in Router /\ AcceptedAt(r, p) \in Int /\ AcceptedAt(r, p) <= calm
        BY AgeTypes DEF FlightInv, EntriesAreNew
    <2>2. /\ Fresh(r, p)' <=> Fresh(r, p)
          /\ AcceptedAt(r, p)' = AcceptedAt(r, p)
          /\ Renewed(r, p)' <=> Renewed(r, p)
        BY <1>1 DEF Fresh, AcceptedAt, Renewed
    <2>3. AcceptedAt(r, p) > NeighboursSettled => DOMAIN nbr'[p] = DOMAIN nbr[p]
        BY <1>1, <1>2, <2>1
    <2>4. lsuint[p] = LSUINT => lsuint'[p] = LSUINT
        BY <1>1, <2>1
    <2> QED BY <1>1, <2>1, <2>2, <2>3, <2>4 DEF EntryIsNew
<1>4. ASSUME NEW w \in Wire, NEW x \in Lsus, Carries(chan', w, x), calm > 0
      PROVE  PacketIsNew(w, x)'
    <2>1. x.rid \in Router
        BY LsuTypes
    <2>2. CASE Carries(chan, w, x)
        <3>1. PacketIsNew(w, x)
            BY <1>4, <2>2 DEF FlightInv, PacketsAreNew
        <3>2. calm > NeighboursSettled =>
                 DOMAIN nbr'[x.rid] = DOMAIN nbr[x.rid] /\ lsuint'[x.rid] = lsuint[x.rid]
            BY <1>1, <1>2, <2>1, <3>1 DEF PacketIsNew
        <3> QED BY <1>1, <3>1, <3>2 DEF PacketIsNew, Renewed
    <2>3. CASE Announced(o, w, x)
        <3>1. x.rid = o /\ x.adv = DOMAIN nbr'[o] /\ w[1] = o
            BY <2>3 DEF Announced, Lsu
        <3> QED BY <1>1, <1>2, <3>1 DEF PacketIsNew
    <2> QED BY <1>1, <1>4, <2>2, <2>3
<1> QED BY <1>1, <1>3, <1>4 DEF FlightInv, PacketsAreNew, EntriesAreNew

LEMMA FlightAccepts ==
    ASSUME MospfInv, FlightInv, NEW w \in Wire, NEW m \in Lsus, Accepts(w, m)
    PROVE  FlightInv'
<1> DEFINE r == w[2]
<1>1. /\ up' = up /\ calm' = calm /\ lsuint' = lsuint /\ nbr' = nbr
      /\ r \in Router /\ Carries(chan, w, m)
      /\ DOMAIN db'[r] = DOMAIN db[r] \cup {m.rid}
      /\ db'[r][m.rid] = [seq |-> m.seq, adv |-> m.adv, alive |-> DBTIMEOUT]
      /\ \A o \in DOMAIN db[r] \ {m.rid} : db'[r][o] = db[r][o]
      /\ \A q \in Router \ {r} : db'[q] = db[q]
      /\ \A v \in Wire : \A x \in Lsus :
            Carries(chan', v, x) =>
                Carries(chan, v, x) \/ (x.rid = m.rid /\ x.adv = m.adv /\ v[1] = r)
    BY WireEnds, SentOnIsLsu DEF Accepts, SameWorld
<1>2. db'[r][m.rid].seq = m.seq /\ db'[r][m.rid].alive = DBTIMEOUT /\ db'[r][m.rid].adv = m.adv
    BY <1>1
<1>3. calm \in Nat /\ DBTIMEOUT \in Nat /\ NeighboursSettled \in Nat
    BY Constants DEF MospfInv, EnvTypes, NeighboursSettled
<1>4. calm > 0 => PacketIsNew(w, m)
    BY <1>1 DEF FlightInv, PacketsAreNew
<1> HIDE DEF r
<1>5. ASSUME NEW q \in Router, NEW o \in DOMAIN db'[q] PROVE EntryIsNew(q, o)'
    <2>1. CASE q = r /\ o = m.rid
        <3>1. AcceptedAt(q, o)' = calm
            BY <1>1, <1>2, <1>3, <2>1 DEF AcceptedAt
        <3> QED BY <1>1, <1>2, <1>3, <1>4, <2>1, <3>1 DEF EntryIsNew, PacketIsNew, Fresh
    <2>2. CASE ~(q = r /\ o = m.rid)
        <3>1. o \in DOMAIN db[q] /\ db'[q][o] = db[q][o]
            BY <1>1, <1>5, <2>2
        <3>2. EntryIsNew(q, o)
            BY <3>1 DEF FlightInv, EntriesAreNew
        <3> QED BY <1>1, <1>5, <3>1, <3>2 DEF EntryIsNew, Fresh, AcceptedAt, Renewed
    <2> QED BY <2>1, <2>2
<1>6. ASSUME NEW v \in Wire, NEW x \in Lsus, Carries(chan', v, x), calm > 0
      PROVE  PacketIsNew(v, x)'
    <2>1. v[1] \in Router
        BY WireEnds
    <2>2. CASE Carries(chan, v, x)
        <3>1. PacketIsNew(v, x)
            BY <1>6, <2>2 DEF FlightInv, PacketsAreNew
        <3>2. Renewed(v[1], x.rid) => Renewed(v[1], x.rid)'
            BY <1>1, <1>2, <2>1 DEF Renewed
        <3> QED BY <1>1, <3>1, <3>2 DEF PacketIsNew
    <2>3. CASE x.rid = m.rid /\ x.adv = m.adv /\ v[1] = r
        <3>1. Renewed(r, m.rid)'
            BY <1>1, <1>2 DEF Renewed
        <3> QED BY <1>1, <1>4, <1>6, <2>3, <3>1 DEF PacketIsNew
    <2> QED BY <1>1, <1>6, <2>2, <2>3
<1> QED BY <1>1, <1>5, <1>6 DEF FlightInv, PacketsAreNew, EntriesAreNew

LEMMA FlightExpires ==
    ASSUME MospfInv, FlightInv, NEW r \in Router, Expires(r)
    PROVE  FlightInv'
<1>1. /\ up' = up /\ calm' = calm /\ lsuint' = lsuint /\ nbr' = nbr /\ chan' = chan
      /\ \A q \in Router : \A o \in DOMAIN db'[q] : o \in DOMAIN db[q] /\ db'[q][o] = db[q][o]
      /\ DOMAIN db'[r] = {o \in DOMAIN db[r] : db[r][o].alive > 0}
      /\ \A q \in Router \ {r} : db'[q] = db[q]
    BY DEF Expires, SameWorld
<1>2. ASSUME NEW q \in Router, NEW o \in DOMAIN db'[q] PROVE EntryIsNew(q, o)'
    <2>1. o \in DOMAIN db[q] /\ db'[q][o] = db[q][o]
        BY <1>1, <1>2
    <2>2. EntryIsNew(q, o)
        BY <2>1 DEF FlightInv, EntriesAreNew
    <2> QED BY <1>1, <1>2, <2>1, <2>2 DEF EntryIsNew, Fresh, AcceptedAt, Renewed
<1>3. \A q \in Router : \A o : Renewed(q, o) => Renewed(q, o)'
    BY <1>1, Constants DEF Renewed
<1>4. ASSUME NEW w \in Wire, NEW x \in Lsus, Carries(chan, w, x), calm > 0
      PROVE  PacketIsNew(w, x)'
    <2>1. PacketIsNew(w, x)
        BY <1>4 DEF FlightInv, PacketsAreNew
    <2>2. w[1] \in Router
        BY WireEnds
    <2> QED BY <1>1, <1>3, <2>1, <2>2 DEF PacketIsNew
<1> QED BY <1>1, <1>2, <1>4 DEF FlightInv, PacketsAreNew, EntriesAreNew

\* A second later the same entries are fresh, and none is renewed.
LEMMA AgesEntries ==
    ASSUME MospfInv, Ages, NEW r \in Router
    PROVE  \A o \in DOMAIN db[r] :
               /\ o \in DOMAIN db'[r] /\ AcceptedAt(r, o)' = AcceptedAt(r, o)
               /\ (Fresh(r, o)' <=> Fresh(r, o)) /\ ~Renewed(r, o)'
<1>1. calm \in Nat /\ DBTIMEOUT \in Nat /\ calm' = calm + 1
    BY Constants DEF MospfInv, EnvTypes, Ages
<1> TAKE o \in DOMAIN db[r]
<1>2. db[r][o].alive \in 0..DBTIMEOUT
    BY EntryTypes
<1>3. o \in DOMAIN db'[r] /\ db'[r][o].alive = db[r][o].alive - 1
    BY DEF Ages
<1> QED BY <1>1, <1>2, <1>3 DEF AcceptedAt, Fresh, Renewed

LEMMA FlightAges ==
    ASSUME MospfInv, FlightInv, Ages
    PROVE  FlightInv'
<1>1. /\ up' = up /\ chan' = chan
      /\ \A w \in Wire : \A x : ~Carries(chan, w, x)
      /\ \A r \in Router :
            /\ DOMAIN nbr'[r] = DOMAIN nbr[r] /\ DOMAIN db'[r] = DOMAIN db[r]
            /\ \A o \in DOMAIN db[r] : db'[r][o].adv = db[r][o].adv
    BY DEF Ages
<1>2. ASSUME NEW r \in Router, NEW o \in DOMAIN db'[r] PROVE EntryIsNew(r, o)'
    <2>1. o \in DOMAIN db[r] /\ EntryIsNew(r, o)
        BY <1>1, <1>2 DEF FlightInv, EntriesAreNew
    <2>2. AcceptedAt(r, o)' = AcceptedAt(r, o) /\ (Fresh(r, o)' <=> Fresh(r, o)) /\ ~Renewed(r, o)'
        BY <2>1, AgesEntries
    <2>3. o \in Router
        BY <2>1, EntryTypes
    <2> QED BY <1>1, <2>1, <2>2, <2>3 DEF EntryIsNew
<1> QED BY <1>1, <1>2 DEF FlightInv, PacketsAreNew, EntriesAreNew

\* After a failure no entry is fresh.
LEMMA FailsEntries ==
    ASSUME MospfInv', calm' = 0, NEW r \in Router, NEW o \in DOMAIN db'[r]
    PROVE  AcceptedAt(r, o)' <= 0 /\ AcceptedAt(r, o)' \in Int /\ ~Fresh(r, o)'
<1>1. DBTIMEOUT \in Nat
    BY Constants
<1>2. db'[r][o] \in Entry
    BY DEF MospfInv, Tables, DatabaseOf
<1>3. db'[r][o].alive \in 0..DBTIMEOUT
    BY <1>2 DEF Entry
<1> QED BY <1>1, <1>3 DEF AcceptedAt, Fresh

LEMMA FlightFails ==
    ASSUME MospfInv', FlightInv, Fails
    PROVE  FlightInv'
<1>1. calm' = 0 /\ NeighboursSettled \in Nat
    BY Constants DEF Fails, NeighboursSettled
<1>2. ASSUME NEW r \in Router, NEW o \in DOMAIN db'[r] PROVE EntryIsNew(r, o)'
    <2>1. AcceptedAt(r, o)' <= 0 /\ AcceptedAt(r, o)' \in Int /\ ~Fresh(r, o)'
        BY <1>1, <1>2, FailsEntries
    <2> QED BY <1>1, <2>1 DEF EntryIsNew
<1> QED BY <1>1, <1>2 DEF FlightInv, PacketsAreNew, EntriesAreNew

LEMMA FlightStep ==
    ASSUME MospfInv, MospfInv', HelloInv, LowNumbers, FlightInv, [Next]_vars
    PROVE  FlightInv'
BY StepKinds, FlightLull, FlightAnnounces, FlightAccepts, FlightExpires, FlightAges, FlightFails

-----------------------------------------------------------------------------
\* Believing.  Who has heard of a router since the last failure, or comes late enough, has
\* no entry that is newer than what the router says now.

\* Router r will believe what o says next: it does already, or whatever o said before
\* its last restart is forgotten by then.
Listens(r, o) == Fresh(r, o) \/ calm > LastOld

\* An LSU in flight is newer than an entry that was not renewed this second.
PacketIsNewer(x) ==
    \A r \in Router : Listens(r, x.rid) /\ x.rid \in DOMAIN db[r] /\ ~Renewed(r, x.rid)
                          => x.seq > db[r][x.rid].seq

NewerInv ==
    calm > 0 => \A w \in Wire : \A x \in Lsus : Carries(chan, w, x) => PacketIsNewer(x)

LEMMA NewerInit == Init => NewerInv
<1>1. Init => calm = 0
    BY DEF Init
<1> QED BY <1>1 DEF NewerInv

LEMMA NewerLull ==
    ASSUME NewerInv, Lull
    PROVE  NewerInv'
<1>1. /\ calm' = calm /\ db' = db
      /\ \A w \in Wire : \A x \in Lsus : Carries(chan', w, x) => Carries(chan, w, x)
    BY DEF Lull, SameWorld
<1> QED BY <1>1 DEF NewerInv, PacketIsNewer, Listens, Fresh, AcceptedAt, Renewed

LEMMA NewerAnnounces ==
    ASSUME MospfInv, NumbersInv, NewerInv, TimersInOrder, NEW o \in Router, Announces(o)
    PROVE  NewerInv'
<1>1. /\ calm' = calm /\ db' = db /\ o \in up
      /\ seq'[o] = seq[o] + 1 /\ seq[o] \in Nat
      /\ \/ lsuint[o] = 0
         \/ calm <= NeighboursSettled
      /\ \A w \in Wire : \A x \in Lsus :
            Carries(chan', w, x) => Carries(chan, w, x) \/ Announced(o, w, x)
    BY DEF Announces, SameWorld, MospfInv, SeqNumber
<1>2. calm \in Nat /\ NeighboursSettled \in Nat /\ LastOld \in Nat /\ NeighboursSettled <= LastOld
    BY TimerFacts, Constants DEF MospfInv, EnvTypes
<1>3. ASSUME NEW r \in Router, Listens(r, o), o \in DOMAIN db[r]
      PROVE  seq'[o] > db[r][o].seq
    <2>1. Fresh(r, o) \/ (calm > LastOld /\ lsuint[o] = 0)
        BY <1>1, <1>2, <1>3 DEF Listens
    <2>2. db[r][o].seq <= seq[o]
        BY <1>1, <1>3, <2>1, EntriesAreOfNow
    <2>3. db[r][o].seq \in Nat
        BY <1>3, EntryTypes
    <2> QED BY <1>1, <2>2, <2>3
<1>4. ASSUME NEW w \in Wire, NEW x \in Lsus, Carries(chan', w, x), calm > 0
      PROVE  PacketIsNewer(x)'
    <2>1. CASE Carries(chan, w, x)
        <3>1. PacketIsNewer(x)
            BY <1>4, <2>1 DEF NewerInv
        <3> QED BY <1>1, <3>1 DEF PacketIsNewer, Listens, Fresh, AcceptedAt, Renewed
    <2>2. CASE Announced(o, w, x)
        <3>1. x.rid = o /\ x.seq = seq'[o]
            BY <2>2 DEF Announced, Lsu
        <3>2. \A r \in Router : Listens(r, o)' <=> Listens(r, o)
            BY <1>1 DEF Listens, Fresh, AcceptedAt
        <3> QED BY <1>1, <1>3, <3>1, <3>2 DEF PacketIsNewer
    <2> QED BY <1>1, <1>4, <2>1, <2>2
<1> QED BY <1>1, <1>4 DEF NewerInv

\* Steps that leave entries as they are, renew them or drop them, and send nothing new.
LEMMA NewerKept ==
    ASSUME NewerInv, calm' = calm,
           \A r \in Router : \A o \in DOMAIN db'[r] :
               \/ o \in DOMAIN db[r] /\ db'[r][o] = db[r][o]
               \/ db'[r][o].alive = DBTIMEOUT,
           \A w \in Wire : \A x \in Lsus :
               Carries(chan', w, x) => \E v \in Wire : \E y \in Lsus :
                   Carries(chan, v, y) /\ y.rid = x.rid /\ y.seq = x.seq
    PROVE  NewerInv'
<1> SUFFICES ASSUME NEW w \in Wire, NEW x \in Lsus, Carries(chan', w, x), calm > 0,
                    NEW r \in Router, Listens(r, x.rid)', x.rid \in DOMAIN db'[r], ~Renewed(r, x.rid)'
             PROVE  x.seq > db'[r][x.rid].seq
    BY DEF NewerInv, PacketIsNewer
<1>1. PacketIsNewer(x)
    BY DEF NewerInv, PacketIsNewer
<1>2. x.rid \in DOMAIN db[r] /\ db'[r][x.rid] = db[r][x.rid]
    BY DEF Renewed
<1>3. Listens(r, x.rid) /\ ~Renewed(r, x.rid)
    BY <1>2 DEF Listens, Fresh, AcceptedAt, Renewed
<1> QED BY <1>1, <1>2, <1>3 DEF PacketIsNewer

LEMMA NewerAccepts ==
    ASSUME MospfInv, NewerInv, NEW w \in Wire, NEW m \in Lsus, Accepts(w, m)
    PROVE  NewerInv'
<1>1. /\ calm' = calm /\ w[2] \in Router /\ Carries(chan, w, m)
      /\ DOMAIN db'[w[2]] = DOMAIN db[w[2]] \cup {m.rid}
      /\ db'[w[2]][m.rid] = [seq |-> m.seq, adv |-> m.adv, alive |-> DBTIMEOUT]
      /\ \A o \in DOMAIN db[w[2]] \ {m.rid} : db'[w[2]][o] = db[w[2]][o]
      /\ \A q \in Router \ {w[2]} : db'[q] = db[q]
      /\ \A v \in Wire : \A x \in Lsus : Carries(chan', v, x) =>
            Carries(chan, v, x) \/ (x.rid = m.rid /\ x.seq = m.seq)
    BY WireEnds, SentOnIsLsu DEF Accepts, SameWorld
<1>2. db'[w[2]][m.rid].alive = DBTIMEOUT
    BY <1>1
<1>3. ASSUME NEW r \in Router, NEW o \in DOMAIN db'[r]
      PROVE  \/ o \in DOMAIN db[r] /\ db'[r][o] = db[r][o]
             \/ db'[r][o].alive = DBTIMEOUT
    <2>1. CASE r = w[2]
        BY <1>1, <1>2, <1>3, <2>1
    <2>2. CASE r # w[2]
        BY <1>1, <1>3, <2>2
    <2> QED BY <2>1, <2>2
<1>4. \A v \in Wire : \A x \in Lsus :
          Carries(chan', v, x) => \E u \in Wire : \E y \in Lsus :
              Carries(chan, u, y) /\ y.rid = x.rid /\ y.seq = x.seq
    BY <1>1
<1> QED BY <1>1, <1>3, <1>4, NewerKept

LEMMA NewerExpires ==
    ASSUME NewerInv, NEW r \in Router, Expires(r)
    PROVE  NewerInv'
<1>1. /\ calm' = calm /\ chan' = chan
      /\ \A q \in Router : \A o \in DOMAIN db'[q] : o \in DOMAIN db[q] /\ db'[q][o] = db[q][o]
    BY DEF Expires, SameWorld
<1> QED BY <1>1, NewerKept

LEMMA NewerStep ==
    ASSUME MospfInv, HelloInv, LowNumbers, NumbersInv, NewerInv, TimersInOrder, [Next]_vars
    PROVE  NewerInv'
<1>1. Ages => NewerInv'
    BY DEF Ages, NewerInv
<1>2. Fails => NewerInv'
    BY DEF Fails, NewerInv
<1> QED BY <1>1, <1>2, StepKinds, NewerLull, NewerAnnounces, NewerAccepts, NewerExpires

-----------------------------------------------------------------------------
\* The first second, and networks without a failure.

\* When nothing has happened and no time has passed, nothing is known.
NothingYet == failures = 0 /\ calm = 0 => Init

\* Without a failure all entries are fresh.
YoungInv == failures = 0 => \A r \in Router : \A o \in DOMAIN db[r] : Fresh(r, o)

LEMMA NothingYetStep ==
    ASSUME MospfInv, NothingYet, [Next]_vars
    PROVE  NothingYet'
<1> SUFFICES ASSUME failures' = 0, calm' = 0 PROVE Init'
    BY DEF NothingYet
<1>1. calm \in Nat /\ failures \in Nat
    BY Constants DEF MospfInv, EnvTypes
<1>2. ASSUME Failure PROVE FALSE
    BY <1>1, <1>2, FailureChanges
<1>3. ASSUME Tick PROVE FALSE
    BY <1>1, <1>3, TickAges
<1>4. ASSUME Work PROVE FALSE
    <2>1. failures' = failures /\ calm' = calm
        BY <1>4 DEF Work, HelloTimeout, NbrTimeout, LsuTimeout, DbTimeout, HandleHello, DropLsu,
                    AcceptLsu, env
    <2>2. Init
        BY <2>1 DEF NothingYet
    <2>3. /\ \A w \in Wire : chan[w] = <<>>
          /\ \A r \in Router : /\ helloint[r] # 0 /\ lsuint[r] # 0
                               /\ DOMAIN nbr[r] = {} /\ DOMAIN db[r] = {}
        BY <2>2, Constants, NothingIsEmpty DEF Init
    <2>4. ASSUME NEW r \in Router PROVE ~NbrTimeout(r) /\ ~DbTimeout(r)
        BY <2>3 DEF NbrTimeout, DbTimeout
    <2> QED BY <1>4, <2>3, <2>4 DEF Work, HelloTimeout, LsuTimeout, HandleHello, DropLsu, AcceptLsu
<1>5. ASSUME UNCHANGED vars PROVE Init'
    <2>1. failures = 0 /\ calm = 0
        BY <1>5 DEF vars
    <2>2. Init
        BY <2>1 DEF NothingYet
    <2> QED BY <1>5, <2>2 DEF vars, Init
<1> QED BY <1>2, <1>3, <1>4, <1>5 DEF Next

LEMMA YoungStep ==
    ASSUME MospfInv, HelloInv, LowNumbers, NothingYet, YoungInv, [Next]_vars
    PROVE  YoungInv'
<1> SUFFICES ASSUME failures' = 0, NEW r \in Router, NEW o \in DOMAIN db'[r]
             PROVE  Fresh(r, o)'
    BY DEF YoungInv
<1>1. calm \in Nat /\ failures \in Nat /\ DBTIMEOUT \in Nat
    BY Constants DEF MospfInv, EnvTypes
<1>2. ASSUME failures' = failures, calm' = calm, o \in DOMAIN db[r], db'[r][o] = db[r][o]
      PROVE  Fresh(r, o)'
    BY <1>2 DEF YoungInv, Fresh, AcceptedAt
<1>3. ASSUME Lull PROVE Fresh(r, o)'
    BY <1>2, <1>3 DEF Lull, SameWorld
<1>4. ASSUME NEW q \in Router, Announces(q) PROVE Fresh(r, o)'
    BY <1>2, <1>4 DEF Announces, SameWorld
<1>5. ASSUME NEW w \in Wire, NEW m \in Lsus, Accepts(w, m) PROVE Fresh(r, o)'
    <2>1. /\ failures' = failures /\ calm' = calm /\ w[2] \in Router /\ Carries(chan, w, m)
          /\ DOMAIN db'[w[2]] = DOMAIN db[w[2]] \cup {m.rid}
          /\ db'[w[2]][m.rid] = [seq |-> m.seq, adv |-> m.adv, alive |-> DBTIMEOUT]
          /\ \A p \in DOMAIN db[w[2]] \ {m.rid} : db'[w[2]][p] = db[w[2]][p]
          /\ \A q \in Router \ {w[2]} : db'[q] = db[q]
        BY <1>5, WireEnds DEF Accepts, SameWorld
    <2>2. CASE r = w[2] /\ o = m.rid
        <3>1. calm > 0
            <4> SUFFICES ASSUME calm = 0 PROVE FALSE
                BY <1>1
            <4>1. Init
                BY <2>1 DEF NothingYet
            <4>2. chan[w] = <<>>
                BY <4>1 DEF Init
            <4> QED BY <2>1, <4>2 DEF Carries
        <3>2. db'[r][o].alive = DBTIMEOUT
            BY <2>1, <2>2
        <3> QED BY <1>1, <2>1, <3>1, <3>2 DEF Fresh, AcceptedAt
    <2>3. CASE ~(r = w[2] /\ o = m.rid)
        BY <1>2, <2>1, <2>3
    <2> QED BY <2>2, <2>3
<1>6. ASSUME NEW q \in Router, Expires(q) PROVE Fresh(r, o)'
    <2>1. /\ failures' = failures /\ calm' = calm
          /\ \A p \in DOMAIN db'[q] : p \in DOMAIN db[q] /\ db'[q][p] = db[q][p]
          /\ \A s \in Router \ {q} : db'[s] = db[s]
        BY <1>6 DEF Expires, SameWorld
    <2> QED BY <1>2, <2>1
<1>7. ASSUME Ages PROVE Fresh(r, o)'
    <2>1. o \in DOMAIN db[r] /\ failures = 0
        BY <1>7 DEF Ages
    <2>2. Fresh(r, o)
        BY <2>1 DEF YoungInv
    <2> QED BY <1>7, <2>1, <2>2, AgesEntries
<1>8. ASSUME Fails PROVE FALSE
    BY <1>1, <1>8 DEF Fails
<1> QED BY StepKinds, <1>3, <1>4, <1>5, <1>6, <1>7, <1>8

LEMMA YoungInit == Init => NothingYet /\ YoungInv
<1> SUFFICES ASSUME Init PROVE YoungInv
    BY DEF NothingYet
<1>1. \A r \in Router : DOMAIN db[r] = {}
    BY NothingIsEmpty DEF Init
<1> QED BY <1>1 DEF YoungInv

-----------------------------------------------------------------------------
\* Flooding.  Within a second, what a router says spreads over every link that is there.

\* Router r says this second what o says.
Tells(r, o) == Renewed(r, o) \/ (r = o /\ lsuint[o] = LSUINT)

\* Router r has heard this second what o says, or will when the packets on wire w come.
Spreads(w, o) ==
    \/ Renewed(w[2], o)
    \/ \E x \in Lsus : Carries(chan, w, x) /\ x.rid = o /\ ~Stale(w[2], x)

SpreadInv ==
    calm > HELLOINT =>
        \A w \in Wire : \A o \in Router \ {w[2]} :
            TrueWire(w) /\ Tells(w[1], o) /\ Listens(w[2], o) => Spreads(w, o)

\* The routers that have stored this second what x says, or something later.
HeardBy(x) == {q \in Router : Renewed(q, x.rid) /\ db[q][x.rid].seq >= x.seq}

\* With every hop the TTL of an LSU falls, and one more router has stored it.
HopsInv ==
    calm > 0 => \A w \in Wire : \A x \in Lsus :
        Carries(chan, w, x) => x.ttl + Cardinality(HeardBy(x)) >= DEFAULT_TTL

\* The TTL is enough for an LSU to pass all routers but its origin, in a row: 65 routers
\* with the code's.  It is not the distance that counts: an LSU that went a long way round
\* may come first and be stored, and then the one that came straight is refused.
FloodsReach == IsFiniteSet(Router) /\ Cardinality(Router) <= DEFAULT_TTL + 1

LEMMA HeardByFinite ==
    ASSUME IsFiniteSet(Router), NEW S \in SUBSET Router
    PROVE  IsFiniteSet(S) /\ Cardinality(S) \in Nat
BY FS_Subset, FS_CardinalityType

\* Steps that lose none of the entries renewed this second and send no LSU on.
LEMMA HopsKept ==
    ASSUME IsFiniteSet(Router), HopsInv, calm' = calm,
           \A r \in Router : \A o : Renewed(r, o) =>
               Renewed(r, o)' /\ db'[r][o].seq = db[r][o].seq,
           \A w \in Wire : \A x \in Lsus :
               Carries(chan', w, x) => Carries(chan, w, x) \/ x.ttl = DEFAULT_TTL
    PROVE  HopsInv'
<1> SUFFICES ASSUME NEW w \in Wire, NEW x \in Lsus, Carries(chan', w, x), calm > 0
             PROVE  x.ttl + Cardinality(HeardBy(x)') >= DEFAULT_TTL
    BY DEF HopsInv
<1>1. HeardBy(x) \in SUBSET Router /\ HeardBy(x)' \in SUBSET Router
    BY DEF HeardBy
<1>2. /\ IsFiniteSet(HeardBy(x)') /\ Cardinality(HeardBy(x)') \in Nat
      /\ Cardinality(HeardBy(x)) \in Nat
    BY <1>1, HeardByFinite
<1>3. HeardBy(x) \subseteq HeardBy(x)'
    BY DEF HeardBy
<1>4. Cardinality(HeardBy(x)) <= Cardinality(HeardBy(x)')
    BY <1>2, <1>3, FS_Subset
<1>5. x.ttl \in Nat /\ DEFAULT_TTL \in Nat
    BY LsuTypes, NewTtl
<1>6. Carries(chan, w, x) => x.ttl + Cardinality(HeardBy(x)) >= DEFAULT_TTL
    BY DEF HopsInv
<1> QED BY <1>2, <1>4, <1>5, <1>6

LEMMA HopsAccepts ==
    ASSUME MospfInv, NumbersInv, IsFiniteSet(Router), HopsInv,
           NEW w \in Wire, NEW m \in Lsus, Accepts(w, m)
    PROVE  HopsInv'
<1> DEFINE r == w[2]
<1>1. /\ calm' = calm /\ r \in Router /\ Carries(chan, w, m) /\ ~Stale(r, m)
      /\ DOMAIN db'[r] = DOMAIN db[r] \cup {m.rid}
      /\ db'[r][m.rid] = [seq |-> m.seq, adv |-> m.adv, alive |-> DBTIMEOUT]
      /\ \A o \in DOMAIN db[r] \ {m.rid} : db'[r][o] = db[r][o]
      /\ \A q \in Router \ {r} : db'[q] = db[q]
      /\ \A v \in Wire : \A x \in Lsus :
            Carries(chan', v, x) => Carries(chan, v, x) \/ SentOn(m, x)
    BY WireEnds DEF Accepts, SameWorld
<1>2. Renewed(r, m.rid)' /\ db'[r][m.rid].seq = m.seq
    BY <1>1 DEF Renewed
<1>3. m.rid \in DOMAIN db[r] => m.seq > db[r][m.rid].seq
    BY <1>1, AcceptedIfGreater DEF Stale
<1>4. m.seq \in Nat /\ m.ttl \in Nat /\ DEFAULT_TTL \in Nat
    BY LsuTypes, NewTtl
<1>5. \A o \in DOMAIN db[r] : db[r][o].seq \in Nat
    BY <1>1, EntryTypes
<1> HIDE DEF r
\* What had been stored still is, or something later.
<1>6. ASSUME NEW x \in Lsus PROVE HeardBy(x) \subseteq HeardBy(x)'
    <2> SUFFICES ASSUME NEW q \in Router, Renewed(q, x.rid), db[q][x.rid].seq >= x.seq
                 PROVE  Renewed(q, x.rid)' /\ db'[q][x.rid].seq >= x.seq
        BY DEF HeardBy
    <2>1. CASE q = r /\ x.rid = m.rid
        <3>1. x.seq \in Nat /\ db[r][m.rid].seq \in Nat /\ m.seq > db[r][m.rid].seq
            BY <1>3, <1>5, <2>1, LsuTypes DEF Renewed
        <3> QED BY <1>2, <1>4, <2>1, <3>1
    <2>2. CASE ~(q = r /\ x.rid = m.rid)
        <3>1. x.rid \in DOMAIN db[q] /\ x.rid \in DOMAIN db'[q] /\ db'[q][x.rid] = db[q][x.rid]
            BY <1>1, <2>2 DEF Renewed
        <3> QED BY <3>1 DEF Renewed
    <2> QED BY <2>1, <2>2
\* The acceptor had not.
<1>7. r \notin HeardBy(m) /\ r \in HeardBy(m)'
    <2>1. r \notin HeardBy(m)
        BY <1>3, <1>4, <1>5 DEF HeardBy, Renewed
    <2> QED BY <1>1, <1>2, <1>4, <2>1 DEF HeardBy
<1> SUFFICES ASSUME NEW v \in Wire, NEW x \in Lsus, Carries(chan', v, x), calm > 0
             PROVE  x.ttl + Cardinality(HeardBy(x)') >= DEFAULT_TTL
    BY <1>1 DEF HopsInv
<1>8. HeardBy(x) \in SUBSET Router /\ HeardBy(x)' \in SUBSET Router /\ HeardBy(m) \in SUBSET Router
    BY DEF HeardBy
<1>9. /\ IsFiniteSet(HeardBy(x)') /\ Cardinality(HeardBy(x)') \in Nat
      /\ Cardinality(HeardBy(x)) \in Nat
      /\ IsFiniteSet(HeardBy(m)) /\ Cardinality(HeardBy(m)) \in Nat
    BY <1>8, HeardByFinite
<1>10. CASE Carries(chan, v, x)
    <2>1. x.ttl + Cardinality(HeardBy(x)) >= DEFAULT_TTL /\ x.ttl \in Nat
        BY <1>10, LsuTypes DEF HopsInv
    <2>2. Cardinality(HeardBy(x)) <= Cardinality(HeardBy(x)')
        BY <1>6, <1>9, FS_Subset
    <2> QED BY <1>4, <1>9, <2>1, <2>2
<1>11. CASE SentOn(m, x)
    <2>1. x.rid = m.rid /\ x.seq = m.seq /\ x.ttl = m.ttl - 1
        BY <1>11, SentOnIsLsu
    <2>2. HeardBy(x)' = HeardBy(m)'
        BY <2>1 DEF HeardBy
    <2>3. HeardBy(m) \cup {r} \subseteq HeardBy(x)'
        BY <1>6, <1>7, <2>2
    <2>4. Cardinality(HeardBy(m) \cup {r}) = Cardinality(HeardBy(m)) + 1
        BY <1>7, <1>9, FS_AddElement
    <2>5. Cardinality(HeardBy(m) \cup {r}) <= Cardinality(HeardBy(x)')
        BY <1>9, <2>3, FS_Subset
    <2>6. m.ttl + Cardinality(HeardBy(m)) >= DEFAULT_TTL
        BY <1>1 DEF HopsInv
    <2> QED BY <1>4, <1>9, <2>1, <2>4, <2>5, <2>6
<1> QED BY <1>1, <1>10, <1>11

LEMMA HopsStep ==
    ASSUME MospfInv, HelloInv, LowNumbers, NumbersInv, IsFiniteSet(Router), HopsInv, [Next]_vars
    PROVE  HopsInv'
<1>1. ASSUME Lull PROVE HopsInv'
    BY <1>1, HopsKept DEF Lull, SameWorld, Renewed
<1>2. ASSUME NEW o \in Router, Announces(o) PROVE HopsInv'
    <2>1. \A w \in Wire : \A x : Announced(o, w, x) => x.ttl = DEFAULT_TTL
        BY DEF Announced, Lsu
    <2> QED BY <1>2, <2>1, HopsKept DEF Announces, SameWorld, Renewed
<1>3. ASSUME NEW r \in Router, Expires(r) PROVE HopsInv'
    <2>1. /\ calm' = calm /\ chan' = chan
          /\ DOMAIN db'[r] = {o \in DOMAIN db[r] : db[r][o].alive > 0}
          /\ \A o \in DOMAIN db'[r] : db'[r][o] = db[r][o]
          /\ \A q \in Router \ {r} : db'[q] = db[q]
        BY <1>3 DEF Expires, SameWorld
    <2>2. DBTIMEOUT > 0
        BY Constants
    <2>3. \A q \in Router : \A o : Renewed(q, o) =>
              Renewed(q, o)' /\ db'[q][o].seq = db[q][o].seq
        BY <2>1, <2>2 DEF Renewed
    <2> QED BY <2>1, <2>3, HopsKept
<1>4. ASSUME Ages PROVE HopsInv'
    <2>1. \A w \in Wire : \A x : ~Carries(chan', w, x)
        BY <1>4 DEF Ages
    <2> QED BY <2>1 DEF HopsInv
<1>5. ASSUME Fails PROVE HopsInv'
    <2>1. calm' = 0
        BY <1>5 DEF Fails
    <2> QED BY <2>1 DEF HopsInv
<1> QED BY <1>1, <1>2, <1>3, <1>4, <1>5, StepKinds, HopsAccepts

\* Hence an LSU that is accepted and not sent on has come to the last router.
LEMMA LastHop ==
    ASSUME MospfInv, FloodsReach, HopsInv, calm > 0,
           NEW w \in Wire, NEW m \in Lsus, Accepts(w, m), ~Renewed(w[2], m.rid),
           NEW q \in Router, q # w[2], q # m.rid, ~Renewed(q, m.rid)
    PROVE  m.ttl > 1
<1> DEFINE r == w[2]
           o == m.rid
<1>1. /\ r \in Router /\ o \in Router /\ r # o /\ Carries(chan, w, m)
      /\ m.ttl \in Nat /\ DEFAULT_TTL \in Nat
    BY WireEnds, LsuTypes, NewTtl DEF Accepts, Stale
<1>2. ~Renewed(o, o)
    BY <1>1 DEF MospfInv, Tables, DatabaseOf, Renewed
<1> HIDE DEF r, o
<1>3. HeardBy(m) \subseteq ((Router \ {r}) \ {o}) \ {q}
    BY <1>2 DEF HeardBy, r, o
<1>4. IsFiniteSet(Router) /\ Cardinality(Router) \in Nat /\ Cardinality(Router) <= DEFAULT_TTL + 1
    BY FS_CardinalityType DEF FloodsReach
<1>5. /\ IsFiniteSet(((Router \ {r}) \ {o}) \ {q})
      /\ Cardinality(((Router \ {r}) \ {o}) \ {q}) = Cardinality(Router) - 3
    <2>1. IsFiniteSet(Router \ {r}) /\ Cardinality(Router \ {r}) = Cardinality(Router) - 1
        BY <1>1, <1>4, FS_RemoveElement
    <2>2. /\ IsFiniteSet((Router \ {r}) \ {o})
          /\ Cardinality((Router \ {r}) \ {o}) = Cardinality(Router \ {r}) - 1
        BY <1>1, <2>1, FS_RemoveElement
    <2>3. q \in (Router \ {r}) \ {o}
        BY DEF r, o
    <2>4. /\ IsFiniteSet(((Router \ {r}) \ {o}) \ {q})
          /\ Cardinality(((Router \ {r}) \ {o}) \ {q}) = Cardinality((Router \ {r}) \ {o}) - 1
        BY <2>2, <2>3, FS_RemoveElement
    <2> QED BY <1>4, <2>1, <2>2, <2>4
<1>6. Cardinality(HeardBy(m)) \in Nat /\ Cardinality(HeardBy(m)) <= Cardinality(Router) - 3
    BY <1>3, <1>5, FS_Subset, FS_CardinalityType
<1>7. m.ttl + Cardinality(HeardBy(m)) >= DEFAULT_TTL
    BY <1>1 DEF HopsInv
<1> QED BY <1>1, <1>4, <1>6, <1>7

\* The true wires have a way back.
LEMMA WayBack ==
    ASSUME HelloInv, NEW w \in Wire, TrueWire(w), calm > HELLOINT
    PROVE  Alive(w) /\ w[2] \in DOMAIN nbr[w[1]]
<1>1. {w[2], w[1]} = {w[1], w[2]}
    OBVIOUS
<1>2. <<w[2], w[1]>> \in Wire /\ TrueWire(<<w[2], w[1]>>)
    BY <1>1, WireEnds DEF Wire, TrueWire
<1>3. Lists(<<w[2], w[1]>>)
    BY <1>2 DEF HelloInv, WireKnown, HelloHeard
<1> QED BY <1>3 DEF Lists, TrueWire, Alive

LEMMA SpreadInit == Init => SpreadInv
<1>1. Init => calm = 0 /\ HELLOINT \in Nat
    BY Constants DEF Init
<1> QED BY <1>1 DEF SpreadInv

LEMMA SpreadLull ==
    ASSUME SpreadInv, Lull
    PROVE  SpreadInv'
<1>1. /\ up' = up /\ cut' = cut /\ calm' = calm /\ lsuint' = lsuint /\ db' = db
      /\ \A w \in Wire : \A x \in Lsus :
            Carries(chan, w, x) => Carries(chan', w, x) \/ Stale(w[2], x)
    BY DEF Lull, SameWorld
<1> SUFFICES ASSUME calm > HELLOINT, NEW w \in Wire, NEW o \in Router \ {w[2]},
                    TrueWire(w)', Tells(w[1], o)', Listens(w[2], o)'
             PROVE  Spreads(w, o)'
    BY <1>1 DEF SpreadInv
<1>2. TrueWire(w) /\ Tells(w[1], o) /\ Listens(w[2], o)
    BY <1>1 DEF TrueWire, Tells, Listens, Renewed, Fresh, AcceptedAt
<1>3. Spreads(w, o)
    BY <1>2 DEF SpreadInv
<1> QED BY <1>1, <1>3 DEF Spreads, Renewed, Stale

LEMMA SpreadAnnounces ==
    ASSUME MospfInv, HelloInv, NumbersInv, LowNumbers', SpreadInv, TimersInOrder,
           NEW o \in Router, Announces(o)
    PROVE  SpreadInv'
<1>1. /\ up' = up /\ cut' = cut /\ calm' = calm /\ db' = db /\ o \in up
      /\ seq'[o] = seq[o] + 1 /\ seq[o] \in Nat
      /\ \A q \in Router \ {o} : lsuint'[q] = lsuint[q]
      /\ \/ lsuint[o] = 0 /\ DOMAIN nbr'[o] = DOMAIN nbr[o]
         \/ lsuint'[o] = lsuint[o]
      /\ Lsu(o, seq'[o], DOMAIN nbr'[o]) \in Lsus
      /\ \A w \in Wire : \A x \in Lsus :
            Carries(chan', w, x) <=> Carries(chan, w, x) \/ Announced(o, w, x)
    BY DEF Announces, SameWorld, MospfInv, SeqNumber
<1> SUFFICES ASSUME calm > HELLOINT, NEW w \in Wire, NEW p \in Router \ {w[2]},
                    TrueWire(w)', Tells(w[1], p)', Listens(w[2], p)'
             PROVE  Spreads(w, p)'
    BY <1>1 DEF SpreadInv
<1>2. TrueWire(w) /\ Listens(w[2], p)
    BY <1>1 DEF TrueWire, Listens, Fresh, AcceptedAt
<1>3. CASE Tells(w[1], p)
    <2>1. Spreads(w, p)
        BY <1>2, <1>3 DEF SpreadInv
    <2> QED BY <1>1, <2>1 DEF Spreads, Renewed, Stale
<1>4. CASE ~Tells(w[1], p)
    <2>1. w[1] = o /\ p = o /\ lsuint[o] = 0 /\ DOMAIN nbr'[o] = DOMAIN nbr[o]
        BY <1>1, <1>4 DEF Tells, Renewed
    <2>2. Alive(w) /\ w[2] \in DOMAIN nbr[o]
        BY <1>2, <2>1, WayBack
    <2> DEFINE x == Lsu(o, seq'[o], DOMAIN nbr'[o])
    <2>3. x \in Lsus /\ x.rid = o /\ x.seq = seq'[o]
        BY <1>1 DEF Lsu
    <2>4. Carries(chan', w, x)
        BY <1>1, <2>1, <2>2 DEF Announced
    <2>5. ~Stale(w[2], x)
        <3>1. w[2] \in Router
            BY WireEnds
        <3>2. ASSUME o \in DOMAIN db[w[2]] PROVE Newer(seq'[o], db[w[2]][o].seq)
            <4>1. db[w[2]][o].seq <= seq[o]
                BY <1>1, <1>2, <2>1, <3>1, <3>2, EntriesAreOfNow DEF Listens
            <4>2. db[w[2]][o].seq \in Nat /\ 2 * db[w[2]][o].seq < SeqSpace
                BY <3>1, <3>2, EntryTypes DEF NumbersInv, LowEntries
            <4>3. seq'[o] \in Nat /\ 2 * seq'[o] < SeqSpace
                BY <1>1 DEF LowNumbers
            <4> QED BY <1>1, <4>1, <4>2, <4>3, NewerIsGreater
        <3> HIDE DEF x
        <3> QED BY <2>1, <2>3, <3>2 DEF Stale
    <2> HIDE DEF x
    <2> QED BY <1>1, <2>1, <2>3, <2>4, <2>5 DEF Spreads, Stale
<1> QED BY <1>3, <1>4

LEMMA SpreadAccepts ==
    ASSUME MospfInv, HelloInv, NumbersInv, FlightInv, NewerInv, FloodsReach, HopsInv, SpreadInv,
           NEW w \in Wire, NEW m \in Lsus, Accepts(w, m)
    PROVE  SpreadInv'
<1> DEFINE r == w[2]
<1>1. /\ up' = up /\ cut' = cut /\ calm' = calm /\ lsuint' = lsuint
      /\ r \in Router /\ Carries(chan, w, m)
      /\ DOMAIN db'[r] = DOMAIN db[r] \cup {m.rid}
      /\ db'[r][m.rid] = [seq |-> m.seq, adv |-> m.adv, alive |-> DBTIMEOUT]
      /\ \A o \in DOMAIN db[r] \ {m.rid} : db'[r][o] = db[r][o]
      /\ \A q \in Router \ {r} : db'[q] = db[q]
      /\ \A v \in Wire : \A x \in Lsus :
            /\ Carries(chan, v, x) => Carries(chan', v, x) \/ (x = m /\ v = w)
            /\ SentOn(m, x) /\ v[1] = r /\ v[2] \in DOMAIN nbr[r] \ {w[1]} /\ Alive(v)
                  => Carries(chan', v, x)
    BY WireEnds DEF Accepts, SameWorld
<1>2. Renewed(r, m.rid)'
    BY <1>1 DEF Renewed
<1> HIDE DEF r
<1> SUFFICES ASSUME calm > HELLOINT, NEW v \in Wire, NEW p \in Router \ {v[2]},
                    TrueWire(v)', Tells(v[1], p)', Listens(v[2], p)'
             PROVE  Spreads(v, p)'
    BY <1>1 DEF SpreadInv
<1>3. TrueWire(v) /\ v[1] \in Router /\ v[2] \in Router
    BY <1>1, WireEnds DEF TrueWire
\* The databases of q tell the same of p as before.
<1>4. ASSUME NEW q \in Router, q # r \/ p # m.rid
      PROVE  /\ p \in DOMAIN db'[q] <=> p \in DOMAIN db[q]
             /\ p \in DOMAIN db[q] => db'[q][p] = db[q][p]
             /\ (Renewed(q, p)' <=> Renewed(q, p)) /\ (Listens(q, p)' <=> Listens(q, p))
             /\ (Tells(q, p)' <=> Tells(q, p))
             /\ \A x \in Lsus : x.rid = p => (Stale(q, x)' <=> Stale(q, x))
    <2>1. /\ p \in DOMAIN db'[q] <=> p \in DOMAIN db[q]
          /\ p \in DOMAIN db[q] => db'[q][p] = db[q][p]
        BY <1>1, <1>4
    <2> QED BY <1>1, <2>1 DEF Renewed, Listens, Fresh, AcceptedAt, Tells, Stale
<1>5. CASE v[2] = r /\ p = m.rid
    BY <1>2, <1>5 DEF Spreads
<1>6. CASE ~(v[2] = r /\ p = m.rid) /\ Tells(v[1], p) /\ (v # w \/ p # m.rid)
    <2>1. Spreads(v, p)
        BY <1>3, <1>4, <1>6 DEF SpreadInv
    <2>2. CASE Renewed(v[2], p)
        BY <1>3, <1>4, <1>6, <2>2 DEF Spreads
    <2>3. CASE \E x \in Lsus : Carries(chan, v, x) /\ x.rid = p /\ ~Stale(v[2], x)
        <3>1. PICK x \in Lsus : Carries(chan, v, x) /\ x.rid = p /\ ~Stale(v[2], x)
            BY <2>3
        <3>2. Carries(chan', v, x)
            BY <1>1, <1>6, <3>1
        <3>3. ~Stale(v[2], x)'
            BY <1>3, <1>4, <1>6, <3>1
        <3> QED BY <3>1, <3>2, <3>3 DEF Spreads
    <2> QED BY <2>1, <2>2, <2>3 DEF Spreads
<1>7. CASE v[2] # r /\ p = m.rid /\ ~Tells(v[1], p)
    <2>1. v[1] = r
        BY <1>3, <1>4, <1>7
    <2>2. calm > 0
        BY Constants DEF MospfInv, EnvTypes
    <2>3. PacketIsNew(w, m) /\ PacketIsNewer(m)
        BY <1>1, <2>2 DEF FlightInv, PacketsAreNew, NewerInv
    <2>4. CASE v[2] = w[1]
        <3>1. Renewed(v[2], p)
            BY <1>7, <2>3, <2>4 DEF PacketIsNew
        <3> QED BY <1>3, <1>4, <1>7, <3>1 DEF Spreads
    <2>5. CASE v[2] # w[1] /\ ~Renewed(v[2], p)
        <3>1. Alive(v) /\ v[2] \in DOMAIN nbr[r]
            BY <1>3, <2>1, WayBack
        <3>2. ~Renewed(w[2], m.rid)
            BY <1>7, <2>1 DEF Tells, r
        <3>3. m.ttl > 1
            BY <1>3, <1>7, <2>2, <2>5, <3>2, LastHop DEF r
        <3>4. PICK x : SentOn(m, x)
            BY <3>3 DEF SentOn
        <3>5. x \in Lsus /\ x.rid = m.rid /\ x.seq = m.seq
            BY <3>4, SentOnIsLsu
        <3>6. Carries(chan', v, x)
            BY <1>1, <2>1, <2>5, <3>1, <3>4, <3>5
        <3>7. m.rid \in DOMAIN db[v[2]] => m.seq > db[v[2]][m.rid].seq
            BY <1>3, <1>4, <1>7, <2>3, <2>5 DEF PacketIsNewer
        <3>8. ~Stale(v[2], m)
            BY <1>1, <1>3, <1>7, <3>7, AcceptedIfGreater
        <3>9. ~Stale(v[2], x)
            BY <3>5, <3>8 DEF Stale
        <3> QED BY <1>3, <1>4, <1>7, <3>5, <3>6, <3>9 DEF Spreads
    <2>6. CASE Renewed(v[2], p)
        BY <1>3, <1>4, <1>7, <2>6 DEF Spreads
    <2> QED BY <2>4, <2>5, <2>6
<1>8. v = w => v[2] = r
    BY DEF r
<1> QED BY <1>3, <1>4, <1>5, <1>6, <1>7, <1>8

LEMMA SpreadExpires ==
    ASSUME MospfInv, SpreadInv, NEW r \in Router, Expires(r)
    PROVE  SpreadInv'
<1>1. /\ up' = up /\ cut' = cut /\ calm' = calm /\ lsuint' = lsuint /\ chan' = chan
      /\ DOMAIN db'[r] = {o \in DOMAIN db[r] : db[r][o].alive > 0}
      /\ \A q \in Router : \A o \in DOMAIN db'[q] : o \in DOMAIN db[q] /\ db'[q][o] = db[q][o]
      /\ \A q \in Router \ {r} : db'[q] = db[q]
    BY DEF Expires, SameWorld
<1> SUFFICES ASSUME calm > HELLOINT, NEW w \in Wire, NEW o \in Router \ {w[2]},
                    TrueWire(w)', Tells(w[1], o)', Listens(w[2], o)'
             PROVE  Spreads(w, o)'
    BY <1>1 DEF SpreadInv
<1>2. w[1] \in Router /\ w[2] \in Router
    BY WireEnds
<1>3. TrueWire(w) /\ Tells(w[1], o) /\ Listens(w[2], o)
    BY <1>1, <1>2 DEF TrueWire, Tells, Listens, Renewed, Fresh, AcceptedAt
<1>4. Spreads(w, o)
    BY <1>3 DEF SpreadInv
<1>5. CASE Renewed(w[2], o)
    BY <1>1, <1>2, <1>5, Constants DEF Spreads, Renewed
<1>6. CASE \E x \in Lsus : Carries(chan, w, x) /\ x.rid = o /\ ~Stale(w[2], x)
    BY <1>1, <1>2, <1>6 DEF Spreads, Stale
<1> QED BY <1>4, <1>5, <1>6 DEF Spreads

LEMMA SpreadAges ==
    ASSUME MospfInv, Ages
    PROVE  SpreadInv'
<1> SUFFICES ASSUME NEW w \in Wire, NEW o \in Router \ {w[2]}, TrueWire(w)', Tells(w[1], o)'
             PROVE  FALSE
    BY DEF SpreadInv
<1>1. w[1] \in up /\ w[1] \in Router
    BY WireEnds DEF Ages, TrueWire
<1>2. ~Renewed(w[1], o)'
    <2>1. DOMAIN db'[w[1]] = DOMAIN db[w[1]]
        BY <1>1 DEF Ages
    <2> QED BY <1>1, <2>1, AgesEntries DEF Renewed
<1>3. lsuint[w[1]] \in 0..LSUINT /\ lsuint'[w[1]] = lsuint[w[1]] - 1
    BY <1>1 DEF Ages, MospfInv, TimerTypes
<1> QED BY <1>1, <1>2, <1>3, Constants DEF Tells

LEMMA SpreadStep ==
    ASSUME MospfInv, HelloInv, LowNumbers, LowNumbers', NumbersInv, FlightInv, NewerInv,
           FloodsReach, HopsInv, SpreadInv, TimersInOrder, [Next]_vars
    PROVE  SpreadInv'
<1>1. Fails => SpreadInv'
    BY Constants DEF Fails, SpreadInv
<1> QED BY <1>1, StepKinds, SpreadLull, SpreadAnnounces, SpreadAccepts, SpreadExpires, SpreadAges

-----------------------------------------------------------------------------
\* Ageing.  A fresh entry is renewed before it is too old, and came over links that are
\* there.

\* What a fresh entry has left when it is renewed late: o has announced itself in time.
AliveEnough(r, o) ==
    /\ db[r][o].alive >= 1 + DBTIMEOUT - HELLOINT - LSUINT
    /\ \/ lsuint[o] = LSUINT
       \/ db[r][o].alive >= 1 + DBTIMEOUT - HELLOINT - LSUINT + lsuint[o]

AliveInv == \A r \in Router : \A o \in DOMAIN db[r] : Fresh(r, o) => AliveEnough(r, o)

\* X holds o and whoever is next to a router in X and has a fresh entry of o.
Chain(o, X) ==
    o \in X /\ \A w \in Wire : TrueWire(w) /\ w[1] \in X /\ Fresh(w[2], o) => w[2] \in X

\* Every router with a fresh entry of o is joined to o by such routers.
ChainInv ==
    \A o \in Router : \A X \in SUBSET Router :
        Chain(o, X) => \A r \in Router : Fresh(r, o) => r \in X

LEMMA FreshIsLater ==
    ASSUME MospfInv, NEW r \in Router, NEW o, Fresh(r, o)
    PROVE  o \in DOMAIN db[r] /\ o \in Router /\ o # r /\ calm > 0 /\ r \in up
<1>1. o \in DOMAIN db[r]
    BY DEF Fresh
<1>2. o \in Router /\ o # r /\ r \in up
    BY <1>1, EntryTypes
<1>3. AcceptedAt(r, o) \in Int /\ AcceptedAt(r, o) <= calm /\ calm \in Nat
    BY <1>1, AgeTypes
<1> QED BY <1>1, <1>2, <1>3 DEF Fresh

\* By the end of the second in which o has announced itself all its fresh entries are
\* renewed.
LEMMA AllRenewed ==
    ASSUME MospfInv, SpreadInv, ChainInv, calm > HELLOINT,
           \A w \in Wire : \A x : ~Carries(chan, w, x),
           NEW o \in Router, lsuint[o] = LSUINT, NEW r \in Router, Fresh(r, o)
    PROVE  Renewed(r, o)
<1> DEFINE X == {q \in Router : q = o \/ Renewed(q, o)}
<1>1. ASSUME NEW w \in Wire, TrueWire(w), w[1] \in X, Fresh(w[2], o)
      PROVE  w[2] \in X
    <2>1. w[2] \in Router /\ o # w[2]
        BY <1>1, WireEnds, FreshIsLater
    <2>2. Tells(w[1], o) /\ Listens(w[2], o)
        BY <1>1 DEF Tells, Listens
    <2>3. Spreads(w, o)
        BY <1>1, <2>1, <2>2 DEF SpreadInv
    <2> QED BY <2>1, <2>3 DEF Spreads
<1>2. Chain(o, X) /\ X \in SUBSET Router
    BY <1>1 DEF Chain
<1>3. r \in X
    BY <1>2 DEF ChainInv
<1>4. r # o
    BY FreshIsLater
<1> QED BY <1>3, <1>4

\* A fresh entry is not too old.
LEMMA FreshStays ==
    ASSUME AliveInv, TimersInOrder, MospfInv, NEW r \in Router, NEW o \in DOMAIN db[r], Fresh(r, o)
    PROVE  db[r][o].alive > 0
<1>1. db[r][o].alive \in Nat
    BY EntryTypes, Constants
<1> QED BY <1>1, Constants DEF AliveInv, AliveEnough, TimersInOrder

LEMMA AliveInit == Init => AliveInv /\ ChainInv
<1> SUFFICES ASSUME Init PROVE AliveInv /\ ChainInv
    OBVIOUS
<1>1. \A r \in Router : DOMAIN db[r] = {}
    BY NothingIsEmpty DEF Init
<1> QED BY <1>1 DEF AliveInv, ChainInv, Fresh

\* Steps that leave the fresh entries as they are.
LEMMA ChainKept ==
    ASSUME ChainInv, up' = up, cut' = cut,
           \A r \in Router : \A o \in Router : Fresh(r, o)' <=> Fresh(r, o)
    PROVE  ChainInv'
<1> SUFFICES ASSUME NEW o \in Router, NEW X \in SUBSET Router, Chain(o, X)',
                    NEW r \in Router, Fresh(r, o)'
             PROVE  r \in X
    BY DEF ChainInv
<1>1. Chain(o, X)
    BY WireEnds DEF Chain, TrueWire
<1> QED BY <1>1 DEF ChainInv

LEMMA ChainAccepts ==
    ASSUME MospfInv, HelloInv, FlightInv, ChainInv, NEW w \in Wire, NEW m \in Lsus, Accepts(w, m)
    PROVE  ChainInv'
<1> DEFINE r == w[2]
<1>1. /\ up' = up /\ cut' = cut /\ calm' = calm
      /\ r \in Router /\ w[1] \in Router /\ Carries(chan, w, m) /\ m.rid \in Router
      /\ DOMAIN db'[r] = DOMAIN db[r] \cup {m.rid}
      /\ db'[r][m.rid] = [seq |-> m.seq, adv |-> m.adv, alive |-> DBTIMEOUT]
      /\ \A o \in DOMAIN db[r] \ {m.rid} : db'[r][o] = db[r][o]
      /\ \A q \in Router \ {r} : db'[q] = db[q]
    BY WireEnds, LsuTypes DEF Accepts, SameWorld
<1>2. db'[r][m.rid].alive = DBTIMEOUT /\ DBTIMEOUT \in Nat /\ calm \in Nat
    BY <1>1, Constants DEF MospfInv, EnvTypes
<1>3. ASSUME NEW q \in Router, NEW o \in Router, q # r \/ o # m.rid
      PROVE  Fresh(q, o)' <=> Fresh(q, o)
    BY <1>1, <1>3 DEF Fresh, AcceptedAt
<1>4. Fresh(r, m.rid)' <=> calm > 0
    BY <1>1, <1>2 DEF Fresh, AcceptedAt
<1>5. calm > 0 => TrueWire(w) /\ (w[1] = m.rid \/ Fresh(w[1], m.rid))
    <2> SUFFICES ASSUME calm > 0
                 PROVE  TrueWire(w) /\ (w[1] = m.rid \/ Fresh(w[1], m.rid))
        OBVIOUS
    <2>1. chan[w] # <<>>
        BY <1>1, CarriesTyped DEF MospfInv
    <2>2. TrueWire(w)
        BY <2>1 DEF HelloInv, CalmWires
    <2>3. w[1] = m.rid \/ Renewed(w[1], m.rid)
        BY <1>1 DEF FlightInv, PacketsAreNew, PacketIsNew
    <2>4. Renewed(w[1], m.rid) => Fresh(w[1], m.rid)
        BY <1>2 DEF Renewed, Fresh, AcceptedAt
    <2> QED BY <2>2, <2>3, <2>4
<1> HIDE DEF r
<1> SUFFICES ASSUME NEW o \in Router, NEW X \in SUBSET Router, Chain(o, X)',
                    NEW q \in Router, Fresh(q, o)'
             PROVE  q \in X
    BY DEF ChainInv
<1>6. CASE o # m.rid
    <2>1. Chain(o, X)
        BY <1>1, <1>3, <1>6, WireEnds DEF Chain, TrueWire
    <2> QED BY <1>3, <1>6, <2>1 DEF ChainInv
<1>7. CASE o = m.rid
    <2>1. ASSUME NEW p \in Router, Fresh(p, o) PROVE Fresh(p, o)'
        <3>1. calm > 0
            BY <2>1, FreshIsLater
        <3> QED BY <1>3, <1>4, <1>7, <2>1, <3>1
    <2>2. Chain(o, X)
        BY <1>1, <2>1, WireEnds DEF Chain, TrueWire
    <2>3. \A p \in Router : Fresh(p, o) => p \in X
        BY <2>2 DEF ChainInv
    <2>4. CASE q # r
        BY <1>3, <2>3, <2>4
    <2>5. CASE q = r
        <3>1. calm > 0 /\ TrueWire(w)
            BY <1>4, <1>5, <1>7, <2>5
        <3>2. w[1] \in X
            BY <1>1, <1>5, <1>7, <2>2, <2>3, <3>1 DEF Chain
        <3>3. w[2] = q
            BY <2>5 DEF r
        <3> QED BY <1>1, <3>1, <3>2, <3>3 DEF Chain, TrueWire
    <2> QED BY <2>4, <2>5
<1> QED BY <1>6, <1>7

LEMMA AliveAccepts ==
    ASSUME MospfInv, AliveInv, NEW w \in Wire, NEW m \in Lsus, Accepts(w, m)
    PROVE  AliveInv'
<1>1. /\ calm' = calm /\ lsuint' = lsuint /\ w[2] \in Router
      /\ DOMAIN db'[w[2]] = DOMAIN db[w[2]] \cup {m.rid}
      /\ db'[w[2]][m.rid] = [seq |-> m.seq, adv |-> m.adv, alive |-> DBTIMEOUT]
      /\ \A o \in DOMAIN db[w[2]] \ {m.rid} : db'[w[2]][o] = db[w[2]][o]
      /\ \A q \in Router \ {w[2]} : db'[q] = db[q]
    BY WireEnds DEF Accepts, SameWorld
<1>2. db'[w[2]][m.rid].alive = DBTIMEOUT /\ lsuint[m.rid] \in 0..LSUINT
    BY <1>1, LsuTypes DEF MospfInv, TimerTypes
<1> SUFFICES ASSUME NEW q \in Router, NEW o \in DOMAIN db'[q], Fresh(q, o)'
             PROVE  AliveEnough(q, o)'
    BY DEF AliveInv
<1>3. CASE q = w[2] /\ o = m.rid
    BY <1>1, <1>2, <1>3, Constants DEF AliveEnough
<1>4. CASE ~(q = w[2] /\ o = m.rid)
    <2>1. o \in DOMAIN db[q] /\ db'[q][o] = db[q][o]
        BY <1>1, <1>4
    <2>2. AliveEnough(q, o)
        BY <1>1, <2>1 DEF AliveInv, Fresh, AcceptedAt
    <2> QED BY <1>1, <2>1, <2>2 DEF AliveEnough
<1> QED BY <1>3, <1>4

LEMMA AliveAnnounces ==
    ASSUME MospfInv, AliveInv, NEW o \in Router, Announces(o)
    PROVE  AliveInv'
<1>1. /\ calm' = calm /\ db' = db
      /\ \A q \in Router \ {o} : lsuint'[q] = lsuint[q]
      /\ lsuint'[o] = LSUINT \/ lsuint'[o] = lsuint[o]
    BY DEF Announces, SameWorld
<1> SUFFICES ASSUME NEW q \in Router, NEW p \in DOMAIN db[q], Fresh(q, p)'
             PROVE  AliveEnough(q, p)'
    BY <1>1 DEF AliveInv
<1>2. AliveEnough(q, p) /\ p \in Router
    BY <1>1, EntryTypes DEF AliveInv, Fresh, AcceptedAt
<1> QED BY <1>1, <1>2 DEF AliveEnough

LEMMA AliveAges ==
    ASSUME MospfInv, FlightInv, SpreadInv, ChainInv, AliveInv, Ages
    PROVE  AliveInv'
<1>1. /\ \A w \in Wire : \A x : ~Carries(chan, w, x)
      /\ \A r \in up : lsuint[r] > 0 /\ lsuint'[r] = lsuint[r] - 1
      /\ \A r \in Router :
            /\ DOMAIN db'[r] = DOMAIN db[r]
            /\ \A o \in DOMAIN db[r] : db'[r][o].alive = db[r][o].alive - 1
    BY DEF Ages
<1>2. calm \in Nat /\ HELLOINT \in Nat \ {0} /\ LSUINT \in Nat /\ DBTIMEOUT \in Nat
    BY Constants DEF MospfInv, EnvTypes
<1> SUFFICES ASSUME NEW r \in Router, NEW o \in DOMAIN db'[r], Fresh(r, o)'
             PROVE  AliveEnough(r, o)'
    BY DEF AliveInv
<1>3. /\ o \in DOMAIN db[r] /\ o \in Router /\ Fresh(r, o)
      /\ lsuint[o] \in 0..LSUINT /\ db[r][o].alive \in 0..DBTIMEOUT
    BY <1>1, AgesEntries, EntryTypes
<1>4. o \in up /\ AliveEnough(r, o)
    BY <1>3 DEF FlightInv, EntriesAreNew, EntryIsNew, AliveInv
<1>5. CASE lsuint[o] # LSUINT
    BY <1>1, <1>2, <1>3, <1>4, <1>5 DEF AliveEnough
<1>6. CASE lsuint[o] = LSUINT
    <2>1. db[r][o].alive >= 1 + DBTIMEOUT - HELLOINT
        <3>1. CASE calm > HELLOINT
            <4>1. Renewed(r, o)
                BY <1>1, <1>3, <1>6, <3>1, AllRenewed
            <4> QED BY <1>2, <4>1 DEF Renewed
        <3>2. CASE calm <= HELLOINT
            BY <1>2, <1>3, <3>2 DEF Fresh, AcceptedAt
        <3> QED BY <1>2, <3>1, <3>2
    <2> QED BY <1>1, <1>2, <1>3, <1>4, <1>6, <2>1 DEF AliveEnough
<1> QED BY <1>5, <1>6

LEMMA AliveStep ==
    ASSUME MospfInv, MospfInv', HelloInv, LowNumbers, FlightInv, SpreadInv, AliveInv, ChainInv,
           TimersInOrder, [Next]_vars
    PROVE  AliveInv' /\ ChainInv'
<1>1. ASSUME Lull PROVE AliveInv' /\ ChainInv'
    <2>1. up' = up /\ cut' = cut /\ calm' = calm /\ lsuint' = lsuint /\ db' = db
        BY <1>1 DEF Lull, SameWorld
    <2>2. AliveInv'
        BY <2>1 DEF AliveInv, AliveEnough, Fresh, AcceptedAt
    <2>3. \A r \in Router : \A o \in Router : Fresh(r, o)' <=> Fresh(r, o)
        BY <2>1 DEF Fresh, AcceptedAt
    <2> QED BY <2>1, <2>2, <2>3, ChainKept
<1>2. ASSUME NEW o \in Router, Announces(o) PROVE AliveInv' /\ ChainInv'
    <2>1. up' = up /\ cut' = cut /\ calm' = calm /\ db' = db
        BY <1>2 DEF Announces, SameWorld
    <2>2. \A r \in Router : \A p \in Router : Fresh(r, p)' <=> Fresh(r, p)
        BY <2>1 DEF Fresh, AcceptedAt
    <2> QED BY <1>2, <2>1, <2>2, ChainKept, AliveAnnounces
<1>3. ASSUME NEW r \in Router, Expires(r) PROVE AliveInv' /\ ChainInv'
    <2>1. /\ up' = up /\ cut' = cut /\ calm' = calm /\ lsuint' = lsuint
          /\ DOMAIN db'[r] = {o \in DOMAIN db[r] : db[r][o].alive > 0}
          /\ \A q \in Router : \A o \in DOMAIN db'[q] : o \in DOMAIN db[q] /\ db'[q][o] = db[q][o]
          /\ \A q \in Router \ {r} : db'[q] = db[q]
        BY <1>3 DEF Expires, SameWorld
    <2>2. AliveInv'
        BY <2>1 DEF AliveInv, AliveEnough, Fresh, AcceptedAt
    <2>3. ASSUME NEW q \in Router, NEW o \in Router
          PROVE  Fresh(q, o)' <=> Fresh(q, o)
        <3>1. Fresh(q, o)' => Fresh(q, o)
            BY <2>1 DEF Fresh, AcceptedAt
        <3>2. ASSUME Fresh(q, o) PROVE Fresh(q, o)'
            <4>1. o \in DOMAIN db[q] /\ db[q][o].alive > 0
                BY <3>2, FreshStays DEF Fresh
            <4>2. o \in DOMAIN db'[q]
                BY <2>1, <4>1
            <4> QED BY <2>1, <3>2, <4>2 DEF Fresh, AcceptedAt
        <3> QED BY <3>1, <3>2
    <2> QED BY <2>1, <2>2, <2>3, ChainKept
<1>4. ASSUME Ages PROVE AliveInv' /\ ChainInv'
    <2>1. /\ up' = up /\ cut' = cut /\ \A r \in Router : DOMAIN db'[r] = DOMAIN db[r]
        BY <1>4 DEF Ages
    <2>2. \A r \in Router : \A o \in Router : Fresh(r, o)' <=> Fresh(r, o)
        BY <1>4, <2>1, AgesEntries DEF Fresh
    <2> QED BY <1>4, <2>1, <2>2, ChainKept, AliveAges
<1>5. ASSUME Fails PROVE AliveInv' /\ ChainInv'
    <2>1. \A r \in Router : \A o : ~Fresh(r, o)'
        BY <1>5, FailsEntries DEF Fails, Fresh
    <2> QED BY <2>1 DEF AliveInv, ChainInv
<1> QED BY <1>1, <1>2, <1>3, <1>4, <1>5, StepKinds, AliveAccepts, ChainAccepts

-----------------------------------------------------------------------------
\* What can be reached.

\* S and the neighbours of its routers.
Ball(S) == S \cup UNION {TrueNbrs(s) : s \in S}

\* X is left by no link.
Closed(X) == \A s \in X : TrueNbrs(s) \subseteq X

\* Reached(r) is the last of the balls around r, and there are as many as routers.
LEMMA ReachedByBalls ==
    ASSUME IsFiniteSet(Router), up \subseteq Router, NEW r \in Router
    PROVE  \E b : /\ \A k \in 0..Cardinality(Router) : b[k] \in SUBSET Router
                  /\ b[0] = {r}
                  /\ \A k \in 0..(Cardinality(Router) - 1) : b[k + 1] = Ball(b[k])
                  /\ Reached(r) = b[Cardinality(Router)]
<1> DEFINE N == Cardinality(Router)
           step == [k \in 1..N |-> [S \in SUBSET Router |-> Ball(S)]]
           IsUpto(f) == f = [k \in 0..N |-> IF k = 0 THEN {r}
                                            ELSE f[k - 1] \cup UNION {TrueNbrs(s) : s \in f[k - 1]}]
           Upto == CHOOSE f : IsUpto(f)
<1>1. N \in Nat
    BY FS_CardinalityType
<1>2. \A S \in SUBSET Router : Ball(S) \in SUBSET Router
    BY DEF Ball, TrueNbrs
<1>3. PICK f : Recursion(f, N, SUBSET Router, {r}, step)
    <2>1. step \in [1..N -> [SUBSET Router -> SUBSET Router]] /\ {r} \in SUBSET Router
        BY <1>2
    <2> HIDE DEF step, N
    <2> QED BY <1>1, <2>1, RecursionExists
<1>4. /\ f \in [0..N -> SUBSET Router] /\ f[0] = {r}
      /\ \A k \in 1..N : f[k] = Ball(f[k - 1])
    <2>1. f \in [0..N -> SUBSET Router] /\ f[0] = {r} /\ \A k \in 1..N : f[k] = step[k][f[k - 1]]
        BY <1>3 DEF Recursion
    <2>2. \A k \in 1..N, S \in SUBSET Router : step[k][S] = Ball(S)
        OBVIOUS
    <2>3. \A k \in 1..N : f[k - 1] \in SUBSET Router
        BY <1>1, <2>1
    <2> HIDE DEF step, N
    <2> QED BY <2>1, <2>2, <2>3
<1>5. IsUpto(f)
    <2> DEFINE g == [k \in 0..N |-> IF k = 0 THEN {r}
                                    ELSE f[k - 1] \cup UNION {TrueNbrs(s) : s \in f[k - 1]}]
    <2>1. ASSUME NEW k \in 0..N
          PROVE  f[k] = g[k]
        <3>1. CASE k = 0
            BY <3>1, <1>4
        <3>2. CASE k # 0
            <4>1. k \in 1..N
                BY <3>2, <1>1
            <4>2. f[k] = f[k - 1] \cup UNION {TrueNbrs(s) : s \in f[k - 1]}
                BY <4>1, <1>4 DEF Ball
            <4> QED BY <4>2, <3>2
        <3> QED BY <3>1, <3>2
    <2>2. f = [k \in 0..N |-> f[k]]
        BY <1>4
    <2>3. g = [k \in 0..N |-> g[k]]
        OBVIOUS
    <2> HIDE DEF g
    <2>4. f = g
        BY <2>1, <2>2, <2>3
    <2> QED BY <2>4 DEF g
<1>6. IsUpto(Upto)
    BY <1>5
<1>7. Reached(r) = Upto[N]
    BY DEF Reached
<1> HIDE DEF Upto
<1>8. /\ Upto[0] = {r}
      /\ \A k \in 0..(N - 1) : Upto[k + 1] = Ball(Upto[k])
    <2>1. \A k \in 0..N : Upto[k] = IF k = 0 THEN {r} ELSE Ball(Upto[k - 1])
        BY <1>6 DEF Ball
    <2>2. \A k \in 0..(N - 1) : k + 1 \in 0..N /\ k + 1 # 0 /\ (k + 1) - 1 = k
        BY <1>1
    <2>3. 0 \in 0..N
        BY <1>1
    <2> HIDE DEF N
    <2> QED BY <2>1, <2>2, <2>3
<1> DEFINE T == {k \in 0..N : Upto[k] \in SUBSET Router}
<1>9. 0 \in T
    BY <1>1, <1>8
<1>10. ASSUME NEW k \in 0..(N - 1), k \in T
       PROVE  k + 1 \in T
    <2>1. k + 1 \in 0..N
        BY <1>1
    <2> HIDE DEF N
    <2> QED BY <1>2, <1>8, <1>10, <2>1
<1>11. \A k \in 0..N : k \in T
    <2> HIDE DEF T
    <2> QED BY <1>1, <1>9, <1>10, UpTo
<1>12. \A k \in 0..N : Upto[k] \in SUBSET Router
    BY <1>11
<1> QED BY <1>7, <1>8, <1>12

LEMMA BallGrows ==
    ASSUME NEW S
    PROVE  S \subseteq Ball(S) /\ (Ball(S) = S => Closed(S)) /\ (Closed(S) => Ball(S) = S)
BY DEF Ball, Closed

\* The balls grow until they are closed, and there are no more than routers to take in.
LEMMA ReachedIsClosed ==
    ASSUME IsFiniteSet(Router), up \subseteq Router, NEW r \in Router
    PROVE  r \in Reached(r) /\ Closed(Reached(r)) /\ Reached(r) \in SUBSET Router
<1> DEFINE N == Cardinality(Router)
<1>1. N \in Nat
    BY FS_CardinalityType
<1>2. PICK b : /\ \A k \in 0..N : b[k] \in SUBSET Router
               /\ b[0] = {r}
               /\ \A k \in 0..(N - 1) : b[k + 1] = Ball(b[k])
               /\ Reached(r) = b[N]
    BY ReachedByBalls
<1> DEFINE T == {k \in 0..N : r \in b[k] /\ (Closed(b[k]) \/ Cardinality(b[k]) >= k + 1)}
<1>3. \A k \in 0..N : IsFiniteSet(b[k]) /\ Cardinality(b[k]) \in Nat /\ Cardinality(b[k]) <= N
    <2> HIDE DEF T
    <2> QED BY <1>2, FS_Subset, FS_CardinalityType
<1>4. 0 \in T
    <2>1. Cardinality({r}) = 1
        BY FS_Singleton
    <2>2. Cardinality(b[0]) >= 0 + 1 /\ r \in b[0] /\ 0 \in 0..N
        BY <2>1, <1>1, <1>2
    <2> HIDE DEF N
    <2> QED BY <2>2
<1>5. ASSUME NEW k \in 0..(N - 1), k \in T
      PROVE  k + 1 \in T
    <2>1. k \in 0..N /\ k + 1 \in 0..N /\ k \in Nat
        BY <1>1
    <2>2. b[k + 1] = Ball(b[k]) /\ b[k] \subseteq b[k + 1]
        BY <1>2, BallGrows
    <2>3. CASE b[k + 1] = b[k]
        <3>1. Closed(b[k + 1])
            BY <2>2, <2>3, BallGrows
        <3> QED BY <3>1, <2>1, <2>2, <1>5
    <2>4. CASE b[k + 1] # b[k]
        <3>1. ~Closed(b[k])
            BY <2>2, <2>4, BallGrows
        <3>2. Cardinality(b[k]) >= k + 1
            BY <3>1, <1>5
        <3>3. Cardinality(b[k]) < Cardinality(b[k + 1])
            BY <2>1, <2>2, <2>4, <1>3, FS_Subset
        <3>4. Cardinality(b[k]) \in Nat /\ Cardinality(b[k + 1]) \in Nat
            BY <2>1, <1>3
        <3>5. Cardinality(b[k + 1]) >= (k + 1) + 1
            BY <3>2, <3>3, <3>4, <2>1
        <3> QED BY <3>5, <2>1, <2>2, <1>5
    <2> QED BY <2>3, <2>4
<1>6. \A k \in 0..N : k \in T
    <2> HIDE DEF T, N
    <2> QED BY <1>1, <1>4, <1>5, UpTo
<1>7. N \in T /\ N \in 0..N
    BY <1>1, <1>6
<1>8. r \in b[N] /\ (Closed(b[N]) \/ Cardinality(b[N]) >= N + 1)
    BY <1>7
<1>9. Closed(b[N])
    BY <1>1, <1>3, <1>7, <1>8
<1> QED BY <1>2, <1>7, <1>8, <1>9

\* Reached(r) is in every closed set that r is in.
LEMMA ReachedIsLeast ==
    ASSUME IsFiniteSet(Router), up \subseteq Router, NEW r \in Router,
           NEW X, r \in X, Closed(X)
    PROVE  Reached(r) \subseteq X
<1> DEFINE N == Cardinality(Router)
<1>1. N \in Nat
    BY FS_CardinalityType
<1>2. PICK b : /\ \A k \in 0..N : b[k] \in SUBSET Router
               /\ b[0] = {r}
               /\ \A k \in 0..(N - 1) : b[k + 1] = Ball(b[k])
               /\ Reached(r) = b[N]
    BY ReachedByBalls
<1> DEFINE T == {k \in 0..N : b[k] \subseteq X}
<1>3. 0 \in T
    BY <1>1, <1>2
<1>4. ASSUME NEW k \in 0..(N - 1), k \in T
      PROVE  k + 1 \in T
    <2>1. k + 1 \in 0..N /\ b[k] \subseteq X /\ b[k + 1] = Ball(b[k])
        BY <1>1, <1>2, <1>4
    <2>2. Ball(b[k]) \subseteq X
        BY <2>1 DEF Ball, Closed
    <2> HIDE DEF N
    <2> QED BY <2>1, <2>2
<1>5. \A k \in 0..N : k \in T
    <2> HIDE DEF T, N
    <2> QED BY <1>1, <1>3, <1>4, UpTo
<1> QED BY <1>1, <1>2, <1>5

\* Only running routers can be reached from another, and what can be reached can reach.
LEMMA ReachedBothWays ==
    ASSUME IsFiniteSet(Router), up \subseteq Router, NEW r \in up, NEW o \in up
    PROVE  Reached(r) \subseteq up /\ (r \in Reached(o) => o \in Reached(r))
<1>1. Reached(r) \subseteq up
    BY ReachedIsLeast DEF Closed, TrueNbrs
<1>2. ASSUME r \in Reached(o)
      PROVE  o \in Reached(r)
    <2> DEFINE X == {x \in up : o \in Reached(x)}
    <2>1. ASSUME NEW x \in X, NEW n \in TrueNbrs(x)
          PROVE  n \in X
        <3>1. n \in up /\ n \in Router /\ {x, n} = {n, x} /\ x \in up /\ x \in Router
            BY DEF TrueNbrs
        <3>2. x \in TrueNbrs(n)
            BY <2>1, <3>1 DEF TrueNbrs
        <3>3. x \in Reached(n) /\ Closed(Reached(n))
            BY <3>1, <3>2, ReachedIsClosed DEF Closed
        <3>4. Reached(x) \subseteq Reached(n)
            BY <3>1, <3>3, ReachedIsLeast
        <3> QED BY <3>1, <3>4
    <2>2. Closed(X)
        BY <2>1 DEF Closed
    <2>3. o \in X
        BY ReachedIsClosed
    <2> HIDE DEF X
    <2>4. Reached(o) \subseteq X
        BY <2>2, <2>3, ReachedIsLeast
    <2> QED BY <1>2, <2>4 DEF X
<1> QED BY <1>1, <1>2

-----------------------------------------------------------------------------
\* Everyone has heard of everyone.

\* Router o has announced itself when no database could hold an LSU from before its last
\* restart, and a second has passed.
HeardOf(o) ==
    /\ calm + lsuint[o] > LastOld + LSUINT
    /\ lsuint[o] < LSUINT \/ calm > LastOld + LSUINT

\* Whoever o can reach has then an entry of o, and not from the time before.
HeardInv ==
    \A o \in up : HeardOf(o) =>
        \A r \in Reached(o) \ {o} : o \in DOMAIN db[r] /\ AcceptedAt(r, o) > LastOld

LEMMA ReachedKept ==
    ASSUME up' = up, cut' = cut, NEW r
    PROVE  Reached(r)' = Reached(r)
BY DEF Reached, TrueNbrs

LEMMA HeardTypes ==
    ASSUME MospfInv, TimersInOrder, IsFiniteSet(Router), NEW o \in up
    PROVE  /\ o \in Router /\ up \subseteq Router /\ Reached(o) \subseteq up
           /\ lsuint[o] \in 0..LSUINT /\ calm \in Nat
           /\ LSUINT \in Nat \ {0} /\ LastOld \in Nat
<1>1. o \in Router /\ up \subseteq Router /\ lsuint[o] \in 0..LSUINT /\ calm \in Nat
    BY DEF MospfInv, EnvTypes, TimerTypes
<1>2. Reached(o) \subseteq up
    BY <1>1, ReachedBothWays
<1> QED BY <1>1, <1>2, Constants, TimerFacts

LEMMA HeardInit == Init /\ TimersInOrder => HeardInv
<1> SUFFICES ASSUME Init, TimersInOrder, NEW o \in up, HeardOf(o) PROVE FALSE
    BY DEF HeardInv
<1>1. calm = 0 /\ lsuint[o] = LSUINT
    BY DEF Init
<1> QED BY <1>1, TimerFacts, Constants DEF HeardOf

LEMMA HeardAnnounces ==
    ASSUME MospfInv, TimersInOrder, IsFiniteSet(Router), HeardInv, NEW q \in Router, Announces(q)
    PROVE  HeardInv'
<1>1. /\ up' = up /\ cut' = cut /\ calm' = calm /\ db' = db
      /\ \A o \in Router \ {q} : lsuint'[o] = lsuint[o]
      /\ \/ lsuint[q] = 0 /\ lsuint'[q] = LSUINT
         \/ lsuint'[q] = lsuint[q]
    BY DEF Announces, SameWorld
<1> SUFFICES ASSUME NEW o \in up, HeardOf(o)', NEW r \in Reached(o) \ {o}
             PROVE  o \in DOMAIN db[r] /\ AcceptedAt(r, o)' > LastOld
    BY <1>1, ReachedKept DEF HeardInv
<1>2. HeardOf(o)
    BY <1>1, HeardTypes DEF HeardOf
<1> QED BY <1>1, <1>2 DEF HeardInv, AcceptedAt

LEMMA HeardAccepts ==
    ASSUME MospfInv, TimersInOrder, IsFiniteSet(Router), HeardInv,
           NEW w \in Wire, NEW m \in Lsus, Accepts(w, m)
    PROVE  HeardInv'
<1>1. /\ up' = up /\ cut' = cut /\ calm' = calm /\ lsuint' = lsuint
      /\ DOMAIN db'[w[2]] = DOMAIN db[w[2]] \cup {m.rid}
      /\ db'[w[2]][m.rid] = [seq |-> m.seq, adv |-> m.adv, alive |-> DBTIMEOUT]
      /\ \A o \in DOMAIN db[w[2]] \ {m.rid} : db'[w[2]][o] = db[w[2]][o]
      /\ \A q \in Router \ {w[2]} : db'[q] = db[q]
    BY DEF Accepts, SameWorld
<1> SUFFICES ASSUME NEW o \in up, HeardOf(o)', NEW r \in Reached(o) \ {o}
             PROVE  o \in DOMAIN db'[r] /\ AcceptedAt(r, o)' > LastOld
    BY <1>1, ReachedKept DEF HeardInv
<1>2. HeardOf(o) /\ r \in Router
    BY <1>1, HeardTypes DEF HeardOf
<1>3. o \in DOMAIN db[r] /\ AcceptedAt(r, o) > LastOld
    BY <1>2 DEF HeardInv
<1>4. CASE r = w[2] /\ o = m.rid
    <2>1. db'[r][o].alive = DBTIMEOUT /\ o \in DOMAIN db'[r]
        BY <1>1, <1>4
    <2>2. AcceptedAt(r, o)' = calm
        BY <1>1, <2>1, HeardTypes, Constants DEF AcceptedAt
    <2>3. calm > LastOld
        BY <1>2, HeardTypes DEF HeardOf
    <2> QED BY <2>1, <2>2, <2>3
<1>5. CASE ~(r = w[2] /\ o = m.rid)
    <2>1. o \in DOMAIN db'[r] /\ db'[r][o] = db[r][o]
        BY <1>1, <1>2, <1>3, <1>5
    <2> QED BY <1>1, <1>3, <2>1 DEF AcceptedAt
<1> QED BY <1>4, <1>5

LEMMA HeardExpires ==
    ASSUME MospfInv, AliveInv, TimersInOrder, IsFiniteSet(Router), HeardInv,
           NEW q \in Router, Expires(q)
    PROVE  HeardInv'
<1>1. /\ up' = up /\ cut' = cut /\ calm' = calm /\ lsuint' = lsuint
      /\ DOMAIN db'[q] = {o \in DOMAIN db[q] : db[q][o].alive > 0}
      /\ \A o \in DOMAIN db'[q] : db'[q][o] = db[q][o]
      /\ \A s \in Router \ {q} : db'[s] = db[s]
    BY DEF Expires, SameWorld
<1> SUFFICES ASSUME NEW o \in up, HeardOf(o)', NEW r \in Reached(o) \ {o}
             PROVE  o \in DOMAIN db'[r] /\ AcceptedAt(r, o)' > LastOld
    BY <1>1, ReachedKept DEF HeardInv
<1>2. HeardOf(o) /\ r \in Router
    BY <1>1, HeardTypes DEF HeardOf
<1>3. o \in DOMAIN db[r] /\ AcceptedAt(r, o) > LastOld
    BY <1>2 DEF HeardInv
<1>4. Fresh(r, o)
    BY <1>2, <1>3, AgeTypes, HeardTypes DEF Fresh
<1>5. db[r][o].alive > 0
    BY <1>2, <1>3, <1>4, FreshStays
<1>6. o \in DOMAIN db'[r] /\ db'[r][o] = db[r][o]
    BY <1>1, <1>2, <1>3, <1>5
<1> QED BY <1>1, <1>3, <1>6 DEF AcceptedAt

\* By the end of the second in which o has announced itself to routers that listen, all
\* routers it can reach have renewed their entries of it.
LEMMA AllReached ==
    ASSUME MospfInv, SpreadInv, IsFiniteSet(Router), calm > HELLOINT, calm > LastOld,
           \A w \in Wire : \A x : ~Carries(chan, w, x),
           NEW o \in up, lsuint[o] = LSUINT, NEW r \in Reached(o) \ {o}
    PROVE  Renewed(r, o)
<1> DEFINE X == {q \in up : q = o \/ Renewed(q, o)}
<1>1. up \subseteq Router
    BY DEF MospfInv, EnvTypes
<1>2. ASSUME NEW q \in X, NEW n \in TrueNbrs(q)
      PROVE  n \in X
    <2>1. n \in up /\ {q, n} \in Link \ cut /\ q \in up
        BY DEF TrueNbrs
    <2>2. <<q, n>> \in Wire /\ TrueWire(<<q, n>>)
        BY <1>1, <2>1 DEF Wire, TrueWire
    <2>3. CASE n # o
        <3>1. Tells(q, o) /\ Listens(n, o)
            BY DEF Tells, Listens
        <3>2. Spreads(<<q, n>>, o)
            BY <1>1, <2>2, <2>3, <3>1 DEF SpreadInv
        <3>3. Renewed(n, o)
            BY <2>2, <3>2 DEF Spreads
        <3> QED BY <2>1, <3>3
    <2> QED BY <2>1, <2>3
<1>3. Closed(X) /\ o \in X
    BY <1>2 DEF Closed
<1> HIDE DEF X
<1>4. r \in X
    BY <1>1, <1>3, ReachedIsLeast
<1> QED BY <1>4 DEF X

LEMMA HeardAges ==
    ASSUME MospfInv, SpreadInv, TimersInOrder, IsFiniteSet(Router), HeardInv, Ages
    PROVE  HeardInv'
<1>1. /\ up' = up /\ cut' = cut /\ calm' = calm + 1
      /\ \A w \in Wire : \A x : ~Carries(chan, w, x)
      /\ \A r \in up : lsuint[r] > 0 /\ lsuint'[r] = lsuint[r] - 1
    BY DEF Ages
<1> SUFFICES ASSUME NEW o \in up, HeardOf(o)', NEW r \in Reached(o) \ {o}
             PROVE  o \in DOMAIN db'[r] /\ AcceptedAt(r, o)' > LastOld
    BY <1>1, ReachedKept DEF HeardInv
<1>2. r \in Router /\ calm + lsuint[o] > LastOld + LSUINT
    BY <1>1, HeardTypes DEF HeardOf
<1>3. o \in DOMAIN db[r] /\ AcceptedAt(r, o) > LastOld
    <2>1. CASE HeardOf(o)
        BY <2>1 DEF HeardInv
    <2>2. CASE ~HeardOf(o)
        <3>1. lsuint[o] = LSUINT /\ calm > LastOld
            BY <1>2, <2>2, HeardTypes DEF HeardOf
        <3>2. calm > HELLOINT
            BY <3>1, TimerFacts, HeardTypes, Constants
        <3>3. Renewed(r, o)
            BY <1>1, <3>1, <3>2, AllReached
        <3>4. o \in DOMAIN db[r] /\ AcceptedAt(r, o) = calm
            BY <1>2, <3>3, AgeTypes DEF Renewed
        <3> QED BY <3>1, <3>4
    <2> QED BY <2>1, <2>2
<1> QED BY <1>2, <1>3, AgesEntries

LEMMA HeardStep ==
    ASSUME MospfInv, MospfInv', HelloInv, LowNumbers, SpreadInv, AliveInv, HeardInv,
           TimersInOrder, IsFiniteSet(Router), [Next]_vars
    PROVE  HeardInv'
<1>1. ASSUME Lull PROVE HeardInv'
    <2>1. up' = up /\ cut' = cut /\ calm' = calm /\ lsuint' = lsuint /\ db' = db
        BY <1>1 DEF Lull, SameWorld
    <2> QED BY <2>1, ReachedKept DEF HeardInv, HeardOf, AcceptedAt
<1>2. ASSUME Fails PROVE HeardInv'
    <2> SUFFICES ASSUME NEW o \in up', HeardOf(o)' PROVE FALSE
        BY DEF HeardInv
    <2>1. lsuint'[o] \in 0..LSUINT /\ calm' = 0
        BY <1>2 DEF Fails, MospfInv, EnvTypes, TimerTypes
    <2> QED BY <2>1, TimerFacts, Constants DEF HeardOf
<1> QED BY <1>1, <1>2, StepKinds, HeardAnnounces, HeardAccepts, HeardExpires, HeardAges

-----------------------------------------------------------------------------
\* The routing tables.

\* An empty database goes with an empty table; a table computed after the neighbours
\* were settled is up to date.
TableIsNew(r) ==
    /\ DOMAIN db[r] = {} => routes[r] = NoRoutes
    /\ (\E o \in DOMAIN db[r] : AcceptedAt(r, o) > NeighboursSettled)
           => routes[r] = View(r, db[r], DOMAIN nbr[r])

TablesInv == \A r \in Router : TableIsNew(r)

LEMMA ViewOfNothing ==
    ASSUME NEW r, NEW d, DOMAIN d = {}, NEW N
    PROVE  View(r, d, N) = NoRoutes
<1>1. Links(d) = {}
    BY DEF Links
<1>2. {n \in N : {r, n} \in Links(d)} = {}
    BY <1>1
<1> QED BY <1>1, <1>2 DEF View, NoRoutes

LEMMA TablesInit == Init => TablesInv
<1> SUFFICES ASSUME Init, NEW r \in Router PROVE TableIsNew(r)
    BY DEF TablesInv
<1>1. DOMAIN db[r] = {} /\ routes[r] = NoRoutes
    BY NothingIsEmpty DEF Init
<1> QED BY <1>1 DEF TableIsNew

LEMMA TablesStep ==
    ASSUME MospfInv, MospfInv', HelloInv, LowNumbers, TablesInv, [Next]_vars
    PROVE  TablesInv'
<1> SUFFICES ASSUME NEW r \in Router PROVE TableIsNew(r)'
    BY DEF TablesInv
<1>0. TableIsNew(r)
    BY DEF TablesInv
<1>1. ASSUME calm' = calm, db'[r] = db[r], routes'[r] = routes[r],
             DOMAIN nbr'[r] = DOMAIN nbr[r] \/ calm <= NeighboursSettled
      PROVE  TableIsNew(r)'
    <2>1. CASE DOMAIN nbr'[r] = DOMAIN nbr[r]
        BY <1>0, <1>1, <2>1 DEF TableIsNew, AcceptedAt
    <2>2. CASE calm <= NeighboursSettled
        <3>1. \A o \in DOMAIN db[r] : ~(AcceptedAt(r, o)' > NeighboursSettled)
            <4> TAKE o \in DOMAIN db[r]
            <4>1. AcceptedAt(r, o)' = AcceptedAt(r, o)
                BY <1>1 DEF AcceptedAt
            <4> QED BY <2>2, <4>1, AgeTypes
        <3> QED BY <1>0, <1>1, <3>1 DEF TableIsNew
    <2> QED BY <1>1, <2>1, <2>2
<1>2. ASSUME Lull PROVE TableIsNew(r)'
    BY <1>1, <1>2 DEF Lull, SameWorld
<1>3. ASSUME NEW o \in Router, Announces(o) PROVE TableIsNew(r)'
    BY <1>1, <1>3 DEF Announces, SameWorld
<1>4. ASSUME routes'[r] = View(r, db'[r], DOMAIN nbr'[r])
      PROVE  TableIsNew(r)'
    BY <1>4, ViewOfNothing DEF TableIsNew
<1>5. ASSUME NEW w \in Wire, NEW m \in Lsus, Accepts(w, m) PROVE TableIsNew(r)'
    BY <1>1, <1>4, <1>5 DEF Accepts, SameWorld
<1>6. ASSUME NEW q \in Router, Expires(q) PROVE TableIsNew(r)'
    BY <1>1, <1>4, <1>6 DEF Expires, SameWorld
<1>7. ASSUME Ages PROVE TableIsNew(r)'
    <2>1. /\ routes' = routes /\ DOMAIN nbr'[r] = DOMAIN nbr[r] /\ DOMAIN db'[r] = DOMAIN db[r]
          /\ \A o \in DOMAIN db[r] : db'[r][o].adv = db[r][o].adv
        BY <1>7 DEF Ages
    <2>2. Links(db'[r]) = Links(db[r])
        BY <2>1 DEF Links
    <2>3. View(r, db'[r], DOMAIN nbr'[r]) = View(r, db[r], DOMAIN nbr[r])
        BY <2>1, <2>2 DEF View
    <2>4. \A o \in DOMAIN db[r] : AcceptedAt(r, o)' = AcceptedAt(r, o)
        BY <1>7, AgesEntries
    <2> QED BY <1>0, <2>1, <2>3, <2>4 DEF TableIsNew
<1>8. ASSUME Fails PROVE TableIsNew(r)'
    <2>1. \A o \in DOMAIN db'[r] : ~(AcceptedAt(r, o)' > NeighboursSettled)
        <3> TAKE o \in DOMAIN db'[r]
        <3>1. AcceptedAt(r, o)' <= 0 /\ AcceptedAt(r, o)' \in Int
            BY <1>8, FailsEntries DEF Fails
        <3> QED BY <3>1, Constants DEF NeighboursSettled
    <2>2. DOMAIN db'[r] = {} => routes'[r] = NoRoutes
        BY <1>0, <1>8 DEF Fails, TableIsNew
    <2> QED BY <2>1, <2>2 DEF TableIsNew
<1> QED BY StepKinds, <1>2, <1>3, <1>5, <1>6, <1>7, <1>8

-----------------------------------------------------------------------------
\* The entries never get too old, and the network settles.

EntriesInv ==
    /\ MospfInv /\ HelloInv /\ NumbersInv /\ FlightInv /\ NewerInv
    /\ NothingYet /\ YoungInv /\ HopsInv /\ SpreadInv /\ AliveInv /\ ChainInv

LEMMA EntriesAlways ==
    ASSUME TimersInOrder, FloodsReach
    PROVE  Spec /\ []LowNumbers => []EntriesInv
<1>1. Init => EntriesInv
    <2>1. Init => HopsInv
        BY DEF Init, HopsInv
    <2> QED BY <2>1, InvInit, HelloInvInit, NumbersInit, FlightInit, NewerInit, YoungInit,
               SpreadInit, AliveInit
            DEF EntriesInv
<1>2. EntriesInv /\ LowNumbers /\ LowNumbers' /\ [Next]_vars => EntriesInv'
    <2> SUFFICES ASSUME EntriesInv, LowNumbers, LowNumbers', [Next]_vars PROVE EntriesInv'
        OBVIOUS
    <2>1. MospfInv' /\ HelloInv'
        BY InvStep, HelloInvStep DEF EntriesInv
    <2>2. NumbersInv' /\ FlightInv' /\ NewerInv' /\ NothingYet' /\ YoungInv'
        BY <2>1, NumbersStep, FlightStep, NewerStep, NothingYetStep, YoungStep DEF EntriesInv
    <2>3. HopsInv' /\ SpreadInv' /\ AliveInv' /\ ChainInv'
        BY <2>1, HopsStep, SpreadStep, AliveStep DEF EntriesInv, FloodsReach
    <2> QED BY <2>1, <2>2, <2>3 DEF EntriesInv
<1> QED BY <1>1, <1>2, PTL DEF Spec

\* As long as sequence numbers do not wrap around and timers are as in the code, and with
\* at most DEFAULT_TTL + 1 routers, an LSU reaches whoever its origin can reach before its
\* TTL is used up, and an entry that is renewed with every LSU of its origin never reaches
\* its timeout: database entries are lost only after a failure and only in the DBTIMEOUT
\* seconds after it, for a router that can still be reached as for one that cannot.
THEOREM EntriesOutliveTheirTimeout ==
    ASSUME TimersInOrder, FloodsReach
    PROVE  Spec /\ []LowNumbers => ExpiresOnlyAfterFailure
<1> DEFINE Kept == \A r \in Router : \A o \in DOMAIN db[r] \ DOMAIN db'[r] :
                      o \notin Reached(r) \/ (failures' > 0 /\ calm' <= DBTIMEOUT)
<1>1. ASSUME EntriesInv, LowNumbers, [Next]_vars
      PROVE  Kept
    <2> SUFFICES ASSUME NEW r \in Router, NEW o \in DOMAIN db[r] \ DOMAIN db'[r]
                 PROVE  failures' > 0 /\ calm' <= DBTIMEOUT
        OBVIOUS
    <2>0. /\ MospfInv /\ HelloInv /\ YoungInv /\ AliveInv
          /\ calm \in Nat /\ failures \in Nat /\ DBTIMEOUT \in Nat
        BY <1>1, Constants DEF EntriesInv, MospfInv, EnvTypes
    <2>1. ASSUME Lull PROVE FALSE
        BY <2>1 DEF Lull
    <2>2. ASSUME NEW q \in Router, Announces(q) PROVE FALSE
        BY <2>2 DEF Announces
    <2>3. ASSUME NEW w \in Wire, NEW m \in Lsus, Accepts(w, m) PROVE FALSE
        BY <2>3 DEF Accepts
    <2>4. ASSUME NEW q \in Router, Expires(q) PROVE failures' > 0 /\ calm' <= DBTIMEOUT
        <3>1. failures' = failures /\ calm' = calm /\ ~(db[r][o].alive > 0)
            BY <2>4 DEF Expires, SameWorld
        <3>2. ~Fresh(r, o) /\ db[r][o].alive \in 0..DBTIMEOUT
            BY <1>1, <2>0, <3>1, FreshStays, EntryTypes
        <3>3. failures > 0
            BY <2>0, <3>2 DEF YoungInv
        <3> QED BY <2>0, <3>1, <3>2, <3>3 DEF Fresh, AcceptedAt
    <2>5. ASSUME Ages PROVE FALSE
        BY <2>5 DEF Ages
    <2>6. ASSUME Fails PROVE failures' > 0 /\ calm' <= DBTIMEOUT
        BY <2>0, <2>6 DEF Fails
    <2> QED BY <1>1, <2>0, <2>1, <2>2, <2>3, <2>4, <2>5, <2>6, StepKinds
<1>2. EntriesInv /\ LowNumbers /\ [Next]_vars => [Kept]_vars
    BY <1>1
<1> QED BY <1>2, EntriesAlways, PTL DEF Spec, ExpiresOnlyAfterFailure

SettledInv == HeardInv /\ TablesInv

LEMMA SettledAlways ==
    ASSUME TimersInOrder, FloodsReach
    PROVE  Spec /\ []LowNumbers => [](EntriesInv /\ SettledInv)
<1>1. Init => SettledInv
    BY HeardInit, TablesInit DEF SettledInv
<1>2. EntriesInv /\ EntriesInv' /\ SettledInv /\ LowNumbers /\ [Next]_vars => SettledInv'
    BY HeardStep, TablesStep DEF EntriesInv, SettledInv, FloodsReach
<1> QED BY <1>1, <1>2, EntriesAlways, PTL DEF Spec

LEMMA CalmHasConverged ==
    ASSUME EntriesInv, SettledInv, TimersInOrder, IsFiniteSet(Router), calm > LastOld + LSUINT
    PROVE  Converged
<1>0. MospfInv /\ HelloInv /\ FlightInv /\ ChainInv /\ HeardInv /\ TablesInv
    BY DEF EntriesInv, SettledInv
<1>1. /\ LSUINT \in Nat \ {0} /\ LastOld \in Nat /\ calm \in Nat /\ DBTIMEOUT \in Nat
      /\ NeighboursSettled \in Nat /\ NeighboursSettled <= LastOld /\ DBTIMEOUT < LastOld + LSUINT
      /\ up \subseteq Router /\ lsuint \in [Router -> 0..LSUINT]
    BY <1>0, Constants, TimerFacts, PeriodsLemma DEF MospfInv, EnvTypes, TimerTypes
<1>2. ASSUME NEW r \in up, NEW o \in DOMAIN db[r]
      PROVE  o \in up /\ o \in Reached(r) \ {r} /\ r \in Reached(o) \ {o}
    <2>1. r \in Router /\ o \in Router /\ o # r /\ db[r][o].alive \in 0..DBTIMEOUT
        BY <1>0, <1>1, EntryTypes
    <2>2. Fresh(r, o)
        BY <1>1, <2>1 DEF Fresh, AcceptedAt
    <2>3. o \in up
        BY <1>0, <2>1, <2>2 DEF FlightInv, EntriesAreNew, EntryIsNew
    <2>4. /\ o \in Reached(o) /\ Closed(Reached(o)) /\ Reached(o) \in SUBSET Router
        BY <1>1, <2>1, ReachedIsClosed
    <2>5. ASSUME NEW w \in Wire, TrueWire(w), w[1] \in Reached(o)
          PROVE  w[2] \in Reached(o)
        <3>1. w[2] \in TrueNbrs(w[1])
            BY <2>5 DEF TrueWire, TrueNbrs, Wire
        <3> QED BY <2>4, <2>5, <3>1 DEF Closed
    <2>6. Chain(o, Reached(o))
        BY <2>4, <2>5 DEF Chain
    <2>7. r \in Reached(o)
        BY <1>0, <2>1, <2>2, <2>4, <2>6 DEF ChainInv
    <2>8. o \in Reached(r)
        BY <1>1, <2>3, <2>7, ReachedBothWays
    <2> QED BY <2>1, <2>3, <2>7, <2>8
<1>3. ASSUME NEW o \in up, NEW r \in Reached(o) \ {o}
      PROVE  o \in DOMAIN db[r] /\ AcceptedAt(r, o) > NeighboursSettled
    <2>1. HeardOf(o)
        BY <1>1 DEF HeardOf
    <2>2. o \in DOMAIN db[r] /\ AcceptedAt(r, o) > LastOld
        BY <1>0, <2>1 DEF HeardInv
    <2>3. r \in Router /\ AcceptedAt(r, o) \in Int
        BY <1>0, <1>1, <2>2, HeardTypes, AgeTypes
    <2> QED BY <1>1, <2>2, <2>3
<1> SUFFICES ASSUME NEW r \in up
             PROVE  /\ DOMAIN nbr[r] = TrueNbrs(r)
                    /\ DOMAIN db[r] = Reached(r) \ {r}
                    /\ \A o \in DOMAIN db[r] : db[r][o].adv = TrueNbrs(o)
                    /\ routes[r] = View(r, db[r], TrueNbrs(r))
    BY DEF Converged
<1>4. \A q \in up : DOMAIN nbr[q] = TrueNbrs(q)
    BY <1>0, <1>1, NeighboursAreTrue
<1>5. ASSUME NEW o \in Reached(r) \ {r}
      PROVE  o \in DOMAIN db[r]
    <2>1. o \in up
        BY <1>1, ReachedBothWays
    <2>2. r \in Reached(o) \ {o}
        BY <1>1, <1>5, <2>1, ReachedBothWays
    <2> QED BY <1>3, <2>1, <2>2
<1>6. ASSUME NEW o \in DOMAIN db[r]
      PROVE  db[r][o].adv = TrueNbrs(o)
    <2>1. o \in up /\ AcceptedAt(r, o) > NeighboursSettled
        BY <1>2, <1>3
    <2>2. db[r][o].adv = DOMAIN nbr[o]
        BY <1>0, <1>1, <2>1 DEF FlightInv, EntriesAreNew, EntryIsNew
    <2> QED BY <1>4, <2>1, <2>2
<1>7. routes[r] = View(r, db[r], DOMAIN nbr[r])
    <2>1. TableIsNew(r)
        BY <1>0, <1>1 DEF TablesInv
    <2>2. CASE DOMAIN db[r] = {}
        BY <2>1, <2>2, ViewOfNothing DEF TableIsNew
    <2>3. CASE DOMAIN db[r] # {}
        <3>1. PICK o \in DOMAIN db[r] : TRUE
            BY <2>3
        <3>2. AcceptedAt(r, o) > NeighboursSettled
            BY <1>2, <1>3
        <3> QED BY <2>1, <3>2 DEF TableIsNew
    <2> QED BY <2>2, <2>3
<1> QED BY <1>2, <1>4, <1>5, <1>6, <1>7

\* In a network of at most DEFAULT_TTL + 1 routers (65 with the code's TTL) with timers as
\* in the code, and as long as sequence numbers do not wrap around, LastOld + LSUINT seconds after the last crash, restart, cut or repair, and
\* from then on, every router knows its neighbours, has an up-to-date entry of each router
\* it can reach and of no other, and a routing table computed from these.  By then every
\* router has sent an LSU at a moment when all entries from before its last restart had
\* aged out, and its flood has reached everyone it can reach.
THEOREM CalmNetworksConverge ==
    ASSUME TimersInOrder, FloodsReach
    PROVE  Spec /\ []LowNumbers => [](calm > LastOld + LSUINT => Converged)
<1>1. EntriesInv /\ SettledInv => (calm > LastOld + LSUINT => Converged)
    BY CalmHasConverged DEF FloodsReach
<1> QED BY <1>1, SettledAlways, PTL

\* Hence whoever waits for longer than that finds the network settled.
THEOREM NetworksSettle ==
    ASSUME TimersInOrder, FloodsReach, Settle > LastOld + LSUINT
    PROVE  Spec /\ []LowNumbers => []SettlesInTime
<1>1. EntriesInv /\ SettledInv => SettlesInTime
    BY CalmHasConverged DEF SettlesInTime, FloodsReach
<1> QED BY <1>1, SettledAlways, PTL
=============================================================================
