-------------------------------- MODULE Mospf -------------------------------
(***************************************************************************)
(* The mOSPF routing daemon of the Oct29 lab (mospf_daemon.c,              *)
(* mospf_database.c) on every router of a network of point-to-point links: *)
(* hellos discover neighbours, LSUs are flooded with sequence numbers into *)
(* the databases, entries age out, and the routing table is rebuilt.       *)
(*                                                                         *)
(* Time is a second per Tick.  The four daemon threads wake up once a      *)
(* second and count their timers down; here Tick counts all of them down,  *)
(* and a timer that has run out is handled, in any order with the others   *)
(* and with the messages in flight, before the next Tick: a message takes  *)
(* microseconds.  Routers crash and restart, links fail and are mended.    *)
(*                                                                         *)
(* The routing table is kept as what it was last computed from: the links  *)
(* in the database and the neighbours; module Routes has the computation.  *)
(***************************************************************************)
EXTENDS Integers, Sequences, FiniteSets, Functions

CONSTANTS
    Router,         \* router ids
    Link,           \* the links, sets of two routers
    HELLOINT,       \* MOSPF_DEFAULT_HELLOINT
    LSUINT,         \* MOSPF_DEFAULT_LSUINT
    DBTIMEOUT,      \* MOSPF_DATABASE_TIMEOUT
    DEFAULT_TTL,    \* the TTL in the IP header of a new LSU
    SeqSpace,       \* sequence numbers are u16: 2^16
    MaxFailures,    \* bound on crashes, restarts, cuts and repairs
    MidFlight,      \* failures may strike while packets are in flight
    Settle          \* the horizon: seconds looked at after the last failure

ASSUME MospfAssumption ==
    /\ \A l \in Link : l \subseteq Router /\ Cardinality(l) = 2
    /\ HELLOINT \in Nat \ {0} /\ LSUINT \in Nat \ {0} /\ DBTIMEOUT \in Nat \ {0}
    /\ DEFAULT_TTL \in Nat \ {0}
    /\ SeqSpace \in Nat /\ SeqSpace % 2 = 0 /\ SeqSpace > 1
    /\ MidFlight \in BOOLEAN
    /\ MaxFailures \in Nat /\ Settle \in Nat

VARIABLES
    up,         \* the routers whose daemon runs
    cut,        \* the links that are down
    seq,        \* instance->sequence_num
    helloint,   \* iface->helloint, the same on all interfaces
    lsuint,     \* instance->lsuint
    nbr,        \* nbr[r][n]: alive of neighbour n, for the n in r's nbr_lists
    db,         \* db[r][o]: the database entry of origin o, if there is one
    routes,     \* the view and the neighbours rtable was last computed from
    chan,       \* chan[<<r, n>>]: packets on their way from r to n
    failures,   \* failures so far
    calm        \* seconds since the start or the last failure

proto == <<seq, helloint, lsuint, nbr, db, routes>>
env == <<up, cut, failures>>
vars == <<up, cut, seq, helloint, lsuint, nbr, db, routes, chan, failures, calm>>

Wire == {w \in Router \X Router : {w[1], w[2]} \in Link}
Alive(w) == {w[1], w[2]} \notin cut /\ w[2] \in up

Hello == [type |-> "hello"]

\* An LSU carries two TTLs, that of its IP header and one of its own, which starts at
\* MOSPF_MAX_LSU_TTL.  Who forwards it takes one from both, so that the smaller of the
\* two, that of the IP header, is the one that stops it.
Lsu(o, s, a) == [type |-> "lsu", rid |-> o, seq |-> s, adv |-> a, ttl |-> DEFAULT_TTL]
IsHello(m) == m = Hello

\* (short)(a - b) > 0 on u16.
Newer(a, b) == (a - b) % SeqSpace \in 1..(SeqSpace \div 2 - 1)

\* Appending m to the wires in W that reach a running router; the rest is lost.
Put(ch, W, m) == [w \in Wire |-> IF w \in W /\ Alive(w) THEN Append(ch[w], m) ELSE ch[w]]

\* send_mospf_lsu: one LSU to each neighbour, listing the neighbours.
SendLsu(ch, r, s, N) == Put(ch, {<<r, n>> : n \in N}, Lsu(r, s, N))

\* What mospf_update_rtable reads: the origins and the links in the database, and
\* those next hops for which find_rid_ip finds an interface.
Links(d) == UNION {{{o, a} : a \in d[o].adv} : o \in DOMAIN d}
View(r, d, N) == [known |-> DOMAIN d, links |-> Links(d), hops |-> {n \in N : {r, n} \in Links(d)}]

\* Mutant: a change is announced under the old number.
BumpForgotten(r) == seq

Bump(r) == [seq EXCEPT ![r] = (@ + 1) % SeqSpace]

-----------------------------------------------------------------------------
Nothing == <<>>   \* the function with the empty domain: an empty list

NoRoutes == [known |-> {}, links |-> {}, hops |-> {}]

Init ==
    /\ up = Router
    /\ cut = {}
    /\ seq = [r \in Router |-> 0]
    /\ helloint = [r \in Router |-> HELLOINT]
    /\ lsuint = [r \in Router |-> LSUINT]
    /\ nbr = [r \in Router |-> Nothing]
    /\ db = [r \in Router |-> Nothing]
    /\ routes = [r \in Router |-> NoRoutes]
    /\ chan = [w \in Wire |-> <<>>]
    /\ failures = 0
    /\ calm = 0

\* sending_mospf_hello_thread: a hello on every interface.
HelloTimeout(r) ==
    /\ r \in up /\ helloint[r] = 0
    /\ chan' = Put(chan, {w \in Wire : w[1] = r}, Hello)
    /\ helloint' = [helloint EXCEPT ![r] = HELLOINT]
    /\ UNCHANGED <<env, calm, seq, lsuint, nbr, db, routes>>

Taken(w) == [chan EXCEPT ![w] = Tail(@)]

\* handle_mospf_hello: a known neighbour is refreshed, a new one is added and
\* announced at once.
HandleHello(w) ==
    LET n == w[1]
        r == w[2]
        heard == [m \in DOMAIN nbr[r] \cup {n} |->
                     IF m = n THEN 3 * HELLOINT ELSE nbr[r][m]]
    IN  /\ chan[w] # <<>> /\ IsHello(Head(chan[w]))
        /\ nbr' = [nbr EXCEPT ![r] = heard]
        /\ IF n \in DOMAIN nbr[r]
           THEN chan' = Taken(w) /\ UNCHANGED seq
           ELSE /\ seq' = Bump(r)
                /\ chan' = SendLsu(Taken(w), r, seq'[r], DOMAIN heard)
        /\ UNCHANGED <<env, calm, helloint, lsuint, db, routes>>

\* checking_nbr_thread: silent neighbours are dropped and the rest is announced.
\* The routing table is left as it is.
NbrTimeout(r) ==
    LET left == {n \in DOMAIN nbr[r] : nbr[r][n] >= 0}
    IN  /\ r \in up /\ left # DOMAIN nbr[r]
        /\ nbr' = [nbr EXCEPT ![r] = Restrict(@, left)]
        /\ seq' = Bump(r)
        /\ chan' = SendLsu(chan, r, seq'[r], left)
        /\ UNCHANGED <<env, calm, helloint, lsuint, db, routes>>

\* sending_mospf_lsu_thread.
LsuTimeout(r) ==
    /\ r \in up /\ lsuint[r] = 0
    /\ seq' = Bump(r)
    /\ chan' = SendLsu(chan, r, seq'[r], DOMAIN nbr[r])
    /\ lsuint' = [lsuint EXCEPT ![r] = LSUINT]
    /\ UNCHANGED <<env, calm, helloint, nbr, db, routes>>

\* handle_mospf_lsu, the early returns: one's own LSU, or one no newer than the
\* entry.
Stale(r, m) ==
    \/ m.rid = r
    \/ m.rid \in DOMAIN db[r] /\ ~Newer(m.seq, db[r][m.rid].seq)

\* Mutant: an old LSU is not stored, but sent on all the same, as it came.
DropLsuForwarding(w) ==
    LET m == Head(chan[w])
    IN  /\ chan[w] # <<>> /\ ~IsHello(m)
        /\ Stale(w[2], m)
        /\ chan' = Put(Taken(w), {<<w[2], q>> : q \in DOMAIN nbr[w[2]] \ {w[1]}}, m)
        /\ UNCHANGED <<env, calm, proto>>

DropLsu(w) ==
    /\ chan[w] # <<>> /\ ~IsHello(Head(chan[w]))
    /\ Stale(w[2], Head(chan[w]))
    /\ chan' = Taken(w)
    /\ UNCHANGED <<env, calm, proto>>

\* Mutant: only a new entry gets a full life, an update does not renew it.
UpdatedNotRenewed(r, m) ==
    [o \in DOMAIN db[r] \cup {m.rid} |->
        CASE o # m.rid -> db[r][o]
          [] o = m.rid /\ o \in DOMAIN db[r] ->
                [seq |-> m.seq, adv |-> m.adv, alive |-> db[r][o].alive]
          [] OTHER -> [seq |-> m.seq, adv |-> m.adv, alive |-> DBTIMEOUT]]

\* mospf_db_update.
Updated(r, m) ==
    [o \in DOMAIN db[r] \cup {m.rid} |->
        IF o = m.rid THEN [seq |-> m.seq, adv |-> m.adv, alive |-> DBTIMEOUT]
        ELSE db[r][o]]

Onward(m) == [m EXCEPT !.ttl = @ - 1]

\* ... a newer one enters the database, is forwarded to the neighbours on all other
\* interfaces unless its TTL has run out, and the routing table is rebuilt.
AcceptLsu(w) ==
    LET n == w[1]
        r == w[2]
        m == Head(chan[w])
        d == Updated(r, m)
    IN  /\ chan[w] # <<>> /\ ~IsHello(m)
        /\ ~Stale(r, m)
        /\ db' = [db EXCEPT ![r] = d]
        /\ chan' = IF m.ttl > 1
                   THEN Put(Taken(w), {<<r, q>> : q \in DOMAIN nbr[r] \ {n}}, Onward(m))
                   ELSE Taken(w)
        /\ routes' = [routes EXCEPT ![r] = View(r, d, DOMAIN nbr[r])]
        /\ UNCHANGED <<env, calm, seq, helloint, lsuint, nbr>>

\* Mutant: the routing table is not rebuilt.
DbTimeoutNoRebuild(r) ==
    LET left == {o \in DOMAIN db[r] : db[r][o].alive > 0}
    IN  /\ r \in up /\ left # DOMAIN db[r]
        /\ db' = [db EXCEPT ![r] = Restrict(@, left)]
        /\ UNCHANGED <<env, calm, seq, helloint, lsuint, nbr, routes, chan>>

\* checking_database_thread: entries not refreshed in time go, and the routing
\* table is rebuilt.
DbTimeout(r) ==
    LET left == {o \in DOMAIN db[r] : db[r][o].alive > 0}
        d == Restrict(db[r], left)
    IN  /\ r \in up /\ left # DOMAIN db[r]
        /\ db' = [db EXCEPT ![r] = d]
        /\ routes' = [routes EXCEPT ![r] = View(r, d, DOMAIN nbr[r])]
        /\ UNCHANGED <<env, calm, seq, helloint, lsuint, nbr, chan>>

\* Mutant: nobody waits for the LSU thread.
QuietNoLsu ==
    /\ \A w \in Wire : chan[w] = <<>>
    /\ \A r \in up : /\ helloint[r] > 0
                     /\ \A n \in DOMAIN nbr[r] : nbr[r][n] >= 0
                     /\ \A o \in DOMAIN db[r] : db[r][o].alive > 0

\* A second passes when nothing is due and nothing in flight.
Quiet ==
    /\ \A w \in Wire : chan[w] = <<>>
    /\ \A r \in up : /\ helloint[r] > 0 /\ lsuint[r] > 0
                     /\ \A n \in DOMAIN nbr[r] : nbr[r][n] >= 0
                     /\ \A o \in DOMAIN db[r] : db[r][o].alive > 0

Less(r, n) == IF r \in up THEN n - 1 ELSE n

Tick ==
    /\ Quiet /\ calm < Settle
    /\ helloint' = [r \in Router |-> Less(r, helloint[r])]
    /\ lsuint' = [r \in Router |-> Less(r, lsuint[r])]
    /\ nbr' = [r \in Router |-> [n \in DOMAIN nbr[r] |-> nbr[r][n] - 1]]
    /\ db' = [r \in Router |->
                 [o \in DOMAIN db[r] |-> [db[r][o] EXCEPT !.alive = @ - 1]]]
    /\ calm' = IF calm < Settle THEN calm + 1 ELSE calm
    /\ UNCHANGED <<env, seq, routes, chan>>

-----------------------------------------------------------------------------
Fail ==
    /\ failures < MaxFailures
    /\ MidFlight \/ Quiet
    /\ failures' = failures + 1
    /\ calm' = 0

\* A daemon stops: it loses its state and what was on the way to it.
Crash(r) ==
    /\ Fail /\ r \in up
    /\ up' = up \ {r}
    /\ chan' = [w \in Wire |-> IF w[2] = r THEN <<>> ELSE chan[w]]
    /\ seq' = [seq EXCEPT ![r] = 0]
    /\ helloint' = [helloint EXCEPT ![r] = HELLOINT]
    /\ lsuint' = [lsuint EXCEPT ![r] = LSUINT]
    /\ nbr' = [nbr EXCEPT ![r] = Nothing]
    /\ db' = [db EXCEPT ![r] = Nothing]
    /\ routes' = [routes EXCEPT ![r] = NoRoutes]
    /\ UNCHANGED cut

Restart(r) ==
    /\ Fail /\ r \notin up
    /\ up' = up \cup {r}
    /\ UNCHANGED <<cut, proto, chan>>

Cut(l) ==
    /\ Fail /\ l \notin cut
    /\ cut' = cut \cup {l}
    /\ chan' = [w \in Wire |-> IF {w[1], w[2]} = l THEN <<>> ELSE chan[w]]
    /\ UNCHANGED <<up, proto>>

Mend(l) ==
    /\ Fail /\ l \in cut
    /\ cut' = cut \ {l}
    /\ UNCHANGED <<up, proto, chan>>

\* What the daemons' threads do.
Work ==
    \/ \E r \in Router : HelloTimeout(r) \/ NbrTimeout(r) \/ LsuTimeout(r) \/ DbTimeout(r)
    \/ \E w \in Wire : HandleHello(w) \/ DropLsu(w) \/ AcceptLsu(w)

Failure ==
    \/ \E r \in Router : Crash(r) \/ Restart(r)
    \/ \E l \in Link : Cut(l) \/ Mend(l)

Next == Work \/ Tick \/ Failure

Spec == Init /\ [][Next]_vars

\* The threads of a running router keep running.
FairSpec == Spec /\ WF_vars(Work)

-----------------------------------------------------------------------------
Entry == [seq : 0..(SeqSpace - 1), adv : SUBSET Router, alive : 0..DBTIMEOUT]

LsuPacket ==
    [type : {"lsu"}, rid : Router, seq : 0..(SeqSpace - 1), adv : SUBSET Router,
     ttl : 1..DEFAULT_TTL]

TypeOK ==
    /\ up \subseteq Router /\ cut \subseteq Link
    /\ seq \in [Router -> 0..(SeqSpace - 1)]
    /\ helloint \in [Router -> 0..HELLOINT]
    /\ lsuint \in [Router -> 0..LSUINT]
    /\ \A r \in Router :
          /\ DOMAIN nbr[r] \subseteq Router
          /\ \A n \in DOMAIN nbr[r] : nbr[r][n] \in -1..(3 * HELLOINT)
          /\ DOMAIN db[r] \subseteq Router \ {r}
          /\ \A o \in DOMAIN db[r] : db[r][o] \in Entry
    /\ chan \in [Wire -> Seq(LsuPacket \cup {Hello})]
    /\ failures \in 0..MaxFailures
    /\ calm \in 0..Settle

TrueNbrs(r) == {n \in up : {r, n} \in Link \ cut}

Reached(r) ==
    LET Ball[n \in 0..Cardinality(Router)] ==
            IF n = 0 THEN {r}
            ELSE Ball[n - 1] \cup UNION {TrueNbrs(s) : s \in Ball[n - 1]}
    IN  Ball[Cardinality(Router)]

\* Every running router knows its neighbours, has an up-to-date entry of each router
\* it can reach and of no other, and has computed its routing table from these.
Converged ==
    \A r \in up :
        /\ DOMAIN nbr[r] = TrueNbrs(r)
        /\ DOMAIN db[r] = Reached(r) \ {r}
        /\ \A o \in DOMAIN db[r] : db[r][o].adv = TrueNbrs(o)
        /\ routes[r] = View(r, db[r], TrueNbrs(r))

\* Settle seconds after the last crash, restart, cut or repair the network has
\* converged, although a restarted router numbers its LSUs from 0 again and is not
\* believed until its old entries have aged out, and although a router that drops
\* a neighbour does not rebuild its table.
SettlesInTime == calm = Settle => Converged

\* The packets in flight are all dealt with in the end, so that time goes on: an LSU
\* does not travel for ever around a cycle of links, whenever a router or a link
\* fails and however its copies overtake each other.
FloodEnds == []<>Quiet

\* As long as nobody restarted, whatever carries a router's current sequence number,
\* in a database or in flight, lists its current neighbours.
SeqNamesLinks ==
    (up = Router /\ failures <= 1) =>
        \A o \in Router :
            /\ \A r \in Router :
                  o \in DOMAIN db[r] /\ db[r][o].seq = seq[o]
                      => db[r][o].adv = DOMAIN nbr[o]
            /\ \A w \in Wire : \A i \in 1..Len(chan[w]) :
                  (~IsHello(chan[w][i]) /\ chan[w][i].rid = o /\ chan[w][i].seq = seq[o])
                      => chan[w][i].adv = DOMAIN nbr[o]

\* The entry of a router that can be reached is renewed before it is too old, except
\* in the first DBTIMEOUT seconds after a failure.
ExpiresOnlyAfterFailure ==
    [][\A r \in Router : \A o \in DOMAIN db[r] \ DOMAIN db'[r] :
           o \notin Reached(r) \/ (failures' > 0 /\ calm' <= DBTIMEOUT)]_vars
=============================================================================
