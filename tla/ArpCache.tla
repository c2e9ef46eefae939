------------------------------ MODULE ArpCache ------------------------------
(***************************************************************************)
(* The ARP layer of the user-space router (arpcache.c and arp.c): the      *)
(* table of IP->MAC mappings, the list of pending ARP requests with the    *)
(* packets that wait for them, the threads that send packets, the receive  *)
(* thread that handles ARP messages, and the sweeping thread.              *)
(*                                                                         *)
(* One action is one critical section of arpcache.lock, or one step that a *)
(* thread takes outside the lock: arpcache_lookup releases the lock before *)
(* arpcache_append_packet takes it again, and the first ARP request is     *)
(* sent after the lock is released, so other threads run in between.       *)
(*                                                                         *)
(* Time is kept as ages in seconds.  Ages saturate where no comparison of  *)
(* the code can tell larger ones apart.                                    *)
(***************************************************************************)
EXTENDS Integers, FiniteSets

CONSTANTS
    Iface, IP, MAC,
    Slot,           \* indices of arpcache.entries
    Sender,         \* threads that send IP packets, the sweeping thread apart
    Receiver,       \* the sender that also handles incoming ARP messages
    Sweeper,        \* the sweeping thread
    Packet,         \* packets in flight, each with the ICMP errors about it
    Header,         \* the IP headers a packet can carry
    Origin,         \* Origin[p]: the header packet p is first sent with
    Via,            \* Via[h]: <<iface, next hop>> the routing table gives for h
    Error,          \* Error[h]: the header of the ICMP error about h
    NoRoute,        \* ... when the routing table has no way back
    Owner,          \* the <<ip, mac>> pairs neighbours announce
    ARP_ENTRY_TIMEOUT,
    ARP_REQUEST_MAX_RETRIES,
    MaxLag          \* seconds the sweeper may lose between time() and the lock

Key == Iface \X IP
Thread == Sender \cup {Sweeper}

ASSUME ConstantsAssumption ==
    /\ Slot \subseteq Nat /\ IsFiniteSet(Slot)
    /\ Receiver \in Sender /\ Sweeper \notin Sender
    /\ Owner \subseteq IP \X MAC
    /\ Origin \in [Packet -> Header]
    /\ Via \in [Header -> Key]
    /\ Error \in [Header -> Header \cup {NoRoute}]
    /\ NoRoute \notin Header
    /\ ARP_ENTRY_TIMEOUT \in Nat
    /\ ARP_REQUEST_MAX_RETRIES \in Nat
    /\ MaxLag \in Nat

VARIABLES
    entries,    \* arpcache.entries
    reqs,       \* arpcache.req_list
    call,       \* where each thread is inside iface_send_packet_by_arp
    sweep,      \* where the sweeping thread is, and how old its cur_time is
    doomed,     \* packets of the requests on the sweeper's timeout_list
    hdr,        \* the header each packet carries now
    fresh,      \* packets not handed to the ARP layer yet
    sent,       \* <<packet, mac>> emitted by iface_send_packet
    dropped,    \* packets freed without an ICMP error, for want of a route
    asks        \* history: ARP requests broadcast for a key since it is pending

vars == <<entries, reqs, call, sweep, doomed, hdr, fresh, sent, dropped, asks>>

EntryAgeCap == ARP_ENTRY_TIMEOUT + 1 + MaxLag
ReqAgeCap   == 1 + MaxLag
AskCap      == ARP_REQUEST_MAX_RETRIES + 2

Least(a, b) == IF a <= b THEN a ELSE b

Entry == [ip4 : IP, mac : MAC, age : 0..EntryAgeCap, valid : {TRUE}]
         \cup [valid : {FALSE}]

Req == [iface : Iface, ip4 : IP, age : 0..ReqAgeCap,
        retries : 0..ARP_REQUEST_MAX_RETRIES, pkts : SUBSET Packet]

Invalid == [valid |-> FALSE]
Idle == [pc |-> "idle"]

Call == {Idle} \cup [pc : {"hit"}, pkt : Packet, mac : MAC]
               \cup [pc : {"miss"}, pkt : Packet]
               \cup [pc : {"ask"}, key : Key]

KeyOf(r) == <<r.iface, r.ip4>>
Hop(p)   == Via[hdr[p]]

\* Mutant: any valid entry answers a lookup.
Holds_AnyAddress(i, ip4) == entries[i].valid
Holds(i, ip4) == entries[i].valid /\ entries[i].ip4 = ip4

(***************************************************************************)
(* The first ARP request goes out after the lock is released, so it counts *)
(* for whichever request of the same key is pending by then.               *)
(***************************************************************************)
Asked(k) == [asks EXCEPT ![k] = Least(@ + 1, AskCap)]

-----------------------------------------------------------------------------
Init ==
    /\ entries = [i \in Slot |-> Invalid]
    /\ reqs = {}
    /\ call = [t \in Thread |-> Idle]
    /\ sweep = [pc |-> "asleep", slept |-> FALSE, lag |-> 0]
    /\ doomed = {}
    /\ hdr = Origin
    /\ fresh = Packet
    /\ sent = {}
    /\ dropped = {}
    /\ asks = [k \in Key |-> 0]

(***************************************************************************)
(* arpcache_lookup, called by thread t for a packet p that leaves with     *)
(* header h: a hit copies the MAC of the first valid entry of the next     *)
(* hop; either way the lock is released before the answer is used.         *)
(***************************************************************************)
Lookup(t, p, h) ==
    LET ip4  == Via[h][2]
        hits == {i \in Slot : Holds(i, ip4)}
    IN  \/ /\ hits = {}
           /\ call' = [call EXCEPT ![t] = [pc |-> "miss", pkt |-> p]]
        \/ \E i \in hits :
              /\ \A j \in hits : i <= j
              /\ call' = [call EXCEPT
                             ![t] = [pc |-> "hit", pkt |-> p, mac |-> entries[i].mac]]

\* A thread starts to send a packet: iface_send_packet_by_arp up to the answer
\* of the lookup.
SendPacketByArp(t, p) ==
    /\ t \in Sender
    /\ call[t] = Idle
    /\ p \in fresh
    /\ fresh' = fresh \ {p}
    /\ Lookup(t, p, hdr[p])
    /\ UNCHANGED <<entries, reqs, sweep, doomed, hdr, sent, dropped, asks>>

\* The lookup hit: the packet leaves with the MAC that was found.
Transmit(t) ==
    /\ call[t].pc = "hit"
    /\ sent' = sent \cup {<<call[t].pkt, call[t].mac>>}
    /\ call' = [call EXCEPT ![t] = Idle]
    /\ UNCHANGED <<entries, reqs, sweep, doomed, hdr, fresh, dropped, asks>>

\* The pending request a packet for key k joins, if any (mutant: a request that was
\* retried already is not joined any more).
Pending_OnlyFresh(k) == {r \in reqs : KeyOf(r) = k /\ r.retries = 0}
Pending(k) == {r \in reqs : KeyOf(r) = k}

\* Mutant: the packet replaces the queue it should be added to.
Joined_Replaces(r, p) == [iface |-> r.iface, ip4 |-> r.ip4, age |-> r.age,
                          retries |-> r.retries, pkts |-> {p}]
Joined(r, p) == [iface |-> r.iface, ip4 |-> r.ip4, age |-> r.age,
                 retries |-> r.retries, pkts |-> r.pkts \cup {p}]

\* The lookup missed: the packet joins the pending request of its next hop, or
\* starts one.
AppendPacket(t) ==
    /\ call[t].pc = "miss"
    /\ LET p == call[t].pkt
           k == Hop(p)
       IN  \/ \E r \in Pending(k) :
                 /\ reqs' = (reqs \ {r}) \cup {Joined(r, p)}
                 /\ call' = [call EXCEPT ![t] = Idle]
                 /\ UNCHANGED asks
           \/ /\ Pending(k) = {}
              /\ reqs' = reqs \cup {[iface |-> k[1], ip4 |-> k[2], age |-> 0,
                                     retries |-> 0, pkts |-> {p}]}
              /\ call' = [call EXCEPT ![t] = [pc |-> "ask", key |-> k]]
              /\ asks' = [asks EXCEPT ![k] = 0]
    /\ UNCHANGED <<entries, sweep, doomed, hdr, fresh, sent, dropped>>

\* The first ARP request for a new key, sent outside the lock.
SendFirstRequest(t) ==
    /\ call[t].pc = "ask"
    /\ asks' = Asked(call[t].key)
    /\ call' = [call EXCEPT ![t] = Idle]
    /\ UNCHANGED <<entries, reqs, sweep, doomed, hdr, fresh, sent, dropped>>

-----------------------------------------------------------------------------
\* Mutant: the first invalid slot is taken without looking for the address further on.
IsTarget_FreeFirst(i, ip4) ==
    LET same == {j \in Slot : Holds(j, ip4)}
        free == {j \in Slot : ~entries[j].valid}
    IN  IF free # {} THEN i \in free /\ \A j \in free : i <= j
        ELSE same # {} => i \in same

\* The slot arpcache_insert writes: the valid entry of the same address, else
\* the first invalid one, else any (rand() % MAX_ARP_SIZE).
IsTarget(i, ip4) ==
    LET same == {j \in Slot : Holds(j, ip4)}
        free == {j \in Slot : ~entries[j].valid}
    IN  IF same # {} THEN i \in same /\ \A j \in same : i <= j
        ELSE free # {} => i \in free /\ \A j \in free : i <= j

\* Mutant: the flushed requests stay on the list.
Insert_KeepsRequests(ip4, mac) ==
    /\ \E i \in Slot :
          /\ IsTarget(i, ip4)
          /\ entries' = [entries EXCEPT
                ![i] = [valid |-> TRUE, ip4 |-> ip4, mac |-> mac, age |-> 0]]
    /\ sent' = sent \cup ((UNION {r.pkts : r \in {q \in reqs : q.ip4 = ip4}}) \X {mac})
    /\ UNCHANGED reqs

\* arpcache_insert: record the mapping, then flush every request for the address,
\* on whichever interface it waits.
Insert(ip4, mac) ==
    LET answered == {r \in reqs : r.ip4 = ip4}
    IN  /\ \E i \in Slot :
              /\ IsTarget(i, ip4)
              /\ entries' = [entries EXCEPT
                    ![i] = [valid |-> TRUE, ip4 |-> ip4, mac |-> mac, age |-> 0]]
        /\ reqs' = reqs \ answered
        /\ sent' = sent \cup ((UNION {r.pkts : r \in answered}) \X {mac})

\* handle_arp_packet: a reply is always recorded, a request only when it asks for
\* an address of the router (the reply it triggers changes no state here).  The
\* receive thread handles one packet at a time.
HandleArpPacket(op, forUs, ip4, mac) ==
    /\ call[Receiver] = Idle
    /\ op = "reply" \/ (op = "request" /\ forUs)
    /\ <<ip4, mac>> \in Owner
    /\ Insert(ip4, mac)
    /\ UNCHANGED <<call, sweep, doomed, hdr, fresh, dropped, asks>>

-----------------------------------------------------------------------------
\* sleep(1) is over; cur_time is read before the lock is taken.
SweepWake ==
    /\ sweep.pc = "asleep" /\ sweep.slept
    /\ sweep' = [pc |-> "awake", slept |-> FALSE, lag |-> 0]
    /\ UNCHANGED <<entries, reqs, call, doomed, hdr, fresh, sent, dropped, asks>>

\* Mutant: the last retry is skipped.
Exhausted_Early(r) == r.retries + 1 >= ARP_REQUEST_MAX_RETRIES
Exhausted(r) == r.retries = ARP_REQUEST_MAX_RETRIES

\* Mutant: a request out of retries is asked again all the same.
Due_Always(r) == r.age - sweep.lag >= 1
Due(r) == ~Exhausted(r) /\ r.age - sweep.lag >= 1

\* Mutant: the retry is not counted.
Resent_NotCounted(r) == [iface |-> r.iface, ip4 |-> r.ip4, age |-> 0,
                         retries |-> r.retries, pkts |-> r.pkts]
Resent(r) == [iface |-> r.iface, ip4 |-> r.ip4, age |-> 0,
              retries |-> r.retries + 1, pkts |-> r.pkts]

\* Mutants: an entry of exactly the timeout's age is dropped; only one second above
\* the timeout is recognized.
Expired_Inclusive(e) == e.valid /\ e.age - sweep.lag >= ARP_ENTRY_TIMEOUT
Expired_Exactly(e) == e.valid /\ e.age - sweep.lag = ARP_ENTRY_TIMEOUT + 1
Expired(e) == e.valid /\ e.age - sweep.lag > ARP_ENTRY_TIMEOUT

\* The sweeper's critical section: old mappings are invalidated, requests out of
\* retries move to the timeout list, the others are asked again.
SweepLocked ==
    /\ sweep.pc = "awake"
    /\ entries' = [i \in Slot |-> IF Expired(entries[i]) THEN Invalid ELSE entries[i]]
    /\ doomed' = UNION {r.pkts : r \in {q \in reqs : Exhausted(q)}}
    /\ reqs' = {r \in reqs : ~Exhausted(r) /\ ~Due(r)}
               \cup {Resent(r) : r \in {q \in reqs : Due(q)}}
    /\ asks' = [k \in Key |-> IF \E r \in reqs : KeyOf(r) = k /\ Due(r)
                              THEN Least(asks[k] + 1, AskCap) ELSE asks[k]]
    /\ sweep' = [pc |-> "drain", slept |-> FALSE, lag |-> 0]
    /\ UNCHANGED <<call, hdr, fresh, sent, dropped>>

\* Outside the lock, each timed-out packet becomes an ICMP host-unreachable error
\* that the sweeper itself sends through the ARP layer, then it is freed.
IcmpHostUnreach(p) ==
    /\ sweep.pc = "drain"
    /\ call[Sweeper] = Idle
    /\ p \in doomed
    /\ doomed' = doomed \ {p}
    /\ LET e == Error[hdr[p]]
       IN  \/ /\ e = NoRoute
              /\ dropped' = dropped \cup {p}
              /\ UNCHANGED <<hdr, call>>
           \/ /\ e # NoRoute
              /\ hdr' = [hdr EXCEPT ![p] = e]
              /\ Lookup(Sweeper, p, e)
              /\ UNCHANGED dropped
    /\ UNCHANGED <<entries, reqs, sweep, fresh, sent, asks>>

SweepSleep ==
    /\ sweep.pc = "drain"
    /\ doomed = {}
    /\ call[Sweeper] = Idle
    /\ sweep' = [pc |-> "asleep", slept |-> FALSE, lag |-> 0]
    /\ UNCHANGED <<entries, reqs, call, doomed, hdr, fresh, sent, dropped, asks>>

OlderEntry(e) == [valid |-> TRUE, ip4 |-> e.ip4, mac |-> e.mac,
                  age |-> Least(e.age + 1, EntryAgeCap)]
OlderReq(r) == [iface |-> r.iface, ip4 |-> r.ip4, age |-> Least(r.age + 1, ReqAgeCap),
                retries |-> r.retries, pkts |-> r.pkts]

\* time(NULL) advances by one second.
Tick ==
    /\ sweep.pc = "awake" => sweep.lag < MaxLag
    /\ entries' = [i \in Slot |->
                      IF entries[i].valid THEN OlderEntry(entries[i]) ELSE entries[i]]
    /\ reqs' = {OlderReq(r) : r \in reqs}
    /\ sweep' = [pc |-> sweep.pc, slept |-> (sweep.pc = "asleep"),
                 lag |-> IF sweep.pc = "awake" THEN sweep.lag + 1 ELSE 0]
    /\ UNCHANGED <<call, doomed, hdr, fresh, sent, dropped, asks>>

-----------------------------------------------------------------------------
ThreadStep(t) == Transmit(t) \/ AppendPacket(t) \/ SendFirstRequest(t)

SweepStep ==
    \/ SweepWake
    \/ SweepLocked
    \/ \E p \in Packet : IcmpHostUnreach(p)
    \/ SweepSleep

Next ==
    \/ \E t \in Sender, p \in Packet : SendPacketByArp(t, p)
    \/ \E t \in Thread : ThreadStep(t)
    \/ \E op \in {"request", "reply"}, forUs \in BOOLEAN, o \in Owner :
          HandleArpPacket(op, forUs, o[1], o[2])
    \/ SweepStep
    \/ Tick

Spec == Init /\ [][Next]_vars

\* Every thread keeps running and the clock keeps advancing; nothing obliges a
\* neighbour to answer or a sender to have more packets.
Fairness ==
    /\ \A t \in Thread : WF_vars(ThreadStep(t))
    /\ WF_vars(SweepStep)
    /\ WF_vars(Tick)

FairSpec == Spec /\ Fairness

-----------------------------------------------------------------------------
HeldBy(t, p) == call[t].pc \in {"hit", "miss"} /\ call[t].pkt = p

InHand(p)  == \E t \in Thread : HeldBy(t, p)
Queued(p)  == \E r \in reqs : p \in r.pkts
WasSent(p) == \E m \in MAC : <<p, m>> \in sent

TypeOK ==
    /\ entries \in [Slot -> Entry]
    /\ reqs \subseteq Req
    /\ call \in [Thread -> Call]
    /\ sweep \in [pc : {"asleep", "awake", "drain"}, slept : BOOLEAN, lag : 0..MaxLag]
    /\ doomed \subseteq Packet
    /\ hdr \in [Packet -> Header]
    /\ fresh \subseteq Packet
    /\ sent \subseteq Packet \X MAC
    /\ dropped \subseteq Packet
    /\ asks \in [Key -> 0..AskCap]

\* However the lookup and append of several threads interleave with inserts and
\* sweeps, at most one request is pending for an <<interface, next hop>>, and it
\* never waits without a packet.
UniqueRequest ==
    /\ \A r, q \in reqs : KeyOf(r) = KeyOf(q) => r = q
    /\ \A r \in reqs : r.pkts # {}

\* An address has at most one valid mapping: inserting, expiring and evicting
\* never leave an old mapping beside the new one.
UniqueMapping ==
    \A i, j \in Slot : entries[j].valid /\ Holds(i, entries[j].ip4) => i = j

Place == {"fresh", "hand", "queue", "doomed", "sent", "dropped"}

In(place, p) ==
    CASE place = "fresh"   -> p \in fresh
      [] place = "hand"    -> InHand(p)
      [] place = "queue"   -> Queued(p)
      [] place = "doomed"  -> p \in doomed
      [] place = "sent"    -> WasSent(p)
      [] place = "dropped" -> p \in dropped

\* A packet is owned by exactly one party at any time: it is not sent yet, held by
\* one thread, queued on one request, on the timeout list, emitted or freed.
\* Losing it would leak the buffer, owning it twice would free or send it twice.
OneOwner ==
    \A p \in Packet :
        /\ \E a \in Place : In(a, p) /\ \A b \in Place : In(b, p) => b = a
        /\ \A t, u \in Thread : HeldBy(t, p) /\ HeldBy(u, p) => t = u
        /\ \A r, q \in reqs : p \in r.pkts /\ p \in q.pkts => r = q
        /\ \A m, n \in MAC : <<p, m>> \in sent /\ <<p, n>> \in sent => m = n

\* A packet only ever leaves with a MAC that the neighbour at its next hop
\* announced, although slots are recycled between the lookup and the emission and
\* the flush sends packets that other threads queued.
RightNeighbour ==
    \A s \in sent : <<Hop(s[1])[2], s[2]>> \in Owner

\* A packet is reported unreachable only after its next hop was asked at least
\* ARP_REQUEST_MAX_RETRIES times since the request it waited on was created.
GivenUpOnlyAfterAsking ==
    [][\A p \in Packet : p \in doomed' \ doomed
                         => asks[Hop(p)] >= ARP_REQUEST_MAX_RETRIES]_vars

\* The table forgets an address only when its mapping outlived ARP_ENTRY_TIMEOUT
\* in real time (the sweeper compares with a clock it read earlier) or when an
\* insert found every slot taken.
ForgottenOnlyWhenOldOrFull ==
    [][\A i \in Slot :
          LET known == \E j \in Slot : entries'[j].valid /\ entries'[j].ip4 = entries[i].ip4
          IN  entries[i].valid /\ ~known
              => \/ entries[i].age > ARP_ENTRY_TIMEOUT
                 \/ \A j \in Slot : entries[j].valid]_vars

\* A packet that waits in the ARP layer does not wait forever: it is emitted, or
\* freed, or replaced by the ICMP error about it.  A header that is its own error
\* is left out: an error addressed to the router itself only begets another one.
EveryPacketResolved ==
    \A p \in Packet, h \in Header :
        Error[h] # h =>
            (hdr[p] = h /\ p \notin fresh) ~> (WasSent(p) \/ p \in dropped \/ hdr[p] # h)

\* A mapping past its age does not stay: it is invalidated, replaced or refreshed.
OldMappingGoes ==
    \A i \in Slot :
        (entries[i].valid /\ entries[i].age > ARP_ENTRY_TIMEOUT)
            ~> (entries[i].valid => entries[i].age = 0)

\* What makes OneOwner and RightNeighbour inductive: no packet is in two places,
\* only a draining sweeper has a timeout list, mappings are as announced, and a
\* packet waits for, or was looked up under, the next hop of the header it carries.
Exclusive ==
    \A p \in Packet :
        /\ p \in fresh \/ InHand(p) \/ Queued(p) \/ p \in doomed \/ WasSent(p)
                       \/ p \in dropped
        /\ p \in fresh  => ~(InHand(p) \/ Queued(p) \/ p \in doomed \/ WasSent(p)
                             \/ p \in dropped)
        /\ InHand(p)    => ~(Queued(p) \/ p \in doomed \/ WasSent(p) \/ p \in dropped)
        /\ Queued(p)    => ~(p \in doomed \/ WasSent(p) \/ p \in dropped)
        /\ p \in doomed => ~(WasSent(p) \/ p \in dropped)
        /\ WasSent(p)   => p \notin dropped

Once ==
    \A p \in Packet :
        /\ \A t, u \in Thread : HeldBy(t, p) /\ HeldBy(u, p) => t = u
        /\ \A r, q \in reqs : p \in r.pkts /\ p \in q.pkts => r = q
        /\ \A m, n \in MAC : <<p, m>> \in sent /\ <<p, n>> \in sent => m = n

Routed ==
    /\ \A i \in Slot : entries[i].valid => <<entries[i].ip4, entries[i].mac>> \in Owner
    /\ \A r \in reqs : \A p \in r.pkts : Hop(p) = KeyOf(r)
    /\ \A t \in Thread : call[t].pc = "hit" => <<Hop(call[t].pkt)[2], call[t].mac>> \in Owner

DrainOnly == doomed # {} => sweep.pc = "drain"

\* A request has been broadcast at least as often as its retry counter says.
Counted == \A r \in reqs : r.retries <= asks[KeyOf(r)]

ArpInv == TypeOK /\ Exclusive /\ Once /\ UniqueRequest /\ DrainOnly /\ Routed
                 /\ RightNeighbour

\* What the ARP layer promises its callers (PacketDelivery), with the packets in
\* the hands of a thread, on a request or on the timeout list as the waiting ones.
Waiting == {p \in Packet : InHand(p) \/ Queued(p) \/ p \in doomed}

Delivery == INSTANCE PacketDelivery
    WITH waiting <- Waiting,
         Reach <- [h \in Header |-> {m \in MAC : <<Via[h][2], m>> \in Owner}]

DeliversAsPromised == Delivery!Spec

\* arpcache.c:174-178: "If the arp request has been sent 5 times without receiving
\* arp reply, for each pending packet, send icmp packet ... and drop": the limit
\* would be on the requests sent, the first one included.
GivenUpAfterMaxRequests ==
    [][\A p \in Packet : p \in doomed' \ doomed
                         => asks[Hop(p)] <= ARP_REQUEST_MAX_RETRIES]_vars
=============================================================================
