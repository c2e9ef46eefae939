--------------------------- MODULE ArpCacheProofs ---------------------------
(***************************************************************************)
(* Theorems about ArpCache for any number of threads, packets, slots,      *)
(* interfaces and addresses, and for every value of the timeouts.          *)
(***************************************************************************)
EXTENDS ArpCache, TLAPS

USE DEF Key

\* What a lookup leaves in the thread's hand has the type of a call.
LEMMA LookupType ==
    ASSUME TypeOK, NEW t \in Thread, NEW p \in Packet, NEW h \in Header, Lookup(t, p, h)
    PROVE  call' \in [Thread -> Call]
<1>1. CASE call' = [call EXCEPT ![t] = [pc |-> "miss", pkt |-> p]]
  BY <1>1 DEF TypeOK, Call
<1>2. CASE \E i \in Slot : Holds(i, Via[h][2]) /\ call' = [call EXCEPT
                  ![t] = [pc |-> "hit", pkt |-> p, mac |-> entries[i].mac]]
  <2>1. PICK i \in Slot : Holds(i, Via[h][2]) /\ call' = [call EXCEPT
                  ![t] = [pc |-> "hit", pkt |-> p, mac |-> entries[i].mac]]
    BY <1>2
  <2>2. entries[i].mac \in MAC
    BY <2>1 DEF TypeOK, Entry, Holds
  <2>3. QED
    BY <2>1, <2>2 DEF TypeOK, Call
<1>3. QED
  BY <1>1, <1>2 DEF Lookup

LEMMA TypeInit == Init => TypeOK
BY ConstantsAssumption DEF Init, TypeOK, Entry, Invalid, Idle, Call, AskCap

LEMMA TypeNext == TypeOK /\ [Next]_vars => TypeOK'
<1> SUFFICES ASSUME TypeOK, [Next]_vars
             PROVE  TypeOK'
  OBVIOUS
<1> USE ConstantsAssumption
<1>1. ASSUME NEW t \in Sender, NEW p \in Packet, SendPacketByArp(t, p)
      PROVE  TypeOK'
  <2>1. call' \in [Thread -> Call]
    BY <1>1, LookupType DEF SendPacketByArp, Thread, TypeOK
  <2>2. QED
    BY <1>1, <2>1 DEF SendPacketByArp, TypeOK
<1>2. ASSUME NEW t \in Thread, Transmit(t)
      PROVE  TypeOK'
  <2>1. call[t].pkt \in Packet /\ call[t].mac \in MAC
    BY <1>2 DEF Transmit, TypeOK, Call, Idle
  <2>2. QED
    BY <1>2, <2>1 DEF Transmit, TypeOK, Call
<1>3. ASSUME NEW t \in Thread, AppendPacket(t)
      PROVE  TypeOK'
  <2> DEFINE p == call[t].pkt
             k == Hop(p)
  <2>1. p \in Packet
    BY <1>3 DEF AppendPacket, TypeOK, Call, Idle
  <2>2. k \in Key /\ k[1] \in Iface /\ k[2] \in IP
    BY <2>1 DEF Hop, TypeOK
  <2>3. CASE \E r \in reqs :
                /\ KeyOf(r) = k
                /\ reqs' = (reqs \ {r}) \cup {Joined(r, p)}
                /\ call' = [call EXCEPT ![t] = Idle]
                /\ UNCHANGED asks
    <3>1. PICK r \in reqs :
                /\ reqs' = (reqs \ {r}) \cup {Joined(r, p)}
                /\ call' = [call EXCEPT ![t] = Idle]
                /\ UNCHANGED asks
      BY <2>3
    <3>2. Joined(r, p) \in Req
      BY <2>1 DEF TypeOK, Req, Joined
    <3>3. QED
      BY <1>3, <3>1, <3>2 DEF AppendPacket, TypeOK, Call
  <2>4. CASE /\ reqs' = reqs \cup {[iface |-> k[1], ip4 |-> k[2], age |-> 0,
                                    retries |-> 0, pkts |-> {p}]}
             /\ call' = [call EXCEPT ![t] = [pc |-> "ask", key |-> k]]
             /\ asks' = [asks EXCEPT ![k] = 0]
    <3>1. [iface |-> k[1], ip4 |-> k[2], age |-> 0, retries |-> 0, pkts |-> {p}] \in Req
      BY <2>1, <2>2 DEF Req, ReqAgeCap
    <3>2. asks' \in [Key -> 0..AskCap]
      BY <2>2, <2>4 DEF TypeOK, AskCap
    <3>3. QED
      BY <1>3, <2>2, <2>4, <3>1, <3>2 DEF AppendPacket, TypeOK, Call
  <2>5. QED
    BY <1>3, <2>3, <2>4 DEF AppendPacket, Pending
<1>4. ASSUME NEW t \in Thread, SendFirstRequest(t)
      PROVE  TypeOK'
  <2>1. call[t].key \in Key
    BY <1>4 DEF SendFirstRequest, TypeOK, Call, Idle
  <2>2. asks' \in [Key -> 0..AskCap]
    BY <1>4, <2>1 DEF SendFirstRequest, Asked, TypeOK, Least, AskCap
  <2>3. QED
    BY <1>4, <2>2 DEF SendFirstRequest, TypeOK, Call
<1>5. ASSUME NEW op, NEW forUs, NEW ip4, NEW mac, HandleArpPacket(op, forUs, ip4, mac)
      PROVE  TypeOK'
  <2>1. ip4 \in IP /\ mac \in MAC
    BY <1>5 DEF HandleArpPacket
  <2>2. entries' \in [Slot -> Entry]
    <3>1. PICK i \in Slot : entries' = [entries EXCEPT
                  ![i] = [valid |-> TRUE, ip4 |-> ip4, mac |-> mac, age |-> 0]]
      BY <1>5 DEF HandleArpPacket, Insert
    <3>2. 0 \in 0..EntryAgeCap
      BY DEF EntryAgeCap
    <3>3. [valid |-> TRUE, ip4 |-> ip4, mac |-> mac, age |-> 0] \in Entry
      BY <2>1, <3>2 DEF Entry
    <3>4. QED
      BY <3>1, <3>3 DEF TypeOK
  <2>3. UNION {r.pkts : r \in {q \in reqs : q.ip4 = ip4}} \subseteq Packet
    BY DEF TypeOK, Req
  <2>4. QED
    BY <1>5, <2>1, <2>2, <2>3 DEF HandleArpPacket, Insert, TypeOK
<1>6. CASE SweepWake
  BY <1>6 DEF SweepWake, TypeOK
<1>7. CASE SweepLocked
  <2>1. entries' \in [Slot -> Entry]
    BY <1>7 DEF SweepLocked, TypeOK, Entry, Invalid
  <2>2. \A r \in reqs : Due(r) => Resent(r) \in Req
    <3> SUFFICES ASSUME NEW r \in reqs, Due(r)
                 PROVE  Resent(r) \in Req
      OBVIOUS
    <3>1. /\ r.iface \in Iface /\ r.ip4 \in IP /\ r.pkts \subseteq Packet
          /\ r.retries \in 0..ARP_REQUEST_MAX_RETRIES
      BY DEF TypeOK, Req
    <3>2. r.retries + 1 \in 0..ARP_REQUEST_MAX_RETRIES
      BY <3>1 DEF Due, Exhausted
    <3>3. 0 \in 0..ReqAgeCap
      BY DEF ReqAgeCap
    <3>4. QED
      BY <3>1, <3>2, <3>3 DEF Resent, Req
  <2>3. asks' \in [Key -> 0..AskCap]
    BY <1>7 DEF SweepLocked, TypeOK, Least, AskCap
  <2>4. doomed' \subseteq Packet
    BY <1>7 DEF SweepLocked, TypeOK, Req
  <2>5. QED
    BY <1>7, <2>1, <2>2, <2>3, <2>4 DEF SweepLocked, TypeOK
<1>8. ASSUME NEW p \in Packet, IcmpHostUnreach(p)
      PROVE  TypeOK'
  <2>1. Sweeper \in Thread
    BY DEF Thread
  <2>2. CASE Error[hdr[p]] = NoRoute
    BY <1>8, <2>2 DEF IcmpHostUnreach, TypeOK
  <2>3. CASE Error[hdr[p]] # NoRoute
    <3>1. Error[hdr[p]] \in Header
      BY <2>3 DEF TypeOK
    <3>2. call' \in [Thread -> Call]
      BY <1>8, <2>1, <2>3, <3>1, LookupType DEF IcmpHostUnreach
    <3>3. QED
      BY <1>8, <2>3, <3>1, <3>2 DEF IcmpHostUnreach, TypeOK
  <2>4. QED
    BY <2>2, <2>3
<1>9. CASE SweepSleep
  BY <1>9 DEF SweepSleep, TypeOK
<1>10. CASE Tick
  <2>1. entries' \in [Slot -> Entry]
    <3> SUFFICES ASSUME NEW i \in Slot, entries[i].valid
                 PROVE  OlderEntry(entries[i]) \in Entry
      BY <1>10 DEF Tick, TypeOK
    <3>1. /\ entries[i].ip4 \in IP /\ entries[i].mac \in MAC
          /\ entries[i].age \in 0..EntryAgeCap
      BY DEF TypeOK, Entry
    <3>2. Least(entries[i].age + 1, EntryAgeCap) \in 0..EntryAgeCap
      BY <3>1 DEF Least, EntryAgeCap
    <3>3. QED
      BY <3>1, <3>2 DEF OlderEntry, Entry
  <2>2. reqs' \subseteq Req
    BY <1>10 DEF Tick, TypeOK, Req, OlderReq, Least, ReqAgeCap
  <2>3. sweep' \in [pc : {"asleep", "awake", "drain"}, slept : BOOLEAN, lag : 0..MaxLag]
    BY <1>10 DEF Tick, TypeOK
  <2>4. QED
    BY <1>10, <2>1, <2>2, <2>3 DEF Tick, TypeOK
<1>11. CASE UNCHANGED vars
  BY <1>11 DEF vars, TypeOK
<1>12. QED
  BY <1>1, <1>2, <1>3, <1>4, <1>5, <1>6, <1>7, <1>8, <1>9, <1>10, <1>11
  DEF Next, ThreadStep, SweepStep

\* Every state of the ARP layer is well typed: in particular no request is ever
\* retried more than ARP_REQUEST_MAX_RETRIES times.
THEOREM TypeCorrect == Spec => []TypeOK
BY TypeInit, TypeNext, PTL DEF Spec

-----------------------------------------------------------------------------
(***************************************************************************)
(* Ownership of packets.  Each action moves packets between the six        *)
(* places; its lemma first says how it changes who holds, queues and sent  *)
(* what, and then rebuilds the invariant from that.                        *)
(***************************************************************************)

\* A lookup puts the packet into the hand of an idle thread, and a hit carries a
\* MAC announced for the next hop.
LEMMA LookupEffect ==
    ASSUME ArpInv, NEW t \in Thread, NEW p \in Packet, NEW h \in Header,
           call[t] = Idle, Lookup(t, p, h)
    PROVE  /\ \A u \in Thread, q \in Packet :
                 HeldBy(u, q)' <=> HeldBy(u, q) \/ (u = t /\ q = p)
           /\ call'[t].pkt = p
           /\ call'[t].pc = "hit" => <<Via[h][2], call'[t].mac>> \in Owner
           /\ \A u \in Thread \ {t} : call'[u] = call[u]
<1>1. CASE call' = [call EXCEPT ![t] = [pc |-> "miss", pkt |-> p]]
  BY <1>1 DEF ArpInv, TypeOK, HeldBy, Idle
<1>2. CASE \E i \in Slot : Holds(i, Via[h][2]) /\ call' = [call EXCEPT
                  ![t] = [pc |-> "hit", pkt |-> p, mac |-> entries[i].mac]]
  <2>1. PICK i \in Slot : Holds(i, Via[h][2]) /\ call' = [call EXCEPT
                  ![t] = [pc |-> "hit", pkt |-> p, mac |-> entries[i].mac]]
    BY <1>2
  <2>2. <<Via[h][2], entries[i].mac>> \in Owner
    BY <2>1 DEF ArpInv, Routed, Holds
  <2>3. QED
    BY <2>1, <2>2 DEF ArpInv, TypeOK, HeldBy, Idle
<1>3. QED
  BY <1>1, <1>2 DEF Lookup

LEMMA OwnerSend ==
    ASSUME ArpInv, TypeOK', NEW t \in Sender, NEW p \in Packet, SendPacketByArp(t, p)
    PROVE  ArpInv'
<1> USE ConstantsAssumption DEF ArpInv
<1> DEFINE h == hdr[p]
<1>1. t \in Thread /\ h \in Header
  BY DEF Thread, TypeOK
<1>2. Lookup(t, p, h) /\ call[t] = Idle
  BY DEF SendPacketByArp
<1>3. /\ \A u \in Thread, q \in Packet :
            HeldBy(u, q)' <=> HeldBy(u, q) \/ (u = t /\ q = p)
      /\ call'[t].pkt = p
      /\ call'[t].pc = "hit" => <<Via[h][2], call'[t].mac>> \in Owner
      /\ \A u \in Thread \ {t} : call'[u] = call[u]
  BY <1>1, <1>2, LookupEffect
<1>4. \A q \in Packet : /\ InHand(q)' <=> InHand(q) \/ q = p
                        /\ Queued(q)' <=> Queued(q)
                        /\ WasSent(q)' <=> WasSent(q)
  BY <1>1, <1>3 DEF InHand, Queued, WasSent, SendPacketByArp
<1>5. fresh' = fresh \ {p} /\ p \in fresh /\ UNCHANGED <<doomed, dropped>>
  BY DEF SendPacketByArp
<1>6. Exclusive'
  BY <1>4, <1>5 DEF Exclusive
<1>7. ~InHand(p)
  BY <1>5 DEF Exclusive
<1>8. Once'
  BY <1>3, <1>7 DEF Once, InHand, SendPacketByArp
<1>9. Routed'
  BY <1>1, <1>3 DEF Routed, Hop, KeyOf, SendPacketByArp
<1>10. UniqueRequest' /\ DrainOnly' /\ RightNeighbour'
  BY DEF SendPacketByArp, UniqueRequest, DrainOnly, RightNeighbour, KeyOf, Hop
<1>11. QED
  BY <1>6, <1>8, <1>9, <1>10

LEMMA OwnerTransmit ==
    ASSUME ArpInv, TypeOK', NEW t \in Thread, Transmit(t)
    PROVE  ArpInv'
<1> USE DEF ArpInv
<1> DEFINE p == call[t].pkt
           m == call[t].mac
<1>1. p \in Packet /\ m \in MAC
  BY DEF Transmit, TypeOK, Call, Idle
<1>2. HeldBy(t, p)
  BY DEF Transmit, HeldBy
<1>3. \A u \in Thread, q \in Packet : HeldBy(u, q)' <=> HeldBy(u, q) /\ u # t
  BY DEF Transmit, TypeOK, HeldBy, Idle
<1>4. \A q \in Packet : HeldBy(t, q) => q = p
  BY DEF HeldBy
<1>5. \A q \in Packet : /\ InHand(q)' <=> InHand(q) /\ q # p
                        /\ Queued(q)' <=> Queued(q)
                        /\ WasSent(q)' <=> WasSent(q) \/ q = p
  <2>1. \A q \in Packet : InHand(q)' <=> InHand(q) /\ q # p
    BY <1>1, <1>2, <1>3, <1>4 DEF InHand, Once
  <2>2. \A q \in Packet : Queued(q)' <=> Queued(q)
    BY DEF Transmit, Queued
  <2>3. \A q \in Packet : WasSent(q)' <=> WasSent(q) \/ q = p
    BY <1>1 DEF Transmit, WasSent
  <2>4. QED
    BY <2>1, <2>2, <2>3
<1>6. UNCHANGED <<fresh, doomed, dropped>>
  BY DEF Transmit
<1>7. Exclusive'
  <2>1. InHand(p)
    BY <1>2 DEF InHand
  <2>2. QED
    BY <1>1, <1>5, <1>6, <2>1 DEF Exclusive
<1>8. ~WasSent(p)
  BY <1>1, <1>2 DEF Exclusive, InHand
<1>9. Once'
  BY <1>1, <1>3, <1>8 DEF Once, WasSent, Transmit
<1>10. Routed' /\ RightNeighbour'
  <2>1. <<Hop(p)[2], m>> \in Owner
    BY DEF Routed, Transmit
  <2>2. Routed'
    BY DEF Routed, Transmit, TypeOK, Idle, Hop, KeyOf
  <2>3. RightNeighbour'
    BY <2>1 DEF RightNeighbour, Transmit, Hop
  <2>4. QED
    BY <2>2, <2>3
<1>11. UniqueRequest' /\ DrainOnly'
  BY DEF Transmit, UniqueRequest, DrainOnly, KeyOf
<1>12. QED
  BY <1>7, <1>9, <1>10, <1>11

LEMMA OwnerAppend ==
    ASSUME ArpInv, TypeOK', NEW t \in Thread, AppendPacket(t)
    PROVE  ArpInv'
<1> USE DEF ArpInv
<1> DEFINE p == call[t].pkt
           k == Hop(p)
           n == [iface |-> k[1], ip4 |-> k[2], age |-> 0, retries |-> 0, pkts |-> {p}]
<1>1. p \in Packet /\ HeldBy(t, p)
  BY DEF AppendPacket, TypeOK, Call, Idle, HeldBy
<1>2. k \in Key /\ KeyOf(n) = k
  BY <1>1, ConstantsAssumption DEF Hop, TypeOK, KeyOf
<1>3. ~Queued(p) /\ InHand(p)
  BY <1>1 DEF Exclusive, InHand
<1>4. \A u \in Thread \ {t} : call'[u] = call[u]
  BY DEF AppendPacket, TypeOK
<1>5. call'[t].pc \in {"idle", "ask"}
  BY DEF AppendPacket, TypeOK, Idle
<1>6. \A u \in Thread, q \in Packet : HeldBy(u, q)' <=> HeldBy(u, q) /\ u # t
  BY <1>4, <1>5 DEF HeldBy
<1>7. \A q \in Packet : HeldBy(t, q) => q = p
  BY DEF HeldBy
<1>8. \A q \in Packet : InHand(q)' <=> InHand(q) /\ q # p
  BY <1>1, <1>6, <1>7 DEF InHand, Once
\* Where the packet now waits, and that no other request has its key.
<1>9. \E new \in reqs' :
         /\ KeyOf(new) = k /\ p \in new.pkts
         /\ \A r \in reqs' : r # new => r \in reqs /\ KeyOf(r) # k
         /\ \A q \in new.pkts : q = p \/ \E r \in reqs : KeyOf(r) = k /\ q \in r.pkts
         /\ \A r \in reqs : r \in reqs' \/ (KeyOf(r) = k /\ r.pkts \subseteq new.pkts)
  <2>1. CASE \E r \in reqs :
                /\ KeyOf(r) = k
                /\ reqs' = (reqs \ {r}) \cup {Joined(r, p)}
    <3>1. PICK r \in reqs : KeyOf(r) = k /\ reqs' = (reqs \ {r}) \cup {Joined(r, p)}
      BY <2>1
    <3>2. KeyOf(Joined(r, p)) = k /\ Joined(r, p).pkts = r.pkts \cup {p}
      BY <3>1 DEF Joined, KeyOf
    <3>3. \A q \in reqs : KeyOf(q) = k => q = r
      BY <3>1 DEF UniqueRequest
    <3>4. Joined(r, p) \in reqs'
      BY <3>1
    <3>5. QED
      BY <3>1, <3>2, <3>3, <3>4
  <2>2. CASE reqs' = reqs \cup {n} /\ \A r \in reqs : KeyOf(r) # k
    <3>1. n \in reqs' /\ n.pkts = {p}
      BY <2>2
    <3>2. QED
      BY <1>2, <2>2, <3>1
  <2>3. QED
    BY <2>1, <2>2 DEF AppendPacket, Pending
<1>10. PICK new \in reqs' :
         /\ KeyOf(new) = k /\ p \in new.pkts
         /\ \A r \in reqs' : r # new => r \in reqs /\ KeyOf(r) # k
         /\ \A q \in new.pkts : q = p \/ \E r \in reqs : KeyOf(r) = k /\ q \in r.pkts
         /\ \A r \in reqs : r \in reqs' \/ (KeyOf(r) = k /\ r.pkts \subseteq new.pkts)
  BY <1>9
<1>11. \A q \in Packet : Queued(q)' <=> Queued(q) \/ q = p
  BY <1>10 DEF Queued
<1>12. UNCHANGED <<entries, sweep, doomed, hdr, fresh, sent, dropped>>
  BY DEF AppendPacket
<1>13. Exclusive'
  BY <1>1, <1>3, <1>8, <1>11, <1>12 DEF Exclusive, WasSent
<1>14. Once'
  <2> SUFFICES ASSUME NEW q \in Packet
               PROVE  /\ \A u, v \in Thread : HeldBy(u, q)' /\ HeldBy(v, q)' => u = v
                      /\ \A r, s \in reqs' : q \in r.pkts /\ q \in s.pkts => r = s
                      /\ \A l, m \in MAC : <<q, l>> \in sent' /\ <<q, m>> \in sent'
                                           => l = m
    BY DEF Once
  <2>1. \A r \in reqs' : r # new /\ q \in r.pkts => q \notin new.pkts
    BY <1>3, <1>10 DEF Once, Queued
  <2>2. \A r, s \in reqs' : q \in r.pkts /\ q \in s.pkts => r = s
    BY <1>10, <2>1 DEF Once
  <2>3. QED
    BY <1>6, <1>12, <2>2 DEF Once
<1>15. UniqueRequest'
  <2>1. \A r, s \in reqs' : KeyOf(r) = KeyOf(s) => r = s
    BY <1>10 DEF UniqueRequest
  <2>2. \A r \in reqs' : r.pkts # {}
    BY <1>10 DEF UniqueRequest
  <2>3. QED
    BY <2>1, <2>2 DEF UniqueRequest, KeyOf
<1>16. Routed'
  <2>1. \A r \in reqs' : \A q \in r.pkts : Hop(q) = KeyOf(r)
    BY <1>10 DEF Routed
  <2>2. \A u \in Thread : call'[u].pc = "hit"
                          => <<Hop(call'[u].pkt)[2], call'[u].mac>> \in Owner
    BY <1>4, <1>5 DEF Routed
  <2>3. QED
    BY <1>12, <2>1, <2>2 DEF Routed, Hop, KeyOf
<1>17. DrainOnly' /\ RightNeighbour'
  BY <1>12 DEF DrainOnly, RightNeighbour, Hop
<1>18. QED
  BY <1>13, <1>14, <1>15, <1>16, <1>17

LEMMA OwnerFirstRequest ==
    ASSUME ArpInv, TypeOK', NEW t \in Thread, SendFirstRequest(t)
    PROVE  ArpInv'
<1> USE DEF ArpInv
<1>1. \A u \in Thread \ {t} : call'[u] = call[u]
  BY DEF SendFirstRequest, TypeOK
<1>2. call'[t].pc = "idle" /\ call[t].pc = "ask"
  BY DEF SendFirstRequest, TypeOK, Idle
<1>3. \A u \in Thread, q \in Packet : HeldBy(u, q)' <=> HeldBy(u, q)
  BY <1>1, <1>2 DEF HeldBy
<1>4. UNCHANGED <<entries, reqs, sweep, doomed, hdr, fresh, sent, dropped>>
  BY DEF SendFirstRequest
<1>5. Exclusive' /\ Once'
  <2>1. \A q \in Packet : /\ InHand(q)' <=> InHand(q)
                          /\ Queued(q)' <=> Queued(q)
                          /\ WasSent(q)' <=> WasSent(q)
    BY <1>3, <1>4 DEF InHand, Queued, WasSent
  <2>2. Exclusive'
    BY <1>4, <2>1 DEF Exclusive
  <2>3. Once'
    BY <1>3, <1>4 DEF Once
  <2>4. QED
    BY <2>2, <2>3
<1>6. Routed' /\ RightNeighbour'
  BY <1>1, <1>2, <1>4 DEF Routed, RightNeighbour, Hop, KeyOf
<1>7. UniqueRequest' /\ DrainOnly'
  BY <1>4 DEF UniqueRequest, DrainOnly, KeyOf
<1>8. QED
  BY <1>5, <1>6, <1>7

LEMMA OwnerInsert ==
    ASSUME ArpInv, TypeOK', NEW op, NEW forUs, NEW ip4, NEW mac,
           HandleArpPacket(op, forUs, ip4, mac)
    PROVE  ArpInv'
<1> USE DEF ArpInv
<1> DEFINE answered == {r \in reqs : r.ip4 = ip4}
           flushed  == UNION {r.pkts : r \in answered}
<1>1. <<ip4, mac>> \in Owner /\ mac \in MAC
  BY ConstantsAssumption DEF HandleArpPacket
<1>2. UNCHANGED <<call, sweep, doomed, hdr, fresh, dropped>>
  BY DEF HandleArpPacket
<1>3. reqs' = reqs \ answered /\ sent' = sent \cup (flushed \X {mac})
  BY DEF HandleArpPacket, Insert
<1>4. \A q \in Packet : q \in flushed <=> \E r \in answered : q \in r.pkts
  OBVIOUS
<1>5. \A q \in Packet : q \in flushed => Queued(q) /\ ~WasSent(q)
  BY <1>4 DEF Queued, Exclusive
<1>6. \A q \in Packet : /\ InHand(q)' <=> InHand(q)
                        /\ Queued(q)' <=> Queued(q) /\ q \notin flushed
                        /\ WasSent(q)' <=> WasSent(q) \/ q \in flushed
  <2>1. \A q \in Packet : InHand(q)' <=> InHand(q)
    BY <1>2 DEF InHand, HeldBy
  <2>2. \A q \in Packet : Queued(q)' <=> Queued(q) /\ q \notin flushed
    BY <1>3, <1>4 DEF Queued, Once
  <2>3. \A q \in Packet : WasSent(q)' <=> WasSent(q) \/ q \in flushed
    BY <1>1, <1>3 DEF WasSent
  <2>4. QED
    BY <2>1, <2>2, <2>3
<1>7. Exclusive'
  BY <1>2, <1>5, <1>6 DEF Exclusive
<1>8. Once'
  <2> SUFFICES ASSUME NEW q \in Packet
               PROVE  /\ \A u, v \in Thread : HeldBy(u, q)' /\ HeldBy(v, q)' => u = v
                      /\ \A r, s \in reqs' : q \in r.pkts /\ q \in s.pkts => r = s
                      /\ \A l, m \in MAC : <<q, l>> \in sent' /\ <<q, m>> \in sent'
                                           => l = m
    BY DEF Once
  <2>1. \A u, v \in Thread : HeldBy(u, q)' /\ HeldBy(v, q)' => u = v
    BY <1>2 DEF Once, HeldBy
  <2>2. \A r, s \in reqs' : q \in r.pkts /\ q \in s.pkts => r = s
    BY <1>3 DEF Once
  <2>3. \A l, m \in MAC : <<q, l>> \in sent' /\ <<q, m>> \in sent' => l = m
    BY <1>3, <1>5 DEF Once, WasSent
  <2>4. QED
    BY <2>1, <2>2, <2>3
<1>9. Routed'
  <2>1. PICK i \in Slot : entries' = [entries EXCEPT
                  ![i] = [valid |-> TRUE, ip4 |-> ip4, mac |-> mac, age |-> 0]]
    BY DEF HandleArpPacket, Insert
  <2>2. \A j \in Slot : entries'[j].valid => <<entries'[j].ip4, entries'[j].mac>> \in Owner
    BY <1>1, <2>1 DEF Routed, TypeOK
  <2>3. \A r \in reqs' : \A q \in r.pkts : Hop(q)' = KeyOf(r)
    BY <1>2, <1>3 DEF Routed, Hop
  <2>4. QED
    BY <1>2, <2>2, <2>3 DEF Routed, Hop, KeyOf
<1>10. RightNeighbour'
  <2>1. \A q \in flushed : Hop(q)[2] = ip4
    BY DEF Routed, KeyOf
  <2>2. QED
    BY <1>1, <1>2, <1>3, <2>1 DEF RightNeighbour, Hop
<1>11. UniqueRequest' /\ DrainOnly'
  BY <1>2, <1>3 DEF UniqueRequest, DrainOnly, KeyOf
<1>12. QED
  BY <1>7, <1>8, <1>9, <1>10, <1>11

LEMMA OwnerSweep ==
    ASSUME ArpInv, TypeOK', SweepLocked
    PROVE  ArpInv'
<1> USE DEF ArpInv
<1>1. doomed = {}
  BY DEF DrainOnly, SweepLocked
<1>2. UNCHANGED <<call, hdr, fresh, sent, dropped>> /\ sweep'.pc = "drain"
  BY DEF SweepLocked
<1>3. \A q \in Packet : q \in doomed' <=> \E r \in reqs : Exhausted(r) /\ q \in r.pkts
  BY DEF SweepLocked
\* Every request that stays is one that was there, perhaps asked once more.
<1>4. \A s \in reqs' : \E r \in reqs : /\ ~Exhausted(r) /\ KeyOf(s) = KeyOf(r)
                                       /\ s.pkts = r.pkts
                                       /\ s = IF Due(r) THEN Resent(r) ELSE r
  BY DEF SweepLocked, Due, Resent, KeyOf
<1>5. \A r \in reqs : ~Exhausted(r) => \E s \in reqs' : s.pkts = r.pkts
  <2> SUFFICES ASSUME NEW r \in reqs, ~Exhausted(r)
               PROVE  \E s \in reqs' : s.pkts = r.pkts
    OBVIOUS
  <2>1. CASE Due(r)
    <3>1. Resent(r) \in reqs' /\ Resent(r).pkts = r.pkts
      BY <2>1 DEF SweepLocked, Resent
    <3>2. QED
      BY <3>1
  <2>2. CASE ~Due(r)
    BY <2>2 DEF SweepLocked
  <2>3. QED
    BY <2>1, <2>2
<1>6. \A q \in Packet : /\ InHand(q)' <=> InHand(q)
                        /\ Queued(q)' \/ q \in doomed' <=> Queued(q)
                        /\ ~(Queued(q)' /\ q \in doomed')
                        /\ WasSent(q)' <=> WasSent(q)
  <2>1. \A q \in Packet : Queued(q)' \/ q \in doomed' <=> Queued(q)
    BY <1>3, <1>4, <1>5 DEF Queued
  <2>2. \A q \in Packet : ~(Queued(q)' /\ q \in doomed')
    BY <1>3, <1>4 DEF Queued, Once
  <2>3. QED
    BY <1>2, <2>1, <2>2 DEF InHand, HeldBy, WasSent
<1>7. Exclusive'
  BY <1>1, <1>2, <1>6 DEF Exclusive
<1>8. Once'
  <2>1. \A q \in Packet : \A r, s \in reqs' : q \in r.pkts /\ q \in s.pkts => r = s
    BY <1>4 DEF Once
  <2>2. QED
    BY <1>2, <2>1 DEF Once, HeldBy
<1>9. UniqueRequest'
  <2>1. \A r, s \in reqs' : KeyOf(r) = KeyOf(s) => r = s
    BY <1>4 DEF UniqueRequest
  <2>2. \A r \in reqs' : r.pkts # {}
    BY <1>4 DEF UniqueRequest
  <2>3. QED
    BY <2>1, <2>2 DEF UniqueRequest, KeyOf
<1>10. Routed'
  <2>1. \A i \in Slot : entries'[i].valid => entries'[i] = entries[i]
    BY DEF SweepLocked, Invalid
  <2>2. \A s \in reqs' : \A q \in s.pkts : Hop(q)' = KeyOf(s)
    BY <1>2, <1>4 DEF Routed, Hop
  <2>3. QED
    BY <1>2, <2>1, <2>2 DEF Routed, Hop, KeyOf
<1>11. DrainOnly' /\ RightNeighbour'
  BY <1>2 DEF DrainOnly, RightNeighbour, Hop
<1>12. QED
  BY <1>7, <1>8, <1>9, <1>10, <1>11

LEMMA OwnerIcmp ==
    ASSUME ArpInv, TypeOK', NEW p \in Packet, IcmpHostUnreach(p)
    PROVE  ArpInv'
<1> USE ConstantsAssumption DEF ArpInv
<1> DEFINE e == Error[hdr[p]]
<1>1. /\ p \in doomed /\ doomed' = doomed \ {p}
      /\ call[Sweeper] = Idle /\ sweep.pc = "drain"
      /\ UNCHANGED <<entries, reqs, sweep, fresh, sent, asks>>
  BY DEF IcmpHostUnreach
<1>2. UniqueRequest' /\ DrainOnly'
  BY <1>1 DEF UniqueRequest, DrainOnly, KeyOf
<1>3. ~InHand(p) /\ ~Queued(p) /\ ~WasSent(p) /\ p \notin fresh \cup dropped
  BY <1>1 DEF Exclusive
<1>4. \A q \in Packet : Queued(q)' <=> Queued(q)
  BY <1>1 DEF Queued
<1>5. \A q \in Packet : WasSent(q)' <=> WasSent(q)
  BY <1>1 DEF WasSent
<1>6. CASE e = NoRoute
  <2>1. dropped' = dropped \cup {p} /\ UNCHANGED <<hdr, call>>
    BY <1>6 DEF IcmpHostUnreach
  <2>2. \A q \in Packet : InHand(q)' <=> InHand(q)
    BY <2>1 DEF InHand, HeldBy
  <2>3. Exclusive'
    BY <1>1, <1>3, <1>4, <1>5, <2>1, <2>2 DEF Exclusive
  <2>4. Once'
    BY <1>1, <2>1 DEF Once, HeldBy
  <2>5. Routed' /\ RightNeighbour'
    BY <1>1, <2>1 DEF Routed, RightNeighbour, Hop, KeyOf
  <2>6. QED
    BY <1>2, <2>3, <2>4, <2>5
<1>7. CASE e # NoRoute
  <2>1. Sweeper \in Thread /\ e \in Header
    BY <1>7 DEF Thread, TypeOK
  <2>2. hdr' = [hdr EXCEPT ![p] = e] /\ Lookup(Sweeper, p, e) /\ UNCHANGED dropped
    BY <1>7 DEF IcmpHostUnreach
  <2>3. /\ \A u \in Thread, q \in Packet :
              HeldBy(u, q)' <=> HeldBy(u, q) \/ (u = Sweeper /\ q = p)
        /\ call'[Sweeper].pkt = p
        /\ call'[Sweeper].pc = "hit" => <<Via[e][2], call'[Sweeper].mac>> \in Owner
        /\ \A u \in Thread \ {Sweeper} : call'[u] = call[u]
    BY <1>1, <2>1, <2>2, LookupEffect
  <2>4. \A q \in Packet : InHand(q)' <=> InHand(q) \/ q = p
    BY <2>1, <2>3 DEF InHand
  <2>5. Exclusive'
    BY <1>1, <1>3, <1>4, <1>5, <2>2, <2>4 DEF Exclusive
  <2>6. Once'
    BY <1>1, <1>3, <2>3 DEF Once, InHand
  <2>7. hdr'[p] = e /\ \A q \in Packet \ {p} : hdr'[q] = hdr[q]
    BY <2>2 DEF TypeOK
  <2>8. Routed'
    <3>1. \A r \in reqs' : \A q \in r.pkts : Hop(q)' = KeyOf(r)
      BY <1>1, <1>3, <2>7 DEF Routed, Hop, Queued, TypeOK, Req
    <3>2. \A u \in Thread : call'[u].pc = "hit"
                            => <<Via[hdr'[call'[u].pkt]][2], call'[u].mac>> \in Owner
      <4> SUFFICES ASSUME NEW u \in Thread, call'[u].pc = "hit"
                   PROVE  <<Via[hdr'[call'[u].pkt]][2], call'[u].mac>> \in Owner
        OBVIOUS
      <4>1. CASE u = Sweeper
        BY <2>3, <2>7, <4>1
      <4>2. CASE u # Sweeper
        <5>1. call'[u] = call[u]
          BY <2>3, <4>2
        <5>2. HeldBy(u, call[u].pkt) /\ call[u].pkt \in Packet
          BY <5>1 DEF HeldBy, TypeOK, Call, Idle
        <5>3. call[u].pkt # p
          BY <1>3, <5>2 DEF InHand
        <5>4. QED
          BY <2>7, <5>1, <5>2, <5>3 DEF Routed, Hop
      <4>3. QED
        BY <4>1, <4>2
    <3>3. QED
      BY <1>1, <3>1, <3>2 DEF Routed, Hop, KeyOf
  <2>9. RightNeighbour'
    <3> SUFFICES ASSUME NEW s \in sent
                 PROVE  <<Via[hdr'[s[1]]][2], s[2]>> \in Owner
      BY <1>1 DEF RightNeighbour, Hop
    <3>1. s[1] \in Packet /\ s[2] \in MAC /\ s = <<s[1], s[2]>>
      BY DEF TypeOK
    <3>2. s[1] # p
      BY <1>3, <3>1 DEF WasSent
    <3>3. QED
      BY <2>7, <3>1, <3>2 DEF RightNeighbour, Hop
  <2>10. QED
    BY <1>2, <2>5, <2>6, <2>8, <2>9
<1>8. QED
  BY <1>6, <1>7

LEMMA OwnerTick ==
    ASSUME ArpInv, TypeOK', Tick
    PROVE  ArpInv'
<1> USE DEF ArpInv
<1>1. UNCHANGED <<call, doomed, hdr, fresh, sent, dropped>>
  BY DEF Tick
<1>2. \A s \in reqs' : \E r \in reqs : s = OlderReq(r) /\ KeyOf(s) = KeyOf(r)
                                       /\ s.pkts = r.pkts
  BY DEF Tick, OlderReq, KeyOf
<1>3. \A r \in reqs : \E s \in reqs' : s.pkts = r.pkts
  <2> SUFFICES ASSUME NEW r \in reqs
               PROVE  \E s \in reqs' : s.pkts = r.pkts
    OBVIOUS
  <2>1. OlderReq(r) \in reqs' /\ OlderReq(r).pkts = r.pkts
    BY DEF Tick, OlderReq
  <2>2. QED
    BY <2>1
<1>4. \A q \in Packet : /\ InHand(q)' <=> InHand(q)
                        /\ Queued(q)' <=> Queued(q)
                        /\ WasSent(q)' <=> WasSent(q)
  BY <1>1, <1>2, <1>3 DEF InHand, HeldBy, Queued, WasSent
<1>5. Exclusive'
  BY <1>1, <1>4 DEF Exclusive
<1>6. Once'
  <2>1. \A q \in Packet : \A r, s \in reqs' : q \in r.pkts /\ q \in s.pkts => r = s
    BY <1>2 DEF Once
  <2>2. QED
    BY <1>1, <2>1 DEF Once, HeldBy
<1>7. UniqueRequest'
  <2>1. \A r, s \in reqs' : KeyOf(r) = KeyOf(s) => r = s
    BY <1>2 DEF UniqueRequest
  <2>2. \A r \in reqs' : r.pkts # {}
    BY <1>2 DEF UniqueRequest
  <2>3. QED
    BY <2>1, <2>2 DEF UniqueRequest, KeyOf
<1>8. Routed'
  <2>1. \A i \in Slot : /\ entries'[i].valid = entries[i].valid
                        /\ entries[i].valid => /\ entries'[i].ip4 = entries[i].ip4
                                               /\ entries'[i].mac = entries[i].mac
    BY DEF Tick, OlderEntry, TypeOK, Entry
  <2>2. \A s \in reqs' : \A q \in s.pkts : Hop(q)' = KeyOf(s)
    BY <1>1, <1>2 DEF Routed, Hop
  <2>3. QED
    BY <1>1, <2>1, <2>2 DEF Routed, Hop, KeyOf
<1>9. DrainOnly' /\ RightNeighbour'
  BY <1>1 DEF Tick, DrainOnly, RightNeighbour, Hop
<1>10. QED
  BY <1>5, <1>6, <1>7, <1>8, <1>9

\* The steps that touch neither packets, requests nor mappings.
LEMMA OwnerIdle ==
    ASSUME ArpInv, TypeOK', SweepWake \/ SweepSleep \/ UNCHANGED vars
    PROVE  ArpInv'
<1>1. UNCHANGED <<entries, reqs, call, doomed, hdr, fresh, sent, dropped>>
  BY DEF SweepWake, SweepSleep, vars
<1>2. DrainOnly'
  BY <1>1 DEF ArpInv, DrainOnly, SweepWake, SweepSleep, vars
<1>3. Exclusive' /\ Once'
  BY <1>1 DEF ArpInv, Exclusive, Once, InHand, HeldBy, Queued, WasSent
<1>4. UniqueRequest' /\ Routed' /\ RightNeighbour'
  BY <1>1 DEF ArpInv, UniqueRequest, Routed, RightNeighbour, Hop, KeyOf
<1>5. QED
  BY <1>2, <1>3, <1>4 DEF ArpInv

LEMMA ArpInvInit == Init => ArpInv
<1> SUFFICES ASSUME Init
             PROVE  ArpInv
  OBVIOUS
<1>1. TypeOK
  BY TypeInit
<1>2. \A p \in Packet : ~InHand(p) /\ ~Queued(p) /\ ~WasSent(p)
  BY DEF Init, InHand, HeldBy, Idle, Queued, WasSent
<1>3. Exclusive
  BY <1>2 DEF Exclusive, Init
<1>4. Once /\ UniqueRequest /\ DrainOnly /\ Routed /\ RightNeighbour
  BY DEF Init, Once, HeldBy, Idle, UniqueRequest, DrainOnly, Routed, Invalid,
         RightNeighbour
<1>5. QED
  BY <1>1, <1>3, <1>4 DEF ArpInv

LEMMA ArpInvNext == ArpInv /\ [Next]_vars => ArpInv'
<1> SUFFICES ASSUME ArpInv, [Next]_vars
             PROVE  ArpInv'
  OBVIOUS
<1>1. TypeOK'
  BY TypeNext DEF ArpInv
<1>2. ASSUME NEW t \in Sender, NEW p \in Packet, SendPacketByArp(t, p)
      PROVE  ArpInv'
  BY <1>1, <1>2, OwnerSend
<1>3. ASSUME NEW t \in Thread, ThreadStep(t)
      PROVE  ArpInv'
  BY <1>1, <1>3, OwnerTransmit, OwnerAppend, OwnerFirstRequest DEF ThreadStep
<1>4. ASSUME NEW op, NEW forUs, NEW ip4, NEW mac, HandleArpPacket(op, forUs, ip4, mac)
      PROVE  ArpInv'
  BY <1>1, <1>4, OwnerInsert
<1>5. CASE SweepStep
  BY <1>1, <1>5, OwnerIdle, OwnerSweep, OwnerIcmp DEF SweepStep
<1>6. CASE Tick
  BY <1>1, <1>6, OwnerTick
<1>7. CASE UNCHANGED vars
  BY <1>1, <1>7, OwnerIdle
<1>8. QED
  BY <1>2, <1>3, <1>4, <1>5, <1>6, <1>7 DEF Next

THEOREM ArpInvariant == Spec => []ArpInv
BY ArpInvInit, ArpInvNext, PTL DEF Spec

\* However threads interleave, at most one request is pending for a next hop on
\* an interface, and none of them waits without a packet.
THEOREM OneRequestPerHop == Spec => []UniqueRequest
<1>1. ArpInv => UniqueRequest
  BY DEF ArpInv
<1>2. QED
  BY <1>1, ArpInvariant, PTL

\* No packet handed to the ARP layer is ever lost, sent twice or freed twice.
THEOREM EveryPacketOwnedOnce == Spec => []OneOwner
<1>1. ArpInv => OneOwner
  <2> SUFFICES ASSUME ArpInv, NEW p \in Packet
               PROVE  \E a \in Place : In(a, p) /\ \A b \in Place : In(b, p) => b = a
    BY DEF OneOwner, ArpInv, Once
  <2>1. /\ In("fresh", p) <=> p \in fresh
        /\ In("hand", p) <=> InHand(p)
        /\ In("queue", p) <=> Queued(p)
        /\ In("doomed", p) <=> p \in doomed
        /\ In("sent", p) <=> WasSent(p)
        /\ In("dropped", p) <=> p \in dropped
    BY DEF In
  <2>2. QED
    BY <2>1 DEF ArpInv, Exclusive, Place
<1>2. QED
  BY <1>1, ArpInvariant, PTL

\* A packet only leaves with a MAC its own next hop announced.
THEOREM SentToItsNextHop == Spec => []RightNeighbour
<1>1. ArpInv => RightNeighbour
  BY DEF ArpInv
<1>2. QED
  BY <1>1, ArpInvariant, PTL

-----------------------------------------------------------------------------
(***************************************************************************)
(* The table of mappings.                                                  *)
(***************************************************************************)
LEMMA UniqueMappingNext ==
    ASSUME TypeOK, UniqueMapping, [Next]_vars
    PROVE  UniqueMapping'
<1> USE DEF UniqueMapping, Holds
<1>1. ASSUME NEW op, NEW forUs, NEW ip4, NEW mac, HandleArpPacket(op, forUs, ip4, mac)
      PROVE  UniqueMapping'
  <2>1. PICK i \in Slot : /\ IsTarget(i, ip4)
                          /\ entries' = [entries EXCEPT
                               ![i] = [valid |-> TRUE, ip4 |-> ip4, mac |-> mac, age |-> 0]]
    BY <1>1 DEF HandleArpPacket, Insert
  <2>2. \A j \in Slot : entries[j].valid /\ entries[j].ip4 = ip4 => j = i
    BY <2>1 DEF IsTarget
  <2>3. QED
    BY <2>1, <2>2 DEF TypeOK
<1>2. CASE SweepLocked
  <2>1. \A i \in Slot : entries'[i].valid => entries'[i] = entries[i]
    BY <1>2 DEF SweepLocked, Invalid
  <2>2. QED
    BY <2>1
<1>3. CASE Tick
  <2>1. \A i \in Slot : /\ entries'[i].valid = entries[i].valid
                        /\ entries[i].valid => entries'[i].ip4 = entries[i].ip4
    BY <1>3 DEF Tick, OlderEntry, TypeOK, Entry
  <2>2. QED
    BY <2>1
<1>4. CASE UNCHANGED entries
  BY <1>4
<1>5. QED
  BY <1>1, <1>2, <1>3, <1>4
  DEF Next, ThreadStep, SweepStep, SendPacketByArp, Transmit, AppendPacket,
      SendFirstRequest, SweepWake, IcmpHostUnreach, SweepSleep, vars

\* Inserting, expiring and evicting never leave two valid mappings of an address.
THEOREM OneMappingPerAddress == Spec => []UniqueMapping
<1>1. Init => UniqueMapping
  BY DEF Init, UniqueMapping, Invalid
<1>2. QED
  BY <1>1, TypeInit, TypeNext, UniqueMappingNext, PTL DEF Spec

\* The table forgets an address only when its mapping is really too old, although
\* the sweeper judges by a clock read before it took the lock, or when it is full.
THEOREM ForgetsOnlyWhenOldOrFull == Spec => ForgottenOnlyWhenOldOrFull
<1> DEFINE Known(i) == \E j \in Slot : entries'[j].valid /\ entries'[j].ip4 = entries[i].ip4
           Excuse(i) == \/ entries[i].age > ARP_ENTRY_TIMEOUT
                        \/ \A j \in Slot : entries[j].valid
<1>1. ASSUME TypeOK, [Next]_vars
      PROVE  \A i \in Slot : entries[i].valid /\ ~Known(i) => Excuse(i)
  <2> SUFFICES ASSUME NEW i \in Slot, entries[i].valid, ~Known(i)
               PROVE  Excuse(i)
    OBVIOUS
  <2>1. ASSUME NEW op, NEW forUs, NEW ip4, NEW mac, HandleArpPacket(op, forUs, ip4, mac)
        PROVE  Excuse(i)
    <3>1. PICK n \in Slot : /\ IsTarget(n, ip4)
                            /\ entries' = [entries EXCEPT
                                 ![n] = [valid |-> TRUE, ip4 |-> ip4, mac |-> mac, age |-> 0]]
      BY <2>1 DEF HandleArpPacket, Insert
    <3>2. i = n /\ entries[i].ip4 # ip4
      BY <1>1, <3>1 DEF TypeOK
    <3>3. \A j \in Slot : entries[j].valid
      BY <3>1, <3>2 DEF IsTarget, Holds
    <3>4. QED
      BY <3>3
  <2>2. CASE SweepLocked
    <3>1. Expired(entries[i])
      BY <2>2 DEF SweepLocked
    <3>2. entries[i].age \in 0..EntryAgeCap
      BY <1>1, <2>1 DEF TypeOK, Entry
    <3>3. sweep.lag \in 0..MaxLag
      BY <1>1 DEF TypeOK
    <3>4. QED
      BY <3>1, <3>2, <3>3, ConstantsAssumption DEF Expired
  <2>3. CASE Tick
    <3>1. entries'[i].valid /\ entries'[i].ip4 = entries[i].ip4
      BY <1>1, <2>3 DEF Tick, OlderEntry, TypeOK
    <3>2. QED
      BY <3>1
  <2>4. CASE UNCHANGED entries
    BY <2>4
  <2>5. QED
    BY <1>1, <2>1, <2>2, <2>3, <2>4
    DEF Next, ThreadStep, SweepStep, SendPacketByArp, Transmit, AppendPacket,
        SendFirstRequest, SweepWake, IcmpHostUnreach, SweepSleep, vars
<1>2. TypeOK /\ [Next]_vars
      => [\A i \in Slot : entries[i].valid /\ ~Known(i) => Excuse(i)]_vars
  BY <1>1
<1>3. QED
  BY <1>2, TypeInit, TypeNext, PTL DEF Spec, ForgottenOnlyWhenOldOrFull

-----------------------------------------------------------------------------
(***************************************************************************)
(* Retries.                                                                *)
(***************************************************************************)
LEMMA CountedNext ==
    ASSUME ArpInv, Counted, [Next]_vars
    PROVE  Counted'
<1> USE ConstantsAssumption DEF ArpInv
<1>1. \A r \in reqs : KeyOf(r) \in Key /\ r.retries \in 0..ARP_REQUEST_MAX_RETRIES
  BY DEF TypeOK, Req, KeyOf
<1>2. ASSUME NEW t \in Thread, AppendPacket(t)
      PROVE  Counted'
  <2> DEFINE p == call[t].pkt
             k == Hop(p)
             n == [iface |-> k[1], ip4 |-> k[2], age |-> 0, retries |-> 0, pkts |-> {p}]
  <2>1. k \in Key
    BY <1>2 DEF AppendPacket, TypeOK, Call, Idle, Hop
  <2>2. CASE \E r \in reqs : reqs' = (reqs \ {r}) \cup {Joined(r, p)} /\ UNCHANGED asks
    <3>1. PICK r \in reqs : reqs' = (reqs \ {r}) \cup {Joined(r, p)} /\ UNCHANGED asks
      BY <2>2
    <3>2. KeyOf(Joined(r, p)) = KeyOf(r) /\ Joined(r, p).retries = r.retries
      BY DEF KeyOf, Joined
    <3>3. QED
      BY <3>1, <3>2 DEF Counted, KeyOf
  <2>3. CASE /\ reqs' = reqs \cup {n} /\ asks' = [asks EXCEPT ![k] = 0]
             /\ \A r \in reqs : KeyOf(r) # k
    <3>1. KeyOf(n) = k /\ n.retries = 0
      BY <2>1 DEF KeyOf
    <3>2. \A r \in reqs : asks'[KeyOf(r)] = asks[KeyOf(r)]
      BY <1>1, <2>3 DEF TypeOK
    <3>3. asks'[k] = 0
      BY <2>1, <2>3 DEF TypeOK
    <3>4. \A r \in reqs : r.retries <= asks'[KeyOf(r)]
      BY <3>2 DEF Counted
    <3>5. n.retries <= asks'[KeyOf(n)]
      BY <3>1, <3>3
    <3>6. \A r \in reqs' : r.retries <= asks'[KeyOf(r)]
      BY <2>3, <3>4, <3>5
    <3>7. QED
      BY <3>6 DEF Counted, KeyOf
  <2>4. QED
    BY <1>2, <2>2, <2>3 DEF AppendPacket, Pending
<1>3. ASSUME NEW t \in Thread, SendFirstRequest(t)
      PROVE  Counted'
  <2>1. \A k \in Key : asks[k] <= asks'[k] /\ asks[k] \in Int /\ asks'[k] \in Int
    BY <1>3 DEF SendFirstRequest, Asked, TypeOK, Least, AskCap
  <2>2. reqs' = reqs
    BY <1>3 DEF SendFirstRequest
  <2>3. \A r \in reqs : r.retries <= asks'[KeyOf(r)]
    BY <1>1, <2>1 DEF Counted
  <2>4. QED
    BY <2>2, <2>3 DEF Counted, KeyOf
<1>4. ASSUME NEW op, NEW forUs, NEW ip4, NEW mac, HandleArpPacket(op, forUs, ip4, mac)
      PROVE  Counted'
  BY <1>4 DEF HandleArpPacket, Insert, Counted, KeyOf
<1>5. CASE SweepLocked
  <2>1. \A s \in reqs' : \E r \in reqs : s = IF Due(r) THEN Resent(r) ELSE r
    BY <1>5 DEF SweepLocked, Due
  <2> SUFFICES ASSUME NEW s \in reqs'
               PROVE  s.retries <= asks'[KeyOf(s)]
    BY DEF Counted, KeyOf
  <2>2. PICK r \in reqs : s = IF Due(r) THEN Resent(r) ELSE r
    BY <2>1
  <2>3. asks[KeyOf(r)] \in 0..AskCap /\ r.retries <= asks[KeyOf(r)]
    BY <1>1 DEF TypeOK, Counted
  <2>4. CASE Due(r)
    <3>1. KeyOf(s) = KeyOf(r) /\ s.retries = r.retries + 1
      BY <2>2, <2>4 DEF Resent, KeyOf
    <3>2. asks'[KeyOf(r)] = Least(asks[KeyOf(r)] + 1, AskCap)
      BY <1>1, <1>5, <2>4 DEF SweepLocked
    <3>3. QED
      BY <1>1, <2>3, <3>1, <3>2 DEF Least, AskCap
  <2>5. CASE ~Due(r)
    <3>1. asks'[KeyOf(r)] \in {asks[KeyOf(r)], Least(asks[KeyOf(r)] + 1, AskCap)}
      BY <1>1, <1>5 DEF SweepLocked
    <3>2. QED
      BY <1>1, <2>2, <2>3, <2>5, <3>1 DEF Least, AskCap
  <2>6. QED
    BY <2>4, <2>5
<1>6. CASE Tick
  <2>1. asks' = asks /\ \A s \in reqs' : \E r \in reqs : /\ s.retries = r.retries
                                                         /\ KeyOf(s) = KeyOf(r)
    BY <1>6 DEF Tick, OlderReq, KeyOf
  <2>2. QED
    BY <2>1 DEF Counted, KeyOf
<1>7. CASE UNCHANGED <<reqs, asks>>
  BY <1>7 DEF Counted, KeyOf
<1>8. QED
  BY <1>2, <1>3, <1>4, <1>5, <1>6, <1>7
  DEF Next, ThreadStep, SweepStep, SendPacketByArp, Transmit, SweepWake,
      IcmpHostUnreach, SweepSleep, vars

LEMMA CountedInvariant == Spec => [](ArpInv /\ Counted)
<1>1. Init => Counted
  BY DEF Init, Counted
<1>2. QED
  BY <1>1, ArpInvInit, ArpInvNext, CountedNext, PTL DEF Spec

\* A packet is reported unreachable only after ARP_REQUEST_MAX_RETRIES requests
\* for its next hop went out without an answer.
THEOREM GivesUpOnlyAfterAsking == Spec => GivenUpOnlyAfterAsking
<1>1. ASSUME ArpInv, Counted, [Next]_vars, NEW p \in Packet, p \in doomed' \ doomed
      PROVE  asks[Hop(p)] >= ARP_REQUEST_MAX_RETRIES
  <2>1. SweepLocked
    BY <1>1 DEF Next, ThreadStep, SweepStep, SendPacketByArp, Transmit, AppendPacket,
                SendFirstRequest, HandleArpPacket, SweepWake, IcmpHostUnreach,
                SweepSleep, Tick, vars
  <2>2. PICK r \in reqs : Exhausted(r) /\ p \in r.pkts
    BY <1>1, <2>1 DEF SweepLocked
  <2>3. Hop(p) = KeyOf(r) /\ r.retries <= asks[KeyOf(r)]
    BY <1>1, <2>2 DEF ArpInv, Routed, Counted
  <2>4. KeyOf(r) \in Key /\ asks[KeyOf(r)] \in 0..AskCap
    BY <1>1 DEF ArpInv, TypeOK, Req, KeyOf
  <2>5. QED
    BY <2>2, <2>3, <2>4, ConstantsAssumption DEF Exhausted, AskCap
<1>2. ArpInv /\ Counted /\ [Next]_vars
      => [\A p \in Packet : p \in doomed' \ doomed
                            => asks[Hop(p)] >= ARP_REQUEST_MAX_RETRIES]_vars
  BY <1>1
<1>3. QED
  BY <1>2, CountedInvariant, PTL DEF Spec, GivenUpOnlyAfterAsking

-----------------------------------------------------------------------------
(***************************************************************************)
(* The ARP layer implements PacketDelivery.  By Exclusive the waiting      *)
(* packets are those neither fresh, sent nor dropped, so every action can  *)
(* be read off the three sets it assigns.                                  *)
(***************************************************************************)
LEMMA WaitingIsTheRest ==
    ASSUME Exclusive
    PROVE  Waiting = {p \in Packet : p \notin fresh /\ ~WasSent(p) /\ p \notin dropped}
BY DEF Waiting, Exclusive

LEMMA WaitingIsTheRestAfter ==
    ASSUME Exclusive'
    PROVE  Waiting' = {p \in Packet : p \notin fresh' /\ ~WasSent(p)' /\ p \notin dropped'}
BY DEF Waiting, Exclusive

LEMMA DeliveryStep ==
    ASSUME ArpInv, ArpInv', [Next]_vars
    PROVE  [Delivery!Next]_(Delivery!vars)
<1> USE ConstantsAssumption
<1> DEFINE Left == {p \in Packet : p \notin fresh /\ ~WasSent(p) /\ p \notin dropped}
<1>1. Waiting = Left
  BY WaitingIsTheRest DEF ArpInv
<1>2. Waiting' = {p \in Packet : p \notin fresh' /\ ~WasSent(p)' /\ p \notin dropped'}
  BY WaitingIsTheRestAfter DEF ArpInv
<1>3. ASSUME UNCHANGED <<fresh, sent, dropped, hdr>>
      PROVE  UNCHANGED Delivery!vars
  BY <1>1, <1>2, <1>3 DEF Delivery!vars, WasSent
<1>4. ASSUME NEW t \in Sender, NEW p \in Packet, SendPacketByArp(t, p)
      PROVE  Delivery!Next
  <2>1. fresh' = fresh \ {p} /\ p \in fresh /\ UNCHANGED <<sent, dropped, hdr>>
    BY <1>4 DEF SendPacketByArp
  <2>2. ~WasSent(p) /\ p \notin dropped
    BY <2>1 DEF ArpInv, Exclusive
  <2>3. Waiting' = Waiting \cup {p}
    BY <1>1, <1>2, <2>1, <2>2 DEF WasSent
  <2>4. QED
    BY <2>1, <2>3 DEF Delivery!Next, Delivery!Accept
<1>5. ASSUME NEW S \in SUBSET Waiting, NEW m \in MAC, S # {},
             sent' = sent \cup (S \X {m}), UNCHANGED <<fresh, dropped, hdr>>,
             \A p \in S : <<Hop(p)[2], m>> \in Owner
      PROVE  Delivery!Next
  <2>1. \A p \in Packet : WasSent(p)' <=> WasSent(p) \/ p \in S
    BY <1>5 DEF WasSent
  <2>2. Waiting' = Waiting \ S
    BY <1>1, <1>2, <1>5, <2>1
  <2>3. \A p \in S : hdr[p] \in Header
    BY DEF Waiting, ArpInv, TypeOK
  <2>4. Delivery!Emit(S, m)
    BY <1>5, <2>2, <2>3 DEF Delivery!Emit, Hop
  <2>5. QED
    BY <2>4 DEF Delivery!Next
<1>6. ASSUME NEW t \in Thread, Transmit(t)
      PROVE  Delivery!Next
  <2> DEFINE p == call[t].pkt
             m == call[t].mac
  <2>1. p \in Packet /\ m \in MAC /\ HeldBy(t, p)
    BY <1>6 DEF Transmit, ArpInv, TypeOK, Call, Idle, HeldBy
  <2>2. {p} \in SUBSET Waiting
    BY <2>1 DEF Waiting, InHand
  <2>3. <<Hop(p)[2], m>> \in Owner
    BY <1>6 DEF Transmit, ArpInv, Routed
  <2>4. sent' = sent \cup ({p} \X {m}) /\ UNCHANGED <<fresh, dropped, hdr>>
    BY <1>6 DEF Transmit
  <2>5. QED
    BY <1>5, <2>1, <2>2, <2>3, <2>4
<1>7. ASSUME NEW op, NEW forUs, NEW ip4, NEW mac, HandleArpPacket(op, forUs, ip4, mac)
      PROVE  [Delivery!Next]_(Delivery!vars)
  <2> DEFINE flushed == UNION {r.pkts : r \in {q \in reqs : q.ip4 = ip4}}
  <2>1. <<ip4, mac>> \in Owner /\ mac \in MAC
    BY <1>7 DEF HandleArpPacket
  <2>2. /\ sent' = sent \cup (flushed \X {mac})
        /\ UNCHANGED <<fresh, dropped, hdr>>
    BY <1>7 DEF HandleArpPacket, Insert
  <2>3. flushed \in SUBSET Waiting
    BY DEF Waiting, Queued, ArpInv, TypeOK, Req
  <2>4. \A p \in flushed : <<Hop(p)[2], mac>> \in Owner
    BY <2>1 DEF ArpInv, Routed, KeyOf
  <2>5. CASE flushed = {}
    BY <1>3, <2>2, <2>5
  <2>6. CASE flushed # {}
    BY <1>5, <2>1, <2>2, <2>3, <2>4, <2>6
  <2>7. QED
    BY <2>5, <2>6
<1>8. ASSUME NEW p \in Packet, IcmpHostUnreach(p)
      PROVE  Delivery!Next
  <2>1. p \in doomed /\ UNCHANGED <<fresh, sent>>
    BY <1>8 DEF IcmpHostUnreach
  <2>2. p \in Waiting
    BY <2>1 DEF Waiting
  <2>3. CASE Error[hdr[p]] = NoRoute
    <3>1. dropped' = dropped \cup {p} /\ UNCHANGED hdr
      BY <1>8, <2>3 DEF IcmpHostUnreach
    <3>2. Waiting' = Waiting \ {p}
      BY <1>1, <1>2, <2>1, <2>2, <3>1 DEF WasSent
    <3>3. QED
      BY <2>1, <2>2, <2>3, <3>1, <3>2 DEF Delivery!Next, Delivery!Discard
  <2>4. CASE Error[hdr[p]] # NoRoute
    <3>1. hdr' = [hdr EXCEPT ![p] = Error[hdr[p]]] /\ UNCHANGED dropped
      BY <1>8, <2>4 DEF IcmpHostUnreach
    <3>2. Waiting' = Waiting
      BY <1>1, <1>2, <2>1, <3>1 DEF WasSent
    <3>3. QED
      BY <2>1, <2>2, <2>4, <3>1, <3>2 DEF Delivery!Next, Delivery!Report
  <2>5. QED
    BY <2>3, <2>4
<1>9. QED
  BY <1>3, <1>4, <1>6, <1>7, <1>8
  DEF Next, ThreadStep, SweepStep, AppendPacket, SendFirstRequest, SweepWake,
      SweepLocked, SweepSleep, Tick, vars

\* The threads, the two lists, the retries and the sweeper together behave like a
\* layer in which each packet waits until exactly one thing happens to it.
THEOREM ImplementsDelivery == Spec => DeliversAsPromised
<1>1. Init => Delivery!Init
  <2> SUFFICES ASSUME Init
               PROVE  Delivery!Init
    OBVIOUS
  <2>1. Waiting = {}
    BY DEF Init, Waiting, InHand, HeldBy, Idle, Queued
  <2>2. QED
    BY <2>1 DEF Init, Delivery!Init
<1>2. ArpInv /\ ArpInv' /\ [Next]_vars => [Delivery!Next]_(Delivery!vars)
  BY DeliveryStep
<1>3. QED
  BY <1>1, <1>2, ArpInvariant, PTL DEF Spec, DeliversAsPromised, Delivery!Spec
=============================================================================
