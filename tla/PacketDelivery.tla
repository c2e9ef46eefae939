--------------------------- MODULE PacketDelivery ---------------------------
(***************************************************************************)
(* What iface_send_packet_by_arp promises its callers: a packet handed to  *)
(* the ARP layer waits, and then exactly one thing happens to it.  It is   *)
(* emitted to a MAC that belongs to its next hop, or it gives way to the   *)
(* ICMP error about it, or it is freed because no route leads back.  How   *)
(* mappings are learned, and when the layer gives up, is not said here.    *)
(***************************************************************************)
CONSTANTS Packet, Header, MAC, Origin, Error, NoRoute,
          Reach     \* Reach[h]: the MACs of the next hop of header h

VARIABLES fresh, waiting, sent, dropped, hdr

vars == <<fresh, waiting, sent, dropped, hdr>>

Init ==
    /\ fresh = Packet
    /\ waiting = {}
    /\ sent = {}
    /\ dropped = {}
    /\ hdr = Origin

Accept(p) ==
    /\ p \in fresh
    /\ fresh' = fresh \ {p}
    /\ waiting' = waiting \cup {p}
    /\ UNCHANGED <<sent, dropped, hdr>>

\* One MAC learned may release several packets at once.
Emit(S, m) ==
    /\ S # {}
    /\ \A p \in S : m \in Reach[hdr[p]]
    /\ waiting' = waiting \ S
    /\ sent' = sent \cup (S \X {m})
    /\ UNCHANGED <<fresh, dropped, hdr>>

Report(p) ==
    /\ p \in waiting
    /\ Error[hdr[p]] # NoRoute
    /\ hdr' = [hdr EXCEPT ![p] = Error[hdr[p]]]
    /\ UNCHANGED <<fresh, waiting, sent, dropped>>

Discard(p) ==
    /\ p \in waiting
    /\ Error[hdr[p]] = NoRoute
    /\ waiting' = waiting \ {p}
    /\ dropped' = dropped \cup {p}
    /\ UNCHANGED <<fresh, sent, hdr>>

Next ==
    \/ \E p \in Packet : Accept(p) \/ Report(p) \/ Discard(p)
    \/ \E S \in SUBSET waiting, m \in MAC : Emit(S, m)

Spec == Init /\ [][Next]_vars
=============================================================================
