----------------------------- MODULE MCArpCache -----------------------------
(***************************************************************************)
(* A router with host h1 behind i1 and host h2 behind i2.  Packet p1 goes  *)
(* from h2 to h1, so an error about it goes back to h2; the error about    *)
(* that error goes to the router's own address r2, where nobody answers.   *)
(* Packet p2 goes to h1 as well, from an address without a route.          *)
(***************************************************************************)
EXTENDS ArpCache, TLC

CONSTANTS i1, i2, h1, h2, r2, m1, m2, p1, p2

MCIface  == {i1, i2}
MCIP     == {h1, h2, r2}
MCMAC    == {m1, m2}
MCPacket == {p1, p2}
MCHeader == {"data", "orphan", "error", "self"}
MCOrigin == (p1 :> "data") @@ (p2 :> "orphan")
MCVia    == [data |-> <<i1, h1>>, orphan |-> <<i1, h1>>,
             error |-> <<i2, h2>>, self |-> <<i2, r2>>]
MCError  == [data |-> "error", orphan |-> NoRoute,
             error |-> "self", self |-> "self"]
MCOwner  == {<<h1, m1>>, <<h2, m2>>}
MCSlot1  == 0..0
MCSlot2  == 0..1
=============================================================================
