------------------------------- MODULE MCMospf ------------------------------
(***************************************************************************)
(* Networks for Mospf.  The timers keep the order of the code's: a silent  *)
(* neighbour is dropped (3 hellos) before the next periodic LSU, which     *)
(* comes before a database entry is too old, which comes before two LSUs.  *)
(***************************************************************************)
EXTENDS Mospf

CONSTANTS r1, r2, r3

MCRouter == {r1, r2, r3}
Line == {{r1, r2}, {r2, r3}}
Triangle == {{r1, r2}, {r2, r3}, {r1, r3}}
=============================================================================
