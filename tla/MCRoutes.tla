------------------------------ MODULE MCRoutes ------------------------------
(***************************************************************************)
(* The network of the lab (topo.py: r1-r2, r1-r3, r2-r4, r3-r4, hosts at   *)
(* r1 and r4), whole, with a link missing, with one more, and with r1 cut  *)
(* off.                                                                    *)
(***************************************************************************)
EXTENDS Routes

MCRouter == 1..4
MCStub == {1, 4}
Lab == {{1, 2}, {1, 3}, {2, 4}, {3, 4}}
MCGraphs == {Lab, Lab \ {{1, 2}}, Lab \cup {{2, 3}}, Lab \ {{1, 2}, {1, 3}}}
=============================================================================
