--------------------------- MODULE MCServiceHost ---------------------------
(***************************************************************************)
(* One host that two goroutines try to serve, and two calls: a decision and *)
(* an offer, which differ in the right they need and in how they are       *)
(* refused.                                                                *)
(***************************************************************************)
EXTENDS ServiceHost

CONSTANTS s1, s2, c1, c2

MCServer == {s1, s2}
MCCall   == {c1, c2}
MCOpOf   == [c \in MCCall |-> IF c = c1 THEN "pick" ELSE "offer"]
=============================================================================
