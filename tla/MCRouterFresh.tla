--------------------------- MODULE MCRouterFresh ----------------------------
(* RouterFresh on the small instances of MCRouter. *)
EXTENDS RouterFresh, MCRouter
=============================================================================
