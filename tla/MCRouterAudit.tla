--------------------------- MODULE MCRouterAudit ----------------------------
(* RouterAudit on the small instances of MCRouter. *)
EXTENDS RouterAudit, MCRouter
=============================================================================
