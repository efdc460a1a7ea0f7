---------------------------- MODULE RouterAudit ----------------------------
(***************************************************************************)
(* Router with one history variable, for what the routing audit promises   *)
(* callers that decide and record concurrently.  No guard reads it.        *)
(***************************************************************************)
EXTENDS RouterProperties

VARIABLE newer    \* Caller -> the records made since its own, up to MaxAsked

auditVars == <<vars, newer>>

AuditInit == Init /\ newer = [c \in Caller |-> 0]

RecordsOne == \E c \in Caller : pc[c] = "record" /\ pc'[c] = "done"

CountRecords ==
  newer' = [c \in Caller |->
    IF pc[c] # "done" \/ pc'[c] # "done" THEN 0
    ELSE IF RecordsOne /\ newer[c] < MaxAsked THEN newer[c] + 1
    ELSE newer[c]]

AuditNext == Next /\ CountRecords

AuditSpec == AuditInit /\ [][AuditNext]_auditVars

-----------------------------------------------------------------------------

\* A decision is in the audit before its caller is answered, and stays there,
\* as it was made, until MaxAsked newer ones have been recorded: concurrent
\* callers lose none of them and displace none out of turn (ROUTE-U1).
AuditKeepsAnswered ==
  \A c \in Caller :
    pc[c] = "done" /\ req[c].audited /\ newer[c] < MaxAsked =>
      newer[c] < Len(asked) /\ asked[newer[c] + 1] = AskOf(c)
=============================================================================
