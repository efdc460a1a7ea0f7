---------------------------- MODULE RouterFresh ----------------------------
(***************************************************************************)
(* Router with history variables that order the surveys by their starts,   *)
(* for what a request that asked for a fresh survey is answered from.  No  *)
(* guard reads them.                                                       *)
(***************************************************************************)
EXTENDS RouterProperties

VARIABLES
  older,    \* Proc -> the goroutines whose survey in hand began before its own
  stale,    \* the callers whose last survey began after that of the snapshot
  outrun    \* the callers deciding from a snapshot stale for them

freshVars == <<vars, older, stale, outrun>>

Surveying(p) == pc[p] \in {"reading", "composed"}

FreshInit == /\ Init
             /\ older = [p \in Proc |-> {}]
             /\ stale = {}
             /\ outrun = {}

Starts(p) == survey[p] = NoSurvey /\ survey'[p] # NoSurvey
Ends(p)   == Surveying(p) /\ pc'[p] \notin {"reading", "composed"}
Publishes(p) == /\ pc[p] = "composed"
                /\ pc'[p] = IF p \in Poller THEN "idle" ELSE "latest"
ReadsBack(c) == pc[c] = "latest" /\ pc'[c] = "profile"

OrderSurveys ==
  /\ older' = [p \in Proc |->
       IF Starts(p) THEN {q \in Proc \ {p} : Surveying(q)}
       ELSE older[p] \ {q \in Proc : Ends(q)}]
  /\ stale' = IF \E p \in Proc : Publishes(p)
              THEN {c \in Caller : \E p \in older[c] : Publishes(p)}
              ELSE stale
  /\ outrun' = {c \in Caller : \/ c \in outrun /\ pc'[c] # "idle"
                               \/ ReadsBack(c) /\ c \in stale}

FreshNext == Next /\ OrderSurveys

FreshSpec == FreshInit /\ [][FreshNext]_freshVars

-----------------------------------------------------------------------------

\* A request that asked for a fresh survey decides from one that began no
\* earlier than its own.  The code does not keep this: a slower survey begun
\* earlier may publish over it before the snapshot is read back.
FreshIsFresh == outrun = {}
=============================================================================
