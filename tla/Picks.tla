------------------------------- MODULE Picks -------------------------------
(***************************************************************************)
(* What a router promises the goroutines that share it: as if it had no    *)
(* reads, no folds, no ranking walks and no locks of its own.  A snapshot  *)
(* is published whole; a request is decided in one step, from one snapshot *)
(* and the configuration that stands at that step; what is decided is      *)
(* recorded once, before it is returned, and a request given up leaves     *)
(* nothing behind.                                                         *)
(*                                                                         *)
(* One thing is conceded.  Working out that nothing answers takes more     *)
(* than one look at the configuration, and a refusal worked out while it   *)
(* changed may be worded for neither.                                      *)
(***************************************************************************)
EXTENDS Naturals, Sequences

CONSTANTS
  Caller,
  Configurations,    \* the host lists that may be configured
  Surveyed,          \* the snapshots a survey may come to
  Unsurveyed,        \* the snapshot before any
  Requests,
  Decisions,
  Right(_, _, _, _), \* snapshot, configuration, request, decision: it is right
  Conceded(_, _, _), \* snapshot, request, decision: a refusal that may be wrong
  MaxAsked,          \* how many decisions the audit keeps
  NoSnapshot, NoRequest, NoDecision

VARIABLES
  hosts,      \* the configuration that stands
  snap,       \* the snapshot that stands
  asked,      \* the audit, newest first
  phase,      \* Caller -> "idle", "asked", "surveyed", "looked", "decided", "answered"
  req,        \* the request a caller makes
  view,       \* the snapshot it is decided from
  seen,       \* the configurations looked at to decide it
  decision    \* what is decided

calls == <<phase, req, view, seen, decision>>
vars  == <<hosts, snap, asked, calls>>

Init ==
  /\ hosts \in Configurations
  /\ snap = Unsurveyed
  /\ asked = <<>>
  /\ phase = [c \in Caller |-> "idle"]
  /\ req = [c \in Caller |-> NoRequest]
  /\ view = [c \in Caller |-> NoSnapshot]
  /\ seen = [c \in Caller |-> {}]
  /\ decision = [c \in Caller |-> NoDecision]

Goto(c, f) == phase' = [phase EXCEPT ![c] = f]

Looks(c) == seen' = [seen EXCEPT ![c] = @ \cup {hosts}]

-----------------------------------------------------------------------------

\* Another configuration is installed.
Configure ==
  /\ hosts' \in Configurations
  /\ UNCHANGED <<snap, asked, calls>>

\* A survey nobody waits for replaces the snapshot.
Publish ==
  /\ snap' \in Surveyed
  /\ UNCHANGED <<hosts, asked, calls>>

-----------------------------------------------------------------------------

\* A fresh request waits for a survey of its own.
AskFresh(c) ==
  /\ phase[c] = "idle"
  /\ \E r \in Requests : r.fresh /\ req' = [req EXCEPT ![c] = r]
  /\ Goto(c, "asked")
  /\ UNCHANGED <<hosts, snap, asked, view, seen, decision>>

SurveyFor(c) ==
  /\ phase[c] = "asked"
  /\ snap' \in Surveyed
  /\ Goto(c, "surveyed")
  /\ UNCHANGED <<hosts, asked, req, view, seen, decision>>

\* It is decided from the snapshot that stands by then.
Look(c) ==
  /\ phase[c] = "surveyed"
  /\ view' = [view EXCEPT ![c] = snap]
  /\ Goto(c, "looked")
  /\ UNCHANGED <<hosts, snap, asked, req, seen, decision>>

\* Any other request is decided from the snapshot that stands.
AskCached(c) ==
  /\ phase[c] = "idle"
  /\ \E r \in Requests : ~ r.fresh /\ req' = [req EXCEPT ![c] = r]
  /\ view' = [view EXCEPT ![c] = snap]
  /\ Goto(c, "looked")
  /\ UNCHANGED <<hosts, snap, asked, seen, decision>>

\* A caller whose request is not audited may give up waiting for a survey.
GiveUp(c) ==
  /\ phase[c] \in {"asked", "surveyed"}
  /\ ~ req[c].audited
  /\ req' = [req EXCEPT ![c] = NoRequest]
  /\ Goto(c, "idle")
  /\ UNCHANGED <<hosts, snap, asked, view, seen, decision>>

\* The configuration is looked at before anything is decided.
Glance(c) ==
  /\ phase[c] = "looked"
  /\ Looks(c)
  /\ UNCHANGED <<hosts, snap, asked, phase, req, view, decision>>

\* What is decided is right of the configuration that stands, or it is a
\* refusal that another configuration had a part in.
Decide(c) ==
  LET d == decision'[c]
  IN /\ phase[c] = "looked"
     /\ d \in Decisions
     /\ decision' = [decision EXCEPT ![c] = d]
     /\ Looks(c) \/ UNCHANGED seen
     /\ \/ Right(view[c], hosts, req[c], d)
        \/ seen'[c] \ {hosts} # {} /\ Conceded(view[c], req[c], d)
     /\ Goto(c, IF req[c].audited THEN "decided" ELSE "answered")
     /\ UNCHANGED <<hosts, snap, asked, req, view>>

\* The audit takes in what was decided and lets go of the oldest beyond
\* MaxAsked.
Record(c) ==
  LET entry == [caller |-> c, model |-> req[c].model,
                family |-> decision[c].family, verdict |-> decision[c].verdict,
                server |-> decision[c].server]
  IN /\ phase[c] = "decided"
     /\ Len(asked') = IF Len(asked) < MaxAsked THEN Len(asked) + 1 ELSE MaxAsked
     /\ asked'[1] = entry
     /\ \A i \in 1..Len(asked) : i < MaxAsked => asked'[i + 1] = asked[i]
     /\ Goto(c, "answered")
     /\ UNCHANGED <<hosts, snap, req, view, seen, decision>>

Return(c) ==
  /\ phase[c] = "answered"
  /\ req' = [req EXCEPT ![c] = NoRequest]
  /\ view' = [view EXCEPT ![c] = NoSnapshot]
  /\ seen' = [seen EXCEPT ![c] = {}]
  /\ decision' = [decision EXCEPT ![c] = NoDecision]
  /\ Goto(c, "idle")
  /\ UNCHANGED <<hosts, snap, asked>>

-----------------------------------------------------------------------------

Next ==
  \/ Configure \/ Publish
  \/ \E c \in Caller :
       \/ AskFresh(c) \/ SurveyFor(c) \/ Look(c) \/ AskCached(c) \/ GiveUp(c)
       \/ Glance(c) \/ Decide(c) \/ Record(c) \/ Return(c)

Spec == Init /\ [][Next]_vars
=============================================================================
