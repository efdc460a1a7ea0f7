-------------------------- MODULE RouterProperties --------------------------
(***************************************************************************)
(* What Router promises the callers of Pick: the outcome contract of       *)
(* ROUTE-E1, stated over sets of hosts without the code's ranking walk,    *)
(* and the invariants and liveness properties of the concurrent router.    *)
(***************************************************************************)
EXTENDS Router

TypeOK ==
  /\ hosts \in HostLists
  /\ held \in HeldInventories
  /\ snap \in Snapshot
  /\ asked \in Seq(Ask) /\ Len(asked) <= MaxAsked
  /\ pc \in [Proc -> Label]
  /\ req \in [Caller -> Request \cup {NoRequest}]
  /\ survey \in [Proc -> Survey \cup {NoSurvey}]
  /\ view \in [Proc -> Snapshot \cup {NoSnapshot}]
  /\ lists \in [Caller -> SUBSET HostLists]
  /\ decision \in [Caller -> DecisionRecord \cup {NoDecision}]

-----------------------------------------------------------------------------
(* The outcome contract, ROUTE-E1 with ROUTE-D2, D4 and D9 *)

\* The aliases of family f that host h serves for profile p, by snapshot s.
ServedAliases(s, h, f, p) ==
  {a \in s.aliases : /\ a.family = f /\ a.server = NameOf[h]
                     /\ Serves(s, h, a.name, p)}

\* The hosts that could serve family f for p, and those of them on this
\* machine that already hold it.
Able(s, list, f, p) ==
  {h \in Range(list) : h \in Servable /\ ServedAliases(s, h, f, p) # {}}
Holders(s, list, f, p) ==
  {h \in Able(s, list, f, p) \ Hosted :
     \E a \in ServedAliases(s, h, f, p) : a.resident}

\* The servers a request accepts: every one when it names none, else those it
\* lists, and so none when it lists none.
Allows(r, server) ==
  r.allowed # NoAllowance => \E k \in DOMAIN r.allowed : r.allowed[k] = server

\* A decision d on request r is what the contract asks for when the snapshot
\* is s and the configured hosts are list.
MeetsContract(s, list, r, d) ==
  LET f       == FamilyAsked(s, r.model)
      able    == Able(s, list, f, r.profile)
      holders == Holders(s, list, f, r.profile)
      allowed == {h \in Range(list) : Allows(r, NameOf[h])}
      routed  == {h \in Range(list) \cap Servable : NameOf[h] \in InstalledOn(s, f)}
  IN /\ d.family = f
     /\ d.verdict = "unparseable" <=> f = NoFamily
     /\ d.verdict = "resident" => d.endpoint \in holders \cap allowed
     /\ d.verdict = "would-load" =>
          /\ holders \cap allowed = {}
          /\ d.endpoint \in (able \cap allowed) \ Hosted
     /\ d.verdict = "hosted" =>
          /\ (able \cap allowed) \ Hosted = {}
          /\ d.endpoint \in able \cap allowed \cap Hosted
     /\ d.verdict = "unauthorised" =>
          /\ able # {} /\ able \cap allowed = {}
          /\ d.withheld = {NameOf[h] : h \in able}
     /\ d.verdict = "no-host" =>
          /\ able = {}
          /\ routed # {} \/ ~ AnyServes(s, list, r.profile)
     /\ d.verdict = "unservable" =>
          able = {} /\ routed = {} /\ InstalledOn(s, f) # {}
     /\ d.verdict = "not-here" => able = {} /\ InstalledOn(s, f) = {}

Decided(c) == decision[c] # NoDecision

Answered == {"resident", "would-load", "hosted", "unauthorised"}

-----------------------------------------------------------------------------
(* Invariants *)

AnswerMeets(c) ==
  Decided(c) /\ decision[c].verdict \in Answered =>
    \E list \in lists[c] : MeetsContract(view[c], list, req[c], decision[c])

\* However SetHosts, surveys and other callers interleave with a decision, one
\* that names a host, or withholds hosts, is what ROUTE-E1 asks for under the
\* snapshot it read and one host list that was configured while it decided:
\* no second copy is loaded beside a permitted holder, a hosted server is
\* named only when no permitted local one can serve, and nothing outside the
\* allowance is named.
AnswerMeetsContract == \A c \in Caller : AnswerMeets(c)

UndisturbedMeets(c) ==
  Decided(c) =>
    \A list \in lists[c] :
      lists[c] = {list} => MeetsContract(view[c], list, req[c], decision[c])

\* A decision that no SetHosts overlaps, refusals included, is the contract's.
UndisturbedMeetsContract == \A c \in Caller : UndisturbedMeets(c)

\* The same of every refusal, SetHosts or not.  The code does not keep this:
\* one decision can mix two configurations.
RefusalMeetsContract ==
  \A c \in Caller : Decided(c) /\ decision[c].verdict \notin Answered =>
    lists[c] = {} \/
    \E list \in lists[c] : MeetsContract(view[c], list, req[c], decision[c])

ModelServed(s, r, d) ==
  LET served == ServedAliases(s, d.endpoint, d.family, r.profile)
  IN /\ \E a \in served : /\ a.name = d.model /\ a.server = d.server
                          /\ d.verdict = "resident" => a.resident
     /\ d.verdict = "would-load" => \A a \in served : ~ a.resident

NamedIsServed(c) ==
  Decided(c) /\ decision[c].server # NoServer =>
    ModelServed(view[c], req[c], decision[c])

\* The model a decision names is a build of the family asked for, catalogued
\* on the server named and served there for the profile, by its own profiles
\* when it has any; a resident verdict names a build the server holds and a
\* would-load one a server holding no build it serves (ROUTE-D3, ROUTE-D9).
NamedModelIsServed == \A c \in Caller : NamedIsServed(c)

\* Among the permitted local hosts of one rank the caller's own order of the
\* allowance decides (ROUTE-D2).  The code ranks them by its own host order.
AllowanceOrderKept ==
  \A c \in Caller :
    Decided(c) /\ decision[c].server # NoServer
               /\ req[c].allowed # NoAllowance =>
      LET d     == decision[c]
          order == req[c].allowed
          list  == CHOOSE l \in lists[c] : d.endpoint \in Range(l)
          rank(h) == Tier(view[c], h, d.family, req[c].profile)
          place(s) == Min({k \in DOMAIN order : order[k] = s})
      IN \A h \in Range(list) :
           NameOf[h] \in Range(order) /\ rank(h) = rank(d.endpoint) =>
             place(d.server) <= place(NameOf[h])

PicksHeldBuild(s) ==
  \A f \in Family : \A n \in ServerName :
    LET builds == {a \in s.aliases : a.family = f /\ a.server = n}
    IN /\ builds # {} =>
            \E a \in builds : /\ a.name = s.pick[f][n]
                              /\ a.resident \/ \A b \in builds : ~ b.resident
       /\ builds = {} => s.pick[f][n] = NoModel
       /\ builds # {} => n \in s.up

\* In the published snapshot a server's own choice of name for a family is one
\* of the names catalogued there for it, and a build the server already holds
\* whenever it holds one (ROUTE-D3); every server catalogued was up.
SnapshotPicksHeldBuild == PicksHeldBuild(snap)

-----------------------------------------------------------------------------
(* The router as its callers see it *)

\* What a survey of one configuration, with one storage inventory, may make of
\* what its hosts answer.
ReadsOf(h) == {ReadOf(h, o) : o \in Observations[h]}

SurveysOf(list) ==
  {reads \in [DOMAIN list -> UNION {ReadsOf(h) : h \in Range(list)}] :
     \A i \in DOMAIN list : reads[i] \in ReadsOf(list[i])}

Surveyed ==
  UNION {{Fold(list, reads, hold) : reads \in SurveysOf(list),
                                    hold \in HeldInventories} : list \in HostLists}

\* A decision is right when it is the contract's and the model it names served.
Right(s, list, r, d) ==
  /\ MeetsContract(s, list, r, d)
  /\ d.server # NoServer => ModelServed(s, r, d)

\* The three words for nothing that answers.
Conceded(s, r, d) ==
  \E v \in {"no-host", "unservable", "not-here"} :
    d = Refusal(v, FamilyAsked(s, r.model), {})

Choosing  == {"profile", "rank", "explain"}
Answering == {"record", "done"}

\* How far along a caller is, by its label.
Phase(l) == CASE l = "idle"                    -> "idle"
              [] l \in {"reading", "composed"} -> "asked"
              [] l = "latest"                  -> "surveyed"
              [] l \in Choosing                -> "looked"
              [] l = "record"                  -> "decided"
              [] OTHER                         -> "answered"

Phases == [c \in Caller |-> Phase(pc[c])]

\* A fold a caller has yet to publish is no snapshot it decides from.
Views == [c \in Caller |-> IF pc[c] \in Choosing \cup Answering THEN view[c]
                           ELSE NoSnapshot]

Promised == INSTANCE Picks WITH
  Configurations <- HostLists, Decisions <- DecisionRecord,
  phase <- Phases, view <- Views, seen <- lists

\* The router implements Picks: however surveys, SetHosts, SetHeld, Poll and
\* other callers interleave, a decision taken from up to three looks at the
\* configuration is one step of a caller that looks once, save for refusals a
\* SetHosts overlaps; a snapshot is one configuration's reads folded with one
\* inventory; each audited decision enters the audit once, in turn.
PicksKept == Promised!Spec

-----------------------------------------------------------------------------
(* Liveness *)

\* Every caller that asks is answered, a cancelled one with its error, however
\* the surveys of other goroutines and SetHosts interleave with it.
CallersAnswered == \A c \in Caller : pc[c] # "idle" ~> pc[c] = "idle"

\* While Poll runs, a configuration that stays reaches the snapshot and stays
\* there, older surveys that publish late included.
SnapshotFollowsHosts ==
  \A list \in HostLists :
    <>[](hosts = list /\ \E p \in Poller : pc[p] # "stopped") =>
      <>[](snap.list = list)
=============================================================================
