------------------------------- MODULE Router -------------------------------
(***************************************************************************)
(* One router.Router shared by the goroutines that call it: callers asking *)
(* for a routing decision, each possibly surveying first, the Poll loop,   *)
(* and whoever replaces the hosts or the held inventory while they run.    *)
(*                                                                         *)
(* Each field has its own lock and no lock is held across two of them, so  *)
(* every read or write of a field is a step of its own: a survey copies    *)
(* the hosts, reads each one, folds and publishes in separate steps, and   *)
(* one decision copies the host list up to three times.                    *)
(***************************************************************************)
EXTENDS Decision

CONSTANTS
  Caller,           \* goroutines answering OpRoute or calling RouteContext
  Poller,           \* goroutines surveying on a clock
  HostLists,        \* the configurations SetHosts installs
  HeldInventories,  \* the inventories SetHeld installs
  Observations,     \* Host -> what one read of it may find
  Requests,         \* the requests callers make
  MaxAsked,         \* the audit's length, 50 in the code
  NotRead, NoSurvey, NoSnapshot, NoRequest, NoDecision

Proc == Caller \cup Poller

ASSUME RouterAssumption ==
  /\ HostLists \subseteq Seq(Host)
  /\ HeldInventories \subseteq Held
  /\ Observations \in [Host -> SUBSET Observation]
  /\ Requests \subseteq Request
  /\ MaxAsked \in Nat \ {0}
  /\ Caller \cap Poller = {}
  /\ NotRead \notin Read
  /\ NoSnapshot \notin Snapshot
  /\ NoRequest \notin Request
  /\ NoDecision \notin DecisionRecord
  /\ NoSurvey \notin [list : Seq(Host), reads : Seq(Read \cup {NotRead})]

\* A server is named once in one configuration.
ASSUME DistinctNamesAssumption ==
  \A list \in HostLists : \A i, j \in DOMAIN list :
    NameOf[list[i]] = NameOf[list[j]] => i = j

VARIABLES
  hosts,     \* Router.hosts, in preference order
  held,      \* Router.held
  snap,      \* Router.snap, the published snapshot
  asked,     \* Router.asked, newest first
  pc,        \* where each goroutine stands
  req,       \* the request a caller is answering
  survey,    \* the survey a goroutine has in hand: the hosts it copied, its reads
  view,      \* the snapshot a goroutine holds: composed, or read to decide from
  lists,     \* the copies of the hosts one decision has taken so far
  decision   \* the decision a caller has reached

vars == <<hosts, held, snap, asked, pc, req, survey, view, lists, decision>>

Ask == [caller : Caller, model : Model, family : Family \cup {NoFamily},
        verdict : Verdict, server : ServerName \cup {NoServer}]

Survey == [list : Seq(Host), reads : Seq(Read \cup {NotRead})]

Label == {"idle", "reading", "composed", "latest", "profile", "rank",
          "explain", "record", "done", "stopped"}

Init ==
  /\ hosts \in HostLists
  /\ held \in HeldInventories
  /\ snap = Unsurveyed
  /\ asked = <<>>
  /\ pc = [p \in Proc |-> "idle"]
  /\ req = [c \in Caller |-> NoRequest]
  /\ survey = [p \in Proc |-> NoSurvey]
  /\ view = [p \in Proc |-> NoSnapshot]
  /\ lists = [c \in Caller |-> {}]
  /\ decision = [c \in Caller |-> NoDecision]

Goto(p, l) == pc' = [pc EXCEPT ![p] = l]

-----------------------------------------------------------------------------
(* Configuration *)

SetHosts ==
  /\ hosts' \in HostLists \ {hosts}
  /\ UNCHANGED <<held, snap, asked, pc, req, survey, view, lists, decision>>

SetHeld ==
  /\ held' \in HeldInventories \ {held}
  /\ UNCHANGED <<hosts, snap, asked, pc, req, survey, view, lists, decision>>

-----------------------------------------------------------------------------
(* SurveyContext *)

StartSurveyOf(p, list) ==
  /\ survey' = [survey EXCEPT ![p] =
       [list |-> list, reads |-> [i \in DOMAIN list |-> NotRead]]]
  /\ Goto(p, "reading")

\* Mutant: a survey reads the hosts the last one read.
StartSurveyAgain(p) == StartSurveyOf(p, snap.list)

\* The hosts are copied and one read per host starts.
StartSurvey(p) == StartSurveyOf(p, hosts)

\* Poll surveys at once and then at every tick.
PollTick(p) ==
  /\ pc[p] = "idle"
  /\ StartSurvey(p)
  /\ UNCHANGED <<hosts, held, snap, asked, req, view, lists, decision>>

\* Poll returns once stop is closed, after the survey in hand.
PollStop(p) ==
  /\ pc[p] = "idle"
  /\ Goto(p, "stopped")
  /\ UNCHANGED <<hosts, held, snap, asked, req, survey, view, lists, decision>>

\* The reads run in parallel and end in any order, each within its deadline.
ReadHost(p) ==
  /\ pc[p] = "reading"
  /\ \E i \in DOMAIN survey[p].list :
       /\ survey[p].reads[i] = NotRead
       /\ \E o \in Observations[survey[p].list[i]] :
            survey' = [survey EXCEPT ![p].reads[i] =
                         ReadOf(survey[p].list[i], o)]
  /\ UNCHANGED <<hosts, held, snap, asked, pc, req, view, lists, decision>>

\* Mutant: the fold waits for every host to answer.
AllUp(p) == \A i \in DOMAIN survey[p].list :
              survey[p].reads[i] # NotRead /\ survey[p].reads[i].up

AllRead(p) == \A i \in DOMAIN survey[p].list : survey[p].reads[i] # NotRead

\* Mutant: the hosts are copied again when their reads are folded.
ComposeRelisted(p) ==
  /\ pc[p] = "reading"
  /\ AllRead(p)
  /\ view' = [view EXCEPT ![p] =
       [Fold(survey[p].list, survey[p].reads, held) EXCEPT !.list = hosts]]
  /\ survey' = [survey EXCEPT ![p] = NoSurvey]
  /\ Goto(p, "composed")
  /\ UNCHANGED <<hosts, held, snap, asked, req, lists, decision>>

\* Every read is in: the held inventory is copied and the reads are folded.
Compose(p) ==
  /\ pc[p] = "reading"
  /\ AllRead(p)
  /\ view' = [view EXCEPT ![p] = Fold(survey[p].list, survey[p].reads, held)]
  /\ survey' = [survey EXCEPT ![p] = NoSurvey]
  /\ Goto(p, "composed")
  /\ UNCHANGED <<hosts, held, snap, asked, req, lists, decision>>

\* The fold replaces whatever snapshot stands, whichever survey it is from.
Publish(p) ==
  /\ pc[p] = "composed"
  /\ snap' = view[p]
  /\ view' = [view EXCEPT ![p] = NoSnapshot]
  /\ Goto(p, IF p \in Poller THEN "idle" ELSE "latest")
  /\ UNCHANGED <<hosts, held, asked, req, survey, lists, decision>>

\* A RouteContext caller gives up before it holds a snapshot to decide from:
\* the survey returns the context's error and nothing is published.
Cancel(c) ==
  /\ pc[c] \in {"reading", "composed", "latest"}
  /\ ~ req[c].audited
  /\ req' = [req EXCEPT ![c] = NoRequest]
  /\ survey' = [survey EXCEPT ![c] = NoSurvey]
  /\ view' = [view EXCEPT ![c] = NoSnapshot]
  /\ Goto(c, "idle")
  /\ UNCHANGED <<hosts, held, snap, asked, lists, decision>>

-----------------------------------------------------------------------------
(* Route and RouteContext *)

\* A fresh request surveys first.
AskFresh(c) ==
  /\ pc[c] = "idle"
  /\ \E r \in Requests : r.fresh /\ req' = [req EXCEPT ![c] = r]
  /\ StartSurvey(c)
  /\ UNCHANGED <<hosts, held, snap, asked, view, lists, decision>>

\* Any other reads the snapshot that stands.
AskCached(c) ==
  /\ pc[c] = "idle"
  /\ \E r \in Requests : ~ r.fresh /\ req' = [req EXCEPT ![c] = r]
  /\ view' = [view EXCEPT ![c] = snap]
  /\ Goto(c, "profile")
  /\ UNCHANGED <<hosts, held, snap, asked, survey, lists, decision>>

\* After its survey a fresh request reads the snapshot that stands by then.
ReadLatest(c) ==
  /\ pc[c] = "latest"
  /\ view' = [view EXCEPT ![c] = snap]
  /\ Goto(c, "profile")
  /\ UNCHANGED <<hosts, held, snap, asked, req, survey, lists, decision>>

AskedFamily(c) == FamilyAsked(view[c], req[c].model)

CopyHosts(c) == lists' = [lists EXCEPT ![c] = @ \cup {hosts}]

Conclude(c, d) ==
  /\ decision' = [decision EXCEPT ![c] = d]
  /\ Goto(c, IF req[c].audited THEN "record" ELSE "done")

\* A name of no family is refused before any host is looked at.
RefuseName(c) ==
  /\ pc[c] = "profile"
  /\ AskedFamily(c) = NoFamily
  /\ Conclude(c, Refusal("unparseable", NoFamily, {}))
  /\ UNCHANGED <<hosts, held, snap, asked, req, survey, view, lists>>

\* anyServes, over its own copy of the hosts.
CheckProfile(c) ==
  /\ pc[c] = "profile"
  /\ AskedFamily(c) # NoFamily
  /\ CopyHosts(c)
  /\ \/ /\ AnyServes(view[c], hosts, req[c].profile)
        /\ Goto(c, "rank")
        /\ UNCHANGED decision
     \/ /\ ~ AnyServes(view[c], hosts, req[c].profile)
        /\ Conclude(c, Refusal("no-host", AskedFamily(c), {}))
  /\ UNCHANGED <<hosts, held, snap, asked, req, survey, view>>

RankIn(c, list) ==
  LET f        == AskedFamily(c)
      first    == FirstPermitted(view[c], list, f, req[c])
      withheld == AllWithheld(view[c], list, f, req[c])
  IN \/ \E i \in first :
          \E m \in NameAsked(view[c], list[i], f, req[c].profile) :
            Conclude(c, Naming(view[c], list, f, req[c], i, m))
     \/ /\ first = {} /\ withheld # {}
        /\ Conclude(c, Refusal("unauthorised", f, withheld))
     \/ /\ first = {} /\ withheld = {}
        /\ Goto(c, "explain")
        /\ UNCHANGED decision

\* Mutant: the candidates are the hosts surveyed, not the hosts configured.
RankSurveyed(c) ==
  /\ pc[c] = "rank"
  /\ CopyHosts(c)
  /\ RankIn(c, view[c].list)
  /\ UNCHANGED <<hosts, held, snap, asked, req, survey, view>>

\* candidates, over another copy: the first one the request permits, or all of
\* them withheld, or none.
Rank(c) ==
  /\ pc[c] = "rank"
  /\ CopyHosts(c)
  /\ RankIn(c, hosts)
  /\ UNCHANGED <<hosts, held, snap, asked, req, survey, view>>

ExplainIn(c, list) ==
  Conclude(c, Refusal(UnansweredVerdict(view[c], list, AskedFamily(c)),
                      AskedFamily(c), {}))

\* The refusal's wording walks a third copy of the hosts.
Explain(c) ==
  /\ pc[c] = "explain"
  /\ CopyHosts(c)
  /\ ExplainIn(c, hosts)
  /\ UNCHANGED <<hosts, held, snap, asked, req, survey, view>>

AskOf(c) == [caller |-> c, model |-> req[c].model,
             family |-> decision[c].family, verdict |-> decision[c].verdict,
             server |-> decision[c].server]

\* Mutants: the audit is never cut, and is cut one short.
PrependUncut(e, s) == <<e>> \o s
PrependShort(e, s) == SubSeq(<<e>> \o s, 1,
                        IF Len(s) < MaxAsked THEN Len(s) + 1 ELSE MaxAsked - 1)

Prepend(e, s) == SubSeq(<<e>> \o s, 1,
                        IF Len(s) < MaxAsked THEN Len(s) + 1 ELSE MaxAsked)

\* Answer records the decision after it was made, under another lock.
Record(c) ==
  /\ pc[c] = "record"
  /\ asked' = Prepend(AskOf(c), asked)
  /\ Goto(c, "done")
  /\ UNCHANGED <<hosts, held, snap, req, survey, view, lists, decision>>

\* The answer is returned and the goroutine takes another call.
Return(c) ==
  /\ pc[c] = "done"
  /\ req' = [req EXCEPT ![c] = NoRequest]
  /\ view' = [view EXCEPT ![c] = NoSnapshot]
  /\ lists' = [lists EXCEPT ![c] = {}]
  /\ decision' = [decision EXCEPT ![c] = NoDecision]
  /\ Goto(c, "idle")
  /\ UNCHANGED <<hosts, held, snap, asked, survey>>

-----------------------------------------------------------------------------

SurveyStep(p) == ReadHost(p) \/ Compose(p) \/ Publish(p)

DecisionStep(c) == \/ ReadLatest(c) \/ RefuseName(c) \/ CheckProfile(c)
                   \/ Rank(c) \/ Explain(c) \/ Record(c) \/ Return(c)

Next ==
  \/ SetHosts \/ SetHeld
  \/ \E p \in Proc : SurveyStep(p)
  \/ \E p \in Poller : PollTick(p) \/ PollStop(p)
  \/ \E c \in Caller : \/ AskFresh(c) \/ AskCached(c) \/ Cancel(c)
                       \/ DecisionStep(c)

Spec == Init /\ [][Next]_vars

\* Goroutines run and every read ends; nothing makes callers call, hosts
\* change, a caller give up or Poll be stopped.
Fairness ==
  /\ \A p \in Proc : WF_vars(SurveyStep(p))
  /\ \A p \in Poller : WF_vars(PollTick(p))
  /\ \A c \in Caller : WF_vars(DecisionStep(c))

FairSpec == Spec /\ Fairness
=============================================================================
