------------------------------ MODULE Decision ------------------------------
(***************************************************************************)
(* Router.routeSnapshot and the functions it calls, over one snapshot s    *)
(* and, at each place the code reads r.Hosts(), one list of hosts.         *)
(*                                                                         *)
(* The code ranks candidates by walking the host list three times: hosts   *)
(* that hold the family, hosts that would load it, hosted hosts.  Here a   *)
(* candidate is a position of the list, and Before orders positions by     *)
(* that walk.                                                              *)
(***************************************************************************)
EXTENDS Inventory

CONSTANTS
  NoAllowance,   \* a request that names no allowance
  NoHost         \* no Host value

ASSUME DecisionAssumption == NoHost \notin Host

Verdict == {"resident", "would-load", "hosted", "unservable", "not-here",
            "unparseable", "unauthorised", "no-host"}

\* allowed is the request's list of servers in its own order; audited tells
\* Answer, which records what it decided, from RouteContext, which does not
\* and whose caller may cancel.
Request == [model : Model, profile : Profile,
            allowed : {NoAllowance} \cup Seq(ServerName),
            fresh : BOOLEAN, audited : BOOLEAN]

\* endpoint is the Host value whose address the decision carries.
DecisionRecord == [verdict : Verdict, family : Family \cup {NoFamily},
                   server : ServerName \cup {NoServer},
                   endpoint : Host \cup {NoHost},
                   model : Model \cup {NoModel},
                   withheld : SUBSET ServerName]

-----------------------------------------------------------------------------
(* The family asked for *)

\* Only a name some host serves was catalogued under a family; any other name
\* is its own parse.
FamilyAsked(s, m) ==
  LET named == {a \in s.aliases : a.server # NoServer /\ a.name = m}
  IN IF named = {} THEN Parsed[m] ELSE (CHOOSE a \in named : TRUE).family

InstalledOn(s, f) ==
  {a.server : a \in {b \in s.aliases : b.family = f /\ b.server # NoServer}}

-----------------------------------------------------------------------------
(* What a host serves *)

Serves(s, h, m, p) ==
  LET own == s.profiles[NameOf[h]]
  IN IF m \in own.names THEN p \in own.of[m] ELSE p \in HostProfiles[h]

\* The names of family f host h is catalogued under and serves for p.
Serving(s, h, f, p) ==
  {a.name : a \in {b \in s.aliases : /\ b.family = f
                                     /\ b.server = NameOf[h]
                                     /\ Serves(s, h, b.name, p)}}

HeldServing(s, h, f, p) ==
  {a.name : a \in {b \in s.aliases : /\ b.family = f /\ b.resident
                                     /\ b.server = NameOf[h]
                                     /\ Serves(s, h, b.name, p)}}

\* A host with names catalogued serves a profile when one of those names does;
\* a host with none, when the host itself does.
HostServes(s, h, p) ==
  LET own == {a \in s.aliases : a.server = NameOf[h]}
  IN IF own = {} THEN p \in HostProfiles[h]
     ELSE \E a \in own : Serves(s, h, a.name, p)

\* A list with no servable host answers true.
AnyServes(s, list, p) ==
  LET servable == {i \in DOMAIN list : list[i] \in Servable}
  IN servable = {} \/ \E i \in servable : HostServes(s, list[i], p)

-----------------------------------------------------------------------------
(* Candidates, best first *)

Holds(s, h, f, p)    == /\ h \in Servable \ Hosted
                        /\ HeldServing(s, h, f, p) # {}
WouldLoad(s, h, f, p) == /\ h \in Servable \ Hosted
                         /\ HeldServing(s, h, f, p) = {}
                         /\ Serving(s, h, f, p) # {}
ListsHosted(s, h, f, p) == /\ h \in Servable \cap Hosted
                           /\ Serving(s, h, f, p) # {}

\* 1 for a host that holds the family, 2 for one that would load it, 3 for a
\* hosted one, 0 for a host that is no candidate.
Tier(s, h, f, p) == CASE Holds(s, h, f, p) -> 1
                      [] WouldLoad(s, h, f, p) -> 2
                      [] ListsHosted(s, h, f, p) -> 3
                      [] OTHER -> 0

Candidates(s, list, f, p) == {i \in DOMAIN list : Tier(s, list[i], f, p) # 0}

Before(s, list, f, p, i, j) ==
  \/ Tier(s, list[i], f, p) < Tier(s, list[j], f, p)
  \/ Tier(s, list[i], f, p) = Tier(s, list[j], f, p) /\ i < j

\* Mutant: an empty allowance is taken for an absent one.
PermitsWhenEmpty(r, server) ==
  r.allowed \in {NoAllowance, <<>>} \/ server \in Range(r.allowed)

Permits(r, server) == r.allowed = NoAllowance \/ server \in Range(r.allowed)

\* The first candidate the request permits, as a set of at most one position.
FirstPermitted(s, list, f, r) ==
  LET permitted == {i \in Candidates(s, list, f, r.profile) :
                      Permits(r, NameOf[list[i]])}
  IN {i \in permitted : \A j \in permitted \ {i} :
                          Before(s, list, f, r.profile, i, j)}

\* The candidates passed over before position i, all of them refused.
WithheldBefore(s, list, f, r, i) ==
  {NameOf[list[j]] : j \in {k \in Candidates(s, list, f, r.profile) :
                              Before(s, list, f, r.profile, k, i)}}

Least(names) == {m \in names : \A n \in names : m <= n}

\* Mutant: a host's own choice of name is taken whatever it serves.
NameAskedUnjudged(s, h, f, p) ==
  LET held == HeldServing(s, h, f, p)
  IN IF h \notin Hosted /\ held # {} THEN Least(held)
     ELSE {s.pick[f][NameOf[h]]}

\* The name a candidate is asked by: the first build it holds, or the host's
\* own choice when that serves the profile, or the first name that does.
NameAsked(s, h, f, p) ==
  LET held == HeldServing(s, h, f, p)
      own  == s.pick[f][NameOf[h]]
  IN IF h \notin Hosted /\ held # {} THEN Least(held)
     ELSE IF own \in Serving(s, h, f, p) THEN {own}
     ELSE Least(Serving(s, h, f, p))

\* The verdict of each tier.
VerdictOf == <<"resident", "would-load", "hosted">>

-----------------------------------------------------------------------------
(* Decisions *)

Refusal(v, f, withheld) ==
  [verdict |-> v, family |-> f, server |-> NoServer, endpoint |-> NoHost,
   model |-> NoModel, withheld |-> withheld]

Naming(s, list, f, r, i, m) ==
  [verdict |-> VerdictOf[Tier(s, list[i], f, r.profile)], family |-> f,
   server |-> NameOf[list[i]], endpoint |-> list[i], model |-> m,
   withheld |-> WithheldBefore(s, list, f, r, i)]

AllWithheld(s, list, f, r) ==
  {NameOf[list[i]] : i \in Candidates(s, list, f, r.profile)}

\* Mutant: a host no call can be routed to counts as one that could serve.
UnansweredByAnyHost(s, list, f) ==
  LET on == InstalledOn(s, f)
  IN IF \E i \in DOMAIN list : NameOf[list[i]] \in on
     THEN "no-host"
     ELSE IF on # {} THEN "unservable" ELSE "not-here"

\* Why nothing answers, once no host is a candidate.
UnansweredVerdict(s, list, f) ==
  LET on == InstalledOn(s, f)
  IN IF \E i \in DOMAIN list : list[i] \in Servable /\ NameOf[list[i]] \in on
     THEN "no-host"
     ELSE IF on # {} THEN "unservable" ELSE "not-here"
=============================================================================
