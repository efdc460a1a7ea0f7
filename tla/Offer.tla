------------------------------- MODULE Offer -------------------------------
(***************************************************************************)
(* Router.OfferContext behind the offer arm of Answer: the families a      *)
(* caller may ask for, each with the names and servers counted and one     *)
(* conservative context.                                                   *)
(*                                                                         *)
(* The request, the snapshot's aliases and the hosts are chosen at the     *)
(* start, the hosts apart from the aliases: SetHosts replaces them and     *)
(* keeps the last snapshot.  A remote runtime's own Offer is external; it  *)
(* may answer with any offers, fail, or not know the method.  The walk     *)
(* over hosts, offers and aliases takes one at a time in any order, which  *)
(* covers every order a snapshot and a host list can have; the order names *)
(* and servers are written in is left out.                                 *)
(***************************************************************************)
EXTENDS Integers, FiniteSetsExt

CONSTANTS
  Host,           \* Host values
  ServerName,     \* Host.Name
  Family, Name, Profile,
  Domain,         \* the servers a remote runtime may have of its own
  NameOf,         \* Host -> ServerName
  Servable,       \* the hosts with a route a call can be sent to
  Hosted,         \* the hosts off this machine
  Remote,         \* the hosts that are remote runtimes
  AtLoad,         \* the hosts that fix their window when a model is loaded
  HostProfiles,   \* Host -> the profiles the host itself serves
  DefaultContext, \* Profile -> its default context, 0 without a window
  Itself,         \* a server that is no remote's
  Unreported,     \* an alias whose profiles no server named
  Inventories,    \* the sets of aliases a snapshot may hold
  Configurations, \* the sets of hosts a router may have
  Requests,       \* the requests asked
  RemoteAnswers   \* what a remote's Offer may answer

Placement == {"local", "hosted", "any"}
Source    == {"effective", "maximum", "default"}

Alias == [server : ServerName, family : Family, name : Name, servable : BOOLEAN,
          profiles : (SUBSET Profile) \cup {Unreported},
          maximum : Nat, effective : Nat]

\* placement may be a word that is no placement, and reserve negative.
Request == [profile : Profile, placement : STRING, reserve : Int]

RemoteOffer == [family : Family, names : SUBSET Name, servers : SUBSET Domain,
                context : Nat, source : Source \cup {"unknown", "none"},
                unknown : SUBSET Name]

RemoteAnswer == [kind : {"offered", "failed", "unknown_method"},
                 offers : SUBSET RemoteOffer]

ASSUME OfferAssumption ==
  /\ NameOf \in [Host -> ServerName]
  /\ DefaultContext \in [Profile -> Nat]
  /\ Itself \notin Domain
  /\ \A i \in Inventories : \A a \in i : a \in Alias
  /\ \A c \in Configurations :
       /\ c \subseteq Host
       /\ \A g, h \in c : NameOf[g] = NameOf[h] => g = h
  /\ \A r \in Requests : r \in Request
  /\ \A a \in RemoteAnswers : a \in RemoteAnswer

Unasked == [kind |-> "unasked", offers |-> {}]

\* What one family's fold holds; source is "none" until something is counted.
Fold == [open : BOOLEAN, names : SUBSET Name,
         servers : SUBSET (ServerName \X (Domain \cup {Itself})),
         unknown : SUBSET (ServerName \X Name), windowUnknown : BOOLEAN,
         bound : Nat, source : Source \cup {"none"}]

NewFold == [open |-> FALSE, names |-> {}, servers |-> {}, unknown |-> {},
            windowUnknown |-> FALSE, bound |-> 0, source |-> "none"]

\* What a caller is offered of a family.
FamilyOffer == [names : SUBSET Name,
                servers : SUBSET (ServerName \X (Domain \cup {Itself})),
                context : Nat, source : Source \cup {"unknown", "none"},
                input : Nat, unknown : SUBSET (ServerName \X Name)]

VARIABLES
  aliases,   \* the snapshot's aliases
  hosts,     \* the hosts copied
  request,
  stage,     \* "check", "fold" or "done"
  toAsk,     \* the remotes not asked yet
  answers,   \* what each remote answered
  offered,   \* the offers of the remote asked last still to be folded
  todo,      \* the aliases still to be looked at
  folds,     \* Family -> Fold
  outcome,   \* "offered" or "invalid" when done
  offers     \* family -> FamilyOffer, for the families offered

vars == <<aliases, hosts, request, stage, toAsk, answers, offered, todo, folds,
          outcome, offers>>

inputs == <<aliases, hosts, request>>

-----------------------------------------------------------------------------
(* What is counted *)

Admits(placement, h) ==
  /\ placement = "local"  => h \notin Hosted
  /\ placement = "hosted" => h \in Hosted

\* A tie of two bounds is the better source's.
SourceRank(source) ==
  CASE source = "effective" -> 0 [] source = "maximum" -> 1 [] OTHER -> 2

ValidEffective(effective, maximum) ==
  IF maximum > 0 /\ effective > maximum THEN 0 ELSE effective

\* Mutant: the smallest bound keeps the source that came first.
TighterFirst(f, bound, source) == f.source = "none" \/ bound < f.bound

Tighter(f, bound, source) ==
  \/ f.source = "none"
  \/ bound < f.bound
  \/ bound = f.bound /\ SourceRank(source) < SourceRank(f.source)

Count(f, bound, source) ==
  IF Tighter(f, bound, source)
  THEN [f EXCEPT !.bound = bound, !.source = source] ELSE f

\* The bound of an alias and its source, "unknown" on a server that fixes its
\* window at load and reported none.
AliasBound(a, h, fallback) ==
  LET effective == ValidEffective(a.effective, a.maximum)
  IN CASE effective > 0 -> [bound |-> effective, source |-> "effective"]
       [] effective = 0 /\ h \in AtLoad -> [bound |-> 0, source |-> "unknown"]
       [] effective = 0 /\ h \notin AtLoad /\ a.maximum > 0
            -> [bound |-> a.maximum, source |-> "maximum"]
       [] OTHER -> [bound |-> fallback, source |-> "default"]

Fallback == DefaultContext[request.profile]
Windowed == Fallback > 0

\* Mutant: a remote that failed its offer is counted by its listing.
AnsweredOffers(h) == answers[h].kind = "offered"

\* The remotes the listing no longer speaks for.
Answered(h) == answers[h].kind \in {"offered", "failed"}

Serves(a, h) ==
  IF a.profiles = Unreported THEN request.profile \in HostProfiles[h]
                             ELSE request.profile \in a.profiles

Counts(a, h) ==
  /\ NameOf[h] = a.server
  /\ a.servable
  /\ h \in Servable
  /\ ~ Answered(h)
  /\ Admits(request.placement, h)
  /\ Serves(a, h)

-----------------------------------------------------------------------------

Init ==
  /\ aliases \in Inventories
  /\ hosts \in Configurations
  /\ request \in Requests
  /\ stage = "check"
  /\ toAsk = {}
  /\ answers = [h \in Host |-> Unasked]
  /\ offered = {}
  /\ todo = {}
  /\ folds = [f \in Family |-> NewFold]
  /\ outcome = "none"
  /\ offers = [f \in {} |-> NewFold]

Valid == request.placement \in Placement /\ request.reserve >= 0

\* A request that means nothing is refused with no data.
Refuse ==
  /\ stage = "check" /\ ~ Valid
  /\ stage' = "done"
  /\ outcome' = "invalid"
  /\ UNCHANGED <<inputs, toAsk, answers, offered, todo, folds, offers>>

Start ==
  /\ stage = "check" /\ Valid
  /\ stage' = "fold"
  /\ toAsk' = {h \in hosts \cap Remote :
                 h \in Servable /\ Admits(request.placement, h)}
  /\ todo' = aliases
  /\ UNCHANGED <<inputs, answers, offered, folds, outcome, offers>>

\* One remote is asked and answers, fails, or does not know the method.
AskRemote(h) ==
  /\ stage = "fold" /\ offered = {}
  /\ h \in toAsk
  /\ toAsk' = toAsk \ {h}
  /\ \E a \in RemoteAnswers :
       /\ answers' = [answers EXCEPT ![h] = a]
       /\ offered' = IF a.kind = "offered" THEN {h} \X a.offers ELSE {}
  /\ UNCHANGED <<inputs, stage, todo, folds, outcome, offers>>

Extend(f, names, servers, unknown) ==
  [f EXCEPT !.open = TRUE, !.names = @ \cup names, !.servers = @ \cup servers,
            !.unknown = @ \cup unknown]

LoseWindow(f) == [f EXCEPT !.windowUnknown = TRUE]

WithOffer(f, h, o) ==
  LET named == Extend(f, o.names, {NameOf[h]} \X o.servers,
                      {NameOf[h]} \X o.unknown)
  IN CASE o.source \in Source  -> Count(named, o.context, o.source)
       [] o.source = "unknown" -> LoseWindow(named)
       [] o.source = "none"    -> named

\* One offer of the remote is folded into its family.
FoldOffer ==
  /\ stage = "fold"
  /\ \E ho \in offered :
       /\ offered' = offered \ {ho}
       /\ folds' = [folds EXCEPT ![ho[2].family] = WithOffer(@, ho[1], ho[2])]
  /\ UNCHANGED <<inputs, stage, toAsk, answers, todo, outcome, offers>>

WithAlias(f, a, h) ==
  LET b     == AliasBound(a, h, Fallback)
      named == Extend(f, {a.name}, {<<NameOf[h], Itself>>}, {})
  IN IF ~ Windowed THEN named
     ELSE IF b.source = "unknown"
     THEN LoseWindow(Extend(named, {}, {}, {<<NameOf[h], a.name>>}))
     ELSE Count(named, b.bound, b.source)

\* Once the remotes are done, one alias is looked at.
FoldAlias(a) ==
  /\ stage = "fold" /\ toAsk = {} /\ offered = {}
  /\ a \in todo
  /\ todo' = todo \ {a}
  /\ \/ /\ \A h \in hosts : ~ Counts(a, h)
        /\ UNCHANGED folds
     \/ \E h \in hosts :
          /\ Counts(a, h)
          /\ folds' = [folds EXCEPT ![a.family] = WithAlias(@, a, h)]
  /\ UNCHANGED <<inputs, stage, toAsk, answers, offered, outcome, offers>>

\* Mutant: the input may be what the reserve lacks.
InputUnfloored(context) == context - request.reserve

InputOf(context) ==
  IF context > request.reserve THEN context - request.reserve ELSE 0

OfferOf(f) ==
  LET source == CASE ~ Windowed -> "none"
                  [] Windowed /\ f.windowUnknown -> "unknown"
                  [] OTHER -> f.source
      known  == source \in Source
  IN [names |-> f.names, servers |-> f.servers,
      context |-> IF known THEN f.bound ELSE 0,
      source |-> source,
      input |-> IF known THEN InputOf(f.bound) ELSE 0,
      unknown |-> IF source = "unknown" THEN f.unknown ELSE {}]

Conclude ==
  /\ stage = "fold" /\ toAsk = {} /\ offered = {} /\ todo = {}
  /\ stage' = "done"
  /\ outcome' = "offered"
  /\ offers' = [f \in {g \in Family : folds[g].open} |-> OfferOf(folds[f])]
  /\ UNCHANGED <<inputs, toAsk, answers, offered, todo, folds>>

Next ==
  \/ Refuse
  \/ Start
  \/ \E h \in Host : AskRemote(h)
  \/ FoldOffer
  \/ \E a \in todo : FoldAlias(a)
  \/ Conclude

Spec == Init /\ [][Next]_vars

-----------------------------------------------------------------------------
(* The contract of an offer, in CONTRACT.md's words *)

\* The hosts a placement counts.
Placed(h) == \/ request.placement = "any"
             \/ (request.placement = "hosted") = (h \in Hosted)

\* The remotes a request is owed the offers of.
Owed == {h \in hosts : h \in Remote /\ h \in Servable /\ Placed(h)}

\* The aliases an offer counts for f, each with its host.
CountedAliases(f) ==
  {ah \in aliases \X hosts :
     LET a == ah[1]
         h == ah[2]
     IN /\ a.family = f /\ a.servable
        /\ NameOf[h] = a.server /\ h \in Servable
        /\ answers[h].kind \notin {"offered", "failed"}
        /\ Placed(h)
        /\ request.profile \in
             IF a.profiles = Unreported THEN HostProfiles[h] ELSE a.profiles}

\* The offers those remotes made of f, each with its remote.
RemoteOffers(f) ==
  {ho \in UNION {{h} \X answers[h].offers : h \in Owed} :
     answers[ho[1]].kind = "offered" /\ ho[2].family = f}

HasEffective(a) ==
  a.effective > 0 /\ (a.maximum = 0 \/ a.effective <= a.maximum)

\* "its own server's valid effective length, else its maximum, else the
\* profile's catalogue default".
BoundOf(a) ==
  IF HasEffective(a) THEN <<a.effective, "effective">>
  ELSE IF a.maximum > 0 THEN <<a.maximum, "maximum">>
  ELSE <<DefaultContext[request.profile], "default">>

\* "a server that fixes its request window at load and reports no valid
\* effective length".
Windowless(f) ==
  {ah \in CountedAliases(f) : ah[2] \in AtLoad /\ ~ HasEffective(ah[1])}

Bounds(f) ==
  {BoundOf(ah[1]) : ah \in CountedAliases(f) \ Windowless(f)} \cup
  {<<ho[2].context, ho[2].source>> :
      ho \in {x \in RemoteOffers(f) : x[2].source \in Source}}

\* The better bound: the smaller, and of two equal ones the one a server
\* reported before a maximum before a default.
AsTight(b, c) ==
  \/ b[1] < c[1]
  \/ b[1] = c[1] /\ SourceRank(b[2]) <= SourceRank(c[2])

-----------------------------------------------------------------------------
(* Properties *)

\* Every variable has its type.
TypeOK ==
  /\ aliases \in Inventories /\ hosts \in Configurations /\ request \in Requests
  /\ stage \in {"check", "fold", "done"}
  /\ toAsk \subseteq hosts \cap Remote
  /\ answers \in [Host -> RemoteAnswers \cup {Unasked}]
  /\ offered \subseteq Host \X RemoteOffer
  /\ todo \subseteq aliases
  /\ folds \in [Family -> Fold]
  /\ outcome \in {"none", "offered", "invalid"}
  /\ DOMAIN offers \subseteq Family
  /\ \A f \in DOMAIN offers : offers[f] \in FamilyOffer

\* CONTRACT.md ROUTE-D8 and ROUTE-S4, what is counted: a family is offered
\* exactly when an alias or a remote's offer counts for it, under all of their
\* names and servers; a remote that answered its own Offer is counted by it
\* alone, one that failed not at all, and one that does not know the method by
\* the aliases it listed.  A refused request carries nothing.
CountsEachOnce ==
  stage = "done" =>
    /\ outcome = "invalid" => DOMAIN offers = {}
    /\ outcome = "offered" =>
         /\ \A h \in Host : answers[h] # Unasked <=> h \in Owed
         /\ DOMAIN offers =
              {f \in Family : CountedAliases(f) # {} \/ RemoteOffers(f) # {}}
         /\ \A f \in DOMAIN offers :
              /\ offers[f].names =
                   {ah[1].name : ah \in CountedAliases(f)} \cup
                   UNION {ho[2].names : ho \in RemoteOffers(f)}
              /\ offers[f].servers =
                   {<<NameOf[ah[2]], Itself>> : ah \in CountedAliases(f)} \cup
                   UNION {{NameOf[ho[1]]} \X ho[2].servers : ho \in RemoteOffers(f)}

\* CONTRACT.md ROUTE-D8, the context: no counted alias or remote offer has a
\* tighter bound than the one offered, which is one of theirs under its own
\* source; a counted alias without a window makes the whole family's unknown,
\* and every such alias is named; input is never below zero.
ConservativeContext ==
  stage = "done" /\ outcome = "offered" =>
    \A f \in DOMAIN offers :
      LET o       == offers[f]
          unknown == \/ Windowless(f) # {}
                     \/ \E ho \in RemoteOffers(f) : ho[2].source = "unknown"
      IN IF DefaultContext[request.profile] > 0 /\ ~ unknown /\ Bounds(f) # {}
         THEN /\ <<o.context, o.source>> \in Bounds(f)
              /\ \A b \in Bounds(f) : AsTight(<<o.context, o.source>>, b)
              /\ o.input = IF o.context - request.reserve < 0 THEN 0
                           ELSE o.context - request.reserve
              /\ o.unknown = {}
         ELSE /\ o.context = 0 /\ o.input = 0
              /\ IF DefaultContext[request.profile] > 0 /\ unknown
                 THEN /\ o.source = "unknown"
                      /\ {<<NameOf[ah[2]], ah[1].name>> : ah \in Windowless(f)}
                           \subseteq o.unknown
                 ELSE o.source = "none" /\ o.unknown = {}
=============================================================================
