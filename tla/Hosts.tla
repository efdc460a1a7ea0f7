-------------------------------- MODULE Hosts --------------------------------
(***************************************************************************)
(* The readers of servers and the answers to what is asked of them, one at *)
(* a time: they share nothing but the survey that starts them and the      *)
(* snapshot it leaves.  The first step decides which of them runs.         *)
(***************************************************************************)
EXTENDS Integers, Sequences, FiniteSets

CONSTANTS
  None,                                       \* of everything that may be missing
  Survey, RemoteDeclared, Runtimes, MaxChanges,           \* Remote
  Providers, Outcomes, Elsewhere, Ids,                    \* Hosted
  Listings, Healths, Workers,                             \* Lemonade
  Servers, Kinds, Abilities, Threshold,                   \* Adapters
  Holders,                                                \* Unload
  Environments, Declarations, Addresses, AnyAddress, NoHost,  \* Declared
  Absent, Unreadable, Malformed,
  Sources, Found, Requests, MaxAsked, MaxDecided, MaxPolls  \* Answers

\* A remote reports any lengths, the negative ones included.
ASSUME RemoteAssumption ==
  /\ MaxChanges \in Nat
  /\ \A r \in Runtimes :
       r.aliases \in Seq([name : STRING, profiles : SUBSET STRING, maximum : Int,
                          effective : Int, servable : BOOLEAN])

\* Entries of a Lemonade listing that have one id are one model, and a health
\* report gives what is loaded a size.
ASSUME LemonadeAssumption ==
  /\ Workers \in Nat
  /\ None \notin Healths
  /\ \A ms \in Listings :
       /\ ms \in Seq([id : STRING, checkpoint : STRING \cup {None}, cloud : BOOLEAN,
                      downloaded : BOOLEAN, max : Int, length : Int, planned : Int])
       /\ \A i, j \in DOMAIN ms : ms[i].id = ms[j].id => ms[i] = ms[j]
  /\ \A h \in Healths : \A n \in DOMAIN h.all : h.all[n].size \in Int

\* What is known is told apart from what is not.
ASSUME AdaptersAssumption ==
  /\ \A s \in Servers : s.models \in Seq([name : STRING, type : STRING, loaded : BOOLEAN,
                                         max : Int, able : SUBSET STRING \cup {None}])
  /\ \A t \in DOMAIN Kinds : Kinds[t] # None
  /\ \A ps \in SUBSET {Abilities[c] : c \in DOMAIN Abilities} : ps # None

\* This runtime is not a provider, and a word an applier refuses with is no
\* mark of one.
ASSUME HostedAssumption ==
  /\ None \notin Providers /\ None \notin Outcomes
  /\ "applies" \notin Outcomes
  /\ \A p \in Providers : p.target # Elsewhere

\* What a server lists has identifiers that may be empty, and a key.
ASSUME UnloadAssumption ==
  /\ None \notin {"released", "failed", "no_unload"}
  /\ \A h \in Holders : h.held \in Seq([id : STRING, instance_id : STRING,
                                       identifier : STRING, key : STRING \ {""}])

\* Entries have words, and a server that declares none serves some profile.
\* LM Studio's configurations come newest layout first, and this machine's own
\* address is an IP address, which is no text that names no host.
ASSUME DeclaredAssumption ==
  /\ None \notin Environments /\ Absent \notin {Unreadable, Malformed}
  /\ \A e \in Environments : e.lmstudio \in
       Seq({Absent, Unreadable, Malformed} \cup [port : Int, host : STRING \cup {None}])
  /\ {"127.0.0.1", "::1"} \cap {None, AnyAddress.four, AnyAddress.six} = {}
  /\ {"127.0.0.1", "::1"} \subseteq Addresses
  /\ Addresses \cap (NoHost \cup {None}) = {}
  /\ None \notin Declarations
  /\ \A d \in Declarations :
       /\ d.entries \in Seq(Seq(STRING) \ {<<>>})
       /\ d.profiles \in Seq(STRING) \ {<<>>}
       /\ None \notin {d.profiles[i] : i \in DOMAIN d.profiles}

\* None of the surveys in hand is none.
ASSUME AnswersAssumption ==
  /\ MaxAsked \in Nat \ {0} /\ MaxDecided \in Nat /\ MaxPolls \in Nat
  /\ None \notin Sources /\ \A s \in Sources : s.fails \in BOOLEAN
  /\ \A found \in Found : IsFiniteSet(found) /\ \A a \in found : a.resident \in BOOLEAN
  /\ None \notin [found : Found,
                   held : [found : Found \cup {{}}, rows : {s.rows : s \in Sources} \cup {<<>>},
                           why : {"", "no source", "source failed"},
                           source : Sources \cup {None}, read : BOOLEAN]]

VARIABLES
  part,   \* what runs
  runtime, changes, link, remoteAt, listing, read,
  applier, provider, hostedAt, headers, sent, ids, why, cause,
  listed, health, lemonadeAt, lemonadeNames, lemonadeResident, models, known,
  jobs, busy, resolved, lemonadeContexts,
  server, seen, adapterAt, installed, resident, profiles, contexts, left,
  holder, unloadAt, queue, asked, failures, outcome,
  environment, hosts, reasons, declaration, scoped,
  wired, surveys, polls, snap, audit, decided, channel, answersAt, request, before,
  view, reply

Remote == INSTANCE Remote WITH
  Declared <- RemoteDeclared, at <- remoteAt

Hosted == INSTANCE Hosted WITH
  at <- hostedAt, installed <- ids

Lemonade == INSTANCE Lemonade WITH
  at <- lemonadeAt, installed <- lemonadeNames, resident <- lemonadeResident,
  contexts <- lemonadeContexts

Adapters == INSTANCE Adapters WITH at <- adapterAt

Unload == INSTANCE Unload WITH at <- unloadAt

Declared == INSTANCE Declared

Answers == INSTANCE Answers WITH at <- answersAt

-----------------------------------------------------------------------------

RemoteVars   == <<runtime, changes, link, remoteAt, listing, read>>
HostedVars   == <<applier, provider, hostedAt, headers, sent, ids, why, cause>>
LemonadeVars == <<listed, health, lemonadeAt, lemonadeNames, lemonadeResident, models,
                  known, jobs, busy, resolved, lemonadeContexts>>
AdaptersVars == <<server, seen, adapterAt, installed, resident, profiles, contexts, left>>
UnloadVars   == <<holder, unloadAt, queue, asked, failures, outcome>>
DeclaredVars == <<environment, hosts, reasons, declaration, scoped>>
AnswersVars  == <<wired, surveys, polls, snap, audit, decided, channel, answersAt,
                  request, before, view, reply>>

Init ==
  /\ part = "none"
  /\ Remote!Init
  /\ Hosted!Init
  /\ Lemonade!Init
  /\ Adapters!Init
  /\ Unload!Init
  /\ Declared!Init
  /\ Answers!Init

Starts(p) == part \in {"none", p} /\ part' = p

Next ==
  \/ Starts("remote") /\ Remote!Next
     /\ UNCHANGED <<HostedVars, LemonadeVars, AdaptersVars, UnloadVars, DeclaredVars, AnswersVars>>
  \/ Starts("hosted") /\ Hosted!Next
     /\ UNCHANGED <<RemoteVars, LemonadeVars, AdaptersVars, UnloadVars, DeclaredVars, AnswersVars>>
  \/ Starts("lemonade") /\ Lemonade!Next
     /\ UNCHANGED <<RemoteVars, HostedVars, AdaptersVars, UnloadVars, DeclaredVars, AnswersVars>>
  \/ Starts("adapters") /\ Adapters!Next
     /\ UNCHANGED <<RemoteVars, HostedVars, LemonadeVars, UnloadVars, DeclaredVars, AnswersVars>>
  \/ Starts("unload") /\ Unload!Next
     /\ UNCHANGED <<RemoteVars, HostedVars, LemonadeVars, AdaptersVars, DeclaredVars, AnswersVars>>
  \/ Starts("declared") /\ Declared!Next
     /\ UNCHANGED <<RemoteVars, HostedVars, LemonadeVars, AdaptersVars, UnloadVars, AnswersVars>>
  \/ Starts("answers") /\ Answers!Next
     /\ UNCHANGED <<RemoteVars, HostedVars, LemonadeVars, AdaptersVars, UnloadVars, DeclaredVars>>

Spec == Init /\ [][Next]_<<part, RemoteVars, HostedVars, LemonadeVars,
                             AdaptersVars, UnloadVars, DeclaredVars, AnswersVars>>

-----------------------------------------------------------------------------

\* Every reader keeps its types and the bounds of its work: an unload has an
\* outcome exactly when it is over, no options are fetched by more workers than
\* there are, a server that is down has nothing read of it, and the audit keeps
\* to its bound (remote.go, hosted.go, hosts.go, unload.go, declared.go,
\* router.go record).
TypeOK ==
  Remote!TypeOK /\ Hosted!TypeOK /\ Lemonade!TypeOK /\ Adapters!TypeOK
  /\ Unload!TypeOK /\ Declared!TypeOK /\ Answers!TypeOK

\* Surveys of one remote runtime that share its link read contexts and profiles
\* that one listing had (remote.go List, ReadContexts, ReadProfiles).
OneListingRead == Remote!OneListingRead

\* No redirect takes a provider's credential elsewhere (hosted.go
\* hostedRequestClient).
CredentialStaysHome == Hosted!CredentialStaysHome

\* A provider that is down has a reason and a cause that agree on what was sent,
\* and on whether there was an address to send it to
\* (hosted.go readHosted, availability.go).
DownSaysWhy == Hosted!DownSaysWhy

\* Lemonade's contexts are its models', whichever fetches fail and in whatever
\* order the options arrive (hosts.go lemonadeModelContexts).
LemonadeReadTrue == Lemonade!LemonadeReadTrue

\* What is read of a local server that changes meanwhile was so at some moment
\* of the read (hosts.go, profiles.go).
AdaptersReadTrue == Adapters!AdaptersReadTrue

\* An unload asks every instance to go and reports a failure of any (unload.go
\* unloadLMStudio, unloadOllama).
UnloadAsksAll == Unload!UnloadAsksAll

\* A product is declared in its turn, by a sound record of its own (declared.go
\* Declared).
DeclaredFromItsRecord == Declared!DeclaredFromItsRecord

\* A model is listed for the profiles its server is asked to serve it for
\* (native.go DeclaredEntry, ROUTE-D9).
ScopedAsDeclared == Declared!ScopedAsDeclared

\* A residency answer, put together from a snapshot and the audit, is that of
\* one source and leaves out no earlier decision (service.go Answer).
AnswersWhole == Answers!AnswersWhole
=============================================================================
