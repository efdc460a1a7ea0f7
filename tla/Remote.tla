------------------------------- MODULE Remote -------------------------------
(***************************************************************************)
(* Another runtime, read by surveys that run at once.  A survey lists its  *)
(* models, then reads the contexts and the profiles the listing came with, *)
(* then its servers.  What came with a listing is kept in one link that    *)
(* all surveys of the runtime share, so a survey may read what another's   *)
(* listing left there.                                                     *)
(***************************************************************************)
EXTENDS ModelContext, Sequences, FiniteSets, SequencesExt

CONSTANTS
  Survey,      \* surveys of the runtime
  Declared,    \* the profiles this runtime declared for it
  Runtimes,    \* what it may hold: [aliases |-> a listing, hosts |-> its servers]
  MaxChanges   \* how often what it holds changes

VARIABLES
  runtime,   \* what the remote runtime holds now
  changes,   \* how often that has changed
  link,      \* remoteLink, with the listing it was filled from
  at,        \* where each survey stands
  listing,   \* what each survey was told of the models
  read       \* what each survey has made of it

vars == <<runtime, changes, link, at, listing, read>>

Nothing == [names |-> {}, contexts |-> <<>>, contextsOf |-> <<>>,
            profiles |-> <<>>, profilesOf |-> <<>>, domain |-> {}]

Init ==
  /\ runtime = [aliases |-> <<>>, hosts |-> {}]
  /\ changes = 0
  /\ link = [contexts |-> <<>>, profiles |-> <<>>, of |-> <<>>]
  /\ at = [s \in Survey |-> "idle"]
  /\ listing = [s \in Survey |-> <<>>]
  /\ read = [s \in Survey |-> Nothing]

Goto(s, l) == at' = [at EXCEPT ![s] = l]

\* The remote runtime goes on meanwhile.
Change ==
  /\ changes < MaxChanges
  /\ runtime' \in Runtimes \ {runtime}
  /\ changes' = changes + 1
  /\ UNCHANGED <<link, at, listing, read>>

-----------------------------------------------------------------------------
(* Folding a listing, one alias after another *)

Served(aliases) == {a \in ToSet(aliases) : a.servable}

NamesIn(aliases) == {a.name : a \in Served(aliases)}

Observed(a) == modelContext(a.maximum, a.effective)

With(f, name, v) == [n \in DOMAIN f \cup {name} |-> IF n = name THEN v ELSE f[n]]

\* The smallest bound among the aliases of a name.
Tighten(f, a) ==
  IF a.servable /\ (a.name \notin DOMAIN f \/ smallerBound(Observed(a), f[a.name]))
  THEN With(f, a.name, Observed(a)) ELSE f

Tightening == INSTANCE Walk WITH Step <- Tighten

ContextsIn(aliases) == Tightening!Over(aliases, <<>>)

\* The profiles of all the aliases of a name, unless one of them has none.
Gather(f, a) ==
  IF ~ a.servable THEN f
  ELSE With(f, a.name, a.profiles \cup IF a.name \in DOMAIN f THEN f[a.name] ELSE {})

Gathering == INSTANCE Walk WITH Step <- Gather

ProfilesIn(aliases) ==
  LET all        == Gathering!Over(aliases, <<>>)
      unreported == {a.name : a \in {b \in Served(aliases) : b.profiles = {}}}
  IN [n \in DOMAIN all \ unreported |-> all[n]]

-----------------------------------------------------------------------------
(* One survey *)

\* A listing that fails leaves the runtime down, whatever failed it.
List(s) ==
  /\ at[s] = "idle"
  /\ \/ listing' = [listing EXCEPT ![s] = runtime.aliases] /\ Goto(s, "listed")
     \/ Goto(s, "down") /\ UNCHANGED listing
  /\ UNCHANGED <<runtime, changes, link, read>>

\* Both maps are replaced under one lock.
Store(s) ==
  /\ at[s] = "listed"
  /\ link' = [contexts |-> ContextsIn(listing[s]), profiles |-> ProfilesIn(listing[s]),
              of |-> listing[s]]
  /\ read' = [read EXCEPT ![s].names = NamesIn(listing[s])]
  /\ Goto(s, "stored")
  /\ UNCHANGED <<runtime, changes, listing>>

ReadContexts(s) ==
  /\ at[s] = "stored"
  /\ read' = [read EXCEPT
       ![s].contexts = [n \in read[s].names \cap DOMAIN link.contexts |->
                          link.contexts[n]],
       ![s].contextsOf = link.of]
  /\ Goto(s, "contexts")
  /\ UNCHANGED <<runtime, changes, link, listing>>

\* Every name gets an entry: the declared profiles among those reported for
\* it, or all of them when none are.
ReadProfiles(s) ==
  /\ at[s] = "contexts"
  /\ read' = [read EXCEPT
       ![s].profiles = [n \in read[s].names |->
                          Declared \cap IF n \in DOMAIN link.profiles
                                        THEN link.profiles[n] ELSE Declared],
       ![s].profilesOf = link.of]
  /\ Goto(s, "profiles")
  /\ UNCHANGED <<runtime, changes, link, listing>>

\* The remote's servers are listed in its domain, or not when asking fails.
ReadDomain(s) ==
  /\ at[s] = "profiles"
  /\ \E domain \in {runtime.hosts, {}} : read' = [read EXCEPT ![s].domain = domain]
  /\ Goto(s, "up")
  /\ UNCHANGED <<runtime, changes, link, listing>>

Step(s) == List(s) \/ Store(s) \/ ReadContexts(s) \/ ReadProfiles(s) \/ ReadDomain(s)

Next == Change \/ \E s \in Survey : Step(s)

-----------------------------------------------------------------------------

TypeOK ==
  /\ changes \in 0..MaxChanges
  /\ at \in [Survey -> {"idle", "listed", "stored", "contexts", "profiles", "up", "down"}]
  /\ \A s \in Survey : at[s] \in {"idle", "down"} => read[s] = Nothing

AliasesOf(aliases, name) ==
  {a \in Served(aliases) : a.name = name}

\* A context known for a name is one the listing has, and one as soon as an
\* alias of the name has a limit, of which none is smaller; with no alias
\* listed it is not known.
ContextFits(aliases, name, f) ==
  LET seen == {Observed(a) : a \in AliasesOf(aliases, name)}
  IN IF seen = {} THEN name \notin DOMAIN f
     ELSE /\ name \in DOMAIN f /\ f[name] \in seen
          /\ \A c \in seen : bound(c) > 0 => bound(f[name]) # 0 /\ bound(f[name]) <= bound(c)

\* A name serves what every one of its aliases says it serves together, of
\* what is declared; a name one alias of which says nothing serves all.
ProfilesFit(aliases, name, served) ==
  LET reported == {a.profiles : a \in AliasesOf(aliases, name)}
  IN served = Declared \cap IF {} \in reported \cup {UNION reported} THEN Declared
                            ELSE UNION reported

\* Whatever surveys share the link, the contexts a survey reads are all of one
\* listing, and the profiles of one listing, which may be another: the smallest
\* bound of a name's aliases and the profiles of all of them (remote.go).
OneListingRead ==
  \A s \in Survey :
    /\ at[s] \in {"contexts", "profiles", "up"} =>
         \A name \in read[s].names :
           ContextFits(read[s].contextsOf, name, read[s].contexts)
    /\ at[s] \in {"profiles", "up"} =>
         \A name \in read[s].names :
           ProfilesFit(read[s].profilesOf, name, read[s].profiles[name])
=============================================================================
